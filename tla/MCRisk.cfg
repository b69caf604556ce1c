CONSTANTS
    Syms = {a, b}
    One = a
    MaxOids = 3
    Qtys = {1, 2}
    Prices = {1, 2}
    Stakes = {0, 3}
    MaxOrder = 2
    MaxOpen = 2
    CapInstance = 2
    CapDay = 4
    CapPerp = 3
    MaxResting = 4
    MaxDay = 2
    Focuses = {"clamps", "marks", "days"}
    Rearm = 2
    Answer = 2
    Skew = 1
    Lead = 2
    Horizon = 6
    MaxHorizon = 7
    Backoff = 7
    MaxTriggers = 1
    RefusalsToPark = 3
    Day = 14
    Start = 4
    MaxTime = 18
    MaxToggles = 1
    MaxFaults = 2
SPECIFICATION RiskSpec
INVARIANT NeverOverCap
INVARIANT NeverTrapped
 
INVARIANT AggregatesAreExact
INVARIANT ScheduleIsKnown
INVARIANT WantedIsArmed
INVARIANT ShutdownQuiesces
CHECK_DEADLOCK FALSE
