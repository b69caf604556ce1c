CONSTANTS
    Syms = {a}
    One = a
    MaxOids = 4
    Qtys = {1, 2, 3}
    Prices = {2}
    Stakes = {3}
    MaxOrder = 6
    MaxOpen = 2
    CapInstance = 6
    CapDay = 1
    CapPerp = 1
    MaxResting = 1
    MaxDay = 1
    Focuses = {"exits"}
SPECIFICATION MCSpec
INVARIANT SpentDayOpensNothing
CHECK_DEADLOCK FALSE
