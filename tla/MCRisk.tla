------------------------------- MODULE MCRisk -------------------------------
(***************************************************************************)
(* The two limits on what a live engine may lose: the router's ledger and  *)
(* the venue's dead-man switch.  A behaviour exercises one of them.        *)
(***************************************************************************)
EXTENDS MCLedger

CONSTANTS
  Horizon, Rearm, Answer, Skew, Backoff, MaxTriggers, Lead, MaxHorizon,
  RefusalsToPark, Day, Start, MaxTime, MaxToggles, MaxFaults

VARIABLES
  which,   \* the part at work
  now, sw, want, polled, post, limbo, held, off, eligible, calm, toggles, faults

Switch == INSTANCE DeadMan

ASSUME SwitchAssumption == Switch!DeadManAssumption

switchVars == <<now, sw, want, polled, post, limbo, held, off, eligible, calm,
                toggles, faults>>
riskVars == <<which, mcvars, switchVars>>

\* The part that rests has one initial state.
RiskInit ==
  /\ which \in {"ledger", "switch"}
  /\ MCInit /\ Switch!Init
  /\ which = "ledger" => ~want /\ off = 0 /\ eligible /\ held = 0
  /\ which = "switch" => focus = "days" /\ kind = "linear" /\ stake[One] = 0

InLedger(A) == which = "ledger" /\ A /\ UNCHANGED <<which, focus, switchVars>>
InSwitch(A) == which = "switch" /\ A /\ UNCHANGED <<which, mcvars>>

\* The next-state relation of each, action by action.
RiskNext ==
  \/ InLedger(Orders) \/ InLedger(Matches) \/ InLedger(Ends) \/ InLedger(Retires)
  \/ InLedger(BookFill) \/ InLedger(Seeds(FoundAt))
  \/ InLedger(Looks({"clamps"}) /\ Asks(QtysIn, PricesIn)) \/ InLedger(Looks({"clamps"}) /\ Lands)
  \/ InLedger(Looks({"clamps"}) /\ Refusals)
  \/ InLedger(Looks({"clamps", "marks"}) /\ Arrivals(SymsIn, PricesIn))
  \/ InLedger(Looks({"clamps", "marks"}) /\ Ageing)
  \/ InLedger(Looks({"clamps", "marks"}) /\ Settlements)
  \/ InLedger(Looks({"clamps", "marks"}) /\ ExpireMarks)
  \/ InLedger(Looks({"days"}) /\ Midnight) \/ InLedger(Looks({"days"}) /\ Restart)
  \/ InLedger(Looks({"days"}) /\ Reoffer)
  \/ InSwitch(Switch!Poll) \/ InSwitch(Switch!Answered) \/ InSwitch(Switch!Rejected)
  \/ InSwitch(Switch!Unanswered) \/ InSwitch(Switch!Sign) \/ InSwitch(Switch!HeldUp)
  \/ InSwitch(Switch!Land) \/ InSwitch(Switch!Fire)
  \/ InSwitch(\E p \in limbo : Switch!LandLate(p))
  \/ \E why \in {"refused", "limited"} : InSwitch(Switch!Refuse(why))
  \/ InSwitch(Switch!Toggle) \/ InSwitch(Switch!Tick)

RiskSpec == RiskInit /\ [][RiskNext]_riskVars

\* DeadMan: no time the venue holds, or may still come to hold, lies beyond
\* what the switch counts with.
ScheduleIsKnown == Switch!ScheduleIsKnown

\* DeadMan: while the arm wants it and the switch is not parked, the venue holds
\* a schedule from a period and an answer into every calm on.
WantedIsArmed == Switch!WantedIsArmed

\* DeadMan: while it is not wanted, the switch is quiescent two answers after
\* the last unrest.
ShutdownQuiesces == Switch!ShutdownQuiesces
=============================================================================
