----------------------------- MODULE MCProgress -----------------------------
(***************************************************************************)
(* What must get somewhere: a halted slot gets flat (RoutedHalt), the arm  *)
(* answers a sweep (QueuedArm), the member's book reaches its file         *)
(* (StatePersist).  Checked side by side: a behaviour exercises one of the *)
(* three while the others rest.                                            *)
(***************************************************************************)
EXTENDS StatePersist, RoutedHalt

CONSTANTS
  o1, CmdCap, EvtCap, LaneCap, HeldCap,   \* QueuedArm
  EvtRoomMin, CmdBurst, DrainBatch, Rounds, MaxSweeps

VARIABLES
  which,   \* the part at work
  cmd, evt, lane, req, word, g, held, lost, oot, cancels, taken, sweep,
  listing, life, inbox, inFlight, retired, asked, pending, stopped, resting,
  booked, ticked, backlog, early, confirmed

Gateway == INSTANCE QueuedArm WITH Oids <- {o1}, rows <- resting

armVars == <<cmd, evt, lane, req, word, g, held, lost, oot, cancels, taken,
             sweep, listing, life, inbox, inFlight, retired, asked, pending,
             stopped, resting, booked, ticked, backlog, early, confirmed>>
mcvars == <<which, persistVars, vars, armVars>>

MCInit == /\ which \in {"halt", "sweep", "book"}
          /\ PersistInit /\ Init /\ Gateway!Init

InBook(A) == which = "book" /\ A /\ UNCHANGED <<which, vars, armVars>>
InHalt(A) == which = "halt" /\ A /\ UNCHANGED <<which, persistVars, armVars>>
InSweep(A) == which = "sweep" /\ A /\ UNCHANGED <<which, persistVars, vars>>

\* The next-state relation of each, action by action; nobody edits exec.HALT.
MCNext ==
  \/ InBook(Boot) \/ InBook(BootEnds) \/ InBook(Stop) \/ InBook(Join) \/ InBook(Exit)
  \/ InBook(OnFill) \/ InBook(OnVenueEvent)
  \/ \E did \in Doings : InBook(OnTimer(did))
  \/ InBook(Top) \/ InBook(Take) \/ InBook(Wrote) \/ InBook(Failed)
  \/ \E t \in Threads : \/ InBook(Create(t)) \/ InBook(WriteAll(t))
                        \/ InBook(SyncAll(t)) \/ InBook(Rename(t)) \/ InBook(Fail(t))
  \/ InBook(RetryDue) \/ InBook(Crash) \/ InBook(PowerLoss)
  \/ InHalt(IdleStep)
  \/ \E s \in Slots, o \in Oids : \/ InHalt(Submit(s, o)) \/ InHalt(Cancel(s, o))
                                 \/ InHalt(BookFill(s, o)) \/ InHalt(VenueEnds(s, o))
  \/ \E s \in Slots, why \in {"operator", "trigger"} : InHalt(HaltSlot(s, why))
  \/ \E s \in Slots : InHalt(SweepStep(s)) \/ InHalt(SweepStrands(s))
  \/ InHalt(Restart)
  \/ InSweep(Gateway!Place(o1)) \/ InSweep(Gateway!Cancel(o1))
  \/ InSweep(Gateway!Tick) \/ InSweep(Gateway!Idle)
  \/ InSweep(Gateway!GwDrain) \/ InSweep(Gateway!TakeSweep) \/ InSweep(Gateway!StartSweep)
  \/ InSweep(Gateway!PopCommand) \/ InSweep(Gateway!EndBurst)
  \/ InSweep(Gateway!NothingRead)
  \/ InSweep(\E m \in inbox : Gateway!Receive(m))
  \/ InSweep(Gateway!VenueLists) \/ InSweep(Gateway!VenueAnswers(o1))
  \/ InSweep(Gateway!VenueFills(o1)) \/ InSweep(Gateway!VenueCancels(o1))

\* The fairness of each of the three, where it is at work.
MCFairness ==
  /\ WF_mcvars(InBook(OnTimer("nothing"))) /\ WF_mcvars(InBook(Writer))
  /\ WF_mcvars(InBook(RetryDue))
  /\ WF_mcvars(InHalt(IdleStep))
  /\ \A s \in Slots : WF_mcvars(InHalt(SweepStep(s)))
  /\ WF_mcvars(InSweep(Gateway!Gateway)) /\ WF_mcvars(InSweep(Gateway!VenueLists))
  /\ WF_mcvars(InSweep(Gateway!VenueAnswers(o1)))
  /\ WF_mcvars(InSweep(Gateway!VenueCancels(o1)))

MCSpec == MCInit /\ [][MCNext]_mcvars /\ MCFairness

\* QueuedArm: every sweep request is answered although the engine thread may
\* have stopped draining its rings.
SweepIsAnswered == Gateway!SweepIsAnswered
=============================================================================
