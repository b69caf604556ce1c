----------------------------- MODULE RoutedHalt -----------------------------
(***************************************************************************)
(* The router's halt machine: triggers, holds, the cancel cycle against    *)
(* the live arm, the exec.HALT file and the restart that reads it back     *)
(* (exec-router/src/routed.rs over halt.rs and the resting rows of         *)
(* ledger.rs).                                                             *)
(*                                                                         *)
(* The router runs on the engine thread, so each of its handlers is one    *)
(* action.  What runs beside it is the live arm with the venue behind it   *)
(* (external: known here by the contract of OrderDispatch), the operator   *)
(* who edits the file, and the restart.                                    *)
(*                                                                         *)
(* The file's modification time is compared for equality with the router's *)
(* baseline and for nothing else: `changed` is "the file there now is not  *)
(* the one the baseline saw".                                              *)
(***************************************************************************)
EXTENDS Naturals, FiniteSets, HaltState

CONSTANTS
  Slots,        \* the strategy slots (EXEC_SLOTS of them in the code)
  Oids,         \* client order ids, per slot
  MaxFaults,    \* bound: requests the arm refuses and sweeps it gives up on
  MaxEdits,     \* bound: operator edits of the file
  MaxRestarts,  \* bound: restarts
  Links,        \* the states the venue's stream goes through
  ModesChange,  \* may a restart flip a slot between live and paper?
  WritesFail    \* may write_atomic fail?

ASSUME RoutedAssumption ==
  /\ IsFiniteSet(Slots) /\ IsFiniteSet(Oids)
  /\ MaxFaults \in Nat /\ MaxEdits \in Nat /\ MaxRestarts \in Nat
  /\ "up" \in Links /\ Links \subseteq {"up", "resync", "down"}
  /\ ModesChange \in BOOLEAN /\ WritesFail \in BOOLEAN

VARIABLES
  mode,     \* exec.toml's mode of each slot, fixed for a boot
  cell,     \* HaltState, a cell per slot
  seeded,   \* slots the reconciler has marked
  rows,     \* client ids the ledger counts as resting, per slot
  arm,      \* the live arm: a cancel state, the orders its sweep covers and
            \* the orders working at the venue, per slot
  ended,    \* orders the venue ended that the router has not heard of
  file,     \* exec.HALT, or NoFile
  changed,  \* is the file newer than the baseline?
  faults, edits, restarts,
  named,    \* history: the slots the operator's latest edit names
  polled,   \* history: did the last step look at the file?
  dirty,    \* history: has the file been edited, or a write failed, since the
            \* engine last wrote it?
  fresh     \* history: is the file an edit of this boot that the engine has
            \* not tried to write over?

vars == <<mode, cell, seeded, rows, arm, ended, file, changed,
          faults, edits, restarts, named, polled, dirty, fresh>>

Modes == {"live", "paper"}
ArmStates == {"clear", "working", "stranded"}
Arms == [state : ArmStates, cover : SUBSET Oids, venue : SUBSET Oids]
Bodies == [Slots -> Reasons]
NoFile == [kind |-> "absent", body |-> [s \in Slots |-> "none"]]
Files == [kind : {"absent", "text", "garbled", "refused"}, body : Bodies]

(* One type invariant for the whole router state. *)
TypeOK ==
  /\ mode \in [Slots -> Modes]
  /\ cell \in [Slots -> Cells]
  /\ seeded \subseteq Slots
  /\ rows \in [Slots -> SUBSET Oids]
  /\ arm \in [Slots -> Arms]
  /\ ended \in [Slots -> SUBSET Oids]
  /\ file \in Files
  /\ changed \in BOOLEAN
  /\ faults \in 0 .. MaxFaults
  /\ edits \in 0 .. MaxEdits
  /\ restarts \in 0 .. MaxRestarts
  /\ named \subseteq Slots
  /\ polled \in BOOLEAN
  /\ dirty \in BOOLEAN /\ fresh \in BOOLEAN

IsLive(s) == mode[s] = "live"

---------------------------------------------------------------------------
(* The file *)

(* A bug the code's comment records: the file names one slot only. *)
MutRenderOneSlot(c) ==
  [kind |-> "text",
   body |-> [s \in Slots |->
               IF s = CHOOSE t \in Slots : IsHalted(c[t])
                 THEN c[s].reason ELSE "none"]]

(* Every halted slot is rendered, with its reason. *)
Render(c) == [kind |-> "text", body |-> [s \in Slots |-> c[s].reason]]

(* A file that is not UTF-8, or that may not be read, names nothing. *)
Parse(f) == IF f.kind = "text" THEN f.body ELSE NoFile.body

(* The cells after every live slot that `body` names is latched. *)
LatchAll(m, c, body) ==
  [s \in Slots |-> IF m[s] = "live" THEN Latch(c[s], body[s]) ELSE c[s]]

(* write_halt_file, on an edge: best effort, the baseline moves either way. *)
WriteHaltFile(c, ok, d) ==
  [file    |-> IF ok THEN Render(c) ELSE d.file,
   changed |-> FALSE,
   dirty   |-> ~ ok,
   fresh   |-> FALSE]

(* One edge per batch of latches, however many slots latched in it. *)
OnHaltEdge(before, after, ok, d) ==
  IF \E s \in Slots : before[s].reason # after[s].reason
    THEN WriteHaltFile(after, ok, d) ELSE d

(* A bug the code's comment records: the baseline moves before the read. *)
MutReadMovesBaseline(d) == [d EXCEPT !.changed = FALSE]

(* The baseline moves on a successful read only. *)
AfterRead(d) == IF d.file.kind = "refused" THEN d ELSE [d EXCEPT !.changed = FALSE]

(* poll_halt_file: nothing to do while the file is absent or already seen. *)
PollHaltFile(due, ok, m, c, d) ==
  IF due /\ d.file.kind # "absent" /\ d.changed
    THEN LET after == LatchAll(m, c, Parse(d.file))
         IN  [cell |-> after, disk |-> OnHaltEdge(c, after, ok, AfterRead(d))]
    ELSE [cell |-> c, disk |-> d]

Disk == [file |-> file, changed |-> changed, dirty |-> dirty, fresh |-> fresh]

SetDisk(d) == /\ file' = d.file /\ changed' = d.changed
              /\ dirty' = d.dirty /\ fresh' = d.fresh

WriteOutcomes == IF WritesFail THEN BOOLEAN ELSE {TRUE}

---------------------------------------------------------------------------
(* The live arm, by the contract of OrderDispatch::cancel_slot *)

(* An accepted request covers everything of the slot's: a sweeping arm works
   on it, a synchronous arm is done when the call returns. *)
Accepted(a) ==
  {[a EXCEPT !.state = "working", !.cover = a.venue],
   [state |-> "clear", cover |-> {}, venue |-> {}]}

(* A refused request may have queued a part of the slot's orders. *)
Refused(a) ==
  {[a EXCEPT !.state = IF C = {} THEN @ ELSE "working",
             !.cover = @ \cup C] :
     C \in {D \in SUBSET a.venue : D # a.venue \/ D = {}}}

(* try_cancel_slot: what one poll of the slot's cycle may come to.  `done`
   says the arm confirmed, and the ledger's rows of the slot are cleared. *)
TryCancelSlot(c, a) ==
  LET quiet == {[cell |-> c, arm |-> a, done |-> FALSE, fault |-> 0]}
      confirmed == {[cell |-> CancelCleared(c), arm |-> a,
                     done |-> TRUE, fault |-> 0]}
      d == CancelRequested(c)
      landed == {[cell |-> IF b.state = "clear" THEN CancelCleared(d) ELSE d,
                  arm |-> b, done |-> b.state = "clear", fault |-> 0] :
                   b \in Accepted(a)}
      failed == {[cell |-> CancelFailed(d), arm |-> b,
                  done |-> FALSE, fault |-> 1] : b \in Refused(a)}
  IN  CASE c.pending = "none"                             -> quiet
        [] c.pending = "asked" /\ a.state = "clear"       -> confirmed
        [] c.pending \in {"asked", "retry"}
             /\ a.state = "working"                       -> quiet
        [] OTHER                                          -> landed \cup failed

(* try_cancel_slots, and what it leaves of the ledger's rows. *)
TryCancelSlots(c, r) ==
  \E out \in [Slots -> UNION {TryCancelSlot(c[s], arm[s]) : s \in Slots}] :
    /\ \A s \in Slots : out[s] \in TryCancelSlot(c[s], arm[s])
    /\ faults + Cardinality({s \in Slots : out[s].fault = 1}) <= MaxFaults
    /\ faults' = faults + Cardinality({s \in Slots : out[s].fault = 1})
    /\ cell' = [s \in Slots |-> out[s].cell]
    /\ arm' = [s \in Slots |-> out[s].arm]
    /\ rows' = [s \in Slots |-> IF out[s].done THEN {} ELSE r[s]]

---------------------------------------------------------------------------
(* The operations *)

Init ==
  /\ mode \in [Slots -> IF ModesChange THEN Modes ELSE {"live"}]
  /\ cell = [s \in Slots |-> NewCell]
  /\ seeded = {}
  /\ rows = [s \in Slots |-> {}]
  /\ arm = [s \in Slots |-> [state |-> "clear", cover |-> {}, venue |-> {}]]
  /\ ended = [s \in Slots |-> {}]
  /\ file = NoFile
  /\ changed = FALSE
  /\ faults = 0 /\ edits = 0 /\ restarts = 0
  /\ named = {} /\ polled = FALSE /\ dirty = FALSE /\ fresh = FALSE

(* submit, to the end of risk_check's step 0: an accepted order is working at
   the venue and has its row when the call returns. *)
Submit(s, o) ==
  /\ IsLive(s) /\ ~ Stopped(cell[s]) /\ s \in seeded
  /\ o \notin rows[s] \cup arm[s].venue \cup ended[s]
  /\ arm' = [arm EXCEPT ![s].venue = @ \cup {o}]
  /\ rows' = [rows EXCEPT ![s] = @ \cup {o}]
  /\ polled' = FALSE
  /\ UNCHANGED <<mode, cell, seeded, ended, file, changed,
                 faults, edits, restarts, named, dirty, fresh>>

(* cancel, by an arm whose Ok is the venue's: never risk-checked. *)
Cancel(s, o) ==
  /\ IsLive(s) /\ o \in arm[s].venue
  /\ arm' = [arm EXCEPT ![s].venue = @ \ {o}]
  /\ rows' = [rows EXCEPT ![s] = @ \ {o}]
  /\ polled' = FALSE
  /\ UNCHANGED <<mode, cell, seeded, ended, file, changed,
                 faults, edits, restarts, named, dirty, fresh>>

(* on_fill_booked: the fill that ends an order takes its row. *)
BookFill(s, o) ==
  /\ o \in ended[s]
  /\ ended' = [ended EXCEPT ![s] = @ \ {o}]
  /\ rows' = [rows EXCEPT ![s] = @ \ {o}]
  /\ polled' = FALSE
  /\ UNCHANGED <<mode, cell, seeded, arm, file, changed,
                 faults, edits, restarts, named, dirty, fresh>>

(* halt_slot: the operator's flag or a perp reconciliation; no poll waited
   for. *)
HaltSlot(s, why) ==
  /\ IsLive(s) /\ ~ IsHalted(cell[s])
  /\ LET after == [cell EXCEPT ![s] = Latch(@, why)]
     IN  /\ \E ok \in WriteOutcomes : SetDisk(OnHaltEdge(cell, after, ok, Disk))
         /\ TryCancelSlots(after, rows)
  /\ polled' = FALSE
  /\ UNCHANGED <<mode, seeded, ended, edits, restarts, named>>

(* A slot's HaltSignal against its limits: what trigger_for returns; whether
   the stream is down (hold_for), back but owing a reconciliation, or up
   (hold_clear); and whether the reconciler agreed. *)
Signals == [why : {"none", "trigger"}, link : Links,
            reconciled : BOOLEAN]

QuietSignal == [why |-> "none", link |-> "up", reconciled |-> FALSE]

(* One live slot's judgement in on_idle: the latch, then the hold. *)
Judge(c, sig) ==
  LET d == Latch(c, sig.why)
  IN  CASE sig.link = "down"   -> Hold(d)
        [] sig.link = "up"     -> Release(d)
        [] sig.link = "resync" -> d

(* on_idle, the whole handler: retirements leave their rows, live slots are
   seeded and judged, the file is polled if a second has passed, and every
   cancel cycle takes a step.  Signals the slot's state makes irrelevant (a
   paper slot's, a halted slot's trigger, a seeded slot's reconciliation) are
   fixed rather than enumerated. *)
Idle(sig, due) ==
  /\ \A s \in Slots : /\ ~ IsLive(s) => sig[s] = QuietSignal
                      /\ IsHalted(cell[s]) => sig[s].why = "none"
                      /\ s \in seeded => ~ sig[s].reconciled
  /\ seeded' = seeded \cup {s \in Slots : sig[s].reconciled}
  /\ ended' = [s \in Slots |-> {}]
  /\ polled' = due
  /\ UNCHANGED <<mode, edits, restarts, named>>
  /\ \E ok \in WriteOutcomes, ok2 \in (IF due THEN WriteOutcomes ELSE {TRUE}) :
       LET judged == [s \in Slots |-> IF IsLive(s) THEN Judge(cell[s], sig[s])
                                                  ELSE cell[s]]
           p == PollHaltFile(due, ok2, mode, judged,
                             OnHaltEdge(cell, judged, ok, Disk))
       IN  /\ SetDisk(p.disk)
           /\ TryCancelSlots(p.cell, [s \in Slots |-> rows[s] \ ended[s]])

(* The venue ends an order by itself: a fill, an expiry, a rejection. *)
VenueEnds(s, o) ==
  /\ o \in arm[s].venue
  /\ arm' = [arm EXCEPT ![s].venue = @ \ {o}]
  /\ ended' = [ended EXCEPT ![s] = @ \cup {o}]
  /\ polled' = FALSE
  /\ UNCHANGED <<mode, cell, seeded, rows, file, changed,
                 faults, edits, restarts, named, dirty, fresh>>

(* The arm's sweep takes one covered order back, or ends when none is left. *)
SweepStep(s) ==
  /\ arm[s].state = "working"
  /\ LET left == arm[s].cover \cap arm[s].venue
     IN  \/ \E o \in left : arm' = [arm EXCEPT ![s].venue = @ \ {o}]
         \/ /\ left = {}
            /\ arm' = [arm EXCEPT ![s].state = "clear", ![s].cover = {}]
  /\ polled' = FALSE
  /\ UNCHANGED <<mode, cell, seeded, rows, ended, file, changed,
                 faults, edits, restarts, named, dirty, fresh>>

(* The arm spends its tries with an order still there. *)
SweepStrands(s) ==
  /\ arm[s].state = "working" /\ faults < MaxFaults
  /\ arm[s].cover \cap arm[s].venue # {}
  /\ arm' = [arm EXCEPT ![s].state = "stranded", ![s].cover = {}]
  /\ faults' = faults + 1
  /\ polled' = FALSE
  /\ UNCHANGED <<mode, cell, seeded, rows, ended, file, changed,
                 edits, restarts, named, dirty, fresh>>

(* The operator replaces the file: slot numbers, bytes that are not text, or a
   file the engine may not read. *)
OperatorWrites(S, kind) ==
  /\ edits < MaxEdits
  /\ edits' = edits + 1
  /\ file' = [kind |-> kind,
              body |-> [s \in Slots |-> IF s \in S THEN "operator" ELSE "none"]]
  /\ changed' = TRUE
  /\ dirty' = TRUE /\ fresh' = TRUE
  /\ named' = IF kind = "text" THEN S ELSE {}
  /\ polled' = FALSE
  /\ UNCHANGED <<mode, cell, seeded, rows, arm, ended, faults, restarts>>

(* The operator makes a refused file readable: its time stays what it was. *)
OperatorPermits ==
  /\ file.kind = "refused"
  /\ file' = [file EXCEPT !.kind = "text"]
  /\ polled' = FALSE
  /\ UNCHANGED <<mode, cell, seeded, rows, arm, ended, changed,
                 faults, edits, restarts, named, dirty, fresh>>

OperatorDeletes ==
  /\ edits < MaxEdits /\ file.kind # "absent"
  /\ edits' = edits + 1
  /\ file' = NoFile
  /\ changed' = FALSE
  /\ dirty' = TRUE /\ fresh' = FALSE
  /\ named' = {}
  /\ polled' = FALSE
  /\ UNCHANGED <<mode, cell, seeded, rows, arm, ended, faults, restarts>>

(* A crash or the daily restart, and the boot's adopt_halt_file: the baseline
   is taken first, then every live slot the file names is latched.  What the
   old process left at the venue is the arm's boot sweep to take back and is
   no part of this boot's orders. *)
Restart ==
  /\ restarts < MaxRestarts
  /\ restarts' = restarts + 1
  /\ \E m \in [Slots -> Modes], ok \in WriteOutcomes :
       LET empty == [s \in Slots |-> NewCell]
           after == LatchAll(m, empty, Parse(file))
           seen  == [Disk EXCEPT !.changed = FALSE, !.fresh = FALSE]
       IN  /\ m = mode \/ ModesChange
           /\ mode' = m
           /\ cell' = after
           /\ SetDisk(OnHaltEdge(empty, after, ok, seen))
  /\ seeded' = {}
  /\ rows' = [s \in Slots |-> {}]
  /\ arm' = [s \in Slots |-> [state |-> "clear", cover |-> {}, venue |-> {}]]
  /\ ended' = [s \in Slots |-> {}]
  /\ named' = {}
  /\ polled' = FALSE
  /\ UNCHANGED <<faults, edits>>

IdleStep == \E sig \in [Slots -> Signals], due \in BOOLEAN : Idle(sig, due)

Verb(s) == \E o \in Oids : Submit(s, o) \/ Cancel(s, o) \/ BookFill(s, o)

Next ==
  \/ IdleStep
  \/ \E s \in Slots : \/ Verb(s)
                      \/ \E why \in {"operator", "trigger"} : HaltSlot(s, why)
                      \/ \E o \in Oids : VenueEnds(s, o)
                      \/ SweepStep(s)
                      \/ SweepStrands(s)
  \/ \E S \in SUBSET Slots, kind \in {"text", "garbled", "refused"} :
       OperatorWrites(S, kind)
  \/ OperatorPermits
  \/ OperatorDeletes
  \/ Restart

Spec == Init /\ [][Next]_vars

(* The engine thread keeps polling and the arm keeps sweeping; nothing makes
   a member trade, an operator edit or a process restart. *)
FairSpec == Spec /\ WF_vars(IdleStep) /\ \A s \in Slots : WF_vars(SweepStep(s))

---------------------------------------------------------------------------
(* Properties *)

(* The ledger never counts fewer orders than work at the venue: the rows of a
   slot are zeroed on the arm's confirmation and on nothing weaker, however a
   refused or half-queued request, a sweep that gave up, a hold and a halt of
   the same slot follow each other (try_cancel_slot, cancel_failed). *)
NoUnderCount == \A s \in Slots : arm[s].venue \subseteq rows[s]

(* While a sweep of the slot is at work the slot may not place, so a sweep
   asked for one incident never takes back the first orders after it
   (HaltState::release). *)
SweepMeetsNoNewOrder ==
  \A s \in Slots : arm[s].state # "clear" => Stopped(cell[s])

(* No sweep is forgotten: as long as a slot is stopped with an order working
   at the venue, its cancel is still owed (the latch and the hold edges). *)
StoppedOrderIsOwed ==
  \A s \in Slots : Stopped(cell[s]) /\ arm[s].venue # {}
                     => cell[s].pending # "none"

(* Every halted slot's line is in the file, unless the operator edited the
   file or a write failed since: on_halt_edge writes the whole state. *)
FileNamesEveryHalt ==
  ~ dirty => \A s \in Slots : IsHalted(cell[s]) => Parse(file)[s] = cell[s].reason

(* A restart resumes no halted slot: with the file as the engine wrote it and
   the slot still live, the halt comes back with its first reason. *)
HaltsSurviveRestart ==
  [][restarts' # restarts /\ ~ dirty =>
       \A s \in Slots : IsHalted(cell[s]) /\ mode'[s] = "live"
                          => cell'[s].reason = cell[s].reason]_vars

(* A halt is sticky: within one boot a halted slot keeps its first reason,
   whatever triggers, files and operators say later. *)
HaltIsSticky ==
  [][restarts' = restarts =>
       \A s \in Slots : IsHalted(cell[s]) => cell'[s].reason = cell[s].reason]_vars

(* The kill switch: an edit of this boot that the engine has not written over
   is adopted by the next poll that can read it, refused polls before it or
   not, unless a trigger latches in the same poll (poll_halt_file). *)
EditIsAdopted ==
  [][polled' /\ fresh /\ file.kind = "text" /\
     (\A s \in Slots : cell'[s].reason = "trigger" => IsHalted(cell[s])) =>
       \A s \in Slots : IsLive(s) /\ file.body[s] # "none"
                          => IsHalted(cell'[s])]_vars

(* A halted slot gets flat: once the arm has stopped refusing, its orders
   leave the venue, its rows are cleared and nothing is owed, unless the
   process restarts first. *)
HaltGetsFlat ==
  \A s \in Slots :
    IsHalted(cell[s]) ~> /\ cell[s].pending = "none"
                         /\ arm[s].venue = {}
                         /\ rows[s] = {}

(* The module's claim about the operator's switch (routed.rs:509): a slot the
   file names stops at the next look at the file. *)
OperatorHaltLands ==
  polled => \A s \in named : IsLive(s) => IsHalted(cell[s])
=============================================================================
