------------------------- MODULE RoutedHalt_proofs -------------------------
(***************************************************************************)
(* Proofs about the router's halt machine, for any slots, orders and       *)
(* bounds.                                                                 *)
(*                                                                         *)
(* NoUnderCount is not inductive: that the rows may be cleared when the    *)
(* arm says "clear" depends on what the phase of the slot's cycle promises *)
(* about the arm.  CellOK is that promise: while a request counts as made  *)
(* ("asked") the arm's sweep covers everything of the slot's, so its       *)
(* "clear" means nothing is left; an arm at work has a cycle that watches  *)
(* it; and a cycle under way keeps the slot stopped, so nothing is placed  *)
(* behind the sweep's back.                                                *)
(***************************************************************************)
EXTENDS RoutedHalt, FiniteSetTheorems, TLAPS

CellOK(c, a) ==
  /\ c.pending = "asked" /\ a.state = "clear" => a.venue = {}
  /\ c.pending = "asked" /\ a.state = "working" => a.venue \subseteq a.cover
  /\ c.pending # "none" => Stopped(c)
  /\ a.state # "clear" => c.pending # "none"
  /\ Stopped(c) /\ a.venue # {} => c.pending # "none"

CycleInv ==
  \A s \in Slots : /\ CellOK(cell[s], arm[s])
                   /\ arm[s].venue \subseteq rows[s]
                   /\ arm[s].venue \cap ended[s] = {}

IInv == TypeOK /\ CycleInv /\ FileNamesEveryHalt

---------------------------------------------------------------------------
(* Latching keeps a cell a cell and the promise about its arm: the edge asks
   for a cancel of its own (HaltState::latch). *)
LEMMA LatchKeeps ==
  ASSUME NEW c \in Cells, NEW a \in Arms, NEW why \in Reasons
  PROVE  /\ Latch(c, why) \in Cells
         /\ IsHalted(c) => Latch(c, why).reason = c.reason
         /\ CellOK(c, a) => CellOK(Latch(c, why), a)
BY DEF Latch, CellOK, Cells, Arms, Reasons, Phases, ArmStates, Stopped, IsHalted

(* So does a judgement: the latch, then the hold or its release
   (RoutedDispatch::on_idle). *)
LEMMA JudgeKeeps ==
  ASSUME NEW c \in Cells, NEW a \in Arms, NEW sig \in Signals
  PROVE  /\ Judge(c, sig) \in Cells
         /\ IsHalted(c) => Judge(c, sig).reason = c.reason
         /\ CellOK(c, a) => CellOK(Judge(c, sig), a)
<1> DEFINE d == Latch(c, sig.why)
<1>1. sig.why \in Reasons /\ sig.link \in {"up", "resync", "down"}
  BY RoutedAssumption DEF Signals, Reasons
<1>2. /\ d \in Cells /\ (CellOK(c, a) => CellOK(d, a))
      /\ IsHalted(c) => d.reason = c.reason
  BY <1>1, LatchKeeps
<1> HIDE DEF d
<1>3. /\ Hold(d) \in Cells /\ (CellOK(d, a) => CellOK(Hold(d), a))
      /\ Hold(d).reason = d.reason
  BY <1>2 DEF Hold, CellOK, Cells, Arms, Reasons, Phases, ArmStates, Stopped, IsHalted
<1>4. /\ Release(d) \in Cells /\ (CellOK(d, a) => CellOK(Release(d), a))
      /\ Release(d).reason = d.reason
  BY <1>2 DEF Release, CellOK, Cells, Arms, Reasons, Phases, ArmStates, Stopped, IsHalted
<1>5. Judge(c, sig) \in {d, Hold(d), Release(d)}
  BY <1>1 DEF Judge, d
<1> QED
  BY <1>2, <1>3, <1>4, <1>5

(* What one poll of a slot's cycle comes to keeps the promise, never adds an
   order at the venue, and clears the rows only when none is left there
   (RoutedDispatch::try_cancel_slot). *)
LEMMA TryCancelKeeps ==
  ASSUME NEW c \in Cells, NEW a \in Arms, CellOK(c, a),
         NEW out \in TryCancelSlot(c, a)
  PROVE  /\ out.cell \in Cells /\ out.arm \in Arms
         /\ out.cell.reason = c.reason
         /\ CellOK(out.cell, out.arm)
         /\ out.arm.venue \subseteq a.venue
         /\ out.done => out.arm.venue = {}
<1> DEFINE d == CancelRequested(c)
<1>1. d \in Cells /\ (c.pending # "none" => d.pending = "asked")
                 /\ d.reason = c.reason /\ d.held = c.held
  BY DEF CancelRequested, Cells, Phases
<1>2. CASE out = [cell |-> c, arm |-> a, done |-> FALSE, fault |-> 0]
  BY <1>2
<1>3. CASE /\ c.pending = "asked" /\ a.state = "clear"
           /\ out = [cell |-> CancelCleared(c), arm |-> a, done |-> TRUE, fault |-> 0]
  BY <1>3 DEF CancelCleared, CellOK, Cells, Phases, Arms, Stopped, IsHalted
<1>4. CASE \E b \in Accepted(a) :
             /\ c.pending # "none"
             /\ out = [cell |-> IF b.state = "clear" THEN CancelCleared(d) ELSE d,
                       arm |-> b, done |-> b.state = "clear", fault |-> 0]
  <2> PICK b \in Accepted(a) :
             /\ c.pending # "none"
             /\ out = [cell |-> IF b.state = "clear" THEN CancelCleared(d) ELSE d,
                       arm |-> b, done |-> b.state = "clear", fault |-> 0]
    BY <1>4
  <2>1. Stopped(d)
    BY <1>1 DEF CellOK, Stopped, IsHalted
  <2> HIDE DEF d
  <2>2. CASE b = [a EXCEPT !.state = "working", !.cover = a.venue]
    BY <1>1, <2>1, <2>2 DEF CellOK, Arms, ArmStates, Cells
  <2>3. CASE b = [state |-> "clear", cover |-> {}, venue |-> {}]
    BY <1>1, <2>1, <2>3 DEF CancelCleared, CellOK, Arms, ArmStates, Cells, Phases
  <2> QED BY <2>2, <2>3 DEF Accepted
<1>5. CASE \E b \in Refused(a) :
             /\ c.pending # "none"
             /\ out = [cell |-> CancelFailed(d), arm |-> b, done |-> FALSE, fault |-> 1]
  <2> PICK b \in Refused(a) :
             /\ c.pending # "none"
             /\ out = [cell |-> CancelFailed(d), arm |-> b, done |-> FALSE, fault |-> 1]
    BY <1>5
  <2>1. Stopped(d)
    BY <1>1 DEF CellOK, Stopped, IsHalted
  <2> HIDE DEF d
  <2>2. b \in Arms /\ b.venue = a.venue
    <3>1. PICK C \in SUBSET a.venue :
            b = [a EXCEPT !.state = IF C = {} THEN @ ELSE "working", !.cover = @ \cup C]
      BY DEF Refused
    <3>2. a.cover \cup C \in SUBSET Oids
      BY <3>1 DEF Arms
    <3>3. (IF C = {} THEN a.state ELSE "working") \in ArmStates
      BY DEF Arms, ArmStates
    <3> QED BY <3>1, <3>2, <3>3 DEF Arms
  <2>3. /\ CancelFailed(d) \in Cells /\ CancelFailed(d).pending = "retry"
        /\ CancelFailed(d).reason = d.reason
        /\ Stopped(CancelFailed(d))
    BY <1>1, <2>1 DEF CancelFailed, Cells, Phases, Stopped, IsHalted
  <2> QED BY <1>1, <2>2, <2>3 DEF CellOK
<1> QED
  BY <1>2, <1>3, <1>4, <1>5 DEF TryCancelSlot, Cells, Phases

(* All slots' cycles at once, from cells c and rows r that already cover what
   works at the venue (RoutedDispatch::try_cancel_slots). *)
LEMMA TryCancelSlotsKeeps ==
  ASSUME TypeOK,
         NEW c \in [Slots -> Cells], NEW r \in [Slots -> SUBSET Oids],
         \A s \in Slots : CellOK(c[s], arm[s]) /\ arm[s].venue \subseteq r[s],
         TryCancelSlots(c, r)
  PROVE  /\ cell' \in [Slots -> Cells]
         /\ arm' \in [Slots -> Arms]
         /\ rows' \in [Slots -> SUBSET Oids]
         /\ faults' \in 0 .. MaxFaults
         /\ \A s \in Slots : /\ CellOK(cell'[s], arm'[s])
                             /\ cell'[s].reason = c[s].reason
                             /\ arm'[s].venue \subseteq rows'[s]
                             /\ arm'[s].venue \subseteq arm[s].venue
<1> PICK out \in [Slots -> UNION {TryCancelSlot(c[s], arm[s]) : s \in Slots}] :
      /\ \A s \in Slots : out[s] \in TryCancelSlot(c[s], arm[s])
      /\ faults + Cardinality({s \in Slots : out[s].fault = 1}) <= MaxFaults
      /\ faults' = faults + Cardinality({s \in Slots : out[s].fault = 1})
      /\ cell' = [s \in Slots |-> out[s].cell]
      /\ arm' = [s \in Slots |-> out[s].arm]
      /\ rows' = [s \in Slots |-> IF out[s].done THEN {} ELSE r[s]]
  BY DEF TryCancelSlots
<1>1. \A s \in Slots : /\ out[s].cell \in Cells /\ out[s].arm \in Arms
                       /\ out[s].cell.reason = c[s].reason
                       /\ CellOK(out[s].cell, out[s].arm)
                       /\ out[s].arm.venue \subseteq arm[s].venue
                       /\ out[s].done => out[s].arm.venue = {}
  <2> TAKE s \in Slots
  <2>1. c[s] \in Cells /\ arm[s] \in Arms /\ CellOK(c[s], arm[s])
        /\ out[s] \in TryCancelSlot(c[s], arm[s])
    BY DEF TypeOK
  <2> QED BY ONLY <2>1, TryCancelKeeps
<1>2. Cardinality({s \in Slots : out[s].fault = 1}) \in Nat
  BY RoutedAssumption, FS_Subset, FS_CardinalityType
<1>3. faults' \in 0 .. MaxFaults
  BY <1>2, RoutedAssumption DEF TypeOK
<1>4. \A s \in Slots : out[s].arm.venue \subseteq (IF out[s].done THEN {} ELSE r[s])
  BY <1>1
<1> QED
  BY <1>1, <1>3, <1>4

(* Latching what a file names, all slots at once (RoutedDispatch::latch_all). *)
LEMMA LatchAllKeeps ==
  ASSUME NEW m, NEW c \in [Slots -> Cells], NEW a \in [Slots -> Arms],
         NEW body \in Bodies
  PROVE  /\ LatchAll(m, c, body) \in [Slots -> Cells]
         /\ \A s \in Slots :
              /\ CellOK(c[s], a[s]) => CellOK(LatchAll(m, c, body)[s], a[s])
              /\ IsHalted(c[s]) => LatchAll(m, c, body)[s].reason = c[s].reason
<1>1. \A s \in Slots : c[s] \in Cells /\ a[s] \in Arms /\ body[s] \in Reasons
  BY DEF Bodies
<1>2. \A s \in Slots : /\ Latch(c[s], body[s]) \in Cells
                       /\ CellOK(c[s], a[s]) => CellOK(Latch(c[s], body[s]), a[s])
                       /\ IsHalted(c[s]) => Latch(c[s], body[s]).reason = c[s].reason
  BY <1>1, LatchKeeps
<1> QED
  BY <1>1, <1>2 DEF LatchAll

---------------------------------------------------------------------------
(* The file half: what is on disk, and that it names the cells' halts. *)
Disks == [file : Files, changed : BOOLEAN, dirty : BOOLEAN, fresh : BOOLEAN]

NamesHalts(c, d) ==
  ~ d.dirty => \A s \in Slots : IsHalted(c[s]) => Parse(d.file)[s] = c[s].reason

(* A file in any state parses to a reason per slot. *)
LEMMA ParseType == \A f \in Files : Parse(f) \in Bodies
BY DEF Parse, Files, Bodies, NoFile, Reasons

(* A batch of latches is followed by one write of the whole state, or changed
   nothing the file does not already say (RoutedDispatch::on_halt_edge). *)
LEMMA EdgeKeeps ==
  ASSUME NEW before \in [Slots -> Cells], NEW after \in [Slots -> Cells],
         NEW ok \in BOOLEAN, NEW d \in Disks
  PROVE  /\ OnHaltEdge(before, after, ok, d) \in Disks
         /\ NamesHalts(before, d) => NamesHalts(after, OnHaltEdge(before, after, ok, d))
<1> DEFINE w == WriteHaltFile(after, ok, d)
<1>1. Render(after) \in Files /\ Parse(Render(after)) = [s \in Slots |-> after[s].reason]
  BY DEF Render, Files, Bodies, Cells, Parse
<1>2. w \in Disks
  BY <1>1 DEF WriteHaltFile, Disks
<1>3. NamesHalts(after, w)
  <2>1. CASE ok
    BY <1>1, <2>1 DEF WriteHaltFile, NamesHalts
  <2>2. CASE ~ ok
    BY <2>2 DEF WriteHaltFile, NamesHalts
  <2> QED BY <2>1, <2>2
<1>4. CASE \E s \in Slots : before[s].reason # after[s].reason
  BY <1>2, <1>3, <1>4 DEF OnHaltEdge
<1>5. CASE \A s \in Slots : before[s].reason = after[s].reason
  <2>1. OnHaltEdge(before, after, ok, d) = d
    BY <1>5 DEF OnHaltEdge
  <2>2. NamesHalts(before, d) => NamesHalts(after, d)
    BY <1>5 DEF NamesHalts, IsHalted
  <2> QED BY <2>1, <2>2
<1> QED BY <1>4, <1>5

(* The two outcomes of a file poll: the file is adopted, or there is nothing
   to do. *)
Polls(m, c, d) ==
  LET after == LatchAll(m, c, Parse(d.file))
  IN  {[cell |-> c, disk |-> d]} \cup
      {[cell |-> after, disk |-> OnHaltEdge(c, after, ok, AfterRead(d))] : ok \in BOOLEAN}

(* The file poll keeps cells, disk, promise and file together
   (RoutedDispatch::poll_halt_file). *)
LEMMA PollKeeps ==
  ASSUME NEW m \in [Slots -> Modes], NEW c \in [Slots -> Cells],
         NEW a \in [Slots -> Arms], NEW d \in Disks,
         NEW p \in Polls(m, c, d)
  PROVE  /\ p.cell \in [Slots -> Cells] /\ p.disk \in Disks
         /\ NamesHalts(c, d) => NamesHalts(p.cell, p.disk)
         /\ \A s \in Slots : /\ CellOK(c[s], a[s]) => CellOK(p.cell[s], a[s])
                             /\ IsHalted(c[s]) => p.cell[s].reason = c[s].reason
<1> DEFINE after == LatchAll(m, c, Parse(d.file))
           seen == AfterRead(d)
<1>1. Parse(d.file) \in Bodies
  BY ParseType DEF Disks
<1>2. /\ after \in [Slots -> Cells]
      /\ \A s \in Slots : /\ CellOK(c[s], a[s]) => CellOK(after[s], a[s])
                          /\ IsHalted(c[s]) => after[s].reason = c[s].reason
  BY <1>1, LatchAllKeeps
<1>3. seen \in Disks /\ seen.file = d.file /\ seen.dirty = d.dirty
  BY DEF AfterRead, Disks
<1>4. NamesHalts(c, d) => NamesHalts(c, seen)
  BY <1>3 DEF NamesHalts
<1> HIDE DEF after, seen
<1>5. \A ok \in BOOLEAN :
        /\ OnHaltEdge(c, after, ok, seen) \in Disks
        /\ NamesHalts(c, d) => NamesHalts(after, OnHaltEdge(c, after, ok, seen))
  BY <1>2, <1>3, <1>4, EdgeKeeps
<1>6. \/ \E ok \in BOOLEAN :
           p = [cell |-> after, disk |-> OnHaltEdge(c, after, ok, seen)]
      \/ p = [cell |-> c, disk |-> d]
  BY DEF Polls, after, seen
<1> QED BY <1>2, <1>5, <1>6

---------------------------------------------------------------------------
(* The initial state satisfies the invariant. *)
LEMMA InitInv == Init => IInv
<1> SUFFICES ASSUME Init PROVE IInv
  OBVIOUS
<1>1. TypeOK
  <2>1. mode \in [Slots -> Modes]
    BY DEF Init, Modes
  <2>2. cell \in [Slots -> Cells] /\ rows \in [Slots -> SUBSET Oids]
        /\ ended \in [Slots -> SUBSET Oids]
    BY DEF Init, Cells, NewCell, Reasons, Phases
  <2>3. arm \in [Slots -> Arms]
    BY DEF Init, Arms, ArmStates
  <2>4. file \in Files
    BY DEF Init, Files, NoFile, Bodies, Reasons
  <2>5. faults \in 0 .. MaxFaults /\ edits \in 0 .. MaxEdits /\ restarts \in 0 .. MaxRestarts
    BY RoutedAssumption DEF Init
  <2>6. /\ changed \in BOOLEAN /\ polled \in BOOLEAN /\ dirty \in BOOLEAN
        /\ fresh \in BOOLEAN /\ seeded \subseteq Slots /\ named \subseteq Slots
    BY DEF Init
  <2> QED
    BY <2>1, <2>2, <2>3, <2>4, <2>5, <2>6 DEF TypeOK
<1>2. CycleInv
  BY DEF Init, CycleInv, CellOK, NewCell, Stopped, IsHalted
<1>3. FileNamesEveryHalt
  BY DEF Init, FileNamesEveryHalt, NewCell, IsHalted
<1> QED BY <1>1, <1>2, <1>3 DEF IInv

(* The disk record as the lemmas take it. *)
LEMMA DiskType ==
  ASSUME IInv
  PROVE  Disk \in Disks /\ NamesHalts(cell, Disk)
BY DEF IInv, TypeOK, Disk, Disks, NamesHalts, FileNamesEveryHalt

(* The disk record stored back. *)
LEMMA SetDiskType ==
  ASSUME NEW d \in Disks, SetDisk(d), NamesHalts(cell', d)
  PROVE  /\ file' \in Files /\ changed' \in BOOLEAN /\ dirty' \in BOOLEAN
         /\ fresh' \in BOOLEAN /\ FileNamesEveryHalt'
BY DEF SetDisk, Disks, NamesHalts, FileNamesEveryHalt

(* Latching one slot (halt_slot) keeps the invariant. *)
LEMMA HaltSlotInv ==
  ASSUME IInv, NEW s \in Slots, NEW why \in {"operator", "trigger"}, HaltSlot(s, why)
  PROVE  IInv'
<1> DEFINE after == [cell EXCEPT ![s] = Latch(@, why)]
<1>1. cell \in [Slots -> Cells] /\ arm \in [Slots -> Arms] /\ why \in Reasons
  BY DEF IInv, TypeOK, Reasons
<1>2. /\ after \in [Slots -> Cells]
      /\ \A t \in Slots : CellOK(after[t], arm[t])
  BY <1>1, LatchKeeps DEF IInv, CycleInv
<1> HIDE DEF after
<1>3. PICK ok \in WriteOutcomes : SetDisk(OnHaltEdge(cell, after, ok, Disk))
  BY DEF HaltSlot, after
<1>4. ok \in BOOLEAN
  BY DEF WriteOutcomes
<1>5. /\ OnHaltEdge(cell, after, ok, Disk) \in Disks
      /\ NamesHalts(after, OnHaltEdge(cell, after, ok, Disk))
  BY <1>1, <1>2, <1>4, DiskType, EdgeKeeps
<1>6. TryCancelSlots(after, rows)
  BY DEF HaltSlot, after
<1>7. /\ cell' \in [Slots -> Cells] /\ arm' \in [Slots -> Arms]
      /\ rows' \in [Slots -> SUBSET Oids] /\ faults' \in 0 .. MaxFaults
      /\ \A t \in Slots : /\ CellOK(cell'[t], arm'[t])
                          /\ cell'[t].reason = after[t].reason
                          /\ arm'[t].venue \subseteq rows'[t]
                          /\ arm'[t].venue \subseteq arm[t].venue
  BY <1>2, <1>6, TryCancelSlotsKeeps DEF IInv, TypeOK, CycleInv
<1>8. NamesHalts(cell', OnHaltEdge(cell, after, ok, Disk))
  BY <1>5, <1>7 DEF NamesHalts, IsHalted
<1>9. TypeOK'
  BY <1>3, <1>5, <1>7, <1>8, SetDiskType DEF IInv, TypeOK, HaltSlot
<1>10. CycleInv'
  BY <1>7 DEF IInv, CycleInv, HaltSlot
<1> QED BY <1>3, <1>5, <1>8, <1>9, <1>10, SetDiskType DEF IInv

(* A poll (on_idle) keeps the invariant. *)
LEMMA IdleInv ==
  ASSUME IInv, NEW sig \in [Slots -> Signals], NEW due \in BOOLEAN, Idle(sig, due)
  PROVE  IInv' /\ \A s \in Slots : IsHalted(cell[s]) => cell'[s].reason = cell[s].reason
<1> DEFINE judged == [s \in Slots |-> IF IsLive(s) THEN Judge(cell[s], sig[s]) ELSE cell[s]]
           left == [s \in Slots |-> rows[s] \ ended[s]]
<1>1. cell \in [Slots -> Cells] /\ arm \in [Slots -> Arms] /\ mode \in [Slots -> Modes]
  BY DEF IInv, TypeOK
<1>2. \A s \in Slots : /\ Judge(cell[s], sig[s]) \in Cells
                       /\ IsHalted(cell[s]) => Judge(cell[s], sig[s]).reason = cell[s].reason
                       /\ CellOK(cell[s], arm[s]) => CellOK(Judge(cell[s], sig[s]), arm[s])
  BY <1>1, JudgeKeeps
<1>3. /\ judged \in [Slots -> Cells]
      /\ \A s \in Slots : /\ CellOK(judged[s], arm[s])
                          /\ IsHalted(cell[s]) => judged[s].reason = cell[s].reason
  BY <1>1, <1>2 DEF IInv, CycleInv
<1>4. left \in [Slots -> SUBSET Oids] /\ \A s \in Slots : arm[s].venue \subseteq left[s]
  BY DEF IInv, TypeOK, CycleInv
<1>5. PICK ok \in WriteOutcomes, ok2 \in (IF due THEN WriteOutcomes ELSE {TRUE}) :
        LET p == PollHaltFile(due, ok2, mode, judged, OnHaltEdge(cell, judged, ok, Disk))
        IN  SetDisk(p.disk) /\ TryCancelSlots(p.cell, left)
  BY DEF Idle
<1> HIDE DEF judged, left
<1>6. ok \in BOOLEAN /\ ok2 \in BOOLEAN
  BY DEF WriteOutcomes
<1> DEFINE d == OnHaltEdge(cell, judged, ok, Disk)
           p == PollHaltFile(due, ok2, mode, judged, d)
<1>7. d \in Disks /\ NamesHalts(judged, d)
  BY <1>1, <1>3, <1>6, DiskType, EdgeKeeps
<1>8. SetDisk(p.disk) /\ TryCancelSlots(p.cell, left)
  BY <1>5
<1> HIDE DEF d
<1>p. p \in Polls(mode, judged, d)
  BY <1>6 DEF PollHaltFile, Polls
<1> HIDE DEF p
<1>9. /\ p.cell \in [Slots -> Cells] /\ p.disk \in Disks /\ NamesHalts(p.cell, p.disk)
      /\ \A s \in Slots : /\ CellOK(p.cell[s], arm[s])
                          /\ IsHalted(judged[s]) => p.cell[s].reason = judged[s].reason
  BY <1>1, <1>3, <1>7, <1>p, PollKeeps
<1>10. /\ cell' \in [Slots -> Cells] /\ arm' \in [Slots -> Arms]
       /\ rows' \in [Slots -> SUBSET Oids] /\ faults' \in 0 .. MaxFaults
       /\ \A s \in Slots : /\ CellOK(cell'[s], arm'[s])
                           /\ cell'[s].reason = p.cell[s].reason
                           /\ arm'[s].venue \subseteq rows'[s]
  BY <1>4, <1>8, <1>9, TryCancelSlotsKeeps DEF IInv
<1>11. NamesHalts(cell', p.disk)
  BY <1>9, <1>10 DEF NamesHalts, IsHalted
<1>12. FileNamesEveryHalt' /\ file' \in Files /\ changed' \in BOOLEAN
       /\ dirty' \in BOOLEAN /\ fresh' \in BOOLEAN
  BY <1>8, <1>9, <1>11, SetDiskType
<1>13. TypeOK'
  BY <1>10, <1>12 DEF IInv, TypeOK, Idle
<1>14. CycleInv'
  BY <1>10 DEF CycleInv, Idle
<1>15. \A s \in Slots : IsHalted(cell[s]) => cell'[s].reason = cell[s].reason
  BY <1>3, <1>9, <1>10 DEF IsHalted
<1> QED BY <1>12, <1>13, <1>14, <1>15 DEF IInv

(* A restart (the boot's adopt_halt_file) keeps the invariant: every halt the
   new boot knows is one the file names. *)
LEMMA RestartInv ==
  ASSUME IInv, Restart
  PROVE  IInv'
<1> DEFINE empty == [s \in Slots |-> NewCell]
           fresh0 == [s \in Slots |-> [state |-> "clear", cover |-> {}, venue |-> {}]]
           seen == [Disk EXCEPT !.changed = FALSE, !.fresh = FALSE]
<1>1. PICK m \in [Slots -> Modes], ok \in WriteOutcomes :
        /\ mode' = m
        /\ cell' = LatchAll(m, empty, Parse(file))
        /\ SetDisk(OnHaltEdge(empty, LatchAll(m, empty, Parse(file)), ok, seen))
  BY DEF Restart
<1>2. ok \in BOOLEAN
  BY DEF WriteOutcomes
<1>3. empty \in [Slots -> Cells] /\ fresh0 \in [Slots -> Arms]
      /\ \A s \in Slots : CellOK(empty[s], fresh0[s]) /\ ~ IsHalted(empty[s])
  BY DEF NewCell, Cells, Reasons, Phases, Arms, ArmStates, CellOK, Stopped, IsHalted
<1>4. Disk \in Disks
  BY DiskType
<1>5. seen \in Disks
  BY <1>4 DEF Disks
<1>6. NamesHalts(empty, seen)
  BY <1>3 DEF NamesHalts
<1>7. Parse(file) \in Bodies
  BY ParseType DEF IInv, TypeOK
<1> HIDE DEF empty, fresh0, seen
<1>8. /\ cell' \in [Slots -> Cells]
      /\ \A s \in Slots : CellOK(cell'[s], fresh0[s])
  BY <1>1, <1>3, <1>7, LatchAllKeeps
<1>9. /\ OnHaltEdge(empty, cell', ok, seen) \in Disks
      /\ NamesHalts(cell', OnHaltEdge(empty, cell', ok, seen))
  BY <1>2, <1>3, <1>5, <1>6, <1>8, EdgeKeeps
<1>10. FileNamesEveryHalt' /\ file' \in Files /\ changed' \in BOOLEAN
       /\ dirty' \in BOOLEAN /\ fresh' \in BOOLEAN
  BY <1>1, <1>9, SetDiskType
<1>11. /\ arm' = fresh0 /\ rows' = [s \in Slots |-> {}] /\ ended' = [s \in Slots |-> {}]
       /\ seeded' = {} /\ named' = {} /\ polled' = FALSE
       /\ faults' = faults /\ edits' = edits /\ restarts' = restarts + 1 /\ restarts < MaxRestarts
  BY DEF Restart, fresh0
<1>12. restarts' \in 0 .. MaxRestarts
  BY <1>11, RoutedAssumption DEF IInv, TypeOK
<1>13. polled' \in BOOLEAN
  BY <1>11
<1>14. TypeOK'
  BY <1>1, <1>3, <1>8, <1>10, <1>11, <1>12, <1>13 DEF IInv, TypeOK
<1>15. CycleInv'
  BY <1>8, <1>11 DEF CycleInv, fresh0
<1> QED BY <1>10, <1>14, <1>15 DEF IInv

(* Every step keeps the invariant. *)
LEMMA StepInv == IInv /\ [Next]_vars => IInv'
<1> SUFFICES ASSUME IInv, [Next]_vars PROVE IInv'
  OBVIOUS
<1> USE DEF IInv
<1>1. CASE IdleStep
  BY <1>1, IdleInv DEF IdleStep
<1>2. ASSUME NEW s \in Slots, NEW o \in Oids, Submit(s, o) PROVE IInv'
  <2>1. TypeOK'
    BY <1>2 DEF Submit, TypeOK, Arms
  <2>2. CycleInv'
    BY <1>2 DEF Submit, TypeOK, Arms, CycleInv, CellOK, ArmStates, Stopped
  <2>3. FileNamesEveryHalt'
    BY <1>2 DEF Submit, FileNamesEveryHalt
  <2> QED BY <2>1, <2>2, <2>3
<1>3. ASSUME NEW s \in Slots, NEW o \in Oids, Cancel(s, o) PROVE IInv'
  <2>1. TypeOK'
    BY <1>3 DEF Cancel, TypeOK, Arms
  <2>2. CycleInv'
    BY <1>3 DEF Cancel, TypeOK, Arms, CycleInv, CellOK, ArmStates
  <2>3. FileNamesEveryHalt'
    BY <1>3 DEF Cancel, FileNamesEveryHalt
  <2> QED BY <2>1, <2>2, <2>3
<1>4. ASSUME NEW s \in Slots, NEW o \in Oids, BookFill(s, o) PROVE IInv'
  <2>1. TypeOK'
    BY <1>4 DEF BookFill, TypeOK
  <2>2. CycleInv'
    BY <1>4 DEF BookFill, TypeOK, CycleInv
  <2>3. FileNamesEveryHalt'
    BY <1>4 DEF BookFill, FileNamesEveryHalt
  <2> QED BY <2>1, <2>2, <2>3
<1>5. ASSUME NEW s \in Slots, NEW why \in {"operator", "trigger"}, HaltSlot(s, why)
      PROVE IInv'
  BY <1>5, HaltSlotInv
<1>6. ASSUME NEW s \in Slots, NEW o \in Oids, VenueEnds(s, o) PROVE IInv'
  <2>1. TypeOK'
    BY <1>6 DEF VenueEnds, TypeOK, Arms
  <2>2. CycleInv'
    BY <1>6 DEF VenueEnds, TypeOK, Arms, CycleInv, CellOK, ArmStates
  <2>3. FileNamesEveryHalt'
    BY <1>6 DEF VenueEnds, FileNamesEveryHalt
  <2> QED BY <2>1, <2>2, <2>3
<1>7. ASSUME NEW s \in Slots, SweepStep(s) PROVE IInv'
  <2>0. arm[s] \in Arms /\ CellOK(cell[s], arm[s]) /\ arm[s].state = "working"
    BY <1>7 DEF SweepStep, TypeOK, CycleInv
  <2>1. PICK b \in Arms : /\ arm' = [arm EXCEPT ![s] = b]
                          /\ b.venue \subseteq arm[s].venue
                          /\ CellOK(cell[s], b)
    <3>1. ASSUME NEW o \in arm[s].cover \cap arm[s].venue,
                 arm' = [arm EXCEPT ![s].venue = @ \ {o}]
          PROVE  \E b \in Arms : /\ arm' = [arm EXCEPT ![s] = b]
                                 /\ b.venue \subseteq arm[s].venue
                                 /\ CellOK(cell[s], b)
      <4> DEFINE b == [arm[s] EXCEPT !.venue = @ \ {o}]
      <4>1. b \in Arms /\ b.venue \subseteq arm[s].venue /\ CellOK(cell[s], b)
        BY <2>0 DEF Arms, ArmStates, CellOK
      <4> QED BY <3>1, <4>1
    <3>2. ASSUME arm[s].cover \cap arm[s].venue = {},
                 arm' = [arm EXCEPT ![s].state = "clear", ![s].cover = {}]
          PROVE  \E b \in Arms : /\ arm' = [arm EXCEPT ![s] = b]
                                 /\ b.venue \subseteq arm[s].venue
                                 /\ CellOK(cell[s], b)
      <4> DEFINE b == [arm[s] EXCEPT !.state = "clear", !.cover = {}]
      <4>1. b \in Arms /\ b.venue \subseteq arm[s].venue /\ CellOK(cell[s], b)
        BY <2>0, <3>2 DEF Arms, ArmStates, CellOK
      <4>2. arm' = [arm EXCEPT ![s] = b]
        BY <3>2 DEF TypeOK
      <4> QED BY <4>1, <4>2
    <3> QED BY <1>7, <3>1, <3>2 DEF SweepStep
  <2>2. TypeOK' /\ CycleInv'
    BY <1>7, <2>1 DEF SweepStep, TypeOK, CycleInv
  <2>3. FileNamesEveryHalt'
    BY <1>7 DEF SweepStep, FileNamesEveryHalt
  <2> QED BY <2>2, <2>3
<1>8. ASSUME NEW s \in Slots, SweepStrands(s) PROVE IInv'
  <2>1. TypeOK'
    <3>1. faults' \in 0 .. MaxFaults
      BY <1>8, RoutedAssumption DEF SweepStrands, TypeOK
    <3>2. arm' \in [Slots -> Arms]
      BY <1>8 DEF SweepStrands, TypeOK, Arms, ArmStates
    <3> QED BY <1>8, <3>1, <3>2 DEF SweepStrands, TypeOK
  <2>2. CycleInv'
    BY <1>8 DEF SweepStrands, TypeOK, Arms, CycleInv, CellOK, ArmStates
  <2>3. FileNamesEveryHalt'
    BY <1>8 DEF SweepStrands, FileNamesEveryHalt
  <2> QED BY <2>1, <2>2, <2>3
<1>9. ASSUME NEW S \in SUBSET Slots, NEW kind \in {"text", "garbled", "refused"},
             OperatorWrites(S, kind)
      PROVE IInv'
  <2>1. edits' \in 0 .. MaxEdits
    BY <1>9, RoutedAssumption DEF OperatorWrites, TypeOK
  <2>2. file' \in Files /\ named' \in SUBSET Slots
    BY <1>9 DEF OperatorWrites, Files, Bodies, Reasons
  <2>3. changed' \in BOOLEAN /\ dirty' \in BOOLEAN /\ fresh' \in BOOLEAN
        /\ polled' \in BOOLEAN /\ dirty'
    BY <1>9 DEF OperatorWrites
  <2>4. UNCHANGED <<mode, cell, seeded, rows, arm, ended, faults, restarts>>
    BY <1>9 DEF OperatorWrites
  <2> QED
    BY <2>1, <2>2, <2>3, <2>4 DEF TypeOK, CycleInv, FileNamesEveryHalt
<1>10. CASE OperatorPermits
  <2>1. file' \in Files
    BY <1>10 DEF OperatorPermits, TypeOK, Files
  <2>2. FileNamesEveryHalt'
    BY <1>10 DEF OperatorPermits, FileNamesEveryHalt, TypeOK, Files, Parse, NoFile, IsHalted
  <2> QED BY <1>10, <2>1, <2>2 DEF OperatorPermits, TypeOK, CycleInv
<1>11. CASE OperatorDeletes
  <2>1. edits' \in 0 .. MaxEdits
    BY <1>11, RoutedAssumption DEF OperatorDeletes, TypeOK
  <2>2. file' \in Files /\ named' \in SUBSET Slots
    BY <1>11 DEF OperatorDeletes, NoFile, Files, Bodies, Reasons
  <2>3. changed' \in BOOLEAN /\ dirty' \in BOOLEAN /\ fresh' \in BOOLEAN
        /\ polled' \in BOOLEAN /\ dirty'
    BY <1>11 DEF OperatorDeletes
  <2>4. UNCHANGED <<mode, cell, seeded, rows, arm, ended, faults, restarts>>
    BY <1>11 DEF OperatorDeletes
  <2> QED
    BY <2>1, <2>2, <2>3, <2>4 DEF TypeOK, CycleInv, FileNamesEveryHalt
<1>12. CASE Restart
  BY <1>12, RestartInv
<1>13. CASE UNCHANGED vars
  BY <1>13 DEF vars, TypeOK, CycleInv, FileNamesEveryHalt
<1> QED
  BY <1>1, <1>2, <1>3, <1>4, <1>5, <1>6, <1>7, <1>8, <1>9, <1>10, <1>11, <1>12, <1>13
  DEF Next, Verb

(* The inductive invariant holds in every reachable state. *)
THEOREM InvHolds == Spec => []IInv
BY InitInv, StepInv, PTL DEF Spec

(* The router's state keeps its type. *)
THEOREM RouterTypeCorrect == Spec => []TypeOK
<1>1. IInv => TypeOK
  BY DEF IInv
<1> QED BY <1>1, InvHolds, PTL

(* The ledger never counts fewer orders than work at the venue, for any number
   of slots, orders, refusals, stranded sweeps, edits and restarts: the rows
   of a slot are cleared on the arm's confirmation only (try_cancel_slot). *)
THEOREM RowsNeverUnderCount == Spec => []NoUnderCount
<1>1. IInv => NoUnderCount
  BY DEF IInv, CycleInv, NoUnderCount
<1> QED BY <1>1, InvHolds, PTL

(* A sweep never meets an order placed after it: the slot is stopped as long
   as its arm is at work (HaltState::release). *)
THEOREM SweepsMeetNoNewOrder == Spec => []SweepMeetsNoNewOrder
<1>1. IInv => SweepMeetsNoNewOrder
  BY DEF IInv, CycleInv, CellOK, SweepMeetsNoNewOrder
<1> QED BY <1>1, InvHolds, PTL

(* No stopped slot's resting order is forgotten: its cancel stays owed until
   the arm confirms (the latch and hold edges). *)
THEOREM StoppedOrdersAreOwed == Spec => []StoppedOrderIsOwed
<1>1. IInv => StoppedOrderIsOwed
  BY DEF IInv, CycleInv, CellOK, StoppedOrderIsOwed
<1> QED BY <1>1, InvHolds, PTL

(* exec.HALT names every halted slot with its reason, unless the operator
   edited it or the last write failed (on_halt_edge, adopt_halt_file). *)
THEOREM FileKeepsEveryHalt == Spec => []FileNamesEveryHalt
<1>1. IInv => FileNamesEveryHalt
  BY DEF IInv
<1> QED BY <1>1, InvHolds, PTL

(* A halt keeps its first reason for the whole boot, whatever triggers, files
   and cancel cycles follow (HaltState::latch). *)
THEOREM HaltsAreSticky == Spec => HaltIsSticky
<1> DEFINE Keeps == \A s \in Slots : IsHalted(cell[s]) => cell'[s].reason = cell[s].reason
           Sticky == restarts' = restarts => Keeps
<1>1. IInv /\ [Next]_vars => [Sticky]_vars
  <2> SUFFICES ASSUME IInv, Next, restarts' = restarts PROVE Keeps
    OBVIOUS
  <2>1. CASE IdleStep
    BY <2>1, IdleInv DEF IdleStep
  <2>2. ASSUME NEW s \in Slots, NEW why \in {"operator", "trigger"}, HaltSlot(s, why)
        PROVE Keeps
    <3> DEFINE after == [cell EXCEPT ![s] = Latch(@, why)]
    <3>1. cell \in [Slots -> Cells] /\ arm \in [Slots -> Arms] /\ why \in Reasons
      BY DEF IInv, TypeOK, Reasons
    <3>2. /\ after \in [Slots -> Cells]
          /\ \A t \in Slots : /\ CellOK(after[t], arm[t])
                              /\ IsHalted(cell[t]) => after[t].reason = cell[t].reason
      <4> DEFINE b == Latch(cell[s], why)
      <4>1. /\ b \in Cells /\ CellOK(b, arm[s])
            /\ IsHalted(cell[s]) => b.reason = cell[s].reason
        BY <3>1, LatchKeeps DEF IInv, CycleInv
      <4>2. after = [cell EXCEPT ![s] = b]
        OBVIOUS
      <4> HIDE DEF b, after
      <4>3. \A t \in Slots : CellOK(cell[t], arm[t])
        BY DEF IInv, CycleInv
      <4> QED BY <3>1, <4>1, <4>2, <4>3
    <3>3. TryCancelSlots(after, rows)
      BY <2>2 DEF HaltSlot
    <3> HIDE DEF after
    <3>4. \A t \in Slots : cell'[t].reason = after[t].reason
      BY <3>2, <3>3, TryCancelSlotsKeeps DEF IInv, TypeOK, CycleInv
    <3> QED BY <3>2, <3>4
  <2>3. CASE Restart
    BY <2>3 DEF Restart, IInv, TypeOK
  <2>4. CASE cell' = cell
    BY <2>4
  <2> QED
    BY <2>1, <2>2, <2>3, <2>4
    DEF Next, Verb, Submit, Cancel, BookFill, VenueEnds, SweepStep, SweepStrands,
        OperatorWrites, OperatorPermits, OperatorDeletes
<1> QED
  BY <1>1, InvHolds, PTL DEF Spec, HaltIsSticky

(* A restart resumes no halted slot: with the file as the engine left it, every
   halt of a slot that is still live comes back with its reason
   (adopt_halt_file reads what on_halt_edge wrote). *)
THEOREM RestartResumesNoHalt == Spec => HaltsSurviveRestart
<1> DEFINE Back == \A s \in Slots : IsHalted(cell[s]) /\ mode'[s] = "live"
                                     => cell'[s].reason = cell[s].reason
           Survives == restarts' # restarts /\ ~ dirty => Back
<1>1. IInv /\ [Next]_vars => [Survives]_vars
  <2> SUFFICES ASSUME IInv, Next, restarts' # restarts, ~ dirty PROVE Back
    OBVIOUS
  <2>1. Restart
    <3>1. ~ IdleStep
      BY DEF IdleStep, Idle
    <3>2. ASSUME NEW s \in Slots PROVE ~ Verb(s) /\ ~ SweepStep(s) /\ ~ SweepStrands(s)
      BY DEF Verb, Submit, Cancel, BookFill, SweepStep, SweepStrands
    <3>3. ASSUME NEW s \in Slots, NEW why \in {"operator", "trigger"}
          PROVE ~ HaltSlot(s, why)
      BY DEF HaltSlot
    <3>4. ASSUME NEW s \in Slots, NEW o \in Oids PROVE ~ VenueEnds(s, o)
      BY DEF VenueEnds
    <3>5. /\ \A S \in SUBSET Slots, kind \in {"text", "garbled", "refused"} :
               ~ OperatorWrites(S, kind)
          /\ ~ OperatorPermits /\ ~ OperatorDeletes
      BY DEF OperatorWrites, OperatorPermits, OperatorDeletes
    <3> QED BY <3>1, <3>2, <3>3, <3>4, <3>5 DEF Next
  <2> DEFINE empty == [s \in Slots |-> NewCell]
  <2>2. PICK m \in [Slots -> Modes] :
          mode' = m /\ cell' = LatchAll(m, empty, Parse(file))
    BY <2>1 DEF Restart
  <2>3. ASSUME NEW s \in Slots, IsHalted(cell[s]), mode'[s] = "live"
        PROVE  cell'[s].reason = cell[s].reason
    <3>1. Parse(file)[s] = cell[s].reason
      BY <2>3 DEF IInv, FileNamesEveryHalt
    <3>2. cell'[s] = Latch(NewCell, Parse(file)[s])
      BY <2>2, <2>3 DEF LatchAll
    <3> QED BY <2>3, <3>1, <3>2 DEF Latch, NewCell, IsHalted
  <2> QED BY <2>3
<1> QED
  BY <1>1, InvHolds, PTL DEF Spec, HaltsSurviveRestart
=============================================================================
