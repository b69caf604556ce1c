---------------------------- MODULE SnapshotCell ----------------------------
(***************************************************************************)
(* engine-snapshot's seqlock: one writer brackets a copy of the snapshot   *)
(* with an odd and an even version, and a reader keeps a copy only if the  *)
(* version it started from is still there when the copy is done.  The      *)
(* snapshot is copied a word at a time, in any order, on both sides; word  *)
(* w of the k-th published snapshot reads k.                               *)
(*                                                                         *)
(* `seq' and `data' are what other cores see.  The writer's entry is an    *)
(* Acquire read-modify-write: the store half of it is ordered before the   *)
(* payload stores that follow only where the machine keeps stores in       *)
(* program order (x86_64).  On aarch64 it may become visible after some of *)
(* them.  The exit is a Release store, ordered after everything.           *)
(***************************************************************************)
EXTENDS Integers

CONSTANTS Words,          \* the words of the snapshot
          Targets,        \* the machines the workspace is built for: x86_64, aarch64
          MaxPublishes    \* bound on the publishes of one behaviour

VARIABLES target,  \* the machine this process runs on
          seq,     \* the version as other cores see it
          data,    \* the payload as other cores see it
          writer,  \* pc; seq0, the version it entered at; hidden: the odd
                   \* version is not visible yet; done: the words copied
          reader   \* pc; seq1; val, the private copy; done: the words copied

vars == <<target, seq, data, writer, reader>>

Init ==
    /\ target \in Targets
    /\ seq = 0
    /\ data = [w \in Words |-> 0]
    /\ writer = [pc |-> "idle", seq0 |-> 0, hidden |-> FALSE, done |-> {}]
    /\ reader = [pc |-> "idle", seq1 |-> 0, val |-> [w \in Words |-> 0], done |-> {}]

----------------------------------------------------------------------------
\* SnapshotCell::publish

Enter ==
    /\ writer.pc = "idle"
    /\ seq < 2 * MaxPublishes
    /\ \E hide \in {FALSE, target = "aarch64"} :
         /\ seq' = IF hide THEN seq ELSE seq + 1
         /\ writer' = [pc |-> "copy", seq0 |-> seq, hidden |-> hide, done |-> {}]
    /\ UNCHANGED <<target, data, reader>>

\* The odd version of a reordered entry reaches the other cores.
EntryVisible ==
    /\ writer.hidden
    /\ seq' = writer.seq0 + 1
    /\ writer' = [writer EXCEPT !.hidden = FALSE]
    /\ UNCHANGED <<target, data, reader>>

WriteWord ==
    /\ writer.pc = "copy"
    /\ \E w \in Words \ writer.done :
         /\ data' = [data EXCEPT ![w] = (writer.seq0 + 2) \div 2]
         /\ writer' = [writer EXCEPT !.done = @ \cup {w}]
    /\ UNCHANGED <<target, seq, reader>>

\* Mutant: the write section is left before the last word.
MutExitEarly ==
    /\ writer.pc = "copy"
    /\ writer.done # {}
    /\ seq' = writer.seq0 + 2
    /\ writer' = [writer EXCEPT !.pc = "idle", !.hidden = FALSE]
    /\ UNCHANGED <<target, data, reader>>

\* Mutant: the version stays odd.
MutExitStaysOdd ==
    /\ writer.pc = "copy"
    /\ writer.done = Words
    /\ seq' = writer.seq0 + 1
    /\ writer' = [writer EXCEPT !.pc = "idle", !.hidden = FALSE]
    /\ UNCHANGED <<target, data, reader>>

Exit ==
    /\ writer.pc = "copy"
    /\ writer.done = Words
    /\ seq' = writer.seq0 + 2
    /\ writer' = [writer EXCEPT !.pc = "idle", !.hidden = FALSE]
    /\ UNCHANGED <<target, data, reader>>

----------------------------------------------------------------------------
\* SnapshotCell::read and read_into: one loop

\* An odd version spins: the load is retried.
LoadSeq ==
    /\ reader.pc \in {"idle", "returned"}
    /\ seq % 2 = 0
    /\ reader' = [reader EXCEPT !.pc = "copy", !.seq1 = seq, !.done = {}]
    /\ UNCHANGED <<target, seq, data, writer>>

ReadWord ==
    /\ reader.pc = "copy"
    /\ \E w \in Words \ reader.done :
         reader' = [reader EXCEPT !.val = [@ EXCEPT ![w] = data[w]],
                                  !.done = @ \cup {w}]
    /\ UNCHANGED <<target, seq, data, writer>>

\* Mutant: the version is not read again.
MutRevalidateNothing ==
    /\ reader.pc = "copy"
    /\ reader.done = Words
    /\ reader' = [reader EXCEPT !.pc = "returned"]
    /\ UNCHANGED <<target, seq, data, writer>>

\* The version re-check: return the copy, or go round again.
Revalidate ==
    /\ reader.pc = "copy"
    /\ reader.done = Words
    /\ reader' = [reader EXCEPT !.pc = IF seq = reader.seq1 THEN "returned" ELSE "idle"]
    /\ UNCHANGED <<target, seq, data, writer>>

----------------------------------------------------------------------------
Writer == Enter \/ EntryVisible \/ WriteWord \/ Exit
Reader == LoadSeq \/ ReadWord \/ Revalidate
Next == Writer \/ Reader

\* Both threads run: a publish under way is finished and a reader keeps
\* looping.  Nothing makes the writer publish again.
Fairness == WF_vars(WriteWord) /\ WF_vars(Exit) /\ WF_vars(Reader)

Spec == Init /\ [][Next]_vars
FairSpec == Spec /\ Fairness

----------------------------------------------------------------------------
\* Versions, payload and the two threads keep their types.
TypeOK ==
    /\ target \in Targets
    /\ seq \in Nat
    /\ data \in [Words -> Nat]
    /\ writer \in [pc : {"idle", "copy"}, seq0 : Nat, hidden : BOOLEAN, done : SUBSET Words]
    /\ reader \in [pc : {"idle", "copy", "returned"}, seq1 : Nat, val : [Words -> Nat],
                   done : SUBSET Words]

\* Where stores stay in program order, what read() returns is one whole
\* published snapshot, the one its version names.
NoTornRead ==
    target = "x86_64" /\ reader.pc = "returned"
      => \A w \in Words : reader.val[w] = reader.seq1 \div 2

\* On every machine a copy can straddle one publish, never more: each word is
\* from the version read() started at or from the next one.
TearsSpanOnePublish ==
    reader.pc = "returned"
      => \A w \in Words : reader.val[w] - (reader.seq1 \div 2) \in {0, 1}

\* The module's claim about every machine (cell.rs:44-52): a torn copy "is
\* materialized at most transiently and never returned".
TornNeverReturned ==
    reader.pc = "returned" => \A w \in Words : reader.val[w] = reader.seq1 \div 2

\* A read under way returns once the writer leaves it alone: with finitely
\* many publishes the loop does not spin for ever.
ReadReturns == [](reader.pc = "copy" => <>(reader.pc = "returned"))
=============================================================================
