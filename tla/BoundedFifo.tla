----------------------------- MODULE BoundedFifo -----------------------------
(***************************************************************************)
(* What a ring promises its two ends, with no indices, caches or slots: a  *)
(* queue of at most Cap values, filled by one thread and emptied by        *)
(* another, first in first out.  `last' is the value most recently         *)
(* consumed.                                                               *)
(***************************************************************************)
EXTENDS Naturals, Sequences

CONSTANTS Cap,      \* the capacity
          Values,   \* what may be queued
          NoValue   \* `last' before the first element is consumed

VARIABLES q, last

Init == q = <<>> /\ last = NoValue

Put == /\ Len(q) < Cap
       /\ \E v \in Values : q' = Append(q, v)
       /\ UNCHANGED last

Take == /\ q # <<>>
        /\ last' = Head(q)
        /\ q' = Tail(q)

Next == Put \/ Take

Spec == Init /\ [][Next]_<<q, last>>
=============================================================================
