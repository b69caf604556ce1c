---------------------------- MODULE MCRoutedHalt ----------------------------
(* RoutedHalt with two slots and no orders: the file, its edits and the
   restart.  The cancel cycle is in MCProgress. *)
EXTENDS RoutedHalt, TLC

CONSTANTS s1, s2

TwoSlots == {s1, s2}
NoOrders == {}
UpOnly == {"up"}

\* Without orders there is nothing to place, to trade or to strand on.
FileNext ==
  \/ IdleStep
  \/ \E s \in Slots : \/ \E why \in {"operator", "trigger"} : HaltSlot(s, why)
                      \/ SweepStep(s)
  \/ \E S \in SUBSET Slots, kind \in {"text", "garbled", "refused"} :
       OperatorWrites(S, kind)
  \/ OperatorPermits \/ OperatorDeletes \/ Restart

FileSpec == Init /\ [][FileNext]_vars

Symmetric == Permutations({s1, s2})
=============================================================================
