---------------------------- MODULE MCQueuedArm ----------------------------
(* QueuedArm with two orders and rings of one or two places. *)
EXTENDS QueuedArm, TLC

CONSTANTS o1, o2

TwoOrders == {o1, o2}
Symmetric == Permutations({o1, o2})
=============================================================================
