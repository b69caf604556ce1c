----------------------------- MODULE HaltState -----------------------------
(***************************************************************************)
(* One slot's halt latch, hold and cancel cycle                            *)
(* (exec-router/src/halt.rs, HaltState), as operators over a cell          *)
(*                                                                         *)
(*    c = [reason, pending, held].                                         *)
(*                                                                         *)
(* The struct keeps one array per field, indexed by the slot; every method *)
(* touches one slot's entries only, so the model keeps one cell per slot.  *)
(* The counters (halts, holds, failures, stranded polls) are read by no    *)
(* decision and are left out.  Every automatic reason is one value,        *)
(* "trigger", and the two hold bits are one Boolean: no decision tells     *)
(* them apart.                                                             *)
(***************************************************************************)
Reasons == {"none", "operator", "trigger"}

Phases == {"none", "wanted", "asked", "retry"}

Cells == [reason : Reasons, pending : Phases, held : BOOLEAN]

NewCell == [reason |-> "none", pending |-> "none", held |-> FALSE]

IsHalted(c) == c.reason # "none"

(* Step 0a of the risk gate refuses the slot's orders. *)
Stopped(c) == IsHalted(c) \/ c.held

---------------------------------------------------------------------------
(* A bug: the edge asks for no cancel. *)
MutLatchNoCancel(c, why) ==
  IF why = "none" \/ IsHalted(c) THEN c ELSE [c EXCEPT !.reason = why]

(* The first reason sticks.  The edge always asks afresh, even while a hold's
   request for the same slot is in flight. *)
Latch(c, why) ==
  IF why = "none" \/ IsHalted(c) THEN c
  ELSE [c EXCEPT !.reason = why, !.pending = "wanted"]

(* On the edge the resting orders are asked back, unless a cancel of the slot
   is already owed. *)
Hold(c) ==
  [c EXCEPT !.held = TRUE,
            !.pending = IF ~ c.held /\ @ = "none" THEN "wanted" ELSE @]

(* Refused while the slot's cancel is owed or in flight. *)
Release(c) == IF c.pending = "none" THEN [c EXCEPT !.held = FALSE] ELSE c

CancelCleared(c) == [c EXCEPT !.pending = "none"]

(* A bug: a request made again is not marked as made. *)
MutCancelRequestedOnce(c) ==
  [c EXCEPT !.pending = IF @ = "wanted" THEN "asked" ELSE @]

CancelRequested(c) ==
  [c EXCEPT !.pending = IF @ \in {"wanted", "retry"} THEN "asked" ELSE @]

(* The bug the method's comment records: a refused request stays ASKED. *)
MutCancelFailedStaysAsked(c) == c

(* A refused request is asked again, never polled for. *)
CancelFailed(c) == [c EXCEPT !.pending = IF @ = "asked" THEN "retry" ELSE @]
=============================================================================
