------------------------------ MODULE SpscRing ------------------------------
(***************************************************************************)
(* core-ring's single-producer single-consumer ring: a producer thread and *)
(* a consumer thread that share `head', `tail' and N slots, each keeping a *)
(* stale copy of the other's index so that it loads the shared one only    *)
(* when its copy says full (or empty).                                     *)
(*                                                                         *)
(* Every shared load, slot copy and shared store is a step of its own.     *)
(* Release/Acquire makes a load of an index also see the slot accesses     *)
(* that precede its store, which is what one shared `buf' says.  The       *)
(* handles' private head and tail always equal the shared ones outside the *)
(* store that moves both, so they are not separate variables.  Indices     *)
(* wrap at W, as the code's usize wraps at 2^64.                           *)
(***************************************************************************)
EXTENDS Integers, Sequences

CONSTANTS N,        \* slots, the const generic
          W,        \* the index width: usize counts modulo W
          Values,   \* the elements, T
          NoValue   \* an unwritten slot; also: nothing consumed yet

\* A power-of-two N divides the power of two 2^64 and is smaller than it.
ASSUME RingAssumption ==
    /\ N \in Nat /\ N >= 2
    /\ W \in Nat /\ W > N /\ W % N = 0
    /\ NoValue \notin Values

VARIABLES head,     \* Ring::head, shared: one past the last published position
          tail,     \* Ring::tail, shared: the first position not yet released
          buf,      \* Ring::buf
          prod,     \* the producer: pc, tailCache, the value being pushed
          cons,     \* the consumer: pc, headCache
          last      \* history: the element most recently released

vars == <<head, tail, buf, prod, cons, last>>

Index == 0 .. W - 1

\* wrapping_add(1)
Succ(a) == IF a + 1 = W THEN 0 ELSE a + 1

\* wrapping_sub
Dist(a, b) == IF a >= b THEN a - b ELSE a - b + W

\* pos & (N - 1)
Slot(pos) == pos % N

Init ==
    /\ head = 0
    /\ tail = 0
    /\ buf = [i \in 0 .. N - 1 |-> NoValue]
    /\ prod = [pc |-> "idle", tailCache |-> 0, val |-> NoValue]
    /\ cons = [pc |-> "idle", headCache |-> 0]
    /\ last = NoValue

----------------------------------------------------------------------------
\* Producer::try_push_ref

TryPush ==
    /\ prod.pc = "idle"
    /\ \E v \in Values :
         prod' = [prod EXCEPT !.val = v,
                              !.pc = IF Dist(head, prod.tailCache) >= N
                                       THEN "refresh" ELSE "copy"]
    /\ UNCHANGED <<head, tail, buf, cons, last>>

\* Mutant: the tail is cached one ahead.
MutRefreshTailOffByOne ==
    /\ prod.pc = "refresh"
    /\ prod' = IF Dist(head, tail) > N
                 THEN [prod EXCEPT !.pc = "idle"]
                 ELSE [prod EXCEPT !.pc = "copy", !.tailCache = tail]
    /\ UNCHANGED <<head, tail, buf, cons, last>>

\* A refusal returns without storing what it loaded.
RefreshTail ==
    /\ prod.pc = "refresh"
    /\ prod' = IF Dist(head, tail) >= N
                 THEN [prod EXCEPT !.pc = "idle"]
                 ELSE [prod EXCEPT !.pc = "copy", !.tailCache = tail]
    /\ UNCHANGED <<head, tail, buf, cons, last>>

CopySlot ==
    /\ prod.pc = "copy"
    /\ buf' = [buf EXCEPT ![Slot(head)] = prod.val]
    /\ prod' = [prod EXCEPT !.pc = "publish"]
    /\ UNCHANGED <<head, tail, cons, last>>

Publish ==
    /\ prod.pc = "publish"
    /\ head' = Succ(head)
    /\ prod' = [prod EXCEPT !.pc = "idle"]
    /\ UNCHANGED <<tail, buf, cons, last>>

----------------------------------------------------------------------------
\* Consumer::try_pop_ref and its guard

TryPop ==
    /\ cons.pc = "idle"
    /\ cons' = [cons EXCEPT !.pc = IF tail = cons.headCache THEN "refresh" ELSE "lent"]
    /\ UNCHANGED <<head, tail, buf, prod, last>>

RefreshHead ==
    /\ cons.pc = "refresh"
    /\ cons' = IF head = tail
                 THEN [cons EXCEPT !.pc = "idle"]
                 ELSE [cons EXCEPT !.pc = "lent", !.headCache = head]
    /\ UNCHANGED <<head, tail, buf, prod, last>>

\* Popped::drop releases the slot; the value is what a deref then reads.
DropGuard ==
    /\ cons.pc = "lent"
    /\ tail' = Succ(tail)
    /\ last' = buf[Slot(tail)]
    /\ cons' = [cons EXCEPT !.pc = "idle"]
    /\ UNCHANGED <<head, buf, prod>>

\* A guard that is forgotten never runs drop: nothing is consumed.
ForgetGuard ==
    /\ cons.pc = "lent"
    /\ cons' = [cons EXCEPT !.pc = "idle"]
    /\ UNCHANGED <<head, tail, buf, prod, last>>

----------------------------------------------------------------------------
Next ==
    \/ TryPush \/ RefreshTail \/ CopySlot \/ Publish
    \/ TryPop \/ RefreshHead \/ DropGuard \/ ForgetGuard

Spec == Init /\ [][Next]_vars

----------------------------------------------------------------------------
\* The shared indices, caches and program counters keep their types.
TypeOK ==
    /\ head \in Index
    /\ tail \in Index
    /\ buf \in [0 .. N - 1 -> Values \cup {NoValue}]
    /\ prod \in [pc : {"idle", "refresh", "copy", "publish"}, tailCache : Index,
                 val : Values \cup {NoValue}]
    /\ cons \in [pc : {"idle", "refresh", "lent"}, headCache : Index]
    /\ last \in Values \cup {NoValue}

\* The SAFETY argument (2) of try_push_ref: while the producer copies into its
\* slot, no guard lends that slot, although the producer's view of the tail
\* may be a whole lap old.
NoDataRace ==
    prod.pc = "copy" /\ cons.pc = "lent" => Slot(head) # Slot(tail)

\* The SAFETY argument of Popped::deref: the lent position is published, and
\* a lent slot keeps its element until the guard is dropped, whatever the
\* producer does in the meantime.
LentSlotIsStable ==
    [][cons.pc = "lent" => buf'[Slot(tail)] = buf[Slot(tail)]]_vars

\* Producer::len and Consumer::len never exceed the capacity, and each cache
\* lags the index it copies without ever passing the other end.
CachesLag ==
    /\ Dist(head, tail) <= N
    /\ Dist(head, prod.tailCache) = Dist(head, tail) + Dist(tail, prod.tailCache)
    /\ Dist(head, tail) = Dist(head, cons.headCache) + Dist(cons.headCache, tail)

\* The published positions, oldest first, are a bounded FIFO.
Contents == [i \in 1 .. Dist(head, tail) |-> buf[Slot(tail + i - 1)]]

Fifo == INSTANCE BoundedFifo WITH Cap <- N, q <- Contents

\* Elements are delivered once each, in order, none lost to a stale cache:
\* Publish is the queue's Put and DropGuard its Take.
ImplementsFifo == Fifo!Spec
=============================================================================
