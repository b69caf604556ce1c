---------------------------- MODULE Parts_proofs ----------------------------
(***************************************************************************)
(* The shared-memory parts, for every size: the ring for every capacity N, *)
(* every index width W that N divides and every element type; the mailbox  *)
(* for every message and every number of parts it is written in; the       *)
(* snapshot cell for every number of words and of publishes.  The ring and *)
(* the mailbox are shown to implement the queue of BoundedFifo.            *)
(***************************************************************************)
EXTENDS MCParts, SequenceTheorems, TLAPS

-----------------------------------------------------------------------------
(***************************************************************************)
(* The ring.                                                               *)
(***************************************************************************)

\* The slots of two positions less than a lap apart are different slots, the
\* fact behind the mask `pos & (N - 1)'.
LEMMA SlotDistinct ==
    ASSUME NEW a \in Index, NEW b \in Index, 0 < Dist(a, b), Dist(a, b) < N
    PROVE  Slot(a) # Slot(b)
<1> DEFINE qa == a \div N
           qb == b \div N
           qw == W \div N
<1>1. N \in Nat /\ N >= 2 /\ W \in Nat /\ W % N = 0 /\ a \in Int /\ b \in Int
  BY RingAssumption DEF Index
<1>2. /\ qa \in Int /\ a = N * qa + (a % N) /\ a % N \in Int
      /\ qb \in Int /\ b = N * qb + (b % N) /\ b % N \in Int
      /\ qw \in Int /\ W = N * qw
  BY <1>1
<1>3. SUFFICES ASSUME a % N = b % N PROVE FALSE
  BY DEF Slot
<1> DEFINE k == IF a >= b THEN qa - qb ELSE qa - qb + qw
<1>4. k \in Int /\ Dist(a, b) = N * k
  BY <1>1, <1>2, <1>3 DEF Dist
<1> HIDE DEF k
<1>5. CASE k <= 0
  BY <1>1, <1>4, <1>5, N * k <= 0
<1>6. CASE k >= 1
  BY <1>1, <1>4, <1>6, N * k >= N
<1>7. QED BY <1>4, <1>5, <1>6

\* Type correctness: every index stays inside the usize range when it wraps.
THEOREM TypeCorrect == Spec => []TypeOK
<1>1. Init => TypeOK
  BY RingAssumption DEF Init, TypeOK, Index
<1>2. TypeOK /\ [Next]_vars => TypeOK'
  <2> SUFFICES ASSUME TypeOK, [Next]_vars PROVE TypeOK'
    OBVIOUS
  <2> USE RingAssumption DEF TypeOK, Index, Succ
  <2>1. CASE TryPush
    BY <2>1, Zenon DEF TryPush
  <2>2. CASE RefreshTail
    BY <2>2, Zenon DEF RefreshTail
  <2>3. CASE CopySlot
    BY <2>3, Zenon DEF CopySlot
  <2>4. CASE Publish
    <3>1. head' \in 0 .. W - 1
      BY <2>4 DEF Publish
    <3>2. prod' \in [pc : {"idle", "refresh", "copy", "publish"}, tailCache : Index,
                     val : Values \cup {NoValue}]
      BY <2>4 DEF Publish
    <3> QED BY <2>4, <3>1, <3>2 DEF Publish
  <2>5. CASE TryPop
    BY <2>5 DEF TryPop
  <2>6. CASE RefreshHead
    BY <2>6, Zenon DEF RefreshHead
  <2>7. CASE DropGuard
    <3>1. Slot(tail) \in 0 .. N - 1
      BY DEF Slot
    <3>2. last' \in Values \cup {NoValue}
      BY <2>7, <3>1 DEF DropGuard
    <3>3. tail' \in 0 .. W - 1
      BY <2>7 DEF DropGuard
    <3>4. cons' \in [pc : {"idle", "refresh", "lent"}, headCache : 0 .. W - 1]
      BY <2>7 DEF DropGuard
    <3>5. QED BY <2>7, <3>2, <3>3, <3>4 DEF DropGuard
  <2>8. CASE ForgetGuard
    BY <2>8 DEF ForgetGuard
  <2>9. CASE UNCHANGED vars
    BY <2>9 DEF vars
  <2>10. QED
    BY <2>1, <2>2, <2>3, <2>4, <2>5, <2>6, <2>7, <2>8, <2>9 DEF Next
<1>3. QED BY <1>1, <1>2, PTL DEF Spec

-----------------------------------------------------------------------------
(***************************************************************************)
(* The inductive invariant.  CachesLag alone is not inductive: a push that *)
(* is past its check must still have room when it writes, and a lent guard *)
(* must still be inside what its cache saw.                                *)
(***************************************************************************)
RingInv ==
    /\ CachesLag
    /\ Dist(head, prod.tailCache) <= N
    /\ prod.pc \in {"copy", "publish"} => Dist(head, prod.tailCache) < N
    /\ cons.pc = "lent" => Dist(cons.headCache, tail) > 0

\* wrapping_add moves a wrapping distance by exactly one at either end.
LEMMA DistSucc ==
    ASSUME NEW a \in Index, NEW b \in Index
    PROVE  /\ Succ(a) \in Index
           /\ Dist(a, b) \in Nat
           /\ Dist(a, a) = 0
           /\ Dist(a, b) = 0 => a = b
           /\ Dist(a, b) + 1 < W => Dist(Succ(a), b) = Dist(a, b) + 1
           /\ Dist(a, b) > 0 => Dist(a, Succ(b)) = Dist(a, b) - 1
<1>1. N \in Nat /\ W \in Nat /\ W > N
  BY RingAssumption
<1>2. QED BY <1>1 DEF Index, Dist, Succ

\* Every step of the producer and of the consumer keeps it.
LEMMA RingInvInductive == TypeOK /\ RingInv /\ [Next]_vars => RingInv'
<1> SUFFICES ASSUME TypeOK, RingInv, [Next]_vars PROVE RingInv'
  OBVIOUS
<1> DEFINE tc == prod.tailCache
           hc == cons.headCache
<1>0. /\ N \in Nat /\ N >= 2 /\ W \in Nat /\ W > N
      /\ head \in Index /\ tail \in Index /\ tc \in Index /\ hc \in Index
  BY RingAssumption DEF TypeOK
<1>1. CASE TryPush
  <2>1. /\ prod'.tailCache = tc
        /\ prod'.pc = IF Dist(head, tc) >= N THEN "refresh" ELSE "copy"
        /\ UNCHANGED <<head, tail, cons>>
    BY <1>1 DEF TryPush, TypeOK
  <2>2. Dist(head, tc) \in Nat
    BY <1>0, DistSucc, Zenon
  <2>3. QED BY <2>1, <2>2, <1>0 DEF RingInv, CachesLag
<1>2. CASE RefreshTail
  <2>1. UNCHANGED <<head, tail, cons>>
    BY <1>2 DEF RefreshTail
  <2>2. CASE Dist(head, tail) >= N
    <3>1. prod'.tailCache = tc /\ prod'.pc = "idle"
      BY <1>2, <2>2 DEF RefreshTail, TypeOK
    <3>2. QED BY <2>1, <3>1 DEF RingInv, CachesLag
  <2>3. CASE ~(Dist(head, tail) >= N)
    <3>1. prod'.tailCache = tail /\ prod'.pc = "copy"
      BY <1>2, <2>3 DEF RefreshTail, TypeOK
    <3>2. Dist(head, tail) \in Nat /\ Dist(tail, tail) = 0
      BY <1>0, DistSucc
    <3>3. QED BY <2>1, <2>3, <3>1, <3>2, <1>0 DEF RingInv, CachesLag
  <2>4. QED BY <2>2, <2>3
<1>3. CASE CopySlot
  <2>1. /\ prod'.tailCache = tc /\ prod'.pc = "publish" /\ prod.pc = "copy"
        /\ UNCHANGED <<head, tail, cons>>
    BY <1>3 DEF CopySlot, TypeOK
  <2>2. QED BY <2>1 DEF RingInv, CachesLag
<1>4. CASE Publish
  <2>1. /\ prod'.tailCache = tc /\ prod'.pc = "idle" /\ prod.pc = "publish"
        /\ head' = Succ(head)
        /\ UNCHANGED <<tail, cons>>
    BY <1>4 DEF Publish, TypeOK
  <2>2. /\ Dist(head, tc) \in Nat /\ Dist(head, tail) \in Nat /\ Dist(head, hc) \in Nat
        /\ Dist(tail, tc) \in Nat /\ Dist(hc, tail) \in Nat
    BY <1>0, DistSucc, Zenon
  <2>3. Dist(head, tc) < N /\ Dist(head, tail) < N /\ Dist(head, hc) < N
    BY <2>1, <2>2, <1>0 DEF RingInv, CachesLag
  <2>4. /\ Dist(head', tc) = Dist(head, tc) + 1
        /\ Dist(head', tail) = Dist(head, tail) + 1
        /\ Dist(head', hc) = Dist(head, hc) + 1
    BY <1>0, <2>1, <2>2, <2>3, DistSucc
  <2>5. QED BY <1>0, <2>1, <2>2, <2>3, <2>4 DEF RingInv, CachesLag
<1>5. CASE TryPop
  <2>1. /\ cons'.headCache = hc /\ (cons'.pc = "lent" => tail # hc)
        /\ UNCHANGED <<head, tail, prod>>
    BY <1>5 DEF TryPop, TypeOK
  <2>2. Dist(hc, tail) \in Nat /\ (Dist(hc, tail) = 0 => hc = tail)
    BY <1>0, DistSucc
  <2>3. QED BY <2>1, <2>2 DEF RingInv, CachesLag
<1>6. CASE RefreshHead
  <2>1. UNCHANGED <<head, tail, prod>>
    BY <1>6 DEF RefreshHead
  <2>2. CASE head = tail
    <3>1. cons'.headCache = hc /\ cons'.pc = "idle"
      BY <1>6, <2>2 DEF RefreshHead, TypeOK
    <3>2. QED BY <2>1, <3>1 DEF RingInv, CachesLag
  <2>3. CASE head # tail
    <3>1. cons'.headCache = head /\ cons'.pc = "lent"
      BY <1>6, <2>3 DEF RefreshHead, TypeOK
    <3>2. Dist(head, head) = 0 /\ Dist(head, tail) \in Nat /\ Dist(head, tail) # 0
      BY <1>0, <2>3, DistSucc
    <3>3. QED BY <2>1, <3>1, <3>2, <1>0 DEF RingInv, CachesLag
  <2>4. QED BY <2>2, <2>3
<1>7. CASE DropGuard
  <2>1. /\ cons'.headCache = hc /\ cons'.pc = "idle" /\ cons.pc = "lent"
        /\ tail' = Succ(tail)
        /\ UNCHANGED <<head, prod>>
    BY <1>7 DEF DropGuard, TypeOK
  <2>2. /\ Dist(head, tc) \in Nat /\ Dist(head, tail) \in Nat /\ Dist(head, hc) \in Nat
        /\ Dist(tail, tc) \in Nat /\ Dist(hc, tail) \in Nat
    BY <1>0, DistSucc, Zenon
  <2>3. Dist(hc, tail) > 0 /\ Dist(head, tail) > 0 /\ Dist(tail, tc) + 1 <= N
    BY <2>1, <2>2, <1>0 DEF RingInv, CachesLag
  <2>4. Dist(head, tail') = Dist(head, tail) - 1 /\ Dist(hc, tail') = Dist(hc, tail) - 1
    BY <1>0, <2>1, <2>3, DistSucc
  <2>5. Dist(tail', tc) = Dist(tail, tc) + 1
    <3>1. Dist(tail, tc) + 1 < W
      BY <1>0, <2>2, <2>3
    <3>2. QED BY <1>0, <2>1, <3>1, DistSucc
  <2>6. QED BY <1>0, <2>1, <2>2, <2>3, <2>4, <2>5 DEF RingInv, CachesLag
<1>8. CASE ForgetGuard
  <2>1. cons'.headCache = hc /\ cons'.pc = "idle" /\ UNCHANGED <<head, tail, prod>>
    BY <1>8 DEF ForgetGuard, TypeOK
  <2>2. QED BY <2>1 DEF RingInv, CachesLag
<1>9. CASE UNCHANGED vars
  BY <1>9 DEF vars, RingInv, CachesLag
<1>10. QED
  BY <1>1, <1>2, <1>3, <1>4, <1>5, <1>6, <1>7, <1>8, <1>9 DEF Next

\* A lent guard and a copy in progress are strictly less than a lap apart.
LEMMA LentBehindCopy ==
    ASSUME TypeOK, RingInv, prod.pc = "copy", cons.pc = "lent"
    PROVE  Slot(head) # Slot(tail)
<1> DEFINE tc == prod.tailCache
           hc == cons.headCache
<1>1. N \in Nat /\ head \in Index /\ tail \in Index /\ tc \in Index /\ hc \in Index
  BY RingAssumption DEF TypeOK
<1>2. /\ Dist(head, tc) \in Nat /\ Dist(head, tail) \in Nat /\ Dist(head, hc) \in Nat
      /\ Dist(tail, tc) \in Nat /\ Dist(hc, tail) \in Nat
  BY <1>1, DistSucc, Zenon
<1>3. 0 < Dist(head, tail) /\ Dist(head, tail) < N
  BY <1>1, <1>2 DEF RingInv, CachesLag
<1>4. QED BY <1>1, <1>3, SlotDistinct

\* The caches' invariant holds in every state of the ring.
LEMMA RingInvHolds == Spec => []RingInv
<1>1. Init => RingInv
  BY RingAssumption DEF Init, RingInv, CachesLag, Dist
<1>2. QED BY <1>1, RingInvInductive, TypeCorrect, PTL DEF Spec

\* The caches lag the indices they copy and never let either end pass the
\* other: the ring never holds more than N elements nor fewer than none.
THEOREM CachesLagHolds == Spec => []CachesLag
<1>1. RingInv => CachesLag
  BY DEF RingInv
<1>2. QED BY <1>1, RingInvHolds, PTL

\* The producer never writes the slot a live guard lends.
THEOREM RingRaceFree == Spec => []NoDataRace
<1>1. TypeOK /\ RingInv => NoDataRace
  BY LentBehindCopy DEF NoDataRace
<1>2. QED BY <1>1, TypeCorrect, RingInvHolds, PTL

\* A lent element does not change under its guard.
THEOREM LentSlotHolds == Spec => LentSlotIsStable
<1>1. TypeOK /\ RingInv /\ [Next]_vars
        => [cons.pc = "lent" => buf'[Slot(tail)] = buf[Slot(tail)]]_vars
  <2> SUFFICES ASSUME TypeOK, RingInv, [Next]_vars, cons.pc = "lent"
               PROVE  buf'[Slot(tail)] = buf[Slot(tail)]
    OBVIOUS
  <2>1. CASE CopySlot
    <3>1. Slot(head) # Slot(tail)
      BY <2>1, LentBehindCopy DEF CopySlot
    <3>2. Slot(tail) \in 0 .. N - 1
      BY RingAssumption DEF TypeOK, Index, Slot
    <3>3. QED BY <2>1, <3>1, <3>2 DEF CopySlot, TypeOK
  <2>2. CASE UNCHANGED buf
    BY <2>2
  <2>3. QED
    BY <2>1, <2>2, Zenon DEF Next, vars, TryPush, RefreshTail, Publish, TryPop, RefreshHead,
                      DropGuard, ForgetGuard
<1>2. QED BY <1>1, TypeCorrect, RingInvHolds, PTL DEF Spec, LentSlotIsStable

-----------------------------------------------------------------------------
(***************************************************************************)
(* The ring implements the queue.                                          *)
(***************************************************************************)

\* A remainder is the only one of its class.
LEMMA ModUnique ==
    ASSUME NEW n \in Nat, n >= 1, NEW q \in Int, NEW r \in 0 .. n - 1
    PROVE  (n * q + r) % n = r
<1> DEFINE a == n * q + r
           k == q - (a \div n)
<1>1. a \in Int
  OBVIOUS
<1> HIDE DEF a
<1>2. a \div n \in Int /\ a = n * (a \div n) + (a % n) /\ a % n \in 0 .. n - 1
  BY <1>1
<1>3. k \in Int /\ n * k = (a % n) - r
  BY <1>2 DEF a
<1> HIDE DEF k
<1>4. n * k \in Int /\ n * k > -n /\ n * k < n
  <2>1. a % n \in 0 .. n - 1
    BY <1>2
  <2>2. (a % n) - r > -n /\ (a % n) - r < n /\ (a % n) - r \in Int
    BY <2>1
  <2>3. QED BY <1>3, <2>2
<1>5. CASE k <= -1
  <2>1. n * k <= -n
    BY <1>3, <1>5
  <2>2. QED BY <1>4, <2>1
<1>6. CASE k >= 1
  <2>1. n * k >= n
    BY <1>3, <1>6
  <2>2. QED BY <1>4, <2>1
<1>7. CASE k = 0
  BY <1>2, <1>3, <1>7 DEF a
<1>8. QED BY <1>3, <1>5, <1>6, <1>7

\* The slot of a position does not change when its index wraps.
LEMMA SlotWraps ==
    ASSUME NEW x \in Nat
    PROVE  Slot(x + W) = Slot(x)
<1> DEFINE qx == x \div N
           qw == W \div N
           r == x % N
<1>1. N \in Nat /\ N >= 1 /\ W \in Nat /\ W % N = 0
  BY RingAssumption
<1>2. /\ qx \in Int /\ x = N * qx + r /\ r \in 0 .. N - 1
      /\ qw \in Int /\ W = N * qw
  BY <1>1
<1> HIDE DEF qx, qw, r
<1>3. x + W = N * (qx + qw) + r /\ qx + qw \in Int
  BY <1>1, <1>2
<1> DEFINE q == qx + qw
<1> HIDE DEF q
<1>4. (N * q + r) % N = r
  BY <1>1, <1>2, <1>3, ModUnique DEF q
<1>5. QED BY <1>3, <1>4 DEF Slot, q, r

\* Positions less than a lap apart have different slots, wrapped or not.
LEMMA SlotApart ==
    ASSUME NEW x \in Nat, NEW k \in 1 .. N - 1
    PROVE  Slot(x + k) # Slot(x)
<1> DEFINE y == x + k
           d == (y \div N) - (x \div N)
<1>1. N \in Nat /\ N >= 2 /\ y \in Nat
  BY RingAssumption
<1> HIDE DEF y
<1>2. /\ x \div N \in Int /\ x = N * (x \div N) + (x % N) /\ x % N \in Int
      /\ y \div N \in Int /\ y = N * (y \div N) + (y % N) /\ y % N \in Int
  BY <1>1
<1>3. SUFFICES ASSUME y % N = x % N PROVE FALSE
  BY DEF Slot, y
<1>4. d \in Int /\ N * d = k
  BY <1>1, <1>2, <1>3 DEF y
<1> HIDE DEF d
<1>5. CASE d <= 0
  BY <1>1, <1>4, <1>5, N * d <= 0
<1>6. CASE d >= 1
  BY <1>1, <1>4, <1>6, N * d >= N
<1>7. QED BY <1>4, <1>5, <1>6

\* The head is as many positions past the tail as there are elements.
LEMMA HeadSlot ==
    ASSUME NEW a \in Index, NEW b \in Index
    PROVE  Slot(b + Dist(a, b)) = Slot(a)
<1>1. W \in Nat /\ a \in Nat /\ b \in Nat
  BY RingAssumption DEF Index
<1>2. CASE a >= b
  <2>1. b + Dist(a, b) = a
    BY <1>1, <1>2 DEF Dist
  <2>2. QED BY <2>1
<1>3. CASE ~(a >= b)
  <2>1. b + Dist(a, b) = a + W
    BY <1>1, <1>3 DEF Dist
  <2>2. QED BY <1>1, <2>1, SlotWraps
<1>4. QED BY <1>2, <1>3

\* The slots from the position after the tail on.
LEMMA SuccSlot ==
    ASSUME NEW b \in Index, NEW i \in Nat
    PROVE  Slot(Succ(b) + i) = Slot(b + 1 + i)
<1>1. W \in Nat /\ b \in Nat
  BY RingAssumption DEF Index
<1>2. CASE b + 1 = W
  <2>1. Succ(b) = 0 /\ b + 1 + i = i + W
    BY <1>1, <1>2 DEF Succ
  <2>2. QED BY <2>1, SlotWraps
<1>3. CASE b + 1 # W
  BY <1>1, <1>3 DEF Succ
<1>4. QED BY <1>2, <1>3

\* What is being pushed is a value, and is in the slot before it is published.
PushInv ==
    /\ prod.pc # "idle" => prod.val \in Values
    /\ prod.pc = "publish" => buf[Slot(head)] = prod.val

\* Every step keeps it: only CopySlot writes the slot about to be published.
LEMMA PushInvInductive == TypeOK /\ PushInv /\ [Next]_vars => PushInv'
<1> SUFFICES ASSUME TypeOK, PushInv, [Next]_vars PROVE PushInv'
  OBVIOUS
<1> USE DEF PushInv, TypeOK
<1>1. CASE TryPush
  BY <1>1 DEF TryPush
<1>2. CASE RefreshTail
  BY <1>2 DEF RefreshTail
<1>3. CASE CopySlot
  <2>1. Slot(head) \in 0 .. N - 1
    BY RingAssumption DEF Index, Slot
  <2>2. QED BY <1>3, <2>1 DEF CopySlot
<1>4. CASE Publish
  BY <1>4 DEF Publish
<1>5. CASE UNCHANGED <<head, buf, prod>>
  BY <1>5
<1>6. QED
  BY <1>1, <1>2, <1>3, <1>4, <1>5
     DEF Next, vars, TryPop, RefreshHead, DropGuard, ForgetGuard

\* It holds in every state of the ring.
LEMMA PushInvHolds == Spec => []PushInv
<1>1. Init => PushInv
  BY DEF Init, PushInv
<1>2. QED BY <1>1, PushInvInductive, TypeCorrect, PTL DEF Spec

\* The contents are a sequence as long as the indices are apart.
ContentsOK ==
    /\ Contents \in Seq(Values \cup {NoValue})
    /\ Len(Contents) = Dist(head, tail)
    /\ \A i \in 1 .. Dist(head, tail) : Contents[i] = buf[Slot(tail + i - 1)]

\* In every well-typed state.
LEMMA ContentsSeq == TypeOK => ContentsOK
<1> SUFFICES ASSUME TypeOK PROVE ContentsOK
  OBVIOUS
<1>1. head \in Index /\ tail \in Index /\ tail \in Nat /\ N \in Nat /\ N >= 2
  BY RingAssumption DEF TypeOK, Index
<1>2. Dist(head, tail) \in Nat
  BY <1>1, DistSucc
<1>3. \A i \in 1 .. Dist(head, tail) : Slot(tail + i - 1) \in 0 .. N - 1
  BY <1>1, <1>2 DEF Slot
<1>4. \A i \in 1 .. Dist(head, tail) : buf[Slot(tail + i - 1)] \in Values \cup {NoValue}
  BY <1>3 DEF TypeOK
<1>5. Contents \in [1 .. Dist(head, tail) -> Values \cup {NoValue}]
  BY <1>4 DEF Contents
<1>6. QED BY <1>2, <1>5 DEF Contents, ContentsOK

\* A step of the ring is a step of the queue or leaves the queue alone.
LEMMA RingStepIsFifoStep ==
    TypeOK /\ TypeOK' /\ RingInv /\ PushInv /\ [Next]_vars => [Fifo!Next]_<<Contents, last>>
<1> SUFFICES ASSUME TypeOK, TypeOK', RingInv, PushInv, [Next]_vars
             PROVE  [Fifo!Next]_<<Contents, last>>
  OBVIOUS
<1> DEFINE D == Dist(head, tail)
<1>1. /\ N \in Nat /\ N >= 2 /\ W \in Nat /\ W > N /\ head \in Index /\ tail \in Index
      /\ prod.tailCache \in Index /\ tail \in Nat /\ D \in Nat /\ D <= N
      /\ Dist(tail, prod.tailCache) \in Nat
  <2>1. head \in Index /\ tail \in Index /\ prod.tailCache \in Index
    BY DEF TypeOK
  <2>2. Dist(head, tail) \in Nat /\ Dist(tail, prod.tailCache) \in Nat
    BY <2>1, DistSucc, Zenon
  <2>3. QED BY <2>1, <2>2, RingAssumption DEF RingInv, CachesLag, Index
<1>2. prod.pc \in {"copy", "publish"} => D < N
  BY <1>1 DEF RingInv, CachesLag
<1>3. /\ Contents \in Seq(Values \cup {NoValue}) /\ Len(Contents) = D
      /\ Contents' \in Seq(Values \cup {NoValue}) /\ Len(Contents') = D'
  <2>1. ContentsOK
    BY ContentsSeq
  <2>2. ContentsOK'
    BY ContentsSeq, PTL
  <2>3. QED BY <2>1, <2>2 DEF ContentsOK
<1>old. \A i \in 1 .. D : Contents[i] = buf[Slot(tail + i - 1)]
  BY ContentsSeq DEF ContentsOK
<1>new. \A i \in 1 .. D' : Contents'[i] = buf'[Slot(tail' + i - 1)]
  <2>1. ContentsOK'
    BY ContentsSeq, PTL
  <2>2. QED BY <2>1 DEF ContentsOK
<1>4. CASE Publish
  <2>1. /\ head' = Succ(head) /\ UNCHANGED <<tail, buf, last>>
        /\ D < N /\ prod.val \in Values /\ buf[Slot(head)] = prod.val
    BY <1>2, <1>4 DEF Publish, PushInv
  <2>2. D' = D + 1
    <3>1. D + 1 < W
      BY <1>1, <2>1
    <3>2. QED BY <1>1, <2>1, <3>1, DistSucc
  <2>3. Slot(tail + (D + 1) - 1) = Slot(head)
    <3>1. tail + (D + 1) - 1 = tail + D
      BY <1>1
    <3>2. QED BY <1>1, <3>1, HeadSlot
  <2> HIDE DEF D
  <2>4. Contents' = Append(Contents, prod.val)
    <3>1. \A i \in 1 .. D + 1 : Contents'[i] = IF i <= D THEN Contents[i] ELSE prod.val
      <4> TAKE i \in 1 .. D + 1
      <4>1. Contents'[i] = buf[Slot(tail + i - 1)]
        BY <1>new, <2>1, <2>2
      <4>2. CASE i <= D
        <5>1. i \in 1 .. D
          BY <1>1, <4>2
        <5>2. QED BY <1>old, <4>1, <4>2, <5>1
      <4>3. CASE i = D + 1
        BY <1>1, <2>1, <2>3, <4>1, <4>3
      <4>4. QED BY <1>1, <4>2, <4>3
    <3>2. Len(Contents') = D + 1
      BY <1>3, <2>2
    <3>3. QED BY <1>1, <1>3, <3>1, <3>2
  <2>5. Fifo!Put
    BY <1>3, <2>1, <2>4 DEF Fifo!Put
  <2>6. QED BY <2>5 DEF Fifo!Next
<1>5. CASE DropGuard
  <2>1. /\ tail' = Succ(tail) /\ last' = buf[Slot(tail)] /\ UNCHANGED <<head, buf>>
        /\ D > 0
    <3>1. cons.headCache \in Index
      BY DEF TypeOK
    <3>2. Dist(head, cons.headCache) \in Nat /\ Dist(cons.headCache, tail) \in Nat
      BY <1>1, <3>1, DistSucc, Zenon
    <3>3. D > 0
      BY <1>1, <1>5, <3>2 DEF DropGuard, RingInv, CachesLag
    <3>4. QED BY <1>5, <3>3 DEF DropGuard
  <2>2. D' = D - 1
    BY <1>1, <2>1, DistSucc
  <2> HIDE DEF D
  <2>3. Contents # <<>> /\ Head(Contents) = buf[Slot(tail)]
    <3>1. Contents[1] = buf[Slot(tail + 1 - 1)] /\ tail + 1 - 1 = tail
      BY <1>1, <1>old, <2>1
    <3>2. QED BY <1>1, <1>3, <2>1, <3>1
  <2>4. Contents' = Tail(Contents)
    <3>1. \A i \in 1 .. D - 1 : Contents'[i] = Contents[i + 1]
      <4> TAKE i \in 1 .. D - 1
      <4>1. Contents'[i] = buf[Slot(Succ(tail) + i - 1)]
        BY <1>new, <2>1, <2>2
      <4>2. Slot(Succ(tail) + (i - 1)) = Slot(tail + 1 + (i - 1)) /\ Succ(tail) \in Nat
        <5>1. i - 1 \in Nat
          BY <1>1
        <5>2. Succ(tail) \in Index
          BY <1>1, DistSucc
        <5>3. QED BY <1>1, <5>1, <5>2, SuccSlot DEF Index
      <4>3. Succ(tail) + (i - 1) = Succ(tail) + i - 1 /\ tail + 1 + (i - 1) = tail + (i + 1) - 1
        BY <1>1, <4>2
      <4>4. Contents[i + 1] = buf[Slot(tail + (i + 1) - 1)]
        <5>1. i + 1 \in 1 .. D
          BY <1>1
        <5>2. QED BY <1>old, <5>1
      <4>5. QED BY <4>1, <4>2, <4>3, <4>4
    <3>2. Len(Contents') = D - 1
      BY <1>3, <2>2
    <3>3. /\ Tail(Contents) \in Seq(Values \cup {NoValue}) /\ Len(Tail(Contents)) = D - 1
          /\ \A i \in 1 .. D - 1 : Tail(Contents)[i] = Contents[i + 1]
      BY <1>1, <1>3, <2>1, <2>3, HeadTailProperties
    <3>4. QED BY <1>3, <3>1, <3>2, <3>3, SeqEqual
  <2>5. Fifo!Take
    BY <2>1, <2>3, <2>4 DEF Fifo!Take
  <2>6. QED BY <2>5 DEF Fifo!Next
<1>6. CASE CopySlot
  <2>1. /\ buf' = [buf EXCEPT ![Slot(head)] = prod.val] /\ UNCHANGED <<head, tail, last>> /\ D < N
    BY <1>2, <1>6 DEF CopySlot
  <2>2. ASSUME NEW i \in 1 .. D
        PROVE  buf'[Slot(tail + i - 1)] = buf[Slot(tail + i - 1)]
    <3> DEFINE x == tail + i - 1
               k == D - i + 1
    <3>1. x \in Nat /\ k \in 1 .. N - 1 /\ x + k = tail + D
      BY <1>1, <2>1
    <3> HIDE DEF x, k
    <3>2. Slot(x + k) # Slot(x)
      BY <3>1, SlotApart
    <3>3. Slot(tail + D) = Slot(head)
      BY <1>1, HeadSlot
    <3>4. Slot(head) # Slot(x)
      BY <3>1, <3>2, <3>3
    <3>5. Slot(x) \in 0 .. N - 1
      BY <1>1, <3>1 DEF Slot
    <3>6. QED BY <2>1, <3>4, <3>5 DEF TypeOK, x
  <2>3. Contents' = Contents
    <3>1. \A i \in 1 .. D : buf'[Slot(tail + i - 1)] = buf[Slot(tail + i - 1)]
      BY <2>2
    <3>2. QED BY <2>1, <3>1 DEF Contents
  <2>4. QED BY <2>1, <2>3
<1>7. CASE UNCHANGED <<head, tail, buf, last>>
  BY <1>7 DEF Contents
<1>8. QED
  BY <1>4, <1>5, <1>6, <1>7, Zenon
     DEF Next, vars, TryPush, RefreshTail, TryPop, RefreshHead, ForgetGuard

\* The ring is a bounded queue: elements are delivered once each, in order, none
\* lost or repeated because of a stale cache or a wrapped index.  Publish is the
\* queue's Put, DropGuard its Take, and every other step leaves it as it is.
THEOREM RingIsAQueue == Spec => ImplementsFifo
<1>1. Init => Fifo!Init
  BY DEF Init, Fifo!Init, Contents, Dist
<1>2. QED
  BY <1>1, RingStepIsFifoStep, TypeCorrect, RingInvHolds, PushInvHolds, PTL
     DEF Spec, ImplementsFifo, Fifo!Spec

-----------------------------------------------------------------------------
(***************************************************************************)
(* The mailbox.  TakenIsWhole is not inductive: that a FULL slot is whole  *)
(* rests on what a fill has written so far, and that it stays so on the    *)
(* filler not being inside a FULL slot.                                    *)
(***************************************************************************)
BoxInv ==
    /\ Letters!TypeOK
    /\ boxTx.pc = "filling" => boxState = "FREE" /\ boxTx.msg \in Messages
                                 /\ \A p \in boxTx.done : boxSlot[p] = boxTx.msg
    /\ boxState = "FULL" => \E m \in Messages : boxSlot = Letters!Whole(m)
    /\ boxRx = "taken" => boxState = "FULL"

\* Every step of the filler and of the taker keeps it.
LEMMA BoxInvInductive == BoxInv /\ [Letters!Next]_(Letters!vars) => BoxInv'
<1> SUFFICES ASSUME BoxInv, [Letters!Next]_(Letters!vars) PROVE BoxInv'
  OBVIOUS
<1> USE DEF BoxInv, Letters!TypeOK, Letters!Whole
<1>1. CASE Letters!TryFill
  BY <1>1 DEF Letters!TryFill
<1>2. CASE Letters!WritePart
  BY <1>2 DEF Letters!WritePart
<1>3. CASE Letters!Commit
  BY <1>3 DEF Letters!Commit
<1>4. CASE Letters!Abandon
  BY <1>4 DEF Letters!Abandon
<1>5. CASE Letters!TryTake
  BY <1>5 DEF Letters!TryTake
<1>6. CASE Letters!FreeTaken
  BY <1>6 DEF Letters!FreeTaken
<1>7. CASE Letters!Keep
  BY <1>7 DEF Letters!Keep
<1>8. CASE UNCHANGED Letters!vars
  BY <1>8 DEF Letters!vars
<1>9. QED BY <1>1, <1>2, <1>3, <1>4, <1>5, <1>6, <1>7, <1>8, Zenon DEF Letters!Next

\* A Taken guard lends one whole committed message, however many fills were
\* abandoned before it.
THEOREM TakenMessagesAreWhole == Letters!Spec => []TakenIsWhole
<1>1. Letters!Init => BoxInv
  BY DEF Letters!Init, BoxInv, Letters!TypeOK, Letters!Whole
<1>2. BoxInv => TakenIsWhole
  BY DEF BoxInv, TakenIsWhole, Letters!TakenIsWhole
<1>3. QED BY <1>1, <1>2, BoxInvInductive, PTL DEF Letters!Spec

\* The mailbox is a queue of one: commit is its Put, dropping a Taken guard its
\* Take, and writing a part, abandoning a fill or keeping a guard change nothing
\* the other side can see.
THEOREM MailboxIsAQueueOfOne == Letters!Spec => ImplementsBox
<1> DEFINE q == IF boxState = "FULL" THEN <<boxSlot>> ELSE <<>>
<1>1. Letters!Init => Letters!Box!Init
  BY DEF Letters!Init, Letters!Box!Init, Letters!Whole
<1>2. BoxInv /\ [Letters!Next]_(Letters!vars) => [Letters!Box!Next]_<<q, boxLast>>
  <2> SUFFICES ASSUME BoxInv, [Letters!Next]_(Letters!vars)
               PROVE  [Letters!Box!Next]_<<q, boxLast>>
    OBVIOUS
  <2>1. CASE Letters!Commit
    <3>1. boxState = "FREE" /\ boxState' = "FULL" /\ UNCHANGED <<boxSlot, boxLast>>
      BY <2>1 DEF Letters!Commit, BoxInv
    <3>2. PICK m \in Messages : boxSlot = Letters!Whole(m)
      BY <2>1 DEF Letters!Commit, BoxInv, Letters!TypeOK, Letters!Whole
    <3>3. Letters!Box!Put
      BY <3>1, <3>2 DEF Letters!Box!Put
    <3>4. QED BY <3>3 DEF Letters!Box!Next
  <2>2. CASE Letters!FreeTaken
    <3>1. boxState = "FULL" /\ boxState' = "FREE" /\ boxLast' = boxSlot
      BY <2>2 DEF Letters!FreeTaken, BoxInv
    <3>2. Letters!Box!Take
      BY <3>1 DEF Letters!Box!Take
    <3>3. QED BY <3>2 DEF Letters!Box!Next
  <2>3. CASE Letters!WritePart
    <3>1. boxState = "FREE" /\ UNCHANGED <<boxState, boxLast>>
      BY <2>3 DEF Letters!WritePart, BoxInv
    <3>2. QED BY <3>1
  <2>4. CASE UNCHANGED <<boxState, boxSlot, boxLast>>
    BY <2>4
  <2>5. QED
    BY <2>1, <2>2, <2>3, <2>4
       DEF Letters!Next, Letters!vars, Letters!TryFill, Letters!Abandon, Letters!TryTake,
           Letters!Keep
<1>3. Letters!Init => BoxInv
  BY DEF Letters!Init, BoxInv, Letters!TypeOK, Letters!Whole
<1>4. QED
  BY <1>1, <1>2, <1>3, BoxInvInductive, PTL
     DEF Letters!Spec, ImplementsBox, Letters!ImplementsBox, Letters!Box!Spec

-----------------------------------------------------------------------------
(***************************************************************************)
(* The snapshot cell.  What a returned copy holds depends on what was      *)
(* visible while it was made, so the invariant relates the words other     *)
(* cores see to the writer's version, and the words copied so far to the   *)
(* version the copy started at - as long as that version is still there,   *)
(* which is all the re-check asks.                                         *)
(***************************************************************************)
Half(n) == n \div 2

\* The writer's half: versions are even outside a publish, every word reads the
\* snapshot its version names, and inside one the words copied are one ahead.
WriterInv ==
    /\ Cell!TypeOK
    /\ writer.pc = "idle" => /\ seq % 2 = 0 /\ ~writer.hidden
                             /\ \A w \in Words : data[w] = Half(seq)
    /\ writer.pc = "copy" => /\ writer.seq0 % 2 = 0
                             /\ seq = IF writer.hidden THEN writer.seq0 ELSE writer.seq0 + 1
                             /\ \A w \in Words : data[w] = IF w \in writer.done
                                                           THEN Half(writer.seq0) + 1
                                                           ELSE Half(writer.seq0)
    /\ writer.hidden => target = "aarch64"

\* What word w of a copy started at version s may read.
Fresh(w, s) ==
    /\ reader.val[w] \in {Half(s), Half(s) + 1}
    /\ target = "x86_64" => reader.val[w] = Half(s)

\* The reader's half: as long as the version it started at is still there, every word
\* it has copied is fresh.
ReaderInv ==
    /\ reader.pc = "copy" => /\ reader.seq1 % 2 = 0 /\ reader.seq1 <= seq
                             /\ seq = reader.seq1 => \A w \in reader.done : Fresh(w, reader.seq1)
    /\ reader.pc = "returned" => \A w \in Words : Fresh(w, reader.seq1)

\* The writer's half does not depend on the reader.
LEMMA WriterInvInductive == WriterInv /\ [Cell!Next]_(Cell!vars) => WriterInv'
<1> SUFFICES ASSUME WriterInv, [Cell!Next]_(Cell!vars) PROVE WriterInv'
  OBVIOUS
<1>0. Cell!TypeOK'
  <2> USE DEF WriterInv, Cell!TypeOK
  <2>1. CASE Cell!Enter
    <3>1. PICK hide \in BOOLEAN :
            /\ seq' = IF hide THEN seq ELSE seq + 1
            /\ writer' = [pc |-> "copy", seq0 |-> seq, hidden |-> hide, done |-> {}]
      BY <2>1, Zenon DEF Cell!Enter
    <3>2. seq \in Nat /\ seq' \in Nat
      BY <3>1
    <3>3. writer' \in [pc : {"idle", "copy"}, seq0 : Nat, hidden : BOOLEAN, done : SUBSET Words]
      BY <3>1, <3>2
    <3>4. QED BY <2>1, <3>2, <3>3, Zenon DEF Cell!Enter
  <2>2. CASE Cell!EntryVisible
    <3>1. seq' \in Nat
      BY <2>2 DEF Cell!EntryVisible
    <3>2. writer' \in [pc : {"idle", "copy"}, seq0 : Nat, hidden : BOOLEAN, done : SUBSET Words]
      BY <2>2, Zenon DEF Cell!EntryVisible
    <3>4. QED BY <2>2, <3>1, <3>2 DEF Cell!EntryVisible
  <2>3. CASE Cell!WriteWord
    BY <2>3 DEF Cell!WriteWord
  <2>4. CASE Cell!Exit
    <3>1. seq' \in Nat
      BY <2>4 DEF Cell!Exit
    <3>2. writer' \in [pc : {"idle", "copy"}, seq0 : Nat, hidden : BOOLEAN, done : SUBSET Words]
      BY <2>4, Zenon DEF Cell!Exit
    <3>4. QED BY <2>4, <3>1, <3>2 DEF Cell!Exit
  <2>5. CASE Cell!LoadSeq
    BY <2>5, Zenon DEF Cell!LoadSeq
  <2>6. CASE Cell!ReadWord
    <3>1. PICK w \in Words :
            reader' = [reader EXCEPT !.val = [@ EXCEPT ![w] = data[w]], !.done = @ \cup {w}]
      BY <2>6, Zenon DEF Cell!ReadWord
    <3>2. /\ [reader.val EXCEPT ![w] = data[w]] \in [Words -> Nat]
          /\ reader.done \cup {w} \in SUBSET Words
      OBVIOUS
    <3>3. reader' \in [pc : {"idle", "copy", "returned"}, seq1 : Nat, val : [Words -> Nat],
                       done : SUBSET Words]
      BY <3>1, <3>2, Zenon
    <3>4. QED BY <2>6, <3>3 DEF Cell!ReadWord
  <2>7. CASE Cell!Revalidate
    BY <2>7 DEF Cell!Revalidate
  <2>8. CASE UNCHANGED Cell!vars
    BY <2>8 DEF Cell!vars
  <2>9. QED BY <2>1, <2>2, <2>3, <2>4, <2>5, <2>6, <2>7, <2>8, Zenon DEF Cell!Next, Cell!Writer, Cell!Reader
<1>a. \A n \in Nat : n % 2 = 0 => /\ (n + 2) % 2 = 0
                                /\ (n + 2) \div 2 = Half(n) + 1 /\ Half(n + 2) = Half(n) + 1
                                /\ Half(n) \in Nat
  BY DEF Half
<1>1. CASE Cell!Enter
  <2>1. PICK hide \in BOOLEAN :
          /\ hide => target = "aarch64"
          /\ seq' = IF hide THEN seq ELSE seq + 1
          /\ writer' = [pc |-> "copy", seq0 |-> seq, hidden |-> hide, done |-> {}]
    BY <1>1, Zenon DEF Cell!Enter
  <2>2. UNCHANGED <<target, data>> /\ seq % 2 = 0 /\ \A w \in Words : data[w] = Half(seq)
    BY <1>1, Zenon DEF Cell!Enter, WriterInv
  <2>3. /\ writer'.pc = "copy" /\ writer'.seq0 = seq /\ writer'.done = {}
        /\ writer'.hidden <=> hide
    BY <2>1
  <2>4. QED BY <2>1, <2>2, <2>3, <1>0, Zenon DEF WriterInv
<1>2. CASE Cell!EntryVisible
  BY <1>2, <1>0 DEF Cell!EntryVisible, WriterInv, Cell!TypeOK
<1>3. CASE Cell!WriteWord
  BY <1>3, <1>0, <1>a DEF Cell!WriteWord, WriterInv, Cell!TypeOK
<1>4. CASE Cell!Exit
  BY <1>4, <1>0, <1>a DEF Cell!Exit, WriterInv, Cell!TypeOK
<1>5. CASE UNCHANGED <<target, seq, data, writer>>
  BY <1>5, <1>0 DEF WriterInv
<1>6. QED BY <1>1, <1>2, <1>3, <1>4, <1>5, Zenon
          DEF Cell!Next, Cell!Writer, Cell!Reader, Cell!LoadSeq, Cell!ReadWord, Cell!Revalidate, Cell!vars

\* A version that is still there was there all along, because versions only grow.
LEMMA ReaderInvInductive ==
    WriterInv /\ WriterInv' /\ ReaderInv /\ [Cell!Next]_(Cell!vars) => ReaderInv'
<1> SUFFICES ASSUME WriterInv, WriterInv', ReaderInv, [Cell!Next]_(Cell!vars) PROVE ReaderInv'
  OBVIOUS
<1> USE DEF ReaderInv, Fresh
<1>1. CASE Cell!Writer
  <2>1. UNCHANGED <<reader, target>> /\ seq <= seq'
    BY <1>1 DEF WriterInv, Cell!TypeOK, Cell!Writer, Cell!Enter, Cell!EntryVisible, Cell!WriteWord, Cell!Exit
  <2>2. QED BY <2>1 DEF WriterInv, Cell!TypeOK
<1>2. CASE Cell!LoadSeq
  BY <1>2 DEF Cell!LoadSeq, WriterInv, Cell!TypeOK
<1>3. CASE Cell!ReadWord
  <2>1. ASSUME NEW w \in Words, seq = reader.seq1, reader.pc = "copy"
        PROVE  /\ data[w] \in {Half(seq), Half(seq) + 1}
               /\ target = "x86_64" => data[w] = Half(seq)
    <3>1. seq % 2 = 0 /\ writer.pc \in {"idle", "copy"} /\ writer.seq0 \in Nat
      BY <2>1, Zenon DEF WriterInv, Cell!TypeOK
    <3>2. CASE writer.pc = "idle"
      BY <3>2, Zenon DEF WriterInv
    <3>3. CASE writer.pc = "copy"
      <4>1. writer.seq0 % 2 = 0 /\ seq = IF writer.hidden THEN writer.seq0 ELSE writer.seq0 + 1
        BY <3>3, Zenon DEF WriterInv
      <4>2. writer.hidden /\ seq = writer.seq0
        BY <3>1, <4>1
      <4>3. QED BY <3>3, <4>2, Zenon DEF WriterInv
    <3>4. QED BY <3>1, <3>2, <3>3, Zenon
  <2>2. QED BY <1>3, <2>1 DEF Cell!ReadWord, WriterInv, Cell!TypeOK
<1>4. CASE Cell!Revalidate
  BY <1>4 DEF Cell!Revalidate, WriterInv, Cell!TypeOK
<1>5. CASE UNCHANGED Cell!vars
  BY <1>5, Zenon DEF Cell!vars
<1>6. QED BY <1>1, <1>2, <1>3, <1>4, <1>5, Zenon DEF Cell!Next, Cell!Reader

\* Both halves hold in every state of the cell.
LEMMA CellInvHolds == Cell!Spec => [](WriterInv /\ ReaderInv)
<1>1. Cell!Init => WriterInv /\ ReaderInv
  BY DEF Cell!Init, WriterInv, ReaderInv, Cell!TypeOK, Half
<1>2. QED BY <1>1, WriterInvInductive, ReaderInvInductive, PTL DEF Cell!Spec

\* Where stores stay in program order, read() returns one whole published
\* snapshot, the one its version names.
THEOREM ReadsAreWholeOnX86 == Cell!Spec => []NoTornRead
<1>1. WriterInv /\ ReaderInv => NoTornRead
  BY Zenon DEF ReaderInv, Fresh, Half, NoTornRead, Cell!NoTornRead
<1>2. QED BY <1>1, CellInvHolds, PTL

\* On every machine, a hidden entry included, a returned copy holds words of the
\* version it started at and of the next one only.
THEOREM ReadsSpanOnePublish == Cell!Spec => []TearsSpanOnePublish
<1>1. WriterInv /\ ReaderInv => TearsSpanOnePublish
  BY DEF WriterInv, Cell!TypeOK, ReaderInv, Fresh, Half, TearsSpanOnePublish, Cell!TearsSpanOnePublish
<1>2. QED BY <1>1, CellInvHolds, PTL
=============================================================================
