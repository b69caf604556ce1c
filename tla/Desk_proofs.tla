----------------------------- MODULE Desk_proofs -----------------------------
(***************************************************************************)
(* A lane's order sessions and the requests in flight on them, for every   *)
(* table size and every id width that is a multiple of it.                 *)
(*                                                                         *)
(* Neither SessionsAreSound nor RequestsAreWatched is inductive.  That a   *)
(* session going live leaves no logon behind rests on a dialling session   *)
(* having at most one request; that a count at 0 means nothing in flight   *)
(* rests on each record sitting in the place its id names, so that places  *)
(* and ids are counted alike; and that an answer is taken once rests on an *)
(* id being either on the wire or on its way back.  LaneInv says these.    *)
(***************************************************************************)
EXTENDS Desk, FiniteSetTheorems, TLAPS

-----------------------------------------------------------------------------
(* The invariant.                                                          *)

\* A table of requests: each record in the place its id names.
Records == [id : 0 .. Wrap - 1, verb : Verbs, conn : Slots]
Placed(p) ==
    /\ p \in [Places -> Records]
    /\ \A k \in Places : p[k].id # 0 => Ix(p[k].id) = k

\* The places taken by session s, and the ids in them.
PlacesOf(p, s) == {k \in Places : p[k].id # 0 /\ p[k].conn = s}
IdsOf(p, s) == {p[k].id : k \in PlacesOf(p, s)}

\* A sound desk: its records are placed, exactly they have deadlines, and the
\* counts per session are the places taken.
DeskOK(d) ==
    /\ d \in [pending : [Places -> Records], next : Ids,
              timers : SUBSET Ids, connLive : [Slots -> Nat]]
    /\ Placed(d.pending)
    /\ d.timers = IdsOf(d.pending, 0) \cup IdsOf(d.pending, 1)
    /\ \A s \in Slots : d.connLive[s] = Cardinality(PlacesOf(d.pending, s))

\* The slots, their sockets and the desk together.
MbbOK ==
    /\ state \in [Slots -> {"Down", "Dialing", "Live", "Draining"}]
    /\ active \in {0, 1, 2} /\ replaceWanted \in BOOLEAN /\ ordDown \in BOOLEAN
    /\ sock \in [Slots -> {"closed", "dialing", "open"}]
    /\ active = 2 => \E s \in Slots : state[s] \in {"Down", "Dialing"}
    /\ \A s \in Slots : /\ state[s] = "Live" <=> active = s
                        /\ sock[s] = "closed" <=> state[s] = "Down"
                        /\ sock[s] = "dialing" => state[s] = "Dialing"
    /\ ordDown <=> active = 2

WireAt(s) ==
    /\ wire[s] \cup back[s] = IdsOf(pending, s) /\ wire[s] \cap back[s] = {}
    /\ state[s] = "Down" \/ sock[s] = "dialing" => PlacesOf(pending, s) = {}
    /\ state[s] = "Dialing" => \A j, k \in PlacesOf(pending, s) : j = k
    /\ \A k \in PlacesOf(pending, s) : pending[k].verb # "order" <=> state[s] = "Dialing"

WireOK ==
    /\ DOMAIN wire = Slots /\ DOMAIN back = Slots
    /\ \A s \in Slots : WireAt(s)

LaneInv == DeskOK(TheDesk) /\ MbbOK /\ WireOK

-----------------------------------------------------------------------------
(* The desk: issuing, taking and losing requests.                          *)

\* A non-empty set of naturals has a smallest element.
LEMMA SmallestExists ==
    ASSUME NEW T, T \subseteq Nat, T # {}
    PROVE  \E k \in T : \A j \in T : k <= j
<1>1. PICK k \in T : \A j \in T : ~ (<<j, k>> \in OpToRel(<, Nat))
  BY NatLessThanWellFounded, WFMin, Zenon
<1>2. ASSUME NEW j \in T PROVE k <= j
  <2>1. ~(j < k)
    BY <1>1, Zenon DEF OpToRel
  <2>2. QED BY <2>1
<1>3. QED BY <1>2

\* A place is an interval's member, and every id has one.
LEMMA IxInPlaces ==
    /\ \A id \in Ids : Ix(id) \in Places /\ id # 0
    /\ 1 \in Ids
    /\ IsFiniteSet(Places)
    /\ Places \subseteq Nat
<1>1. \A id \in Nat : id % WsIds \in 0 .. WsIds - 1
  BY DeskAssumption
<1>2. IsFiniteSet(0 .. WsIds - 1)
  <2>1. 0 \in Int /\ WsIds - 1 \in Int
    BY DeskAssumption
  <2>2. QED BY <2>1, FS_Interval
<1>3. \A id \in Ids : id \in Nat /\ id # 0
  BY DEF Ids
<1>4. 1 \in Ids
  BY DeskAssumption DEF Ids
<1>5. Places \subseteq Nat
  BY DEF Places
<1>6. QED BY <1>1, <1>2, <1>3, <1>4, <1>5 DEF Ix, Places

\* The places of a session are finitely many.
LEMMA PlacesFinite ==
    ASSUME NEW p, NEW s
    PROVE  IsFiniteSet(PlacesOf(p, s)) /\ Cardinality(PlacesOf(p, s)) \in Nat
BY IxInPlaces, FS_Subset, FS_CardinalityType DEF PlacesOf

\* The ids of a session, spelt out.
LEMMA InIdsOf ==
    ASSUME NEW p, NEW s
    PROVE  \A x : x \in IdsOf(p, s) <=> \E k \in PlacesOf(p, s) : p[k].id = x
BY DEF IdsOf

\* claim_next returns an id of the range whose place is free.
LEMMA ClaimedIsFree ==
    ASSUME NEW d, DeskOK(d), CanIssue(d)
    PROVE  Claimed(d) \in Ids /\ d.pending[Ix(Claimed(d))].id = 0
<1>1. PICK k \in FreeTries(d) : \A j \in FreeTries(d) : k <= j
  BY SmallestExists, IxInPlaces, Zenon DEF CanIssue, FreeTries
<1> DEFINE c == CHOOSE i \in FreeTries(d) : \A j \in FreeTries(d) : i <= j
<1>2. c \in FreeTries(d)
  BY <1>1
<1> HIDE DEF c
<1>3. c \in Places /\ d.pending[Ix(Tried(d, c))].id = 0
  BY <1>2 DEF FreeTries
<1>4. Tried(d, c) \in Ids
  <2>1. d.next \in Ids
    BY Zenon DEF DeskOK
  <2> DEFINE n == d.next
  <2>2. n \in 1 .. Wrap - 1 /\ c \in 0 .. WsIds - 1
    BY <1>3, <2>1 DEF Places, Ids
  <2>3. Tried(d, c) = IF n + c < Wrap THEN n + c ELSE n + c - Wrap + 1
    BY <2>2, DeskAssumption DEF Tried
  <2> HIDE DEF n
  <2>4. (IF n + c < Wrap THEN n + c ELSE n + c - Wrap + 1) \in 1 .. Wrap - 1
    BY <2>2, DeskAssumption
  <2>5. QED BY <2>3, <2>4, Zenon DEF Ids
<1>5. Claimed(d) = Tried(d, c)
  BY DEF Claimed, c
<1>6. QED BY <1>3, <1>4, <1>5

\* issue keeps the desk sound and adds one request to one session.
LEMMA IssueKeepsDesk ==
    ASSUME NEW d, DeskOK(d), CanIssue(d), NEW verb \in Verbs, NEW s \in Slots
    PROVE  LET e == Issue(d, verb, s)
               id == Claimed(d)
           IN  /\ DeskOK(e)
               /\ id \in Ids
               /\ e.pending = [d.pending EXCEPT ![Ix(id)] = [id |-> id, verb |-> verb, conn |-> s]]
               /\ \A t \in Slots :
                    /\ PlacesOf(e.pending, t) = IF t = s THEN PlacesOf(d.pending, t) \cup {Ix(id)}
                                                ELSE PlacesOf(d.pending, t)
                    /\ Ix(id) \notin PlacesOf(d.pending, t)
                    /\ IdsOf(e.pending, t) = IF t = s THEN IdsOf(d.pending, t) \cup {id}
                                             ELSE IdsOf(d.pending, t)
                    /\ id \notin IdsOf(d.pending, t)
<1> DEFINE e == Issue(d, verb, s)
           id == Claimed(d)
           i == Ix(id)
           r == [id |-> id, verb |-> verb, conn |-> s]
           p == d.pending
           q == [p EXCEPT ![i] = r]
<1>1. /\ id \in Ids /\ i \in Places /\ p[i].id = 0 /\ id # 0
  BY ClaimedIsFree, IxInPlaces
<1>2. e = [pending |-> q, next |-> IF id + 1 < Wrap THEN id + 1 ELSE 1,
           timers |-> d.timers \cup {id}, connLive |-> [d.connLive EXCEPT ![s] = @ + 1]]
  BY DEF Issue
<1> HIDE DEF e, id, i
<1>3. r \in Records
  BY <1>1 DEF Records, Ids
<1>4. Placed(q)
  <2>1. p \in [Places -> Records] /\ \A k \in Places : p[k].id # 0 => Ix(p[k].id) = k
    BY DEF DeskOK, Placed
  <2>2. q \in [Places -> Records]
    BY <2>1, <1>1, <1>3
  <2>3. \A k \in Places : q[k] = IF k = i THEN r ELSE p[k]
    BY <2>1
  <2>4. Ix(r.id) = i
    BY DEF i
  <2>5. QED BY <2>1, <2>2, <2>3, <2>4 DEF Placed
<1>5. \A k \in Places : q[k] = IF k = i THEN r ELSE p[k]
  BY DEF DeskOK
<1>6. ASSUME NEW t \in Slots
      PROVE  /\ PlacesOf(q, t) = IF t = s THEN PlacesOf(p, t) \cup {i} ELSE PlacesOf(p, t)
             /\ i \notin PlacesOf(p, t)
  BY <1>1, <1>5 DEF PlacesOf
<1>7. ASSUME NEW t \in Slots
      PROVE  /\ IdsOf(q, t) = IF t = s THEN IdsOf(p, t) \cup {id} ELSE IdsOf(p, t)
             /\ id \notin IdsOf(p, t)
  <2>1. \A k \in PlacesOf(p, t) : q[k] = p[k] /\ k \in Places
    BY <1>5, <1>6 DEF PlacesOf
  <2>2. q[i].id = id
    BY <1>5, <1>1
  <2>3. IdsOf(q, t) = IF t = s THEN IdsOf(p, t) \cup {id} ELSE IdsOf(p, t)
    <3> DEFINE A == IdsOf(q, t)
               B == IF t = s THEN IdsOf(p, t) \cup {id} ELSE IdsOf(p, t)
    <3> HIDE DEF q
    <3>1. ASSUME NEW x \in A PROVE x \in B
      <4>1. PICK k \in PlacesOf(q, t) : q[k].id = x
        BY <3>1, InIdsOf
      <4>2. CASE k \in PlacesOf(p, t)
        BY <4>1, <4>2, <2>1, InIdsOf
      <4>3. CASE k = i /\ t = s
        BY <4>1, <4>3, <2>2
      <4>4. QED BY <4>2, <4>3, <1>6
    <3>2. ASSUME NEW x \in B PROVE x \in A
      <4>1. CASE x \in IdsOf(p, t)
        <5>1. PICK k \in PlacesOf(p, t) : p[k].id = x
          BY <4>1, InIdsOf
        <5>2. k \in PlacesOf(q, t) /\ q[k].id = x
          BY <5>1, <2>1, <1>6
        <5>3. QED BY <5>2, InIdsOf
      <4>2. CASE x = id /\ t = s
        BY <4>2, <2>2, <1>6, InIdsOf
      <4>3. QED BY <4>1, <4>2
    <3>3. QED BY <3>1, <3>2
  <2>4. \A k \in PlacesOf(p, t) : p[k].id # id
    BY <1>1 DEF PlacesOf, DeskOK, Placed, i
  <2>5. QED BY <2>3, <2>4 DEF IdsOf
<1>8. DeskOK(e)
  <2>1. e.next \in Ids
    BY <1>1, <1>2, DeskAssumption DEF Ids
  <2>2. e.timers \in SUBSET Ids /\ e.timers = IdsOf(q, 0) \cup IdsOf(q, 1)
    BY <1>1, <1>2, <1>7 DEF DeskOK, Slots
  <2>3. \A t \in Slots : e.connLive[t] = Cardinality(PlacesOf(q, t))
    <3> TAKE t \in Slots
    <3>1. d.connLive \in [Slots -> Nat] /\ d.connLive[t] = Cardinality(PlacesOf(p, t))
      BY DEF DeskOK
    <3>2. e.connLive[t] = IF t = s THEN d.connLive[t] + 1 ELSE d.connLive[t]
      BY <1>2, <3>1, Zenon
    <3>3. Cardinality(PlacesOf(p, t) \cup {i}) = Cardinality(PlacesOf(p, t)) + 1
      BY <1>6, PlacesFinite, FS_AddElement, Zenon
    <3>4. QED BY <3>1, <3>2, <3>3, <1>6, Zenon
  <2>4. e.connLive \in [Slots -> Nat]
    BY <1>2 DEF DeskOK
  <2>5. q \in [Places -> Records]
    BY <1>4 DEF Placed
  <2>6. e.pending = q
    BY <1>2
  <2>7. e \in [pending : [Places -> Records], next : Ids,
               timers : SUBSET Ids, connLive : [Slots -> Nat]]
    BY <1>2, <2>1, <2>2, <2>4, <2>5
  <2>8. QED BY <1>4, <2>2, <2>3, <2>6, <2>7 DEF DeskOK
<1>9. e.pending = q
  BY <1>2
<1> HIDE DEF q
<1>10. QED BY <1>1, <1>6, <1>7, <1>8, <1>9 DEF e, id, i, q

\* take keeps the desk sound and removes exactly the ids taken.
LEMMA TakenKeepsDesk ==
    ASSUME NEW d, DeskOK(d), NEW ids, 0 \notin ids
    PROVE  LET e == Taken(d, ids)
           IN  /\ DeskOK(e)
               /\ \A k \in Places :
                    e.pending[k] = IF d.pending[k].id \in ids THEN Free ELSE d.pending[k]
               /\ \A t \in Slots :
                    /\ PlacesOf(e.pending, t) = {k \in PlacesOf(d.pending, t) : d.pending[k].id \notin ids}
                    /\ IdsOf(e.pending, t) = IdsOf(d.pending, t) \ ids
<1> DEFINE p == d.pending
           q == [k \in Places |-> IF p[k].id \in ids THEN Free ELSE p[k]]
           out(t) == {k \in Places : p[k].id \in ids \ {0} /\ p[k].conn = t}
           live == [t \in Slots |-> d.connLive[t] - Cardinality(out(t))]
           e == [pending |-> q, next |-> d.next, timers |-> d.timers \ ids, connLive |-> live]
<1>1. Taken(d, ids) = e
  <2>1. d \in [pending : [Places -> Records], next : Ids,
               timers : SUBSET Ids, connLive : [Slots -> Nat]]
    BY DEF DeskOK
  <2> DEFINE g == Taken(d, ids)
  <2>2. g.pending = q
    BY <2>1 DEF Taken
  <2>3. g.timers = d.timers \ ids /\ g.next = d.next
    BY <2>1 DEF Taken
  <2>4. g.connLive = live
    BY <2>1 DEF Taken
  <2>5. DOMAIN g = {"pending", "next", "timers", "connLive"} /\ g = [x \in DOMAIN g |-> g[x]]
    BY <2>1, Zenon DEF Taken
  <2> HIDE DEF g, q, live
  <2>6. QED BY <2>1, <2>2, <2>3, <2>4, <2>5 DEF g
<1>2. p \in [Places -> Records] /\ \A k \in Places : p[k].id # 0 => Ix(p[k].id) = k
  BY DEF DeskOK, Placed
<1>3. Free \in Records /\ Free.id = 0
  BY DeskAssumption DEF Free, Records, Verbs, Slots
<1>4. Placed(q)
  BY <1>2, <1>3 DEF Placed
<1>5. ASSUME NEW t \in Slots
      PROVE  /\ PlacesOf(q, t) = {k \in PlacesOf(p, t) : p[k].id \notin ids}
             /\ PlacesOf(q, t) = PlacesOf(p, t) \ out(t)
             /\ PlacesOf(p, t) \cap out(t) = out(t)
  BY <1>3 DEF PlacesOf
<1>6. ASSUME NEW t \in Slots PROVE IdsOf(q, t) = IdsOf(p, t) \ ids
  <2>1. \A k \in PlacesOf(q, t) : q[k] = p[k] /\ k \in Places
    BY <1>5, Zenon DEF PlacesOf
  <2>2. ASSUME NEW x PROVE x \in IdsOf(q, t) <=> x \in IdsOf(p, t) \ ids
    BY <2>1, <1>5, InIdsOf
  <2>3. QED BY <2>2
<1>7. ASSUME NEW t \in Slots
      PROVE  live[t] = Cardinality(PlacesOf(q, t)) /\ live[t] \in Nat
  <2>1. d.connLive[t] = Cardinality(PlacesOf(p, t))
    BY DEF DeskOK
  <2>2. Cardinality(PlacesOf(p, t) \ out(t)) = Cardinality(PlacesOf(p, t)) - Cardinality(PlacesOf(p, t) \cap out(t))
    BY PlacesFinite, FS_Difference, Zenon
  <2>3. Cardinality(PlacesOf(q, t)) = Cardinality(PlacesOf(p, t)) - Cardinality(out(t))
    BY <2>2, <1>5, Zenon
  <2>4. live[t] = d.connLive[t] - Cardinality(out(t))
    OBVIOUS
  <2> HIDE DEF live, q
  <2>5. QED BY <2>1, <2>3, <2>4, PlacesFinite
<1>8. DeskOK(e)
  <2>1. live \in [Slots -> Nat]
    BY <1>7, Zenon
  <2>2. q \in [Places -> Records]
    BY <1>4 DEF Placed
  <2>3. d.next \in Ids /\ d.timers \ ids \in SUBSET Ids
    BY DEF DeskOK
  <2>4. e \in [pending : [Places -> Records], next : Ids,
               timers : SUBSET Ids, connLive : [Slots -> Nat]]
    BY <2>1, <2>2, <2>3
  <2>5. d.timers \ ids = IdsOf(q, 0) \cup IdsOf(q, 1)
    BY <1>6 DEF DeskOK, Slots
  <2>6. e.pending = q /\ e.timers = d.timers \ ids /\ e.connLive = live
    OBVIOUS
  <2> HIDE DEF e, live, q
  <2>7. QED BY <1>4, <1>7, <2>4, <2>5, <2>6 DEF DeskOK
<1>9. \A k \in Places : e.pending[k] = IF p[k].id \in ids THEN Free ELSE p[k]
  OBVIOUS
<1>10. e.pending = q
  OBVIOUS
<1> HIDE DEF e, q, out
<1>11. QED BY <1>1, <1>5, <1>6, <1>8, <1>9, <1>10

\* e: a desk with the table p less the requests of session s.
Lost(p, e, s) ==
    /\ DeskOK(e)
    /\ PlacesOf(e.pending, s) = {}
    /\ \A t \in Slots \ {s} : /\ PlacesOf(e.pending, t) = PlacesOf(p, t)
                              /\ \A k \in PlacesOf(p, t) : e.pending[k] = p[k]

\* Losing a session's requests leaves the other session's as they are.
LEMMA LoseKeepsDesk ==
    ASSUME NEW d, DeskOK(d), NEW s \in Slots
    PROVE  Lost(d.pending, LoseRequests(d, s), s)
<1> DEFINE p == d.pending
           ids == {p[k].id : k \in {j \in Places : p[j].conn = s}} \ {0}
           e == LoseRequests(d, s)
<1>1. e = Taken(d, ids)
  BY DEF LoseRequests
<1>2. 0 \notin ids
  OBVIOUS
<1>3. \A k \in PlacesOf(p, s) : p[k].id \in ids
  BY DEF PlacesOf
<1>4. \A t \in Slots \ {s} : \A k \in PlacesOf(p, t) : p[k].id \notin ids
  <2> TAKE t \in Slots \ {s}
  <2> TAKE k \in PlacesOf(p, t)
  <2>1. \A j \in Places : p[j].id = p[k].id => j = k
    BY DEF PlacesOf, DeskOK, Placed
  <2>2. k \in Places /\ p[k].conn = t
    BY DEF PlacesOf
  <2>3. QED BY <2>1, <2>2
<1> HIDE DEF ids, e
<1>5. /\ DeskOK(e)
      /\ \A k \in Places : e.pending[k] = IF p[k].id \in ids THEN Free ELSE p[k]
      /\ \A t \in Slots : PlacesOf(e.pending, t) = {k \in PlacesOf(p, t) : p[k].id \notin ids}
  BY <1>1, <1>2, TakenKeepsDesk
<1>6. \A t \in Slots : PlacesOf(p, t) \subseteq Places
  BY DEF PlacesOf
<1>7. Lost(p, e, s)
  BY <1>3, <1>4, <1>5, <1>6, Zenon DEF Lost
<1>8. QED BY <1>7 DEF e

\* A desk that becomes d is d.
LEMMA DeskIsNow ==
    ASSUME NEW d, DeskOK(d), DeskBecomes(d)
    PROVE  TheDesk' = d /\ DeskOK(TheDesk)' /\ pending' = d.pending
<1>1. TheDesk' = d /\ pending' = d.pending
  BY DEF DeskOK, DeskBecomes, TheDesk
<1>2. QED BY <1>1 DEF DeskOK

\* A session whose requests and socket a step leaves alone.
LEMMA WireFrame ==
    ASSUME NEW t \in Slots, WireAt(t), wire'[t] = wire[t], back'[t] = back[t],
           PlacesOf(pending', t) = PlacesOf(pending, t),
           \A k \in PlacesOf(pending, t) : pending'[k] = pending[k],
           state'[t] = "Dialing" <=> state[t] = "Dialing", state'[t] = "Down" => state[t] = "Down",
           sock'[t] = "dialing" => sock[t] = "dialing"
    PROVE  WireAt(t)'
<1>1. IdsOf(pending', t) = IdsOf(pending, t)
  <2>1. \A x : x \in IdsOf(pending', t) <=> x \in IdsOf(pending, t)
    BY InIdsOf
  <2>2. QED BY <2>1, Zenon
<1>2. QED BY <1>1, Zenon DEF WireAt

\* A session with nothing in flight.
LEMMA WireEmpty ==
    ASSUME NEW t \in Slots, wire'[t] = {}, back'[t] = {}, PlacesOf(pending', t) = {}
    PROVE  WireAt(t)'
BY DEF WireAt, IdsOf

-----------------------------------------------------------------------------
(* The steps.                                                              *)

\* The slots after a session is lost, or was never opened.
LEMMA DownKeepsMbb ==
    ASSUME MbbOK, NEW s \in Slots,
           MbbBecomes(OnDown(TheMbb, s)), Closed({s}),
           ordDown' = (ordDown \/ OnDown(TheMbb, s).active = 2)
    PROVE  /\ MbbOK'
           /\ state' = [state EXCEPT ![s] = "Down"]
           /\ DOMAIN wire' = Slots /\ DOMAIN back' = Slots
           /\ \A t \in Slots \ {s} : UNCHANGED <<state[t], sock[t], wire[t], back[t]>>
           /\ wire'[s] = {} /\ back'[s] = {}
<1>1. /\ state' = [state EXCEPT ![s] = "Down"]
      /\ active' = (IF active = s THEN 2 ELSE active) /\ replaceWanted' = replaceWanted
      /\ ordDown' = (ordDown \/ active' = 2)
  BY DEF MbbBecomes, OnDown, TheMbb, None
<1>2. /\ sock' = [t \in Slots |-> IF t = s THEN "closed" ELSE sock[t]]
      /\ wire' = [t \in Slots |-> IF t = s THEN {} ELSE wire[t]]
      /\ back' = [t \in Slots |-> IF t = s THEN {} ELSE back[t]]
  BY Zenon DEF Closed
<1>3. ordDown' \in BOOLEAN /\ (ordDown' <=> active' = 2)
  BY <1>1, Zenon DEF MbbOK, Slots
<1>4. MbbOK'
  BY <1>1, <1>2, <1>3 DEF MbbOK, Slots
<1>5. DOMAIN state = Slots
  BY Zenon DEF MbbOK
<1>6. \A t \in Slots \ {s} : UNCHANGED <<state[t], sock[t], wire[t], back[t]>>
  BY <1>1, <1>2, <1>5, Zenon
<1>7. DOMAIN wire' = Slots /\ DOMAIN back' = Slots /\ wire'[s] = {} /\ back'[s] = {}
  BY <1>2, Zenon
<1>8. QED BY <1>1, <1>4, <1>6, <1>7, Zenon

\* ws_failed keeps the invariant.
LEMMA FailKeepsLane ==
    ASSUME LaneInv, NEW s \in Slots, sock[s] # "closed", NEW d,
           Lost(pending, LoseRequests(d, s), s), WsFailed(s, d)
    PROVE  LaneInv'
<1> DEFINE e == LoseRequests(d, s)
<1>1. state[s] # "Down"
  BY DEF LaneInv, MbbOK
<1>2. /\ Closed({s}) /\ MbbBecomes(OnDown(TheMbb, s))
      /\ ordDown' = (ordDown \/ OnDown(TheMbb, s).active = 2)
      /\ DeskBecomes(e)
  BY <1>1, Zenon DEF WsFailed, None
<1> HIDE DEF e
<1>3. DeskOK(TheDesk)' /\ pending' = e.pending
  BY <1>2, DeskIsNow DEF Lost, e
<1>4. /\ MbbOK'
      /\ DOMAIN wire' = Slots /\ DOMAIN back' = Slots
      /\ \A t \in Slots \ {s} : UNCHANGED <<state[t], sock[t], wire[t], back[t]>>
      /\ wire'[s] = {} /\ back'[s] = {}
  BY <1>2, DownKeepsMbb, Zenon DEF LaneInv
<1>5. WireAt(s)'
  BY <1>3, <1>4, WireEmpty, Zenon DEF Lost, e
<1>6. ASSUME NEW t \in Slots \ {s} PROVE WireAt(t)'
  <2>1. WireAt(t) /\ UNCHANGED <<state[t], sock[t], wire[t], back[t]>>
    BY <1>4, Zenon DEF LaneInv, WireOK
  <2>2. /\ PlacesOf(pending', t) = PlacesOf(pending, t)
        /\ \A k \in PlacesOf(pending, t) : pending'[k] = pending[k]
    BY <1>3 DEF Lost, e
  <2>3. QED BY <2>1, <2>2, WireFrame, Zenon
<1>7. QED BY <1>3, <1>4, <1>5, <1>6, Zenon DEF LaneInv, WireOK

\* Table q is table p with one more request, of session s.
Issued(p, q, verb, s, id) ==
    /\ \A t \in Slots : \A k \in PlacesOf(p, t) : q[k] = p[k]
    /\ \A t \in Slots \ {s} : PlacesOf(q, t) = PlacesOf(p, t)
    /\ IdsOf(q, s) = IdsOf(p, s) \cup {id}
    /\ id \notin IdsOf(p, s)
    /\ \E i \in Places : PlacesOf(q, s) = PlacesOf(p, s) \cup {i} /\ q[i].verb = verb

\* The table after a request of session s is issued on desk d.
LEMMA IssuedNow ==
    ASSUME NEW d, DeskOK(d), CanIssue(d), NEW verb \in Verbs, NEW s \in Slots,
           DeskBecomes(Issue(d, verb, s))
    PROVE  DeskOK(TheDesk)' /\ Issued(d.pending, pending', verb, s, Claimed(d))
<1> DEFINE e == Issue(d, verb, s)
           id == Claimed(d)
           i == Ix(id)
<1>1. /\ DeskOK(e) /\ id \in Ids
      /\ e.pending = [d.pending EXCEPT ![i] = [id |-> id, verb |-> verb, conn |-> s]]
      /\ \A t \in Slots :
           /\ PlacesOf(e.pending, t) = IF t = s THEN PlacesOf(d.pending, t) \cup {i}
                                       ELSE PlacesOf(d.pending, t)
           /\ i \notin PlacesOf(d.pending, t)
           /\ IdsOf(e.pending, t) = IF t = s THEN IdsOf(d.pending, t) \cup {id}
                                    ELSE IdsOf(d.pending, t)
           /\ id \notin IdsOf(d.pending, t)
  BY IssueKeepsDesk, Zenon
<1>2. i \in Places
  BY <1>1, IxInPlaces, Zenon
<1> HIDE DEF e, id, i
<1>3. DeskOK(TheDesk)' /\ pending' = e.pending
  BY <1>1, DeskIsNow, Zenon DEF e
<1>4. \A t \in Slots : \A k \in PlacesOf(d.pending, t) : pending'[k] = d.pending[k]
  BY <1>1, <1>3, Zenon DEF DeskOK, PlacesOf
<1>5. pending'[i].verb = verb
  <2>1. DOMAIN d.pending = Places
    BY Zenon DEF DeskOK, Placed
  <2>2. pending'[i] = [id |-> id, verb |-> verb, conn |-> s]
    BY <1>1, <1>2, <1>3, <2>1, Zenon
  <2>3. QED BY <2>2
<1>6. Issued(d.pending, pending', verb, s, id)
  BY <1>1, <1>2, <1>3, <1>4, <1>5, Zenon DEF Issued
<1>7. QED BY <1>3, <1>6 DEF id

\* A post goes out on the active session.
LEMMA PostKeepsLane == LaneInv /\ Post => LaneInv'
<1> SUFFICES ASSUME LaneInv, Post PROVE LaneInv'
  OBVIOUS
<1> DEFINE d == TheDesk
           id == Claimed(d)
<1>1. /\ active \in Slots /\ state[active] = "Live" /\ sock[active] = "open"
  BY DEF Post, LaneInv, MbbOK, None, Slots
<1>2. /\ DeskOK(d) /\ CanIssue(d) /\ "order" \in Verbs /\ d.pending = pending
      /\ DeskBecomes(Issue(d, "order", active))
  BY DEF LaneInv, Post, Verbs, TheDesk
<1> HIDE DEF d
<1>3. DeskOK(TheDesk)' /\ Issued(pending, pending', "order", active, id)
  <2>1. DeskOK(TheDesk)' /\ Issued(d.pending, pending', "order", active, id)
    BY <1>1, <1>2, IssuedNow
  <2>2. QED BY <1>2, <2>1
<1>4. /\ wire' = [wire EXCEPT ![active] = @ \cup {id}]
      /\ UNCHANGED <<state, active, replaceWanted, ordDown, sock, back>>
  BY DEF Post, mbb, d
<1> HIDE DEF id
<1>5. MbbOK'
  BY <1>4 DEF LaneInv, MbbOK
<1>6. ASSUME NEW t \in Slots \ {active} PROVE WireAt(t)'
  <2>1. WireAt(t) /\ UNCHANGED <<state[t], sock[t], wire[t], back[t]>>
    BY <1>4, Zenon DEF LaneInv, WireOK
  <2>2. QED BY <1>3, <2>1, WireFrame, Zenon DEF Issued
<1>7. WireAt(active)'
  <2>1. WireAt(active)
    BY <1>1 DEF LaneInv, WireOK
  <2>2. wire'[active] = wire[active] \cup {id} /\ back' = back /\ state' = state /\ sock' = sock /\ active' = active
    BY <1>1, <1>4, Zenon DEF LaneInv, WireOK
  <2>3. /\ wire'[active] \cup back'[active] = IdsOf(pending', active)
        /\ wire'[active] \cap back'[active] = {}
    <3>1. /\ wire[active] \cup back[active] = IdsOf(pending, active)
          /\ wire[active] \cap back[active] = {}
      BY <2>1, Zenon DEF WireAt
    <3>2. IdsOf(pending', active) = IdsOf(pending, active) \cup {id} /\ id \notin IdsOf(pending, active)
      BY <1>3, Zenon DEF Issued
    <3>3. QED BY <2>2, <3>1, <3>2
  <2>4. \A k \in PlacesOf(pending', active) : pending'[k].verb = "order"
    <3>1. \A k \in PlacesOf(pending, active) : pending[k].verb = "order" /\ pending'[k] = pending[k]
      BY <1>1, <1>3, <2>1, Zenon DEF WireAt, Issued
    <3>2. PICK i : PlacesOf(pending', active) = PlacesOf(pending, active) \cup {i} /\ pending'[i].verb = "order"
      BY <1>3, Zenon DEF Issued
    <3>3. QED BY <3>1, <3>2, Zenon
  <2>5. state'[active'] = "Live" /\ sock'[active'] = "open"
    BY <1>1, <2>2, Zenon
  <2>6. QED BY <2>2, <2>3, <2>4, <2>5, Zenon DEF WireAt
<1>8. DOMAIN wire' = Slots /\ DOMAIN back' = Slots
  BY <1>4 DEF LaneInv, WireOK
<1>9. QED BY <1>3, <1>4, <1>5, <1>6, <1>7, <1>8, Zenon DEF LaneInv, WireOK

\* A socket opened keeps the invariant, with the logon asked or with no id for it.
LEMMA OpenedKeepsLane ==
    ASSUME LaneInv, NEW s \in Slots, Opened(s) PROVE LaneInv'
<1> DEFINE d == TheDesk
           id == Claimed(d)
<1>1. /\ state[s] = "Dialing" /\ sock[s] = "dialing" /\ sock' = [sock EXCEPT ![s] = "open"]
      /\ UNCHANGED <<state, active, replaceWanted, ordDown, back>>
  BY DEF Opened, LaneInv, MbbOK, mbb
<1>2. MbbOK'
  BY <1>1 DEF LaneInv, MbbOK
<1>3. WireAt(s) /\ PlacesOf(pending, s) = {} /\ wire[s] = {} /\ back[s] = {} /\ IdsOf(pending, s) = {}
  BY <1>1, Zenon DEF LaneInv, WireOK, WireAt, IdsOf
<1>4. sock'[s] = "open" /\ \A t \in Slots \ {s} : sock'[t] = sock[t]
  BY <1>1 DEF LaneInv, MbbOK
<1>5. CASE CanIssue(d)
  <2>1. /\ DeskOK(d) /\ "logon" \in Verbs /\ d.pending = pending
        /\ DeskBecomes(Issue(d, "logon", s))
        /\ wire' = [wire EXCEPT ![s] = @ \cup {id}]
    BY <1>5 DEF LaneInv, Opened, Verbs, TheDesk
  <2> HIDE DEF d
  <2>2. DeskOK(TheDesk)' /\ Issued(pending, pending', "logon", s, id)
    <3>1. DeskOK(TheDesk)' /\ Issued(d.pending, pending', "logon", s, id)
      BY <1>5, <2>1, IssuedNow
    <3>2. QED BY <2>1, <3>1
  <2> HIDE DEF id
  <2>3. ASSUME NEW t \in Slots \ {s} PROVE WireAt(t)'
    <3>1. WireAt(t) /\ UNCHANGED <<state[t], sock[t], wire[t], back[t]>>
      BY <1>1, <1>4, <2>1, Zenon DEF LaneInv, WireOK
    <3>2. QED BY <2>2, <3>1, WireFrame, Zenon DEF Issued
  <2>4. DOMAIN wire' = Slots /\ DOMAIN back' = Slots /\ wire'[s] = {id} /\ back'[s] = {} /\ state'[s] = "Dialing"
    BY <1>1, <1>3, <2>1, Zenon DEF LaneInv, WireOK
  <2>5. WireAt(s)'
    BY <1>3, <1>4, <2>2, <2>4, Zenon DEF WireAt, Issued
  <2>6. QED BY <1>2, <2>2, <2>3, <2>4, <2>5, Zenon DEF LaneInv, WireOK
<1>6. CASE ~CanIssue(d)
  <2>1. UNCHANGED <<pending, next, timers, connLive, wire>>
    BY <1>6 DEF Opened, desk
  <2>2. DeskOK(TheDesk)'
    BY <2>1 DEF TheDesk, LaneInv
  <2>3. ASSUME NEW t \in Slots PROVE WireAt(t)'
    <3>1. sock'[t] = "dialing" => sock[t] = "dialing"
      BY <1>4
    <3>2. WireAt(t)
      BY DEF LaneInv, WireOK
    <3>3. QED BY <1>1, <2>1, <3>1, <3>2, WireFrame, Zenon
  <2>4. QED BY <1>1, <1>2, <2>1, <2>2, <2>3, Zenon DEF LaneInv, WireOK
<1>7. QED BY <1>5, <1>6

\* A socket that opens inside a quiet period is dropped.
LEMMA QuietKeepsLane ==
    ASSUME LaneInv, NEW s \in Slots, OpenedInQuiet(s) PROVE LaneInv'
<1>1. /\ state[s] = "Dialing" /\ active # s
      /\ Closed({s}) /\ MbbBecomes(OnDown(TheMbb, s))
      /\ UNCHANGED <<pending, next, timers, connLive, ordDown>>
  BY DEF OpenedInQuiet, LaneInv, MbbOK, desk
<1>2. ordDown' = (ordDown \/ OnDown(TheMbb, s).active = 2)
  <2>1. OnDown(TheMbb, s).active = active
    BY <1>1 DEF OnDown, TheMbb
  <2>2. QED BY <1>1, <2>1 DEF LaneInv, MbbOK
<1>3. /\ MbbOK'
      /\ DOMAIN wire' = Slots /\ DOMAIN back' = Slots
      /\ \A t \in Slots \ {s} : UNCHANGED <<state[t], sock[t], wire[t], back[t]>>
      /\ wire'[s] = {} /\ back'[s] = {}
  BY <1>1, <1>2, DownKeepsMbb, Zenon DEF LaneInv
<1>4. PlacesOf(pending', s) = {}
  BY <1>1, Zenon DEF LaneInv, WireOK, WireAt, OpenedInQuiet
<1>5. WireAt(s)'
  BY <1>3, <1>4, WireEmpty
<1>6. ASSUME NEW t \in Slots \ {s} PROVE WireAt(t)'
  <2>1. WireAt(t) /\ UNCHANGED <<state[t], sock[t], wire[t], back[t]>>
    BY <1>3, Zenon DEF LaneInv, WireOK
  <2>2. QED BY <1>1, <2>1, WireFrame, Zenon
<1>7. DeskOK(TheDesk)'
  BY <1>1 DEF LaneInv, TheDesk
<1>8. QED BY <1>3, <1>5, <1>6, <1>7 DEF LaneInv, WireOK

\* A socket fails.
LEMMA SocketFailureKeepsLane ==
    ASSUME LaneInv, NEW s \in Slots, SocketFails(s) PROVE LaneInv'
<1>1. DeskOK(TheDesk) /\ TheDesk.pending = pending
  BY DEF LaneInv, TheDesk
<1>2. Lost(pending, LoseRequests(TheDesk, s), s)
  BY <1>1, LoseKeepsDesk
<1>3. QED BY <1>2, FailKeepsLane DEF SocketFails

\* The records of the ids of a session, and the ids in flight.
LEMMA RecordOf ==
    ASSUME DeskOK(TheDesk)
    PROVE  /\ \A s \in Slots : \A id \in IdsOf(pending, s) :
                /\ Ix(id) \in PlacesOf(pending, s)
                /\ Rec(id) = pending[Ix(id)]
                /\ Rec(id).id = id /\ Rec(id).conn = s /\ id # 0 /\ id \in Ids
           /\ InFlight = IdsOf(pending, 0) \cup IdsOf(pending, 1)
<1>1. /\ pending \in [Places -> Records]
      /\ \A k \in Places : pending[k].id # 0 => Ix(pending[k].id) = k
  BY Zenon DEF DeskOK, TheDesk, Placed
<1>2. ASSUME NEW s \in Slots, NEW id \in IdsOf(pending, s)
      PROVE  /\ Ix(id) \in PlacesOf(pending, s)
             /\ Rec(id) = pending[Ix(id)]
             /\ Rec(id).id = id /\ Rec(id).conn = s /\ id # 0 /\ id \in Ids
  <2>1. PICK k \in PlacesOf(pending, s) : pending[k].id = id
    BY InIdsOf
  <2>2. k \in Places /\ pending[k].id # 0 /\ pending[k].conn = s
    BY DEF PlacesOf
  <2>3. Ix(id) = k
    BY <1>1, <2>1, <2>2
  <2>4. id \in Ids
    BY <1>1, <2>1, <2>2, DeskAssumption DEF Records, Ids
  <2>5. QED BY <2>1, <2>2, <2>3, <2>4, Zenon DEF Rec
<1>3. ASSUME NEW x PROVE x \in InFlight <=> x \in IdsOf(pending, 0) \cup IdsOf(pending, 1)
  <2>1. ASSUME x \in InFlight PROVE x \in IdsOf(pending, 0) \cup IdsOf(pending, 1)
    <3>1. PICK k \in Places : pending[k].id = x /\ x # 0
      BY <2>1 DEF InFlight
    <3>2. pending[k].conn \in {0, 1}
      BY <1>1 DEF Records, Slots
    <3>3. k \in PlacesOf(pending, 0) \/ k \in PlacesOf(pending, 1)
      BY <3>1, <3>2 DEF PlacesOf
    <3>4. QED BY <3>1, <3>3, InIdsOf
  <2>2. ASSUME x \in IdsOf(pending, 0) \cup IdsOf(pending, 1) PROVE x \in InFlight
    <3>1. PICK s \in {0, 1} : x \in IdsOf(pending, s)
      BY <2>2
    <3>2. PICK k \in PlacesOf(pending, s) : pending[k].id = x
      BY <3>1, InIdsOf
    <3>3. k \in Places /\ x # 0
      BY <3>2 DEF PlacesOf
    <3>4. QED BY <3>2, <3>3 DEF InFlight
  <2>3. QED BY <2>1, <2>2
<1>4. QED BY <1>2, <1>3

\* A deadline passes: it was armed, so its request is in flight, on a session
\* that is not down.
LEMMA DueKeepsLane ==
    ASSUME LaneInv, NEW id \in timers, RequestDue(id) PROVE LaneInv'
<1> DEFINE d == [TheDesk EXCEPT !.timers = @ \ {id}]
<1>1. DeskOK(TheDesk) /\ TheDesk.pending = pending /\ TheDesk.timers = timers
  BY DEF LaneInv, TheDesk
<1>2. PICK s \in Slots : id \in IdsOf(pending, s)
  BY <1>1 DEF DeskOK, Slots
<1>3. id \in InFlight /\ Rec(id).conn = s /\ PlacesOf(pending, s) # {}
  BY <1>1, <1>2, RecordOf DEF Slots
<1>4. sock[s] # "closed"
  BY <1>3, Zenon DEF LaneInv, MbbOK, WireOK, WireAt
<1>5. WsFailed(s, d)
  BY <1>3 DEF RequestDue
<1>6. LoseRequests(d, s) = LoseRequests(TheDesk, s)
  <2> DEFINE D == TheDesk
             ids(p) == {p[k].id : k \in {j \in Places : p[j].conn = s}} \ {0}
  <2>1. D \in [pending : [Places -> Records], next : Ids,
               timers : SUBSET Ids, connLive : [Slots -> Nat]]
    BY <1>1 DEF DeskOK
  <2>2. id \in ids(D.pending)
    <3>1. PICK k \in PlacesOf(pending, s) : pending[k].id = id
      BY <1>2, InIdsOf
    <3>2. k \in Places /\ pending[k].conn = s /\ id # 0
      BY <3>1 DEF PlacesOf
    <3>3. QED BY <1>1, <3>1, <3>2
  <2> HIDE DEF D
  <2>3. d.pending = D.pending /\ d.next = D.next /\ d.connLive = D.connLive /\ d.timers = D.timers \ {id}
    BY <2>1 DEF D
  <2>4. d.timers \ ids(D.pending) = D.timers \ ids(D.pending)
    BY <2>2, <2>3
  <2>5. d \in [pending : [Places -> Records], next : Ids,
               timers : SUBSET Ids, connLive : [Slots -> Nat]]
    BY <2>1 DEF D
  <2> HIDE DEF d
  <2>6. LoseRequests(d, s) = Taken(d, ids(D.pending)) /\ LoseRequests(D, s) = Taken(D, ids(D.pending))
    BY <2>3 DEF LoseRequests
  <2> HIDE DEF ids
  <2>7. Taken(d, ids(D.pending)) = Taken(D, ids(D.pending))
    BY <2>1, <2>3, <2>4, <2>5, Zenon DEF Taken
  <2>8. QED BY <2>6, <2>7 DEF D
<1> HIDE DEF d
<1>7. Lost(pending, LoseRequests(d, s), s)
  <2>1. Lost(TheDesk.pending, LoseRequests(TheDesk, s), s)
    BY <1>1, LoseKeepsDesk, Zenon
  <2>2. QED BY <1>1, <1>6, <2>1
<1>8. QED BY <1>4, <1>5, <1>7, FailKeepsLane

\* A replacement is asked for.
LEMMA AskKeepsLane == LaneInv /\ AskReplace => LaneInv'
<1> SUFFICES ASSUME LaneInv, AskReplace PROVE LaneInv'
  OBVIOUS
<1>1. UNCHANGED <<state, active, ordDown, pending, next, timers, connLive, sock, wire, back>>
  BY DEF AskReplace, desk, socks, MbbBecomes, RequestReplace, TheMbb
<1>2. replaceWanted' \in BOOLEAN
  BY Zenon DEF AskReplace, MbbBecomes, RequestReplace, TheMbb, LaneInv, MbbOK
<1>3. DeskOK(TheDesk)'
  BY <1>1, Zenon DEF LaneInv, TheDesk
<1>4. MbbOK'
  BY <1>1, <1>2, Zenon DEF LaneInv, MbbOK
<1>5. WireOK'
  BY <1>1, Zenon DEF LaneInv, WireOK, WireAt
<1>6. QED BY <1>3, <1>4, <1>5 DEF LaneInv

\* The venue answers: the id moves from the wire to the answers.
LEMMA VenueKeepsLane ==
    ASSUME LaneInv, NEW s \in Slots, NEW id \in wire[s], VenueAnswers(s, id)
    PROVE  LaneInv'
<1>1. /\ UNCHANGED <<state, active, replaceWanted, ordDown, pending, next, timers, connLive, sock>>
      /\ wire' = [wire EXCEPT ![s] = @ \ {id}] /\ back' = [back EXCEPT ![s] = @ \cup {id}]
  BY DEF VenueAnswers, desk, mbb
<1>2. DeskOK(TheDesk)' /\ MbbOK'
  BY <1>1, Zenon DEF LaneInv, MbbOK, TheDesk
<1>3. DOMAIN wire = Slots /\ DOMAIN back = Slots /\ \A t \in Slots : WireAt(t)
  BY DEF LaneInv, WireOK
<1>4. WireAt(s)'
  <2>1. wire'[s] = wire[s] \ {id} /\ back'[s] = back[s] \cup {id}
    BY <1>1, <1>3
  <2>2. WireAt(s)
    BY <1>3
  <2>3. wire'[s] \cup back'[s] = IdsOf(pending', s) /\ wire'[s] \cap back'[s] = {}
    <3>1. wire[s] \cup back[s] = IdsOf(pending, s) /\ wire[s] \cap back[s] = {}
      BY <2>2, Zenon DEF WireAt
    <3>2. pending' = pending
      BY <1>1
    <3>3. QED BY <2>1, <3>1, <3>2
  <2>4. QED BY <1>1, <2>2, <2>3, Zenon DEF WireAt
<1>5. ASSUME NEW t \in Slots \ {s} PROVE WireAt(t)'
  <2>1. wire'[t] = wire[t] /\ back'[t] = back[t]
    BY <1>1, <1>3
  <2>2. QED BY <1>1, <1>3, <2>1, WireFrame, Zenon
<1>6. QED BY <1>1, <1>2, <1>3, <1>4, <1>5 DEF LaneInv, WireOK

\* The desk once the answer to request id of session s is taken.
LEMMA AnsweredDesk ==
    ASSUME LaneInv, NEW s \in Slots, NEW id \in back[s]
    PROVE  LET d == Taken(TheDesk, {id})
           IN  /\ DeskOK(d)
               /\ id \in IdsOf(pending, s) /\ Ix(id) \in PlacesOf(pending, s)
               /\ \A t \in Slots \ {s} : PlacesOf(d.pending, t) = PlacesOf(pending, t)
               /\ PlacesOf(d.pending, s) = PlacesOf(pending, s) \ {Ix(id)}
               /\ IdsOf(d.pending, s) = IdsOf(pending, s) \ {id}
               /\ \A t \in Slots : \A k \in PlacesOf(d.pending, t) : d.pending[k] = pending[k]
<1> DEFINE d == Taken(TheDesk, {id})
<1>1. DeskOK(TheDesk) /\ TheDesk.pending = pending
  BY Zenon DEF LaneInv, TheDesk
<1>2. id \in IdsOf(pending, s)
  BY Zenon DEF LaneInv, WireOK, WireAt
<1>3. /\ Ix(id) \in PlacesOf(pending, s) /\ id # 0
      /\ pending[Ix(id)].id = id
  BY <1>1, <1>2, RecordOf, Zenon
<1>4. /\ DeskOK(d)
      /\ \A k \in Places :
           d.pending[k] = IF pending[k].id \in {id} THEN Free ELSE pending[k]
      /\ \A t \in Slots :
           /\ PlacesOf(d.pending, t) = {k \in PlacesOf(pending, t) : pending[k].id \notin {id}}
           /\ IdsOf(d.pending, t) = IdsOf(pending, t) \ {id}
  <2>1. 0 \notin {id}
    BY <1>3
  <2> DEFINE D == TheDesk
             ids == {id}
             e == Taken(D, ids)
  <2> HIDE DEF D, ids
  <2>2. DeskOK(D) /\ 0 \notin ids /\ D.pending = pending
    BY <1>1, <2>1 DEF D, ids
  <2>3. /\ DeskOK(e)
        /\ \A k \in Places :
             e.pending[k] = IF D.pending[k].id \in ids THEN Free ELSE D.pending[k]
        /\ \A t \in Slots :
             /\ PlacesOf(e.pending, t) = {k \in PlacesOf(D.pending, t) : D.pending[k].id \notin ids}
             /\ IdsOf(e.pending, t) = IdsOf(D.pending, t) \ ids
    BY <2>2, TakenKeepsDesk, Zenon
  <2> HIDE DEF e
  <2>4. d = e
    BY DEF d, e, D, ids
  <2>5. QED BY <2>2, <2>3, <2>4, Zenon DEF ids
<1> HIDE DEF d
<1>5. \A k \in Places : pending[k].id = id => k = Ix(id)
  BY <1>1, <1>3, Zenon DEF DeskOK, Placed
<1>6. \A t \in Slots : \A k \in PlacesOf(pending, t) : k \in Places /\ pending[k].conn = t
  BY DEF PlacesOf
<1>7. \A t \in Slots \ {s} : PlacesOf(d.pending, t) = PlacesOf(pending, t)
  <2> TAKE t \in Slots \ {s}
  <2>1. \A k \in PlacesOf(pending, t) : pending[k].id # id
    BY <1>3, <1>5, <1>6
  <2>2. PlacesOf(d.pending, t) = {k \in PlacesOf(pending, t) : pending[k].id \notin {id}}
    BY <1>4
  <2>3. QED BY <2>1, <2>2
<1>8. PlacesOf(d.pending, s) = PlacesOf(pending, s) \ {Ix(id)}
  BY <1>3, <1>4, <1>5, <1>6, Zenon
<1>9. QED BY <1>2, <1>3, <1>4, <1>6, <1>7, <1>8, Zenon DEF d

\* on_answer, each of its outcomes.
LEMMA AnswerKeepsLane ==
    ASSUME LaneInv, NEW s \in Slots, NEW id \in back[s], NEW ok \in BOOLEAN,
           OnAnswer(s, id, ok)
    PROVE  LaneInv'
<1> DEFINE d == Taken(TheDesk, {id})
           i == Ix(id)
<1>1. /\ DeskOK(d)
      /\ id \in IdsOf(pending, s) /\ i \in PlacesOf(pending, s)
      /\ \A t \in Slots \ {s} : PlacesOf(d.pending, t) = PlacesOf(pending, t)
      /\ PlacesOf(d.pending, s) = PlacesOf(pending, s) \ {i}
      /\ IdsOf(d.pending, s) = IdsOf(pending, s) \ {id}
      /\ \A t \in Slots : \A k \in PlacesOf(d.pending, t) : d.pending[k] = pending[k]
  BY AnsweredDesk, Zenon
<1> HIDE DEF d
<1>2. /\ Rec(id).verb = pending[i].verb /\ sock[s] = "open" /\ state[s] # "Down"
      /\ Rec(id).verb # "order" <=> state[s] = "Dialing"
  <2>1. Rec(id) = pending[i]
    BY Zenon DEF Rec
  <2>2. WireAt(s) /\ MbbOK
    BY Zenon DEF LaneInv, WireOK
  <2>3. state[s] # "Down" /\ sock[s] # "dialing" /\ (pending[i].verb # "order" <=> state[s] = "Dialing")
    BY <1>1, <2>2, Zenon DEF WireAt
  <2>4. sock[s] \in {"closed", "dialing", "open"} /\ (sock[s] = "closed" <=> state[s] = "Down")
    BY <2>2, Zenon DEF MbbOK
  <2>5. QED BY <2>1, <2>3, <2>4, Zenon
<1> HIDE DEF i
<1>3. DOMAIN wire = Slots /\ DOMAIN back = Slots /\ \A t \in Slots : WireAt(t)
  BY Zenon DEF LaneInv, WireOK
<1>4. CASE WsFailed(s, d)
  <2>1. Lost(pending, LoseRequests(d, s), s)
    <3>1. Lost(d.pending, LoseRequests(d, s), s)
      BY <1>1, LoseKeepsDesk, Zenon
    <3>2. QED BY <1>1, <3>1, Zenon DEF Lost
  <2>2. QED BY <1>2, <1>4, <2>1, FailKeepsLane, Zenon
<1>5. CASE /\ DeskBecomes(d) /\ back' = [back EXCEPT ![s] = @ \ {id}]
           /\ UNCHANGED <<state, active, replaceWanted, ordDown, spot, sock, wire>>
  <2>1. DeskOK(TheDesk)' /\ pending' = d.pending /\ MbbOK'
    BY <1>1, <1>5, DeskIsNow, Zenon DEF LaneInv, MbbOK
  <2>2. ASSUME NEW t \in Slots \ {s} PROVE WireAt(t)'
    <3>1. wire'[t] = wire[t] /\ back'[t] = back[t] /\ state'[t] = state[t] /\ sock'[t] = sock[t]
      BY <1>3, <1>5, Zenon
    <3>2. QED BY <1>1, <1>3, <2>1, <3>1, WireFrame, Zenon
  <2>3. WireAt(s)'
    <3>1. wire'[s] = wire[s] /\ back'[s] = back[s] \ {id} /\ state'[s] = state[s] /\ sock'[s] = sock[s]
      BY <1>3, <1>5, Zenon
    <3>2. wire'[s] \cup back'[s] = IdsOf(pending', s) /\ wire'[s] \cap back'[s] = {}
      <4>1. wire[s] \cup back[s] = IdsOf(pending, s) /\ wire[s] \cap back[s] = {}
        BY <1>3, Zenon DEF WireAt
      <4>2. IdsOf(pending', s) = IdsOf(pending, s) \ {id}
        BY <1>1, <2>1
      <4>3. QED BY <3>1, <4>1, <4>2
    <3>3. \A k \in PlacesOf(pending', s) : k \in PlacesOf(pending, s) /\ pending'[k] = pending[k]
      BY <1>1, <2>1, Zenon
    <3>4. WireAt(s)
      BY <1>3
    <3>5. state'[s] = "Down" \/ sock'[s] = "dialing" => PlacesOf(pending', s) = {}
      <4>1. state[s] = "Down" \/ sock[s] = "dialing" => PlacesOf(pending, s) = {}
        BY <3>4, Zenon DEF WireAt
      <4>2. QED BY <3>1, <3>3, <4>1
    <3>6. /\ state'[s] = "Dialing" => \A j, k \in PlacesOf(pending', s) : j = k
          /\ \A k \in PlacesOf(pending', s) : pending'[k].verb # "order" <=> state'[s] = "Dialing"
      BY <3>1, <3>3, <3>4, Zenon DEF WireAt
    <3>7. QED BY <3>2, <3>5, <3>6, Zenon DEF WireAt
  <2>4. DOMAIN wire' = Slots /\ DOMAIN back' = Slots
    BY <1>3, <1>5, Zenon
  <2>5. QED BY <2>1, <2>2, <2>3, <2>4, Zenon DEF LaneInv, WireOK
<1>6. ASSUME Rec(id).verb # "order"
      PROVE  /\ state[s] = "Dialing" /\ PlacesOf(d.pending, s) = {} /\ IdsOf(pending, s) = {id}
             /\ wire[s] = {} /\ back[s] = {id} /\ active # s
  <2>1. state[s] = "Dialing" /\ active # s
    BY <1>2, <1>6, Zenon DEF LaneInv, MbbOK
  <2>2. PlacesOf(pending, s) = {i}
    <3>1. \A j, k \in PlacesOf(pending, s) : j = k
      BY <1>3, <2>1, Zenon DEF WireAt
    <3>2. QED BY <1>1, <3>1
  <2>3. PlacesOf(d.pending, s) = {}
    BY <1>1, <2>2, Zenon
  <2>4. IdsOf(d.pending, s) = {}
    BY <2>3 DEF IdsOf
  <2>5. IdsOf(pending, s) = {id}
    BY <1>1, <2>4, Zenon
  <2>6. wire[s] \cup back[s] = {id} /\ wire[s] \cap back[s] = {}
    BY <1>3, <2>5, Zenon DEF WireAt
  <2>7. wire[s] = {} /\ back[s] = {id}
    BY <2>6
  <2>8. QED BY <2>1, <2>3, <2>5, <2>7, Zenon
<1>7. CASE /\ Rec(id).verb # "order" /\ CanIssue(d)
           /\ DeskBecomes(Issue(d, "subscribe", s))
           /\ wire' = [wire EXCEPT ![s] = @ \cup {Claimed(d)}]
           /\ back' = [back EXCEPT ![s] = @ \ {id}]
           /\ UNCHANGED <<state, active, replaceWanted, ordDown, spot, sock>>
  <2>1. DeskOK(TheDesk)' /\ Issued(d.pending, pending', "subscribe", s, Claimed(d))
    <3>1. "subscribe" \in Verbs
      BY DEF Verbs
    <3>2. QED BY <1>1, <1>7, <3>1, IssuedNow, Zenon
  <2>2. MbbOK'
    BY <1>7, Zenon DEF LaneInv, MbbOK
  <2>3. ASSUME NEW t \in Slots \ {s} PROVE WireAt(t)'
    <3>1. wire'[t] = wire[t] /\ back'[t] = back[t] /\ state'[t] = state[t] /\ sock'[t] = sock[t]
      BY <1>3, <1>7, Zenon
    <3>2. QED BY <1>1, <1>3, <2>1, <3>1, WireFrame, Zenon DEF Issued
  <2>4. WireAt(s)'
    <3>1. wire'[s] = {Claimed(d)} /\ back'[s] = {} /\ state'[s] = "Dialing" /\ sock'[s] = "open"
      BY <1>2, <1>3, <1>6, <1>7, Zenon
    <3>2. IdsOf(d.pending, s) = {}
      BY <1>6, <1>7, Zenon DEF IdsOf
    <3>3. QED BY <1>6, <1>7, <2>1, <3>1, <3>2, Zenon DEF WireAt, Issued
  <2>5. QED BY <1>3, <1>7, <2>1, <2>2, <2>3, <2>4, Zenon DEF LaneInv, WireOK
<1>8. CASE /\ Rec(id).verb # "order" /\ WentLive(s, d)
           /\ back' = [back EXCEPT ![s] = @ \ {id}]
  <2>1. /\ state' = [t \in Slots |-> CASE t = s -> "Live"
                                            [] t # s /\ t = active -> "Draining"
                                            [] OTHER -> state[t]]
        /\ active' = s /\ replaceWanted' = FALSE /\ ordDown' = FALSE
        /\ DeskBecomes(d) /\ UNCHANGED <<sock, wire>>
    BY <1>8 DEF WentLive, MbbBecomes, OnLive, TheMbb
  <2>2. DeskOK(TheDesk)' /\ pending' = d.pending
    BY <1>1, <2>1, DeskIsNow
  <2>3. /\ state'[s] = "Live"
        /\ \A t \in Slots \ {s} : state'[t] = IF t = active THEN "Draining" ELSE state[t]
        /\ state' \in [Slots -> {"Down", "Dialing", "Live", "Draining"}]
    <3>1. state \in [Slots -> {"Down", "Dialing", "Live", "Draining"}]
      BY Zenon DEF LaneInv, MbbOK
    <3>2. /\ state'[s] = "Live"
          /\ \A t \in Slots \ {s} : state'[t] = IF t = active THEN "Draining" ELSE state[t]
      BY <2>1, Zenon
    <3>3. DOMAIN state' = Slots /\ state' = [t \in DOMAIN state' |-> state'[t]]
      BY <2>1, Zenon
    <3>4. QED BY <3>1, <3>2, <3>3
  <2>4. MbbOK'
    <3>1. \A t \in Slots :
             /\ state'[t] = "Live" <=> active' = t
             /\ sock'[t] = "closed" <=> state'[t] = "Down"
             /\ sock'[t] = "dialing" => state'[t] = "Dialing"
      <4> TAKE t \in Slots
      <4>1. /\ state[t] = "Live" <=> active = t
            /\ sock[t] = "closed" <=> state[t] = "Down"
            /\ sock[t] = "dialing" => state[t] = "Dialing"
        BY DEF LaneInv, MbbOK
      <4>2. sock'[t] = sock[t] /\ active' = s
        BY <2>1
      <4>3. CASE t = s
        BY <1>2, <2>3, <4>2, <4>3, Zenon
      <4>4. CASE t # s /\ t = active
        BY <2>3, <4>1, <4>2, <4>4
      <4>5. CASE t # s /\ t # active
        BY <2>3, <4>1, <4>2, <4>5
      <4>6. QED BY <4>3, <4>4, <4>5, Zenon
    <3>2. active' \in {0, 1, 2} /\ active' # 2
      BY <2>1 DEF Slots
    <3>3. sock' \in [Slots -> {"closed", "dialing", "open"}]
      BY <2>1 DEF LaneInv, MbbOK
    <3>4. /\ replaceWanted' \in BOOLEAN /\ ordDown' \in BOOLEAN /\ ~ordDown'
      BY <2>1, Zenon
    <3>5. QED BY <2>3, <3>1, <3>2, <3>3, <3>4, Zenon DEF MbbOK
  <2>5. ASSUME NEW t \in Slots \ {s} PROVE WireAt(t)'
    <3>1. wire'[t] = wire[t] /\ back'[t] = back[t] /\ sock'[t] = sock[t]
      BY <1>3, <1>8, <2>1
    <3>2. (state'[t] = "Dialing" <=> state[t] = "Dialing") /\ (state'[t] = "Down" => state[t] = "Down")
      BY <2>3, Zenon DEF LaneInv, MbbOK
    <3>3. QED BY <1>1, <1>3, <2>2, <3>1, <3>2, WireFrame, Zenon
  <2>6. WireAt(s)'
    <3>1. wire'[s] = {} /\ back'[s] = {}
      BY <1>3, <1>6, <1>8, <2>1
    <3>2. QED BY <1>6, <1>8, <2>2, <3>1, WireEmpty, Zenon
  <2>7. DOMAIN wire' = Slots /\ DOMAIN back' = Slots
    BY <1>3, <1>8, <2>1, Zenon
  <2>8. QED BY <2>2, <2>4, <2>5, <2>6, <2>7, Zenon DEF LaneInv, WireOK
<1>9. QED
  BY <1>4, <1>5, <1>7, <1>8, Zenon DEF OnAnswer, mbb, d

\* Sessions closed by drive_mbb, none of them the active one: X.
LEMMA RetireKeepsLane ==
    ASSUME LaneInv, NEW X \in SUBSET Slots, active \notin X,
           state' = [t \in Slots |-> IF t \in X THEN "Down" ELSE state[t]],
           UNCHANGED <<active, replaceWanted, ordDown>>, Closed(X), DeskOK(TheDesk)',
           \A t \in X : PlacesOf(pending', t) = {},
           \A t \in Slots \ X : /\ PlacesOf(pending', t) = PlacesOf(pending, t)
                                /\ \A k \in PlacesOf(pending, t) : pending'[k] = pending[k]
    PROVE  LaneInv'
<1>1. /\ sock' = [t \in Slots |-> IF t \in X THEN "closed" ELSE sock[t]]
      /\ wire' = [t \in Slots |-> IF t \in X THEN {} ELSE wire[t]]
      /\ back' = [t \in Slots |-> IF t \in X THEN {} ELSE back[t]]
  BY Zenon DEF Closed
<1>2. MbbOK'
  <2>1. /\ state' \in [Slots -> {"Down", "Dialing", "Live", "Draining"}]
        /\ sock' \in [Slots -> {"closed", "dialing", "open"}]
    BY <1>1, Zenon DEF LaneInv, MbbOK
  <2>2. \A t \in Slots :
           /\ state'[t] = "Live" <=> active' = t
           /\ sock'[t] = "closed" <=> state'[t] = "Down"
           /\ sock'[t] = "dialing" => state'[t] = "Dialing"
    BY <1>1, Zenon DEF LaneInv, MbbOK
  <2>3. active' = 2 => \E t \in Slots : state'[t] \in {"Down", "Dialing"}
    BY Zenon DEF LaneInv, MbbOK
  <2>4. QED BY <2>1, <2>2, <2>3, Zenon DEF LaneInv, MbbOK
<1>3. ASSUME NEW t \in X PROVE WireAt(t)'
  BY <1>1, WireEmpty, Zenon
<1>4. ASSUME NEW t \in Slots \ X PROVE WireAt(t)'
  <2>1. WireAt(t) /\ UNCHANGED <<state[t], sock[t], wire[t], back[t]>>
    BY <1>1, Zenon DEF LaneInv, WireOK
  <2>2. QED BY <2>1, WireFrame, Zenon
<1>5. QED BY <1>1, <1>2, <1>3, <1>4, Zenon DEF LaneInv, WireOK

\* The slots once the drained ones are down.
LEMMA DrainedSlots ==
    ASSUME LaneInv
    PROVE  LET drained == {s \in Slots : state[s] = "Draining" /\ connLive[s] = 0}
               m == OnDrained(TheMbb, drained)
           IN  /\ \A s \in drained : PlacesOf(pending, s) = {} /\ s # active
               /\ m = [state |-> [s \in Slots |-> IF s \in drained THEN "Down" ELSE state[s]],
                       active |-> active, replaceWanted |-> replaceWanted]
<1> DEFINE drained == {s \in Slots : state[s] = "Draining" /\ connLive[s] = 0}
<1>1. ASSUME NEW s \in drained PROVE PlacesOf(pending, s) = {} /\ s # active
  <2>1. Cardinality(PlacesOf(pending, s)) = 0
    BY Zenon DEF LaneInv, DeskOK, TheDesk
  <2>2. PlacesOf(pending, s) = {}
    BY <2>1, PlacesFinite, FS_EmptySet, Zenon
  <2>3. QED BY <2>2 DEF LaneInv, MbbOK
<1> HIDE DEF drained
<1>2. OnDrained(TheMbb, drained)
        = [state |-> [s \in Slots |-> IF s \in drained THEN "Down" ELSE state[s]],
           active |-> active, replaceWanted |-> replaceWanted]
  BY DEF OnDrained, TheMbb
<1>3. QED BY <1>1, <1>2, Zenon DEF drained

\* The slot poll asks to dial is down and not the active one.
LEMMA DialledIsDown ==
    ASSUME LaneInv, NEW X \in SUBSET Slots, \A s \in X : state[s] = "Draining",
           NEW m, m = [state |-> [s \in Slots |-> IF s \in X THEN "Down" ELSE state[s]],
                       active |-> active, replaceWanted |-> replaceWanted],
           ToDial(m) # 2
    PROVE  /\ ToDial(m) \in Slots
           /\ m.state[ToDial(m)] = "Down" /\ ToDial(m) # active
           /\ \A s \in Slots : state[s] # "Dialing" \/ active # 2
<1> DEFINE c == ToDial(m)
<1>1. \A s \in Slots : m.state[s] = IF s \in X THEN "Down" ELSE state[s]
  OBVIOUS
<1>2. m.active = active /\ m.replaceWanted = replaceWanted
  OBVIOUS
<1>3. \A s \in Slots : m.state[s] # "Dialing"
  BY Zenon DEF ToDial, None
<1>4. \A s \in Slots : state[s] # "Dialing"
  BY <1>1, <1>3
<1>5. CASE active = 2
  <2>1. c = IF m.state[0] = "Down" THEN 0 ELSE 1
    BY <1>2, <1>3, <1>5, Zenon DEF ToDial, None
  <2>2. m.state[0] = "Down" \/ m.state[1] = "Down"
    BY <1>1, <1>4, <1>5, Zenon DEF LaneInv, MbbOK, Slots
  <2> HIDE DEF c
  <2>3. c \in {0, 1} /\ m.state[c] = "Down" /\ c # 2
    BY <2>1, <2>2
  <2>4. QED BY <1>4, <1>5, <2>3 DEF c, Slots
<1>6. CASE active # 2
  <2>1. c = IF m.replaceWanted /\ m.state[Other(m.active)] = "Down"
            THEN Other(m.active) ELSE 2
    BY <1>2, <1>3, <1>6, Zenon DEF ToDial, None
  <2>2. c = Other(active) /\ m.state[Other(active)] = "Down"
    BY <1>2, <2>1, Zenon
  <2> HIDE DEF c
  <2>3. active \in {0, 1}
    BY <1>6 DEF LaneInv, MbbOK
  <2>4. c \in {0, 1} /\ c # active
    BY <2>2, <2>3 DEF Other
  <2>5. QED BY <1>4, <2>2, <2>4 DEF c, Slots
<1>7. QED BY <1>5, <1>6

\* The slot poll asks to retire drains or dials.
LEMMA RetiredIsIdle ==
    ASSUME NEW m, NEW over, ToRetire(m, over) # 2
    PROVE  /\ ToRetire(m, over) \in Slots
           /\ m.state[ToRetire(m, over)] \in {"Draining", "Dialing"}
<1>1. CASE 0 \in Overdue(m, over)
  <2>1. ToRetire(m, over) = 0
    BY <1>1, Zenon DEF ToRetire
  <2>2. QED BY <1>1, <2>1 DEF Overdue, Slots
<1>2. CASE 0 \notin Overdue(m, over) /\ 1 \in Overdue(m, over)
  <2>1. ToRetire(m, over) = 1
    BY <1>2, Zenon DEF ToRetire
  <2>2. QED BY <1>2, <2>1 DEF Overdue, Slots
<1>3. CASE 0 \notin Overdue(m, over) /\ 1 \notin Overdue(m, over)
  <2>1. ToRetire(m, over) = 2
    BY <1>3, Zenon DEF ToRetire, None
  <2>2. QED BY <2>1
<1>4. QED BY <1>1, <1>2, <1>3

\* drive_mbb, each of its outcomes.
LEMMA DriveKeepsLane ==
    ASSUME LaneInv, NEW over, NEW ready, NEW dials, Drive(over, ready, dials)
    PROVE  LaneInv'
<1> DEFINE X == {s \in Slots : state[s] = "Draining" /\ connLive[s] = 0}
           m == OnDrained(TheMbb, X)
           r == ToRetire(m, over)
           c == ToDial(m)
<1>1. /\ \A s \in X : PlacesOf(pending, s) = {} /\ s # active /\ state[s] = "Draining"
      /\ m = [state |-> [s \in Slots |-> IF s \in X THEN "Down" ELSE state[s]],
              active |-> active, replaceWanted |-> replaceWanted]
      /\ X \in SUBSET Slots
  BY DrainedSlots, Zenon
<1>2. \/ /\ r # 2
         /\ MbbBecomes(OnDown(m, r)) /\ Closed(X \cup {r})
         /\ DeskBecomes(LoseRequests(TheDesk, r))
         /\ UNCHANGED ordDown
      \/ /\ c # 2
         /\ DeskBecomes(TheDesk)
         /\ MbbBecomes([m EXCEPT !.state[c] = "Dialing"])
         /\ sock' = [s \in Slots |-> CASE s = c -> "dialing"
                                            [] s # c /\ s \in X -> "closed"
                                            [] OTHER -> sock[s]]
         /\ wire' = [s \in Slots |-> IF s \in X \cup {c} THEN {} ELSE wire[s]]
         /\ back' = [s \in Slots |-> IF s \in X \cup {c} THEN {} ELSE back[s]]
         /\ UNCHANGED ordDown
      \/ /\ c # 2
         /\ DeskBecomes(TheDesk)
         /\ MbbBecomes(OnDown(m, c)) /\ Closed(X \cup {c})
         /\ UNCHANGED ordDown
      \/ /\ MbbBecomes(m) /\ Closed(X)
         /\ UNCHANGED <<pending, next, timers, connLive, ordDown>>
  BY Zenon DEF Drive, None, desk
<1> HIDE DEF X, m, r, c
<1>3. DeskOK(TheDesk) /\ TheDesk.pending = pending
  BY DEF LaneInv, TheDesk
<1>4. \A s \in Slots : m.state[s] = IF s \in X THEN "Down" ELSE state[s]
  BY <1>1
<1>5. ASSUME NEW s \in Slots, s # active, MbbBecomes(OnDown(m, s))
      PROVE  /\ state' = [t \in Slots |-> IF t \in X \cup {s} THEN "Down" ELSE state[t]]
             /\ UNCHANGED <<active, replaceWanted>>
  BY <1>1, <1>5 DEF MbbBecomes, OnDown
<1>6. CASE /\ r # 2
           /\ MbbBecomes(OnDown(m, r)) /\ Closed(X \cup {r})
           /\ DeskBecomes(LoseRequests(TheDesk, r))
           /\ UNCHANGED ordDown
  <2>1. r \in Slots /\ m.state[r] \in {"Draining", "Dialing"}
    BY <1>6, RetiredIsIdle, Zenon DEF r
  <2>2. r # active
    BY <1>4, <2>1, Zenon DEF LaneInv, MbbOK
  <2> DEFINE e == LoseRequests(TheDesk, r)
  <2>3. Lost(pending, e, r)
    BY <1>3, <2>1, LoseKeepsDesk
  <2> HIDE DEF e
  <2>4. DeskOK(TheDesk)' /\ pending' = e.pending
    <3>1. DeskOK(e) /\ DeskBecomes(e)
      BY <1>6, <2>3, Zenon DEF Lost, e
    <3>2. QED BY <3>1, DeskIsNow
  <2>5. /\ \A t \in X \cup {r} : PlacesOf(pending', t) = {}
        /\ \A t \in Slots \ (X \cup {r}) :
             /\ PlacesOf(pending', t) = PlacesOf(pending, t)
             /\ \A k \in PlacesOf(pending, t) : pending'[k] = pending[k]
    BY <1>1, <2>3, <2>4, Zenon DEF Lost
  <2> DEFINE Y == X \cup {r}
  <2>6. Y \in SUBSET Slots /\ active \notin Y
    BY <1>1, <2>1, <2>2
  <2>7. state' = [t \in Slots |-> IF t \in Y THEN "Down" ELSE state[t]] /\ UNCHANGED <<active, replaceWanted>>
    BY <1>5, <1>6, <2>1, <2>2, Zenon
  <2> HIDE DEF Y
  <2>8. QED BY <1>6, <2>4, <2>5, <2>6, <2>7, RetireKeepsLane, Zenon DEF Y
<1>7. ASSUME c # 2
      PROVE  c \in Slots /\ m.state[c] = "Down" /\ c # active /\ PlacesOf(pending, c) = {}
             /\ \A s \in Slots : state[s] # "Dialing" \/ active # 2
  <2>1. c \in Slots /\ m.state[c] = "Down" /\ c # active /\ \A s \in Slots : state[s] # "Dialing" \/ active # 2
    BY <1>1, <1>7, DialledIsDown, Zenon DEF c
  <2>2. c \in X \/ state[c] = "Down"
    BY <1>4, <2>1
  <2>3. QED BY <1>1, <2>1, <2>2, Zenon DEF LaneInv, WireOK, WireAt
<1>8. ASSUME DeskBecomes(TheDesk)
      PROVE  DeskOK(TheDesk)' /\ pending' = pending
  BY <1>3, <1>8, DeskIsNow
<1>9. CASE /\ c # 2
           /\ DeskBecomes(TheDesk)
           /\ MbbBecomes(OnDown(m, c)) /\ Closed(X \cup {c})
           /\ UNCHANGED ordDown
  <2> DEFINE Y == X \cup {c}
  <2>1. Y \in SUBSET Slots /\ active \notin Y /\ \A t \in Y : PlacesOf(pending, t) = {}
    BY <1>1, <1>7, <1>9
  <2>2. state' = [t \in Slots |-> IF t \in Y THEN "Down" ELSE state[t]] /\ UNCHANGED <<active, replaceWanted>>
    BY <1>5, <1>7, <1>9, Zenon
  <2>3. DeskOK(TheDesk)' /\ pending' = pending
    BY <1>8, <1>9
  <2> HIDE DEF Y
  <2>4. QED BY <1>9, <2>1, <2>2, <2>3, RetireKeepsLane DEF Y
<1>10. CASE /\ MbbBecomes(m) /\ Closed(X)
            /\ UNCHANGED <<pending, next, timers, connLive, ordDown>>
  <2>1. state' = [t \in Slots |-> IF t \in X THEN "Down" ELSE state[t]] /\ UNCHANGED <<active, replaceWanted>>
    BY <1>1, <1>10 DEF MbbBecomes
  <2>2. DeskOK(TheDesk)' /\ pending' = pending
    BY <1>3, <1>10 DEF TheDesk
  <2>3. QED BY <1>1, <1>10, <2>1, <2>2, RetireKeepsLane, Zenon
<1>11. CASE /\ c # 2
            /\ DeskBecomes(TheDesk)
            /\ MbbBecomes([m EXCEPT !.state[c] = "Dialing"])
            /\ sock' = [s \in Slots |-> CASE s = c -> "dialing"
                                               [] s # c /\ s \in X -> "closed"
                                               [] OTHER -> sock[s]]
            /\ wire' = [s \in Slots |-> IF s \in X \cup {c} THEN {} ELSE wire[s]]
            /\ back' = [s \in Slots |-> IF s \in X \cup {c} THEN {} ELSE back[s]]
            /\ UNCHANGED ordDown
  <2>1. DeskOK(TheDesk)' /\ pending' = pending
    BY <1>8, <1>11
  <2>2. c \in Slots /\ c # active /\ PlacesOf(pending, c) = {}
    BY <1>7, <1>11
  <2>3. \A s \in Slots : sock'[s] = IF s = c THEN "dialing" ELSE IF s \in X THEN "closed" ELSE sock[s]
    BY <1>11, Zenon
  <2>4. DOMAIN sock' = Slots /\ sock' = [s \in DOMAIN sock' |-> sock'[s]]
    BY <1>11, Zenon
  <2>5. wire' = [s \in Slots |-> IF s \in X \cup {c} THEN {} ELSE wire[s]]
        /\ back' = [s \in Slots |-> IF s \in X \cup {c} THEN {} ELSE back[s]]
        /\ UNCHANGED ordDown
    BY <1>11, Zenon
  <2>6. MbbBecomes([m EXCEPT !.state[c] = "Dialing"])
    BY <1>11, Zenon
  <2>7. /\ state' = [s \in Slots |-> IF s = c THEN "Dialing" ELSE IF s \in X THEN "Down" ELSE state[s]]
        /\ UNCHANGED <<active, replaceWanted>>
    BY <1>1, <2>2, <2>6 DEF MbbBecomes
  <2>8. MbbOK'
    <3>1. /\ state' \in [Slots -> {"Down", "Dialing", "Live", "Draining"}]
          /\ sock' \in [Slots -> {"closed", "dialing", "open"}]
      <4>1. /\ state \in [Slots -> {"Down", "Dialing", "Live", "Draining"}]
            /\ sock \in [Slots -> {"closed", "dialing", "open"}]
        BY Zenon DEF LaneInv, MbbOK
      <4>2. \A t \in Slots : sock'[t] \in {"closed", "dialing", "open"}
        BY <2>3, <4>1
      <4>3. sock' \in [Slots -> {"closed", "dialing", "open"}]
        BY <2>4, <4>2, Zenon
      <4>4. state' \in [Slots -> {"Down", "Dialing", "Live", "Draining"}]
        BY <2>7, <4>1
      <4>5. QED BY <4>3, <4>4
    <3>2. \A t \in Slots :
             /\ state'[t] = "Live" <=> active' = t
             /\ sock'[t] = "closed" <=> state'[t] = "Down"
             /\ sock'[t] = "dialing" => state'[t] = "Dialing"
      BY <1>1, <2>2, <2>3, <2>7, Zenon DEF LaneInv, MbbOK
    <3>3. active' = 2 => \E t \in Slots : state'[t] \in {"Down", "Dialing"}
      BY <2>2, <2>7
    <3>4. QED BY <2>5, <2>7, <3>1, <3>2, <3>3, Zenon DEF LaneInv, MbbOK
  <2>9. ASSUME NEW t \in X \cup {c} PROVE WireAt(t)'
    BY <1>1, <2>1, <2>2, <2>5, WireEmpty, Zenon
  <2>10. ASSUME NEW t \in Slots \ (X \cup {c}) PROVE WireAt(t)'
    <3>1. WireAt(t) /\ UNCHANGED <<state[t], sock[t], wire[t], back[t]>>
      BY <2>3, <2>5, <2>7, Zenon DEF LaneInv, WireOK
    <3>2. QED BY <2>1, <3>1, WireFrame, Zenon
  <2>11. QED BY <2>1, <2>5, <2>8, <2>9, <2>10, Zenon DEF LaneInv, WireOK
<1>12. QED BY <1>2, <1>6, <1>9, <1>10, <1>11, Zenon

\* Every step of the lane keeps the invariant.
LEMMA LaneInvInductive == LaneInv /\ [LaneNext]_laneVars => LaneInv'
<1> SUFFICES ASSUME LaneInv, [LaneNext]_laneVars PROVE LaneInv'
  OBVIOUS
<1>1. CASE UNCHANGED laneVars
  <2>1. UNCHANGED <<state, active, replaceWanted, pending, next, timers, connLive, ordDown, sock, wire, back>>
    BY <1>1 DEF laneVars, mbb, desk, socks
  <2>2. DeskOK(TheDesk)'
    BY <2>1, Zenon DEF LaneInv, TheDesk
  <2>3. MbbOK'
    BY <2>1, Zenon DEF LaneInv, MbbOK
  <2>4. WireOK'
    BY <2>1, Zenon DEF LaneInv, WireOK, WireAt
  <2>5. QED BY <2>2, <2>3, <2>4 DEF LaneInv
<1>2. CASE LaneNext
  BY <1>2, PostKeepsLane, AskKeepsLane, OpenedKeepsLane, QuietKeepsLane, SocketFailureKeepsLane,
     VenueKeepsLane, AnswerKeepsLane, DueKeepsLane, DriveKeepsLane, Zenon DEF LaneNext
<1>3. QED BY <1>1, <1>2

-----------------------------------------------------------------------------
(* The theorems.                                                           *)

\* It holds when the lane starts.
LEMMA LaneInvInitially == LaneInit => LaneInv
<1> SUFFICES ASSUME LaneInit PROVE LaneInv
  OBVIOUS
<1>1. /\ pending = [k \in Places |-> Free] /\ next = 1
      /\ timers = {} /\ connLive = [s \in Slots |-> 0]
  BY DEF LaneInit
<1>2. Free \in Records /\ Free.id = 0
  BY DeskAssumption DEF Free, Records, Verbs, Slots
<1>3. \A s \in Slots : PlacesOf(pending, s) = {} /\ IdsOf(pending, s) = {}
  <2>1. \A s \in Slots : PlacesOf(pending, s) = {}
    BY <1>1, <1>2 DEF PlacesOf
  <2>2. QED BY <2>1 DEF IdsOf
<1>4. pending \in [Places -> Records] /\ Placed(pending)
  BY <1>1, <1>2 DEF Placed
<1>5. DeskOK(TheDesk)
  <2>1. TheDesk \in [pending : [Places -> Records], next : Ids,
                          timers : SUBSET Ids, connLive : [Slots -> Nat]]
    BY <1>1, <1>4, IxInPlaces, Zenon DEF TheDesk
  <2>2. Placed(TheDesk.pending) /\ TheDesk.pending = pending
        /\ TheDesk.timers = timers /\ TheDesk.connLive = connLive
    BY <1>4 DEF TheDesk
  <2>3. \A s \in Slots : connLive[s] = Cardinality(PlacesOf(pending, s))
    BY <1>1, <1>3, FS_EmptySet
  <2>4. timers = IdsOf(pending, 0) \cup IdsOf(pending, 1)
    BY <1>1, <1>3 DEF Slots
  <2>5. QED BY <2>1, <2>2, <2>3, <2>4 DEF DeskOK
<1>6. MbbOK
  <2>1. /\ state = [s \in Slots |-> "Down"] /\ sock = [s \in Slots |-> "closed"]
        /\ active = 2 /\ 0 \in Slots /\ 2 \notin Slots
    BY DEF LaneInit, None, Slots
  <2>2. replaceWanted \in BOOLEAN /\ ordDown \in BOOLEAN /\ ordDown
    BY Zenon DEF LaneInit
  <2>3. QED BY <2>1, <2>2 DEF MbbOK
<1>7. WireOK
  BY <1>3, Zenon DEF LaneInit, WireOK, WireAt, Slots
<1>8. QED BY <1>5, <1>6, <1>7 DEF LaneInv

\* The machine's assertions hold in every state: a lane with no active slot can
\* dial, the active slot is the only live one, only a dialling slot logs on, and the
\* outage clock runs exactly while there is no active slot.
THEOREM OrderSessionsAreSound == LaneSpec => []SessionsAreSound
<1>1. LaneInv => SessionsAreSound
  <2> SUFFICES ASSUME LaneInv PROVE SessionsAreSound
    OBVIOUS
  <2>1. ASSUME NEW id \in InFlight
        PROVE  Rec(id).verb # "order" <=> state[Rec(id).conn] = "Dialing"
    <3>1. PICK s \in Slots : id \in IdsOf(pending, s)
      BY RecordOf DEF LaneInv, Slots
    <3>2. /\ Ix(id) \in PlacesOf(pending, s) /\ Rec(id) = pending[Ix(id)]
          /\ Rec(id).conn = s
      BY <3>1, RecordOf, Zenon DEF LaneInv
    <3>3. WireAt(s)
      BY Zenon DEF LaneInv, WireOK
    <3>4. QED BY <3>2, <3>3, Zenon DEF WireAt
  <2>2. QED BY <2>1, Zenon DEF SessionsAreSound, LaneInv, MbbOK, None
<1>2. QED BY <1>1, LaneInvInitially, LaneInvInductive, PTL DEF LaneSpec

\* Every request in flight has its deadline armed and waits on a session that is
\* not down, and a session's count is exactly the number in flight on it.
THEOREM NoRequestIsStranded == LaneSpec => []RequestsAreWatched
<1>1. LaneInv => RequestsAreWatched
  <2> SUFFICES ASSUME LaneInv PROVE RequestsAreWatched
    OBVIOUS
  <2>1. DeskOK(TheDesk) /\ TheDesk.timers = timers /\ TheDesk.pending = pending
        /\ TheDesk.connLive = connLive
    BY DEF LaneInv, TheDesk
  <2>2. timers = InFlight
    BY <2>1, RecordOf, Zenon DEF DeskOK
  <2>3. ASSUME NEW s \in Slots PROVE OnSession(s) = IdsOf(pending, s)
    <3>1. ASSUME NEW x PROVE x \in OnSession(s) <=> x \in IdsOf(pending, s)
      BY <2>1, RecordOf, Zenon DEF OnSession, Slots
    <3>2. QED BY <3>1, Zenon
  <2>4. ASSUME NEW s \in Slots
        PROVE  /\ wire[s] \cup back[s] = OnSession(s)
               /\ connLive[s] = Cardinality(OnSession(s))
               /\ OnSession(s) # {} => state[s] # "Down"
    <3>1. WireAt(s)
      BY Zenon DEF LaneInv, WireOK
    <3>2. connLive[s] = Cardinality(PlacesOf(pending, s))
      BY <2>1 DEF DeskOK
    <3>3. Cardinality(IdsOf(pending, s)) = Cardinality(PlacesOf(pending, s))
      <4> DEFINE S == PlacesOf(pending, s)
                 T == IdsOf(pending, s)
                 f == [k \in S |-> pending[k].id]
      <4>1. \A k \in S : Ix(f[k]) = k
        BY <2>1, Zenon DEF DeskOK, Placed, PlacesOf
      <4>2. \A x \in T : \E k \in S : f[k] = x
        BY InIdsOf
      <4>3. f \in [S -> T]
        BY InIdsOf
      <4> HIDE DEF S, T, f
      <4>4. f \in Bijection(S, T)
        BY <4>1, <4>2, <4>3 DEF Bijection, Injection, Surjection, IsInjective
      <4>5. ExistsBijection(S, T)
        BY <4>4 DEF ExistsBijection
      <4>6. QED BY <4>5, PlacesFinite, FS_Bijection DEF S, T
    <3>4. OnSession(s) # {} => PlacesOf(pending, s) # {}
      BY <2>3 DEF IdsOf
    <3>5. QED BY <2>3, <3>1, <3>2, <3>3, <3>4, Zenon DEF WireAt
  <2>5. QED BY <2>2, <2>4, Zenon DEF RequestsAreWatched
<1>2. QED BY <1>1, LaneInvInitially, LaneInvInductive, PTL DEF LaneSpec
=============================================================================
