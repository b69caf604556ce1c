------------------------- MODULE OpenOrders_proofs -------------------------
(***************************************************************************)
(* The gateway's own steps preserve OrdersInv (OrderSteps_proofs), and so  *)
(* it holds throughout: no trade is booked twice, no order that still works*)
(* is taken for ended, and none ends before its last fill is booked.       *)
(***************************************************************************)
EXTENDS OrderSteps_proofs

-----------------------------------------------------------------------------
(* The member's commands.                                                  *)

\* A member cancels an order.
LEMMA CancelStep ==
  ASSUME Counting, OrdersInv, NEW o \in Oids, Cancel(o)
  PROVE  OrdersInv'
<1>1. IsOpen(o) /\ ord[o] \in Entry /\ ord[o].st \in Open
  BY OpenFits DEF Cancel
<1>2. Handled(o, ord[o], CancelOrOwe(o, ord[o]))
  BY <1>1, CancelHandled
<1>3. modifies' \in [Oids -> Nat]
  BY DEF OrdersInv, Typed, Cancel
<1>4. QED BY <1>1, <1>2, <1>3, HandledStep DEF Cancel, sockets

\* A member modifies an order.
LEMMA ModifyStep ==
  ASSUME Counting, OrdersInv, NEW o \in Oids, Modify(o)
  PROVE  OrdersInv'
<1> DEFINE n == modifies[o] + 1
           r == Result([ord[o] EXCEPT !.pending = n, !.age.modify = Young], {Req("modify", o, n)})
<1>1. IsOpen(o) /\ ord[o] \in Entry /\ ord[o].st \in Open
  BY OpenFits DEF Modify
<1>2. modifies \in [Oids -> Nat] /\ n \in Nat
  BY DEF OrdersInv, Typed
<1>3. Kept(ord[o], [ord[o] EXCEPT !.pending = n, !.age.modify = Young])
  BY <1>1, <1>2, Zenon DEF Kept, Entry, Ages, Open
<1>4. Asks(o, {Req("modify", o, n)})
  BY <1>2 DEF Asks, Req, Request
<1>5. Handled(o, ord[o], r)
  BY <1>3, <1>4 DEF Handled, Result
<1>6. Leaves(o, r) /\ modifies' \in [Oids -> Nat] /\ ans' \subseteq ans
      /\ UNCHANGED <<seen, lites, updates, venue>>
  BY <1>2 DEF Modify, sockets
<1> HIDE DEF r
<1>7. QED BY <1>1, <1>5, <1>6, HandledStep

\* An order's TTL, or the retry of its cancel, falls due.
LEMMA OrderDueStep ==
  ASSUME Counting, OrdersInv, NEW o \in Oids, OrderDue(o)
  PROVE  OrdersInv'
<1> DEFINE e == [ord[o] EXCEPT !.timed = FALSE]
           r == IF e.cancelSent THEN Result(e, {}) ELSE CancelOrOwe(o, e)
           q == IF r.e.timed THEN r ELSE [r EXCEPT !.e.owe = {}]
<1>1. IsOpen(o) /\ ord[o] \in Entry /\ ord[o].st \in Open
  BY OpenFits DEF OrderDue
<1>2. Kept(ord[o], e)
  BY <1>1, Touched, Zenon
<1>3. Handled(o, e, r) /\ DOMAIN r = {"e", "out"}
  <2>1. e \in Entry /\ e.st \in Open
    BY <1>2 DEF Kept
  <2> HIDE DEF e
  <2>2. Handled(o, e, CancelOrOwe(o, e))
    BY <2>1, CancelHandled
  <2>3. Handled(o, e, Result(e, {}))
    BY <2>1, Touched DEF Handled, Result, Asks
  <2>4. DOMAIN r = {"e", "out"}
    BY DEF CancelOrOwe, Result, SendCancel
  <2>5. QED BY <2>2, <2>3, <2>4
<1>4. Handled(o, e, q)
  <2>1. Kept(e, r.e) /\ Asks(o, r.out) /\ r.e \in Entry /\ r.e.st \in Open
    BY <1>3 DEF Handled, Kept
  <2> HIDE DEF r, e
  <2>2. Kept(r.e, [r.e EXCEPT !.owe = {}])
    BY <2>1, Touched, Zenon
  <2>3. r.e.timed \/ (q.e = [r.e EXCEPT !.owe = {}] /\ q.out = r.out)
    BY <1>3
  <2>4. QED BY <2>1, <2>2, <2>3, KeptTwice DEF Handled
<1>5. Leaves(o, q) /\ modifies' \in [Oids -> Nat] /\ ans' \subseteq ans
      /\ UNCHANGED <<seen, lites, updates, venue>>
  BY DEF OrderDue, sockets, OrdersInv, Typed
<1> HIDE DEF q, e
<1>6. Handled(o, ord[o], q)
  BY <1>2, <1>4, KeptTwice DEF Handled
<1>7. QED BY <1>1, <1>5, <1>6, HandledStep

-----------------------------------------------------------------------------
(* Answers.                                                                *)

\* An order that was never placed, or is over and whole, may be ended.
LEMMA EndFits ==
  ASSUME NEW o \in Oids, NEW e \in Entry, NEW S, ord[o].st # "none",
         venue[o].ex \in Nat, e.filled = venue[o].ex, Places(o) = {}, venue[o].st # "working",
         e.statusBooked \/ e.filled <= Cardinality(S)
  PROVE  Fits(o, EndOrder(e), S)
<1>1. /\ EndOrder(e) \in Entry /\ EndOrder(e).st = "ended" /\ EndOrder(e).age.place = Young
      /\ EndOrder(e).filled = e.filled /\ EndOrder(e).statusBooked = e.statusBooked
  BY Zenon DEF EndOrder, EmptyEntry, Entry, Ages
<1>2. QED BY <1>1 DEF Fits

\* The venue knows nothing of o, and no place of it is on its way.
LEMMA NeverPlacedEnds ==
  ASSUME OrdersInv, NEW o \in Oids, IsOpen(o), NeverPlaced(o)
  PROVE  Fits(o, EndOrder(ord[o]), SeenOf(o))
<1>1. ord[o] \in Entry /\ Fits(o, ord[o], SeenOf(o)) /\ BookOK(o)
  BY OpenFits DEF OrdersInv
<1>2. venue[o].ex = 0 /\ ord[o].filled = 0
  BY <1>1 DEF BookOK, NeverPlaced, Entry
<1>3. QED BY <1>1, <1>2, EndFits DEF NeverPlaced, Fits

\* Booking up to a cumulative quantity the venue has reached.
LEMMA StatusBookFits ==
  ASSUME NEW o \in Oids, NEW e \in Entry, NEW S, e.st \in Open, Fits(o, e, S),
         NEW x \in Nat, x <= venue[o].ex
  PROVE  /\ StatusBook(e, x) \in Entry /\ StatusBook(e, x).st \in Open
         /\ Fits(o, StatusBook(e, x), S)
         /\ StatusBook(e, x).filled >= x
<1>1. e.filled \in Nat
  BY DEF Entry
<1>2. CASE x > e.filled
  <2> DEFINE f == [e EXCEPT !.filled = x, !.statusBooked = TRUE]
  <2>1. StatusBook(e, x) = f
    BY <1>2 DEF StatusBook
  <2>2. /\ f \in Entry /\ f.st = e.st /\ f.filled = x /\ f.statusBooked /\ f.age = e.age
    BY Zenon DEF Entry
  <2>3. f.st # "ended" /\ f.st \in Open
    BY <2>2 DEF Open
  <2> HIDE DEF f
  <2>4. Fits(o, f, S)
    BY <2>2, <2>3 DEF Fits
  <2>5. QED BY <2>1, <2>2, <2>3, <2>4
<1>3. CASE ~ (x > e.filled)
  BY <1>1, <1>3 DEF StatusBook
<1>4. QED BY <1>2, <1>3

\* An order whose end the venue shows, booked up to it, is whole.
LEMMA OverEnds ==
  ASSUME OrdersInv, NEW o \in Oids, NEW e \in Entry, NEW S, Fits(o, e, S),
         venue[o].st \in Terminal, NEW x \in Nat, venue[o].ex = x, e.filled >= x
  PROVE  Fits(o, EndOrder(e), S)
<1>1. PlaceOK(o)
  BY DEF OrdersInv
<1>2. venue[o].st # "none" /\ venue[o].st # "working"
  BY DEF Terminal
<1>3. Places(o) = {}
  BY <1>1, <1>2, Zenon DEF PlaceOK
<1>4. e.filled = venue[o].ex
  BY DEF Fits, Entry
<1>5. QED BY <1>2, <1>3, <1>4, EndFits DEF Fits

\* What the gateway makes of an order's status fits, whenever the status comes:
\* "no such order" ends it only if no copy of its place can still arrive, and a
\* terminal state only with everything the order traded.
LEMMA StatusFits ==
  ASSUME OrdersInv, NEW o \in Oids, IsOpen(o), NEW a \in Status, a.o = o, AnswerOK(a)
  PROVE  LET r == StatusAnswered(o, ord[o], a)
         IN  Fits(o, r.e, SeenOf(o)) /\ Asks(o, r.out)
<1> DEFINE e == ord[o]
           r == StatusAnswered(o, ord[o], a)
<1>0. /\ e \in Entry /\ e.st \in Open /\ Fits(o, e, SeenOf(o)) /\ Asks(o, {})
      /\ a.verb = "status" /\ a.ex \in Nat /\ a.ex <= venue[o].ex
  BY OpenFits DEF Asks, Status, AnswerOK
<1>1. CASE a.code = "nosuch"
  <2>1. CASE e.age.place = Final
    <3>1. "place" \notin a.early
      BY <1>0, <2>1 DEF AnswerOK
    <3>2. NeverPlaced(o)
      BY <1>0, <1>1, <3>1, Zenon DEF AnswerOK
    <3>3. r.e = EndOrder(e) /\ r.out = {}
      BY <1>1, <2>1 DEF StatusAnswered, Result
    <3>4. QED BY <1>0, <3>2, <3>3, NeverPlacedEnds
  <2>2. CASE e.age.place # Final
    <3>1. r.e = e /\ r.out = {}
      BY <1>1, <2>2 DEF StatusAnswered, Result
    <3>2. QED BY <1>0, <3>1
  <2>3. QED BY <2>1, <2>2
<1>2. CASE a.code # "nosuch"
  <2> DEFINE g == IF e.pending # 0 THEN StatusRename(e, a) ELSE e
             f == StatusBook(g, a.ex)
  <2>1. Kept(e, g)
    BY <1>0, ModifyHandled, Touched DEF StatusRename
  <2>2. g \in Entry /\ g.st \in Open /\ Fits(o, g, SeenOf(o))
    BY <1>0, <2>1, KeptFits DEF Kept
  <2> HIDE DEF g
  <2>3. f \in Entry /\ f.st \in Open /\ Fits(o, f, SeenOf(o)) /\ f.filled >= a.ex
    BY <1>0, <2>2, StatusBookFits
  <2>4. r = IF a.st \in Terminal THEN Result(EndOrder(f), {}) ELSE Working(o, f)
    BY <1>2 DEF StatusAnswered, g
  <2> HIDE DEF f
  <2>5. CASE a.st \in Terminal
    <3>1. venue[o].st \in Terminal /\ venue[o].ex = a.ex
      BY <1>0, <2>5, Zenon DEF AnswerOK
    <3>2. Fits(o, EndOrder(f), SeenOf(o))
      BY <1>0, <2>3, <3>1, OverEnds
    <3>3. QED BY <1>0, <2>4, <2>5, <3>2 DEF Result
  <2>6. CASE a.st \notin Terminal
    <3>1. Handled(o, f, Working(o, f))
      BY <2>3, WorkingHandled
    <3>2. QED BY <2>3, <2>4, <2>6, <3>1, KeptFits DEF Handled
  <2>7. QED BY <2>5, <2>6
<1>3. QED BY <1>1, <1>2

\* So does what it makes of the answer to a request.
LEMMA ReplyFits ==
  ASSUME OrdersInv, NEW o \in Oids, IsOpen(o), NEW a \in Reply, a.o = o, AnswerOK(a)
  PROVE  LET r == Judge(o, ord[o], a)
         IN  Fits(o, r.e, SeenOf(o)) /\ Asks(o, r.out)
<1> DEFINE e == ord[o]
           r == Judge(o, ord[o], a)
<1>0. e \in Entry /\ e.st \in Open /\ Fits(o, e, SeenOf(o)) /\ Asks(o, {})
  BY OpenFits DEF Asks
<1>1. CASE a.verb = "place"
  <2>1. r = PlaceAnswered(o, e, a.code) /\ a.code \in {"ok", "unknown", "refused"}
    BY <1>1 DEF Judge, Reply
  <2>2. CASE a.code = "ok"
    <3>1. Kept(e, SetLive(e)) /\ Handled(o, SetLive(e), LiveAgain(o, SetLive(e)))
      BY <1>0, Touched, LiveAgainHandled, Zenon DEF Kept
    <3>2. r = LiveAgain(o, SetLive(e))
      BY <2>1, <2>2 DEF PlaceAnswered
    <3>3. QED BY <1>0, <3>1, <3>2, KeptFits DEF Handled
  <2>3. CASE a.code = "unknown"
    <3>1. r.e = Doubt(e) /\ r.out = {}
      BY <2>1, <2>3 DEF PlaceAnswered, Result
    <3>2. QED BY <1>0, <3>1, Touched, KeptFits
  <2>4. CASE a.code = "refused"
    <3>1. r.e = EndOrder(e) /\ r.out = {}
      BY <2>1, <2>4 DEF PlaceAnswered, Result
    <3>2. NeverPlaced(o)
      BY <1>1, <2>4, Zenon DEF AnswerOK
    <3>3. QED BY <1>0, <3>1, <3>2, NeverPlacedEnds
  <2>5. QED BY <2>1, <2>2, <2>3, <2>4
<1>2. CASE a.verb = "cancel"
  <2> DEFINE f == [e EXCEPT !.cancelSent = FALSE]
  <2>1. r = CancelAnswered(o, e, a.code) /\ a.code \in {"ok", "nosuch", "refused"}
    BY <1>2 DEF Judge, Reply
  <2>2. Kept(e, f)
    BY <1>0, Touched, Zenon
  <2>3. f \in Entry /\ f.st \in Open /\ Fits(o, f, SeenOf(o))
    BY <1>0, <2>2, KeptFits, Zenon DEF Kept
  <2> HIDE DEF f
  <2> DEFINE g == [f EXCEPT !.owe = @ \cup {"cancel", "unknown"}]
  <2>4. Kept(f, g)
    BY <2>3 DEF Kept, Entry, Open
  <2>5. g \in Entry /\ g.st \in Open /\ Fits(o, g, SeenOf(o))
    BY <2>3, <2>4, KeptFits, Zenon DEF Kept
  <2>6. \/ r.e = e \/ r.e = Doubt(g) \/ r.e = OweCancel(f)
    BY <2>1 DEF CancelAnswered, Result, f
  <2>7. r.out = {}
    BY <2>1 DEF CancelAnswered, Result
  <2> HIDE DEF g
  <2>8. QED BY <1>0, <2>3, <2>5, <2>6, <2>7, Touched, KeptFits
<1>3. CASE a.verb = "modify"
  <2>1. r = ModifyAnswered(o, e, a.code) /\ a.code \in {"ok", "unknown", "refused"}
    BY <1>3 DEF Judge, Reply
  <2>2. r.out = {} /\ r.e \in {ModifyConfirmed(e), Doubt(e), ModifyAborted(e)}
    BY <2>1 DEF ModifyAnswered, Result
  <2>3. QED BY <1>0, <2>2, Touched, ModifyHandled, KeptFits
<1>4. QED BY <1>1, <1>2, <1>3 DEF Reply

\* An answer is judged, or dropped if its order is over.
LEMMA OnAnswerStep ==
  ASSUME Counting, OrdersInv, NEW o \in Oids, NEW verb, OnAnswer(o, verb)
  PROVE  OrdersInv'
<1>1. PICK a \in ans :
         /\ a.o = o /\ ans' = ans \ {a}
         /\ IF IsOpen(o) THEN Leaves(o, Judge(o, ord[o], a)) ELSE UNCHANGED <<ord, net>>
  BY DEF OnAnswer
<1>2. /\ a \in Reply \cup Status /\ AnswerOK(a) /\ modifies' \in [Oids -> Nat]
      /\ UNCHANGED <<seen, lites, updates, venue>> /\ ans' \subseteq ans
  BY <1>1 DEF OrdersInv, Typed, AnswersOK, OnAnswer
<1>3. CASE IsOpen(o)
  <2> DEFINE r == Judge(o, ord[o], a)
  <2>1. CASE a \in Reply
    BY <1>1, <1>2, <1>3, <2>1, ReplyFits, OneOrderStep
  <2>2. CASE a \in Status
    <3>1. r = StatusAnswered(o, ord[o], a)
      BY <2>2 DEF Judge, Status
    <3>2. Fits(o, r.e, SeenOf(o)) /\ Asks(o, r.out)
      BY <1>1, <1>2, <1>3, <2>2, <3>1, StatusFits
    <3> HIDE DEF r
    <3>3. QED BY <1>1, <1>2, <1>3, <3>2, OneOrderStep DEF r
  <2>3. QED BY <1>2, <2>1, <2>2
<1>4. CASE ~ IsOpen(o)
  <2>1. ord' = ord /\ net' = net /\ ord \in [Oids -> Entry]
    BY <1>1, <1>4 DEF OrdersInv, Typed
  <2>2. NetKept /\ QueuesKept /\ SeenKept
    BY <1>2, <2>1, NetSame, QueuesSame, SeenSame
  <2>3. QED BY <1>2, <2>1, <2>2, GatewayStep
<1>5. QED BY <1>3, <1>4

-----------------------------------------------------------------------------
(* Steps that concern every order.                                         *)

\* Each entry is kept, for an open order, or left alone.
LEMMA AllKeptStep ==
  ASSUME Counting, OrdersInv, DOMAIN ord' = Oids, ord' = [o \in Oids |-> ord'[o]],
         \A o \in Oids : ord'[o] = ord[o] \/ (IsOpen(o) /\ Kept(ord[o], ord'[o])),
         NetKept, QueuesKept, ans' \subseteq ans, UNCHANGED <<seen, venue, modifies>>
  PROVE  OrdersInv'
<1>1. SeenKept /\ \A o \in Oids : SeenOf(o)' = SeenOf(o)
  BY SeenSame
<1>2. \A o \in Oids : ord'[o] = ord[o] \/ Fits(o, ord'[o], SeenOf(o)')
  BY <1>1, OpenFits, KeptFits
<1>3. ord \in [Oids -> Entry] /\ modifies' \in [Oids -> Nat]
  BY DEF OrdersInv, Typed
<1>4. \A o \in Oids : ord'[o] \in Entry
  BY <1>3 DEF Kept
<1>5. ord' \in [Oids -> Entry]
  BY <1>4
<1>6. QED BY <1>1, <1>2, <1>3, <1>5, GatewayStep

\* Every open order is in doubt when a socket is back:
LEMMA LaneStep ==
  ASSUME Counting, OrdersInv, DoubtLane, QueuesKept,
         ans' = ans, net' = net, UNCHANGED <<seen, venue, modifies>>
  PROVE  OrdersInv'
<1>1. \A o \in Oids : ord'[o] = ord[o] \/ (IsOpen(o) /\ Kept(ord[o], ord'[o]))
  <2>1. \A o \in Oids : IsOpen(o) => Kept(ord[o], Doubt(ord[o]))
    BY OpenFits, Touched
  <2>2. \A o \in Oids : ord'[o] = IF IsOpen(o) THEN Doubt(ord[o]) ELSE ord[o]
    BY DEF DoubtLane
  <2>3. QED BY <2>1, <2>2
<1>2. DOMAIN ord' = Oids /\ ord' = [o \in Oids |-> ord'[o]]
  BY DEF DoubtLane
<1>3. NetKept
  BY NetSame
<1>4. QED BY <1>1, <1>2, <1>3, AllKeptStep

\* the order session's,
LEMMA WentLiveStep ==
  ASSUME Counting, OrdersInv, WentLive
  PROVE  OrdersInv'
BY LaneStep, QueuesSame DEF WentLive

\* the user stream's.
LEMMA UsOpenedStep ==
  ASSUME Counting, OrdersInv, UsOpened
  PROVE  OrdersInv'
BY LaneStep, QueuesSame DEF UsOpened

\* The stream's reports are lost with it.
LEMMA UsFailedStep ==
  ASSUME Counting, OrdersInv, UsFailed
  PROVE  OrdersInv'
<1>1. QueuesKept
  BY Shorter DEF OrdersInv, Typed, UsFailed, QueuesKept
<1>2. /\ ord' = ord /\ ord \in [Oids -> Entry] /\ net' = net /\ ans' = ans /\ seen' = seen
      /\ venue' = venue /\ modifies' \in [Oids -> Nat]
  BY DEF UsFailed, OrdersInv, Typed
<1>3. NetKept /\ SeenKept
  BY <1>2, NetSame, SeenSame
<1>4. QED BY <1>1, <1>2, <1>3, GatewayStep

\* The venue's listing is read.
LEMMA ListedStep ==
  ASSUME Counting, OrdersInv, Listed
  PROVE  OrdersInv'
<1>1. ASSUME NEW o \in Oids
      PROVE  /\ ListedEntry(o).e = ord[o] \/ (IsOpen(o) /\ Kept(ord[o], ListedEntry(o).e))
             /\ Asks(o, ListedEntry(o).out)
             /\ ListedEntry(o).out # {} => ord[o].st # "none"
  <2>1. Asks(o, {})
    BY DEF Asks
  <2>2. CASE IsOpen(o)
    <3>1. ord[o] \in Entry /\ ord[o].st \in Open /\ ord[o].st # "none"
      BY <2>2, OpenFits DEF Open
    <3>2. Kept(ord[o], Doubt(ord[o])) /\ Handled(o, ord[o], LiveAgain(o, ord[o]))
      BY <3>1, Touched, LiveAgainHandled
    <3>3. QED BY <2>1, <2>2, <3>1, <3>2 DEF ListedEntry, Handled, Result
  <2>3. CASE ~ IsOpen(o)
    BY <2>1, <2>3 DEF ListedEntry, Result, IsOpen, Open
  <2>4. QED BY <2>2, <2>3
<1>2. /\ ord' = [o \in Oids |-> ListedEntry(o).e]
      /\ net' = net \cup UNION {ListedEntry(o).out : o \in Oids}
      /\ UNCHANGED <<seen, sockets, venue, modifies>>
  BY DEF Listed
<1>3. NetKept
  <2>1. \A m \in net' : m \in net \/ (m \in Request /\ m.verb # "place" /\ ord[m.o].st # "none")
    BY <1>1, <1>2 DEF Asks
  <2>2. net \subseteq net' /\ \A p \in Oids : Places(p)' = Places(p)
    BY <1>2, <2>1 DEF Places
  <2>3. \A p \in Oids : PlaceOK(p)
    BY DEF OrdersInv
  <2>4. \A p \in Oids : \A m, n \in Places(p) : m = n
    BY <2>3, Zenon DEF PlaceOK
  <2>5. net' \subseteq Request /\ \A m \in net' : ord[m.o].st # "none"
    BY <2>1 DEF OrdersInv, NetOK, Typed
  <2>6. QED BY <2>2, <2>4, <2>5 DEF NetKept
<1>4. \A o \in Oids : ord'[o] = ord[o] \/ (IsOpen(o) /\ Kept(ord[o], ord'[o]))
  BY <1>1, <1>2
<1>5. QED BY <1>2, <1>3, <1>4, AllKeptStep, QueuesSame DEF sockets

\* The session is dropped: its requests may still arrive, as orphans.
LEMMA WsFailedStep ==
  ASSUME Counting, OrdersInv, WsFailed
  PROVE  OrdersInv'
<1>1. \A o \in Oids : ord'[o] = ord[o] \/ (IsOpen(o) /\ Kept(ord[o], ord'[o]))
  <2>1. SUFFICES ASSUME NEW o \in Oids, IsOpen(o), NEW verbs
                 PROVE  Kept(ord[o], RequestLost(ord[o], verbs))
    BY DEF WsFailed
  <2> DEFINE f == IF {"place", "modify"} \cap verbs # {} THEN Doubt(ord[o]) ELSE ord[o]
             g == [f EXCEPT !.cancelSent = FALSE]
  <2>2. ord[o] \in Entry /\ ord[o].st \in Open
    BY <2>1, OpenFits
  <2>3. Kept(ord[o], f) /\ f \in Entry /\ f.st \in Open
    BY <2>2, Touched, Zenon DEF Kept
  <2> HIDE DEF f
  <2>4. Kept(f, g) /\ g \in Entry /\ g.st \in Open
    BY <2>3, Touched, Zenon DEF Kept
  <2> HIDE DEF g
  <2>5. Kept(g, OweCancel(g))
    BY <2>4, Touched
  <2>6. RequestLost(ord[o], verbs) = IF "cancel" \in verbs THEN OweCancel(g) ELSE f
    BY DEF RequestLost, f, g
  <2>7. QED BY <2>3, <2>4, <2>5, <2>6, KeptTwice
<1>2. PICK left \in SUBSET {m \in net : m.live} :
         net' = {m \in net : ~m.live} \cup {Orphan(m) : m \in left}
  BY DEF WsFailed
<1>3. ASSUME NEW m \in net'
      PROVE  \E k \in net : /\ m \in Request /\ m.o = k.o /\ m.verb = k.verb /\ m.n = k.n
                            /\ ~m.live
  <2>1. net \subseteq Request
    BY DEF OrdersInv, Typed
  <2>2. CASE m \in net /\ ~m.live
    BY <2>1, <2>2
  <2>3. CASE \E k \in left : m = Orphan(k)
    <3>1. PICK k \in left : m = Orphan(k)
      BY <2>3
    <3>2. k \in net /\ k \in Request
      BY <2>1
    <3>3. m \in Request /\ m.o = k.o /\ m.verb = k.verb /\ m.n = k.n /\ ~m.live
      BY <3>1, <3>2, Zenon DEF Orphan, Request
    <3>4. QED BY <3>2, <3>3
  <2>4. QED BY <1>2, <2>2, <2>3
<1>4. NetKept
  <2>1. net' \subseteq Request
    BY <1>3
  <2>2. \A m \in net' : ord[m.o].st # "none"
    BY <1>3 DEF OrdersInv, NetOK
  <2>3. ASSUME NEW o \in Oids
        PROVE  (Places(o)' # {} => Places(o) # {}) /\ \A m, n \in Places(o)' : m = n
    <3>1. ASSUME NEW m \in Places(o)'
          PROVE  \E k \in Places(o) : m \in Request /\ m.o = k.o /\ m.verb = k.verb
                                      /\ m.n = k.n /\ ~m.live
      BY <1>3 DEF Places
    <3>2. PlaceOK(o)
      BY DEF OrdersInv
    <3>3. \A m, n \in Places(o) : m = n
      BY <3>2, Zenon DEF PlaceOK
    <3>4. ASSUME NEW m \in Places(o)', NEW n \in Places(o)' PROVE m = n
      <4>1. m.o = n.o /\ m.verb = n.verb /\ m.n = n.n /\ ~m.live /\ ~n.live
            /\ m \in Request /\ n \in Request
        BY <3>1, <3>3
      <4>2. m.live = n.live
        BY <4>1 DEF Request
      <4>3. QED BY <4>1, <4>2 DEF Request
    <3>5. QED BY <3>1, <3>4
  <2>4. QED BY <2>1, <2>2, <2>3 DEF NetKept
<1>5. QueuesKept
  BY QueuesSame DEF WsFailed
<1>6. /\ ans' \subseteq ans /\ UNCHANGED <<seen, venue, modifies>>
      /\ DOMAIN ord' = Oids /\ ord' = [o \in Oids |-> ord'[o]]
  BY DEF WsFailed
<1>7. QED BY <1>1, <1>4, <1>5, <1>6, AllKeptStep

-----------------------------------------------------------------------------
(* Reports of the user stream.                                             *)

\* A report names a trade of an order the gateway placed.
LEMMA Naming ==
  ASSUME Counting, OrdersInv, NEW o \in Oids, NEW z \in 1 .. venue[o].ex,
         seen' = seen \cup {<<o, z>>}
  PROVE  /\ SeenKept /\ ord[o].st # "none"
         /\ SeenOf(o)' = SeenOf(o) \cup {z}
         /\ Cardinality(SeenOf(o)) \in Nat /\ Cardinality(SeenOf(o)') \in Nat
         /\ Cardinality(SeenOf(o)') <= venue[o].ex
         /\ Cardinality(SeenOf(o)') >= Cardinality(SeenOf(o))
         /\ <<o, z>> \notin seen => Cardinality(SeenOf(o)') = Cardinality(SeenOf(o)) + 1
<1>1. venue[o].ex \in Nat /\ seen \subseteq Oids \X Nat /\ z \in Nat /\ z > 0 /\ z <= venue[o].ex
  BY DEF OrdersInv, Typed, VenueOrder
<1>2. \A p \in Oids : BookOK(p)
  BY DEF OrdersInv
<1>3. SeenOf(o)' = SeenOf(o) \cup {z} /\ \A p \in Oids : p # o => SeenOf(p)' = SeenOf(p)
  BY <1>1 DEF SeenOf
<1>4. \A p \in Oids : SeenOf(p) \subseteq 1 .. venue[p].ex
  BY <1>2 DEF BookOK
<1>5. SeenOf(o)' \subseteq 1 .. venue[o].ex
  BY <1>3, <1>4
<1>6. SeenKept
  BY <1>1, <1>3, <1>4, <1>5 DEF SeenKept
<1>7. ord[o].st # "none"
  BY <1>1, <1>2 DEF BookOK
<1>8. /\ Cardinality(SeenOf(o)) \in Nat /\ Cardinality(SeenOf(o)') \in Nat
      /\ Cardinality(SeenOf(o)') <= venue[o].ex
      /\ Cardinality(SeenOf(o)) <= Cardinality(SeenOf(o)')
  BY <1>1, <1>3, <1>4, <1>5, SeenFinite
<1>9. ASSUME <<o, z>> \notin seen PROVE Cardinality(SeenOf(o)') = Cardinality(SeenOf(o)) + 1
  <2>1. z \in (1 .. venue[o].ex) \ SeenOf(o)
    BY <1>9 DEF SeenOf
  <2>2. SeenOf(o) \in SUBSET (1 .. venue[o].ex)
    BY <1>4
  <2>3. QED BY <1>1, <1>3, <2>1, <2>2, Zenon DEF Counting
<1>10. QED BY <1>3, <1>6, <1>7, <1>8, <1>9

\* A quick report books its trade unless it was counted already.
LEMMA OnLiteStep ==
  ASSUME Counting, OrdersInv, OnLite
  PROVE  OrdersInv'
<1>1. PICK t \in Oids \X Nat : t = Head(lites) /\ LiteOK(t)
  <2>1. lites # <<>> /\ lites \in Seq(Oids \X Nat)
    BY DEF OnLite, OrdersInv, Typed
  <2>2. Head(lites) = lites[1] /\ 1 \in 1 .. Len(lites) /\ Head(lites) \in Oids \X Nat
    BY <2>1, Shorter
  <2>3. LiteOK(lites[1])
    BY <2>2, Zenon DEF OrdersInv, LitesOK
  <2>4. QED BY <2>2, <2>3, Zenon
<1>2. PICK o \in Oids : \E z \in 1 .. venue[o].ex : t = <<o, z>>
  <2>1. t = <<t[1], t[2]>> /\ t[1] \in Oids /\ t[2] \in Nat
    OBVIOUS
  <2>2. venue[t[1]].ex \in Nat /\ t[2] > 0 /\ t[2] <= venue[t[1]].ex
    BY <1>1, <2>1 DEF LiteOK, OrdersInv, Typed, VenueOrder
  <2>3. t[2] \in 1 .. venue[t[1]].ex
    BY <2>1, <2>2
  <2>4. QED BY <2>1, <2>3, Zenon
<1> PICK z \in 1 .. venue[o].ex : t = <<o, z>>
  BY <1>2
<1>3. /\ ord' = [ord EXCEPT ![o].filled =
                   IF ord[o].statusBooked \/ <<o, z>> \in seen THEN @ ELSE @ + 1]
      /\ seen' = IF ord[o].statusBooked THEN seen ELSE seen \cup {<<o, z>>}
      /\ lites' = Tail(lites) /\ UNCHANGED <<ans, updates, net, venue, modifies>>
  <2>1. Head(lites) = <<o, z>> /\ Head(lites)[1] = o
    BY <1>1
  <2>2. /\ ord' = [ord EXCEPT ![Head(lites)[1]].filled =
                     IF ord[Head(lites)[1]].statusBooked \/ Head(lites) \in seen THEN @ ELSE @ + 1]
        /\ seen' = IF ord[Head(lites)[1]].statusBooked THEN seen ELSE seen \cup {Head(lites)}
        /\ lites' = Tail(lites) /\ UNCHANGED <<ans, updates, net, venue, modifies>>
    BY Zenon DEF OnLite
  <2>3. QED BY <2>1, <2>2, Zenon
<1>4. QueuesKept /\ NetKept /\ ans' \subseteq ans /\ modifies' \in [Oids -> Nat]
      /\ ord \in [Oids -> Entry] /\ ord[o] \in Entry /\ BookOK(o) /\ venue[o].ex \in Nat
  <2>1. lites # <<>> /\ lites \in Seq(Oids \X Nat) /\ updates \in Seq(Update)
    BY DEF OnLite, OrdersInv, Typed
  <2>2. QueuesKept
    BY <1>3, <2>1, Shorter DEF QueuesKept
  <2>3. QED BY <1>3, <2>2, NetSame DEF OrdersInv, Typed, VenueOrder
<1>5. ord[o].filled \in Nat
  BY <1>4 DEF Entry
<1>6. CASE ord[o].statusBooked \/ <<o, z>> \in seen
  <2>1. ord' = ord
    BY <1>3, <1>4, <1>6 DEF Entry
  <2>2. seen' = seen
    BY <1>3, <1>6
  <2>3. QED BY <1>3, <1>4, <2>1, <2>2, SeenSame, GatewayStep
<1>7. CASE ~ (ord[o].statusBooked \/ <<o, z>> \in seen)
  <2> DEFINE f == [ord[o] EXCEPT !.filled = @ + 1]
  <2>1. seen' = seen \cup {<<o, z>>} /\ ord' = [ord EXCEPT ![o] = f]
    BY <1>3, <1>7
  <2>2. /\ SeenKept /\ ord[o].st # "none" /\ Cardinality(SeenOf(o)) \in Nat
        /\ Cardinality(SeenOf(o)') = Cardinality(SeenOf(o)) + 1
        /\ Cardinality(SeenOf(o)') <= venue[o].ex
    BY <1>7, <2>1, Naming
  <2>3. /\ f \in Entry /\ f.st = ord[o].st /\ f.filled = ord[o].filled + 1 /\ f.age = ord[o].age
        /\ f.statusBooked = ord[o].statusBooked
    BY <1>4 DEF Entry
  <2> HIDE DEF f
  <2>4. f.filled <= Cardinality(SeenOf(o)') /\ f.filled <= venue[o].ex /\ ord[o].filled # venue[o].ex
    BY <1>4, <1>5, <1>7, <2>2, <2>3 DEF BookOK
  <2>5. f.st # "ended" /\ f.st \in Open \cup {"ended"}
    BY <1>4, <2>2, <2>3, <2>4 DEF BookOK, Entry, Open
  <2>6. Fits(o, f, SeenOf(o)')
    BY <2>2, <2>3, <2>4, <2>5 DEF Fits
  <2>7. ord' \in [Oids -> Entry] /\ \A p \in Oids : ord'[p] = ord[p] \/ (p = o /\ ord'[p] = f)
    BY <1>4, <2>1, <2>3
  <2>8. \A p \in Oids : ord'[p] = ord[p] \/ Fits(p, ord'[p], SeenOf(p)')
    BY <2>6, <2>7, Zenon
  <2>9. QED BY <1>3, <1>4, <2>2, <2>7, <2>8, GatewayStep, Zenon
<1>8. QED BY <1>6, <1>7

\* What an update books of an open order.
LEMMA BookUpdateFits ==
  ASSUME Counting, OrdersInv, NEW o \in Oids, IsOpen(o), NEW u \in Update, u.o = o, UpdateOK(u),
         seen' = IF u.kind = "trade" THEN seen \cup {<<o, u.z>>} ELSE seen
  PROVE  LET e == BookUpdate(ord[o], u)
         IN  e \in Entry /\ e.st \in Open /\ Fits(o, e, SeenOf(o)') /\ e.filled >= u.z
<1> DEFINE x == ord[o]
           new == u.kind = "trade" /\ <<o, u.z>> \notin seen /\ u.z > x.filled
           f == IF new THEN [x EXCEPT !.filled = @ + 1] ELSE x
<1>1. /\ x \in Entry /\ x.st \in Open /\ Fits(o, x, SeenOf(o)) /\ x.filled \in Nat
      /\ u.z \in Nat /\ u.z <= venue[o].ex /\ venue[o].ex \in Nat
  BY OpenFits, Zenon DEF Entry, Update, UpdateOK, OrdersInv, Typed, VenueOrder
<1>2. CASE new
  <2>1. /\ Cardinality(SeenOf(o)) \in Nat /\ Cardinality(SeenOf(o)') = Cardinality(SeenOf(o)) + 1
    <3>1. u.z \in 1 .. venue[o].ex
      BY <1>1, <1>2 DEF UpdateOK
    <3>2. QED BY <1>2, <3>1, Naming
  <2>2. /\ f \in Entry /\ f.st = x.st /\ f.filled = x.filled + 1 /\ f.age = x.age
        /\ f.statusBooked = x.statusBooked
    BY <1>1, <1>2 DEF Entry
  <2> HIDE DEF f
  <2>3. f.st \in Open /\ f.st # "ended"
    BY <1>1, <2>2 DEF Open
  <2>4. Fits(o, f, SeenOf(o)')
    BY <1>1, <1>2, <2>1, <2>2, <2>3 DEF Fits
  <2>5. BookUpdate(x, u) = StatusBook(f, u.z)
    BY <1>2 DEF BookUpdate, StatusBook, f
  <2>6. QED BY <1>1, <2>2, <2>3, <2>4, <2>5, StatusBookFits
<1>3. CASE ~ new
  <2>1. Cardinality(SeenOf(o)) \in Nat /\ Cardinality(SeenOf(o)') \in Nat
        /\ Cardinality(SeenOf(o)') >= Cardinality(SeenOf(o))
    <3>1. CASE u.kind = "trade"
      <4>1. u.z \in 1 .. venue[o].ex
        BY <1>1, <3>1 DEF UpdateOK
      <4>2. QED BY <3>1, <4>1, Naming, Zenon
    <3>2. CASE u.kind # "trade"
      <4>1. SeenOf(o)' = SeenOf(o) /\ SeenOf(o) \subseteq 1 .. venue[o].ex
        BY <3>2, SeenSame DEF SeenKept
      <4>2. QED BY <1>1, <4>1, SeenFinite
    <3>3. QED BY <3>1, <3>2
  <2>2. Fits(o, x, SeenOf(o)')
    BY <1>1, <2>1 DEF Fits
  <2>3. BookUpdate(x, u) = StatusBook(x, u.z)
    BY <1>3, Zenon DEF BookUpdate, StatusBook
  <2>4. QED BY <1>1, <2>2, <2>3, StatusBookFits
<1>4. QED BY <1>2, <1>3

\* An update books its trade and what its cumulative quantity says is missing,
\* and ends the order if it is over.
LEMMA OnUpdateStep ==
  ASSUME Counting, OrdersInv, OnUpdate
  PROVE  OrdersInv'
<1>1. PICK u \in Update : u = Head(updates) /\ UpdateOK(u)
  <2>1. updates # <<>> /\ updates \in Seq(Update)
    BY Zenon DEF OnUpdate, OrdersInv, Typed
  <2>2. Head(updates) = updates[1] /\ 1 \in 1 .. Len(updates) /\ Head(updates) \in Update
    BY <2>1, Shorter
  <2>3. UpdateOK(updates[1])
    BY <2>2, Zenon DEF OrdersInv, UpdatesOK
  <2>4. QED BY <2>2, <2>3
<1>2. PICK o \in Oids : u.o = o
  BY DEF Update
<1> DEFINE e == BookUpdate(ord[o], u)
           f == IF u.kind = "amend" /\ u.n = e.pending THEN ModifyConfirmed(e) ELSE e
           r == IF u.st \in Terminal THEN Result(EndOrder(f), {})
                ELSE IF f.st = "sent" THEN LiveAgain(o, SetLive(f)) ELSE Working(o, f)
<1>3. /\ seen' = IF u.kind = "trade" THEN seen \cup {<<o, u.z>>} ELSE seen
      /\ IF ~IsOpen(o) THEN ord' = [ord EXCEPT ![o] = e] /\ UNCHANGED net ELSE Leaves(o, r)
      /\ updates' = Tail(updates) /\ UNCHANGED <<ans, lites, venue, modifies>>
  BY <1>1, <1>2, Zenon DEF OnUpdate
<1> HIDE DEF e, f, r
<1>4. /\ QueuesKept /\ ans' \subseteq ans /\ modifies' \in [Oids -> Nat]
      /\ ord \in [Oids -> Entry] /\ ord[o] \in Entry /\ BookOK(o)
      /\ venue[o].ex \in Nat /\ u.z \in Nat /\ u.z <= venue[o].ex
  <2>1. updates # <<>> /\ lites \in Seq(Oids \X Nat) /\ updates \in Seq(Update)
    BY Zenon DEF OnUpdate, OrdersInv, Typed
  <2>2. QueuesKept
    BY <1>3, <2>1, Shorter DEF QueuesKept
  <2>3. ans' \subseteq ans /\ modifies' = modifies
    BY <1>3
  <2>4. modifies \in [Oids -> Nat] /\ ord \in [Oids -> Entry] /\ BookOK(o) /\ venue[o].ex \in Nat
    BY DEF OrdersInv, Typed, VenueOrder
  <2>5. u.z \in Nat /\ u.z <= venue[o].ex
    BY <1>1, <1>2 DEF Update, UpdateOK
  <2>6. QED BY <2>2, <2>3, <2>4, <2>5
<1>5. SeenKept
  <2>1. CASE u.kind = "trade"
    <3>1. u.z \in 1 .. venue[o].ex
      BY <1>1, <1>4, <2>1 DEF UpdateOK
    <3>2. QED BY <1>3, <2>1, <3>1, Naming, Zenon
  <2>2. CASE u.kind # "trade"
    BY <1>3, <2>2, SeenSame
  <2>3. QED BY <2>1, <2>2
<1>6. CASE IsOpen(o)
  <2>1. e \in Entry /\ e.st \in Open /\ Fits(o, e, SeenOf(o)') /\ e.filled >= u.z
    BY <1>1, <1>2, <1>3, <1>6, BookUpdateFits, Zenon DEF e
  <2>2. Kept(e, f)
    BY <2>1, Touched, ModifyHandled DEF f
  <2>3. f \in Entry /\ f.st \in Open /\ Fits(o, f, SeenOf(o)') /\ f.filled >= u.z
    BY <2>1, <2>2, KeptFits DEF Kept
  <2>4. Fits(o, r.e, SeenOf(o)') /\ Asks(o, r.out)
    <3>1. CASE u.st \in Terminal
      <4>1. venue[o].st \in Terminal /\ venue[o].ex = u.z
        BY <1>1, <1>2, <3>1, Zenon DEF UpdateOK
      <4>2. Fits(o, EndOrder(f), SeenOf(o)')
        BY <1>4, <2>3, <4>1, OverEnds
      <4>3. QED BY <3>1, <4>2 DEF Result, Asks, r
    <3>2. CASE u.st \notin Terminal /\ f.st = "sent"
      <4>1. Kept(f, SetLive(f)) /\ Handled(o, SetLive(f), LiveAgain(o, SetLive(f)))
        BY <2>3, Touched, LiveAgainHandled DEF Kept
      <4>2. QED BY <2>3, <3>2, <4>1, KeptFits DEF Handled, r
    <3>3. CASE u.st \notin Terminal /\ f.st # "sent"
      BY <2>3, <3>3, WorkingHandled, KeptFits DEF Handled, r
    <3>4. QED BY <3>1, <3>2, <3>3
  <2>5. Leaves(o, r)
    BY <1>3, <1>6
  <2>6. NetKept
    BY <2>4, <2>5, NetGrows DEF Leaves, Fits
  <2>7. ord' \in [Oids -> Entry] /\ \A p \in Oids : ord'[p] = ord[p] \/ (p = o /\ ord'[p] = r.e)
    BY <1>4, <2>4, <2>5 DEF Leaves, Fits
  <2>8. \A p \in Oids : ord'[p] = ord[p] \/ Fits(p, ord'[p], SeenOf(p)')
    BY <2>4, <2>7, Zenon
  <2>9. QED BY <1>3, <1>4, <1>5, <2>6, <2>7, <2>8, GatewayStep
<1>7. CASE ~ IsOpen(o)
  <2>1. u.z <= ord[o].filled /\ ord[o].filled \in Nat
    BY <1>4, <1>7 DEF BookOK, IsOpen, Open, Entry
  <2>2. e = ord[o]
    <3>1. ~ (u.z > ord[o].filled)
      BY <1>4, <2>1
    <3>2. QED BY <3>1, Zenon DEF BookUpdate, e
  <2>3. ord' = ord /\ net' = net
    BY <1>3, <1>4, <1>7, <2>2, Zenon
  <2>4. NetKept
    BY <2>3, NetSame
  <2>5. QED BY <1>3, <1>4, <1>5, <2>3, <2>4, GatewayStep
<1>8. QED BY <1>6, <1>7

-----------------------------------------------------------------------------
(* The rest of the gateway's steps.                                        *)

\* The order's placement leaves: nothing of it was on its way before.
LEMMA PlaceStep ==
  ASSUME Counting, OrdersInv, NEW o \in Oids, Place(o)
  PROVE  OrdersInv'
<1>1. PICK ttl \in BOOLEAN, q \in 1 .. Qty :
         Leaves(o, Result([EmptyEntry EXCEPT !.st = "sent", !.timed = ttl], {Req("place", o, q)}))
  BY Zenon DEF Place
<1> DEFINE e == [EmptyEntry EXCEPT !.st = "sent", !.timed = ttl]
           m == Req("place", o, q)
<1>2. /\ ord' = [ord EXCEPT ![o] = e] /\ net' = net \cup {m} /\ ord[o].st = "none"
      /\ UNCHANGED <<seen, ans, lites, updates, venue, modifies>>
  BY <1>1, Zenon DEF Leaves, Result, Place, sockets
<1>3. /\ e \in Entry /\ e.st = "sent" /\ e.filled = 0 /\ e.age.place = Young
      /\ ~e.statusBooked
  BY Zenon DEF EmptyEntry, Entry, Ages
<1>4. m \in Request /\ m.o = o /\ m.verb = "place"
  BY OpenOrdersAssumption DEF Req, Request
<1> HIDE DEF e, m
<1>5. /\ Typed /\ PlaceOK(o) /\ BookOK(o) /\ ord \in [Oids -> Entry]
      /\ venue[o].st = "none" /\ venue[o].ex = 0
  BY <1>2 DEF OrdersInv, Typed, BookOK
<1>6. ord'[o] = e /\ (\A p \in Oids : p # o => ord'[p] = ord[p]) /\ ord' \in [Oids -> Entry]
  BY <1>2, <1>3, <1>5
<1>7. Typed'
  BY <1>2, <1>4, <1>5, <1>6 DEF Typed
<1>8. (\A x \in net : x.o # o) /\ (\A a \in ans : a.o # o)
  BY <1>2 DEF OrdersInv, NetOK, AnswersOK, AnswerOK
<1>9. Places(o)' = {m} /\ \A p \in Oids : p # o => Places(p)' = Places(p)
  BY <1>2, <1>4, <1>8 DEF Places
<1>10. ASSUME NEW p \in Oids PROVE PlaceOK(p)' /\ BookOK(p)'
  <2>1. PlaceOK(p) /\ BookOK(p) /\ SeenOf(p)' = SeenOf(p)
    BY <1>2 DEF OrdersInv, SeenOf
  <2>2. CASE p = o
    <3>1. PlaceOK(o)'
      BY <1>2, <1>3, <1>5, <1>6, <1>9 DEF PlaceOK, IsOpen, Open
    <3>2. SeenOf(o) \subseteq 1 .. 0
      BY <1>5 DEF BookOK
    <3>3. Cardinality(SeenOf(o)) \in Nat
      BY <3>2, SeenFinite
    <3>4. /\ ord'[o].st = "sent" /\ ord'[o].filled = 0 /\ SeenOf(o)' = SeenOf(o)
          /\ venue'[o].st = "none" /\ venue'[o].ex = 0 /\ 0 <= Cardinality(SeenOf(o))
      BY <1>2, <1>3, <1>5, <1>6, <2>1, <2>2, <3>3
    <3>5. "sent" # "none" /\ "sent" # "ended" /\ 0 <= 0
      OBVIOUS
    <3>6. BookOK(o)'
      BY <3>2, <3>4, <3>5, Zenon DEF BookOK
    <3>7. QED BY <2>2, <3>1, <3>6
  <2>3. CASE p # o
    <3>1. ord'[p] = ord[p] /\ venue'[p] = venue[p] /\ Places(p)' = Places(p)
      BY <1>2, <1>6, <1>9, <2>3
    <3>2. QED BY <2>1, <3>1, Zenon DEF PlaceOK, BookOK, IsOpen
  <2>4. QED BY <2>2, <2>3
<1>11. NetOK'
  <2>1. \A p \in Oids : ord[p].st # "none" => ord'[p].st # "none"
    BY <1>3, <1>6
  <2>2. net \subseteq Request /\ ord'[o].st # "none"
    BY <1>3, <1>5, <1>6 DEF Typed
  <2>3. QED BY <1>2, <1>4, <2>1, <2>2 DEF OrdersInv, NetOK, Request
<1>12. AnswersOK'
  <2>1. SUFFICES ASSUME NEW a \in ans' PROVE AnswerOK(a)'
    BY Zenon DEF AnswersOK
  <2>2. a.o \in Oids /\ a.o # o /\ AnswerOK(a)
    BY <1>2, <1>5, <1>8 DEF Typed, Reply, Status, OrdersInv, AnswersOK
  <2>3. ord'[a.o] = ord[a.o] /\ venue' = venue /\ Places(a.o)' = Places(a.o)
    BY <1>2, <1>6, <1>9, <2>2
  <2>4. QED BY <2>2, <2>3, Zenon DEF AnswerOK, NeverPlaced
<1>13. UpdatesOK' /\ LitesOK'
  BY <1>2, Zenon DEF OrdersInv, UpdatesOK, LitesOK, UpdateOK, LiteOK
<1>14. QED BY <1>7, <1>10, <1>11, <1>12, <1>13, Zenon DEF OrdersInv


-----------------------------------------------------------------------------
(* Every step, and the theorems.                                           *)

\* Init establishes the invariant: nothing is placed, sent or booked.
LEMMA OrdersInvInit == ASSUME Counting, Init PROVE OrdersInv
<1>1. EmptyEntry \in Entry /\ EmptyEntry.st = "none" /\ EmptyEntry.filled = 0
      /\ EmptyEntry.statusBooked = FALSE
  BY DEF EmptyEntry, Entry, Ages
<1>2. [st |-> "none", qty |-> 0, ex |-> 0, terms |-> 0] \in VenueOrder
  BY DEF VenueOrder
<1>3. /\ ord \in [Oids -> Entry] /\ venue \in [Oids -> VenueOrder]
      /\ \A o \in Oids : /\ ord[o].st = "none" /\ ord[o].filled = 0
                         /\ venue[o].st = "none" /\ venue[o].ex = 0
  BY <1>1, <1>2 DEF Init
<1>4. /\ seen = {} /\ ans = {} /\ net = {} /\ lites = <<>> /\ updates = <<>>
      /\ modifies \in [Oids -> Nat]
  BY DEF Init
<1>5. Typed
  BY <1>3, <1>4 DEF Typed
<1>6. ASSUME NEW o \in Oids PROVE PlaceOK(o) /\ BookOK(o)
  <2>1. Places(o) = {} /\ SeenOf(o) = {} /\ {} \subseteq 1 .. 0
    BY <1>4 DEF Places, SeenOf
  <2>2. Cardinality({}) \in Nat
    BY <2>1, SeenFinite
  <2>3. QED BY <1>3, <2>1, <2>2 DEF PlaceOK, BookOK
<1>7. NetOK /\ AnswersOK
  BY <1>4 DEF NetOK, AnswersOK
<1>8. UpdatesOK /\ LitesOK
  BY <1>4 DEF UpdatesOK, LitesOK
<1>9. QED BY <1>5, <1>6, <1>7, <1>8 DEF OrdersInv

\* Every action preserves it.
LEMMA OrdersInvInductive ==
  ASSUME Counting, OrdersInv, [Next]_vars
  PROVE  OrdersInv'
<1>1. ASSUME NEW o \in Oids, Place(o) \/ Cancel(o) \/ OrderDue(o) \/ Modify(o) PROVE OrdersInv'
  BY <1>1, PlaceStep, CancelStep, OrderDueStep, ModifyStep, Zenon
<1>2. ASSUME NEW o \in Oids,
             VenueTakesPlace(o) \/ VenueTakesCancel(o) \/ VenueTakesModify(o)
               \/ VenueTrades(o) \/ VenueEnds(o)
      PROVE  OrdersInv'
  BY <1>2, TakesPlaceStep, TakesCancelStep, TakesModifyStep, TradesStep, EndsStep, Zenon
<1>3. ASSUME NEW o \in Oids, NEW verb \in Verbs, OnAnswer(o, verb) PROVE OrdersInv'
  BY <1>3, OnAnswerStep, Zenon
<1>4. ASSUME NEW o \in Oids, AskStatus(o) PROVE OrdersInv'
  BY <1>4, AskStatusStep, Zenon
<1>5. ASSUME NEW o \in Oids, NEW what \in {"place", "modify"}, Passes(o, what) PROVE OrdersInv'
  BY <1>5, PassesStep, Zenon
<1>6. ASSUME OnLite \/ OnUpdate \/ Listed PROVE OrdersInv'
  BY <1>6, OnLiteStep, OnUpdateStep, ListedStep, Zenon
<1>7. ASSUME WsFailed \/ WentLive \/ UsFailed \/ UsOpened PROVE OrdersInv'
  BY <1>7, WsFailedStep, WentLiveStep, UsFailedStep, UsOpenedStep, Zenon
<1>8. ASSUME UNCHANGED vars PROVE OrdersInv'
  <2>1. /\ ord' = ord /\ seen' = seen /\ ans' = ans /\ lites' = lites /\ updates' = updates
        /\ net' = net /\ venue' = venue /\ modifies' = modifies
    BY <1>8 DEF vars
  <2>2. Typed' /\ NetOK' /\ UpdatesOK' /\ LitesOK'
    BY <2>1, Zenon DEF OrdersInv, Typed, NetOK, UpdatesOK, LitesOK, UpdateOK, LiteOK
  <2>3. AnswersOK'
    BY <2>1, Zenon DEF OrdersInv, AnswersOK, AnswerOK, NeverPlaced, Places
  <2>4. ASSUME NEW o \in Oids PROVE PlaceOK(o)' /\ BookOK(o)'
    <3>1. PlaceOK(o) /\ BookOK(o)
      BY DEF OrdersInv
    <3>2. Places(o)' = Places(o) /\ SeenOf(o)' = SeenOf(o)
      BY <2>1 DEF Places, SeenOf
    <3>3. QED BY <2>1, <3>1, <3>2, Zenon DEF PlaceOK, BookOK, IsOpen
  <2>5. QED BY <2>2, <2>3, <2>4, Zenon DEF OrdersInv
<1>9. QED BY <1>1, <1>2, <1>3, <1>4, <1>5, <1>6, <1>7, <1>8, Zenon DEF Next, Handles

INSTANCE FiniteSetTheorems

\* What the steps use of finite sets.
LEMMA CountingHolds == Counting
<1>1. SUFFICES ASSUME NEW n \in Nat, NEW S \in SUBSET (1 .. n)
               PROVE  /\ Cardinality(S) \in Nat /\ Cardinality(S) <= n
                      /\ \A T \in SUBSET S : Cardinality(T) <= Cardinality(S)
                      /\ \A z \in (1 .. n) \ S : Cardinality(S \cup {z}) = Cardinality(S) + 1
  BY DEF Counting
<1>2. IsFiniteSet(1 .. n) /\ Cardinality(1 .. n) = n
  BY FS_Interval
<1>3. IsFiniteSet(S) /\ Cardinality(S) <= n
  BY <1>2, FS_Subset, Zenon
<1>4. Cardinality(S) \in Nat
  BY <1>3, FS_CardinalityType
<1>5. \A T \in SUBSET S : Cardinality(T) <= Cardinality(S)
  BY <1>3, FS_Subset, Zenon
<1>6. \A z \in (1 .. n) \ S : Cardinality(S \cup {z}) = Cardinality(S) + 1
  BY <1>3, FS_AddElement
<1>7. QED BY <1>3, <1>4, <1>5, <1>6

\* The invariant holds throughout, whatever is lost, late or out of order.
THEOREM OrdersInvAlways == Spec => []OrdersInv
<1>1. Init => OrdersInv
  BY OrdersInvInit, CountingHolds
<1>2. OrdersInv /\ [Next]_vars => OrdersInv'
  BY OrdersInvInductive, CountingHolds
<1>3. QED BY <1>1, <1>2, PTL DEF Spec

\* oot.rs / gateway.rs: no trade is booked twice, by its quick report, its
\* update, a later cumulative quantity or a status, for every number of orders,
\* trades and faults.
THEOREM TradesAreBookedOnce == Spec => []NeverOverBooked
<1>1. OrdersInv => NeverOverBooked
  BY DEF OrdersInv, BookOK, NeverOverBooked
<1>2. QED BY <1>1, OrdersInvAlways, PTL

\* gateway.rs: an order the gateway has ended is not working at the venue and
\* never will be - no answer that ends it is out of date when it is judged.
THEOREM EndsAreFinal == Spec => []EndedIsFinal
<1>1. OrdersInv => EndedIsFinal
  BY DEF OrdersInv, BookOK, EndedIsFinal
<1>2. QED BY <1>1, OrdersInvAlways, PTL

\* gateway.rs: the event that retires an order follows its last fill.
THEOREM EndsAreWhole == Spec => []EndedIsWhole
<1>1. OrdersInv => EndedIsWhole
  BY DEF OrdersInv, BookOK, EndedIsWhole
<1>2. QED BY <1>1, OrdersInvAlways, PTL
=============================================================================
