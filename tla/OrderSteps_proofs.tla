-------------------------- MODULE OrderSteps_proofs --------------------------
(***************************************************************************)
(* Proofs about OpenOrders, for every set of orders, quantity and number   *)
(* of faults: the inductive invariant, how a step of the gateway or of the *)
(* venue preserves it, and that the venue's steps, and the time that       *)
(* passes, do (OpenOrders_proofs has the gateway's and the theorems).      *)
(*                                                                         *)
(* OrdersInv says of each order where its placement is, of each answer and *)
(* report on its way what it may still claim about the venue, and of each  *)
(* booked quantity which trades it counts.                                 *)
(***************************************************************************)
EXTENDS OpenOrders, TLAPS

Ages == {Young, Closed, Final}
Entry == [st : {"none", "sent", "live", "doubt", "ended"}, cancelSent : BOOLEAN,
          owe : SUBSET {"cancel", "unknown"}, timed : BOOLEAN, pending : Nat, terms : Nat,
          filled : Nat, statusBooked : BOOLEAN, age : [place : Ages, modify : Ages]]
Request == [verb : {"place", "cancel", "modify"}, o : Oids, n : Nat, live : BOOLEAN]
Reply == [verb : {"place", "modify"}, o : Oids, code : {"ok", "unknown", "refused"}]
         \cup [verb : {"cancel"}, o : Oids, code : {"ok", "nosuch", "refused"}]
Status == [verb : {"status"}, o : Oids, code : {"ok", "nosuch"},
           st : {"none", "working", "filled", "canceled"}, ex : Nat, terms : Nat,
           early : SUBSET {"place", "modify"}]
Update == [o : Oids, kind : {"new", "end", "amend", "trade"},
           st : {"working", "filled", "canceled"}, z : Nat, n : Nat]
VenueOrder == [st : {"none", "working", "filled", "canceled"}, qty : Nat, ex : Nat, terms : Nat]

Typed ==
  /\ ord \in [Oids -> Entry]
  /\ seen \subseteq Oids \X Nat
  /\ ans \subseteq Reply \cup Status
  /\ lites \in Seq(Oids \X Nat) /\ updates \in Seq(Update)
  /\ net \subseteq Request
  /\ venue \in [Oids -> VenueOrder]
  /\ modifies \in [Oids -> Nat]

(* The placement of o on its way, and the trades of o a report named.      *)
Places(o) == {m \in net : m.verb = "place" /\ m.o = o}
SeenOf(o) == {z \in Nat : <<o, z>> \in seen}

(* An order's place is on its way once, before the venue knows the order   *)
(* and while the gateway knows it may be.                                  *)
PlaceOK(o) ==
  Places(o) # {} =>
    /\ IsOpen(o) /\ ord[o].age.place = Young
    /\ venue[o].st = "none"
    /\ \A m, n \in Places(o) : m = n

(* What the gateway booked of o: nothing of an order it did not place; all *)
(* of one that is over; else the trades named, unless a cumulative quantity*)
(* was booked.                                                             *)
BookOK(o) ==
  /\ venue[o].st = "none" => venue[o].ex = 0
  /\ ord[o].st = "none" => venue[o].st = "none"
  /\ SeenOf(o) \subseteq 1 .. venue[o].ex
  /\ ord[o].filled <= venue[o].ex
  /\ ord[o].statusBooked \/ ord[o].filled <= Cardinality(SeenOf(o))
  /\ ord[o].st = "ended" => venue[o].st # "working" /\ ord[o].filled = venue[o].ex

NeverPlaced(o) == venue[o].st = "none" /\ Places(o) = {}

(* What an answer says of its order still holds when it comes.             *)
AnswerOK(a) ==
  /\ ord[a.o].st # "none"
  /\ a.verb = "place" /\ a.code = "refused" => NeverPlaced(a.o)
  /\ a.verb = "status" =>
       /\ a.code = "nosuch" /\ "place" \notin a.early => NeverPlaced(a.o)
       /\ "place" \in a.early => ord[a.o].age.place # Final
       /\ a.ex <= venue[a.o].ex
       /\ a.st \in Terminal => venue[a.o].st = a.st /\ venue[a.o].ex = a.ex

UpdateOK(u) ==
  /\ u.z <= venue[u.o].ex
  /\ u.kind = "trade" => u.z > 0
  /\ u.st \in Terminal => venue[u.o].st = u.st /\ venue[u.o].ex = u.z

LiteOK(t) == t[2] > 0 /\ t[2] <= venue[t[1]].ex

NetOK == \A m \in net : ord[m.o].st # "none"
AnswersOK == \A a \in ans : AnswerOK(a)
UpdatesOK == \A i \in 1 .. Len(updates) : UpdateOK(updates[i])
LitesOK == \A i \in 1 .. Len(lites) : LiteOK(lites[i])

OrdersInv ==
  /\ Typed
  /\ \A o \in Oids : PlaceOK(o) /\ BookOK(o)
  /\ NetOK /\ AnswersOK /\ UpdatesOK /\ LitesOK

-----------------------------------------------------------------------------
(* The queues.                                                             *)

(* Every item of the sequence t is one of s.                               *)
From(t, s) == \A i \in 1 .. Len(t) : \E j \in 1 .. Len(s) : t[i] = s[j]

\* A queue read from the front, or lost, holds only what it held.
LEMMA Shorter ==
  ASSUME NEW S, NEW s \in Seq(S)
  PROVE  /\ From(s, s) /\ From(<<>>, s) /\ <<>> \in Seq(S)
         /\ s # <<>> => /\ Tail(s) \in Seq(S) /\ From(Tail(s), s)
                        /\ Head(s) = s[1] /\ 1 \in 1 .. Len(s) /\ Head(s) \in S
<1>1. From(s, s) /\ From(<<>>, s) /\ <<>> \in Seq(S)
  BY DEF From
<1>2. ASSUME s # <<>>
      PROVE  /\ Tail(s) \in Seq(S) /\ From(Tail(s), s)
             /\ Head(s) = s[1] /\ 1 \in 1 .. Len(s) /\ Head(s) \in S
  <2>1. Len(s) \in Nat /\ Len(s) > 0 /\ Tail(s) \in Seq(S) /\ Len(Tail(s)) = Len(s) - 1
        /\ Head(s) = s[1] /\ s[1] \in S
    BY <1>2
  <2>2. \A i \in 1 .. Len(Tail(s)) : i + 1 \in 1 .. Len(s) /\ Tail(s)[i] = s[i + 1]
    BY <1>2, <2>1
  <2>3. QED BY <2>1, <2>2 DEF From
<1>3. QED BY <1>1, <1>2

-----------------------------------------------------------------------------
(* The handlers.                                                           *)

(* A handler that neither books nor ends the order, and sends no place.    *)
Kept(e, f) ==
  /\ f \in Entry /\ f.st \in Open
  /\ f.filled = e.filled /\ f.statusBooked = e.statusBooked
  /\ f.age.place = e.age.place

Asks(o, out) == out \subseteq Request /\ \A m \in out : m.verb # "place" /\ m.o = o

Handled(o, e, r) == Kept(e, r.e) /\ Asks(o, r.out)

\* A cancel asks for the order and for nothing else.
LEMMA CancelAsks == ASSUME NEW o \in Oids PROVE Asks(o, {Req("cancel", o, 0)})
BY DEF Asks, Req, Request

\* An entry with another state, flag or owed cancel is still an entry, and keeps
\* what is booked.
LEMMA Touched ==
  ASSUME NEW e \in Entry, e.st \in Open
  PROVE  /\ Kept(e, e) /\ Kept(e, SetLive(e)) /\ Kept(e, Doubt(e)) /\ Kept(e, OweCancel(e))
         /\ \A b \in BOOLEAN : Kept(e, [e EXCEPT !.cancelSent = b])
         /\ \A b \in BOOLEAN : Kept(e, [e EXCEPT !.timed = b])
         /\ \A w \in SUBSET {"cancel", "unknown"} : Kept(e, [e EXCEPT !.owe = w])
<1>1. Kept(e, e) /\ Kept(e, SetLive(e)) /\ Kept(e, Doubt(e))
  BY DEF Kept, Entry, SetLive, Doubt, Open
<1>2. Kept(e, OweCancel(e))
  BY Zenon DEF Kept, Entry, OweCancel, Open
<1>3. \A b \in BOOLEAN : Kept(e, [e EXCEPT !.cancelSent = b])
  BY DEF Kept, Entry, Open
<1>4. \A b \in BOOLEAN : Kept(e, [e EXCEPT !.timed = b])
  BY DEF Kept, Entry, Open
<1>5. \A w \in SUBSET {"cancel", "unknown"} : Kept(e, [e EXCEPT !.owe = w])
  BY DEF Kept, Entry, Open
<1>6. QED BY <1>1, <1>2, <1>3, <1>4, <1>5

\* What one handler keeps and the next keeps is kept.
LEMMA KeptTwice ==
  ASSUME NEW e, NEW f, NEW g, Kept(e, f), Kept(f, g)
  PROVE  Kept(e, g)
BY DEF Kept

\* A cancel that is sent, or owed, keeps what is booked and places nothing.
LEMMA CancelHandled ==
  ASSUME NEW o \in Oids, NEW e \in Entry, e.st \in Open
  PROVE  Handled(o, e, CancelOrOwe(o, e))
<1>1. Asks(o, {})
  BY DEF Asks
<1>2. Kept(e, [e EXCEPT !.cancelSent = TRUE])
  BY Touched, Zenon
<1>3. QED BY <1>1, <1>2, Touched, CancelAsks DEF Handled, CancelOrOwe, SendCancel, Result

\* So does sending a parked cancel again,
LEMMA LiveAgainHandled ==
  ASSUME NEW o \in Oids, NEW e \in Entry, e.st \in Open
  PROVE  Handled(o, e, LiveAgain(o, e))
<1> DEFINE f == [e EXCEPT !.timed = FALSE, !.owe = {}]
<1>1. Kept(e, f)
  BY Zenon DEF Kept, Entry, Open
<1>2. f \in Entry /\ f.st \in Open
  BY <1>1 DEF Kept
<1> HIDE DEF f
<1>3. Handled(o, e, CancelOrOwe(o, f))
  BY <1>1, <1>2, CancelHandled, KeptTwice DEF Handled
<1>4. Asks(o, {}) /\ Kept(e, e)
  BY Touched DEF Asks
<1>5. QED BY <1>3, <1>4 DEF LiveAgain, Handled, Result, f

\* and what the gateway does when the venue shows the order working.
LEMMA WorkingHandled ==
  ASSUME NEW o \in Oids, NEW e \in Entry, e.st \in Open
  PROVE  Handled(o, e, Working(o, e))
<1> DEFINE f == IF e.pending = 0 THEN SetLive(e) ELSE e
<1>1. Kept(e, f)
  BY Touched
<1> HIDE DEF f
<1>2. Handled(o, f, LiveAgain(o, f))
  BY <1>1, LiveAgainHandled DEF Kept
<1>3. QED BY <1>1, <1>2, KeptTwice DEF Working, Handled, f

\* A modify confirmed or given up.
LEMMA ModifyHandled ==
  ASSUME NEW e \in Entry, e.st \in Open
  PROVE  Kept(e, ModifyConfirmed(e)) /\ Kept(e, ModifyAborted(e))
<1>1. Kept(e, ModifyAborted(e))
  BY Zenon DEF Kept, Entry, Open, ModifyAborted, Ages
<1>2. Kept(e, ModifyConfirmed(e))
  BY Zenon DEF Kept, Entry, Open, ModifyAborted, ModifyConfirmed, Ages
<1>3. QED BY <1>1, <1>2

-----------------------------------------------------------------------------
(* A step of the gateway.                                                  *)

(* What an order's entry may become, with S the trades of it then named.   *)
Fits(o, f, S) ==
  /\ f \in Entry /\ f.st \in Open \cup {"ended"} /\ ord[o].st # "none"
  /\ f.age.place \in {Young, ord[o].age.place}
  /\ f.filled <= venue[o].ex
  /\ f.statusBooked \/ f.filled <= Cardinality(S)
  /\ f.st = "ended" => Places(o) = {} /\ venue[o].st # "working" /\ f.filled = venue[o].ex

\* A handler that keeps what is booked leaves an entry that fits.
LEMMA KeptFits ==
  ASSUME NEW o \in Oids, NEW f, NEW g, NEW S, Fits(o, f, S), Kept(f, g)
  PROVE  Fits(o, g, S)
<1>1. g.st # "ended" /\ g.st \in Open
  BY DEF Kept, Open
<1>2. QED BY <1>1, Zenon DEF Fits, Kept

\* An open order fits as it is.
LEMMA OpenFits ==
  ASSUME OrdersInv, NEW o \in Oids, IsOpen(o)
  PROVE  ord[o] \in Entry /\ ord[o].st \in Open /\ Fits(o, ord[o], SeenOf(o))
<1>1. ord[o] \in Entry /\ BookOK(o)
  BY DEF OrdersInv, Typed
<1>2. ord[o].st # "none" /\ ord[o].st # "ended"
  BY DEF IsOpen, Open
<1>3. QED BY <1>1, <1>2 DEF IsOpen, Fits, BookOK

(* What is sent is sent for a known order, and no place is sent again.     *)
NetKept ==
  /\ net' \subseteq Request
  /\ \A m \in net' : ord[m.o].st # "none"
  /\ \A o \in Oids : /\ Places(o)' # {} => Places(o) # {}
                     /\ \A m, n \in Places(o)' : m = n

\* Nothing is sent.
LEMMA NetSame ==
  ASSUME OrdersInv, net' \subseteq net
  PROVE  NetKept
<1>1. \A p \in Oids : Places(p)' \subseteq Places(p)
  BY DEF Places
<1>2. \A p \in Oids : PlaceOK(p)
  BY DEF OrdersInv
<1>3. \A p \in Oids : \A m, n \in Places(p) : m = n
  BY <1>2, Zenon DEF PlaceOK
<1>4. net' \subseteq Request /\ \A m \in net' : ord[m.o].st # "none"
  BY DEF OrdersInv, NetOK, Typed
<1>5. QED BY <1>1, <1>3, <1>4 DEF NetKept

QueuesKept ==
  /\ updates' \in Seq(Update) /\ From(updates', updates)
  /\ lites' \in Seq(Oids \X Nat) /\ From(lites', lites)

SeenKept ==
  /\ seen' \subseteq Oids \X Nat
  /\ \A o \in Oids : SeenOf(o) \subseteq SeenOf(o)' /\ SeenOf(o)' \subseteq 1 .. venue[o].ex

(* How many trades are named: what the steps use of finite sets (it holds, *)
(* see CountingHolds at the end).                                          *)
Counting ==
  \A n \in Nat : \A S \in SUBSET (1 .. n) :
    /\ Cardinality(S) \in Nat /\ Cardinality(S) <= n
    /\ \A T \in SUBSET S : Cardinality(T) <= Cardinality(S)
    /\ \A z \in (1 .. n) \ S : Cardinality(S \cup {z}) = Cardinality(S) + 1

\* The trades named are at most as many as there are.
LEMMA SeenFinite ==
  ASSUME Counting, NEW n \in Nat, NEW S, S \subseteq 1 .. n
  PROVE  /\ Cardinality(S) \in Nat /\ Cardinality(S) <= n
         /\ \A T \in SUBSET S : Cardinality(T) \in Nat /\ Cardinality(T) <= Cardinality(S)
<1>1. S \in SUBSET (1 .. n) /\ \A T \in SUBSET S : T \in SUBSET (1 .. n)
  OBVIOUS
<1>2. QED BY <1>1, Zenon DEF Counting

\* A step of the gateway keeps the invariant if every entry it changes fits.
LEMMA GatewayStep ==
  ASSUME Counting, OrdersInv, ord' \in [Oids -> Entry],
         \A o \in Oids : ord'[o] = ord[o] \/ Fits(o, ord'[o], SeenOf(o)'),
         NetKept, QueuesKept, SeenKept, ans' \subseteq ans,
         venue' = venue, modifies' \in [Oids -> Nat]
  PROVE  OrdersInv'
<1>1. Typed'
  BY DEF OrdersInv, Typed, NetKept, QueuesKept, SeenKept
<1>2. ASSUME NEW o \in Oids
      PROVE  /\ ord[o].st # "none" => ord'[o].st # "none"
             /\ ord'[o].age.place \in {Young, ord[o].age.place}
  BY DEF Fits, Open
<1>3. ASSUME NEW o \in Oids PROVE PlaceOK(o)'
  <2>1. SUFFICES ASSUME Places(o)' # {}
                 PROVE  IsOpen(o)' /\ ord'[o].age.place = Young /\ venue[o].st = "none"
    BY DEF PlaceOK, NetKept
  <2>2. Places(o) # {} /\ PlaceOK(o)
    BY <2>1 DEF NetKept, OrdersInv
  <2>3. IsOpen(o) /\ ord[o].age.place = Young /\ venue[o].st = "none"
    BY <2>2 DEF PlaceOK
  <2>4. IsOpen(o)'
    BY <2>2, <2>3 DEF IsOpen, Fits
  <2>5. QED BY <2>3, <2>4, <1>2
<1>4. ASSUME NEW o \in Oids PROVE BookOK(o)'
  <2>1. BookOK(o) /\ venue[o].ex \in Nat /\ ord[o] \in Entry
    BY DEF OrdersInv, Typed, VenueOrder
  <2>2. SeenOf(o) \subseteq SeenOf(o)' /\ SeenOf(o)' \subseteq 1 .. venue[o].ex
    BY DEF SeenKept
  <2>3. Cardinality(SeenOf(o)') \in Nat /\ Cardinality(SeenOf(o)) \in Nat
        /\ Cardinality(SeenOf(o)) <= Cardinality(SeenOf(o)')
    BY <2>1, <2>2, SeenFinite
  <2>4. CASE ord'[o] = ord[o]
    <3>1. ord[o].filled \in Nat
      BY <2>1 DEF Entry
    <3>2. ord[o].statusBooked \/ ord[o].filled <= Cardinality(SeenOf(o)')
      BY <2>1, <2>3, <3>1 DEF BookOK
    <3>3. QED BY <2>1, <2>2, <2>4, <3>2 DEF BookOK
  <2>5. CASE Fits(o, ord'[o], SeenOf(o)')
    BY <2>1, <2>2, <2>5 DEF BookOK, Fits, Open
  <2>6. QED BY <2>4, <2>5
<1>5. NetOK'
  BY <1>2 DEF NetKept, NetOK, Request
<1>6. ASSUME NEW a \in ans' PROVE AnswerOK(a)'
  <2>1. AnswerOK(a) /\ a.o \in Oids
    BY DEF OrdersInv, AnswersOK, Typed, Reply, Status
  <2>2. NeverPlaced(a.o) => NeverPlaced(a.o)'
    BY <2>1, Zenon DEF NeverPlaced, NetKept
  <2>3. ord'[a.o].st # "none" /\ ord'[a.o].age.place \in {Young, ord[a.o].age.place}
    BY <2>1, <1>2 DEF AnswerOK
  <2>4. Young # Final
    BY DEF Young, Final
  <2>5. QED BY <2>1, <2>2, <2>3, <2>4, Zenon DEF AnswerOK
<1>7. UpdatesOK'
  <2>1. SUFFICES ASSUME NEW i \in 1 .. Len(updates') PROVE UpdateOK(updates[i])'
    BY Zenon DEF UpdatesOK
  <2>2. PICK j \in 1 .. Len(updates) : updates'[i] = updates[j]
    BY Zenon DEF QueuesKept, From
  <2>3. UpdateOK(updates[j])
    BY Zenon DEF OrdersInv, UpdatesOK
  <2>4. QED BY <2>2, <2>3, Zenon DEF UpdateOK
<1>8. LitesOK'
  <2>1. SUFFICES ASSUME NEW i \in 1 .. Len(lites') PROVE LiteOK(lites[i])'
    BY Zenon DEF LitesOK
  <2>2. PICK j \in 1 .. Len(lites) : lites'[i] = lites[j]
    BY Zenon DEF QueuesKept, From
  <2>3. LiteOK(lites[j])
    BY Zenon DEF OrdersInv, LitesOK
  <2>4. QED BY <2>2, <2>3, Zenon DEF LiteOK
<1>9. QED BY <1>1, <1>3, <1>4, <1>5, <1>6, <1>7, <1>8, Zenon DEF OrdersInv, AnswersOK

\* Requests that are not places leave the places as they are.
LEMMA NetGrows ==
  ASSUME OrdersInv, NEW o \in Oids, ord[o].st # "none", NEW out, Asks(o, out), net' = net \cup out
  PROVE  NetKept
<1>1. \A p \in Oids : Places(p)' = Places(p)
  BY DEF Places, Asks
<1>2. \A p \in Oids : PlaceOK(p)
  BY DEF OrdersInv
<1>3. \A p \in Oids : \A m, n \in Places(p) : m = n
  BY <1>2, Zenon DEF PlaceOK
<1>4. net' \subseteq Request /\ \A m \in net' : ord[m.o].st # "none"
  BY DEF OrdersInv, NetOK, Typed, Asks
<1>5. QED BY <1>1, <1>3, <1>4 DEF NetKept

\* The stream's reports are left alone.
LEMMA QueuesSame ==
  ASSUME OrdersInv, updates' = updates, lites' = lites
  PROVE  QueuesKept
BY Shorter DEF OrdersInv, Typed, QueuesKept

\* No trade is named.
LEMMA SeenSame ==
  ASSUME OrdersInv, seen' = seen
  PROVE  SeenKept /\ \A o \in Oids : SeenOf(o)' = SeenOf(o)
<1>1. \A o \in Oids : SeenOf(o)' = SeenOf(o) /\ BookOK(o)
  BY DEF SeenOf, OrdersInv
<1>2. seen' \subseteq Oids \X Nat
  BY DEF OrdersInv, Typed
<1>3. QED BY <1>1, <1>2 DEF SeenKept, BookOK

\* A handler of one order that books no trade of the stream.
LEMMA OneOrderStep ==
  ASSUME Counting, OrdersInv, NEW o \in Oids, NEW r, Fits(o, r.e, SeenOf(o)), Asks(o, r.out),
         Leaves(o, r), ans' \subseteq ans,
         UNCHANGED <<seen, lites, updates, venue>>, modifies' \in [Oids -> Nat]
  PROVE  OrdersInv'
<1>1. NetKept
  BY NetGrows DEF Leaves, Fits
<1>2. QueuesKept /\ SeenKept /\ \A p \in Oids : SeenOf(p)' = SeenOf(p)
  BY QueuesSame, SeenSame
<1>3. ord' \in [Oids -> Entry] /\ \A p \in Oids : ord'[p] = ord[p] \/ (p = o /\ ord'[p] = r.e)
  BY DEF Leaves, OrdersInv, Typed, Fits
<1>4. \A p \in Oids : ord'[p] = ord[p] \/ Fits(p, ord'[p], SeenOf(p)')
  BY <1>2, <1>3, Zenon
<1>5. QED BY <1>1, <1>2, <1>3, <1>4, GatewayStep

\* ... and neither books nor ends it.
LEMMA HandledStep ==
  ASSUME Counting, OrdersInv, NEW o \in Oids, IsOpen(o), NEW r, Handled(o, ord[o], r),
         Leaves(o, r), ans' \subseteq ans,
         UNCHANGED <<seen, lites, updates, venue>>, modifies' \in [Oids -> Nat]
  PROVE  OrdersInv'
BY OpenFits, KeptFits, OneOrderStep DEF Handled

-----------------------------------------------------------------------------
(* A step of the venue.                                                    *)

(* The venue's order p may change: it was on its way or working, and its   *)
(* placement has arrived.                                                  *)
Moves(p) ==
  /\ Places(p)' = {} /\ ~NeverPlaced(p)
  /\ ord[p].st \notin {"none", "ended"}
  /\ venue[p].st \notin Terminal /\ venue'[p].st # "none" /\ venue'[p].ex >= venue[p].ex

(* Every item of t is one of s, or x.                                      *)
FromOr(t, s, x) == \A i \in 1 .. Len(t) : t[i] = x \/ \E j \in 1 .. Len(s) : t[i] = s[j]

\* What is appended is the only new item.
LEMMA Longer ==
  ASSUME NEW S, NEW s \in Seq(S), NEW x \in S
  PROVE  Append(s, x) \in Seq(S) /\ FromOr(Append(s, x), s, x) /\ FromOr(s, s, x)
<1>1. Append(s, x) \in Seq(S) /\ Len(Append(s, x)) = Len(s) + 1 /\ Len(s) \in Nat
  OBVIOUS
<1>2. \A i \in 1 .. Len(Append(s, x)) : IF i = Len(s) + 1 THEN Append(s, x)[i] = x
                                        ELSE i \in 1 .. Len(s) /\ Append(s, x)[i] = s[i]
  BY <1>1
<1>3. FromOr(s, s, x)
  BY DEF FromOr
<1>4. QED BY <1>1, <1>2, <1>3 DEF FromOr

\* A step of the venue keeps the invariant if the orders it changes may change
\* and what it says is so.
LEMMA VenueStep ==
  ASSUME OrdersInv, UNCHANGED <<ord, seen, modifies>>, net' \subseteq net,
         venue' \in [Oids -> VenueOrder], \A p \in Oids : venue'[p] = venue[p] \/ Moves(p),
         ans' \subseteq Reply \cup Status, \A a \in ans' : a \in ans \/ AnswerOK(a)',
         updates' \in Seq(Update), lites' \in Seq(Oids \X Nat),
         NEW u, From(updates', updates) \/ (FromOr(updates', updates, u) /\ UpdateOK(u)'),
         NEW t, From(lites', lites) \/ (FromOr(lites', lites, t) /\ LiteOK(t)')
  PROVE  OrdersInv'
<1>1. Typed'
  BY DEF OrdersInv, Typed
<1>2. ASSUME NEW p \in Oids
      PROVE  /\ Places(p)' \subseteq Places(p) /\ venue[p].ex \in Nat /\ venue'[p].ex \in Nat
             /\ venue'[p].ex >= venue[p].ex
             /\ venue[p].st \in Terminal => venue'[p] = venue[p]
             /\ NeverPlaced(p) => NeverPlaced(p)'
  <2>1. Places(p)' \subseteq Places(p)
    BY DEF Places
  <2>2. venue[p].ex \in Nat /\ venue'[p].ex \in Nat
    BY DEF OrdersInv, Typed, VenueOrder
  <2>3. venue'[p].ex >= venue[p].ex /\ (venue[p].st \in Terminal => venue'[p] = venue[p])
    BY <2>2 DEF Moves
  <2>4. NeverPlaced(p) => NeverPlaced(p)'
    BY <2>1, Zenon DEF NeverPlaced, Moves
  <2>5. QED BY <2>1, <2>2, <2>3, <2>4
<1>3. ASSUME NEW p \in Oids PROVE PlaceOK(p)'
  <2>1. PlaceOK(p) /\ (IsOpen(p)' <=> IsOpen(p)) /\ Places(p)' \subseteq Places(p)
    BY <1>2 DEF OrdersInv, IsOpen
  <2>2. CASE venue'[p] = venue[p]
    BY <2>1, <2>2, Zenon DEF PlaceOK
  <2>3. CASE Places(p)' = {}
    BY <2>3, Zenon DEF PlaceOK
  <2>4. QED BY <2>2, <2>3 DEF Moves
<1>4. ASSUME NEW p \in Oids PROVE BookOK(p)'
  <2>1. BookOK(p) /\ SeenOf(p)' = SeenOf(p) /\ ord[p] \in Entry
    BY DEF OrdersInv, SeenOf, Typed
  <2>2. CASE venue'[p] = venue[p]
    BY <2>1, <2>2, Zenon DEF BookOK
  <2>3. CASE Moves(p)
    <3>1. SeenOf(p) \subseteq 1 .. venue'[p].ex /\ ord[p].filled <= venue'[p].ex
      BY <1>2, <2>1 DEF BookOK, Entry
    <3>2. QED BY <2>1, <2>3, <3>1, Zenon DEF BookOK, Moves
  <2>4. QED BY <2>2, <2>3
<1>5. NetOK'
  BY Zenon DEF OrdersInv, NetOK
<1>6. ASSUME NEW a \in ans' PROVE AnswerOK(a)'
  <2>1. SUFFICES ASSUME a \in ans PROVE AnswerOK(a)'
    OBVIOUS
  <2>2. AnswerOK(a) /\ a.o \in Oids /\ (a.verb = "status" => a.ex \in Nat)
    <3>1. AnswerOK(a) /\ a \in Reply \cup Status
      BY <2>1, Zenon DEF OrdersInv, AnswersOK, Typed
    <3>2. QED BY <3>1 DEF Reply, Status
  <2>3. a.verb = "status" => a.ex <= venue'[a.o].ex
    BY <1>2, <2>2 DEF AnswerOK
  <2>4. a.verb = "status" /\ a.st \in Terminal => venue'[a.o].st = a.st /\ venue'[a.o].ex = a.ex
    BY <1>2, <2>2, Zenon DEF AnswerOK
  <2>5. QED BY <1>2, <2>2, <2>3, <2>4, Zenon DEF AnswerOK
<1>7. UpdatesOK'
  <2>1. SUFFICES ASSUME NEW i \in 1 .. Len(updates') PROVE UpdateOK(updates[i])'
    BY Zenon DEF UpdatesOK
  <2>2. updates'[i] \in Update
    OBVIOUS
  <2>3. CASE updates'[i] = u /\ UpdateOK(u)'
    BY <2>3, Zenon DEF UpdateOK
  <2>4. CASE \E j \in 1 .. Len(updates) : updates'[i] = updates[j]
    <3>1. PICK j \in 1 .. Len(updates) : updates'[i] = updates[j]
      BY <2>4
    <3>2. UpdateOK(updates[j])
      BY Zenon DEF OrdersInv, UpdatesOK
    <3> DEFINE x == updates'[i]
    <3>3. /\ x.z <= venue[x.o].ex /\ (x.kind = "trade" => x.z > 0)
          /\ (x.st \in Terminal => venue[x.o].st = x.st /\ venue[x.o].ex = x.z)
          /\ x.o \in Oids /\ x.z \in Nat
      BY <2>2, <3>1, <3>2 DEF UpdateOK, Update
    <3> HIDE DEF x
    <3>4. /\ x.z <= venue'[x.o].ex
          /\ (x.st \in Terminal => venue'[x.o].st = x.st /\ venue'[x.o].ex = x.z)
      <4>1. PICK p \in Oids : p = x.o
        BY <3>3
      <4>2. /\ venue[p].ex \in Nat /\ venue'[p].ex \in Nat /\ venue'[p].ex >= venue[p].ex
            /\ venue[p].st \in Terminal => venue'[p] = venue[p]
        BY <1>2, Zenon
      <4>3. x.z <= venue'[p].ex
        BY <3>3, <4>1, <4>2
      <4>4. QED BY <3>3, <4>1, <4>2, <4>3, Zenon
    <3>5. QED BY <3>3, <3>4, Zenon DEF UpdateOK, x
  <2>5. QED BY <2>3, <2>4, Zenon DEF FromOr, From
<1>8. LitesOK'
  <2>1. SUFFICES ASSUME NEW i \in 1 .. Len(lites') PROVE LiteOK(lites[i])'
    BY Zenon DEF LitesOK
  <2>2. lites'[i] \in Oids \X Nat
    OBVIOUS
  <2>3. CASE lites'[i] = t /\ LiteOK(t)'
    BY <2>3, Zenon DEF LiteOK
  <2>4. CASE \E j \in 1 .. Len(lites) : lites'[i] = lites[j]
    <3>1. PICK j \in 1 .. Len(lites) : lites'[i] = lites[j]
      BY <2>4
    <3>2. LiteOK(lites[j])
      BY Zenon DEF OrdersInv, LitesOK
    <3> DEFINE x == lites'[i]
    <3>3. x[2] > 0 /\ x[2] <= venue[x[1]].ex
      BY <3>1, <3>2, Zenon DEF LiteOK
    <3>4. x[1] \in Oids /\ x[2] \in Nat
      BY <2>2
    <3> HIDE DEF x
    <3>5. x[2] <= venue'[x[1]].ex
      <4>1. PICK p \in Oids : p = x[1]
        BY <3>4
      <4>2. venue[p].ex \in Nat /\ venue'[p].ex \in Nat /\ venue'[p].ex >= venue[p].ex
        BY <1>2, Zenon
      <4>3. x[2] <= venue[p].ex
        BY <3>3, <4>1, Zenon
      <4>4. x[2] <= venue'[p].ex
        BY <3>4, <4>2, <4>3
      <4>5. QED BY <4>1, <4>4, Zenon
    <3>6. QED BY <3>3, <3>5, Zenon DEF LiteOK, x
  <2>5. QED BY <2>3, <2>4, Zenon DEF FromOr, From
<1>9. QED BY <1>1, <1>3, <1>4, <1>5, <1>6, <1>7, <1>8, Zenon DEF OrdersInv, AnswersOK

\* An order that works, or whose place has just arrived, may change.
LEMMA WorkingMoves ==
  ASSUME OrdersInv, NEW o \in Oids, venue[o].st = "working", net' \subseteq net,
         venue'[o].st # "none", venue'[o].ex >= venue[o].ex
  PROVE  Moves(o)
<1>1. PlaceOK(o) /\ BookOK(o)
  BY DEF OrdersInv
<1>2. Places(o) = {}
  BY <1>1, Zenon DEF PlaceOK
<1>3. Places(o)' = {}
  BY <1>2 DEF Places
<1>4. QED BY <1>1, <1>3 DEF Moves, BookOK, NeverPlaced, Terminal

\* A request is taken and answered.
LEMMA AnsweredKept ==
  ASSUME OrdersInv, NEW m, NEW code, Answered(m, Answer(m, code)),
         m.verb \in {"place", "modify"} => code \in {"ok", "unknown", "refused"},
         m.verb = "cancel" => code \in {"ok", "nosuch", "refused"}
  PROVE  /\ net' \subseteq net /\ m \in Request /\ ord[m.o].st # "none"
         /\ ans' \subseteq Reply \cup Status
         /\ \A a \in ans' : a \in ans \/ a = Answer(m, code)
<1>1. m \in net /\ m \in Request /\ ord[m.o].st # "none" /\ ans \subseteq Reply \cup Status
  BY DEF Answered, OrdersInv, Typed, NetOK
<1>2. Answer(m, code) \in Reply
  BY <1>1 DEF Answer, Reply, Request
<1>3. net' \subseteq net /\ \A a \in ans' : a \in ans \/ a = Answer(m, code)
  BY DEF Answered
<1>4. QED BY <1>1, <1>2, <1>3

\* What an answer that refuses no place says is no more than that the order is known.
LEMMA PlainAnswer ==
  ASSUME NEW m \in Request, NEW code, m.verb # "place" \/ code # "refused",
         ord[m.o].st # "none", ord' = ord
  PROVE  AnswerOK(Answer(m, code))'
<1>1. Answer(m, code).verb = m.verb /\ Answer(m, code).o = m.o /\ Answer(m, code).code = code
      /\ m.verb # "status"
  BY DEF Answer, Request
<1>2. QED BY <1>1, Zenon DEF AnswerOK

\* The reports of a step: at most one is added.
LEMMA ReportKept ==
  ASSUME OrdersInv, NEW o \in Oids, NEW kind \in {"new", "end", "amend", "trade"},
         NEW st \in {"working", "filled", "canceled"}, NEW z \in Nat, NEW n \in Nat,
         Report(o, kind, st, z, n), z <= venue'[o].ex, kind = "trade" => z > 0,
         st \in Terminal => venue'[o].st = st /\ venue'[o].ex = z
  PROVE  \E u : updates' \in Seq(Update) /\ FromOr(updates', updates, u) /\ UpdateOK(u)'
<1> DEFINE u == [o |-> o, kind |-> kind, st |-> st, z |-> z, n |-> n]
<1>1. u \in Update /\ u.o = o /\ u.kind = kind /\ u.st = st /\ u.z = z
  BY DEF Update
<1>2. updates' = Append(updates, u) \/ updates' = updates
  BY Zenon DEF Report
<1> HIDE DEF u
<1>3. UpdateOK(u)'
  BY <1>1, Zenon DEF UpdateOK
<1>4. updates \in Seq(Update)
  BY DEF OrdersInv, Typed
<1>5. updates' \in Seq(Update) /\ FromOr(updates', updates, u)
  BY <1>1, <1>2, <1>4, Longer, Zenon
<1>6. QED BY <1>3, <1>5, Zenon

\* A place reaches the venue: it is the only copy.
LEMMA TakesPlaceStep ==
  ASSUME OrdersInv, NEW o \in Oids, VenueTakesPlace(o)
  PROVE  OrdersInv'
<1>1. PICK m \in Places(o) :
         \/ VenueAccepts(o, m)
         \/ VenueRefuses(o, m) /\ UNCHANGED faults
  BY Zenon DEF VenueTakesPlace, Places
<1>2. /\ UNCHANGED <<ord, seen, modifies, lites>> /\ m.verb = "place" /\ m.o = o /\ m \in net
      /\ m \in Request /\ PlaceOK(o) /\ lites \in Seq(Oids \X Nat) /\ updates \in Seq(Update)
      /\ venue \in [Oids -> VenueOrder]
  BY DEF VenueTakesPlace, TakesRest, Places, OrdersInv, Typed
<1>3. IsOpen(o) /\ venue[o].st = "none" /\ \A n \in Places(o) : n = m
  BY <1>1, <1>2, Zenon DEF PlaceOK
<1>4. ASSUME NEW code, Answered(m, Answer(m, code))
      PROVE  Places(o)' = {} /\ net' \subseteq net
  BY <1>2, <1>3, <1>4 DEF Answered, Places
<1>5. From(lites', lites) /\ lites' \in Seq(Oids \X Nat)
  BY <1>2, Shorter
<1>6. CASE VenueAccepts(o, m)
  <2>1. PICK code \in {"ok", "unknown"} : Answered(m, Answer(m, code))
    BY <1>6 DEF VenueAccepts
  <2>2. /\ net' \subseteq net /\ ord[m.o].st # "none" /\ ans' \subseteq Reply \cup Status
        /\ \A a \in ans' : a \in ans \/ a = Answer(m, code)
    BY <1>2, <2>1, AnsweredKept
  <2>3. AnswerOK(Answer(m, code))'
    BY <1>2, <2>2, PlainAnswer
  <2>4. /\ venue' \in [Oids -> VenueOrder] /\ \A p \in Oids : p # o => venue'[p] = venue[p]
        /\ venue'[o].st = "working" /\ venue'[o].ex = venue[o].ex /\ venue[o].ex \in Nat
    <3>1. venue' = [venue EXCEPT ![o].st = "working", ![o].qty = m.n] /\ m.n \in Nat
      BY <1>2, <1>6 DEF VenueAccepts, Request
    <3> DEFINE v == [venue[o] EXCEPT !.st = "working", !.qty = m.n]
    <3>2. venue[o] \in VenueOrder
      BY <1>2
    <3>3. v \in VenueOrder /\ v.st = "working" /\ v.ex = venue[o].ex /\ venue[o].ex \in Nat
      BY <3>1, <3>2, Zenon DEF VenueOrder
    <3>4. venue' = [p \in Oids |-> IF p = o THEN v ELSE venue[p]]
      BY <1>2, <3>1, Zenon
    <3> HIDE DEF v
    <3>5. QED BY <1>2, <3>3, <3>4
  <2>5. Moves(o)
    BY <1>1, <1>3, <1>4, <2>1, <2>4 DEF Moves, NeverPlaced, IsOpen, Open, Terminal
  <2>6. Report(o, "new", "working", 0, 0) /\ "working" \notin Terminal /\ 0 <= venue'[o].ex
    BY <1>6, <2>4 DEF VenueAccepts, Terminal
  <2>7. PICK u : updates' \in Seq(Update) /\ FromOr(updates', updates, u) /\ UpdateOK(u)'
    BY <2>6, ReportKept
  <2>8. \A a \in ans' : a \in ans \/ AnswerOK(a)'
    BY <2>2, <2>3, Zenon
  <2>9. QED BY <1>2, <1>5, <2>2, <2>4, <2>5, <2>7, <2>8, VenueStep
<1>7. CASE VenueRefuses(o, m)
  <2>1. Answered(m, Answer(m, "refused")) /\ venue' = venue /\ updates' = updates
    BY <1>7 DEF VenueRefuses
  <2>2. /\ net' \subseteq net /\ ord[m.o].st # "none" /\ ans' \subseteq Reply \cup Status
        /\ \A a \in ans' : a \in ans \/ a = Answer(m, "refused")
    BY <1>2, <2>1, AnsweredKept
  <2>3. AnswerOK(Answer(m, "refused"))'
    <3>1. NeverPlaced(o)'
      BY <1>3, <1>4, <2>1 DEF NeverPlaced
    <3>2. Answer(m, "refused").verb = "place" /\ Answer(m, "refused").o = o
      BY <1>2 DEF Answer
    <3>3. ord'[o].st # "none"
      BY <1>2, <2>2
    <3>4. "place" # "status"
      OBVIOUS
    <3>5. QED BY <3>1, <3>2, <3>3, <3>4, Zenon DEF AnswerOK
  <2>4. From(updates', updates) /\ updates' \in Seq(Update)
    BY <1>2, <2>1, Shorter
  <2>5. \A a \in ans' : a \in ans \/ AnswerOK(a)'
    BY <2>2, <2>3, Zenon
  <2>6. QED BY <1>2, <1>5, <2>1, <2>2, <2>4, <2>5, VenueStep
<1>8. QED BY <1>1, <1>6, <1>7

\* A working order is cancelled.
LEMMA CancelsStep ==
  ASSUME OrdersInv, NEW o \in Oids, NEW m \in net, m.verb \in {"cancel", "modify"}, m.o = o,
         VenueCancels(o, m), TakesRest(o)
  PROVE  OrdersInv'
<1>1. PICK code \in {"ok", "refused"} : Answered(m, Answer(m, code))
  BY DEF VenueCancels
<1>2. /\ net' \subseteq net /\ m \in Request /\ ord[m.o].st # "none"
      /\ ans' \subseteq Reply \cup Status
      /\ \A a \in ans' : a \in ans \/ a = Answer(m, code)
  BY <1>1, AnsweredKept
<1>3. AnswerOK(Answer(m, code))'
  BY <1>2, PlainAnswer DEF TakesRest
<1>4. /\ venue \in [Oids -> VenueOrder] /\ lites \in Seq(Oids \X Nat) /\ lites' = lites
      /\ venue[o].st = "working" /\ UNCHANGED <<ord, seen, modifies>>
  BY DEF VenueCancels, TakesRest, OrdersInv, Typed
<1>5. /\ venue' \in [Oids -> VenueOrder] /\ \A p \in Oids : p # o => venue'[p] = venue[p]
      /\ venue'[o].st = "canceled" /\ venue'[o].ex = venue[o].ex /\ venue[o].ex \in Nat
  <2> DEFINE v == [venue[o] EXCEPT !.st = "canceled"]
  <2>1. venue' = [venue EXCEPT ![o] = v] /\ venue[o] \in VenueOrder
    BY <1>4 DEF VenueCancels
  <2>2. v \in VenueOrder /\ v.st = "canceled" /\ v.ex = venue[o].ex /\ venue[o].ex \in Nat
    BY <2>1 DEF VenueOrder
  <2> HIDE DEF v
  <2>3. QED BY <1>4, <2>1, <2>2
<1>6. Moves(o)
  BY <1>2, <1>4, <1>5, WorkingMoves
<1>7. PICK u : updates' \in Seq(Update) /\ FromOr(updates', updates, u) /\ UpdateOK(u)'
  <2>1. Report(o, "end", "canceled", venue[o].ex, 0) /\ venue[o].ex <= venue'[o].ex
    BY <1>5 DEF VenueCancels
  <2>2. QED BY <1>5, <2>1, ReportKept
<1>8. From(lites', lites)
  BY <1>4, Shorter
<1>9. \A a \in ans' : a \in ans \/ AnswerOK(a)'
  BY <1>2, <1>3, Zenon
<1>10. QED BY <1>2, <1>4, <1>5, <1>6, <1>7, <1>8, <1>9, VenueStep

\* A request that leaves the venue's orders as they are.
LEMMA RefusesStep ==
  ASSUME OrdersInv, NEW o \in Oids, NEW m \in net, m.verb # "place", NEW code,
         Answered(m, Answer(m, code)), UNCHANGED <<venue, updates>>, TakesRest(o),
         m.verb = "modify" => code \in {"ok", "unknown", "refused"},
         m.verb = "cancel" => code \in {"ok", "nosuch", "refused"}
  PROVE  OrdersInv'
<1>1. /\ net' \subseteq net /\ m \in Request /\ ord[m.o].st # "none"
      /\ ans' \subseteq Reply \cup Status
      /\ \A a \in ans' : a \in ans \/ a = Answer(m, code)
  BY AnsweredKept
<1>2. AnswerOK(Answer(m, code))'
  BY <1>1, PlainAnswer DEF TakesRest
<1>3. /\ venue' \in [Oids -> VenueOrder] /\ \A p \in Oids : venue'[p] = venue[p]
      /\ UNCHANGED <<ord, seen, modifies>>
      /\ updates' \in Seq(Update) /\ lites' \in Seq(Oids \X Nat)
      /\ updates' = updates /\ lites' = lites
  BY DEF TakesRest, OrdersInv, Typed
<1>4. From(updates', updates) /\ From(lites', lites)
  BY <1>3, Shorter
<1>5. \A a \in ans' : a \in ans \/ AnswerOK(a)'
  BY <1>1, <1>2, Zenon
<1>6. QED BY <1>1, <1>3, <1>4, <1>5, VenueStep

\* A working order's terms change.
LEMMA AmendsStep ==
  ASSUME OrdersInv, NEW o \in Oids, NEW m \in net, m.verb = "modify", m.o = o,
         VenueAmends(o, m), TakesRest(o)
  PROVE  OrdersInv'
<1>1. PICK code \in {"ok", "unknown"} : Answered(m, Answer(m, code))
  BY DEF VenueAmends
<1>2. /\ net' \subseteq net /\ m \in Request /\ ord[m.o].st # "none"
      /\ ans' \subseteq Reply \cup Status
      /\ \A a \in ans' : a \in ans \/ a = Answer(m, code)
  BY <1>1, AnsweredKept
<1>3. AnswerOK(Answer(m, code))'
  BY <1>2, PlainAnswer DEF TakesRest
<1>4. /\ venue \in [Oids -> VenueOrder] /\ lites \in Seq(Oids \X Nat) /\ lites' = lites
      /\ venue[o].st = "working" /\ UNCHANGED <<ord, seen, modifies>> /\ m.n \in Nat
  BY <1>2 DEF VenueAmends, TakesRest, OrdersInv, Typed, Request
<1>5. /\ venue' \in [Oids -> VenueOrder] /\ \A p \in Oids : p # o => venue'[p] = venue[p]
      /\ venue'[o].st = "working" /\ venue'[o].ex = venue[o].ex /\ venue[o].ex \in Nat
  <2> DEFINE v == [venue[o] EXCEPT !.terms = m.n]
  <2>1. venue' = [venue EXCEPT ![o] = v] /\ venue[o] \in VenueOrder
    BY <1>4 DEF VenueAmends
  <2>2. v \in VenueOrder /\ v.st = "working" /\ v.ex = venue[o].ex /\ venue[o].ex \in Nat
    BY <1>4, <2>1, Zenon DEF VenueOrder
  <2> HIDE DEF v
  <2>3. QED BY <1>4, <2>1, <2>2
<1>6. Moves(o)
  BY <1>2, <1>4, <1>5, WorkingMoves
<1>7. PICK u : updates' \in Seq(Update) /\ FromOr(updates', updates, u) /\ UpdateOK(u)'
  <2>1. /\ Report(o, "amend", "working", venue[o].ex, m.n) /\ venue[o].ex <= venue'[o].ex
        /\ "working" \notin Terminal
    BY <1>5 DEF VenueAmends, Terminal
  <2>2. QED BY <1>4, <1>5, <2>1, ReportKept
<1>8. From(lites', lites)
  BY <1>4, Shorter
<1>9. \A a \in ans' : a \in ans \/ AnswerOK(a)'
  BY <1>2, <1>3, Zenon
<1>10. QED BY <1>2, <1>4, <1>5, <1>6, <1>7, <1>8, <1>9, VenueStep, Zenon

\* A cancel reaches the venue.
LEMMA TakesCancelStep ==
  ASSUME OrdersInv, NEW o \in Oids, VenueTakesCancel(o)
  PROVE  OrdersInv'
<1>1. PICK m \in net : /\ m.verb = "cancel" /\ m.o = o
                       /\ \/ VenueCancels(o, m)
                          \/ VenueFindsNone(o, m)
                          \/ VenueRefuses(o, m) /\ Fault
  BY Zenon DEF VenueTakesCancel
<1>2. TakesRest(o) /\ m.verb # "place" /\ m.verb # "modify"
  BY <1>1 DEF VenueTakesCancel
<1>3. CASE VenueCancels(o, m)
  BY <1>1, <1>2, <1>3, CancelsStep
<1>4. CASE VenueFindsNone(o, m)
  BY <1>2, <1>4, RefusesStep DEF VenueFindsNone
<1>5. CASE VenueRefuses(o, m)
  BY <1>2, <1>5, RefusesStep DEF VenueRefuses
<1>6. QED BY <1>1, <1>3, <1>4, <1>5

\* A modify reaches the venue.
LEMMA TakesModifyStep ==
  ASSUME OrdersInv, NEW o \in Oids, VenueTakesModify(o)
  PROVE  OrdersInv'
<1>1. PICK m \in net : /\ m.verb = "modify" /\ m.o = o
                       /\ \/ VenueAmends(o, m)
                          \/ VenueCancels(o, m)
                          \/ VenueRefuses(o, m) /\ UNCHANGED faults
  BY Zenon DEF VenueTakesModify
<1>2. TakesRest(o) /\ m.verb # "place" /\ m.verb # "cancel"
  BY <1>1 DEF VenueTakesModify
<1>3. CASE VenueAmends(o, m)
  BY <1>1, <1>2, <1>3, AmendsStep
<1>4. CASE VenueCancels(o, m)
  BY <1>1, <1>2, <1>4, CancelsStep
<1>5. CASE VenueRefuses(o, m)
  BY <1>2, <1>5, RefusesStep DEF VenueRefuses
<1>6. QED BY <1>1, <1>3, <1>4, <1>5

\* A working order trades.
LEMMA TradesStep ==
  ASSUME OrdersInv, NEW o \in Oids, VenueTrades(o)
  PROVE  OrdersInv'
<1>0. venue \in [Oids -> VenueOrder] /\ venue[o] \in VenueOrder /\ venue[o].ex + 1 \in Nat
  BY DEF OrdersInv, Typed, VenueOrder
<1> PICK z \in Nat : z = venue[o].ex + 1
  BY <1>0
<1> PICK st \in {"working", "filled"} : st = IF z = venue[o].qty THEN "filled" ELSE "working"
  OBVIOUS
<1> DEFINE v == [venue[o] EXCEPT !.st = st, !.ex = z]
<1>1. /\ venue \in [Oids -> VenueOrder] /\ venue[o] \in VenueOrder /\ venue[o].st = "working"
      /\ lites \in Seq(Oids \X Nat) /\ UNCHANGED <<ord, seen, ans, net, modifies>>
      /\ ans \subseteq Reply \cup Status
  BY <1>0 DEF VenueTrades, OrdersInv, Typed
<1>2. /\ v \in VenueOrder /\ v.st = st /\ v.ex = z /\ z \in Nat /\ venue[o].ex \in Nat
      /\ z > venue[o].ex /\ z > 0
  <2>1. v \in VenueOrder /\ v.st = st /\ v.ex = z
    BY <1>0, Zenon DEF VenueOrder
  <2>2. venue[o].ex \in Nat
    BY <1>0 DEF VenueOrder
  <2>3. QED BY <2>1, <2>2
<1>3. /\ venue' = [venue EXCEPT ![o].st = st, ![o].ex = z]
      /\ Report(o, "trade", st, z, 0)
      /\ lites' = Append(lites, <<o, z>>) \/ lites' = lites
  <2>1. venue' = [venue EXCEPT ![o].st = st, ![o].ex = z]
    BY DEF VenueTrades
  <2>2. Report(o, "trade", st, z, 0)
    BY DEF VenueTrades
  <2>3. lites' = IF stream THEN Append(lites, <<o, z>>) ELSE lites
    BY DEF VenueTrades
  <2>4. QED BY <2>1, <2>2, <2>3, Zenon
<1>4. venue' = [p \in Oids |-> IF p = o THEN v ELSE venue[p]]
  BY <1>1, <1>3, Zenon
<1>5. st \in {"working", "filled", "canceled"} /\ st # "none"
  OBVIOUS
<1> HIDE DEF v
<1>6. venue' \in [Oids -> VenueOrder] /\ (\A p \in Oids : p # o => venue'[p] = venue[p])
      /\ venue'[o].st = st /\ venue'[o].ex = z
  BY <1>1, <1>2, <1>4
<1>7. Moves(o)
  <2>1. venue'[o].st # "none" /\ venue'[o].ex >= venue[o].ex /\ net' \subseteq net
    BY <1>1, <1>2, <1>5, <1>6
  <2>2. QED BY <1>1, <2>1, WorkingMoves
<1>8. PICK u : updates' \in Seq(Update) /\ FromOr(updates', updates, u) /\ UpdateOK(u)'
  <2>1. z <= venue'[o].ex /\ z > 0
    BY <1>2, <1>6
  <2>2. QED BY <1>2, <1>3, <1>5, <1>6, <2>1, ReportKept, Zenon
<1>9. <<o, z>> \in Oids \X Nat /\ LiteOK(<<o, z>>)'
  <2>1. z <= venue'[o].ex /\ <<o, z>>[1] = o /\ <<o, z>>[2] = z
    BY <1>2, <1>6
  <2>2. <<o, z>> \in Oids \X Nat
    BY <1>2
  <2>3. QED BY <1>2, <2>1, <2>2, Zenon DEF LiteOK
<1>10. lites' \in Seq(Oids \X Nat) /\ FromOr(lites', lites, <<o, z>>)
  BY <1>1, <1>3, <1>9, Longer, Zenon
<1>11. QED BY <1>1, <1>6, <1>7, <1>8, <1>9, <1>10, VenueStep

\* The venue ends a working order.
LEMMA EndsStep ==
  ASSUME OrdersInv, NEW o \in Oids, VenueEnds(o)
  PROVE  OrdersInv'
<1> DEFINE v == [venue[o] EXCEPT !.st = "canceled"]
<1>1. /\ venue \in [Oids -> VenueOrder] /\ lites \in Seq(Oids \X Nat) /\ lites' = lites
      /\ venue[o].st = "working" /\ UNCHANGED <<ord, seen, ans, net, modifies>>
      /\ ans \subseteq Reply \cup Status
  BY DEF VenueEnds, OrdersInv, Typed
<1>2. venue' = [venue EXCEPT ![o] = v] /\ venue[o] \in VenueOrder
  BY <1>1 DEF VenueEnds
<1>3. v \in VenueOrder /\ v.st = "canceled" /\ v.ex = venue[o].ex /\ venue[o].ex \in Nat
  BY <1>2 DEF VenueOrder
<1> HIDE DEF v
<1>4. /\ venue' \in [Oids -> VenueOrder] /\ (\A p \in Oids : p # o => venue'[p] = venue[p])
      /\ venue'[o].st = "canceled" /\ venue'[o].ex = venue[o].ex
      /\ venue[o].ex <= venue'[o].ex
  BY <1>1, <1>2, <1>3
<1>5. Moves(o)
  <2>1. venue'[o].st # "none" /\ venue'[o].ex >= venue[o].ex /\ net' \subseteq net
    BY <1>1, <1>3, <1>4
  <2>2. QED BY <1>1, <2>1, WorkingMoves
<1>6. PICK u : updates' \in Seq(Update) /\ FromOr(updates', updates, u) /\ UpdateOK(u)'
  <2>1. Report(o, "end", "canceled", venue[o].ex, 0)
    BY DEF VenueEnds
  <2>2. QED BY <1>3, <1>4, <2>1, ReportKept
<1>7. From(lites', lites)
  BY <1>1, Shorter
<1>8. QED BY <1>1, <1>4, <1>5, <1>6, <1>7, VenueStep

-----------------------------------------------------------------------------
(* The orders in doubt.                                                    *)

\* The gateway asks the venue about an order: the answer is the venue's state.
LEMMA AskStatusStep ==
  ASSUME OrdersInv, NEW o \in Oids, AskStatus(o)
  PROVE  OrdersInv'
<1> DEFINE a == [verb |-> "status", o |-> o,
                 code |-> IF venue[o].st = "none" THEN "nosuch" ELSE "ok",
                 st |-> venue[o].st, ex |-> venue[o].ex, terms |-> venue[o].terms,
                 early |-> {what \in DOMAIN ord[o].age : ord[o].age[what] = Young}]
<1>1. /\ ans' = ans \cup {a} /\ ord[o].st = "doubt"
      /\ UNCHANGED <<ord, seen, lites, updates, net, venue, modifies>>
  BY DEF AskStatus
<1>2. Typed /\ ord[o] \in Entry /\ venue[o] \in VenueOrder /\ PlaceOK(o)
  BY DEF OrdersInv, Typed
<1>3. a \in Status
  BY <1>2 DEF Status, VenueOrder, Entry
<1>4. /\ a.o = o /\ a.verb = "status" /\ a.ex = venue[o].ex /\ a.st = venue[o].st
      /\ a.code = "nosuch" => venue[o].st = "none"
      /\ "place" \in a.early <=> ord[o].age.place = Young
      /\ venue[o].ex \in Nat
  BY <1>2 DEF VenueOrder, Entry
<1>5. PICK b : b = a
  BY Zenon
<1> HIDE DEF a
<1>6. AnswerOK(b)'
  <2>1. "place" \in b.early => ord[o].age.place # Final
    BY <1>4, <1>5 DEF Young, Final
  <2>2. b.code = "nosuch" /\ "place" \notin b.early => NeverPlaced(o)'
    <3>1. Places(o)' = Places(o) /\ venue' = venue
      BY <1>1 DEF Places
    <3>2. QED BY <1>2, <1>4, <1>5, <3>1, Zenon DEF PlaceOK, NeverPlaced
  <2>3. b.o = o /\ b.verb = "status" /\ b.ex = venue[o].ex /\ b.st = venue[o].st
        /\ "status" # "place" /\ ord[o].st # "none" /\ b.ex <= venue[o].ex
    BY <1>1, <1>4, <1>5
  <2>4. QED BY <1>1, <2>1, <2>2, <2>3, Zenon DEF AnswerOK
<1>7. /\ ans' \subseteq Reply \cup Status /\ (\A c \in ans' : c \in ans \/ c = b)
      /\ venue \in [Oids -> VenueOrder] /\ lites \in Seq(Oids \X Nat) /\ updates \in Seq(Update)
  BY <1>1, <1>2, <1>3, <1>5 DEF Typed
<1>8. From(lites', lites) /\ From(updates', updates)
  BY <1>1, <1>7, Shorter
<1>9. QED BY <1>1, <1>6, <1>7, <1>8, VenueStep

\* Time passes for an order in doubt: no copy of its place is left, and none of
\* its older answers once it is final.
LEMMA PassesStep ==
  ASSUME OrdersInv, NEW o \in Oids, NEW what \in {"place", "modify"}, Passes(o, what)
  PROVE  OrdersInv'
<1>1. /\ ord[o].st = "doubt" /\ ord[o].age[what] < Final
      /\ net' = net \ {m \in net : m.verb = what /\ m.o = o}
      /\ ord[o].age[what] = Closed =>
           ~\E a \in ans : a.verb = "status" /\ a.o = o /\ what \in a.early
      /\ ord' = [ord EXCEPT ![o].age[what] = @ + 1]
      /\ UNCHANGED <<seen, ans, lites, updates, venue, modifies>>
  BY Zenon DEF Passes, sockets
<1>2. Typed /\ ord \in [Oids -> Entry] /\ ord[o] \in Entry
  BY DEF OrdersInv, Typed
<1> DEFINE f == [ord[o] EXCEPT !.age[what] = @ + 1]
<1>3. /\ f \in Entry /\ f.st = ord[o].st /\ f.filled = ord[o].filled
      /\ f.statusBooked = ord[o].statusBooked
      /\ what = "place" => f.age.place = ord[o].age.place + 1 /\ ord[o].age.place \in {Young, Closed}
      /\ what = "modify" => f.age.place = ord[o].age.place
  <2>1. CASE what = "place"
    BY <1>1, <1>2, <2>1 DEF Entry, Ages, Young, Closed, Final
  <2>2. CASE what = "modify"
    BY <1>1, <1>2, <2>2 DEF Entry, Ages, Young, Closed, Final
  <2>3. QED BY <2>1, <2>2
<1>4. ord'[o] = f /\ (\A p \in Oids : p # o => ord'[p] = ord[p]) /\ ord' \in [Oids -> Entry]
  BY <1>1, <1>2, <1>3
<1> HIDE DEF f
<1>5. Typed'
  BY <1>1, <1>2, <1>4 DEF Typed
<1>6. NetKept
  BY <1>1, NetSame
<1>7. what = "place" => Places(o)' = {}
  BY <1>1 DEF Places
<1>8. ASSUME NEW p \in Oids PROVE PlaceOK(p)' /\ BookOK(p)'
  <2>1. PlaceOK(p) /\ BookOK(p) /\ SeenOf(p)' = SeenOf(p)
    BY <1>1 DEF OrdersInv, SeenOf
  <2>2. (Places(p)' # {} => Places(p) # {}) /\ \A m, n \in Places(p)' : m = n
    BY <1>6, Zenon DEF NetKept
  <2>3. /\ ord'[p].st = ord[p].st /\ ord'[p].filled = ord[p].filled
        /\ ord'[p].statusBooked = ord[p].statusBooked /\ venue' = venue
    BY <1>1, <1>3, <1>4
  <2>4. Places(p)' # {} => ord'[p].age.place = ord[p].age.place
    BY <1>3, <1>4, <1>7
  <2>5. PlaceOK(p)'
    BY <2>1, <2>2, <2>3, <2>4, Zenon DEF PlaceOK, IsOpen
  <2>6. BookOK(p)'
    BY <2>1, <2>3, Zenon DEF BookOK
  <2>7. QED BY <2>5, <2>6
<1>9. NetOK'
  BY <1>3, <1>4, <1>6 DEF NetOK, NetKept, Request
<1>10. AnswersOK'
  <2>1. SUFFICES ASSUME NEW a \in ans' PROVE AnswerOK(a)'
    BY Zenon DEF AnswersOK
  <2>2. a.o \in Oids /\ a \in ans /\ AnswerOK(a) /\ venue' = venue
    BY <1>1, <1>2 DEF Typed, Reply, Status, OrdersInv, AnswersOK
  <2>3. ord'[a.o].st = ord[a.o].st
    BY <1>3, <1>4, <2>2
  <2>4. NeverPlaced(a.o) => NeverPlaced(a.o)'
    BY <1>6, <2>2, Zenon DEF NeverPlaced, NetKept
  <2>5. a.verb = "status" /\ "place" \in a.early => ord'[a.o].age.place # Final
    <3>1. SUFFICES ASSUME a.verb = "status", "place" \in a.early PROVE ord'[a.o].age.place # Final
      OBVIOUS
    <3>2. ord[a.o].age.place # Final
      BY <2>2, <3>1, Zenon DEF AnswerOK
    <3>3. CASE a.o = o /\ what = "place"
      <4>1. ord[o].age.place # Closed
        BY <1>1, <2>2, <3>1, <3>3
      <4>2. QED BY <1>3, <1>4, <3>3, <4>1 DEF Young, Closed, Final
    <3>4. CASE ~ (a.o = o /\ what = "place")
      BY <1>3, <1>4, <2>2, <3>2, <3>4
    <3>5. QED BY <3>3, <3>4
  <2>6. QED BY <2>2, <2>3, <2>4, <2>5, Zenon DEF AnswerOK
<1>11. UpdatesOK' /\ LitesOK'
  BY <1>1, Zenon DEF OrdersInv, UpdatesOK, LitesOK, UpdateOK, LiteOK
<1>12. QED BY <1>5, <1>8, <1>9, <1>10, <1>11, Zenon DEF OrdersInv
=============================================================================
