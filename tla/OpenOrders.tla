---------------------------- MODULE OpenOrders ----------------------------
(***************************************************************************)
(* The open orders of a venue gateway (exec-binance/src/gateway.rs, oot.rs)*)
(* against a venue that answers on one socket, reports on another and may  *)
(* lose either.                                                            *)
(*                                                                         *)
(* A request is written on the order session (`net`), reaches the venue in *)
(* any order, and is answered (`ans`) unless the session is dropped first. *)
(* The user stream carries each trade twice: at once without the order's   *)
(* cumulative quantity (TRADE_LITE), later with it (ORDER_TRADE_UPDATE).   *)
(* An order whose fate is unknown is in doubt, and asked about until known.*)
(*                                                                         *)
(* Abstracted: an order is known by its placement id, which the gateway    *)
(* does not reuse while it remembers it; prices, and the one unit each     *)
(* trade has; whose a cancel is (a member's or the TTL's); the two order   *)
(* sessions are one (Desk has the two).  The venue is external.            *)
(***************************************************************************)
EXTENDS Integers, Sequences, FiniteSets

CONSTANTS
  Oids,        \* placement ids, each placed at most once
  Cap,         \* OOT_CAP: orders open at once
  Qty,         \* the largest quantity of an order, in trades of one unit
  MaxModifies, \* bound: modifies of an order
  MaxFaults    \* bound: sessions dropped, stream gaps, answers that say nothing

ASSUME OpenOrdersAssumption ==
  /\ IsFiniteSet(Oids)
  /\ {Cap, Qty} \subseteq Nat \ {0} /\ {MaxModifies, MaxFaults} \subseteq Nat

VARIABLES
  \* the gateway
  ord,       \* the open-order table; for an ended order, what EndedRing keeps
  seen,      \* TidRing: trades a report named
  \* the sockets
  up, ans,   \* can the session send?  answers on their way back
  stream, lites, updates,  \* is the user stream open?  its two kinds of report
  \* the venue
  net,       \* requests on their way to it
  venue,     \* its orders
  \* bounds
  modifies, faults

vars == <<ord, seen, up, ans, stream, lites, updates, net, venue,
          modifies, faults>>

sockets == <<up, ans, stream, lites, updates>>

Open == {"sent", "live", "doubt"}
IsOpen(o) == ord[o].st \in Open

(* A request of the live session, or one a dropped session left behind; n  *)
(* is a place's quantity, a modify's new terms.                            *)
Req(verb, o, n) == [verb |-> verb, o |-> o, n |-> n, live |-> TRUE]
Orphan(m) == [m EXCEPT !.live = FALSE]

(* How old an order's place (or modify) is.  Young: a copy may still arrive*)
(* at the venue; Closed: its recvWindow has passed, none can; Final:       *)
(* recvWindow + 5 s have passed, and the gateway knows none can.           *)
Young == 0
Closed == 1
Final == 2

EmptyEntry == [st |-> "none", cancelSent |-> FALSE, owe |-> {}, timed |-> FALSE,
               pending |-> 0, terms |-> 0, filled |-> 0, statusBooked |-> FALSE,
               age |-> [place |-> Young, modify |-> Young]]

Init ==
  /\ ord = [o \in Oids |-> EmptyEntry]
  /\ seen = {}
  /\ up = TRUE /\ ans = {}
  /\ stream = TRUE /\ lites = <<>> /\ updates = <<>>
  /\ net = {}
  /\ venue = [o \in Oids |-> [st |-> "none", qty |-> 0, ex |-> 0, terms |-> 0]]
  /\ modifies = [o \in Oids |-> 0]
  /\ faults = 0

-----------------------------------------------------------------------------
(* The table's entries.  A handler returns the entry it leaves and the     *)
(* requests it posts.                                                      *)
Result(e, out) == [e |-> e, out |-> out]

SetLive(e) == [e EXCEPT !.st = "live"]
Doubt(e) == [e EXCEPT !.st = "doubt"]
EndOrder(e) == [EmptyEntry EXCEPT !.st = "ended", !.filled = e.filled,
                                  !.statusBooked = e.statusBooked]

OweCancel(e) == [e EXCEPT !.owe = @ \cup {"cancel"}, !.timed = TRUE]

SendCancel(o, e) == Result([e EXCEPT !.cancelSent = TRUE], {Req("cancel", o, 0)})

CancelOrOwe(o, e) ==
  IF e.cancelSent THEN Result(e, {})
  ELSE IF up THEN SendCancel(o, e)
  ELSE Result(OweCancel(e), {})

(* A cancel the venue refused as unknown goes again: the order works.      *)
LiveAgain(o, e) ==
  IF "unknown" \notin e.owe \/ e.cancelSent THEN Result(e, {})
  ELSE CancelOrOwe(o, [e EXCEPT !.timed = FALSE, !.owe = {}])

ModifyAborted(e) == [e EXCEPT !.pending = 0, !.age.modify = Young]
ModifyConfirmed(e) ==
  IF e.pending = 0 THEN e ELSE [ModifyAborted(e) EXCEPT !.terms = e.pending]

(* The venue shows the order working - unless a modify is undetermined,    *)
(* that settles a doubt.                                                   *)
Working(o, e) == LiveAgain(o, IF e.pending = 0 THEN SetLive(e) ELSE e)

Leaves(o, r) ==
  /\ ord' = [ord EXCEPT ![o] = r.e]
  /\ net' = net \cup r.out

-----------------------------------------------------------------------------
(* The member's commands.  One the gateway refuses changes nothing.        *)

Place(o) ==
  /\ ord[o].st = "none"
  /\ up
  /\ Cardinality({p \in Oids : IsOpen(p)}) < Cap
  /\ \E ttl \in BOOLEAN, q \in 1 .. Qty :
       Leaves(o, Result([EmptyEntry EXCEPT !.st = "sent", !.timed = ttl], {Req("place", o, q)}))
  /\ UNCHANGED <<seen, sockets, venue, modifies, faults>>

Cancel(o) ==
  /\ IsOpen(o)
  /\ Leaves(o, CancelOrOwe(o, ord[o]))
  /\ UNCHANGED <<seen, sockets, venue, modifies, faults>>

Modify(o) ==
  /\ IsOpen(o)
  /\ ord[o].pending = 0 /\ ~ord[o].cancelSent
  /\ up
  /\ modifies[o] < MaxModifies
  /\ LET n == modifies[o] + 1
     IN /\ Leaves(o, Result([ord[o] EXCEPT !.pending = n, !.age.modify = Young], {Req("modify", o, n)}))
        /\ modifies' = [modifies EXCEPT ![o] = n]
  /\ UNCHANGED <<seen, sockets, venue, faults>>

(* The order's deadline: its TTL, or the retry of an owed cancel.          *)
OrderDue(o) ==
  /\ IsOpen(o) /\ ord[o].timed
  /\ LET e == [ord[o] EXCEPT !.timed = FALSE]
         r == IF e.cancelSent THEN Result(e, {}) ELSE CancelOrOwe(o, e)
     IN Leaves(o, IF r.e.timed THEN r ELSE [r EXCEPT !.e.owe = {}])
  /\ UNCHANGED <<seen, sockets, venue, modifies, faults>>

-----------------------------------------------------------------------------
(* The venue.  A request is answered if its session lives; what happened is*)
(* reported if the stream is open.                                         *)

Answered(m, a) ==
  /\ m \in net
  /\ net' = net \ {m}
  /\ ans' = IF m.live THEN ans \cup {a} ELSE ans

Answer(m, code) == [verb |-> m.verb, o |-> m.o, code |-> code]

Report(o, kind, st, z, n) ==
  updates' = IF stream
             THEN Append(updates, [o |-> o, kind |-> kind, st |-> st, z |-> z, n |-> n])
             ELSE updates

Fault == faults < MaxFaults /\ faults' = faults + 1

VenueAccepts(o, m) ==
  /\ venue' = [venue EXCEPT ![o].st = "working", ![o].qty = m.n]
  /\ Report(o, "new", "working", 0, 0)
  /\ \/ Answered(m, Answer(m, "ok")) /\ UNCHANGED faults
     \/ Answered(m, Answer(m, "unknown")) /\ Fault

VenueRefuses(o, m) ==
  /\ Answered(m, Answer(m, "refused"))
  /\ UNCHANGED <<venue, updates>>

VenueCancels(o, m) ==
  /\ venue[o].st = "working"
  /\ venue' = [venue EXCEPT ![o].st = "canceled"]
  /\ Report(o, "end", "canceled", venue[o].ex, 0)
  /\ Answered(m, Answer(m, IF m.verb = "cancel" THEN "ok" ELSE "refused"))
  /\ UNCHANGED faults

VenueFindsNone(o, m) ==
  /\ venue[o].st # "working"
  /\ Answered(m, Answer(m, "nosuch"))
  /\ UNCHANGED <<venue, updates, faults>>

VenueAmends(o, m) ==
  /\ venue[o].st = "working"
  /\ venue' = [venue EXCEPT ![o].terms = m.n]
  /\ Report(o, "amend", "working", venue[o].ex, m.n)
  /\ \/ Answered(m, Answer(m, "ok")) /\ UNCHANGED faults
     \/ Answered(m, Answer(m, "unknown")) /\ Fault

TakesRest(o) == UNCHANGED <<ord, seen, up, stream, lites, modifies>>

VenueTakesPlace(o) ==
  /\ \E m \in net : /\ m.verb = "place" /\ m.o = o
                    /\ \/ VenueAccepts(o, m)
                       \/ VenueRefuses(o, m) /\ UNCHANGED faults
  /\ TakesRest(o)

VenueTakesCancel(o) ==
  /\ \E m \in net : /\ m.verb = "cancel" /\ m.o = o
                    /\ \/ VenueCancels(o, m)
                       \/ VenueFindsNone(o, m)
                       \/ VenueRefuses(o, m) /\ Fault
  /\ TakesRest(o)

(* A modify may also be taken as a cancel.                                 *)
VenueTakesModify(o) ==
  /\ \E m \in net : /\ m.verb = "modify" /\ m.o = o
                    /\ \/ VenueAmends(o, m)
                       \/ VenueCancels(o, m)
                       \/ VenueRefuses(o, m) /\ UNCHANGED faults
  /\ TakesRest(o)

VenueTrades(o) ==
  /\ venue[o].st = "working"
  /\ LET z == venue[o].ex + 1
         st == IF z = venue[o].qty THEN "filled" ELSE "working"
     IN /\ venue' = [venue EXCEPT ![o].st = st, ![o].ex = z]
        /\ Report(o, "trade", st, z, 0)
        /\ lites' = IF stream THEN Append(lites, <<o, z>>) ELSE lites
  /\ UNCHANGED <<ord, seen, up, ans, stream, net, modifies, faults>>

(* The venue ends an order of its own accord (an IoC's rest, a dead-man).  *)
VenueEnds(o) ==
  /\ venue[o].st = "working"
  /\ venue' = [venue EXCEPT ![o].st = "canceled"]
  /\ Report(o, "end", "canceled", venue[o].ex, 0)
  /\ UNCHANGED <<ord, seen, up, ans, stream, lites, net, modifies, faults>>

(* Time passes for an order in doubt.  A request on a live session is      *)
(* answered, or its session dropped, within WS_REQ_TIMEOUT_NS: a place     *)
(* before its recvWindow ends, a status asked before it ended before the   *)
(* 5 s after it have passed.                                               *)
Passes(o, what) ==
  /\ ord[o].st = "doubt" /\ ord[o].age[what] < Final
  /\ what = "modify" => ord[o].pending # 0
  /\ LET late == {m \in net : m.verb = what /\ m.o = o}
     IN /\ ~\E m \in late : m.live
        /\ net' = net \ late
  /\ ord[o].age[what] = Closed =>
       ~\E a \in ans : a.verb = "status" /\ a.o = o /\ what \in a.early
  /\ ord' = [ord EXCEPT ![o].age[what] = @ + 1]
  /\ UNCHANGED <<seen, sockets, venue, modifies, faults>>

-----------------------------------------------------------------------------
(* What the gateway makes of an answer.                                    *)

PlaceAnswered(o, e, code) ==
  CASE code = "ok"      -> LiveAgain(o, SetLive(e))
    [] code = "unknown" -> Result(Doubt(e), {})
    [] code = "refused" -> Result(EndOrder(e), {})

\* Mutant: the refused cancel is owed, but nothing sends it again.
MutCancelAnsweredForgets(o, e, code) ==
  LET f == [e EXCEPT !.cancelSent = FALSE]
  IN CASE code = "ok"      -> Result(e, {})
       [] code = "nosuch"  -> Result(Doubt([f EXCEPT !.owe = @ \cup {"cancel"}]), {})
       [] code = "refused" -> Result(OweCancel(f), {})

(* The cancel's 200 does nothing: the stream ends the order.  -2011 parks  *)
(* the cancel until the venue shows the order working.                     *)
CancelAnswered(o, e, code) ==
  LET f == [e EXCEPT !.cancelSent = FALSE]
  IN CASE code = "ok"      -> Result(e, {})
       [] code = "nosuch"  -> Result(Doubt([f EXCEPT !.owe = @ \cup {"cancel", "unknown"}]), {})
       [] code = "refused" -> Result(OweCancel(f), {})

ModifyAnswered(o, e, code) ==
  CASE code = "ok"      -> Result(ModifyConfirmed(e), {})
    [] code = "unknown" -> Result(Doubt(e), {})
    [] code = "refused" -> Result(ModifyAborted(e), {})

(* The order as its status shows it.                                       *)
Terminal == {"filled", "canceled"}

StatusRename(e, a) ==
  IF a.terms = e.pending THEN ModifyConfirmed(e)
  ELSE IF e.age.modify = Final THEN ModifyAborted(e)
  ELSE e

\* Mutant: an order's end is taken from its status, its missing fills are not.
MutStatusBookNothing(e, ex) == e

StatusBook(e, ex) ==
  IF ex > e.filled THEN [e EXCEPT !.filled = ex, !.statusBooked = TRUE] ELSE e

\* Mutant: -2013 is final as soon as the recvWindow has passed.
MutStatusAnsweredNoMargin(o, e, a) ==
  IF a.code = "nosuch"
  THEN Result(IF e.age.place # Young THEN EndOrder(e) ELSE e, {})
  ELSE LET f == StatusBook(IF e.pending # 0 THEN StatusRename(e, a) ELSE e, a.ex)
       IN IF a.st \in Terminal THEN Result(EndOrder(f), {}) ELSE Working(o, f)

StatusAnswered(o, e, a) ==
  IF a.code = "nosuch"
  THEN Result(IF e.age.place = Final THEN EndOrder(e) ELSE e, {})
  ELSE LET f == StatusBook(IF e.pending # 0 THEN StatusRename(e, a) ELSE e, a.ex)
       IN IF a.st \in Terminal THEN Result(EndOrder(f), {}) ELSE Working(o, f)

Verbs == {"place", "cancel", "modify", "status"}

Judge(o, e, a) ==
  CASE a.verb = "place"  -> PlaceAnswered(o, e, a.code)
    [] a.verb = "cancel" -> CancelAnswered(o, e, a.code)
    [] a.verb = "modify" -> ModifyAnswered(o, e, a.code)
    [] a.verb = "status" -> StatusAnswered(o, e, a)

(* An answer for an order that is not open any more is dropped.            *)
OnAnswer(o, verb) ==
  /\ \E a \in ans :
       /\ a.o = o /\ a.verb = verb
       /\ ans' = ans \ {a}
       /\ IF IsOpen(o) THEN Leaves(o, Judge(o, ord[o], a)) ELSE UNCHANGED <<ord, net>>
  /\ UNCHANGED <<seen, up, stream, lites, updates, venue, modifies, faults>>

(* Once a second, each order in doubt is asked about.  Asked and looked up *)
(* are one step: the answer is as old as it can be when it comes.          *)
AskStatus(o) ==
  /\ ord[o].st = "doubt" /\ up
  /\ ~\E a \in ans : a.verb = "status" /\ a.o = o
  /\ ans' = ans \cup {[verb |-> "status", o |-> o,
                       code |-> IF venue[o].st = "none" THEN "nosuch" ELSE "ok",
                       st |-> venue[o].st, ex |-> venue[o].ex, terms |-> venue[o].terms,
                       early |-> {what \in DOMAIN ord[o].age : ord[o].age[what] = Young}]}
  /\ UNCHANGED <<ord, seen, up, stream, lites, updates, net, venue, modifies, faults>>

-----------------------------------------------------------------------------
(* The user stream.  A report of an ended order still books.               *)

(* A trade's quick report books it once, unless some of the order was      *)
(* booked without its trades: then it waits for its update.                *)
OnLite ==
  /\ lites # <<>>
  /\ LET t == Head(lites)
         o == t[1]
         skip == ord[o].statusBooked
     IN /\ ord' = [ord EXCEPT ![o].filled = IF skip \/ t \in seen THEN @ ELSE @ + 1]
        /\ seen' = IF skip THEN seen ELSE seen \cup {t}
  /\ lites' = Tail(lites)
  /\ UNCHANGED <<up, ans, stream, updates, net, venue, modifies, faults>>

\* Mutant: a trade's update books it whatever its cumulative quantity says.
MutBookUpdateNoCap(e, u) ==
  LET f == IF u.kind = "trade" /\ <<u.o, u.z>> \notin seen THEN [e EXCEPT !.filled = @ + 1] ELSE e
  IN IF u.z > f.filled THEN [f EXCEPT !.filled = u.z, !.statusBooked = TRUE] ELSE f

(* An update books its trade, if new, up to its cumulative z, and then     *)
(* whatever z says is missing.                                             *)
BookUpdate(e, u) ==
  LET new == u.kind = "trade" /\ <<u.o, u.z>> \notin seen /\ u.z > e.filled
      f == IF new THEN [e EXCEPT !.filled = @ + 1] ELSE e
  IN IF u.z > f.filled THEN [f EXCEPT !.filled = u.z, !.statusBooked = TRUE] ELSE f

OnUpdate ==
  /\ updates # <<>>
  /\ LET u == Head(updates)
         o == u.o
         e == BookUpdate(ord[o], u)
         f == IF u.kind = "amend" /\ u.n = e.pending THEN ModifyConfirmed(e) ELSE e
     IN /\ seen' = IF u.kind = "trade" THEN seen \cup {<<o, u.z>>} ELSE seen
        /\ IF ~IsOpen(o) THEN ord' = [ord EXCEPT ![o] = e] /\ UNCHANGED net
           ELSE Leaves(o, IF u.st \in Terminal THEN Result(EndOrder(f), {})
                          ELSE IF f.st = "sent" THEN LiveAgain(o, SetLive(f))
                          ELSE Working(o, f))
  /\ updates' = Tail(updates)
  /\ UNCHANGED <<up, ans, stream, lites, venue, modifies, faults>>

-----------------------------------------------------------------------------
(* The listing of the venue's open orders, read at every reconciliation: a *)
(* live order it does not name is in doubt, a parked cancel of one it names*)
(* goes again.  (One that is out of date only doubts an order too many.)   *)

ListedEntry(o) ==
  LET e == ord[o]
      named == venue[o].st = "working"
  IN IF e.st = "live" /\ ~named THEN Result(Doubt(e), {})
     ELSE IF IsOpen(o) /\ named THEN LiveAgain(o, e)
     ELSE Result(e, {})

Listed ==
  /\ ord' = [o \in Oids |-> ListedEntry(o).e]
  /\ net' = net \cup UNION {ListedEntry(o).out : o \in Oids}
  /\ UNCHANGED <<seen, sockets, venue, modifies, faults>>

-----------------------------------------------------------------------------
(* The sockets fail and come back.                                         *)

(* What becomes of an order whose requests will never be answered.         *)
RequestLost(e, verbs) ==
  LET f == IF {"place", "modify"} \cap verbs # {} THEN Doubt(e) ELSE e
  IN IF "cancel" \in verbs THEN OweCancel([f EXCEPT !.cancelSent = FALSE]) ELSE f

InFlight(o) == {m.verb : m \in {n \in net : n.live /\ n.o = o}}
               \cup {a.verb : a \in {b \in ans : b.o = o}}

(* The session dies, or is judged dead by an unanswered request: what is   *)
(* on its way may still arrive, or not.                                    *)
WsFailed ==
  /\ up /\ Fault
  /\ up' = FALSE /\ ans' = {}
  /\ ord' = [o \in Oids |-> IF IsOpen(o) THEN RequestLost(ord[o], InFlight(o)) ELSE ord[o]]
  /\ \E left \in SUBSET {m \in net : m.live} :
       net' = {m \in net : ~m.live} \cup {Orphan(m) : m \in left}
  /\ UNCHANGED <<seen, stream, lites, updates, venue, modifies>>

DoubtLane == ord' = [o \in Oids |-> IF IsOpen(o) THEN Doubt(ord[o]) ELSE ord[o]]

WentLive ==
  /\ ~up /\ up' = TRUE
  /\ DoubtLane
  /\ UNCHANGED <<seen, ans, stream, lites, updates, net, venue, modifies, faults>>

UsFailed ==
  /\ stream /\ Fault
  /\ stream' = FALSE /\ lites' = <<>> /\ updates' = <<>>
  /\ UNCHANGED <<ord, seen, up, ans, net, venue, modifies>>

UsOpened ==
  /\ ~stream /\ stream' = TRUE
  /\ DoubtLane
  /\ UNCHANGED <<seen, up, ans, lites, updates, net, venue, modifies, faults>>

-----------------------------------------------------------------------------
Handles ==
  \/ \E o \in Oids :
       \/ Place(o) \/ Cancel(o) \/ OrderDue(o)
       \/ VenueTakesPlace(o) \/ VenueTakesCancel(o) \/ VenueTakesModify(o)
       \/ VenueTrades(o) \/ VenueEnds(o)
       \/ \E verb \in Verbs : OnAnswer(o, verb)
       \/ AskStatus(o)
       \/ \E what \in {"place", "modify"} : Passes(o, what)
  \/ OnLite \/ OnUpdate \/ Listed
  \/ WsFailed \/ WentLive \/ UsFailed \/ UsOpened

Next == Handles \/ \E o \in Oids : Modify(o)

Spec == Init /\ [][Next]_vars

(* What is on its way arrives, the gateway's loop takes it, deadlines fall *)
(* due and sockets are dialled again.                                      *)
Delivers ==
  \/ \E o \in Oids : \/ VenueTakesPlace(o) \/ VenueTakesCancel(o) \/ VenueTakesModify(o)
                     \/ \E verb \in Verbs \ {"status"} : OnAnswer(o, verb)
                     \/ OrderDue(o)
  \/ OnLite \/ OnUpdate \/ WentLive \/ UsOpened

Fairness ==
  /\ WF_vars(Delivers)
  /\ WF_vars(Listed)
  /\ \A o \in Oids : /\ WF_vars(VenueTakesPlace(o))
                     /\ WF_vars(AskStatus(o)) /\ WF_vars(OnAnswer(o, "status"))
                     /\ WF_vars(Passes(o, "place"))

FairSpec == Spec /\ Fairness

-----------------------------------------------------------------------------
(* No trade is booked twice, however it is reported - by its quick report, *)
(* its update, a later update's cumulative quantity, a status - and in     *)
(* whatever order these come, before the order's end or after it.          *)
NeverOverBooked == \A o \in Oids : ord[o].filled <= venue[o].ex

(* An order the gateway has ended is not working at the venue and never    *)
(* will be: an end is never taken from an answer that is out of date.      *)
EndedIsFinal == \A o \in Oids : ord[o].st = "ended" => venue[o].st # "working"

(* When an order ends everything it traded has been booked: the event that *)
(* retires it follows its last fill.                                       *)
EndedIsWhole == \A o \in Oids : ord[o].st = "ended" => ord[o].filled = venue[o].ex

(* Once no modify of it is on its way either way, the gateway holds an     *)
(* order's terms as the venue holds them: the one whose id the member was  *)
(* told of is the one the venue confirmed.                                 *)
Settled(o) ==
  /\ ord[o].st \in {"sent", "live"} /\ ord[o].pending = 0
  /\ ~\E m \in net \cup ans : m.verb = "modify" /\ m.o = o

TermsAgree ==
  \A o \in Oids : Settled(o) /\ venue[o].st = "working" => ord[o].terms = venue[o].terms

(* A cancel the member was told is taken, or a TTL's, ends the order,      *)
(* whatever is lost on the way.                                            *)
CancelEnds ==
  \A o \in Oids : ord[o].cancelSent \/ ord[o].owe # {} ~> ord[o].st = "ended"
=============================================================================
