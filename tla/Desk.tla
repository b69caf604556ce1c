-------------------------------- MODULE Desk --------------------------------
(***************************************************************************)
(* The order sessions of one lane and the requests in flight on them:      *)
(* exec-gateway/src/mbb.rs (two connection slots, one active, replaced     *)
(* make-before-break), exec-gateway/src/pending.rs (request ids) and the   *)
(* Desk of exec-binance/src/gateway.rs, driven by its one thread.          *)
(*                                                                         *)
(* Time is abstract: a deadline may pass at any moment after it is armed, a*)
(* back-off may end at any moment.  What an answer to an order's request   *)
(* does to the order is OpenOrders.  The deadline queue holds one deadline *)
(* per request and per open order and is sized for all of them at compile  *)
(* time (TIMER_CAP), so it is never full.  The socket and the venue are    *)
(* external: a closed socket carries nothing more, either way.             *)
(***************************************************************************)
EXTENDS Integers, FiniteSets

CONSTANTS
  WsIds,   \* WS_IDS: requests in flight at once, a power of two, > 1
  Wrap     \* ids are integers modulo Wrap (the code's 2^64)

\* A power of two above 1 divides 2^64, more than once.
ASSUME DeskAssumption ==
  /\ WsIds \in Nat /\ WsIds >= 2
  /\ Wrap \in Nat /\ Wrap >= 2 * WsIds /\ Wrap % WsIds = 0

VARIABLES
  \* Mbb
  state,         \* of each slot: Down, Dialing, Live, Draining
  active,        \* the slot new posts go on; None
  replaceWanted,
  \* Desk
  pending,       \* the record in each place; id 0 = free
  next,          \* the id tried next
  timers,        \* ids with a deadline armed
  connLive,      \* requests in flight per session
  \* the lane
  ordDown,       \* ord_down_ns # 0: no session can send since then
  spot,          \* a spot lane subscribes on the session before it is live
  \* the sockets
  sock,          \* of each slot: closed, dialing, open
  wire, back     \* ids written and not answered; answers not yet read

mbb == <<state, active, replaceWanted>>
desk == <<pending, next, timers, connLive>>
socks == <<sock, wire, back>>
laneVars == <<mbb, desk, ordDown, spot, socks>>

Slots == {0, 1}
Other(s) == 1 - s
None == 2
Ids == 1 .. Wrap - 1
Places == 0 .. WsIds - 1
Verbs == {"logon", "subscribe", "order"}

Free == [id |-> 0, verb |-> "order", conn |-> 0]
Ix(id) == id % WsIds
InFlight == {pending[k].id : k \in Places} \ {0}
Rec(id) == pending[Ix(id)]
OnSession(s) == {id \in InFlight : Rec(id).conn = s}

LaneInit ==
  /\ state = [s \in Slots |-> "Down"] /\ active = None /\ replaceWanted = FALSE
  /\ pending = [k \in Places |-> Free] /\ next = 1
  /\ timers = {} /\ connLive = [s \in Slots |-> 0]
  /\ ordDown = TRUE /\ spot \in BOOLEAN
  /\ sock = [s \in Slots |-> "closed"]
  /\ wire = [s \in Slots |-> {}] /\ back = [s \in Slots |-> {}]

-----------------------------------------------------------------------------
(* Pending and Desk, as functions of the desk's record.                    *)

TheDesk == [pending |-> pending, next |-> next, timers |-> timers,
            connLive |-> connLive]
DeskBecomes(d) ==
  /\ pending' = d.pending /\ next' = d.next
  /\ timers' = d.timers /\ connLive' = d.connLive

(* claim_next: the ids it tries from the cursor on, as many as there are   *)
(* places, never 0, and the first whose place is free.                     *)
Tried(d, k) == LET id == d.next + k IN IF id < Wrap THEN id ELSE id - Wrap + 1
FreeTries(d) == {k \in Places : d.pending[Ix(Tried(d, k))].id = 0}
CanIssue(d) == FreeTries(d) # {}
Claimed(d) ==
  Tried(d, CHOOSE k \in FreeTries(d) : \A j \in FreeTries(d) : k <= j)

(* issue: the id claimed, its record filled, its deadline armed.           *)
Issue(d, verb, s) ==
  LET id == Claimed(d)
  IN  [pending |-> [d.pending EXCEPT ![Ix(id)] =
                      [id |-> id, verb |-> verb, conn |-> s]],
       next |-> IF id + 1 < Wrap THEN id + 1 ELSE 1,
       timers |-> d.timers \cup {id},
       connLive |-> [d.connLive EXCEPT ![s] = @ + 1]]

\* Mutant: a request leaves the table with its deadline armed.
MutTakenKeepsDeadline(d, ids) ==
  [d EXCEPT !.pending = [k \in Places |-> IF @[k].id \in ids THEN Free ELSE @[k]],
            !.connLive = [s \in Slots |->
              @[s] - Cardinality({k \in Places : /\ d.pending[k].id \in ids \ {0}
                                                 /\ d.pending[k].conn = s})]]

(* take of each of some ids: their records leave, their deadlines are      *)
(* cancelled, their sessions' counts drop.                                 *)
Taken(d, ids) ==
  [d EXCEPT !.pending = [k \in Places |-> IF @[k].id \in ids THEN Free ELSE @[k]],
            !.timers = @ \ ids,
            !.connLive = [s \in Slots |->
              @[s] - Cardinality({k \in Places : /\ d.pending[k].id \in ids \ {0}
                                                 /\ d.pending[k].conn = s})]]

LoseRequests(d, s) ==
  Taken(d, {d.pending[k].id : k \in {j \in Places : d.pending[j].conn = s}} \ {0})

-----------------------------------------------------------------------------
(* Mbb, as functions of its record.                                        *)

TheMbb == [state |-> state, active |-> active, replaceWanted |-> replaceWanted]
MbbBecomes(m) ==
  state' = m.state /\ active' = m.active /\ replaceWanted' = m.replaceWanted

\* Mutant: the replaced session stays live.
MutOnLiveKeepsOld(m, s) ==
  [m EXCEPT !.state[s] = "Live", !.active = s, !.replaceWanted = FALSE]

OnLive(m, s) ==
  [state |-> [t \in Slots |-> CASE t = s -> "Live"
                               [] t # s /\ t = m.active -> "Draining"
                               [] OTHER -> m.state[t]],
   active |-> s, replaceWanted |-> FALSE]

OnDown(m, s) ==
  [m EXCEPT !.state[s] = "Down", !.active = IF @ = s THEN None ELSE @]

OnDrained(m, drained) ==
  [m EXCEPT !.state = [s \in Slots |-> IF s \in drained THEN "Down" ELSE @[s]]]

RequestReplace(m) == [m EXCEPT !.replaceWanted = @ \/ m.active # None]

\* Mutant: a dial may take for ever.
MutOverdueDrainsOnly(m, over) == {s \in over : m.state[s] = "Draining"}

(* What poll asks for: the slot to retire, of the ones over their budget   *)
(* the first; or the slot to dial, once the back-off is over; or None.     *)
Overdue(m, over) == {s \in over : m.state[s] \in {"Draining", "Dialing"}}
ToRetire(m, over) ==
  CASE 0 \in Overdue(m, over) -> 0
    [] 0 \notin Overdue(m, over) /\ 1 \in Overdue(m, over) -> 1
    [] OTHER -> None
ToDial(m) ==
  CASE \E s \in Slots : m.state[s] = "Dialing" -> None
    [] (\A s \in Slots : m.state[s] # "Dialing") /\ m.active = None ->
         IF m.state[0] = "Down" THEN 0 ELSE 1
    [] OTHER ->
         IF m.replaceWanted /\ m.state[Other(m.active)] = "Down"
         THEN Other(m.active) ELSE None

-----------------------------------------------------------------------------
(* The gateway's handlers.                                                 *)

Closed(slots) ==
  /\ sock' = [s \in Slots |-> IF s \in slots THEN "closed" ELSE sock[s]]
  /\ wire' = [s \in Slots |-> IF s \in slots THEN {} ELSE wire[s]]
  /\ back' = [s \in Slots |-> IF s \in slots THEN {} ELSE back[s]]

(* ws_failed, on the desk as its caller left it: the socket is closed; of a*)
(* slot that is not down already, the requests are lost.                   *)
WsFailed(s, d) ==
  /\ Closed({s})
  /\ IF state[s] = "Down"
     THEN DeskBecomes(d) /\ UNCHANGED <<mbb, ordDown>>
     ELSE /\ MbbBecomes(OnDown(TheMbb, s))
          /\ ordDown' = (ordDown \/ OnDown(TheMbb, s).active = None)
          /\ DeskBecomes(LoseRequests(d, s))
  /\ UNCHANGED spot

(* went_live, when the logon's - on spot the subscription's - answer is    *)
(* taken.                                                                  *)
WentLive(s, d) ==
  /\ MbbBecomes(OnLive(TheMbb, s))
  /\ ordDown' = FALSE
  /\ DeskBecomes(d)
  /\ UNCHANGED <<spot, sock, wire>>

(* post: on the active session, if its socket is open.                     *)
Post ==
  /\ active # None /\ sock[active] = "open"
  /\ CanIssue(TheDesk)
  /\ DeskBecomes(Issue(TheDesk, "order", active))
  /\ wire' = [wire EXCEPT ![active] = @ \cup {Claimed(TheDesk)}]
  /\ UNCHANGED <<mbb, ordDown, spot, sock, back>>

(* A socket opened: the logon is asked, if an id is free for it; inside a  *)
(* quiet period the socket is dropped.                                     *)
Opened(s) ==
  /\ sock[s] = "dialing"
  /\ sock' = [sock EXCEPT ![s] = "open"]
  /\ IF CanIssue(TheDesk)
     THEN /\ DeskBecomes(Issue(TheDesk, "logon", s))
          /\ wire' = [wire EXCEPT ![s] = @ \cup {Claimed(TheDesk)}]
     ELSE UNCHANGED <<desk, wire>>
  /\ UNCHANGED <<mbb, ordDown, spot, back>>

OpenedInQuiet(s) ==
  /\ sock[s] = "dialing"
  /\ Closed({s})
  /\ MbbBecomes(OnDown(TheMbb, s))
  /\ UNCHANGED <<desk, ordDown, spot>>

(* on_answer.  ok: the status is 200 - of a subscription, with its id.     *)
OnAnswer(s, id, ok) ==
  LET d == Taken(TheDesk, {id})
      verb == Rec(id).verb
  IN  /\ id \in back[s] /\ id \in InFlight
      /\ CASE verb = "order" ->
                /\ ok \* one outcome here: OpenOrders tells them apart
                /\ DeskBecomes(d)
                /\ back' = [back EXCEPT ![s] = @ \ {id}]
                /\ UNCHANGED <<mbb, ordDown, spot, sock, wire>>
           [] verb # "order" /\ ~ok -> WsFailed(s, d)
           [] verb = "logon" /\ ok /\ spot ->
                IF CanIssue(d)
                THEN /\ DeskBecomes(Issue(d, "subscribe", s))
                     /\ wire' = [wire EXCEPT ![s] = @ \cup {Claimed(d)}]
                     /\ back' = [back EXCEPT ![s] = @ \ {id}]
                     /\ UNCHANGED <<mbb, ordDown, spot, sock>>
                ELSE WsFailed(s, d)
           [] OTHER ->
                /\ WentLive(s, d)
                /\ back' = [back EXCEPT ![s] = @ \ {id}]

(* A socket fails, or the spot subscription ends.                          *)
SocketFails(s) == sock[s] # "closed" /\ WsFailed(s, TheDesk)

(* request_due: the popped deadline of an unanswered request condemns its  *)
(* session.                                                                *)
RequestDue(id) ==
  /\ id \in timers
  /\ LET d == [TheDesk EXCEPT !.timers = @ \ {id}]
     IN  IF id \in InFlight THEN WsFailed(Rec(id).conn, d)
         ELSE DeskBecomes(d) /\ UNCHANGED <<mbb, ordDown, spot, socks>>

(* serverShutdown on the active session; the 23 h rotation.                *)
AskReplace ==
  /\ active # None /\ ~replaceWanted
  /\ MbbBecomes(RequestReplace(TheMbb))
  /\ UNCHANGED <<desk, ordDown, spot, socks>>

(* drive_mbb: replaced sessions with nothing left in flight are closed;    *)
(* then, unless in a quiet period, what poll asks for is done.  over: the  *)
(* slots whose budget has passed; ready: the back-off has; dials: the dial *)
(* starts.                                                                 *)
Drive(over, ready, dials) ==
  LET drained == {s \in Slots : state[s] = "Draining" /\ connLive[s] = 0}
      m == OnDrained(TheMbb, drained)
      r == ToRetire(m, over)
      c == ToDial(m)
  IN  \/ /\ r # None
         /\ MbbBecomes(OnDown(m, r))
         /\ Closed(drained \cup {r})
         /\ DeskBecomes(LoseRequests(TheDesk, r))
         /\ UNCHANGED <<ordDown, spot>>
      \/ /\ r = None /\ ready /\ c # None
         /\ DeskBecomes(TheDesk)
         /\ IF dials
            THEN /\ MbbBecomes([m EXCEPT !.state[c] = "Dialing"])
                 /\ sock' = [s \in Slots |-> CASE s = c -> "dialing"
                                             [] s # c /\ s \in drained -> "closed"
                                             [] OTHER -> sock[s]]
                 /\ wire' = [s \in Slots |-> IF s \in drained \cup {c} THEN {} ELSE wire[s]]
                 /\ back' = [s \in Slots |-> IF s \in drained \cup {c} THEN {} ELSE back[s]]
            ELSE MbbBecomes(OnDown(m, c)) /\ Closed(drained \cup {c})
         /\ UNCHANGED <<ordDown, spot>>
      \/ /\ r = None /\ (~ready \/ c = None) /\ drained # {}
         /\ MbbBecomes(m)
         /\ Closed(drained)
         /\ UNCHANGED <<desk, ordDown, spot>>

(* The venue answers a request, if it still does.                          *)
VenueAnswers(s, id) ==
  /\ id \in wire[s]
  /\ wire' = [wire EXCEPT ![s] = @ \ {id}]
  /\ back' = [back EXCEPT ![s] = @ \cup {id}]
  /\ UNCHANGED <<mbb, desk, ordDown, spot, sock>>

LaneNext ==
  \/ Post \/ AskReplace
  \/ \E s \in Slots : Opened(s) \/ OpenedInQuiet(s) \/ SocketFails(s)
  \/ \E s \in Slots : \E id \in wire[s] : VenueAnswers(s, id)
  \/ \E s \in Slots : \E id \in back[s], ok \in BOOLEAN : OnAnswer(s, id, ok)
  \/ \E id \in timers : RequestDue(id)
  \/ \E over \in SUBSET Slots, ready \in BOOLEAN, dials \in BOOLEAN :
        Drive(over, ready, dials)

LaneSpec == LaneInit /\ [][LaneNext]_laneVars

-----------------------------------------------------------------------------
(* The gateway polls: budgets pass, and it dials when it may.  A venue that*)
(* keeps being dialled some day opens, and answers the logon.              *)
Answers(verb) ==
  \E s \in Slots : \E id \in wire[s] : Rec(id).verb = verb /\ VenueAnswers(s, id)
Accepted(verb) ==
  \E s \in Slots : \E id \in back[s] :
    Rec(id).verb = verb /\ OnAnswer(s, id, TRUE)
LaneFairness ==
  /\ WF_laneVars(Drive({}, TRUE, TRUE))
  /\ \A s \in Slots : WF_laneVars(Drive({s}, FALSE, FALSE))
  /\ SF_laneVars(\E s \in Slots : Opened(s))
  /\ \A verb \in {"logon", "subscribe"} :
       SF_laneVars(Answers(verb)) /\ SF_laneVars(Accepted(verb))
LaneFairSpec == LaneSpec /\ LaneFairness

-----------------------------------------------------------------------------
(* The machine's own assertions, and what its users read from it: with no  *)
(* active slot one is down or dialing (or poll could never dial again); the*)
(* active one is the only live one; only a dialing slot has a session      *)
(* logging on; and the lane's outage clock runs exactly while there is no  *)
(* active slot.                                                            *)
SessionsAreSound ==
  /\ active = None => \E s \in Slots : state[s] \in {"Down", "Dialing"}
  /\ \A s \in Slots : state[s] = "Live" <=> active = s
  /\ \A s \in Slots : sock[s] = "closed" <=> state[s] = "Down"
  /\ \A id \in InFlight :
       Rec(id).verb # "order" <=> state[Rec(id).conn] = "Dialing"
  /\ ordDown <=> active = None

(* No request is stranded: every one in flight has its deadline armed and a*)
(* session that is not down, its id waits on that session and no other, and*)
(* the session's count - at 0 a draining one is closed - is exactly the    *)
(* number in flight on it.                                                 *)
RequestsAreWatched ==
  /\ timers = InFlight
  /\ \A s \in Slots : /\ wire[s] \cup back[s] = OnSession(s)
                     /\ connLive[s] = Cardinality(OnSession(s))
                     /\ OnSession(s) # {} => state[s] # "Down"

(* A lane with no active session, or with one that must be replaced, gets a*)
(* session that carries its posts: no dial that hangs and no drain that    *)
(* does not end holds it up for ever - unless the table of requests is full*)
(* again and again, when the logon finds no id.                            *)
SessionIsRestored ==
  \/ []<>~CanIssue(TheDesk)
  \/ (active = None \/ replaceWanted) ~> (active # None /\ ~replaceWanted)
=============================================================================
