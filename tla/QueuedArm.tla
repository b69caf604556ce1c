----------------------------- MODULE QueuedArm -----------------------------
(***************************************************************************)
(* The queued live arm: the Binance arm on the engine thread               *)
(* (exec-binance/src/arm.rs), its gateway thread                           *)
(* (exec-binance/src/gateway.rs), the rings and words between them         *)
(* (exec-gateway/src/duplex.rs, stats.rs), the engine's fill lane and the  *)
(* router's use of the arm (exec-router/src/routed.rs).                    *)
(*                                                                         *)
(* The two threads meet in the command ring, the event ring, the fill lane *)
(* and the sweep words, so the gateway's pass is cut where it touches one  *)
(* of them; `g` is where it stands.  The venue is external: it takes,      *)
(* rejects, fills and cancels orders, and its messages (two sockets, REST) *)
(* reach the gateway in any order.                                         *)
(*                                                                         *)
(* Not modelled here: modifies, the order states behind an answer that is  *)
(* late or lost (the gateway asks until it knows), TTLs and reconnects.    *)
(***************************************************************************)
EXTENDS Naturals, Sequences, FiniteSets

CONSTANTS
  Oids,       \* client order ids, each placed at most once
  CmdCap, EvtCap, LaneCap, HeldCap,  \* ring and queue capacities
  EvtRoomMin, \* EVT_ROOM_MIN: event room without which no command is popped
  CmdBurst,   \* CMD_BURST: commands a gateway pass pops
  DrainBatch, \* fills the engine's tick books from the lane
  Rounds,     \* SWEEP_ROUNDS
  MaxSweeps   \* bound: sweep requests

ASSUME QueuedAssumption ==
  /\ IsFiniteSet(Oids)
  /\ {CmdCap, EvtCap, LaneCap, HeldCap, CmdBurst, DrainBatch, Rounds} \subseteq Nat \ {0}
  /\ EvtRoomMin \in 1 .. EvtCap
  /\ MaxSweeps \in Nat

VARIABLES
  \* between the threads
  cmd, evt, lane,       \* the command ring, the event ring, fill lane 4
  req, word,            \* the request word; the answer [seq, state]
  \* the gateway
  g,                    \* where its pass stands: [at, popped]
  held,                 \* outputs waiting for room, in order
  lost,                 \* an output was lost (the halt word)
  oot,                  \* the open-order table
  cancels,              \* orders whose cancel was sent
  taken, sweep,         \* the request it works on; [active, round]
  listing,              \* an open-order listing is asked for
  \* the venue
  life, inbox,          \* each order's state; messages on their way
  \* the arm and the router
  inFlight, retired,    \* orders unended; ends drained by the last poll
  asked, pending,       \* sweep_asked; does the router wait for a sweep?
  stopped,              \* is the slot halted or held?
  rows, booked,         \* the ledger's resting rows; fills booked
  ticked,               \* has the engine's loop run since the last poll?
  \* history
  backlog,              \* did the last tick leave fills in the lane?
  early,                \* orders retired before their fill was booked
  confirmed             \* the newest request a listing confirmed clear

shared == <<cmd, evt, lane, req, word>>
gateway == <<g, held, lost, oot, cancels, taken, sweep, listing>>
engine == <<inFlight, retired, asked, pending, stopped, rows, booked, ticked,
            backlog, early>>
vars == <<shared, gateway, life, inbox, engine, confirmed>>

Commands == [verb : {"place", "cancel"}, oid : Oids]
Events == [kind : {"ack", "end", "refused"}, oid : Oids] \cup [kind : {"sweep"}, oid : {"-"}]
Outputs == Events \cup [kind : {"fill"}, oid : Oids]
Messages == [kind : {"ack", "reject", "fill", "gone"}, oid : Oids]
            \cup [kind : {"list"}, oid : Oids \cup {"-"}]
Places == {"drain", "word", "seq", "cmds", "poll"}

(* Ring and table occupancy stays inside the capacities, and every variable
   keeps its type. *)
TypeOK ==
  /\ cmd \in Seq(Commands) /\ Len(cmd) <= CmdCap
  /\ evt \in Seq(Events) /\ Len(evt) <= EvtCap
  /\ lane \in Seq(Oids) /\ Len(lane) <= LaneCap
  /\ held \in Seq(Outputs) /\ Len(held) <= HeldCap
  /\ req \in 0 .. MaxSweeps /\ taken \in 0 .. MaxSweeps
  /\ asked \in 0 .. MaxSweeps /\ confirmed \in 0 .. MaxSweeps
  /\ word \in [seq : 0 .. MaxSweeps, state : {"clear", "working", "stranded"}]
  /\ g \in [at : Places, popped : 0 .. CmdBurst]
  /\ sweep \in [active : BOOLEAN, round : 0 .. Rounds]
  /\ oot \subseteq Oids /\ cancels \subseteq Oids
  /\ life \in [Oids -> {"new", "queued", "sent", "open", "filled", "gone"}]
  /\ inbox \subseteq Messages
  /\ inFlight \in 0 .. Cardinality(Oids)
  /\ retired \subseteq Oids /\ early \subseteq Oids
  /\ rows \subseteq Oids /\ booked \subseteq Oids
  /\ {lost, listing, pending, stopped, ticked, backlog} \subseteq BOOLEAN

Msg(kind, o) == [kind |-> kind, oid |-> o]
Cmd(verb, o) == [verb |-> verb, oid |-> o]
Items(seq) == {seq[i] : i \in DOMAIN seq}

Init ==
  /\ cmd = <<>> /\ evt = <<>> /\ lane = <<>> /\ held = <<>>
  /\ req = 0 /\ taken = 0 /\ asked = 0 /\ confirmed = 0
  /\ word = [seq |-> 0, state |-> "clear"]
  /\ g = [at |-> "drain", popped |-> 0]
  /\ sweep = [active |-> FALSE, round |-> 0]
  /\ lost = FALSE /\ listing = FALSE /\ pending = FALSE /\ stopped = FALSE
  /\ ticked = FALSE /\ backlog = FALSE
  /\ oot = {} /\ cancels = {} /\ inbox = {} /\ rows = {} /\ booked = {}
  /\ early = {} /\ retired = {} /\ inFlight = 0
  /\ life = [o \in Oids |-> "new"]

---------------------------------------------------------------------------
(* The engine thread: a member's verbs, the tick and the idle poll *)

(* submit: the router's gate, then a command; a full ring refuses it. *)
Place(o) ==
  /\ ~ stopped /\ life[o] = "new" /\ Len(cmd) < CmdCap
  /\ cmd' = Append(cmd, Cmd("place", o))
  /\ life' = [life EXCEPT ![o] = "queued"]
  /\ inFlight' = inFlight + 1
  /\ rows' = rows \cup {o}
  /\ UNCHANGED <<evt, lane, req, word, gateway, inbox, retired, asked, pending,
                 stopped, booked, ticked, backlog, early, confirmed>>

(* cancel: never gated; Ok means queued, so the row stays. *)
Cancel(o) ==
  /\ o \in rows /\ Cmd("cancel", o) \notin Items(cmd) /\ Len(cmd) < CmdCap
  /\ cmd' = Append(cmd, Cmd("cancel", o))
  /\ UNCHANGED <<evt, lane, req, word, gateway, life, inbox, engine, confirmed>>

(* The engine's tick books at most DrainBatch fills of the lane. *)
Tick ==
  LET n == IF Len(lane) < DrainBatch THEN Len(lane) ELSE DrainBatch
      now == {lane[i] : i \in 1 .. n}
  IN  /\ lane' = SubSeq(lane, n + 1, Len(lane))
      /\ booked' = booked \cup now
      /\ rows' = rows \ now
      /\ backlog' = (n < Len(lane))
      /\ ticked' = TRUE
      /\ UNCHANGED <<cmd, evt, req, word, gateway, life, inbox, inFlight, retired,
                     asked, pending, stopped, early, confirmed>>

(* A bug: in-flight orders do not keep the answer from being Clear. *)
MutStateForgetsInFlight(n) ==
  CASE asked # 0 /\ (word.seq < asked \/ word.state = "working") -> "working"
    [] asked # 0 /\ word.state = "stranded" -> "stranded"
    [] OTHER -> "clear"

(* cancel_all_state, with n orders in flight. *)
CancelAllState(n) ==
  CASE asked # 0 /\ (word.seq < asked \/ word.state = "working") -> "working"
    [] asked # 0 /\ word.state = "stranded" -> "stranded"
    [] n > 0 -> "working"
    [] OTHER -> "clear"

(* request_sweep: a word, so nothing refuses it. *)
RequestSweep == req' = req + 1 /\ asked' = req + 1

(* The router's poll of the slot's cycle: what try_cancel_slot does once the
   request was made, r being the rows the retirements left. *)
PollSweep(n, r) ==
  \/ /\ pending /\ CancelAllState(n) = "clear"
     /\ pending' = FALSE /\ rows' = {}
     /\ UNCHANGED <<req, asked, stopped>>
  \/ /\ pending /\ CancelAllState(n) = "stranded" /\ req < MaxSweeps
     /\ RequestSweep
     /\ rows' = r
     /\ UNCHANGED <<pending, stopped>>
  \/ /\ pending
     /\ \/ CancelAllState(n) = "working"
        \/ CancelAllState(n) = "stranded" /\ req = MaxSweeps
     /\ rows' = r
     /\ UNCHANGED <<req, asked, pending, stopped>>
  \/ /\ ~ pending /\ ~ stopped /\ req < MaxSweeps
     /\ stopped' = TRUE /\ pending' = TRUE
     /\ RequestSweep
     /\ rows' = r
  \/ /\ ~ pending
     /\ stopped' \in {stopped, FALSE}
     /\ rows' = r
     /\ UNCHANGED <<req, asked, pending>>

(* A bug: the ends just drained are handed over at once. *)
MutHandsAtOnce(old, new) == old \cup new

(* on_idle releases what the last poll drained, never what this one did. *)
HandedOver(old, new) == old

(* Orders in flight after k ends (a saturating subtraction). *)
Left(k) == IF inFlight > k THEN inFlight - k ELSE 0

(* The poll: the arm drains the event ring (EVT_DRAIN_MAX is above its
   model size), the router takes the retirements, then polls the sweep. *)
Idle ==
  LET ends == {i \in DOMAIN evt : evt[i].kind = "end"}
      new  == {evt[i].oid : i \in ends}
      gone == HandedOver(retired, new)
      n    == Left(Cardinality(ends))
  IN  /\ ticked
      /\ ticked' = FALSE
      /\ evt' = <<>>
      /\ inFlight' = n
      /\ retired' = new
      /\ early' = early \cup {o \in gone : life[o] = "filled" /\ o \notin booked
                                            /\ ~ backlog}
      /\ PollSweep(n, rows \ gone)
      /\ UNCHANGED <<cmd, lane, word, gateway, life, inbox, booked, backlog,
                     confirmed>>

---------------------------------------------------------------------------
(* The gateway thread: outputs *)

Out == [lane |-> lane, evt |-> evt, held |-> held, lost |-> lost]

SetOut(x) == lane' = x.lane /\ evt' = x.evt /\ held' = x.held /\ lost' = x.lost

(* Into the held queue, or lost: the halt word. *)
HoldBack(x, e) ==
  IF Len(x.held) < HeldCap THEN [x EXCEPT !.held = Append(@, e)]
                           ELSE [x EXCEPT !.lost = TRUE]

OutFill(x, o) ==
  IF x.held = <<>> /\ Len(x.lane) < LaneCap
    THEN [x EXCEPT !.lane = Append(@, o)]
    ELSE HoldBack(x, Msg("fill", o))

(* An event goes behind anything held, so no end overtakes its fill. *)
Emit(x, e) ==
  IF x.held = <<>> /\ Len(x.evt) < EvtCap
    THEN [x EXCEPT !.evt = Append(@, e)]
    ELSE HoldBack(x, e)

(* drain_held: the front leaves if its ring has room. *)
CanDrain ==
  held # <<>> /\ IF Head(held).kind = "fill" THEN Len(lane) < LaneCap
                                            ELSE Len(evt) < EvtCap

GwDrain ==
  /\ g.at = "drain"
  /\ IF CanDrain
       THEN /\ SetOut(IF Head(held).kind = "fill"
                        THEN [Out EXCEPT !.held = Tail(@),
                                         !.lane = Append(@, Head(held).oid)]
                        ELSE [Out EXCEPT !.held = Tail(@),
                                         !.evt = Append(@, Head(held))])
            /\ UNCHANGED g
       ELSE /\ g' = [g EXCEPT !.at = "word"]
            /\ UNCHANGED <<lane, evt, held, lost>>
  /\ UNCHANGED <<cmd, req, word, oot, cancels, taken, sweep, listing, life, inbox,
                 engine, confirmed>>

---------------------------------------------------------------------------
(* The gateway thread: the sweep *)

(* sweep_round: every order of ours without a cancel in flight gets one. *)
SweepRound(k) ==
  /\ cancels' = cancels \cup oot
  /\ sweep' = [active |-> TRUE, round |-> k + 1]

(* A bug: set_sweep stores the sequence first. *)
MutTakeSweep ==
  /\ g.at = "word"
  /\ IF req # taken
       THEN /\ taken' = req
            /\ word' = [word EXCEPT !.seq = req]
            /\ g' = [g EXCEPT !.at = "seq"]
       ELSE /\ g' = [at |-> "cmds", popped |-> 0]
            /\ UNCHANGED <<taken, word>>
  /\ UNCHANGED <<cmd, evt, lane, req, held, lost, oot, cancels, sweep, listing,
                 life, inbox, engine, confirmed>>

(* A bug: the request is a command, so it waits for room as they do. *)
MutTakeSweepWaits ==
  /\ g.at = "word"
  /\ IF req # taken /\ held = <<>> /\ EvtCap - Len(evt) >= EvtRoomMin
       THEN /\ taken' = req
            /\ word' = [word EXCEPT !.state = "working"]
            /\ g' = [g EXCEPT !.at = "seq"]
       ELSE /\ g' = [at |-> "cmds", popped |-> 0]
            /\ UNCHANGED <<taken, word>>
  /\ UNCHANGED <<cmd, evt, lane, req, held, lost, oot, cancels, sweep, listing,
                 life, inbox, engine, confirmed>>

(* The pass looks at the request word.  set_sweep stores the state first... *)
TakeSweep ==
  /\ g.at = "word"
  /\ IF req # taken
       THEN /\ taken' = req
            /\ word' = [word EXCEPT !.state = "working"]
            /\ g' = [g EXCEPT !.at = "seq"]
       ELSE /\ g' = [at |-> "cmds", popped |-> 0]
            /\ UNCHANGED <<taken, word>>
  /\ UNCHANGED <<cmd, evt, lane, req, held, lost, oot, cancels, sweep, listing,
                 life, inbox, engine, confirmed>>

(* ... then the sequence; the first round's cancels follow. *)
StartSweep ==
  /\ g.at = "seq"
  /\ word' = [seq |-> taken, state |-> "working"]
  /\ SweepRound(0)
  /\ g' = [at |-> "cmds", popped |-> 0]
  /\ UNCHANGED <<cmd, evt, lane, req, held, lost, oot, taken, listing, life, inbox,
                 engine, confirmed>>

(* finish_sweep: the word, then the report. *)
FinishSweep(state, x) ==
  /\ word' = [seq |-> taken, state |-> state]
  /\ SetOut(Emit(x, Msg("sweep", "-")))
  /\ sweep' = [active |-> FALSE, round |-> sweep.round]
  /\ UNCHANGED cancels

(* sweep_confirm, n of ours listed open: done, stranded or another round. *)
SweepConfirm(n) ==
  \/ /\ n = 0 /\ oot = {}
     /\ FinishSweep("clear", Out)
     /\ confirmed' = taken
  \/ /\ ~ (n = 0 /\ oot = {}) /\ sweep.round >= Rounds
     /\ FinishSweep("stranded", Out)
     /\ UNCHANGED confirmed
  \/ /\ ~ (n = 0 /\ oot = {}) /\ sweep.round < Rounds
     /\ SweepRound(sweep.round)
     /\ UNCHANGED <<word, lane, evt, held, lost, confirmed>>

---------------------------------------------------------------------------
(* The gateway thread: commands *)

CanPop ==
  /\ g.popped < CmdBurst /\ cmd # <<>>
  /\ held = <<>> /\ EvtCap - Len(evt) >= EvtRoomMin

(* on_place: sent and entered in the table, or refused locally (the session is
   not ready, the table is full), which the arm hears as an end. *)
OnPlace(o) ==
  \/ /\ oot' = oot \cup {o}
     /\ life' = [life EXCEPT ![o] = "sent"]
     /\ UNCHANGED <<lane, evt, held, lost, cancels>>
  \/ /\ life' = [life EXCEPT ![o] = "gone"]
     /\ SetOut(Emit(Out, Msg("end", o)))
     /\ UNCHANGED <<oot, cancels>>

(* A bug: a cancel of an order the table does not hold is answered as an end. *)
MutOnCancelEnds(o) ==
  /\ IF o \in oot
       THEN /\ cancels' = cancels \cup {o}
            /\ UNCHANGED <<lane, evt, held, lost>>
       ELSE /\ SetOut(Emit(Out, Msg("end", o)))
            /\ UNCHANGED cancels
  /\ UNCHANGED <<oot, life>>

(* on_cancel: sent, already in flight, or an order the table does not hold. *)
OnCancel(o) ==
  /\ IF o \in oot
       THEN /\ cancels' = cancels \cup {o}
            /\ UNCHANGED <<lane, evt, held, lost>>
       ELSE /\ SetOut(Emit(Out, Msg("refused", o)))
            /\ UNCHANGED cancels
  /\ UNCHANGED <<oot, life>>

PopCommand ==
  /\ g.at = "cmds" /\ CanPop
  /\ cmd' = Tail(cmd)
  /\ g' = [g EXCEPT !.popped = @ + 1]
  /\ IF Head(cmd).verb = "place" THEN OnPlace(Head(cmd).oid)
                                  ELSE OnCancel(Head(cmd).oid)
  /\ UNCHANGED <<req, word, taken, sweep, listing, inbox, engine, confirmed>>

(* The burst is over; the timers ask for the sweep's listing. *)
EndBurst ==
  /\ g.at = "cmds" /\ ~ CanPop
  /\ g' = [g EXCEPT !.at = "poll"]
  /\ listing' = (listing \/ sweep.active)
  /\ UNCHANGED <<shared, held, lost, oot, cancels, taken, sweep, life, inbox, engine,
                 confirmed>>

---------------------------------------------------------------------------
(* The gateway thread: what the venue says *)

(* end_order: the fills are out; now the end, then it leaves the table. *)
EndOrder(x, o) ==
  /\ SetOut(Emit(x, Msg("end", o)))
  /\ oot' = oot \ {o}
  /\ UNCHANGED <<word, cancels, sweep, listing, confirmed>>

Receive(m) ==
  /\ g.at = "poll" /\ m \in inbox
  /\ inbox' = inbox \ {m}
  /\ g' = [g EXCEPT !.at = "drain"]
  /\ \/ /\ m.kind = "ack" /\ m.oid \in oot
        /\ SetOut(Emit(Out, m))
        /\ UNCHANGED <<word, oot, cancels, sweep, listing, confirmed>>
     \/ /\ m.kind = "fill" /\ m.oid \in oot
        /\ EndOrder(OutFill(Out, m.oid), m.oid)
     \/ /\ m.kind \in {"reject", "gone"} /\ m.oid \in oot
        /\ EndOrder(Out, m.oid)
     \/ /\ m.kind = "list" /\ sweep.active
        /\ listing' = FALSE
        /\ SweepConfirm(IF m.oid = "-" THEN 0 ELSE 1)
        /\ UNCHANGED oot
     \/ /\ IF m.kind = "list" THEN ~ sweep.active ELSE m.oid \notin oot
        /\ listing' = (listing /\ m.kind # "list")
        /\ UNCHANGED <<word, lane, evt, held, lost, oot, cancels, sweep, confirmed>>
  /\ UNCHANGED <<cmd, req, taken, life, engine>>

(* The poll returns with nothing read. *)
NothingRead ==
  /\ g.at = "poll" /\ inbox = {}
  /\ g' = [g EXCEPT !.at = "drain"]
  /\ UNCHANGED <<shared, held, lost, oot, cancels, taken, sweep, listing, life,
                 inbox, engine, confirmed>>

Gateway ==
  \/ GwDrain \/ TakeSweep \/ StartSweep \/ PopCommand \/ EndBurst \/ NothingRead
  \/ \E m \in inbox : Receive(m)

---------------------------------------------------------------------------
(* The venue (external) *)

VenueSays(o, from, to, kind) ==
  /\ life[o] = from
  /\ life' = [life EXCEPT ![o] = to]
  /\ inbox' = inbox \cup {Msg(kind, o)}
  /\ UNCHANGED <<shared, gateway, engine, confirmed>>

VenueAnswers(o) == \/ VenueSays(o, "sent", "open", "ack")
                   \/ VenueSays(o, "sent", "gone", "reject")

VenueFills(o) == VenueSays(o, "open", "filled", "fill")

VenueCancels(o) == o \in cancels /\ VenueSays(o, "open", "gone", "gone")

(* The listing names our orders open now; it is read later. *)
VenueLists ==
  /\ listing /\ \A m \in inbox : m.kind # "list"
  /\ \E o \in {p \in Oids : life[p] = "open"} \cup {"-"} :
       /\ o = "-" => \A p \in Oids : life[p] # "open"
       /\ inbox' = inbox \cup {Msg("list", o)}
  /\ UNCHANGED <<shared, gateway, life, engine, confirmed>>

Venue == VenueLists \/ \E o \in Oids : \/ VenueAnswers(o)
                                        \/ VenueFills(o)
                                        \/ VenueCancels(o)

Member == \E o \in Oids : Place(o) \/ Cancel(o)

Next == Gateway \/ Venue \/ Member \/ Tick \/ Idle

Spec == Init /\ [][Next]_vars

(* The gateway's loop runs and the venue answers what it is asked; an order
   open without a cancel may stay open for ever. *)
GatewayFair ==
  /\ WF_vars(Gateway)
  /\ WF_vars(VenueLists)
  /\ \A o \in Oids : WF_vars(VenueAnswers(o)) /\ WF_vars(VenueCancels(o))

FairSpec == Spec /\ GatewayFair

---------------------------------------------------------------------------
(* Properties *)

(* The orders a counter of unended orders should count: in the command ring,
   in the table, or ended by an event the arm has not drained. *)
Unended ==
  {o \in Oids : \/ Cmd("place", o) \in Items(cmd)
                \/ o \in oot
                \/ Msg("end", o) \in Items(evt) \cup Items(held)}

(* The arm's in-flight count is exactly the orders that have not ended, as
   long as no output was lost: no end is counted twice or missed, whichever
   of the rejects, fills, cancels and local refusals ended it. *)
InFlightIsExact == ~ lost => inFlight = Cardinality(Unended)

(* A sweep's Clear is the venue's answer to the newest request: the stale
   state of an older sweep is never read under the new sequence number
   (set_sweep's store order). *)
ClearIsThisSweeps ==
  word.seq = asked /\ word.state = "clear" => confirmed = asked

(* A retirement reaches the router only after its order's fill was booked,
   unless a tick left fills in the lane, which the module names as the
   residual. *)
FillsBookedFirst == early = {}

(* The resting rows never miss a working order: rows are dropped on a fill, a
   retirement handed over or a confirmed sweep, and by then it has ended. *)
RowsCoverVenue ==
  \A o \in Oids : life[o] \in {"queued", "sent", "open"} => o \in rows

(* XG-1: every sweep request is answered although the engine thread may have
   stopped draining its rings: only the gateway and the venue need run. *)
SweepIsAnswered ==
  \A k \in 1 .. MaxSweeps :
    req = k ~> (word.seq >= k /\ word.state # "working") \/ req > k

(* What CancelAllState::Working says (clob-dispatcher/src/lib.rs:2030): a sweep
   is in flight, so the router waits rather than asking again.  Stated where it
   matters: an order is open at the venue and nobody has asked it back. *)
WorkingMeansSweeping ==
  pending /\ CancelAllState(inFlight) = "working"
    /\ (\E o \in Oids : life[o] = "open" /\ o \notin cancels)
    => word.seq < asked \/ sweep.active
=============================================================================
