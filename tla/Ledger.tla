------------------------------- MODULE Ledger -------------------------------
(***************************************************************************)
(* The risk ledger of exec-router (ledger.rs) and the clamps the router    *)
(* judges every order of a slot by (routed.rs), against the venue that     *)
(* trades.  One slot; its instrument rows with their positions and marks;  *)
(* its working orders; the day's turnover; the fills on their way.         *)
(*                                                                         *)
(* The rows are of one kind, bound at boot:                                *)
(*   "linear"   a Binance linear row (BX3), judged by judge_instrument;    *)
(*   "gateway"  a linear row of a slot with perp limits (XH4e), judged by  *)
(*              judge_instrument with the perp's own clamps;               *)
(*   "perp"     a Hyperliquid perp row (B'4), judged by judge_perp.        *)
(* The resting table is a set of rows by order id here: RestingTable has   *)
(* the table itself.  The venue's half is external.                        *)
(***************************************************************************)
EXTENDS Integers, Sequences, FiniteSets, FiniteSetsExt, SequencesExt

CONSTANTS Syms,          \* the slot's instruments
          MaxOids,       \* order ids 1 .. MaxOids, each used once
          Qtys, Prices,  \* what orders and marks carry, > 0
          Stakes,        \* the positions a boot may find, on either side
          MaxOrder, MaxOpen, CapInstance, CapDay,  \* SlotCaps
          CapPerp, MaxResting,                     \* PerpLimits
          MaxDay         \* the last day of a behaviour

ASSUME LedgerAssumption ==
    /\ IsFiniteSet(Syms) /\ MaxOids \in Nat /\ MaxDay \in Nat \ {0}
    /\ Qtys \subseteq Nat \ {0} /\ Prices \subseteq Nat \ {0} /\ Stakes \subseteq Nat
    /\ {MaxOrder, MaxOpen, CapInstance, CapDay, CapPerp, MaxResting} \subseteq Nat \ {0}

Kinds == {"linear", "gateway", "perp"}
Oids == 1 .. MaxOids
None == [none |-> TRUE]

VARIABLES kind,      \* the law of the slot's rows
          row,       \* Ledger::inst: pos, last, mark, old, exp, bare per instrument
          agg,       \* inst_exposure_1e6 and inst_unmarked of the slot
          rest,      \* the slot's rows of Ledger::resting, by order id
          day,       \* day_epoch and day_turnover_1e6
          seeded,    \* is_slot_seeded
          figure,    \* the arm's venue_day_bought
          used,      \* order ids taken so far
          today,     \* the wall clock's day
          open,      \* external: the orders working at the venue
          stake,     \* external: the slot's positions at the venue
          flying,    \* fills of the venue the ledger has not booked
          traded,    \* external: the venue's fill history, its notional by day
          spent,     \* history: the opening part of it
          found,     \* history: the largest position a boot found
          raced      \* history: filled behind the back of modifies that landed

vars == <<kind, row, agg, rest, day, seeded, figure, used, today, open, stake, flying,
          traded, spent, found, raced>>
ledger == <<row, agg, rest, day, seeded, figure>>
venue == <<open, stake, traded, spent>>
history == <<found, raced>>

----------------------------------------------------------------------------
(* Positions and prices. *)

Abs(n) == IF n < 0 THEN -n ELSE n
Signed(buy, q) == IF buy THEN q ELSE -q
Opposes(pos, buy) == (pos > 0 /\ ~buy) \/ (pos < 0 /\ buy)
Larger(a, b) == IF a >= b THEN a ELSE b

\* The part of a fill or an order that grows the position.
Opening(pos, buy, q) ==
    IF Opposes(pos, buy) THEN Larger(q - Abs(pos), 0) ELSE q

\* The row's reference price: its mark, else its last fill.
PxCtx(r) == IF r.mark > 0 THEN r.mark ELSE r.last

CapPrice(r, px) == Larger(px, PxCtx(r))

\* The one price an order is judged at.
OnePrice(r, buy, px) == IF buy \/ kind = "perp" THEN px ELSE CapPrice(r, px)

ExposureCtx(r) == Abs(r.pos) * PxCtx(r)

\* Mutant: a flat position keeps its cached exposure and its unmarked bit.
MutRefreshSkipsFlat(rows, sums, s, r) ==
    IF r.pos = 0
    THEN [rows |-> [rows EXCEPT ![s] = r], sums |-> sums]
    ELSE LET e == ExposureCtx(r)
             bare == kind # "perp" /\ r.mark = 0
         IN  [rows |-> [rows EXCEPT ![s] = [r EXCEPT !.exp = e, !.bare = bare]],
              sums |-> [exp |-> sums.exp - r.exp + e,
                        unmarked |-> sums.unmarked + (IF bare THEN 1 ELSE 0)
                                                   - (IF r.bare THEN 1 ELSE 0)]]

\* refresh_instrument: r, new, becomes the row of s; the two sums follow.
Refresh(rows, sums, s, r) ==
    LET e == ExposureCtx(r)
        bare == kind # "perp" /\ r.mark = 0 /\ r.pos # 0
    IN  [rows |-> [rows EXCEPT ![s] = [r EXCEPT !.exp = e, !.bare = bare]],
         sums |-> [exp |-> sums.exp - r.exp + e,
                   unmarked |-> sums.unmarked + (IF bare THEN 1 ELSE 0)
                                              - (IF r.bare THEN 1 ELSE 0)]]

Refreshes(s, r) ==
    LET n == Refresh(row, agg, s, r)
    IN  row' = n.rows /\ agg' = n.sums

----------------------------------------------------------------------------
(* The day: stamps of two clocks and the venue's own figure. *)

\* Mutant: a stamp of an earlier day rolls the day back.
MutRollDayEitherWay(d, stamp) ==
    CASE stamp = 0 \/ stamp = d.epoch -> d
      [] d.epoch = 0 -> [d EXCEPT !.epoch = stamp]
      [] OTHER -> [epoch |-> stamp, turnover |-> 0]

\* Forward only; an unstamped record is ignored.
RollDay(d, stamp) ==
    CASE stamp = 0 -> d
      [] stamp # 0 /\ d.epoch = 0 -> [d EXCEPT !.epoch = stamp]
      [] stamp # 0 /\ d.epoch # 0 /\ stamp > d.epoch -> [epoch |-> stamp, turnover |-> 0]
      [] OTHER -> d

Spend(d, add) == [d EXCEPT !.turnover = @ + add]

\* adopt_venue_day_turnover: only ever raises.
AdoptVenueDay(d, stamp, bought) ==
    IF stamp = 0 \/ (d.epoch # 0 /\ stamp < d.epoch)
    THEN d
    ELSE LET r == RollDay(d, stamp)
         IN  [r EXCEPT !.turnover = Larger(@, bought)]

----------------------------------------------------------------------------
(* The working orders. *)

Resting == {o \in Oids : rest[o] # None}

\* A queued modify counts at the larger of its two sizes and the higher of
\* its two prices.
RestingQty(r) == IF r.ask = None THEN r.rem ELSE Larger(r.rem, r.ask.qty)
RestingPx(r) == IF r.ask = None THEN r.px ELSE Larger(r.px, r.ask.px)
RestingTerm(r) == RestingQty(r) * RestingPx(r)
RestingUsd == FoldSet(LAMBDA o, n : n + RestingTerm(rest[o]), 0, Resting)

\* working_on: what the slot has working on one side of s, less the order a
\* modify replaces (0: none), with a queued modify at its larger size if held.
WorkingOn(s, buy, except, held) ==
    FoldSet(LAMBDA o, n : n + (IF held THEN RestingQty(rest[o]) ELSE rest[o].rem), 0,
            {o \in Resting \ {except} : rest[o].sym = s /\ rest[o].buy = buy})

----------------------------------------------------------------------------
(* The clamps. *)

\* Mutant: the position is read without the working orders.
MutProbeForgetsWorking(s, q, buy, px, except) ==
    LET r == row[s]
        filled == r.pos
        next == filled + Signed(buy, q)
        at == OnePrice(r, buy, px)
        others == agg.exp - r.exp
    IN  [exit |-> Opposes(filled, buy) /\ q <= Abs(filled),
         measure |-> q * at,
         current |-> others + Abs(filled) * at,
         projected |-> others + Abs(next) * at,
         opening |-> Opening(filled, buy, q) * at,
         invNow |-> Abs(filled) * CapPrice(r, px),
         invNext |-> Abs(next) * CapPrice(r, px),
         resting |-> RestingUsd + q * px
                        - (IF except = 0 THEN 0 ELSE RestingTerm(rest[except]))]

\* probe: what an order would do, at one price.  A position the order opposes
\* is read as the working orders on the order's side leave it; a perp slot's
\* inventory counts them whichever way the order faces.
Probe(s, q, buy, px, except) ==
    LET r == row[s]
        filled == r.pos
        against == Opposes(filled, buy)
        worked == filled + Signed(buy, WorkingOn(s, buy, except, kind = "gateway"))
        pos == IF against THEN worked ELSE filled
        next == pos + Signed(buy, q)
        at == OnePrice(r, buy, px)
        others == agg.exp - r.exp
    IN  [exit |-> Opposes(pos, buy) /\ q <= Abs(pos),
         measure |-> q * at,
         current |-> others + Abs(pos) * at,
         projected |-> others + Abs(next) * at,
         opening |-> Opening(pos, buy, q) * at,
         invNow |-> Abs(worked) * CapPrice(r, px),
         invNext |-> Abs(worked + Signed(buy, q)) * CapPrice(r, px),
         resting |-> RestingUsd + q * px
                        - (IF except = 0 THEN 0 ELSE RestingTerm(rest[except]))]

HasPlace(except) == except # 0 \/ Cardinality(Resting) < MaxOpen

\* judge_instrument, the clamps before the day is rolled ...
InstrumentStake(p, except) ==
    /\ HasPlace(except)
    /\ \/ p.exit
       \/ /\ kind = "gateway" => agg.unmarked = 0
          /\ p.measure <= MaxOrder
          /\ kind = "gateway" => /\ p.invNext <= CapPerp \/ p.invNext <= p.invNow
                                 /\ p.resting <= MaxResting \/ p.resting <= RestingUsd

\* ... and after it.
InstrumentMoney(p, d) ==
    \/ p.exit
    \/ /\ p.projected <= CapInstance \/ p.projected <= p.current
       /\ p.opening = 0 \/ d.turnover + p.opening <= CapDay

\* judge_perp: every other row at its last fill, the order's at its limit.
PerpStake(s, q, buy, px, reduce, except) ==
    /\ HasPlace(except)
    /\ q * px <= MaxOrder \/ (reduce /\ Opening(row[s].pos, buy, q) = 0)

\* Mutant: over the cap refuses a reduction too.
MutPerpMoneyTraps(s, q, buy, px, d) ==
    LET others == agg.exp - row[s].exp
    IN  /\ others + Abs(row[s].pos + Signed(buy, q)) * px <= CapInstance
        /\ \/ Opening(row[s].pos, buy, q) = 0
           \/ d.turnover + Opening(row[s].pos, buy, q) * px <= CapDay

PerpMoney(s, q, buy, px, d) ==
    LET others == agg.exp - row[s].exp
        current == others + Abs(row[s].pos) * px
        projected == others + Abs(row[s].pos + Signed(buy, q)) * px
        opening == Opening(row[s].pos, buy, q) * px
    IN  /\ projected <= CapInstance \/ projected <= current
        /\ opening = 0 \/ d.turnover + opening <= CapDay

\* risk_check of an order stamped so: whether it passes, and the day after.
\* An instrument's exit returns before the clock is observed.
RiskCheck(s, q, buy, px, reduce, except, stamp) ==
    LET p == Probe(s, q, buy, px, except)
        first == IF kind = "perp" THEN PerpStake(s, q, buy, px, reduce, except)
                                  ELSE InstrumentStake(p, except)
        rolls == first /\ (kind = "perp" \/ ~p.exit)
        d == IF rolls THEN RollDay(day, stamp) ELSE day
    IN  [ok |-> seeded /\ first /\ IF kind = "perp" THEN PerpMoney(s, q, buy, px, d)
                                                    ELSE InstrumentMoney(p, d),
         day |-> IF seeded THEN d ELSE day]

----------------------------------------------------------------------------
(* Boot. *)

NewRow == [pos |-> 0, last |-> 0, mark |-> 0, old |-> FALSE, exp |-> 0, bare |-> FALSE]
NewDay == [epoch |-> 0, turnover |-> 0]
NoSums == [exp |-> 0, unmarked |-> 0]

\* A slot starts unseeded, over whatever the venue holds.
Init ==
    /\ kind \in Kinds
    /\ row = [s \in Syms |-> NewRow] /\ agg = NoSums
    /\ rest = [o \in Oids |-> None] /\ day = NewDay /\ seeded = FALSE
    /\ used = 0 /\ today = 1
    /\ open = [o \in Oids |-> None] /\ flying = <<>>
    /\ stake \in [Syms -> IF kind = "gateway" THEN {0} ELSE Stakes \cup {-n : n \in Stakes}]
    /\ traded = [d \in 1 .. MaxDay |-> 0] /\ spent = traded /\ figure = None
    /\ found = 0 /\ raced = 0

OpenAt == {o \in Oids : open[o] # None}

\* The process ends and starts again: the ledger is empty, the fills on their
\* way are in what the boot reads.  Binance reports no day figure, so there
\* the day is the boot's own.
Restart ==
    /\ row' = [s \in Syms |-> NewRow] /\ agg' = NoSums
    /\ rest' = [o \in Oids |-> None] /\ day' = NewDay /\ seeded' = FALSE
    /\ figure' = None /\ flying' = <<>>
    /\ spent' = IF kind = "linear" THEN [d \in 1 .. MaxDay |-> 0] ELSE spent
    /\ UNCHANGED <<kind, used, today, open, stake, traded, found, raced>>

\* The rows as the boot found the venue's positions: last is the price the
\* adopted fill, or the seed, carries.
Adopted(px) ==
    [s \in Syms |->
        LET r == [row[s] EXCEPT !.pos = stake[s], !.last = IF stake[s] = 0 THEN 0 ELSE px]
        IN  [r EXCEPT !.exp = ExposureCtx(r),
                      !.bare = kind # "perp" /\ r.mark = 0 /\ r.pos # 0]]

\* The boot's sweep left no order.  The slot is seeded once its arm reports
\* reconciled: with the positions adopted (linear), over flat positions and
\* the venue's figure of the day it read (gateway: on_idle adopts it before it
\* seeds), or seeded by seed_perp, whose notional is charged without a stamp.
Seed(px, read) ==
    /\ ~seeded /\ OpenAt = {} /\ flying = <<>>
    /\ kind = "gateway" => \A s \in Syms : stake[s] = 0
    /\ row' = Adopted(px)
    /\ agg' = [exp |-> FoldSet(LAMBDA s, n : n + row'[s].exp, 0, Syms),
               unmarked |-> Cardinality({s \in Syms : row'[s].bare})]
    /\ read = today \/ (read = today - 1 /\ traded[today] = 0)
    /\ figure' = IF kind = "gateway" THEN [day |-> read, bought |-> traded[read]] ELSE None
    /\ day' = CASE kind = "gateway" -> AdoptVenueDay(day, read, traded[read])
                 [] kind = "perp" -> Spend(day, spent[read])
                 [] OTHER -> day
    /\ seeded' = TRUE
    /\ found' = Max({found} \cup {Abs(stake[s]) : s \in Syms})
    /\ UNCHANGED <<kind, rest, used, today, flying, raced>> /\ UNCHANGED venue

\* on_idle offers the figure of the boot's read again on every poll.
Reoffer ==
    /\ seeded /\ figure # None
    /\ day' = AdoptVenueDay(day, figure.day, figure.bought)
    /\ UNCHANGED <<kind, row, agg, rest, seeded, figure, used, today, flying, found, raced>>
    /\ UNCHANGED venue

----------------------------------------------------------------------------
(* The member's verbs, and the arm's later confirmations. *)

\* An order is judged, and works at the venue if it passes.
Submit(s, q, buy, px, reduce, stamp) ==
    LET o == used + 1
        j == RiskCheck(s, q, buy, px, reduce, 0, stamp)
        r == [sym |-> s, buy |-> buy, rem |-> q, px |-> px, ask |-> None]
    IN  /\ o \in Oids
        /\ reduce => kind = "perp"
        /\ day' = j.day
        /\ IF j.ok
           THEN /\ rest' = [rest EXCEPT ![o] = r]
                /\ open' = [open EXCEPT ![o] = [sym |-> s, buy |-> buy, rem |-> q,
                                                done |-> 0, px |-> px, reduce |-> reduce]]
                /\ used' = o
           ELSE UNCHANGED <<rest, open, used>>
        /\ UNCHANGED <<kind, row, agg, seeded, figure, today, stake, flying, traded, spent>>
        /\ UNCHANGED history

\* Order o of the table becomes n at q, px: on_modify.
Renamed(o, n, q, px) ==
    [rest EXCEPT ![o] = None, ![n] = [rest[o] EXCEPT !.rem = q, !.px = px, !.ask = None]]

\* The venue replaces order o by n.  Hyperliquid's replacement is a new order
\* of q; Binance amends the total, and what is filled of it stays filled.
Replaced(o, n, q, px) ==
    LET rem == IF kind = "linear" THEN q - open[o].done ELSE q
    IN  [open EXCEPT ![o] = None,
                     ![n] = [open[o] EXCEPT !.rem = rem, !.px = px,
                                            !.done = IF kind = "linear" THEN @ ELSE 0]]

\* A modify is judged beside every order but the one it replaces.  A queued
\* arm's is held on the row until it is confirmed; the other arm's Ok is the
\* replacement.
Modify(o, q, px, stamp) ==
    LET n == used + 1
        j == RiskCheck(rest[o].sym, q, rest[o].buy, px, open[o].reduce, o, stamp)
    IN  /\ rest[o] # None /\ rest[o].ask = None /\ open[o] # None
        /\ n \in Oids
        /\ day' = j.day
        /\ CASE ~j.ok -> UNCHANGED <<rest, open, used, raced>>
             [] j.ok /\ kind = "perp" ->
                    /\ rest' = Renamed(o, n, q, px) /\ open' = Replaced(o, n, q, px)
                    /\ raced' = raced + rest[o].rem - open[o].rem
                    /\ used' = n
             [] OTHER ->
                    /\ rest' = [rest EXCEPT ![o].ask = [oid |-> n, qty |-> q, px |-> px,
                                                        was |-> rest[o].rem]]
                    /\ used' = n /\ UNCHANGED <<open, raced>>
        /\ UNCHANGED <<kind, row, agg, seeded, figure, today, stake, flying, traded, spent,
                       found>>

\* The venue takes the replacement and the arm's Renamed reaches the table.
\* What was judged as replaced and had filled by then is raced.
ModifyLands(o) ==
    LET a == rest[o].ask
    IN  /\ rest[o] # None /\ rest[o].ask # None /\ open[o] # None
        /\ kind = "linear" => a.qty > open[o].done
        /\ rest' = Renamed(o, a.oid, a.qty, a.px) /\ open' = Replaced(o, a.oid, a.qty, a.px)
        /\ raced' = raced + a.was - open[o].rem
        /\ UNCHANGED <<kind, row, agg, day, seeded, figure, used, today, stake, flying, traded,
                       spent, found>>

\* The arm reports the replacement's id ended: the row drops the hold.
ModifyRefused(o) ==
    /\ rest[o] # None /\ rest[o].ask # None
    /\ rest' = [rest EXCEPT ![o].ask = None]
    /\ UNCHANGED <<kind, row, agg, day, seeded, figure, used, today, flying>>
    /\ UNCHANGED venue /\ UNCHANGED history

\* What of order o the ledger has yet to book.
Unbooked(o) ==
    FoldSeq(LAMBDA f, n : IF f.oid = o THEN n + f.qty ELSE n, 0, flying)

\* An order the venue ended leaves the table: on a queued arm's retirement,
\* which comes behind its fills, or on the other arm's answer to the cancel,
\* which may come before them.
Retire(o) ==
    /\ rest[o] # None /\ open[o] = None
    /\ kind # "perp" => Unbooked(o) = 0
    /\ rest' = [rest EXCEPT ![o] = None]
    /\ raced' = raced + Unbooked(o)
    /\ UNCHANGED <<kind, row, agg, day, seeded, figure, used, today, flying, found>>
    /\ UNCHANGED venue

----------------------------------------------------------------------------
(* Fills and marks. *)

\* book_instrument_fill, after book_fill has rolled the day to its stamp.
BookFill ==
    LET f == Head(flying)
        r == row[f.sym]
        d == RollDay(day, f.day)
        rem == rest[f.oid].rem - f.qty
    IN  /\ flying # <<>> /\ seeded
        /\ \/ /\ f.oid = 0    \* a settlement
              /\ Refreshes(f.sym, [r EXCEPT !.pos = 0])
              /\ day' = d /\ rest' = rest
           \/ /\ f.oid # 0
              /\ Refreshes(f.sym, [r EXCEPT !.pos = @ + Signed(f.buy, f.qty), !.last = f.px])
              /\ day' = Spend(d, Opening(r.pos, f.buy, f.qty) * f.px)
              /\ rest' = IF rest[f.oid] = None THEN rest
                         ELSE IF rem <= 0 THEN [rest EXCEPT ![f.oid] = None]
                              ELSE [rest EXCEPT ![f.oid].rem = rem]
        /\ flying' = Tail(flying)
        /\ UNCHANGED <<kind, seeded, figure, used, today>>
        /\ UNCHANGED venue /\ UNCHANGED history

\* A sane venue mark; a perp row takes none.
OnMark(s, m) ==
    /\ kind # "perp"
    /\ Refreshes(s, [row[s] EXCEPT !.mark = m, !.old = FALSE])
    /\ UNCHANGED <<kind, rest, day, seeded, figure, used, today, flying>>
    /\ UNCHANGED venue /\ UNCHANGED history

\* No mark of s comes for MARK_STALE_NS.
MarkAges(s) ==
    /\ row[s].mark > 0 /\ ~row[s].old
    /\ row' = [row EXCEPT ![s].old = TRUE]
    /\ UNCHANGED <<kind, agg, rest, day, seeded, figure, used, today, flying>>
    /\ UNCHANGED venue /\ UNCHANGED history

\* expire_marks: every row whose mark is old, one after the other.
ExpireMarks ==
    LET old == {s \in Syms : row[s].mark > 0 /\ row[s].old}
        n == FoldSet(LAMBDA s, acc :
                        Refresh(acc.rows, acc.sums, s, [acc.rows[s] EXCEPT !.mark = 0]),
                     [rows |-> row, sums |-> agg], old)
    IN  /\ old # {}
        /\ row' = n.rows /\ agg' = n.sums
        /\ UNCHANGED <<kind, rest, day, seeded, figure, used, today, flying>>
        /\ UNCHANGED venue /\ UNCHANGED history

----------------------------------------------------------------------------
(* The venue: external. *)

\* A reduce-only order trades no more than the position it reduces.
MayTrade(o, q) ==
    /\ q <= open[o].rem
    /\ open[o].reduce => Opening(stake[open[o].sym], open[o].buy, q) = 0

VenueTrades(o, q) ==
    LET v == open[o]
        rem == v.rem - q
    IN  /\ v # None /\ MayTrade(o, q)
        /\ open' = [open EXCEPT ![o] = IF rem = 0 THEN None
                                       ELSE [v EXCEPT !.rem = rem, !.done = @ + q]]
        /\ stake' = [stake EXCEPT ![v.sym] = @ + Signed(v.buy, q)]
        /\ flying' = Append(flying, [oid |-> o, sym |-> v.sym, buy |-> v.buy, qty |-> q,
                                     px |-> v.px, day |-> today])
        /\ traded' = [traded EXCEPT ![today] = @ + q * v.px]
        /\ spent' = [spent EXCEPT ![today] = @ + Opening(stake[v.sym], v.buy, q) * v.px]
        /\ UNCHANGED <<kind, used, today>> /\ UNCHANGED ledger /\ UNCHANGED history

\* Cancelled, expired, or swept by the boot.
VenueEnds(o) ==
    /\ open[o] # None
    /\ open' = [open EXCEPT ![o] = None]
    /\ UNCHANGED <<kind, used, today, flying, stake, traded, spent>>
    /\ UNCHANGED ledger /\ UNCHANGED history

\* A delivery closes the position of an instrument no order works on.
VenueSettles(s) ==
    /\ kind = "linear" /\ stake[s] # 0
    /\ \A o \in OpenAt : open[o].sym # s
    /\ stake' = [stake EXCEPT ![s] = 0]
    /\ flying' = Append(flying, [oid |-> 0, sym |-> s, buy |-> stake[s] < 0,
                                 qty |-> Abs(stake[s]), px |-> 0, day |-> today])
    /\ UNCHANGED <<kind, used, today, open, traded, spent>>
    /\ UNCHANGED ledger /\ UNCHANGED history

Midnight ==
    /\ today < MaxDay /\ today' = today + 1
    /\ UNCHANGED <<kind, used, flying>>
    /\ UNCHANGED ledger /\ UNCHANGED venue /\ UNCHANGED history

\* What the environment chooses, from the sets given.
Submits(syms, qtys, prices) ==
    \E s \in syms, q \in qtys, px \in prices, buy, reduce \in BOOLEAN, stamp \in {0, today} :
        Submit(s, q, buy, px, reduce, stamp)
Matches == \E o \in Oids, q \in Qtys : VenueTrades(o, q)
Ends == \E o \in Oids : VenueEnds(o)
Retires == \E o \in Oids : Retire(o)
Seeds(prices) == \E px \in prices, read \in 1 .. MaxDay : Seed(px, read)

Asks(qtys, prices) ==
    \E o \in Oids, q \in qtys, px \in prices, stamp \in {0, today} : Modify(o, q, px, stamp)
Lands == \E o \in Oids : ModifyLands(o)
Refusals == \E o \in Oids : ModifyRefused(o)

Arrivals(syms, prices) == \E s \in syms, m \in prices : OnMark(s, m)
Ageing == \E s \in Syms : MarkAges(s)
Settlements == \E s \in Syms : VenueSettles(s)

Trades == Matches \/ Ends \/ Retires \/ BookFill
Modifies == Lands \/ Refusals
Marks == Ageing \/ Settlements \/ ExpireMarks
Days == Midnight \/ Restart \/ Reoffer

Next == \/ Submits(Syms, Qtys, Prices) \/ Trades \/ Seeds(Prices)
        \/ Asks(Qtys, Prices) \/ Modifies
        \/ Arrivals(Syms, Prices) \/ Marks
        \/ Days

Spec == Init /\ [][Next]_vars

----------------------------------------------------------------------------
(* What the clamps promise. *)

\* The most a position can become if the orders working on one side fill.
Worst(s) ==
    LET side(buy) == FoldSet(LAMBDA o, n : n + open[o].rem, 0,
                             {o \in OpenAt : open[o].sym = s /\ open[o].buy = buy})
    IN  Max({Abs(stake[s] + side(TRUE)), Abs(stake[s] - side(FALSE)), Abs(stake[s])})

\* Whatever the working orders do, a perp slot's position in any perp stays
\* inside cap_perp, and a B'4 perp's inside the stated worst case cap_instance
\* + max_open_orders x max_order (judge_perp) - except for a position the boot
\* already found, and for what filled unseen by the clamps: of an order behind
\* its modify, or between a cancel's answer and its last fills.
NeverOverCap ==
    seeded => \A s \in Syms :
        CASE kind = "gateway" -> Worst(s) <= CapPerp + raced
          [] kind = "perp" -> Worst(s) <= Larger(CapInstance, found) + MaxOpen * MaxOrder + raced
          [] OTHER -> TRUE

\* A cap never blocks an exit: with a free place, an order that only reduces
\* what the slot holds, its working orders on that side counted, passes every
\* clamp - no mark, the day spent, the caps passed (a B'4 perp's carries
\* REDUCE_ONLY).
NeverTrapped ==
    seeded /\ HasPlace(0) => \A s \in Syms, q \in Qtys, px \in Prices, buy \in BOOLEAN :
        LET left == row[s].pos + Signed(buy, WorkingOn(s, buy, 0, TRUE))
            held == IF kind = "perp" THEN row[s].pos ELSE left
        IN  Opposes(row[s].pos, buy) /\ Opposes(held, buy) /\ q <= Abs(held)
                => RiskCheck(s, q, buy, px, TRUE, 0, today).ok

\* The day cap never reads less than was spent: a seeded slot's turnover
\* covers the opening notional of every fill of the ledger's day it has been
\* told of, over late fills, unstamped orders, a stale figure and - where the
\* arm reports the venue's own figure - restarts.
DayIsCovered ==
    seeded /\ day.epoch # 0 =>
        day.turnover >= spent[day.epoch]
            - FoldSeq(LAMBDA f, n : IF f.day = day.epoch THEN n + f.qty * f.px ELSE n, 0, flying)

\* The two sums the clamps read are the rows' own, whatever order fills,
\* marks, expiries and settlements come in: refresh_instrument.
AggregatesAreExact ==
    /\ agg.exp = FoldSet(LAMBDA s, n : n + ExposureCtx(row[s]), 0, Syms)
    /\ agg.unmarked = Cardinality({s \in Syms : /\ row[s].pos # 0 /\ row[s].mark = 0
                                                  /\ kind # "perp"})

\* "Reduces the position without crossing zero, however the working orders on
\* its side fill" (probe, of an order it passes as an exit): once the day's cap
\* has no room for any order, only exits pass, so no fill opens a position.
SpentDayOpensNothing ==
    (\A q \in Qtys, px \in Prices : q * px > CapDay) => \A d \in 1 .. MaxDay : spent[d] = 0
=============================================================================
