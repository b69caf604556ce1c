---------------------------- MODULE RestingTable ----------------------------
(***************************************************************************)
(* The ledger's resting table: the orders the router believes are working  *)
(* at the venue, a count and a notional per slot that the clamps read, and *)
(* a high-water mark every scan stops at.  A queued modify is HELD on its  *)
(* row (`ask') until the arm confirms or refuses it; meanwhile the row     *)
(* counts at the larger of its two sizes and the higher of its two prices. *)
(*                                                                         *)
(* The operators below map a table to a table, one per method of Ledger,   *)
(* so that a handler which calls several of them is one step.              *)
(***************************************************************************)
EXTENDS Integers, FiniteSets, FiniteSetsExt

CONSTANTS LEDGER_RESTING,     \* rows in the table
          INST_EXPOSURE_MAX,  \* the largest notional of one order
          Scale,              \* the 1e6 of the fixed-point quantities
          Slots, Oids, Syms, Sides,
          Qtys, Prices,       \* what an order may ask
          NoRow,              \* a free row
          NoOid,              \* client_oid 0
          MaxLost             \* bound: orders the full table could not hold

ASSUME RestingAssumption ==
    /\ LEDGER_RESTING \in Nat
    /\ INST_EXPOSURE_MAX \in Nat
    /\ Scale \in Nat \ {0}
    /\ IsFiniteSet(Slots)
    /\ Qtys \subseteq Nat \ {0} /\ Prices \subseteq Nat \ {0}
    /\ NoOid \notin Oids
    /\ MaxLost \in Nat

Index == 0 .. LEDGER_RESTING - 1

NoAsk == [oid |-> NoOid, qty |-> 0, px |-> 0]

\* RestingOrder with its four side arrays
Order == [oid : Oids, slot : Slots, sym : Syms, side : Sides, rem : Nat, px : Nat,
          ask : [oid : Oids \cup {NoOid}, qty : Nat, px : Nat]]

ASSUME NoRowIsNoOrder == NoRow \notin Order

Larger(a, b) == IF a < b THEN b ELSE a

\* mul_1e6: clamped to [0, INST_EXPOSURE_MAX]
Mul(a, b) ==
    LET p == (a * b) \div Scale
    IN  IF p > INST_EXPOSURE_MAX THEN INST_EXPOSURE_MAX ELSE p

\* resting_term, with resting_qty
Term(r) == Mul(Larger(r.rem, r.ask.qty), Larger(r.px, r.ask.px))

EmptyTable ==
    [row   |-> [i \in Index |-> NoRow],
     hi    |-> 0,
     count |-> [s \in Slots |-> 0],
     usd   |-> [s \in Slots |-> 0]]

LiveRows(t) == {i \in Index : t.row[i] # NoRow}
RowsOf(t, s) == {i \in LiveRows(t) : t.row[i].slot = s}
NotionalOf(t, S) == MapThenSumSet(LAMBDA i : Term(t.row[i]), S)

----------------------------------------------------------------------------
\* Mutant: the key is the client id alone.
MutKeyIsOid(t, o, s) == {i \in 0 .. t.hi - 1 : t.row[i] # NoRow /\ t.row[i].oid = o}

\* Mutant: the scan stops one row short of the mark.
MutScanStopsShort(t, o, s) ==
    {i \in 0 .. t.hi - 2 : t.row[i] # NoRow /\ t.row[i].oid = o /\ t.row[i].slot = s}

\* locate: the rows below the mark under one (client_oid, slot) key.  One
\* row is a match; none and many are told apart by the callers.
Located(t, o, s) ==
    {i \in 0 .. t.hi - 1 : t.row[i] # NoRow /\ t.row[i].oid = o /\ t.row[i].slot = s}

IsOne(S) == \E i \in S : S = {i}
TheOne(S) == CHOOSE i \in S : TRUE

\* Row i becomes r, of the same slot; its slot's sum moves by the
\* difference (resting_reterm).
Reterm(t, i, r) ==
    [t EXCEPT !.row[i] = r,
              !.usd[r.slot] = @ - Term(t.row[i]) + Term(r)]

\* Where the mark lands when it falls from end: past the whole run of free
\* rows below it.
FallTo(row, end) ==
    CHOOSE e \in 0 .. end :
        /\ \A j \in e .. end - 1 : row[j] = NoRow
        /\ e > 0 => row[e - 1] # NoRow

\* release, of every row in S: the rows go with their counts and notional,
\* and the mark falls only when the row just below it is one of them.
Release(t, S) ==
    LET row == [i \in Index |-> IF i \in S THEN NoRow ELSE t.row[i]]
    IN  [row   |-> row,
         hi    |-> IF t.hi - 1 \in S THEN FallTo(row, t.hi - 1) ELSE t.hi,
         count |-> [s \in Slots |-> Larger(t.count[s] - Cardinality(S \cap RowsOf(t, s)), 0)],
         usd   |-> [s \in Slots |-> t.usd[s] - NotionalOf(t, S \cap RowsOf(t, s))]]

\* occupy, by the first free row there is
Occupy(t, i, r) ==
    [t EXCEPT !.row[i] = r, !.hi = Larger(@, i + 1)]

----------------------------------------------------------------------------
\* The methods of Ledger

IsFull(t) == LiveRows(t) = Index

\* A full table still counts the order, for good: fail closed.
OnSubmit(t, o, s, y, d, q, p) ==
    IF IsFull(t)
    THEN [t EXCEPT !.count[s] = @ + 1, !.usd[s] = @ + Mul(q, p)]
    ELSE LET r == [oid |-> o, slot |-> s, sym |-> y, side |-> d, rem |-> q, px |-> p,
                   ask |-> NoAsk]
         IN  [Occupy(t, Min(Index \ LiveRows(t)), r)
                EXCEPT !.count[s] = @ + 1, !.usd[s] = @ + Term(r)]

OnCancel(t, o, s) ==
    LET hit == Located(t, o, s)
    IN  IF IsOne(hit) THEN Release(t, hit) ELSE t

\* An arm's confirmed end of order o: its row goes; if no row has that id
\* it may be the replacement of a refused modify, and the first row holding
\* it drops the hold.
OnRetired(t, o, s) ==
    LET hit == Located(t, o, s)
        held == {i \in 0 .. t.hi - 1 : /\ t.row[i] # NoRow
                                       /\ t.row[i].ask.oid = o
                                       /\ t.row[i].slot = s}
    IN  CASE IsOne(hit) -> Release(t, hit)
          [] hit = {} /\ o # NoOid /\ held # {} ->
                Reterm(t, Min(held), [t.row[Min(held)] EXCEPT !.ask = NoAsk])
          [] OTHER -> t

\* Mutant: the row is renamed, its sum is not moved.
MutOnModifyKeepsAsk(t, prev, o, s, y, d, q, p) ==
    LET hit == Located(t, prev, s)
        i == TheOne(hit)
    IN  CASE IsOne(hit) ->
                [t EXCEPT !.row[i] = [@ EXCEPT !.oid = o, !.rem = q, !.sym = y, !.side = d,
                                               !.px = IF p > 0 THEN p ELSE @, !.ask = NoAsk]]
          [] hit = {} -> OnSubmit(t, o, s, y, d, q, p)
          [] OTHER -> t

\* A confirmed replacement.  Price 0 is "the price the modify asked", else
\* the row keeps its own.  An order the table does not hold is tracked.
OnModify(t, prev, o, s, y, d, q, p) ==
    LET hit == Located(t, prev, s)
        r == t.row[TheOne(hit)]
        px == CASE p > 0 -> p
                [] p = 0 /\ r.ask.px > 0 -> r.ask.px
                [] OTHER -> r.px
    IN  CASE IsOne(hit) ->
                Reterm(t, TheOne(hit), [r EXCEPT !.oid = o, !.rem = q, !.sym = y,
                                                 !.side = d, !.px = px, !.ask = NoAsk])
          [] hit = {} -> OnSubmit(t, o, s, y, d, q, p)
          [] OTHER -> t

\* A queued arm took a modify: hold it on the row.
OnModifyAsked(t, prev, o, s, q, p) ==
    LET hit == Located(t, prev, s)
        i == TheOne(hit)
    IN  IF IsOne(hit)
        THEN Reterm(t, i, [t.row[i] EXCEPT !.ask = [oid |-> o, qty |-> q, px |-> p]])
        ELSE t

\* consume_resting: a fill of quantity q
ConsumeResting(t, o, s, q) ==
    LET hit == Located(t, o, s)
        i == TheOne(hit)
    IN  CASE IsOne(hit) /\ t.row[i].rem <= q -> Release(t, hit)
          [] IsOne(hit) /\ t.row[i].rem > q -> Reterm(t, i, [t.row[i] EXCEPT !.rem = @ - q])
          [] OTHER -> t

\* The venue confirmed it holds nothing of slot s: its rows go, with the
\* orders the table could not hold.
ClearRestingSlot(t, s) ==
    [Release(t, RowsOf(t, s)) EXCEPT !.count[s] = 0, !.usd[s] = 0]

\* An instance ended: every slot's orders on its two legs go.
DropRestingOn(t, legs) == Release(t, {i \in LiveRows(t) : t.row[i].sym \in legs})

----------------------------------------------------------------------------
VARIABLES table,  \* Ledger::resting, resting_hi, resting_by_slot, resting_usd
          lost,   \* history: per slot, how many orders were accepted while
                  \* the table was full, and their notional
          by      \* history: the slots the last call acted for

vars == <<table, lost, by>>

Init ==
    /\ table = EmptyTable
    /\ lost = [s \in Slots |-> <<0, 0>>]
    /\ by = {}

\* A tracked order either takes a row or is lost to the full table.
Lose(s, q, p) ==
    /\ IsFull(table) => MapThenSumSet(LAMBDA r : lost[r][1], Slots) < MaxLost
    /\ lost' = IF IsFull(table)
               THEN [lost EXCEPT ![s] = <<@[1] + 1, @[2] + Mul(q, p)>>]
               ELSE lost

Submit(s) ==
    \E o \in Oids, y \in Syms, d \in Sides, q \in Qtys, p \in Prices :
        /\ table' = OnSubmit(table, o, s, y, d, q, p)
        /\ Lose(s, q, p)

Cancel(s) ==
    \E o \in Oids : table' = OnCancel(table, o, s) /\ UNCHANGED lost

Retire(s) ==
    \E o \in Oids \cup {NoOid} : table' = OnRetired(table, o, s) /\ UNCHANGED lost

\* The synchronous arm's modify (p > 0) and the queued arm's Renamed (p = 0)
Modify(s) ==
    \E prev, o \in Oids, y \in Syms, d \in Sides, q \in Qtys, p \in Prices \cup {0} :
        /\ table' = OnModify(table, prev, o, s, y, d, q, p)
        /\ IF Located(table, prev, s) = {} THEN Lose(s, q, p) ELSE UNCHANGED lost

ModifyAsked(s) ==
    \E prev, o \in Oids, q \in Qtys, p \in Prices :
        table' = OnModifyAsked(table, prev, o, s, q, p) /\ UNCHANGED lost

Fill(s) ==
    \E o \in Oids, q \in Qtys :
        table' = ConsumeResting(table, o, s, q) /\ UNCHANGED lost

ClearSlot(s) ==
    /\ table' = ClearRestingSlot(table, s)
    /\ lost' = [lost EXCEPT ![s] = <<0, 0>>]

Roll(y) == table' = DropRestingOn(table, {y}) /\ UNCHANGED lost

By(s, A) == A /\ by' = {s}

Next ==
    \/ \E s \in Slots :
         \/ By(s, Submit(s)) \/ By(s, Cancel(s)) \/ By(s, Retire(s)) \/ By(s, Modify(s))
         \/ By(s, ModifyAsked(s)) \/ By(s, Fill(s)) \/ By(s, ClearSlot(s))
    \/ \E y \in Syms : Roll(y) /\ by' = Slots

Spec == Init /\ [][Next]_vars

----------------------------------------------------------------------------
Table == [row : [Index -> Order \cup {NoRow}], hi : 0 .. LEDGER_RESTING,
          count : [Slots -> Nat], usd : [Slots -> Int]]

\* The table keeps its type: rows are free or hold an order of a known
\* slot, the mark is within the table and no count is negative.
TypeOK == table \in Table /\ lost \in [Slots -> Nat \X Nat] /\ by \subseteq Slots

\* Ledger::resting_hi_holds, the assertion debug builds make on every
\* lookup: no row from the mark up is live, and the mark is tight.
MarkHolds ==
    /\ \A i \in Index : i >= table.hi => table.row[i] = NoRow
    /\ table.hi > 0 => table.row[table.hi - 1] # NoRow

\* The mark holds, and a scan that stops at it finds what a pass over the
\* whole table would: a fill, a cancel or a rename never misses the row of
\* its order, and two rows under one key are still seen as two.
ScanSeesAll ==
    /\ MarkHolds
    /\ \A s \in Slots, o \in Oids :
         Located(table, o, s) = {i \in RowsOf(table, s) : table.row[i].oid = o}

\* What the clamps read never runs low: resting_by_slot is the slot's live
\* rows plus the orders the table could not hold, resting_usd the sum of
\* their terms, though both are only ever moved by differences.
SumsAreExact ==
    \A s \in Slots :
        /\ table.count[s] = Cardinality(RowsOf(table, s)) + lost[s][1]
        /\ table.usd[s] = NotionalOf(table, RowsOf(table, s)) + lost[s][2]

\* The key is (client_oid, slot): whatever one slot does, another slot's
\* rows, count and notional stay as they are, the same client ids or not.
SlotsAreSeparate ==
    [][\A s \in Slots \ by' :
             /\ \A i \in Index : \/ table'.row[i] = table.row[i]
                                \/ i \notin RowsOf(table, s) \cup RowsOf(table', s)
             /\ table'.count[s] = table.count[s]
             /\ table'.usd[s] = table.usd[s]]_vars
=============================================================================
