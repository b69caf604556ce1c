------------------------------ MODULE MCLedger ------------------------------
(***************************************************************************)
(* Model-checking harness for Ledger.  A behaviour looks at one part of    *)
(* the ledger, chosen at the start; the environment of the others rests.   *)
(***************************************************************************)
EXTENDS Ledger

CONSTANTS Focuses, One   \* One: the instrument a single-row behaviour trades

VARIABLE focus

mcvars == <<vars, focus>>

KindsOf(f) == CASE f = "clamps" -> {"gateway", "perp"}
                [] f = "marks" -> {"linear"}
                [] f = "days" -> Kinds
                [] f = "exits" -> {"linear"}

\* Only "marks" trades a second instrument or at a second price; only "clamps"
\* and "exits" more than one unit an order.
SymsIn == IF focus = "marks" THEN Syms ELSE {One}
PricesIn == IF focus = "marks" THEN Prices ELSE {Min(Prices)}
QtysIn == IF focus \in {"marks", "days"} THEN {1} ELSE Qtys

\* "marks" trades one order in all, over positions found at the lower price.
OrdersIn == IF focus = "marks" THEN 1 ELSE MaxOids
FoundAt == IF focus = "marks" THEN {Min(Prices)} ELSE Prices

MCInit ==
    /\ Init /\ focus \in Focuses
    /\ kind \in KindsOf(focus)
    /\ \A s \in Syms \ {One} : stake[s] = IF focus = "marks" THEN Max(Stakes) ELSE 0

Looks(focuses) == focus \in focuses

Orders == used < OrdersIn /\ Submits(SymsIn, QtysIn, PricesIn)

MCNext ==
    /\ \/ Orders \/ Trades \/ Seeds(FoundAt)
       \/ Looks({"clamps", "exits"}) /\ (Asks(QtysIn, PricesIn) \/ Modifies)
       \/ Looks({"clamps", "marks"}) /\ (Arrivals(SymsIn, PricesIn) \/ Marks)
       \/ Looks({"days"}) /\ Days
    /\ UNCHANGED focus

MCSpec == MCInit /\ [][MCNext]_mcvars
=============================================================================
