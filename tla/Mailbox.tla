------------------------------- MODULE Mailbox -------------------------------
(***************************************************************************)
(* core-ring's Mailbox: one slot handed between two threads by its state   *)
(* word.  FREE, the producer owns it and fills it in place; FULL, the      *)
(* consumer owns it.  A message is written in parts, so a slot can hold a  *)
(* mixture of an abandoned fill and a new one until the fill is complete.  *)
(***************************************************************************)
EXTENDS Integers, Sequences

CONSTANTS Parts,     \* the words of the message
          Messages,  \* the messages; a part of message m reads m
          NoValue    \* what the boxed slot holds at boot; no message

VARIABLES state,   \* Mailbox::state
          slot,    \* the boxed message, part by part
          tx,      \* the producer: pc, the message it is writing, parts written
          rx,      \* the consumer: pc
          last     \* history: the message most recently taken and freed

vars == <<state, slot, tx, rx, last>>

Whole(m) == [p \in Parts |-> m]

Init ==
    /\ state = "FREE"
    /\ slot = Whole(NoValue)
    /\ tx = [pc |-> "idle", msg |-> NoValue, done |-> {}]
    /\ rx = "idle"
    /\ last = Whole(NoValue)

----------------------------------------------------------------------------
\* MailboxTx::try_fill lends the slot only while it is FREE.
TryFill ==
    /\ tx.pc = "idle"
    /\ state = "FREE"
    /\ \E m \in Messages : tx' = [pc |-> "filling", msg |-> m, done |-> {}]
    /\ UNCHANGED <<state, slot, rx, last>>

\* One write through Filling::deref_mut.
WritePart ==
    /\ tx.pc = "filling"
    /\ \E p \in Parts \ tx.done :
         /\ slot' = [slot EXCEPT ![p] = tx.msg]
         /\ tx' = [tx EXCEPT !.done = @ \cup {p}]
    /\ UNCHANGED <<state, rx, last>>

\* Filling::commit, by a producer that has written the whole message.
Commit ==
    /\ tx.pc = "filling"
    /\ tx.done = Parts
    /\ state' = "FULL"
    /\ tx' = [tx EXCEPT !.pc = "idle"]
    /\ UNCHANGED <<slot, rx, last>>

\* Mutant: a fill dropped uncommitted hands the slot over.
MutAbandonHandsOver ==
    /\ tx.pc = "filling"
    /\ state' = "FULL"
    /\ tx' = [tx EXCEPT !.pc = "idle"]
    /\ UNCHANGED <<slot, rx, last>>

\* A Filling dropped without commit: the slot stays FREE, holding whatever
\* was written.
Abandon ==
    /\ tx.pc = "filling"
    /\ tx' = [tx EXCEPT !.pc = "idle"]
    /\ UNCHANGED <<state, slot, rx, last>>

----------------------------------------------------------------------------
\* MailboxRx::try_take lends the slot only while it is FULL.
TryTake ==
    /\ rx = "idle"
    /\ state = "FULL"
    /\ rx' = "taken"
    /\ UNCHANGED <<state, slot, tx, last>>

\* Taken::drop
FreeTaken ==
    /\ rx = "taken"
    /\ state' = "FREE"
    /\ rx' = "idle"
    /\ last' = slot
    /\ UNCHANGED <<slot, tx>>

\* Mutant: a guard put back frees the slot.
MutKeepFrees ==
    /\ rx = "taken"
    /\ rx' = "idle"
    /\ state' = "FREE"
    /\ UNCHANGED <<slot, tx, last>>

\* Taken::keep forgets the guard: the slot stays FULL, to be taken again.
Keep ==
    /\ rx = "taken"
    /\ rx' = "idle"
    /\ UNCHANGED <<state, slot, tx, last>>

Next ==
    \/ TryFill \/ WritePart \/ Commit \/ Abandon
    \/ TryTake \/ FreeTaken \/ Keep

Spec == Init /\ [][Next]_vars

----------------------------------------------------------------------------
\* The state word, the slot and the two threads keep their types.
TypeOK ==
    /\ state \in {"FREE", "FULL"}
    /\ slot \in [Parts -> Messages \cup {NoValue}]
    /\ tx \in [pc : {"idle", "filling"}, msg : Messages \cup {NoValue}, done : SUBSET Parts]
    /\ rx \in {"idle", "taken"}
    /\ last \in [Parts -> Messages \cup {NoValue}]

\* A Taken guard always lends one whole committed message, never what an
\* abandoned fill left mixed into it.
TakenIsWhole == rx = "taken" => \E m \in Messages : slot = Whole(m)

\* A message is delivered once, whole, and only after it was committed: the
\* mailbox is a FIFO of capacity one whose Put is Commit and whose Take is
\* the drop of a Taken; keep() and an abandoned fill change nothing.
Box == INSTANCE BoundedFifo
         WITH Cap <- 1, Values <- {Whole(m) : m \in Messages}, NoValue <- Whole(NoValue),
              q <- IF state = "FULL" THEN <<slot>> ELSE <<>>
ImplementsBox == Box!Spec
=============================================================================
