------------------------------ MODULE MCParts ------------------------------
(***************************************************************************)
(* The parts the others are built on - the ring, the mailbox, the snapshot *)
(* cell and a gateway's order desk - checked side by side: a behaviour     *)
(* exercises one of them while the others rest.                            *)
(***************************************************************************)
EXTENDS SpscRing, Desk

CONSTANTS Parts, Messages,              \* Mailbox
          Words, Targets, MaxPublishes  \* SnapshotCell

ASSUME PartsAssumption ==
    /\ Parts # {} /\ NoValue \notin Messages
    /\ Words # {} /\ Targets \subseteq {"x86_64", "aarch64"} /\ MaxPublishes \in Nat

VARIABLES which,  \* the part at work
          boxState, boxSlot, boxTx, boxRx, boxLast,
          target, seq, data, writer, reader

Letters == INSTANCE Mailbox
             WITH state <- boxState, slot <- boxSlot, tx <- boxTx, rx <- boxRx, last <- boxLast
Cell == INSTANCE SnapshotCell

boxVars == <<boxState, boxSlot, boxTx, boxRx, boxLast>>
cellVars == <<target, seq, data, writer, reader>>
mcvars == <<which, vars, boxVars, cellVars, laneVars>>

MCInit ==
    /\ which \in {"ring", "box", "cell", "desk"}
    /\ Init /\ Letters!Init /\ Cell!Init /\ LaneInit
    /\ which # "cell" => target = "x86_64"
    /\ which # "desk" => spot

InRing(A) == which = "ring" /\ A /\ UNCHANGED <<which, boxVars, cellVars, laneVars>>
InBox(A) == which = "box" /\ A /\ UNCHANGED <<which, vars, cellVars, laneVars>>
InCell(A) == which = "cell" /\ A /\ UNCHANGED <<which, vars, boxVars, laneVars>>
InDesk(A) == which = "desk" /\ A /\ UNCHANGED <<which, vars, boxVars, cellVars>>

\* The next-state relation of each, action by action.
MCNext ==
    \/ InRing(TryPush) \/ InRing(RefreshTail) \/ InRing(CopySlot) \/ InRing(Publish)
    \/ InRing(TryPop) \/ InRing(RefreshHead) \/ InRing(DropGuard) \/ InRing(ForgetGuard)
    \/ InBox(Letters!TryFill) \/ InBox(Letters!WritePart)
    \/ InBox(Letters!Commit) \/ InBox(Letters!Abandon)
    \/ InBox(Letters!TryTake) \/ InBox(Letters!FreeTaken) \/ InBox(Letters!Keep)
    \/ InCell(Cell!Enter) \/ InCell(Cell!EntryVisible)
    \/ InCell(Cell!WriteWord) \/ InCell(Cell!Exit)
    \/ InCell(Cell!LoadSeq) \/ InCell(Cell!ReadWord) \/ InCell(Cell!Revalidate)
    \/ InDesk(Post) \/ InDesk(AskReplace)
    \/ \E s \in {0, 1} :
         \/ InDesk(Opened(s)) \/ InDesk(OpenedInQuiet(s))
         \/ InDesk(SocketFails(s))
         \/ InDesk(\E id \in wire[s] : VenueAnswers(s, id))
         \/ \E ok \in BOOLEAN : InDesk(\E id \in back[s] : OnAnswer(s, id, ok))
    \/ InDesk(\E id \in timers : RequestDue(id))
    \/ \E over \in SUBSET {0, 1}, ready, dials \in BOOLEAN :
         InDesk(Drive(over, ready, dials))

\* The fairness of SnapshotCell and of Desk, each where it is at work.
MCFairness ==
    /\ WF_mcvars(InCell(Cell!WriteWord)) /\ WF_mcvars(InCell(Cell!Exit))
    /\ WF_mcvars(InCell(Cell!Reader))
    /\ WF_mcvars(InDesk(Drive({}, TRUE, TRUE)))
    /\ \A s \in {0, 1} : WF_mcvars(InDesk(Drive({s}, FALSE, FALSE)))
    /\ SF_mcvars(InDesk(\E s \in {0, 1} : Opened(s)))
    /\ \A verb \in {"logon", "subscribe"} :
         SF_mcvars(InDesk(Answers(verb))) /\ SF_mcvars(InDesk(Accepted(verb)))

MCSpec == MCInit /\ [][MCNext]_mcvars /\ MCFairness

\* Mailbox: a Taken guard always lends one whole committed message, never
\* what an abandoned fill left mixed into it.
TakenIsWhole == Letters!TakenIsWhole

\* Mailbox: a message is delivered once, whole, and only after it was
\* committed - a FIFO of capacity one.
ImplementsBox == Letters!ImplementsBox

\* SnapshotCell: where stores stay in program order, what read() returns is
\* one whole published snapshot, the one its version names.
NoTornRead == Cell!NoTornRead

\* SnapshotCell: on every machine a copy can straddle one publish, never
\* more.
TearsSpanOnePublish == Cell!TearsSpanOnePublish

\* SnapshotCell: a read under way returns once the writer leaves it alone.
ReadReturns == Cell!ReadReturns

\* Desk: a lane with no active session, or with one that must be replaced, gets
\* a session that carries its posts, unless the table of requests is full again
\* and again.
LaneIsRestored == which = "desk" => SessionIsRestored
=============================================================================
