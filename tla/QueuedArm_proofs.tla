-------------------------- MODULE QueuedArm_proofs --------------------------
(***************************************************************************)
(* The queued arm, for any orders, ring sizes and bursts.                  *)
(*                                                                         *)
(* None of the three properties of the arm is inductive, and they lean on  *)
(* each other: that a confirmed sweep may drop every row rests on the count*)
(* of unended orders never being too low, even when outputs were lost; the *)
(* count rests on an order being in one place at a time - the command ring,*)
(* the table, or one end event - and that on what a message of the venue   *)
(* says of its order; and that a retirement finds its fill booked rests on *)
(* the held queue keeping each fill ahead of its end.  ArmInv says these.  *)
(***************************************************************************)
EXTENDS QueuedArm, FiniteSetTheorems, SequenceTheorems, TLAPS

---------------------------------------------------------------------------
(* The invariant *)

Lives == {"new", "queued", "sent", "open", "filled", "gone"}
Ended(o) == life[o] \in {"filled", "gone"}
NoRepeat(s, e) == \A i, j \in DOMAIN s : s[i] = e /\ s[j] = e => i = j

Typed ==
  /\ cmd \in Seq(Commands) /\ evt \in Seq(Events)
  /\ lane \in Seq(Oids) /\ held \in Seq(Outputs)
  /\ oot \subseteq Oids /\ life \in [Oids -> Lives] /\ inbox \subseteq Messages
  /\ inFlight \in Nat /\ retired \subseteq Oids /\ lost \in BOOLEAN

\* The orders queued are the ones in the command ring, once each.
CmdOK ==
  \A o \in Oids : /\ Cmd("place", o) \in Items(cmd) <=> life[o] = "queued"
                  /\ NoRepeat(cmd, Cmd("place", o))

\* The table holds the orders sent that have not been seen to end.
OotOK ==
  \A o \in Oids : /\ life[o] \in {"sent", "open"} => o \in oot
                  /\ o \in oot => life[o] \in {"sent", "open", "filled", "gone"}

\* An order that has ended has one end on its way at most, and is in no table.
EndsAt(o) ==
  /\ Msg("end", o) \in Items(evt) \cup Items(held) => Ended(o) /\ o \notin oot
  /\ ~ (Msg("end", o) \in Items(evt) /\ Msg("end", o) \in Items(held))
  /\ NoRepeat(evt, Msg("end", o)) /\ NoRepeat(held, Msg("end", o))
  /\ o \in retired => Ended(o)
EndsOK == \A o \in Oids : EndsAt(o)

\* What the venue says of an order's end is so.
InboxOK ==
  \A o \in Oids : /\ Msg("fill", o) \in inbox => life[o] = "filled"
                  /\ Msg("reject", o) \in inbox \/ Msg("gone", o) \in inbox => life[o] = "gone"

\* In the held queue h, o's end is behind its fill, unless the fill left it for S.
Behind(h, o, S) ==
  \A j \in DOMAIN h : h[j] = Msg("end", o) => o \in S \/ \E i \in 1 .. j - 1 : h[i] = Msg("fill", o)

\* A fill is in the lane or booked before its order's end is in the event ring,
\* and booked once a tick has emptied the lane since.
Delivered == Items(lane) \cup booked
FillsAt(o) ==
  /\ o \in Items(lane) => life[o] = "filled"
  /\ Msg("fill", o) \in Items(held) => life[o] = "filled"
  /\ life[o] = "filled" =>
       /\ Msg("end", o) \in Items(evt) => o \in Delivered
       /\ Behind(held, o, Delivered)
       /\ o \in retired => /\ o \in Delivered
                           /\ ticked /\ ~ backlog => o \in booked
FillsOK == \A o \in Oids : FillsAt(o)

\* The count is never too low, and exact as long as no output was lost.
CountOK == inFlight >= Cardinality(Unended) /\ (~ lost => inFlight = Cardinality(Unended))

ArmInv == /\ Typed /\ CmdOK /\ OotOK /\ EndsOK /\ InboxOK /\ FillsOK /\ CountOK
          /\ RowsCoverVenue /\ early = {}

---------------------------------------------------------------------------
(* Sequences as rings *)

\* The items of a sequence, spelt out.
LEMMA InItems == ASSUME NEW s PROVE \A x : x \in Items(s) <=> \E i \in DOMAIN s : s[i] = x
BY DEF Items

\* What Append adds.
LEMMA Appended ==
  ASSUME NEW S, NEW s \in Seq(S), NEW e \in S
  PROVE  /\ Append(s, e) \in Seq(S) /\ Items(Append(s, e)) = Items(s) \cup {e}
         /\ DOMAIN s = 1 .. Len(s) /\ Len(s) \in Nat
         /\ DOMAIN Append(s, e) = 1 .. Len(s) + 1
         /\ \A i \in 1 .. Len(s) : Append(s, e)[i] = s[i]
         /\ Append(s, e)[Len(s) + 1] = e
<1>1. /\ Append(s, e) \in Seq(S) /\ DOMAIN s = 1 .. Len(s) /\ Len(s) \in Nat
      /\ DOMAIN Append(s, e) = 1 .. Len(s) + 1
      /\ \A i \in 1 .. Len(s) : Append(s, e)[i] = s[i]
      /\ Append(s, e)[Len(s) + 1] = e
  BY AppendProperties, LenProperties
<1>2. ASSUME NEW x PROVE x \in Items(Append(s, e)) <=> x \in Items(s) \cup {e}
  <2>1. /\ x \in Items(Append(s, e)) <=> \E i \in 1 .. Len(s) + 1 : Append(s, e)[i] = x
        /\ x \in Items(s) <=> \E i \in 1 .. Len(s) : s[i] = x
    BY <1>1, Zenon DEF Items
  <2>2. QED BY <1>1, <2>1
<1>3. QED BY <1>1, <1>2

\* What Tail takes away.
LEMMA Tailed ==
  ASSUME NEW S, NEW s \in Seq(S), s # <<>>
  PROVE  /\ Tail(s) \in Seq(S) /\ Head(s) \in S /\ Head(s) = s[1]
         /\ Items(s) = {Head(s)} \cup Items(Tail(s))
         /\ DOMAIN s = 1 .. Len(s) /\ Len(s) \in Nat /\ Len(s) > 0
         /\ DOMAIN Tail(s) = 1 .. Len(s) - 1
         /\ \A i \in 1 .. Len(s) - 1 : Tail(s)[i] = s[i + 1]
<1>1. /\ Tail(s) \in Seq(S) /\ Head(s) \in S /\ Head(s) = s[1]
      /\ DOMAIN s = 1 .. Len(s) /\ Len(s) \in Nat /\ Len(s) > 0
      /\ DOMAIN Tail(s) = 1 .. Len(s) - 1
      /\ \A i \in 1 .. Len(s) - 1 : Tail(s)[i] = s[i + 1]
  BY HeadTailProperties, LenProperties, EmptySeq
<1>2. ASSUME NEW x PROVE x \in Items(s) <=> x \in {Head(s)} \cup Items(Tail(s))
  <2>1. ASSUME NEW i \in DOMAIN s, s[i] = x PROVE x \in {Head(s)} \cup Items(Tail(s))
    <3>1. CASE i = 1
      BY <1>1, <2>1, <3>1
    <3>2. CASE i # 1
      <4>1. i - 1 \in 1 .. Len(s) - 1 /\ Tail(s)[i - 1] = x
        BY <1>1, <2>1, <3>2
      <4>2. QED BY <1>1, <4>1, Zenon DEF Items
    <3>3. QED BY <3>1, <3>2
  <2>2. ASSUME x \in Items(Tail(s)) PROVE x \in Items(s)
    <3>1. PICK i \in 1 .. Len(s) - 1 : Tail(s)[i] = x
      BY <1>1, <2>2, Zenon DEF Items
    <3>2. i + 1 \in DOMAIN s /\ s[i + 1] = x
      BY <1>1, <3>1
    <3>3. QED BY <3>2, InItems
  <2>3. Head(s) \in Items(s)
    BY <1>1, InItems
  <2>4. QED BY <2>1, <2>2, <2>3, InItems
<1>3. QED BY <1>1, <1>2

\* An element appended once more does not repeat if it was not there.
LEMMA AppendOnce ==
  ASSUME NEW S, NEW s \in Seq(S), NEW e \in S, NEW x, NoRepeat(s, x), x # e \/ x \notin Items(s)
  PROVE  NoRepeat(Append(s, e), x)
<1>1. CASE x # e
  BY <1>1, Appended DEF NoRepeat
<1>2. CASE x \notin Items(s)
  <2>1. \A i \in 1 .. Len(s) : s[i] # x
    BY <1>2, Appended, InItems
  <2>2. QED BY <2>1, Appended DEF NoRepeat
<1>3. QED BY <1>1, <1>2

\* What does not repeat leaves the sequence with its head.
LEMMA TailOnce ==
  ASSUME NEW S, NEW s \in Seq(S), s # <<>>, NEW x, NoRepeat(s, x)
  PROVE  NoRepeat(Tail(s), x) /\ (Head(s) = x => x \notin Items(Tail(s)))
<1>1. NoRepeat(Tail(s), x)
  <2> SUFFICES ASSUME NEW i \in 1 .. Len(s) - 1, NEW j \in 1 .. Len(s) - 1, Tail(s)[i] = x, Tail(s)[j] = x
               PROVE  i = j
    BY Tailed DEF NoRepeat
  <2>1. i + 1 \in DOMAIN s /\ j + 1 \in DOMAIN s /\ s[i + 1] = x /\ s[j + 1] = x /\ Len(s) \in Nat
    BY Tailed
  <2>2. i + 1 = j + 1
    BY <2>1 DEF NoRepeat
  <2>3. QED BY <2>1, <2>2
<1>2. ASSUME Head(s) = x, x \in Items(Tail(s)) PROVE FALSE
  <2>1. PICK i \in 1 .. Len(s) - 1 : Tail(s)[i] = x
    BY <1>2, Tailed, Zenon DEF Items
  <2>2. i + 1 \in DOMAIN s /\ 1 \in DOMAIN s /\ s[i + 1] = x /\ s[1] = x /\ Len(s) \in Nat
    BY <1>2, <2>1, Tailed
  <2>3. i + 1 = 1
    BY <2>2 DEF NoRepeat
  <2>4. QED BY <2>2, <2>3
<1>3. QED BY <1>1, <1>2

\* Two items appended.
LEMMA AppendedTwo ==
  ASSUME NEW S, NEW s \in Seq(S), NEW x \in S, NEW y \in S
  PROVE  /\ Append(s, x) \in Seq(S) /\ Items(Append(Append(s, x), y)) = Items(s) \cup {x, y}
         /\ \A z : NoRepeat(s, z) /\ z # x /\ (z = y => z \notin Items(s))
                  => NoRepeat(Append(Append(s, x), y), z)
<1> DEFINE q == Append(s, x)
<1>1. q \in Seq(S) /\ Items(q) = Items(s) \cup {x}
  BY Appended
<1>2. ASSUME NEW z, NoRepeat(s, z), z # x PROVE NoRepeat(q, z)
  BY <1>2, AppendOnce
<1> HIDE DEF q
<1>3. Items(Append(q, y)) = Items(s) \cup {x, y}
  <2>1. Items(Append(q, y)) = Items(q) \cup {y}
    BY <1>1, Appended
  <2>2. QED BY <1>1, <2>1
<1>4. ASSUME NEW z, NoRepeat(s, z), z # x, z = y => z \notin Items(s)
      PROVE  NoRepeat(Append(q, y), z)
  <2>1. NoRepeat(q, z)
    BY <1>2, <1>4
  <2>2. z # y \/ z \notin Items(q)
    BY <1>1, <1>4, Zenon
  <2>3. QED BY <1>1, <2>1, <2>2, AppendOnce
<1>5. QED BY <1>1, <1>3, <1>4, Zenon DEF q

\* An order's end stays behind its fill when more is held back.
LEMMA BehindAppend ==
  ASSUME NEW h \in Seq(Outputs), NEW e \in Outputs, NEW o, NEW S, Behind(h, o, S),
         e # Msg("end", o) \/ o \in S \/ Msg("fill", o) \in Items(h)
  PROVE  Behind(Append(h, e), o, S)
<1>1. /\ Len(h) \in Nat /\ DOMAIN h = 1 .. Len(h) /\ DOMAIN Append(h, e) = 1 .. Len(h) + 1
      /\ \A i \in 1 .. Len(h) : Append(h, e)[i] = h[i]
      /\ Append(h, e)[Len(h) + 1] = e
  BY Appended
<1> SUFFICES ASSUME NEW j \in 1 .. Len(h) + 1, Append(h, e)[j] = Msg("end", o), o \notin S
             PROVE  \E i \in 1 .. j - 1 : Append(h, e)[i] = Msg("fill", o)
  BY <1>1, Zenon DEF Behind
<1>2. CASE j \in 1 .. Len(h)
  <2>1. j \in DOMAIN h /\ h[j] = Msg("end", o)
    BY <1>1, <1>2, Zenon
  <2>2. PICK i \in 1 .. j - 1 : h[i] = Msg("fill", o)
    BY <2>1, Zenon DEF Behind
  <2>3. QED BY <1>1, <1>2, <2>2
<1>3. CASE j = Len(h) + 1
  <2>1. Msg("fill", o) \in Items(h)
    BY <1>1, <1>3, Zenon
  <2>2. PICK i \in DOMAIN h : h[i] = Msg("fill", o)
    BY <2>1, InItems, Zenon
  <2>3. QED BY <1>1, <1>3, <2>2
<1>4. QED BY <1>1, <1>2, <1>3

\* ... and when the front leaves: an order's fill for S, another one's anything.
LEMMA BehindTail ==
  ASSUME NEW h \in Seq(Outputs), h # <<>>, NEW o, NEW S, NEW T, Behind(h, o, S), S \subseteq T,
         Head(h) = Msg("fill", o) => o \in T
  PROVE  Behind(Tail(h), o, T)
<1> SUFFICES ASSUME NEW j \in 1 .. Len(h) - 1, Tail(h)[j] = Msg("end", o), o \notin T
             PROVE  \E i \in 1 .. j - 1 : Tail(h)[i] = Msg("fill", o)
  BY Tailed, Zenon DEF Behind
<1>1. /\ Len(h) \in Nat /\ DOMAIN h = 1 .. Len(h) /\ Head(h) = h[1]
      /\ \A i \in 1 .. Len(h) - 1 : Tail(h)[i] = h[i + 1]
  BY Tailed, Zenon
<1>2. j + 1 \in DOMAIN h /\ h[j + 1] = Msg("end", o)
  BY <1>1
<1>3. PICK i \in 1 .. (j + 1) - 1 : h[i] = Msg("fill", o)
  BY <1>2, Zenon DEF Behind
<1>4. i # 1
  BY <1>1, <1>3
<1>5. i - 1 \in 1 .. j - 1 /\ Tail(h)[i - 1] = Msg("fill", o)
  BY <1>1, <1>3, <1>4
<1>6. QED BY <1>5

---------------------------------------------------------------------------
(* The count *)

\* The orders counted are orders, so there are finitely many.
LEMMA UnendedFinite == IsFiniteSet(Unended) /\ Cardinality(Unended) \in Nat
<1>1. Unended \in SUBSET Oids
  BY Zenon DEF Unended
<1>2. IsFiniteSet(Unended)
  BY <1>1, QueuedAssumption, FS_Subset, Zenon
<1>3. QED BY <1>2, FS_CardinalityType, Zenon

\* A step that counts no order more, and none less unless an end is lost.
LEMMA CountKept ==
  ASSUME CountOK, inFlight \in Nat, inFlight' = inFlight, lost' = lost \/ lost' = TRUE,
         \A p \in Oids : p \in Unended' => p \in Unended,
         \A p \in Oids : p \in Unended => p \in Unended' \/ lost' = TRUE
  PROVE  CountOK'
<1>1. Unended' \subseteq Unended
  BY Zenon DEF Unended
<1>2. CASE lost' = TRUE
  <2>1. Cardinality(Unended') \in Nat /\ Cardinality(Unended') <= Cardinality(Unended)
        /\ Cardinality(Unended) \in Nat
    BY <1>1, UnendedFinite, FS_Subset, FS_CardinalityType
  <2>2. QED BY <1>2, <2>1 DEF CountOK
<1>3. CASE lost' # TRUE
  <2>1. Unended \subseteq Unended'
    BY <1>3, Zenon DEF Unended
  <2>2. Unended' = Unended
    BY <1>1, <2>1, Zenon
  <2>3. lost' = lost
    BY <1>3, Zenon
  <2>4. QED BY <2>2, <2>3, Zenon DEF CountOK
<1>4. QED BY <1>2, <1>3, Zenon

---------------------------------------------------------------------------
(* Outputs *)

\* What emitting e comes to: the event ring, the held queue, or nowhere.
OutStep(e) ==
  /\ lane' = lane
  /\ \/ held = <<>> /\ held' = held /\ evt' = Append(evt, e) /\ lost' = lost
     \/ held' = Append(held, e) /\ evt' = evt /\ lost' = lost
     \/ held' = held /\ evt' = evt /\ lost' = TRUE

\* What a fill and the end behind it come to.
FillStep(o) ==
  \/ /\ lane' = Append(lane, o) /\ held = <<>> /\ lost' = lost
     /\ \/ evt' = Append(evt, Msg("end", o)) /\ held' = held
        \/ evt' = evt /\ held' = Append(held, Msg("end", o))
  \/ /\ lane' = lane /\ evt' = evt
     /\ \/ held' = Append(Append(held, Msg("fill", o)), Msg("end", o)) /\ lost' = lost
        \/ held' = Append(held, Msg("fill", o)) /\ lost' = TRUE
        \/ held' = held /\ lost' = TRUE

OutTyped == evt \in Seq(Events) /\ held \in Seq(Outputs) /\ lane \in Seq(Oids) /\ lost \in BOOLEAN

\* Is an end of o on its way?
Ending(o) == Msg("end", o) \in Items(evt) \cup Items(held)

\* Emit is an OutStep.
LEMMA EmitIs == ASSUME NEW e, SetOut(Emit(Out, e)) PROVE OutStep(e)
BY Zenon DEF SetOut, Emit, Out, HoldBack, OutStep

\* A held queue just appended to is not empty, so the end goes behind the fill.
LEMMA FillIs ==
  ASSUME NEW o \in Oids, OutTyped, SetOut(Emit(OutFill(Out, o), Msg("end", o)))
  PROVE  FillStep(o)
<1>1. HeldCap \in Nat \ {0} /\ Len(<<>>) = 0
  BY QueuedAssumption
<1>2. Msg("fill", o) \in Outputs /\ held \in Seq(Outputs)
  BY DEF OutTyped, Outputs, Msg
<1>3. Append(held, Msg("fill", o)) # <<>>
  BY <1>2
<1>4. CASE held = <<>> /\ Len(lane) < LaneCap
  <2>1. Len(held) < HeldCap
    BY <1>1, <1>4
  <2>2. QED BY <1>4, <2>1, Zenon DEF SetOut, Emit, OutFill, Out, HoldBack, FillStep
<1>5. CASE ~ (held = <<>> /\ Len(lane) < LaneCap) /\ Len(held) < HeldCap
  BY <1>3, <1>5, Zenon DEF SetOut, Emit, OutFill, Out, HoldBack, FillStep
<1>6. CASE ~ (held = <<>> /\ Len(lane) < LaneCap) /\ ~ Len(held) < HeldCap
  <2>1. held # <<>>
    BY <1>1, <1>6
  <2>2. QED BY <1>6, <2>1, Zenon DEF SetOut, Emit, OutFill, Out, HoldBack, FillStep
<1>7. QED BY <1>4, <1>5, <1>6

\* Messages are outputs of their kinds.
LEMMA MsgTypes ==
  ASSUME NEW o \in Oids
  PROVE  Msg("end", o) \in Events /\ Msg("end", o) \in Outputs /\ Msg("fill", o) \in Outputs
BY DEF Msg, Events, Outputs

\* Messages differ in their kind or their order.
LEMMA MsgDiffer ==
  ASSUME NEW o, NEW p
  PROVE  /\ Msg("end", o) # Msg("fill", p) /\ (o # p => Msg("end", o) # Msg("end", p))
         /\ (o # p => Msg("fill", o) # Msg("fill", p))
BY DEF Msg

\* Events are outputs, and none is a fill.
LEMMA EventTypes ==
  ASSUME NEW e \in Events
  PROVE  e \in Outputs /\ \A o : e # Msg("fill", o)
BY DEF Msg, Events, Outputs

\* Outputs keep their types.
LEMMA OutTypes ==
  ASSUME OutTyped, NEW e \in Events, OutStep(e)
  PROVE  OutTyped' /\ (lost' = lost \/ lost' = TRUE)
<1>1. Append(evt, e) \in Seq(Events) /\ Append(held, e) \in Seq(Outputs)
  BY EventTypes, Appended DEF OutTyped
<1>2. QED BY <1>1, Zenon DEF OutTyped, OutStep

\* A fill and the end behind it keep the outputs' types too.
LEMMA FillTypes ==
  ASSUME OutTyped, NEW o \in Oids, FillStep(o)
  PROVE  OutTyped' /\ (lost' = lost \/ lost' = TRUE)
<1>1. /\ Append(evt, Msg("end", o)) \in Seq(Events) /\ Append(lane, o) \in Seq(Oids)
      /\ Append(held, Msg("end", o)) \in Seq(Outputs)
      /\ Append(held, Msg("fill", o)) \in Seq(Outputs)
  BY MsgTypes, Appended DEF OutTyped
<1>2. Append(Append(held, Msg("fill", o)), Msg("end", o)) \in Seq(Outputs)
  BY <1>1, MsgTypes, Appended
<1>3. QED BY <1>1, <1>2, Zenon DEF OutTyped, FillStep

\* The rings hold the same of order p after the step as before.
Same(p) ==
  /\ Msg("end", p) \in Items(evt') <=> Msg("end", p) \in Items(evt)
  /\ Msg("end", p) \in Items(held') <=> Msg("end", p) \in Items(held)
  /\ Msg("fill", p) \in Items(held') <=> Msg("fill", p) \in Items(held)
  /\ NoRepeat(evt, Msg("end", p)) => NoRepeat(evt', Msg("end", p))
  /\ NoRepeat(held, Msg("end", p)) => NoRepeat(held', Msg("end", p))
  /\ p \in Items(lane') <=> p \in Items(lane)
  /\ Behind(held, p, Delivered) => Behind(held', p, Delivered')

\* Nor does the step touch p elsewhere.
Frame(p) == life'[p] = life[p] /\ (p \in oot' => p \in oot)
            /\ UNCHANGED <<retired, booked, ticked, backlog>>

\* What OutStep, FillStep and the drain promise of an order they are not about.
LEMMA SameKept ==
  ASSUME NEW p \in Oids, EndsAt(p), FillsAt(p), Same(p), Frame(p)
  PROVE  EndsAt(p)' /\ FillsAt(p)' /\ (Ending(p)' <=> Ending(p))
<1>1. EndsAt(p)' /\ (Ending(p)' <=> Ending(p))
  BY Zenon DEF EndsAt, Same, Frame, Ended, Ending
<1>2. p \in Delivered' <=> p \in Delivered
  BY Zenon DEF Same, Frame, Delivered
<1>3. FillsAt(p)'
  BY <1>2, Zenon DEF FillsAt, Same, Frame
<1>4. QED BY <1>1, <1>3

\* An event that is not p's end.
LEMMA OutOther ==
  ASSUME NEW e \in Events, NEW p \in Oids, OutTyped, OutStep(e), e # Msg("end", p),
         EndsAt(p), FillsAt(p), Frame(p)
  PROVE  EndsAt(p)' /\ FillsAt(p)' /\ (Ending(p)' <=> Ending(p))
<1>1. /\ e \in Outputs /\ e # Msg("fill", p)
      /\ evt \in Seq(Events) /\ held \in Seq(Outputs)
  BY EventTypes, Zenon DEF OutTyped
<1>2. Items(Append(evt, e)) = Items(evt) \cup {e} /\ Items(Append(held, e)) = Items(held) \cup {e}
  BY <1>1, Appended
<1>3. /\ NoRepeat(evt, Msg("end", p)) => NoRepeat(Append(evt, e), Msg("end", p))
      /\ NoRepeat(held, Msg("end", p)) => NoRepeat(Append(held, e), Msg("end", p))
  BY <1>1, AppendOnce
<1>4. Delivered' = Delivered
  BY Zenon DEF OutStep, Frame, Delivered
<1>5. Behind(held, p, Delivered) => Behind(Append(held, e), p, Delivered)
  BY <1>1, BehindAppend
<1>6. Same(p)
  <2>1. CASE evt' = Append(evt, e) /\ held' = held
    BY <1>1, <1>2, <1>3, <1>4, <2>1, Zenon DEF Same, OutStep
  <2>2. CASE evt' = evt /\ held' = Append(held, e)
    BY <1>1, <1>2, <1>3, <1>4, <1>5, <2>2, Zenon DEF Same, OutStep
  <2>3. CASE evt' = evt /\ held' = held
    BY <1>4, <2>3, Zenon DEF Same, OutStep
  <2>4. QED BY <2>1, <2>2, <2>3, Zenon DEF OutStep
<1>7. QED BY <1>6, SameKept

\* The end of o, which was not filled: on its way, or lost.
LEMMA OutEnd ==
  ASSUME NEW o \in Oids, OutTyped, OutStep(Msg("end", o)), EndsAt(o), FillsAt(o), ~ Ending(o),
         life[o] # "filled", life'[o] = "gone", o \notin oot',
         UNCHANGED <<retired, booked, ticked, backlog>>
  PROVE  EndsAt(o)' /\ FillsAt(o)' /\ (Ending(o)' \/ lost' = TRUE)
<1> DEFINE e == Msg("end", o)
<1>1. /\ e \in Events /\ e \in Outputs /\ e # Msg("fill", o)
      /\ evt \in Seq(Events) /\ held \in Seq(Outputs) /\ e \notin Items(evt) /\ e \notin Items(held)
  BY MsgTypes, MsgDiffer, Zenon DEF OutTyped, Ending
<1>2. Items(Append(evt, e)) = Items(evt) \cup {e} /\ Items(Append(held, e)) = Items(held) \cup {e}
  BY <1>1, Appended
<1>3. NoRepeat(Append(evt, e), e) /\ NoRepeat(Append(held, e), e)
  BY <1>1, AppendOnce DEF EndsAt
<1>4. EndsAt(o)' /\ (Ending(o)' \/ lost' = TRUE)
  <2>1. CASE evt' = Append(evt, e) /\ held' = held
    BY <1>1, <1>2, <1>3, <2>1, Zenon DEF EndsAt, Ended, Ending
  <2>2. CASE evt' = evt /\ held' = Append(held, e)
    BY <1>1, <1>2, <1>3, <2>2, Zenon DEF EndsAt, Ended, Ending
  <2>3. CASE evt' = evt /\ held' = held /\ lost' = TRUE
    BY <1>1, <2>3, Zenon DEF EndsAt, Ended, Ending
  <2>4. QED BY <2>1, <2>2, <2>3, Zenon DEF OutStep
<1>5. o \notin Items(lane') /\ Msg("fill", o) \notin Items(held')
  <2>1. o \notin Items(lane) /\ Msg("fill", o) \notin Items(held)
    BY Zenon DEF FillsAt
  <2>2. held' = held \/ held' = Append(held, e)
    BY Zenon DEF OutStep
  <2>3. lane' = lane
    BY Zenon DEF OutStep
  <2>4. QED BY <1>1, <1>2, <2>1, <2>2, <2>3, Zenon
<1>6. life'[o] # "filled"
  OBVIOUS
<1>7. FillsAt(o)'
  BY <1>5, <1>6, Zenon DEF FillsAt
<1>8. QED BY <1>4, <1>7

\* The fill and the end of an order other than p.
LEMMA FillOther ==
  ASSUME NEW o \in Oids, NEW p \in Oids, OutTyped, FillStep(o), o # p,
         EndsAt(p), FillsAt(p), Frame(p)
  PROVE  EndsAt(p)' /\ FillsAt(p)' /\ (Ending(p)' <=> Ending(p))
<1> DEFINE e == Msg("end", o)
           f == Msg("fill", o)
<1>1. /\ e \in Events /\ e \in Outputs /\ f \in Outputs
      /\ e # Msg("fill", p) /\ e # Msg("end", p) /\ f # Msg("fill", p) /\ f # Msg("end", p)
      /\ evt \in Seq(Events) /\ held \in Seq(Outputs) /\ lane \in Seq(Oids)
  BY MsgTypes, MsgDiffer, Zenon DEF OutTyped
<1> HIDE DEF e, f
<1>2. /\ Items(Append(evt, e)) = Items(evt) \cup {e} /\ Items(Append(lane, o)) = Items(lane) \cup {o}
      /\ Items(Append(held, e)) = Items(held) \cup {e}
      /\ Items(Append(held, f)) = Items(held) \cup {f} /\ Append(held, f) \in Seq(Outputs)
  BY <1>1, Appended
<1>3. /\ Items(Append(Append(held, f), e)) = Items(held) \cup {f, e}
      /\ NoRepeat(held, Msg("end", p)) => NoRepeat(Append(Append(held, f), e), Msg("end", p))
  BY <1>1, AppendedTwo
<1>4. /\ NoRepeat(evt, Msg("end", p)) => NoRepeat(Append(evt, e), Msg("end", p))
      /\ NoRepeat(held, Msg("end", p)) => NoRepeat(Append(held, e), Msg("end", p))
      /\ NoRepeat(held, Msg("end", p)) => NoRepeat(Append(held, f), Msg("end", p))
  BY <1>1, AppendOnce
<1>5. Delivered' = Delivered \/ Delivered' = Delivered \cup {o}
  BY <1>2, Zenon DEF Delivered, Frame, FillStep
<1>6. p \in Delivered' <=> p \in Delivered
  BY <1>5
<1>7. Behind(held, p, Delivered) => Behind(held, p, Delivered')
  BY <1>6, Zenon DEF Behind
<1>8. /\ Behind(held, p, Delivered') => Behind(Append(held, e), p, Delivered')
      /\ Behind(held, p, Delivered') => Behind(Append(held, f), p, Delivered')
  BY <1>1, BehindAppend
<1>9. Behind(held, p, Delivered') => Behind(Append(Append(held, f), e), p, Delivered')
  <2> DEFINE q == Append(held, f)
  <2>1. q \in Seq(Outputs) /\ (Behind(held, p, Delivered') => Behind(q, p, Delivered'))
    BY <1>2, <1>8
  <2> HIDE DEF q
  <2>2. Behind(q, p, Delivered') => Behind(Append(q, e), p, Delivered')
    BY <1>1, <2>1, BehindAppend
  <2>3. QED BY <2>1, <2>2 DEF q
<1>10. p \in Items(lane') <=> p \in Items(lane)
  BY <1>2, Zenon DEF FillStep
<1>11. CASE evt' = Append(evt, e) /\ held' = held
  <2>1. Same(p)
    BY <1>1, <1>2, <1>4, <1>7, <1>10, <1>11, Zenon DEF Same
  <2>2. QED BY <2>1, SameKept
<1>12. CASE evt' = evt /\ held' = Append(held, e)
  <2>1. Same(p)
    BY <1>1, <1>2, <1>4, <1>7, <1>8, <1>10, <1>12, Zenon DEF Same
  <2>2. QED BY <2>1, SameKept
<1>13. CASE evt' = evt /\ held' = Append(held, f)
  <2>1. Same(p)
    BY <1>1, <1>2, <1>4, <1>7, <1>8, <1>10, <1>13, Zenon DEF Same
  <2>2. QED BY <2>1, SameKept
<1>14. CASE evt' = evt /\ held' = Append(Append(held, f), e)
  <2>1. Same(p)
    BY <1>1, <1>3, <1>7, <1>9, <1>10, <1>14, Zenon DEF Same
  <2>2. QED BY <2>1, SameKept
<1>15. CASE evt' = evt /\ held' = held
  <2>1. Same(p)
    BY <1>7, <1>10, <1>15, Zenon DEF Same
  <2>2. QED BY <2>1, SameKept
<1>16. QED BY <1>11, <1>12, <1>13, <1>14, <1>15, Zenon DEF FillStep, e, f

\* The order's own fill and end: the end is behind the fill wherever both go.
LEMMA FillOwn ==
  ASSUME NEW o \in Oids, OutTyped, FillStep(o), EndsAt(o), FillsAt(o), ~ Ending(o),
         life[o] = "filled", life'[o] = "filled", o \notin oot',
         UNCHANGED <<retired, booked, ticked, backlog>>
  PROVE  EndsAt(o)' /\ FillsAt(o)' /\ (Ending(o)' \/ lost' = TRUE)
<1> DEFINE e == Msg("end", o)
           f == Msg("fill", o)
<1>1. /\ e \in Events /\ e \in Outputs /\ f \in Outputs /\ e # f
      /\ evt \in Seq(Events) /\ held \in Seq(Outputs) /\ lane \in Seq(Oids)
      /\ e \notin Items(evt) /\ e \notin Items(held)
  BY MsgTypes, MsgDiffer, Zenon DEF OutTyped, Ending
<1> HIDE DEF e, f
<1>2. /\ Items(Append(evt, e)) = Items(evt) \cup {e} /\ Items(Append(lane, o)) = Items(lane) \cup {o}
      /\ Items(Append(held, e)) = Items(held) \cup {e}
      /\ Items(Append(held, f)) = Items(held) \cup {f} /\ Append(held, f) \in Seq(Outputs)
  BY <1>1, Appended
<1>3. NoRepeat(evt, e) /\ NoRepeat(held, e)
  BY Zenon DEF EndsAt, e
<1>4. /\ NoRepeat(Append(evt, e), e) /\ NoRepeat(Append(held, e), e)
      /\ NoRepeat(Append(held, f), e)
  BY <1>1, <1>3, AppendOnce
<1>5. /\ NoRepeat(Append(Append(held, f), e), e)
      /\ Items(Append(Append(held, f), e)) = Items(held) \cup {f, e}
  BY <1>1, <1>3, AppendedTwo
<1>6. Behind(held, o, Delivered) /\ (o \in retired => o \in Delivered)
      /\ (o \in retired /\ ticked /\ ~ backlog => o \in booked)
  BY Zenon DEF FillsAt
<1>7. Behind(Append(held, f), o, Delivered)
  <2>1. f # Msg("end", o)
    BY <1>1, Zenon DEF e
  <2>2. QED BY <1>1, <1>6, <2>1, BehindAppend
<1>8. Behind(Append(Append(held, f), e), o, Delivered)
  <2> DEFINE q == Append(held, f)
  <2>1. Msg("fill", o) \in Items(q)
    BY <1>2, Zenon DEF f
  <2>2. q \in Seq(Outputs) /\ Behind(q, o, Delivered)
    BY <1>2, <1>7
  <2> HIDE DEF q
  <2>3. Behind(Append(q, e), o, Delivered)
    BY <1>1, <2>1, <2>2, BehindAppend
  <2>4. QED BY <2>3 DEF q
<1>9. ASSUME lane' = Append(lane, o) PROVE FillsAt(o)'
  <2>1. o \in Delivered' /\ o \in Items(lane')
    BY <1>2, <1>9, Zenon DEF Delivered
  <2>2. Behind(held', o, Delivered')
    BY <2>1, Zenon DEF Behind
  <2>3. QED BY <1>6, <2>1, <2>2, Zenon DEF FillsAt
<1>10. ASSUME lane' = lane, evt' = evt, Behind(held', o, Delivered) PROVE FillsAt(o)'
  <2>1. Delivered' = Delivered
    BY <1>10, Zenon DEF Delivered
  <2>2. QED BY <1>6, <1>10, <2>1, Zenon DEF FillsAt
<1>11. CASE lane' = Append(lane, o) /\ evt' = Append(evt, e) /\ held' = held
  <2>1. EndsAt(o)' /\ Ending(o)'
    BY <1>1, <1>2, <1>3, <1>4, <1>11, Zenon DEF EndsAt, Ended, Ending, e
  <2>2. QED BY <1>9, <1>11, <2>1
<1>12. CASE lane' = Append(lane, o) /\ evt' = evt /\ held' = Append(held, e)
  <2>1. EndsAt(o)' /\ Ending(o)'
    BY <1>1, <1>2, <1>3, <1>4, <1>12, Zenon DEF EndsAt, Ended, Ending, e
  <2>2. QED BY <1>9, <1>12, <2>1
<1>13. CASE lane' = lane /\ evt' = evt /\ held' = Append(Append(held, f), e)
  <2>1. EndsAt(o)' /\ Ending(o)'
    BY <1>1, <1>3, <1>5, <1>13, Zenon DEF EndsAt, Ended, Ending, e
  <2>2. QED BY <1>8, <1>10, <1>13, <2>1
<1>14. CASE lane' = lane /\ evt' = evt /\ held' = Append(held, f) /\ lost' = TRUE
  <2>1. EndsAt(o)'
    BY <1>1, <1>2, <1>3, <1>4, <1>14, Zenon DEF EndsAt, Ended, e
  <2>2. QED BY <1>7, <1>10, <1>14, <2>1
<1>15. CASE lane' = lane /\ evt' = evt /\ held' = held /\ lost' = TRUE
  <2>1. EndsAt(o)'
    BY <1>1, <1>3, <1>15, Zenon DEF EndsAt, Ended, e
  <2>2. QED BY <1>6, <1>10, <1>15, <2>1
<1>16. QED BY <1>11, <1>12, <1>13, <1>14, <1>15, Zenon DEF FillStep, e, f

---------------------------------------------------------------------------
(* Steps that leave the arm's state alone *)

\* Is o one of the orders counted?
LEMMA UnendedIs ==
  \A o \in Oids : o \in Unended <=> Cmd("place", o) \in Items(cmd) \/ o \in oot \/ Ending(o)
BY Zenon DEF Unended, Ending

\* ... after a step too.
LEMMA UnendedIsNext ==
  \A o \in Oids : o \in Unended' <=> Cmd("place", o) \in Items(cmd') \/ o \in oot' \/ Ending(o)'
BY Zenon DEF Unended, Ending

armVars == <<cmd, evt, lane, held, lost, oot, life, inFlight, retired, rows, booked,
             ticked, backlog, early>>

\* A step of the sweep, or one that only takes a message from the venue.
LEMMA QuietStep == ASSUME ArmInv, UNCHANGED armVars, inbox' \subseteq inbox PROVE ArmInv'
<1>1. Typed' /\ InboxOK'
  <2>1. inbox' \subseteq Messages
    BY Zenon DEF ArmInv, Typed
  <2>2. InboxOK'
    BY Zenon DEF ArmInv, InboxOK, armVars
  <2>3. QED BY <2>1, <2>2, Zenon DEF ArmInv, Typed, armVars
<1>2. CmdOK' /\ OotOK'
  BY Zenon DEF ArmInv, CmdOK, OotOK, armVars
<1>3. EndsOK' /\ FillsOK'
  BY Zenon DEF ArmInv, EndsOK, FillsOK, EndsAt, FillsAt, Ended, Delivered, armVars
<1>4. CountOK'
  BY Zenon DEF ArmInv, CountOK, Unended, armVars
<1>5. RowsCoverVenue' /\ early' = {}
  BY Zenon DEF ArmInv, RowsCoverVenue, armVars
<1>6. QED BY <1>1, <1>2, <1>3, <1>4, <1>5 DEF ArmInv

\* The venue lists our orders: a message of a kind that ends none.
LEMMA ListStep ==
  ASSUME ArmInv, UNCHANGED armVars, NEW o \in Oids \cup {"-"}, inbox' = inbox \cup {Msg("list", o)}
  PROVE  ArmInv'
<1>1. /\ Msg("list", o) \in Messages
      /\ \A p : Msg("list", o) \notin {Msg("fill", p), Msg("reject", p), Msg("gone", p)}
  BY DEF Msg, Messages
<1>2. Typed'
  BY <1>1, Zenon DEF ArmInv, Typed, armVars
<1>3. InboxOK'
  BY <1>1, Zenon DEF ArmInv, InboxOK, armVars
<1>4. CmdOK' /\ OotOK'
  BY Zenon DEF ArmInv, CmdOK, OotOK, armVars
<1>5. EndsOK' /\ FillsOK'
  BY Zenon DEF ArmInv, EndsOK, FillsOK, EndsAt, FillsAt, Ended, Delivered, armVars
<1>6. CountOK'
  BY Zenon DEF ArmInv, CountOK, Unended, armVars
<1>7. RowsCoverVenue' /\ early' = {}
  BY Zenon DEF ArmInv, RowsCoverVenue, armVars
<1>8. QED BY <1>2, <1>3, <1>4, <1>5, <1>6, <1>7 DEF ArmInv

\* What the venue may say of an order that is with it.
Says(from, to, kind) ==
  \/ from = "sent" /\ to = "open" /\ kind = "ack"
  \/ from = "sent" /\ to = "gone" /\ kind = "reject"
  \/ from = "open" /\ to = "filled" /\ kind = "fill"
  \/ from = "open" /\ to = "gone" /\ kind = "gone"

\* The venue answers, fills or cancels an order: no end of it is on its way yet.
LEMMA VenueStep ==
  ASSUME ArmInv, NEW o \in Oids, NEW from, NEW to, NEW kind, Says(from, to, kind),
         VenueSays(o, from, to, kind)
  PROVE  ArmInv'
<1>1. /\ life \in [Oids -> Lives] /\ from \in {"sent", "open"} /\ to \in {"open", "gone", "filled"}
      /\ life[o] = from /\ life' = [life EXCEPT ![o] = to] /\ to \in Lives
  BY Zenon DEF ArmInv, Typed, VenueSays, Says, Lives
<1>2. /\ life' \in [Oids -> Lives] /\ life'[o] = to
      /\ \A p \in Oids : p # o => life'[p] = life[p]
  BY <1>1, Zenon
<1>3. UNCHANGED <<cmd, evt, lane, held, lost, oot, inFlight, retired, rows, booked, ticked, backlog, early>>
  BY Zenon DEF VenueSays, shared, gateway, engine
<1>4. Typed'
  <2>1. Msg(kind, o) \in Messages
    BY DEF Says, Msg, Messages
  <2>2. inbox' \subseteq Messages
    BY <2>1, Zenon DEF VenueSays, ArmInv, Typed
  <2>3. QED BY <1>2, <1>3, <2>2, Zenon DEF ArmInv, Typed
<1>5. CmdOK'
  BY <1>1, <1>2, <1>3, Zenon DEF ArmInv, CmdOK
<1>6. o \in oot /\ ~ Ended(o)
  BY <1>1, Zenon DEF ArmInv, OotOK, Ended
<1>7. OotOK'
  BY <1>1, <1>2, <1>3, <1>6, Zenon DEF ArmInv, OotOK
<1>8. /\ Msg("end", o) \notin Items(evt) /\ Msg("end", o) \notin Items(held) /\ o \notin retired
      /\ o \notin Items(lane) /\ Msg("fill", o) \notin Items(held)
  BY <1>1, <1>6, Zenon DEF ArmInv, EndsOK, EndsAt, FillsOK, FillsAt
<1>9. ASSUME NEW p \in Oids PROVE EndsAt(p)' /\ FillsAt(p)'
  <2>1. EndsAt(p) /\ FillsAt(p)
    BY Zenon DEF ArmInv, EndsOK, FillsOK
  <2>2. CASE p # o
    BY <1>2, <1>3, <2>1, <2>2, Zenon DEF EndsAt, FillsAt, Ended, Delivered
  <2>3. CASE p = o
    <3>1. EndsAt(o)'
      BY <1>3, <1>8, <2>1, <2>3, Zenon DEF EndsAt
    <3>2. Behind(held', o, Delivered')
      BY <1>3, <1>8, InItems, Zenon DEF Behind
    <3>3. FillsAt(o)'
      BY <1>3, <1>8, <3>2, Zenon DEF FillsAt
    <3>4. QED BY <2>3, <3>1, <3>3
  <2>4. QED BY <2>2, <2>3
<1>10. InboxOK'
  <2>1. ASSUME NEW p \in Oids, NEW k, Msg(k, p) \in inbox' PROVE Msg(k, p) \in inbox \/ (p = o /\ k = kind)
    BY <2>1 DEF VenueSays, Msg
  <2>2. (kind = "fill" => to = "filled") /\ (kind \in {"reject", "gone"} => to = "gone")
    BY DEF Says
  <2>3. Msg("fill", o) \notin inbox /\ Msg("reject", o) \notin inbox /\ Msg("gone", o) \notin inbox
    BY <1>1, Zenon DEF ArmInv, InboxOK
  <2>4. ASSUME NEW p \in Oids, Msg("fill", p) \in inbox' PROVE life'[p] = "filled"
    <3>1. CASE p = o
      BY <1>2, <2>1, <2>2, <2>3, <2>4, <3>1, Zenon
    <3>2. CASE p # o
      BY <1>2, <2>1, <2>4, <3>2, Zenon DEF ArmInv, InboxOK
    <3>3. QED BY <3>1, <3>2
  <2>5. ASSUME NEW p \in Oids, Msg("reject", p) \in inbox' \/ Msg("gone", p) \in inbox' PROVE life'[p] = "gone"
    <3>1. CASE p = o
      BY <1>2, <2>1, <2>2, <2>3, <2>5, <3>1, Zenon
    <3>2. CASE p # o
      BY <1>2, <2>1, <2>5, <3>2, Zenon DEF ArmInv, InboxOK
    <3>3. QED BY <3>1, <3>2
  <2>6. QED BY <2>4, <2>5, Zenon DEF InboxOK
<1>11. CountOK'
  BY <1>3, Zenon DEF ArmInv, CountOK, Unended
<1>12. RowsCoverVenue' /\ early' = {}
  BY <1>1, <1>2, <1>3, Zenon DEF ArmInv, RowsCoverVenue
<1>13. QED BY <1>4, <1>5, <1>7, <1>9, <1>10, <1>11, <1>12 DEF ArmInv, EndsOK, FillsOK

---------------------------------------------------------------------------
(* The engine thread *)

\* A cancel is queued.
LEMMA CancelStep == ASSUME ArmInv, NEW o \in Oids, Cancel(o) PROVE ArmInv'
<1>1. UNCHANGED <<evt, lane, held, lost, oot, life, inbox, inFlight, retired, rows, booked,
                  ticked, backlog, early>>
  BY Zenon DEF Cancel, gateway, engine
<1>2. Cmd("cancel", o) \in Commands /\ cmd \in Seq(Commands) /\ \A p : Cmd("place", p) # Cmd("cancel", o)
  BY DEF Cmd, Commands, ArmInv, Typed
<1>3. cmd' = Append(cmd, Cmd("cancel", o))
  BY Zenon DEF Cancel
<1>4. cmd' \in Seq(Commands) /\ Items(cmd') = Items(cmd) \cup {Cmd("cancel", o)}
  BY <1>2, <1>3, Appended
<1>5. \A p \in Oids : Cmd("place", p) \in Items(cmd') <=> Cmd("place", p) \in Items(cmd)
  BY <1>2, <1>4, Zenon
<1>6. ASSUME NEW p \in Oids, NoRepeat(cmd, Cmd("place", p)) PROVE NoRepeat(cmd', Cmd("place", p))
  BY <1>2, <1>3, <1>6, AppendOnce
<1>7. Typed' /\ InboxOK' /\ OotOK'
  BY <1>1, <1>4, Zenon DEF ArmInv, Typed, InboxOK, OotOK
<1>8. CmdOK'
  BY <1>1, <1>5, <1>6, Zenon DEF ArmInv, CmdOK
<1>9. EndsOK' /\ FillsOK'
  BY <1>1, Zenon DEF ArmInv, EndsOK, FillsOK, EndsAt, FillsAt, Ended, Delivered
<1>10. CountOK'
  <2>1. \A p \in Oids : Ending(p)' <=> Ending(p)
    BY <1>1, Zenon DEF Ending
  <2>2. \A p \in Oids : p \in Unended' <=> p \in Unended
    BY <1>1, <1>5, <2>1, UnendedIs, UnendedIsNext, Zenon
  <2>3. CountOK /\ inFlight \in Nat
    BY Zenon DEF ArmInv, Typed
  <2>4. QED BY <1>1, <2>2, <2>3, CountKept, Zenon
<1>11. RowsCoverVenue' /\ early' = {}
  BY <1>1, Zenon DEF ArmInv, RowsCoverVenue
<1>12. QED BY <1>7, <1>8, <1>9, <1>10, <1>11 DEF ArmInv

\* An order is placed: it was new, so it was counted nowhere.
LEMMA PlaceStep == ASSUME ArmInv, NEW o \in Oids, Place(o) PROVE ArmInv'
<1>1. UNCHANGED <<evt, lane, held, lost, oot, inbox, retired, booked, ticked, backlog, early>>
  BY Zenon DEF Place, gateway
<1>2. /\ Cmd("place", o) \in Commands /\ cmd \in Seq(Commands)
      /\ \A p : p # o => Cmd("place", p) # Cmd("place", o)
  BY DEF Cmd, Commands, ArmInv, Typed
<1>3. /\ cmd' = Append(cmd, Cmd("place", o)) /\ life[o] = "new"
      /\ life' = [life EXCEPT ![o] = "queued"] /\ life \in [Oids -> Lives]
      /\ inFlight' = inFlight + 1 /\ inFlight \in Nat /\ rows' = rows \cup {o}
  BY Zenon DEF Place, ArmInv, Typed
<1>4. /\ life' \in [Oids -> Lives] /\ life'[o] = "queued"
      /\ \A p \in Oids : p # o => life'[p] = life[p]
  BY <1>3, Zenon DEF Lives
<1>5. cmd' \in Seq(Commands) /\ Items(cmd') = Items(cmd) \cup {Cmd("place", o)}
  BY <1>2, <1>3, Appended
<1>6. /\ Cmd("place", o) \in Items(cmd')
      /\ \A p \in Oids : p # o => (Cmd("place", p) \in Items(cmd') <=> Cmd("place", p) \in Items(cmd))
  BY <1>2, <1>5, Zenon
<1>7. Cmd("place", o) \notin Items(cmd) /\ o \notin oot /\ o \notin retired /\ ~ Ending(o)
      /\ o \notin Items(lane) /\ Msg("fill", o) \notin Items(held)
  <2>1. Cmd("place", o) \notin Items(cmd) /\ o \notin oot
    BY <1>3, Zenon DEF ArmInv, CmdOK, OotOK
  <2>2. ~ Ended(o)
    BY <1>3, Zenon DEF Ended
  <2>3. o \notin retired /\ ~ Ending(o)
    BY <2>2, Zenon DEF ArmInv, EndsOK, EndsAt, Ending
  <2>4. o \notin Items(lane) /\ Msg("fill", o) \notin Items(held)
    BY <1>3, Zenon DEF ArmInv, FillsOK, FillsAt
  <2>5. QED BY <2>1, <2>3, <2>4
<1>8. Typed'
  <2>1. inFlight' \in Nat
    BY <1>3
  <2>2. QED BY <1>1, <1>4, <1>5, <2>1, Zenon DEF ArmInv, Typed
<1>9. CmdOK'
  <2>1. ASSUME NEW p \in Oids PROVE NoRepeat(cmd', Cmd("place", p))
    <3>1. NoRepeat(cmd, Cmd("place", p))
      BY Zenon DEF ArmInv, CmdOK
    <3>2. Cmd("place", p) # Cmd("place", o) \/ Cmd("place", p) \notin Items(cmd)
      BY <1>7, Zenon
    <3>3. QED BY <1>2, <1>3, <3>1, <3>2, AppendOnce
  <2>2. QED BY <1>4, <1>6, <2>1, Zenon DEF ArmInv, CmdOK
<1>10. OotOK' /\ InboxOK'
  BY <1>1, <1>3, <1>4, <1>7, Zenon DEF ArmInv, OotOK, InboxOK
<1>11. EndsOK'
  <2>1. ASSUME NEW p \in Oids PROVE EndsAt(p)'
    <3>1. EndsAt(p)
      BY Zenon DEF ArmInv, EndsOK
    <3>2. QED BY <1>1, <1>4, <1>7, <3>1, Zenon DEF EndsAt, Ended, Ending
  <2>2. QED BY <2>1 DEF EndsOK
<1>12. FillsOK'
  <2>1. ASSUME NEW p \in Oids PROVE FillsAt(p)'
    <3>1. FillsAt(p)
      BY Zenon DEF ArmInv, FillsOK
    <3>2. CASE p = o
      BY <1>1, <1>4, <1>7, <3>2, Zenon DEF FillsAt
    <3>3. CASE p # o
      BY <1>1, <1>4, <3>1, <3>3, Zenon DEF FillsAt, Delivered
    <3>4. QED BY <3>2, <3>3
  <2>2. QED BY <2>1 DEF FillsOK
<1>13. CountOK'
  <2>1. \A p \in Oids : Ending(p)' <=> Ending(p)
    BY <1>1, Zenon DEF Ending
  <2>2. o \notin Unended /\ \A p \in Oids : p \in Unended' <=> p \in Unended \/ p = o
    BY <1>1, <1>6, <1>7, <2>1, UnendedIs, UnendedIsNext, Zenon
  <2>3. Unended \subseteq Oids /\ Unended' \subseteq Oids
    BY Zenon DEF Unended
  <2>4. Unended' = Unended \cup {o}
    BY <2>2, <2>3, Zenon
  <2>5. Cardinality(Unended') = Cardinality(Unended) + 1 /\ Cardinality(Unended) \in Nat
    BY <2>2, <2>4, UnendedFinite, FS_AddElement
  <2>6. CountOK
    BY Zenon DEF ArmInv
  <2>7. inFlight' >= Cardinality(Unended')
    BY <1>3, <2>5, <2>6 DEF CountOK
  <2>8. inFlight = Cardinality(Unended) => inFlight' = Cardinality(Unended')
    BY <1>3, <2>5
  <2>9. QED BY <1>1, <2>6, <2>7, <2>8, Zenon DEF CountOK
<1>14. RowsCoverVenue' /\ early' = {}
  BY <1>1, <1>3, <1>4, Zenon DEF ArmInv, RowsCoverVenue
<1>15. QED BY <1>8, <1>9, <1>10, <1>11, <1>12, <1>13, <1>14 DEF ArmInv

\* The front of a sequence and what SubSeq leaves of it.
LEMMA Fronted ==
  ASSUME NEW S, NEW s \in Seq(S), NEW n \in 0 .. Len(s)
  PROVE  /\ SubSeq(s, n + 1, Len(s)) \in Seq(S)
         /\ Items(s) = {s[i] : i \in 1 .. n} \cup Items(SubSeq(s, n + 1, Len(s)))
         /\ n = Len(s) => Items(SubSeq(s, n + 1, Len(s))) = {}
<1> DEFINE r == SubSeq(s, n + 1, Len(s))
<1>1. Len(s) \in Nat /\ DOMAIN s = 1 .. Len(s) /\ \A i \in 1 .. Len(s) : s[i] \in S
  BY LenProperties, ElementOfSeq
<1>2. r \in Seq(S) /\ Len(r) = Len(s) - n /\ \A i \in 1 .. Len(s) - n : r[i] = s[n + i]
  <2>1. r \in Seq(S)
    OBVIOUS
  <2>2. Len(r) = Len(s) - n
    OBVIOUS
  <2>3. ASSUME NEW i \in 1 .. Len(s) - n PROVE r[i] = s[n + i]
    OBVIOUS
  <2>4. QED BY <2>1, <2>2, <2>3, Zenon
<1> HIDE DEF r
<1>3. DOMAIN r = 1 .. Len(s) - n
  BY <1>2, LenProperties
<1>4. ASSUME NEW x PROVE x \in Items(s) <=> x \in {s[i] : i \in 1 .. n} \cup Items(r)
  <2>1. /\ x \in Items(s) <=> \E i \in 1 .. Len(s) : s[i] = x
        /\ x \in Items(r) <=> \E i \in 1 .. Len(s) - n : r[i] = x
    BY <1>1, <1>3, Zenon DEF Items
  <2>2. ASSUME NEW i \in 1 .. Len(s), s[i] = x, i > n PROVE i - n \in 1 .. Len(s) - n /\ r[i - n] = x
    BY <1>1, <1>2, <2>2
  <2>3. ASSUME NEW i \in 1 .. Len(s) - n, r[i] = x PROVE n + i \in 1 .. Len(s) /\ s[n + i] = x
    BY <1>1, <1>2, <2>3
  <2>4. ASSUME x \in Items(s) PROVE x \in {s[i] : i \in 1 .. n} \cup Items(r)
    <3>1. PICK i \in 1 .. Len(s) : s[i] = x
      BY <2>1, <2>4, Zenon
    <3>2. CASE i > n
      BY <2>1, <2>2, <3>1, <3>2, Zenon
    <3>3. CASE ~ i > n
      BY <1>1, <3>1, <3>3
    <3>4. QED BY <3>2, <3>3
  <2>5. ASSUME NEW i \in 1 .. n PROVE s[i] \in Items(s)
    BY <1>1, InItems
  <2>6. QED BY <2>1, <2>3, <2>4, <2>5
<1>5. n = Len(s) => Items(r) = {}
  BY <1>1, <1>3, InItems
<1>6. QED BY <1>2, <1>4, <1>5, Zenon DEF r

\* The tick books the front of the lane.
LEMMA TickStep == ASSUME ArmInv, Tick PROVE ArmInv'
<1> DEFINE n == IF Len(lane) < DrainBatch THEN Len(lane) ELSE DrainBatch
           now == {lane[i] : i \in 1 .. n}
<1>1. /\ UNCHANGED <<cmd, evt, held, lost, oot, life, inbox, inFlight, retired, early>>
      /\ lane' = SubSeq(lane, n + 1, Len(lane)) /\ booked' = booked \cup now /\ rows' = rows \ now
      /\ backlog' = (n < Len(lane)) /\ ticked' = TRUE
  BY Zenon DEF Tick, gateway
<1>2. lane \in Seq(Oids) /\ Len(lane) \in Nat /\ n \in 0 .. Len(lane)
  <2>1. lane \in Seq(Oids) /\ Len(lane) \in Nat
    BY LenProperties DEF ArmInv, Typed
  <2>2. DrainBatch \in Nat
    BY QueuedAssumption
  <2>3. QED BY <2>1, <2>2
<1> HIDE DEF n, now
<1>3. lane' \in Seq(Oids) /\ Items(lane) = now \cup Items(lane') /\ (n = Len(lane) => Items(lane') = {})
  BY <1>1, <1>2, Fronted DEF now
<1>4. Delivered' = Delivered
  BY <1>1, <1>3, Zenon DEF Delivered
<1>5. ASSUME ~ backlog', NEW p \in Delivered PROVE p \in booked'
  <2>1. ~ (n < Len(lane))
    BY <1>1, <1>5, Zenon
  <2>2. n = Len(lane)
    BY <1>2, <2>1
  <2>3. QED BY <1>1, <1>3, <1>5, <2>2, Zenon DEF Delivered
<1>6. Typed' /\ CmdOK' /\ OotOK' /\ InboxOK' /\ CountOK' /\ early' = {}
  BY <1>1, <1>3, Zenon DEF ArmInv, Typed, CmdOK, OotOK, InboxOK, CountOK, Unended
<1>7. EndsOK'
  BY <1>1, Zenon DEF ArmInv, EndsOK, EndsAt, Ended
<1>8. ASSUME NEW p \in Oids PROVE FillsAt(p)'
  <2>1. FillsAt(p)
    BY Zenon DEF ArmInv, FillsOK
  <2>2. p \in Items(lane') => p \in Items(lane)
    BY <1>3, Zenon
  <2>3. QED BY <1>1, <1>4, <1>5, <2>1, <2>2, Zenon DEF FillsAt
<1>9. RowsCoverVenue'
  <2>1. ASSUME NEW p \in Oids, p \in now PROVE life[p] = "filled"
    BY <1>3, <2>1, Zenon DEF ArmInv, FillsOK, FillsAt
  <2>2. ASSUME NEW p \in Oids, life[p] \in {"queued", "sent", "open"} PROVE p \in rows \ now
    <3>1. p \in rows
      BY <2>2, Zenon DEF ArmInv, RowsCoverVenue
    <3>2. QED BY <2>1, <2>2, <3>1, Zenon
  <2>3. QED BY <1>1, <2>2, Zenon DEF RowsCoverVenue
<1>10. QED BY <1>6, <1>7, <1>8, <1>9 DEF ArmInv, FillsOK

\* The places of the end events in the ring, the orders they end, and all the
\* orders whose end is there.
EndPlaces == {i \in DOMAIN evt : evt[i].kind = "end"}
EndOids == {evt[i].oid : i \in EndPlaces}
EndsHere == {o \in Oids : Msg("end", o) \in Items(evt)}

\* An event of kind end is the end of the order it names.
LEMMA EndEvent ==
  ASSUME NEW e \in Events, e.kind = "end"
  PROVE  e.oid \in Oids /\ e = Msg("end", e.oid)
BY DEF Events, Msg

\* Each order's end is in the ring once, so the drain counts orders.
LEMMA EndsCounted ==
  ASSUME evt \in Seq(Events), EndsOK
  PROVE  EndOids = EndsHere /\ IsFiniteSet(EndsHere) /\ Cardinality(EndPlaces) = Cardinality(EndsHere)
<1>1. \A i \in DOMAIN evt : evt[i] \in Events
  BY ElementOfSeq, LenProperties
<1>2. \A i \in EndPlaces : i \in DOMAIN evt /\ evt[i].oid \in EndsHere /\ evt[i] = Msg("end", evt[i].oid)
  BY <1>1, EndEvent, Zenon DEF EndPlaces, EndsHere, Items
<1>3. ASSUME NEW o \in EndsHere PROVE \E i \in EndPlaces : evt[i].oid = o
  <2>1. PICK i \in DOMAIN evt : evt[i] = Msg("end", o)
    BY InItems, Zenon DEF EndsHere
  <2>2. Msg("end", o).kind = "end" /\ Msg("end", o).oid = o
    BY DEF Msg
  <2>3. QED BY <2>1, <2>2, Zenon DEF EndPlaces
<1>4. EndOids = EndsHere
  BY <1>2, <1>3, Zenon DEF EndOids
<1> DEFINE f == [i \in EndPlaces |-> evt[i].oid]
<1>5. f \in [EndPlaces -> EndsHere]
  BY <1>2, Zenon
<1>6. ASSUME NEW i \in EndPlaces, NEW j \in EndPlaces, f[i] = f[j] PROVE i = j
  <2>1. evt[i] = Msg("end", f[i]) /\ evt[j] = Msg("end", f[i]) /\ f[i] \in Oids
    BY <1>2, <1>6, Zenon DEF EndsHere
  <2>2. NoRepeat(evt, Msg("end", f[i]))
    BY <2>1, Zenon DEF EndsOK, EndsAt
  <2>3. QED BY <1>2, <2>1, <2>2, Zenon DEF NoRepeat
<1>7. \A o \in EndsHere : \E i \in EndPlaces : f[i] = o
  BY <1>3, Zenon
<1> HIDE DEF f
<1>8. f \in Injection(EndPlaces, EndsHere)
  <2>1. DOMAIN f = EndPlaces
    BY <1>5, Zenon
  <2>2. QED BY <1>5, <1>6, <2>1, Zenon DEF Injection, IsInjective
<1>9. f \in Surjection(EndPlaces, EndsHere)
  BY <1>5, <1>7, Zenon DEF Surjection
<1>10. ExistsBijection(EndPlaces, EndsHere)
  BY <1>8, <1>9, Zenon DEF Bijection, ExistsBijection
<1>11. IsFiniteSet(EndPlaces)
  <2>1. Len(evt) \in Nat /\ DOMAIN evt = 1 .. Len(evt)
    BY LenProperties
  <2>2. IsFiniteSet(1 .. Len(evt))
    BY <2>1, FS_Interval
  <2>3. EndPlaces \subseteq 1 .. Len(evt)
    BY <2>1, Zenon DEF EndPlaces
  <2>4. QED BY <2>2, <2>3, FS_Subset, Zenon
<1>12. IsFiniteSet(EndsHere) /\ Cardinality(EndsHere) = Cardinality(EndPlaces)
  BY <1>10, <1>11, FS_Bijection, Zenon
<1>13. QED BY <1>4, <1>12

\* The rows after the router's poll: what the retirements left, or none when
\* the answer is Clear, which it never is with orders in flight.
LEMMA PolledRows ==
  ASSUME NEW n \in Nat, NEW r, PollSweep(n, r)
  PROVE  rows' = r \/ (rows' = {} /\ n = 0)
<1>1. ASSUME CancelAllState(n) = "clear" PROVE n = 0
  <2>1. ~ (n > 0)
    BY <1>1 DEF CancelAllState
  <2>2. QED BY <2>1
<1>2. QED BY <1>1, Zenon DEF PollSweep

\* The poll: the ends drained are counted off, last poll's are retired.
LEMMA IdleStep == ASSUME ArmInv, Idle PROVE ArmInv'
<1> DEFINE k == Cardinality(EndPlaces)
<1>1. /\ UNCHANGED <<cmd, lane, held, lost, oot, life, inbox, booked, backlog>> /\ ticked /\ ticked' = FALSE
      /\ evt' = <<>> /\ inFlight' = Left(k) /\ retired' = EndOids
      /\ early' = early \cup {o \in retired : life[o] = "filled" /\ o \notin booked /\ ~ backlog}
      /\ PollSweep(Left(k), rows \ retired)
  BY Zenon DEF Idle, HandedOver, EndPlaces, EndOids, gateway
<1>2. /\ evt \in Seq(Events) /\ EndsOK /\ CmdOK /\ OotOK /\ FillsOK /\ CountOK
      /\ inFlight \in Nat /\ retired \subseteq Oids
  BY Zenon DEF ArmInv, Typed
<1>3. EndOids = EndsHere /\ IsFiniteSet(EndsHere) /\ k = Cardinality(EndsHere) /\ k \in Nat
  BY <1>2, EndsCounted, FS_CardinalityType, Zenon
<1> HIDE DEF k
<1>4. Items(<<>>) = {}
  BY DEF Items
<1>5. Unended' = Unended \ EndsHere /\ EndsHere \subseteq Unended
  <2>1. \A p \in Oids : p \in Unended' <=> Cmd("place", p) \in Items(cmd) \/ p \in oot \/ Msg("end", p) \in Items(held)
    BY <1>1, <1>4, UnendedIsNext, Zenon DEF Ending
  <2>2. ASSUME NEW p \in EndsHere
        PROVE  p \in Oids /\ Cmd("place", p) \notin Items(cmd) /\ p \notin oot /\ Msg("end", p) \notin Items(held)
    <3>1. p \in Oids /\ Msg("end", p) \in Items(evt)
      BY Zenon DEF EndsHere
    <3>2. Ended(p) /\ p \notin oot /\ Msg("end", p) \notin Items(held)
      BY <1>2, <3>1, Zenon DEF EndsOK, EndsAt
    <3>3. life[p] # "queued"
      BY <3>2 DEF Ended
    <3>4. QED BY <1>2, <3>1, <3>2, <3>3, Zenon DEF CmdOK
  <2>3. \A p \in Oids : p \in Unended <=> p \in Unended' \/ p \in EndsHere
    BY <2>1, UnendedIs, Zenon DEF Ending, EndsHere
  <2>4. Unended \subseteq Oids /\ Unended' \subseteq Oids /\ EndsHere \subseteq Oids
    BY Zenon DEF Unended, EndsHere
  <2>5. \A p \in EndsHere : p \notin Unended'
    BY <2>1, <2>2, Zenon
  <2>6. QED BY <2>3, <2>4, <2>5, Zenon
<1>6. Cardinality(Unended') = Cardinality(Unended) - k /\ Cardinality(Unended) \in Nat /\ k <= Cardinality(Unended)
  <2>1. Unended \cap EndsHere = EndsHere
    BY <1>5, Zenon
  <2>2. Cardinality(Unended') = Cardinality(Unended) - Cardinality(Unended \cap EndsHere)
    BY <1>5, UnendedFinite, FS_Difference, Zenon
  <2>3. Cardinality(EndsHere) <= Cardinality(Unended)
    BY <1>5, UnendedFinite, FS_Subset
  <2>4. Cardinality(Unended) \in Nat
    BY UnendedFinite, Zenon
  <2>5. QED BY <1>3, <2>1, <2>2, <2>3, <2>4, Zenon
<1>7. inFlight' = inFlight - k /\ inFlight' \in Nat /\ inFlight' >= Cardinality(Unended')
      /\ (inFlight = Cardinality(Unended) => inFlight' = Cardinality(Unended'))
  <2>1. inFlight >= Cardinality(Unended)
    BY <1>2, Zenon DEF CountOK
  <2>2. Left(k) = inFlight - k
    BY <1>2, <1>3, <1>6, <2>1 DEF Left
  <2>3. inFlight' = inFlight - k
    BY <1>1, <2>2, Zenon
  <2>4. inFlight \in Nat /\ k \in Nat
    BY <1>2, <1>3, Zenon
  <2>5. QED BY <1>6, <2>1, <2>3, <2>4
<1>8. CountOK'
  BY <1>1, <1>2, <1>7, Zenon DEF CountOK
<1>9. Typed'
  <2>1. <<>> \in Seq(Events)
    OBVIOUS
  <2>2. EndsHere \subseteq Oids
    BY Zenon DEF EndsHere
  <2>3. QED BY <1>1, <1>3, <1>7, <2>1, <2>2, Zenon DEF ArmInv, Typed
<1>10. CmdOK' /\ OotOK' /\ InboxOK'
  BY <1>1, Zenon DEF ArmInv, CmdOK, OotOK, InboxOK
<1>11. ASSUME NEW p \in Oids PROVE EndsAt(p)' /\ FillsAt(p)'
  <2>1. EndsAt(p) /\ FillsAt(p)
    BY <1>2, Zenon DEF EndsOK, FillsOK
  <2>2. p \in retired' => Ended(p) /\ (life[p] = "filled" => p \in Delivered)
    BY <1>1, <1>3, <2>1, Zenon DEF EndsHere, EndsAt, FillsAt
  <2>3. NoRepeat(<<>>, Msg("end", p))
    BY DEF NoRepeat
  <2>4. EndsAt(p)'
    BY <1>1, <1>4, <2>1, <2>2, <2>3, Zenon DEF EndsAt, Ended
  <2>5. Delivered' = Delivered
    BY <1>1, Zenon DEF Delivered
  <2>6. FillsAt(p)'
    BY <1>1, <1>4, <2>1, <2>2, <2>5, Zenon DEF FillsAt
  <2>7. QED BY <2>4, <2>6
<1>12. early' = {}
  <2>1. \A p \in retired : ~ (life[p] = "filled" /\ p \notin booked /\ ~ backlog)
    BY <1>1, <1>2, Zenon DEF FillsOK, FillsAt
  <2>2. early = {}
    BY Zenon DEF ArmInv
  <2>3. QED BY <1>1, <2>1, <2>2, Zenon
<1>13. RowsCoverVenue'
  <2>1. ASSUME NEW p \in Oids, life[p] \in {"queued", "sent", "open"} PROVE p \in rows'
    <3>1. p \in rows /\ p \notin retired
      <4>1. ~ Ended(p)
        BY <2>1 DEF Ended
      <4>2. QED BY <1>2, <2>1, <4>1, Zenon DEF ArmInv, RowsCoverVenue, EndsOK, EndsAt
    <3>2. Left(k) # 0
      <4>1. Cmd("place", p) \in Items(cmd) \/ p \in oot
        BY <1>2, <2>1, Zenon DEF CmdOK, OotOK
      <4>2. p \in Unended'
        BY <1>1, <4>1, UnendedIsNext, Zenon
      <4>3. IsFiniteSet(Unended')
        BY <1>5, UnendedFinite, FS_Difference, Zenon
      <4>4. Cardinality(Unended') # 0 /\ Cardinality(Unended') \in Nat
        BY <4>2, <4>3, FS_EmptySet, FS_CardinalityType, Zenon
      <4>5. QED BY <1>1, <1>7, <4>4
    <3>3. rows' = rows \ retired
      <4>1. Left(k) \in Nat
        BY <1>1, <1>7, Zenon
      <4>2. QED BY <1>1, <3>2, <4>1, PolledRows, Zenon
    <3>4. QED BY <3>1, <3>3, Zenon
  <2>2. QED BY <1>1, <2>1, Zenon DEF RowsCoverVenue
<1>14. QED BY <1>8, <1>9, <1>10, <1>11, <1>12, <1>13 DEF ArmInv, EndsOK, FillsOK

---------------------------------------------------------------------------
(* The gateway thread *)

\* What a step leaves alone that changes only outputs, commands and messages.
outFrame == <<oot, life, inFlight, retired, rows, booked, ticked, backlog, early>>

\* The command ring holds order p's placing as before.
CmdSame(p) == Cmd("place", p) \in Items(cmd') <=> Cmd("place", p) \in Items(cmd)

\* What is left to show of such a step when it ends no order.
LEMMA OutsOnly ==
  ASSUME ArmInv, UNCHANGED outFrame, OutTyped', lost' = lost \/ lost' = TRUE,
         cmd' \in Seq(Commands), CmdOK', inbox' \subseteq inbox,
         \A p \in Oids : CmdSame(p) /\ EndsAt(p)' /\ FillsAt(p)' /\ (Ending(p)' <=> Ending(p))
  PROVE  ArmInv'
<1>1. Typed'
  <2>1. inbox' \subseteq Messages
    BY Zenon DEF ArmInv, Typed
  <2>2. QED BY <2>1, Zenon DEF ArmInv, Typed, OutTyped, outFrame
<1>2. OotOK' /\ InboxOK' /\ RowsCoverVenue' /\ early' = {}
  BY Zenon DEF ArmInv, OotOK, InboxOK, RowsCoverVenue, outFrame
<1>3. CountOK'
  <2>1. \A p \in Oids : p \in Unended' <=> p \in Unended
    BY UnendedIs, UnendedIsNext, Zenon DEF outFrame, CmdSame
  <2>2. CountOK /\ inFlight \in Nat /\ inFlight' = inFlight
    BY Zenon DEF ArmInv, Typed, outFrame
  <2>3. QED BY <2>1, <2>2, CountKept, Zenon
<1>4. QED BY <1>1, <1>2, <1>3, Zenon DEF ArmInv, EndsOK, FillsOK

\* What is left to show of a step that sends the end of o.
LEMMA EndSent ==
  ASSUME ArmInv, NEW o \in Oids, o \in Unended, o \notin oot', Cmd("place", o) \notin Items(cmd'),
         \A p \in Oids \ {o} : /\ p \in oot' <=> p \in oot
                              /\ life'[p] = life[p] /\ CmdSame(p) /\ (Ending(p)' <=> Ending(p)),
         life' \in [Oids -> Lives], life'[o] \in {"filled", "gone"}, oot' \subseteq Oids,
         \A p \in Oids : EndsAt(p)' /\ FillsAt(p)',
         Ending(o)' \/ lost' = TRUE, OutTyped', lost' = lost \/ lost' = TRUE,
         cmd' \in Seq(Commands), CmdOK', inbox' \subseteq Messages, InboxOK',
         UNCHANGED <<inFlight, retired, rows, early>>
  PROVE  ArmInv'
<1>1. Typed'
  BY Zenon DEF ArmInv, Typed, OutTyped
<1>2. OotOK'
  BY Zenon DEF ArmInv, OotOK
<1>3. RowsCoverVenue' /\ early' = {}
  BY Zenon DEF ArmInv, RowsCoverVenue
<1>4. CountOK'
  <2>1. \A p \in Oids \ {o} : p \in Unended' <=> p \in Unended
    BY UnendedIs, UnendedIsNext, Zenon DEF CmdSame
  <2>2. o \in Unended' \/ lost' = TRUE
    BY UnendedIsNext, Zenon
  <2>3. CountOK /\ inFlight \in Nat /\ inFlight' = inFlight
    BY Zenon DEF ArmInv, Typed
  <2>4. QED BY <2>1, <2>2, <2>3, CountKept, Zenon
<1>5. QED BY <1>1, <1>2, <1>3, <1>4, Zenon DEF ArmInv, EndsOK, FillsOK

\* The command ring untouched.
LEMMA CmdUntouched ==
  ASSUME ArmInv, cmd' = cmd, life' = life
  PROVE  cmd' \in Seq(Commands) /\ CmdOK' /\ \A p \in Oids : CmdSame(p)
BY Zenon DEF ArmInv, Typed, CmdOK, CmdSame

\* The outputs' types are among the arm's.
LEMMA OutsTyped == ASSUME ArmInv PROVE OutTyped
BY Zenon DEF ArmInv, Typed, OutTyped

\* An output is an event or the fill of the order it names.
LEMMA OutputKinds ==
  ASSUME NEW h \in Outputs
  PROVE  IF h.kind = "fill" THEN h.oid \in Oids /\ h = Msg("fill", h.oid) ELSE h \in Events
BY DEF Outputs, Events, Msg

\* A fill leaves the held queue for the lane.
LEMMA DrainFill ==
  ASSUME OutTyped, EndsOK, FillsOK, held # <<>>, NEW o \in Oids, Head(held) = Msg("fill", o),
         lane' = Append(lane, o), held' = Tail(held), evt' = evt,
         UNCHANGED outFrame, NEW p \in Oids
  PROVE  EndsAt(p)' /\ FillsAt(p)' /\ (Ending(p)' <=> Ending(p))
<1>1. /\ held \in Seq(Outputs) /\ lane \in Seq(Oids) /\ EndsAt(p) /\ FillsAt(p) /\ FillsAt(o)
      /\ Frame(p)
  BY Zenon DEF OutTyped, EndsOK, FillsOK, outFrame, Frame
<1>2. Items(held) = {Msg("fill", o)} \cup Items(held') /\ Items(lane') = Items(lane) \cup {o}
  <2>1. Items(held) = {Msg("fill", o)} \cup Items(held')
    BY <1>1, Tailed
  <2>2. Items(lane') = Items(lane) \cup {o}
    BY <1>1, Appended
  <2>3. QED BY <2>1, <2>2
<1>3. NoRepeat(held, Msg("end", p)) => NoRepeat(held', Msg("end", p))
  BY <1>1, TailOnce
<1>4. Msg("end", p) # Msg("fill", o) /\ (p # o => Msg("fill", p) # Msg("fill", o))
  BY MsgDiffer, Zenon
<1>5. Delivered' = Delivered \cup {o}
  BY <1>2, Zenon DEF Delivered, outFrame
<1>6. Behind(held, p, Delivered) => Behind(held', p, Delivered')
  <2>1. Delivered \subseteq Delivered' /\ (Head(held) = Msg("fill", p) => p \in Delivered')
    BY <1>4, <1>5, Zenon
  <2>2. Behind(held, p, Delivered) => Behind(Tail(held), p, Delivered')
    BY <1>1, <2>1, BehindTail, Zenon
  <2>3. QED BY <2>2, Zenon
<1>7. CASE p # o
  <2>1. Same(p)
    BY <1>2, <1>3, <1>4, <1>6, <1>7, Zenon DEF Same
  <2>2. QED BY <1>1, <2>1, SameKept
<1>8. CASE p = o
  <2>1. life[o] = "filled"
    BY <1>1, <1>2, Zenon DEF FillsAt
  <2>2. EndsAt(p)' /\ (Ending(p)' <=> Ending(p))
    BY <1>1, <1>2, <1>3, <1>4, Zenon DEF EndsAt, Ended, Ending, outFrame
  <2>3. o \in Delivered'
    BY <1>5, Zenon
  <2>4. FillsAt(o)'
    BY <1>1, <1>6, <1>8, <2>1, <2>3, Zenon DEF FillsAt, outFrame
  <2>5. QED BY <1>8, <2>2, <2>4
<1>9. QED BY <1>7, <1>8

\* An event leaves the held queue for the event ring: an end with nothing of its
\* order held before it.
LEMMA DrainEvent ==
  ASSUME OutTyped, EndsOK, FillsOK, held # <<>>, Head(held) \in Events,
         lane' = lane, held' = Tail(held), evt' = Append(evt, Head(held)),
         UNCHANGED outFrame, NEW p \in Oids
  PROVE  EndsAt(p)' /\ FillsAt(p)' /\ (Ending(p)' <=> Ending(p))
<1> DEFINE h == Head(held)
           e == Msg("end", p)
<1>1. /\ held \in Seq(Outputs) /\ evt \in Seq(Events) /\ h \in Events /\ EndsAt(p) /\ FillsAt(p)
      /\ Frame(p) /\ h # Msg("fill", p)
  BY EventTypes, Zenon DEF OutTyped, EndsOK, FillsOK, outFrame, Frame
<1>2. /\ Items(held) = {h} \cup Items(held') /\ h = held[1] /\ 1 \in DOMAIN held
      /\ Items(evt') = Items(evt) \cup {h}
  BY <1>1, Tailed, Appended
<1>3. NoRepeat(held, e) => NoRepeat(held', e)
  BY <1>1, TailOnce
<1>4. Delivered' = Delivered
  BY Zenon DEF Delivered, outFrame
<1>5. Behind(held, p, Delivered) => Behind(held', p, Delivered')
  <2>1. Delivered \subseteq Delivered' /\ Head(held) # Msg("fill", p)
    BY <1>1, <1>4, Zenon
  <2>2. Behind(held, p, Delivered) => Behind(Tail(held), p, Delivered')
    BY <1>1, <2>1, BehindTail, Zenon
  <2>3. QED BY <2>2, Zenon
<1>6. CASE h # e
  <2>1. NoRepeat(evt, e) => NoRepeat(evt', e)
    BY <1>1, <1>6, AppendOnce
  <2>2. Same(p)
    BY <1>1, <1>2, <1>3, <1>5, <1>6, <2>1, Zenon DEF Same
  <2>3. QED BY <1>1, <2>2, SameKept
<1>7. CASE h = e
  <2>1. NoRepeat(held, e) /\ NoRepeat(evt, e) /\ e \in Items(held) /\ e \notin Items(evt) /\ Ended(p)
    BY <1>1, <1>2, <1>7, Zenon DEF EndsAt
  <2>2. e \notin Items(held')
    BY <1>1, <1>7, <2>1, TailOnce
  <2>3. NoRepeat(evt', e)
    BY <1>1, <1>7, <2>1, AppendOnce
  <2>4. EndsAt(p)' /\ (Ending(p)' <=> Ending(p))
    BY <1>1, <1>2, <1>3, <1>7, <2>1, <2>2, <2>3, Zenon DEF EndsAt, Ended, Ending, outFrame
  <2>5. life[p] = "filled" => p \in Delivered
    <3>1. ASSUME Behind(held, p, Delivered) PROVE p \in Delivered
      <4>1. held[1] = Msg("end", p) => p \in Delivered \/ \E i \in 1 .. 1 - 1 : held[i] = Msg("fill", p)
        BY <1>2, <3>1, Zenon DEF Behind
      <4>2. QED BY <1>2, <1>7, <4>1
    <3>2. QED BY <1>1, <3>1, Zenon DEF FillsAt
  <2>6. Msg("fill", p) \in Items(held') => Msg("fill", p) \in Items(held)
    BY <1>2, Zenon
  <2>7. FillsAt(p)'
    BY <1>1, <1>4, <1>5, <2>5, <2>6, Zenon DEF FillsAt, outFrame
  <2>8. QED BY <2>4, <2>7
<1>8. QED BY <1>6, <1>7

\* The drain.
LEMMA DrainStep == ASSUME ArmInv, GwDrain PROVE ArmInv'
<1>1. CASE ~ CanDrain
  <2>1. UNCHANGED armVars /\ inbox' = inbox
    BY <1>1, Zenon DEF GwDrain, armVars, engine
  <2>2. QED BY <2>1, QuietStep, Zenon
<1>2. CASE CanDrain
  <2>1. UNCHANGED outFrame /\ OutTyped /\ EndsOK /\ FillsOK /\ held # <<>>
        /\ cmd' = cmd /\ life' = life /\ inbox' \subseteq inbox
    BY <1>2, OutsTyped, Zenon DEF GwDrain, outFrame, engine, ArmInv, CanDrain
  <2>2. Head(held) \in Outputs /\ held' = Tail(held) /\ lost' = lost
    <3>1. Head(held) \in Outputs
      BY <2>1, Tailed DEF OutTyped
    <3>2. held' = Tail(held) /\ lost' = lost
      BY <1>2, Zenon DEF GwDrain, SetOut, Out
    <3>3. QED BY <3>1, <3>2
  <2>3. held' \in Seq(Outputs)
    BY <2>1, <2>2, Tailed DEF OutTyped
  <2>4. CASE Head(held).kind = "fill"
    <3>1. PICK o \in Oids : Head(held) = Msg("fill", o) /\ o = Head(held).oid
      BY <2>2, <2>4, OutputKinds, Zenon
    <3>2. lane' = Append(lane, o) /\ evt' = evt
      BY <1>2, <2>4, <3>1, Zenon DEF GwDrain, SetOut, Out
    <3>3. lane' \in Seq(Oids)
      BY <2>1, <3>2, Appended DEF OutTyped
    <3>4. OutTyped'
      BY <2>1, <2>2, <2>3, <3>2, <3>3, Zenon DEF OutTyped
    <3>5. \A p \in Oids : EndsAt(p)' /\ FillsAt(p)' /\ (Ending(p)' <=> Ending(p))
      BY <2>1, <2>2, <3>1, <3>2, DrainFill, Zenon
    <3>6. QED BY <2>1, <2>2, <3>4, <3>5, OutsOnly, CmdUntouched, Zenon
  <2>5. CASE Head(held).kind # "fill"
    <3>1. Head(held) \in Events
      BY <2>2, <2>5, OutputKinds, Zenon
    <3>2. lane' = lane /\ evt' = Append(evt, Head(held))
      BY <1>2, <2>5, Zenon DEF GwDrain, SetOut, Out
    <3>3. evt' \in Seq(Events)
      BY <2>1, <3>1, <3>2, Appended DEF OutTyped
    <3>4. OutTyped'
      BY <2>1, <2>2, <2>3, <3>2, <3>3, Zenon DEF OutTyped
    <3>5. \A p \in Oids : EndsAt(p)' /\ FillsAt(p)' /\ (Ending(p)' <=> Ending(p))
      BY <2>1, <2>2, <3>1, <3>2, DrainEvent, Zenon
    <3>6. QED BY <2>1, <2>2, <3>4, <3>5, OutsOnly, CmdUntouched, Zenon
  <2>6. QED BY <2>4, <2>5
<1>3. QED BY <1>1, <1>2

\* An event that is no end, with or without a command popped or a message read.
LEMMA EventStep ==
  ASSUME ArmInv, NEW e \in Events, e.kind # "end", OutStep(e), UNCHANGED outFrame,
         cmd' \in Seq(Commands), CmdOK', \A p \in Oids : CmdSame(p), inbox' \subseteq inbox
  PROVE  ArmInv'
<1>1. OutTyped /\ EndsOK /\ FillsOK
  BY OutsTyped, Zenon DEF ArmInv
<1>2. ASSUME NEW p \in Oids PROVE EndsAt(p)' /\ FillsAt(p)' /\ (Ending(p)' <=> Ending(p))
  <2>1. Frame(p) /\ EndsAt(p) /\ FillsAt(p)
    BY <1>1, Zenon DEF Frame, outFrame, EndsOK, FillsOK
  <2>2. e # Msg("end", p)
    BY DEF Msg
  <2>3. QED BY <1>1, <2>1, <2>2, OutOther, Zenon
<1>3. OutTyped' /\ (lost' = lost \/ lost' = TRUE)
  BY <1>1, OutTypes, Zenon
<1>4. QED BY <1>2, <1>3, OutsOnly, Zenon

\* The ring after a pop: only the order popped may be gone from it.
LEMMA Popped ==
  ASSUME ArmInv, cmd # <<>>, cmd' = Tail(cmd)
  PROVE  /\ cmd' \in Seq(Commands) /\ Head(cmd) \in Commands
         /\ \A p \in Oids : /\ NoRepeat(cmd', Cmd("place", p))
                            /\ Head(cmd) # Cmd("place", p) => CmdSame(p)
                            /\ Head(cmd) = Cmd("place", p) =>
                                 Cmd("place", p) \in Items(cmd) /\ Cmd("place", p) \notin Items(cmd')
<1>1. cmd \in Seq(Commands)
  BY Zenon DEF ArmInv, Typed
<1>2. cmd' \in Seq(Commands) /\ Head(cmd) \in Commands /\ Items(cmd) = {Head(cmd)} \cup Items(cmd')
  BY <1>1, Tailed
<1>3. ASSUME NEW p \in Oids
      PROVE  /\ NoRepeat(cmd', Cmd("place", p))
             /\ Head(cmd) = Cmd("place", p) => Cmd("place", p) \notin Items(cmd')
  <2>1. NoRepeat(cmd, Cmd("place", p))
    BY Zenon DEF ArmInv, CmdOK
  <2>2. QED BY <1>1, <2>1, TailOnce
<1>4. QED BY <1>2, <1>3, Zenon DEF CmdSame

\* A place command: sent to the venue, or refused with an end.
LEMMA PlacePopped ==
  ASSUME ArmInv, PopCommand, Head(cmd).verb = "place"
  PROVE  ArmInv'
<1>1. /\ cmd # <<>> /\ cmd' = Tail(cmd) /\ OnPlace(Head(cmd).oid)
      /\ UNCHANGED <<inbox, inFlight, retired, rows, booked, ticked, backlog, early>>
  BY Zenon DEF PopCommand, CanPop, engine
<1>2. cmd' \in Seq(Commands) /\ Head(cmd) \in Commands
  BY <1>1, Popped, Zenon
<1>3. PICK o \in Oids : /\ Head(cmd).oid = o /\ Head(cmd) = Cmd("place", o)
                        /\ \A p : p # o => Head(cmd) # Cmd("place", p)
  BY <1>2 DEF Commands, Cmd
<1>4. /\ \A p \in Oids : NoRepeat(cmd', Cmd("place", p))
      /\ \A p \in Oids \ {o} : CmdSame(p)
      /\ Cmd("place", o) \in Items(cmd) /\ Cmd("place", o) \notin Items(cmd')
  BY <1>1, <1>3, Popped, Zenon
<1>5. /\ CmdOK /\ OotOK /\ EndsOK /\ FillsOK /\ InboxOK /\ CountOK /\ OutTyped
      /\ life \in [Oids -> Lives] /\ inFlight \in Nat /\ oot \subseteq Oids
  BY OutsTyped, Zenon DEF ArmInv, Typed
<1>6. life[o] = "queued"
  BY <1>3, <1>4, <1>5, Zenon DEF CmdOK
<1>7. o \notin oot /\ ~ Ending(o) /\ o \notin retired /\ o \notin Items(lane) /\ Msg("fill", o) \notin Items(held)
  <2>1. ~ Ended(o) /\ life[o] # "filled"
    BY <1>6 DEF Ended
  <2>2. o \notin oot
    BY <1>3, <1>5, <1>6, Zenon DEF OotOK
  <2>3. ~ Ending(o) /\ o \notin retired
    BY <1>3, <1>5, <2>1, Zenon DEF EndsOK, EndsAt, Ending
  <2>4. o \notin Items(lane) /\ Msg("fill", o) \notin Items(held)
    BY <1>3, <1>5, <2>1, Zenon DEF FillsOK, FillsAt
  <2>5. QED BY <2>2, <2>3, <2>4
<1>8. Msg("fill", o) \notin inbox /\ Msg("reject", o) \notin inbox /\ Msg("gone", o) \notin inbox
  BY <1>3, <1>5, <1>6, Zenon DEF InboxOK
<1>9. ASSUME NEW l \in Lives, l # "queued", life' = [life EXCEPT ![o] = l]
      PROVE  /\ life' \in [Oids -> Lives] /\ life'[o] = l /\ \A p \in Oids \ {o} : life'[p] = life[p]
             /\ CmdOK' /\ InboxOK'
  <2>1. life' \in [Oids -> Lives] /\ life'[o] = l /\ \A p \in Oids \ {o} : life'[p] = life[p]
    BY <1>3, <1>5, <1>9, Zenon
  <2>2. CmdOK'
    BY <1>4, <1>5, <1>9, <2>1, Zenon DEF CmdOK, CmdSame
  <2>3. InboxOK'
    BY <1>1, <1>5, <1>8, <2>1, Zenon DEF InboxOK
  <2>4. QED BY <2>1, <2>2, <2>3
<1>10. CASE oot' = oot \cup {o} /\ life' = [life EXCEPT ![o] = "sent"] /\ UNCHANGED <<lane, evt, held, lost>>
  <2>1. /\ life' \in [Oids -> Lives] /\ life'[o] = "sent" /\ \A p \in Oids \ {o} : life'[p] = life[p]
        /\ CmdOK' /\ InboxOK'
    BY <1>9, <1>10, Zenon DEF Lives
  <2>2. Typed'
    BY <1>1, <1>2, <1>3, <1>10, <2>1, Zenon DEF ArmInv, Typed
  <2>3. OotOK'
    BY <1>5, <1>10, <2>1, Zenon DEF OotOK
  <2>4. ASSUME NEW p \in Oids PROVE EndsAt(p)' /\ FillsAt(p)' /\ (Ending(p)' <=> Ending(p))
    <3>1. EndsAt(p) /\ FillsAt(p)
      BY <1>5, Zenon DEF EndsOK, FillsOK
    <3>2. CASE p # o
      BY <1>1, <1>10, <2>1, <3>1, <3>2, Zenon DEF EndsAt, FillsAt, Ended, Ending, Delivered
    <3>3. CASE p = o
      <4>1. EndsAt(o)' /\ (Ending(o)' <=> Ending(o))
        BY <1>1, <1>7, <1>10, <3>1, <3>3, Zenon DEF EndsAt, Ending
      <4>2. FillsAt(o)'
        BY <1>7, <1>10, <2>1, Zenon DEF FillsAt
      <4>3. QED BY <3>3, <4>1, <4>2
    <3>4. QED BY <3>2, <3>3
  <2>5. CountOK'
    <3>1. \A p \in Oids : p \in Unended' <=> p \in Unended
      BY <1>3, <1>4, <1>10, <2>4, UnendedIs, UnendedIsNext, Zenon DEF CmdSame
    <3>2. QED BY <1>1, <1>5, <1>10, <3>1, CountKept, Zenon
  <2>6. RowsCoverVenue' /\ early' = {}
    BY <1>1, <1>6, <2>1, Zenon DEF ArmInv, RowsCoverVenue
  <2>7. QED BY <2>1, <2>2, <2>3, <2>4, <2>5, <2>6, Zenon DEF ArmInv, EndsOK, FillsOK
<1>11. CASE /\ life' = [life EXCEPT ![o] = "gone"] /\ oot' = oot
            /\ SetOut(Emit(Out, Msg("end", o)))
  <2>1. /\ life' \in [Oids -> Lives] /\ life'[o] = "gone" /\ \A p \in Oids \ {o} : life'[p] = life[p]
        /\ CmdOK' /\ InboxOK'
    BY <1>9, <1>11, Zenon DEF Lives
  <2>2. OutStep(Msg("end", o)) /\ Msg("end", o) \in Events
    BY <1>3, <1>11, EmitIs, MsgTypes, Zenon
  <2>3. OutTyped' /\ (lost' = lost \/ lost' = TRUE)
    BY <1>5, <2>2, OutTypes, Zenon
  <2>4. ASSUME NEW p \in Oids \ {o} PROVE EndsAt(p)' /\ FillsAt(p)' /\ (Ending(p)' <=> Ending(p))
    <3>1. EndsAt(p) /\ FillsAt(p) /\ Frame(p)
      BY <1>1, <1>5, <1>11, <2>1, Zenon DEF EndsOK, FillsOK, Frame
    <3>2. Msg("end", o) # Msg("end", p)
      BY MsgDiffer, Zenon
    <3>3. QED BY <1>5, <2>2, <3>1, <3>2, OutOther, Zenon
  <2>5. EndsAt(o)' /\ FillsAt(o)' /\ (Ending(o)' \/ lost' = TRUE)
    <3>1. EndsAt(o) /\ FillsAt(o) /\ life[o] # "filled" /\ o \notin oot'
      BY <1>3, <1>5, <1>6, <1>7, <1>11, Zenon DEF EndsOK, FillsOK
    <3>2. QED BY <1>1, <1>3, <1>5, <1>7, <2>1, <2>2, <3>1, OutEnd, Zenon
  <2>6. o \in Unended /\ o \notin oot' /\ oot' \subseteq Oids /\ \A p \in Oids \ {o} : p \in oot' <=> p \in oot
    BY <1>3, <1>4, <1>5, <1>7, <1>11, UnendedIs, Zenon
  <2>7. inbox' \subseteq Messages /\ UNCHANGED <<inFlight, retired, rows, early>>
    BY <1>1, Zenon DEF ArmInv, Typed
  <2>8. QED BY <1>2, <1>3, <1>4, <2>1, <2>3, <2>4, <2>5, <2>6, <2>7, EndSent, Zenon
<1>12. QED BY <1>1, <1>3, <1>10, <1>11, Zenon DEF OnPlace

\* A cancel command: sent, or refused with an event that is no end.
LEMMA CancelPopped ==
  ASSUME ArmInv, PopCommand, Head(cmd).verb # "place"
  PROVE  ArmInv'
<1>1. /\ cmd # <<>> /\ cmd' = Tail(cmd) /\ OnCancel(Head(cmd).oid) /\ life' = life
      /\ UNCHANGED outFrame /\ inbox' \subseteq inbox
  BY Zenon DEF PopCommand, CanPop, OnCancel, engine, outFrame
<1>2. cmd' \in Seq(Commands) /\ Head(cmd) \in Commands
      /\ \A p \in Oids : NoRepeat(cmd', Cmd("place", p)) /\ (Head(cmd) # Cmd("place", p) => CmdSame(p))
  BY <1>1, Popped, Zenon
<1>3. Head(cmd).oid \in Oids /\ \A p : Head(cmd) # Cmd("place", p)
  BY <1>2 DEF Commands, Cmd
<1>4. CmdOK' /\ \A p \in Oids : CmdSame(p)
  BY <1>1, <1>2, <1>3, Zenon DEF ArmInv, CmdOK, CmdSame
<1>5. CASE UNCHANGED <<lane, evt, held, lost>>
  <2>1. OutTyped' /\ EndsOK' /\ FillsOK'
    BY <1>1, <1>5, OutsTyped, Zenon DEF OutTyped, ArmInv, EndsOK, FillsOK, EndsAt, FillsAt, Ended, Delivered, outFrame
  <2>2. \A p \in Oids : EndsAt(p)' /\ FillsAt(p)' /\ (Ending(p)' <=> Ending(p))
    BY <1>5, <2>1, Zenon DEF EndsOK, FillsOK, Ending
  <2>3. QED BY <1>1, <1>2, <1>4, <1>5, <2>1, <2>2, OutsOnly, Zenon
<1>6. CASE SetOut(Emit(Out, Msg("refused", Head(cmd).oid)))
  <2> DEFINE e == Msg("refused", Head(cmd).oid)
  <2>1. e \in Events /\ e.kind # "end"
    BY <1>3 DEF Msg, Events
  <2>2. OutStep(e)
    BY <1>6, EmitIs, Zenon
  <2> HIDE DEF e
  <2>3. QED BY <1>1, <1>2, <1>4, <2>1, <2>2, EventStep, Zenon
<1>7. QED BY <1>1, <1>5, <1>6, Zenon DEF OnCancel

\* A message of a kind is that kind's message of the order it names.
LEMMA MessageKinds ==
  ASSUME NEW m \in Messages, m.kind # "list"
  PROVE  m.oid \in Oids /\ m = Msg(m.kind, m.oid)
BY DEF Messages, Msg

\* The venue ended an order of the table: its fill, if it was filled, and its end.
LEMMA EndRead ==
  ASSUME ArmInv, NEW o \in oot, oot' = oot \ {o}, cmd' = cmd, life' = life, inbox' \subseteq inbox,
         UNCHANGED <<inFlight, retired, rows, booked, ticked, backlog, early>>,
         \/ life[o] = "gone" /\ OutStep(Msg("end", o))
         \/ life[o] = "filled" /\ FillStep(o)
  PROVE  ArmInv'
<1>1. /\ CmdOK /\ OotOK /\ EndsOK /\ FillsOK /\ InboxOK /\ CountOK /\ OutTyped
      /\ life \in [Oids -> Lives] /\ inFlight \in Nat /\ oot \subseteq Oids /\ o \in Oids
  BY OutsTyped, Zenon DEF ArmInv, Typed
<1>2. EndsAt(o) /\ FillsAt(o) /\ ~ Ending(o) /\ o \notin oot'
  <2>1. EndsAt(o) /\ FillsAt(o)
    BY <1>1, Zenon DEF EndsOK, FillsOK
  <2>2. QED BY <2>1, Zenon DEF EndsAt, Ending
<1>3. ASSUME NEW p \in Oids \ {o} PROVE EndsAt(p) /\ FillsAt(p) /\ Frame(p) /\ (p \in oot' <=> p \in oot)
  BY <1>1, Zenon DEF EndsOK, FillsOK, Frame
<1>4. cmd' \in Seq(Commands) /\ CmdOK' /\ \A p \in Oids : CmdSame(p)
  BY CmdUntouched, Zenon
<1>5. InboxOK' /\ inbox' \subseteq Messages /\ oot' \subseteq Oids /\ o \in Unended
      /\ life' \in [Oids -> Lives]
  BY <1>1, UnendedIs, Zenon DEF InboxOK, ArmInv, Typed
<1>6. Cmd("place", o) \notin Items(cmd') /\ life'[o] \in {"filled", "gone"}
  BY <1>1, Zenon DEF CmdOK
<1>7. CASE life[o] = "gone" /\ OutStep(Msg("end", o))
  <2>1. Msg("end", o) \in Events /\ \A p \in Oids \ {o} : Msg("end", o) # Msg("end", p)
    BY <1>1, MsgTypes, MsgDiffer, Zenon
  <2>2. OutTyped' /\ (lost' = lost \/ lost' = TRUE)
    BY <1>1, <1>7, <2>1, OutTypes, Zenon
  <2>3. \A p \in Oids \ {o} : EndsAt(p)' /\ FillsAt(p)' /\ (Ending(p)' <=> Ending(p))
    BY <1>1, <1>3, <1>7, <2>1, OutOther, Zenon
  <2>4. EndsAt(o)' /\ FillsAt(o)' /\ (Ending(o)' \/ lost' = TRUE)
    <3>1. life[o] # "filled" /\ life'[o] = "gone"
      BY <1>7
    <3>2. QED BY <1>1, <1>2, <1>7, <3>1, OutEnd, Zenon
  <2>5. \A p \in Oids : EndsAt(p)' /\ FillsAt(p)'
    BY <2>3, <2>4, Zenon
  <2>6. QED BY <1>1, <1>2, <1>3, <1>4, <1>5, <1>6, <2>2, <2>3, <2>4, <2>5, EndSent, Zenon
<1>8. CASE life[o] = "filled" /\ FillStep(o)
  <2>1. OutTyped' /\ (lost' = lost \/ lost' = TRUE)
    BY <1>1, <1>8, FillTypes, Zenon
  <2>2. \A p \in Oids \ {o} : EndsAt(p)' /\ FillsAt(p)' /\ (Ending(p)' <=> Ending(p))
    BY <1>1, <1>3, <1>8, FillOther, Zenon
  <2>3. EndsAt(o)' /\ FillsAt(o)' /\ (Ending(o)' \/ lost' = TRUE)
    BY <1>1, <1>2, <1>8, FillOwn, Zenon
  <2>4. \A p \in Oids : EndsAt(p)' /\ FillsAt(p)'
    BY <2>2, <2>3, Zenon
  <2>5. QED BY <1>1, <1>2, <1>3, <1>4, <1>5, <1>6, <2>1, <2>2, <2>3, <2>4, EndSent, Zenon
<1>9. QED BY <1>7, <1>8

\* The gateway reads a message.
LEMMA ReceiveStep == ASSUME ArmInv, NEW m \in inbox, Receive(m) PROVE ArmInv'
<1>1. /\ cmd' = cmd /\ life' = life /\ inbox' \subseteq inbox
      /\ UNCHANGED <<inFlight, retired, rows, booked, ticked, backlog, early>>
  BY Zenon DEF Receive, engine
<1>2. m \in Messages /\ InboxOK /\ OutTyped /\ oot \subseteq Oids
  BY OutsTyped, Zenon DEF ArmInv, Typed
<1>3. CASE m.kind = "ack" /\ SetOut(Emit(Out, m)) /\ oot' = oot
  <2>1. m \in Events /\ m.kind # "end"
    BY <1>2, <1>3 DEF Messages, Events
  <2>2. OutStep(m)
    BY <1>3, EmitIs, Zenon
  <2>3. UNCHANGED outFrame
    BY <1>1, <1>3, Zenon DEF outFrame
  <2>4. QED BY <1>1, <2>1, <2>2, <2>3, CmdUntouched, EventStep, Zenon
<1>4. CASE m.kind = "fill" /\ m.oid \in oot /\ EndOrder(OutFill(Out, m.oid), m.oid)
  <2>1. m = Msg("fill", m.oid) /\ m.oid \in Oids
    BY <1>2, <1>4, MessageKinds, Zenon
  <2>2. life[m.oid] = "filled"
    BY <1>2, <2>1, Zenon DEF InboxOK
  <2>3. FillStep(m.oid) /\ oot' = oot \ {m.oid}
    BY <1>2, <1>4, <2>1, FillIs, Zenon DEF EndOrder
  <2>4. QED BY <1>1, <1>4, <2>2, <2>3, EndRead, Zenon
<1>5. CASE m.kind \in {"reject", "gone"} /\ m.oid \in oot /\ EndOrder(Out, m.oid)
  <2>1. (m = Msg("reject", m.oid) \/ m = Msg("gone", m.oid)) /\ m.oid \in Oids
    BY <1>2, <1>5, MessageKinds
  <2>2. life[m.oid] = "gone"
    BY <1>2, <2>1, Zenon DEF InboxOK
  <2>3. OutStep(Msg("end", m.oid)) /\ oot' = oot \ {m.oid}
    BY <1>5, EmitIs, Zenon DEF EndOrder
  <2>4. QED BY <1>1, <1>5, <2>2, <2>3, EndRead, Zenon
<1>6. CASE oot' = oot /\ SetOut(Emit(Out, Msg("sweep", "-")))
  <2>1. Msg("sweep", "-") \in Events /\ Msg("sweep", "-").kind # "end"
    BY DEF Msg, Events
  <2>2. OutStep(Msg("sweep", "-")) /\ UNCHANGED outFrame
    BY <1>1, <1>6, EmitIs, Zenon DEF outFrame
  <2>3. QED BY <1>1, <2>1, <2>2, CmdUntouched, EventStep, Zenon
<1>7. CASE UNCHANGED <<oot, lane, evt, held, lost>>
  <2>1. UNCHANGED armVars
    BY <1>1, <1>7, Zenon DEF armVars
  <2>2. QED BY <1>1, <2>1, QuietStep, Zenon
<1>8. QED
  <2>1. ASSUME NEW n, SweepConfirm(n), oot' = oot
        PROVE  \/ oot' = oot /\ SetOut(Emit(Out, Msg("sweep", "-")))
               \/ UNCHANGED <<oot, lane, evt, held, lost>>
    BY <2>1, Zenon DEF SweepConfirm, FinishSweep
  <2>2. QED BY <1>3, <1>4, <1>5, <1>6, <1>7, <2>1, Zenon DEF Receive

---------------------------------------------------------------------------
(* The invariant is inductive *)

\* A fresh arm has no order anywhere, so every clause of ArmInv holds of it.
LEMMA ArmInvInit == Init => ArmInv
<1> SUFFICES ASSUME Init PROVE ArmInv
  OBVIOUS
<1>1. Items(<<>>) = {} /\ \A S : <<>> \in Seq(S)
  BY DEF Items
<1>2. \A x : NoRepeat(<<>>, x)
  BY DEF NoRepeat
<1>3. Typed
  <2>1. life \in [Oids -> Lives]
    BY DEF Init, Lives
  <2>2. inFlight \in Nat
    BY DEF Init
  <2>3. QED BY <1>1, <2>1, <2>2, Zenon DEF Init, Typed
<1>4. \A o \in Oids : life[o] = "new"
  BY DEF Init
<1>5. CmdOK /\ OotOK /\ InboxOK /\ RowsCoverVenue /\ early = {}
  BY <1>1, <1>2, <1>4 DEF Init, CmdOK, OotOK, InboxOK, RowsCoverVenue
<1>6. EndsOK
  BY <1>1, <1>2, Zenon DEF Init, EndsOK, EndsAt
<1>7. FillsOK
  BY <1>1, <1>4 DEF Init, FillsOK, FillsAt
<1>8. CountOK
  <2>1. Unended = {}
    BY <1>1, Zenon DEF Init, Unended
  <2>2. Cardinality(Unended) = 0
    BY <2>1, FS_EmptySet, Zenon
  <2>3. inFlight = 0
    BY Zenon DEF Init
  <2>4. inFlight >= Cardinality(Unended)
    BY <2>2, <2>3
  <2>5. QED BY <2>2, <2>3, <2>4, Zenon DEF CountOK
<1>9. QED BY <1>3, <1>5, <1>6, <1>7, <1>8 DEF ArmInv

\* Every step of the arm, the gateway and the venue keeps ArmInv: one lemma
\* above for each action.
LEMMA ArmInvInductive == ArmInv /\ [Next]_vars => ArmInv'
<1> SUFFICES ASSUME ArmInv, [Next]_vars PROVE ArmInv'
  OBVIOUS
<1>1. CASE GwDrain
  BY <1>1, DrainStep
<1>2. CASE TakeSweep \/ StartSweep \/ EndBurst \/ NothingRead
  <2>1. UNCHANGED armVars /\ inbox' \subseteq inbox
    BY <1>2, Zenon DEF TakeSweep, StartSweep, EndBurst, NothingRead, armVars, engine, shared
  <2>2. QED BY <2>1, QuietStep, Zenon
<1>3. CASE PopCommand
  BY <1>3, PlacePopped, CancelPopped, Zenon
<1>4. CASE \E m \in inbox : Receive(m)
  BY <1>4, ReceiveStep, Zenon
<1>5. CASE VenueLists
  <2>1. PICK o \in {p \in Oids : life[p] = "open"} \cup {"-"} : inbox' = inbox \cup {Msg("list", o)}
    BY <1>5, Zenon DEF VenueLists
  <2>2. o \in Oids \cup {"-"} /\ UNCHANGED armVars
    BY <1>5, <2>1, Zenon DEF VenueLists, armVars, engine, gateway, shared
  <2>3. QED BY <2>1, <2>2, ListStep, Zenon
<1>6. ASSUME NEW o \in Oids, VenueAnswers(o) \/ VenueFills(o) \/ VenueCancels(o) PROVE ArmInv'
  <2>1. /\ Says("sent", "open", "ack") /\ Says("sent", "gone", "reject")
        /\ Says("open", "filled", "fill") /\ Says("open", "gone", "gone")
    BY DEF Says
  <2>2. QED BY <1>6, <2>1, VenueStep, Zenon DEF VenueAnswers, VenueFills, VenueCancels
<1>7. CASE Member
  BY <1>7, PlaceStep, CancelStep, Zenon DEF Member
<1>8. CASE Tick
  BY <1>8, TickStep
<1>9. CASE Idle
  BY <1>9, IdleStep
<1>10. CASE UNCHANGED vars
  <2>1. UNCHANGED armVars /\ inbox' \subseteq inbox
    BY <1>10, Zenon DEF vars, armVars, engine, gateway, shared
  <2>2. QED BY <2>1, QuietStep, Zenon
<1>11. QED BY <1>1, <1>2, <1>3, <1>4, <1>5, <1>6, <1>7, <1>8, <1>9, <1>10, Zenon DEF Next, Gateway, Venue

---------------------------------------------------------------------------
(* What holds of every behaviour *)

\* The arm and its gateway always agree on where each order is: its command,
\* its fill and its end are each in at most one place, in that order, and
\* in_flight counts the orders whose end has not been drained.
THEOREM ArmInvAlways == Spec => []ArmInv
BY ArmInvInit, ArmInvInductive, PTL DEF Spec

\* BinanceArm's in_flight is the number of orders placed and not yet ended, as
\* long as the gateway lost no output: whatever the interleaving of the threads,
\* no end is counted twice or missed.
THEOREM InFlightCountsOrders == Spec => []InFlightIsExact
<1>1. ArmInv => InFlightIsExact
  BY Zenon DEF ArmInv, CountOK, InFlightIsExact
<1>2. QED BY <1>1, ArmInvAlways, PTL

\* A retirement reaches the router only once its order's fill was booked, unless
\* the last tick left fills in the lane: the fill goes first wherever both wait.
THEOREM RetirementsFollowFills == Spec => []FillsBookedFirst
<1>1. ArmInv => FillsBookedFirst
  BY DEF ArmInv, FillsBookedFirst
<1>2. QED BY <1>1, ArmInvAlways, PTL

\* The ledger's resting rows cover every order that may be working at the venue,
\* through retirements, confirmed sweeps and lost outputs: a Clear that drops
\* every row is read only with no order in flight.
THEOREM RowsAlwaysCover == Spec => []RowsCoverVenue
<1>1. ArmInv => RowsCoverVenue
  BY DEF ArmInv
<1>2. QED BY <1>1, ArmInvAlways, PTL

\* A Clear in the answer word is that of a listing of the request it names.
WordInv ==
  /\ word \in [seq : Nat, state : {"clear", "working", "stranded"}] /\ req \in Nat /\ taken \in Nat
  /\ word.state = "clear" => confirmed = word.seq

\* A Clear under the newest request's number was confirmed for that request:
\* set_sweep stores the state before the sequence number.
THEOREM ClearsAreCurrent == Spec => []ClearIsThisSweeps
<1>1. Init => WordInv
  BY DEF Init, WordInv
<1>2. WordInv /\ [Next]_vars => WordInv'
  <2> SUFFICES ASSUME WordInv, [Next]_vars PROVE WordInv'
    OBVIOUS
  <2>1. CASE UNCHANGED <<word, confirmed, taken>> /\ req' \in Nat
    BY <2>1, Zenon DEF WordInv
  <2>2. ASSUME NEW s, word' = [seq |-> taken, state |-> s], s \in {"working", "stranded"}, UNCHANGED <<req, taken>>
        PROVE  WordInv'
    BY <2>2 DEF WordInv
  <2>3. CASE word' = [seq |-> taken, state |-> "clear"] /\ confirmed' = taken /\ UNCHANGED <<req, taken>>
    BY <2>3 DEF WordInv
  <2>4. CASE TakeSweep
    <3>1. CASE req # taken
      <4>1. word' = [word EXCEPT !.state = "working"] /\ taken' = req /\ req' = req
        BY <2>4, <3>1, Zenon DEF TakeSweep
      <4>2. QED BY <4>1 DEF WordInv
    <3>2. CASE ~ (req # taken)
      <4>1. UNCHANGED <<word, confirmed, taken, req>>
        BY <2>4, <3>2, Zenon DEF TakeSweep
      <4>2. QED BY <2>1, <4>1, Zenon DEF WordInv
    <3>3. QED BY <3>1, <3>2
  <2>5. CASE StartSweep
    BY <2>2, <2>5, Zenon DEF StartSweep
  <2>6. ASSUME NEW m \in inbox, Receive(m) PROVE WordInv'
    <3>1. UNCHANGED <<req, taken>> /\ req \in Nat
      BY <2>6, Zenon DEF Receive, WordInv
    <3>2. ASSUME NEW n, SweepConfirm(n) PROVE WordInv'
      BY <2>1, <2>2, <2>3, <3>1, <3>2, Zenon DEF SweepConfirm, FinishSweep
    <3>3. ASSUME NEW x, NEW o, EndOrder(x, o) PROVE UNCHANGED <<word, confirmed>>
      BY <3>3, Zenon DEF EndOrder
    <3>4. QED BY <2>1, <2>6, <3>1, <3>2, <3>3, Zenon DEF Receive
  <2>7. CASE Idle
    <3>1. UNCHANGED <<word, confirmed, taken>> /\ \E n, r : PollSweep(n, r)
      BY <2>7, Zenon DEF Idle, gateway
    <3>2. req + 1 \in Nat /\ req \in Nat
      BY DEF WordInv
    <3>3. req' = req \/ req' = req + 1
      BY <3>1, Zenon DEF PollSweep, RequestSweep
    <3>4. QED BY <2>1, <3>1, <3>2, <3>3, Zenon
  <2>8. CASE GwDrain \/ PopCommand \/ EndBurst \/ NothingRead \/ Tick \/ Member \/ Venue \/ UNCHANGED vars
    <3>1. CASE GwDrain \/ PopCommand \/ EndBurst \/ NothingRead \/ Tick \/ UNCHANGED vars
      <4>1. UNCHANGED <<word, confirmed, taken, req>>
        BY <3>1, Zenon DEF GwDrain, PopCommand, EndBurst, NothingRead, Tick, vars, shared, gateway
      <4>2. QED BY <2>1, <4>1, Zenon DEF WordInv
    <3>2. CASE Member \/ Venue
      <4>1. UNCHANGED <<word, confirmed, taken, req>>
        BY <3>2, Zenon DEF Member, Place, Cancel, Venue, VenueLists, VenueAnswers, VenueFills,
           VenueCancels, VenueSays, shared, gateway
      <4>2. QED BY <2>1, <4>1, Zenon DEF WordInv
    <3>3. QED BY <2>8, <3>1, <3>2
  <2>9. QED BY <2>4, <2>5, <2>6, <2>7, <2>8, Zenon DEF Next, Gateway
<1>3. WordInv => ClearIsThisSweeps
  BY Zenon DEF WordInv, ClearIsThisSweeps
<1>4. QED BY <1>1, <1>2, <1>3, PTL DEF Spec
=============================================================================
