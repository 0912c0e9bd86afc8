---------------------------- MODULE EditsProofs ----------------------------
(***************************************************************************)
(* The forms, the dialogs and the lists of the panel where something is    *)
(* edited: that each page of the instance MCPanelEdits keeps its types and *)
(* what the runs check of it, for every value of the constants.            *)
(*                                                                         *)
(* One part per page. The theorems of a page rest on an inductive          *)
(* invariant of its own (FormInv, StackInv, TemplatesInv, ...), which      *)
(* says beside the types what the requests on the way carry, what the      *)
(* answers are of, and which boxes belong to one another. The last part    *)
(* takes them to the panel: a step of it is a step of the page shown, and  *)
(* a stutter of every other.                                               *)
(***************************************************************************)
EXTENDS MCPanelEdits, FiniteSetTheorems, SequenceTheorems, WellFoundedInduction, TLAPS

(***************************************************************************)
(* The queries of a page: what a fetch, its answer and its failure make of *)
(* one.                                                                    *)
(***************************************************************************)
LEMMA AskedIs ==
    ASSUME NEW Data, NEW query \in Query(Data)
    PROVE  /\ Asked(query) \in Query(Data)
           /\ Asked(query).data = query.data
           /\ Asked(query).ask = "asked"
           /\ Asked(query).error => query.error
BY DEF Query, Asked

\* A failed fetch keeps what was there and is not to be relied on.
LEMMA FailedIs ==
    ASSUME NEW Data, NEW query \in Query(Data)
    PROVE  /\ Failed(query) \in Query(Data)
           /\ Failed(query).data = query.data
           /\ Failed(query).error /\ Failed(query).ask = "idle"
           /\ ~Usable(Failed(query))
BY DEF Query, Failed, Usable

\* An answer is all the query then holds.
LEMMA LandedIs ==
    ASSUME NEW Data, NEW answer \in Data
    PROVE  /\ Landed(answer) \in Query(Data)
           /\ Landed(answer).data = answer
           /\ Landed(answer).ask = "idle"
BY DEF Query, Landed

\* The first fetch of a query has nothing to show.
LEMMA FirstAskIs ==
    ASSUME NEW Data
    PROVE  /\ Asked(Unasked) \in Query(Data)
           /\ Asked(Unasked).data = None
           /\ Asked(Unasked).ask = "asked"
BY DEF Query, Asked, Unasked

(***************************************************************************)
(* The least and the greatest of some numbers.                             *)
(***************************************************************************)
LEMMA OrderOfNat ==
    \E R : IsWellFoundedOn(R, Nat) /\ \A x, y \in Nat : x < y => <<x, y>> \in R
<1>1. IsWellFoundedOn(OpToRel(<, Nat), Nat)
  BY NatLessThanWellFounded
<1>2. \A x, y \in Nat : x < y => <<x, y>> \in OpToRel(<, Nat)
  BY DEF OpToRel
<1> QED BY <1>1, <1>2

\* Every set of naturals that is not empty has a least one.
LEMMA LeastOf ==
    ASSUME NEW T, T \subseteq Nat, T # {}
    PROVE  \E n \in T : \A m \in T : n <= m
<1>1. PICK R : IsWellFoundedOn(R, Nat) /\ \A x, y \in Nat : x < y => <<x, y>> \in R
  BY OrderOfNat
<1>2. IsWellFoundedOn(R, Nat)
  BY <1>1
<1>3. PICK n \in T : \A m \in T : ~ (<<m, n>> \in R)
  BY <1>2, WFMin
<1>4. \A m \in T : ~(m < n)
  BY <1>1, <1>3
<1> QED BY <1>4

\* Every set of naturals under a bound has a greatest one.
LEMMA GreatestOf ==
    ASSUME NEW top \in Nat, NEW T, T \subseteq 0..top, T # {}
    PROVE  \E n \in T : \A m \in T : n >= m
<1> DEFINE D == {top - n : n \in T}
<1>1. D \subseteq Nat /\ D # {}
  <2>1. \A n \in T : top - n \in Nat
    OBVIOUS
  <2>2. \A n \in T : top - n \in D
    OBVIOUS
  <2>3. D # {}
    BY <2>2
  <2>4. D \subseteq Nat
    BY <2>1
  <2> QED BY <2>3, <2>4
<1> HIDE DEF D
<1>2. PICK d \in D : \A other \in D : d <= other
  BY <1>1, LeastOf
<1>3. PICK n \in T : d = top - n
  BY DEF D
<1>4. \A m \in T : top - m \in D
  BY DEF D
<1>5. \A m \in T : n >= m
  BY <1>2, <1>3, <1>4
<1> QED BY <1>5

(***************************************************************************)
(* Taking a box off a stack in which it stands once.                       *)
(***************************************************************************)
LEMMA SameSequence ==
    ASSUME NEW S, NEW s \in Seq(S), NEW t \in Seq(S), Len(s) = Len(t), \A i \in 1..Len(s) : s[i] = t[i]
    PROVE  s = t
OBVIOUS

\* What is appended is the last of the sequence, above all the others.
LEMMA OnTopOf ==
    ASSUME NEW S, NEW s \in Seq(S), NEW e \in S
    PROVE  /\ Append(s, e) \in Seq(S) /\ Len(Append(s, e)) = Len(s) + 1
           /\ Append(s, e)[Len(s) + 1] = e /\ \A i \in 1..Len(s) : Append(s, e)[i] = s[i]
OBVIOUS

\* Taking away what occurs once joins what is before it with what is after it.
LEMMA TheOnlyOneGoes ==
    ASSUME NEW S, NEW s \in Seq(S), NEW e, NEW k \in 1..Len(s), s[k] = e,
           \A i \in 1..Len(s) : s[i] = e => i = k
    PROVE  RemoveFirst(s, e) = SubSeq(s, 1, k - 1) \o SubSeq(s, k + 1, Len(s))
<1> DEFINE I == {i \in 1..Len(s) : s[i] = e}
<1>1. I = {k}
  OBVIOUS
<1>2. Min(I) = k
  <2>1. \E x \in I : \A y \in I : x =< y
    BY <1>1
  <2> QED BY <1>1, <2>1 DEF Min
<1>3. SelectInSeq(s, LAMBDA v : v = e) = k
  BY <1>1, <1>2 DEF SelectInSeq
<1> QED BY <1>3 DEF RemoveFirst, RemoveAt

\* Taking away what does not occur takes nothing.
LEMMA NothingGoes ==
    ASSUME NEW s, NEW e, \A i \in 1..Len(s) : s[i] # e
    PROVE  RemoveFirst(s, e) = s
BY DEF RemoveFirst

\* What was appended to a sequence without it is taken off again.
LEMMA OffTheTop ==
    ASSUME NEW S, NEW s \in Seq(S), NEW e \in S, \A i \in 1..Len(s) : s[i] # e
    PROVE  RemoveFirst(Append(s, e), e) = s
<1> DEFINE t == Append(s, e)
<1>1. t \in Seq(S) /\ Len(t) = Len(s) + 1 /\ t[Len(t)] = e
      /\ \A i \in 1..Len(s) : t[i] = s[i]
  OBVIOUS
<1>2. RemoveFirst(t, e) = SubSeq(t, 1, Len(t) - 1) \o SubSeq(t, Len(t) + 1, Len(t))
  <2>1. Len(t) \in 1..Len(t) /\ \A i \in 1..Len(t) : t[i] = e => i = Len(t)
    BY <1>1
  <2> HIDE DEF t
  <2> QED BY <1>1, <2>1, TheOnlyOneGoes
<1>3. SubSeq(t, 1, Len(t) - 1) = s
  BY <1>1
<1>4. SubSeq(t, Len(t) + 1, Len(t)) = <<>>
  BY <1>1
<1> QED BY <1>2, <1>3, <1>4

(***************************************************************************)
(* The frame.  A dialog of the page is on top of at most one box of the    *)
(* frame, and the time that runs is that of the chord under way.           *)
(***************************************************************************)
FrameStacks ==
    {<<>>, <<"dialog">>} \cup {<<box>> : box \in OfTheFrame} \cup {<<box, "dialog">> : box \in OfTheFrame}

ShellInv ==
    /\ page \in Pages /\ broken \in BOOLEAN /\ typing \in BOOLEAN
    /\ boxes \in FrameStacks
    /\ chord \in 0..MaxChords /\ timers \subseteq 1..MaxChords /\ pressed \in 0..MaxChords
    /\ timers \subseteq {chord}

\* Stacks of one and of two boxes.
LEMMA StackOfTwo ==
    \A d, e : Append(<<d>>, e) = <<d, e>> /\ SubSeq(<<d, e>>, 1, 1) = <<d>> /\ SubSeq(<<d, e>>, 2, 2) = <<e>>
<1> SUFFICES ASSUME NEW d, NEW e
             PROVE  Append(<<d>>, e) = <<d, e>> /\ SubSeq(<<d, e>>, 1, 1) = <<d>> /\ SubSeq(<<d, e>>, 2, 2) = <<e>>
  OBVIOUS
<1> DEFINE S == {d, e}
<1> DEFINE a == <<d>>
<1> DEFINE b == <<e>>
<1> DEFINE s == <<d, e>>
<1>1. a \in Seq(S) /\ Len(a) = 1 /\ a[1] = d
  OBVIOUS
<1>2. b \in Seq(S) /\ Len(b) = 1 /\ b[1] = e
  OBVIOUS
<1>3. s \in Seq(S) /\ Len(s) = 2 /\ s[1] = d /\ s[2] = e
  OBVIOUS
<1>4. d \in S /\ e \in S
  OBVIOUS
<1> HIDE DEF S, a, b, s
<1>5. Append(a, e) = s
  <2>1. Append(a, e) \in Seq(S) /\ Len(Append(a, e)) = 2 /\ Append(a, e)[1] = d /\ Append(a, e)[2] = e
    <3>1. /\ Append(a, e) \in Seq(S) /\ Len(Append(a, e)) = Len(a) + 1
          /\ Append(a, e)[Len(a) + 1] = e /\ \A i \in 1..Len(a) : Append(a, e)[i] = a[i]
      <4>1. a \in Seq(S) /\ e \in S
        BY <1>1, <1>4
      <4> QED BY <4>1, OnTopOf
    <3> QED BY <1>1, <3>1
  <2>2. \A i \in 1..Len(Append(a, e)) : Append(a, e)[i] = s[i]
    <3>1. \A i \in 1..Len(Append(a, e)) : i = 1 \/ i = 2
      BY <2>1
    <3> QED BY <1>3, <2>1, <3>1
  <2> QED BY <1>3, <2>1, <2>2, SameSequence
<1>6. SubSeq(s, 1, 1) = a
  <2> DEFINE q == SubSeq(s, 1, 1)
  <2>1. q \in Seq(S) /\ Len(q) = 1 /\ q[1] = d
    BY <1>3
  <2> HIDE DEF q
  <2>2. \A i \in 1..Len(q) : q[i] = a[i]
    BY <1>1, <2>1
  <2>3. q = a
    BY <1>1, <2>1, <2>2, SameSequence
  <2> QED BY <2>3 DEF q
<1>7. SubSeq(s, 2, 2) = b
  <2> DEFINE q == SubSeq(s, 2, 2)
  <2>1. q \in Seq(S) /\ Len(q) = 1 /\ q[1] = e
    BY <1>3
  <2> HIDE DEF q
  <2>2. \A i \in 1..Len(q) : q[i] = b[i]
    BY <1>2, <2>1
  <2>3. q = b
    BY <1>2, <2>1, <2>2, SameSequence
  <2> QED BY <2>3 DEF q
<1> QED BY <1>5, <1>6, <1>7 DEF a, b, s

\* The only box of the frame leaves nothing behind,
LEMMA OneGoes == \A e : RemoveFirst(<<e>>, e) = <<>>
<1> TAKE e
<1>1. Append(<<>>, e) = <<e>>
  OBVIOUS
<1>2. RemoveFirst(Append(<<>>, e), e) = <<>>
  <2>1. <<>> \in Seq({e}) /\ e \in {e} /\ \A i \in 1..Len(<<>>) : <<>>[i] # e
    OBVIOUS
  <2> DEFINE S == {e}
  <2> HIDE DEF S
  <2>2. <<>> \in Seq(S) /\ e \in S
    BY <2>1 DEF S
  <2> QED BY <2>1, <2>2, OffTheTop
<1> QED BY <1>1, <1>2

\* the upper of two leaves the lower,
LEMMA UpperGoes == \A d, e : d # e => RemoveFirst(<<d, e>>, e) = <<d>>
<1> SUFFICES ASSUME NEW d, NEW e, d # e PROVE RemoveFirst(<<d, e>>, e) = <<d>>
  OBVIOUS
<1>1. Append(<<d>>, e) = <<d, e>>
  BY StackOfTwo
<1>2. RemoveFirst(Append(<<d>>, e), e) = <<d>>
  <2> DEFINE S == {d, e}
  <2> DEFINE a == <<d>>
  <2>1. a \in Seq(S) /\ e \in S /\ \A i \in 1..Len(a) : a[i] # e
    OBVIOUS
  <2> HIDE DEF S, a
  <2>2. RemoveFirst(Append(a, e), e) = a
    BY <2>1, OffTheTop
  <2> QED BY <2>2 DEF a
<1> QED BY <1>1, <1>2

\* and the lower of two leaves the upper.
LEMMA LowerGoes == \A d, e : d # e => RemoveFirst(<<d, e>>, d) = <<e>>
<1> SUFFICES ASSUME NEW d, NEW e, d # e PROVE RemoveFirst(<<d, e>>, d) = <<e>>
  OBVIOUS
<1> DEFINE s == <<d, e>>
<1>1. s \in Seq({d, e}) /\ Len(s) = 2 /\ s[1] = d /\ s[2] = e
  OBVIOUS
<1>2. RemoveFirst(s, d) = SubSeq(s, 1, 0) \o SubSeq(s, 2, 2)
  <2>1. 1 \in 1..Len(s) /\ \A i \in 1..Len(s) : s[i] = d => i = 1
    BY <1>1
  <2> HIDE DEF s
  <2>2. RemoveFirst(s, d) = SubSeq(s, 1, 1 - 1) \o SubSeq(s, 1 + 1, Len(s))
    BY <1>1, <2>1, TheOnlyOneGoes
  <2> QED BY <1>1, <2>2
<1>3. SubSeq(s, 1, 0) = <<>> /\ SubSeq(s, 2, 2) = <<e>>
  BY <1>1, StackOfTwo
<1>4. <<>> \o <<e>> = <<e>>
  OBVIOUS
<1> QED BY <1>2, <1>3, <1>4

\* What the steps make of a stack of the frame.
LEMMA StacksAreKept ==
    ASSUME boxes \in FrameStacks
    PROVE  /\ \A box \in Box : Closing(box) \in FrameStacks
           /\ boxes # <<>> => Front(boxes) \in FrameStacks
           /\ \A box \in Box : boxes = <<>> => Append(boxes, box) \in FrameStacks /\ Closing(box) = <<>>
           /\ ~Contains(boxes, "dialog") => Append(boxes, "dialog") \in FrameStacks
           /\ \A box \in OfTheFrame : OnTop(box) => boxes = <<box>> /\ Closing(box) = <<>>
           /\ \A box \in OfTheFrame : boxes = <<box>> => ~Contains(boxes, "dialog")
           /\ boxes = <<>> => ~Contains(boxes, "dialog")
           /\ \A box \in Box : Append(<<>>, box) \in FrameStacks
<1>1. \A box \in Box : <<box>> \in FrameStacks /\ Append(<<>>, box) = <<box>> /\ RemoveFirst(<<>>, box) = <<>>
  BY NothingGoes DEF Box, FrameStacks
<1>2. CASE boxes = <<>>
  BY <1>1, <1>2 DEF Closing, FrameStacks, Contains, OnTop, anyDialogOpen
<1>3. CASE boxes = <<"dialog">>
  <2>1. \A box \in Box : Closing(box) \in {<<>>, <<"dialog">>}
    <3> SUFFICES ASSUME NEW box \in Box PROVE Closing(box) \in {<<>>, <<"dialog">>}
      OBVIOUS
    <3>1. CASE box = "dialog"
      BY <1>3, <3>1, OneGoes DEF Closing
    <3>2. CASE box # "dialog"
      <4>1. \A i \in 1..Len(boxes) : boxes[i] # box
        BY <1>3, <3>2
      <4> QED BY <1>3, <4>1, NothingGoes DEF Closing
    <3> QED BY <3>1, <3>2
  <2>2. Front(boxes) = <<>> /\ Last(boxes) = "dialog" /\ Contains(boxes, "dialog")
    BY <1>3 DEF Front, Last, Contains
  <2> QED BY <1>1, <1>3, <2>1, <2>2 DEF FrameStacks, OnTop, OfTheFrame
<1>4. ASSUME NEW f \in OfTheFrame, boxes = <<f>>
      PROVE  /\ \A box \in Box : Closing(box) \in FrameStacks
             /\ boxes # <<>> => Front(boxes) \in FrameStacks
             /\ Append(boxes, "dialog") \in FrameStacks
             /\ \A box \in OfTheFrame : OnTop(box) => boxes = <<box>> /\ Closing(box) = <<>>
             /\ ~Contains(boxes, "dialog") /\ boxes # <<>>
  <2>1. Closing(f) = <<>> /\ \A box \in Box : box # f => Closing(box) = boxes
    <3>1. Closing(f) = <<>>
      BY <1>4, OneGoes DEF Closing
    <3>2. ASSUME NEW box \in Box, box # f PROVE Closing(box) = boxes
      <4>1. \A i \in 1..Len(boxes) : boxes[i] # box
        BY <1>4, <3>2
      <4> QED BY <4>1, NothingGoes DEF Closing
    <3> QED BY <3>1, <3>2
  <2>2. Front(boxes) = <<>> /\ Last(boxes) = f /\ ~Contains(boxes, "dialog")
    BY <1>4 DEF Front, Last, Contains, OfTheFrame
  <2>3. Append(boxes, "dialog") = <<f, "dialog">>
    BY <1>4, StackOfTwo
  <2> QED BY <1>4, <2>1, <2>2, <2>3 DEF FrameStacks, OnTop
<1>5. ASSUME NEW f \in OfTheFrame, boxes = <<f, "dialog">>
      PROVE  /\ \A box \in Box : Closing(box) \in FrameStacks
             /\ Front(boxes) \in FrameStacks
             /\ Contains(boxes, "dialog")
             /\ \A box \in OfTheFrame : ~OnTop(box) /\ boxes # <<box>>
             /\ boxes # <<>>
  <2>0. f # "dialog"
    BY DEF OfTheFrame
  <2>1. \A box \in Box : Closing(box) \in {boxes, <<f>>, <<"dialog">>}
    <3> SUFFICES ASSUME NEW box \in Box PROVE Closing(box) \in {boxes, <<f>>, <<"dialog">>}
      OBVIOUS
    <3>1. CASE box = "dialog"
      BY <1>5, <2>0, <3>1, UpperGoes DEF Closing
    <3>2. CASE box = f
      BY <1>5, <2>0, <3>2, LowerGoes DEF Closing
    <3>3. CASE box # "dialog" /\ box # f
      <4>1. \A i \in 1..Len(boxes) : boxes[i] # box
        BY <1>5, <3>3
      <4> QED BY <4>1, NothingGoes DEF Closing
    <3> QED BY <3>1, <3>2, <3>3
  <2>2. Front(boxes) = <<f>> /\ Last(boxes) = "dialog" /\ Contains(boxes, "dialog") /\ Len(boxes) = 2
    <3>1. Len(boxes) = 2 /\ boxes[1] = f /\ boxes[2] = "dialog" /\ boxes \in Seq(Box)
      BY <1>5 DEF Box
    <3>2. SubSeq(boxes, 1, 1) = <<f>>
      BY <1>5, StackOfTwo
    <3> QED BY <3>1, <3>2 DEF Front, Last, Contains
  <2>3. \A box \in OfTheFrame : boxes # <<box>>
    <3>1. \A box : Len(<<box>>) = 1
      OBVIOUS
    <3> QED BY <2>2, <3>1
  <2> QED BY <1>5, <2>0, <2>1, <2>2, <2>3 DEF FrameStacks, OnTop, OfTheFrame
<1>6. \/ boxes = <<>> \/ boxes = <<"dialog">>
      \/ \E f \in OfTheFrame : boxes = <<f>> \/ boxes = <<f, "dialog">>
  BY DEF FrameStacks
<1>7. CASE \E f \in OfTheFrame : boxes = <<f>>
  BY <1>1, <1>4, <1>7
<1>8. CASE \E f \in OfTheFrame : boxes = <<f, "dialog">>
  BY <1>1, <1>5, <1>8
<1> QED BY <1>2, <1>3, <1>6, <1>7, <1>8

\* The frame opens with no box on it and no chord begun.
LEMMA ShellStartsSound == ShellInit => ShellInv
<1>1. 0 \in 0..MaxChords
  BY ChordsAssumption
<1> QED BY <1>1 DEF ShellInit, ShellInv, FrameStacks

\* No step of the frame breaks its invariant.
LEMMA ShellStaysSound ==
    ASSUME ShellInv, [ShellNext]_shellVars
    PROVE  ShellInv'
<1>1. KeyPressed => pressed' \in 1..MaxChords /\ pressed' \in 0..MaxChords
  BY ChordsAssumption DEF KeyPressed, ShellInv
<1>2. TimerCleared = {} /\ (chord = 0 => timers = {})
  <2>1. timers \subseteq {chord} /\ timers \subseteq 1..MaxChords
    BY DEF ShellInv
  <2> QED BY <2>1 DEF TimerCleared
<1>3. 0 \in 0..MaxChords
  BY ChordsAssumption
<1>4. boxes \in FrameStacks /\ OfTheFrame \subseteq Box /\ "dialog" \in Box
  BY DEF ShellInv, OfTheFrame, Box
<1>5. CASE ControlK
  <2>1. boxes' \in FrameStacks
    BY <1>4, <1>5, StacksAreKept DEF ControlK, MayOpenPalette, anyDialogOpen, OfTheFrame
  <2> QED BY <1>5, <2>1 DEF ControlK, ShellInv
<1>6. CASE QuestionMark
  <2>1. boxes' \in FrameStacks
    BY <1>4, <1>6, StacksAreKept DEF QuestionMark, HearsKeys, anyDialogOpen, OfTheFrame
  <2> QED BY <1>6, <2>1 DEF QuestionMark, ShellInv
<1>7. CASE KeyG
  <2>1. /\ chord' \in 0..MaxChords /\ timers' \subseteq 1..MaxChords /\ timers' \subseteq {chord'}
    BY <1>1, <1>2, <1>3, <1>7 DEF KeyG
  <2> QED BY <1>1, <1>7, <2>1 DEF KeyG, ShellInv
<1>8. CASE OtherKey
  BY <1>1, <1>2, <1>3, <1>8 DEF OtherKey, ShellInv
<1>9. ASSUME NEW c \in timers, TimeIsUp(c) PROVE ShellInv'
  <2>1. timers' = {}
    BY <1>9, <1>2 DEF TimeIsUp, TimerCleared
  <2> QED BY <1>3, <1>9, <2>1 DEF TimeIsUp, ShellInv
<1>10. CASE CloseTop
  <2>1. boxes' \in FrameStacks
    BY <1>4, <1>10, StacksAreKept DEF CloseTop, anyDialogOpen
  <2> QED BY <1>10, <2>1 DEF CloseTop, ShellInv
<1>11. CASE TurnToField
  <2>1. typing' \in BOOLEAN
    BY <1>11 DEF TurnToField, ShellInv
  <2> QED BY <1>11, <2>1 DEF TurnToField, ShellInv
<1>12. CASE PageOpensDialog
  <2>1. boxes' \in FrameStacks
    BY <1>4, <1>12, StacksAreKept DEF PageOpensDialog
  <2> QED BY <1>12, <2>1 DEF PageOpensDialog, ShellInv
<1>13. CASE PageBreaks
  <2>1. boxes' \in FrameStacks
    BY <1>4, <1>13, StacksAreKept DEF PageBreaks
  <2> QED BY <1>13, <2>1 DEF PageBreaks, ShellInv
<1>14. CASE TryAgain
  BY <1>14 DEF TryAgain, ShellInv
<1>15. ASSUME NEW p \in Pages, SecondKey(p) PROVE ShellInv'
  <2>1. /\ page' \in Pages /\ broken' \in BOOLEAN /\ chord' = 0 /\ timers' = {}
    BY <1>2, <1>15 DEF SecondKey, GoesTo, ShellInv
  <2> QED BY <1>1, <1>3, <1>15, <2>1 DEF SecondKey, ShellInv
<1>16. ASSUME NEW p \in Pages, FollowLink(p) PROVE ShellInv'
  <2>1. boxes' \in FrameStacks
    BY <1>4, <1>16, StacksAreKept DEF FollowLink, OfTheFrame
  <2>2. /\ page' \in Pages /\ broken' \in BOOLEAN
        /\ (chord' = 0 /\ timers' = {}) \/ (chord' = chord /\ timers' = timers)
    <3>1. GoesTo(p, <<chord, timers>>)
      BY <1>16 DEF FollowLink
    <3>2. <<chord, timers>>[1] = chord /\ <<chord, timers>>[2] = timers
      OBVIOUS
    <3> DEFINE then == <<chord, timers>>
    <3> HIDE DEF then
    <3>3. CASE p = page
      <4>1. page' = p /\ broken' = broken /\ chord' = then[1] /\ timers' = then[2]
        BY <3>1, <3>3 DEF GoesTo, then
      <4>2. then[1] = chord /\ then[2] = timers
        BY <3>2 DEF then
      <4> QED BY <4>1, <4>2 DEF ShellInv
    <3>4. CASE p # page
      <4>1. page' = p /\ broken' = FALSE /\ chord' = 0 /\ timers' = {}
        BY <3>1, <3>4 DEF GoesTo
      <4> QED BY <1>16, <4>1
    <3> QED BY <3>3, <3>4
  <2> QED BY <1>3, <1>16, <2>1, <2>2 DEF FollowLink, ShellInv
<1>17. ASSUME NEW box \in OfTheFrame, OpenFromFrame(box) PROVE ShellInv'
  <2>1. "menu" \in OfTheFrame /\ "menu" \in Box
    BY DEF OfTheFrame, Box
  <2>2. Closing("menu") = <<>>
    BY <1>4, <1>17, <2>1, StacksAreKept DEF OpenFromFrame, PageHasTheKeys, anyDialogOpen
  <2>3. boxes' \in FrameStacks
    BY <1>4, <1>17, <2>2, StacksAreKept DEF OpenFromFrame
  <2> QED BY <1>17, <2>3 DEF OpenFromFrame, ShellInv
<1>18. CASE UNCHANGED shellVars
  BY <1>18 DEF shellVars, ShellInv
<1> QED BY <1>5, <1>6, <1>7, <1>8, <1>9, <1>10, <1>11, <1>12, <1>13, <1>14, <1>15, <1>16, <1>17, <1>18
        DEF ShellNext

\* The invariant of the frame holds in every state.
LEMMA ShellInvHolds == ShellSpec => []ShellInv
BY ShellStartsSound, ShellStaysSound, PTL DEF ShellSpec

\* Every variable of the frame keeps its type; no box is on the stack twice.
THEOREM ShellTypeCorrect == ShellSpec => []ShellTypeOK
<1>1. ShellInv => ShellTypeOK
  <2> SUFFICES ASSUME ShellInv PROVE ToSet(boxes) \subseteq Box /\ Cardinality(ToSet(boxes)) = Len(boxes)
    BY DEF ShellTypeOK, ShellInv
  <2>1. CASE boxes = <<>>
    <3>1. ToSet(boxes) = {} /\ Len(boxes) = 0
      BY <2>1 DEF ToSet
    <3> QED BY <3>1, FS_EmptySet
  <2>2. ASSUME NEW f \in Box, boxes = <<f>>
        PROVE  ToSet(boxes) \subseteq Box /\ Cardinality(ToSet(boxes)) = Len(boxes)
    <3>1. ToSet(boxes) = {f} /\ Len(boxes) = 1
      BY <2>2 DEF ToSet
    <3> QED BY <3>1, FS_Singleton
  <2>3. ASSUME NEW f \in OfTheFrame, boxes = <<f, "dialog">>
        PROVE  ToSet(boxes) \subseteq Box /\ Cardinality(ToSet(boxes)) = Len(boxes)
    <3>1. ToSet(boxes) = {f} \cup {"dialog"} /\ Len(boxes) = 2 /\ f # "dialog" /\ f \in Box
      BY <2>3 DEF ToSet, OfTheFrame, Box
    <3>2. Cardinality({f}) = 1 /\ IsFiniteSet({f})
      BY FS_Singleton
    <3>3. Cardinality({f} \cup {"dialog"}) = 2
      BY <3>1, <3>2, FS_AddElement
    <3> QED BY <3>1, <3>3 DEF Box
  <2> QED BY <2>1, <2>2, <2>3 DEF ShellInv, FrameStacks, Box
<1> QED BY <1>1, ShellInvHolds, PTL

\* Two boxes of the frame are never open at once (Layout.tsx:117-124 and 128-131).
THEOREM OneFrameBoxAtOnce == ShellSpec => []OneBoxOfTheFrame
<1>1. ShellInv => OneBoxOfTheFrame
  <2> SUFFICES ASSUME ShellInv PROVE Cardinality(ToSet(boxes) \cap OfTheFrame) <= 1
    BY DEF OneBoxOfTheFrame
  <2>1. ToSet(boxes) \cap OfTheFrame = {} \/ \E f : ToSet(boxes) \cap OfTheFrame = {f}
    <3>1. \/ boxes = <<>> \/ boxes = <<"dialog">>
          \/ \E f \in OfTheFrame : boxes = <<f>> \/ boxes = <<f, "dialog">>
      BY DEF ShellInv, FrameStacks
    <3>2. CASE boxes = <<>> \/ boxes = <<"dialog">>
      BY <3>2 DEF ToSet, OfTheFrame
    <3>3. ASSUME NEW f \in OfTheFrame, boxes = <<f>> \/ boxes = <<f, "dialog">>
          PROVE  ToSet(boxes) \cap OfTheFrame = {f}
      BY <3>3 DEF ToSet, OfTheFrame
    <3> QED BY <3>1, <3>2, <3>3
  <2>2. Cardinality({}) = 0 /\ \A f : Cardinality({f}) = 1
    BY FS_EmptySet, FS_Singleton
  <2> QED BY <2>1, <2>2
<1> QED BY <1>1, ShellInvHolds, PTL

\* A chord ends by its own time (Layout.tsx:105-111).
THEOREM ChordsEndByTheirTime == ShellSpec => []OwnTimeOnly
<1>1. ShellInv => OwnTimeOnly
  BY DEF ShellInv, OwnTimeOnly
<1> QED BY <1>1, ShellInvHolds, PTL

NotUnderADialog == page' # page => ~Contains(boxes, "dialog")

\* No key and no link takes the page away from under a dialog of its own
\* (Layout.tsx:117-121 and 128-131).
THEOREM DialogsKeepTheirPage == ShellSpec => StaysUnderItsDialog
<1>1. ShellInv /\ [ShellNext]_shellVars => [NotUnderADialog]_shellVars
  <2> SUFFICES ASSUME ShellInv, ShellNext, page' # page PROVE ~Contains(boxes, "dialog")
    BY DEF NotUnderADialog
  <2>1. \E p \in Pages : SecondKey(p) \/ FollowLink(p)
    BY DEF ShellNext, ControlK, QuestionMark, KeyG, OtherKey, CloseTop, TurnToField, PageOpensDialog, PageBreaks,
           TryAgain, OpenFromFrame, TimeIsUp
  <2>2. \/ boxes = <<>> \/ OnTop("menu") \/ OnTop("palette")
    BY <2>1 DEF SecondKey, FollowLink, HearsKeys, PageHasTheKeys, anyDialogOpen
  <2>3. "menu" \in OfTheFrame /\ "palette" \in OfTheFrame /\ boxes \in FrameStacks
    BY DEF OfTheFrame, ShellInv
  <2> QED BY <2>2, <2>3, StacksAreKept
<1>2. ([][NotUnderADialog]_shellVars) <=> StaysUnderItsDialog
  BY DEF NotUnderADialog, StaysUnderItsDialog
<1> QED BY <1>1, <1>2, ShellInvHolds, PTL DEF ShellSpec

(***************************************************************************)
(* Language and theme.  The texts that are still wanted are those of the   *)
(* language that is chosen, and of English in its place.                   *)
(***************************************************************************)
PrefInv ==
    /\ PrefTypeOK
    /\ \A load \in loads : ~load.cancelled => load.lang \in {lang, English}
    /\ TextIsOfTheLanguage
    /\ BlankEnds
    /\ PaintedAsChosen
    /\ LanguageIsKept

\* The themes of the switch (theme.tsx:19).
LEMMA ThemesAre == Themes = {"light", "dark", "system"}
<1> DEFINE c == THEME_CYCLE
<1>1. Len(c) = 3 /\ c[1] = "light" /\ c[2] = "dark" /\ c[3] = "system" /\ DOMAIN c = 1..3
  BY DEF THEME_CYCLE
<1> HIDE DEF c
<1>2. \A i \in 1..3 : i = 1 \/ i = 2 \/ i = 3
  OBVIOUS
<1>3. {c[i] : i \in DOMAIN c} = {"light", "dark", "system"}
  BY <1>1, <1>2
<1> QED BY <1>3 DEF Themes, c

\* The switch goes from a theme to a theme,
LEMMA NextThemeIs == \A t \in Themes : nextTheme(t) \in Themes
<1> SUFFICES ASSUME NEW t \in Themes PROVE nextTheme(t) \in Themes
  OBVIOUS
<1> DEFINE i == CHOOSE i \in DOMAIN THEME_CYCLE : THEME_CYCLE[i] = t
<1>1. i \in DOMAIN THEME_CYCLE
  BY DEF Themes
<1>2. DOMAIN THEME_CYCLE = 1..3
  BY DEF THEME_CYCLE
<1> HIDE DEF i
<1>3. (i % 3) + 1 \in 1..3
  BY <1>1, <1>2
<1>4. nextTheme(t) = THEME_CYCLE[(i % 3) + 1]
  BY DEF nextTheme, i
<1> QED BY <1>2, <1>3, <1>4 DEF Themes

\* and each is painted light or dark.
LEMMA PaintIs == \A t \in Themes, dark \in BOOLEAN : resolvedTheme(t, dark) \in {"light", "dark"}
BY ThemesAre DEF resolvedTheme

\* Storing one choice leaves the other two in the storage as they were.
LEMMA StoredIs ==
    ASSUME NEW kept \in Selections
    PROVE  /\ \A l \in Text : [kept EXCEPT !.lang = l] \in Selections /\ [kept EXCEPT !.lang = l].lang = l
           /\ \A t \in Themes : [kept EXCEPT !.theme = t] \in Selections /\ [kept EXCEPT !.theme = t].lang = kept.lang
           /\ \A b \in BOOLEAN :
                  [kept EXCEPT !.collapsed = b] \in Selections /\ [kept EXCEPT !.collapsed = b].lang = kept.lang
BY DEF Selections

\* The panel opens before the text of any language is loaded, with nothing stored.
LEMMA PrefStartsSound == PrefInit => PrefInv
<1> SUFFICES ASSUME PrefInit PROVE PrefInv
  OBVIOUS
<1>1. Fresh(lang) \in Load /\ ~Fresh(lang).cancelled /\ Fresh(lang).lang = lang
  BY DEF PrefInit, Fresh, Load
<1>2. "none" \in Text /\ "system" \in Themes /\ NothingStored \in Selections /\ NothingStored.lang = "none"
  BY ThemesAre DEF Text, NothingStored, Selections
<1>3. 0 \in 0..MaxChoices
  BY LanguagesAssumption
<1>4. PrefTypeOK
  BY <1>1, <1>2, <1>3, PaintIs DEF PrefInit, PrefTypeOK
<1> QED BY <1>1, <1>2, <1>4
        DEF PrefInit, PrefInv, TextIsOfTheLanguage, BlankEnds, PaintedAsChosen, LanguageIsKept

\* No choice, load or answer of the system breaks the invariant of the preferences.
LEMMA PrefStaysSound ==
    ASSUME PrefInv, [PrefNext]_prefVars
    PROVE  PrefInv'
<1> USE DEF PrefInv
<1>0. /\ lang \in Languages /\ translations \in Text /\ ready \in BOOLEAN /\ chunks \subseteq Languages
      /\ loads \subseteq Load /\ theme \in Themes /\ systemDark \in BOOLEAN
      /\ painted \in {"light", "dark"} /\ collapsed \in BOOLEAN /\ stored \in Selections
      /\ choices \in 0..MaxChoices
  BY DEF PrefTypeOK
<1>1. Choice => choices' \in 0..MaxChoices
  <2> SUFFICES ASSUME Choice PROVE choices' \in 0..MaxChoices
    OBVIOUS
  <2>1. choices < MaxChoices /\ choices' = choices + 1
    BY DEF Choice
  <2> QED BY <1>0, <2>1, LanguagesAssumption
<1>2. CASE ToggleTheme
  <2>1. theme' \in Themes /\ painted' = resolvedTheme(theme', systemDark) /\ Choice
        /\ stored' \in {stored, [stored EXCEPT !.theme = theme']}
        /\ UNCHANGED <<lang, translations, ready, loads, chunks, systemDark, collapsed>>
    BY <1>0, <1>2, NextThemeIs DEF ToggleTheme, MayStore, theText
  <2>2. painted' \in {"light", "dark"} /\ stored' \in Selections /\ stored'.lang = stored.lang
    <3>1. painted' \in {"light", "dark"}
      BY <1>0, <2>1, PaintIs
    <3>2. /\ [stored EXCEPT !.theme = theme'] \in Selections
          /\ [stored EXCEPT !.theme = theme'].lang = stored.lang
      BY <1>0, <2>1, StoredIs
    <3>3. CASE stored' = stored
      BY <1>0, <3>1, <3>3
    <3>4. CASE stored' = [stored EXCEPT !.theme = theme']
      BY <3>1, <3>2, <3>4
    <3> QED BY <2>1, <3>3, <3>4
  <2>3. PrefTypeOK'
    BY <1>0, <1>1, <2>1, <2>2 DEF PrefTypeOK
  <2> QED BY <2>1, <2>2, <2>3 DEF TextIsOfTheLanguage, BlankEnds, PaintedAsChosen, LanguageIsKept
<1>3. CASE SystemTurns
  <2>1. systemDark' \in BOOLEAN /\ painted' = resolvedTheme(theme, systemDark') /\ Choice
        /\ stored' \in {stored, [stored EXCEPT !.theme = theme]}
        /\ UNCHANGED <<lang, translations, ready, loads, chunks, theme, collapsed>>
    BY <1>0, <1>3 DEF SystemTurns, MayStore, theText
  <2>2. painted' \in {"light", "dark"} /\ stored' \in Selections /\ stored'.lang = stored.lang
    <3>1. painted' \in {"light", "dark"}
      BY <1>0, <2>1, PaintIs
    <3>2. /\ [stored EXCEPT !.theme = theme] \in Selections
          /\ [stored EXCEPT !.theme = theme].lang = stored.lang
      BY <1>0, <2>1, StoredIs
    <3>3. CASE stored' = stored
      BY <1>0, <3>1, <3>3
    <3>4. CASE stored' = [stored EXCEPT !.theme = theme]
      BY <3>1, <3>2, <3>4
    <3> QED BY <2>1, <3>3, <3>4
  <2>3. PrefTypeOK'
    BY <1>0, <1>1, <2>1, <2>2 DEF PrefTypeOK
  <2> QED BY <2>1, <2>2, <2>3 DEF TextIsOfTheLanguage, BlankEnds, PaintedAsChosen, LanguageIsKept
<1>4. CASE ToggleSidebar
  <2>1. collapsed' \in BOOLEAN /\ Choice
        /\ stored' \in {stored, [stored EXCEPT !.collapsed = collapsed']}
        /\ UNCHANGED <<lang, translations, ready, loads, chunks, theme, systemDark, painted>>
    BY <1>0, <1>4 DEF ToggleSidebar, MayStore, theText, theLook
  <2>2. stored' \in Selections /\ stored'.lang = stored.lang
    BY <1>0, <2>1, StoredIs
  <2>3. PrefTypeOK'
    BY <1>0, <1>1, <2>1, <2>2 DEF PrefTypeOK
  <2> QED BY <2>1, <2>2, <2>3 DEF TextIsOfTheLanguage, BlankEnds, PaintedAsChosen, LanguageIsKept
<1>5. CASE ReloadPage
  <2>1. /\ lang' \in Languages /\ (stored.lang \in Languages => lang' = stored.lang)
        /\ translations' = "none" /\ ready' = FALSE /\ chunks' = {} /\ loads' = {Fresh(lang')}
        /\ theme' = stored.theme /\ painted' = resolvedTheme(theme', systemDark)
        /\ collapsed' = stored.collapsed /\ Choice /\ UNCHANGED <<systemDark, stored>>
    <3>1. OpensWith(stored, systemDark) /\ Choice /\ UNCHANGED <<systemDark, stored>>
      BY <1>5 DEF ReloadPage
    <3>2. CASE stored.lang \in Languages
      BY <3>1, <3>2 DEF OpensWith
    <3>3. CASE stored.lang \notin Languages
      BY <3>1, <3>3 DEF OpensWith
    <3> QED BY <3>2, <3>3
  <2>2. stored.lang \in Text /\ stored.theme \in Themes /\ stored.collapsed \in BOOLEAN
    BY <1>0 DEF Selections
  <2>3. Fresh(lang') \in Load /\ ~Fresh(lang').cancelled /\ Fresh(lang').lang = lang'
    BY <2>1 DEF Fresh, Load
  <2>4. "none" \in Text /\ painted' \in {"light", "dark"}
    BY <1>0, <2>1, <2>2, PaintIs DEF Text
  <2>5. PrefTypeOK'
    BY <1>0, <1>1, <2>1, <2>2, <2>3, <2>4 DEF PrefTypeOK
  <2>6. stored'.lang \in {lang', "none"}
    BY <2>1, <2>2 DEF Text
  <2> QED BY <2>1, <2>3, <2>5, <2>6 DEF TextIsOfTheLanguage, BlankEnds, PaintedAsChosen, LanguageIsKept
<1>6. ASSUME NEW load \in loads, LoadEnds(load) PROVE PrefInv'
  <2>0. load \in Load /\ load.lang \in Languages /\ load.cancelled \in BOOLEAN
    BY <1>0 DEF Load
  <2>1. UNCHANGED <<lang, theme, systemDark, painted, collapsed, stored, choices>>
    BY <1>6 DEF LoadEnds, theLook
  <2>2. \/ /\ loads' = loads \ {load} /\ chunks' \subseteq Languages
           /\ \/ ~load.cancelled /\ translations' \in {load.lang, "none"} /\ ready' = TRUE
              \/ load.cancelled /\ UNCHANGED <<translations, ready>>
        \/ /\ loads' = (loads \ {load}) \cup {[load EXCEPT !.lang = English]}
           /\ UNCHANGED <<translations, ready, chunks>>
    <3>1. \/ /\ loads' = loads \ {load} /\ chunks' = chunks \cup {load.lang}
             /\ IF ~load.cancelled THEN translations' = load.lang /\ ready' = TRUE
                                   ELSE UNCHANGED <<translations, ready>>
          \/ /\ loads' = (loads \ {load}) \cup {[load EXCEPT !.lang = English]}
             /\ UNCHANGED <<translations, ready, chunks>>
          \/ /\ loads' = loads \ {load} /\ UNCHANGED chunks
             /\ IF ~load.cancelled THEN translations' = "none" /\ ready' = TRUE
                                   ELSE UNCHANGED <<translations, ready>>
      BY <1>6 DEF LoadEnds, StillWanted
    <3> QED BY <1>0, <2>0, <3>1
  <2>3. CASE /\ loads' = loads \ {load} /\ chunks' \subseteq Languages
             /\ \/ ~load.cancelled /\ translations' \in {load.lang, "none"} /\ ready' = TRUE
                \/ load.cancelled /\ UNCHANGED <<translations, ready>>
    <3>1. PrefTypeOK'
      BY <1>0, <2>0, <2>1, <2>3 DEF PrefTypeOK, Text
    <3>2. CASE ~load.cancelled /\ translations' \in {load.lang, "none"} /\ ready' = TRUE
      BY <2>1, <2>3, <3>1, <3>2 DEF TextIsOfTheLanguage, BlankEnds, PaintedAsChosen, LanguageIsKept
    <3>3. CASE load.cancelled /\ UNCHANGED <<translations, ready>>
      <4>1. (\A other \in loads' : other.cancelled) => (\A other \in loads : other.cancelled)
        BY <2>3, <3>3
      <4>2. TextIsOfTheLanguage'
        BY <2>1, <3>3, <4>1 DEF TextIsOfTheLanguage
      <4>3. BlankEnds'
        BY <2>3, <3>3 DEF BlankEnds
      <4> QED BY <2>1, <2>3, <3>1, <4>2, <4>3 DEF PaintedAsChosen, LanguageIsKept
    <3> QED BY <2>3, <3>2, <3>3
  <2>4. CASE /\ loads' = (loads \ {load}) \cup {[load EXCEPT !.lang = English]}
             /\ UNCHANGED <<translations, ready, chunks>>
    <3> DEFINE next == [load EXCEPT !.lang = English]
    <3>1. next \in Load /\ next.lang = English /\ next.cancelled = load.cancelled
      BY <2>0, LanguagesAssumption DEF Load
    <3>2. loads' = (loads \ {load}) \cup {next}
      BY <2>4
    <3> HIDE DEF next
    <3>3. PrefTypeOK'
      BY <1>0, <2>1, <2>4, <3>1, <3>2 DEF PrefTypeOK
    <3>4. (\A other \in loads' : other.cancelled) <=> (\A other \in loads : other.cancelled)
      <4>1. (\A other \in loads' : other.cancelled) => (\A other \in loads : other.cancelled)
        BY <3>1, <3>2
      <4>2. (\A other \in loads : other.cancelled) => (\A other \in loads' : other.cancelled)
        BY <3>1, <3>2
      <4> QED BY <4>1, <4>2
    <3>5. TextIsOfTheLanguage'
      BY <2>1, <2>4, <3>4 DEF TextIsOfTheLanguage
    <3>6. BlankEnds'
      BY <2>4, <3>1, <3>2 DEF BlankEnds
    <3>7. \A other \in loads' : ~other.cancelled => other.lang \in {lang', English}
      BY <2>1, <3>1, <3>2
    <3> QED BY <2>1, <3>3, <3>5, <3>6, <3>7 DEF PaintedAsChosen, LanguageIsKept
  <2> QED BY <2>2, <2>3, <2>4
<1>7. ASSUME NEW l \in Languages, SetLang(l) PROVE PrefInv'
  <2>1. Choice /\ UNCHANGED <<translations, ready, chunks, theme, systemDark, painted, collapsed>>
    BY <1>7 DEF SetLang, theLook
  <2>2. CASE UNCHANGED <<lang, loads, stored>>
    <3>1. PrefTypeOK'
      BY <1>0, <1>1, <2>1, <2>2 DEF PrefTypeOK
    <3> QED BY <2>1, <2>2, <3>1 DEF TextIsOfTheLanguage, BlankEnds, PaintedAsChosen, LanguageIsKept
  <2>3. CASE /\ stored' = [stored EXCEPT !.lang = l] /\ lang' = l
             /\ loads' = {[load EXCEPT !.cancelled = TRUE] : load \in loads} \cup {Fresh(l)}
    <3>1. Fresh(l) \in Load /\ ~Fresh(l).cancelled /\ Fresh(l).lang = l
      BY DEF Fresh, Load
    <3>2. \A load \in loads : /\ [load EXCEPT !.cancelled = TRUE] \in Load
                              /\ [load EXCEPT !.cancelled = TRUE].cancelled = TRUE
      BY <1>0 DEF Load
    <3>3. loads' \subseteq Load /\ Fresh(l) \in loads'
          /\ \A load \in loads' : load = Fresh(l) \/ load.cancelled = TRUE
      BY <2>3, <3>1, <3>2
    <3>4. stored' \in Selections /\ stored'.lang = l
      BY <1>0, <2>3, StoredIs DEF Text
    <3>5. PrefTypeOK'
      BY <1>0, <1>1, <2>1, <2>3, <3>3, <3>4 DEF PrefTypeOK
    <3>6. \A load \in loads' : ~load.cancelled => load.lang \in {lang', English}
      BY <2>3, <3>1, <3>3
    <3>7. TextIsOfTheLanguage' /\ BlankEnds'
      BY <3>1, <3>3 DEF TextIsOfTheLanguage, BlankEnds
    <3> QED BY <2>1, <2>3, <3>4, <3>5, <3>6, <3>7 DEF PaintedAsChosen, LanguageIsKept
  <2> QED BY <1>7, <2>2, <2>3 DEF SetLang
<1>8. CASE UNCHANGED prefVars
  <2>1. UNCHANGED <<lang, translations, ready, loads, chunks, theme, systemDark, painted, collapsed, stored, choices>>
    BY <1>8 DEF prefVars, theText, theLook
  <2>2. PrefTypeOK'
    BY <1>0, <2>1 DEF PrefTypeOK
  <2> QED BY <2>1, <2>2 DEF TextIsOfTheLanguage, BlankEnds, PaintedAsChosen, LanguageIsKept
<1> QED BY <1>2, <1>3, <1>4, <1>5, <1>6, <1>7, <1>8 DEF PrefNext

\* The invariant of the preferences holds in every state.
LEMMA PrefInvHolds == PrefSpec => []PrefInv
BY PrefStartsSound, PrefStaysSound, PTL DEF PrefSpec

\* Language, theme and sidebar keep their types, and so does what the browser keeps of them.
THEOREM PreferencesTypeCorrect == PrefSpec => []PrefTypeOK
<1>1. PrefInv => PrefTypeOK
  BY DEF PrefInv
<1> QED BY <1>1, PrefInvHolds, PTL

\* Once nothing is being loaded for it, the page is in the language that was chosen last, or in
\* the one that stands in for it (i18n/index.tsx:172-184).
THEOREM TextFollowsTheChoice == PrefSpec => []TextIsOfTheLanguage
<1>1. PrefInv => TextIsOfTheLanguage
  BY DEF PrefInv
<1> QED BY <1>1, PrefInvHolds, PTL

\* The first screen is only blank while a text is on its way (i18n/index.tsx:221), the page is
\* painted in the theme that was chosen or that the system prefers now (theme.tsx:60-81), and a
\* reload opens in the language that was chosen last (i18n/index.tsx:191-196).
THEOREM ChoicesAreKept == PrefSpec => [](BlankEnds /\ PaintedAsChosen /\ LanguageIsKept)
<1>1. PrefInv => BlankEnds /\ PaintedAsChosen /\ LanguageIsKept
  BY DEF PrefInv
<1> QED BY <1>1, PrefInvHolds, PTL

(***************************************************************************)
(* The general settings.  What is sent is sound however it was typed, and  *)
(* what the server holds is what was sent; a card with something in it     *)
(* stands on settings that were read.                                      *)
(***************************************************************************)
SoundAs(card, value) ==
    value \in StoredAs(card) /\ (card \in SwitchCards => (value.every = 0) = ~value.on)

SettingsInv ==
    /\ settingsAt \in AllSettings /\ \A card \in SettingCards : SoundAs(card, settingsAt[card])
    /\ settingsQ \in Query(AllSettings)
    /\ drafts \in [SettingCards -> Draft("policy") \cup Draft("health") \cup {None}]
    /\ \A card \in SettingCards : drafts[card] = None \/ drafts[card] \in Draft(card)
    /\ CardsMounted => \A card \in SettingCards : drafts[card] \in Draft(card)
    /\ \A card \in SettingCards : drafts[card] # None => settingsQ.data # None
    /\ zoneOpen \in BOOLEAN /\ unsure \in BOOLEAN
    /\ savings = None \/ /\ savings.card \in SettingCards /\ SoundAs(savings.card, savings.values)
                         /\ savings = [card |-> savings.card, values |-> savings.values, at |-> savings.at]
    /\ draftEdits \in 0..MaxDraftEdits /\ saves \in 0..MaxSaves

\* Storing the values of one card leaves those of the others as they were.
LEMMA SettingsAre ==
    ASSUME NEW s \in AllSettings
    PROVE  /\ \A card \in SettingCards : s[card] \in StoredAs(card)
           /\ \A card \in SettingCards : \A v \in StoredAs(card) : [s EXCEPT ![card] = v] \in AllSettings
           /\ \A card \in SettingCards : \A v : [s EXCEPT ![card] = v][card] = v
           /\ \A card, other \in SettingCards : \A v : other # card => [s EXCEPT ![card] = v][other] = s[other]
BY DEF AllSettings, StoredAs, SettingCards, SwitchCards

\* Whatever is typed as a number of days ends within the bounds of the field (_internal.ts:22).
LEMMA ClampIs ==
    ASSUME NEW raw \in Raw \cup 1..Days
    PROVE  clampInt(raw) \in 1..Days
<1>1. raw \in Int /\ Default \in 1..Days
  BY SettingsAssumption DEF Raw, NaN, Default
<1>2. CASE raw = NaN
  <2>1. clampInt(raw) = Default
    BY <1>2, SettingsAssumption DEF clampInt, NaN
  <2> QED BY <1>1, <2>1
<1>3. CASE raw # NaN /\ raw = 0
  BY <1>3, SettingsAssumption DEF clampInt
<1>4. CASE raw # NaN /\ raw # 0 /\ raw > Days
  BY <1>4, SettingsAssumption DEF clampInt
<1>5. CASE raw # NaN /\ raw # 0 /\ ~(raw > Days)
  <2>1. raw \in 1..Days
    BY <1>1, <1>5, SettingsAssumption DEF Raw, Default, NaN
  <2> QED BY <1>5, <2>1 DEF clampInt
<1> QED BY <1>2, <1>3, <1>4, <1>5

\* The draft of a card opens as what is stored.
LEMMA SeedIs ==
    ASSUME NEW s \in AllSettings, NEW card \in SettingCards
    PROVE  SeedOf(card, s) \in Draft(card)
<1>1. s[card] \in StoredAs(card)
  BY SettingsAre
<1>2. CASE card = "policy"
  BY <1>1, <1>2 DEF SeedOf, StoredAs, Draft
<1>3. CASE card # "policy"
  <2>1. s[card] \in [on : BOOLEAN, every : 0..Days, days : 1..Days]
    BY <1>1, <1>3 DEF StoredAs
  <2>2. (IF s[card].every = 0 THEN Default ELSE s[card].every) \in Raw \cup 1..Days
    BY <2>1, SettingsAssumption DEF Raw, Default
  <2>3. SeedOf(card, s) = [on |-> s[card].on, every |-> IF s[card].every = 0 THEN Default ELSE s[card].every,
                           days |-> s[card].days]
    BY <1>3, <2>1 DEF SeedOf
  <2>4. SeedOf(card, s) \in [on : BOOLEAN, every : Raw \cup 1..Days, days : Raw \cup 1..Days]
    BY <2>1, <2>2, <2>3
  <2> QED BY <1>3, <2>4 DEF Draft
<1> QED BY <1>2, <1>3

\* What a card sends is sound, however it was typed.
LEMMA SentIs ==
    ASSUME NEW card \in SettingCards, drafts[card] \in Draft(card), card = "policy" => ~priorityInvalid
    PROVE  SoundAs(card, Sent(card))
<1>1. CASE card = "policy"
  BY <1>1 DEF Sent, SoundAs, StoredAs, Draft, priorityInvalid, SwitchCards
<1>2. CASE card # "policy"
  <2> DEFINE draft_ == drafts[card]
  <2>1. draft_ \in [on : BOOLEAN, every : Raw \cup 1..Days, days : Raw \cup 1..Days]
    BY <1>2 DEF Draft
  <2> DEFINE every == IF draft_.on THEN clampInt(draft_.every) ELSE 0
  <2>2. clampInt(draft_.every) \in 1..Days /\ clampInt(draft_.days) \in 1..Days /\ draft_.on \in BOOLEAN
    BY <2>1, ClampIs
  <2>3. every \in 0..Days /\ (every = 0) = ~draft_.on
    BY <2>2, SettingsAssumption
  <2>4. Sent(card) = [on |-> draft_.on, every |-> every, days |-> clampInt(draft_.days)]
    BY <1>2 DEF Sent
  <2> HIDE DEF every, draft_
  <2>5. Sent(card) \in [on : BOOLEAN, every : 0..Days, days : 1..Days] /\ (Sent(card).every = 0) = ~Sent(card).on
    BY <2>2, <2>3, <2>4
  <2> QED BY <1>2, <2>5 DEF SoundAs, StoredAs
<1> QED BY <1>1, <1>2

\* A draft is one of three kinds.
LEMMA DraftsAre ==
    \A card \in SettingCards : Draft(card) \subseteq Draft("policy") \cup Draft("health") \cup {None}
BY DEF Draft, SettingCards, SwitchCards

\* The tab opens with settings that are sound.
LEMMA SettingsStartSound == SettingsInit => SettingsInv
<1> SUFFICES ASSUME SettingsInit PROVE SettingsInv
  OBVIOUS
<1>1. \A v \in {[on |-> TRUE, every |-> 1, days |-> 1], [on |-> TRUE, every |-> Default, days |-> 1],
                [on |-> FALSE, every |-> 0, days |-> 1]} :
         v \in [on : BOOLEAN, every : 0..Days, days : 1..Days] /\ (v.every = 0) = ~v.on
  <2> DEFINE Shape == [on : BOOLEAN, every : 0..Days, days : 1..Days]
  <2>1. 1 \in 0..Days /\ 0 \in 0..Days /\ 1 \in 1..Days /\ Default \in 0..Days /\ Default # 0
    BY SettingsAssumption DEF Default
  <2>2. [on |-> TRUE, every |-> 1, days |-> 1] \in Shape /\ (1 = 0) = ~TRUE
    BY <2>1
  <2>3. [on |-> TRUE, every |-> Default, days |-> 1] \in Shape /\ (Default = 0) = ~TRUE
    BY <2>1
  <2>4. [on |-> FALSE, every |-> 0, days |-> 1] \in Shape /\ (0 = 0) = ~FALSE
    BY <2>1
  <2>5. \A v : v = [on |-> TRUE, every |-> 1, days |-> 1] => (v.every = 0) = ~v.on
    OBVIOUS
  <2>6. \A v : v = [on |-> TRUE, every |-> Default, days |-> 1] => (v.every = 0) = ~v.on
    BY <2>1
  <2>7. \A v : v = [on |-> FALSE, every |-> 0, days |-> 1] => (v.every = 0) = ~v.on
    OBVIOUS
  <2> HIDE DEF Shape
  <2>8. \A v \in {[on |-> TRUE, every |-> 1, days |-> 1], [on |-> TRUE, every |-> Default, days |-> 1],
                  [on |-> FALSE, every |-> 0, days |-> 1]} : v \in Shape /\ (v.every = 0) = ~v.on
    BY <2>2, <2>3, <2>4, <2>5, <2>6, <2>7
  <2> QED BY <2>8 DEF Shape
<1>2. settingsAt \in [health : {[on |-> TRUE, every |-> 1, days |-> 1]},
                      reconcile : {[on |-> TRUE, every |-> Default, days |-> 1], [on |-> FALSE, every |-> 0, days |-> 1]},
                      policy : {"server first"}]
  <2>1. {[on |-> on, every |-> IF on THEN Default ELSE 0, days |-> 1] : on \in BOOLEAN}
            = {[on |-> TRUE, every |-> Default, days |-> 1], [on |-> FALSE, every |-> 0, days |-> 1]}
    OBVIOUS
  <2> QED BY <2>1 DEF SettingsInit
<1>3. settingsAt \in AllSettings /\ \A card \in SettingCards : SoundAs(card, settingsAt[card])
  <2>1. /\ settingsAt.health = [on |-> TRUE, every |-> 1, days |-> 1]
        /\ settingsAt.reconcile \in {[on |-> TRUE, every |-> Default, days |-> 1], [on |-> FALSE, every |-> 0, days |-> 1]}
        /\ settingsAt.policy = "server first"
        /\ settingsAt = [health |-> settingsAt.health, reconcile |-> settingsAt.reconcile, policy |-> settingsAt.policy]
    BY <1>2
  <2>2. SoundAs("health", settingsAt.health) /\ SoundAs("reconcile", settingsAt.reconcile)
        /\ SoundAs("policy", settingsAt.policy)
    BY <1>1, <2>1 DEF SoundAs, StoredAs, SwitchCards
  <2>3. settingsAt \in AllSettings
    BY <2>1, <2>2 DEF SoundAs, AllSettings
  <2> QED BY <2>2, <2>3 DEF SettingCards, SwitchCards, AllSettings
<1>4. settingsQ \in Query(AllSettings) /\ settingsQ.data = None
  BY FirstAskIs DEF SettingsInit
<1>5. 0 \in 0..MaxDraftEdits /\ 0 \in 0..MaxSaves
  BY SettingsAssumption
<1>6. drafts \in [SettingCards -> Draft("policy") \cup Draft("health") \cup {None}]
      /\ \A card \in SettingCards : drafts[card] = None
  BY DEF SettingsInit
<1> QED BY <1>3, <1>4, <1>5, <1>6 DEF SettingsInit, SettingsInv, CardsMounted

\* No edit, save or read of the tab breaks its invariant.
LEMMA SettingsStaySound ==
    ASSUME SettingsInv, [SettingsNext]_settingVars
    PROVE  SettingsInv'
<1>0. /\ settingsAt \in AllSettings /\ \A card \in SettingCards : SoundAs(card, settingsAt[card])
      /\ settingsQ \in Query(AllSettings)
      /\ drafts \in [SettingCards -> Draft("policy") \cup Draft("health") \cup {None}]
      /\ \A card \in SettingCards : drafts[card] = None \/ drafts[card] \in Draft(card)
      /\ CardsMounted => \A card \in SettingCards : drafts[card] \in Draft(card)
      /\ \A card \in SettingCards : drafts[card] # None => settingsQ.data # None
      /\ zoneOpen \in BOOLEAN /\ unsure \in BOOLEAN
      /\ savings = None \/ /\ savings.card \in SettingCards /\ SoundAs(savings.card, savings.values)
                           /\ savings = [card |-> savings.card, values |-> savings.values, at |-> savings.at]
      /\ draftEdits \in 0..MaxDraftEdits /\ saves \in 0..MaxSaves
  BY DEF SettingsInv
<1>1. draftEdits < MaxDraftEdits /\ draftEdits' = draftEdits + 1 => draftEdits' \in 0..MaxDraftEdits
  BY <1>0, SettingsAssumption
<1>2. saves < MaxSaves /\ saves' = saves + 1 => saves' \in 0..MaxSaves
  BY <1>0, SettingsAssumption
<1>3. UNCHANGED settingCounts => UNCHANGED <<draftEdits, saves>>
  BY DEF settingCounts
<1>4. CASE SettingsLand
  <2>1. UNCHANGED <<settingsAt, savings, unsure, draftEdits, saves>>
    BY <1>3, <1>4 DEF SettingsLand
  <2>2. CASE /\ settingsQ' = Landed(settingsAt)
             /\ drafts' = [card \in SettingCards |->
                   IF drafts[card] = None \/ Reseeded(card, settingsQ.data, settingsAt)
                   THEN SeedOf(card, settingsAt) ELSE drafts[card]]
             /\ UNCHANGED zoneList
    <3>1. settingsQ' \in Query(AllSettings) /\ settingsQ'.data = settingsAt /\ settingsAt # None
      BY <1>0, <2>2, LandedIs, NoneIsNoSetting
    <3>2. \A card \in SettingCards : drafts'[card] \in Draft(card)
      BY <1>0, <2>2, SeedIs
    <3>3. drafts' \in [SettingCards -> Draft("policy") \cup Draft("health") \cup {None}]
      BY <2>2, <3>2, DraftsAre
    <3>4. zoneOpen' = zoneOpen
      BY <2>2 DEF zoneList
    <3> QED BY <1>0, <2>1, <3>1, <3>2, <3>3, <3>4 DEF SettingsInv
  <2>3. CASE settingsQ' = Failed(settingsQ) /\ drafts' = [card \in SettingCards |-> None] /\ zoneOpen' = FALSE
    <3>1. settingsQ' \in Query(AllSettings) /\ settingsQ'.error
      BY <1>0, <2>3, FailedIs
    <3>2. drafts' \in [SettingCards -> Draft("policy") \cup Draft("health") \cup {None}]
          /\ \A card \in SettingCards : drafts'[card] = None
      BY <2>3
    <3> QED BY <1>0, <2>1, <2>3, <3>1, <3>2 DEF SettingsInv, CardsMounted
  <2> QED BY <1>4, <2>2, <2>3 DEF SettingsLand
<1>5. ASSUME settingsQ' = Asked(settingsQ), UNCHANGED <<settingsAt, drafts, zoneOpen, unsure, draftEdits, saves>>,
             savings' = savings \/ savings' = None
      PROVE  SettingsInv'
  <2>1. /\ settingsQ' \in Query(AllSettings) /\ settingsQ'.data = settingsQ.data
        /\ CardsMounted' => CardsMounted
    BY <1>0, <1>5 DEF Query, Asked, CardsMounted
  <2> QED BY <1>0, <1>5, <2>1 DEF SettingsInv
<1>6. CASE SettingsRetry
  BY <1>3, <1>5, <1>6 DEF SettingsRetry, zoneList
<1>7. CASE CardSaveLands
  <2>1. UNCHANGED <<settingsAt, drafts, zoneOpen, unsure, draftEdits, saves>> /\ savings' = None
    BY <1>3, <1>7 DEF CardSaveLands, zoneList
  <2>2. CASE settingsQ' = Asked(settingsQ)
    BY <1>5, <2>1, <2>2
  <2>3. CASE settingsQ' = settingsQ
    BY <1>0, <2>1, <2>3 DEF SettingsInv, CardsMounted
  <2> QED BY <1>7, <2>2, <2>3 DEF CardSaveLands
<1>8. CASE ServeSave
  <2>1. UNCHANGED <<settingsQ, drafts, zoneOpen, draftEdits, saves>> /\ savings # None
    BY <1>3, <1>8 DEF ServeSave, zoneList
  <2>2. \E at : savings' = [savings EXCEPT !.at = at]
        /\ \/ UNCHANGED <<settingsAt, unsure>>
           \/ settingsAt' = [settingsAt EXCEPT ![savings.card] = savings.values] /\ unsure' = (unsure \/ at = "failed")
    BY <1>8 DEF ServeSave
  <2>3. PICK at : savings' = [savings EXCEPT !.at = at]
        /\ \/ UNCHANGED <<settingsAt, unsure>>
           \/ settingsAt' = [settingsAt EXCEPT ![savings.card] = savings.values] /\ unsure' = (unsure \/ at = "failed")
    BY <2>2
  <2>4. savings.card \in SettingCards /\ SoundAs(savings.card, savings.values)
    BY <1>0, <2>1
  <2>5. /\ savings'.card = savings.card /\ savings'.values = savings.values
        /\ savings' = [card |-> savings'.card, values |-> savings'.values, at |-> savings'.at]
    <3>1. savings = [card |-> savings.card, values |-> savings.values, at |-> savings.at]
      BY <1>0, <2>1
    <3>2. [savings EXCEPT !.at = at] = [card |-> savings.card, values |-> savings.values, at |-> at]
      BY <3>1
    <3> QED BY <2>3, <3>2
  <2>6. unsure' \in BOOLEAN
    BY <1>0, <2>3
  <2>7. settingsAt' \in AllSettings /\ \A card \in SettingCards : SoundAs(card, settingsAt'[card])
    <3>1. CASE settingsAt' = settingsAt
      BY <1>0, <3>1
    <3>2. CASE settingsAt' = [settingsAt EXCEPT ![savings.card] = savings.values]
      <4>1. savings.values \in StoredAs(savings.card)
        BY <2>4 DEF SoundAs
      <4>2. settingsAt' \in AllSettings
        BY <1>0, <2>4, <3>2, <4>1, SettingsAre
      <4>3. settingsAt'[savings.card] = savings.values
            /\ \A card \in SettingCards : card # savings.card => settingsAt'[card] = settingsAt[card]
        BY <1>0, <2>4, <3>2, SettingsAre, SMTT(60)
      <4> QED BY <1>0, <2>4, <4>2, <4>3
    <3> QED BY <2>3, <3>1, <3>2
  <2> QED BY <1>0, <2>1, <2>4, <2>5, <2>6, <2>7 DEF SettingsInv, CardsMounted
<1>9. ASSUME NEW card \in SettingCards, EditCard(card) PROVE SettingsInv'
  <2>1. /\ UNCHANGED <<settingsAt, settingsQ, zoneOpen, savings, unsure, saves>> /\ CardsMounted
        /\ draftEdits' \in 0..MaxDraftEdits
    BY <1>1, <1>9 DEF EditCard, zoneList
  <2>2. PICK edited_ \in Draft(card) : drafts' = [drafts EXCEPT ![card] = edited_]
    BY <1>9 DEF EditCard
  <2>3. \A other \in SettingCards : drafts'[other] \in Draft(other)
    BY <1>0, <2>1, <2>2
  <2>4. drafts' \in [SettingCards -> Draft("policy") \cup Draft("health") \cup {None}]
    BY <1>0, <2>2, DraftsAre
  <2>5. settingsQ.data # None
    BY <2>1 DEF CardsMounted
  <2> QED BY <1>0, <2>1, <2>3, <2>4, <2>5 DEF SettingsInv
<1>10. ASSUME NEW card \in SettingCards, SaveCard(card) PROVE SettingsInv'
  <2>1. /\ UNCHANGED <<settingsAt, settingsQ, drafts, zoneOpen, unsure, draftEdits>> /\ CardsMounted
        /\ saves' \in 0..MaxSaves /\ (card = "policy" => ~priorityInvalid)
        /\ savings' = [card |-> card, values |-> Sent(card), at |-> "sent"]
    BY <1>2, <1>10 DEF SaveCard, zoneList
  <2>2. SoundAs(card, Sent(card))
    BY <1>0, <2>1, SentIs
  <2>3. savings'.card = card /\ savings'.values = Sent(card)
        /\ savings' = [card |-> savings'.card, values |-> savings'.values, at |-> savings'.at]
    BY <2>1
  <2> QED BY <1>0, <2>1, <2>2, <2>3 DEF SettingsInv, CardsMounted
<1>11. ASSUME UNCHANGED <<settingsAt, settingsQ, drafts, savings, unsure, saves>>,
              draftEdits' \in 0..MaxDraftEdits, zoneOpen' \in BOOLEAN
       PROVE  SettingsInv'
  BY <1>0, <1>11 DEF SettingsInv, CardsMounted
<1>12. CASE TypeZone
  BY <1>1, <1>11, <1>12 DEF TypeZone
<1>13. CASE MoveZone
  BY <1>0, <1>1, <1>11, <1>13 DEF MoveZone
<1>14. CASE ChooseZone
  BY <1>1, <1>11, <1>14 DEF ChooseZone
<1>15. CASE LeaveZone
  BY <1>0, <1>3, <1>11, <1>15 DEF LeaveZone
<1>16. CASE UNCHANGED settingVars
  BY <1>0, <1>3, <1>11, <1>16 DEF settingVars, zoneList
<1> QED BY <1>4, <1>6, <1>7, <1>8, <1>9, <1>10, <1>12, <1>13, <1>14, <1>15, <1>16 DEF SettingsNext

\* The invariant of the settings holds in every state.
LEMMA SettingsInvHolds == SettingsSpec => []SettingsInv
BY SettingsStartSound, SettingsStaySound, PTL DEF SettingsSpec

\* The general tab of the settings keeps its types.
THEOREM SettingsTypeCorrect == SettingsSpec => []SettingsTypeOK
<1>1. SettingsInv => SettingsTypeOK
  BY DEF SettingsInv, SettingsTypeOK, Query
<1> QED BY <1>1, SettingsInvHolds, PTL

\* Whatever is typed, no number reaches the server that it would refuse, and an interval of none
\* only with the switch off (GeneralTab.tsx:42).
THEOREM SettingsAreSound == SettingsSpec => []StoredIsSound
<1>1. SettingsInv => StoredIsSound
  BY DEF SettingsInv, StoredIsSound, SoundAs, SettingCards
<1> QED BY <1>1, SettingsInvHolds, PTL

OtherDraftsStay ==
    \A card \in SettingCards : settingsQ.ask = "asked" /\ settingsQ'.ask = "idle" /\ ~settingsQ'.error
          /\ drafts[card] # None /\ settingsAt[card] = settingsQ.data[card] => drafts'[card] = drafts[card]

\* Saving a card, and reading the settings after it, leaves what is typed in the others
\* (GeneralTab.tsx:84).
THEOREM CardsKeepTheirs == SettingsSpec => OthersKeepTheirs
<1>1. SettingsInv /\ [SettingsNext]_settingVars => [OtherDraftsStay]_settingVars
  <2> SUFFICES ASSUME SettingsInv, SettingsNext,
                      settingsQ.ask = "asked", settingsQ'.ask = "idle", ~settingsQ'.error,
                      NEW card \in SettingCards, drafts[card] # None, settingsAt[card] = settingsQ.data[card]
               PROVE  drafts'[card] = drafts[card]
    BY DEF OtherDraftsStay
  <2>0. Asked(settingsQ).ask = "asked" /\ Failed(settingsQ).error
    BY AskedIs, FailedIs DEF SettingsInv
  <2>1. SettingsLand
    <3>1. settingsQ' # settingsQ /\ settingsQ' # Asked(settingsQ)
      BY <2>0
    <3> QED BY <3>1 DEF SettingsNext, SettingsRetry, ServeSave, CardSaveLands, EditCard, SaveCard,
                        TypeZone, MoveZone, ChooseZone, LeaveZone
  <2>2. settingsQ.data # None
    BY DEF SettingsInv
  <2>3. drafts' = [other \in SettingCards |->
            IF drafts[other] = None \/ Reseeded(other, settingsQ.data, settingsAt)
            THEN SeedOf(other, settingsAt) ELSE drafts[other]]
    BY <2>0, <2>1 DEF SettingsLand
  <2> QED BY <2>2, <2>3 DEF Reseeded
<1>2. ([][OtherDraftsStay]_settingVars) <=> OthersKeepTheirs
  BY DEF OtherDraftsStay, OthersKeepTheirs
<1> QED BY <1>1, <1>2, SettingsInvHolds, PTL DEF SettingsSpec

(***************************************************************************)
(* The integration form.  The step on the screen is one of the type; the   *)
(* name was given before the wizard went on; no operation is under way     *)
(* twice.                                                                  *)
(***************************************************************************)
OpenForms ==
    [open : {TRUE}, of : Types \cup {None}, type : Types \cup {None}, last : Types \cup {None},
     filled : SUBSET FORM_FIELDS, step : {1, 2}, mode : {"guided", "expert", None}, index : 1..3,
     edited : BOOLEAN, verdict : {None, "ok", "issues"}, about : BOOLEAN, asking : BOOLEAN,
     docker : BOOLEAN, endpoint : BOOLEAN]

FormPosts == [op : {"validate", "create", "save", "endpoint"}, here : BOOLEAN, same : BOOLEAN]

StepIsOfTheType(f) ==
    /\ (f.type # None /\ GuidedSteps(f.type) # <<>> => f.index \in DOMAIN GuidedSteps(f.type))
    /\ (formHost = "wizard" /\ f.type = None => f.index = 1)

NameWasGiven(f) ==
    /\ formHost = "wizard" /\ f.mode = "guided" /\ f.type # None /\ f.of = None
    /\ GuidedSteps(f.type) # <<>> /\ f.index > 1
    => "name" \in f.filled

FormInv ==
    /\ formHost \in {"dialog", "wizard"}
    /\ formPosts \subseteq FormPosts
    /\ \A one, other \in formPosts : one.op = other.op => one = other
    /\ form = Shut \/ form \in OpenForms
    /\ form.open => StepIsOfTheType(form) /\ NameWasGiven(form)

\* The guide has at most three steps, none of which asks for the name.
LEMMA StepsAre ==
    ASSUME NEW type
    PROVE  /\ GuidedSteps(type) \in Seq(SUBSET (FORM_FIELDS \ {"name"})) /\ Len(GuidedSteps(type)) <= 3
           /\ DOMAIN GuidedSteps(type) = 1..Len(GuidedSteps(type))
           /\ \A i \in DOMAIN GuidedSteps(type) : GuidedSteps(type)[i] \subseteq FORM_FIELDS \ {"name"}
           /\ GuidedSteps(type) # <<>> => 1 \in DOMAIN GuidedSteps(type)
<1> DEFINE S == SUBSET (FORM_FIELDS \ {"name"})
<1>0. {} \in S /\ {"url"} \in S /\ {"username", "password"} \in S /\ {"url", "username", "password"} \in S
      /\ {"password"} \in S
  BY DEF FORM_FIELDS
<1> HIDE DEF S
<1>1. /\ <<{}, {"url"}, {"username", "password"}>> \in Seq(S) /\ Len(<<{}, {"url"}, {"username", "password"}>>) = 3
      /\ <<{"url", "username", "password"}>> \in Seq(S) /\ Len(<<{"url", "username", "password"}>>) = 1
      /\ <<{"url"}>> \in Seq(S) /\ Len(<<{"url"}>>) = 1
      /\ <<{"password"}, {}>> \in Seq(S) /\ Len(<<{"password"}, {}>>) = 2
      /\ <<>> \in Seq(S) /\ Len(<<>>) = 0
  BY <1>0
<1>2. GuidedSteps(type) \in Seq(S) /\ Len(GuidedSteps(type)) <= 3
  BY <1>1 DEF GuidedSteps
<1>3. /\ DOMAIN GuidedSteps(type) = 1..Len(GuidedSteps(type)) /\ Len(GuidedSteps(type)) \in Nat
      /\ \A i \in DOMAIN GuidedSteps(type) : GuidedSteps(type)[i] \in S
  BY <1>2
<1>4. GuidedSteps(type) # <<>> => 1 \in DOMAIN GuidedSteps(type)
  BY <1>2, <1>3
<1> QED BY <1>2, <1>3, <1>4 DEF S

\* A form without a name is told that the name is missing.
LEMMA NameIsAsked == \A d : d.type # None /\ "name" \notin d.filled => "name" \in MissingFields(d)
BY DEF MissingFields, RequiredFields

\* What is left of the calls of a form that is gone was sent and is sent no more.
LEMMA AgainstTheOld ==
    ASSUME FormInv
    PROVE  /\ Outdated \subseteq FormPosts /\ \A one, other \in Outdated : one.op = other.op => one = other
           /\ Orphaned \subseteq FormPosts /\ \A one, other \in Orphaned : one.op = other.op => one = other
<1>1. /\ formPosts \subseteq FormPosts
      /\ \A one, other \in formPosts : one.op = other.op => one = other
  BY DEF FormInv
<1>2. \A post \in formPosts : /\ [post EXCEPT !.same = FALSE] \in FormPosts
                              /\ [post EXCEPT !.same = FALSE].op = post.op
                              /\ [post EXCEPT !.same = FALSE, !.here = FALSE] \in FormPosts
                              /\ [post EXCEPT !.same = FALSE, !.here = FALSE].op = post.op
  BY <1>1 DEF FormPosts
<1>3. Outdated \subseteq FormPosts /\ \A one, other \in Outdated : one.op = other.op => one = other
  <2>1. Outdated \subseteq FormPosts
    BY <1>2 DEF Outdated
  <2>2. ASSUME NEW one \in Outdated, NEW other \in Outdated, one.op = other.op PROVE one = other
    <3>1. PICK a \in formPosts : one = [a EXCEPT !.same = FALSE]
      BY DEF Outdated
    <3>2. PICK b \in formPosts : other = [b EXCEPT !.same = FALSE]
      BY DEF Outdated
    <3>3. a.op = b.op
      BY <1>2, <2>2, <3>1, <3>2
    <3> QED BY <1>1, <3>1, <3>2, <3>3
  <2> QED BY <2>1, <2>2
<1>4. Orphaned \subseteq FormPosts /\ \A one, other \in Orphaned : one.op = other.op => one = other
  <2>1. Orphaned \subseteq FormPosts
    BY <1>2 DEF Orphaned
  <2>2. ASSUME NEW one \in Orphaned, NEW other \in Orphaned, one.op = other.op PROVE one = other
    <3>1. PICK a \in formPosts : one = [a EXCEPT !.same = FALSE, !.here = FALSE]
      BY DEF Orphaned
    <3>2. PICK b \in formPosts : other = [b EXCEPT !.same = FALSE, !.here = FALSE]
      BY DEF Orphaned
    <3>3. a.op = b.op
      BY <1>2, <2>2, <3>1, <3>2
    <3> QED BY <1>1, <3>1, <3>2, <3>3
  <2> QED BY <2>1, <2>2
<1> QED BY <1>3, <1>4

\* Changing what a form says of its place and its verdict changes no other field of it.
LEMMA FieldsOf ==
    ASSUME NEW f \in OpenForms, NEW verdict_ \in {None, "ok", "issues"}, NEW docker_ \in BOOLEAN,
           NEW index_ \in 1..3, NEW step_ \in {1, 2}
    PROVE  /\ [f EXCEPT !.index = index_, !.step = step_, !.verdict = verdict_] \in OpenForms
           /\ [f EXCEPT !.verdict = verdict_, !.docker = docker_, !.index = index_, !.step = step_] \in OpenForms
           /\ [f EXCEPT !.verdict = verdict_, !.docker = docker_, !.index = index_, !.step = step_].type = f.type
           /\ [f EXCEPT !.verdict = verdict_, !.docker = docker_, !.index = index_, !.step = step_].index = index_
BY ZenonT(90) DEF OpenForms

\* The form starts shut, with no call on its way.
LEMMA FormStartsSound == FormInit => FormInv
BY DEF FormInit, FormInv, Shut

\* A form that opens is on its first step, whether it is empty or of an integration.
LEMMA EmptyFormIs ==
    ASSUME formHost \in {"dialog", "wizard"}
    PROVE  /\ EmptyForm \in OpenForms /\ StepIsOfTheType(EmptyForm) /\ NameWasGiven(EmptyForm)
           /\ \A type \in Types : formHost = "dialog" =>
                 /\ FormFromProvider(type) \in OpenForms
                 /\ StepIsOfTheType(FormFromProvider(type)) /\ NameWasGiven(FormFromProvider(type))
<1>1. EmptyForm \in OpenForms /\ EmptyForm.type = None /\ EmptyForm.index = 1
  BY DEF EmptyForm, OpenForms
<1>2. ASSUME NEW type \in Types, formHost = "dialog"
      PROVE  /\ FormFromProvider(type) \in OpenForms
             /\ FormFromProvider(type).type = type /\ FormFromProvider(type).index = 1
  BY <1>1, <1>2 DEF FormFromProvider, OpenForms
<1> QED BY <1>1, <1>2, StepsAre DEF StepIsOfTheType, NameWasGiven

\* Steps that leave type, step of the form and name as they are.
LEMMA OtherFields ==
    ASSUME FormInv, form.open, UNCHANGED formHost, form' \in OpenForms,
           formPosts' \subseteq FormPosts, \A one, other \in formPosts' : one.op = other.op => one = other,
           form'.type = form.type /\ form'.of = form.of, form'.index = form.index, form'.mode \in {form.mode} \cup ({None} \ {"guided"}),
           "name" \in form.filled => "name" \in form'.filled
    PROVE  FormInv'
<1>1. StepIsOfTheType(form)' /\ NameWasGiven(form)'
  BY DEF FormInv, StepIsOfTheType, NameWasGiven
<1> QED BY <1>1 DEF FormInv

\* There is one call of each kind on its way, so a new one is told from the others.
LEMMA NewPosts ==
    ASSUME FormInv
    PROVE  /\ \A post \in formPosts : /\ formPosts \ {post} \subseteq FormPosts
                                      /\ \A one, other \in formPosts \ {post} : one.op = other.op => one = other
           /\ \A op \in {"validate", "create", "save", "endpoint"} :
                  ~Sending(op) =>
                     /\ formPosts \cup {[op |-> op, here |-> TRUE, same |-> TRUE]} \subseteq FormPosts
                     /\ \A one, other \in formPosts \cup {[op |-> op, here |-> TRUE, same |-> TRUE]} :
                            one.op = other.op => one = other
<1>1. /\ formPosts \subseteq FormPosts
      /\ \A one, other \in formPosts : one.op = other.op => one = other
  BY DEF FormInv
<1>2. ASSUME NEW op \in {"validate", "create", "save", "endpoint"}, ~Sending(op)
      PROVE  /\ formPosts \cup {[op |-> op, here |-> TRUE, same |-> TRUE]} \subseteq FormPosts
             /\ \A one, other \in formPosts \cup {[op |-> op, here |-> TRUE, same |-> TRUE]} :
                    one.op = other.op => one = other
  <2> DEFINE fresh == [op |-> op, here |-> TRUE, same |-> TRUE]
  <2>1. fresh \in FormPosts /\ fresh.op = op
    BY DEF FormPosts
  <2> HIDE DEF fresh
  <2>2. \A one \in formPosts : one.op # op
    BY <1>2 DEF Sending
  <2>3. formPosts \cup {fresh} \subseteq FormPosts
        /\ \A one, other \in formPosts \cup {fresh} : one.op = other.op => one = other
    BY <1>1, <2>1, <2>2
  <2> QED BY <2>3 DEF fresh
<1> QED BY <1>1, <1>2

\* No step of the form breaks its invariant.
LEMMA FormStaysSound ==
    ASSUME FormInv, [FormNext]_formVars
    PROVE  FormInv'
<1>0. /\ formHost \in {"dialog", "wizard"} /\ formPosts \subseteq FormPosts
      /\ (\A one, other \in formPosts : one.op = other.op => one = other)
      /\ (form = Shut \/ form \in OpenForms)
      /\ (form.open => StepIsOfTheType(form) /\ NameWasGiven(form))
  BY DEF FormInv
<1>1. form.open => form \in OpenForms
  BY <1>0 DEF Shut
<1>2. ~Shut.open /\ (form \in OpenForms => form.open)
  BY DEF Shut, OpenForms
<1>3. ASSUME form' = Shut, UNCHANGED formHost, formPosts' \subseteq FormPosts,
             \A one, other \in formPosts' : one.op = other.op => one = other
      PROVE  FormInv'
  BY <1>0, <1>2, <1>3 DEF FormInv
<1>4. CASE Open
  BY <1>0, <1>4, EmptyFormIs DEF Open, FormInv, StepIsOfTheType, NameWasGiven
<1>5. CASE Continue
  <2>1. form.open /\ UNCHANGED <<formHost, formPosts>> /\ \E step \in {1, 2} : form' = [form EXCEPT !.step = step]
    BY <1>5 DEF Continue, InDialog
  <2>2. form' \in OpenForms /\ form'.type = form.type /\ form'.of = form.of /\ form'.index = form.index /\ form'.mode = form.mode
        /\ form'.filled = form.filled
    BY <1>1, <2>1 DEF OpenForms
  <2> QED BY <1>0, <2>1, <2>2, OtherFields
<1>6. CASE Back
  <2>1. formHost = "wizard" /\ form.open /\ form.type # None /\ UNCHANGED formHost /\ form \in OpenForms
    BY <1>1, <1>6 DEF Back, InWizard
  <2>2. formPosts' \subseteq FormPosts /\ \A one, other \in formPosts' : one.op = other.op => one = other
    BY <1>0, <1>6, AgainstTheOld DEF Back
  <2>3. CASE Guided /\ form.index > 1
    <3>1. form' = [form EXCEPT !.index = @ - 1, !.verdict = None]
      BY <1>6, <2>3 DEF Back
    <3>2. form.index - 1 \in 1..3 /\ form.index \in 1..3
      BY <2>1, <2>3 DEF OpenForms
    <3>3. /\ form' \in OpenForms /\ form'.index = form.index - 1 /\ form'.type = form.type /\ form'.of = form.of
          /\ form'.mode = form.mode /\ form'.filled = form.filled
      BY <2>1, <3>1, <3>2 DEF OpenForms
    <3>4. StepIsOfTheType(form')
      BY <1>0, <2>1, <2>3, <3>2, <3>3, StepsAre DEF StepIsOfTheType
    <3>5. NameWasGiven(form')
      BY <1>0, <2>1, <2>3, <3>3 DEF NameWasGiven, Guided
    <3> QED BY <1>0, <2>1, <2>2, <3>3, <3>4, <3>5 DEF FormInv, StepIsOfTheType, NameWasGiven
  <2>4. CASE ~(Guided /\ form.index > 1) /\ form' = [form EXCEPT !.mode = None]
    <3>1. form' \in OpenForms /\ form'.type = form.type /\ form'.of = form.of /\ form'.index = form.index /\ form'.mode = None
          /\ form'.filled = form.filled
      BY <2>1, <2>4 DEF OpenForms
    <3> QED BY <2>1, <2>2, <3>1, OtherFields, FormAssumption
  <2>5. CASE form' = ClearType
    <3>1. form' \in OpenForms /\ form'.type = None /\ form'.index = 1
      <4>1. form' = [form EXCEPT !.type = None, !.mode = None, !.index = 1, !.step = 1, !.verdict = None]
        BY <2>5 DEF ClearType
      <4>2. form' = [form' EXCEPT !.type = None] /\ form'.type = None /\ form'.index = 1
        BY <2>1, <4>1 DEF OpenForms
      <4>3. [form EXCEPT !.type = None, !.mode = None] \in OpenForms
        BY <2>1 DEF OpenForms
      <4> DEFINE half == [form EXCEPT !.type = None, !.mode = None]
      <4>4. form' = [half EXCEPT !.index = 1, !.step = 1, !.verdict = None]
        BY <4>1
      <4> HIDE DEF half
      <4>5. half \in OpenForms => [half EXCEPT !.index = 1, !.step = 1, !.verdict = None] \in OpenForms
        <5>1. 1 \in 1..3 /\ 1 \in {1, 2} /\ None \in {None, "ok", "issues"}
          OBVIOUS
        <5> QED BY <5>1, FieldsOf
      <4> QED BY <4>2, <4>3, <4>4, <4>5 DEF half
    <3> QED BY <1>0, <2>1, <2>2, <3>1 DEF FormInv, StepIsOfTheType, NameWasGiven
  <2> QED BY <1>6, <2>3, <2>4, <2>5 DEF Back
<1>7. CASE NextStep
  <2>1. form.open /\ Guided /\ ~LastStep /\ StepMissing = {} /\ UNCHANGED <<formHost, formPosts>>
        /\ form' = [form EXCEPT !.index = @ + 1] /\ form \in OpenForms /\ form.type # None
    BY <1>1, <1>7 DEF NextStep, Filling, InDialog, InWizard
  <2>2. form.index \in DOMAIN GuidedSteps(form.type) /\ form.index + 1 \in DOMAIN GuidedSteps(form.type)
        /\ form.index + 1 \in 1..3
    <3>1. form.index \in DOMAIN GuidedSteps(form.type)
      BY <1>0, <2>1 DEF StepIsOfTheType, Guided
    <3>2. form.index # Len(GuidedSteps(form.type))
      BY <2>1 DEF LastStep
    <3> QED BY <3>1, <3>2, StepsAre
  <2>3. /\ form' \in OpenForms /\ form'.index = form.index + 1 /\ form'.type = form.type /\ form'.of = form.of
        /\ form'.mode = form.mode /\ form'.filled = form.filled
    BY <2>1, <2>2 DEF OpenForms
  <2>4. NameWasGiven(form')
    <3>1. CASE formHost = "wizard" /\ form.index = 1
      <4>1. "name" \notin MissingFields(form)
        BY <2>1, <3>1 DEF StepMissing
      <4> QED BY <2>1, <2>3, <4>1, NameIsAsked DEF NameWasGiven
    <3>2. CASE formHost = "wizard" /\ form.index # 1
      <4>1. form.index > 1
        BY <2>1, <3>2 DEF OpenForms
      <4> QED BY <1>0, <2>1, <2>3, <4>1 DEF NameWasGiven
    <3> QED BY <3>1, <3>2 DEF NameWasGiven
  <2>5. StepIsOfTheType(form')
    BY <2>1, <2>2, <2>3 DEF StepIsOfTheType
  <2> QED BY <1>0, <2>1, <2>3, <2>4, <2>5 DEF FormInv, StepIsOfTheType, NameWasGiven
<1>8. ASSUME NEW op \in {"validate", "create", "save", "endpoint"}, Post(op), ~Sending(op)
      PROVE  FormInv'
  <2>1. formPosts' = formPosts \cup {[op |-> op, here |-> TRUE, same |-> TRUE]} /\ UNCHANGED <<formHost, form>>
    BY <1>8 DEF Post
  <2>2. formPosts' \subseteq FormPosts /\ \A one, other \in formPosts' : one.op = other.op => one = other
    BY <1>8, <2>1, NewPosts
  <2>3. form.open => StepIsOfTheType(form)' /\ NameWasGiven(form)'
    BY <1>0, <2>1 DEF StepIsOfTheType, NameWasGiven
  <2> QED BY <1>0, <2>1, <2>2, <2>3 DEF FormInv
<1>9. CASE Validate \/ Connect \/ HandleSave \/ AddEndpoint
  BY <1>8, <1>9 DEF Validate, Connect, HandleSave, AddEndpoint, Sending, FormBusy
<1>10. CASE ChooseDockerType
  <2>1. form.open /\ formHost = "dialog" /\ form \in OpenForms /\ formPosts' = Outdated /\ UNCHANGED formHost
        /\ form' = [form EXCEPT !.docker = TRUE, !.type = None, !.last = None, !.filled = {}, !.verdict = None]
    BY <1>1, <1>10 DEF ChooseDockerType, InDialog
  <2>2. form' \in OpenForms /\ form'.type = None
    BY <2>1 DEF OpenForms
  <2> QED BY <1>0, <2>1, <2>2, AgainstTheOld DEF FormInv, StepIsOfTheType, NameWasGiven
<1>11. CASE TypeEndpoint
  <2>1. form.open /\ form \in OpenForms /\ UNCHANGED <<formHost, formPosts>>
        /\ form' = [form EXCEPT !.endpoint = ~@, !.edited = TRUE]
    BY <1>1, <1>11 DEF TypeEndpoint, InDialog
  <2>2. (~form.endpoint) \in BOOLEAN
    BY <2>1 DEF OpenForms
  <2>3. form' \in OpenForms /\ form'.type = form.type /\ form'.of = form.of /\ form'.index = form.index /\ form'.mode = form.mode
        /\ form'.filled = form.filled
    BY <2>1, <2>2 DEF OpenForms
  <2> QED BY <1>0, <2>1, <2>3, OtherFields
<1>12. CASE RequestClose
  <2>1. form.open /\ form \in OpenForms /\ UNCHANGED formHost
    BY <1>1, <1>12 DEF RequestClose, InDialog
  <2>2. CASE form' = Shut /\ formPosts' = Orphaned
    BY <1>3, <2>1, <2>2, AgainstTheOld
  <2>3. CASE form' = [form EXCEPT !.asking = TRUE] /\ UNCHANGED formPosts
    <3>1. form' \in OpenForms /\ form'.type = form.type /\ form'.of = form.of /\ form'.index = form.index /\ form'.mode = form.mode
          /\ form'.filled = form.filled
      BY <2>1, <2>3 DEF OpenForms
    <3> QED BY <1>0, <2>1, <2>3, <3>1, OtherFields
  <2> QED BY <1>12, <2>2, <2>3 DEF RequestClose
<1>13. ASSUME NEW yes \in BOOLEAN, AnswerGuard(yes) PROVE FormInv'
  <2>1. form.open /\ form \in OpenForms /\ UNCHANGED formHost
    BY <1>1, <1>13 DEF AnswerGuard
  <2>2. CASE form' = Shut /\ formPosts' = Orphaned
    BY <1>3, <2>1, <2>2, AgainstTheOld
  <2>3. CASE form' = [form EXCEPT !.asking = FALSE] /\ UNCHANGED formPosts
    <3>1. form' \in OpenForms /\ form'.type = form.type /\ form'.of = form.of /\ form'.index = form.index /\ form'.mode = form.mode
          /\ form'.filled = form.filled
      BY <2>1, <2>3 DEF OpenForms
    <3> QED BY <1>0, <2>1, <2>3, <3>1, OtherFields
  <2> QED BY <1>13, <2>2, <2>3 DEF AnswerGuard
<1>14. CASE CancelWizard
  BY <1>3, <1>14, AgainstTheOld DEF CancelWizard
<1>15. CASE Reload
  <2>1. form.open /\ form \in OpenForms /\ UNCHANGED formHost /\ formPosts' = {}
        /\ form' = [form EXCEPT !.filled = @ \ {"password"}, !.verdict = None, !.last = form.type]
    BY <1>1, <1>15 DEF Reload, InWizard
  <2>2. form' \in OpenForms /\ form'.type = form.type /\ form'.of = form.of /\ form'.index = form.index /\ form'.mode = form.mode
        /\ form'.filled = form.filled \ {"password"}
    BY <2>1 DEF OpenForms
  <2> QED BY <2>1, <2>2, OtherFields
<1>16. ASSUME NEW type \in Types, ChooseProviderType(type) PROVE FormInv'
  <2>1. form.open /\ form \in OpenForms /\ UNCHANGED formHost /\ formPosts' = Outdated
        /\ form' = [SeedFormForType(form, type) EXCEPT
                      !.verdict = None, !.docker = FALSE, !.index = PickedIndex,
                      !.step = IF formHost = "dialog" THEN 1 ELSE 2]
        /\ (formHost = "wizard" => form.type = None)
    BY <1>0, <1>1, <1>16 DEF ChooseProviderType, InDialog, InWizard
  <2>2. PickedIndex = 1
    BY <1>0, <2>1 DEF PickedIndex, StepIsOfTheType
  <2> DEFINE filled_ == IF form.last = type THEN form.filled \cup {"name"}
                        ELSE (form.filled \cup {"name"}) \ {"url"}
  <2> DEFINE step_ == IF formHost = "dialog" THEN 1 ELSE 2
  <2>3. filled_ \in SUBSET FORM_FIELDS /\ step_ \in {1, 2}
    BY <2>1 DEF OpenForms, FORM_FIELDS
  <2>4. SeedFormForType(form, type) = [form EXCEPT !.type = type, !.last = type, !.filled = filled_]
    BY DEF SeedFormForType
  <2> HIDE DEF filled_, step_
  <2>5. SeedFormForType(form, type) \in OpenForms /\ SeedFormForType(form, type).type = type
    BY <2>1, <2>3, <2>4, ZenonT(90) DEF OpenForms
  <2>6. form' = [SeedFormForType(form, type) EXCEPT !.verdict = None, !.docker = FALSE, !.index = 1, !.step = step_]
    BY <2>1, <2>2 DEF step_
  <2>7. form' \in OpenForms /\ form'.type = type /\ form'.index = 1
    <3> DEFINE seed_ == SeedFormForType(form, type)
    <3>1. seed_ \in OpenForms /\ seed_.type = type
      BY <2>5
    <3>2. form' = [seed_ EXCEPT !.verdict = None, !.docker = FALSE, !.index = 1, !.step = step_]
      BY <2>6
    <3> HIDE DEF seed_
    <3>3. 1 \in 1..3 /\ None \in {None, "ok", "issues"} /\ FALSE \in BOOLEAN
      OBVIOUS
    <3>4. step_ \in {1, 2}
      BY <2>3
    <3> HIDE DEF step_
    <3>5. [seed_ EXCEPT !.verdict = None, !.docker = FALSE, !.index = 1, !.step = step_] \in OpenForms
      BY <3>1, <3>3, <3>4, FieldsOf
    <3>6. [seed_ EXCEPT !.verdict = None, !.docker = FALSE, !.index = 1, !.step = step_].type = seed_.type
      BY <3>1 DEF OpenForms
    <3>7. [seed_ EXCEPT !.verdict = None, !.docker = FALSE, !.index = 1, !.step = step_].index = 1
      BY <3>1 DEF OpenForms
    <3> QED BY <3>1, <3>2, <3>5, <3>6, <3>7
  <2>8. StepIsOfTheType(form') /\ NameWasGiven(form')
    BY <2>7, StepsAre DEF StepIsOfTheType, NameWasGiven
  <2> QED BY <1>0, <2>1, <2>7, <2>8, AgainstTheOld DEF FormInv, StepIsOfTheType, NameWasGiven
<1>17. ASSUME NEW mode \in {"guided", "expert"}, ChooseMode(mode) PROVE FormInv'
  <2>1. form.open /\ form \in OpenForms /\ UNCHANGED <<formHost, formPosts>> /\ form.type # None
        /\ GuidedSteps(form.type) # <<>>
    BY <1>1, <1>17 DEF ChooseMode, Filling, InDialog, InWizard
  <2>2. CASE formHost = "dialog" /\ form' = [form EXCEPT !.mode = mode]
    <3>1. form' \in OpenForms /\ form'.type = form.type /\ form'.of = form.of /\ form'.index = form.index
      BY <2>1, <2>2 DEF OpenForms
    <3>2. StepIsOfTheType(form') /\ NameWasGiven(form')
      BY <1>0, <2>1, <2>2, <3>1 DEF StepIsOfTheType, NameWasGiven
    <3> QED BY <1>0, <2>1, <3>1, <3>2 DEF FormInv, StepIsOfTheType, NameWasGiven
  <2>3. CASE formHost # "dialog" /\ form' = [form EXCEPT !.mode = mode, !.index = IF mode = "guided" THEN 1 ELSE form.index]
    <3>1. form' \in OpenForms /\ form'.type = form.type /\ form'.of = form.of /\ form'.mode = mode
          /\ form'.index = (IF mode = "guided" THEN 1 ELSE form.index)
      <4> DEFINE index_ == IF mode = "guided" THEN 1 ELSE form.index
      <4>1. index_ \in 1..3 /\ form' = [form EXCEPT !.mode = mode, !.index = index_]
        BY <2>1, <2>3 DEF OpenForms
      <4>2. index_ = IF mode = "guided" THEN 1 ELSE form.index
        OBVIOUS
      <4> HIDE DEF index_
      <4>3. form' \in OpenForms /\ form'.type = form.type /\ form'.of = form.of /\ form'.mode = mode /\ form'.index = index_
        BY <2>1, <4>1 DEF OpenForms
      <4> QED BY <4>2, <4>3
    <3>2. StepIsOfTheType(form')
      BY <1>0, <2>1, <3>1, StepsAre DEF StepIsOfTheType
    <3>3. NameWasGiven(form')
      BY <3>1 DEF NameWasGiven
    <3> QED BY <1>0, <2>1, <3>1, <3>2, <3>3 DEF FormInv, StepIsOfTheType, NameWasGiven
  <2> QED BY <1>17, <2>2, <2>3 DEF ChooseMode
<1>18. ASSUME NEW i \in 1..3, GoToStep(i) PROVE FormInv'
  <2>1. form.open /\ form \in OpenForms /\ UNCHANGED <<formHost, formPosts>> /\ form.type # None /\ Guided
        /\ i \in DOMAIN GuidedSteps(form.type) /\ i # form.index
        /\ (formHost = "dialog" \/ LastStep)
        /\ form' = [form EXCEPT !.index = i, !.verdict = IF formHost = "wizard" THEN None ELSE form.verdict]
    BY <1>1, <1>18 DEF GoToStep, Filling, InDialog, InWizard
  <2>2. (IF formHost = "wizard" THEN None ELSE form.verdict) \in {None, "ok", "issues"}
    BY <2>1 DEF OpenForms
  <2>3. /\ form' \in OpenForms /\ form'.index = i /\ form'.type = form.type /\ form'.of = form.of
        /\ form'.mode = form.mode /\ form'.filled = form.filled
    BY <2>1, <2>2 DEF OpenForms
  <2>4. NameWasGiven(form')
    <3>1. CASE formHost = "wizard"
      <4>1. form.index = Len(GuidedSteps(form.type)) /\ form.index \in 1..3
        BY <2>1, <3>1 DEF LastStep, OpenForms
      <4>2. form.index > 1
        BY <2>1, <4>1, StepsAre
      <4> QED BY <1>0, <2>1, <2>3, <4>2 DEF NameWasGiven
    <3> QED BY <3>1 DEF NameWasGiven
  <2>5. StepIsOfTheType(form')
    BY <2>1, <2>3 DEF StepIsOfTheType
  <2> QED BY <1>0, <2>1, <2>3, <2>4, <2>5 DEF FormInv, StepIsOfTheType, NameWasGiven
<1>19. ASSUME NEW key \in FORM_FIELDS, UpdateField(key) PROVE FormInv'
  <2>1. form.open /\ form \in OpenForms /\ UNCHANGED formHost /\ formPosts' = Outdated /\ form.type # None
        /\ key \in Shown
        /\ form' = [form EXCEPT !.filled = IF key \in form.filled THEN form.filled \ {key} ELSE form.filled \cup {key},
                                !.verdict = None, !.edited = TRUE]
    BY <1>1, <1>19 DEF UpdateField, Filling, InDialog, InWizard
  <2> DEFINE filled_ == IF key \in form.filled THEN form.filled \ {key} ELSE form.filled \cup {key}
  <2>2. filled_ \in SUBSET FORM_FIELDS
    BY <2>1 DEF OpenForms
  <2>3. form' = [form EXCEPT !.filled = filled_, !.verdict = None, !.edited = TRUE]
    BY <2>1
  <2>4. "name" \in form.filled /\ key # "name" => "name" \in filled_
    OBVIOUS
  <2> HIDE DEF filled_
  <2>5. form' \in OpenForms /\ form'.type = form.type /\ form'.of = form.of /\ form'.index = form.index /\ form'.mode = form.mode
        /\ form'.filled = filled_
    BY <2>1, <2>2, <2>3 DEF OpenForms
  <2>6. NameWasGiven(form')
    <3> SUFFICES ASSUME formHost = "wizard", form'.mode = "guided", form'.type # None, form'.index > 1,
                        form'.of = None, GuidedSteps(form'.type) # <<>>
                 PROVE  "name" \in form'.filled
      BY DEF NameWasGiven
    <3>1. "name" \in form.filled
      BY <1>0, <2>1, <2>5 DEF NameWasGiven
    <3>2. CASE Guided
      <4>1. form.index \in DOMAIN GuidedSteps(form.type)
        BY <1>0, <2>1, <3>2 DEF StepIsOfTheType, Guided
      <4>2. key \in GuidedSteps(form.type)[form.index]
        BY <2>1, <2>5, <3>2 DEF Shown
      <4>3. key # "name"
        BY <4>1, <4>2, StepsAre
      <4> QED BY <2>4, <2>5, <3>1, <4>3
    <3>3. CASE ~Guided
      <4>1. form.of # None \/ GuidedSteps(form.type) = <<>>
        BY <2>1, <2>5, <3>3 DEF Guided
      <4> QED BY <2>5, <4>1
    <3> QED BY <3>2, <3>3
  <2>7. StepIsOfTheType(form')
    BY <1>0, <2>1, <2>5 DEF StepIsOfTheType
  <2> QED BY <1>0, <2>1, <2>5, <2>6, <2>7, AgainstTheOld DEF FormInv, StepIsOfTheType, NameWasGiven
<1>20. ASSUME NEW post \in formPosts, ValidateLands(post) PROVE FormInv'
  <2>1. UNCHANGED formHost /\ formPosts' = formPosts \ {post} /\ (form.open => form \in OpenForms)
    BY <1>1, <1>20 DEF ValidateLands
  <2>2. PICK verdict_ \in {"ok", "issues", None} :
            form' = IF form.open THEN [form EXCEPT !.verdict = verdict_, !.about = verdict_ # None => post.same]
                                 ELSE form
    BY <1>20 DEF ValidateLands
  <2>3. CASE form.open
    <3> DEFINE about_ == (verdict_ # None => post.same)
    <3>1. about_ \in BOOLEAN
      BY <1>0 DEF FormPosts
    <3>2. form' = [form EXCEPT !.verdict = verdict_, !.about = about_]
      BY <2>2, <2>3
    <3> HIDE DEF about_
    <3>3. form' \in OpenForms /\ form'.type = form.type /\ form'.of = form.of /\ form'.index = form.index /\ form'.mode = form.mode
          /\ form'.filled = form.filled
      BY <2>1, <2>3, <3>1, <3>2 DEF OpenForms
    <3> QED BY <1>0, <2>1, <2>3, <3>3, OtherFields
  <2>4. CASE ~form.open
    BY <1>0, <2>1, <2>2, <2>4 DEF FormInv
  <2> QED BY <2>3, <2>4
<1>21. ASSUME NEW post \in formPosts, SaveLands(post) PROVE FormInv'
  <2>0. UNCHANGED formHost
    BY <1>21 DEF SaveLands
  <2>1. CASE form' = Shut /\ formPosts' = {[other EXCEPT !.same = FALSE, !.here = FALSE] : other \in formPosts \ {post}}
    <3>1. formPosts' \subseteq Orphaned
      BY <2>1 DEF Orphaned
    <3> QED BY <1>3, <2>0, <2>1, <3>1, AgainstTheOld
  <2>2. CASE UNCHANGED form /\ formPosts' = formPosts \ {post}
    BY <1>0, <2>0, <2>2 DEF FormInv, StepIsOfTheType, NameWasGiven
  <2> QED BY <1>21, <2>1, <2>2 DEF SaveLands
<1>22. CASE UNCHANGED formVars
  BY <1>0, <1>22 DEF formVars, FormInv, StepIsOfTheType, NameWasGiven
<1> QED BY <1>4, <1>5, <1>6, <1>7, <1>9, <1>10, <1>11, <1>12, <1>13, <1>14, <1>15, <1>16, <1>17, <1>18, <1>19,
           <1>20, <1>21, <1>22 DEF FormNext

\* The invariant of the integration form holds in every state.
LEMMA FormInvHolds == FormSpec => []FormInv
BY FormStartsSound, FormStaysSound, PTL DEF FormSpec

\* The form keeps its types, and its requests theirs.
THEOREM FormTypeCorrect == FormSpec => []FormTypeOK
<1>1. FormInv => FormTypeOK
  BY DEF FormInv, FormTypeOK, FormPosts, OpenForms
<1> QED BY <1>1, FormInvHolds, PTL

\* No later guided step of the wizard is reached with the name blank (ProviderFormStep.tsx:127); the
\* step on the screen is one the type has (StepCredentials.tsx:134); and what the primary button
\* misses is on the screen, or on a step the screen leads to.
THEOREM StepsLeadToWhatIsMissing ==
    FormSpec => [](NameBeforeLaterSteps /\ StepExists /\ MissingIsReachable)
<1>1. FormInv => NameBeforeLaterSteps /\ StepExists
  BY DEF FormInv, NameBeforeLaterSteps, StepExists, NameWasGiven, StepIsOfTheType, InWizard, InDialog, Guided, Filling
<1>2. FormInv => MissingIsReachable
  <2> SUFFICES ASSUME FormInv, Primary, Guided => LastStep, NEW key \in MissingFields(form)
               PROVE  key \in Shown \/ (Guided /\ \E i \in DOMAIN GuidedSteps(form.type) : key \in GuidedSteps(form.type)[i])
    BY DEF MissingIsReachable
  <2>0. form.open /\ form.type # None /\ key \in RequiredFields(form.type)
    BY DEF Primary, Filling, InDialog, InWizard, MissingFields
  <2>1. CASE ~Guided
    BY <2>0, <2>1 DEF Shown
  <2>2. CASE Guided /\ key = "name"
    <3>1. CASE formHost = "dialog" \/ form.index = 1
      BY <2>2, <3>1 DEF Shown
    <3>2. CASE formHost = "wizard" /\ form.index # 1
      <4>1. "name" \notin form.filled /\ form.index > 1
        <5>1. form \in OpenForms
          BY <2>0 DEF FormInv, Shut
        <5>2. form.index \in 1..3
          BY <5>1 DEF OpenForms
        <5>3. "name" \notin form.filled
          BY <2>2 DEF MissingFields
        <5> QED BY <3>2, <5>2, <5>3
      <4> QED BY <2>0, <2>2, <3>2, <4>1 DEF FormInv, NameWasGiven, Guided
    <3> QED BY <3>1, <3>2 DEF FormInv
  <2>3. CASE Guided /\ key # "name"
    <3>1. GuidedSteps(form.type) # <<>>
      BY <2>3 DEF Guided
    <3>2. form.type \in {"npm", "adguard", "traefik", "cloudflare"}
      BY <3>1 DEF GuidedSteps
    <3>3. CASE form.type = "npm"
      <4>1. GuidedSteps(form.type) = <<{}, {"url"}, {"username", "password"}>>
        BY <3>3 DEF GuidedSteps
      <4>2. key \in {"url", "password"} \cup UNION {GuidedSteps(form.type)[i] : i \in DOMAIN GuidedSteps(form.type)}
        BY <2>0, <2>3, <3>3 DEF RequiredFields, IsUrlOptional, RequiresUsername, RequiresPassword
      <4>3. 2 \in DOMAIN GuidedSteps(form.type) /\ 3 \in DOMAIN GuidedSteps(form.type)
            /\ GuidedSteps(form.type)[2] = {"url"} /\ GuidedSteps(form.type)[3] = {"username", "password"}
        BY <4>1
      <4> QED BY <2>3, <4>2, <4>3
    <3>4. CASE form.type = "adguard"
      <4>1. GuidedSteps(form.type) = <<{"url", "username", "password"}>>
        BY <3>4 DEF GuidedSteps
      <4>2. key \in {"url", "password"} \cup UNION {GuidedSteps(form.type)[i] : i \in DOMAIN GuidedSteps(form.type)}
        BY <2>0, <2>3, <3>4 DEF RequiredFields, IsUrlOptional, RequiresUsername, RequiresPassword
      <4>3. 1 \in DOMAIN GuidedSteps(form.type) /\ GuidedSteps(form.type)[1] = {"url", "username", "password"}
        BY <4>1
      <4> QED BY <2>3, <4>2, <4>3
    <3>5. CASE form.type = "traefik"
      <4>1. GuidedSteps(form.type) = <<{"url"}>>
        BY <3>5 DEF GuidedSteps
      <4>2. key \in {"url"} \cup UNION {GuidedSteps(form.type)[i] : i \in DOMAIN GuidedSteps(form.type)}
        BY <2>0, <2>3, <3>5 DEF RequiredFields, IsUrlOptional, RequiresUsername, RequiresPassword
      <4>3. 1 \in DOMAIN GuidedSteps(form.type) /\ GuidedSteps(form.type)[1] = {"url"}
        BY <4>1
      <4> QED BY <2>3, <4>2, <4>3
    <3>6. CASE form.type = "cloudflare"
      <4>1. GuidedSteps(form.type) = <<{"password"}, {}>>
        BY <3>6 DEF GuidedSteps
      <4>2. key \in {"password"} \cup UNION {GuidedSteps(form.type)[i] : i \in DOMAIN GuidedSteps(form.type)}
        BY <2>0, <2>3, <3>6 DEF RequiredFields, IsUrlOptional, RequiresUsername, RequiresPassword
      <4>3. 1 \in DOMAIN GuidedSteps(form.type) /\ GuidedSteps(form.type)[1] = {"password"}
        BY <4>1
      <4> QED BY <2>3, <4>2, <4>3
    <3> QED BY <3>2, <3>3, <3>4, <3>5, <3>6
  <2> QED BY <2>1, <2>2, <2>3
<1> QED BY <1>1, <1>2, FormInvHolds, PTL

TypedIsNotLost ==
    formHost = "dialog" /\ form.open /\ form.edited /\ ~form'.open =>
        form.asking \/ \E post \in formPosts : post.op # "validate" /\ post \notin formPosts'

\* What was typed in the dialog is thrown away by a yes to the guard, or by a save that succeeded,
\* and by nothing else (ProviderModal.tsx:106).
THEOREM NothingTypedGoesUnasked == FormSpec => NothingTypedIsLost
<1>1. FormInv /\ [FormNext]_formVars => [TypedIsNotLost]_formVars
  <2> SUFFICES ASSUME FormInv, FormNext, formHost = "dialog", form.open, form.edited, ~form'.open, ~form.asking
               PROVE  \E post \in formPosts : post.op # "validate" /\ post \notin formPosts'
    BY DEF TypedIsNotLost
  <2>0. form \in OpenForms
    BY DEF FormInv, Shut
  <2>1. \A type : SeedFormForType(form, type).open = form.open
    BY <2>0 DEF SeedFormForType, OpenForms
  <2>2. \E post \in formPosts : SaveLands(post)
    <3>1. ~RequestClose /\ ~CancelWizard /\ ~Open /\ \A yes \in BOOLEAN : ~AnswerGuard(yes)
      BY <2>0 DEF RequestClose, CancelWizard, Open, AnswerGuard, InWizard, OpenForms
    <3>2. ~Reload /\ ~Back
      BY DEF Reload, Back, InWizard
    <3>3. ~(\E post \in formPosts : ValidateLands(post))
      BY <2>0 DEF ValidateLands, OpenForms
    <3>4. ~(\E type \in Types : ChooseProviderType(type))
      <4> SUFFICES ASSUME NEW type \in Types, ChooseProviderType(type) PROVE FALSE
        OBVIOUS
      <4>1. form'.open = SeedFormForType(form, type).open
        <5>1. SeedFormForType(form, type) = [form EXCEPT !.type = type, !.last = type,
                  !.filled = IF form.last = type THEN form.filled \cup {"name"} ELSE (form.filled \cup {"name"}) \ {"url"}]
          BY DEF SeedFormForType
        <5> QED BY <2>0, <5>1 DEF ChooseProviderType, OpenForms
      <4> QED BY <2>0, <2>1, <4>1 DEF OpenForms
    <3>5. ~(\E mode \in {"guided", "expert"} : ChooseMode(mode)) /\ ~(\E i \in 1..3 : GoToStep(i))
          /\ ~(\E key \in FORM_FIELDS : UpdateField(key))
      BY <2>0 DEF ChooseMode, GoToStep, UpdateField, OpenForms
    <3>6. ~Continue /\ ~NextStep /\ ~ChooseDockerType /\ ~TypeEndpoint
      BY <2>0 DEF Continue, NextStep, ChooseDockerType, TypeEndpoint, OpenForms
    <3>7. ~Validate /\ ~Connect /\ ~HandleSave /\ ~AddEndpoint
      BY <2>0 DEF Validate, Connect, HandleSave, AddEndpoint, Post, OpenForms
    <3> QED BY <3>1, <3>2, <3>3, <3>4, <3>5, <3>6, <3>7 DEF FormNext
  <2>3. PICK post \in formPosts : SaveLands(post)
    BY <2>2
  <2>4. post.op # "validate"
        /\ formPosts' = {[other EXCEPT !.same = FALSE, !.here = FALSE] : other \in formPosts \ {post}}
    BY <2>0, <2>3 DEF SaveLands, OpenForms
  <2>5. post \notin formPosts'
    <3> SUFFICES ASSUME post \in formPosts' PROVE FALSE
      OBVIOUS
    <3>1. PICK other \in formPosts \ {post} : post = [other EXCEPT !.same = FALSE, !.here = FALSE]
      BY <2>4
    <3>2. post.op = other.op
      BY <3>1 DEF FormInv, FormPosts
    <3> QED BY <3>1, <3>2 DEF FormInv
  <2> QED BY <2>4, <2>5
<1>2. ([][TypedIsNotLost]_formVars) <=> NothingTypedIsLost
  BY DEF TypedIsNotLost, NothingTypedIsLost
<1> QED BY <1>1, <1>2, FormInvHolds, PTL DEF FormSpec

(***************************************************************************)
(* The list of options.  Every place the highlight is put is of the list   *)
(* it is put in; a list that became shorter may leave it behind.           *)
(***************************************************************************)
OptionsInv ==
    /\ options \in OptionLists /\ listOpen \in BOOLEAN /\ active \in Nat /\ Len(typeahead) <= MaxTyped

\* Going on from the last row comes to the first.
LEMMA RoundIs == ASSUME NEW x \in Int, NEW n \in Nat, n # 0 PROVE (x % n) + 1 \in 1..n
<1>1. n > 0
  OBVIOUS
<1>2. x % n \in 0..(n - 1)
  BY <1>1
<1> QED BY <1>2

\* The lists that are offered have a length and rows that are enabled or not.
LEMMA LenIs == ASSUME options \in OptionLists
               PROVE  Len(options) \in Nat /\ (\A i \in 1..Len(options) : options[i].disabled \in BOOLEAN)
                      /\ (options = <<>> => Len(options) = 0)
BY OptionsAssumption

\* What is found from a place on, going down or up.
LEMMA FoundIs ==
    ASSUME options \in OptionLists, NEW start \in Int, NEW step \in {1, -1}
    PROVE  /\ enabledFrom(start, step) \in 0..Len(options)
           /\ enabledFrom(start, step) # 0 => IsEnabled(enabledFrom(start, step))
           /\ \A i \in Indexes : IsEnabled(i) /\ (IF step = 1 THEN i >= start ELSE i <= start)
                                     => enabledFrom(start, step) # 0
<1> DEFINE hits_ == {i \in Indexes : IsEnabled(i) /\ IF step = 1 THEN i >= start ELSE i <= start}
<1>0. hits_ \subseteq 0..Len(options) /\ hits_ \subseteq Nat /\ Len(options) \in Nat /\ 0 \notin hits_
      /\ \A i \in hits_ : IsEnabled(i)
  BY LenIs DEF Indexes
<1>1. enabledFrom(start, step) = IF hits_ = {} THEN 0
          ELSE CHOOSE i \in hits_ : \A j \in hits_ : IF step = 1 THEN i <= j ELSE i >= j
  BY DEF enabledFrom
<1>2. \A i \in Indexes : IsEnabled(i) /\ (IF step = 1 THEN i >= start ELSE i <= start) => i \in hits_
  OBVIOUS
<1> HIDE DEF hits_
<1>3. hits_ # {} => enabledFrom(start, step) \in hits_
  <2> SUFFICES ASSUME hits_ # {} PROVE enabledFrom(start, step) \in hits_
    OBVIOUS
  <2>1. \E i \in hits_ : \A j \in hits_ : IF step = 1 THEN i <= j ELSE i >= j
    <3>1. CASE step = 1
      BY <1>0, <3>1, LeastOf
    <3>2. CASE step = -1
      <4>1. \E i \in hits_ : \A j \in hits_ : i >= j
        BY <1>0, GreatestOf
      <4>2. step # 1
        BY <3>2
      <4> QED BY <4>1, <4>2
    <3> QED BY <3>1, <3>2
  <2> QED BY <1>1, <2>1
<1>4. hits_ = {} => enabledFrom(start, step) = 0
  BY <1>1
<1>5. CASE hits_ = {}
  BY <1>0, <1>2, <1>4, <1>5
<1>6. CASE hits_ # {}
  <2>1. enabledFrom(start, step) \in hits_
    BY <1>3, <1>6
  <2>2. enabledFrom(start, step) # 0
    BY <1>0, <2>1
  <2> QED BY <1>0, <2>1, <2>2
<1> QED BY <1>5, <1>6

\* The option shown as chosen is one of the list, or none.
LEMMA ShownIs == ASSUME options \in OptionLists PROVE shownIndex \in 0..Len(options)
<1> DEFINE I == {i \in 1..Len(options) : options[i].value = current}
<1>0. Len(options) \in Nat /\ I \subseteq Nat /\ I \subseteq 0..Len(options)
  BY LenIs
<1>1. SelectInSeq(options, LAMBDA o : o.value = current) = IF I # {} THEN Min(I) ELSE 0
  BY DEF SelectInSeq
<1>2. options # <<>> => 1 \in 0..Len(options) \/ Len(options) = 0
  BY <1>0
<1>3. (\E i \in Indexes : options[i].value = current) => I # {}
  BY DEF Indexes
<1> HIDE DEF I
<1>4. I # {} => Min(I) \in I
  BY <1>0, LeastOf DEF Min
<1>5. CASE \E i \in Indexes : options[i].value = current
  BY <1>0, <1>1, <1>3, <1>4, <1>5 DEF shownIndex
<1>6. CASE ~(\E i \in Indexes : options[i].value = current)
  <2>1. options # <<>> => Len(options) # 0
    BY OptionsAssumption
  <2> QED BY <1>0, <1>6, <2>1 DEF shownIndex
<1> QED BY <1>5, <1>6

\* What was typed leads to a row of the list, or to none.
LEMMA TypedIs ==
    ASSUME options \in OptionLists, NEW word, NEW from \in Nat
    PROVE  matchTyped(word, from) \in 0..Len(options)
<1> DEFINE again == \A i \in 1..Len(word) : word[i] = word[1]
<1> DEFINE wanted == IF again THEN <<word[1]>> ELSE word
<1> DEFINE At(k) == ((IF again THEN from + k ELSE from - 1 + k) % Len(options)) + 1
<1> DEFINE hits_ == {k \in 0..Len(options) - 1 : IsEnabled(At(k)) /\ IsPrefix(wanted, options[At(k)].text)}
<1>0. Len(options) \in Nat
  BY LenIs
<1>1. matchTyped(word, from) = IF options = <<>> \/ hits_ = {} THEN 0
                               ELSE At(CHOOSE k \in hits_ : \A other \in hits_ : k <= other)
  BY DEF matchTyped
<1>2. hits_ \subseteq Nat /\ (hits_ # {} => Len(options) # 0)
  BY <1>0
<1>3. \A k \in hits_ : At(k) \in 1..Len(options)
  <2> SUFFICES ASSUME NEW k \in hits_ PROVE At(k) \in 1..Len(options)
    OBVIOUS
  <2> DEFINE x == IF again THEN from + k ELSE from - 1 + k
  <2>1. x \in Int /\ Len(options) # 0
    BY <1>2, SMTT(60)
  <2>2. At(k) = (x % Len(options)) + 1
    OBVIOUS
  <2> HIDE DEF x
  <2> QED BY <1>0, <2>1, <2>2, RoundIs
<1> HIDE DEF hits_, At
<1>4. CASE options = <<>> \/ hits_ = {}
  BY <1>0, <1>1, <1>4
<1>5. CASE ~(options = <<>> \/ hits_ = {})
  <2>1. \E k \in hits_ : \A other \in hits_ : k <= other
    BY <1>2, <1>5, LeastOf
  <2>2. (CHOOSE k \in hits_ : \A other \in hits_ : k <= other) \in hits_
    BY <2>1
  <2> QED BY <1>0, <1>1, <1>3, <1>5, <2>2
<1> QED BY <1>4, <1>5

\* A key goes to an enabled row, if there is one (Select.tsx:181-187).
LEMMA MovedIs ==
    ASSUME options \in OptionLists, NEW from \in Nat, NEW delta \in {1, -1, 10, -10}
    PROVE  /\ move(from, delta) \in Nat
           /\ (\E i \in Indexes : IsEnabled(i)) => IsEnabled(move(from, delta))
<1> DEFINE step == IF delta > 0 THEN 1 ELSE -1
<1> DEFINE target == IF from + delta < 1 THEN 1
                     ELSE IF from + delta > Len(options) THEN Len(options) ELSE from + delta
<1> DEFINE back_ == -step
<1>0. Len(options) \in Nat /\ target \in Int /\ step \in {1, -1} /\ back_ \in {1, -1} /\ step # back_
  <2>1. Len(options) \in Nat
    BY LenIs
  <2>2. delta \in Int /\ target \in Int
    BY <2>1
  <2>3. step = 1 \/ step = -1
    OBVIOUS
  <2> HIDE DEF step
  <2>4. step = 1 => back_ = -1
    OBVIOUS
  <2>5. step = -1 => back_ = 1
    <3> SUFFICES ASSUME step = -1 PROVE -step = 1
      OBVIOUS
    <3>1. step \in Int /\ step + 1 = 0
      OBVIOUS
    <3> QED BY ONLY <3>1
  <2> HIDE DEF back_
  <2>6. 1 # -1
    OBVIOUS
  <2> QED BY <2>1, <2>2, <2>3, <2>4, <2>5, <2>6
<1>1. move(from, delta) = IF enabledFrom(target, step) # 0 THEN enabledFrom(target, step)
                          ELSE IF enabledFrom(target, back_) # 0 THEN enabledFrom(target, back_) ELSE from
  BY DEF move
<1> HIDE DEF target, step, back_
<1>2. /\ enabledFrom(target, step) \in Nat /\ enabledFrom(target, back_) \in Nat
      /\ enabledFrom(target, step) # 0 => IsEnabled(enabledFrom(target, step))
      /\ enabledFrom(target, back_) # 0 => IsEnabled(enabledFrom(target, back_))
  <2>1. enabledFrom(target, step) \in 0..Len(options) /\ enabledFrom(target, back_) \in 0..Len(options)
    BY <1>0, FoundIs
  <2>2. enabledFrom(target, step) # 0 => IsEnabled(enabledFrom(target, step))
    BY <1>0, FoundIs
  <2>3. enabledFrom(target, back_) # 0 => IsEnabled(enabledFrom(target, back_))
    BY <1>0, FoundIs
  <2> QED BY <2>1, <2>2, <2>3
<1>3. (\E i \in Indexes : IsEnabled(i)) => enabledFrom(target, step) # 0 \/ enabledFrom(target, back_) # 0
  <2> SUFFICES ASSUME NEW i \in Indexes, IsEnabled(i)
               PROVE  enabledFrom(target, 1) # 0 \/ enabledFrom(target, -1) # 0
    BY <1>0
  <2>1. i >= target \/ i <= target
    BY <1>0 DEF Indexes
  <2> QED BY <1>0, <2>1, FoundIs
<1> QED BY <1>1, <1>2, <1>3

\* No key or click breaks the invariant of the list.
LEMMA OptionsStaySound ==
    ASSUME OptionsInv, [OptionsNext]_optionVars
    PROVE  OptionsInv'
<1>0. options \in OptionLists /\ listOpen \in BOOLEAN /\ active \in Nat /\ Len(typeahead) <= MaxTyped
  BY DEF OptionsInv
<1>1. Len(options) \in Nat /\ shownIndex \in Nat /\ enabledFrom(1, 1) \in Nat
      /\ enabledFrom(Len(options), -1) \in Nat
  <2>1. Len(options) \in Nat
    BY <1>0, LenIs
  <2>2. enabledFrom(1, 1) \in 0..Len(options) /\ enabledFrom(Len(options), -1) \in 0..Len(options)
    BY <1>0, <2>1, FoundIs
  <2>3. shownIndex \in 0..Len(options)
    BY <1>0, ShownIs
  <2> QED BY <2>1, <2>2, <2>3
<1>2. \A index \in Nat : openAt(index) => active' \in Nat /\ listOpen' \in BOOLEAN
  BY <1>1 DEF openAt
<1>3. CASE OpenList
  BY <1>0, <1>1, <1>2, <1>3 DEF OpenList, OptionsInv
<1>4. CASE Highlight
  <2>1. active' \in Nat
    <3>1. CASE \E delta \in {1, -1, 10, -10} : active' = move(active, delta)
      BY <1>0, <3>1, MovedIs
    <3>2. CASE active' \in {enabledFrom(1, 1), enabledFrom(Len(options), -1)}
      BY <1>1, <3>2
    <3>3. CASE \E i \in Indexes : IsEnabled(i) /\ active' = i
      BY <1>1, <3>3 DEF Indexes
    <3> QED BY <1>4, <3>1, <3>2, <3>3 DEF Highlight
  <2> QED BY <1>0, <1>4, <2>1 DEF Highlight, OptionsInv
<1>5. CASE CloseList
  BY <1>0, <1>5 DEF CloseList, OptionsInv
<1>6. CASE OptionsChange
  BY <1>0, <1>6 DEF OptionsChange, OptionsInv
<1>7. ASSUME NEW letter \in Letters, TypeLetter(letter) PROVE OptionsInv'
  <2>1. PICK word \in {Append(typeahead, letter), <<letter>>} :
            LET hit == matchTyped(word, IF listOpen THEN active ELSE shownIndex)
            IN  /\ Len(word) <= MaxTyped /\ typeahead' = word
                /\ IF listOpen THEN active' = (IF hit # 0 THEN hit ELSE active) /\ UNCHANGED listOpen
                   ELSE openAt(IF hit # 0 THEN hit ELSE shownIndex)
                /\ UNCHANGED <<options, current>>
    BY <1>7 DEF TypeLetter
  <2> DEFINE from == IF listOpen THEN active ELSE shownIndex
  <2> DEFINE hit_ == matchTyped(word, from)
  <2>2. /\ Len(word) <= MaxTyped /\ typeahead' = word
        /\ IF listOpen THEN active' = (IF hit_ # 0 THEN hit_ ELSE active) /\ UNCHANGED listOpen
           ELSE openAt(IF hit_ # 0 THEN hit_ ELSE shownIndex)
        /\ UNCHANGED <<options, current>>
    BY <2>1
  <2>3. from \in Nat
    BY <1>0, <1>1
  <2>4. hit_ \in Nat
    <3> HIDE DEF from
    <3>1. hit_ \in 0..Len(options)
      BY <1>0, <2>3, TypedIs
    <3> QED BY <3>1
  <2> HIDE DEF hit_
  <2>5. active' \in Nat /\ listOpen' \in BOOLEAN
    <3>1. CASE listOpen
      BY <1>0, <2>2, <2>4, <3>1
    <3>2. CASE ~listOpen
      BY <1>1, <1>2, <2>2, <2>4, <3>2
    <3> QED BY <3>1, <3>2
  <2> QED BY <1>0, <2>2, <2>5 DEF OptionsInv
<1>8. ASSUME NEW index \in Indexes, Commit(index) PROVE OptionsInv'
  BY <1>0, <1>8 DEF Commit, OptionsInv
<1>9. CASE UNCHANGED optionVars
  BY <1>0, <1>9 DEF optionVars, OptionsInv
<1> QED BY <1>3, <1>4, <1>5, <1>6, <1>7, <1>8, <1>9 DEF OptionsNext

\* The invariant of the list holds in every state.
LEMMA OptionsInvHolds == OptionsSpec => []OptionsInv
<1>1. OptionsInit => OptionsInv
  <2>1. Len(<<>>) = 0 /\ 0 <= MaxTyped
    BY OptionsAssumption
  <2>2. OptionsInit => options \in OptionLists /\ listOpen = FALSE /\ active = 0 /\ typeahead = <<>>
    BY DEF OptionsInit
  <2> SUFFICES ASSUME OptionsInit PROVE OptionsInv
    OBVIOUS
  <2>3. Len(typeahead) <= MaxTyped
    BY <2>1, <2>2
  <2>4. options \in OptionLists
    BY <2>2
  <2>5. listOpen \in BOOLEAN
    BY <2>2
  <2>6. active \in Nat
    BY <2>2
  <2> QED BY <2>3, <2>4, <2>5, <2>6 DEF OptionsInv
<1> QED BY <1>1, OptionsStaySound, PTL DEF OptionsSpec

\* The list keeps its types.
THEOREM OptionsTypeCorrect == OptionsSpec => []OptionsTypeOK
<1>1. OptionsInv => OptionsTypeOK
  BY ShownIs DEF OptionsInv, OptionsTypeOK
<1> QED BY <1>1, OptionsInvHolds, PTL

\* Wherever the highlight stands, even past the end of a list that became shorter, every key moves
\* it to an option that can be picked while there is one (Select.tsx:181-187).
THEOREM KeysLandOnEnabled == OptionsSpec => []MovesLandOnEnabled
<1>1. OptionsInv => MovesLandOnEnabled
  BY MovedIs DEF OptionsInv, MovesLandOnEnabled
<1> QED BY <1>1, OptionsInvHolds, PTL

(***************************************************************************)
(* The palette: while it is open, each of its lists was read, failed, or   *)
(* is on its way.                                                          *)
(***************************************************************************)
KnownOrComing(query) == query.data # None \/ query.error \/ query.ask = "asked"

PaletteInv ==
    /\ PaletteTypeOK
    /\ endpointsAt \in EndpointLists /\ hostsAt \in HostLists
    /\ opened => KnownOrComing(endpoints) /\ KnownOrComing(hosts)

\* No key, read or failure breaks the invariant of the palette.
LEMMA PaletteStaysSound ==
    ASSUME PaletteInv, [PaletteNext]_paletteVars
    PROVE  PaletteInv'
<1>0. /\ endpoints \in Query(EndpointLists) /\ hosts \in Query(HostLists) /\ opened \in BOOLEAN
      /\ typedText \in Texts \cup {""} /\ endpointsAt \in EndpointLists /\ hostsAt \in HostLists
      /\ (opened => KnownOrComing(endpoints) /\ KnownOrComing(hosts))
      /\ endpointsAt # None /\ hostsAt # None
  BY NoneIsNoList DEF PaletteInv, PaletteTypeOK
<1>1. \A Lists : \A query \in Query(Lists) : Asked(query) \in Query(Lists) /\ KnownOrComing(Asked(query))
  BY AskedIs DEF KnownOrComing
<1>2. \A Lists : \A query \in Query(Lists) : Failed(query) \in Query(Lists) /\ KnownOrComing(Failed(query))
  BY FailedIs DEF KnownOrComing
<1>3. /\ Landed(endpointsAt) \in Query(EndpointLists) /\ KnownOrComing(Landed(endpointsAt))
      /\ Landed(hostsAt) \in Query(HostLists) /\ KnownOrComing(Landed(hostsAt))
  BY <1>0, LandedIs DEF KnownOrComing
<1>4. ASSUME endpoints' \in Query(EndpointLists), hosts' \in Query(HostLists),
             opened' => KnownOrComing(endpoints)' /\ KnownOrComing(hosts)',
             opened' \in BOOLEAN, typedText' \in Texts \cup {""},
             endpointsAt' \in EndpointLists, hostsAt' \in HostLists
      PROVE  PaletteInv'
  BY <1>4 DEF PaletteInv, PaletteTypeOK
<1>5. CASE OpenPalette
  <2>1. /\ opened' = TRUE /\ typedText' = "" /\ UNCHANGED <<endpointsAt, hostsAt>>
        /\ endpoints' = Asked(endpoints) \/ (endpoints' = endpoints /\ Usable(endpoints))
        /\ hosts' = Asked(hosts) \/ (hosts' = hosts /\ Usable(hosts))
    BY <1>5 DEF OpenPalette
  <2>2. endpoints' \in Query(EndpointLists) /\ KnownOrComing(endpoints')
    BY <1>0, <1>1, <2>1 DEF Usable, KnownOrComing
  <2>3. hosts' \in Query(HostLists) /\ KnownOrComing(hosts')
    BY <1>0, <1>1, <2>1 DEF Usable, KnownOrComing
  <2> QED BY <1>0, <1>4, <2>1, <2>2, <2>3 DEF KnownOrComing
<1>6. CASE ClosePalette
  BY <1>0, <1>4, <1>6 DEF ClosePalette
<1>7. CASE ListArrives
  <2>1. UNCHANGED <<endpointsAt, hostsAt, opened, typedText>>
    BY <1>7 DEF ListArrives
  <2>2. CASE endpoints' \in {Landed(endpointsAt), Failed(endpoints)} /\ UNCHANGED hosts
    <3>1. endpoints' \in Query(EndpointLists) /\ KnownOrComing(endpoints')
      BY <1>0, <1>2, <1>3, <2>2
    <3> QED BY <1>0, <1>4, <2>1, <2>2, <3>1 DEF KnownOrComing
  <2>3. CASE hosts' \in {Landed(hostsAt), Failed(hosts)} /\ UNCHANGED endpoints
    <3>1. hosts' \in Query(HostLists) /\ KnownOrComing(hosts')
      BY <1>0, <1>2, <1>3, <2>3
    <3> QED BY <1>0, <1>4, <2>1, <2>3, <3>1 DEF KnownOrComing
  <2> QED BY <1>7, <2>2, <2>3 DEF ListArrives
<1>8. ASSUME NEW text \in Texts \cup {""}, TypeQuery(text) PROVE PaletteInv'
  BY <1>0, <1>4, <1>8 DEF TypeQuery, KnownOrComing
<1>9. CASE MoveRow
  <2>1. UNCHANGED <<endpointsAt, hostsAt, endpoints, hosts, opened, typedText>>
    BY <1>9 DEF MoveRow
  <2> QED BY <1>0, <1>4, <2>1 DEF KnownOrComing
<1>10. CASE RetryLists
  <2>1. /\ UNCHANGED <<endpointsAt, hostsAt, opened, typedText>> /\ opened
        /\ endpoints' \in {Asked(endpoints), endpoints} /\ hosts' \in {Asked(hosts), hosts}
    BY <1>10 DEF RetryLists
  <2>2. endpoints' \in Query(EndpointLists) /\ KnownOrComing(endpoints')
    BY <1>0, <1>1, <2>1
  <2>3. hosts' \in Query(HostLists) /\ KnownOrComing(hosts')
    BY <1>0, <1>1, <2>1
  <2> QED BY <1>0, <1>4, <2>1, <2>2, <2>3 DEF KnownOrComing
<1>11. CASE EstateChanges
  <2>1. /\ endpointsAt' \in EndpointLists /\ hostsAt' \in HostLists /\ UNCHANGED <<opened, typedText>>
        /\ endpoints' \in {endpoints, Asked(endpoints)} /\ hosts' \in {hosts, Asked(hosts)}
    BY <1>11 DEF EstateChanges
  <2>2. endpoints' \in Query(EndpointLists) /\ (opened => KnownOrComing(endpoints'))
    BY <1>0, <1>1, <2>1
  <2>3. hosts' \in Query(HostLists) /\ (opened => KnownOrComing(hosts'))
    BY <1>0, <1>1, <2>1
  <2> QED BY <1>0, <1>4, <2>1, <2>2, <2>3 DEF KnownOrComing
<1>12. CASE UNCHANGED paletteVars
  BY <1>0, <1>4, <1>12 DEF paletteVars, KnownOrComing
<1> QED BY <1>5, <1>6, <1>7, <1>8, <1>9, <1>10, <1>11, <1>12 DEF PaletteNext

\* The invariant of the palette holds in every state.
LEMMA PaletteInvHolds == PaletteSpec => []PaletteInv
<1>1. PaletteInit => PaletteInv
  <2>1. \A Lists : Unasked \in Query(Lists)
    BY DEF Unasked, Query
  <2> SUFFICES ASSUME PaletteInit PROVE PaletteInv
    OBVIOUS
  <2>2. /\ endpointsAt \in EndpointLists /\ hostsAt \in HostLists /\ endpoints = Unasked /\ hosts = Unasked
        /\ opened = FALSE /\ typedText = ""
    BY DEF PaletteInit
  <2>3. endpoints \in Query(EndpointLists) /\ hosts \in Query(HostLists)
    BY <2>1, <2>2
  <2> QED BY <2>2, <2>3 DEF PaletteInv, PaletteTypeOK
<1> QED BY <1>1, PaletteStaysSound, PTL DEF PaletteSpec

\* The palette keeps its types.
THEOREM PaletteTypeCorrect == PaletteSpec => []PaletteTypeOK
<1>1. PaletteInv => PaletteTypeOK
  BY DEF PaletteInv
<1> QED BY <1>1, PaletteInvHolds, PTL

\* "No matches" is only said of lists that were read: not of one that is on its way, and not of
\* one that failed (CommandPalette.tsx:110-117).
THEOREM NothingFoundIsToldTrue == PaletteSpec => []NothingFoundIsTrue
<1>1. PaletteInv => NothingFoundIsTrue
  <2> SUFFICES ASSUME PaletteInv, opened, EmptySays = "nothing found"
               PROVE  endpoints.data # None /\ hosts.data # None /\ ~listsFailed
    BY DEF NothingFoundIsTrue
  <2>1. ~listsFailed /\ ~listsPending
    BY DEF EmptySays
  <2> QED BY <2>1 DEF PaletteInv, KnownOrComing, listsFailed, listsPending, Pending
<1> QED BY <1>1, PaletteInvHolds, PTL

(***************************************************************************)
(* The API keys.  Unless it missed a request, the list is of the server    *)
(* until a request has succeeded that was not heard of yet; and what is    *)
(* being copied is the secret on the screen, unless that came up over it.  *)
(***************************************************************************)
KeysAreListed ==
    /\ ~lostKey /\ Usable(keysQ) /\ keysQ.ask = "idle"
    /\ minting # None => minting.at # "done"
    /\ revoking # None => revoking.at # "done"
    => keysQ.data = keysAt

CopyIsShown ==
    createdKey # None /\ ~createdKey.overtook =>
        /\ copying \subseteq {createdKey.id}
        /\ createdKey.copied => clipboard = createdKey.id

KeysInv ==
    /\ KeysTypeOK
    /\ minting # None /\ minting.at = "sent" => issued < MaxKeys
    /\ minting # None /\ minting.at = "done" => minting.id \in KeyIds
    /\ asked # None => revoking = None
    /\ KeysAreListed /\ CopyIsShown

\* The form of a key opens blank.
LEMMA BlankIsForm == BlankKey \in KeyForms
<1>1. {"read"} \in SUBSET Scopes
  BY KeysAssumption
<1> QED BY <1>1 DEF BlankKey, KeyForms

\* The tab opens with no key shown or copied.
LEMMA KeysStartSound == KeysInit => KeysInv
<1> SUFFICES ASSUME KeysInit PROVE KeysInv
  OBVIOUS
<1>1. keysQ \in Query(ApiKeyList) /\ keysQ.data = None
  BY FirstAskIs DEF KeysInit
<1>2. /\ keysAt \in ApiKeyList
      /\ 0 \in 0..MaxKeys /\ 0 \in 0..MaxKeyCalls
  BY KeysAssumption DEF KeysInit, ApiKeyList
<1>3. KeysTypeOK
  BY <1>1, <1>2, BlankIsForm DEF KeysInit, KeysTypeOK
<1> QED BY <1>1, <1>3 DEF KeysInit, KeysInv, KeysAreListed, CopyIsShown, Usable

\* The list is read, or asked for.
LEMMA KeysListStep ==
    ASSUME KeysInv,
           UNCHANGED <<keyForm, theSecret, asked, theKeys, minting>>,
           keySearch' \in KeyTerms \cup {None}, keyCalls' \in 0..MaxKeyCalls,
           \/ keysQ' = Landed(keysAt) \/ keysQ' = Failed(keysQ) \/ keysQ' = keysQ
           \/ keysQ' = Asked(keysQ),
           \/ revoking' = revoking
           \/ revoking' = None /\ (revoking.at = "done" => keysQ' = Asked(keysQ))
    PROVE  KeysInv'
<1>1. /\ keysQ' \in Query(ApiKeyList)
      /\ \/ keysQ'.data = keysAt \/ ~Usable(keysQ)' \/ keysQ' = keysQ
         \/ keysQ'.ask = "asked"
  BY AskedIs, FailedIs, LandedIs DEF KeysInv, KeysTypeOK, Usable
<1>2. KeysTypeOK'
  BY <1>1 DEF KeysInv, KeysTypeOK, theSecret, theKeys
<1>3. KeysAreListed'
  BY <1>1, AskedIs DEF KeysInv, KeysTypeOK, KeysAreListed, theKeys, Usable
<1>4. /\ minting' # None /\ minting'.at = "sent" => issued' < MaxKeys
      /\ minting' # None /\ minting'.at = "done" => minting'.id \in KeyIds
      /\ asked' # None => revoking' = None
  BY DEF KeysInv, theKeys
<1>5. CopyIsShown'
  BY DEF KeysInv, CopyIsShown, theSecret
<1> QED BY <1>2, <1>3, <1>4, <1>5 DEF KeysInv

\* No call of the tab breaks its invariant.
LEMMA KeysStaySound ==
    ASSUME KeysInv, [KeysNext]_keyVars
    PROVE  KeysInv'
<1>1. KeyCall => keyCalls' \in 0..MaxKeyCalls
  BY KeysAssumption DEF KeysInv, KeysTypeOK, KeyCall
<1>2. CASE KeysLand \/ KeysRetry \/ SearchKeys \/ RevokeLands
  BY <1>1, <1>2, KeysListStep DEF KeysInv, KeysTypeOK, KeysLand, KeysRetry, SearchKeys, RevokeLands, ListAfterRevoke
<1>3. CASE FillKeyForm
  <2>1. keyForm' \in KeyForms
    <3>1. keyForm = [named |-> keyForm.named, scopes |-> keyForm.scopes]
          /\ keyForm.named \in BOOLEAN /\ keyForm.scopes \in SUBSET Scopes
      BY DEF KeysInv, KeysTypeOK, KeyForms
    <3>2. \/ keyForm' = [named |-> ~keyForm.named, scopes |-> keyForm.scopes]
          \/ \E s \in Scopes : keyForm' =
               [named |-> keyForm.named,
                scopes |-> IF s \in keyForm.scopes THEN keyForm.scopes \ {s} ELSE keyForm.scopes \cup {s}]
      BY <1>3, <3>1 DEF FillKeyForm
    <3>3. \A s \in Scopes : keyForm.scopes \ {s} \in SUBSET Scopes /\ keyForm.scopes \cup {s} \in SUBSET Scopes
      BY <3>1
    <3>4. CASE keyForm' = [named |-> ~keyForm.named, scopes |-> keyForm.scopes]
      BY <3>1, <3>4 DEF KeyForms
    <3>5. ASSUME NEW scopes \in SUBSET Scopes, keyForm' = [named |-> keyForm.named, scopes |-> scopes]
          PROVE  keyForm' \in KeyForms
      BY <3>1, <3>5 DEF KeyForms
    <3> QED BY <3>2, <3>3, <3>4, <3>5
  <2> QED BY <1>3, <2>1 DEF FillKeyForm, KeysInv, KeysTypeOK, KeysAreListed, CopyIsShown, theKeys, theSecret, Usable
<1>4. CASE CreateKey
  <2>1. minting' \in ApiKeyCreate /\ minting'.at = "sent"
    <3>1. keyForm.scopes \in (SUBSET Scopes) \ {{}}
      BY <1>4 DEF CreateKey, KeysInv, KeysTypeOK, KeyForms, KeyIsComplete
    <3> QED BY <1>4, <3>1 DEF CreateKey, ApiKeyCreate
  <2> QED BY <1>1, <1>4, <2>1 DEF CreateKey, KeysInv, KeysTypeOK, KeysAreListed, CopyIsShown, theKeys, theSecret, Usable
<1>5. CASE ServeCreate
  <2>1. minting \in ApiKeyCreate /\ issued < MaxKeys
    BY <1>5 DEF ServeCreate, KeysInv, KeysTypeOK
  <2>2. CASE minting' = [minting EXCEPT !.at = "failed"] /\ UNCHANGED theKeys
    <3>1. minting' \in ApiKeyCreate /\ minting'.at = "failed"
      BY <2>1, <2>2 DEF ApiKeyCreate
    <3> QED BY <1>5, <2>2, <3>1 DEF ServeCreate, KeysInv, KeysTypeOK, KeysAreListed, CopyIsShown, theKeys, theSecret, Usable
  <2>3. CASE /\ issued' = issued + 1
             /\ keysAt' = [keysAt EXCEPT ![issued'] = minting.scopes]
             /\ \/ minting' = [minting EXCEPT !.at = "done", !.id = issued'] /\ UNCHANGED lostKey
                \/ minting' = [minting EXCEPT !.at = "failed"] /\ lostKey' = TRUE
    <3>1. issued' \in KeyIds /\ issued' \in 0..MaxKeys
      BY <2>1, <2>3, KeysAssumption DEF KeyIds, KeysInv, KeysTypeOK
    <3>2. keysAt' \in ApiKeyList
      BY <2>1, <2>3, <3>1 DEF KeysInv, KeysTypeOK, ApiKeyList, ApiKeyCreate
    <3>3. /\ minting' \in ApiKeyCreate /\ minting'.at # "sent"
          /\ minting'.at = "done" \/ lostKey'
          /\ lostKey' \in BOOLEAN
      BY <2>1, <2>3, <3>1 DEF KeysInv, KeysTypeOK, ApiKeyCreate
    <3>4. minting' # None
      BY <3>3, NoneIsNoCall
    <3>5. KeysTypeOK'
      BY <1>5, <3>1, <3>2, <3>3 DEF ServeCreate, KeysInv, KeysTypeOK, theSecret
    <3>6. KeysAreListed'
      BY <3>3, <3>4 DEF KeysAreListed
    <3>7. minting'.at = "done" => minting'.id \in KeyIds
      BY <2>1, <2>3, <3>1 DEF ApiKeyCreate
    <3> QED BY <1>5, <3>3, <3>5, <3>6, <3>7 DEF ServeCreate, KeysInv, CopyIsShown, theSecret
  <2> QED BY <1>5, <2>2, <2>3 DEF ServeCreate
<1>6. CASE CreateLands
  <2>1. minting \in ApiKeyCreate /\ minting' = None
    BY <1>6 DEF CreateLands, KeysInv, KeysTypeOK
  <2>2. CASE minting.at = "done"
    <3>1. minting.id \in KeyIds
      BY <1>6, <2>2 DEF CreateLands, KeysInv
    <3>2. createdKey' \in SecretBox /\ (~createdKey'.overtook => copying = {}) /\ ~createdKey'.copied
      <4>1. createdKey' = [id |-> minting.id, reveal |-> FALSE, copied |-> FALSE, overtook |-> copying # {}]
        BY <1>6, <2>2 DEF CreateLands, MarkOfANewKey
      <4> DEFINE over == copying # {}
      <4>2. over \in BOOLEAN
        OBVIOUS
      <4>3. (~over => copying = {}) /\ createdKey' = [id |-> minting.id, reveal |-> FALSE, copied |-> FALSE, overtook |-> over]
        BY <4>1
      <4> HIDE DEF over
      <4> QED BY <3>1, <4>2, <4>3 DEF SecretBox
    <3>3. /\ keysQ' \in Query(ApiKeyList) /\ (keysQ'.ask = "asked" \/ lostKey')
          /\ lostKey' \in BOOLEAN
      <4>1. keysQ' \in {keysQ, Asked(keysQ)} /\ lostKey' = (lostKey \/ keysQ'.ask = "idle")
        BY <1>6, <2>2 DEF CreateLands, Reread
      <4>2. keysQ' \in Query(ApiKeyList)
        BY <4>1, AskedIs DEF KeysInv, KeysTypeOK
      <4> QED BY <4>1, <4>2 DEF Query, KeysInv, KeysTypeOK
    <3>4. keyForm' \in KeyForms
      BY <1>6, <2>2, BlankIsForm DEF CreateLands
    <3> QED BY <1>6, <2>1, <3>2, <3>3, <3>4 DEF CreateLands, KeysInv, KeysTypeOK, KeysAreListed, CopyIsShown, theKeys
  <2>3. CASE minting.at # "done"
    BY <1>6, <2>1, <2>3 DEF CreateLands, KeysInv, KeysTypeOK, KeysAreListed, CopyIsShown, theKeys, Usable
  <2> QED BY <2>2, <2>3
<1>7. CASE DismissSecret
  BY <1>7 DEF DismissSecret, KeysInv, KeysTypeOK, KeysAreListed, CopyIsShown, theKeys, Usable
<1>8. CASE RevealSecret
  <2>1. /\ createdKey' \in SecretBox /\ createdKey'.id = createdKey.id
        /\ createdKey'.copied = createdKey.copied /\ createdKey'.overtook = createdKey.overtook
    BY <1>8 DEF RevealSecret, KeysInv, KeysTypeOK, SecretBox
  <2> QED BY <1>8, <2>1 DEF RevealSecret, KeysInv, KeysTypeOK, KeysAreListed, CopyIsShown, theKeys, Usable
<1>9. CASE CopyKey
  <2>1. createdKey.id \in KeyIds
    BY <1>9 DEF CopyKey, KeysInv, KeysTypeOK, SecretBox
  <2> QED BY <1>1, <1>9, <2>1 DEF CopyKey, KeysInv, KeysTypeOK, KeysAreListed, CopyIsShown, theKeys, Usable
<1>10. ASSUME NEW k \in KeyIds, CopyEnds(k) PROVE KeysInv'
  <2>1. createdKey' # None =>
            /\ createdKey # None /\ createdKey' \in SecretBox
            /\ createdKey'.id = createdKey.id /\ createdKey'.overtook = createdKey.overtook
            /\ clipboard' = k \/ (clipboard' = clipboard /\ createdKey'.copied = createdKey.copied)
    BY <1>10 DEF CopyEnds, KeysInv, KeysTypeOK, SecretBox
  <2>2. k \in copying /\ copying' \subseteq copying /\ clipboard' \in {k, clipboard}
    BY <1>10 DEF CopyEnds
  <2>3. KeysTypeOK'
    BY <1>10, <2>1, <2>2 DEF CopyEnds, KeysInv, KeysTypeOK, theKeys
  <2>4. CopyIsShown'
    BY <2>1, <2>2 DEF KeysInv, CopyIsShown
  <2> QED BY <1>10, <2>3, <2>4 DEF CopyEnds, KeysInv, KeysAreListed, theKeys, Usable
<1>11. ASSUME NEW k \in KeyIds, AskRevoke(k) PROVE KeysInv'
  BY <1>11 DEF AskRevoke, KeysInv, KeysTypeOK, KeysAreListed, CopyIsShown, theKeys, theSecret, Usable
<1>12. CASE AnswerRevoke
  <2>1. revoking' = revoking \/ (revoking' \in Revocation /\ revoking'.at = "sent")
    BY <1>12 DEF AnswerRevoke, KeysInv, KeysTypeOK, Revocation
  <2>2. KeysTypeOK'
    BY <1>1, <1>12, <2>1 DEF AnswerRevoke, KeysInv, KeysTypeOK, theKeys, theSecret
  <2>3. KeysAreListed'
    BY <1>12, <2>1 DEF AnswerRevoke, KeysInv, KeysAreListed, theKeys, Usable
  <2> QED BY <1>12, <2>2, <2>3 DEF AnswerRevoke, KeysInv, CopyIsShown, theKeys, theSecret
<1>13. CASE ServeRevoke
  <2>1. revoking \in Revocation
    BY <1>13 DEF ServeRevoke, KeysInv, KeysTypeOK
  <2>2. CASE revoking' = [revoking EXCEPT !.at = "failed"] /\ UNCHANGED theKeys
    <3>1. revoking' \in Revocation /\ revoking'.at = "failed"
      BY <2>1, <2>2 DEF Revocation
    <3> QED BY <1>13, <2>2, <3>1 DEF ServeRevoke, KeysInv, KeysTypeOK, KeysAreListed, CopyIsShown, theKeys, theSecret, Usable
  <2>3. CASE /\ keysAt' = [keysAt EXCEPT ![revoking.id] = None] /\ UNCHANGED issued
             /\ \/ revoking' = [revoking EXCEPT !.at = "done"] /\ UNCHANGED lostKey
                \/ revoking' = [revoking EXCEPT !.at = "failed"] /\ lostKey' = TRUE
    <3>1. keysAt' \in ApiKeyList
      BY <2>3 DEF KeysInv, KeysTypeOK, ApiKeyList
    <3>2. /\ revoking' \in Revocation
          /\ revoking'.at = "done" \/ lostKey'
          /\ lostKey' \in BOOLEAN
      BY <2>1, <2>3 DEF KeysInv, KeysTypeOK, Revocation
    <3>3. revoking' # None
      BY <3>2, NoneIsNoCall
    <3>4. KeysTypeOK'
      BY <1>13, <2>3, <3>1, <3>2 DEF ServeRevoke, KeysInv, KeysTypeOK, theSecret
    <3>5. KeysAreListed'
      BY <3>2, <3>3 DEF KeysAreListed
    <3> QED BY <1>13, <2>3, <3>4, <3>5 DEF ServeRevoke, KeysInv, CopyIsShown, theSecret
  <2> QED BY <1>13, <2>2, <2>3 DEF ServeRevoke
<1>14. CASE UNCHANGED keyVars
  BY <1>14 DEF keyVars, KeysInv, KeysTypeOK, KeysAreListed, CopyIsShown, theKeys, theSecret, Usable
<1> QED BY <1>2, <1>3, <1>4, <1>5, <1>6, <1>7, <1>8, <1>9, <1>10, <1>11, <1>12, <1>13, <1>14 DEF KeysNext

\* The invariant of the keys holds in every state.
LEMMA KeysInvHolds == KeysSpec => []KeysInv
BY KeysStartSound, KeysStaySound, PTL DEF KeysSpec

\* Every variable of the tab keeps its type.
THEOREM KeysTypeCorrect == KeysSpec => []KeysTypeOK
<1>1. KeysInv => KeysTypeOK
  BY DEF KeysInv
<1> QED BY <1>1, KeysInvHolds, PTL

\* The keys listed are those of the server, whatever order the requests and the reads of the
\* list end in, unless the answer to one was lost or came during the first read of the
\* list (ApiKeysTab.tsx:63 and 72).
THEOREM KeysAreCaughtUp == KeysSpec => []KeysCatchUp
<1>1. KeysInv => KeysCatchUp
  BY DEF KeysInv, KeysAreListed, KeysCatchUp
<1> QED BY <1>1, KeysInvHolds, PTL

\* A secret is marked as copied when the clipboard has it, or when it came up over a copy
\* that was under way (ApiKeysTab.tsx:105).
THEOREM CopiesAreTrue == KeysSpec => []CopiedIsTrue
<1>1. KeysInv => CopiedIsTrue
  BY DEF KeysInv, CopyIsShown, CopiedIsTrue
<1> QED BY <1>1, KeysInvHolds, PTL

(***************************************************************************)
(* The rules of a service.  Unless an answer was lost, a read that has     *)
(* ended agrees with the server on the webhooks there are, until a save    *)
(* has succeeded whose answer was not heard yet.                           *)
(***************************************************************************)
RulesAreListed ==
    ~ruleLost /\ Usable(rulesSeen) /\ rulesSeen.ask = "idle" /\ (ruleSave # None => ruleSave.at # "done")
    => \A w \in hooksNow : rulesSeen.data[w] = rulesAt[w]

RulesInv == EditorTypeOK /\ RulesAreListed

\* The editor opens before its rules are read.
LEMMA RulesStartSound == EditorInit => RulesInv
<1> SUFFICES ASSUME EditorInit PROVE RulesInv
  OBVIOUS
<1>1. /\ rulesSeen \in Query(RuleMaps) /\ rulesSeen.data = None
      /\ hooksSeen \in Query(SUBSET Hooks)
  BY FirstAskIs DEF EditorInit
<1>2. 0 \in 0..MaxRuleSaves
  BY DefaultIsRule
<1> QED BY <1>1, <1>2 DEF EditorInit, RulesInv, EditorTypeOK, RulesAreListed, Usable

\* No edit, save or read of the editor breaks its invariant.
LEMMA RulesStaySound ==
    ASSUME RulesInv, [EditorNext]_ruleVars
    PROVE  RulesInv'
<1> USE DEF RulesInv
<1>1. saved \in RuleMaps /\ ruleDraft \in RuleMaps
  BY DEF EditorTypeOK, saved, ruleDraft, RuleMaps, Query
<1>2. CASE HooksSeenLand
  <2>1. hooksSeen' \in Query(SUBSET Hooks)
    BY <1>2, LandedIs, FailedIs DEF HooksSeenLand, EditorTypeOK
  <2> QED BY <1>2, <2>1 DEF HooksSeenLand, EditorTypeOK, RulesAreListed, ruleCalls, Usable
<1>3. CASE RulesSeenLand
  <2>1. /\ rulesSeen' \in Query(RuleMaps)
        /\ rulesSeen'.data = rulesAt \/ ~Usable(rulesSeen)'
    BY <1>3, LandedIs, FailedIs DEF RulesSeenLand, EditorTypeOK, Usable
  <2> QED BY <1>3, <2>1 DEF RulesSeenLand, KeptOver, EditorTypeOK, RulesAreListed, ruleCalls
<1>4. CASE RulesRetry \/ EditorReopens
  <2>1. /\ hooksSeen' \in Query(SUBSET Hooks)
        /\ rulesSeen' \in Query(RuleMaps) /\ rulesSeen'.ask = "asked"
    BY <1>4, AskedIs DEF RulesRetry, EditorReopens, EditorTypeOK
  <2> QED BY <1>4, <2>1 DEF RulesRetry, EditorReopens, EditorTypeOK, RulesAreListed, ruleCalls
<1>5. ASSUME NEW w \in Hooks, toggle(w) \/ patch(w)
      PROVE  RulesInv'
  <2>1. edited' \in RuleMaps
    BY <1>1, <1>5, DefaultIsRule DEF toggle, patch, RuleMaps
  <2> QED BY <1>5, <2>1 DEF toggle, patch, EditorTypeOK, RulesAreListed, ruleReads, ruleCalls, Usable
<1>6. CASE Reset
  BY <1>6 DEF Reset, EditorTypeOK, RulesAreListed, ruleReads, ruleCalls, Usable
<1>7. CASE SubmitRules
  <2>1. ruleSave' \in RuleSaves /\ ruleSave = None
    BY <1>1, <1>7 DEF SubmitRules, RuleSaves
  <2>2. ruleSaves' \in 0..MaxRuleSaves
    BY <1>7, DefaultIsRule DEF SubmitRules, EditorTypeOK
  <2> QED BY <1>7, <2>1, <2>2 DEF SubmitRules, EditorTypeOK, RulesAreListed, ruleReads, Usable
<1>8. CASE ServeRules
  <2>1. ruleSave \in RuleSaves /\ ruleSave.at = "sent"
    BY <1>8 DEF ServeRules, EditorTypeOK
  <2>2. CASE ruleSave' = [ruleSave EXCEPT !.at = "failed"] /\ UNCHANGED <<rulesAt, ruleLost>>
    <3>1. ruleSave' \in RuleSaves
      BY <2>1, <2>2 DEF RuleSaves
    <3> QED BY <1>8, <2>1, <2>2, <3>1 DEF ServeRules, EditorTypeOK, RulesAreListed, ruleReads, Usable
  <2>3. CASE /\ rulesAt' = ruleSave.rules
             /\ \/ ruleSave' = [ruleSave EXCEPT !.at = "done"] /\ UNCHANGED ruleLost
                \/ ruleSave' = [ruleSave EXCEPT !.at = "failed"] /\ ruleLost' = TRUE
    <3>1. /\ ruleSave' \in RuleSaves /\ rulesAt' \in RuleMaps /\ ruleLost' \in BOOLEAN
          /\ ruleSave'.at = "done" \/ ruleLost'
      BY <2>1, <2>3 DEF RuleSaves, EditorTypeOK
    <3>2. ruleSave' # None
      BY <3>1, NoneIsNoSave
    <3> QED BY <1>8, <3>1, <3>2 DEF ServeRules, EditorTypeOK, RulesAreListed, ruleReads
  <2> QED BY <1>8, <2>2, <2>3 DEF ServeRules
<1>9. CASE RulesSaved
  <2>1. rulesSeen' \in Query(RuleMaps) /\ rulesSeen'.ask = "asked"
    BY <1>9, AskedIs DEF RulesSaved, ReadAgain, EditorTypeOK
  <2>2. ruleSave' \in RuleSaves
    BY <1>9 DEF RulesSaved, EditorTypeOK, RuleSaves
  <2> QED BY <1>9, <2>1, <2>2 DEF RulesSaved, EditorTypeOK, RulesAreListed
<1>10. CASE RulesSettled
  BY <1>10 DEF RulesSettled, EditorTypeOK, RulesAreListed, ruleReads, Usable
<1>11. ASSUME NEW w \in Hooks, HookGoes(w)
       PROVE  RulesInv'
  <2>1. rulesAt' \in RuleMaps /\ \A v \in hooksNow' : rulesAt'[v] = rulesAt[v]
    BY <1>11 DEF HookGoes, EditorTypeOK, RuleMaps
  <2> QED BY <1>11, <2>1 DEF HookGoes, EditorTypeOK, RulesAreListed, ruleReads, ruleCalls, Usable
<1>12. CASE UNCHANGED ruleVars
  BY <1>12 DEF ruleVars, EditorTypeOK, RulesAreListed, ruleReads, ruleCalls, Usable
<1> QED BY <1>2, <1>3, <1>4, <1>5, <1>6, <1>7, <1>8, <1>9, <1>10, <1>11, <1>12 DEF EditorNext

\* The invariant of the rules holds in every state.
LEMMA RulesInvHolds == EditorSpec => []RulesInv
BY RulesStartSound, RulesStaySound, PTL DEF EditorSpec

\* Every variable of the editor keeps its type.
THEOREM EditorTypeCorrect == EditorSpec => []EditorTypeOK
<1>1. RulesInv => EditorTypeOK
  BY DEF RulesInv
<1> QED BY <1>1, RulesInvHolds, PTL

\* When nothing is edited or under way, the rules shown are those of the server
\* (AlertsEditor.tsx:111-114).
THEOREM RulesAreCaughtUp == EditorSpec => []RulesCatchUp
<1>1. RulesInv => RulesCatchUp
  BY DEF RulesInv, RulesAreListed, RulesCatchUp, EditorShows, ruleDraft, saved, Usable
<1> QED BY <1>1, RulesInvHolds, PTL

KeepsTheEdit == edited # None /\ rulesSeen.ask = "asked" /\ rulesSeen'.ask = "idle" => edited' = edited

\* A read that lands in the middle of an edit leaves it alone (AlertsEditor.tsx:102-104).
THEOREM ReadsKeepTheEdit == EditorSpec => ReadKeepsTheEdit
<1>1. RulesInv /\ [EditorNext]_ruleVars => [KeepsTheEdit]_ruleVars
  <2> SUFFICES ASSUME RulesInv, EditorNext PROVE KeepsTheEdit
    OBVIOUS
  <2>1. Asked(rulesSeen).ask = "asked"
    BY AskedIs DEF RulesInv, EditorTypeOK
  <2>2. CASE RulesSeenLand
    BY <2>2 DEF RulesSeenLand, KeptOver, KeepsTheEdit
  <2>3. CASE ~RulesSeenLand
    <3>1. rulesSeen' = rulesSeen \/ rulesSeen' = Asked(rulesSeen)
      BY <2>3 DEF EditorNext, HooksSeenLand, RulesRetry, Reset, SubmitRules, ServeRules, RulesSaved,
                  RulesSettled, EditorReopens, toggle, patch, HookGoes, ruleReads, ReadAgain
    <3> QED BY <2>1, <3>1 DEF KeepsTheEdit
  <2> QED BY <2>2, <2>3
<1>2. ([][KeepsTheEdit]_ruleVars) <=> ReadKeepsTheEdit
  BY DEF KeepsTheEdit, ReadKeepsTheEdit
<1> QED BY <1>1, <1>2, RulesInvHolds, PTL DEF EditorSpec

(***************************************************************************)
(* The tags, environments and domains.  Unless they missed an answer, the  *)
(* lists of the tags and of the services are of the server until a write   *)
(* has succeeded that was not heard of yet; the server uses no name that   *)
(* the lists of uses, once read, do not have; and a renaming under way is  *)
(* of the open row.                                                        *)
(***************************************************************************)
CountsAreListed ==
    ~domainsTab /\ ~lostWrite /\ (\A w \in writes : w.at # "done")
    => /\ labelsQ.ask = "idle" /\ Usable(labelsQ) => labelsQ.data = labelsAt
       /\ usersQ.ask = "idle" /\ Usable(usersQ) => usersQ.data = usersAt

UsesAreKnown ==
    /\ usersQ.data # None => usersAt \subseteq usersQ.data
    /\ namedQ.data # None => namedAt \subseteq namedQ.data

RenamedIsOpen == \A w \in writes : w.op = "rename" /\ renaming # None => renaming.id = w.id

TaxonomyInv == TaxonomyTypeOK /\ CountsAreListed /\ UsesAreKnown /\ RenamedIsOpen

\* The tab opens with nothing written.
LEMMA TaxonomyStartsSound == TaxonomyInit => TaxonomyInv
<1> SUFFICES ASSUME TaxonomyInit PROVE TaxonomyInv
  OBVIOUS
<1>1. /\ labelsQ \in Query(LabelMaps) /\ labelsQ.data = None
      /\ usersQ \in Query(SUBSET LabelIds) /\ usersQ.data = None
      /\ namedQ \in Query(SUBSET LabelIds) /\ namedQ.data = None
  BY FirstAskIs DEF TaxonomyInit
<1>2. 0 \in 0..MaxWrites
  BY TaxonomyAssumption
<1>3. TaxonomyTypeOK
  BY <1>1, <1>2 DEF TaxonomyInit, TaxonomyTypeOK, LabelMaps
<1> QED BY <1>1, <1>3 DEF TaxonomyInit, TaxonomyInv, CountsAreListed, UsesAreKnown, RenamedIsOpen, Usable

\* A write is sent, and the rows stay as they are or a question goes.
LEMMA WriteIsSent ==
    ASSUME TaxonomyInv, NEW op \in {"add", "rename", "drop"}, NEW i \in LabelIds \cup {None},
           NEW name \in LabelNames \cup {None}, Write(op, i, name),
           op = "rename" => renaming # None /\ i = renaming.id,
           UNCHANGED <<theServer, labelsQ, theUses, newName, renaming>>, dropping' \in {dropping, None}
    PROVE  TaxonomyInv'
<1> USE DEF TaxonomyInv
<1> DEFINE sent == [op |-> op, id |-> i, name |-> name, at |-> "sent"]
<1>1. sent \in LabelWrites /\ sent.op = op /\ sent.id = i /\ sent.at = "sent"
  BY DEF LabelWrites
<1>2. writes' = writes \cup {sent} /\ writeCount' \in 0..MaxWrites
  <2>1. writes' = writes \cup {sent}
    BY DEF Write
  <2>2. writeCount' \in 0..MaxWrites
    <3>1. writeCount < MaxWrites /\ writeCount' = writeCount + 1
      BY DEF Write
    <3>2. writeCount \in 0..MaxWrites
      BY DEF TaxonomyTypeOK
    <3> QED BY <3>1, <3>2, TaxonomyAssumption
  <2> QED BY <2>1, <2>2
<1> HIDE DEF sent
<1>3. TaxonomyTypeOK'
  BY <1>1, <1>2 DEF TaxonomyTypeOK, theUses, theServer
<1>4. CountsAreListed' /\ UsesAreKnown' /\ RenamedIsOpen'
  BY <1>1, <1>2 DEF CountsAreListed, UsesAreKnown, RenamedIsOpen, theUses, theServer, Usable
<1> QED BY <1>3, <1>4

\* No write, read or question of the tab breaks its invariant.
LEMMA TaxonomyStaysSound ==
    ASSUME TaxonomyInv, [TaxonomyNext]_taxonomyVars
    PROVE  TaxonomyInv'
<1> USE DEF TaxonomyInv
<1> DEFINE Rest == CountsAreListed' /\ UsesAreKnown' /\ RenamedIsOpen'
<1>1. \A i \in LabelsListed : labelsQ.data[i] \in LabelNames
  BY DEF LabelsListed, TaxonomyTypeOK, Query, LabelMaps
<1>2. CASE LabelsLand
  <2>1. /\ labelsQ' \in Query(LabelMaps)
        /\ labelsQ'.data = labelsAt \/ ~Usable(labelsQ)'
    BY <1>2, LandedIs, FailedIs, ZenonT(90) DEF LabelsLand, TaxonomyTypeOK, Usable
  <2>2. TaxonomyTypeOK'
    BY <1>2, <2>1 DEF LabelsLand, TaxonomyTypeOK, theUses, theServer, theRows
  <2>3. Rest
    BY <1>2, <2>1 DEF LabelsLand, CountsAreListed, UsesAreKnown, RenamedIsOpen, theUses, theServer, theRows, Usable
  <2> QED BY <2>2, <2>3
<1>3. CASE UsersLand
  <2>1. /\ usersQ \in Query(SUBSET LabelIds) /\ usersAt \in SUBSET LabelIds
        /\ namedQ \in Query(SUBSET LabelIds) /\ namedAt \in SUBSET LabelIds
    BY DEF TaxonomyTypeOK
  <2>2. /\ {Landed(usersAt), Failed(usersQ), Landed(namedAt), Failed(namedQ)} \subseteq Query(SUBSET LabelIds)
        /\ Landed(usersAt).data = usersAt /\ Landed(namedAt).data = namedAt
        /\ Failed(usersQ).data = usersQ.data /\ Failed(namedQ).data = namedQ.data
        /\ ~Usable(Failed(usersQ))
    <3>1. /\ Landed(usersAt) \in Query(SUBSET LabelIds) /\ Landed(usersAt).data = usersAt
          /\ Landed(namedAt) \in Query(SUBSET LabelIds) /\ Landed(namedAt).data = namedAt
      BY <2>1, LandedIs
    <3>2. /\ Failed(usersQ) \in Query(SUBSET LabelIds) /\ Failed(usersQ).data = usersQ.data
          /\ Failed(namedQ) \in Query(SUBSET LabelIds) /\ Failed(namedQ).data = namedQ.data
          /\ ~Usable(Failed(usersQ))
      BY <2>1, FailedIs
    <3> QED BY <3>1, <3>2
  <2>3. CASE usersQ' \in {Landed(usersAt), Failed(usersQ)} /\ UNCHANGED namedQ
    <3>1. /\ usersQ' \in Query(SUBSET LabelIds)
          /\ usersQ'.data = usersAt \/ (~Usable(usersQ') /\ usersQ'.data = usersQ.data)
      <4>1. usersQ' = Landed(usersAt) \/ usersQ' = Failed(usersQ)
        BY <2>3
      <4> QED BY <2>2, <4>1
    <3>2. TaxonomyTypeOK'
      BY <1>3, <2>3, <3>1 DEF UsersLand, TaxonomyTypeOK, theUses, theServer, theRows
    <3>3. Rest
      BY <1>3, <2>3, <3>1 DEF UsersLand, CountsAreListed, UsesAreKnown, RenamedIsOpen, theUses, theServer, theRows, Usable
    <3> QED BY <3>2, <3>3
  <2>4. CASE namedQ' \in {Landed(namedAt), Failed(namedQ)} /\ UNCHANGED usersQ
    <3>1. /\ namedQ' \in Query(SUBSET LabelIds)
          /\ namedQ'.data = namedAt \/ namedQ'.data = namedQ.data
      <4>1. namedQ' = Landed(namedAt) \/ namedQ' = Failed(namedQ)
        BY <2>4
      <4> QED BY <2>2, <4>1
    <3>2. TaxonomyTypeOK'
      BY <1>3, <2>4, <3>1 DEF UsersLand, TaxonomyTypeOK, theUses, theServer, theRows
    <3>3. Rest
      BY <1>3, <2>4, <3>1 DEF UsersLand, CountsAreListed, UsesAreKnown, RenamedIsOpen, theUses, theServer, theRows, Usable
    <3> QED BY <3>2, <3>3
  <2> QED BY <1>3, <2>3, <2>4 DEF UsersLand
<1>4. CASE TaxonomyRetry
  <2>1. /\ labelsQ' \in Query(LabelMaps) /\ (labelsQ' = labelsQ \/ labelsQ'.ask = "asked")
        /\ usersQ' \in Query(SUBSET LabelIds) /\ (usersQ' = usersQ \/ usersQ'.ask = "asked")
        /\ usersQ'.data = usersQ.data
        /\ namedQ' \in Query(SUBSET LabelIds) /\ namedQ'.data = namedQ.data
    BY <1>4, AskedIs DEF TaxonomyRetry, TaxonomyTypeOK, theUses
  <2>2. TaxonomyTypeOK'
    BY <1>4, <2>1 DEF TaxonomyRetry, TaxonomyTypeOK, theUses, theServer, theRows
  <2>3. Rest
    BY <1>4, <2>1 DEF TaxonomyRetry, CountsAreListed, UsesAreKnown, RenamedIsOpen, theUses, theServer, theRows, Usable
  <2> QED BY <2>2, <2>3
<1>5. CASE TypeName
  BY <1>5 DEF TypeName, TaxonomyTypeOK, CountsAreListed, UsesAreKnown, RenamedIsOpen, theUses, theServer, Usable
<1>6. CASE AddLabel
  <2>1. newName \in LabelNames
    BY <1>6 DEF AddLabel, TaxonomyTypeOK
  <2> QED BY <1>6, <2>1, WriteIsSent DEF AddLabel, theRows
<1>7. CASE SaveRename
  <2>1. renaming.id \in LabelIds /\ renaming.name \in LabelNames
    BY <1>7 DEF SaveRename, TaxonomyTypeOK
  <2> QED BY <1>7, <2>1, WriteIsSent DEF SaveRename, theRows
<1>8. CASE AnswerDrop
  <2>1. dropping.id \in LabelIds /\ dropping' = None
    BY <1>8 DEF AnswerDrop, TaxonomyTypeOK
  <2>2. CASE Write("drop", dropping.id, None)
    BY <1>8, <2>1, <2>2, WriteIsSent DEF AnswerDrop
  <2>3. CASE UNCHANGED <<writes, writeCount>>
    BY <1>8, <2>1, <2>3 DEF AnswerDrop, TaxonomyTypeOK, CountsAreListed, UsesAreKnown, RenamedIsOpen, theUses, theServer, Usable
  <2> QED BY <1>8, <2>2, <2>3 DEF AnswerDrop
<1>9. CASE EditRename
  <2>1. /\ renaming' \in [id : LabelIds, name : LabelNames] \cup {None}
        /\ renaming' # None => renaming # None /\ renaming'.id = renaming.id
    BY <1>9 DEF EditRename, TaxonomyTypeOK
  <2>2. TaxonomyTypeOK'
    BY <1>9, <2>1 DEF EditRename, TaxonomyTypeOK, theUses, theServer
  <2>3. Rest
    BY <1>9, <2>1 DEF EditRename, CountsAreListed, UsesAreKnown, RenamedIsOpen, theUses, theServer, Usable
  <2> QED BY <2>2, <2>3
<1>10. ASSUME NEW i \in LabelIds, StartRename(i)
       PROVE  TaxonomyInv'
  <2>1. renaming' \in [id : LabelIds, name : LabelNames]
    BY <1>1, <1>10 DEF StartRename, LabelsShown
  <2>2. \A w \in writes : w.op # "rename"
    BY <1>10 DEF StartRename, PencilWorks, Waiting
  <2>3. TaxonomyTypeOK'
    BY <1>10, <2>1 DEF StartRename, TaxonomyTypeOK, theUses, theServer
  <2>4. Rest
    BY <1>10, <2>2 DEF StartRename, CountsAreListed, UsesAreKnown, RenamedIsOpen, theUses, theServer, Usable
  <2> QED BY <2>3, <2>4
<1>11. ASSUME NEW i \in LabelIds, AskDrop(i)
       PROVE  TaxonomyInv'
  <2>1. dropping' \in [id : LabelIds, says : {"unknown", "in use", "unused"}]
    BY <1>11 DEF AskDrop, UsageTold
  <2>2. TaxonomyTypeOK'
    BY <1>11, <2>1 DEF AskDrop, TaxonomyTypeOK, theUses, theServer
  <2>3. Rest
    BY <1>11 DEF AskDrop, CountsAreListed, UsesAreKnown, RenamedIsOpen, theUses, theServer, Usable
  <2> QED BY <2>2, <2>3
<1>12. ASSUME NEW w \in writes, ServeWrite(w)
       PROVE  TaxonomyInv'
  <2> DEFINE answered(at) == [w EXCEPT !.at = at]
  <2>1. w \in LabelWrites /\ w.at = "sent"
    BY <1>12 DEF ServeWrite, TaxonomyTypeOK
  <2>2. \A at \in {"done", "failed"} : /\ answered(at) \in LabelWrites /\ answered(at).at = at
                                       /\ answered(at).op = w.op /\ answered(at).id = w.id
    BY <2>1 DEF LabelWrites
  <2>3. PICK at \in {"done", "failed"} :
           /\ writes' = (writes \ {w}) \cup {answered(at)}
           /\ \/ UNCHANGED <<labelsAt, usersAt, namedAt, lostWrite>> /\ at = "failed"
              \/ /\ labelsAt' \in LabelsAfter(w)
                 /\ usersAt' \subseteq usersAt /\ namedAt' \subseteq namedAt
                 /\ (at = "done" /\ UNCHANGED lostWrite) \/ lostWrite' = TRUE
    BY <1>12 DEF ServeWrite
  <2>4. LabelsAfter(w) \subseteq LabelMaps
    <3>1. \A i : [labelsAt EXCEPT ![i] = w.name] \in LabelMaps /\ [labelsAt EXCEPT ![i] = None] \in LabelMaps
      BY <2>1 DEF LabelWrites, LabelMaps, TaxonomyTypeOK
    <3> QED BY <2>1, <3>1, ZenonT(90) DEF LabelsAfter, LabelWrites
  <2>5. /\ labelsAt' \in LabelMaps /\ usersAt' \subseteq usersAt /\ namedAt' \subseteq namedAt /\ lostWrite' \in BOOLEAN
        /\ UNCHANGED <<labelsAt, usersAt, namedAt, lostWrite>> \/ lostWrite' \/ at = "done"
    BY <2>3, <2>4 DEF TaxonomyTypeOK
  <2> HIDE DEF answered
  <2>6. TaxonomyTypeOK'
    BY <1>12, <2>2, <2>3, <2>5 DEF ServeWrite, TaxonomyTypeOK, theRows, theUses
  <2>7. CountsAreListed'
    BY <1>12, <2>1, <2>2, <2>3, <2>5 DEF ServeWrite, CountsAreListed, theUses, Usable
  <2>8. UsesAreKnown' /\ RenamedIsOpen'
    BY <1>12, <2>2, <2>3, <2>5 DEF ServeWrite, UsesAreKnown, RenamedIsOpen, theRows, theUses
  <2> QED BY <2>6, <2>7, <2>8
<1>13. ASSUME NEW w \in writes, WriteLands(w)
       PROVE  TaxonomyInv'
  <2>1. /\ labelsQ' \in Query(LabelMaps) /\ usersQ' \in Query(SUBSET LabelIds)
        /\ labelsQ' = labelsQ \/ labelsQ'.ask = "asked"
        /\ usersQ' = usersQ \/ usersQ'.ask = "asked"
        /\ usersQ'.data = usersQ.data
        /\ lostWrite' \in BOOLEAN /\ (lostWrite => lostWrite')
        /\ w.at = "done" /\ ~domainsTab => lostWrite' \/ (labelsQ'.ask = "asked" /\ usersQ'.ask = "asked")
    <3>1. labelsQ \in Query(LabelMaps) /\ usersQ \in Query(SUBSET LabelIds) /\ lostWrite \in BOOLEAN
      BY DEF TaxonomyTypeOK
    <3>2. CASE w.at # "done"
      BY <1>13, <3>1, <3>2 DEF WriteLands
    <3>3. CASE w.at = "done"
      <4>1. /\ labelsQ' \in {labelsQ, Asked(labelsQ)} /\ usersQ' \in {usersQ, Asked(usersQ)}
            /\ lostWrite' = (lostWrite \/ labelsQ'.ask = "idle" \/ (~domainsTab /\ usersQ'.ask = "idle"))
        BY <1>13, <3>3 DEF WriteLands, Reread, ReadsUsersAgain
      <4>2. /\ labelsQ' \in Query(LabelMaps) /\ (labelsQ' = labelsQ \/ labelsQ'.ask = "asked")
            /\ usersQ' \in Query(SUBSET LabelIds) /\ (usersQ' = usersQ \/ usersQ'.ask = "asked")
            /\ usersQ'.data = usersQ.data
        BY <3>1, <4>1, AskedIs
      <4>3. labelsQ'.ask \in {"idle", "asked"} /\ usersQ'.ask \in {"idle", "asked"}
        BY <4>2 DEF Query
      <4> QED BY <3>1, <4>1, <4>2, <4>3
    <3> QED BY <3>2, <3>3
  <2>2. /\ writes' = writes \ {w} /\ newName' \in {newName, None} /\ renaming' \in {renaming, None}
    BY <1>13 DEF WriteLands
  <2>3. TaxonomyTypeOK'
    BY <1>13, <2>1, <2>2 DEF WriteLands, TaxonomyTypeOK, theUses, theServer
  <2>4. Rest
    BY <1>13, <2>1, <2>2 DEF WriteLands, CountsAreListed, UsesAreKnown, RenamedIsOpen, theUses, theServer, Usable
  <2> QED BY <2>3, <2>4
<1>14. CASE UNCHANGED taxonomyVars
  BY <1>14 DEF taxonomyVars, theServer, theRows, theUses, TaxonomyTypeOK, CountsAreListed, UsesAreKnown, RenamedIsOpen, Usable
<1> QED BY <1>2, <1>3, <1>4, <1>5, <1>6, <1>7, <1>8, <1>9, <1>10, <1>11, <1>12, <1>13, <1>14 DEF TaxonomyNext

\* The invariant of the labels holds in every state.
LEMMA TaxonomyInvHolds == TaxonomySpec => []TaxonomyInv
BY TaxonomyStartsSound, TaxonomyStaysSound, PTL DEF TaxonomySpec

\* Every variable of the tabs keeps its type.
THEOREM TaxonomyTypeCorrect == TaxonomySpec => []TaxonomyTypeOK
<1>1. TaxonomyInv => TaxonomyTypeOK
  BY DEF TaxonomyInv
<1> QED BY <1>1, TaxonomyInvHolds, PTL

\* At rest the tags, and the services they are counted on, are those of the server, unless
\* an answer was lost or came during the first read of a list (TaxonomyTab.tsx:160).
THEOREM CountsAreCaughtUp == TaxonomySpec => []CountsCatchUp
<1>1. TaxonomyInv => CountsCatchUp
  BY DEF TaxonomyInv, CountsAreListed, CountsCatchUp
<1> QED BY <1>1, TaxonomyInvHolds, PTL

ToldUnused ==
    dropping = None /\ dropping' # None /\ dropping'.says = "unused"
        => dropping'.id \notin usersAt \cup namedAt
ClosesItsOwn ==
    \A w \in writes \ writes' : w.op = "rename" /\ w.at = "done" /\ renaming # None => renaming.id = w.id

\* A deletion is put as harmless only when nothing uses the name, so far as the lists have
\* been read since the last change (TaxonomyTab.tsx:121, DnsTab.tsx:69).
THEOREM UnusedIsToldTrue == TaxonomySpec => UnusedIsTrue
<1>1. TaxonomyInv /\ [TaxonomyNext]_taxonomyVars => [ToldUnused]_taxonomyVars
  <2> SUFFICES ASSUME TaxonomyInv, TaxonomyNext, dropping = None, dropping' # None, dropping'.says = "unused"
               PROVE  dropping'.id \notin usersAt \cup namedAt
    BY DEF ToldUnused
  <2>1. PICK i \in LabelIds : AskDrop(i)
    BY DEF TaxonomyNext, LabelsLand, UsersLand, TaxonomyRetry, TypeName, AddLabel, EditRename, SaveRename,
           AnswerDrop, StartRename, ServeWrite, WriteLands, theRows
  <2>2. dropping'.id = i /\ dropping'.says = UsageTold(i)
    BY <2>1 DEF AskDrop
  <2>3. usersQ.data # None /\ i \notin usersQ.data /\ namedQ.data # None /\ i \notin namedQ.data
    BY <2>2 DEF UsageTold, usageUnknown, usageFailed, dependents, Pending
  <2> QED BY <2>2, <2>3 DEF TaxonomyInv, UsesAreKnown
<1>2. ([][ToldUnused]_taxonomyVars) <=> UnusedIsTrue
  BY DEF ToldUnused, UnusedIsTrue
<1> QED BY <1>1, <1>2, TaxonomyInvHolds, PTL DEF TaxonomySpec

\* The answer to a renaming closes the row it renamed, and no other (TaxonomyTab.tsx:440).
THEOREM RenamesCloseTheirOwn == TaxonomySpec => RenameClosesItsOwn
<1>1. TaxonomyInv => [ClosesItsOwn]_taxonomyVars
  BY DEF TaxonomyInv, RenamedIsOpen, ClosesItsOwn
<1>2. ([][ClosesItsOwn]_taxonomyVars) <=> RenameClosesItsOwn
  BY DEF ClosesItsOwn, RenameClosesItsOwn
<1> QED BY <1>1, <1>2, TaxonomyInvHolds, PTL

(***************************************************************************)
(* Export, restore and reset.  Unless an answer was lost, the lists are of *)
(* the database until a write has succeeded that was not heard of yet; the *)
(* file that is sent is the one whose figures the question gave; and no    *)
(* file made here, saved or about to be, has passwords but under a seal.   *)
(***************************************************************************)
ListsAreOfTheData ==
    ~lostData /\ restoreQ.ask = "idle" /\ Usable(restoreQ) /\ (\A w \in writing : w.at # "done")
    => restoreQ.data = dbAt

SendsWhatWasTold == \A w \in writing : w.kind = "restore" => w.body.told = w.body.backup

NoOpenSecrets(f) == f.holds.secrets => f.sealed \in Phrases
ExportsAreClean ==
    /\ \A f \in disk \ OldFiles : NoOpenSecrets(f)
    /\ \A e \in exporting : e.at = "done" => e.got \in Backup /\ NoOpenSecrets(e.got)

BackupsInv == BackupsTypeOK /\ ListsAreOfTheData /\ SendsWhatWasTold /\ ExportsAreClean

LEMMA DataCallsAreCounted == MaxDataCalls \in Nat
BY BackupsAssumption, Zenon

\* The tab opens with no file made here.
LEMMA BackupsStartSound == BackupsInit => BackupsInv
<1> SUFFICES ASSUME BackupsInit PROVE BackupsInv
  OBVIOUS
<1>1. restoreQ \in Query(BackupExport) /\ restoreQ.data = None
  BY FirstAskIs DEF BackupsInit
<1>2. 0 \in 0..MaxDataCalls
  BY DataCallsAreCounted
<1>3. dbAt \in BackupExport
  BY DEF BackupsInit, BackupExport
<1>4. sealForm \in [shown : BOOLEAN, phrase : Phrases \cup {None}]
  BY DEF BackupsInit
<1>5. BackupsTypeOK
  BY <1>1, <1>2, <1>3, <1>4, BackupsAssumption DEF BackupsInit, BackupsTypeOK
<1>6. ExportsAreClean
  BY DEF BackupsInit, ExportsAreClean
<1> QED BY <1>1, <1>5, <1>6 DEF BackupsInit, BackupsInv, ListsAreOfTheData, SendsWhatWasTold, Usable

\* What a call becomes when it is answered.
LEMMA AnsweredWrite ==
    ASSUME NEW w \in Writes, NEW at \in {"done", "failed"}
    PROVE  /\ [w EXCEPT !.at = at] \in Writes
           /\ [w EXCEPT !.at = at].at = at /\ [w EXCEPT !.at = at].kind = w.kind
           /\ w.kind = "restore" => [w EXCEPT !.at = at].body = w.body
<1>1. CASE w.kind = "restore"
  <2>1. w \in [kind : {"restore"}, body : RestoreRequest, at : {"sent", "done", "failed"}]
    BY <1>1 DEF Writes
  <2>2. [w EXCEPT !.at = at] \in [kind : {"restore"}, body : RestoreRequest, at : {"sent", "done", "failed"}]
        /\ [w EXCEPT !.at = at].at = at /\ [w EXCEPT !.at = at].body = w.body
        /\ [w EXCEPT !.at = at].kind = w.kind
    BY <2>1
  <2> QED BY <2>2 DEF Writes
<1>2. CASE w.kind # "restore"
  <2>1. w \in [kind : {"reset"}, at : {"sent", "done", "failed"}]
    BY <1>2 DEF Writes
  <2>2. [w EXCEPT !.at = at] \in [kind : {"reset"}, at : {"sent", "done", "failed"}]
        /\ [w EXCEPT !.at = at].at = at /\ [w EXCEPT !.at = at].kind = w.kind
    BY <2>1
  <2> QED BY <1>2, <2>2 DEF Writes
<1> QED BY <1>1, <1>2

\* The answer to an export changes only where it is.
LEMMA AnsweredExport ==
    ASSUME NEW e \in Exports, NEW at \in {"done", "failed"}
    PROVE  /\ [e EXCEPT !.at = at] \in Exports
           /\ [e EXCEPT !.at = at].at = at /\ [e EXCEPT !.at = at].got = e.got
BY DEF Exports

\* What a write leaves is a database; it is emptied by a reset, and a restore leaves what
\* its file holds.
LEMMA WrittenIs ==
    ASSUME NEW w \in Writes
    PROVE  /\ WrittenBy(w) \in BackupExport
           /\ w.kind = "reset" => WrittenBy(w).data = "none" /\ WrittenBy(w).secrets = FALSE
           /\ w.kind = "restore" => WrittenBy(w) = w.body.backup.holds
<1>1. CASE w.kind = "reset"
  <2>1. WrittenBy(w) = [data |-> "none", secrets |-> FALSE]
    BY <1>1 DEF WrittenBy
  <2> QED BY <1>1, <2>1 DEF BackupExport
<1>2. CASE w.kind # "reset"
  <2>1. w.body.backup.holds \in BackupExport /\ w.kind = "restore"
    BY <1>2 DEF Writes, RestoreRequest, Backup
  <2> QED BY <1>2, <2>1 DEF WrittenBy
<1> QED BY <1>1, <1>2

\* No export, restore or reset breaks the invariant of the tab.
LEMMA BackupsStaySound ==
    ASSUME BackupsInv, [BackupsNext]_backupVars
    PROVE  BackupsInv'
<1> USE DEF BackupsInv
<1> DEFINE Rest == ListsAreOfTheData' /\ SendsWhatWasTold' /\ ExportsAreClean'
<1>1. DataCall => dataCalls' \in 0..MaxDataCalls
  <2>1. dataCalls \in 0..MaxDataCalls
    BY DEF BackupsTypeOK
  <2> QED BY <2>1, DataCallsAreCounted DEF DataCall
<1>2. CASE DataLands
  <2>1. /\ restoreQ' \in Query(BackupExport)
        /\ restoreQ'.data = dbAt \/ ~Usable(restoreQ)'
    BY <1>2, LandedIs, FailedIs DEF DataLands, BackupsTypeOK, Usable
  <2>2. BackupsTypeOK'
    BY <1>2, <2>1 DEF DataLands, BackupsTypeOK, theData, restoreForm
  <2>3. Rest
    BY <1>2, <2>1 DEF DataLands, ListsAreOfTheData, SendsWhatWasTold, ExportsAreClean, theData
  <2> QED BY <2>2, <2>3
<1>3. CASE ChooseFile
  <2>1. BackupsTypeOK'
    BY <1>1, <1>3 DEF ChooseFile, BackupsTypeOK, theData
  <2>2. Rest
    BY <1>3 DEF ChooseFile, ListsAreOfTheData, SendsWhatWasTold, ExportsAreClean, theData, Usable
  <2> QED BY <2>1, <2>2
<1>4. ASSUME NEW f \in reading, OnFile(f)
      PROVE  BackupsInv'
  <2>1. BackupsTypeOK'
    BY <1>4 DEF OnFile, BackupsTypeOK, theData
  <2>2. Rest
    BY <1>4 DEF OnFile, ListsAreOfTheData, SendsWhatWasTold, ExportsAreClean, theData, Usable
  <2> QED BY <2>1, <2>2
<1>5. CASE CancelRestore \/ TypePassphrase
  <2>1. BackupsTypeOK'
    BY <1>5 DEF CancelRestore, TypePassphrase, BackupsTypeOK, theData
  <2>2. Rest
    BY <1>5 DEF CancelRestore, TypePassphrase, ListsAreOfTheData, SendsWhatWasTold, ExportsAreClean, theData, Usable
  <2> QED BY <2>1, <2>2
<1>6. CASE RequestRestore \/ RequestReset
  <2>1. question' \in DataQuestions
    BY <1>6 DEF RequestRestore, RequestReset, BackupsTypeOK, DataQuestions
  <2>2. BackupsTypeOK'
    BY <1>6, <2>1 DEF RequestRestore, RequestReset, BackupsTypeOK, theData, restoreForm
  <2>3. Rest
    BY <1>6 DEF RequestRestore, RequestReset, ListsAreOfTheData, SendsWhatWasTold, ExportsAreClean, theData, Usable
  <2> QED BY <2>2, <2>3
<1>7. CASE AnswerData
  <2>1. /\ question' = None
        /\ \/ UNCHANGED <<writing, dataCalls>>
           \/ \E sent \in Writes :
                 /\ writing' = writing \cup {sent} /\ sent.at = "sent" /\ DataCall
                 /\ sent.kind = "restore" => sent.body.told = sent.body.backup
    <3>1. CASE DataCall /\ question.kind = "restore"
               /\ writing' = writing \cup {[kind |-> "restore", body |-> SendsWhatWasAsked(question), at |-> "sent"]}
      <4>1. question \in [kind : {"restore"}, backup : Backup, passphrase : Phrases \cup {None}]
        BY <1>7, <3>1 DEF AnswerData, BackupsTypeOK, DataQuestions
      <4>2. SendsWhatWasAsked(question) \in RestoreRequest
            /\ SendsWhatWasAsked(question).told = SendsWhatWasAsked(question).backup
        BY <4>1 DEF SendsWhatWasAsked, RestoreRequest
      <4>3. [kind |-> "restore", body |-> SendsWhatWasAsked(question), at |-> "sent"] \in Writes
        BY <4>2 DEF Writes
      <4> QED BY <1>7, <3>1, <4>2, <4>3 DEF AnswerData
    <3>2. CASE DataCall /\ writing' = writing \cup {[kind |-> "reset", at |-> "sent"]}
      <4>1. [kind |-> "reset", at |-> "sent"] \in Writes
        BY DEF Writes
      <4> QED BY <1>7, <3>2, <4>1 DEF AnswerData
    <3> QED BY <1>7, <3>1, <3>2 DEF AnswerData
  <2>2. BackupsTypeOK'
    BY <1>1, <1>7, <2>1 DEF AnswerData, BackupsTypeOK, theData, restoreForm
  <2>3. Rest
    BY <1>7, <2>1 DEF AnswerData, ListsAreOfTheData, SendsWhatWasTold, ExportsAreClean, theData, Usable
  <2> QED BY <2>2, <2>3
<1>8. CASE ToggleSecure \/ TypeSeal
  <2>1. sealForm' \in [shown : BOOLEAN, phrase : Phrases \cup {None}]
    <3>1. sealForm = [shown |-> sealForm.shown, phrase |-> sealForm.phrase]
          /\ sealForm.shown \in BOOLEAN /\ sealForm.phrase \in Phrases \cup {None}
      BY DEF BackupsTypeOK
    <3>2. \/ sealForm' = [shown |-> ~sealForm.shown, phrase |-> sealForm.phrase]
          \/ \E p \in Phrases \cup {None} : sealForm' = [shown |-> sealForm.shown, phrase |-> p]
      BY <1>8, <3>1 DEF ToggleSecure, TypeSeal
    <3>3. (~sealForm.shown) \in BOOLEAN
      BY <3>1
    <3>4. CASE sealForm' = [shown |-> ~sealForm.shown, phrase |-> sealForm.phrase]
      <4> DEFINE flipped == ~sealForm.shown
      <4> HIDE DEF flipped
      <4>1. flipped \in BOOLEAN /\ sealForm' = [shown |-> flipped, phrase |-> sealForm.phrase]
        BY <3>3, <3>4 DEF flipped
      <4> QED BY <3>1, <4>1
    <3>5. ASSUME NEW p \in Phrases \cup {None}, sealForm' = [shown |-> sealForm.shown, phrase |-> p]
          PROVE  sealForm' \in [shown : BOOLEAN, phrase : Phrases \cup {None}]
      BY <3>1, <3>5
    <3> QED BY <3>2, <3>4, <3>5
  <2>2. BackupsTypeOK'
    BY <1>8, <2>1 DEF ToggleSecure, TypeSeal, BackupsTypeOK, theData, restoreForm
  <2>3. Rest
    BY <1>8 DEF ToggleSecure, TypeSeal, ListsAreOfTheData, SendsWhatWasTold, ExportsAreClean, theData, Usable
  <2> QED BY <2>2, <2>3
<1>9. ASSUME NEW w \in writing, ServeData(w)
      PROVE  BackupsInv'
  <2> DEFINE answered(at) == [w EXCEPT !.at = at]
  <2>1. w \in Writes /\ w.at = "sent"
    BY <1>9 DEF ServeData, BackupsTypeOK
  <2>2. \A at \in {"done", "failed"} : /\ answered(at) \in Writes /\ answered(at).at = at
                                       /\ answered(at).kind = w.kind
                                       /\ w.kind = "restore" => answered(at).body = w.body
    BY <2>1, AnsweredWrite
  <2>3. PICK at \in {"done", "failed"} :
           /\ writing' = (writing \ {w}) \cup {answered(at)}
           /\ \/ UNCHANGED theData
              \/ dbAt' = WrittenBy(w) /\ ((at = "done" /\ UNCHANGED lostData) \/ lostData' = TRUE)
    BY <1>9 DEF ServeData, Moved
  <2>4. dbAt' \in BackupExport /\ lostData' \in BOOLEAN
        /\ (UNCHANGED theData \/ lostData' \/ at = "done")
    BY <2>1, <2>3, WrittenIs DEF BackupsTypeOK, theData
  <2> HIDE DEF answered
  <2>5. BackupsTypeOK'
    BY <1>9, <2>2, <2>3, <2>4 DEF ServeData, BackupsTypeOK, restoreForm
  <2>6. ListsAreOfTheData'
    BY <1>9, <2>1, <2>2, <2>3, <2>4 DEF ServeData, ListsAreOfTheData, theData
  <2>7. SendsWhatWasTold' /\ ExportsAreClean'
    BY <1>9, <2>2, <2>3 DEF ServeData, SendsWhatWasTold, ExportsAreClean
  <2> QED BY <2>5, <2>6, <2>7
<1>10. ASSUME NEW w \in writing, WriteAnswered(w)
       PROVE  BackupsInv'
  <2>1. /\ restoreQ' \in Query(BackupExport) /\ lostData' \in BOOLEAN
        /\ (UNCHANGED <<restoreQ, lostData>> /\ w.at # "done") \/ restoreQ'.ask = "asked" \/ lostData'
    <3>1. CASE w.at = "done"
      <4>1. w.kind \in ReadsAgain
        BY DEF BackupsTypeOK, Writes, ReadsAgain
      <4>2. restoreQ' \in Reread(restoreQ) /\ lostData' = (lostData \/ restoreQ'.ask = "idle")
        BY <1>10, <3>1, <4>1 DEF WriteAnswered
      <4>3. restoreQ' \in Query(BackupExport) /\ restoreQ'.ask \in {"asked", "idle"}
        BY <4>2, AskedIs DEF Reread, BackupsTypeOK, Query
      <4>4. lostData' \in BOOLEAN
        BY <4>2 DEF BackupsTypeOK
      <4> QED BY <4>2, <4>3, <4>4
    <3>2. CASE w.at # "done"
      BY <1>10, <3>2 DEF WriteAnswered, BackupsTypeOK
    <3> QED BY <3>1, <3>2
  <2>2. writing' = writing \ {w} /\ pending' \in {pending, None} /\ passphrase' \in {passphrase, None}
        /\ UNCHANGED <<dbAt, disk, reading, question, sealForm, exporting, dataCalls>>
    BY <1>10 DEF WriteAnswered
  <2>3. BackupsTypeOK'
    BY <2>1, <2>2 DEF BackupsTypeOK
  <2>4. Rest
    BY <2>1, <2>2 DEF ListsAreOfTheData, SendsWhatWasTold, ExportsAreClean, Usable
  <2> QED BY <2>3, <2>4
<1>11. ASSUME NEW kind \in {"plain", "sealed"}, Export(kind)
       PROVE  BackupsInv'
  <2> DEFINE sent == [kind |-> kind, sealed |-> IF kind = "plain" THEN None ELSE sealForm.phrase,
                      got |-> None, at |-> "sent"]
  <2>1. sent \in Exports /\ sent.at = "sent"
    <3>1. sealForm.phrase \in Phrases \cup {None}
      BY DEF BackupsTypeOK
    <3> QED BY <3>1 DEF Exports
  <2>2. exporting' = exporting \cup {sent}
    BY <1>11 DEF Export
  <2> HIDE DEF sent
  <2>3. BackupsTypeOK'
    BY <1>1, <1>11, <2>1, <2>2 DEF Export, BackupsTypeOK, theData, restoreForm
  <2>4. Rest
    BY <1>11, <2>1, <2>2 DEF Export, ListsAreOfTheData, SendsWhatWasTold, ExportsAreClean, theData, Usable
  <2> QED BY <2>3, <2>4
<1>12. ASSUME NEW e \in exporting, ServeExport(e)
       PROVE  BackupsInv'
  <2> DEFINE got == [holds |-> Exported(e.sealed), sealed |-> e.sealed]
             full == [e EXCEPT !.got = got]
  <2>1. e \in Exports
    BY DEF BackupsTypeOK
  <2>2. got \in Backup /\ NoOpenSecrets(got)
    <3>1. dbAt = [data |-> dbAt.data, secrets |-> dbAt.secrets] /\ dbAt.secrets \in BOOLEAN
          /\ dbAt.data \in {"own", "none", "old"}
      BY DEF BackupsTypeOK, BackupExport
    <3> DEFINE kept == dbAt.secrets /\ e.sealed # None
    <3>2. kept \in BOOLEAN /\ (kept => e.sealed # None)
      BY <3>1
    <3>3. Exported(e.sealed) = [data |-> dbAt.data, secrets |-> kept]
      BY <3>1 DEF Exported
    <3> HIDE DEF kept
    <3>4. Exported(e.sealed) \in BackupExport /\ (Exported(e.sealed).secrets => e.sealed # None)
      BY <3>1, <3>2, <3>3 DEF BackupExport
    <3>5. e.sealed \in Phrases \cup {None}
      BY <2>1 DEF Exports
    <3> QED BY <3>4, <3>5 DEF Backup, Seals, NoOpenSecrets
  <2>3. full \in Exports /\ full.got = got
    BY <2>1, <2>2 DEF Exports
  <2> HIDE DEF got, full
  <2>4. PICK new \in Exports :
           /\ exporting' \subseteq exporting \cup {new}
           /\ new.at = "done" => new.got = got
    <3>1. CASE exporting' = Moved(e, "failed", exporting)
      BY <2>1, <3>1, AnsweredExport DEF Moved
    <3>2. CASE exporting' = Moved(full, "done", exporting \ {e})
      BY <2>3, <3>2, AnsweredExport DEF Moved
    <3> QED BY <1>12, <3>1, <3>2 DEF ServeExport, full, got
  <2>5. BackupsTypeOK'
    BY <1>12, <2>4 DEF ServeExport, BackupsTypeOK, theData, restoreForm
  <2>6. Rest
    BY <1>12, <2>2, <2>4 DEF ServeExport, ListsAreOfTheData, SendsWhatWasTold, ExportsAreClean, theData, Usable
  <2> QED BY <2>5, <2>6
<1>13. ASSUME NEW e \in exporting, ExportLands(e)
       PROVE  BackupsInv'
  <2>1. e.at = "done" => e.got \in Backup /\ NoOpenSecrets(e.got)
    BY DEF ExportsAreClean
  <2>2. disk' = disk \/ (e.at = "done" /\ disk' = disk \cup {e.got})
    BY <1>13 DEF ExportLands
  <2>3. sealForm' \in [shown : BOOLEAN, phrase : Phrases \cup {None}]
    BY <1>13 DEF ExportLands, BackupsTypeOK
  <2>4. BackupsTypeOK'
    BY <1>13, <2>1, <2>2, <2>3 DEF ExportLands, BackupsTypeOK, theData, restoreForm
  <2>5. Rest
    BY <1>13, <2>1, <2>2 DEF ExportLands, ListsAreOfTheData, SendsWhatWasTold, ExportsAreClean, theData, Usable
  <2> QED BY <2>4, <2>5
<1>14. CASE UNCHANGED backupVars
  BY <1>14 DEF backupVars, theData, restoreForm, BackupsTypeOK, ListsAreOfTheData, SendsWhatWasTold, ExportsAreClean, Usable
<1> QED BY <1>2, <1>3, <1>4, <1>5, <1>6, <1>7, <1>8, <1>9, <1>10, <1>11, <1>12, <1>13, <1>14 DEF BackupsNext

\* The invariant of the backups holds in every state.
LEMMA BackupsInvHolds == BackupsSpec => []BackupsInv
BY BackupsStartSound, BackupsStaySound, PTL DEF BackupsSpec

\* Every variable of the data tab keeps its type.
THEOREM BackupsTypeCorrect == BackupsSpec => []BackupsTypeOK
<1>1. BackupsInv => BackupsTypeOK
  BY DEF BackupsInv
<1> QED BY <1>1, BackupsInvHolds, PTL

\* At rest the lists are those of the database, after a restore too (RestoreSection.tsx:58-77).
THEOREM RestoresAreCaughtUp == BackupsSpec => []ListsFollowRestore
<1>1. BackupsInv => ListsFollowRestore
  BY DEF BackupsInv, ListsAreOfTheData, ListsFollowRestore
<1> QED BY <1>1, BackupsInvHolds, PTL

\* The file that may be passed on has no passwords in it (backup.py:136-150).
THEOREM PlainFilesAreClean == BackupsSpec => []PlainHasNoSecrets
<1>1. BackupsInv => PlainHasNoSecrets
  BY DEF BackupsInv, ExportsAreClean, NoOpenSecrets, PlainHasNoSecrets
<1> QED BY <1>1, BackupsInvHolds, PTL

ToldWhatCame ==
    dbAt' # dbAt =>
        \E w \in writing : IF w.kind = "reset" THEN dbAt'.data = "none"
                           ELSE dbAt'.data = w.body.told.holds.data
CameSealed ==
    dbAt' # dbAt =>
        \A w \in writing \ writing' : w.kind = "restore" /\ Sealed(w.body.backup)
                                       => w.body.passphrase = w.body.backup.sealed

\* The database changes by a write that was asked for and, when it is a restore, opens its
\* file; no other leaves the requests under way.
LEMMA OnlyWritesReplace ==
    ASSUME BackupsInv, BackupsNext, dbAt' # dbAt
    PROVE  \E w \in writing : /\ dbAt' = WrittenBy(w) /\ (w.kind = "restore" => Opens(w.body))
                              /\ writing \ writing' \subseteq {w}
BY DEF Moved, BackupsNext, DataLands, ChooseFile, CancelRestore, TypePassphrase, RequestRestore, RequestReset, AnswerData,
       ToggleSecure, TypeSeal, OnFile, ServeData, WriteAnswered, Export, ServeExport, ExportLands, theData

\* What is written over is what was asked about, though another file was read meanwhile
\* (RestoreSection.tsx:122-141, DataTab.tsx:38-47).
THEOREM RestoresAreAsTold == BackupsSpec => ReplacedAsTold
<1>1. BackupsInv /\ [BackupsNext]_backupVars => [ToldWhatCame]_backupVars
  <2> SUFFICES ASSUME BackupsInv, BackupsNext, dbAt' # dbAt
               PROVE  \E w \in writing : IF w.kind = "reset" THEN dbAt'.data = "none"
                                         ELSE dbAt'.data = w.body.told.holds.data
    BY DEF ToldWhatCame
  <2>1. PICK w \in writing : dbAt' = WrittenBy(w)
    BY OnlyWritesReplace
  <2>2. w \in Writes /\ w.kind \in {"restore", "reset"}
    BY DEF BackupsInv, BackupsTypeOK, Writes
  <2> QED BY <2>1, <2>2, WrittenIs DEF BackupsInv, SendsWhatWasTold
<1>2. ([][ToldWhatCame]_backupVars) <=> ReplacedAsTold
  BY DEF ToldWhatCame, ReplacedAsTold
<1> QED BY <1>1, <1>2, BackupsInvHolds, PTL DEF BackupsSpec

\* What was sealed comes back only with the phrase it was sealed under; what a file has in
\* clear comes back as it is (backup.py:327-365).
THEOREM SealsAreOpenedByTheirPhrase == BackupsSpec => SealedNeedsItsPhrase
<1>1. BackupsInv /\ [BackupsNext]_backupVars => [CameSealed]_backupVars
  <2> SUFFICES ASSUME BackupsInv, BackupsNext, dbAt' # dbAt,
                      NEW w \in writing \ writing', w.kind = "restore", Sealed(w.body.backup)
               PROVE  w.body.passphrase = w.body.backup.sealed
    BY DEF CameSealed
  <2>1. PICK v \in writing : (v.kind = "restore" => Opens(v.body)) /\ writing \ writing' \subseteq {v}
    BY OnlyWritesReplace
  <2>2. v = w
    BY <2>1
  <2> QED BY <2>1, <2>2 DEF Opens
<1>2. ([][CameSealed]_backupVars) <=> SealedNeedsItsPhrase
  BY DEF CameSealed, SealedNeedsItsPhrase
<1> QED BY <1>1, <1>2, BackupsInvHolds, PTL DEF BackupsSpec

(***************************************************************************)
(* The questions.  The askers whose promise is pending are those that have *)
(* no answer yet, and there is at most one of them, the one the question   *)
(* shown came from.                                                        *)
(***************************************************************************)
Answers == {"never asked", Nobody, "yes", "no"}

OnePending ==
    /\ told \in [Askers -> Answers]
    /\ awaiting = {a \in Askers : told[a] = Nobody}
    /\ awaiting # {} => awaiting = {inQuestion.asker}

\* Nothing is pending before the first question.
LEMMA PendingAtFirst == DialogsInit => OnePending
BY NobodyAssumption DEF DialogsInit, OnePending, Answers

\* The promise sees the pending askers.
LEMMA PendingIsWaiting == OnePending => Promise!Waiting = awaiting
BY DEF OnePending, Promise!Waiting

\* A dialog that leaves with an answer settles the pending promise, or there was none.
LEMMA DismountSettles ==
    ASSUME OnePending, NEW box, NEW answer \in {"yes", "no"}, Dismount(box, answer)
    PROVE  /\ OnePending'
           /\ Promise!Settles(answer) \/ told' = told
           /\ \A a \in Askers : told'[a] # told[a] => a \in awaiting /\ told'[a] = answer
<1>1. CASE "confirm" \in Leaving(box) \cap ToSet(boxStack)
  <2>1. told' = [a \in Askers |-> IF a \in awaiting THEN answer ELSE told[a]] /\ awaiting' = {}
    BY <1>1 DEF Dismount
  <2>2. told' \in [Askers -> Answers]
    BY <2>1 DEF OnePending, Answers
  <2>3. \A a \in Askers : told'[a] # Nobody
    BY <2>1, NobodyAssumption DEF OnePending
  <2>4. OnePending'
    BY <2>1, <2>2, <2>3 DEF OnePending
  <2>5. Promise!Settles(answer) \/ told' = told
    <3>1. CASE awaiting = {}
      <4>1. told' = [a \in Askers |-> told[a]]
        BY <2>1, <3>1
      <4> QED BY <4>1 DEF OnePending
    <3>2. CASE awaiting # {}
      BY <2>1, <3>2, PendingIsWaiting DEF Promise!Settles
    <3> QED BY <3>1, <3>2
  <2>6. \A a \in Askers : told'[a] # told[a] => a \in awaiting /\ told'[a] = answer
    BY <2>1
  <2> QED BY <2>4, <2>5, <2>6
<1>2. CASE "confirm" \notin Leaving(box) \cap ToSet(boxStack)
  <2>1. UNCHANGED thePromise
    BY <1>2 DEF Dismount
  <2> QED BY <2>1 DEF thePromise, OnePending
<1> QED BY <1>1, <1>2

\* A second question answers the first with no.
LEMMA AskingAnswersFirst ==
    ASSUME OnePending, NEW q \in Questions, ConfirmAsk(q)
    PROVE  /\ OnePending'
           /\ Promise!Asks(q.asker)
           /\ \A a \in Askers : told'[a] = "yes" => told[a] = "yes"
<1>1. q.asker \in Askers
  BY DEF Questions
<1>2. /\ told' = [AnswerFirst EXCEPT ![q.asker] = Nobody]
      /\ awaiting' = {q.asker} /\ inQuestion' = q
  BY DEF ConfirmAsk
<1>3. told' = [a \in Askers |-> IF a = q.asker THEN Nobody ELSE IF a \in awaiting THEN "no" ELSE told[a]]
  BY <1>1, <1>2 DEF AnswerFirst
<1>4. told' \in [Askers -> Answers]
  BY <1>3 DEF OnePending, Answers
<1>5. awaiting' = {a \in Askers : told'[a] = Nobody}
  BY <1>1, <1>2, <1>3, NobodyAssumption DEF OnePending
<1>6. OnePending'
  BY <1>2, <1>4, <1>5 DEF OnePending
<1>7. Promise!Asks(q.asker)
  BY <1>3, PendingIsWaiting DEF Promise!Asks
<1>8. \A a \in Askers : told'[a] = "yes" => told[a] = "yes"
  BY <1>3, NobodyAssumption
<1> QED BY <1>6, <1>7, <1>8

\* A click on the button that confirms settles it with yes.
LEMMA ClickSettles ==
    ASSUME OnePending, ClickConfirm
    PROVE  /\ OnePending'
           /\ Promise!Settles("yes") \/ told' = told
           /\ \A a \in Askers : told'[a] # told[a] => a \in awaiting
<1>1. told' = [a \in Askers |-> IF a \in awaiting THEN "yes" ELSE told[a]] /\ awaiting' = {}
  BY DEF ClickConfirm
<1>2. told' \in [Askers -> Answers]
  BY <1>1 DEF OnePending, Answers
<1>3. \A a \in Askers : told'[a] # Nobody
  BY <1>1, NobodyAssumption DEF OnePending
<1>4. OnePending'
  BY <1>1, <1>2, <1>3 DEF OnePending
<1>5. Promise!Settles("yes") \/ told' = told
  <2>1. CASE awaiting = {}
    <3>1. told' = [a \in Askers |-> told[a]]
      BY <1>1, <2>1
    <3> QED BY <3>1 DEF OnePending
  <2>2. CASE awaiting # {}
    BY <1>1, <2>2, PendingIsWaiting DEF Promise!Settles
  <2> QED BY <2>1, <2>2
<1> QED BY <1>1, <1>4, <1>5

\* Everything else leaves the promise alone.
LEMMA OthersLeaveIt ==
    ASSUME OnePending,
           \/ \E box \in {"modal", "drawer"} : OpenBox(box)
           \/ \E back \in BOOLEAN : PressTab(back)
           \/ PressEscape \/ TypeText \/ ReleaseEnter
           \/ UNCHANGED dialogVars
    PROVE  OnePending' /\ told' = told
BY DEF OnePending, OpenBox, PressTab, PressEscape, TypeText, ReleaseEnter, dialogVars, thePromise

(***************************************************************************)
(* The questions implement the promise.                                    *)
(***************************************************************************)
\* Every step keeps OnePending, and is a step of the promise or leaves it alone.
LEMMA EveryStep ==
    ASSUME OnePending, [DialogsNext]_dialogVars
    PROVE  OnePending' /\ [Promise!PromisesNext]_told
<1> DEFINE Kept == OnePending' /\ [Promise!PromisesNext]_told
<1>1. ASSUME NEW box, NEW answer \in {"yes", "no"}, Dismount(box, answer)
      PROVE  Kept
  BY <1>1, DismountSettles DEF Promise!PromisesNext
<1>2. ASSUME NEW box \in Boxes, CloseBox(box)
      PROVE  Kept
  BY <1>1, <1>2 DEF CloseBox
<1>3. ASSUME HearEscape
      PROVE  Kept
  <2>1. CASE Head(hearing) = Top
    <3>1. Dismount(Top, "no")
      BY <1>3, <2>1 DEF HearEscape
    <3> QED BY <1>1, <3>1
  <2>2. CASE Head(hearing) # Top
    BY <1>3, <2>2 DEF HearEscape, thePromise, OnePending
  <2> QED BY <2>1, <2>2
<1>4. ASSUME PressEnter
      PROVE  Kept
  BY <1>1, <1>4 DEF PressEnter
<1>5. ASSUME ClickConfirm
      PROVE  Kept
  BY <1>5, ClickSettles DEF Promise!PromisesNext
<1>6. ASSUME NEW q \in Questions, ConfirmAsk(q)
      PROVE  Kept
  <2>1. q.asker \in Askers
    BY DEF Questions
  <2> QED BY <1>6, <2>1, AskingAnswersFirst DEF Promise!PromisesNext
<1>7. CASE \/ \E box \in {"modal", "drawer"} : OpenBox(box)
           \/ \E back \in BOOLEAN : PressTab(back)
           \/ PressEscape \/ TypeText \/ ReleaseEnter
           \/ UNCHANGED dialogVars
  BY <1>7, OthersLeaveIt
<1> QED BY <1>2, <1>3, <1>4, <1>5, <1>6, <1>7 DEF DialogsNext

\* Every call of confirm() is answered once, and a second call answers the first with
\* no, whatever is opened, closed and pressed over it (ConfirmDialog.tsx:296-297).
THEOREM QuestionsKeepThePromise == DialogsSpec => KeepsThePromise
<1>1. DialogsInit => OnePending /\ Promise!PromisesInit
  BY PendingAtFirst DEF DialogsInit, Promise!PromisesInit
<1>2. OnePending /\ [DialogsNext]_dialogVars => OnePending' /\ [Promise!PromisesNext]_told
  BY EveryStep
<1> QED BY <1>1, <1>2, PTL DEF DialogsSpec, KeepsThePromise, Promise!PromisesSpec

(***************************************************************************)
(* Yes is only said to the question that is shown.                         *)
(***************************************************************************)
Meant ==
    \A a \in Askers : told'[a] = "yes" /\ told[a] # "yes" =>
        /\ inQuestion # Nobody /\ inQuestion.asker = a /\ Top = "confirm"
        /\ (inQuestion.text => typed)
        /\ ~(held /\ held')

\* What closes with no says yes to nobody.
LEMMA NoIsNotYes ==
    ASSUME OnePending, NEW box, Dismount(box, "no")
    PROVE  Meant
BY DismountSettles DEF Meant

\* A step that says yes is a fresh press with the text required.
LEMMA EveryYes ==
    ASSUME OnePending, [DialogsNext]_dialogVars
    PROVE  Meant
<1>1. ASSUME NEW a \in Askers, a \in awaiting
      PROVE  inQuestion.asker = a
  BY <1>1 DEF OnePending
<1>2. ASSUME NEW box \in Boxes, CloseBox(box)
      PROVE  Meant
  BY <1>2, NoIsNotYes DEF CloseBox
<1>3. ASSUME HearEscape
      PROVE  Meant
  <2>1. CASE Head(hearing) = Top
    <3>1. Dismount(Top, "no")
      BY <1>3, <2>1 DEF HearEscape
    <3> QED BY <3>1, NoIsNotYes
  <2>2. CASE Head(hearing) # Top
    BY <1>3, <2>2 DEF HearEscape, thePromise, Meant
  <2> QED BY <2>1, <2>2
<1>4. ASSUME PressEnter
      PROVE  Meant
  <2>1. \A a \in Askers : told'[a] # told[a] => a \in awaiting
    BY <1>4, DismountSettles DEF PressEnter
  <2>2. inQuestion # Nobody /\ (inQuestion.text => typed) /\ ~held /\ Top = "confirm"
    BY <1>4 DEF PressEnter, CanConfirm, FreshEnter
  <2> QED BY <1>1, <2>1, <2>2 DEF Meant
<1>5. ASSUME ClickConfirm
      PROVE  Meant
  <2>1. \A a \in Askers : told'[a] # told[a] => a \in awaiting
    BY <1>5, ClickSettles
  <2>2. inQuestion # Nobody /\ (inQuestion.text => typed) /\ ~held' /\ Top = "confirm"
    BY <1>5 DEF ClickConfirm, CanConfirm
  <2> QED BY <1>1, <2>1, <2>2 DEF Meant
<1>6. ASSUME NEW q \in Questions, ConfirmAsk(q)
      PROVE  Meant
  BY <1>6, AskingAnswersFirst DEF Meant
<1>7. CASE \/ \E box \in {"modal", "drawer"} : OpenBox(box)
           \/ \E back \in BOOLEAN : PressTab(back)
           \/ PressEscape \/ TypeText \/ ReleaseEnter
           \/ UNCHANGED dialogVars
  BY <1>7, OthersLeaveIt DEF Meant
<1> QED BY <1>2, <1>3, <1>4, <1>5, <1>6, <1>7 DEF DialogsNext

\* An asker is only told yes by a fresh press on the question that is shown and is
\* its own, with the text it requires (ConfirmDialog.tsx:93).
THEOREM YesIsAlwaysMeant == DialogsSpec => YesIsMeant
<1>1. DialogsInit => OnePending
  BY PendingAtFirst
<1>2. OnePending /\ [DialogsNext]_dialogVars => OnePending'
  BY EveryStep
<1>3. OnePending /\ [DialogsNext]_dialogVars => [Meant]_dialogVars
  BY EveryYes
<1>4. ([][Meant]_dialogVars) <=> YesIsMeant
  BY DEF Meant, YesIsMeant
<1> QED BY <1>1, <1>2, <1>3, <1>4, PTL DEF DialogsSpec

(***************************************************************************)
(* The stack of dialogs.  No box stands on it twice, and the question is   *)
(* never under another box.                                                *)
(***************************************************************************)
GoodStack(s) ==
    /\ s \in Seq(Boxes)
    /\ \A i, j \in 1..Len(s) : s[i] = s[j] => i = j
    /\ \A i \in 1..Len(s) : s[i] = "confirm" => i = Len(s)

\* A box that is on the stack is at one place of it.
LEMMA PlaceOf ==
    ASSUME NEW s, GoodStack(s), NEW e
    PROVE  e \in ToSet(s) <=> \E k \in 1..Len(s) : s[k] = e
BY DEF ToSet, GoodStack

\* There are three boxes, hence at most three on a stack.
LEMMA AtMostThree ==
    ASSUME NEW s, GoodStack(s)
    PROVE  Len(s) \in 0..3
<1>1. Len(s) \in Nat /\ \A i \in 1..Len(s) : s[i] \in Boxes
  BY DEF GoodStack
<1>2. CASE Len(s) > 3
  <2>1. 1 \in 1..Len(s) /\ 2 \in 1..Len(s) /\ 3 \in 1..Len(s) /\ 4 \in 1..Len(s)
    BY <1>1, <1>2
  <2>2. s[1] \in Boxes /\ s[2] \in Boxes /\ s[3] \in Boxes /\ s[4] \in Boxes
    BY <1>1, <2>1
  <2>3. /\ s[1] # s[2] /\ s[1] # s[3] /\ s[1] # s[4]
        /\ s[2] # s[3] /\ s[2] # s[4] /\ s[3] # s[4]
    BY <2>1 DEF GoodStack
  <2> QED BY <2>2, <2>3 DEF Boxes
<1>3. CASE ~(Len(s) > 3)
  <2>1. PICK n \in Nat : n = Len(s)
    BY <1>1
  <2>2. ~(n > 3) => n \in 0..3
    OBVIOUS
  <2> QED BY <1>3, <2>1, <2>2
<1> QED BY <1>2, <1>3

\* A box on top of a stack without it and without the question.
LEMMA OnIs ==
    ASSUME NEW s, GoodStack(s), NEW e \in Boxes, e \notin ToSet(s), "confirm" \notin ToSet(s)
    PROVE  GoodStack(Append(s, e)) /\ Len(Append(s, e)) = Len(s) + 1
           /\ ToSet(Append(s, e)) = ToSet(s) \cup {e}
<1> DEFINE t == Append(s, e)
<1>1. s \in Seq(Boxes) /\ Len(s) \in Nat
  BY DEF GoodStack
<1>2. /\ t \in Seq(Boxes) /\ Len(t) = Len(s) + 1 /\ t[Len(s) + 1] = e
      /\ \A i \in 1..Len(s) : t[i] = s[i]
  BY <1>1
<1>3. \A i \in 1..Len(s) : s[i] # e /\ s[i] # "confirm"
  BY PlaceOf
<1> HIDE DEF t
<1>4. \A i \in 1..Len(t) : i \in 1..Len(s) \/ i = Len(s) + 1
  BY <1>1, <1>2
<1>5. GoodStack(t)
  BY <1>1, <1>2, <1>3, <1>4 DEF GoodStack
<1>6. ASSUME NEW v
      PROVE  v \in ToSet(t) <=> v \in ToSet(s) \/ v = e
  <2>1. Len(s) + 1 \in 1..Len(t) /\ \A i \in 1..Len(s) : i \in 1..Len(t)
    BY <1>1, <1>2
  <2>2. v \in ToSet(t) <=> \E k \in 1..Len(t) : t[k] = v
    BY <1>5, PlaceOf
  <2>3. v \in ToSet(s) <=> \E k \in 1..Len(s) : s[k] = v
    BY PlaceOf
  <2> QED BY <1>2, <1>4, <2>1, <2>2, <2>3
<1> QED BY <1>2, <1>5, <1>6 DEF t

\* A box goes from its place, and the rest of the stack is joined.
LEMMA BoxGoes ==
    ASSUME NEW s \in Seq(Boxes), GoodStack(s), NEW k \in 1..Len(s)
    PROVE  RemoveFirst(s, s[k]) = SubSeq(s, 1, k - 1) \o SubSeq(s, k + 1, Len(s))
<1> DEFINE I == {i \in 1..Len(s) : s[i] = s[k]}
<1>1. I = {k}
  BY DEF GoodStack
<1>2. Min(I) = k
  <2>1. \E x \in I : \A y \in I : x =< y
    BY <1>1
  <2> QED BY <1>1, <2>1 DEF Min
<1>3. SelectInSeq(s, LAMBDA v : v = s[k]) = k
  BY <1>1, <1>2 DEF SelectInSeq
<1> QED BY <1>3 DEF RemoveFirst, RemoveAt

\* A box off the stack: the others stay, in their order.
LEMMA OffIs ==
    ASSUME NEW s, GoodStack(s), NEW e, e \in ToSet(s)
    PROVE  GoodStack(OffStack(s, e)) /\ Len(OffStack(s, e)) = Len(s) - 1
           /\ ToSet(OffStack(s, e)) = ToSet(s) \ {e}
<1>1. s \in Seq(Boxes) /\ Len(s) \in Nat
  BY DEF GoodStack
<1>2. PICK k \in 1..Len(s) : s[k] = e
  BY PlaceOf
<1> DEFINE t == OffStack(s, e)
           At(i) == IF i < k THEN i ELSE i + 1
<1>3. t = SubSeq(s, 1, k - 1) \o SubSeq(s, k + 1, Len(s))
  <2>1. RemoveFirst(s, s[k]) = SubSeq(s, 1, k - 1) \o SubSeq(s, k + 1, Len(s))
    BY <1>1, BoxGoes
  <2> QED BY <1>2, <2>1 DEF OffStack
<1> DEFINE under == SubSeq(s, 1, k - 1)
           over == SubSeq(s, k + 1, Len(s))
<1>31. /\ under \in Seq(Boxes) /\ Len(under) = k - 1
       /\ \A i \in 1..(k - 1) : under[i] = s[i]
  BY <1>1, <1>2
<1>32. /\ over \in Seq(Boxes) /\ Len(over) = Len(s) - k
       /\ \A i \in 1..(Len(s) - k) : over[i] = s[k + i]
  BY <1>1, <1>2
<1> HIDE DEF under, over
<1>4. t \in Seq(Boxes) /\ Len(t) = Len(s) - 1
  <2>1. t = under \o over
    BY <1>3 DEF under, over
  <2>2. under \o over \in Seq(Boxes) /\ Len(under \o over) = Len(under) + Len(over)
    BY <1>31, <1>32, ConcatProperties, Zenon
  <2>3. (k - 1) + (Len(s) - k) = Len(s) - 1
    BY <1>1, <1>2
  <2> QED BY <1>31, <1>32, <2>1, <2>2, <2>3
<1>5. \A i \in 1..Len(t) : t[i] = s[At(i)] /\ At(i) \in 1..Len(s) /\ At(i) # k
  <2> SUFFICES ASSUME NEW i \in 1..Len(t)
               PROVE  t[i] = s[At(i)] /\ At(i) \in 1..Len(s) /\ At(i) # k
    OBVIOUS
  <2>0. t = under \o over
    BY <1>3 DEF under, over
  <2> HIDE DEF t
  <2>1. CASE i < k
    <3>1. i \in 1..(k - 1) /\ i \in 1..Len(s)
      BY <1>1, <1>2, <1>4, <2>1
    <3>2. t[i] = under[i]
      BY <1>31, <1>32, <2>0, <3>1
    <3> QED BY <1>31, <2>1, <3>1, <3>2
  <2>2. CASE ~(i < k)
    <3>1. i - (k - 1) \in 1..(Len(s) - k) /\ i + 1 \in 1..Len(s) /\ k + (i - (k - 1)) = i + 1 /\ i > k - 1
      BY <1>1, <1>2, <1>4, <2>2
    <3>2. t[i] = over[i - (k - 1)]
      BY <1>31, <1>32, <2>0, <3>1
    <3>3. over[i - (k - 1)] = s[i + 1]
      BY <1>32, <3>1
    <3> QED BY <1>2, <2>2, <3>1, <3>2, <3>3
  <2> QED BY <2>1, <2>2
<1> HIDE DEF t
<1>6. \A i, j \in 1..Len(t) : At(i) = At(j) => i = j
  BY <1>1, <1>2, <1>4
<1>7. \A i \in 1..Len(t) : At(i) = Len(s) => i = Len(t)
  BY <1>1, <1>2, <1>4
<1>8. \A j \in 1..Len(s) : j # k => \E i \in 1..Len(t) : At(i) = j
  <2> SUFFICES ASSUME NEW j \in 1..Len(s), j # k
               PROVE  \E i \in 1..Len(t) : At(i) = j
    OBVIOUS
  <2>1. CASE j < k
    <3>1. j \in 1..Len(t) /\ At(j) = j
      BY <1>1, <1>2, <1>4, <2>1
    <3> QED BY <3>1
  <2>2. CASE j > k
    <3>1. j - 1 \in 1..Len(t) /\ At(j - 1) = j
      BY <1>1, <1>2, <1>4, <2>2
    <3> QED BY <3>1
  <2> QED BY <1>1, <1>2, <2>1, <2>2
<1> HIDE DEF At
<1>9. GoodStack(t)
  <2>1. \A i, j \in 1..Len(t) : t[i] = t[j] => i = j
    BY <1>5, <1>6 DEF GoodStack
  <2>2. \A i \in 1..Len(t) : t[i] = "confirm" => i = Len(t)
    BY <1>5, <1>7 DEF GoodStack
  <2> QED BY <1>4, <2>1, <2>2 DEF GoodStack
<1>10. ASSUME NEW v
       PROVE  v \in ToSet(t) <=> v \in ToSet(s) /\ v # e
  <2>1. v \in ToSet(t) <=> \E i \in 1..Len(t) : t[i] = v
    BY <1>9, PlaceOf
  <2>2. v \in ToSet(s) <=> \E j \in 1..Len(s) : s[j] = v
    BY PlaceOf
  <2>3. \A j \in 1..Len(s) : s[j] = e <=> j = k
    BY <1>2 DEF GoodStack
  <2> QED BY <1>2, <1>5, <1>8, <2>1, <2>2, <2>3, ZenonT(90)
<1>11. ToSet(t) = ToSet(s) \ {e}
  BY <1>10
<1> QED BY <1>4, <1>9, <1>11 DEF t

\* Taking a box that is not on the stack off it changes nothing.
LEMMA NotOnIs ==
    ASSUME NEW s, GoodStack(s), NEW e, e \notin ToSet(s)
    PROVE  OffStack(s, e) = s
<1>1. \A i \in 1..Len(s) : s[i] # e
  BY PlaceOf
<1> QED BY <1>1, NothingGoes DEF OffStack

\* The top of a stack that is not empty.
LEMMA TopIs ==
    ASSUME GoodStack(boxStack)
    PROVE  /\ Top \in Boxes <=> Len(boxStack) # 0
           /\ Len(boxStack) # 0 => Top = boxStack[Len(boxStack)] /\ Top \in ToSet(boxStack)
           /\ "confirm" \in ToSet(boxStack) => Top = "confirm"
           /\ (boxStack = <<>>) <=> (Len(boxStack) = 0)
<1>1. boxStack \in Seq(Boxes) /\ Len(boxStack) \in Nat
  BY DEF GoodStack
<1>2. CASE boxStack = <<>>
  <2>1. Top = "page" /\ Len(boxStack) = 0
    BY <1>2 DEF Top
  <2>2. "confirm" \notin ToSet(boxStack)
    BY <2>1, PlaceOf
  <2> QED BY <1>2, <2>1, <2>2 DEF Boxes
<1>3. CASE boxStack # <<>>
  <2>1. Len(boxStack) # 0 /\ Len(boxStack) \in 1..Len(boxStack)
    BY <1>1, <1>3
  <2>2. Top = boxStack[Len(boxStack)]
    BY <1>3 DEF Top, Last
  <2>3. Top \in Boxes
    BY <1>1, <2>1, <2>2
  <2>4. Top \in ToSet(boxStack)
    BY <2>1, <2>2, PlaceOf
  <2>5. "confirm" \in ToSet(boxStack) => Top = "confirm"
    BY <2>2, PlaceOf DEF GoodStack
  <2> QED BY <1>3, <2>1, <2>2, <2>3, <2>4, <2>5
<1> QED BY <1>2, <1>3

(***************************************************************************)
(* The lock: as many as there are boxes, and what the page had is kept     *)
(* while there is one.                                                     *)
(***************************************************************************)
LockedAsStacked ==
    /\ locks = Len(boxStack)
    /\ locks = 0 => overflow = "scroll"
    /\ locks # 0 => overflow = "hidden" /\ savedOverflow = "scroll"

\* A box that opens adds one lock for one box,
LEMMA LockIs ==
    ASSUME locks \in Nat, LockedAsStacked, Lock, Len(boxStack') = Len(boxStack) + 1
    PROVE  LockedAsStacked'
BY DEF LockedAsStacked, Lock

\* and boxes that leave take as many locks as they are.
LEMMA UnlockIs ==
    ASSUME locks \in Nat, LockedAsStacked, NEW n \in Nat, n > 0, Unlock(n), Len(boxStack') \in Nat,
           Len(boxStack') = Len(boxStack) - n
    PROVE  LockedAsStacked'
<1>1. locks' = locks - n /\ locks' = Len(boxStack') /\ locks # 0
  BY DEF LockedAsStacked, Unlock
<1>2. savedOverflow' = "scroll" /\ overflow = "hidden"
  BY <1>1 DEF LockedAsStacked, Unlock
<1>3. locks' = 0 => overflow' = "scroll"
  BY <1>1, <1>2 DEF LockedAsStacked, Unlock
<1>4. locks' # 0 => overflow' = "hidden"
  BY <1>1, <1>2 DEF Unlock
<1> QED BY <1>1, <1>2, <1>3, <1>4 DEF LockedAsStacked

\* A dialog that leaves takes itself off, and the question it holds.
LEMMA DismountIs ==
    ASSUME GoodStack(boxStack), LockedAsStacked, NEW box, box \in ToSet(boxStack), NEW answer,
           Dismount(box, answer)
    PROVE  /\ GoodStack(boxStack') /\ LockedAsStacked'
           /\ \/ /\ awaiting' = {} /\ inQuestion' = Nobody /\ typed' = FALSE /\ held' = held
              \/ /\ UNCHANGED thePromise
                 /\ "confirm" \in ToSet(boxStack) => "confirm" \in ToSet(boxStack')
<1> DEFINE gone == Leaving(box) \cap ToSet(boxStack)
           open == OffStack(IF "confirm" \in gone THEN OffStack(boxStack, "confirm") ELSE boxStack, box)
<1>1. /\ boxStack' = open /\ Unlock(Cardinality(gone))
      /\ "confirm" \in gone => awaiting' = {} /\ inQuestion' = Nobody /\ typed' = FALSE /\ held' = held
      /\ "confirm" \notin gone => UNCHANGED thePromise
  BY DEF Dismount
<1>2. locks \in Nat
  BY AtMostThree DEF LockedAsStacked
<1>3. box = "confirm" => gone = {"confirm"}
  BY DEF Leaving
<1>4. CASE box # "confirm" /\ "confirm" \in gone
  <2>1. gone = {box, "confirm"} /\ "confirm" \in ToSet(boxStack)
    BY <1>4 DEF Leaving
  <2>2. Cardinality(gone) = 2
    <3>1. Cardinality({box}) = 1 /\ IsFiniteSet({box})
      BY FS_Singleton
    <3>2. gone = {box} \cup {"confirm"} /\ "confirm" \notin {box}
      BY <1>4, <2>1
    <3> HIDE DEF gone
    <3>3. Cardinality(gone) = Cardinality({box}) + 1
      BY <3>1, <3>2, FS_AddElement
    <3> QED BY <3>1, <3>3
  <2> DEFINE mid == OffStack(boxStack, "confirm")
  <2>3. GoodStack(mid) /\ Len(mid) = Len(boxStack) - 1 /\ ToSet(mid) = ToSet(boxStack) \ {"confirm"}
    BY <2>1, OffIs
  <2>4. boxStack' = OffStack(mid, box)
    BY <1>1, <1>4
  <2>5. box \in ToSet(mid)
    BY <1>4, <2>3
  <2> HIDE DEF mid
  <2>6. GoodStack(boxStack') /\ Len(boxStack') = Len(mid) - 1
    BY <2>3, <2>4, <2>5, OffIs
  <2>7. Len(boxStack) \in Nat /\ Len(boxStack') \in Nat
    BY <2>6, AtMostThree
  <2>8. Len(boxStack') = Len(boxStack) - 2
    BY <2>3, <2>6, <2>7
  <2>9. LockedAsStacked'
    BY <1>1, <1>2, <2>2, <2>7, <2>8, UnlockIs
  <2> QED BY <1>1, <1>4, <2>6, <2>9
<1>5. CASE box = "confirm" \/ "confirm" \notin gone
  <2>1. gone = {box}
    BY <1>3, <1>5 DEF Leaving
  <2>2. Cardinality(gone) = 1
    BY <2>1, FS_Singleton
  <2>3. boxStack' = OffStack(boxStack, box)
    <3>1. CASE box = "confirm"
      <4> DEFINE mid == OffStack(boxStack, "confirm")
      <4>1. GoodStack(mid) /\ "confirm" \notin ToSet(mid)
        BY <3>1, OffIs
      <4>2. boxStack' = OffStack(mid, "confirm")
        BY <1>1, <1>3, <3>1
      <4> HIDE DEF mid
      <4>3. boxStack' = mid
        BY <4>1, <4>2, NotOnIs
      <4> QED BY <3>1, <4>3 DEF mid
    <3>2. CASE "confirm" \notin gone
      BY <1>1, <3>2
    <3> QED BY <1>5, <3>1, <3>2
  <2>4. GoodStack(boxStack') /\ Len(boxStack') = Len(boxStack) - 1 /\ ToSet(boxStack') = ToSet(boxStack) \ {box}
    BY <2>3, OffIs
  <2>5. Len(boxStack) \in Nat /\ Len(boxStack') \in Nat
    BY <2>4, AtMostThree
  <2>6. LockedAsStacked'
    BY <1>1, <1>2, <2>2, <2>4, <2>5, UnlockIs
  <2>7. "confirm" \notin gone /\ "confirm" \in ToSet(boxStack) => "confirm" \in ToSet(boxStack')
    BY <2>1, <2>4
  <2> QED BY <1>1, <2>4, <2>6, <2>7
<1> QED BY <1>4, <1>5

(***************************************************************************)
(* The focus.                                                              *)
(***************************************************************************)
Spotted == {ThePage, Body} \cup UNION {Inside(box) : box \in Boxes}

\* Every spot of a box is a place the focus can be in.
LEMMA InsideIs ==
    ASSUME NEW box \in Boxes, NEW spot \in Spots
    PROVE  [in |-> box, at |-> spot] \in Spotted
BY DEF Spotted, Inside

\* The focus comes back to a place there is.
LEMMA FocusComesBack ==
    ASSUME focus \in Spotted, NEW gone, NEW open
    PROVE  FocusAfter(gone, open) \in Spotted
<1> DEFINE lost == focus.in \in gone \/ focus = Body
           back == {previous[box] : box \in gone} \cap {place \in {ThePage} \cup UNION {Inside(b) : b \in Boxes} :
                       InDocument(place, open)}
<1>1. FocusAfter(gone, open) =
        IF ~lost THEN focus ELSE IF back = {} THEN Body ELSE CHOOSE place \in back : TRUE
  BY DEF FocusAfter
<1>2. back \subseteq Spotted
  BY DEF Spotted
<1> HIDE DEF back, lost
<1>3. back # {} => (CHOOSE place \in back : TRUE) \in back
  OBVIOUS
<1>4. Body \in Spotted
  BY DEF Spotted
<1> QED BY <1>1, <1>2, <1>3, <1>4

\* The trap of the keyboard moves it to a control of the box on top, or to the page.
LEMMA TabIs ==
    ASSUME focus \in Spotted, Top \in Boxes, NEW back \in BOOLEAN
    PROVE  TabFrom(focus, back) \in Spotted
<1>1. [in |-> Top, at |-> "first"] \in Spotted /\ [in |-> Top, at |-> "last"] \in Spotted
  BY InsideIs DEF Spots
<1>2. ThePage \in Spotted
  BY DEF Spotted
<1>3. CASE focus.in # Top
  BY <1>1, <1>3 DEF TabFrom
<1>4. CASE focus.in = Top
  <2>1. focus.in \in Boxes
    BY <1>4
  <2>2. focus # ThePage /\ focus # Body
    BY <2>1 DEF ThePage, Body, Boxes
  <2>3. focus.at \in Spots
    BY <2>2 DEF Spotted, Inside
  <2> QED BY <1>1, <1>2, <1>4, <2>3 DEF TabFrom, Spots
<1> QED BY <1>3, <1>4

(***************************************************************************)
(* What holds between two events.  The boxes that have yet to hear a key   *)
(* are the newest of the stack, oldest first.                              *)
(***************************************************************************)
NewestHear ==
    hearing # <<>> => \E k \in 1..Len(boxStack) : hearing = SubSeq(boxStack, k, Len(boxStack))

ShownIsAsked == awaiting # {} => inQuestion \in Questions /\ "confirm" \in ToSet(boxStack)

StackInv ==
    /\ GoodStack(boxStack) /\ LockedAsStacked /\ NewestHear /\ ShownIsAsked /\ OnePending
    /\ host \in {"page", "modal"} /\ focus \in Spotted /\ inQuestion \in Questions \cup {Nobody}
    /\ typed \in BOOLEAN /\ held \in BOOLEAN /\ opens \in 0..MaxOpens

\* The end of a stack from one of its places.
LEMMA SuffixIs ==
    ASSUME NEW s \in Seq(Boxes), NEW k \in 1..Len(s), NEW e, e = SubSeq(s, k, Len(s))
    PROVE  /\ e \in Seq(Boxes) /\ Len(e) = Len(s) - k + 1 /\ e # <<>> /\ Head(e) = s[k]
           /\ k = Len(s) => Tail(e) = <<>>
           /\ k # Len(s) => k + 1 \in 1..Len(s) /\ Tail(e) = SubSeq(s, k + 1, Len(s))
<1>1. e \in Seq(Boxes) /\ Len(e) = Len(s) - k + 1
  OBVIOUS
<1>2. e # <<>> /\ Head(e) = s[k]
  <2>1. Len(e) \in Nat /\ Len(e) > 0 /\ e[1] = s[k]
    BY <1>1
  <2>2. e # <<>>
    <3>1. Len(<<>>) = 0
      OBVIOUS
    <3>2. e = <<>> => Len(e) = 0
      BY <3>1, Zenon
    <3>3. Len(e) # 0
      BY <2>1
    <3> QED BY <3>2, <3>3
  <2> QED BY <1>1, <2>1, <2>2
<1>3. Tail(e) = SubSeq(s, k + 1, Len(s))
  <2> DEFINE u == SubSeq(s, k + 1, Len(s))
             v == Tail(e)
  <2>1. u \in Seq(Boxes) /\ Len(u) = Len(s) - k /\ \A i \in 1..(Len(s) - k) : u[i] = s[k + i]
    OBVIOUS
  <2>2. v \in Seq(Boxes) /\ Len(v) = Len(e) - 1 /\ \A i \in 1..(Len(e) - 1) : v[i] = e[i + 1]
    BY <1>1, <1>2
  <2>3. \A i \in 1..(Len(s) - k) : i + 1 \in 1..Len(e) /\ e[i + 1] = s[k + i]
    BY <1>1
  <2>4. Len(u) = Len(v) /\ \A i \in 1..Len(u) : u[i] = v[i]
    BY <1>1, <2>1, <2>2, <2>3
  <2> HIDE DEF u, v
  <2>5. u = v
    BY <2>1, <2>2, <2>4, SameSequence
  <2> QED BY <2>5 DEF u, v
<1>4. k = Len(s) => Tail(e) = <<>>
  BY <1>1, <1>2
<1>5. k # Len(s) => k + 1 \in 1..Len(s)
  OBVIOUS
<1> QED BY <1>1, <1>2, <1>3, <1>4, <1>5

\* The bound on openings is a natural number.
LEMMA OpensBound == MaxOpens \in Nat
BY NobodyAssumption

\* At first there is no box, no lock and no question.
LEMMA StackAtFirst == DialogsInit => StackInv
<1> SUFFICES ASSUME DialogsInit PROVE StackInv
  OBVIOUS
<1>1. /\ boxStack = <<>> /\ host \in {"page", "modal"} /\ focus = ThePage
      /\ locks = 0 /\ overflow = "scroll" /\ hearing = <<>>
      /\ inQuestion = Nobody /\ awaiting = {} /\ typed = FALSE /\ held = FALSE /\ opens = 0
  BY DEF DialogsInit
<1>2. GoodStack(boxStack) /\ Len(boxStack) = 0
  BY <1>1 DEF GoodStack
<1>3. LockedAsStacked
  BY <1>1, <1>2 DEF LockedAsStacked
<1>4. NewestHear /\ ShownIsAsked
  BY <1>1 DEF NewestHear, ShownIsAsked
<1>5. OnePending
  BY PendingAtFirst
<1>6. focus \in Spotted
  BY <1>1 DEF Spotted
<1>7. opens \in 0..MaxOpens
  BY <1>1, OpensBound
<1> QED BY <1>1, <1>2, <1>3, <1>4, <1>5, <1>6, <1>7 DEF StackInv

\* A box that opens goes on top, over no question.
LEMMA OpeningIs ==
    ASSUME StackInv, NEW box \in {"modal", "drawer"}, OpenBox(box)
    PROVE  StackInv'
<1>1. /\ box \notin ToSet(boxStack) /\ hearing = <<>> /\ opens < MaxOpens /\ opens' = opens + 1 /\ Top # "confirm"
      /\ boxStack' = Append(boxStack, box) /\ focus' = [in |-> box, at |-> "box"] /\ Lock
      /\ UNCHANGED <<host, hearing>> /\ UNCHANGED thePromise
  BY DEF OpenBox, Mount
<1>2. "confirm" \notin ToSet(boxStack) /\ box \in Boxes
  BY <1>1, TopIs DEF StackInv, Boxes
<1>3. GoodStack(boxStack') /\ Len(boxStack') = Len(boxStack) + 1 /\ ToSet(boxStack') = ToSet(boxStack) \cup {box}
  BY <1>1, <1>2, OnIs DEF StackInv
<1>4. locks \in Nat
  BY AtMostThree DEF StackInv, LockedAsStacked
<1>5. LockedAsStacked'
  BY <1>1, <1>3, <1>4, LockIs DEF StackInv
<1>6. focus' \in Spotted
  BY <1>1, <1>2, InsideIs DEF Spots
<1>7. OnePending'
  BY OthersLeaveIt DEF StackInv
<1>8. NewestHear' /\ ShownIsAsked'
  BY <1>1, <1>3 DEF NewestHear, ShownIsAsked, StackInv, thePromise
<1>9. opens' \in 0..MaxOpens
  BY <1>1, OpensBound DEF StackInv
<1> QED BY <1>1, <1>3, <1>5, <1>6, <1>7, <1>8, <1>9 DEF StackInv, thePromise

\* So does the question, once.
LEMMA AskingIs ==
    ASSUME StackInv, NEW q \in Questions, ConfirmAsk(q)
    PROVE  StackInv'
<1> DEFINE spot == IF q.text \/ ~q.adds THEN "first" ELSE "last"
<1>1. /\ opens < MaxOpens /\ opens' = opens + 1 /\ hearing = <<>>
      /\ awaiting' = {q.asker} /\ inQuestion' = q
      /\ typed' = (typed /\ inQuestion # Nobody) /\ held' \in BOOLEAN
      /\ UNCHANGED <<host, hearing>>
  BY DEF ConfirmAsk
<1>2. spot \in Spots /\ "confirm" \in Boxes
  BY DEF Spots, Boxes
<1>3. OnePending'
  BY AskingAnswersFirst DEF StackInv
<1>4. opens' \in 0..MaxOpens
  BY <1>1, OpensBound DEF StackInv
<1>5. NewestHear'
  BY <1>1 DEF NewestHear
<1>6. /\ GoodStack(boxStack') /\ LockedAsStacked' /\ "confirm" \in ToSet(boxStack')
      /\ focus' \in Spotted
  <2>1. CASE "confirm" \in ToSet(boxStack)
    <3>1. focus' = [in |-> "confirm", at |-> spot] /\ UNCHANGED <<boxStack, theLock>>
      BY <2>1 DEF ConfirmAsk
    <3>2. focus' \in Spotted
      BY <1>2, <3>1, InsideIs
    <3> QED BY <2>1, <3>1, <3>2 DEF StackInv, LockedAsStacked, theLock
  <2>2. CASE "confirm" \notin ToSet(boxStack)
    <3>1. boxStack' = Append(boxStack, "confirm") /\ focus' = [in |-> "confirm", at |-> spot] /\ Lock
      BY <2>2 DEF ConfirmAsk, Mount
    <3>2. /\ GoodStack(boxStack') /\ Len(boxStack') = Len(boxStack) + 1
          /\ ToSet(boxStack') = ToSet(boxStack) \cup {"confirm"}
      BY <1>2, <2>2, <3>1, OnIs DEF StackInv
    <3>3. locks \in Nat
      BY AtMostThree DEF StackInv, LockedAsStacked
    <3>4. LockedAsStacked'
      BY <3>1, <3>2, <3>3, LockIs DEF StackInv
    <3>5. focus' \in Spotted
      BY <1>2, <3>1, InsideIs
    <3> QED BY <3>2, <3>4, <3>5
  <2> QED BY <2>1, <2>2
<1>7. ShownIsAsked'
  BY <1>1, <1>6 DEF ShownIsAsked
<1>8. typed' \in BOOLEAN /\ host' \in {"page", "modal"}
  BY <1>1 DEF StackInv
<1> QED BY <1>1, <1>3, <1>4, <1>5, <1>6, <1>7, <1>8 DEF StackInv

\* A box that leaves takes itself off.
LEMMA LeavingIs ==
    ASSUME StackInv, NEW box, box \in ToSet(boxStack), NEW answer \in {"yes", "no"}, Dismount(box, answer),
           hearing' = <<>>, UNCHANGED <<host, opens>>
    PROVE  StackInv'
<1>1. /\ GoodStack(boxStack') /\ LockedAsStacked'
      /\ \/ /\ awaiting' = {} /\ inQuestion' = Nobody /\ typed' = FALSE /\ held' = held
         \/ /\ UNCHANGED thePromise
            /\ "confirm" \in ToSet(boxStack) => "confirm" \in ToSet(boxStack')
  BY DismountIs DEF StackInv
<1>2. OnePending'
  BY DismountSettles DEF StackInv
<1>3. focus' \in Spotted
  <2>1. PICK gone, open : focus' = FocusAfter(gone, open)
    BY DEF Dismount
  <2> QED BY <2>1, FocusComesBack DEF StackInv
<1>4. NewestHear'
  BY DEF NewestHear
<1>5. ShownIsAsked' /\ inQuestion' \in Questions \cup {Nobody} /\ typed' \in BOOLEAN /\ held' \in BOOLEAN
  BY <1>1 DEF ShownIsAsked, StackInv, thePromise
<1> QED BY <1>1, <1>2, <1>3, <1>4, <1>5 DEF StackInv

\* One that hears a key without being on top stays, and it is the next one's turn.
LEMMA HearingIs ==
    ASSUME StackInv, HearEscape
    PROVE  /\ StackInv'
           /\ boxStack' # boxStack => Len(hearing) = 1 /\ Head(hearing) = Top
<1>1. PICK k \in 1..Len(boxStack) : hearing = SubSeq(boxStack, k, Len(boxStack))
  BY DEF StackInv, NewestHear, HearEscape
<1>2. boxStack \in Seq(Boxes) /\ Len(boxStack) # 0
  BY <1>1 DEF StackInv, GoodStack
<1>3. Len(hearing) = Len(boxStack) - k + 1 /\ Head(hearing) = boxStack[k] /\ hearing # <<>>
      /\ (k = Len(boxStack) => Tail(hearing) = <<>>)
      /\ (k # Len(boxStack) => k + 1 \in 1..Len(boxStack) /\ Tail(hearing) = SubSeq(boxStack, k + 1, Len(boxStack)))
  BY <1>1, <1>2, SuffixIs
<1>4. Top = boxStack[Len(boxStack)] /\ Top \in ToSet(boxStack) /\ Len(boxStack) \in 1..Len(boxStack)
  BY <1>2, TopIs DEF StackInv
<1>5. hearing' = Tail(hearing) /\ UNCHANGED <<host, opens>>
  BY DEF HearEscape
<1>6. CASE Head(hearing) = Top
  <2>1. k = Len(boxStack)
    BY <1>3, <1>4, <1>6 DEF StackInv, GoodStack
  <2>2. Dismount(Top, "no")
    BY <1>6 DEF HearEscape
  <2>3. StackInv'
    BY <1>3, <1>4, <1>5, <2>1, <2>2, LeavingIs
  <2>4. Len(hearing) = 1
    BY <1>2, <1>3, <2>1
  <2> QED BY <1>6, <2>3, <2>4
<1>7. CASE Head(hearing) # Top
  <2>1. UNCHANGED <<boxStack, focus>> /\ UNCHANGED theLock /\ UNCHANGED thePromise
    BY <1>7 DEF HearEscape
  <2>2. k # Len(boxStack)
    BY <1>3, <1>4, <1>7
  <2>3. NewestHear'
    BY <1>3, <1>5, <2>1, <2>2 DEF NewestHear
  <2> QED BY <1>5, <2>1, <2>3 DEF StackInv, LockedAsStacked, ShownIsAsked, OnePending, theLock, thePromise
<1> QED BY <1>6, <1>7

\* A click on the button that confirms takes the question off.
LEMMA ClickIs ==
    ASSUME StackInv, ClickConfirm
    PROVE  StackInv'
<1>1. /\ Top = "confirm" /\ hearing = <<>> /\ held' = FALSE
      /\ boxStack' = OffStack(boxStack, "confirm") /\ Unlock(1)
      /\ focus' = FocusAfter({"confirm"}, OffStack(boxStack, "confirm"))
      /\ awaiting' = {} /\ inQuestion' = Nobody /\ typed' = FALSE
      /\ UNCHANGED <<host, hearing, opens>>
  BY DEF ClickConfirm
<1>2. "confirm" \in ToSet(boxStack)
  BY <1>1, TopIs DEF StackInv, Boxes
<1>3. GoodStack(boxStack') /\ Len(boxStack') = Len(boxStack) - 1
  BY <1>1, <1>2, OffIs DEF StackInv
<1>4. locks \in Nat /\ Len(boxStack') \in Nat
  BY <1>3, AtMostThree DEF StackInv, LockedAsStacked
<1>5. LockedAsStacked'
  BY <1>1, <1>3, <1>4, UnlockIs DEF StackInv
<1>6. OnePending'
  BY ClickSettles DEF StackInv
<1>7. focus' \in Spotted
  BY <1>1, FocusComesBack DEF StackInv
<1>8. NewestHear' /\ ShownIsAsked'
  BY <1>1 DEF NewestHear, ShownIsAsked
<1> QED BY <1>1, <1>3, <1>5, <1>6, <1>7, <1>8 DEF StackInv

\* The keys that move nothing on the stack.
LEMMA KeysKeepTheStack ==
    ASSUME StackInv,
           \/ \E back \in BOOLEAN : PressTab(back)
           \/ PressEscape \/ TypeText \/ ReleaseEnter
           \/ UNCHANGED dialogVars
    PROVE  StackInv'
<1>1. OnePending'
  BY OthersLeaveIt DEF StackInv
<1>2. CASE \E back \in BOOLEAN : PressTab(back)
  <2>1. PICK back \in BOOLEAN : PressTab(back)
    BY <1>2
  <2>2. /\ boxStack # <<>> /\ hearing = <<>> /\ focus' = TabFrom(focus, back)
        /\ UNCHANGED <<boxStack, host, hearing, opens>> /\ UNCHANGED theLock /\ UNCHANGED thePromise
    BY <2>1 DEF PressTab
  <2>3. Top \in Boxes
    BY <2>2, TopIs DEF StackInv
  <2>4. focus' \in Spotted
    BY <2>2, <2>3, TabIs DEF StackInv
  <2> QED BY <1>1, <2>2, <2>4 DEF StackInv, LockedAsStacked, NewestHear, ShownIsAsked, theLock, thePromise
<1>3. CASE PressEscape
  <2>1. /\ boxStack # <<>> /\ hearing' = boxStack
        /\ UNCHANGED <<boxStack, host, focus, opens>> /\ UNCHANGED theLock /\ UNCHANGED thePromise
    BY <1>3 DEF PressEscape, Listeners
  <2>2. boxStack \in Seq(Boxes)
    BY DEF StackInv, GoodStack
  <2>3. 1 \in 1..Len(boxStack) /\ boxStack = SubSeq(boxStack, 1, Len(boxStack))
    BY <2>1, <2>2
  <2>4. NewestHear'
    BY <2>1, <2>3 DEF NewestHear
  <2> QED BY <1>1, <2>1, <2>4 DEF StackInv, LockedAsStacked, ShownIsAsked, theLock, thePromise
<1>4. CASE TypeText
  <2>1. /\ typed' = ~typed
        /\ UNCHANGED <<boxStack, host, focus, hearing, inQuestion, awaiting, held, opens>> /\ UNCHANGED theLock
    BY <1>4 DEF TypeText
  <2>2. typed' \in BOOLEAN
    BY <2>1
  <2> QED BY <1>1, <2>1, <2>2 DEF StackInv, LockedAsStacked, NewestHear, ShownIsAsked, theLock
<1>5. CASE ReleaseEnter
  <2>1. /\ held' = FALSE
        /\ UNCHANGED <<boxStack, host, focus, hearing, inQuestion, awaiting, typed, opens>> /\ UNCHANGED theLock
    BY <1>5 DEF ReleaseEnter
  <2> QED BY <1>1, <2>1 DEF StackInv, LockedAsStacked, NewestHear, ShownIsAsked, theLock
<1>6. CASE UNCHANGED dialogVars
  BY <1>1, <1>6 DEF StackInv, LockedAsStacked, NewestHear, ShownIsAsked, dialogVars, theLock, thePromise
<1> QED BY <1>2, <1>3, <1>4, <1>5, <1>6

\* No opening, answer, key or departure breaks the invariant of the stack.
LEMMA StackStep ==
    ASSUME StackInv, [DialogsNext]_dialogVars
    PROVE  StackInv'
<1>1. ASSUME NEW box \in Boxes, CloseBox(box)
      PROVE  StackInv'
  BY <1>1, LeavingIs DEF CloseBox
<1>2. ASSUME PressEnter
      PROVE  StackInv'
  <2>1. Top = "confirm" /\ Dismount("confirm", "yes") /\ hearing = <<>> /\ UNCHANGED <<host, hearing, opens>>
    BY <1>2 DEF PressEnter
  <2>2. "confirm" \in ToSet(boxStack)
    BY <2>1, TopIs DEF StackInv, Boxes
  <2> QED BY <2>1, <2>2, LeavingIs
<1> QED BY <1>1, <1>2, OpeningIs, AskingIs, HearingIs, ClickIs, KeysKeepTheStack DEF DialogsNext

\* The stack is what is open, the keys are heard from the top, and the question shown
\* is the one that is awaited.
THEOREM StackInvHolds == DialogsSpec => []StackInv
<1>1. StackInv /\ [DialogsNext]_dialogVars => StackInv'
  BY StackStep
<1> QED BY StackAtFirst, <1>1, PTL DEF DialogsSpec

\* Every variable of the dialogs stays of its type; there are never four boxes open.
THEOREM DialogsTypeCorrect == DialogsSpec => []DialogsTypeOK
<1>1. StackInv => DialogsTypeOK
  <2> SUFFICES ASSUME StackInv PROVE DialogsTypeOK
    OBVIOUS
  <2>1. ASSUME NEW s \in Seq(Boxes), Len(s) \in 0..3
        PROVE  s \in SeqOf(Boxes, 3)
    <3>1. s \in [1..Len(s) -> Boxes]
      OBVIOUS
    <3> QED BY <2>1, <3>1 DEF SeqOf
  <2>2. boxStack \in Seq(Boxes) /\ Len(boxStack) \in 0..3
    BY AtMostThree DEF StackInv, GoodStack
  <2>3. hearing \in Seq(Boxes) /\ Len(hearing) \in 0..3
    <3>1. CASE hearing = <<>>
      BY <3>1
    <3>2. CASE hearing # <<>>
      <4>1. PICK k \in 1..Len(boxStack) : hearing = SubSeq(boxStack, k, Len(boxStack))
        BY <3>2 DEF StackInv, NewestHear
      <4>2. hearing \in Seq(Boxes) /\ Len(hearing) = Len(boxStack) - k + 1
        BY <2>2, <4>1, SuffixIs
      <4>3. PICK n \in 0..3 : n = Len(boxStack)
        BY <2>2
      <4>4. k \in 1..n /\ Len(hearing) = n - k + 1
        BY <4>2, <4>3
      <4> QED BY <4>2, <4>4
    <3> QED BY <3>1, <3>2
  <2>4. boxStack \in SeqOf(Boxes, 3) /\ hearing \in SeqOf(Boxes, 3)
    BY <2>1, <2>2, <2>3
  <2>5. locks \in 0..3 /\ overflow \in {"scroll", "hidden"}
    BY <2>2 DEF StackInv, LockedAsStacked
  <2>6. told \in [Askers -> {"never asked", Nobody, "yes", "no"}] /\ awaiting \subseteq Askers
    BY DEF StackInv, OnePending, Answers
  <2> QED BY <2>4, <2>5, <2>6 DEF StackInv, DialogsTypeOK, Spotted
<1> QED BY <1>1, StackInvHolds, PTL

\* The page scrolls when the last dialog is gone and never under one, in whatever order
\* they open and close (_internal.ts:22).
THEOREM PageLocks == DialogsSpec => []PageIsLockedUnderBoxes
<1>1. StackInv => PageIsLockedUnderBoxes
  BY TopIs DEF StackInv, LockedAsStacked, PageIsLockedUnderBoxes
<1> QED BY <1>1, StackInvHolds, PTL

\* Nobody waits for an answer to a question that is not on the screen
\* (ConfirmDialog.tsx:297).
THEOREM NobodyIsLeftWaiting == DialogsSpec => []NobodyWaitsForever
<1>1. StackInv => NobodyWaitsForever
  BY NobodyAssumption DEF StackInv, OnePending, ShownIsAsked, NobodyWaitsForever, Questions
<1> QED BY <1>1, StackInvHolds, PTL

\* One Escape closes what is on top and nothing under it, though every open dialog hears
\* it (useModalDialog.ts:47).
THEOREM OneEscapeClosesOne == DialogsSpec => OneEscapeOneBox
<1> DEFINE OneBox == hearing # <<>> /\ hearing' # hearing /\ boxStack' # boxStack =>
                        /\ Len(hearing) = 1 /\ Head(hearing) = Top
<1>1. StackInv /\ [DialogsNext]_dialogVars => [OneBox]_dialogVars
  <2> SUFFICES ASSUME StackInv, DialogsNext, hearing # <<>>, hearing' # hearing
               PROVE  OneBox
    OBVIOUS
  <2>1. HearEscape
    BY DEF DialogsNext, OpenBox, CloseBox, ConfirmAsk, PressTab, PressEscape, TypeText, PressEnter,
           ReleaseEnter, ClickConfirm
  <2> QED BY <2>1, HearingIs
<1>2. ([][OneBox]_dialogVars) <=> OneEscapeOneBox
  BY DEF OneEscapeOneBox
<1> QED BY <1>1, <1>2, StackInvHolds, PTL DEF DialogsSpec

(***************************************************************************)
(* The templates.  What the server holds, what the page lists and what is  *)
(* under way are sheets as they are sent: a template with a tunnel has     *)
(* nothing else picked.                                                    *)
(***************************************************************************)
Submitted == {s \in Sheet : toTemplateIn(s) = s}
Shelves == [TemplateIds -> Submitted \cup {None}]
SentPosts == [op : {"save", "copy", "delete"}, id : TemplateIds \cup {"new"}, body : Submitted,
              at : {"sent", "done", "failed", "taken"}]

TemplatesInv ==
    /\ shelf \in Shelves /\ freshIds \subseteq TemplateIds
    /\ listing \in Query(Shelves) /\ labelFilter \subseteq Labels
    /\ address \in TemplateIds \cup {"new", None} /\ sheet \in Sheet
    /\ conflict \in BOOLEAN /\ leaving \in BOOLEAN
    /\ {deletingId, duplicatingId, doomed} \subseteq TemplateIds \cup {None}
    /\ posted \subseteq SentPosts
    /\ misheard \in BOOLEAN /\ patches \in 0..MaxPatches /\ posts \in 0..MaxPosted

\* Until an answer of a change that was made has to come, a list that was read is the
\* one the server has.
ReadIsTrue ==
    ~misheard /\ Usable(listing) /\ listing.ask = "idle" /\ (\A post \in posted : post.at # "done")
        => listing.data = shelf

\* The bounds of the model are natural numbers, and the ids finitely many.
LEMMA BoundsOfTemplates ==
    /\ NameMax \in Nat /\ NameMax >= 2 /\ MaxPatches \in Nat /\ MaxPosted \in Nat /\ IsFiniteSet(TemplateIds)
BY TemplatesAssumption

\* No id of a template reads as "none" or as "new".
LEMMA NoIdIsNone == None \notin TemplateIds /\ "new" \notin TemplateIds /\ None # "new"
BY TemplatesAssumption

(***************************************************************************)
(* Sheets.                                                                 *)
(***************************************************************************)
LEMMA SheetIs ==
    ASSUME NEW s \in Sheet
    PROVE  /\ s.name \in NamesOf(NameMax) /\ s.port \in {"none", "good", "bad"} /\ s.tunnelled \in BOOLEAN
           /\ s.picks \in Picks /\ s.auto \in BOOLEAN /\ s.labels \in SUBSET Labels
BY DEF Sheet

\* Two sheets that agree in every field are one.
LEMMA SheetsAgree ==
    ASSUME NEW r \in Sheet, NEW s \in Sheet, r.name = s.name, r.port = s.port, r.tunnelled = s.tunnelled,
           r.picks = s.picks, r.auto = s.auto, r.labels = s.labels
    PROVE  r = s
BY DEF Sheet

PicksSent(f) == IF f.tunnelled THEN f.picks \cap {"tunnel"} ELSE f.picks \ {"tunnel"}
AutoSent(f) == f.auto /\ ~f.tunnelled

\* What is sent of a sheet keeps its name, its port and its labels.
LEMMA SentFieldsAre ==
    ASSUME NEW f \in Sheet
    PROVE  /\ toTemplateIn(f) \in Sheet
           /\ toTemplateIn(f).name = f.name /\ toTemplateIn(f).port = f.port
           /\ toTemplateIn(f).tunnelled = f.tunnelled /\ toTemplateIn(f).labels = f.labels
           /\ toTemplateIn(f).picks = PicksSent(f) /\ toTemplateIn(f).auto = AutoSent(f)
<1>1. PicksSent(f) \in Picks /\ AutoSent(f) \in BOOLEAN
  BY SheetIs DEF Picks, PicksSent, AutoSent
<1>2. toTemplateIn(f) = [f EXCEPT !.picks = PicksSent(f), !.auto = AutoSent(f)]
  BY DEF toTemplateIn, PicksSent, AutoSent
<1> QED BY <1>1, <1>2 DEF Sheet

\* What is sent of a form is a sheet, and is sent again as it is.
LEMMA SentOnce ==
    ASSUME NEW s \in Sheet
    PROVE  toTemplateIn(s) \in Submitted
<1> DEFINE t == toTemplateIn(s)
<1>1. /\ t \in Sheet /\ t.tunnelled = s.tunnelled /\ t.picks = PicksSent(s) /\ t.auto = AutoSent(s)
  BY SentFieldsAre
<1> HIDE DEF t
<1>2. PicksSent(t) = t.picks /\ AutoSent(t) = t.auto
  BY <1>1, SheetIs DEF PicksSent, AutoSent
<1>3. toTemplateIn(t) = t
  BY <1>1, <1>2, SentFieldsAre, SheetsAgree
<1> QED BY <1>1, <1>3 DEF Submitted, t

\* The name of a sheet says nothing of the rest.
LEMMA Renamed ==
    ASSUME NEW s \in Submitted, NEW name \in NamesOf(NameMax)
    PROVE  [s EXCEPT !.name = name] \in Submitted /\ [s EXCEPT !.name = name].name = name
           /\ [[s EXCEPT !.name = name] EXCEPT !.name = s.name] = s
<1> DEFINE r == [s EXCEPT !.name = name]
<1>1. s \in Sheet /\ toTemplateIn(s) = s
  BY DEF Submitted
<1>2. r \in Sheet /\ r.name = name /\ r.port = s.port /\ r.tunnelled = s.tunnelled /\ r.picks = s.picks
      /\ r.auto = s.auto /\ r.labels = s.labels
  BY <1>1 DEF Sheet
<1> DEFINE back == [r EXCEPT !.name = s.name]
<1> HIDE DEF r
<1>3. back \in Sheet /\ back.name = s.name /\ back.port = r.port /\ back.tunnelled = r.tunnelled
      /\ back.picks = r.picks /\ back.auto = r.auto /\ back.labels = r.labels
  BY <1>1, <1>2, SheetIs DEF Sheet
<1> HIDE DEF back
<1>4. back.port = s.port /\ back.tunnelled = s.tunnelled /\ back.picks = s.picks /\ back.auto = s.auto
      /\ back.labels = s.labels
  BY <1>2, <1>3
<1>5. back = s
  BY <1>1, <1>3, <1>4, SheetsAgree
<1>6. PicksSent(r) = PicksSent(s) /\ AutoSent(r) = AutoSent(s)
  BY <1>2 DEF PicksSent, AutoSent
<1>7. PicksSent(s) = s.picks /\ AutoSent(s) = s.auto
  BY <1>1, SentFieldsAre
<1>8. toTemplateIn(r) = r
  BY <1>2, <1>6, <1>7, SentFieldsAre, SheetsAgree
<1> QED BY <1>2, <1>5, <1>8 DEF Submitted, r, back

(***************************************************************************)
(* Names.                                                                  *)
(***************************************************************************)
LEMMA NameIs ==
    ASSUME NEW name
    PROVE  name \in NamesOf(NameMax) <=> name \in Seq(NameLetters) /\ Len(name) <= NameMax
<1>0. NameMax \in Nat
  BY TemplatesAssumption
<1>1. ASSUME name \in NamesOf(NameMax)
      PROVE  name \in Seq(NameLetters) /\ Len(name) <= NameMax
  <2>1. PICK k \in 0..NameMax : name \in [1..k -> NameLetters]
    BY <1>1 DEF NamesOf
  <2>2. k \in Nat /\ k <= NameMax
    BY <1>0, <2>1
  <2>3. name \in Seq(NameLetters) /\ Len(name) = k
    BY <2>1, <2>2
  <2> QED BY <2>2, <2>3
<1>2. ASSUME name \in Seq(NameLetters), Len(name) <= NameMax
      PROVE  name \in NamesOf(NameMax)
  <2>1. PICK k \in Nat : k = Len(name)
    BY <1>2
  <2>2. k \in 0..NameMax /\ name \in [1..k -> NameLetters]
    BY <1>0, <1>2, <2>1
  <2> QED BY <2>2 DEF NamesOf
<1> QED BY <1>1, <1>2

\* The empty name and a name of one letter are names.
LEMMA ShortNames == <<>> \in NamesOf(NameMax) /\ <<LetterA>> \in NamesOf(NameMax)
<1>1. LetterA \in NameLetters
  BY DEF NameLetters
<1>2. <<>> \in Seq(NameLetters) /\ Len(<<>>) = 0 /\ <<LetterA>> \in Seq(NameLetters) /\ Len(<<LetterA>>) = 1
  BY <1>1
<1> HIDE DEF LetterA
<1>3. Len(<<>>) <= NameMax /\ Len(<<LetterA>>) <= NameMax
  BY <1>2, BoundsOfTemplates
<1> QED BY <1>2, <1>3, NameIs

\* A name with its number fits, and its last letter is the number.
LEMMA FitIs ==
    ASSUME NEW base \in NamesOf(NameMax), NEW n \in NameLetters
    PROVE  /\ Fit(base, Suffix(n)) \in NamesOf(NameMax)
           /\ Fit(base, Suffix(n))[Len(Fit(base, Suffix(n)))] = n
<1>1. base \in Seq(NameLetters) /\ Len(base) <= NameMax
  BY NameIs
<1>2. ASSUME NEW stem \in Seq(NameLetters), Len(stem) + 1 <= NameMax, Fit(base, Suffix(n)) = stem \o <<n>>
      PROVE  /\ Fit(base, Suffix(n)) \in NamesOf(NameMax)
             /\ Fit(base, Suffix(n))[Len(Fit(base, Suffix(n)))] = n
  <2> DEFINE name == stem \o <<n>>
  <2>1. name \in Seq(NameLetters) /\ Len(name) = Len(stem) + 1 /\ name[Len(stem) + 1] = n
    OBVIOUS
  <2> HIDE DEF name
  <2>2. name \in NamesOf(NameMax) /\ name[Len(name)] = n
    BY <1>2, <2>1, NameIs
  <2> QED BY <1>2, <2>2 DEF name
<1>3. Suffix(n) = <<n>> /\ Len(Suffix(n)) = 1
  BY DEF Suffix
<1>4. CASE Len(base) + 1 <= NameMax
  <2>1. Fit(base, Suffix(n)) = base \o <<n>>
    BY <1>3, <1>4 DEF Fit
  <2> QED BY <1>1, <1>2, <1>4, <2>1
<1>5. CASE ~(Len(base) + 1 <= NameMax)
  <2> DEFINE stem == SubSeq(base, 1, NameMax - 1)
  <2>1. Fit(base, Suffix(n)) = stem \o <<n>>
    BY <1>3, <1>5, BoundsOfTemplates DEF Fit
  <2>2. Len(base) = NameMax
    BY <1>1, <1>5, BoundsOfTemplates
  <2>3. stem \in Seq(NameLetters) /\ Len(stem) = NameMax - 1
    BY <1>1, <2>2, BoundsOfTemplates
  <2> HIDE DEF stem
  <2>4. Len(stem) + 1 <= NameMax
    BY <2>3, BoundsOfTemplates
  <2> QED BY <1>2, <2>1, <2>3, <2>4
<1> QED BY <1>4, <1>5

\* There are more numbers than names taken: one of the copies is called by none of them.
LEMMA OneIsFree ==
    ASSUME NEW base \in NamesOf(NameMax), NEW taken, IsFiniteSet(taken),
           Cardinality(taken) <= Cardinality(TemplateIds)
    PROVE  \E n \in 1..Cardinality(taken) + 1 : Fit(base, Suffix(n)) \notin taken
<1> DEFINE K == Cardinality(taken)
<1>1. K \in Nat /\ Cardinality(TemplateIds) \in Nat
  BY FS_CardinalityType, BoundsOfTemplates
<1>2. 1..K + 1 \subseteq NameLetters
  BY <1>1 DEF NameLetters
<1> SUFFICES ASSUME \A n \in 1..K + 1 : Fit(base, Suffix(n)) \in taken
             PROVE  FALSE
  OBVIOUS
<1>3. IsFiniteSet(1..K + 1) /\ Cardinality(1..K + 1) = K + 1
  <2>1. 1 \in Int /\ K + 1 \in Int
    BY <1>1
  <2>2. IsFiniteSet(1..(K + 1)) /\ Cardinality(1..(K + 1)) = IF 1 > K + 1 THEN 0 ELSE (K + 1) - 1 + 1
    BY <2>1, FS_Interval
  <2> HIDE DEF K
  <2> QED BY <1>1, <2>2
<1> DEFINE f == [n \in 1..K + 1 |-> Fit(base, Suffix(n))]
<1>4. f \in [1..K + 1 -> taken]
  OBVIOUS
<1>5. Cardinality(taken) < Cardinality(1..K + 1)
  BY <1>1, <1>3
<1>6. \E m, n \in 1..K + 1 : m # n /\ f[m] = f[n]
  <2> HIDE DEF f, K
  <2> QED BY <1>3, <1>4, <1>5, FS_PigeonHole
<1>7. PICK m \in 1..K + 1, n \in 1..K + 1 : m # n /\ Fit(base, Suffix(m)) = Fit(base, Suffix(n))
  BY <1>6
<1>8. m = n
  BY <1>2, <1>7, FitIs
<1> QED BY <1>7, <1>8

\* A copy gets a name that fits and is free.
LEMMA CopyIsNamed ==
    ASSUME NEW base \in NamesOf(NameMax), NEW taken, IsFiniteSet(taken),
           Cardinality(taken) <= Cardinality(TemplateIds)
    PROVE  duplicateName(base, taken) \in NamesOf(NameMax) /\ duplicateName(base, taken) \notin taken
<1> DEFINE free == {n \in 1..Cardinality(taken) + 1 : Fit(base, Suffix(n)) \notin taken}
           first == CHOOSE n \in free : \A m \in free : n <= m
<1>1. Cardinality(taken) \in Nat /\ Cardinality(TemplateIds) \in Nat
  BY FS_CardinalityType, BoundsOfTemplates
<1>2. free # {} /\ free \subseteq Nat /\ free \subseteq NameLetters
  BY <1>1, OneIsFree DEF NameLetters
<1>3. \E n \in free : \A m \in free : n <= m
  <2> HIDE DEF free
  <2> QED BY <1>2, LeastOf
<1>4. first \in free
  <2> HIDE DEF free
  <2> QED BY <1>3
<1>5. duplicateName(base, taken) = Fit(base, Suffix(first))
  BY DEF duplicateName
<1>6. Fit(base, Suffix(first)) \notin taken /\ first \in NameLetters
  BY <1>2, <1>4
<1> HIDE DEF first
<1> QED BY <1>5, <1>6, FitIs

(***************************************************************************)
(* What the page lists.                                                    *)
(***************************************************************************)
LEMMA ListedAre ==
    ASSUME TemplatesInv
    PROVE  /\ Stocked \subseteq TemplateIds
           /\ \A i \in Stocked : listing.data[i] \in Submitted
           /\ VisibleTemplates \subseteq Stocked
           /\ ModalOpen => address \in TemplateIds \cup {"new"}
           /\ LabelFacets \subseteq Labels
<1>1. Stocked \subseteq TemplateIds
  BY DEF Stocked
<1>2. ASSUME NEW i \in Stocked
      PROVE  listing.data[i] \in Submitted
  <2>1. listing.data \in Shelves \cup {None} /\ listing.data # None /\ i \in TemplateIds /\ listing.data[i] # None
    BY <1>2 DEF TemplatesInv, Query, Stocked
  <2> QED BY <2>1 DEF Shelves
<1>3. LabelFacets \subseteq Labels
  BY <1>2, SheetIs DEF LabelFacets, Submitted
<1> QED BY <1>1, <1>2, <1>3 DEF VisibleTemplates, ModalOpen

\* There are no more names on the page than there are ids.
LEMMA NamesAreFew ==
    ASSUME TemplatesInv, NEW taken, taken = {listing.data[j].name : j \in Stocked}
    PROVE  IsFiniteSet(taken) /\ Cardinality(taken) <= Cardinality(TemplateIds)
<1>1. Stocked \subseteq TemplateIds /\ IsFiniteSet(TemplateIds)
  BY ListedAre, BoundsOfTemplates
<1>2. IsFiniteSet(Stocked) /\ Cardinality(Stocked) <= Cardinality(TemplateIds)
  BY <1>1, FS_Subset
<1> DEFINE f == [j \in Stocked |-> listing.data[j].name]
<1>3. f \in Surjection(Stocked, taken)
  BY DEF Surjection
<1> HIDE DEF f
<1>4. IsFiniteSet(taken) /\ Cardinality(taken) <= Cardinality(Stocked)
  BY <1>2, <1>3, FS_Surjection
<1>5. Cardinality(taken) \in Nat /\ Cardinality(Stocked) \in Nat /\ Cardinality(TemplateIds) \in Nat
  BY <1>1, <1>2, <1>4, FS_CardinalityType
<1> QED BY <1>2, <1>4, <1>5

\* The copy of a template of the list.
LEMMA CopyIs ==
    ASSUME TemplatesInv, NEW i \in Stocked, NEW body,
           body = [toTemplateIn(toTemplateForm(listing.data[i])) EXCEPT
                     !.name = duplicateName(@, {listing.data[j].name : j \in Stocked})]
    PROVE  /\ body \in Submitted
           /\ \A j \in Stocked : listing.data[j].name # body.name
           /\ Len(body.name) <= NameMax
           /\ [body EXCEPT !.name = listing.data[i].name] = listing.data[i]
<1> DEFINE taken == {listing.data[j].name : j \in Stocked}
           d == listing.data[i]
           name == duplicateName(d.name, taken)
<1>1. d \in Submitted /\ d \in Sheet /\ toTemplateIn(d) = d
  BY ListedAre DEF Submitted
<1>2. d.name \in NamesOf(NameMax)
  BY <1>1, SheetIs
<1>3. IsFiniteSet(taken) /\ Cardinality(taken) <= Cardinality(TemplateIds)
  BY NamesAreFew
<1>4. \A j \in Stocked : listing.data[j].name \in taken
  OBVIOUS
<1>5. body = [d EXCEPT !.name = name]
  BY <1>1 DEF toTemplateForm
<1> HIDE DEF taken, d
<1>6. name \in NamesOf(NameMax) /\ name \notin taken
  BY <1>2, <1>3, CopyIsNamed
<1> HIDE DEF name
<1>7. body \in Submitted /\ body.name = name /\ [body EXCEPT !.name = d.name] = d
  <2>1. /\ [d EXCEPT !.name = name] \in Submitted /\ [d EXCEPT !.name = name].name = name
        /\ [[d EXCEPT !.name = name] EXCEPT !.name = d.name] = d
    BY <1>1, <1>6, Renamed
  <2> QED BY <1>5, <2>1
<1>8. Len(name) <= NameMax
  BY <1>6, NameIs
<1> QED BY <1>4, <1>6, <1>7, <1>8 DEF d

(***************************************************************************)
(* The start.                                                              *)
(***************************************************************************)
LEMMA EmptyIsSent == emptyTemplateForm \in Sheet /\ emptyTemplateForm \in Submitted
<1>1. emptyTemplateForm \in Sheet
  BY ShortNames DEF emptyTemplateForm, Sheet, Picks, Labels
<1>2. toTemplateIn(emptyTemplateForm) = emptyTemplateForm
  <2>1. emptyTemplateForm.picks = {} /\ ~emptyTemplateForm.auto /\ ~emptyTemplateForm.tunnelled
    BY DEF emptyTemplateForm
  <2>2. PicksSent(emptyTemplateForm) = emptyTemplateForm.picks /\ AutoSent(emptyTemplateForm) = emptyTemplateForm.auto
    BY <1>1, <2>1, SheetIs DEF PicksSent, AutoSent
  <2> QED BY <1>1, <2>2, SentFieldsAre, SheetsAgree
<1> QED BY <1>1, <1>2 DEF Submitted

\* The server holds only what a form can send.
LEMMA ShapesAreSent == Shapes \subseteq Submitted
<1> DEFINE long == [k \in 1..NameMax |-> IF k = 1 THEN LetterA ELSE LetterB]
           one == [name |-> <<LetterA>>, port |-> "good", tunnelled |-> FALSE, picks |-> {"proxy", "dns"},
                   auto |-> TRUE, labels |-> Labels]
           two == [name |-> long, port |-> "none", tunnelled |-> TRUE, picks |-> {"tunnel"}, auto |-> FALSE,
                   labels |-> {"tag"}]
<1>1. Shapes = {one, two}
  BY DEF Shapes
<1>2. long \in NamesOf(NameMax)
  <2>1. LetterA \in NameLetters /\ LetterB \in NameLetters
    BY DEF NameLetters
  <2> HIDE DEF LetterA, LetterB
  <2>2. long \in [1..NameMax -> NameLetters] /\ NameMax \in 0..NameMax
    BY <2>1, BoundsOfTemplates
  <2> QED BY <2>2 DEF NamesOf
<1> HIDE DEF long
<1>3. one \in Sheet /\ two \in Sheet
  <2>1. /\ <<LetterA>> \in NamesOf(NameMax) /\ {"proxy", "dns"} \in Picks /\ {"tunnel"} \in Picks
        /\ Labels \in SUBSET Labels /\ {"tag"} \in SUBSET Labels
    BY ShortNames DEF Picks, Labels
  <2> QED BY <1>2, <2>1 DEF Sheet
<1>4. /\ one.picks = {"proxy", "dns"} /\ one.auto = TRUE /\ ~one.tunnelled
      /\ two.picks = {"tunnel"} /\ two.auto = FALSE /\ two.tunnelled
  OBVIOUS
<1> HIDE DEF one, two
<1>5. /\ PicksSent(one) = one.picks /\ AutoSent(one) = one.auto
      /\ PicksSent(two) = two.picks /\ AutoSent(two) = two.auto
  BY <1>4 DEF PicksSent, AutoSent
<1>6. toTemplateIn(one) = one /\ toTemplateIn(two) = two
  BY <1>3, <1>5, SentFieldsAre, SheetsAgree
<1> QED BY <1>1, <1>3, <1>6 DEF Submitted

\* The page opens with its list on the way.
LEMMA TemplatesAtFirst == TemplatesInit => TemplatesInv /\ ReadIsTrue
<1> SUFFICES ASSUME TemplatesInit PROVE TemplatesInv /\ ReadIsTrue
  OBVIOUS
<1>1. /\ shelf \in [TemplateIds -> Shapes \cup {None}]
      /\ freshIds = {i \in TemplateIds : shelf[i] = None}
      /\ listing = Asked(Unasked) /\ labelFilter = {}
      /\ address = None /\ sheet = emptyTemplateForm /\ conflict = FALSE /\ leaving = FALSE
      /\ deletingId = None /\ duplicatingId = None /\ doomed = None
      /\ posted = {} /\ misheard = FALSE /\ patches = 0 /\ posts = 0
  BY DEF TemplatesInit
<1>2. shelf \in Shelves
  BY <1>1, ShapesAreSent DEF Shelves
<1>3. listing \in Query(Shelves) /\ listing.ask = "asked"
  BY <1>1, FirstAskIs
<1>4. patches \in 0..MaxPatches /\ posts \in 0..MaxPosted
  BY <1>1, BoundsOfTemplates
<1>5. sheet \in Sheet
  BY <1>1, EmptyIsSent
<1>6. freshIds \subseteq TemplateIds
  BY <1>1
<1>7. TemplatesInv
  BY <1>1, <1>2, <1>3, <1>4, <1>5, <1>6 DEF TemplatesInv
<1> QED BY <1>3, <1>7 DEF ReadIsTrue

(***************************************************************************)
(* The steps.                                                              *)
(***************************************************************************)
LEMMA EditsAreSheets ==
    ASSUME NEW s \in Sheet
    PROVE  EditsOf(s) \subseteq Sheet
<1> SUFFICES ASSUME NEW e \in EditsOf(s) PROVE e \in Sheet
  OBVIOUS
<1>1. CASE e \in {[s EXCEPT !.name = name] : name \in {<<>>, <<LetterA>>}}
  <2>1. \A name \in NamesOf(NameMax) : [s EXCEPT !.name = name] \in Sheet
    BY DEF Sheet
  <2> HIDE DEF LetterA
  <2> QED BY <1>1, <2>1, ShortNames
<1>2. CASE e = [s EXCEPT !.port = "bad"]
  BY <1>2 DEF Sheet
<1>3. CASE e = [s EXCEPT !.tunnelled = ~@]
  <2> DEFINE x == ~s.tunnelled
  <2>1. x \in BOOLEAN /\ e = [s EXCEPT !.tunnelled = x]
    BY <1>3
  <2> HIDE DEF x
  <2> QED BY <2>1 DEF Sheet
<1>4. CASE e \in {[s EXCEPT !.picks = (s.picks \ {kind}) \cup ({kind} \ s.picks)] :
                     kind \in IF s.tunnelled THEN {"tunnel"} ELSE {"proxy", "dns"}}
  <2>1. PICK kind \in {"tunnel", "proxy", "dns"} : e = [s EXCEPT !.picks = (s.picks \ {kind}) \cup ({kind} \ s.picks)]
    BY <1>4
  <2> DEFINE x == (s.picks \ {kind}) \cup ({kind} \ s.picks)
  <2>2. x \in Picks
    BY SheetIs DEF Picks
  <2>3. e = [s EXCEPT !.picks = x]
    BY <2>1
  <2> HIDE DEF x
  <2> QED BY <2>2, <2>3 DEF Sheet
<1>5. CASE e = [s EXCEPT !.auto = ~@]
  <2> DEFINE x == ~s.auto
  <2>1. x \in BOOLEAN /\ e = [s EXCEPT !.auto = x]
    BY <1>5
  <2> HIDE DEF x
  <2> QED BY <2>1 DEF Sheet
<1>6. CASE e = [s EXCEPT !.labels = (@ \ {"tag"}) \cup ({"tag"} \ @)]
  <2> DEFINE x == (s.labels \ {"tag"}) \cup ({"tag"} \ s.labels)
  <2>1. x \in SUBSET Labels /\ e = [s EXCEPT !.labels = x]
    BY <1>6, SheetIs DEF Labels
  <2> HIDE DEF x
  <2> QED BY <2>1 DEF Sheet
<1> QED BY <1>1, <1>2, <1>3, <1>4, <1>5, <1>6 DEF EditsOf

\* A request that leaves is one of the requests.
LEMMA PostingIs ==
    ASSUME TemplatesInv, NEW op \in {"save", "copy", "delete"}, NEW id \in TemplateIds \cup {"new"},
           NEW body \in Submitted, PostRequest(op, id, body)
    PROVE  /\ posted' \subseteq SentPosts /\ posts' \in 0..MaxPosted
           /\ \A post \in posted' : post.at = "done" => post \in posted
           /\ \A post \in posted' \ posted : post = [op |-> op, id |-> id, body |-> body, at |-> "sent"]
           /\ \A post \in posted : post \in posted'
<1> DEFINE p == [op |-> op, id |-> id, body |-> body, at |-> "sent"]
<1>1. posts < MaxPosted /\ posts' = posts + 1 /\ posted' = posted \cup {p}
  BY DEF PostRequest
<1>2. p \in SentPosts /\ p.at = "sent"
  BY DEF SentPosts
<1>3. posts' \in 0..MaxPosted
  BY <1>1, BoundsOfTemplates DEF TemplatesInv
<1> HIDE DEF p
<1>4. posted' \subseteq SentPosts
  BY <1>1, <1>2 DEF TemplatesInv
<1>5. \A post \in posted' : post.at = "done" => post \in posted
  BY <1>1, <1>2
<1> QED BY <1>1, <1>3, <1>4, <1>5 DEF p

\* The lists of the server before and after a request.
LEMMA ServingIs ==
    ASSUME TemplatesInv, NEW post \in posted, ServePost(post)
    PROVE  /\ TemplatesInv'
           /\ \A p \in posted' \ posted : p.at # "sent"
           /\ \/ shelf' = shelf /\ misheard' = misheard /\ \A p \in posted : p.at = "done" => p \in posted'
              \/ misheard' = TRUE
              \/ \E p \in posted' : p.at = "done"
<1> DEFINE answer(at) == posted' = (posted \ {post}) \cup {[post EXCEPT !.at = at]}
           clash == post.op # "delete" /\ (Taken(post) \/ (post.op = "copy" /\ \E j \in TemplateIds :
                        shelf[j] # None /\ shelf[j].name = post.body.name))
<1>1. /\ post.at = "sent"
      /\ \/ answer("failed") /\ UNCHANGED theShelf
         \/ clash /\ answer("taken") /\ UNCHANGED theShelf
         \/ /\ ~clash /\ shelf' \in Puts(post)
            /\ freshIds' = {i \in freshIds : shelf'[i] = None}
            /\ \/ answer("done") /\ UNCHANGED misheard
               \/ answer("failed") /\ misheard' = TRUE
      /\ UNCHANGED thePage /\ UNCHANGED theDialog /\ UNCHANGED theCards /\ UNCHANGED templateCounts
  BY DEF ServePost
<1> HIDE DEF clash
<1>2. post \in SentPosts
  BY DEF TemplatesInv
<1>3. ASSUME NEW at \in {"done", "failed", "taken"}, answer(at)
      PROVE  /\ posted' \subseteq SentPosts
             /\ \A p \in posted' \ posted : p.at # "sent"
             /\ \A p \in posted : p.at = "done" => p \in posted'
             /\ at = "done" => \E p \in posted' : p.at = "done"
  <2> DEFINE said == [post EXCEPT !.at = at]
  <2>1. said \in SentPosts /\ said.at = at
    BY <1>2 DEF SentPosts
  <2>2. posted' = (posted \ {post}) \cup {said}
    BY <1>3
  <2> HIDE DEF said
  <2> QED BY <1>1, <2>1, <2>2 DEF TemplatesInv
<1>4. ASSUME UNCHANGED theShelf
      PROVE  shelf' = shelf /\ misheard' = misheard /\ freshIds' = freshIds
  BY <1>4 DEF theShelf
<1>5. ASSUME shelf' \in Puts(post)
      PROVE  shelf' \in Shelves
  <2>1. post.body \in Submitted
    BY <1>2 DEF SentPosts
  <2>2. ASSUME NEW i \in TemplateIds, NEW v \in Submitted \cup {None}
        PROVE  [shelf EXCEPT ![i] = v] \in Shelves
    BY DEF TemplatesInv, Shelves
  <2>3. CASE post.op \in {"delete", "save"} /\ post.id \in TemplateIds
    <3> DEFINE v == IF post.op = "delete" THEN None ELSE post.body
    <3>1. shelf' = [shelf EXCEPT ![post.id] = v]
      BY <1>5, <2>3 DEF Puts
    <3>2. v \in Submitted \cup {None}
      BY <2>1
    <3> HIDE DEF v
    <3> QED BY <2>2, <2>3, <3>1, <3>2
  <2>4. CASE ~(post.op \in {"delete", "save"} /\ post.id \in TemplateIds)
    <3>1. PICK i \in freshIds : shelf' = [shelf EXCEPT ![i] = post.body]
      BY <1>5, <2>4 DEF Puts
    <3>2. i \in TemplateIds
      BY DEF TemplatesInv
    <3> QED BY <2>1, <2>2, <3>1, <3>2
  <2> QED BY <2>3, <2>4
<1>6. posted' \subseteq SentPosts /\ \A p \in posted' \ posted : p.at # "sent"
  BY <1>1, <1>3
<1>7. shelf' \in Shelves /\ freshIds' \subseteq TemplateIds /\ misheard' \in BOOLEAN
  <2>1. CASE UNCHANGED theShelf
    BY <1>4, <2>1 DEF TemplatesInv
  <2>2. CASE shelf' \in Puts(post) /\ freshIds' = {i \in freshIds : shelf'[i] = None} /\ misheard' \in {misheard, TRUE}
    BY <1>5, <2>2 DEF TemplatesInv
  <2> QED BY <1>1, <2>1, <2>2
<1>8. TemplatesInv'
  BY <1>1, <1>6, <1>7 DEF TemplatesInv, thePage, theDialog, theCards, templateCounts
<1>9. \/ shelf' = shelf /\ misheard' = misheard /\ \A p \in posted : p.at = "done" => p \in posted'
      \/ misheard' = TRUE
      \/ \E p \in posted' : p.at = "done"
  BY <1>1, <1>3, <1>4
<1> QED BY <1>6, <1>8, <1>9

\* The answer of a change that was made has the list read again, and closes the dialog
\* when it was a save.
LEMMA LandingIs ==
    ASSUME TemplatesInv, NEW post \in posted, PostLands(post)
    PROVE  /\ TemplatesInv'
           /\ posted' = posted \ {post}
           /\ post.at = "done" => listing'.ask = "asked" \/ misheard'
           /\ post.at # "done" => UNCHANGED <<listing, misheard>>
           /\ UNCHANGED shelf /\ (misheard => misheard')
           /\ address' = address \/ (post.op = "save" /\ post.at = "done")
<1>1. /\ post.at # "sent" /\ posted' = posted \ {post}
      /\ IF post.at = "done" /\ post.op \in ReadAfter
         THEN listing' \in ListAgain(post) /\ misheard' = (misheard \/ listing'.ask = "idle")
         ELSE UNCHANGED <<listing, misheard>>
      /\ address' = IF post.op = "save" /\ post.at = "done" THEN None ELSE address
      /\ leaving' = (leaving /\ address' = address)
      /\ conflict' = (conflict \/ (post.op = "save" /\ post.at = "taken" /\ ModalOpen /\ address = post.id))
      /\ deletingId' = IF post.op = "delete" THEN None ELSE deletingId
      /\ duplicatingId' = IF post.op = "copy" THEN None ELSE duplicatingId
      /\ UNCHANGED <<labelFilter, sheet, doomed, shelf, freshIds>> /\ UNCHANGED templateCounts
  BY DEF PostLands
<1>2. post \in SentPosts
  BY DEF TemplatesInv
<1>3. post.op \in ReadAfter
  BY <1>2 DEF SentPosts, ReadAfter
<1>4. listing \in Query(Shelves) /\ Asked(listing) \in Query(Shelves) /\ Asked(listing).ask = "asked"
  BY AskedIs DEF TemplatesInv
<1>5. /\ listing' \in Query(Shelves) /\ misheard' \in BOOLEAN /\ (misheard => misheard')
      /\ post.at = "done" => listing'.ask = "asked" \/ misheard'
      /\ post.at # "done" => UNCHANGED <<listing, misheard>>
  <2>1. CASE post.at # "done"
    BY <1>1, <1>4, <2>1 DEF TemplatesInv
  <2>2. CASE post.at = "done"
    <3>1. listing' \in ListAgain(post) /\ misheard' = (misheard \/ listing'.ask = "idle")
      BY <1>1, <1>3, <2>2
    <3>2. listing' = Asked(listing) \/ (listing' = listing /\ listing.ask = "idle")
      BY <3>1 DEF ListAgain, Reread
    <3> QED BY <1>4, <2>2, <3>1, <3>2 DEF TemplatesInv
  <2> QED BY <2>1, <2>2
<1>6. address' \in TemplateIds \cup {"new", None}
      /\ leaving' \in BOOLEAN /\ conflict' \in BOOLEAN
      /\ deletingId' \in {None, deletingId} /\ duplicatingId' \in {None, duplicatingId}
  BY <1>1 DEF TemplatesInv
<1>7. TemplatesInv'
  BY <1>1, <1>5, <1>6 DEF TemplatesInv, templateCounts
<1> QED BY <1>1, <1>5, <1>7

\* What was read stays true while the server's shelf, the list and the calls stay.
LEMMA StaysTrue ==
    ASSUME ReadIsTrue, UNCHANGED <<shelf, listing, misheard>>, \A p \in posted : p.at = "done" => p \in posted'
    PROVE  ReadIsTrue'
BY DEF ReadIsTrue, Usable

\* The list is read and filtered.
LEMMA ReadingIs ==
    ASSUME TemplatesInv, ReadIsTrue, ListingLands \/ ListingRetry \/ ToggleLabelFilter
    PROVE  TemplatesInv' /\ ReadIsTrue'
<1>1. CASE ListingLands
  <2>1. /\ listing' \in {Landed(shelf), Failed(listing)}
        /\ UNCHANGED <<labelFilter, posted>> /\ UNCHANGED theDialog /\ UNCHANGED theCards /\ UNCHANGED theShelf
        /\ UNCHANGED templateCounts
    BY <1>1 DEF ListingLands
  <2>2. /\ Landed(shelf) \in Query(Shelves) /\ Landed(shelf).data = shelf
        /\ Failed(listing) \in Query(Shelves) /\ ~Usable(Failed(listing))
    BY LandedIs, FailedIs DEF TemplatesInv
  <2>3. TemplatesInv'
    BY <2>1, <2>2 DEF TemplatesInv, theDialog, theCards, theShelf, templateCounts
  <2>4. shelf' = shelf
    BY <2>1 DEF theShelf
  <2>5. Usable(listing') => listing'.data = shelf'
    BY <2>1, <2>2, <2>4
  <2> QED BY <2>3, <2>5 DEF ReadIsTrue, Usable
<1>2. CASE ListingRetry
  <2>1. /\ listing' = Asked(listing)
        /\ UNCHANGED <<labelFilter, posted>> /\ UNCHANGED theDialog /\ UNCHANGED theCards /\ UNCHANGED theShelf
        /\ UNCHANGED templateCounts
    BY <1>2 DEF ListingRetry
  <2>2. Asked(listing) \in Query(Shelves) /\ Asked(listing).ask = "asked"
    BY AskedIs DEF TemplatesInv
  <2>3. TemplatesInv'
    BY <2>1, <2>2 DEF TemplatesInv, theDialog, theCards, theShelf, templateCounts
  <2> QED BY <2>1, <2>2, <2>3 DEF ReadIsTrue
<1>3. CASE ToggleLabelFilter
  <2>1. labelFilter' \subseteq Labels
    BY <1>3, ListedAre DEF ToggleLabelFilter, TemplatesInv
  <2>2. /\ UNCHANGED <<listing, posted>> /\ UNCHANGED theDialog /\ UNCHANGED theCards /\ UNCHANGED theShelf
        /\ UNCHANGED templateCounts
    BY <1>3 DEF ToggleLabelFilter
  <2>3. TemplatesInv'
    BY <2>1, <2>2 DEF TemplatesInv, theDialog, theCards, theShelf, templateCounts
  <2>4. ReadIsTrue'
    BY <2>2, StaysTrue DEF theShelf
  <2> QED BY <2>3, <2>4
<1> QED BY <1>1, <1>2, <1>3

\* The dialog is opened, typed in and left.
LEMMA TypingIs ==
    ASSUME TemplatesInv, ReadIsTrue, OpenDialog \/ Patch \/ RequestLeave \/ AnswerLeave
    PROVE  TemplatesInv' /\ ReadIsTrue'
<1>1. UNCHANGED posted /\ UNCHANGED thePage /\ UNCHANGED theCards /\ UNCHANGED theShelf
  BY DEF OpenDialog, Patch, RequestLeave, AnswerLeave
<1>2. ReadIsTrue'
  BY <1>1, StaysTrue DEF thePage, theShelf
<1>3. CASE OpenDialog
  <2>1. /\ address' \in {"new"} \cup VisibleTemplates
        /\ sheet' = IF address' = "new" THEN emptyTemplateForm ELSE toTemplateForm(listing.data[address'])
        /\ conflict' = FALSE /\ leaving' = FALSE /\ UNCHANGED templateCounts
    BY <1>3 DEF OpenDialog
  <2>2. address' \in TemplateIds \cup {"new", None}
    BY <2>1, ListedAre
  <2>3. sheet' \in Sheet
    BY <2>1, ListedAre, EmptyIsSent DEF toTemplateForm, Submitted
  <2> QED BY <1>1, <1>2, <2>1, <2>2, <2>3 DEF TemplatesInv, thePage, theCards, theShelf, templateCounts
<1>4. CASE Patch
  <2>1. sheet' \in EditsOf(sheet) /\ patches < MaxPatches /\ patches' = patches + 1
        /\ conflict' = (conflict /\ sheet'.name = sheet.name) /\ UNCHANGED <<address, leaving, posts>>
    BY <1>4 DEF Patch
  <2>2. sheet' \in Sheet
    BY <2>1, EditsAreSheets DEF TemplatesInv
  <2>3. patches' \in 0..MaxPatches
    BY <2>1, BoundsOfTemplates DEF TemplatesInv
  <2>4. conflict' \in BOOLEAN
    BY <2>1
  <2> QED BY <1>1, <1>2, <2>1, <2>2, <2>3, <2>4 DEF TemplatesInv, thePage, theCards, theShelf
<1>5. CASE RequestLeave
  <2>1. address' \in {address, None} /\ leaving' \in {leaving, TRUE} /\ UNCHANGED <<sheet, conflict>>
        /\ UNCHANGED templateCounts
    BY <1>5 DEF RequestLeave
  <2> QED BY <1>1, <1>2, <2>1 DEF TemplatesInv, thePage, theCards, theShelf, templateCounts
<1>6. CASE AnswerLeave
  <2>1. address' \in {address, None} /\ leaving' = FALSE /\ UNCHANGED <<sheet, conflict>>
        /\ UNCHANGED templateCounts
    BY <1>6 DEF AnswerLeave
  <2> QED BY <1>1, <1>2, <2>1 DEF TemplatesInv, thePage, theCards, theShelf, templateCounts
<1> QED BY <1>3, <1>4, <1>5, <1>6

\* Requests leave.
LEMMA RequestingIs ==
    ASSUME TemplatesInv, ReadIsTrue,
           HandleSubmit \/ ConfirmDelete \/ \E i \in TemplateIds : HandleDuplicate(i) \/ HandleDelete(i)
    PROVE  TemplatesInv' /\ ReadIsTrue'
<1>1. CASE HandleSubmit
  <2>1. /\ PostRequest("save", address, toTemplateIn(sheet)) /\ ModalOpen
        /\ UNCHANGED thePage /\ UNCHANGED theDialog /\ UNCHANGED theCards /\ UNCHANGED theShelf /\ UNCHANGED patches
    BY <1>1 DEF HandleSubmit
  <2>2. toTemplateIn(sheet) \in Submitted /\ address \in TemplateIds \cup {"new"}
    BY <2>1, SentOnce, ListedAre DEF TemplatesInv
  <2>3. posted' \subseteq SentPosts /\ posts' \in 0..MaxPosted /\ \A post \in posted : post \in posted'
    BY <2>1, <2>2, PostingIs
  <2>4. TemplatesInv'
    BY <2>1, <2>3 DEF TemplatesInv, thePage, theDialog, theCards, theShelf
  <2> QED BY <2>1, <2>3, <2>4, StaysTrue DEF thePage, theShelf
<1>2. CASE ConfirmDelete
  <2>1. /\ doomed # None /\ doomed' = None
        /\ \/ UNCHANGED <<deletingId, posted, posts>>
           \/ deletingId' = doomed /\ PostRequest("delete", doomed, emptyTemplateForm)
        /\ UNCHANGED duplicatingId
        /\ UNCHANGED thePage /\ UNCHANGED theDialog /\ UNCHANGED theShelf /\ UNCHANGED patches
    BY <1>2 DEF ConfirmDelete
  <2>2. doomed \in TemplateIds
    BY <2>1 DEF TemplatesInv
  <2>3. /\ posted' \subseteq SentPosts /\ posts' \in 0..MaxPosted /\ (\A post \in posted : post \in posted')
        /\ deletingId' \in TemplateIds \cup {None}
    <3>1. CASE UNCHANGED <<deletingId, posted, posts>>
      BY <3>1 DEF TemplatesInv
    <3>2. CASE deletingId' = doomed /\ PostRequest("delete", doomed, emptyTemplateForm)
      BY <2>2, <3>2, EmptyIsSent, PostingIs
    <3> QED BY <2>1, <3>1, <3>2
  <2>4. TemplatesInv'
    BY <2>1, <2>3 DEF TemplatesInv, thePage, theDialog, theShelf
  <2> QED BY <2>1, <2>3, <2>4, StaysTrue DEF thePage, theShelf
<1>3. CASE \E i \in TemplateIds : HandleDuplicate(i)
  <2>1. PICK i \in TemplateIds : HandleDuplicate(i)
    BY <1>3
  <2> DEFINE body == [toTemplateIn(toTemplateForm(listing.data[i])) EXCEPT
                        !.name = duplicateName(@, {listing.data[j].name : j \in Stocked})]
  <2>2. /\ i \in VisibleTemplates /\ duplicatingId' = i /\ PostRequest("copy", i, body)
        /\ UNCHANGED <<deletingId, doomed>>
        /\ UNCHANGED thePage /\ UNCHANGED theDialog /\ UNCHANGED theShelf /\ UNCHANGED patches
    BY <2>1 DEF HandleDuplicate
  <2>3. body \in Submitted
    BY <2>2, ListedAre, CopyIs
  <2> HIDE DEF body
  <2>4. posted' \subseteq SentPosts /\ posts' \in 0..MaxPosted /\ \A post \in posted : post \in posted'
    BY <2>2, <2>3, PostingIs
  <2>5. TemplatesInv'
    BY <2>2, <2>4 DEF TemplatesInv, thePage, theDialog, theShelf
  <2> QED BY <2>2, <2>4, <2>5, StaysTrue DEF thePage, theShelf
<1>4. CASE \E i \in TemplateIds : HandleDelete(i)
  <2>1. /\ doomed' \in TemplateIds /\ UNCHANGED <<deletingId, duplicatingId, posted>>
        /\ UNCHANGED thePage /\ UNCHANGED theDialog /\ UNCHANGED theShelf /\ UNCHANGED templateCounts
    BY <1>4 DEF HandleDelete
  <2>2. TemplatesInv'
    BY <2>1 DEF TemplatesInv, thePage, theDialog, theShelf, templateCounts
  <2> QED BY <2>1, <2>2, StaysTrue DEF thePage, theShelf
<1> QED BY <1>1, <1>2, <1>3, <1>4

\* No step of the page breaks its invariant, nor makes what it read untrue.
LEMMA TemplatesStep ==
    ASSUME TemplatesInv, ReadIsTrue, [TemplatesNext]_templateVars
    PROVE  TemplatesInv' /\ ReadIsTrue'
<1>1. ASSUME NEW post \in posted, ServePost(post)
      PROVE  TemplatesInv' /\ ReadIsTrue'
  <2>1. /\ TemplatesInv'
        /\ \/ shelf' = shelf /\ misheard' = misheard /\ \A p \in posted : p.at = "done" => p \in posted'
           \/ misheard' = TRUE
           \/ \E p \in posted' : p.at = "done"
    BY <1>1, ServingIs
  <2>2. listing' = listing
    BY <1>1 DEF ServePost, thePage
  <2> QED BY <2>1, <2>2, StaysTrue DEF ReadIsTrue
<1>2. ASSUME NEW post \in posted, PostLands(post)
      PROVE  TemplatesInv' /\ ReadIsTrue'
  <2>1. /\ TemplatesInv' /\ posted' = posted \ {post}
        /\ post.at = "done" => listing'.ask = "asked" \/ misheard'
        /\ post.at # "done" => UNCHANGED <<listing, misheard>>
        /\ UNCHANGED shelf
    BY <1>2, LandingIs
  <2>2. CASE post.at = "done"
    BY <2>1, <2>2 DEF ReadIsTrue
  <2>3. CASE post.at # "done"
    BY <2>1, <2>3, StaysTrue
  <2> QED BY <2>1, <2>2, <2>3
<1>3. CASE UNCHANGED templateVars
  <2>1. TemplatesInv'
    BY <1>3 DEF TemplatesInv, templateVars, thePage, theDialog, theCards, theShelf, templateCounts
  <2> QED BY <1>3, <2>1, StaysTrue DEF templateVars, thePage, theShelf
<1> QED BY <1>1, <1>2, <1>3, ReadingIs, TypingIs, RequestingIs DEF TemplatesNext

\* What is listed and under way are sheets as they are sent, and a list that was read with
\* no change unheard is the server's.
THEOREM TemplatesInvHolds == TemplatesSpec => [](TemplatesInv /\ ReadIsTrue)
<1>1. TemplatesInv /\ ReadIsTrue /\ [TemplatesNext]_templateVars => (TemplatesInv /\ ReadIsTrue)'
  BY TemplatesStep
<1> QED BY TemplatesAtFirst, <1>1, PTL DEF TemplatesSpec

\* Every variable of the templates stays of its type; the name of a copy is never too long.
THEOREM TemplatesTypeCorrect == TemplatesSpec => []TemplatesTypeOK
<1>1. TemplatesInv => TemplatesTypeOK
  <2> SUFFICES ASSUME TemplatesInv PROVE TemplatesTypeOK
    OBVIOUS
  <2>1. \A i \in TemplateIds : shelf[i] = None \/ shelf[i] \in Sheet
    BY DEF TemplatesInv, Shelves, Submitted
  <2>2. \A post \in posted : post.body.name \in NamesOf(NameMax) /\ post \in Posts
    BY SheetIs DEF TemplatesInv, SentPosts, Submitted, Posts
  <2>3. listing.ask \in {"idle", "asked"}
    BY DEF TemplatesInv, Query
  <2> QED BY <2>1, <2>2, <2>3 DEF TemplatesInv, TemplatesTypeOK
<1> QED BY <1>1, TemplatesInvHolds, PTL

\* At rest the page lists what the server holds, whatever order the answers came in
\* (Templates.tsx:207).
THEOREM ShelfIsCaughtUp == TemplatesSpec => []ShelfIsListed
<1>1. ReadIsTrue => ShelfIsListed
  BY DEF ReadIsTrue, ShelfIsListed
<1> QED BY <1>1, TemplatesInvHolds, PTL

\* A copy is sent under a name that is free in the list it was made from, fits, and is in
\* all else the template it was made from (types.ts:228).
THEOREM CopiesAreFaithful == TemplatesSpec => CopyIsFaithful
<1> DEFINE Faithful ==
             \A post \in posted' \ posted : post.op = "copy" /\ post.at = "sent" =>
                 /\ \A j \in Stocked : listing.data[j].name # post.body.name
                 /\ Len(post.body.name) <= NameMax
                 /\ [post.body EXCEPT !.name = listing.data[post.id].name] = listing.data[post.id]
<1>1. TemplatesInv /\ [TemplatesNext]_templateVars => [Faithful]_templateVars
  <2> SUFFICES ASSUME TemplatesInv, TemplatesNext,
                      NEW post \in posted' \ posted, post.op = "copy", post.at = "sent"
               PROVE  /\ \A j \in Stocked : listing.data[j].name # post.body.name
                      /\ Len(post.body.name) <= NameMax
                      /\ [post.body EXCEPT !.name = listing.data[post.id].name] = listing.data[post.id]
    OBVIOUS
  <2>1. ASSUME NEW i \in TemplateIds, HandleDuplicate(i)
        PROVE  /\ \A j \in Stocked : listing.data[j].name # post.body.name
               /\ Len(post.body.name) <= NameMax
               /\ [post.body EXCEPT !.name = listing.data[post.id].name] = listing.data[post.id]
    <3> DEFINE body == [toTemplateIn(toTemplateForm(listing.data[i])) EXCEPT
                          !.name = duplicateName(@, {listing.data[j].name : j \in Stocked})]
    <3>1. i \in VisibleTemplates /\ PostRequest("copy", i, body)
      BY <2>1 DEF HandleDuplicate
    <3>2. i \in Stocked
      BY <3>1, ListedAre
    <3>3. /\ body \in Submitted /\ (\A j \in Stocked : listing.data[j].name # body.name) /\ Len(body.name) <= NameMax
          /\ [body EXCEPT !.name = listing.data[i].name] = listing.data[i]
      BY <3>2, CopyIs
    <3> HIDE DEF body
    <3>4. post.body = body /\ post.id = i
      BY <3>1, <3>3, PostingIs
    <3> QED BY <3>3, <3>4
  <2>2. ~HandleSubmit
    <3> SUFFICES ASSUME HandleSubmit PROVE FALSE
      OBVIOUS
    <3>1. PostRequest("save", address, toTemplateIn(sheet))
      BY DEF HandleSubmit
    <3> QED BY <3>1 DEF PostRequest
  <2>3. ~ConfirmDelete
    <3> SUFFICES ASSUME ConfirmDelete PROVE FALSE
      OBVIOUS
    <3>1. posted' = posted \/ PostRequest("delete", doomed, emptyTemplateForm)
      BY DEF ConfirmDelete
    <3> QED BY <3>1 DEF PostRequest
  <2>4. ASSUME NEW p \in posted, ServePost(p)
        PROVE  FALSE
    BY <2>4, ServingIs
  <2>5. ASSUME NEW p \in posted, PostLands(p)
        PROVE  FALSE
    BY <2>5, LandingIs
  <2>6. ~(\/ ListingLands \/ ListingRetry \/ ToggleLabelFilter \/ OpenDialog \/ Patch \/ RequestLeave \/ AnswerLeave
          \/ \E i \in TemplateIds : HandleDelete(i))
    BY DEF ListingLands, ListingRetry, ToggleLabelFilter, OpenDialog, Patch, RequestLeave, AnswerLeave, HandleDelete
  <2> QED BY <2>1, <2>2, <2>3, <2>4, <2>5, <2>6 DEF TemplatesNext
<1>2. ([][Faithful]_templateVars) <=> CopyIsFaithful
  BY DEF CopyIsFaithful
<1> QED BY <1>1, <1>2, TemplatesInvHolds, PTL DEF TemplatesSpec

\* What was typed is only lost to an answer that says so, to a save that was made, and to
\* a template that has gone from the list (TemplateModal.tsx:188).
THEOREM TypedIsKept == TemplatesSpec => TypedIsAskedAbout
<1> DEFINE AskedAbout ==
             ModalOpen /\ Dirty /\ ~ModalOpen' =>
                 \/ leaving \/ listing' # listing
                 \/ \E post \in posted \ posted' : post.op = "save" /\ post.at = "done"
<1>1. TemplatesInv /\ [TemplatesNext]_templateVars => [AskedAbout]_templateVars
  <2> SUFFICES ASSUME TemplatesInv, TemplatesNext, ModalOpen, Dirty, ~ModalOpen', ~leaving, listing' = listing
               PROVE  \E post \in posted \ posted' : post.op = "save" /\ post.at = "done"
    OBVIOUS
  <2>1. address' # address
    BY DEF ModalOpen, Stocked
  <2>2. \E post \in posted : PostLands(post)
    BY <2>1 DEF TemplatesNext, ListingLands, ListingRetry, ToggleLabelFilter, OpenDialog, Patch, RequestLeave,
                Guarded, AnswerLeave, HandleSubmit, ConfirmDelete, HandleDuplicate, HandleDelete, ServePost, theDialog
  <2>3. PICK post \in posted : PostLands(post)
    BY <2>2
  <2>4. posted' = posted \ {post} /\ post.op = "save" /\ post.at = "done"
    BY <2>1, <2>3, LandingIs
  <2> QED BY <2>4
<1>2. ([][AskedAbout]_templateVars) <=> TypedIsAskedAbout
  BY DEF TypedIsAskedAbout
<1> QED BY <1>1, <1>2, TemplatesInvHolds, PTL DEF TemplatesSpec

(***************************************************************************)
(* The form of a route.  What it promises is about every form of its type, *)
(* and every edit keeps the type.                                          *)
(***************************************************************************)
LEMMA NoneServesNothing ==
    /\ None \notin Proxies /\ None \notin Tunnels /\ None \notin Dns /\ None \notin Integrations /\ None \notin AutoDns
    /\ AutoDns \subseteq Dns
BY RouteFormAssumption DEF Dns, Integrations

\* A form with fields of their types is one.
LEMMA FormOf ==
    ASSUME NEW name \in Names, NEW target \in {"empty", "lan"}, NEW port \in {0, 80}, NEW mode \in Modes,
           NEW proxy \in Proxies \cup {None}, NEW dns \in Dns \cup {None}, NEW tunnel \in Tunnels \cup {None},
           NEW extraProxies \in SUBSET Proxies, NEW extraDns \in SUBSET Dns,
           NEW auto \in BOOLEAN, NEW follow \in BOOLEAN, NEW ip \in Addresses, NEW labelled \in BOOLEAN
    PROVE  [name |-> name, target |-> target, port |-> port, mode |-> mode, proxy |-> proxy, dns |-> dns,
            tunnel |-> tunnel, extraProxies |-> extraProxies, extraDns |-> extraDns, auto |-> auto,
            follow |-> follow, ip |-> ip, labelled |-> labelled] \in Form
BY DEF Form

\* The fields of a form of a route.
LEMMA FieldsAre ==
    ASSUME NEW f \in Form
    PROVE  /\ f.name \in Names /\ f.target \in {"empty", "lan"} /\ f.port \in {0, 80} /\ f.mode \in Modes
           /\ f.proxy \in Proxies \cup {None} /\ f.dns \in Dns \cup {None} /\ f.tunnel \in Tunnels \cup {None}
           /\ f.extraProxies \in SUBSET Proxies /\ f.extraDns \in SUBSET Dns
           /\ f.auto \in BOOLEAN /\ f.follow \in BOOLEAN /\ f.ip \in Addresses /\ f.labelled \in BOOLEAN
BY DEF Form

\* Choosing how to publish gives a form,
LEMMA ChoicesAreForms ==
    ASSUME NEW f \in Form
    PROVE  ChooseDnsOnly(f) \cup ChooseDnsProxy(f) \cup ChooseTunnel(f) \subseteq Form
<1>0. {"dns_only", "dns_proxy", "tunnel"} \subseteq Modes /\ "empty" \in Addresses /\ {} \in SUBSET Proxies
  BY DEF Modes, Addresses
<1>1. ChooseDnsOnly(f) \subseteq Form
  <2>1. [f EXCEPT !.mode = "dns_only", !.proxy = None, !.extraProxies = {}, !.tunnel = None] \in Form
    BY <1>0 DEF Form
  <2> QED BY <2>1 DEF ChooseDnsOnly
<1>2. ChooseDnsProxy(f) \subseteq Form
  <2> DEFINE x == IF f.mode = "tunnel" THEN {} ELSE f.extraProxies
  <2>1. x \in SUBSET Proxies
    BY FieldsAre
  <2> HIDE DEF x
  <2>2. [f EXCEPT !.mode = "dns_proxy", !.port = 80, !.tunnel = None, !.extraProxies = x] \in Form
    BY <1>0, <2>1, ZenonT(90) DEF Form
  <2> QED BY <2>2 DEF ChooseDnsProxy, x
<1>3. ChooseTunnel(f) \subseteq Form
  <2>1. [f EXCEPT !.mode = "tunnel", !.port = 80, !.auto = FALSE, !.follow = FALSE,
                  !.proxy = None, !.dns = None, !.ip = "empty", !.extraProxies = {}] \in Form
    BY <1>0, ZenonT(90) DEF Form
  <2> QED BY <2>1 DEF ChooseTunnel
<1> QED BY <1>1, <1>2, <1>3

\* so does picking a proxy or a DNS,
LEMMA PicksAreForms ==
    ASSUME NEW f \in Form
    PROVE  PickProxy(f) \cup PickDns(f) \subseteq Form
<1>1. PickProxy(f) \subseteq Form
  <2> SUFFICES ASSUME NEW e \in PickProxy(f) PROVE e \in Form
    OBVIOUS
  <2>1. PICK p \in (Proxies \cap live) \cup {None} :
            e = [f EXCEPT !.proxy = p, !.extraProxies = @ \ {p},
                          !.ip = IF @ = "empty" /\ f.dns \in Locals \cap live /\ p # None
                                 THEN "typed" ELSE @]
    BY DEF PickProxy
  <2> DEFINE x == f.extraProxies \ {p}
             y == IF f.ip = "empty" /\ f.dns \in Locals \cap live /\ p # None THEN "typed" ELSE f.ip
  <2>2. x \in SUBSET Proxies /\ y \in Addresses /\ p \in Proxies \cup {None}
    BY FieldsAre DEF Addresses
  <2>3. e = [f EXCEPT !.proxy = p, !.extraProxies = x, !.ip = y]
    BY <2>1
  <2> HIDE DEF x, y
  <2> QED BY <2>2, <2>3 DEF Form
<1>2. PickDns(f) \subseteq Form
  <2> SUFFICES ASSUME NEW e \in PickDns(f) PROVE e \in Form
    OBVIOUS
  <2> DEFINE Next(d) == [f EXCEPT !.dns = d, !.extraDns = @ \ {d},
                             !.ip = IF d # None /\ (f.dns \in Publics \cap live) # (d \in Publics)
                                    THEN "empty" ELSE @]
  <2>1. PICK d \in (Dns \cap live) \cup {None} :
            e = [Next(d) EXCEPT !.auto = autoPublicTarget(Next(d)), !.follow = autoPublicTarget(Next(d)) /\ @]
    BY DEF PickDns
  <2> DEFINE x == f.extraDns \ {d}
             y == IF d # None /\ (f.dns \in Publics \cap live) # (d \in Publics) THEN "empty" ELSE f.ip
  <2>2. x \in SUBSET Dns /\ y \in Addresses /\ d \in Dns \cup {None}
    BY FieldsAre DEF Addresses
  <2>3. Next(d) = [f EXCEPT !.dns = d, !.extraDns = x, !.ip = y]
    OBVIOUS
  <2> HIDE DEF x, y, Next
  <2>4. Next(d) \in Form
    <3>1. [f EXCEPT !.dns = d, !.extraDns = x, !.ip = y] \in Form
      BY <2>2 DEF Form
    <3> QED BY <2>3, <3>1
  <2> DEFINE next == Next(d)
             auto == autoPublicTarget(next)
             follow == auto /\ next.follow
  <2>5. auto \in BOOLEAN /\ follow \in BOOLEAN
    BY DEF autoPublicTarget
  <2>6. e = [next EXCEPT !.auto = auto, !.follow = follow]
    BY <2>1
  <2> HIDE DEF auto, follow
  <2> QED BY <2>4, <2>5, <2>6, ZenonT(90) DEF Form
<1> QED BY <1>1, <1>2

\* and so does every edit.
LEMMA EditsAreForms ==
    ASSUME NEW f \in Form, found \in {"empty", "found"}
    PROVE  Edits(f) \subseteq Form
<1>1. EditName(f) \subseteq Form /\ EditPort(f) \subseteq Form /\ PickTunnel(f) \subseteq Form
  <2>1. \A v \in Names : [f EXCEPT !.name = v] \in Form
    BY DEF Form
  <2>2. \A v \in {0, 80} : [f EXCEPT !.port = v] \in Form
    BY DEF Form
  <2>3. \A v \in Tunnels \cup {None} : [f EXCEPT !.tunnel = v] \in Form
    BY DEF Form
  <2>4. EditPort(f) \subseteq Form
    BY <2>2 DEF EditPort
  <2>5. PickTunnel(f) \subseteq Form
    BY <2>3 DEF PickTunnel
  <2> QED BY <2>1, <2>4, <2>5 DEF EditName
<1>2. parseTargetInput(f) \subseteq Form
  <2>1. \A v \in {"empty", "lan"} : \A w \in {0, 80} : [f EXCEPT !.target = v, !.port = w] \in Form
    BY DEF Form
  <2>2. f.port \in {0, 80}
    BY FieldsAre
  <2> SUFFICES ASSUME NEW e \in parseTargetInput(f) PROVE e \in Form
    OBVIOUS
  <2>3. PICK target \in {"empty", "lan"}, port \in {f.port, 80} :
            e = [f EXCEPT !.target = target, !.port = port]
    BY DEF parseTargetInput
  <2>4. port \in {0, 80}
    BY <2>2, <2>3
  <2> QED BY <2>1, <2>3, <2>4
<1>3. ToggleProxy(f) \subseteq Form
  <2> SUFFICES ASSUME NEW e \in ToggleProxy(f) PROVE e \in Form
    OBVIOUS
  <2>1. PICK p \in (Proxies \cap live) \ {f.proxy} :
            e = [f EXCEPT !.extraProxies = IF p \in @ THEN @ \ {p} ELSE @ \cup {p}]
    BY DEF ToggleProxy
  <2> DEFINE x == IF p \in f.extraProxies THEN f.extraProxies \ {p} ELSE f.extraProxies \cup {p}
  <2>2. x \in SUBSET Proxies
    BY FieldsAre
  <2>3. e = [f EXCEPT !.extraProxies = x]
    BY <2>1
  <2> HIDE DEF x
  <2> QED BY <2>2, <2>3 DEF Form
<1>4. ToggleDns(f) \subseteq Form
  <2> SUFFICES ASSUME NEW e \in ToggleDns(f) PROVE e \in Form
    OBVIOUS
  <2>1. PICK d \in (Dns \cap live) \ {f.dns} :
            e = [f EXCEPT !.extraDns = IF d \in @ THEN @ \ {d} ELSE @ \cup {d}]
    BY DEF ToggleDns
  <2> DEFINE x == IF d \in f.extraDns THEN f.extraDns \ {d} ELSE f.extraDns \cup {d}
  <2>2. x \in SUBSET Dns
    BY FieldsAre
  <2>3. e = [f EXCEPT !.extraDns = x]
    BY <2>1
  <2> HIDE DEF x
  <2> QED BY <2>2, <2>3 DEF Form
<1>5. EditAddress(f) \subseteq Form
  <2>1. {"empty", "typed", found} \subseteq Addresses
    BY DEF Addresses
  <2>2. \A v \in Addresses : [f EXCEPT !.ip = v] \in Form
    BY DEF Form
  <2>3. {[f EXCEPT !.ip = ip] : ip \in {"empty", "typed", found}} \subseteq Form
    BY <2>1, <2>2
  <2> QED BY <2>3 DEF EditAddress
<1>6. SwitchAuto(f) \subseteq Form
  <2> DEFINE x == ~(autoPublicTarget(f) /\ f.follow)
  <2>1. x \in BOOLEAN
    OBVIOUS
  <2>2. SwitchAuto(f) \subseteq {[f EXCEPT !.auto = TRUE, !.follow = x]}
    BY DEF SwitchAuto
  <2> HIDE DEF x
  <2>3. [f EXCEPT !.auto = TRUE, !.follow = x] \in Form
    BY <2>1 DEF Form
  <2> QED BY <2>2, <2>3
<1>7. toggleTag(f) \subseteq Form
  <2> DEFINE x == ~f.labelled
  <2>1. x \in BOOLEAN
    OBVIOUS
  <2>2. toggleTag(f) = {[f EXCEPT !.labelled = x]}
    BY DEF toggleTag
  <2> HIDE DEF x
  <2>3. [f EXCEPT !.labelled = x] \in Form
    BY <2>1 DEF Form
  <2> QED BY <2>2, <2>3
<1> QED BY <1>1, <1>2, <1>3, <1>4, <1>5, <1>6, <1>7, ChoicesAreForms, PicksAreForms DEF Edits

(***************************************************************************)
(* A form is opened on nothing, or on a stored route.                      *)
(***************************************************************************)
LEMMA StoredIsRoute == Stored \subseteq Route
<1>1. ASSUME NEW p \in Proxies \cup {None}, NEW d \in Dns \cup {None}, NEW t \in Tunnels \cup {None},
             NEW x \in SUBSET Proxies
      PROVE  StoredRoute(p, d, t, x) \in Route
  <2> DEFINE tunnelled == t # None
             auto == d \in AutoDns
             ip == IF d = None THEN "empty" ELSE "typed"
             rest == x \ {p}
  <2>1. tunnelled \in BOOLEAN /\ auto \in BOOLEAN /\ ip \in Addresses /\ rest \in SUBSET Proxies
    BY DEF Addresses
  <2>2. StoredRoute(p, d, t, x) =
          [name |-> "good", target |-> "lan", port |-> 80, tunnelled |-> tunnelled,
           proxy |-> p, dns |-> d, tunnel |-> t, extraProxies |-> rest, extraDns |-> {},
           auto |-> auto, follow |-> auto, ip |-> ip, labelled |-> FALSE]
    BY DEF StoredRoute
  <2> HIDE DEF tunnelled, auto, ip, rest
  <2> QED BY <2>1, <2>2 DEF Route, Names
<1> QED BY <1>1 DEF Stored

\* The form opens as a form, on a stored route or on none.
LEMMA SeedIsForm ==
    ASSUME editing \in Stored \cup {None}
    PROVE  seedForm \in Form
<1>1. initialForm \in Form
  BY DEF initialForm, Form, Names, Modes, Addresses
<1>2. ASSUME NEW r \in Route
      PROVE  toFormState(r) \in Form
  <2> DEFINE mode == uiModeFor(r)
  <2>1. mode \in Modes
    BY DEF uiModeFor, Modes
  <2>2. toFormState(r) =
          [name |-> r.name, target |-> r.target, port |-> r.port, mode |-> mode,
           proxy |-> r.proxy, dns |-> r.dns, tunnel |-> r.tunnel,
           extraProxies |-> r.extraProxies, extraDns |-> r.extraDns,
           auto |-> r.auto, follow |-> r.follow, ip |-> r.ip, labelled |-> r.labelled]
    BY DEF toFormState
  <2> HIDE DEF mode
  <2> QED BY <2>1, <2>2 DEF Form, Route
<1> QED BY <1>1, <1>2, StoredIsRoute DEF seedForm

RouteFormInv ==
    /\ editing \in Stored \cup {None} /\ live \subseteq Integrations
    /\ draft \in Form /\ found \in {"empty", "found"} /\ edits \in 0..MaxEdits

\* The form opens sound,
LEMMA RouteFormAtFirst == RouteFormInit => RouteFormInv
BY SeedIsForm, RouteFormAssumption DEF RouteFormInit, RouteFormInv

\* and no step of it breaks its invariant.
LEMMA RouteFormStep ==
    ASSUME RouteFormInv, [RouteFormNext]_routeFormVars
    PROVE  RouteFormInv'
<1>1. CASE EditForm
  <2>1. draft' \in Form
    BY <1>1, EditsAreForms DEF EditForm, RouteFormInv
  <2>2. edits' \in 0..MaxEdits
    BY <1>1, RouteFormAssumption DEF EditForm, RouteFormInv
  <2> QED BY <1>1, <2>1, <2>2 DEF EditForm, RouteFormInv
<1>2. CASE LookUp
  BY <1>2 DEF LookUp, RouteFormInv
<1>3. CASE StartOver
  BY <1>3, SeedIsForm, RouteFormAssumption DEF StartOver, RouteFormInv
<1>4. CASE UNCHANGED routeFormVars
  BY <1>4 DEF routeFormVars, RouteFormInv
<1> QED BY <1>1, <1>2, <1>3, <1>4 DEF RouteFormNext

\* The invariant of the route form holds in every state.
LEMMA RouteFormInvHolds == RouteFormSpec => []RouteFormInv
<1>1. RouteFormInv /\ [RouteFormNext]_routeFormVars => RouteFormInv'
  BY RouteFormStep
<1> QED BY RouteFormAtFirst, <1>1, PTL DEF RouteFormSpec

\* Every variable of the form stays of its type, whatever is edited.
THEOREM RouteFormTypeCorrect == RouteFormSpec => []RouteFormTypeOK
<1>1. RouteFormInv => RouteFormTypeOK
  BY StoredIsRoute DEF RouteFormInv, RouteFormTypeOK
<1> QED BY <1>1, RouteFormInvHolds, PTL

(***************************************************************************)
(* What is sent.                                                           *)
(***************************************************************************)
LEMMA SentDirect ==
    ASSUME NEW f, f.mode # "tunnel"
    PROVE  buildPayload(f) =
             [name |-> f.name, target |-> f.target, port |-> f.port, tunnelled |-> FALSE,
              proxy |-> f.proxy, dns |-> f.dns, tunnel |-> None,
              extraProxies |-> ExtrasOf(f.extraProxies, f.proxy), extraDns |-> ExtrasOf(f.extraDns, f.dns),
              auto |-> autoPublicTarget(f), follow |-> autoPublicTarget(f) /\ f.follow,
              ip |-> TargetOf(f), labelled |-> f.labelled]
<1> DEFINE direct == f.mode # "tunnel"
           auto == direct /\ autoPublicTarget(f)
           follow == auto /\ f.follow
<1>1. (~direct) = FALSE /\ auto = autoPublicTarget(f) /\ follow = (autoPublicTarget(f) /\ f.follow) /\ direct
  BY DEF autoPublicTarget
<1>2. buildPayload(f) =
        [name |-> f.name, target |-> f.target, port |-> f.port, tunnelled |-> ~direct,
         proxy |-> IF direct THEN f.proxy ELSE None,
         dns |-> IF direct THEN f.dns ELSE None,
         tunnel |-> IF direct THEN None ELSE f.tunnel,
         extraProxies |-> ExtrasOf(f.extraProxies, f.proxy),
         extraDns |-> IF direct THEN ExtrasOf(f.extraDns, f.dns) ELSE {},
         auto |-> auto, follow |-> follow,
         ip |-> TargetOf(f), labelled |-> f.labelled]
  BY DEF buildPayload
<1> HIDE DEF direct, auto, follow
<1> QED BY <1>1, <1>2

\* What a form sends of a route through a tunnel.
LEMMA SentByTunnel ==
    ASSUME NEW f, f.mode = "tunnel"
    PROVE  buildPayload(f) =
             [name |-> f.name, target |-> f.target, port |-> f.port, tunnelled |-> TRUE,
              proxy |-> None, dns |-> None, tunnel |-> f.tunnel,
              extraProxies |-> ExtrasOf(f.extraProxies, f.proxy), extraDns |-> {},
              auto |-> FALSE, follow |-> FALSE, ip |-> "empty", labelled |-> f.labelled]
<1> DEFINE direct == f.mode # "tunnel"
           auto == direct /\ autoPublicTarget(f)
           follow == auto /\ f.follow
<1>1. (~direct) = TRUE /\ auto = FALSE /\ follow = FALSE /\ ~direct /\ TargetOf(f) = "empty"
  BY DEF TargetOf
<1>2. buildPayload(f) =
        [name |-> f.name, target |-> f.target, port |-> f.port, tunnelled |-> ~direct,
         proxy |-> IF direct THEN f.proxy ELSE None,
         dns |-> IF direct THEN f.dns ELSE None,
         tunnel |-> IF direct THEN None ELSE f.tunnel,
         extraProxies |-> ExtrasOf(f.extraProxies, f.proxy),
         extraDns |-> IF direct THEN ExtrasOf(f.extraDns, f.dns) ELSE {},
         auto |-> auto, follow |-> follow,
         ip |-> TargetOf(f), labelled |-> f.labelled]
  BY DEF buildPayload
<1> HIDE DEF direct, auto, follow
<1> QED BY <1>1, <1>2

\* What is sent keeps the name and the target, and nothing of a way that was not chosen.
LEMMA PayloadIs ==
    ASSUME NEW f, NEW r, r = buildPayload(f)
    PROVE  /\ r.name = f.name /\ r.target = f.target /\ r.port = f.port
           /\ r.tunnelled <=> f.mode = "tunnel"
           /\ r.extraProxies = ExtrasOf(f.extraProxies, f.proxy) /\ r.ip = TargetOf(f)
           /\ f.mode # "tunnel" => /\ r.proxy = f.proxy /\ r.dns = f.dns /\ r.tunnel = None
                                   /\ r.extraDns = ExtrasOf(f.extraDns, f.dns)
                                   /\ r.auto = autoPublicTarget(f)
                                   /\ r.follow = (autoPublicTarget(f) /\ f.follow)
           /\ f.mode = "tunnel" => /\ r.proxy = None /\ r.dns = None /\ r.tunnel = f.tunnel
                                   /\ r.extraDns = {} /\ r.auto = FALSE /\ r.follow = FALSE
<1>1. CASE f.mode # "tunnel"
  BY <1>1, SentDirect
<1>2. CASE f.mode = "tunnel"
  BY <1>2, SentByTunnel DEF TargetOf
<1> QED BY <1>1, <1>2

\* What the form lets through can be published, whatever was picked and typed before
\* (ExposeModal.tsx:365).
THEOREM WhatPasses == RouteFormSpec => []WhatPassesIsSound
<1>1. RouteFormInv => WhatPassesIsSound
  <2> SUFFICES ASSUME RouteFormInv, validate(draft)
               PROVE  Publishable(buildPayload(draft))
    BY DEF WhatPassesIsSound
  <2> DEFINE r == buildPayload(draft)
  <2>0. /\ r.name = draft.name /\ r.target = draft.target /\ r.port = draft.port
        /\ r.tunnelled <=> draft.mode = "tunnel"
        /\ r.extraProxies = draft.extraProxies \ {draft.proxy} /\ r.ip = TargetOf(draft)
        /\ draft.mode # "tunnel" => /\ r.proxy = draft.proxy /\ r.dns = draft.dns /\ r.tunnel = None
                                    /\ r.extraDns = draft.extraDns \ {draft.dns}
                                    /\ r.auto = autoPublicTarget(draft)
                                    /\ r.follow = (autoPublicTarget(draft) /\ draft.follow)
        /\ draft.mode = "tunnel" => /\ r.proxy = None /\ r.dns = None /\ r.tunnel = draft.tunnel
                                    /\ r.extraDns = {} /\ r.auto = FALSE /\ r.follow = FALSE
    BY PayloadIs DEF ExtrasOf
  <2>00. buildPayload(draft) = r
    OBVIOUS
  <2> HIDE DEF r
  <2>1. SoundName(draft) /\ SoundProviders(draft) /\ SoundPort(draft) /\ SoundTarget(draft)
    BY DEF validate
  <2>2. r.name = "good" /\ r.target # "empty"
    BY <2>0, <2>1 DEF SoundName
  <2>3. r.proxy \notin r.extraProxies /\ r.dns \notin r.extraDns
    <3>1. CASE draft.mode = "tunnel"
      <4>1. draft.extraProxies \in SUBSET Proxies
        BY FieldsAre DEF RouteFormInv
      <4> QED BY <2>0, <3>1, <4>1, NoneServesNothing
    <3>2. CASE draft.mode # "tunnel"
      BY <2>0, <3>2
    <3> QED BY <3>1, <3>2
  <2>4. r.tunnelled => r.tunnel # None /\ r.proxy = None /\ r.dns = None /\ r.extraDns = {}
    BY <2>0, <2>1 DEF SoundProviders
  <2>5. ~r.tunnelled => r.tunnel = None
    BY <2>0
  <2>6. r.tunnelled \/ r.proxy # None \/ r.extraProxies # {} => r.port # 0
    <3>1. SUFFICES ASSUME draft.port = 0
                   PROVE  ~r.tunnelled /\ r.proxy = None /\ r.extraProxies = {}
      BY <2>0
    <3>2. draft.mode # "tunnel" /\ draft.proxy = None /\ draft.extraProxies = {}
      BY <2>1, <3>1 DEF SoundPort
    <3> QED BY <2>0, <3>2
  <2>7. None \notin live
    BY NoneServesNothing DEF RouteFormInv
  <2>8. r.dns \in live => r.ip # "empty"
    <3>1. SUFFICES ASSUME r.dns \in live PROVE TargetOf(draft) # "empty"
      BY <2>0
    <3>2. draft.mode # "tunnel" /\ draft.dns \in live
      BY <2>0, <2>7, <3>1
    <3>3. draft.dns # None
      BY <2>7, <3>2
    <3>4. draft.dns \in Locals \cup Publics
      <4>1. draft.dns \in Dns \cup {None}
        BY FieldsAre DEF RouteFormInv
      <4> QED BY <3>3, <4>1 DEF Dns
    <3>5. \/ draft.ip # "empty" \/ found # "empty"
          \/ draft.mode = "dns_only" /\ draft.dns \notin Publics
      BY <2>1, <3>2, <3>3 DEF SoundTarget
    <3>6. draft.target # "empty"
      BY <2>1 DEF SoundName
    <3> QED BY <3>2, <3>4, <3>5, <3>6 DEF TargetOf
  <2>9. r.auto /\ r.dns \in live => r.dns \in AutoDns
    BY <2>0 DEF autoPublicTarget
  <2>10. r.follow => r.auto
    BY <2>0
  <2>11. Publishable(r)
    BY <2>2, <2>3, <2>4, <2>5, <2>6, <2>8, <2>9, <2>10 DEF Publishable
  <2> QED BY <2>00, <2>11
<1> QED BY <1>1, RouteFormInvHolds, PTL

\* Opening an edit and saving it publishes the route as it was stored, also when an
\* integration of it is switched off (types.ts:169).
THEOREM UntouchedStays == RouteFormSpec => []UntouchedIsKept
<1>1. ASSUME NEW r \in Stored
      PROVE  buildPayload(toFormState(r)) = r
  <2>1. CASE \E t \in Tunnels : r = StoredRoute(None, None, t, {})
    <3>1. PICK t \in Tunnels : r = StoredRoute(None, None, t, {})
      BY <2>1
    <3>2. (t # None) = TRUE /\ (None \in AutoDns) = FALSE
      BY NoneServesNothing
    <3>3. r = [name |-> "good", target |-> "lan", port |-> 80, tunnelled |-> TRUE,
               proxy |-> None, dns |-> None, tunnel |-> t, extraProxies |-> {}, extraDns |-> {},
               auto |-> FALSE, follow |-> FALSE, ip |-> "empty", labelled |-> FALSE]
      BY <3>1, <3>2 DEF StoredRoute
    <3>4. toFormState(r) =
              [name |-> "good", target |-> "lan", port |-> 80, mode |-> "tunnel",
               proxy |-> None, dns |-> None, tunnel |-> t, extraProxies |-> {}, extraDns |-> {},
               auto |-> FALSE, follow |-> FALSE, ip |-> "empty", labelled |-> FALSE]
      BY <3>3 DEF toFormState, uiModeFor
    <3> DEFINE f == toFormState(r)
    <3>5. /\ f.mode = "tunnel" /\ f.name = "good" /\ f.target = "lan" /\ f.port = 80 /\ f.tunnel = t
          /\ f.extraProxies = {} /\ f.labelled = FALSE
      BY <3>4
    <3> HIDE DEF f
    <3>6. ExtrasOf({}, f.proxy) = {}
      BY DEF ExtrasOf
    <3>7. buildPayload(f) = r
      BY <3>3, <3>5, <3>6, SentByTunnel
    <3> QED BY <3>7 DEF f
  <2>2. CASE \E p \in Proxies, d \in Dns, extras \in {{}, Proxies} : r = StoredRoute(p, d, None, extras)
    <3>1. PICK p \in Proxies, d \in Dns, extras \in {{}, Proxies} : r = StoredRoute(p, d, None, extras)
      BY <2>2
    <3>2. p # None /\ d # None
      BY NoneServesNothing
    <3> DEFINE auto == d \in AutoDns
               rest == extras \ {p}
               f == [name |-> "good", target |-> "lan", port |-> 80, mode |-> "dns_proxy",
                     proxy |-> p, dns |-> d, tunnel |-> None, extraProxies |-> rest, extraDns |-> {},
                     auto |-> auto, follow |-> auto, ip |-> "typed", labelled |-> FALSE]
    <3>3. r = [name |-> "good", target |-> "lan", port |-> 80, tunnelled |-> FALSE,
               proxy |-> p, dns |-> d, tunnel |-> None, extraProxies |-> rest, extraDns |-> {},
               auto |-> auto, follow |-> auto, ip |-> "typed", labelled |-> FALSE]
      BY <3>1, <3>2 DEF StoredRoute
    <3>4. toFormState(r) = f
      BY <3>2, <3>3 DEF toFormState, uiModeFor
    <3>5. autoPublicTarget(f) = auto
      <4>1. autoPublicTarget(f) = (f.auto /\ ~(f.dns \in live /\ f.dns \notin AutoDns))
        BY DEF autoPublicTarget
      <4>2. f.auto = auto /\ f.dns = d
        OBVIOUS
      <4> HIDE DEF f
      <4>3. auto \in BOOLEAN /\ (auto => d \in AutoDns)
        OBVIOUS
      <4> HIDE DEF auto
      <4> QED BY <4>1, <4>2, <4>3
    <3>6. ExtrasOf(rest, p) = rest /\ ExtrasOf({}, d) = {}
      BY DEF ExtrasOf
    <3>7. TargetOf(f) = "typed"
      BY DEF TargetOf
    <3>8. (auto /\ auto) = auto
      OBVIOUS
    <3>10. /\ f.mode # "tunnel" /\ f.name = "good" /\ f.target = "lan" /\ f.port = 80 /\ f.proxy = p /\ f.dns = d
           /\ f.extraProxies = rest /\ f.extraDns = {} /\ f.follow = auto /\ f.labelled = FALSE
      OBVIOUS
    <3> HIDE DEF auto, rest, f
    <3>9. buildPayload(f) =
              [name |-> "good", target |-> "lan", port |-> 80, tunnelled |-> FALSE,
               proxy |-> p, dns |-> d, tunnel |-> None, extraProxies |-> rest, extraDns |-> {},
               auto |-> auto, follow |-> auto, ip |-> "typed", labelled |-> FALSE]
      BY <3>5, <3>6, <3>7, <3>8, <3>10, SentDirect
    <3> QED BY <3>3, <3>4, <3>9
  <2> QED BY <2>1, <2>2 DEF Stored
<1>2. RouteFormInv => UntouchedIsKept
  BY <1>1 DEF RouteFormInv, UntouchedIsKept, seedForm
<1> QED BY <1>2, RouteFormInvHolds, PTL

\* Two routes that agree in every field are one.
LEMMA RoutesAgree ==
    ASSUME NEW r \in Route, NEW s \in Route,
           r.name = s.name, r.target = s.target, r.port = s.port, r.tunnelled = s.tunnelled,
           r.proxy = s.proxy, r.dns = s.dns, r.tunnel = s.tunnel,
           r.extraProxies = s.extraProxies, r.extraDns = s.extraDns,
           r.auto = s.auto, r.follow = s.follow, r.ip = s.ip, r.labelled = s.labelled
    PROVE  r = s
BY DEF Route

\* What is sent is a route.
LEMMA SentIsRoute ==
    ASSUME NEW f \in Form, found \in {"empty", "found"}
    PROVE  buildPayload(f) \in Route
<1>1. TargetOf(f) \in Addresses
  BY FieldsAre DEF TargetOf, Addresses
<1>2. ExtrasOf(f.extraProxies, f.proxy) \in SUBSET Proxies /\ ExtrasOf(f.extraDns, f.dns) \in SUBSET Dns
  BY FieldsAre DEF ExtrasOf
<1>3. CASE f.mode # "tunnel"
  <2> DEFINE auto == autoPublicTarget(f)
             follow == auto /\ f.follow
  <2>1. auto \in BOOLEAN /\ follow \in BOOLEAN
    BY DEF autoPublicTarget
  <2>2. buildPayload(f) =
          [name |-> f.name, target |-> f.target, port |-> f.port, tunnelled |-> FALSE,
           proxy |-> f.proxy, dns |-> f.dns, tunnel |-> None,
           extraProxies |-> ExtrasOf(f.extraProxies, f.proxy), extraDns |-> ExtrasOf(f.extraDns, f.dns),
           auto |-> auto, follow |-> follow, ip |-> TargetOf(f), labelled |-> f.labelled]
    BY <1>3, SentDirect
  <2> HIDE DEF auto, follow
  <2> QED BY <1>1, <1>2, <2>1, <2>2, FieldsAre DEF Route
<1>4. CASE f.mode = "tunnel"
  <2>1. "empty" \in Addresses
    BY DEF Addresses
  <2>2. buildPayload(f) =
          [name |-> f.name, target |-> f.target, port |-> f.port, tunnelled |-> TRUE,
           proxy |-> None, dns |-> None, tunnel |-> f.tunnel,
           extraProxies |-> ExtrasOf(f.extraProxies, f.proxy), extraDns |-> {},
           auto |-> FALSE, follow |-> FALSE, ip |-> "empty", labelled |-> f.labelled]
    BY <1>4, SentByTunnel
  <2> QED BY <1>2, <2>1, <2>2, FieldsAre DEF Route
<1> QED BY <1>3, <1>4

\* A template gives back the route it was taken from, but for what it does not hold
\* (ExposeModal.tsx:606).
THEOREM TemplateGivesBack == RouteFormSpec => []TemplateGivesItBack
<1>1. ASSUME NEW f \in Form, found \in {"empty", "found"}, buildTemplatePayload(f).port # 0
      PROVE  buildPayload(templateToFormState(buildTemplatePayload(f))) = buildTemplatePayload(f)
  <2> DEFINE r == buildPayload(f)
             tpl == buildTemplatePayload(f)
             g == templateToFormState(tpl)
             again == buildPayload(g)
  <2>1. r \in Route
    BY <1>1, SentIsRoute
  <2>2. /\ r.ip = TargetOf(f)
        /\ f.mode # "tunnel" => /\ r.tunnelled = FALSE /\ r.dns = f.dns /\ r.tunnel = None
                                /\ r.auto = autoPublicTarget(f)
        /\ f.mode = "tunnel" => r.tunnelled = TRUE /\ r.proxy = None /\ r.dns = None /\ r.auto = FALSE
    <3>9. /\ r.name = f.name /\ r.target = f.target /\ r.port = f.port
          /\ r.tunnelled <=> f.mode = "tunnel"
          /\ r.extraProxies = ExtrasOf(f.extraProxies, f.proxy) /\ r.ip = TargetOf(f)
          /\ f.mode # "tunnel" => /\ r.proxy = f.proxy /\ r.dns = f.dns /\ r.tunnel = None
                                  /\ r.extraDns = ExtrasOf(f.extraDns, f.dns)
                                  /\ r.auto = autoPublicTarget(f)
                                  /\ r.follow = (autoPublicTarget(f) /\ f.follow)
          /\ f.mode = "tunnel" => /\ r.proxy = None /\ r.dns = None /\ r.tunnel = f.tunnel
                                  /\ r.extraDns = {} /\ r.auto = FALSE /\ r.follow = FALSE
      BY PayloadIs
    <3> HIDE DEF r
    <3>1. (r.tunnelled <=> f.mode = "tunnel") /\ r.tunnelled \in BOOLEAN
      BY <2>1, <3>9 DEF Route
    <3>2. (f.mode = "tunnel" => r.tunnelled = TRUE) /\ (f.mode # "tunnel" => r.tunnelled = FALSE)
      BY <3>1
    <3> QED BY <3>2, <3>9
  <2>3. tpl = [r EXCEPT !.target = "empty", !.extraProxies = {}, !.extraDns = {}, !.follow = FALSE]
    BY DEF buildTemplatePayload
  <2> HIDE DEF r
  <2>4. /\ tpl \in Route /\ tpl.target = "empty" /\ tpl.extraProxies = {} /\ tpl.extraDns = {} /\ tpl.follow = FALSE
        /\ tpl.ip = r.ip /\ tpl.tunnelled = r.tunnelled /\ tpl.dns = r.dns /\ tpl.proxy = r.proxy
        /\ tpl.tunnel = r.tunnel /\ tpl.auto = r.auto
    BY <2>1, <2>3, ZenonT(90) DEF Route
  <2>5. tpl.port # 0
    BY <1>1
  <2> HIDE DEF tpl
  <2>6. /\ g.name = tpl.name /\ g.target = "empty" /\ g.port = tpl.port /\ g.mode = uiModeFor(tpl)
        /\ g.proxy = tpl.proxy /\ g.dns = tpl.dns /\ g.tunnel = tpl.tunnel
        /\ g.extraProxies = {} /\ g.extraDns = {} /\ g.auto = tpl.auto /\ g.follow = FALSE
        /\ g.ip = tpl.ip /\ g.labelled = tpl.labelled
    BY <2>5 DEF templateToFormState, initialForm
  <2>7. g \in Form
    <3>1. initialForm \in Form
      BY DEF initialForm, Form, Names, Modes, Addresses
    <3>2. uiModeFor(tpl) \in Modes /\ (IF tpl.port = 0 THEN initialForm.port ELSE tpl.port) = tpl.port
      BY <2>5 DEF uiModeFor, Modes
    <3>3. g = [initialForm EXCEPT
                 !.name = tpl.name, !.port = tpl.port, !.mode = uiModeFor(tpl),
                 !.proxy = tpl.proxy, !.dns = tpl.dns, !.tunnel = tpl.tunnel,
                 !.auto = tpl.auto, !.ip = tpl.ip, !.labelled = tpl.labelled]
      BY <3>2 DEF templateToFormState
    <3> HIDE DEF g
    <3> QED BY <2>4, <3>1, <3>2, <3>3, ZenonT(90) DEF Form, Route
  <2> HIDE DEF g
  <2>8. again \in Route
    BY <1>1, <2>7, SentIsRoute
  <2>9. (g.mode = "tunnel") <=> (f.mode = "tunnel")
    BY <2>2, <2>4, <2>6 DEF uiModeFor
  <2>10. TargetOf(g) = tpl.ip
    <3>1. CASE f.mode = "tunnel"
      BY <2>2, <2>4, <2>6, <2>9, <3>1 DEF TargetOf
    <3>2. CASE f.mode # "tunnel" /\ tpl.ip # "empty"
      BY <2>2, <2>6, <2>9, <3>2 DEF TargetOf
    <3>3. CASE f.mode # "tunnel" /\ tpl.ip = "empty"
      <4>1. found = "empty"
        BY <2>2, <2>4, <3>3 DEF TargetOf
      <4> QED BY <2>2, <2>6, <2>9, <3>3, <4>1 DEF TargetOf
    <3> QED BY <3>1, <3>2, <3>3
  <2>11. f.mode # "tunnel" => autoPublicTarget(g) = tpl.auto
    BY <2>2, <2>4, <2>6 DEF autoPublicTarget
  <2>12. /\ again.name = g.name /\ again.target = g.target /\ again.port = g.port
         /\ again.tunnelled <=> g.mode = "tunnel"
         /\ again.extraProxies = ExtrasOf(g.extraProxies, g.proxy) /\ again.ip = TargetOf(g)
         /\ g.mode # "tunnel" => /\ again.proxy = g.proxy /\ again.dns = g.dns /\ again.tunnel = None
                                 /\ again.extraDns = ExtrasOf(g.extraDns, g.dns)
                                 /\ again.auto = autoPublicTarget(g)
                                 /\ again.follow = (autoPublicTarget(g) /\ g.follow)
         /\ g.mode = "tunnel" => /\ again.proxy = None /\ again.dns = None /\ again.tunnel = g.tunnel
                                 /\ again.extraDns = {} /\ again.auto = FALSE /\ again.follow = FALSE
    BY PayloadIs
  <2> HIDE DEF again
  <2>13. /\ again.name = g.name /\ again.target = g.target /\ again.port = g.port
         /\ again.extraProxies = {} /\ again.ip = tpl.ip
         /\ again.tunnelled <=> g.mode = "tunnel"
         /\ again.labelled = g.labelled
    <3>1. ExtrasOf({}, g.proxy) = {}
      BY DEF ExtrasOf
    <3>2. again.labelled = g.labelled
      BY SentDirect, SentByTunnel DEF again
    <3> QED BY <2>6, <2>10, <2>12, <3>1, <3>2
  <2>14. again.tunnelled = tpl.tunnelled
    BY <2>2, <2>4, <2>8, <2>9, <2>13 DEF Route
  <2>15. again.proxy = tpl.proxy /\ again.dns = tpl.dns /\ again.extraDns = {}
         /\ again.auto = tpl.auto /\ again.follow = FALSE
    <3>1. CASE f.mode = "tunnel"
      BY <2>2, <2>4, <2>9, <2>12, <3>1
    <3>2. CASE f.mode # "tunnel"
      <4>1. /\ again.proxy = g.proxy /\ again.dns = g.dns /\ again.extraDns = ExtrasOf(g.extraDns, g.dns)
            /\ again.auto = autoPublicTarget(g) /\ again.follow = (autoPublicTarget(g) /\ g.follow)
        BY <2>9, <2>12, <3>2
      <4>2. ExtrasOf({}, g.dns) = {}
        BY DEF ExtrasOf
      <4> QED BY <2>6, <2>11, <3>2, <4>1, <4>2
    <3> QED BY <3>1, <3>2
  <2>16. again.tunnel = tpl.tunnel
    <3>1. CASE f.mode = "tunnel"
      BY <2>6, <2>9, <2>12, <3>1
    <3>2. CASE f.mode # "tunnel"
      BY <2>2, <2>4, <2>9, <2>12, <3>2
    <3> QED BY <3>1, <3>2
  <2>17. again = tpl
    BY <2>4, <2>6, <2>8, <2>13, <2>14, <2>15, <2>16, RoutesAgree, ZenonT(90)
  <2> QED BY <2>17 DEF again, g, tpl
<1>2. RouteFormInv => TemplateGivesItBack
  BY <1>1 DEF RouteFormInv, TemplateGivesItBack
<1> QED BY <1>2, RouteFormInvHolds, PTL

(***************************************************************************)
(* The instance of the pages: whichever is shown, each of them behaves as  *)
(* its own specification says, so what was proved of a page is kept.       *)
(***************************************************************************)
LEMMA ScreensStepAlone ==
    ASSUME [PanelNext]_panelVars
    PROVE  /\ [FormNext]_formVars /\ [RouteFormNext]_routeFormVars /\ [TemplatesNext]_templateVars
           /\ [DialogsNext]_dialogVars /\ [SettingsNext]_settingVars /\ [TaxonomyNext]_taxonomyVars
           /\ [EditorNext]_ruleVars /\ [OptionsNext]_optionVars /\ [PaletteNext]_paletteVars
           /\ [KeysNext]_keyVars /\ [BackupsNext]_backupVars /\ [ShellNext]_shellVars
           /\ [PrefNext]_prefVars
BY DEF PanelNext, panelVars

\* A run of the panel is a run of every page.
LEMMA ScreensRunAlone ==
    PanelSpec => /\ FormSpec /\ RouteFormSpec /\ TemplatesSpec /\ DialogsSpec /\ SettingsSpec
                 /\ TaxonomySpec /\ EditorSpec /\ OptionsSpec /\ PaletteSpec /\ KeysSpec
                 /\ BackupsSpec /\ ShellSpec /\ PrefSpec
<1>1. PanelInit => /\ FormInit /\ RouteFormInit /\ TemplatesInit /\ DialogsInit /\ SettingsInit
                   /\ TaxonomyInit /\ EditorInit /\ OptionsInit /\ PaletteInit /\ KeysInit
                   /\ BackupsInit /\ ShellInit /\ PrefInit
  BY DEF PanelInit
<1> QED BY <1>1, ScreensStepAlone, PTL
        DEF PanelSpec, FormSpec, RouteFormSpec, TemplatesSpec, DialogsSpec, SettingsSpec, TaxonomySpec,
            EditorSpec, OptionsSpec, PaletteSpec, KeysSpec, BackupsSpec, ShellSpec, PrefSpec

\* Every page keeps its types.
THEOREM ScreensAreTyped == PanelSpec => []TypeOK
BY ScreensRunAlone, FormTypeCorrect, RouteFormTypeCorrect, TemplatesTypeCorrect, DialogsTypeCorrect,
   SettingsTypeCorrect, TaxonomyTypeCorrect, EditorTypeCorrect, OptionsTypeCorrect, PaletteTypeCorrect,
   KeysTypeCorrect, BackupsTypeCorrect, ShellTypeCorrect, PreferencesTypeCorrect, PTL DEF TypeOK

\* Once nothing is on its way, each list shows what the server holds, whatever was written and
\* in whatever order the answers came.
THEOREM ScreensAreCaughtUp == PanelSpec => []PagesCatchUp
BY ScreensRunAlone, ShelfIsCaughtUp, CountsAreCaughtUp, RulesAreCaughtUp, KeysAreCaughtUp,
   RestoresAreCaughtUp, PTL DEF PagesCatchUp

\* What a form lets through, what a list calls empty, what is said of a secret and what the
\* frame shows are all as they are said to be, in every state of the panel.
THEOREM ScreensStaySound == PanelSpec => []ScreensAreSound
<1>1. PanelSpec => []FormsAreSound
  BY ScreensRunAlone, StepsLeadToWhatIsMissing, WhatPasses, UntouchedStays, TemplateGivesBack,
     SettingsAreSound, PTL DEF FormsAreSound
<1>2. PanelSpec => []BoxesAndListsAreSound
  BY ScreensRunAlone, PageLocks, NobodyIsLeftWaiting, KeysLandOnEnabled, NothingFoundIsToldTrue, PTL
  DEF BoxesAndListsAreSound
<1>3. PanelSpec => []SecretsAreKept
  BY ScreensRunAlone, CopiesAreTrue, PlainFilesAreClean, PTL DEF SecretsAreKept
<1>4. PanelSpec => []FrameIsSound
  BY ScreensRunAlone, OneFrameBoxAtOnce, ChordsEndByTheirTime, TextFollowsTheChoice, ChoicesAreKept, PTL
  DEF FrameIsSound
<1> QED BY <1>1, <1>2, <1>3, <1>4, PTL DEF ScreensAreSound

\* No step of any page does what its screen does not say: not one typed draft, answer, copy,
\* yes, restore or dialog goes another way than it was told.
THEOREM ScreensKeepTheirWord == PanelSpec => StepsKeepTheirWord
BY ScreensRunAlone, NothingTypedGoesUnasked, TypedIsKept, CardsKeepTheirs, ReadsKeepTheEdit,
   RenamesCloseTheirOwn, CopiesAreFaithful, UnusedIsToldTrue, OneEscapeClosesOne, YesIsAlwaysMeant,
   RestoresAreAsTold, SealsAreOpenedByTheirPhrase, DialogsKeepTheirPage, PTL DEF StepsKeepTheirWord

\* Whoever asks a question of the panel is promised one answer, and the dialogs keep it.
THEOREM ScreensAnswerOnce == PanelSpec => KeepsThePromise
BY ScreensRunAlone, QuestionsKeepThePromise, PTL

=============================================================================
