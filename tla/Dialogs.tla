------------------------------ MODULE Dialogs ------------------------------
(***************************************************************************)
(* The dialogs of the panel: a modal or a drawer over the page, and the    *)
(* question useConfirmDialog asks over either.  They share a stack, the    *)
(* keyboard, the focus and the lock on the scrolling of the page.  A key   *)
(* is heard by every open dialog, one after the other, in the order they   *)
(* opened; React may take a dialog down between two of them.               *)
(***************************************************************************)
EXTENDS Naturals, Sequences, FiniteSets, SequencesExt

CONSTANTS Nobody,        \* no question, no place
          Askers,        \* who calls confirm()
          MaxOpens       \* bound: dialogs opened and questions asked

ASSUME NobodyAssumption ==
    /\ Nobody \notin {"never asked", "yes", "no"}
    /\ Nobody \notin [asker : Askers, adds : BOOLEAN, text : BOOLEAN]
    /\ MaxOpens \in Nat

VARIABLES boxStack,      \* openDialogs: the open dialogs, oldest first
          host,          \* where the question lives: on the page or in the modal
          focus,         \* document.activeElement
          previous,      \* what had the focus when a dialog opened
          locks, overflow, savedOverflow,
          hearing,       \* the dialogs that have yet to hear the Escape pressed
          inQuestion,    \* the options of the question that is shown
          awaiting,      \* the askers whose promise is pending
          told,          \* what each asker was told last
          typed,         \* whether the text typed is the text required
          held,          \* whether the Enter that asked is still held down
          opens          \* counts what MaxOpens bounds

theLock == <<locks, overflow, savedOverflow>>
thePromise == <<inQuestion, awaiting, told, typed, held>>
dialogVars == <<boxStack, host, focus, previous, theLock, hearing, thePromise, opens>>

Boxes == {"modal", "drawer", "confirm"}
Spots == {"box", "first", "last"}       \* the box itself, and its first and last control
Inside(box) == {[in |-> box, at |-> spot] : spot \in Spots}
ThePage == [in |-> "page", at |-> "first"]
Body == [in |-> "body", at |-> "box"]
Questions == [asker : Askers, adds : BOOLEAN, text : BOOLEAN]

Top == IF boxStack = <<>> THEN "page" ELSE Last(boxStack)
InDocument(place, open) == place.in = "page" \/ place.in \in ToSet(open)

DialogsInit ==
    /\ boxStack = <<>> /\ host \in {"page", "modal"} /\ focus = ThePage
    /\ previous = [box \in Boxes |-> Body]
    /\ locks = 0 /\ overflow = "scroll" /\ savedOverflow = "" /\ hearing = <<>>
    /\ inQuestion = Nobody /\ awaiting = {} /\ told = [a \in Askers |-> "never asked"]
    /\ typed = FALSE /\ held = FALSE /\ opens = 0

(***************************************************************************)
(* The lock on the page (useScrollLock).                                   *)
(***************************************************************************)
Lock ==
    /\ locks' = locks + 1
    /\ IF locks = 0 THEN savedOverflow' = overflow /\ overflow' = "hidden"
       ELSE UNCHANGED <<savedOverflow, overflow>>

\* As a bug: every dialog that closes gives the page its scrolling back.
UnlockAlways(n) == /\ locks' = locks - n /\ overflow' = savedOverflow /\ UNCHANGED savedOverflow

\* n dialogs closed.
Unlock(n) ==
    /\ locks' = locks - n
    /\ overflow' = IF locks' = 0 THEN savedOverflow ELSE overflow
    /\ UNCHANGED savedOverflow

(***************************************************************************)
(* Opening and closing (useModalDialog).  A dialog takes the focus on its  *)
(* box; a question then moves it to the safest control: Cancel (first), or *)
(* Confirm (last) if it only adds, or its text field (first).              *)
(***************************************************************************)
Mount(box, spot) ==
    /\ boxStack' = Append(boxStack, box)
    /\ previous' = [previous EXCEPT ![box] = focus]
    /\ focus' = [in |-> box, at |-> spot]
    /\ Lock

\* The boxes that leave the document with this one.
Leaving(box) == IF box = "modal" /\ host = "modal" THEN {"modal", "confirm"} ELSE {box}

\* What had the focus when it opened gets it back, if it is still there and
\* nothing else took it meanwhile.
FocusAfter(gone, open) ==
    LET lost == focus.in \in gone \/ focus = Body
        back == {previous[box] : box \in gone} \cap {place \in {ThePage} \cup UNION {Inside(b) : b \in Boxes} :
                    InDocument(place, open)}
    IN  IF ~lost THEN focus ELSE IF back = {} THEN Body ELSE CHOOSE place \in back : TRUE

\* A dialog takes itself off the stack, and no other.
OffStack(stack, box) == RemoveFirst(stack, box)

\* What was shown is answered when its element leaves the page, with no.
Dismount(box, answer) ==
    LET gone == Leaving(box) \cap ToSet(boxStack)
        open == OffStack(IF "confirm" \in gone THEN OffStack(boxStack, "confirm") ELSE boxStack, box)
    IN  /\ boxStack' = open /\ focus' = FocusAfter(gone, open) /\ Unlock(Cardinality(gone))
        /\ IF "confirm" \in gone
           THEN /\ told' = [a \in Askers |-> IF a \in awaiting THEN answer ELSE told[a]]
                /\ awaiting' = {} /\ inQuestion' = Nobody
                /\ typed' = FALSE /\ UNCHANGED held
           ELSE UNCHANGED thePromise

OpenBox(box) ==
    /\ box \notin ToSet(boxStack) /\ hearing = <<>> /\ opens < MaxOpens /\ opens' = opens + 1
    /\ Top # "confirm"
    /\ Mount(box, "box")
    /\ UNCHANGED <<host, hearing, thePromise>>

\* The cross, the backdrop, a save that landed, a page that is left: it need not
\* be the one on top.
CloseBox(box) ==
    /\ hearing = <<>> /\ box \in ToSet(boxStack) /\ Dismount(box, "no")
    /\ UNCHANGED <<host, previous, hearing, opens>>

(***************************************************************************)
(* The keyboard.                                                           *)
(***************************************************************************)
\* As a bug: the newest dialog hears the key first.
NewestFirst == Reverse(boxStack)

Listeners == boxStack

PressEscape ==
    /\ boxStack # <<>> /\ hearing = <<>> /\ hearing' = Listeners
    /\ UNCHANGED <<boxStack, host, focus, previous, theLock, thePromise, opens>>

\* Only the dialog on top answers a key.
HearEscape ==
    /\ hearing # <<>> /\ hearing' = Tail(hearing)
    /\ IF Head(hearing) = Top THEN Dismount(Top, "no")
       ELSE UNCHANGED <<boxStack, focus, theLock, thePromise>>
    /\ UNCHANGED <<host, previous, opens>>

\* At either end the trap wraps round; anywhere else it is the browser that
\* moves the focus, and from the box itself, backwards, it leaves the dialog.
TabFrom(place, back) ==
    IF place.in # Top THEN [in |-> Top, at |-> IF back THEN "last" ELSE "first"]
    ELSE CASE place.at = "first" -> [in |-> Top, at |-> "last"]
           [] place.at = "last"  -> [in |-> Top, at |-> "first"]
           [] place.at = "box"   -> IF back THEN ThePage ELSE [in |-> Top, at |-> "first"]

PressTab(back) ==
    /\ boxStack # <<>> /\ hearing = <<>> /\ focus' = TabFrom(focus, back)
    /\ UNCHANGED <<boxStack, host, previous, theLock, hearing, thePromise, opens>>

(***************************************************************************)
(* The question (useConfirmDialog, ConfirmDialog).                         *)
(***************************************************************************)
\* As a bug: a second question forgets the first one.
ForgetFirst == told

\* A second question answers the first with no.
AnswerFirst == [a \in Askers |-> IF a \in awaiting THEN "no" ELSE told[a]]

\* Whoever asks does so from the page or the dialog the question lives in; a
\* question that is already shown changes in place.
ConfirmAsk(asked) ==
    /\ opens < MaxOpens /\ opens' = opens + 1 /\ hearing = <<>>
    /\ host = "modal" => "modal" \in ToSet(boxStack)
    /\ told' = [AnswerFirst EXCEPT ![asked.asker] = Nobody]
    /\ awaiting' = {asked.asker} /\ inQuestion' = asked
    /\ typed' = (typed /\ inQuestion # Nobody) /\ held' \in BOOLEAN
    /\ LET spot == IF asked.text \/ ~asked.adds THEN "first" ELSE "last"
       IN  IF "confirm" \in ToSet(boxStack)
           THEN focus' = [in |-> "confirm", at |-> spot] /\ UNCHANGED <<boxStack, previous, theLock>>
           ELSE Mount("confirm", spot)
    /\ UNCHANGED <<host, hearing>>

\* As a bug: a held Enter answers like a fresh one.
AnyEnter == TRUE

\* Whether an Enter counts.
FreshEnter == ~held
CanConfirm == inQuestion # Nobody /\ (inQuestion.text => typed)

TypeText ==
    /\ inQuestion # Nobody /\ inQuestion.text /\ focus.in = "confirm" /\ hearing = <<>> /\ typed' = ~typed
    /\ UNCHANGED <<boxStack, host, focus, previous, theLock, hearing, inQuestion, awaiting, told, held, opens>>

\* In the text field, or on the button that confirms.
PressEnter ==
    /\ CanConfirm /\ FreshEnter /\ hearing = <<>> /\ Top = "confirm" /\ focus.in = "confirm"
    /\ focus.at = (IF inQuestion.text THEN "first" ELSE "last")
    /\ Dismount("confirm", "yes")
    /\ UNCHANGED <<host, previous, hearing, opens>>

ReleaseEnter ==
    /\ held /\ held' = FALSE
    /\ UNCHANGED <<boxStack, host, focus, previous, theLock, hearing, inQuestion, awaiting, told, typed, opens>>

ClickConfirm ==
    /\ CanConfirm /\ hearing = <<>> /\ Top = "confirm" /\ held' = FALSE
    /\ LET open == OffStack(boxStack, "confirm")
       IN  /\ boxStack' = open /\ focus' = FocusAfter({"confirm"}, open) /\ Unlock(1)
           /\ told' = [a \in Askers |-> IF a \in awaiting THEN "yes" ELSE told[a]]
           /\ awaiting' = {} /\ inQuestion' = Nobody /\ typed' = FALSE
    /\ UNCHANGED <<host, previous, hearing, opens>>

DialogsNext ==
    \/ \E box \in {"modal", "drawer"} : OpenBox(box)
    \/ \E box \in Boxes : CloseBox(box)
    \/ \E asked \in Questions : ConfirmAsk(asked)
    \/ \E back \in BOOLEAN : PressTab(back)
    \/ PressEscape \/ HearEscape \/ TypeText \/ PressEnter \/ ReleaseEnter \/ ClickConfirm

DialogsSpec == DialogsInit /\ [][DialogsNext]_dialogVars

(***************************************************************************)
(* What they promise.                                                      *)
(***************************************************************************)
DialogsTypeOK ==
    /\ boxStack \in SeqOf(Boxes, 3) /\ host \in {"page", "modal"}
    /\ focus \in {ThePage, Body} \cup UNION {Inside(box) : box \in Boxes}
    /\ locks \in 0..3 /\ overflow \in {"scroll", "hidden"} /\ hearing \in SeqOf(Boxes, 3)
    /\ inQuestion \in Questions \cup {Nobody} /\ awaiting \subseteq Askers
    /\ told \in [Askers -> {"never asked", Nobody, "yes", "no"}] /\ typed \in BOOLEAN /\ held \in BOOLEAN
    /\ opens \in 0..MaxOpens

\* The page scrolls when the last dialog is gone and never under one, whatever
\* order they close in (_internal.ts:22).
PageIsLockedUnderBoxes == overflow = (IF boxStack = <<>> THEN "scroll" ELSE "hidden")

\* Nobody waits for an answer to a question that is not on the screen
\* (ConfirmDialog.tsx:297).
NobodyWaitsForever ==
    \A a \in Askers : told[a] = Nobody =>
        inQuestion # Nobody /\ inQuestion.asker = a /\ "confirm" \in ToSet(boxStack)

\* One Escape closes what is on top and nothing under it (useModalDialog.ts:47).
OneEscapeOneBox ==
    [][hearing # <<>> /\ hearing' # hearing /\ boxStack' # boxStack =>
          /\ Len(hearing) = 1 /\ Head(hearing) = Top]_dialogVars

\* Yes is only said to the question on the screen, by a fresh press, and with the
\* text it requires (ConfirmDialog.tsx:93).
YesIsMeant ==
    [][\A a \in Askers : told'[a] = "yes" /\ told[a] # "yes" =>
          /\ inQuestion # Nobody /\ inQuestion.asker = a /\ Top = "confirm"
          /\ (inQuestion.text => typed)
          /\ ~(held /\ held')]_dialogVars

\* The stack of dialogs, the keys and the boxes that leave with one another keep what
\* confirm() promises (ConfirmDialog.tsx:296-297).
Promise == INSTANCE Promises WITH answers <- told
KeepsThePromise == Promise!PromisesSpec
=============================================================================
