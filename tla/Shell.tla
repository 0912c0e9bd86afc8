------------------------------- MODULE Shell -------------------------------
(***************************************************************************)
(* The frame around the pages: the links and the chords of two keys that   *)
(* lead from page to page, the boxes of the frame - the palette, the sheet *)
(* of shortcuts, the menu of small screens - and the dialogs a page opens, *)
(* also by an answer that comes while another box is open.  The box on top *)
(* has the keys and the clicks.                                            *)
(***************************************************************************)
EXTENDS Naturals, Sequences, FiniteSets, SequencesExt

CONSTANTS Pages,         \* the pages that have a link and a chord
          MaxChords      \* bound: keys of chords that were pressed

ASSUME ChordsAssumption == MaxChords \in Nat

VARIABLES page,          \* the page that is shown
          broken,        \* whether it failed to draw, and its boundary is shown instead
          boxes,         \* the boxes that are open, the last one on top
          typing,        \* whether the keys go to a text field of the page
          chord,         \* the chord that was begun with `g`, or 0
          timers,        \* the chords whose time has not run out
          pressed        \* counts what MaxChords bounds

shellVars == <<page, broken, boxes, typing, chord, timers, pressed>>

OfTheFrame == {"palette", "shortcuts", "menu"}
Box == OfTheFrame \cup {"dialog"}

anyDialogOpen == boxes # <<>>
OnTop(box) == anyDialogOpen /\ Last(boxes) = box
Closing(box) == RemoveFirst(boxes, box)
PageHasTheKeys == ~anyDialogOpen

ShellInit ==
    /\ page \in Pages /\ broken = FALSE /\ boxes = <<>> /\ typing = FALSE
    /\ chord = 0 /\ timers = {} /\ pressed = 0

\* The page of a link or a chord: another one leaves the failure of this one behind, and ends
\* the chord that was begun, for the keys are listened to anew.
GoesTo(p, then) ==
    /\ page' = p
    /\ IF p = page THEN broken' = broken /\ chord' = then[1] /\ timers' = then[2]
                   ELSE broken' = FALSE /\ chord' = 0 /\ timers' = {}

(***************************************************************************)
(* Keys.                                                                   *)
(***************************************************************************)
\* As a bug: the palette opens over whatever is there.
OpensOverAnything == TRUE

MayOpenPalette == ~anyDialogOpen

ControlK ==
    /\ IF Contains(boxes, "palette") THEN boxes' = Closing("palette")
       ELSE MayOpenPalette /\ boxes' = Append(boxes, "palette")
    /\ UNCHANGED <<page, broken, typing, chord, timers, pressed>>

\* As a bug: a chord works under a dialog.
ChordAnywhere == ~typing

HearsKeys == ~typing /\ ~anyDialogOpen

QuestionMark ==
    /\ HearsKeys /\ boxes' = Append(boxes, "shortcuts")
    /\ UNCHANGED <<page, broken, typing, chord, timers, pressed>>

\* As a bug: a chord that is done leaves its timer running.
TimerRuns == timers

\* resetCombo().
TimerCleared == timers \ {chord}

KeyPressed == pressed < MaxChords /\ pressed' = pressed + 1

KeyG ==
    /\ KeyPressed
    /\ HearsKeys
    /\ IF chord = 0 THEN chord' = pressed' /\ timers' = timers \cup {pressed'}
                    ELSE chord' = 0 /\ timers' = TimerCleared
    /\ UNCHANGED <<page, broken, boxes, typing>>

SecondKey(p) ==
    /\ KeyPressed
    /\ HearsKeys /\ chord # 0
    /\ GoesTo(p, <<0, TimerCleared>>)
    /\ UNCHANGED <<boxes, typing>>

\* A key that is no chord ends it too.
OtherKey ==
    /\ KeyPressed
    /\ HearsKeys /\ chord # 0 /\ chord' = 0 /\ timers' = TimerCleared
    /\ UNCHANGED <<page, broken, boxes, typing>>

TimeIsUp(c) ==
    /\ c \in timers /\ chord' = 0 /\ timers' = (timers \ {c}) \ {chord}
    /\ UNCHANGED <<page, broken, boxes, typing, pressed>>

(***************************************************************************)
(* Clicks.                                                                 *)
(***************************************************************************)
FollowLink(p) ==
    /\ \/ PageHasTheKeys /\ UNCHANGED boxes
       \/ OnTop("menu") /\ boxes' = Closing("menu")
       \/ OnTop("palette") /\ boxes' = Closing("palette")
    /\ GoesTo(p, <<chord, timers>>) /\ typing' = FALSE
    /\ UNCHANGED pressed

OpenFromFrame(box) ==
    /\ \/ PageHasTheKeys
       \/ OnTop("menu") /\ box # "menu"
    /\ boxes' = Append(Closing("menu"), box)
    /\ UNCHANGED <<page, broken, typing, chord, timers, pressed>>

\* Escape, the cross, or the backdrop.
CloseTop ==
    /\ anyDialogOpen /\ boxes' = Front(boxes)
    /\ UNCHANGED <<page, broken, typing, chord, timers, pressed>>

(***************************************************************************)
(* The page: its fields, its dialogs, its failures.                        *)
(***************************************************************************)
TurnToField ==
    /\ PageHasTheKeys /\ ~broken /\ typing' = ~typing
    /\ UNCHANGED <<page, broken, boxes, chord, timers, pressed>>

\* By a click, or by an answer that asks for a second yes.
PageOpensDialog ==
    /\ ~broken /\ ~Contains(boxes, "dialog") /\ boxes' = Append(boxes, "dialog")
    /\ UNCHANGED <<page, broken, typing, chord, timers, pressed>>

PageBreaks ==
    /\ ~broken /\ broken' = TRUE /\ boxes' = Closing("dialog") /\ typing' = FALSE
    /\ UNCHANGED <<page, chord, timers, pressed>>

TryAgain ==
    /\ broken /\ PageHasTheKeys /\ broken' = FALSE
    /\ UNCHANGED <<page, boxes, typing, chord, timers, pressed>>

ShellNext ==
    \/ ControlK \/ QuestionMark \/ KeyG \/ OtherKey
    \/ CloseTop \/ TurnToField \/ PageOpensDialog \/ PageBreaks \/ TryAgain
    \/ \E p \in Pages : SecondKey(p) \/ FollowLink(p)
    \/ \E box \in OfTheFrame : OpenFromFrame(box)
    \/ \E c \in timers : TimeIsUp(c)

ShellSpec == ShellInit /\ [][ShellNext]_shellVars

(***************************************************************************)
(* What the frame promises.                                                *)
(***************************************************************************)
ShellTypeOK ==
    /\ page \in Pages /\ broken \in BOOLEAN /\ typing \in BOOLEAN
    /\ ToSet(boxes) \subseteq Box /\ Cardinality(ToSet(boxes)) = Len(boxes)
    /\ chord \in 0..MaxChords /\ timers \subseteq 1..MaxChords /\ pressed \in 0..MaxChords

\* Two boxes of the frame are never open at once, whatever opened over them
\* (Layout.tsx:117-124 and 128-131).
OneBoxOfTheFrame == Cardinality(ToSet(boxes) \cap OfTheFrame) <= 1

\* A chord ends by its own time, never by that of one that was done before (Layout.tsx:105-111).
OwnTimeOnly == timers \subseteq {chord}

\* No key and no link takes the page away from under a dialog of its own
\* (Layout.tsx:117-121 and 128-131).
StaysUnderItsDialog == [][page' # page => ~Contains(boxes, "dialog")]_shellVars
=============================================================================
