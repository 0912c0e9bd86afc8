------------------------------- MODULE Expose -------------------------------
(***************************************************************************)
(* The dialog that publishes a name: configure, review what the server's   *)
(* checks say, save, and a receipt.  An edit that moved nothing but labels *)
(* is saved on its own.  Requests are answered in any order, and the form  *)
(* stays open to edits while they are out.  The list of services takes the *)
(* dialog away as it closes and the first page keeps it, closed, and what  *)
(* it had asked still answers to it.  What a form holds is in RouteForm;   *)
(* here it is one of a few routes, and labelled or not.                    *)
(***************************************************************************)
EXTENDS Naturals, FiniteSets, Queries

CONSTANTS MaxTurns,      \* bound: edits of the form
          MaxSaves,      \* bound: saves that were sent
          MaxOut         \* bound: requests under way

VARIABLES stored,        \* the route at the server, or None
          before,        \* the route the dialog was opened on, or None to create one
          entry,         \* the form
          keepsIt,       \* whether the page keeps the dialog when it is closed
          showing,       \* whether it is open
          step,          \* "configure", "review" or "done"
          verdict,       \* what the last checks said, of which form, and whether it came to
                         \* another one; or None
          plan,          \* the route the last dry run was about, or None
          out,           \* the requests under way
          parting,       \* whether giving up is being asked about
          unlisted,      \* whether the route changed and the list was not told
          halfSaved,     \* whether that was by a request that was answered with a failure, or not
          turns, saves   \* count what MaxTurns and MaxSaves bound

theForm == <<entry, before>>
theServerRoute == <<stored, unlisted, halfSaved>>
theReview == <<verdict, plan>>
theDialogShown == <<keepsIt, showing, parting>>
exposeCounts == <<turns, saves>>
exposeVars == <<theForm, theServerRoute, theReview, theDialogShown, step, out, exposeCounts>>

\* "blank" is a form that cannot be sent; the others differ in what is published.
Entry == [route : {"blank", "plain", "wide"}, labelled : BOOLEAN]
blankEntry == [route |-> "blank", labelled |-> FALSE]
Verdict == [said : {"done", "blocked"}, of : Entry, late : BOOLEAN]

ASSUME ExposeAssumption ==
    MaxTurns \in Nat /\ MaxSaves \in Nat /\ None \notin Entry \cup Verdict

Kind == {"preflight", "save", "labels", "dryrun", "template"}
\* `new`: a POST; `mine`: the dialog that asked is still there.
Sending == [kind : Kind, sent : Entry, new : BOOLEAN, mine : BOOLEAN,
            at : {"sent", "done", "blocked", "failed"}]
IsOut(kind) == \E sending \in out : sending.kind = kind /\ sending.mine

seedEntry == IF before = None THEN blankEntry ELSE before
labelsOnly == before # None /\ entry.route = before.route /\ entry.labelled # before.labelled
isDirty == step = "review" \/ (step = "configure" /\ entry # seedEntry)
Opened == showing /\ ~parting

\* The buttons of the footer.
CanContinue == Opened /\ step = "configure" /\ ~labelsOnly /\ ~IsOut("preflight")
CanSaveLabels == Opened /\ step = "configure" /\ labelsOnly /\ ~IsOut("labels")
CanReview == Opened /\ step = "review" /\ ~IsOut("preflight")
CanSave == CanReview /\ (verdict # None => verdict.said # "blocked") /\ ~IsOut("save")

\* What the review says of the checks, and of the dry run of an edit.
ReviewOffers == {"rerun", "save"} \cup (IF before # None THEN {"dryrun"} ELSE {})

Send(kind) ==
    /\ Cardinality(out) < MaxOut
    /\ out' = out \cup {[kind |-> kind, sent |-> entry, new |-> before = None, mine |-> TRUE, at |-> "sent"]}

ExposeInit ==
    /\ stored \in {None} \cup [route : {"plain", "wide"}, labelled : {FALSE}] /\ before = stored
    /\ keepsIt \in BOOLEAN /\ (keepsIt => stored = None) /\ showing = TRUE   \* the first page only creates
    /\ entry = seedEntry
    /\ step = "configure" /\ verdict = None /\ plan = None
    /\ out = {} /\ parting = FALSE /\ unlisted = FALSE /\ halfSaved = FALSE
    /\ turns = 0 /\ saves = 0

(***************************************************************************)
(* The first step.                                                         *)
(***************************************************************************)
EditEntry ==
    /\ Opened /\ step = "configure" /\ turns < MaxTurns
    /\ entry' \in Entry \ {entry}
    /\ turns' = turns + 1
    /\ UNCHANGED <<before, theServerRoute, theReview, theDialogShown, step, out, saves>>

HandleContinue ==
    /\ CanContinue /\ entry.route # "blank"
    /\ Send("preflight")
    /\ UNCHANGED <<theForm, theServerRoute, theReview, theDialogShown, step, exposeCounts>>

SaveLabels ==
    /\ CanSaveLabels /\ saves < MaxSaves
    /\ Send("labels") /\ saves' = saves + 1
    /\ UNCHANGED <<theForm, theServerRoute, theReview, theDialogShown, step, turns>>

HandleSaveTemplate ==
    /\ Opened /\ step = "configure" /\ ~IsOut("template")
    /\ Send("template")
    /\ UNCHANGED <<theForm, theServerRoute, theReview, theDialogShown, step, exposeCounts>>

(***************************************************************************)
(* The review.                                                             *)
(***************************************************************************)
GoBack ==
    /\ Opened /\ step = "review" /\ step' = "configure"
    /\ UNCHANGED <<theForm, theServerRoute, theReview, theDialogShown, out, exposeCounts>>

RerunPreflight ==
    /\ CanReview /\ "rerun" \in ReviewOffers /\ Send("preflight")
    /\ UNCHANGED <<theForm, theServerRoute, theReview, theDialogShown, step, exposeCounts>>

RunDryRun ==
    /\ Opened /\ step = "review" /\ "dryrun" \in ReviewOffers /\ ~IsOut("dryrun")
    /\ Send("dryrun")
    /\ UNCHANGED <<theForm, theServerRoute, theReview, theDialogShown, step, exposeCounts>>

HandleSave ==
    /\ CanSave /\ "save" \in ReviewOffers /\ saves < MaxSaves
    /\ Send("save") /\ saves' = saves + 1
    /\ UNCHANGED <<theForm, theServerRoute, theReview, theDialogShown, step, turns>>

(***************************************************************************)
(* Giving up.  What would be lost is asked about first.                    *)
(***************************************************************************)
\* The requests that are out when a dialog is closed.  Of a dialog that is taken away only the
\* writes matter to anyone, and two that are alike are one.
LeftBehind ==
    IF keepsIt THEN out
    ELSE {[sending EXCEPT !.mine = FALSE] : sending \in {s \in out : s.kind \in {"save", "labels"}}}

HandleClose ==
    /\ showing' = FALSE /\ parting' = FALSE
    /\ step' = "configure" /\ entry' = seedEntry /\ verdict' = None /\ plan' = None
    /\ out' = LeftBehind
    /\ UNCHANGED <<before, keepsIt, theServerRoute, exposeCounts>>

RequestClose ==
    /\ Opened
    /\ IF isDirty
       THEN /\ parting' = TRUE
            /\ UNCHANGED <<theForm, theServerRoute, theReview, keepsIt, showing, step, out, exposeCounts>>
       ELSE HandleClose

ConfirmClose ==
    /\ parting
    /\ \/ HandleClose
       \/ /\ parting' = FALSE
          /\ UNCHANGED <<theForm, theServerRoute, theReview, keepsIt, showing, step, out, exposeCounts>>

\* The first page opens the dialog it has kept; the list another one, on the route as it has it.
ReopenDialog ==
    /\ ~showing /\ showing' = TRUE
    /\ before' = (IF keepsIt \/ unlisted THEN before ELSE stored)
    /\ entry' = IF keepsIt THEN entry ELSE IF before' = None THEN blankEntry ELSE before'
    /\ UNCHANGED <<theServerRoute, theReview, keepsIt, parting, step, out, exposeCounts>>

(***************************************************************************)
(* The server.  What it has stored is kept when the push that follows for  *)
(* the extra integrations fails, a name is created once, and the answer to *)
(* what was stored may be lost.                                            *)
(***************************************************************************)
IsStored(sending) ==
    \/ sending.kind = "save" /\ sending.sent.route # "blank" /\ (sending.new <=> stored = None)
    \/ sending.kind = "labels" /\ stored # None

AfterWrite(sending) ==
    IF sending.kind = "save" THEN sending.sent ELSE [stored EXCEPT !.labelled = sending.sent.labelled]

Serve(sending) ==
    LET answer(at) == out' = (out \ {sending}) \cup {[sending EXCEPT !.at = at]}
    IN  /\ sending.at = "sent"
        /\ \/ answer("failed") /\ UNCHANGED theServerRoute
           \/ sending.kind = "preflight" /\ answer("blocked") /\ UNCHANGED theServerRoute
           \/ sending.kind \in {"preflight", "template"} /\ answer("done") /\ UNCHANGED theServerRoute
           \/ /\ sending.kind = "dryrun" /\ stored # None
              /\ out' = (out \ {sending}) \cup {[sending EXCEPT !.at = "done", !.sent = stored]}
              /\ UNCHANGED theServerRoute
           \/ /\ IsStored(sending) /\ stored' = AfterWrite(sending) /\ unlisted' = TRUE
              /\ \/ answer("done") /\ UNCHANGED halfSaved
                 \/ answer("failed") /\ halfSaved' = TRUE
    /\ UNCHANGED <<theForm, theReview, theDialogShown, step, exposeCounts>>

(***************************************************************************)
(* The answers.  A dialog that was taken away hears none; one that is kept *)
(* does, closed as it is.                                                  *)
(***************************************************************************)
\* As a bug: checks that could not run open the review, too.
StepAlways(sending) == "review"

StepAfterChecks(sending) == IF sending.at = "failed" THEN step ELSE "review"

PreflightLands(sending) ==
    /\ sending.kind = "preflight" /\ sending.at # "sent" /\ out' = out \ {sending}
    /\ IF ~sending.mine THEN UNCHANGED <<step, verdict>>
       ELSE /\ step' = StepAfterChecks(sending)
            /\ verdict' = IF sending.at = "failed" THEN verdict
                          ELSE [said |-> sending.at, of |-> sending.sent, late |-> sending.sent # entry]
    /\ UNCHANGED <<theForm, theServerRoute, plan, theDialogShown, exposeCounts>>

\* As a bug: the list is not read again after the labels were saved.
ToldOfRoutes == {"save"}

\* invalidateQueries(['services']).
ToldOf == {"save", "labels"}

SaveLands(sending) ==
    /\ sending.kind \in {"save", "labels"} /\ sending.at # "sent" /\ out' = out \ {sending}
    /\ IF sending.at = "failed" THEN UNCHANGED <<step, unlisted, halfSaved>>
       ELSE /\ unlisted' = (unlisted /\ sending.kind \notin ToldOf)
            /\ halfSaved' = (halfSaved /\ sending.kind \notin ToldOf)
            /\ step' = IF sending.mine THEN "done" ELSE step
    /\ UNCHANGED <<theForm, stored, theReview, theDialogShown, exposeCounts>>

DryRunLands(sending) ==
    /\ sending.kind = "dryrun" /\ sending.at # "sent" /\ out' = out \ {sending}
    /\ plan' = IF sending.at = "failed" \/ ~sending.mine THEN plan ELSE sending.sent
    /\ UNCHANGED <<theForm, theServerRoute, verdict, theDialogShown, step, exposeCounts>>

TemplateLands(sending) ==
    /\ sending.kind = "template" /\ sending.at # "sent" /\ out' = out \ {sending}
    /\ UNCHANGED <<theForm, theServerRoute, theReview, theDialogShown, step, exposeCounts>>

ExposeNext ==
    \/ EditEntry \/ HandleContinue \/ SaveLabels \/ HandleSaveTemplate \/ GoBack \/ RerunPreflight
    \/ RunDryRun \/ HandleSave \/ RequestClose \/ ConfirmClose \/ ReopenDialog
    \/ \E sending \in out : \/ Serve(sending) \/ PreflightLands(sending) \/ SaveLands(sending)
                            \/ DryRunLands(sending) \/ TemplateLands(sending)

ExposeSpec == ExposeInit /\ [][ExposeNext]_exposeVars

(***************************************************************************)
(* What the dialog promises.                                               *)
(***************************************************************************)
ExposeTypeOK ==
    /\ stored \in Entry \cup {None} /\ before \in Entry \cup {None} /\ entry \in Entry
    /\ keepsIt \in BOOLEAN /\ showing \in BOOLEAN /\ step \in {"configure", "review", "done"}
    /\ verdict \in Verdict \cup {None} /\ plan \in Entry \cup {None}
    /\ out \subseteq Sending /\ parting \in BOOLEAN /\ unlisted \in BOOLEAN /\ halfSaved \in BOOLEAN
    /\ turns \in 0..MaxTurns /\ saves \in 0..MaxSaves

\* Once no write is under way the list was told of all that was stored, whoever closed
\* what behind it: only a save that stored and was answered with a failure, or not at
\* all, is left to the next one (ExposeModal.tsx:512-514 and 555-557).
WritesAreListed ==
    (\A sending \in out : sending.kind \notin {"save", "labels"}) /\ ~halfSaved => ~unlisted

\* What is saved is what the checks have passed (README.md:53).  No edit goes around them,
\* but one that was made behind checks under way: their verdict comes to another form
\* than theirs, and lets that one through (ExposeModal.tsx:480-483 and 637-639).
SavedWasChecked ==
    [][\A sending \in out' \ out : sending.kind = "save" /\ sending.at = "sent" /\ sending.mine =>
           /\ step = "review" /\ verdict # None /\ verdict.said = "done"
           /\ verdict.late \/ verdict.of = sending.sent]_exposeVars
=============================================================================
