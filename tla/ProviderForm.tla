---------------------------- MODULE ProviderForm ----------------------------
(***************************************************************************)
(* The form that connects an integration, in its two hosts: the dialog of  *)
(* the integrations page and the screen of the first-run wizard.  A type   *)
(* is picked, its fields are filled in on guided steps or on one expert    *)
(* page, the draft is validated, and only a verdict that is ok offers      *)
(* Connect.                                                                *)
(*                                                                         *)
(* Of a field only its being filled in is kept.  A request in `formPosts`  *)
(* knows whether the form it was sent from is still open (`here`) and      *)
(* still holds what was sent (`same`).                                     *)
(***************************************************************************)
EXTENDS Integers, FiniteSets, Sequences, Queries

CONSTANTS Types,         \* the types that can be picked
          MaxPosts       \* bound: requests of the form under way

ASSUME FormAssumption ==
    /\ None \notin Types \cup {"guided", "expert", "ok", "issues"}
    /\ MaxPosts \in Nat

VARIABLES formHost,      \* "dialog" or "wizard"
          form,          \* the form on the screen, or Shut
          formPosts      \* its requests under way

formVars == <<formHost, form, formPosts>>

(***************************************************************************)
(* What a type asks for (providerConstants.ts).  The first guided step of  *)
(* NPM is a text to read; Cloudflare's token comes first, its zone is      *)
(* optional.                                                               *)
(***************************************************************************)
FORM_FIELDS == {"name", "url", "username", "password", "tunnel_id"}

GuidedSteps(type) ==
    CASE type = "npm" -> <<{}, {"url"}, {"username", "password"}>>
      [] type = "adguard" -> <<{"url", "username", "password"}>>
      [] type = "traefik" -> <<{"url"}>>
      [] type = "cloudflare" -> <<{"password"}, {}>>
      [] OTHER -> <<>>

RequiresPassword(type) == type \notin {"traefik", "zoraxy"}
\* As a bug: asked of every type that has a login, on its guided steps or not.
RequiresUsernameToo(type) == type # "desec"
RequiresUsername(type) == type = "cloudflare_tunnel"
IsUrlOptional(type) == type \in {"cloudflare", "cloudflare_tunnel", "desec"}

RequiredFields(type) ==
    IF type = None THEN {}
    ELSE {"name"} \cup (IF IsUrlOptional(type) THEN {} ELSE {"url"})
         \cup (IF RequiresUsername(type) THEN {"username"} ELSE {})
         \cup (IF RequiresPassword(type) THEN {"password"} ELSE {})
         \cup (IF type = "cloudflare_tunnel" THEN {"tunnel_id"} ELSE {})
         \cup UNION {GuidedSteps(type)[i] : i \in DOMAIN GuidedSteps(type)}

MissingFields(draft) ==
    RequiredFields(draft.type) \ (draft.filled \cup (IF draft.of # None THEN {"password"} ELSE {}))
CanSubmit(draft) == draft.type # None /\ MissingFields(draft) = {}

\* The first guided step that asks for a field that is missing; one past the
\* last when there is none.
FirstIncompleteStep(draft) ==
    LET steps == GuidedSteps(draft.type)
        open == {i \in DOMAIN steps : steps[i] \cap MissingFields(draft) # {}}
    IN  IF open = {} THEN Len(steps) + 1 ELSE CHOOSE i \in open : \A j \in open : i <= j

\* A new type gets its own name and an empty address; the type picked last
\* keeps both.  The other fields are kept either way.
SeedFormForType(draft, type) ==
    [draft EXCEPT !.type = type, !.last = type,
                  !.filled = IF draft.last = type THEN @ \cup {"name"} ELSE (@ \cup {"name"}) \ {"url"}]

(***************************************************************************)
(* The form.                                                               *)
(***************************************************************************)
Shut == [open |-> FALSE]
EmptyForm ==
    [open |-> TRUE, of |-> None, type |-> None, last |-> None, filled |-> {}, step |-> 1,
     mode |-> IF formHost = "dialog" THEN "guided" ELSE None, index |-> 1,
     edited |-> FALSE, verdict |-> None, about |-> TRUE, asking |-> FALSE,
     docker |-> FALSE, endpoint |-> FALSE]
FormFromProvider(type) ==
    [EmptyForm EXCEPT !.of = type, !.type = type, !.last = type, !.step = 2, !.mode = "expert",
                      !.filled = FORM_FIELDS \ {"password"}]

InDialog == formHost = "dialog" /\ form.open /\ ~form.asking
InWizard == formHost = "wizard" /\ form.open
Guided == form.mode = "guided" /\ form.type # None /\ form.of = None /\ GuidedSteps(form.type) # <<>>
Expert == form.mode = "expert" \/ (form.type # None /\ GuidedSteps(form.type) = <<>>)
Filling == (InDialog \/ InWizard) /\ form.type # None /\ form.step = 2
LastStep == form.index = Len(GuidedSteps(form.type))

\* The fields on the screen: the dialog asks for the name on every step, the
\* wizard on the first.
Shown ==
    IF Guided
    THEN GuidedSteps(form.type)[form.index]
         \cup (IF formHost = "dialog" \/ form.index = 1 THEN {"name"} ELSE {})
    ELSE RequiredFields(form.type)
\* As a bug: the name is asked for on the first step and not waited for.
StepMissingFieldsOnly == MissingFields(form) \cap GuidedSteps(form.type)[form.index]

\* What holds Next back.
StepMissing == MissingFields(form) \cap
    (GuidedSteps(form.type)[form.index] \cup
        (IF formHost = "wizard" /\ form.index = 1 THEN {"name"} ELSE {}))

Sending(op) == \E post \in formPosts : post.op = op
FormBusy == formPosts # {}
Outdated == {[post EXCEPT !.same = FALSE] : post \in formPosts}
Orphaned == {[post EXCEPT !.same = FALSE, !.here = FALSE] : post \in formPosts}

FormInit ==
    /\ formHost \in {"dialog", "wizard"}
    /\ form = Shut
    /\ formPosts = {}

Open ==
    /\ ~form.open
    /\ \/ form' = EmptyForm
       \/ formHost = "dialog" /\ \E type \in Types : form' = FormFromProvider(type)
    /\ UNCHANGED <<formHost, formPosts>>

\* As a bug: another type is picked and the guided step stays.
PickedIndexKept == form.index

\* The wizard starts the guided steps over when the mode is chosen.
PickedIndex == IF formHost = "dialog" THEN 1 ELSE form.index

\* chooseProviderType, at the picker.
ChooseProviderType(type) ==
    /\ \/ InDialog /\ form.of = None /\ form.step = 1
       \/ InWizard /\ form.type = None
    /\ form' = [SeedFormForType(form, type) EXCEPT
                   !.verdict = None, !.docker = FALSE, !.index = PickedIndex,
                   !.step = IF formHost = "dialog" THEN 1 ELSE 2]
    /\ formPosts' = Outdated
    /\ UNCHANGED formHost

\* The dialog takes a Docker engine, too: an endpoint of its own fields.
ChooseDockerType ==
    /\ InDialog /\ form.of = None /\ form.step = 1
    /\ form' = [form EXCEPT !.docker = TRUE, !.type = None, !.last = None, !.filled = {}, !.verdict = None]
    /\ formPosts' = Outdated
    /\ UNCHANGED formHost

TypeEndpoint ==
    /\ InDialog /\ form.docker /\ form.step = 2
    /\ form' = [form EXCEPT !.endpoint = ~@, !.edited = TRUE]
    /\ UNCHANGED <<formHost, formPosts>>

Continue ==
    /\ InDialog /\ form.of = None
    /\ \/ form.step = 1 /\ (form.type # None \/ form.docker) /\ form' = [form EXCEPT !.step = 2]
       \/ form.step = 2 /\ ~FormBusy /\ form' = [form EXCEPT !.step = 1]
    /\ UNCHANGED <<formHost, formPosts>>

\* clearType: back to the picker.
ClearType == [form EXCEPT !.type = None, !.mode = None, !.index = 1, !.step = 1, !.verdict = None]

\* The one Back of the wizard.
Back ==
    /\ InWizard /\ form.type # None /\ ~FormBusy
    /\ form' = IF Guided /\ form.index > 1 THEN [form EXCEPT !.index = @ - 1, !.verdict = None]
               ELSE IF GuidedSteps(form.type) # <<>> /\ form.mode # None
               THEN [form EXCEPT !.mode = None]
               ELSE ClearType
    /\ formPosts' = IF form'.type = None THEN Outdated ELSE formPosts
    /\ UNCHANGED formHost

\* The tabs of the dialog, or the question of the wizard, which begins the
\* guided steps at the first.
ChooseMode(mode) ==
    /\ Filling /\ form.of = None /\ GuidedSteps(form.type) # <<>>
    /\ IF formHost = "dialog"
       THEN form' = [form EXCEPT !.mode = mode]
       ELSE /\ form.mode = None
            /\ form' = [form EXCEPT !.mode = mode, !.index = IF mode = "guided" THEN 1 ELSE @]
    /\ UNCHANGED <<formHost, formPosts>>

NextStep ==
    /\ Filling /\ Guided /\ ~LastStep /\ StepMissing = {}
    /\ form' = [form EXCEPT !.index = @ + 1]
    /\ UNCHANGED <<formHost, formPosts>>

\* Back, the dots of the dialog, which lead to any step up to the first
\* incomplete one, and the missing fields, each a link to its step.
GoToStep(i) ==
    /\ Filling /\ Guided /\ i \in DOMAIN GuidedSteps(form.type) \ {form.index}
    /\ \/ formHost = "dialog" /\ (i <= FirstIncompleteStep(form) \/ i = form.index - 1)
       \/ LastStep /\ MissingFields(form) \cap GuidedSteps(form.type)[i] # {}
    /\ form' = [form EXCEPT !.index = i, !.verdict = IF formHost = "wizard" THEN None ELSE @]
    /\ UNCHANGED <<formHost, formPosts>>

\* A field is filled in or emptied: the verdict goes, and it counts as edited.
UpdateField(key) ==
    /\ Filling /\ key \in Shown
    /\ form' = [form EXCEPT !.filled = IF key \in @ THEN @ \ {key} ELSE @ \cup {key},
                            !.verdict = None, !.edited = TRUE]
    /\ formPosts' = Outdated
    /\ UNCHANGED formHost

Post(op) ==
    /\ Cardinality(formPosts) < MaxPosts
    /\ formPosts' = formPosts \cup {[op |-> op, here |-> TRUE, same |-> TRUE]}
    /\ UNCHANGED <<formHost, form>>

\* The primary button: the wizard has it on the last guided step and on the
\* expert page, the dialog on every step.
Primary == Filling /\ form.of = None /\ (formHost = "dialog" \/ (Guided /\ LastStep) \/ Expert)
Validate == Primary /\ CanSubmit(form) /\ ~FormBusy /\ Post("validate")
Connect == Primary /\ form.verdict = "ok" /\ CanSubmit(form) /\ ~FormBusy /\ Post("create")
HandleSave == Filling /\ form.of # None /\ MissingFields(form) = {} /\ ~Sending("save") /\ Post("save")
AddEndpoint == InDialog /\ form.docker /\ form.step = 2 /\ form.endpoint /\ ~Sending("endpoint")
               /\ Post("endpoint")

\* As a bug: Escape closes the dialog whatever was typed.
CloseAtOnce ==
    /\ InDialog
    /\ form' = Shut /\ formPosts' = Orphaned
    /\ UNCHANGED formHost

\* Cancel, the cross and Escape of the dialog: the guard asks when something
\* was typed.  They answer while a request is under way, too.
RequestClose ==
    /\ InDialog
    /\ IF form.edited
       THEN form' = [form EXCEPT !.asking = TRUE] /\ UNCHANGED formPosts
       ELSE form' = Shut /\ formPosts' = Orphaned
    /\ UNCHANGED formHost

AnswerGuard(yes) ==
    /\ form.open /\ form.asking
    /\ IF yes THEN form' = Shut /\ formPosts' = Orphaned
              ELSE form' = [form EXCEPT !.asking = FALSE] /\ UNCHANGED formPosts
    /\ UNCHANGED formHost

\* The cross of the wizard is always there.
CancelWizard ==
    /\ InWizard
    /\ form' = Shut /\ formPosts' = Orphaned
    /\ UNCHANGED formHost

\* The wizard survives a reload, without the secret and without the verdict.
Reload ==
    /\ InWizard
    /\ form' = [form EXCEPT !.filled = @ \ {"password"}, !.verdict = None, !.last = form.type]
    /\ formPosts' = {}
    /\ UNCHANGED formHost

\* A verdict is written over whatever form is there.
ValidateLands(post) ==
    /\ post.op = "validate"
    /\ formPosts' = formPosts \ {post}
    /\ \E verdict \in {"ok", "issues", None} :
           form' = IF form.open
                   THEN [form EXCEPT !.verdict = verdict, !.about = verdict # None => post.same]
                   ELSE form
    /\ UNCHANGED formHost

\* A save that succeeded closes the form that is there and wipes it.
SaveLands(post) ==
    /\ post.op # "validate"
    /\ \/ form' = Shut
          /\ formPosts' = {[other EXCEPT !.same = FALSE, !.here = FALSE] : other \in formPosts \ {post}}
       \/ UNCHANGED form /\ formPosts' = formPosts \ {post}
    /\ UNCHANGED formHost

FormNext ==
    \/ Open \/ Continue \/ Back \/ NextStep \/ Validate \/ Connect \/ HandleSave
    \/ ChooseDockerType \/ TypeEndpoint \/ AddEndpoint
    \/ RequestClose \/ CancelWizard \/ Reload
    \/ \E type \in Types : ChooseProviderType(type)
    \/ \E mode \in {"guided", "expert"} : ChooseMode(mode)
    \/ \E i \in 1..3 : GoToStep(i)
    \/ \E key \in FORM_FIELDS : UpdateField(key)
    \/ \E yes \in BOOLEAN : AnswerGuard(yes)
    \/ \E post \in formPosts : ValidateLands(post) \/ SaveLands(post)

FormSpec == FormInit /\ [][FormNext]_formVars

(***************************************************************************)
(* What the form promises.                                                 *)
(***************************************************************************)
FormTypeOK ==
    /\ formHost \in {"dialog", "wizard"}
    /\ formPosts \subseteq [op : {"validate", "create", "save", "endpoint"}, here : BOOLEAN, same : BOOLEAN]
    /\ form = Shut \/ form \in
        [open : {TRUE}, of : Types \cup {None}, type : Types \cup {None}, last : Types \cup {None},
         filled : SUBSET FORM_FIELDS, step : {1, 2}, mode : {"guided", "expert", None}, index : 1..3,
         edited : BOOLEAN, verdict : {None, "ok", "issues"}, about : BOOLEAN, asking : BOOLEAN,
         docker : BOOLEAN, endpoint : BOOLEAN]

\* No later guided step of the wizard is reached with the name blank: the name
\* is asked on the first step only, and nothing links back to it
\* (ProviderFormStep.tsx:127).
NameBeforeLaterSteps == InWizard /\ Guided /\ form.index > 1 => "name" \in form.filled

\* The guided step on the screen is one the type has, whatever type and mode
\* came before it (StepCredentials.tsx:134).
StepExists == Filling /\ Guided => form.index \in DOMAIN GuidedSteps(form.type)

\* Where the primary button is held back by missing fields, each of them is on
\* the screen or on a step the screen leads to.
MissingIsReachable ==
    Primary /\ (Guided => LastStep) =>
        \A key \in MissingFields(form) : key \in Shown \/
            (Guided /\ \E i \in DOMAIN GuidedSteps(form.type) : key \in GuidedSteps(form.type)[i])

\* What was typed in the dialog is thrown away by a yes to the guard, or by a
\* save that succeeded, and by nothing else (ProviderModal.tsx:106).
NothingTypedIsLost ==
    [][formHost = "dialog" /\ form.open /\ form.edited /\ ~form'.open =>
         form.asking \/ \E post \in formPosts : post.op # "validate" /\ post \notin formPosts']_formVars
=============================================================================
