----------------------------- MODULE Templates -----------------------------
(***************************************************************************)
(* The templates page: the list with its label filter, the dialog that     *)
(* creates and edits a template (which one is in the address of the page), *)
(* copies and deletions.  A name is a sequence of letters no longer than   *)
(* NameMax, the number of a copy one letter of it; of the rest a template  *)
(* keeps what is picked for it.                                            *)
(***************************************************************************)
EXTENDS Integers, FiniteSets, Sequences, Queries

CONSTANTS TemplateIds,   \* ids of templates
          NameMax,       \* TEMPLATE_NAME_MAX
          MaxPatches,    \* bound: edits of the dialog
          MaxPosted      \* bound: requests that were sent

ASSUME TemplatesAssumption ==
    /\ IsFiniteSet(TemplateIds) /\ "new" \notin TemplateIds /\ None \notin TemplateIds \cup {"new"}
    /\ NameMax \in Nat /\ NameMax >= 2
    /\ MaxPatches \in Nat /\ MaxPosted \in Nat

VARIABLES shelf,         \* the templates at the server
          freshIds,      \* the ids no template has had yet
          listing,       \* the query ['templates']
          labelFilter,   \* the labels the list is filtered by
          address,       \* the template in the page's address, "new", or None
          sheet,         \* the form of the dialog
          conflict,      \* whether the server refused the name of the form
          leaving,       \* whether losing the form is being asked about
          deletingId, duplicatingId,
          doomed,        \* the template whose deletion is being asked about
          posted,        \* the requests under way
          misheard,      \* whether the list missed a change: its answer was lost, or joined a first read
          patches, posts \* count what MaxPatches and MaxPosted bound

thePage == <<listing, labelFilter>>
theDialog == <<address, sheet, conflict, leaving>>
theCards == <<deletingId, duplicatingId, doomed>>
theShelf == <<shelf, freshIds, misheard>>
templateCounts == <<patches, posts>>
templateVars == <<thePage, theDialog, theCards, theShelf, posted, templateCounts>>

LetterA == -1
LetterB == -2
\* From 1 on, the suffix of a copy.
NameLetters == {LetterA, LetterB} \cup 1..Cardinality(TemplateIds) + 1
NamesOf(n) == UNION {[1..k -> NameLetters] : k \in 0..n}
Labels == {"tag", "environment"}
Picks == SUBSET {"proxy", "dns", "tunnel"}
Sheet == [name : NamesOf(NameMax), port : {"none", "good", "bad"}, tunnelled : BOOLEAN,
          picks : Picks, auto : BOOLEAN, labels : SUBSET Labels]
emptyTemplateForm == [name |-> <<>>, port |-> "none", tunnelled |-> FALSE, picks |-> {},
                      auto |-> FALSE, labels |-> {}]

(***************************************************************************)
(* A template as a form and back, its faults, and the name of a copy.      *)
(***************************************************************************)
toTemplateForm(template) == template

\* As a bug: only the first half of the labels is sent.
TemplateInTags(form) ==
    [form EXCEPT !.picks = IF form.tunnelled THEN @ \cap {"tunnel"} ELSE @ \ {"tunnel"},
                 !.auto = @ /\ ~form.tunnelled, !.labels = @ \ {"environment"}]

toTemplateIn(form) ==
    [form EXCEPT !.picks = IF form.tunnelled THEN @ \cap {"tunnel"} ELSE @ \ {"tunnel"},
                 !.auto = @ /\ ~form.tunnelled]

validateTemplateForm(form) == form.name # <<>> /\ form.port # "bad"

\* The suffix, with its number from the second copy on.
Suffix(n) == <<n>>

\* As a bug: a name that is too long is sent as it is.
FitUncut(base, suffix) == base \o suffix

\* A name that is too long loses letters of its base.
Fit(base, suffix) ==
    IF Len(base) + Len(suffix) <= NameMax THEN base \o suffix
    ELSE SubSeq(base, 1, IF Len(suffix) < NameMax THEN NameMax - Len(suffix) ELSE 1) \o suffix

\* The first number that is free; past a thousand it is the time, which is as new.
duplicateName(base, taken) ==
    LET free == {n \in 1..Cardinality(taken) + 1 : Fit(base, Suffix(n)) \notin taken}
    IN  Fit(base, Suffix(CHOOSE n \in free : \A m \in free : n <= m))

(***************************************************************************)
(* What the page shows.                                                    *)
(***************************************************************************)
Stocked == IF listing.data = None THEN {} ELSE {i \in TemplateIds : listing.data[i] # None}
LabelFacets == UNION {listing.data[i].labels : i \in Stocked}
VisibleTemplates == {i \in Stocked : labelFilter \subseteq listing.data[i].labels}
TemplatesBody == IF Pending(listing) THEN "loading" ELSE IF listing.error THEN "error"
                 ELSE IF Stocked = {} THEN "empty"
                 ELSE IF VisibleTemplates = {} THEN "no match" ELSE "cards"

ModalOpen == address = "new" \/ address \in Stocked
Seeded == IF address \in Stocked THEN toTemplateForm(listing.data[address]) ELSE emptyTemplateForm
Dirty == sheet # Seeded
AtCards == ~ModalOpen /\ doomed = None /\ TemplatesBody = "cards"

Shapes ==
    {[name |-> <<LetterA>>, port |-> "good", tunnelled |-> FALSE, picks |-> {"proxy", "dns"},
      auto |-> TRUE, labels |-> Labels],
     [name |-> [k \in 1..NameMax |-> IF k = 1 THEN LetterA ELSE LetterB], port |-> "none",
      tunnelled |-> TRUE, picks |-> {"tunnel"}, auto |-> FALSE, labels |-> {"tag"}]}

TemplatesInit ==
    /\ shelf \in [TemplateIds -> Shapes \cup {None}]
    /\ \A i, j \in TemplateIds : i # j /\ shelf[i] # None => shelf[i] # shelf[j]
    /\ freshIds = {i \in TemplateIds : shelf[i] = None} /\ Cardinality(freshIds) = 1
    /\ listing = Asked(Unasked) /\ labelFilter = {}
    /\ address = None /\ sheet = emptyTemplateForm /\ conflict = FALSE /\ leaving = FALSE
    /\ deletingId = None /\ duplicatingId = None /\ doomed = None
    /\ posted = {} /\ misheard = FALSE /\ patches = 0 /\ posts = 0

ListingLands ==
    /\ listing.ask = "asked" /\ listing' \in {Landed(shelf), Failed(listing)}
    /\ UNCHANGED <<labelFilter, theDialog, theCards, theShelf, posted, templateCounts>>

ListingRetry ==
    /\ listing.error /\ listing.ask = "idle" /\ listing' = Asked(listing)
    /\ UNCHANGED <<labelFilter, theDialog, theCards, theShelf, posted, templateCounts>>

ToggleLabelFilter ==
    /\ ~ModalOpen /\ doomed = None /\ TemplatesBody \in {"cards", "no match"}
    /\ \/ \E label \in LabelFacets :
              labelFilter' = IF label \in labelFilter THEN labelFilter \ {label} ELSE labelFilter \cup {label}
       \/ labelFilter # {} /\ labelFilter' = {}
    /\ UNCHANGED <<listing, theDialog, theCards, theShelf, posted, templateCounts>>

(***************************************************************************)
(* The dialog.                                                             *)
(***************************************************************************)
OpenDialog ==
    /\ ~ModalOpen          \* the key "n" works under a question too
    /\ address' \in {"new"} \cup (IF AtCards THEN VisibleTemplates ELSE {})
    /\ sheet' = IF address' = "new" THEN emptyTemplateForm ELSE toTemplateForm(listing.data[address'])
    /\ conflict' = FALSE /\ leaving' = FALSE
    /\ UNCHANGED <<thePage, theCards, theShelf, posted, templateCounts>>

EditsOf(form) ==
    {[form EXCEPT !.name = name] : name \in {<<>>, <<LetterA>>}}
    \cup {[form EXCEPT !.port = "bad"]}
    \cup {[form EXCEPT !.tunnelled = ~@]}
    \cup {[form EXCEPT !.picks = (form.picks \ {kind}) \cup ({kind} \ form.picks)] :
             kind \in IF form.tunnelled THEN {"tunnel"} ELSE {"proxy", "dns"}}
    \cup (IF form.tunnelled THEN {} ELSE {[form EXCEPT !.auto = ~@]})
    \cup {[form EXCEPT !.labels = (@ \ {"tag"}) \cup ({"tag"} \ @)]}

Patch ==
    /\ ModalOpen /\ ~leaving /\ patches < MaxPatches /\ patches' = patches + 1
    /\ sheet' \in EditsOf(sheet) \ {sheet}
    /\ conflict' = (conflict /\ sheet'.name = sheet.name)
    /\ UNCHANGED <<thePage, address, leaving, theCards, theShelf, posted, posts>>

\* As a bug: closing never asks.
GuardOff == FALSE

\* useUnsavedGuard.
Guarded == Dirty

\* Escape closes the dialog even while a save is under way.
RequestLeave ==
    /\ ModalOpen /\ ~leaving
    /\ IF Guarded THEN leaving' = TRUE /\ UNCHANGED address ELSE address' = None /\ UNCHANGED leaving
    /\ UNCHANGED <<thePage, sheet, conflict, theCards, theShelf, posted, templateCounts>>

AnswerLeave ==
    /\ leaving /\ leaving' = FALSE /\ address' \in {address, None}
    /\ UNCHANGED <<thePage, sheet, conflict, theCards, theShelf, posted, templateCounts>>

PostRequest(op, id, body) ==
    /\ posts < MaxPosted /\ posts' = posts + 1
    /\ posted' = posted \cup {[op |-> op, id |-> id, body |-> body, at |-> "sent"]}

Saving == \E post \in posted : post.op = "save"
HandleSubmit ==
    /\ ModalOpen /\ ~leaving /\ ~Saving /\ validateTemplateForm(sheet)
    /\ PostRequest("save", address, toTemplateIn(sheet))
    /\ UNCHANGED <<thePage, theDialog, theCards, theShelf, patches>>

(***************************************************************************)
(* The cards.                                                              *)
(***************************************************************************)
HandleDuplicate(i) ==
    /\ AtCards /\ i \in VisibleTemplates \ {deletingId, duplicatingId}
    /\ duplicatingId' = i
    /\ PostRequest("copy", i, [toTemplateIn(toTemplateForm(listing.data[i])) EXCEPT
           !.name = duplicateName(@, {listing.data[j].name : j \in Stocked})])
    /\ UNCHANGED <<thePage, theDialog, deletingId, doomed, theShelf, patches>>

HandleDelete(i) ==
    /\ AtCards /\ i \in VisibleTemplates \ {deletingId, duplicatingId}
    /\ doomed' = i
    /\ UNCHANGED <<thePage, theDialog, deletingId, duplicatingId, theShelf, posted, templateCounts>>

ConfirmDelete ==
    /\ doomed # None /\ doomed' = None
    /\ \/ UNCHANGED <<deletingId, posted, posts>>
       \/ deletingId' = doomed /\ PostRequest("delete", doomed, emptyTemplateForm)
    /\ UNCHANGED <<thePage, theDialog, duplicatingId, theShelf, patches>>

(***************************************************************************)
(* The server, and its answers.  No two templates have one name.           *)
(***************************************************************************)
Taken(post) == \E j \in TemplateIds : j # post.id /\ shelf[j] # None /\ shelf[j].name = post.body.name

\* The template as it is after the request.
Puts(post) ==
    IF post.op \in {"delete", "save"} /\ post.id \in TemplateIds
    THEN IF shelf[post.id] = None THEN {}
         ELSE {[shelf EXCEPT ![post.id] = IF post.op = "delete" THEN None ELSE post.body]}
    ELSE {[shelf EXCEPT ![i] = post.body] : i \in freshIds}

ServePost(post) ==
    LET answer(at) == posted' = (posted \ {post}) \cup {[post EXCEPT !.at = at]}
        clash == post.op # "delete" /\ (Taken(post) \/ (post.op = "copy" /\ \E j \in TemplateIds :
                     shelf[j] # None /\ shelf[j].name = post.body.name))
    IN  /\ post.at = "sent"
        /\ \/ answer("failed") /\ UNCHANGED theShelf
           \/ clash /\ answer("taken") /\ UNCHANGED theShelf
           \/ /\ ~clash /\ shelf' \in Puts(post)
              /\ freshIds' = {i \in freshIds : shelf'[i] = None}
              /\ \/ answer("done") /\ UNCHANGED misheard
                 \/ answer("failed") /\ misheard' = TRUE
    /\ UNCHANGED <<thePage, theDialog, theCards, templateCounts>>

\* As a bug: a copy is left for the next visit to read.
ReadAfterOwn == {"save", "delete"}

\* invalidateQueries(['templates']).
ReadAfter == {"save", "copy", "delete"}

\* A change that was made has the list read again; only a new template can be saved before
\* there is a list.
ListAgain(post) == IF post.op = "save" /\ post.id = "new" THEN Reread(listing) ELSE {Asked(listing)}

\* A save that succeeded closes the dialog, whichever one is open by then.
PostLands(post) ==
    /\ post.at # "sent" /\ posted' = posted \ {post}
    /\ IF post.at = "done" /\ post.op \in ReadAfter
       THEN listing' \in ListAgain(post) /\ misheard' = (misheard \/ listing'.ask = "idle")
       ELSE UNCHANGED <<listing, misheard>>
    /\ address' = IF post.op = "save" /\ post.at = "done" THEN None ELSE address
    /\ leaving' = (leaving /\ address' = address)
    /\ conflict' = (conflict \/ (post.op = "save" /\ post.at = "taken" /\ ModalOpen /\ address = post.id))
    /\ deletingId' = IF post.op = "delete" THEN None ELSE deletingId
    /\ duplicatingId' = IF post.op = "copy" THEN None ELSE duplicatingId
    /\ UNCHANGED <<labelFilter, sheet, doomed, shelf, freshIds, templateCounts>>

TemplatesNext ==
    \/ ListingLands \/ ListingRetry \/ ToggleLabelFilter \/ OpenDialog \/ Patch \/ RequestLeave
    \/ AnswerLeave \/ HandleSubmit \/ ConfirmDelete
    \/ \E i \in TemplateIds : HandleDuplicate(i) \/ HandleDelete(i)
    \/ \E post \in posted : ServePost(post) \/ PostLands(post)

TemplatesSpec == TemplatesInit /\ [][TemplatesNext]_templateVars

(***************************************************************************)
(* What the page promises.                                                 *)
(***************************************************************************)
Posts == [op : {"save", "copy", "delete"}, id : TemplateIds \cup {"new"}, body : Sheet,
          at : {"sent", "done", "failed", "taken"}]
TemplatesTypeOK ==
    /\ \A i \in TemplateIds : shelf[i] = None \/ shelf[i] \in Sheet
    /\ freshIds \subseteq TemplateIds /\ listing.ask \in {"idle", "asked"} /\ labelFilter \subseteq Labels
    /\ address \in TemplateIds \cup {"new", None} /\ sheet \in Sheet
    /\ conflict \in BOOLEAN /\ leaving \in BOOLEAN
    /\ {deletingId, duplicatingId, doomed} \subseteq TemplateIds \cup {None}
    /\ \A post \in posted : post.body.name \in NamesOf(NameMax) /\ post \in Posts
    /\ misheard \in BOOLEAN /\ patches \in 0..MaxPatches /\ posts \in 0..MaxPosted

\* A copy is sent under a name that is free in the list it was made from, fits,
\* and is in all else the template it was made from (types.ts:228).
CopyIsFaithful ==
    [][\A post \in posted' \ posted : post.op = "copy" /\ post.at = "sent" =>
          /\ \A j \in Stocked : listing.data[j].name # post.body.name
          /\ Len(post.body.name) <= NameMax
          /\ [post.body EXCEPT !.name = listing.data[post.id].name] = listing.data[post.id]]_templateVars

\* What was typed is only lost to an answer that says so, to a save that was
\* made, and to a template that has gone from the list (TemplateModal.tsx:188).
TypedIsAskedAbout ==
    [][ModalOpen /\ Dirty /\ ~ModalOpen' =>
          \/ leaving \/ listing' # listing
          \/ \E post \in posted \ posted' : post.op = "save" /\ post.at = "done"]_templateVars

\* At rest the page lists what the server holds, whatever order the answers came in, unless
\* a change's answer was lost or met the first fetch of the list (Templates.tsx:207).
ShelfIsListed == posted = {} /\ ~misheard /\ Usable(listing) /\ listing.ask = "idle" => listing.data = shelf
=============================================================================
