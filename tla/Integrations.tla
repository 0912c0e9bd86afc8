---------------------------- MODULE Integrations ----------------------------
(***************************************************************************)
(* The integrations page: the list with its switches, its tests, the test  *)
(* of every integration at once, and the deletion with its second          *)
(* question.                                                               *)
(*                                                                         *)
(* A request is in `calls` from the click to the moment its answer reaches *)
(* the page.  A test changes nothing on the server, so it is answered as   *)
(* it lands; the others are served first (`at`).                           *)
(***************************************************************************)
EXTENDS Naturals, FiniteSets, Queries

CONSTANTS Ids,           \* integrations
          MaxFlows,      \* bound: requests, rounds of checks and questions at once
          MaxChanges     \* bound: changes the server makes

ASSUME IntegrationsAssumption == MaxChanges \in Nat

VARIABLES hosts,         \* the server: each integration gone, off or on
          list,          \* the query ['providers']
          busy,          \* the cards marked as testing, validating, toggling, deleting
          refresh,       \* None, or the checks of "check all" still to answer
          calls,         \* the requests under way
          question,      \* the question on the screen, or None
          lost,          \* whether the answer to a change was lost
          changes        \* counts what MaxChanges bounds

integrationsVars ==
    <<hosts, list, busy, refresh, calls, question, lost, changes>>

Rows == [Ids -> {"gone", "off", "on"}]
Kinds == {"test", "validate", "toggle", "delete"}
Cards == IF list.data = None THEN {} ELSE {id \in Ids : list.data[id] # "gone"}
CardsOn == {id \in Cards : list.data[id] = "on"}

(***************************************************************************)
(* useBusyIds: one mark per card and per kind of request.                  *)
(***************************************************************************)
Start(kind, id) == [busy EXCEPT ![kind] = @ \cup {id}]
End(kind, id) == [busy EXCEPT ![kind] = @ \ {id}]

Request(op, id) == [op |-> op, id |-> id, at |-> "sent", watched |-> op = "force"]
Flows == Cardinality(calls) + (IF refresh = None THEN 0 ELSE 1) + (IF question = None THEN 0 ELSE 1)
Begin(op, id) ==
    /\ Flows < MaxFlows /\ Request(op, id) \notin calls
    /\ calls' = calls \cup {Request(op, id)}

\* One observer watches the deletions, the last that was sent.
SendDeletion(op, id) ==
    calls' = {[call EXCEPT !.watched = FALSE] : call \in calls} \cup {Request(op, id)}

\* The query of the list as the page opens, and nothing under way.
IntegrationsInit ==
    /\ hosts \in [Ids -> {"off", "on"}]
    /\ list = Asked(Unasked)
    /\ busy = [kind \in Kinds |-> {}]
    /\ refresh = None
    /\ calls = {}
    /\ question = None
    /\ lost = FALSE
    /\ changes = 0

(***************************************************************************)
(* The list.                                                               *)
(***************************************************************************)
ListLands ==
    /\ list.ask = "asked"
    /\ list' \in {Landed(hosts), Failed(list)}
    /\ UNCHANGED <<hosts, busy, refresh, calls, question, lost, changes>>

ListRetry ==
    /\ list.error /\ list.ask = "idle" /\ question = None
    /\ list' = Asked(list)
    /\ UNCHANGED <<hosts, busy, refresh, calls, question, lost, changes>>

\* What the page shows in place of the cards.
PageShows == IF Pending(list) THEN "loading" ELSE IF list.error THEN "error"
             ELSE IF Cards = {} THEN "empty" ELSE "cards"

\* A card can be reached while no dialog covers the page.
Card(id) == PageShows = "cards" /\ id \in Cards /\ question = None

(***************************************************************************)
(* Checks.  A card has its own; "check all" sends one for every            *)
(* integration that is on, all at once, and is not begun twice.            *)
(***************************************************************************)
TestConnection(id) ==
    /\ Card(id) /\ id \notin busy["test"]
    /\ Begin("test", id)
    /\ busy' = Start("test", id)
    /\ UNCHANGED <<hosts, list, refresh, question, lost, changes>>

HandleRefresh ==
    /\ list.data # None /\ question = None /\ refresh = None /\ Flows < MaxFlows
    /\ IF CardsOn = {}
       THEN list' = Asked(list) /\ UNCHANGED <<refresh, busy>>
       ELSE /\ refresh' = CardsOn
            /\ busy' = [busy EXCEPT !["test"] = @ \cup CardsOn]
            /\ UNCHANGED list
    /\ UNCHANGED <<hosts, calls, question, lost, changes>>

\* A validation reads no list again.
ValidateCard(id) ==
    /\ Card(id) /\ id \notin busy["validate"]
    /\ Begin("validate", id)
    /\ busy' = Start("validate", id)
    /\ UNCHANGED <<hosts, list, refresh, question, lost, changes>>

CardValidated(id) ==
    /\ Request("validate", id) \in calls
    /\ calls' = calls \ {Request("validate", id)}
    /\ busy' = End("validate", id)
    /\ UNCHANGED <<hosts, list, refresh, question, lost, changes>>

TestLands(id) ==
    /\ Request("test", id) \in calls
    /\ calls' = calls \ {Request("test", id)}
    /\ busy' = End("test", id)
    /\ list' = Asked(list)
    /\ UNCHANGED <<hosts, refresh, question, lost, changes>>

\* As a bug: the answer about a card that is no longer listed is dropped.
RoundLandsListed(id) ==
    /\ refresh # None /\ id \in refresh /\ id \in Cards
    /\ busy' = End("test", id)
    /\ refresh' = IF refresh = {id} THEN None ELSE refresh \ {id}
    /\ list' = IF refresh = {id} THEN Asked(list) ELSE list
    /\ UNCHANGED <<hosts, calls, question, lost, changes>>

\* One answer of "check all"; the last one reads the list again.
RoundLands(id) ==
    /\ refresh # None /\ id \in refresh
    /\ busy' = End("test", id)
    /\ refresh' = IF refresh = {id} THEN None ELSE refresh \ {id}
    /\ list' = IF refresh = {id} THEN Asked(list) ELSE list
    /\ UNCHANGED <<hosts, calls, question, lost, changes>>

(***************************************************************************)
(* The switch of a card.                                                   *)
(***************************************************************************)
ToggleEnabled(id) ==
    /\ Card(id) /\ id \notin busy["toggle"]
    /\ Begin(IF list.data[id] = "on" THEN "off" ELSE "on", id)
    /\ busy' = Start("toggle", id)
    /\ UNCHANGED <<hosts, list, refresh, question, lost, changes>>

\* As a bug: the list is left as it was after a switch.
ToggleForgotten(call) ==
    /\ call.op \in {"on", "off"} /\ call.at # "sent"
    /\ calls' = calls \ {call}
    /\ busy' = End("toggle", call.id)
    /\ UNCHANGED <<hosts, list, refresh, question, lost, changes>>

ToggleLands(call) ==
    /\ call.op \in {"on", "off"} /\ call.at # "sent"
    /\ calls' = calls \ {call}
    /\ busy' = End("toggle", call.id)
    /\ list' = IF call.at = "ok" THEN Asked(list) ELSE list
    /\ UNCHANGED <<hosts, refresh, question, lost, changes>>

(***************************************************************************)
(* The deletion.  A refusal over what still uses the integration opens a   *)
(* second question; a yes to it sends the deletion again, forced.  One     *)
(* observer watches the deletions: the callbacks of the forced one are its *)
(* own and are called only while the observer still watches it.            *)
(***************************************************************************)
AskDelete(id) ==
    /\ Card(id) /\ id \notin busy["delete"] /\ Flows < MaxFlows
    /\ question' = [kind |-> "delete", id |-> id]
    /\ UNCHANGED <<hosts, list, busy, refresh, calls, lost, changes>>

AnswerDelete(yes) ==
    /\ question # None /\ question.kind = "delete"
    /\ question' = None
    /\ IF yes
       THEN /\ SendDeletion("delete", question.id)
            /\ busy' = Start("delete", question.id)
       ELSE UNCHANGED <<calls, busy>>
    /\ UNCHANGED <<hosts, list, refresh, lost, changes>>

\* As a bug: the card is released when the first answer is there.
DeleteLandsFinally(call) ==
    /\ call.op = "delete" /\ call.at # "sent"
    /\ calls' = calls \ {call}
    /\ busy' = End("delete", call.id)
    /\ list' = IF call.at = "ok" THEN Asked(list) ELSE list
    /\ question' = IF call.at = "conflict" THEN [kind |-> "force", id |-> call.id] ELSE question
    /\ UNCHANGED <<hosts, refresh, lost, changes>>

\* A question that opens over another answers that one with no, which releases
\* the card of a second question.
DeleteLands(call) ==
    /\ call.op = "delete" /\ call.at # "sent"
    /\ calls' = calls \ {call}
    /\ IF call.at = "conflict"
       THEN /\ question' = [kind |-> "force", id |-> call.id]
            /\ busy' = IF question # None /\ question.kind = "force"
                       THEN End("delete", question.id) ELSE busy
            /\ UNCHANGED list
       ELSE /\ busy' = End("delete", call.id)
            /\ list' = IF call.at = "ok" THEN Asked(list) ELSE list
            /\ UNCHANGED question
    /\ UNCHANGED <<hosts, refresh, lost, changes>>

AnswerForce(yes) ==
    /\ question # None /\ question.kind = "force"
    /\ question' = None
    /\ IF yes
       THEN /\ SendDeletion("force", question.id)
            /\ UNCHANGED busy
       ELSE /\ busy' = End("delete", question.id)
            /\ UNCHANGED <<calls>>
    /\ UNCHANGED <<hosts, list, refresh, lost, changes>>

ForceLands(call) ==
    /\ call.op = "force" /\ call.at # "sent"
    /\ calls' = calls \ {call}
    /\ busy' = IF call.watched THEN End("delete", call.id) ELSE busy
    /\ list' = IF call.at = "ok" THEN Asked(list) ELSE list
    /\ UNCHANGED <<hosts, refresh, question, lost, changes>>

(***************************************************************************)
(* The server.  A deletion without force is refused over what still uses   *)
(* the integration; an answer may be lost after the change was made.       *)
(***************************************************************************)
Serve(call) ==
    LET answered(at) == calls' = (calls \ {call}) \cup {[call EXCEPT !.at = at]}
        made(row) == /\ changes < MaxChanges /\ changes' = changes + 1
                     /\ hosts' = [hosts EXCEPT ![call.id] = row]
                     /\ \/ answered("ok") /\ UNCHANGED lost
                        \/ answered("refused") /\ lost' = TRUE
    IN  /\ call.at = "sent" /\ call.op \notin {"test", "validate"}
        /\ \/ answered("refused") /\ UNCHANGED <<hosts, lost, changes>>
           \/ /\ hosts[call.id] # "gone"
              /\ \/ call.op \in {"on", "off"} /\ made(call.op)
                 \/ call.op = "delete" /\ answered("conflict") /\ UNCHANGED <<hosts, lost, changes>>
                 \/ call.op \in {"delete", "force"} /\ made("gone")
        /\ UNCHANGED <<list, busy, refresh, question>>

Answers ==
    \/ ListLands
    \/ \E id \in Ids : TestLands(id) \/ CardValidated(id) \/ RoundLands(id)
    \/ \E call \in calls : ToggleLands(call) \/ DeleteLands(call) \/ ForceLands(call)
                           \/ Serve(call)

IntegrationsNext ==
    \/ ListRetry \/ HandleRefresh
    \/ \E id \in Ids : TestConnection(id) \/ ValidateCard(id) \/ ToggleEnabled(id) \/ AskDelete(id)
    \/ \E yes \in BOOLEAN : AnswerDelete(yes) \/ AnswerForce(yes)
    \/ Answers

\* Every request of "check all" is answered, if only by a timeout.
IntegrationsFairness == \A id \in Ids : WF_integrationsVars(RoundLands(id))

IntegrationsSpec == IntegrationsInit /\ [][IntegrationsNext]_integrationsVars /\ IntegrationsFairness

(***************************************************************************)
(* What the page promises.                                                 *)
(***************************************************************************)
IntegrationsTypeOK ==
    /\ hosts \in Rows /\ list \in Query(Rows) /\ lost \in BOOLEAN /\ changes \in 0..MaxChanges
    /\ busy \in [Kinds -> SUBSET Ids]
    /\ refresh \in ((SUBSET Ids) \ {{}}) \cup {None}
    /\ calls \subseteq [op : {"test", "validate", "on", "off", "delete", "force"}, id : Ids,
                        at : {"sent", "ok", "refused", "conflict"},
                        watched : BOOLEAN]
    /\ question \in [kind : {"delete", "force"}, id : Ids] \cup {None}

\* While the second question about an integration is on the screen its card is
\* held, and no other deletion of it is under way: the operator agrees to the
\* refusal that was read, not to a later one (Providers.tsx:473).
HeldWhileAsked ==
    question # None /\ question.kind = "force" =>
        /\ question.id \in busy["delete"]
        /\ \A call \in calls : call.op \in {"delete", "force"} => call.id # question.id

\* Once nothing is under way the list says what the server holds, whatever
\* order the answers came in, unless an answer was lost or the list could not
\* be read (Providers.tsx:393, useProviderMutations.ts:137).
ListCatchesUp ==
    calls = {} /\ refresh = None /\ Usable(list) /\ list.ask = "idle" /\ ~lost
        => list.data = hosts

\* "Check all" comes to an end, whatever happens to the integrations meanwhile:
\* its button is not left spinning (Providers.tsx:355).
RefreshEnds == (refresh # None) ~> (refresh = None)
=============================================================================
