----------------------------- MODULE Webhooks ------------------------------
(***************************************************************************)
(* The notifications tab of the settings: the form that adds a webhook,    *)
(* the list with its switches, rules, tests and deletions.  A rule goes to *)
(* the server whole, made from the row that is listed; an edit is refused  *)
(* while another is under way, and an edit is under way until the list has *)
(* been read again (the promise of onSuccess).  The server reads a row and *)
(* then writes every column of it from what it read and what was sent, so  *)
(* a switch and a rule of one webhook that are sent together may each put  *)
(* the other back.                                                         *)
(*                                                                         *)
(* Of a rule, `down` stands for the two service flags and the two numbers, *)
(* which are edited alike, and `integration` for the two integration       *)
(* flags.  The search, the rows that are unfolded, the test of an address  *)
(* and the test of all webhooks touch no rule and are left out.            *)
(***************************************************************************)
EXTENDS Naturals, FiniteSets, Queries

CONSTANTS HookIds,       \* ids of webhooks
          Targets,       \* [provider, service -> what can be watched]
          MaxHookChanges \* bound: changes sent to the server

VARIABLES hooksAt,       \* the webhooks at the server
          freshHooks,    \* the ids no webhook has had yet
          targetsAt,     \* what is enabled at the server, by kind
          hooksList, targetsList, \* the queries: webhooks, providers and services
          adding,        \* the form of a new webhook
          changing,      \* the changes under way
          updating, toggling, \* the rule and the switch isPending hold back
          testingId, testSent, outcome, \* the test: of which webhook, under way, its end
          wiping,        \* the webhook whose deletion is being asked about
          missedHook,    \* whether the answer to a change was lost, or a row written over
          changeCount    \* counts what MaxHookChanges bounds

theHooks == <<hooksAt, freshHooks, targetsAt, missedHook>>
theHold == <<updating, toggling>>
theTests == <<testingId, testSent, outcome>>
hookVars == <<theHooks, hooksList, targetsList, adding, changing, theHold, theTests, wiping, changeCount>>

Scopes == {"all", "provider", "service"}
TargetKinds == {"provider", "service"}
AllTargets == Targets["provider"] \cup Targets["service"]
ASSUME HooksAssumption ==
    /\ MaxHookChanges \in Nat /\ Targets \in [TargetKinds -> SUBSET AllTargets]
    /\ None \notin AllTargets /\ None \notin HookIds /\ None \notin {"sent", "reading"}

Rule == [on : BOOLEAN, scope : Scopes, ref : AllTargets \cup {None}, down : BOOLEAN, integration : BOOLEAN]
AddForm == [filled : BOOLEAN, scope : Scopes, ref : AllTargets \cup {None}]
blankAdd == [filled |-> FALSE, scope |-> "all", ref |-> None]

(***************************************************************************)
(* What a rule may watch.                                                  *)
(***************************************************************************)
EnabledTargets(kind) == IF targetsList.data = None THEN {} ELSE targetsList.data[kind]

\* As a bug: a kind with nothing to watch may be chosen too.
AnyScope(kind) == FALSE
scopeUnavailable(kind) == kind \in TargetKinds /\ EnabledTargets(kind) = {}

\* The first of the list: any, for all the properties tell.
firstRefFor(kind) == IF kind \in TargetKinds /\ EnabledTargets(kind) # {}
                     THEN CHOOSE x \in EnabledTargets(kind) : TRUE ELSE None

Hook(i) == hooksList.data[i]
HooksListed == IF hooksList.data = None THEN {} ELSE {i \in HookIds : Hook(i) # None}
HooksShown == IF hooksList.error THEN {} ELSE HooksListed

HooksInit ==
    /\ \E kind \in TargetKinds : targetsAt = [Targets EXCEPT ![kind] = {}]
    /\ \E i \in HookIds : freshHooks = {i} /\ hooksAt = [j \in HookIds |-> IF j = i THEN None ELSE
           [on |-> TRUE, scope |-> "all", ref |-> None, down |-> TRUE, integration |-> TRUE]]
    /\ hooksList = Asked(Unasked) /\ targetsList = Asked(Unasked)
    /\ adding = blankAdd /\ changing = {} /\ updating = None /\ toggling = None
    /\ testingId = None /\ testSent = FALSE /\ outcome = [i \in HookIds |-> None] /\ wiping = None
    /\ missedHook = FALSE /\ changeCount = 0

\* The hold of a mutation that was made ends with the listing it asked for.
HooksLand ==
    /\ hooksList.ask = "asked" /\ hooksList' \in {Landed(hooksAt), Failed(hooksList)}
    /\ updating' = IF updating = "reading" THEN None ELSE updating
    /\ toggling' = IF toggling = "reading" THEN None ELSE toggling
    /\ UNCHANGED <<theHooks, targetsList, adding, changing, theTests, wiping, changeCount>>

TargetsLand ==
    /\ targetsList.ask = "asked" /\ targetsList' \in {Landed(targetsAt), Failed(targetsList)}
    /\ UNCHANGED <<theHooks, hooksList, adding, changing, theHold, theTests, wiping, changeCount>>

HooksRetry ==
    /\ hooksList.error /\ hooksList.ask = "idle" /\ hooksList' = Asked(hooksList)
    /\ UNCHANGED <<theHooks, targetsList, adding, changing, theHold, theTests, wiping, changeCount>>

(***************************************************************************)
(* Adding.                                                                 *)
(***************************************************************************)
canAdd == adding.filled /\ (adding.scope = "all" \/ adding.ref # None)

EditAdd ==
    /\ wiping = None
    /\ \/ adding' = [adding EXCEPT !.filled = ~@]
       \/ \E scope \in Scopes \ {adding.scope} :
              ~scopeUnavailable(scope) /\ adding' = [adding EXCEPT !.scope = scope, !.ref = firstRefFor(scope)]
       \/ adding.scope \in TargetKinds /\ \E x \in EnabledTargets(adding.scope) :
              x # adding.ref /\ adding' = [adding EXCEPT !.ref = x]
    /\ UNCHANGED <<theHooks, hooksList, targetsList, changing, theHold, theTests, wiping, changeCount>>

Change(op, i, body, was) ==
    /\ changeCount < MaxHookChanges /\ changeCount' = changeCount + 1
    /\ changing' = changing \cup
           {[op |-> op, id |-> i, body |-> body, was |-> was, row |-> None, at |-> "sent"]}

NewRule == [on |-> TRUE, scope |-> adding.scope, ref |-> IF adding.scope = "all" THEN None ELSE adding.ref,
            down |-> TRUE, integration |-> adding.scope # "service"]

SubmitNew ==
    /\ wiping = None /\ canAdd /\ \A c \in changing : c.op # "add"
    /\ Change("add", None, NewRule, NewRule)
    /\ UNCHANGED <<theHooks, hooksList, targetsList, adding, theHold, theTests, wiping>>

(***************************************************************************)
(* Rules, switches, tests and deletions.                                   *)
(***************************************************************************)
\* What a patch makes of the listed rule.  A rule that comes to watch a service
\* hears of no integration.
Patched(rule, patch) ==
    LET moved == "scope" \in DOMAIN patch /\ patch.scope # rule.scope
        next == [field \in DOMAIN rule |-> IF field \in DOMAIN patch THEN patch[field] ELSE rule[field]]
    IN  IF ~moved THEN next
        ELSE [next EXCEPT !.ref = firstRefFor(patch.scope), !.integration = @ /\ patch.scope # "service"]

Patches(rule) ==
    {[scope |-> scope] : scope \in {s \in Scopes \ {rule.scope} : ~scopeUnavailable(s)}}
    \cup (IF rule.scope \in TargetKinds
          THEN {[ref |-> x] : x \in EnabledTargets(rule.scope) \ {rule.ref}} ELSE {})
    \cup {[down |-> ~rule.down]}
    \cup (IF rule.scope = "service" THEN {} ELSE {[integration |-> ~rule.integration]})

UpdateRule(i) ==
    /\ wiping = None /\ i \in HooksShown /\ updating = None
    /\ \E patch \in Patches(Hook(i)) : Change("rule", i, Patched(Hook(i), patch), Hook(i))
    /\ updating' = "sent"
    /\ UNCHANGED <<theHooks, hooksList, targetsList, adding, toggling, theTests, wiping>>

ToggleHook(i) ==
    /\ wiping = None /\ i \in HooksShown /\ toggling = None
    /\ Change("toggle", i, [Hook(i) EXCEPT !.on = ~@], Hook(i)) /\ toggling' = "sent"
    /\ UNCHANGED <<theHooks, hooksList, targetsList, adding, updating, theTests, wiping>>

\* A second test takes over the callbacks of the first, whose answer nobody hears.
TestHook(i) ==
    /\ wiping = None /\ i \in HooksShown /\ testingId # i
    /\ changeCount < MaxHookChanges /\ changeCount' = changeCount + 1
    /\ testingId' = i /\ testSent' = TRUE
    /\ UNCHANGED <<theHooks, hooksList, targetsList, adding, changing, theHold, outcome, wiping>>

\* As a bug: only a test that succeeded is over.
TestOverIfSent(sent) == sent
TestOver(sent) == TRUE

TestAnswers ==
    /\ testSent /\ testSent' = FALSE
    /\ \E sent \in BOOLEAN : /\ outcome' = [outcome EXCEPT ![testingId] = IF sent THEN "ok" ELSE "ko"]
                             /\ testingId' = IF TestOver(sent) THEN None ELSE testingId
    /\ UNCHANGED <<theHooks, hooksList, targetsList, adding, changing, theHold, wiping, changeCount>>

AskHookDelete(i) ==
    /\ wiping = None /\ i \in HooksShown /\ (\A c \in changing : c.op # "delete") /\ wiping' = i
    /\ UNCHANGED <<theHooks, hooksList, targetsList, adding, changing, theHold, theTests, changeCount>>

AnswerHookDelete ==
    /\ wiping # None /\ wiping' = None
    /\ \/ UNCHANGED <<changing, changeCount>>
       \/ \E rule \in {[on |-> FALSE, scope |-> "all", ref |-> None, down |-> FALSE, integration |-> FALSE]} :
              Change("delete", wiping, rule, rule)
    /\ UNCHANGED <<theHooks, hooksList, targetsList, adding, theHold, theTests>>

(***************************************************************************)
(* The server.  A rule keeps the switch it reads, a switch the rule; a     *)
(* webhook that is gone is not found, by a deletion neither, and one that  *)
(* goes between the reading and the writing is written to no avail.        *)
(***************************************************************************)
Updates == {"rule", "toggle"}
Merged(c) == IF c.op = "rule" THEN [c.body EXCEPT !.on = c.row.on] ELSE [c.row EXCEPT !.on = c.body.on]

HooksAfter(c) ==
    IF c.op = "add" THEN {[hooksAt EXCEPT ![i] = c.body] : i \in freshHooks}
    ELSE IF hooksAt[c.id] = None THEN {h \in {hooksAt} : c.op \in Updates}
    ELSE {[hooksAt EXCEPT ![c.id] = IF c.op = "delete" THEN None ELSE Merged(c)]}

\* The row has been written by somebody else since it was read.
Crossed(c) == c.op \in Updates /\ hooksAt[c.id] \notin {None, c.row}

ReadHook(c) ==
    /\ c.at = "sent" /\ c.op \in Updates /\ hooksAt[c.id] # None
    /\ changing' = (changing \ {c}) \cup {[c EXCEPT !.row = hooksAt[c.id], !.at = "read"]}
    /\ UNCHANGED <<theHooks, hooksList, targetsList, adding, theHold, theTests, wiping, changeCount>>

ServeHook(c) ==
    LET answer(at) == changing' = (changing \ {c}) \cup {[c EXCEPT !.at = at]}
    IN  /\ c.at \in {"sent", "read"}
        /\ \/ answer("failed") /\ UNCHANGED <<hooksAt, freshHooks, missedHook>>
           \/ /\ c.op \in Updates => c.at = "read"
              /\ hooksAt' \in HooksAfter(c)
              /\ freshHooks' = {i \in freshHooks : hooksAt'[i] = None}
              /\ \/ answer("done") /\ missedHook' = (missedHook \/ Crossed(c))
                 \/ answer("failed") /\ missedHook' = TRUE
        /\ UNCHANGED <<targetsAt, hooksList, targetsList, adding, theHold, theTests, wiping, changeCount>>

\* As a bug: the next edit may be made before the list has been read.
FreedByAnswer == None

\* What an answer leaves a mutation that succeeded in.
AfterAnswer == "reading"
HeldBy(op, held, c) == IF c.op # op THEN held ELSE IF c.at = "done" THEN AfterAnswer ELSE None

\* The form of a new webhook is there before the list: its answer may join a first
\* fetch (Queries).
HookAnswer(c) ==
    /\ c.at \in {"done", "failed"} /\ changing' = changing \ {c}
    /\ hooksList' \in IF c.at # "done" THEN {hooksList}
                      ELSE IF c.op = "add" THEN Reread(hooksList) ELSE {Asked(hooksList)}
    /\ adding' = IF c.op = "add" /\ c.at = "done" THEN blankAdd ELSE adding
    /\ updating' = HeldBy("rule", updating, c) /\ toggling' = HeldBy("toggle", toggling, c)
    /\ UNCHANGED <<theHooks, targetsList, theTests, wiping, changeCount>>

HooksNext ==
    \/ HooksLand \/ TargetsLand \/ HooksRetry \/ EditAdd \/ SubmitNew \/ TestAnswers \/ AnswerHookDelete
    \/ \E i \in HookIds : UpdateRule(i) \/ ToggleHook(i) \/ TestHook(i) \/ AskHookDelete(i)
    \/ \E c \in changing : ReadHook(c) \/ ServeHook(c) \/ HookAnswer(c)

HooksFairness == WF_hookVars(TestAnswers)
HooksSpec == HooksInit /\ [][HooksNext]_hookVars /\ HooksFairness

(***************************************************************************)
(* What the tab promises.                                                  *)
(***************************************************************************)
HookChanges == [op : {"add", "rule", "toggle", "delete"}, id : HookIds \cup {None}, body : Rule, was : Rule,
                row : Rule \cup {None}, at : {"sent", "read", "done", "failed"}]
HooksTypeOK ==
    /\ \A i \in HookIds : hooksAt[i] = None \/ hooksAt[i] \in Rule
    /\ freshHooks \subseteq HookIds /\ adding \in AddForm /\ changing \subseteq HookChanges
    /\ {updating, toggling} \subseteq {None, "sent", "reading"}
    /\ {testingId, wiping} \subseteq HookIds \cup {None} /\ testSent \in BOOLEAN /\ outcome \in [HookIds -> {None, "ok", "ko"}]
    /\ missedHook \in BOOLEAN /\ changeCount \in 0..MaxHookChanges

\* An edit of a rule reverts no rule made before it, although it sends the whole rule,
\* the row it is made from may be old, and a switch of the same webhook may be under way
\* (WebhooksTab.tsx:180, webhooks.py:311); unless an answer was lost, or a switch has put
\* an older rule back.
EditsKeepTheRest ==
    [][\A c \in changing : c.op = "rule" /\ c.at = "read" /\ hooksAt' # hooksAt /\ ~missedHook
          /\ c \notin changing' /\ hooksAt[c.id] # None =>
          [c.was EXCEPT !.on = hooksAt[c.id].on] = hooksAt[c.id]]_hookVars

\* No rule watches "a provider" or "a service" without saying which
\* (WebhooksTab.tsx:111).
ScopedOnSomething == \A i \in HookIds : hooksAt[i] # None => (hooksAt[i].scope = "all" <=> hooksAt[i].ref = None)

\* Every test that is waited for is over at last, sent or not.
TestsEnd == testingId # None ~> testingId = None
=============================================================================
