---------------------------- MODULE AlertsEditor ----------------------------
(***************************************************************************)
(* The rules of one service, in the drawer of the monitoring page: which   *)
(* webhooks tell of it, and when.  The first edit pins a copy of what the  *)
(* server said; saving replaces every rule of the service.  A rule is one  *)
(* value of a small set.                                                   *)
(***************************************************************************)
EXTENDS Naturals, Queries

CONSTANTS Hooks,         \* ids of webhooks
          Rules,         \* what a rule may say
          DEFAULT_DRAFT, \* the rule of a webhook that is ticked
          MaxRuleSaves   \* bound: requests that were sent

ASSUME DefaultIsRule == DEFAULT_DRAFT \in Rules /\ MaxRuleSaves \in Nat

VARIABLES hooksNow,      \* the webhooks of the server
          rulesAt,       \* the rules of the server: None for a webhook that is not told
          hooksSeen, rulesSeen, \* the queries
          edited,        \* the copy being edited, or None: the page follows the server
          ruleSave,      \* the request under way
          ruleLost,      \* whether the answer to a request was lost
          ruleSaves      \* counts what MaxRuleSaves bounds

ruleReads == <<hooksSeen, rulesSeen>>
ruleCalls == <<ruleSave, ruleLost, ruleSaves>>
ruleVars == <<hooksNow, rulesAt, ruleReads, edited, ruleCalls>>

RuleMaps == [Hooks -> Rules \cup {None}]
RuleSaves == [rules : RuleMaps, at : {"sent", "done", "failed", "reading"}]
ASSUME NoneIsNoSave == None \notin RuleSaves

\* toDraft() of what was read.
saved == IF rulesSeen.data = None THEN [w \in Hooks |-> None] ELSE rulesSeen.data
ruleDraft == IF edited = None THEN saved ELSE edited
dirty == edited # None /\ edited # saved

EditorShows == Usable(hooksSeen) /\ Usable(rulesSeen) /\ hooksSeen.data # {}

EditorInit ==
    /\ hooksNow = Hooks /\ rulesAt \in RuleMaps
    /\ hooksSeen = Asked(Unasked) /\ rulesSeen = Asked(Unasked)
    /\ edited = None /\ ruleSave = None /\ ruleLost = FALSE /\ ruleSaves = 0

HooksSeenLand ==
    /\ hooksSeen.ask = "asked" /\ hooksSeen' \in {Landed(hooksNow), Failed(hooksSeen)}
    /\ UNCHANGED <<hooksNow, rulesAt, rulesSeen, edited, ruleCalls>>

\* As a bug: what is read takes the place of what is being edited.
ReadWins(map) == None

\* What a read leaves of the copy being edited.
KeptOver(map) == map

RulesSeenLand ==
    /\ rulesSeen.ask = "asked" /\ rulesSeen' \in {Landed(rulesAt), Failed(rulesSeen)}
    /\ edited' = KeptOver(edited)
    /\ UNCHANGED <<hooksNow, rulesAt, hooksSeen, ruleCalls>>

RulesRetry ==
    /\ hooksSeen.error \/ rulesSeen.error
    /\ ~Pending(hooksSeen) /\ ~Pending(rulesSeen)
    /\ hooksSeen' = Asked(hooksSeen) /\ rulesSeen' = Asked(rulesSeen)
    /\ UNCHANGED <<hooksNow, rulesAt, edited, ruleCalls>>

\* A checkbox: a webhook ticked takes the default rule.
toggle(w) ==
    /\ EditorShows /\ w \in hooksSeen.data
    /\ edited' = [ruleDraft EXCEPT ![w] = IF @ = None THEN DEFAULT_DRAFT ELSE None]
    /\ UNCHANGED <<hooksNow, rulesAt, ruleReads, ruleCalls>>

patch(w) ==
    /\ EditorShows /\ w \in hooksSeen.data /\ ruleDraft[w] # None
    /\ \E rule \in Rules \ {ruleDraft[w]} : edited' = [ruleDraft EXCEPT ![w] = rule]
    /\ UNCHANGED <<hooksNow, rulesAt, ruleReads, ruleCalls>>

Reset ==
    /\ EditorShows /\ dirty /\ edited' = None /\ UNCHANGED <<hooksNow, rulesAt, ruleReads, ruleCalls>>

SubmitRules ==
    /\ EditorShows /\ dirty /\ ruleSave = None /\ ruleSaves < MaxRuleSaves /\ ruleSaves' = ruleSaves + 1
    /\ ruleSave' = [rules |-> ruleDraft, at |-> "sent"]
    /\ UNCHANGED <<hooksNow, rulesAt, ruleReads, edited, ruleLost>>

\* The route deletes every rule and adds those it was sent; one that names a
\* webhook that has gone is refused.
ServeRules ==
    LET answer(at) == ruleSave' = [ruleSave EXCEPT !.at = at]
    IN  /\ ruleSave # None /\ ruleSave.at = "sent"
        /\ \/ answer("failed") /\ UNCHANGED <<rulesAt, ruleLost>>
           \/ /\ \A w \in Hooks \ hooksNow : ruleSave.rules[w] = None
              /\ rulesAt' = ruleSave.rules
              /\ \/ answer("done") /\ UNCHANGED ruleLost
                 \/ answer("failed") /\ ruleLost' = TRUE
    /\ UNCHANGED <<hooksNow, ruleReads, edited, ruleSaves>>

\* As a bug: the rules are not read again.
NotReadAgain(query) == query

ReadAgain(query) == Asked(query)

\* The copy is dropped and the rules read again; the button turns until they are.
RulesSaved ==
    /\ ruleSave # None /\ ruleSave.at = "done"
    /\ edited' = None /\ rulesSeen' = ReadAgain(rulesSeen) /\ ruleSave' = [ruleSave EXCEPT !.at = "reading"]
    /\ UNCHANGED <<hooksNow, rulesAt, hooksSeen, ruleLost, ruleSaves>>

RulesSettled ==
    /\ ruleSave # None /\ (ruleSave.at = "failed" \/ (ruleSave.at = "reading" /\ rulesSeen.ask = "idle"))
    /\ ruleSave' = None
    /\ UNCHANGED <<hooksNow, rulesAt, ruleReads, edited, ruleLost, ruleSaves>>

\* Another window deletes a webhook, and its rules with it (one, here).
HookGoes(w) ==
    /\ hooksNow = Hooks /\ hooksNow' = hooksNow \ {w} /\ rulesAt' = [rulesAt EXCEPT ![w] = None]
    /\ UNCHANGED <<ruleReads, edited, ruleCalls>>

\* The drawer is closed, and opened again: what it shows is read again.
EditorReopens ==
    /\ edited # None /\ edited' = None /\ hooksSeen' = Asked(hooksSeen) /\ rulesSeen' = Asked(rulesSeen)
    /\ UNCHANGED <<hooksNow, rulesAt, ruleCalls>>

EditorNext ==
    \/ HooksSeenLand \/ RulesSeenLand \/ RulesRetry \/ Reset \/ SubmitRules \/ ServeRules
    \/ RulesSaved \/ RulesSettled \/ EditorReopens
    \/ \E w \in Hooks : toggle(w) \/ patch(w) \/ HookGoes(w)

EditorSpec == EditorInit /\ [][EditorNext]_ruleVars

(***************************************************************************)
(* What the editor promises.                                               *)
(***************************************************************************)
EditorTypeOK ==
    /\ hooksNow \subseteq Hooks /\ rulesAt \in RuleMaps /\ edited \in RuleMaps \cup {None}
    /\ hooksSeen \in Query(SUBSET Hooks) /\ rulesSeen \in Query(RuleMaps)
    /\ ruleSave \in RuleSaves \cup {None}
    /\ ruleLost \in BOOLEAN /\ ruleSaves \in 0..MaxRuleSaves

\* When nothing is edited or under way, the rules shown are those of the server, also
\* after a save (AlertsEditor.tsx:111-114).
RulesCatchUp ==
    EditorShows /\ edited = None /\ ruleSave = None /\ ~ruleLost /\ rulesSeen.ask = "idle"
        => \A w \in hooksNow : ruleDraft[w] = rulesAt[w]

\* A read that lands in the middle of an edit does not throw it away
\* (AlertsEditor.tsx:102-104).
ReadKeepsTheEdit ==
    [][edited # None /\ rulesSeen.ask = "asked" /\ rulesSeen'.ask = "idle" => edited' = edited]_ruleVars
=============================================================================
