--------------------------- MODULE ProviderHealth ---------------------------
(***************************************************************************)
(* The verdicts of the integrations page.  Three readings feed one score:  *)
(* the last manual check, kept in the browser and good for half an hour,   *)
(* the poll of the tunnels and the poll of every connection.  The scores   *)
(* are computed when one of these changes, not when time passes, so the    *)
(* checks that fed them are part of the state (`counted`).                 *)
(***************************************************************************)
EXTENDS Integers, FiniteSets, Queries

CONSTANTS Rated,         \* integrations
          Tunnels,       \* those that are tunnels
          MaxFlips       \* bound: integrations switched or deleted

VARIABLES ratedAt,       \* the server: each integration gone, off or on
          ratedList,     \* the list as the page has it, or None
          storedDiagnostics, \* the last manual check of each integration, or None
          tunnelHealth,  \* the last answer about the tunnels, or None
          autoHealth,    \* the last answer about the connections, or None
          counted,       \* the manual checks that were fresh when the scores were computed
          flips          \* counts what MaxFlips bounds

ratedVars == <<ratedAt, ratedList, storedDiagnostics, tunnelHealth, autoHealth, counted, flips>>

\* What a manual check says: whether it passed, the tone of each of its checks, and the
\* health with it.  A check that was skipped is not one that failed.
checkFailed(tone) == tone \in {"warning", "danger"}
FailedOf(checks, blocking) ==
    Cardinality({i \in DOMAIN checks : checkFailed(checks[i]) /\ (checks[i] = "danger" <=> blocking)})
Report(ok, checks, health) ==
    [ok |-> ok, blocking |-> FailedOf(checks, TRUE), warnings |-> FailedOf(checks, FALSE), health |-> health]
Reports == {Report(TRUE, <<"success", "skipped">>, TRUE), Report(TRUE, [i \in 1..5 |-> "warning"], TRUE),
            Report(FALSE, <<"danger">>, TRUE), Report(FALSE, <<"danger">>, FALSE)}

\* `null` is not a stored check.
ASSUME NoneIsNoCheck == None \notin [report : Reports, fresh : BOOLEAN]

TunnelStatuses == {"healthy", "degraded", "down", "inactive"}

\* Nor is it a status or a tone.
ASSUME NoneIsNoStatus == None \notin TunnelStatuses \cup {"healthy", "unhealthy", "danger"}

(***************************************************************************)
(* The score of one integration, -1 when nothing was measured.             *)
(***************************************************************************)
Charged(diag, auto) ==
    IF diag # None
    THEN 100 - (IF diag.ok THEN 0 ELSE 50) - 25 * diag.blocking - 5 * diag.warnings - (IF diag.health THEN 0 ELSE 30)
    ELSE IF auto = "unhealthy" THEN 20 ELSE 100

WithTunnel(score, tunnel) ==
    CASE tunnel = "healthy" -> (IF score < 90 THEN 90 ELSE score)
      [] tunnel = "degraded" -> (IF score > 60 THEN 60 ELSE score)
      [] tunnel = "down" -> (IF score > 20 THEN 20 ELSE score)
      [] OTHER -> score

\* As a bug: the score is not held between 0 and 100.
RawScore(diag, tunnel, auto) ==
    IF diag = None /\ tunnel = None /\ auto = None THEN -1 ELSE WithTunnel(Charged(diag, auto), tunnel)

getHealthScore(diag, tunnel, auto) ==
    IF diag = None /\ tunnel = None /\ auto = None THEN -1
    ELSE LET score == WithTunnel(Charged(diag, auto), tunnel)
         IN  IF score < 0 THEN 0 ELSE IF score > 100 THEN 100 ELSE score

\* As a bug: an integration that is off is scored as a failing one.
OffIsFailing(on, score) ==
    IF ~on THEN "error" ELSE IF score < 0 THEN "unknown" ELSE IF score >= 80 THEN "ok" ELSE IF score >= 50 THEN "degraded" ELSE "error"

\* The badge of the score, the chip of the card, and what the filters count.
ScoreSeverity(on, score) ==
    IF ~on \/ score < 0 THEN "unknown" ELSE IF score >= 80 THEN "ok" ELSE IF score >= 50 THEN "degraded" ELSE "error"

healthTone == [ok |-> "success", degraded |-> "warning", error |-> "danger", unknown |-> "neutral"]

getOperationalStatus(on, score) ==
    IF ~on \/ score < 0 THEN "neutral" ELSE IF score >= 80 THEN "success" ELSE IF score >= 50 THEN "warning" ELSE "danger"

getProviderSeverity(on, score) ==
    IF ~on THEN "disabled" ELSE IF score < 0 THEN "unknown"
    ELSE IF score >= 80 THEN "healthy" ELSE IF score >= 50 THEN "degraded" ELSE "error"

(***************************************************************************)
(* What the page computes.                                                 *)
(***************************************************************************)
ListedIn(list) == IF list = None THEN {} ELSE {id \in Rated : list[id] # "gone"}
Enabled(id) == ratedList[id] = "on"

\* Checks of integrations the list no longer has are dropped, once there is a list.
DiagnosticsOf(stored, list) ==
    [id \in Rated |-> IF ListedIn(list) = {} \/ id \in ListedIn(list) THEN stored[id] ELSE None]
diagnostics == DiagnosticsOf(storedDiagnostics, ratedList)

FreshIn(checks) == {id \in Rated : checks[id] # None /\ checks[id].fresh}
isDiagnosticsFresh(id) == id \in FreshIn(diagnostics)

\* As a bug: the scores do not follow the manual checks.
LeavesChecksOut(stored, list) == counted' = counted \cap ListedIn(list)

ComputeSignals(stored, list) == counted' = FreshIn(DiagnosticsOf(stored, list)) \cap ListedIn(list)

diagOf(id) == IF id \in counted THEN diagnostics[id].report ELSE None
tunnelHealthById(id) == IF tunnelHealth = None THEN None ELSE tunnelHealth[id]
autoHealthById(id) == IF autoHealth = None THEN None ELSE autoHealth[id]
Score(id) == getHealthScore(diagOf(id), tunnelHealthById(id), autoHealthById(id))
severityOf(id) == getProviderSeverity(Enabled(id), Score(id))
showsHealthBadge(id) == Enabled(id) /\ Score(id) >= 0

issues == {id \in ListedIn(ratedList) : severityOf(id) \in {"degraded", "error"}}
healthyOnes == {id \in ListedIn(ratedList) : severityOf(id) = "healthy"}
matchesFocus(filter) ==
    CASE filter = "issues" -> issues [] filter = "healthy" -> healthyOnes [] OTHER -> ListedIn(ratedList)

\* The alert on a card, as its tone, or None: of the manual check, or else of the polls.
CardReport(id) ==
    LET diag == diagOf(id)
        failing == tunnelHealthById(id) \in {"down", "degraded"} \/ autoHealthById(id) = "unhealthy"
    IN  CASE diag = None /\ ~failing -> None
          [] diag = None /\ failing -> "danger"
          [] diag # None /\ (diag.blocking > 0 \/ ~diag.ok) -> "danger"
          [] diag # None /\ diag.ok /\ diag.blocking = 0 /\ diag.warnings > 0 -> "warning"
          [] OTHER -> "success"

(***************************************************************************)
(* The page.                                                               *)
(***************************************************************************)
HealthInit ==
    /\ ratedAt = [id \in Rated |-> "on"] /\ ratedList = None /\ flips = 0
    /\ storedDiagnostics = [id \in Rated |-> None]
    /\ tunnelHealth = None /\ autoHealth = None /\ counted = {}

\* The list is read again after every change, and when the window is looked at again.
RatedListLands ==
    /\ ratedList' = ratedAt
    /\ ComputeSignals(storedDiagnostics, ratedAt)
    /\ UNCHANGED <<ratedAt, storedDiagnostics, tunnelHealth, autoHealth, flips>>

\* Both polls are answered about the integrations that are on.  An answer equal to the last
\* one is the last one, and computes nothing; a poll that fails leaves the last one too.
TunnelsLand ==
    /\ \E answer \in [Rated -> TunnelStatuses \cup {None}] :
         /\ \A id \in Rated : answer[id] # None <=> id \in Tunnels /\ ratedAt[id] = "on"
         /\ tunnelHealth' = answer
         /\ IF answer = tunnelHealth THEN UNCHANGED counted ELSE ComputeSignals(storedDiagnostics, ratedList)
    /\ UNCHANGED <<ratedAt, ratedList, storedDiagnostics, autoHealth, flips>>

AutoLands ==
    /\ \E answer \in [Rated -> {"healthy", "unhealthy", None}] :
         /\ \A id \in Rated : answer[id] # None <=> ratedAt[id] = "on"
         /\ autoHealth' = answer
         /\ IF answer = autoHealth THEN UNCHANGED counted ELSE ComputeSignals(storedDiagnostics, ratedList)
    /\ UNCHANGED <<ratedAt, ratedList, storedDiagnostics, tunnelHealth, flips>>

\* A test or a validation of this visit is answered, or fails.
StoreDiagnostics(id, report) ==
    /\ ratedList # None
    /\ storedDiagnostics' = [storedDiagnostics EXCEPT ![id] = [report |-> report, fresh |-> TRUE]]
    /\ ComputeSignals(storedDiagnostics', ratedList)
    /\ UNCHANGED <<ratedAt, ratedList, tunnelHealth, autoHealth, flips>>

\* DIAGNOSTIC_TTL_MS go by.
HalfAnHourPasses(id) ==
    /\ storedDiagnostics[id] # None /\ storedDiagnostics[id].fresh
    /\ storedDiagnostics' = [storedDiagnostics EXCEPT ![id].fresh = FALSE]
    /\ UNCHANGED <<ratedAt, ratedList, tunnelHealth, autoHealth, counted, flips>>

\* As a bug: only what is still fresh is taken back.
TakesTheFresh(kept) == [id \in Rated |-> IF kept[id] # None /\ kept[id].fresh THEN kept[id] ELSE None]

restoreDiagnostics(kept) == kept

\* The page is opened again: it has what it wrote to the browser, and must ask for the rest.
Reload ==
    /\ storedDiagnostics' = restoreDiagnostics(diagnostics)
    /\ ratedList' = None /\ tunnelHealth' = None /\ autoHealth' = None
    /\ counted' = {}
    /\ UNCHANGED <<ratedAt, flips>>

\* An integration is switched or deleted, here or elsewhere.
Turned(id) ==
    /\ flips < MaxFlips /\ flips' = flips + 1 /\ ratedAt[id] # "gone"
    /\ ratedAt' \in {[ratedAt EXCEPT ![id] = to] : to \in {"gone", "off", "on"} \ {ratedAt[id]}}
    /\ UNCHANGED <<ratedList, storedDiagnostics, tunnelHealth, autoHealth, counted>>

HealthNext ==
    \/ RatedListLands \/ TunnelsLand \/ AutoLands \/ Reload
    \/ \E id \in Rated : HalfAnHourPasses(id) \/ Turned(id) \/ \E report \in Reports : StoreDiagnostics(id, report)

HealthSpec == HealthInit /\ [][HealthNext]_ratedVars

(***************************************************************************)
(* What the page promises.                                                 *)
(***************************************************************************)
HealthTypeOK ==
    /\ ratedAt \in [Rated -> {"gone", "off", "on"}]
    /\ counted \subseteq ListedIn(ratedList) /\ \A id \in counted : diagnostics[id] # None
    /\ issues \cap healthyOnes = {}
    /\ \A id \in ListedIn(ratedList) : Score(id) \in -1..100

\* One verdict for each integration, whichever part of the page says it: the chip of the
\* card and the badge of its score agree, the filters count it where its chip is coloured,
\* and a card with a red alert is one of the issues unless its tunnel says it is healthy
\* (providerHealth.ts:185-195 and 204-214).
OneVerdict ==
    \A id \in ListedIn(ratedList) :
        LET chip == getOperationalStatus(Enabled(id), Score(id))
        IN  /\ healthTone[ScoreSeverity(Enabled(id), Score(id))] = chip
            /\ id \in matchesFocus("issues") <=> chip \in {"warning", "danger"}
            /\ id \in matchesFocus("healthy") <=> chip = "success"
            /\ Enabled(id) /\ CardReport(id) = "danger" /\ tunnelHealthById(id) # "healthy" => id \in matchesFocus("issues")

\* When an integration was last checked is never forgotten while the server has it: not by
\* a reload, and not by a list that has not arrived or no longer fits (Providers.tsx:101-106
\* and 222-237).
LastCheckIsKept ==
    [][\A id \in Rated : ratedAt[id] # "gone" /\ diagnostics[id] # None => diagnostics'[id] # None]_ratedVars

\* A check counts from the moment it is answered until its half hour is over at least, in
\* the score of the integration it was made of (Providers.tsx:252-273).
FreshCheckCounts ==
    \A id \in ListedIn(ratedList) : isDiagnosticsFresh(id) => id \in counted
=============================================================================
