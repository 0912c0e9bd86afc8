----------------------------- MODULE Dashboard -----------------------------
(***************************************************************************)
(* The first page: seven queries, six tiles, the list of what needs        *)
(* attention, the last entries and the integrations.  Of a list of         *)
(* services it matters whether one is in error, of a list of integrations  *)
(* whether there is one, of a health check whether one fails.  An answer   *)
(* may differ from the one before it, and two queries that read the same   *)
(* rows from one another.                                                  *)
(***************************************************************************)
EXTENDS Naturals, FiniteSets, Queries

CONSTANTS Answers,            \* what each query may be answered with
          TODAY_LOGS_SAMPLE,  \* how many entries "logs today" reads
          MaxAgain,           \* bound: reads after the first ones, and reloads
          MaxRefusals         \* bound: answers that fail

Sources == {"services", "providers", "health", "stats", "certificates", "recent", "today"}
CachedSources == {"services", "providers"}

ASSUME DashAssumption ==
    /\ \A src \in Sources : None \notin Answers[src]
    /\ None \notin {"none", "some", "soon", "expired"} /\ Answers["providers"] \subseteq {"none", "some"}
    /\ \A answer \in Answers["today"] :
          answer.total \in Nat /\ answer.today \in 0..answer.total
    /\ {TODAY_LOGS_SAMPLE, MaxAgain, MaxRefusals} \subseteq Nat

VARIABLES dash,        \* the queries
          cache,       \* sessionStorage: the lists the tab keeps over a reload
          authMode,    \* read before the page is shown: "open" or "password"
          again,       \* counts what MaxAgain bounds
          refusals     \* counts what MaxRefusals bounds

dashVars == <<dash, cache, authMode, again, refusals>>

Ready(src) == dash[src].data # None
Says(src, answer) == dash[src].data = answer
IsError(src) == dash[src].error

(***************************************************************************)
(* The tiles.  Figures of services come from /stats, else from the list.   *)
(***************************************************************************)
servicesUnknown == ~Ready("services") /\ ~Ready("stats")
providersUnknown == ~Ready("providers")
logsUnknown == ~Ready("today")

TileFailed == [services |-> servicesUnknown, providers |-> providersUnknown,
               certificates |-> IsError("certificates"), logs |-> logsUnknown]

\* As a bug: a tile waits for whatever has not arrived.
WaitsForever == [services |-> servicesUnknown, providers |-> providersUnknown,
                 certificates |-> ~Ready("certificates"), logs |-> logsUnknown]

TileLoading == [services |-> servicesUnknown /\ ~IsError("services"),
                providers |-> providersUnknown /\ ~IsError("providers"),
                certificates |-> ~Ready("certificates") /\ ~IsError("certificates"),
                logs |-> logsUnknown /\ ~IsError("today")]

TileSays(tile) == IF TileLoading[tile] THEN "skeleton" ELSE IF TileFailed[tile] THEN "dash" ELSE "figure"

\* The newest entries are read, so that the ones of today come first.
todayItems == IF logsUnknown THEN 0
              ELSE LET total == dash["today"].data.total
                   IN  IF total < TODAY_LOGS_SAMPLE THEN total ELSE TODAY_LOGS_SAMPLE
logsToday == IF logsUnknown THEN 0
             ELSE LET ofToday == dash["today"].data.today
                  IN  IF ofToday < todayItems THEN ofToday ELSE todayItems

\* As a bug: the mark is only set when there is more than the sample.
CappedAbove == todayItems > TODAY_LOGS_SAMPLE

logsTodayCapped == todayItems >= TODAY_LOGS_SAMPLE /\ logsToday = todayItems

(***************************************************************************)
(* What needs attention.                                                   *)
(***************************************************************************)
attentionItems ==
    {item \in {"services in error", "integrations failing", "health unknown", "certificates unknown",
               "expired", "expiring", "open access", "no integrations"} :
       CASE item = "services in error" -> Says("services", "down")
         [] item = "integrations failing" -> Says("health", "failing")
         [] item = "health unknown" ->
              ~Says("health", "failing") /\ IsError("health") /\ Says("providers", "some")
         [] item = "certificates unknown" -> IsError("certificates")
         [] item = "expired" -> ~IsError("certificates") /\ Says("certificates", "expired")
         [] item = "expiring" -> ~IsError("certificates") /\ Says("certificates", "soon")
         [] item = "open access" -> authMode = "open"
         [] item = "no integrations" -> Says("providers", "none")}

\* As a bug: what failed counts as nothing to report.
NothingMissing == FALSE

attentionIncomplete == \E src \in CachedSources : ~Ready(src)
attentionLoading == \E src \in CachedSources : ~Ready(src) /\ ~IsError(src)

AttentionSays ==
    IF attentionLoading THEN "skeleton"
    ELSE IF attentionItems # {} THEN "rows"
    ELSE IF attentionIncomplete THEN "partial" ELSE "all clear"

(***************************************************************************)
(* The last entries, the integrations, and the banner.                     *)
(***************************************************************************)
ActivitySays ==
    IF Pending(dash["recent"]) THEN "skeleton"
    ELSE IF ~Ready("recent") THEN "error"
    ELSE IF Says("recent", "none") THEN "empty" ELSE "entries"

\* As a bug: a list that failed is an empty one.
EmptyIfMissing == IF TileLoading["providers"] THEN "skeleton"
                  ELSE IF ~Says("providers", "some") THEN "empty" ELSE "tiles"

GlanceSays ==
    IF TileLoading["providers"] THEN "skeleton"
    ELSE IF providersUnknown /\ IsError("providers") THEN "error"
    ELSE IF ~Says("providers", "some") THEN "empty" ELSE "tiles"

badgeFor ==
    CASE Says("health", "failing") -> "unhealthy"
      [] Says("health", "fine") -> "healthy"
      [] ~Ready("health") -> IF IsError("health") THEN "unknown" ELSE "checking"

\* The badges of the sidebar read the same rows: the count of services in error, and of the
\* certificates while the last check of them did not fail, with a glyph when one has expired.
monitoringAlert == Says("services", "down")
certExpiryKnown == Ready("certificates") /\ ~IsError("certificates")
certificatesBadge == certExpiryKnown /\ (Says("certificates", "soon") \/ Says("certificates", "expired"))
certificatesAlert == certExpiryKnown /\ Says("certificates", "expired")

hasError == \E src \in CachedSources : IsError(src)
hasSomeData == \E src \in CachedSources \cup {"stats"} : Ready(src)
OfflineSays == IF ~hasError THEN "nothing" ELSE IF hasSomeData THEN "last data" ELSE "no data"

(***************************************************************************)
(* Reading and reloading.                                                  *)
(***************************************************************************)
\* A page that opens has the lists the tab has kept.
OpensWithKept(kept) ==
    [src \in Sources |->
        IF src \in CachedSources THEN Asked([Unasked EXCEPT !.data = kept[src]]) ELSE Asked(Unasked)]

\* What other pages have read before is there already.
DashInit ==
    /\ cache = [src \in CachedSources |-> None]
    /\ dash = [src \in Sources |-> dash[src]]
    /\ \A src \in Sources : dash[src] \in {Asked(Unasked)} \cup {Landed(a) : a \in Answers[src]}
    /\ authMode \in {"open", "password"} /\ again = 0 /\ refusals = 0

Again == again < MaxAgain /\ again' = again + 1

\* What was read is kept for a reload, if the tab can store it.
Arrives(src) ==
    /\ dash[src].ask = "asked"
    /\ \E answer \in Answers[src] :
          /\ dash' = [dash EXCEPT ![src] = Landed(answer)]
          /\ \/ UNCHANGED cache
             \/ src \in CachedSources /\ cache' = [cache EXCEPT ![src] = answer]
    /\ UNCHANGED <<authMode, again, refusals>>

Refused(src) ==
    /\ dash[src].ask = "asked" /\ dash' = [dash EXCEPT ![src] = Failed(@)]
    /\ refusals < MaxRefusals /\ refusals' = refusals + 1
    /\ UNCHANGED <<cache, authMode, again>>

\* The clock of a query, or a dialog that wrote what it reads.
ReadAgain(src) ==
    /\ Again
    /\ dash[src].ask = "idle" /\ dash' = [dash EXCEPT ![src] = Asked(@)]
    /\ UNCHANGED <<cache, authMode, refusals>>

\* The buttons of the banner and of the sections that failed.
DashRetry ==
    /\ Again
    /\ \E srcs \in {s \in {CachedSources} : OfflineSays # "nothing"}
                   \cup {s \in {{"providers"}} : GlanceSays = "error"}
                   \cup {s \in {{"recent"}} : ActivitySays = "error"} :
          dash' = [src \in Sources |->
                     IF src \in srcs /\ dash[src].ask = "idle" THEN Asked(dash[src]) ELSE dash[src]]
    /\ UNCHANGED <<cache, authMode, refusals>>

\* As a bug: the page opens without what the tab has kept.
OpensBlank(kept) == [src \in Sources |-> Asked(Unasked)]

ReloadDashboard ==
    /\ Again
    /\ dash' = OpensWithKept(cache)
    /\ UNCHANGED <<cache, authMode, refusals>>

DashNext ==
    \/ DashRetry \/ ReloadDashboard
    \/ \E src \in Sources : Arrives(src) \/ Refused(src) \/ ReadAgain(src)

DashSpec == DashInit /\ [][DashNext]_dashVars

(***************************************************************************)
(* What the page promises.                                                 *)
(***************************************************************************)
DashTypeOK ==
    /\ \A src \in Sources : dash[src] \in Query(Answers[src])
    /\ \A src \in CachedSources : cache[src] \in Answers[src] \cup {None}
    /\ authMode \in {"open", "password"} /\ again \in 0..MaxAgain /\ refusals \in 0..MaxRefusals

\* "All clear" is never said beside a tile that has no figure because nobody answered
\* (NeedsAttention.tsx:52, Dashboard.tsx:205-213).
DashIsNoAllClear ==
    AttentionSays = "all clear" =>
        \A tile \in {"services", "providers", "certificates"} : TileSays(tile) # "dash"

\* A skeleton is only drawn while a read is under way (StatRow.tsx:8, NeedsAttention.tsx:21).
SkeletonsEnd ==
    /\ TileSays("services") = "skeleton" => dash["services"].ask = "asked"
    /\ TileSays("providers") = "skeleton" \/ GlanceSays = "skeleton" => dash["providers"].ask = "asked"
    /\ TileSays("certificates") = "skeleton" => dash["certificates"].ask = "asked"
    /\ TileSays("logs") = "skeleton" => dash["today"].ask = "asked"
    /\ AttentionSays = "skeleton" => \E src \in CachedSources : dash[src].ask = "asked"
    /\ ActivitySays = "skeleton" => dash["recent"].ask = "asked"

\* The first integration is asked for in both places or in neither, and only over a list
\* that was read (IntegrationsGlance.tsx:77-78).
FirstIsAskedForTwice ==
    /\ GlanceSays = "empty" => Ready("providers")
    /\ AttentionSays \in {"rows", "all clear"} =>
          (GlanceSays = "empty" <=> "no integrations" \in attentionItems)

\* The figure of today is the number of entries, unless it is marked as "at least".
CapIsMarked ==
    TileSays("logs") = "figure" /\ ~logsTodayCapped => logsToday = dash["today"].data.today

\* "Showing the last data received" is only said over a figure (Dashboard.tsx:192-198).
LastDataIsShown ==
    OfflineSays = "last data" =>
        \E tile \in {"services", "providers"} : TileSays(tile) = "figure"

\* The sidebar warns of what the page lists, and of nothing else (Sidebar.tsx:133-162,
\* NeedsAttention.tsx:31).
BadgesAgree ==
    AttentionSays \in {"rows", "all clear"} =>
        /\ monitoringAlert <=> "services in error" \in attentionItems
        /\ certificatesAlert <=> "expired" \in attentionItems
        /\ certificatesBadge <=> attentionItems \cap {"expired", "expiring"} # {}

\* A list the tab has kept is not lost, by a reload or by an answer (Dashboard.tsx:138-154).
KeptListsStay ==
    [][\A src \in CachedSources : cache[src] # None => dash'[src].data # None]_dashVars
=============================================================================
