--------------------------- MODULE MCPanelReads ---------------------------
(***************************************************************************)
(* The reading pages of the panel, and the pages that take over what they  *)
(* read, in one instance: the panel shows one of them, chosen as it opens, *)
(* and the variables of the others rest at one fixed initial value.  The   *)
(* two routes of the dialog that publishes are alike: it opens on one.     *)
(***************************************************************************)
EXTENDS Expose, Certificates, Monitoring, SyncRows, Discovery, Journal,
        ProviderHealth, Inspector, Dashboard

VARIABLE screen          \* the page that is shown

TheDates == [npm |-> {1}, zoraxy |-> {None, 0}]
TheZones == [h \in Hosts |-> IF h = "a" THEN "lan" ELSE "net"]
TheDomains == <<"lan">>
TheLevels == <<"info", "error", "info", "info">>

TheAnswers ==
    [services |-> {"fine", "down"}, providers |-> {"none", "some"}, health |-> {"fine", "failing"},
     stats |-> {"fine"}, certificates |-> {"fine", "expired"}, recent |-> {"some"},
     today |-> {[total |-> 3, today |-> 3], [total |-> 3, today |-> 1]}]
WasRead ==
    [services |-> "fine", providers |-> "some", health |-> "fine", stats |-> "fine",
     certificates |-> "fine", recent |-> "some", today |-> [total |-> 3, today |-> 1]]

\* The first page opens with some of its queries unread; two that meet in one sentence are in
\* one of these sets together.
DashboardReading(unread) ==
    [src \in Sources |-> IF src \in unread THEN Asked(Unasked) ELSE Landed(WasRead[src])]
NothingUnread == DashboardReading({})
TheDashboards ==
    {NothingUnread} \cup
    {DashboardReading(unread) : unread \in {{"services", "providers", "stats", "health"},
                                            {"services", "providers", "certificates"},
                                            {"recent", "today"}}}

Rests(shown) == screen # shown

PanelInit ==
    /\ screen \in {"expose", "certificates", "monitoring", "import", "docker", "journal", "health", "inspector", "dashboard"}
    /\ ExposeInit /\ (stored # None => stored.route = "plain")
    /\ Rests("expose") => stored = None /\ keepsIt
    /\ CertsInit /\ (Rests("certificates") => storesAt["zoraxy"].expires = 0)
    /\ MonInit /\ statusAt["git"] = "unknown" /\ (Rests("monitoring") => statusAt["web"] = "unknown")
    /\ SyncInit /\ declaredAt = {"lan"} /\ trackedAt["b"] = None /\ (Rests("import") => trackedAt["a"] = None)
    /\ DockerInit /\ (Rests("docker") => endpointsAt = {})
    /\ JournalInit
    /\ HealthInit
    /\ InspectorInit
    /\ dash \in TheDashboards /\ (Rests("dashboard") => dash = NothingUnread) /\ DashInit
    /\ authMode = "password"

PanelNext ==
    \/ /\ screen = "expose" /\ ExposeNext
       /\ UNCHANGED <<screen, certVars, monVars, syncVars, dockerVars, journalVars,
                      ratedVars, inspectorVars, dashVars>>
    \/ /\ screen = "certificates" /\ CertsNext
       /\ UNCHANGED <<screen, exposeVars, monVars, syncVars, dockerVars, journalVars,
                      ratedVars, inspectorVars, dashVars>>
    \/ /\ screen = "monitoring" /\ MonNext
       /\ UNCHANGED <<screen, exposeVars, certVars, syncVars, dockerVars, journalVars,
                      ratedVars, inspectorVars, dashVars>>
    \/ /\ screen = "import" /\ SyncNext
       /\ UNCHANGED <<screen, exposeVars, certVars, monVars, dockerVars, journalVars,
                      ratedVars, inspectorVars, dashVars>>
    \/ /\ screen = "docker" /\ DockerNext
       /\ UNCHANGED <<screen, exposeVars, certVars, monVars, syncVars, journalVars,
                      ratedVars, inspectorVars, dashVars>>
    \/ /\ screen = "journal" /\ JournalNext
       /\ UNCHANGED <<screen, exposeVars, certVars, monVars, syncVars, dockerVars,
                      ratedVars, inspectorVars, dashVars>>
    \/ /\ screen = "health" /\ HealthNext
       /\ UNCHANGED <<screen, exposeVars, certVars, monVars, syncVars, dockerVars,
                      journalVars, inspectorVars, dashVars>>
    \/ /\ screen = "inspector" /\ InspectorNext
       /\ UNCHANGED <<screen, exposeVars, certVars, monVars, syncVars, dockerVars,
                      journalVars, ratedVars, dashVars>>
    \/ /\ screen = "dashboard" /\ DashNext
       /\ UNCHANGED <<screen, exposeVars, certVars, monVars, syncVars, dockerVars,
                      journalVars, ratedVars, inspectorVars>>

panelVars == <<screen, exposeVars, certVars, monVars, syncVars, dockerVars, journalVars,
               ratedVars, inspectorVars, dashVars>>

PanelSpec == PanelInit /\ [][PanelNext]_panelVars

\* The pages keep their types.
TypeOK ==
    /\ ExposeTypeOK
    /\ CertsTypeOK
    /\ MonTypeOK
    /\ SyncTypeOK
    /\ DockerTypeOK
    /\ JournalTypeOK
    /\ HealthTypeOK
    /\ InspectorTypeOK
    /\ DashTypeOK

\* At rest a page shows what the last write left: the list was told of every save, a row shows
\* what its check found, an import of what is tracked now, the Docker section of the default
\* (ExposeModal.tsx:512, useServiceProbes.ts:57, syncRows.ts:181, useDockerDiscovery.ts:43).
PagesCatchUp == WritesAreListed /\ RowsFollowChecks /\ OffersNothingTwice /\ DefaultIsUsed

\* Two places that say the same thing agree: counters, badges and filters, scores and chips,
\* and the tiles, the lists and the banner of the first page (certificates.ts:106-118 and 230,
\* providerHealth.ts:185, Dashboard.tsx:192-213).  It is asked of the page that is shown: the
\* others rest in a state that page starts from.
FiguresAgree ==
    /\ ~Rests("certificates") => CountedByDate /\ BadgeAgrees /\ HiddenByAFilterSeen
    /\ ~Rests("health") => OneVerdict /\ FreshCheckCounts
    /\ ~Rests("dashboard") =>
          /\ DashIsNoAllClear /\ SkeletonsEnd /\ FirstIsAskedForTwice
          /\ CapIsMarked /\ LastDataIsShown /\ BadgesAgree

\* What is shown in an order tells each of its items once: the bars and the runs of a route
\* its history, the live view and the page of the journal the entries they have between them
\* (uptime.ts:164, ServiceDrawer.tsx:66, LogsTab.tsx:138-170).
ItemsToldOnce ==
    /\ ~Rests("monitoring") => BarsAddUp /\ TimelineTellsAll
    /\ ~Rests("journal") => EachEntryOnce /\ OffIsThePage /\ PagesFit

\* What is sent is what was told: the rows of the question, the endpoint it named, the
\* containers that can be routes, the search of this drawer, and no stream over and over
\* (SyncSection.tsx:194, DockerSection.tsx:71, useDockerDiscovery.ts:115,
\* ProviderInspector.tsx:98, LogsTab.tsx:99).
AsAsked ==
    /\ QuestionToldIt /\ DeletesWhatWasNamed /\ TickedCanBeRoutes /\ SearchedAsTyped
    /\ OneReconnect

\* A check is neither gone around nor forgotten: a route is saved as its checks have passed
\* it, and when an integration was last checked and the lists of the tab outlive reloads
\* (README.md:53, Providers.tsx:101-106 and 222-237, Dashboard.tsx:138-154).
ChecksAreKept == SavedWasChecked /\ LastCheckIsKept /\ KeptListsStay
=============================================================================
