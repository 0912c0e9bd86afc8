----------------------------- MODULE Inspector -----------------------------
(***************************************************************************)
(* The drawer that looks into one integration: its health, the hosts of a  *)
(* proxy and the records of a name server, each read when it is shown, and *)
(* a search over either table.  There is one drawer for all integrations:  *)
(* its queries are told apart by the integration, and so is its search.    *)
(***************************************************************************)
EXTENDS Naturals, FiniteSets, Queries

CONSTANTS Inspected,     \* integrations
          ShowsHosts,    \* those that are proxies
          ShowsRecords,  \* those that keep records
          Terms,         \* texts to search
          MaxOpenings    \* bound: openings of the drawer

VARIABLES kept,          \* the integrations the page lists
          inspectId,     \* the one the drawer was opened for, or None
          search,        \* the searches, and the integration they were typed for
          details,       \* the queries: health, hosts and records of each integration
          typed,         \* what was typed last over each table, until another integration is searched
          timesOpened    \* counts what MaxOpenings bounds

inspectorVars == <<kept, inspectId, search, details, typed, timesOpened>>

Tables == {"hosts", "records"}
Blank == [hosts |-> "", records |-> ""]
HasTable(id) == [hosts |-> id \in ShowsHosts, records |-> id \in ShowsRecords]

\* The drawer closes over an integration the list has lost.
Open == inspectId # None /\ inspectId \in kept
\* The queries that are on: of the integration that is shown, and what it has.
EnabledFor(id) == {"health"} \cup {table \in Tables : HasTable(id)[table]}

\* What the drawer searches, "" for nothing.
searchOf(table) == IF search.id = inspectId THEN search[table] ELSE ""

InspectorInit ==
    /\ kept = Inspected /\ inspectId = None /\ timesOpened = 0
    /\ search = [id |-> None, hosts |-> "", records |-> ""]
    /\ details = [id \in Inspected |-> [part \in {"health"} \cup Tables |-> Unasked]]
    /\ typed = [id \in Inspected |-> Blank]

\* Showing an integration reads what it has, again when it was read before.
Inspect(id) ==
    /\ ~Open /\ id \in kept /\ timesOpened < MaxOpenings /\ timesOpened' = timesOpened + 1
    /\ inspectId' = id
    /\ details' = [details EXCEPT ![id] = [part \in DOMAIN @ |-> IF part \in EnabledFor(id) THEN Asked(@[part]) ELSE @[part]]]
    /\ UNCHANGED <<kept, search, typed>>

CloseInspector ==
    /\ Open /\ inspectId' = None
    /\ UNCHANGED <<kept, search, details, typed, timesOpened>>

\* An integration is deleted, and the list is read again.
Lost(id) ==
    /\ id \in kept /\ kept' = kept \ {id}
    /\ UNCHANGED <<inspectId, search, details, typed, timesOpened>>

\* Each answer is of the integration it was asked about, shown or not: the health, and a
\* table that is long (and may be searched), short, or empty.
DetailLands(id, part) ==
    /\ details[id][part].ask = "asked"
    /\ \E answer \in {"long", "short", "empty"} :
         /\ part = "health" => answer = "short"
         /\ details' \in {[details EXCEPT ![id][part] = Landed(answer)], [details EXCEPT ![id][part] = Failed(@)]}
    /\ UNCHANGED <<kept, inspectId, search, typed, timesOpened>>

\* What stands in the place of the health: three lines of skeleton, the error with its
\* button, or the facts.
HealthShows ==
    LET query == details[inspectId]["health"]
    IN  IF Pending(query) THEN "loading" ELSE IF query.error THEN "error" ELSE "facts"

\* What stands in the place of a table.  A search finds some rows or none; the empty state
\* of the second can clear it.
TableShows(table) ==
    LET query == details[inspectId][table]
    IN  IF Pending(query) THEN "loading" ELSE IF query.error THEN "error"
        ELSE IF query.data = "empty" THEN "empty" ELSE IF searchOf(table) = "nothing" THEN "no match" ELSE "rows"

\* The box is there over a long table, whatever stands in the table's place.
SearchBox(table) == Open /\ HasTable(inspectId)[table] /\ details[inspectId][table].data = "long"

\* As a bug: a search of one table forgets that of the other.
ForgetsTheOther(table, text) ==
    [[id |-> inspectId, hosts |-> "", records |-> ""] EXCEPT ![table] = text]

setSearch(table, text) ==
    [id |-> inspectId,
     hosts |-> IF table = "hosts" THEN text ELSE IF search.id = inspectId THEN search.hosts ELSE "",
     records |-> IF table = "records" THEN text ELSE IF search.id = inspectId THEN search.records ELSE ""]

TypeSearch(table, text) ==
    /\ \/ SearchBox(table)
       \/ Open /\ HasTable(inspectId)[table] /\ TableShows(table) = "no match" /\ text = ""
    /\ text # searchOf(table)
    /\ search' = setSearch(table, text) /\ typed' = [id \in Inspected |-> IF id = inspectId THEN [typed[id] EXCEPT ![table] = text] ELSE Blank]
    /\ UNCHANGED <<kept, inspectId, details, timesOpened>>

RetryDetail(part) ==
    /\ Open /\ part \in EnabledFor(inspectId)
    /\ details[inspectId][part].error /\ details[inspectId][part].ask = "idle"
    /\ details' = [details EXCEPT ![inspectId][part] = Asked(@)]
    /\ UNCHANGED <<kept, inspectId, search, typed, timesOpened>>

InspectorNext ==
    \/ CloseInspector
    \/ \E id \in Inspected : Inspect(id) \/ Lost(id) \/ \E part \in {"health"} \cup Tables : DetailLands(id, part)
    \/ \E table \in Tables, text \in Terms \cup {""} : TypeSearch(table, text)
    \/ \E part \in {"health"} \cup Tables : RetryDetail(part)

InspectorSpec == InspectorInit /\ [][InspectorNext]_inspectorVars

(***************************************************************************)
(* What the drawer promises.                                               *)
(***************************************************************************)
InspectorTypeOK ==
    /\ kept \subseteq Inspected /\ inspectId \in Inspected \cup {None} /\ search.id \in Inspected \cup {None}
    /\ \A id \in Inspected, part \in {"health"} \cup Tables : details[id][part] \in Query({"long", "short", "empty"})
    /\ Open => HealthShows \in {"loading", "error", "facts"}

\* Each table is searched for what was typed over it in this drawer, and for nothing when
\* nothing was: a search of another integration narrows no table (ProviderInspector.tsx:98-102).
SearchedAsTyped ==
    Open => \A table \in Tables : searchOf(table) = typed[inspectId][table]
=============================================================================
