------------------------------ MODULE SyncRows ------------------------------
(***************************************************************************)
(* The scan of the integrations in the settings: what they serve, one row  *)
(* per name, the rows that are shown and ticked, and the import of them    *)
(* after a question.  A name is in its zone, and a record is a name and    *)
(* which half of a route it is, a proxy host or a DNS record.              *)
(***************************************************************************)
EXTENDS Naturals, FiniteSets, Queries

CONSTANTS Hosts,         \* the names that the integrations serve
          ZoneOfHost,    \* the zone of each
          Apexes,        \* those that are the zone itself
          MaxSyncCalls   \* bound: scans, imports, and services that come and go elsewhere

VARIABLES trackedAt,     \* the server: what it tracks of each name, or None
          declaredAt,    \* the server: the zones that are declared
          trackedQ,      \* existingServices
          scanResult,    \* syncResult
          scanning,      \* whether a scan is under way
          selectedRows, declaredOnly, zoneFilter,
          asking,        \* the question before an import, or None
          importing,     \* the import under way, or None
          unseen,        \* the services changed and nothing tells this page
          syncCalls      \* counts what MaxSyncCalls bounds

syncServer == <<trackedAt, declaredAt, unseen>>
syncPage == <<selectedRows, declaredOnly, zoneFilter>>
syncVars == <<syncServer, trackedQ, scanResult, scanning, syncPage, asking, importing, syncCalls>>

Zones == {ZoneOfHost[h] : h \in Hosts}
Kinds == {"proxy", "dns"}
\* A service with a proxy and no record, with both, or of a tunnel.
TrackedAs == {"proxied", "full", "tunnel"}

Records == [host : Hosts, kind : Kinds]
Rows == [key : Hosts, zone : Zones, declared : BOOLEAN,
         status : {"new", "link", "exists"}, unimportable : BOOLEAN]
Imports == [payload : SUBSET Records, rows : SUBSET Rows, told : [created : Nat, linked : Nat],
            at : {"sent", "done", "failed"}]

ASSUME SyncAssumption == IsFiniteSet(Hosts) /\ None \notin Imports

(***************************************************************************)
(* One row per name: new, in need of its record, or known.                 *)
(***************************************************************************)
trackServices == IF trackedQ.data = None THEN [h \in Hosts |-> None] ELSE trackedQ.data

Held(h, kind) == [host |-> h, kind |-> kind] \in scanResult.records
linkable(h) == trackServices[h] = "proxied" /\ Held(h, "dns")
known(h) == trackServices[h] # None \/ h \in scanResult.imported

buildRow(h) ==
    [key |-> h, zone |-> ZoneOfHost[h], declared |-> ZoneOfHost[h] \in scanResult.declared,
     status |-> CASE ~known(h) -> "new" [] linkable(h) -> "link" [] OTHER -> "exists",
     unimportable |-> h \in Apexes]

syncRows == IF scanResult = None THEN {} ELSE {buildRow(h) : h \in {r.host : r \in scanResult.records}}
isImportable(row) == row.status # "exists" /\ ~row.unimportable

\* What an import of some rows sends: a row in need of its record sends no proxy.
payloadFor(scan, rows) ==
    {r \in scan.records : \E row \in rows : row.key = r.host /\ (r.kind = "dns" \/ row.status = "new")}

(***************************************************************************)
(* What is shown: the declared zones only, and one zone of them.           *)
(***************************************************************************)
filterDeclared == declaredOnly /\ scanResult # None /\ scanResult.declared # {}
inDeclared == IF filterDeclared THEN {row \in syncRows : row.declared} ELSE syncRows
activeZone == IF \E row \in inDeclared : row.zone = zoneFilter THEN zoneFilter ELSE None
visibleRows == IF activeZone = None THEN inDeclared ELSE {row \in inDeclared : row.zone = activeZone}

visibleImportable == {row \in visibleRows : isImportable(row)}
chosenRows == {row \in visibleImportable : row.key \in selectedRows}
Keys(rows) == {row.key : row \in rows}

\* What the question says of the rows.
describe(rows) ==
    [created |-> Cardinality({row \in rows : row.status = "new"}),
     linked |-> Cardinality({row \in rows : row.status = "link"})]

SyncInit ==
    /\ trackedAt \in [Hosts -> {None, "proxied", "tunnel"}] /\ declaredAt \in SUBSET Zones
    /\ trackedQ = Asked(Unasked)
    /\ scanResult = None /\ scanning = FALSE /\ selectedRows = {} /\ declaredOnly = TRUE /\ zoneFilter = None
    /\ asking = None /\ importing = None /\ unseen = FALSE
    /\ syncCalls = 0

SyncCall == syncCalls < MaxSyncCalls /\ syncCalls' = syncCalls + 1

TrackedLand ==
    /\ trackedQ.ask = "asked"
    /\ \/ trackedQ' = Landed(trackedAt) /\ unseen' = FALSE
       \/ trackedQ' = Failed(trackedQ) /\ UNCHANGED unseen
    /\ UNCHANGED <<trackedAt, declaredAt, scanResult, scanning, syncPage, asking, importing, syncCalls>>

(***************************************************************************)
(* The scan.  An integration that fails leaves its half out.               *)
(***************************************************************************)
Scan ==
    /\ asking = None /\ ~scanning /\ SyncCall /\ scanning' = TRUE
    /\ UNCHANGED <<syncServer, trackedQ, scanResult, syncPage, asking, importing>>

ScanAnswer(kinds) ==
    [records |-> {[host |-> h, kind |-> k] : h \in Hosts, k \in kinds},
     imported |-> {h \in Hosts : trackedAt[h] # None}, declared |-> declaredAt, failed |-> Kinds \ kinds]

ScanLands ==
    /\ scanning /\ scanning' = FALSE
    /\ \/ \E kinds \in SUBSET Kinds : scanResult' = ScanAnswer(kinds) /\ selectedRows' = {} /\ zoneFilter' = None
       \/ UNCHANGED <<scanResult, selectedRows, zoneFilter>>
    /\ UNCHANGED <<syncServer, trackedQ, declaredOnly, asking, importing, syncCalls>>

(***************************************************************************)
(* Choosing.                                                               *)
(***************************************************************************)
SyncRests == <<syncServer, trackedQ, scanResult, scanning, asking, importing, syncCalls>>

toggleRow(row) ==
    /\ asking = None /\ row \in visibleRows /\ isImportable(row)
    /\ selectedRows' = IF row.key \in selectedRows THEN selectedRows \ {row.key} ELSE selectedRows \cup {row.key}
    /\ UNCHANGED <<SyncRests, declaredOnly, zoneFilter>>

\* The box over the rows, or the button that clears.
SelectAll ==
    /\ asking = None
    /\ \/ visibleImportable # {} /\ selectedRows' = IF Keys(visibleImportable) \subseteq selectedRows THEN {}
                                                    ELSE Keys(visibleImportable)
       \/ selectedRows # {} /\ visibleRows # {} /\ selectedRows' = {}
    /\ UNCHANGED <<SyncRests, declaredOnly, zoneFilter>>

\* The switch and the chips over the rows.
ChooseZones ==
    /\ asking = None /\ syncRows # {}
    /\ \/ scanResult.declared # {} /\ declaredOnly' = ~declaredOnly /\ UNCHANGED zoneFilter
       \/ \E zone \in {row.zone : row \in inDeclared} :
            zoneFilter' = (IF activeZone = zone THEN None ELSE zone) /\ UNCHANGED declaredOnly
    /\ UNCHANGED <<SyncRests, selectedRows>>

(***************************************************************************)
(* The import, of all that is shown or of what is ticked.                  *)
(***************************************************************************)
AskImport ==
    /\ asking = None /\ importing = None
    /\ \E rows \in {visibleImportable, chosenRows} \ {{}} :
         asking' = [scan |-> scanResult, rows |-> rows, told |-> describe(rows)]
    /\ UNCHANGED <<syncServer, trackedQ, scanResult, scanning, syncPage, importing, syncCalls>>

\* As a bug: the rows of the question are looked up again when it is answered.
RowsNow(question) == {row \in syncRows : row.key \in Keys(question.rows)}

RowsAsked(question) == question.rows

AnswerImport ==
    /\ asking # None /\ asking' = None
    /\ \/ UNCHANGED <<importing, syncCalls>>
       \/ /\ importing' = [payload |-> payloadFor(asking.scan, RowsAsked(asking)), rows |-> RowsAsked(asking),
                           told |-> asking.told, at |-> "sent"]
          /\ SyncCall
    /\ UNCHANGED <<syncServer, trackedQ, scanResult, scanning, syncPage>>

\* The server: a name it does not track becomes a service, with its record if that
\* came too, and a service with no record gets it.
Sent(h, kind) == [host |-> h, kind |-> kind] \in importing.payload
AfterImport(h) ==
    CASE trackedAt[h] = None /\ Sent(h, "proxy") -> IF Sent(h, "dns") THEN "full" ELSE "proxied"
      [] trackedAt[h] = None /\ Sent(h, "dns") -> "full"
      [] trackedAt[h] = "proxied" /\ Sent(h, "dns") -> "full"
      [] OTHER -> trackedAt[h]

ServeImportRows ==
    /\ importing # None /\ importing.at = "sent"
    /\ \/ importing' = [importing EXCEPT !.at = "failed"] /\ UNCHANGED syncServer
       \/ \E at \in {"done", "failed"} :
            /\ importing' = [importing EXCEPT !.at = at]
            /\ trackedAt' = [h \in Hosts |-> AfterImport(h)]
            /\ declaredAt' = declaredAt \cup {ZoneOfHost[h] : h \in {g \in Hosts : trackedAt[g] = None /\ trackedAt'[g] # None}}
            /\ unseen' = (unseen \/ at = "failed")
    /\ UNCHANGED <<trackedQ, scanResult, scanning, syncPage, asking, syncCalls>>

\* As a bug: the rows are left to the next scan.
LeavesToTheScan(query) == query

ReadAfterImport(query) == Asked(query)

ImportRowsLand ==
    /\ importing # None /\ importing.at \in {"done", "failed"} /\ importing' = None
    /\ \/ importing.at = "failed" /\ UNCHANGED <<trackedQ, unseen>>
       \/ importing.at = "done" /\ trackedQ' = ReadAfterImport(trackedQ) /\ UNCHANGED unseen
       \/ importing.at = "done" /\ trackedQ' \in Reread(trackedQ) \ {Asked(trackedQ)} /\ unseen' = TRUE
    /\ UNCHANGED <<trackedAt, declaredAt, scanResult, scanning, syncPage, asking, syncCalls>>

\* A service comes or goes in another window.
Elsewhere ==
    /\ SyncCall /\ unseen' = TRUE
    /\ \E h \in Hosts : trackedAt' = [trackedAt EXCEPT ![h] = IF @ = None THEN "full" ELSE None]
    /\ UNCHANGED <<declaredAt, trackedQ, scanResult, scanning, syncPage, asking, importing>>

SyncNext ==
    \/ TrackedLand \/ Scan \/ ScanLands \/ SelectAll \/ ChooseZones
    \/ \E row \in syncRows : toggleRow(row)
    \/ AskImport \/ AnswerImport \/ ServeImportRows \/ ImportRowsLand \/ Elsewhere

SyncSpec == SyncInit /\ [][SyncNext]_syncVars

(***************************************************************************)
(* What the section promises.                                              *)
(***************************************************************************)
SyncTypeOK ==
    /\ trackedAt \in [Hosts -> TrackedAs \cup {None}] /\ trackedQ \in Query([Hosts -> TrackedAs \cup {None}])
    /\ declaredAt \subseteq Zones /\ selectedRows \subseteq Hosts
    /\ zoneFilter \in Zones \cup {None}

\* What is sent is what the question told of, though a scan or another window may have
\* changed the rows while it was open (SyncSection.tsx:194).
QuestionToldIt ==
    importing # None =>
        /\ importing.told = describe(importing.rows)
        /\ \A r \in importing.payload : r.host \in Keys(importing.rows)

\* At rest, no row offers to create what the server tracks: the rows of an import turn
\* known without another scan, unless its answer was lost or met the first fetch of the
\* services, and then with the next (syncRows.ts:181).
OffersNothingTwice ==
    importing = None /\ trackedQ.ask = "idle" /\ Usable(trackedQ) /\ ~unseen =>
        \A row \in syncRows : row.status = "new" => trackedAt[row.key] = None
=============================================================================
