---------------------------- MODULE Certificates ----------------------------
(***************************************************************************)
(* The page of the certificates, and the badge of the sidebar.  The route  *)
(* /certificates/expiry counts the days and names the stores it could not  *)
(* read; when it fails the page counts for itself, from the rows of        *)
(* /certificates.  A store holds one certificate here, a day is an         *)
(* integer, and a date that could not be read is None.                     *)
(***************************************************************************)
EXTENDS Integers, FiniteSets, Queries

CONSTANTS Stores,        \* integrations that hold certificates
          Zoraxies,      \* those that state a countdown of their own
          Dates,         \* by store, the days on which its certificate may expire
          CRITICAL_DAYS, WARN_DAYS,
          Filters,       \* bound: the statuses that are filtered on
          MaxDay         \* bound: days that pass

VARIABLES storesAt,      \* the stores: enabled, and the expiry of the certificate
          today,         \* the clock
          expiryQ, certsQ, storesQ, \* the three reads of the page
          certStatus, certStore \* the filters (the search is left out)

certQueries == <<expiryQ, certsQ, storesQ>>
certFilters == <<certStatus, certStore>>
certVars == <<storesAt, today, certQueries, certFilters>>

CERT_BUCKETS == {"expired", "critical", "expiring", "valid", "unknown"}

ASSUME CertsAssumption ==
    /\ IsFiniteSet(Stores) /\ None \notin Int
    /\ \A s \in Stores : Dates[s] \subseteq Int \cup {None}
    /\ {CRITICAL_DAYS, WARN_DAYS, MaxDay} \subseteq Nat /\ CRITICAL_DAYS <= WARN_DAYS
    /\ Filters \subseteq CERT_BUCKETS

(***************************************************************************)
(* The rows that the two routes answer, on a day.                          *)
(***************************************************************************)
Left(s, day) == IF storesAt[s].expires = None THEN None ELSE storesAt[s].expires - day
Told(s, day) == IF s \notin Zoraxies THEN None ELSE IF storesAt[s].expires = None THEN -1 ELSE Left(s, day)

CertificateRow(s, day) == [store |-> s, expires |-> storesAt[s].expires, remaining_days |-> Told(s, day), days_remaining |-> None]
ExpiryRow(s, day) == [CertificateRow(s, day) EXCEPT !.days_remaining = Left(s, day)]

EnabledStores == {s \in Stores : storesAt[s].enabled}

(***************************************************************************)
(* Counting, on the page.                                                  *)
(***************************************************************************)
\* As a bug: a countdown is believed without a date.
ToldIsCounted(row, day) ==
    IF row.days_remaining # None THEN row.days_remaining
    ELSE IF row.remaining_days # None THEN row.remaining_days
    ELSE IF row.expires = None THEN None ELSE row.expires - day

certDays(row, day) ==
    IF row.days_remaining # None THEN row.days_remaining
    ELSE IF row.expires = None THEN None
    ELSE IF row.remaining_days # None THEN row.remaining_days ELSE row.expires - day

\* As a bug: the last day of the window counts as valid.
LastDayIsValid(days) ==
    CASE days = None -> "unknown"
      [] days # None -> IF days < 0 THEN "expired" ELSE IF days <= CRITICAL_DAYS THEN "critical"
                        ELSE IF days < WARN_DAYS THEN "expiring" ELSE "valid"

certBucket(days) ==
    CASE days = None -> "unknown"
      [] days # None -> IF days < 0 THEN "expired" ELSE IF days <= CRITICAL_DAYS THEN "critical"
                        ELSE IF days <= WARN_DAYS THEN "expiring" ELSE "valid"

countBuckets(rows, bucket) == Cardinality({row \in rows : certBucket(certDays(row, today)) = bucket})

\* What /certificates/expiry counts as needing renewal.
expiring_soon_count(rows) == Cardinality({row \in rows : row.days_remaining # None /\ row.days_remaining <= WARN_DAYS})

\* The badge of the sidebar.
certificateUrgency(rows) ==
    LET expired == countBuckets(rows, "expired")
    IN  [expired |-> expired, soon |-> IF expiring_soon_count(rows) < expired THEN 0 ELSE expiring_soon_count(rows) - expired]

(***************************************************************************)
(* What the page shows.                                                    *)
(***************************************************************************)
usingFallback == expiryQ.error
certRows == IF usingFallback THEN IF certsQ.data = None THEN {} ELSE certsQ.data
            ELSE IF expiryQ.data = None THEN {} ELSE expiryQ.data.rows
providerOptions == {row.store : row \in certRows}

\* As a bug: a store that has gone is still filtered on.
StoreAsChosen(raw, offered) == raw

resolveProviderFilter(raw, offered) == IF raw \in offered \cup {"all"} THEN raw ELSE "all"

activeProviderFilter == resolveProviderFilter(certStore, providerOptions)
FilterShown == Cardinality(providerOptions) > 1
filtered == {row \in certRows : /\ certStatus \in {"all", certBucket(certDays(row, today))}
                                /\ activeProviderFilter \in {"all", row.store}}

CertsFailed == expiryQ.error /\ certsQ.error
CertsLoading == IF usingFallback THEN Pending(certsQ) ELSE Pending(expiryQ)
Explaining == certRows = {} /\ storesQ.ask = "asked"

\* Why the table is empty.
EmptyState ==
    CASE CertsFailed -> "failed"
      [] ~CertsFailed /\ certRows # {} -> "filtered"
      [] ~CertsFailed /\ certRows = {} -> IF ~Usable(storesQ) THEN "unread"
                                          ELSE IF storesQ.data = {} THEN "no store" ELSE "nothing"

CertsInit ==
    /\ storesAt \in [Stores -> [enabled : {TRUE}, expires : UNION {Dates[s] : s \in Stores}]]
    /\ \A s \in Stores : storesAt[s].expires \in Dates[s]
    /\ today = 0 /\ expiryQ = Asked(Unasked) /\ certsQ = Unasked /\ storesQ = Asked(Unasked)
    /\ certStatus = "all" /\ certStore = "all"

\* The list is read when the first read has failed, and never before.
ReadIfFailed(query) == IF query.error /\ certsQ.ask = "idle" THEN Asked(certsQ) ELSE certsQ

ExpiryLands ==
    /\ expiryQ.ask = "asked"
    /\ \/ expiryQ' = Failed(expiryQ)
       \/ \E unread \in SUBSET EnabledStores :
             expiryQ' = Landed([rows |-> {ExpiryRow(s, today) : s \in EnabledStores \ unread}, unread |-> unread])
    /\ certsQ' = ReadIfFailed(expiryQ')
    /\ UNCHANGED <<storesAt, today, storesQ, certFilters>>

CertsLand ==
    /\ certsQ.ask = "asked"
    /\ \/ certsQ' = Failed(certsQ)
       \/ \E unread \in SUBSET EnabledStores : certsQ' = Landed({CertificateRow(s, today) : s \in EnabledStores \ unread})
    /\ UNCHANGED <<storesAt, today, expiryQ, storesQ, certFilters>>

StoresLand ==
    /\ storesQ.ask = "asked" /\ storesQ' \in {Landed(EnabledStores), Failed(storesQ)}
    /\ UNCHANGED <<storesAt, today, expiryQ, certsQ, certFilters>>

\* Refresh, or one of the buttons that try again.
RefreshCerts ==
    /\ (expiryQ.ask = "idle" /\ certsQ.ask = "idle") \/ CertsFailed
    /\ expiryQ' = Asked(expiryQ) /\ storesQ' = Asked(storesQ)
    /\ UNCHANGED <<storesAt, today, certsQ, certFilters>>

SetStatus(bucket) ==
    /\ certStatus' = IF certStatus = bucket THEN "all" ELSE bucket
    /\ UNCHANGED <<storesAt, today, certQueries, certStore>>

SetStore ==
    /\ FilterShown /\ certStore' \in providerOptions \cup {"all"}
    /\ UNCHANGED <<storesAt, today, certQueries, certStatus>>

clearFilters ==
    /\ filtered = {} /\ ~CertsLoading /\ ~Explaining /\ EmptyState = "filtered"
    /\ certStatus' = "all" /\ certStore' = "all"
    /\ UNCHANGED <<storesAt, today, certQueries>>

DayPasses ==
    /\ today < MaxDay /\ today' = today + 1 /\ UNCHANGED <<storesAt, certQueries, certFilters>>

\* An integration is switched, by another window.
StoreSwitched(s) ==
    /\ today < MaxDay /\ today' = today + 1 /\ storesAt' = [storesAt EXCEPT ![s].enabled = ~@]
    /\ UNCHANGED <<certQueries, certFilters>>

CertsNext ==
    \/ ExpiryLands \/ CertsLand \/ StoresLand \/ RefreshCerts
    \/ SetStore \/ clearFilters \/ DayPasses
    \/ \E bucket \in Filters : SetStatus(bucket)
    \/ \E s \in Stores : StoreSwitched(s)

CertsSpec == CertsInit /\ [][CertsNext]_certVars

(***************************************************************************)
(* What the page promises.                                                 *)
(***************************************************************************)
CertsTypeOK ==
    /\ \A s \in Stores : storesAt[s].expires \in Dates[s]
    /\ today \in 0..MaxDay
    /\ certStatus \in CERT_BUCKETS \cup {"all"} /\ certStore \in Stores \cup {"all"}
    /\ expiryQ.data # None => expiryQ.data.unread \cap {row.store : row \in expiryQ.data.rows} = {}

\* A certificate is counted by its date whichever of the two routes answered, and
\* one whose date could not be read is not called expired (certificates.ts:106-118).
CountedByDate ==
    \A s \in Stores : \A row \in {CertificateRow(s, today), ExpiryRow(s, today)} : certDays(row, today) = Left(s, today)

\* The badge of the sidebar and the counters of the page say one thing of one answer
\* (certificates.ts:230-234).
BadgeAgrees ==
    expiryQ.data # None =>
        LET rows == expiryQ.data.rows
        IN  /\ certificateUrgency(rows).expired = countBuckets(rows, "expired")
            /\ certificateUrgency(rows).soon = countBuckets(rows, "critical") + countBuckets(rows, "expiring")

\* A row that is hidden is hidden by a filter that can be seen (certificates.ts:48-53).
HiddenByAFilterSeen ==
    filtered # certRows => certStatus # "all" \/ (activeProviderFilter # "all" /\ FilterShown)
=============================================================================
