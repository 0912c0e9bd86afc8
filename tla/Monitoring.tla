----------------------------- MODULE Monitoring -----------------------------
(***************************************************************************)
(* The monitoring page: the status of each route and the history of its    *)
(* checks, the latencies measured while the page is open, checks of one    *)
(* route and of all of them.  The arithmetic of the last day is over a     *)
(* history of points, each a time and a status.                            *)
(***************************************************************************)
EXTENDS Integers, FiniteSets, SequencesExt, Queries

CONSTANTS Watched,       \* ids of services
          Tunnelled,     \* those that no check can reach
          UPTIME_WINDOW, \* the last day, in units of time
          UPTIME_BUCKETS,
          MaxTime,       \* bound: time that passes
          MaxPoints,     \* bound: points in a history
          MaxChecks      \* bound: checks that are sent

VARIABLES statusAt,      \* the server: the status of each service, or "disabled"
          historyAt,     \* the server: the points of each service, in order of time
          clock,
          statusQ, historyQ, \* the queries
          probes,        \* what was measured since the page was opened
          checkingId,    \* the service whose button turns
          checksOut,     \* the checks under way
          summary,       \* what the last check of all said
          unshown,       \* whether the rows missed a check: its answer was lost, or joined a first read
          checksSent     \* counts what MaxChecks bounds

monServer == <<statusAt, historyAt, clock>>
monReads == <<statusQ, historyQ>>
monMeasured == <<probes, checkingId, checksOut, summary, unshown, checksSent>>
monVars == <<monServer, monReads, monMeasured>>

ASSUME MonAssumption == MaxTime \in Nat /\ MaxChecks \in Nat

Statuses == {"ok", "error", "unknown"}
RANK == [ok |-> 0, unknown |-> 1, error |-> 2]

(***************************************************************************)
(* The last day.                                                           *)
(***************************************************************************)
InWindow(points, now) == SelectSeq(points, LAMBDA p : p.at >= now - UPTIME_WINDOW)
CountOf(points, status) == Len(SelectSeq(points, LAMBDA p : p.status = status))

countUptime(points, now) ==
    LET inside == InWindow(points, now) IN [ok |-> CountOf(inside, "ok"), total |-> Len(inside)]

\* As a bug: a point of this very moment falls past the last bucket.
PastTheEnd(at, now) == ((at - (now - UPTIME_WINDOW)) * UPTIME_BUCKETS) \div UPTIME_WINDOW

bucketIndex(at, now) ==
    LET index == ((at - (now - UPTIME_WINDOW)) * UPTIME_BUCKETS) \div UPTIME_WINDOW
    IN  IF index > UPTIME_BUCKETS - 1 THEN UPTIME_BUCKETS - 1 ELSE index

\* The bars: how many points each holds, and the worst of them.
summarizeUptime(points, now) ==
    [i \in 0..UPTIME_BUCKETS - 1 |->
        LET inside == SelectSeq(InWindow(points, now), LAMBDA p : bucketIndex(p.at, now) = i)
        IN  [total |-> Len(inside), ok |-> CountOf(inside, "ok"),
             status |-> IF inside = <<>> THEN None
                        ELSE CHOOSE s \in {p.status : p \in ToSet(inside)} :
                               \A p \in ToSet(inside) : RANK[p.status] <= RANK[s]]]

\* As a bug: a run that goes on reaches further, and its count stays behind.
ReachesOnly(runs, p) ==
    IF runs # <<>> /\ runs[Len(runs)].status = p.status THEN [runs EXCEPT ![Len(runs)].to = p.at]
    ELSE Append(runs, [status |-> p.status, from |-> p.at, to |-> p.at, count |-> 1])

AddToRuns(runs, p) ==
    IF runs # <<>> /\ runs[Len(runs)].status = p.status
    THEN [runs EXCEPT ![Len(runs)].to = p.at, ![Len(runs)].count = @ + 1]
    ELSE Append(runs, [status |-> p.status, from |-> p.at, to |-> p.at, count |-> 1])

collapse(points) == Reverse(FoldLeft(AddToRuns, <<>>, points))

(***************************************************************************)
(* The page.                                                               *)
(***************************************************************************)
Listed == IF statusQ.data = None THEN {} ELSE Watched
PointsSeen(s) == IF historyQ.data = None THEN <<>> ELSE historyQ.data[s]

MonInit ==
    /\ statusAt \in [Watched -> {"unknown", "disabled"}] /\ historyAt = [s \in Watched |-> <<>>] /\ clock = 0
    /\ statusQ = Asked(Unasked) /\ historyQ = Asked(Unasked)
    /\ probes = [s \in Watched |-> None] /\ checkingId = None /\ checksOut = {} /\ summary = None
    /\ unshown = FALSE /\ checksSent = 0

StatusLand ==
    /\ statusQ.ask = "asked"
    /\ \/ statusQ' = Landed(statusAt) /\ unshown' = FALSE
       \/ statusQ' = Failed(statusQ) /\ UNCHANGED unshown
    /\ UNCHANGED <<monServer, historyQ, probes, checkingId, checksOut, summary, checksSent>>

HistoryLand ==
    /\ historyQ.ask = "asked" /\ historyQ' \in {Landed(historyAt), Failed(historyQ)}
    /\ UNCHANGED <<monServer, statusQ, monMeasured>>

\* The interval of the page, or its buttons that try again.
Poll ==
    /\ statusQ.ask = "idle" /\ historyQ.ask = "idle" /\ statusQ' = Asked(statusQ) /\ historyQ' = Asked(historyQ)
    /\ UNCHANGED <<monServer, monMeasured>>

SendCheck(ids) ==
    /\ checksSent < MaxChecks /\ checksSent' = checksSent + 1
    /\ checksOut' = checksOut \cup {[ids |-> ids, n |-> checksSent', at |-> "sent", found |-> None, enabled |-> 0]}

CheckOne(s) ==
    /\ s \in Listed /\ s \notin Tunnelled /\ checkingId # s
    /\ SendCheck({s}) /\ checkingId' = s
    /\ UNCHANGED <<monServer, monReads, probes, summary, unshown>>

CheckAll ==
    /\ \A c \in checksOut : c.ids # Watched
    /\ SendCheck(Watched) /\ summary' = None
    /\ UNCHANGED <<monServer, monReads, probes, checkingId, unshown>>

Probed(ids) == {s \in ids : statusAt[s] # "disabled" /\ s \notin Tunnelled}

\* The server connects to what it can, and writes the status and the history; its answer
\* may be lost.
ServeCheck(c) ==
    /\ c.at = "sent"
    /\ \/ /\ checksOut' = (checksOut \ {c}) \cup {[c EXCEPT !.at = "failed"]}
          /\ UNCHANGED <<statusAt, historyAt, unshown>>
       \/ \E found \in [Probed(c.ids) -> {"ok", "error"}] :
            /\ \A s \in Probed(c.ids) : Len(historyAt[s]) < MaxPoints
            /\ \/ checksOut' = (checksOut \ {c}) \cup {[c EXCEPT !.at = "failed"]} /\ unshown' = TRUE
               \/ /\ checksOut' = (checksOut \ {c}) \cup
                       {[c EXCEPT !.at = "done", !.found = found,
                                  !.enabled = Cardinality({s \in Watched : statusAt[s] # "disabled"})]}
                  /\ UNCHANGED unshown
            /\ statusAt' = [s \in Watched |-> IF s \in Probed(c.ids) THEN found[s] ELSE statusAt[s]]
            /\ historyAt' = [s \in Watched |-> IF s \in Probed(c.ids) THEN Append(historyAt[s], [at |-> clock, status |-> found[s]])
                                               ELSE historyAt[s]]
    /\ UNCHANGED <<clock, monReads, probes, checkingId, summary, checksSent>>

\* The names that a check of one route resolved, and record() keeps.
Resolved(c, s) == IF c.ids # Watched THEN "resolved" ELSE IF probes[s] = None THEN None ELSE probes[s].dns
Latency(status) == IF status = "ok" THEN "measured" ELSE None

\* As a bug: the list is not read again.
ReadsNothing(query, c) == {query}

\* A check of one route is of a list that was read; it leaves the history to the interval of
\* the page.
StatusAfter(query, c) == IF c.ids = Watched THEN Reread(query) ELSE {Asked(query)}
HistoryAfter(query, c) == IF c.ids = Watched THEN Reread(query) ELSE {query}

CheckLands(c) ==
    /\ c.at \in {"done", "failed"}
    /\ checksOut' = checksOut \ {c}
    /\ checkingId' = IF c.ids = Watched THEN checkingId ELSE None
    /\ IF c.at = "done"
       THEN /\ probes' = [s \in Watched |-> IF s \notin DOMAIN c.found THEN probes[s]
                                            ELSE [latency |-> Latency(c.found[s]), dns |-> Resolved(c, s)]]
            /\ summary' = IF c.ids # Watched THEN summary
                          ELSE [checked |-> c.enabled,
                                ok |-> Cardinality({s \in DOMAIN c.found : c.found[s] = "ok"})]
            /\ statusQ' \in StatusAfter(statusQ, c) /\ historyQ' \in HistoryAfter(historyQ, c)
            /\ unshown' = (unshown \/ (c.ids = Watched /\ statusQ'.ask = "idle"))
       ELSE summary' = None /\ UNCHANGED <<monReads, probes, unshown>>
    /\ UNCHANGED <<monServer, checksSent>>

TimePasses == clock < MaxTime /\ clock' = clock + 1 /\ UNCHANGED <<statusAt, historyAt, monReads, monMeasured>>

MonNext ==
    \/ StatusLand \/ HistoryLand \/ Poll \/ CheckAll \/ TimePasses
    \/ \E s \in Watched : CheckOne(s)
    \/ \E c \in checksOut : ServeCheck(c) \/ CheckLands(c)

MonSpec == MonInit /\ [][MonNext]_monVars

(***************************************************************************)
(* What the page promises.                                                 *)
(***************************************************************************)
MonTypeOK ==
    /\ statusAt \in [Watched -> Statuses \cup {"disabled"}] /\ clock \in 0..MaxTime
    /\ checkingId \in Watched \cup {None} /\ unshown \in BOOLEAN
    /\ \A c \in checksOut : c.at \in {"sent", "done", "failed"} /\ c.n \in 1..MaxChecks

\* The bars of a route hold each point of the last day, once: they add up to what the
\* availability of all routes is counted from (uptime.ts:164 and 179).
BarsAddUp ==
    \A s \in Watched :
        LET points == PointsSeen(s)
            bars == summarizeUptime(points, clock)
            Sum(field) == FoldLeft(LAMBDA n, i : n + bars[i][field], 0, SetToSeq(DOMAIN bars))
        IN  Sum("total") = countUptime(points, clock).total /\ Sum("ok") = countUptime(points, clock).ok

\* The timeline tells every point of the history, in one run each, and two runs that
\* follow each other differ and do not overlap (ServiceDrawer.tsx:66).
TimelineTellsAll ==
    \A s \in Watched :
        LET runs == collapse(PointsSeen(s))
        IN  /\ FoldLeft(LAMBDA n, run : n + run.count, 0, runs) = Len(PointsSeen(s))
            /\ \A i \in 1..Len(runs) - 1 : runs[i].status # runs[i + 1].status /\ runs[i].from >= runs[i + 1].to

\* At rest, a route that was just checked shows what the check found: the last word is that
\* of the server.  A check whose answer was lost shows with the next read, and so does one
\* whose answer met the first fetch of the list (useServiceProbes.ts:57-64).
RowsFollowChecks ==
    checksOut = {} /\ statusQ.ask = "idle" /\ Usable(statusQ) /\ ~unshown => statusQ.data = statusAt
=============================================================================
