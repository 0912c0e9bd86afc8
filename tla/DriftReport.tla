---------------------------- MODULE DriftReport ----------------------------
(***************************************************************************)
(* The report that compares one service with what its integrations serve,  *)
(* as the endpoints page keeps it: asked for when its drawer opens, drawn  *)
(* as a badge on the row, dropped when a push makes it obsolete.  A report *)
(* is the number of pushes the service had seen when it was made.          *)
(***************************************************************************)
EXTENDS Naturals, FiniteSets, Queries

CONSTANTS MaxReads,      \* bound: reports being made
          MaxSeen        \* bound: pushes of the service

ASSUME DriftAssumption == MaxSeen \in Nat

VARIABLES seen,          \* the pushes the integrations have seen
          report,        \* the report kept, or None
          failure,       \* whether the last check is kept as failed
          result,        \* whether the result of a reconcile is kept
          drawer,        \* whether the drawer is open: "shut", "open" or "asking" to reconcile
          reads,         \* the checks under way, the last one sent is watched
          pushing        \* None, or the push under way

driftVars == <<seen, report, failure, result, drawer, reads, pushing>>

\* A report holds nothing, something a reconcile pushes, or only answers of
\* integrations it never writes to (driftStanding).
Found == {"nothing", "reconcilable", "elsewhere"}
Report == [saw : 0..MaxSeen, found : Found]
Push == [op : {"switch", "edit", "reconcile"}, at : {"sent", "done", "failed"}, after : Report \cup {None}]
Reads == [at : {"sent", "done", "failed"}, answer : Report \cup {None}, watched : BOOLEAN]

IsChecking == \E read \in reads : read.watched
IsReconciling == pushing # None /\ pushing.op = "reconcile"
CanReconcile == report # None /\ report.found = "reconcilable" /\ ~IsChecking /\ ~IsReconciling

\* What the drawer shows.
Body == IF IsChecking /\ report = None THEN "checking"
        ELSE IF failure /\ report = None THEN "failed"
        ELSE IF report # None THEN "report" ELSE "empty"

DriftInit ==
    /\ seen = 0 /\ report = None /\ failure = FALSE /\ result = FALSE
    /\ drawer = "shut" /\ reads = {} /\ pushing = None

\* A check drops the error kept; one observer watches the last one sent.
CheckDrift ==
    /\ Cardinality(reads) < MaxReads
    /\ reads' = {[read EXCEPT !.watched = FALSE] : read \in reads}
               \cup {[at |-> "sent", answer |-> None, watched |-> TRUE]}
    /\ failure' = FALSE

\* The badge of a row opens the drawer, too, while the row is busy.
OpenDrift ==
    /\ drawer = "shut" /\ drawer' = "open"
    /\ pushing = None \/ report # None
    /\ IF report = None THEN CheckDrift ELSE UNCHANGED <<reads, failure>>
    /\ UNCHANGED <<seen, report, result, pushing>>

Recheck ==
    /\ drawer = "open" /\ ~IsChecking /\ ~IsReconciling
    /\ CheckDrift
    /\ UNCHANGED <<seen, report, result, drawer, pushing>>

CloseDrawer ==
    /\ drawer = "open" /\ ~IsReconciling /\ drawer' = "shut"
    /\ UNCHANGED <<seen, report, failure, result, reads, pushing>>

\* The report is made at the server some time before it reaches the page.
ReadServed(read) ==
    /\ read.at = "sent"
    /\ \E answer \in [saw : {seen}, found : Found] \cup {None} :
           reads' = (reads \ {read}) \cup
               {[read EXCEPT !.at = IF answer = None THEN "failed" ELSE "done", !.answer = answer]}
    /\ UNCHANGED <<seen, report, failure, result, drawer, pushing>>

\* As a bug: the error of a check is said in a toast and not kept.
KeptOfAFailureNothing == FALSE

\* setDriftErrorById.
KeptOfAFailure == TRUE

ReadLands(read) ==
    /\ read.at # "sent"
    /\ reads' = reads \ {read}
    /\ IF read.at = "failed"
       THEN failure' = KeptOfAFailure /\ UNCHANGED report
       ELSE report' = read.answer /\ UNCHANGED failure
    /\ UNCHANGED <<seen, result, drawer, pushing>>

(***************************************************************************)
(* Pushes: the switch of the row or a bulk action, the form, and the       *)
(* reconcile of the drawer, which answers with the report made after it.   *)
(***************************************************************************)
StartPush(op) ==
    /\ pushing = None /\ seen < MaxSeen /\ drawer # "open"
    /\ (op = "reconcile") <=> (drawer = "asking")
    /\ drawer' = IF op = "reconcile" THEN "open" ELSE drawer
    /\ pushing' = [op |-> op, at |-> "sent", after |-> None]
    /\ UNCHANGED <<seen, report, failure, result, reads>>

\* Reconciling is asked about first, and may be thought better of.
HandleReconcile ==
    /\ \/ drawer = "open" /\ CanReconcile /\ drawer' = "asking"
       \/ drawer = "asking" /\ drawer' = "open"
    /\ UNCHANGED <<seen, report, failure, result, reads, pushing>>

PushServed ==
    /\ pushing # None /\ pushing.at = "sent"
    /\ \/ pushing' = [pushing EXCEPT !.at = "failed"] /\ UNCHANGED seen
       \/ /\ seen' = seen + 1
          /\ \E after \in (IF pushing.op = "reconcile" THEN [saw : {seen'}, found : Found] \cup {None} ELSE {None}) :
                 pushing' = [pushing EXCEPT !.at = "done", !.after = after]
    /\ UNCHANGED <<report, failure, result, drawer, reads>>

\* A switch forgets the report, the error and the result of the reconcile; the
\* form forgets nothing.
forgetDrift == report' = None /\ failure' = FALSE /\ result' = FALSE

PushLanded ==
    /\ pushing # None /\ pushing.at # "sent"
    /\ pushing' = None
    /\ IF pushing.at = "failed" \/ pushing.op = "edit" THEN UNCHANGED <<report, failure, result>>
       ELSE IF pushing.op = "switch" THEN forgetDrift
       ELSE report' = (IF pushing.after = None THEN report ELSE pushing.after) /\ result' = TRUE /\ UNCHANGED failure
    /\ UNCHANGED <<seen, drawer, reads>>

DriftNext ==
    \/ OpenDrift \/ Recheck \/ CloseDrawer \/ HandleReconcile \/ PushServed \/ PushLanded
    \/ \E read \in reads : ReadServed(read) \/ ReadLands(read)
    \/ \E op \in {"switch", "edit", "reconcile"} : StartPush(op)

DriftSpec == DriftInit /\ [][DriftNext]_driftVars

(***************************************************************************)
(* What the report promises.                                               *)
(***************************************************************************)
DriftTypeOK ==
    /\ seen \in 0..MaxSeen /\ report \in Report \cup {None}
    /\ failure \in BOOLEAN /\ result \in BOOLEAN /\ drawer \in {"shut", "open", "asking"}
    /\ reads \subseteq Reads /\ pushing \in Push \cup {None}

\* An answer never leaves the drawer with nothing to say: a drawer goes blank
\* only when a push has dropped what it showed (DriftDrawer.tsx:216).
BlankOnlyByPush ==
    [][drawer # "shut" /\ drawer' # "shut" /\ Body # "empty" /\ Body' = "empty" => pushing # None /\ pushing' = None]_driftVars
=============================================================================
