---------------------------- MODULE ServiceList ----------------------------
(***************************************************************************)
(* The endpoints page: the list under its tab, the selection and its bulk  *)
(* actions, and the actions of one row.  What the page keeps of drift is   *)
(* in DriftReport.                                                         *)
(***************************************************************************)
EXTENDS Naturals, FiniteSets, Queries

CONSTANTS Services,      \* the services
          MaxRequests,   \* bound: requests, runs and dialogs at once
          MaxPushes      \* bound: requests that change the server

ASSUME ServiceListAssumption == MaxPushes \in Nat

VARIABLES server,        \* each service gone, off or on
          rows,          \* the query ['services']
          mode,          \* the tab of the list
          selected,      \* the ids that were ticked
          acting,        \* the rows marked busy
          sent,          \* the requests under way
          run,           \* what a bulk check has still to do, or None
          asking,        \* the question on the screen, or None
          unheard,       \* whether the answer to a change was lost
          pushes         \* counts what MaxPushes bounds

theServer == <<server, unheard, pushes>>
serviceListVars == <<rows, mode, selected, acting, sent, run, asking, theServer>>

(***************************************************************************)
(* What the page derives from the list.                                    *)
(***************************************************************************)
Row == {"gone", "off", "on"}
Listed == IF rows.data = None THEN {} ELSE {s \in Services : rows.data[s] # "gone"}

\* Every service, or those that are switched off.
MatchesMode(s) == mode = "all" \/ rows.data[s] = "off"
Visible == {s \in Listed : MatchesMode(s)}

\* The live selection: what was ticked and is still listed.
Selected == selected \cap Listed

ListBody == IF Pending(rows) THEN "loading" ELSE IF rows.error THEN "error"
            ELSE IF Listed = {} THEN "empty" ELSE IF Visible = {} THEN "filtered" ELSE "rows"

BulkBusy == run # None \/ \E call \in sent : call.bulk
AtList == ListBody = "rows" /\ asking = None
Free(s) == AtList /\ s \in Visible /\ s \notin acting /\ ~BulkBusy

Call(op, ids, bulk) == [op |-> op, ids |-> ids, bulk |-> bulk, at |-> "sent"]
Requests == Cardinality(sent) + (IF run = None THEN 0 ELSE 1) + (IF asking = None THEN 0 ELSE 1)
SendRequest(op, ids, bulk) ==
    /\ Call(op, ids, bulk) \notin sent /\ Cardinality(sent) < MaxRequests
    /\ sent' = sent \cup {Call(op, ids, bulk)}

ServiceListInit ==
    /\ server \in [Services -> {"off", "on"}]
    /\ rows = Asked(Unasked) /\ mode = "all" /\ selected = {} /\ acting = {}
    /\ sent = {} /\ run = None /\ asking = None
    /\ unheard = FALSE /\ pushes = 0

RowsLand ==
    /\ rows.ask = "asked"
    /\ rows' \in {Landed(server), Failed(rows)}
    /\ UNCHANGED <<mode, selected, acting, asking, sent, run, theServer>>

RowsRetry ==
    /\ ListBody = "error" /\ rows.ask = "idle" /\ asking = None
    /\ rows' = Asked(rows)
    /\ UNCHANGED <<mode, selected, acting, asking, sent, run, theServer>>

SetMode ==
    /\ asking = None
    /\ mode' = IF mode = "all" THEN "disabled" ELSE "all"
    /\ UNCHANGED <<rows, selected, acting, asking, sent, run, theServer>>

ToggleSelect ==
    /\ AtList /\ ~BulkBusy
    /\ \/ \E s \in Visible : selected' = IF s \in selected THEN selected \ {s} ELSE selected \cup {s}
       \/ selected' = IF Visible \subseteq selected THEN {} ELSE Visible
    /\ UNCHANGED <<rows, mode, acting, asking, sent, run, theServer>>

(***************************************************************************)
(* One service.  Switching it and removing it are asked about first.       *)
(***************************************************************************)
Ask(op, ids, bulk) ==
    /\ Requests < MaxRequests
    /\ asking' = [op |-> op, ids |-> ids, bulk |-> bulk]
    /\ UNCHANGED <<rows, mode, selected, acting, sent, run, theServer>>

HandleToggleStatus(s) == Free(s) /\ Ask(IF rows.data[s] = "on" THEN "off" ELSE "on", {s}, FALSE)
HandleDelete(s) == Free(s) /\ Ask("delete", {s}, FALSE)
HandleBulk(op) == AtList /\ ~BulkBusy /\ Selected # {} /\ Ask(op, Selected, TRUE)

\* The answer to the question.  A bulk check is a loop in the page, the rest
\* is one request.
Settle(yes) ==
    /\ asking # None /\ asking' = None
    /\ IF ~yes THEN UNCHANGED <<acting, sent, run>>
       ELSE IF asking.op = "check"
       THEN run' = asking.ids /\ UNCHANGED <<acting, sent>>
       ELSE /\ SendRequest(asking.op, asking.ids, asking.bulk)
            /\ acting' = acting \cup asking.ids
            /\ UNCHANGED run
    /\ UNCHANGED <<rows, mode, selected, theServer>>

CheckService(s) ==
    /\ Free(s) /\ Requests < MaxRequests
    /\ SendRequest("check", {s}, FALSE)
    /\ acting' = acting \cup {s}
    /\ UNCHANGED <<rows, mode, selected, asking, run, theServer>>

(***************************************************************************)
(* A bulk check asks about one service after the other.                    *)
(***************************************************************************)
Checking == \E call \in sent : call.op = "check" /\ call.bulk
RunCheck(s) ==
    /\ run # None /\ s \in run /\ ~Checking
    /\ SendRequest("check", {s}, TRUE)
    /\ acting' = acting \cup {s}
    /\ run' = run \ {s}
    /\ UNCHANGED <<rows, mode, selected, asking, theServer>>

\* As a bug: the end of the run waits for the rows it was asked about.
RunEndsListed ==
    /\ run = {} /\ ~Checking /\ selected \subseteq Listed
    /\ run' = None /\ selected' = {} /\ rows' = Asked(rows)
    /\ UNCHANGED <<mode, acting, asking, sent, theServer>>

RunEnds ==
    /\ run = {} /\ ~Checking
    /\ run' = None /\ selected' = {} /\ rows' = Asked(rows)
    /\ UNCHANGED <<mode, acting, asking, sent, theServer>>

\* A single check that failed leaves the list as it is.
CheckLands(call) ==
    /\ call.op = "check"
    /\ sent' = sent \ {call}
    /\ acting' = acting \ call.ids
    /\ rows' \in IF call.bulk THEN {rows} ELSE {Asked(rows), rows}
    /\ UNCHANGED <<mode, selected, asking, run, theServer>>

(***************************************************************************)
(* Changes.                                                                *)
(***************************************************************************)
\* As a bug: the rows are released by a success only.
FreedBySuccess(call) == IF call.at = "done" THEN acting \ call.ids ELSE acting

\* onSettled.
Freed(call) == acting \ call.ids

\* As a bug: a bulk action does not read the list again.
AfterSinglePush(call) == IF call.at = "done" /\ ~call.bulk THEN Asked(rows) ELSE rows

\* invalidateAfterPush.
AfterPush(call) == IF call.at = "done" THEN Asked(rows) ELSE rows

PushLands(call) ==
    /\ call.op \in {"on", "off", "delete"} /\ call.at # "sent"
    /\ sent' = sent \ {call}
    /\ acting' = Freed(call)
    /\ rows' = AfterPush(call)
    /\ selected' = IF call.at # "done" THEN selected
                   ELSE IF call.bulk THEN {}
                   ELSE IF call.op = "delete" THEN selected \ call.ids ELSE selected
    /\ UNCHANGED <<mode, asking, run, theServer>>

(***************************************************************************)
(* The server.  A bulk action does what it can; an answer may be lost      *)
(* after the change was made.                                              *)
(***************************************************************************)
ServeList(call) ==
    LET to == IF call.op = "delete" THEN "gone" ELSE call.op
        answer(at) == sent' = (sent \ {call}) \cup {[call EXCEPT !.at = at]}
    IN  /\ call.at = "sent" /\ call.op # "check"
        /\ \/ answer("failed") /\ UNCHANGED theServer
           \/ /\ pushes < MaxPushes /\ pushes' = pushes + 1
              /\ \E ids \in (IF call.bulk THEN SUBSET call.ids ELSE {call.ids}) :
                     server' = [s \in Services |->
                         IF s \in ids /\ server[s] # "gone" THEN to ELSE server[s]]
              /\ \/ answer("done") /\ UNCHANGED unheard
                 \/ answer("failed") /\ unheard' = TRUE
        /\ UNCHANGED <<rows, mode, selected, acting, asking, run>>

CheckRun == RunEnds \/ (\E s \in Services : RunCheck(s))
            \/ (\E call \in sent : call.bulk /\ CheckLands(call))

ServiceListNext ==
    \/ RowsLand \/ RowsRetry \/ SetMode \/ ToggleSelect \/ RunEnds
    \/ \E s \in Services : \/ HandleToggleStatus(s) \/ HandleDelete(s) \/ CheckService(s)
                           \/ RunCheck(s)
    \/ \E op \in {"on", "off", "delete", "check"} : HandleBulk(op)
    \/ \E yes \in BOOLEAN : Settle(yes)
    \/ \E call \in sent : CheckLands(call) \/ PushLands(call) \/ ServeList(call)

\* The requests of a bulk check are answered, if only by a timeout, and the
\* loop goes on.
ServiceListFairness == WF_serviceListVars(CheckRun)

ServiceListSpec == ServiceListInit /\ [][ServiceListNext]_serviceListVars /\ ServiceListFairness

(***************************************************************************)
(* What the page promises.                                                 *)
(***************************************************************************)
ServiceListTypeOK ==
    /\ server \in [Services -> Row] /\ rows \in Query([Services -> Row])
    /\ mode \in {"all", "disabled"} /\ selected \subseteq Services /\ acting \subseteq Services
    /\ run \in (SUBSET Services) \cup {None}
    /\ unheard \in BOOLEAN /\ pushes \in 0..MaxPushes
    /\ sent \subseteq [op : {"on", "off", "delete", "check"}, ids : (SUBSET Services) \ {{}},
                       bulk : BOOLEAN, at : {"sent", "done", "failed"}]

\* At rest the list says what the server holds, whatever order the answers and
\* the reads of the list came in (Services.tsx:230).
RowsCatchUp ==
    sent = {} /\ run = None /\ Usable(rows) /\ rows.ask = "idle" /\ ~unheard => rows.data = server

\* No row is left marked busy once nothing is under way (Services.tsx:735).
RowsFreedAtLast == sent = {} /\ run = None => acting = {}

\* A bulk check ends, also when services go or fail under it, and gives the
\* list back (Services.tsx:602, 1032).
BulkCheckEnds == (run # None) ~> (run = None)
=============================================================================
