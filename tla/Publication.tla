---------------------------- MODULE Publication ----------------------------
(***************************************************************************)
(* The service table and the requests that publish it: POST, PUT, DELETE,  *)
(* push and the bulk enable/disable of app/api/services.py and             *)
(* app/api/sync.py, for services in proxy_dns mode.                        *)
(*                                                                         *)
(* A request is a session.  It reads its row once, works on that copy, and *)
(* makes its provider calls one at a time; between two of them any other   *)
(* session may run.  What a session has still to do is a set of tasks; a   *)
(* task of the lowest stage is next, and tasks of one stage come in any    *)
(* order (SQL gives the extra targets in none).  A task is one provider    *)
(* call, one transaction, or one decision between two calls.               *)
(*                                                                         *)
(* An operator that stands right before another of the same parameters,    *)
(* and that nothing uses, is a slip one could make there; PROJECT.json     *)
(* names the property that notices it.                                     *)
(***************************************************************************)
EXTENDS Providers

CONSTANTS
    Services,  \* ids of service rows
    Sessions,  \* request handlers that run at once
    Bodies,    \* what a POST or a PUT may ask for: rows, hid not read
    Requests,  \* bound: requests started in a behaviour
    Allowed(_, _), \* the edits of this instance: Allowed(row, body)
    Kinds,     \* the kinds of request of this instance
    Overlapping, \* whether two requests may work on one service at once, which
                 \* nothing in the code prevents
    Impatient  \* whether a write may wait out its busy timeout, which is a fault

VARIABLES
    rows,      \* rows[sid]: services joined with service_push_targets, or None
    ses,       \* ses[s]: what handler s is doing
    writer,    \* the session whose transaction holds SQLite's writer lock, or None
    requests,  \* requests still to come
    reported,  \* <<provider, name>>: failures told to the operator
    unsaid     \* <<provider, name>>: something of it was left without an error

vars == <<provVars, rows, ses, writer, requests, reported, unsaid>>

Row == [host : Hosts, enabled : BOOLEAN,
        proxy : Proxies \cup {None}, dns : Dns \cup {None},
        ip : Ips \cup {None}, auto : BOOLEAN, hid : Ids \cup {None},
        xproxies : SUBSET Proxies, xdns : SUBSET Dns]

ASSUME PublicationAssumption ==
    /\ Bodies \subseteq Row
    /\ None \notin Services \cup Sessions \cup Row
    /\ Requests \in Nat

Ops == {"none", "add", "put", "delete", "push", "enable", "disable"}

OnHosts   == {"find", "create", "seek", "renew", "resume", "suspend", "scrap", "drop"}
ById      == {"renew", "resume", "suspend", "scrap", "drop"}
OnRecords == {"look", "read", "swap", "add", "point", "move", "unmove", "quit", "kept"}
Publishes == {"read", "swap", "add", "point", "move"}
Removes   == {"swap", "move", "unmove", "quit", "kept"}
Decisions == {"insert", "write", "commit", "aim", "journal", "settle", "extras",
              "remove", "next", "flip"}

\* A task on a proxy names a host, by its id where the call needs one; a task
\* on a DNS server has the address to publish in ip, the one to remove in id.
Task == {t \in [do : OnHosts \cup OnRecords \cup Decisions,
                at : Proxies \cup Dns \cup {None}, host : Hosts \cup {None},
                ip : Ips \cup {None}, id : Ids \cup Ips \cup {None}, stage : Int] :
            /\ t.do \in OnHosts => t.at \in Proxies /\ t.host \in Hosts
            /\ t.do \in OnRecords => t.at \in Dns /\ t.host \in Hosts
            /\ t.do \in ById => t.id \in Ids
            /\ t.do \in Removes => t.id \in Ips
            /\ t.do = "look" => t.id \in Ips \cup {None}
            /\ t.do \in Publishes => t.ip \in Ips}

Session == [op : Ops,                      \* the request, kept when it has ended
            sid : Services \cup {None},
            old : Row \cup {None},         \* the row as the handler read it
            new : Row \cup {None},         \* the body, or the row that is pushed
            hid : Ids \cup {None},         \* npm_host_id as the handler has it
            saved : Ids \cup {None},       \* npm_host_id as it was last written
            ip : Ips \cup {None},          \* the address a push has resolved
            queue : SUBSET (Services \X Row),
            todo : SUBSET Task,
            sent : SUBSET (Proxies \cup Dns), \* published_on, until the INSERT
            err : BOOLEAN]                 \* errors is not empty

TypeOK ==
    /\ ProvidersTypeOK
    /\ rows \in [Services -> Row \cup {None}]
    /\ ses \in [Sessions -> Session]
    /\ writer \in Sessions \cup {None}
    /\ requests \in 0 .. Requests
    /\ reported \subseteq (Proxies \cup Dns) \X Hosts
    /\ unsaid \subseteq (Proxies \cup Dns) \X Hosts

(***************************************************************************)
(* Reading a row.                                                          *)
(***************************************************************************)
Some(x) == {x} \ {None}

ProxiesOf(r) == Some(r.proxy) \cup r.xproxies
DnsOf(r)     == Some(r.dns) \cup r.xdns
Extras(r)    == r.xproxies \cup r.xdns

\* The extra targets are always read from the table, never from the copy of
\* the row; they go with the row when it is deleted.
LiveXProxies(sid) == IF rows[sid] = None THEN {} ELSE rows[sid].xproxies
LiveXDns(sid)     == IF rows[sid] = None THEN {} ELSE rows[sid].xdns

Taken(h, sid) == \E o \in Services \ {sid} : rows[o] # None /\ rows[o].host = h

\* The unique index on the hostname, which the two check-then-write routes
\* meet at their INSERT and their UPDATE.
WithoutIndex(h, sid)  == FALSE
IndexRefuses(h, sid) == Taken(h, sid)

(***************************************************************************)
(* Tasks.                                                                  *)
(***************************************************************************)
Do(do, at, host, ip, id, stage) ==
    [do |-> do, at |-> at, host |-> host, ip |-> ip, id |-> id, stage |-> stage]
OnProxy(do, p, h, id, stage) == Do(do, p, h, None, id, stage)
OnDns(do, d, h, ip, stage)   == Do(do, d, h, ip, None, stage)
OffDns(do, d, h, ip, stage)  == Do(do, d, h, None, ip, stage)
Then(do, stage)              == Do(do, None, None, None, None, stage)

\* The next tasks of s: those of the lowest stage.
NextTasks(s) == {t \in ses[s].todo : \A u \in ses[s].todo : t.stage <= u.stage}
Idle(s)  == ses[s].todo = {}

\* An id that nothing remembers: NPM numbers its hosts and reuses no number.
FreeIds(p) ==
    LET used == {x.id : x \in hosts[p]}
                \cup {rows[i].hid : i \in {j \in Services : rows[j] # None}}
                \cup UNION {{ses[s].hid, ses[s].saved} \cup {t.id : t \in ses[s].todo}
                            \cup {q[2].hid : q \in ses[s].queue}
                            \cup (IF ses[s].old = None THEN {} ELSE {ses[s].old.hid})
                                : s \in Sessions}
        free == NumIds \ used
    IN  IF free = {} THEN {} ELSE {CHOOSE id \in free : TRUE}

\* A database write of s waits for the transaction of another session.
CanWrite(s) == writer \in {None, s}

\* The address a push has resolved, where it is news to the row.
NewIp(x) == IF x.ip = None \/ x.ip = x.new.ip THEN None ELSE x.ip

(***************************************************************************)
(* The plans: what withdraw_service_routes, withhold_service_routes and    *)
(* _push_service_row set out to do for the row r of service sid, on the    *)
(* providers in `only`.                                                    *)
(***************************************************************************)
\* _all_route_holders: every provider that may hold a route, with the extras
\* as they are now.
HolderProxies(r, sid) == Some(r.proxy) \cup LiveXProxies(sid)
HolderDns(r, sid)     == Some(r.dns) \cup LiveXDns(sid)

WithdrawPlan(r, sid, only, stage) ==
    {IF p \in HostKeyed THEN OnProxy("drop", p, r.host, r.host, stage)
     ELSE IF p = r.proxy /\ r.hid # None THEN OnProxy("drop", p, r.host, r.hid, stage)
     ELSE OnProxy("seek", p, r.host, None, stage)
        : p \in HolderProxies(r, sid) \cap only}
    \cup {OffDns("look", d, r.host, r.ip, stage + 5) : d \in HolderDns(r, sid) \cap only}

\* A disabled service keeps its host on the primary proxy, suspended; the
\* rest of its routes go.
WithholdPlan(r, sid, only, stage) ==
    LET primary == {p \in Some(r.proxy) \cap only : r.hid # None}
    IN  {OnProxy("suspend", p, r.host, r.hid, stage - 2) : p \in primary}
        \cup WithdrawPlan(r, sid, only \ primary, stage)

\* _stored_host_id: an id that spells another name is not used.
StoredId(r, p) ==
    IF p = r.proxy /\ ~(p \in HostKeyed /\ r.hid # r.host) THEN r.hid ELSE None

\* _collect_push_targets: the extra proxies a push addresses.
MoreProxies(r, sid) == LiveXProxies(sid) \ {r.proxy}

PublishPlan(r, sid, only, ip, stage) ==
    LET Tell(p, at) == IF StoredId(r, p) # None
                       THEN OnProxy("renew", p, r.host, StoredId(r, p), at)
                       ELSE OnProxy("find", p, r.host, None, at)
    IN  {Tell(p, stage) : p \in Some(r.proxy) \cap only}
        \cup {Tell(p, stage + 5) : p \in MoreProxies(r, sid) \cap only}
        \cup (IF ip = None THEN {}
              ELSE {OnDns("read", d, r.host, ip, stage + 10) : d \in Some(r.dns) \cap only}
                   \cup {OnDns("read", d, r.host, ip, stage + 15)
                            : d \in (LiveXDns(sid) \ {r.dns}) \cap only})

\* The push itself, of a row as its caller read it.  An address that is new
\* is written to the row between the proxies and the DNS servers.
PushPlan(r, sid, only, ip, stage) ==
    {Then("settle", stage + 20)}
    \cup (IF r.enabled /\ ip \notin {None, r.ip} THEN {Then("aim", stage + 8)} ELSE {})
    \cup
        IF r.enabled THEN PublishPlan(r, sid, only, ip, stage)
        ELSE WithholdPlan(r, sid, only, stage)

\* resolve_public_target: a manual address, or whatever is detected today,
\* which may be nothing ("auto_unavailable").
Resolved(r) == IF r.auto THEN Ips \cup {None} ELSE {r.ip}

\* Nothing to publish on the DNS servers of r: an error about all of them.
NoTarget(r, sid, only, ip) ==
    r.enabled /\ ip = None /\ HolderDns(r, sid) \cap only # {}
Untargeted(r, sid, only, ip) ==
    IF NoTarget(r, sid, only, ip) THEN (HolderDns(r, sid) \cap only) \X {r.host} ELSE {}

(***************************************************************************)
(* Starting and advancing a session.                                       *)
(***************************************************************************)
NoSession == [op |-> "none", sid |-> None, old |-> None, new |-> None, hid |-> None,
              saved |-> None, ip |-> None, queue |-> {}, todo |-> {}, sent |-> {},
              err |-> FALSE]

\* What is left of a request that has nothing more to do: its answer.
Rest(x) == IF x.todo # {} THEN x
           ELSE [NoSession EXCEPT !.op = x.op, !.sid = x.sid, !.err = x.err,
                                  !.old = IF x.op = "delete" THEN x.old ELSE None]

Start(s, x) ==
    /\ requests' = requests - 1
    /\ ses' = [o \in Sessions |-> IF o = s THEN Rest(x)
                                  ELSE IF Idle(o) THEN NoSession ELSE ses[o]]

\* Task t of session x is over and `more` follows it.
Over(x, t, more) == [x EXCEPT !.todo = (@ \ {t}) \cup more]

Advance(s, x) == ses' = [ses EXCEPT ![s] = Rest(x)]

\* The answer to task t: `good` on success, else an error: in `errors`, or at
\* once in the journal, as the POST does ("Proxy failed: host"), whose errors
\* a 409 drops.  The messages of POST and PUT name the host or only the kind of
\* the provider; the model takes each to be about the provider of the call.
\* From the UPDATE of a PUT on, and in all of a push, a withdrawal
\* and a bulk request, the end of a task is journalled on the connection of
\* the request; that, like a write of npm_host_id, takes the writer lock, or
\* waits for it, and the lock is kept until the next commit.
Writes == {"renew", "create", "resume", "suspend", "scrap", "drop", "swap", "add", "quit"}

Reply(s, t, ok, good, carried) ==
    LET x       == ses[s]
        next    == IF ok THEN good ELSE [Over(x, t, {}) EXCEPT !.err = TRUE]
        journal == /\ ok /\ t.stage >= 40 /\ t.do \in Writes
                   /\ good.todo \subseteq x.todo \/ good.hid # x.hid
        told    == IF ok THEN carried
                   ELSE {t.at} \X ({t.host} \cup IF x.old = None THEN {} ELSE {x.old.host})
    IN  /\ reported' = reported \cup told
        /\ IF journal /\ ~CanWrite(s)
           THEN /\ Advance(s, [next EXCEPT !.todo = @ \cup {Then("journal", 0)}])
                /\ UNCHANGED writer
           ELSE /\ Advance(s, next)
                /\ writer' = IF journal THEN s ELSE writer

Answered(s, t, ok, good) ==
    /\ Reply(s, t, ok, good, {})
    /\ UNCHANGED <<rows, requests, unsaid>>

After(t, do, id) == [t EXCEPT !.do = do, !.id = id, !.stage = @ - 1]

(***************************************************************************)
(* Calls to a proxy.                                                       *)
(***************************************************************************)
\* list_hosts by name, before an update or a creation (the push).
FindHost(s, t) ==
    /\ t.do = "find"
    /\ \E ok \in BOOLEAN :
        /\ Listing(ok)
        /\ Answered(s, t, ok, Over(ses[s], t,
               IF Named(t.at, t.host) = {} THEN {After(t, "create", None)}
               ELSE {After(t, "renew", x.id) : x \in Named(t.at, t.host)}))

\* What the push does to a host it has just updated, and the PUT does not.
NeverResumes(t) == FALSE
Resumes(t) == t.stage >= 90 /\ t.at \in Suspending

\* update_host.  The push then resumes the host, because the update does not
\* carry the flag; the PUT stores the new name of a name-keyed host.  A host
\* an error was about is still that host under its new name.
RenewHost(s, t) ==
    /\ t.do = "renew"
    /\ \E ok \in BOOLEAN :
        /\ UpdateHost(t.at, t.id, t.host, ok)
        /\ LET was  == {x.host : x \in WithId(t.at, t.id)}
               left == {x.host : x \in WithId(t.at, t.id) \cap hosts'[t.at]} \ {t.host}
               done == [Over(ses[s], t, IF Resumes(t) THEN {After(t, "resume", t.id)} ELSE {})
                           EXCEPT !.hid = IF t.at # ses[s].new.proxy THEN @
                                          ELSE IF t.at \in HostKeyed THEN t.host ELSE t.id]
           IN  /\ Reply(s, t, ok, done, IF ({t.at} \X was) \cap reported = {} THEN {}
                                         ELSE {<<t.at, t.host>>})
               /\ unsaid' = IF ok THEN unsaid \cup ({t.at} \X left) ELSE unsaid
    /\ UNCHANGED <<rows, requests>>

\* The providers a POST has called before there is a row.
Went(x, p) == IF x.op = "add" /\ x.sid = None THEN x.sent \cup {p} ELSE x.sent

CreateNewHost(s, t) ==
    /\ t.do = "create"
    /\ \E ok \in BOOLEAN :
        \E id \in IF t.at \in HostKeyed THEN {t.host} ELSE FreeIds(t.at) :
            /\ CreateHost(t.at, t.host, id, ok)
            /\ Answered(s, t, ok, [Over(ses[s], t, {}) EXCEPT
                   !.hid = IF t.at = ses[s].new.proxy THEN id ELSE @,
                   !.sent = Went(ses[s], t.at)])

\* toggle_host(TRUE); a proxy without a suspension answers FALSE, and is let be.
ResumeHost(s, t) ==
    /\ t.do = "resume"
    /\ IF t.at \in Suspending
       THEN \E ok \in BOOLEAN : /\ ToggleHost(t.at, t.id, TRUE, ok)
                                /\ Answered(s, t, ok, Over(ses[s], t, {}))
       ELSE UNCHANGED provVars /\ Answered(s, t, TRUE, Over(ses[s], t, {}))

\* Where there is no suspension the host has to go.
LetServe(t)  == {}
Instead(t)   == {After(t, "scrap", t.id)}

\* A refusal taken for a missing suspension: the host is deleted with all the
\* configuration the suspension exists to keep.
SuspendOrScrap(s, t) ==
    /\ t.do = "suspend"
    /\ \E ok \in BOOLEAN : /\ ToggleHost(t.at, t.id, FALSE, ok)
                           /\ Answered(s, t, TRUE, Over(ses[s], t, IF ok THEN {} ELSE Instead(t)))

\* toggle_host(FALSE), or the deletion where there is no suspension.
SuspendHost(s, t) ==
    /\ t.do = "suspend"
    /\ IF t.at \in Suspending
       THEN \E ok \in BOOLEAN : /\ ToggleHost(t.at, t.id, FALSE, ok)
                                /\ Answered(s, t, ok, Over(ses[s], t, {}))
       ELSE /\ UNCHANGED provVars
            /\ Answered(s, t, TRUE, Over(ses[s], t, Instead(t)))

ScrapHost(s, t) ==
    /\ t.do = "scrap"
    /\ \E ok \in BOOLEAN : /\ DeleteHost(t.at, t.id, ok)
                           /\ Answered(s, t, ok, [Over(ses[s], t, {}) EXCEPT !.hid = None])

\* list_hosts by name, before a withdrawal: nothing there is nothing to do.
SeekHost(s, t) ==
    /\ t.do = "seek"
    /\ \E ok \in BOOLEAN :
        /\ Listing(ok)
        /\ Answered(s, t, ok, Over(ses[s], t,
               {After(t, "drop", x.id) : x \in Named(t.at, t.host)}))

DropHost(s, t) ==
    /\ t.do = "drop"
    /\ \E ok \in BOOLEAN : /\ DeleteHost(t.at, t.id, ok)
                           /\ Answered(s, t, ok, Over(ses[s], t, {}))

(***************************************************************************)
(* Calls to a DNS server.                                                  *)
(***************************************************************************)
\* list_rewrites before a push, which looks at one record of the name.
ReadRecord(s, t) ==
    /\ t.do = "read"
    /\ \/ Listing(FALSE) /\ Answered(s, t, FALSE, ses[s])
       \/ /\ Listing(TRUE)
          /\ IF Answers(t.at, t.host) = {}
             THEN Answered(s, t, TRUE, Over(ses[s], t, {After(t, "add", None)}))
             ELSE \E found \in Answers(t.at, t.host) :
                    Answered(s, t, TRUE, Over(ses[s], t,
                        IF found = t.ip THEN {} ELSE {After(t, "swap", found)}))

\* A stale record goes before the new one is added; refused, nothing is added.
SwapRecord(s, t) ==
    /\ t.do = "swap"
    /\ \E ok \in BOOLEAN :
        /\ DeleteRewrite(t.at, t.host, t.id, ok)
        /\ Answered(s, t, ok, Over(ses[s], t, {After(t, "add", None)}))

AddRecord(s, t) ==
    /\ t.do = "add"
    /\ \E ok \in BOOLEAN : /\ AddRewrite(t.at, t.host, t.ip, ok)
                           /\ Answered(s, t, ok, [Over(ses[s], t, {}) EXCEPT
                                  !.sent = Went(ses[s], t.at)])

Moved(x) == <<x.old.host, x.old.ip>> # <<x.new.host, x.new.ip>>

\* The PUT adds the record of a service that had none there, and only then
\* retires the record the old row names.
PointRecord(s, t) ==
    /\ t.do = "point"
    /\ LET old    == ses[s].old
           retire == IF old.dns # None /\ old.ip # None /\ Moved(ses[s])
                     THEN {OffDns("quit", old.dns, old.host, old.ip, t.stage - 1)}
                     ELSE {}
       IN  \E ok \in BOOLEAN : /\ AddRewrite(t.at, t.host, t.ip, ok)
                               /\ Answered(s, t, ok, Over(ses[s], t, retire))

\* update_rewrite: the new record, then the old one away.
MoveRecord(s, t) ==
    /\ t.do = "move"
    /\ \E ok \in BOOLEAN :
        /\ AddRewrite(t.at, t.host, t.ip, ok)
        /\ Answered(s, t, ok, Over(ses[s], t,
               {[After(t, "unmove", t.id) EXCEPT !.host = ses[s].old.host, !.ip = None]}))

\* It answers TRUE whatever became of the old record.
UnmoveRecord(s, t) ==
    /\ t.do = "unmove"
    /\ \E ok \in BOOLEAN :
        /\ DeleteRewrite(t.at, t.host, t.id, ok)
        /\ unsaid' = IF ok THEN unsaid ELSE unsaid \cup {<<t.at, t.host>>}
    /\ Advance(s, Over(ses[s], t, {}))
    /\ UNCHANGED <<rows, writer, requests, reported>>

\* list_rewrites before a withdrawal: the address that is there is the record
\* to delete.  When the listing fails the row's address stands in for it, and
\* whatever else the name has stays without an error.
LookRecord(s, t) ==
    /\ t.do = "look"
    /\ \E ok \in BOOLEAN :
        /\ Listing(ok)
        /\ LET held == Answers(t.at, t.host)
           IN  /\ \E ip \in (IF ok /\ held # {} THEN held ELSE {t.id}) :
                    Advance(s, Over(ses[s], t,
                        IF ip = None THEN {} ELSE {After(t, "quit", ip)}))
               /\ unsaid' = IF ok THEN unsaid
                            ELSE unsaid \cup {<<t.at, t.host>> : ip \in held \ {t.id}}
    /\ UNCHANGED <<rows, writer, requests, reported>>

\* delete_rewrite, where a refusal is read against the listing.
QuitRecord(s, t) ==
    /\ t.do = "quit"
    /\ \E ok \in BOOLEAN :
        /\ DeleteRewrite(t.at, t.host, t.id, ok)
        /\ Answered(s, t, TRUE, Over(ses[s], t, IF ok THEN {} ELSE {After(t, "kept", t.id)}))

\* _dns_record_kept: a record that is gone is no error, a failed listing is.
CheckKept(s, t) ==
    /\ t.do = "kept"
    /\ \E ok \in BOOLEAN :
        /\ Listing(ok)
        /\ Answered(s, t, ok /\ <<t.host, t.id>> \notin recs[t.at], Over(ses[s], t, {}))

(***************************************************************************)
(* Transactions and decisions.                                             *)
(***************************************************************************)
NoCall == UNCHANGED provVars

\* What the journal says was published when the INSERT is refused: the calls
\* that succeeded.  One that was carried out and whose answer was lost is not
\* named there; the journal said of it, at the call, that it failed.
PublishedUntold(x) == {}
PublishedOn(x) == x.sent \X {x.new.host}

\* POST, after its calls: the INSERT, or the 409 of the unique index, which
\* names in the journal what had been published.
InsertRow(s, t) ==
    /\ t.do = "insert"
    /\ CanWrite(s)
    /\ NoCall
    /\ LET x == ses[s] IN
        IF IndexRefuses(x.new.host, None)
        THEN /\ Advance(s, [Over(x, t, {}) EXCEPT !.todo = {}, !.err = TRUE])
             /\ reported' = reported \cup PublishedOn(x)
             /\ UNCHANGED rows
        ELSE \E sid \in {i \in Services : rows[i] = None} :
             /\ rows' = [rows EXCEPT ![sid] = [x.new EXCEPT !.hid = x.hid]]
             /\ Advance(s, [Over(x, t, {}) EXCEPT !.sid = sid, !.sent = {}])
             /\ UNCHANGED reported
    /\ UNCHANGED <<writer, requests, unsaid>>

\* PUT, the holders it stops addressing: extras dropped from the list, all of
\* them after a rename, and primaries that are no target any more.
DroppedExtras(old, new, previous) == previous \ Extras(new)
FormerExtras(old, new, previous) ==
    IF old.host # new.host THEN previous ELSE previous \ Extras(new)

NoFormerPrimary(old, new)  == {}
FormerPrimaries(old, new) == (Some(old.proxy) \cup Some(old.dns)) \ Extras(new)

StaleTargets(x) ==
    (FormerExtras(x.old, x.new, LiveXProxies(x.sid) \cup LiveXDns(x.sid))
        \cup FormerPrimaries(x.old, x.new))
    \ (Some(x.new.proxy) \cup Some(x.new.dns))

\* PUT: the UPDATE opens the transaction, and the former targets are
\* withdrawn inside it; the unique index may refuse it with a 409.
WriteRow(s, t) ==
    /\ t.do = "write"
    /\ CanWrite(s)
    /\ NoCall
    /\ LET x == ses[s] IN
        IF rows[x.sid] # None /\ IndexRefuses(x.new.host, x.sid)
        THEN /\ Advance(s, [Over(x, t, {}) EXCEPT !.todo = {}, !.err = TRUE])
             /\ reported' = reported \cup
                    ((Some(x.new.proxy) \cup Some(x.new.dns)) \X {x.new.host, x.old.host})
             /\ UNCHANGED writer
        ELSE /\ Advance(s, Over(x, t, WithdrawPlan(x.old, x.sid, StaleTargets(x), 40)))
             /\ writer' = s
             /\ UNCHANGED reported
    /\ UNCHANGED <<rows, requests, unsaid>>

\* PUT, on a change of the flag: the host is resumed, or created where there
\* is none; or it is suspended, where there is one.
SwitchOn(x) ==
    {IF x.hid # None THEN OnProxy("resume", p, x.new.host, x.hid, 70)
     ELSE OnProxy("create", p, x.new.host, None, 70) : p \in Some(x.new.proxy)}

SwitchOffBlind(x) == {OnProxy("suspend", p, x.new.host, x.hid, 70) : p \in Some(x.new.proxy)}
SwitchOff(x) ==
    {OnProxy("suspend", p, x.new.host, x.hid, 70)
        : p \in {q \in Some(x.new.proxy) : x.hid # None}}

SwitchPlan(x) ==
    IF x.old.enabled = x.new.enabled THEN {}
    ELSE IF x.new.enabled THEN SwitchOn(x) ELSE SwitchOff(x)

\* PUT: set_push_targets and the commit.  For a row deleted meanwhile the
\* UPDATE matched nothing, and a push target for it is a foreign key error.
CommitRow(s, t) ==
    /\ t.do = "commit"
    /\ NoCall
    /\ writer' = None
    /\ LET x == ses[s] IN
        IF rows[x.sid] = None /\ Extras(x.new) # {}
        THEN Advance(s, [x EXCEPT !.todo = {}, !.err = TRUE]) /\ UNCHANGED rows
        ELSE /\ rows' = IF rows[x.sid] = None THEN rows
                        ELSE [rows EXCEPT ![x.sid] = [x.new EXCEPT !.hid = x.hid]]
             /\ Advance(s, [Over(x, t, SwitchPlan(x) \cup {Then("settle", 80)})
                               EXCEPT !.saved = x.hid])
    /\ UNCHANGED <<requests, reported, unsaid>>

\* A statement that opens the transaction: the journal line, or dns_ip.
TakeLock(s, t) ==
    /\ t.do \in {"journal", "aim"}
    /\ CanWrite(s)
    /\ NoCall
    /\ writer' = s
    /\ Advance(s, Over(ses[s], t, {}))
    /\ UNCHANGED <<rows, requests, reported, unsaid>>

\* The busy timeout: `database is locked`, where the holder of the lock still
\* waits for a provider.  The blocks that talk to a provider
\* catch it as an error of that provider, and the write is lost; anywhere
\* else it ends the request.
GiveUp(s, t) ==
    /\ t.do \in {"journal", "aim", "insert", "write", "remove"}
    /\ Impatient /\ ~CanWrite(s)
    /\ \E u \in ses[writer].todo : u.at # None
    /\ Fault /\ UNCHANGED <<hosts, recs>>
    /\ Advance(s, [Over(ses[s], t, {}) EXCEPT
           !.err = TRUE, !.hid = ses[s].saved,
           !.todo = IF t.do = "journal" THEN @ ELSE {}])
    /\ UNCHANGED <<rows, writer, requests, reported, unsaid>>

StillHeld(s) == writer
Released(s)  == IF writer = s THEN None ELSE writer

\* The commit of a push, and of the PUT after a switch: npm_host_id and
\* dns_ip, each only if it changed, in a row that may be gone.
Settle(s, t) ==
    /\ t.do = "settle"
    /\ NoCall
    /\ writer' = Released(s)
    /\ LET x == ses[s] IN
        /\ rows' = IF rows[x.sid] = None THEN rows
                   ELSE [rows EXCEPT ![x.sid].hid = IF x.hid = x.saved THEN @ ELSE x.hid,
                                     ![x.sid].ip = IF NewIp(x) = None THEN @ ELSE x.ip]
        /\ Advance(s, [Over(x, t, {}) EXCEPT !.saved = x.hid, !.ip = None])
    /\ UNCHANGED <<requests, reported, unsaid>>

\* The POST calls push_extra_targets, the PUT also withdraw_extra_targets, the
\* bulk routes the one of their flag.
PublishesLate(x)   == x.op \in {"put", "enable"}
PublishesAlways(x) == TRUE
PublishesExtras(x) == x.op \in {"add", "put", "enable"}
WithdrawsOnPut(x)  == x.op = "put"
WithdrawsExtras(x) == x.op \in {"put", "disable"}

\* Both act on the row as it is now: the first on an enabled service, the
\* second on a disabled one.
FollowExtras(s, t) ==
    /\ t.do = "extras"
    /\ NoCall
    /\ LET x == ses[s]
           r == rows[x.sid]
       IN  IF r = None
           THEN /\ Advance(s, [Over(x, t, {}) EXCEPT !.err = @ \/ x.op = "put"])
                /\ UNCHANGED reported
           ELSE IF Extras(r) # {} /\ r.enabled /\ PublishesExtras(x)
           THEN \E ip \in Resolved(r) :
                  /\ Advance(s, [Over(x, t, PushPlan(r, x.sid, Extras(r), ip, 100))
                                EXCEPT !.new = r, !.hid = r.hid, !.saved = r.hid, !.ip = ip,
                                       !.err = @ \/ NoTarget(r, x.sid, Extras(r), ip)])
                  /\ reported' = reported \cup Untargeted(r, x.sid, Extras(r), ip)
           ELSE /\ Advance(s, Over(x, t,
                     IF r.enabled \/ ~WithdrawsExtras(x) \/ Extras(r) = {} THEN {}
                     ELSE WithdrawPlan(r, x.sid, Extras(r), 100)
                          \cup IF x.op = "put" THEN {Then("settle", 120)} ELSE {}))
                /\ UNCHANGED reported
    /\ UNCHANGED <<rows, writer, requests, unsaid>>

\* DELETE, after its withdrawals: the row goes whatever the providers said.
RemoveRow(s, t) ==
    /\ t.do = "remove"
    /\ CanWrite(s)
    /\ NoCall
    /\ rows' = [rows EXCEPT ![ses[s].sid] = None]
    /\ Advance(s, Over(ses[s], t, {}))
    /\ writer' = None
    /\ UNCHANGED <<requests, reported, unsaid>>

\* The bulk routes, one service after the other: the extras first, then the
\* primaries from the row as it was read before the flag was written.
NextInBatch(s, t) ==
    /\ t.do = "next"
    /\ NoCall
    /\ LET x == ses[s] IN
        \E q \in x.queue :
            Advance(s, [x EXCEPT !.sid = q[1], !.old = q[2], !.queue = @ \ {q},
                !.todo = {Then("extras", 90), Then("flip", 125)}
                         \cup IF x.queue = {q} THEN {} ELSE {Then("next", 160)}])
    /\ UNCHANGED <<rows, writer, requests, reported, unsaid>>

FlipPlan(x) ==
    LET r == x.old
    IN  {Then("settle", 150)}
        \cup {IF x.op = "disable" THEN OnProxy("suspend", p, r.host, r.hid, 130)
              ELSE IF r.hid # None THEN OnProxy("resume", p, r.host, r.hid, 130)
              ELSE OnProxy("create", p, r.host, None, 130)
                : p \in {q \in Some(r.proxy) : x.op = "enable" \/ r.hid # None}}
        \cup {IF x.op = "enable" THEN OnDns("add", d, r.host, r.ip, 140)
              ELSE OffDns("quit", d, r.host, r.ip, 140)
                : d \in {e \in Some(r.dns) : r.ip # None}}

FlipPrimaries(s, t) ==
    /\ t.do = "flip"
    /\ NoCall
    /\ LET x == ses[s] IN
        Advance(s, [Over(x, t, FlipPlan(x)) EXCEPT
            !.new = x.old, !.hid = x.old.hid, !.saved = x.old.hid, !.ip = None])
    /\ UNCHANGED <<rows, writer, requests, reported, unsaid>>

(***************************************************************************)
(* The requests.                                                           *)
(***************************************************************************)
Opening(op, sid, old, new, hid, todo) ==
    [NoSession EXCEPT !.op = op, !.sid = sid, !.old = old, !.new = new,
                      !.hid = hid, !.saved = hid, !.todo = todo]

Engaged(sid) ==
    \E s \in Sessions : ~Idle(s) /\ (ses[s].sid = sid \/ \E q \in ses[s].queue : q[1] = sid)
Ready(sid) == rows[sid] # None /\ (Overlapping \/ ~Engaged(sid))

\* What both write routes refuse before they touch a provider.
Acceptable(b, sid) ==
    /\ ProxiesOf(b) \cup DnsOf(b) # {}
    /\ b.dns # None => b.ip # None
    /\ ~Taken(b.host, sid)

AddService(s) ==
    /\ "add" \in Kinds
    /\ \E b \in Bodies :
        /\ Acceptable(b, None)
        /\ \E sid \in Services : rows[sid] = None
        /\ Start(s, Opening("add", None, None, b, None,
               {Then("insert", 30), Then("extras", 90)} \cup
               IF ~b.enabled THEN {}
               ELSE {OnProxy("create", p, b.host, None, 10) : p \in Some(b.proxy)}
                    \cup {OnDns("add", d, b.host, b.ip, 20) : d \in Some(b.dns)}))
    /\ UNCHANGED <<provVars, rows, writer, reported, unsaid>>

\* The proxy block of the PUT, for the primary proxy.
PutProxyPlan(old, b) ==
    IF ~b.enabled /\ ~old.enabled /\ old.hid = None THEN {}
    ELSE {IF old.proxy = p /\ old.hid # None THEN OnProxy("renew", p, b.host, old.hid, 10)
          ELSE OnProxy("create", p, b.host, None, 10) : p \in Some(b.proxy)}

\* The records a PUT withholds: an edit may change the name or the address of
\* a service and disable it at once.
SameDns(old, b)     == old.dns = b.dns /\ old.ip # None
GoneNow(old, b)     == {<<b.host, b.ip>>}
GoneRecords(old, b) ==
    {<<b.host, b.ip>>} \cup (IF SameDns(old, b) THEN {<<old.host, old.ip>>} ELSE {})

\* The DNS block of the PUT, for the primary DNS server.
PutDnsPlan(old, b) ==
    LET published == SameDns(old, b) /\ old.enabled
        moved     == <<old.host, old.ip>> # <<b.host, b.ip>>
    IN  IF b.dns = None \/ b.ip = None THEN {}
        ELSE IF ~b.enabled THEN {OffDns("quit", b.dns, r[1], r[2], 20) : r \in GoneRecords(old, b)}
        ELSE IF ~published THEN {OnDns("point", b.dns, b.host, b.ip, 20)}
        ELSE IF moved THEN {Do("move", b.dns, b.host, b.ip, old.ip, 20)} ELSE {}

UpdateService(s) ==
    /\ "put" \in Kinds
    /\ \E sid \in Services, b \in Bodies :
        LET old == rows[sid] IN
        /\ Ready(sid)
        /\ Acceptable(b, sid)
        /\ Allowed(old, b)
        /\ Start(s, Opening("put", sid, old, b,
               IF old.proxy = b.proxy THEN old.hid ELSE None,
               PutProxyPlan(old, b) \cup PutDnsPlan(old, b) \cup
               {Then("write", 30), Then("commit", 60), Then("extras", 90)}))
    /\ UNCHANGED <<provVars, rows, writer, reported, unsaid>>

DeleteService(s) ==
    /\ "delete" \in Kinds
    /\ \E sid \in Services :
        LET old == rows[sid] IN
        /\ Ready(sid)
        /\ Start(s, Opening("delete", sid, old, old, old.hid,
               WithdrawPlan(old, sid, Proxies \cup Dns, 100) \cup {Then("remove", 120)}))
    /\ UNCHANGED <<provVars, rows, writer, reported, unsaid>>

\* A push of r, the row of sid as its caller read it.
Push(s, sid, r) ==
    \E ip \in Resolved(r) :
        /\ Start(s, [Opening("push", sid, None, r, r.hid,
                             PushPlan(r, sid, Proxies \cup Dns, ip, 100))
                       EXCEPT !.ip = ip, !.err = NoTarget(r, sid, Proxies \cup Dns, ip)])
        /\ reported' = reported \cup Untargeted(r, sid, Proxies \cup Dns, ip)

PushService(s) ==
    /\ "push" \in Kinds
    /\ \E sid \in Services : Ready(sid) /\ Push(s, sid, rows[sid])
    /\ UNCHANGED <<provVars, rows, writer, unsaid>>

BulkSwitch(s) ==
    /\ "bulk" \in Kinds
    /\ writer = None
    /\ \E op \in {"enable", "disable"}, sids \in SUBSET Services :
        /\ sids # {} /\ \A sid \in sids : Ready(sid)
        /\ rows' = [sid \in Services |-> IF sid \notin sids THEN rows[sid]
                        ELSE [rows[sid] EXCEPT !.enabled = (op = "enable")]]
        /\ Start(s, [Opening(op, None, None, None, None, {Then("next", 1)})
                       EXCEPT !.queue = {<<sid, rows[sid]>> : sid \in sids}])
    /\ UNCHANGED <<provVars, writer, reported, unsaid>>

Work(s) ==
    \E t \in NextTasks(s) :
        \/ FindHost(s, t) \/ RenewHost(s, t) \/ CreateNewHost(s, t)
        \/ ResumeHost(s, t) \/ SuspendHost(s, t) \/ ScrapHost(s, t)
        \/ SeekHost(s, t) \/ DropHost(s, t)
        \/ ReadRecord(s, t) \/ SwapRecord(s, t) \/ AddRecord(s, t)
        \/ PointRecord(s, t) \/ MoveRecord(s, t) \/ UnmoveRecord(s, t)
        \/ LookRecord(s, t) \/ QuitRecord(s, t) \/ CheckKept(s, t)
        \/ InsertRow(s, t) \/ WriteRow(s, t) \/ CommitRow(s, t) \/ Settle(s, t)
        \/ TakeLock(s, t) \/ GiveUp(s, t)
        \/ FollowExtras(s, t) \/ RemoveRow(s, t)
        \/ NextInBatch(s, t) \/ FlipPrimaries(s, t)

Handle(s) ==
    /\ Idle(s)
    /\ requests > 0
    /\ \/ AddService(s) \/ UpdateService(s) \/ DeleteService(s)
       \/ PushService(s) \/ BulkSwitch(s)

Init ==
    /\ ProvidersInit
    /\ rows = [sid \in Services |-> None]
    /\ ses = [s \in Sessions |-> NoSession]
    /\ writer = None
    /\ requests = Requests
    /\ reported = {}
    /\ unsaid = {}

Next == \E s \in Sessions : Handle(s) \/ Work(s)

Spec == Init /\ [][Next]_vars

\* A handler runs to its end: every provider call has a timeout.
FairSpec == Spec /\ \A s \in Sessions : WF_vars(Work(s))

(***************************************************************************)
(* What the requests promise.                                              *)
(***************************************************************************)
Quiet == \A s \in Sessions : Idle(s)

\* A row that stands behind a route for h on a provider.
Held(p, h) == \E sid \in Services :
    rows[sid] # None /\ rows[sid].host = h /\ p \in ProxiesOf(rows[sid]) \cup DnsOf(rows[sid])

\* The drift check of a row: served where it is enabled, dark where it is not.
\* Another address than the row's is a warning there, not an error.
Served(p, h) == \E x \in Named(p, h) : x.on
DriftOk(r) ==
    IF r.enabled
    THEN /\ \A p \in ProxiesOf(r) : Named(p, r.host) # {} /\ \A x \in Named(p, r.host) : x.on
         /\ r.ip # None => \A d \in DnsOf(r) : Answers(d, r.host) # {}
    ELSE /\ \A p \in ProxiesOf(r) : ~Served(p, r.host)
         /\ \A d \in DnsOf(r) : Answers(d, r.host) = {}

\* Whatever Vauxtra published and no row stands behind was named to the
\* operator: by an error of the call that left it, in the answer or in the
\* journal, or by the line of a 409; or it is a record that update_rewrite
\* left without saying so.
NoSilentOrphan ==
    Quiet =>
        /\ \A p \in Proxies : \A x \in hosts[p] :
             Held(p, x.host) \/ <<p, x.host>> \in reported \cup unsaid
        /\ \A d \in Dns : \A r \in recs[d] :
             Held(d, r[1]) \/ <<d, r[1]>> \in reported \cup unsaid

\* A service shown as off is not reachable, unless an error named the
\* provider that still serves it.
DisabledIsDark ==
    Quiet => \A sid \in Services :
        LET r == rows[sid] IN
        r # None /\ ~r.enabled =>
            /\ \A p \in ProxiesOf(r) : Served(p, r.host) => <<p, r.host>> \in reported \cup unsaid
            /\ \A d \in DnsOf(r) :
                 Answers(d, r.host) # {} => <<d, r.host>> \in reported \cup unsaid

\* A push or a POST that answers `errors: []` leaves an enabled service served
\* by every one of its targets, as the drift check reads them.
CleanAnswerConverges ==
    \A s \in Sessions :
        LET x == ses[s] IN
        /\ Quiet /\ x.op \in {"add", "push"} /\ ~x.err
        /\ rows[x.sid] # None
        /\ rows[x.sid].enabled
        => DriftOk(rows[x.sid])

\* No two services claim one hostname, whichever requests race for it.
UniqueHosts ==
    \A i, j \in Services :
        rows[i] # None /\ rows[j] # None /\ rows[i].host = rows[j].host => i = j

\* A request that takes routes away puts none up, however its row and its
\* targets change under it: a DELETE, a bulk disable, a push of a row that
\* was off when it was read.
Withdrawing(x) == \/ x.op \in {"delete", "disable"}
                  \/ x.op = "push" /\ x.new # None /\ ~x.new.enabled
WithdrawalPublishesNothing ==
    [][\A s \in Sessions :
         Withdrawing(ses[s]) /\ ~Idle(s) /\ ses'[s] # ses[s] =>
             /\ \A p \in Proxies, h \in Hosts : Served(p, h)' => Served(p, h)
             /\ \A d \in Dns : recs'[d] \subseteq recs[d]]_vars

\* Every request comes to its end: no two of them wait for each other's
\* transaction, and none waits for one that nobody closes.
EveryRequestEnds == \A s \in Sessions : ~Idle(s) ~> Idle(s)

\* Disabling a service on a proxy that can suspend never deletes its host:
\* only a DELETE, or a PUT that leaves the proxy, removes a row's own host.
SuspensionKeepsTheHost ==
    [][\A p \in Suspending, sid \in Services :
         LET r == rows[sid] IN
         /\ r # None /\ r.proxy = p /\ r.hid # None
         /\ WithId(p, r.hid) # {}
         /\ hosts'[p] = hosts[p] \ WithId(p, r.hid)
         => \E s \in Sessions :
                /\ ses[s].sid = sid
                /\ \/ ses[s].op = "delete"
                   \/ ses[s].op = "put" /\ ses[s].new.proxy # p]_vars
=============================================================================
