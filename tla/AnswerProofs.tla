---------------------------- MODULE AnswerProofs ----------------------------
(***************************************************************************)
(* A push or a POST that answers `errors: []` has published what its row   *)
(* asks for, for every number of services and providers and whatever edits *)
(* went before, where requests come one at a time (Alone).  Two that       *)
(* overlap may undo each other's work, and then no answer says what is.    *)
(*                                                                         *)
(* The inductive invariant has two parts.  HostsOK: a proxy tells its      *)
(* hosts apart by id and by name, a name is the id where the proxy keys on *)
(* it, and nothing is off where nothing can be suspended.  AnswersInv: as  *)
(* long as a push or a POST has met no error, each target of the row it is *)
(* about is served, or has a task that leads there.                        *)
(***************************************************************************)
EXTENDS SessionProofs

\* Requests come one at a time.
Alone == \A a, b \in Sessions : a = b

HostsOK ==
    /\ \A p \in Proxies : \A a, b \in hosts[p] : a.id = b.id \/ a.host = b.host => a = b
    /\ \A p \in HostKeyed : \A a \in hosts[p] : a.id = a.host
    /\ \A p \in Proxies \ Suspending : \A a \in hosts[p] : a.on

\* The tasks of a publication, on a proxy and on a DNS server.
ShowHost   == {"find", "renew", "create", "resume"}
ShowRecord == {"read", "swap", "add"}
Calls      == (OnHosts \cup OnRecords) \ {"point", "move", "unmove"}

\* A push or a POST that has no error to tell.
Answering(x) == x.op \in {"add", "push"} /\ ~x.err

\* The row that the answer of x is about: the body until it is inserted.
About(x, table) == IF x.sid = None THEN x.new ELSE table[x.sid]

\* What the proxies hold serves h on p; what the DNS servers hold points to it.
AllOn(held, p, h) == /\ \E a \in held[p] : a.host = h
                     /\ \A a \in held[p] : a.host = h => a.on
Pointed(names, d, h) == \E ip \in Ips : <<h, ip>> \in names[d]

\* Something that x has to do leads to the target `at`.
OnTheWay(x, do, at, extras) ==
    \E u \in x.todo : \/ u.do \in do /\ u.at = at
                      \/ u.do = "extras" /\ at \in extras

\* A task of a publication of h, and what a resume finds when it comes.
Fits(u, h, held) ==
    /\ u.do \in OnHosts \cup OnRecords => u.do \in ShowHost \cup ShowRecord /\ u.host = h
    /\ u.do = "find" => u.stage > 90
    /\ u.do = "renew" => u.stage >= 90 /\ (u.at \in HostKeyed => u.id = u.host)
    /\ u.do = "resume" => /\ u.at \in Suspending
                          /\ \E a \in held[u.at] : a.id = u.id /\ a.host = u.host

OnePerProxy(tasks) ==
    \A u, v \in tasks : u.do \in OnHosts /\ v.do \in OnHosts /\ u.at = v.at => u = v

\* The tasks of a push and of a POST, and their order.
Shape(x) ==
    /\ \A u \in x.todo : u.do \in Calls \cup {"insert", "extras", "aim", "settle", "journal"}
    /\ x.op = "push" => x.sid \in Services /\ \A u \in x.todo : u.do \notin {"insert", "extras"}
    /\ x.sid = None => \E u \in x.todo : u.do = "insert"
    /\ \A u, v \in x.todo : u.do = "insert" => x.sid = None /\ (v.do = "insert" => u = v)
    /\ \A u, v \in x.todo : u.do = "extras" => u.stage > 0 /\ (v # u => v.stage < u.stage)

Shows(x, r, held, names) ==
    /\ \A u \in x.todo : Fits(u, r.host, held)
    /\ OnePerProxy(x.todo)
    /\ \A p \in ProxiesOf(r) : OnTheWay(x, ShowHost, p, r.xproxies) \/ AllOn(held, p, r.host)
    /\ \A d \in DnsOf(r) : OnTheWay(x, ShowRecord, d, r.xdns) \/ Pointed(names, d, r.host)

Wants(r) == r # None /\ r.enabled

Good(x, table, held, names) ==
    Answering(x) => /\ Shape(x)
                    /\ Wants(About(x, table)) => Shows(x, About(x, table), held, names)

AnswersInv == \A s \in Sessions : Good(ses[s], rows, hosts, recs)

(***************************************************************************)
(* A proxy tells its hosts apart.                                          *)
(***************************************************************************)
\* What one proxy may hold.
Distinct(p, held) ==
    /\ \A a, b \in held : a.id = b.id \/ a.host = b.host => a = b
    /\ p \in HostKeyed => \A a \in held : a.id = a.host
    /\ p \notin Suspending => \A a \in held : a.on

\* It is what HostsOK says of each.
LEMMA HostsDistinct == HostsOK <=> \A p \in Proxies : Distinct(p, hosts[p])
BY ProvidersAssumption DEF HostsOK, Distinct

\* A call that leaves distinct hosts in its proxy.
LEMMA ProxyCallHosts ==
    ASSUME ProvidersTypeOK, HostsOK, NEW p \in Proxies, NEW can, NEW after, NEW ok,
           Distinct(p, after), ProxyCall(p, can, after, ok)
    PROVE  HostsOK'
<1>1. \A q \in Proxies : hosts'[q] = hosts[q] \/ (q = p /\ hosts'[q] = after)
  BY DEF ProxyCall, ProvidersTypeOK
<1>2. \A q \in Proxies : Distinct(q, hosts'[q])
  BY <1>1, HostsDistinct
<1> QED BY <1>2, ProvidersAssumption DEF HostsOK, Distinct

\* A creation takes the place of what has the name, under an id nobody has,
LEMMA CreateHostHosts ==
    ASSUME ProvidersTypeOK, HostsOK, NEW p \in Proxies, NEW h \in Hosts, NEW ok,
           NEW id, p \in HostKeyed => id = h,
           p \notin HostKeyed => \A a \in hosts[p] : a.id # id,
           CreateHost(p, h, id, ok)
    PROVE  HostsOK'
<1> DEFINE new == [id |-> id, host |-> h, on |-> TRUE]
           after == (hosts[p] \ Named(p, h)) \cup {new}
           can == p \in Upsert \/ Named(p, h) = {}
<1>1. Distinct(p, hosts[p])
  BY HostsDistinct
<1>2. \A a \in hosts[p] \ Named(p, h) : a.host # h /\ a.id # id
  BY <1>1 DEF Named, Distinct
<1>3. new.id = id /\ new.host = h /\ new.on
  OBVIOUS
<1>4. ProxyCall(p, can, after, ok)
  BY DEF CreateHost
<1> HIDE DEF new, can
<1>5. Distinct(p, after)
  BY <1>1, <1>2, <1>3 DEF Distinct
<1> HIDE DEF after
<1> QED BY <1>4, <1>5, ProxyCallHosts

\* a suspension or a resumption only turns its host, where there is one,
LEMMA ToggleHostHosts ==
    ASSUME ProvidersTypeOK, HostsOK, NEW p \in Suspending, NEW id, NEW on \in BOOLEAN, NEW ok,
           ToggleHost(p, id, on, ok)
    PROVE  HostsOK'
<1> DEFINE turned == {[x EXCEPT !.on = on] : x \in WithId(p, id)}
           after == (hosts[p] \ WithId(p, id)) \cup turned
           can == WithId(p, id) # {}
<1>0. p \in Proxies
  BY ProvidersAssumption
<1>1. Distinct(p, hosts[p]) /\ hosts[p] \subseteq Host
  BY <1>0, HostsDistinct DEF ProvidersTypeOK
<1>2. \A y \in turned : \E x \in WithId(p, id) : y = [x EXCEPT !.on = on] /\ y.id = x.id /\ y.host = x.host
  BY <1>1 DEF Host, WithId
<1>3. ProxyCall(p, can, after, ok)
  BY DEF ToggleHost
<1> HIDE DEF turned, can
<1>4. \A a, b \in after : a.id = b.id \/ a.host = b.host => a = b
  BY <1>1, <1>2 DEF Distinct, WithId
<1>5. p \in HostKeyed => \A a \in after : a.id = a.host
  BY <1>1, <1>2 DEF Distinct, WithId
<1>6. Distinct(p, after)
  BY <1>4, <1>5 DEF Distinct
<1> HIDE DEF after
<1> QED BY <1>0, <1>3, <1>6, ProxyCallHosts

\* a deletion only takes away,
LEMMA DeleteHostHosts ==
    ASSUME ProvidersTypeOK, HostsOK, NEW p \in Proxies, NEW id, NEW ok, DeleteHost(p, id, ok)
    PROVE  HostsOK'
<1> DEFINE after == hosts[p] \ WithId(p, id)
           can == p \in Upsert \/ WithId(p, id) # {}
<1>1. Distinct(p, after)
  BY HostsDistinct DEF Distinct
<1>2. ProxyCall(p, can, after, ok)
  BY DEF DeleteHost
<1> HIDE DEF after, can
<1> QED BY <1>1, <1>2, ProxyCallHosts

\* and an update gives the name to one host only.
LEMMA UpdateHostHosts ==
    ASSUME ProvidersTypeOK, HostsOK, NEW p \in Proxies, NEW h \in Hosts, NEW id, NEW ok,
           UpdateHost(p, id, h, ok)
    PROVE  HostsOK'
<1> DEFINE new == [id |-> h, host |-> h, on |-> TRUE]
           upserted == (hosts[p] \ (WithId(p, id) \cup Named(p, h))) \cup {new}
           key == IF p \in HostKeyed THEN h ELSE id
           turned == {[id |-> key, host |-> h, on |-> x.on] : x \in WithId(p, id)}
           renamed == (hosts[p] \ WithId(p, id)) \cup turned
           can == WithId(p, id) # {} /\ Named(p, h) \subseteq WithId(p, id)
           placed == (hosts[p] \ Named(p, h)) \cup {new}
           half == /\ hosts' = [hosts EXCEPT ![p] = IF ok THEN placed ELSE @ \ WithId(p, id)]
                   /\ UNCHANGED recs
                   /\ Fault
<1>1. Distinct(p, hosts[p]) /\ \A a \in hosts[p] : a.host = h <=> a \in Named(p, h)
  BY HostsDistinct DEF Named
<1>2. new.id = h /\ new.host = h /\ new.on
  OBVIOUS
<1>3. \/ p \in Upsert /\ (ProxyCall(p, TRUE, upserted, ok) \/ half)
      \/ ProxyCall(p, can, renamed, ok)
  BY DEF UpdateHost
<1>4. ASSUME p \in Upsert PROVE Distinct(p, upserted) /\ Distinct(p, placed)
  <2>1. p \in HostKeyed
    BY <1>4, ProvidersAssumption
  <2> HIDE DEF new
  <2> QED BY <1>1, <1>2, <2>1 DEF Distinct
<1>5. ASSUME can PROVE Distinct(p, renamed)
  <2>1. \A y \in turned : y.id = key /\ y.host = h /\ \E x \in WithId(p, id) : y.on = x.on
    OBVIOUS
  <2>2. \A y, z \in turned : y = z
    BY <1>1 DEF Distinct, WithId
  <2>3. \A a \in hosts[p] \ WithId(p, id) : a.host # h /\ a.id # key
    <3> SUFFICES ASSUME NEW a \in hosts[p] \ WithId(p, id) PROVE a.host # h /\ a.id # key
      OBVIOUS
    <3>1. a.host # h /\ a.id # id
      BY <1>1, <1>5 DEF WithId
    <3> QED BY <1>1, <3>1 DEF Distinct
  <2>4. \A y \in turned : (p \in HostKeyed => y.id = y.host) /\ (p \notin Suspending => y.on)
    BY <1>1, <2>1 DEF Distinct, WithId
  <2> HIDE DEF turned, key
  <2> QED BY <1>1, <2>1, <2>2, <2>3, <2>4 DEF Distinct
<1>6. CASE p \in Upsert /\ ProxyCall(p, TRUE, upserted, ok)
  <2> HIDE DEF upserted
  <2> QED BY <1>4, <1>6, ProxyCallHosts
<1>7. CASE p \in Upsert /\ half
  <2>1. Distinct(p, hosts[p] \ WithId(p, id))
    BY <1>1 DEF Distinct
  <2>2. \A q \in Proxies : hosts'[q] = IF q # p THEN hosts[q]
                                       ELSE IF ok THEN placed ELSE hosts[p] \ WithId(p, id)
    BY <1>7 DEF ProvidersTypeOK
  <2> HIDE DEF placed
  <2>3. \A q \in Proxies : Distinct(q, hosts'[q])
    BY <1>4, <1>7, <2>1, <2>2, HostsDistinct
  <2> QED BY <2>3, ProvidersAssumption DEF HostsOK, Distinct
<1>8. CASE ProxyCall(p, can, renamed, ok)
  <2>1. CASE can
    <3> HIDE DEF renamed, can
    <3> QED BY <1>5, <1>8, <2>1, ProxyCallHosts
  <2>2. CASE ~can
    <3>1. UNCHANGED hosts
      <4> HIDE DEF can, renamed
      <4> QED BY <1>8, <2>2 DEF ProxyCall
    <3> QED BY <3>1 DEF HostsOK
  <2> QED BY <2>1, <2>2
<1> HIDE DEF upserted, half, can, renamed
<1> QED BY <1>3, <1>6, <1>7, <1>8

\* Nothing is held at the beginning.
LEMMA InitHosts == Init => HostsOK
BY ProvidersAssumption DEF Init, ProvidersInit, HostsOK

\* No step of a session makes a proxy mix its hosts up.
LEMMA WorkHosts ==
    ASSUME IInv, HostsOK, NEW s \in Sessions, Work(s)
    PROVE  HostsOK'
<1>1. PICK t \in NextTasks(s) :
        \/ FindHost(s, t) \/ RenewHost(s, t) \/ CreateNewHost(s, t)
        \/ ResumeHost(s, t) \/ SuspendHost(s, t) \/ ScrapHost(s, t)
        \/ SeekHost(s, t) \/ DropHost(s, t)
        \/ ReadRecord(s, t) \/ SwapRecord(s, t) \/ AddRecord(s, t)
        \/ PointRecord(s, t) \/ MoveRecord(s, t) \/ UnmoveRecord(s, t)
        \/ LookRecord(s, t) \/ QuitRecord(s, t) \/ CheckKept(s, t)
        \/ InsertRow(s, t) \/ WriteRow(s, t) \/ CommitRow(s, t) \/ Settle(s, t)
        \/ TakeLock(s, t) \/ GiveUp(s, t)
        \/ FollowExtras(s, t) \/ RemoveRow(s, t)
        \/ NextInBatch(s, t) \/ FlipPrimaries(s, t)
  BY DEF Work
<1>2. Turn(s, t)
  BY DEF Turn
<1>3. /\ ProvidersTypeOK /\ t \in Task
      /\ t.do \in OnHosts => t.at \in Proxies /\ t.host \in Hosts
      /\ t.do \in OnRecords => t.at \in Dns
  BY <1>2, TurnFacts
<1>4. CASE UNCHANGED hosts
  BY <1>4 DEF HostsOK
<1>5. CASE RenewHost(s, t)
  <2>1. t.do \in OnHosts /\ \E ok \in BOOLEAN : UpdateHost(t.at, t.id, t.host, ok)
    BY <1>5 DEF RenewHost, OnHosts
  <2> QED BY <1>3, <2>1, UpdateHostHosts
<1>6. CASE CreateNewHost(s, t)
  <2>1. t.do \in OnHosts
    BY <1>6 DEF CreateNewHost, OnHosts
  <2>2. PICK ok \in BOOLEAN, id \in IF t.at \in HostKeyed THEN {t.host} ELSE FreeIds(t.at) :
          CreateHost(t.at, t.host, id, ok)
    BY <1>6 DEF CreateNewHost
  <2>3. ASSUME t.at \notin HostKeyed, NEW a \in hosts[t.at] PROVE a.id # id
    <3> DEFINE used == {x.id : x \in hosts[t.at]}
                \cup {rows[i].hid : i \in {j \in Services : rows[j] # None}}
                \cup UNION {{ses[o].hid, ses[o].saved} \cup {u.id : u \in ses[o].todo}
                            \cup {q[2].hid : q \in ses[o].queue}
                            \cup (IF ses[o].old = None THEN {} ELSE {ses[o].old.hid})
                                : o \in Sessions}
    <3>1. id \in FreeIds(t.at) /\ a.id \in used
      BY <2>2, <2>3
    <3>2. FreeIds(t.at) = IF NumIds \ used = {} THEN {} ELSE {CHOOSE i \in NumIds \ used : TRUE}
      BY DEF FreeIds
    <3> HIDE DEF used
    <3>3. id \in NumIds \ used
      BY <3>1, <3>2
    <3> QED BY <3>1, <3>3
  <2> QED BY <1>3, <2>1, <2>2, <2>3, CreateHostHosts
<1>7. CASE ResumeHost(s, t) \/ SuspendHost(s, t)
  <2>1. \/ t.at \in Suspending /\ \E on \in BOOLEAN, ok \in BOOLEAN : ToggleHost(t.at, t.id, on, ok)
        \/ UNCHANGED hosts
    BY <1>7 DEF ResumeHost, SuspendHost, provVars
  <2> QED BY <1>3, <1>4, <2>1, ToggleHostHosts
<1>8. CASE ScrapHost(s, t) \/ DropHost(s, t)
  <2>1. t.do \in OnHosts /\ \E ok \in BOOLEAN : DeleteHost(t.at, t.id, ok)
    BY <1>8 DEF ScrapHost, DropHost, OnHosts
  <2> QED BY <1>3, <2>1, DeleteHostHosts
<1>9. CASE FindHost(s, t) \/ SeekHost(s, t) \/ ReadRecord(s, t) \/ LookRecord(s, t) \/ CheckKept(s, t)
  BY <1>4, <1>9 DEF FindHost, SeekHost, ReadRecord, LookRecord, CheckKept, Listing
<1>10. CASE SwapRecord(s, t) \/ AddRecord(s, t) \/ PointRecord(s, t) \/ MoveRecord(s, t)
            \/ UnmoveRecord(s, t) \/ QuitRecord(s, t)
  BY <1>4, <1>10 DEF SwapRecord, AddRecord, PointRecord, MoveRecord, UnmoveRecord, QuitRecord,
                     AddRewrite, DeleteRewrite, RecordCall, provVars
<1>11. CASE InsertRow(s, t) \/ WriteRow(s, t) \/ CommitRow(s, t) \/ Settle(s, t)
            \/ TakeLock(s, t) \/ GiveUp(s, t) \/ FollowExtras(s, t) \/ RemoveRow(s, t)
            \/ NextInBatch(s, t) \/ FlipPrimaries(s, t)
  BY <1>4, <1>11 DEF InsertRow, WriteRow, CommitRow, Settle, TakeLock, GiveUp, FollowExtras,
                     RemoveRow, NextInBatch, FlipPrimaries, NoCall, provVars
<1> QED BY <1>1, <1>5, <1>6, <1>7, <1>8, <1>9, <1>10, <1>11

\* And no request touches a proxy as it opens.
LEMMA NextHosts == IInv /\ HostsOK /\ [Next]_vars => HostsOK'
<1> SUFFICES ASSUME IInv, HostsOK, [Next]_vars PROVE HostsOK'
  OBVIOUS
<1>1. CASE UNCHANGED vars
  BY <1>1 DEF HostsOK, vars, provVars
<1>2. ASSUME NEW s \in Sessions, Handle(s) PROVE HostsOK'
  <2>1. UNCHANGED hosts
    BY <1>2 DEF Handle, AddService, UpdateService, DeleteService, PushService, BulkSwitch, provVars
  <2> QED BY <2>1 DEF HostsOK
<1> QED BY <1>1, <1>2, WorkHosts DEF Next

(***************************************************************************)
(* Sessions.                                                               *)
(***************************************************************************)
\* The row that an ended request answered about is in the table.
LEMMA RestGood ==
    ASSUME NEW x, NEW table, NEW held, NEW names, Good(x, table, held, names)
    PROVE  Good(Rest(x), table, held, names)
<1>1. CASE x.todo # {}
  BY <1>1 DEF Rest
<1>2. CASE x.todo = {}
  <2>1. /\ Rest(x).op = x.op /\ Rest(x).sid = x.sid /\ Rest(x).err = x.err
        /\ Rest(x).todo = {}
    BY <1>2 DEF Rest, NoSession
  <2>2. SUFFICES ASSUME Answering(x)
                 PROVE  Good(Rest(x), table, held, names)
    BY <2>1 DEF Good, Answering
  <2>3. Shape(x) /\ x.sid # None
    BY <1>2, <2>2 DEF Good, Shape
  <2>4. Shape(Rest(x)) /\ About(Rest(x), table) = About(x, table)
    BY <1>2, <2>1, <2>3 DEF Shape, About
  <2>5. \A r : Shows(x, r, held, names) => Shows(Rest(x), r, held, names)
    BY <1>2, <2>1 DEF Shows, OnTheWay, OnePerProxy
  <2> QED BY <2>2, <2>4, <2>5 DEF Good
<1> QED BY <1>1, <1>2

\* The only session steps.
LEMMA StepAnswers ==
    ASSUME Alone, SessionsOK, NEW s \in Sessions, NEW y, Advance(s, y) \/ Start(s, y),
           Good(y, rows', hosts', recs')
    PROVE  AnswersInv'
<1>1. ses'[s] = Rest(y)
  BY DEF SessionsOK, Advance, Start
<1>2. Good(ses'[s], rows', hosts', recs')
  BY <1>1, RestGood
<1>3. \A o \in Sessions : o = s
  BY DEF Alone
<1> QED BY <1>2, <1>3 DEF AnswersInv

\* Another request has nothing to answer for.
LEMMA OtherAnswers ==
    ASSUME Alone, SessionsOK, NEW s \in Sessions, NEW y, Advance(s, y) \/ Start(s, y),
           ~Answering(y)
    PROVE  AnswersInv'
BY StepAnswers DEF Good

\* A turn of a session that answers for a publication.
AnswerTurn(s, t) == /\ Turn(s, t)
                    /\ Alone /\ HostsOK /\ AnswersInv
                    /\ Answering(ses[s])

LEMMA AnswerFacts ==
    ASSUME NEW s, NEW t, AnswerTurn(s, t)
    PROVE  /\ s \in Sessions /\ SessionsOK /\ Alone /\ HostsOK /\ ProvidersTypeOK
           /\ ses[s] \in Session /\ t \in ses[s].todo /\ t \in Task
           /\ Answering(ses[s]) /\ Shape(ses[s])
           /\ Wants(About(ses[s], rows)) => Shows(ses[s], About(ses[s], rows), hosts, recs)
BY TurnFacts DEF AnswerTurn, Turn, IInv, AnswersInv, Good

(***************************************************************************)
(* A call, and what follows it.                                            *)
(***************************************************************************)
\* What may follow a call in the order of the session.
Succeeds(t, u) ==
    \/ u.do \in Calls /\ u.stage < t.stage
    \/ u.do = "journal" /\ u.stage = 0

\* What the tasks that follow t, a task for the name h, have to say for the
\* target to stay served or on its way.
Carries(t, more, h) ==
    /\ \A u \in more : Fits(u, h, hosts') /\ (u.do \in OnHosts => t.do \in OnHosts /\ u.at = t.at)
    /\ \A u, v \in more : u.do \in OnHosts /\ v.do \in OnHosts => u = v
    /\ \A p \in Proxies : (t.do \in OnHosts /\ p = t.at) \/ hosts'[p] = hosts[p]
    /\ \A d \in Dns : (t.do \in OnRecords /\ d = t.at) \/ recs'[d] = recs[d]
    /\ t.do \in OnHosts => \/ \E u \in more : u.do \in ShowHost /\ u.at = t.at
                           \/ AllOn(hosts', t.at, h)
    /\ t.do \in OnRecords => \/ \E u \in more : u.do \in ShowRecord /\ u.at = t.at
                             \/ Pointed(recs', t.at, h)

\* Then everything the row asks for is.
LEMMA CarriesShows ==
    ASSUME NEW x, NEW y, NEW r, Shows(x, r, hosts, recs),
           NEW t \in x.todo, t.do # "extras", x.todo \subseteq Task,
           r \in Row, NEW more, y.todo = (x.todo \ {t}) \cup more,
           Carries(t, more, r.host)
    PROVE  Shows(y, r, hosts', recs')
<1>1. t \in Task /\ Fits(t, r.host, hosts)
  BY DEF Shows
<1>2. /\ t.do \in OnHosts => t.do \in ShowHost
      /\ t.do \in OnRecords => t.do \in ShowRecord
      /\ t.do \in ShowHost => t.do \in OnHosts
      /\ t.do \in ShowRecord => t.do \in OnRecords
  BY <1>1 DEF Fits, OnHosts, OnRecords, ShowHost, ShowRecord
<1>3. ASSUME NEW u \in x.todo, u # t PROVE Fits(u, r.host, hosts')
  <2>1. Fits(u, r.host, hosts)
    BY DEF Shows
  <2>2. u.do = "resume" => hosts'[u.at] = hosts[u.at]
    <3> SUFFICES ASSUME u.do = "resume" PROVE hosts'[u.at] = hosts[u.at]
      OBVIOUS
    <3>1. u.do \in OnHosts /\ u.at \in Proxies
      BY <2>1, ProvidersAssumption DEF Fits, OnHosts
    <3>2. ~(t.do \in OnHosts /\ u.at = t.at)
      BY <1>3, <3>1 DEF Shows, OnePerProxy
    <3> QED BY <3>1, <3>2 DEF Carries
  <2> QED BY <2>1, <2>2 DEF Fits
<1>4. \A u \in y.todo : Fits(u, r.host, hosts')
  BY <1>3 DEF Carries
<1>5. OnePerProxy(y.todo)
  <2> SUFFICES ASSUME NEW u \in y.todo, NEW v \in y.todo,
                      u.do \in OnHosts, v.do \in OnHosts, u.at = v.at
               PROVE  u = v
    BY DEF OnePerProxy
  <2>1. OnePerProxy(x.todo)
    BY DEF Shows
  <2>2. CASE u \in more /\ v \in more
    BY <2>2 DEF Carries
  <2>3. CASE u \in more /\ v \notin more
    BY <2>1, <2>3 DEF Carries, OnePerProxy
  <2>4. CASE u \notin more /\ v \in more
    BY <2>1, <2>4 DEF Carries, OnePerProxy
  <2>5. CASE u \notin more /\ v \notin more
    BY <2>1, <2>5 DEF OnePerProxy
  <2> QED BY <2>2, <2>3, <2>4, <2>5
<1>6. ASSUME NEW p \in ProxiesOf(r)
      PROVE  OnTheWay(y, ShowHost, p, r.xproxies) \/ AllOn(hosts', p, r.host)
  <2>1. p \in Proxies
    BY DEF ProxiesOf, Some, Row
  <2>2. OnTheWay(x, ShowHost, p, r.xproxies) \/ AllOn(hosts, p, r.host)
    BY DEF Shows
  <2>3. CASE t.do \in OnHosts /\ p = t.at
    BY <1>2, <2>3 DEF Carries, OnTheWay
  <2>4. CASE ~(t.do \in OnHosts /\ p = t.at)
    <3>1. hosts'[p] = hosts[p]
      BY <2>1, <2>4 DEF Carries
    <3>2. AllOn(hosts, p, r.host) => AllOn(hosts', p, r.host)
      BY <3>1 DEF AllOn
    <3>3. OnTheWay(x, ShowHost, p, r.xproxies) => OnTheWay(y, ShowHost, p, r.xproxies)
      BY <1>2, <2>4 DEF OnTheWay
    <3> QED BY <2>2, <3>2, <3>3
  <2> QED BY <2>3, <2>4
<1>7. ASSUME NEW d \in DnsOf(r)
      PROVE  OnTheWay(y, ShowRecord, d, r.xdns) \/ Pointed(recs', d, r.host)
  <2>1. d \in Dns
    BY DEF DnsOf, Some, Row
  <2>2. OnTheWay(x, ShowRecord, d, r.xdns) \/ Pointed(recs, d, r.host)
    BY DEF Shows
  <2>3. CASE t.do \in OnRecords /\ d = t.at
    BY <1>2, <2>3 DEF Carries, OnTheWay
  <2>4. CASE ~(t.do \in OnRecords /\ d = t.at)
    <3>1. recs'[d] = recs[d]
      BY <2>1, <2>4 DEF Carries
    <3>2. Pointed(recs, d, r.host) => Pointed(recs', d, r.host)
      BY <3>1 DEF Pointed
    <3>3. OnTheWay(x, ShowRecord, d, r.xdns) => OnTheWay(y, ShowRecord, d, r.xdns)
      BY <1>2, <2>4 DEF OnTheWay
    <3> QED BY <2>2, <3>2, <3>3
  <2> QED BY <2>3, <2>4
<1> QED BY <1>4, <1>5, <1>6, <1>7 DEF Shows

\* The order of the session's tasks outlives a call.
LEMMA CallShape ==
    ASSUME NEW x, Shape(x), x.todo \subseteq Task, NEW t \in x.todo, t.do \in Calls,
           NEW y, y.op = x.op, y.sid = x.sid,
           NEW more \in SUBSET Task, y.todo = (x.todo \ {t}) \cup more,
           \A u \in more : Succeeds(t, u)
    PROVE  Shape(y)
<1>1. /\ \A u \in more : u.do \in Calls \cup {"journal"}
      /\ \A u \in Calls \cup {"journal"} : u \notin {"insert", "extras"}
  BY DEF Succeeds, Calls, OnHosts, OnRecords
<1>2. \A u \in y.todo : u.do \in {"insert", "extras"} => u \in x.todo \ {t}
  BY <1>1
<1>3. \A u \in x.todo : u.do = "insert" => u \in y.todo
  BY <1>1
<1>4. ASSUME NEW e \in y.todo, e.do = "extras", NEW v \in y.todo, v # e
      PROVE  v.stage < e.stage
  <2>1. e \in x.todo /\ e # t /\ e.stage > 0 /\ t.stage < e.stage
    BY <1>2, <1>4 DEF Shape
  <2>2. CASE v \in x.todo
    BY <1>4, <2>1, <2>2 DEF Shape
  <2>3. CASE v \in more
    <3>1. v.stage \in Int /\ t.stage \in Int /\ e.stage \in Int
      BY <2>1, <2>3 DEF Task
    <3>2. v.stage < t.stage \/ v.stage = 0
      BY <2>3 DEF Succeeds
    <3> QED BY <2>1, <3>1, <3>2
  <2> QED BY <2>2, <2>3
<1>5. \A u \in y.todo : u.do \in Calls \cup {"insert", "extras", "aim", "settle", "journal"}
  BY <1>1 DEF Shape
<1>6. y.op = "push" => y.sid \in Services /\ \A u \in y.todo : u.do \notin {"insert", "extras"}
  BY <1>2 DEF Shape
<1>7. y.sid = None => \E u \in y.todo : u.do = "insert"
  BY <1>3 DEF Shape
<1>8. \A u, v \in y.todo : u.do = "insert" => y.sid = None /\ (v.do = "insert" => u = v)
  BY <1>2 DEF Shape
<1>9. \A u \in y.todo : u.do = "extras" => u.stage > 0
  BY <1>2 DEF Shape
<1> QED BY <1>4, <1>5, <1>6, <1>7, <1>8, <1>9 DEF Shape

\* The row a session is about is a row, or is not there.
LEMMA AboutRow ==
    ASSUME NEW s, NEW t, Turn(s, t), Shape(ses[s])
    PROVE  About(ses[s], rows) \in Row \cup {None}
<1>1. ses[s] \in Session /\ rows \in [Services -> Row \cup {None}]
  BY TurnFacts, TurnTypes
<1> QED BY <1>1 DEF About, Session

\* A call that carries its target on leaves the session with something good to answer.
LEMMA CallGood ==
    ASSUME NEW s, NEW t, AnswerTurn(s, t), t.do \in Calls, UNCHANGED rows,
           NEW y, Advance(s, y), y.op = ses[s].op, y.sid = ses[s].sid, y.new = ses[s].new,
           NEW more \in SUBSET Task, y.todo = (ses[s].todo \ {t}) \cup more,
           \A u \in more : Succeeds(t, u),
           Wants(About(ses[s], rows)) => Carries(t, more, About(ses[s], rows).host)
    PROVE  AnswersInv'
<1> DEFINE x == ses[s]
           r == About(x, rows)
<1>1. /\ s \in Sessions /\ SessionsOK /\ Alone /\ x \in Session /\ t \in x.todo /\ Shape(x)
      /\ Wants(r) => Shows(x, r, hosts, recs)
  BY AnswerFacts
<1>2. x.todo \subseteq Task /\ t.do # "extras"
  BY <1>1 DEF Session, Calls, OnHosts, OnRecords
<1>3. Shape(y)
  BY <1>1, <1>2, CallShape
<1>4. About(y, rows') = r
  BY DEF About
<1>5. r \in Row \cup {None}
  BY <1>1, AboutRow DEF AnswerTurn
<1> HIDE DEF r, x
<1>6. Wants(r) => Shows(y, r, hosts', recs')
  <2> SUFFICES ASSUME Wants(r) PROVE Shows(y, r, hosts', recs')
    OBVIOUS
  <2>1. r \in Row
    BY <1>5 DEF Wants
  <2>2. Shows(x, r, hosts, recs)
    BY <1>1
  <2>3. Carries(t, more, r.host)
    BY DEF r, x
  <2>4. y.todo = (x.todo \ {t}) \cup more
    BY DEF x
  <2> QED BY <1>1, <1>2, <2>1, <2>2, <2>3, <2>4, CarriesShows
<1>7. Good(y, rows', hosts', recs')
  BY <1>3, <1>4, <1>6 DEF Good
<1> QED BY <1>1, <1>7, StepAnswers

\* So does the answer of a provider, journalled at once or later; a refusal
\* is told.
LEMMA ReplyGood ==
    ASSUME NEW s, NEW t, AnswerTurn(s, t), t.do \in Calls, UNCHANGED rows,
           NEW ok, NEW good \in Session, good.op = ses[s].op, good.sid = ses[s].sid,
           good.new = ses[s].new,
           NEW more \in SUBSET Task, good.todo = (ses[s].todo \ {t}) \cup more,
           \A u \in more : Succeeds(t, u),
           ok /\ Wants(About(ses[s], rows)) => Carries(t, more, About(ses[s], rows).host),
           NEW carried, Reply(s, t, ok, good, carried)
    PROVE  AnswersInv'
<1> DEFINE x       == ses[s]
           j       == Then("journal", 0)
           bad     == [Over(x, t, {}) EXCEPT !.err = TRUE]
           next    == IF ok THEN good ELSE bad
           delayed == [next EXCEPT !.todo = @ \cup {j}]
           more2   == more \cup {j}
<1>1. s \in Sessions /\ SessionsOK /\ Alone /\ x \in Session
  BY AnswerFacts
<1>2. bad \in Session /\ bad.err = TRUE
  BY <1>1 DEF Over, Session
<1>3. Advance(s, delayed) \/ Advance(s, next)
  BY DEF Reply
<1>4. CASE ~ok
  <2>1. ~Answering(next) /\ ~Answering(delayed)
    <3>1. next = bad
      BY <1>4
    <3> HIDE DEF next, bad
    <3>2. next.err /\ delayed.err
      BY <1>2, <3>1 DEF Session
    <3> QED BY <3>2 DEF Answering
  <2> HIDE DEF next, delayed
  <2> QED BY <1>1, <1>3, <2>1, OtherAnswers
<1>5. CASE ok /\ Advance(s, next)
  <2>1. next = good
    BY <1>5
  <2> HIDE DEF next
  <2> QED BY <1>5, <2>1, CallGood
<1>6. CASE ok /\ Advance(s, delayed)
  <2>1. next = good
    BY <1>6
  <2>2. /\ j \in Task /\ j.do = "journal" /\ j.stage = 0
    BY ThenTask DEF Decisions
  <2> HIDE DEF next, j
  <2>3. /\ delayed.op = x.op /\ delayed.sid = x.sid /\ delayed.new = x.new
        /\ delayed.todo = (x.todo \ {t}) \cup more2
    BY <2>1 DEF Session
  <2>4. \A u \in more2 : Succeeds(t, u)
    BY <2>2 DEF Succeeds
  <2>5. ASSUME Wants(About(x, rows)) PROVE Carries(t, more2, About(x, rows).host)
    <3>1. Carries(t, more, About(x, rows).host)
      BY <1>6, <2>5
    <3>2. "journal" \notin OnHosts \cup OnRecords
      BY DEF OnHosts, OnRecords
    <3>3. Fits(j, About(x, rows).host, hosts') /\ j.do \notin OnHosts
      BY <2>2, <3>2 DEF Fits
    <3> QED BY <3>1, <3>3 DEF Carries
  <2>6. more2 \in SUBSET Task
    BY <2>2
  <2> HIDE DEF delayed, more2
  <2> QED BY <1>6, <2>3, <2>4, <2>5, <2>6, CallGood
<1> QED BY <1>3, <1>4, <1>5, <1>6

\* An answered call and what follows it.
LEMMA FollowGood ==
    ASSUME NEW s, NEW t, AnswerTurn(s, t), t.do \in Calls,
           NEW ok, NEW more \in SUBSET Task, \A u \in more : Succeeds(t, u),
           ok /\ Wants(About(ses[s], rows)) => Carries(t, more, About(ses[s], rows).host),
           Answered(s, t, ok, Over(ses[s], t, more))
    PROVE  AnswersInv'
<1> DEFINE y == Over(ses[s], t, more)
<1>1. /\ y \in Session /\ y.new = ses[s].new /\ y.op = ses[s].op /\ y.sid = ses[s].sid
      /\ y.todo = (ses[s].todo \ {t}) \cup more
  BY AnswerFacts DEF Over, Session
<1>2. Reply(s, t, ok, y, {}) /\ UNCHANGED rows
  BY DEF Answered
<1> HIDE DEF y
<1> QED BY <1>1, <1>2, ReplyGood

\* A call after which the session only notes the id of its host.
LEMMA NotedGood ==
    ASSUME NEW s, NEW t, AnswerTurn(s, t), t.do \in Calls, UNCHANGED rows,
           NEW ok, NEW more \in SUBSET Task, \A u \in more : Succeeds(t, u),
           ok /\ Wants(About(ses[s], rows)) => Carries(t, more, About(ses[s], rows).host),
           NEW hid \in Ids \cup {None}, NEW carried,
           Reply(s, t, ok, [Over(ses[s], t, more) EXCEPT !.hid = hid], carried)
    PROVE  AnswersInv'
<1> DEFINE y == [Over(ses[s], t, more) EXCEPT !.hid = hid]
<1>1. /\ y \in Session /\ y.new = ses[s].new /\ y.op = ses[s].op /\ y.sid = ses[s].sid
      /\ y.todo = (ses[s].todo \ {t}) \cup more
  BY AnswerFacts DEF Over, Session
<1> HIDE DEF y
<1>2. Reply(s, t, ok, y, carried)
  BY DEF y
<1> QED BY <1>1, <1>2, ReplyGood

\* What After makes of a call comes next in order, at the same target.
LEMMA AfterCall ==
    ASSUME NEW t \in Task, NEW do \in Calls, NEW id \in Ids \cup Ips \cup {None}, do # "look",
           do \in OnHosts => t.do \in OnHosts,
           do \in OnRecords => t.do \in OnRecords,
           do \in ById => id \in Ids,
           do \in Removes => id \in Ips,
           do \in Publishes => t.ip \in Ips
    PROVE  /\ After(t, do, id) \in Task
           /\ Succeeds(t, After(t, do, id))
           /\ After(t, do, id).do = do /\ After(t, do, id).at = t.at
           /\ After(t, do, id).host = t.host /\ After(t, do, id).id = id
           /\ After(t, do, id).stage = t.stage - 1
<1>1. do \in OnHosts \cup OnRecords /\ do \notin {"point", "move"}
  BY DEF Calls
<1>2. /\ After(t, do, id) \in Plain /\ After(t, do, id).do = do
      /\ After(t, do, id).at = t.at /\ After(t, do, id).id = id
  BY <1>1, AfterFields
<1>3. After(t, do, id).host = t.host /\ After(t, do, id).stage = t.stage - 1 /\ t.stage \in Int
  BY DEF After, Task
<1> QED BY <1>2, <1>3 DEF Plain, Succeeds

\* What a task of a publication knows of itself.
LEMMA FitsFacts ==
    ASSUME NEW s, NEW t, AnswerTurn(s, t), t.do \in Calls, Wants(About(ses[s], rows))
    PROVE  /\ t.do \in ShowHost \cup ShowRecord
           /\ t.host = About(ses[s], rows).host
           /\ Fits(t, About(ses[s], rows).host, hosts)
<1>1. Fits(t, About(ses[s], rows).host, hosts)
  BY AnswerFacts DEF Shows
<1> QED BY <1>1 DEF Fits, Calls

(***************************************************************************)
(* The calls of a publication.                                             *)
(***************************************************************************)
\* The name that is found is updated, the one that is not is created.
LEMMA FindHostGood ==
    ASSUME NEW s, NEW t, AnswerTurn(s, t), FindHost(s, t)
    PROVE  AnswersInv'
<1> DEFINE more == IF Named(t.at, t.host) = {} THEN {After(t, "create", None)}
                   ELSE {After(t, "renew", x.id) : x \in Named(t.at, t.host)}
           r == About(ses[s], rows)
<1>1. /\ t.do = "find" /\ t.do \in OnHosts /\ t.do \in Calls /\ t.do \notin OnRecords
      /\ t \in Task /\ t.at \in Proxies /\ Turn(s, t)
  BY TurnFacts DEF FindHost, OnHosts, OnRecords, Calls, AnswerTurn
<1>2. PICK ok \in BOOLEAN : Answered(s, t, ok, Over(ses[s], t, more)) /\ UNCHANGED <<hosts, recs>>
  BY DEF FindHost, Listing
<1>3. /\ After(t, "create", None) \in Task /\ Succeeds(t, After(t, "create", None))
      /\ After(t, "create", None).do = "create" /\ After(t, "create", None).at = t.at
      /\ After(t, "create", None).host = t.host
  BY <1>1, AfterCall DEF OnHosts, OnRecords, ById, Removes, Publishes, Calls
<1>4. ASSUME NEW x \in Named(t.at, t.host)
      PROVE  /\ After(t, "renew", x.id) \in Task /\ Succeeds(t, After(t, "renew", x.id))
             /\ After(t, "renew", x.id).do = "renew" /\ After(t, "renew", x.id).at = t.at
             /\ After(t, "renew", x.id).host = t.host /\ After(t, "renew", x.id).id = x.id
             /\ After(t, "renew", x.id).stage = t.stage - 1
  <2>1. x.id \in Ids
    BY <1>1, HostIds, TurnFacts DEF Named
  <2> QED BY <1>1, <2>1, AfterCall DEF OnHosts, OnRecords, ById, Removes, Publishes, Calls
<1>5. more \in SUBSET Task /\ \A u \in more : Succeeds(t, u)
  BY <1>3, <1>4
<1>6. ASSUME Wants(r) PROVE Carries(t, more, r.host)
  <2>1. t.host = r.host /\ t.stage > 90 /\ t.stage \in Int
    BY <1>1, <1>6, FitsFacts DEF Fits, Task
  <2>2. "create" \in OnHosts /\ "renew" \in OnHosts
        /\ "create" \in ShowHost /\ "renew" \in ShowHost
    BY DEF OnHosts, ShowHost
  <2>3. CASE Named(t.at, t.host) = {}
    <3>1. Fits(After(t, "create", None), r.host, hosts')
      BY <1>3, <2>1, <2>2 DEF Fits
    <3> QED BY <1>1, <1>2, <1>3, <2>2, <2>3, <3>1 DEF Carries
  <2>4. CASE Named(t.at, t.host) # {}
    <3>1. PICK x \in Named(t.at, t.host) : TRUE
      BY <2>4
    <3>2. \A z \in Named(t.at, t.host) : z = x
      BY <1>1, AnswerFacts DEF Named, HostsOK
    <3>3. more = {After(t, "renew", x.id)}
      BY <2>4, <3>1, <3>2
    <3>4. t.at \in HostKeyed => x.id = t.host
      BY <1>1, AnswerFacts DEF HostsOK, Named
    <3>5. Fits(After(t, "renew", x.id), r.host, hosts')
      BY <1>4, <2>1, <2>2, <3>4 DEF Fits
    <3> HIDE DEF more, r
    <3> QED BY <1>1, <1>2, <1>4, <2>2, <3>3, <3>5 DEF Carries
  <2> QED BY <2>3, <2>4
<1> HIDE DEF more
<1> QED BY <1>1, <1>2, <1>5, <1>6, FollowGood

\* A host that is created is served.
LEMMA CreateNewHostGood ==
    ASSUME NEW s, NEW t, AnswerTurn(s, t), CreateNewHost(s, t)
    PROVE  AnswersInv'
<1> DEFINE r == About(ses[s], rows)
<1>1. /\ t.do = "create" /\ t.do \in OnHosts /\ t.do \in Calls /\ t.do \notin OnRecords
      /\ t \in Task /\ t.at \in Proxies /\ t.host \in Hosts /\ Turn(s, t)
  BY TurnFacts DEF CreateNewHost, OnHosts, OnRecords, Calls, AnswerTurn
<1>2. PICK ok \in BOOLEAN, id \in IF t.at \in HostKeyed THEN {t.host} ELSE FreeIds(t.at) :
        /\ CreateHost(t.at, t.host, id, ok)
        /\ Answered(s, t, ok, [Over(ses[s], t, {}) EXCEPT
               !.hid = IF t.at = ses[s].new.proxy THEN id ELSE @,
               !.sent = Went(ses[s], t.at)])
  BY DEF CreateNewHost
<1>3. id \in Ids
  BY <1>1 DEF FreeIds, Ids
<1> DEFINE hid == IF t.at = ses[s].new.proxy THEN id ELSE Over(ses[s], t, {}).hid
<1>4. hid \in Ids \cup {None}
  <2>1. Over(ses[s], t, {}).hid \in Ids \cup {None}
    BY AnswerFacts DEF Over, Session
  <2> QED BY <1>3, <2>1
<1> DEFINE y == [Over(ses[s], t, {}) EXCEPT !.hid = hid, !.sent = Went(ses[s], t.at)]
<1>5. Reply(s, t, ok, y, {}) /\ UNCHANGED rows
  BY <1>2 DEF Answered
<1>6. ASSUME ok, Wants(r) PROVE Carries(t, {}, r.host)
  <2> DEFINE new == [id |-> id, host |-> t.host, on |-> TRUE]
             after == (hosts[t.at] \ Named(t.at, t.host)) \cup {new}
  <2>1. t.host = r.host
    BY <1>1, <1>6, FitsFacts
  <2>2. UNCHANGED recs /\ hosts' = [hosts EXCEPT ![t.at] = after]
    BY <1>2, <1>6 DEF CreateHost, ProxyCall
  <2>3. \A p \in Proxies : hosts'[p] = IF p = t.at THEN after ELSE hosts[p]
    BY <2>2, AnswerFacts DEF ProvidersTypeOK
  <2>4. AllOn(hosts', t.at, t.host)
    <3>1. new.host = t.host /\ new.on
      OBVIOUS
    <3>2. \A a \in after : a.host = t.host => a = new
      BY DEF Named
    <3> HIDE DEF new
    <3> QED BY <1>1, <2>3, <3>1, <3>2 DEF AllOn
  <2> HIDE DEF after, r
  <2> QED BY <1>1, <2>1, <2>2, <2>3, <2>4 DEF Carries
<1> HIDE DEF hid, r
<1>7. ok /\ Wants(About(ses[s], rows)) => Carries(t, {}, About(ses[s], rows).host)
  BY <1>6 DEF r
<1>8. /\ y \in Session /\ y.new = ses[s].new /\ y.op = ses[s].op /\ y.sid = ses[s].sid
      /\ y.todo = (ses[s].todo \ {t}) \cup {}
  <2>1. ses[s] \in Session /\ t.at \in Proxies \cup Dns
    BY <1>1, TurnFacts
  <2> DEFINE sent == Went(ses[s], t.at)
             z    == [Over(ses[s], t, {}) EXCEPT !.hid = hid, !.sent = sent]
  <2>2. sent \in SUBSET (Proxies \cup Dns)
    BY <2>1, WentNames
  <2> HIDE DEF sent
  <2>3. /\ z \in Session /\ z.new = ses[s].new /\ z.op = ses[s].op /\ z.sid = ses[s].sid
        /\ z.todo = (ses[s].todo \ {t}) \cup {}
    BY <1>4, <2>1, <2>2 DEF Over, Session
  <2>4. y = z
    BY DEF sent
  <2> HIDE DEF y, z
  <2> QED BY <2>3, <2>4
<1>9. {} \in SUBSET Task /\ \A u \in {} : Succeeds(t, u)
  OBVIOUS
<1> HIDE DEF y
<1> QED BY <1>1, <1>5, <1>7, <1>8, <1>9, ReplyGood

\* An update that is carried out leaves one host under the name, which a
\* proxy that suspends hosts may still hold suspended.
LEMMA UpdatedHost ==
    ASSUME ProvidersTypeOK, HostsOK, NEW p \in Proxies, NEW h \in Hosts, NEW id,
           p \in HostKeyed => id = h, UpdateHost(p, id, h, TRUE)
    PROVE  /\ UNCHANGED recs
           /\ \A q \in Proxies : q = p \/ hosts'[q] = hosts[q]
           /\ \E a \in hosts'[p] : a.host = h /\ a.id = id
           /\ p \notin Suspending => AllOn(hosts', p, h)
<1> DEFINE new == [id |-> h, host |-> h, on |-> TRUE]
           upserted == (hosts[p] \ (WithId(p, id) \cup Named(p, h))) \cup {new}
           key == IF p \in HostKeyed THEN h ELSE id
           turned == {[id |-> key, host |-> h, on |-> x.on] : x \in WithId(p, id)}
           renamed == (hosts[p] \ WithId(p, id)) \cup turned
           placed == (hosts[p] \ Named(p, h)) \cup {new}
           can == WithId(p, id) # {} /\ Named(p, h) \subseteq WithId(p, id)
<1>1. new.id = h /\ new.host = h /\ new.on = TRUE
  OBVIOUS
<1>2. CASE p \in Upsert
  <2>1. p \in HostKeyed /\ id = h
    BY <1>2, ProvidersAssumption
  <2>2. /\ UNCHANGED recs
        /\ hosts' = [hosts EXCEPT ![p] = upserted] \/ hosts' = [hosts EXCEPT ![p] = placed]
    BY <1>2 DEF UpdateHost, ProxyCall
  <2>3. \A a \in upserted \cup placed : a.host = h => a = new
    BY DEF Named
  <2>4. new \in upserted /\ new \in placed
    OBVIOUS
  <2> HIDE DEF new, upserted, placed
  <2>5. hosts'[p] \in {upserted, placed} /\ \A q \in Proxies : q = p \/ hosts'[q] = hosts[q]
    BY <2>2 DEF ProvidersTypeOK
  <2> QED BY <1>1, <2>1, <2>2, <2>3, <2>4, <2>5 DEF AllOn
<1>3. CASE p \notin Upsert
  <2>1. ProxyCall(p, can, renamed, TRUE)
    BY <1>3 DEF UpdateHost
  <2>2. UNCHANGED recs /\ can /\ hosts' = [hosts EXCEPT ![p] = renamed]
    <3> HIDE DEF can, renamed
    <3> QED BY <2>1 DEF ProxyCall
  <2>3. hosts'[p] = renamed /\ \A q \in Proxies : q = p \/ hosts'[q] = hosts[q]
    BY <2>2 DEF ProvidersTypeOK
  <2>4. PICK x \in WithId(p, id) : TRUE
    BY <2>2
  <2>5. [id |-> key, host |-> h, on |-> x.on] \in renamed /\ key = id
    BY <2>4
  <2>6. \A a \in renamed : a.host = h => \E z \in WithId(p, id) : a.on = z.on
    BY <2>2 DEF Named
  <2>7. p \notin Suspending => \A z \in WithId(p, id) : z.on
    BY DEF WithId, HostsOK
  <2> HIDE DEF renamed, key
  <2>8. \E a \in hosts'[p] : a.host = h /\ a.id = id
    BY <2>3, <2>5
  <2>9. p \notin Suspending => AllOn(hosts', p, h)
    BY <2>3, <2>5, <2>6, <2>7 DEF AllOn
  <2> QED BY <2>2, <2>3, <2>8, <2>9
<1> QED BY <1>2, <1>3

\* It is resumed where that can be, and served where it cannot.
LEMMA RenewHostGood ==
    ASSUME NEW s, NEW t, AnswerTurn(s, t), RenewHost(s, t)
    PROVE  AnswersInv'
<1> DEFINE more == IF Resumes(t) THEN {After(t, "resume", t.id)} ELSE {}
           hid  == IF t.at # ses[s].new.proxy THEN Over(ses[s], t, more).hid
                   ELSE IF t.at \in HostKeyed THEN t.host ELSE t.id
           was  == {x.host : x \in WithId(t.at, t.id)}
           carried == IF ({t.at} \X was) \cap reported = {} THEN {} ELSE {<<t.at, t.host>>}
           r == About(ses[s], rows)
<1>1. /\ t.do = "renew" /\ t.do \in OnHosts /\ t.do \in Calls /\ t.do \notin OnRecords
      /\ t \in Task /\ t.at \in Proxies /\ t.host \in Hosts /\ t.id \in Ids /\ Turn(s, t)
  BY TurnFacts DEF RenewHost, OnHosts, OnRecords, ById, Calls, AnswerTurn
<1>2. PICK ok \in BOOLEAN : /\ UpdateHost(t.at, t.id, t.host, ok)
                            /\ Reply(s, t, ok, [Over(ses[s], t, more) EXCEPT !.hid = hid], carried)
  BY DEF RenewHost
<1>3. UNCHANGED rows
  BY DEF RenewHost
<1>4. /\ After(t, "resume", t.id) \in Task /\ Succeeds(t, After(t, "resume", t.id))
      /\ After(t, "resume", t.id).do = "resume" /\ After(t, "resume", t.id).at = t.at
      /\ After(t, "resume", t.id).host = t.host /\ After(t, "resume", t.id).id = t.id
  BY <1>1, AfterCall DEF OnHosts, OnRecords, ById, Removes, Publishes, Calls
<1>5. more \in SUBSET Task /\ \A u \in more : Succeeds(t, u)
  BY <1>4
<1>6. ASSUME ok, Wants(r) PROVE Carries(t, more, r.host)
  <2>1. t.host = r.host /\ t.stage >= 90 /\ (t.at \in HostKeyed => t.id = t.host)
    BY <1>1, <1>6, FitsFacts DEF Fits
  <2>2. UpdateHost(t.at, t.id, t.host, TRUE)
    BY <1>2, <1>6
  <2>3. /\ UNCHANGED recs
        /\ \A q \in Proxies : q = t.at \/ hosts'[q] = hosts[q]
        /\ \E a \in hosts'[t.at] : a.host = t.host /\ a.id = t.id
        /\ t.at \notin Suspending => AllOn(hosts', t.at, t.host)
    BY <1>1, <2>1, <2>2, AnswerFacts, UpdatedHost
  <2>4. CASE t.at \in Suspending
    <3>1. more = {After(t, "resume", t.id)}
      BY <2>1, <2>4 DEF Resumes
    <3>2. "resume" \in OnHosts /\ "resume" \in ShowHost
      BY DEF OnHosts, ShowHost
    <3>3. Fits(After(t, "resume", t.id), r.host, hosts')
      BY <1>4, <2>1, <2>3, <2>4, <3>2 DEF Fits
    <3> HIDE DEF more, r
    <3> QED BY <1>1, <1>4, <2>3, <3>1, <3>2, <3>3 DEF Carries
  <2>5. CASE t.at \notin Suspending
    <3>1. more = {}
      BY <2>5 DEF Resumes
    <3> HIDE DEF more, r
    <3> QED BY <1>1, <2>1, <2>3, <2>5, <3>1 DEF Carries
  <2> QED BY <2>4, <2>5
<1> HIDE DEF more
<1>7. hid \in Ids \cup {None}
  <2>1. Over(ses[s], t, more).hid \in Ids \cup {None}
    BY AnswerFacts DEF Over, Session
  <2> QED BY <1>1, <2>1 DEF Ids
<1> HIDE DEF hid, carried
<1> QED BY <1>1, <1>2, <1>3, <1>5, <1>6, <1>7, NotedGood

\* A host that is resumed is served.
LEMMA ResumeHostGood ==
    ASSUME NEW s, NEW t, AnswerTurn(s, t), ResumeHost(s, t)
    PROVE  AnswersInv'
<1> DEFINE r == About(ses[s], rows)
<1>1. /\ t.do = "resume" /\ t.do \in OnHosts /\ t.do \in Calls /\ t.do \notin OnRecords
      /\ t \in Task /\ t.at \in Proxies /\ t.host \in Hosts /\ t.id \in Ids /\ Turn(s, t)
  BY TurnFacts DEF ResumeHost, OnHosts, OnRecords, ById, Calls, AnswerTurn
<1>2. PICK ok \in BOOLEAN : /\ t.at \in Suspending => ToggleHost(t.at, t.id, TRUE, ok)
                            /\ Answered(s, t, ok, Over(ses[s], t, {}))
  BY DEF ResumeHost
<1>3. ASSUME ok, Wants(r) PROVE Carries(t, {}, r.host)
  <2> DEFINE after == (hosts[t.at] \ WithId(t.at, t.id))
                      \cup {[x EXCEPT !.on = TRUE] : x \in WithId(t.at, t.id)}
  <2>1. t.host = r.host /\ t.at \in Suspending
    BY <1>1, <1>3, FitsFacts DEF Fits
  <2>2. PICK a \in hosts[t.at] : a.id = t.id /\ a.host = t.host
    BY <1>1, <1>3, FitsFacts DEF Fits
  <2>3. UNCHANGED recs /\ hosts' = [hosts EXCEPT ![t.at] = after]
    BY <1>2, <1>3, <2>1 DEF ToggleHost, ProxyCall
  <2>4. \A p \in Proxies : hosts'[p] = IF p = t.at THEN after ELSE hosts[p]
    BY <2>3, AnswerFacts DEF ProvidersTypeOK
  <2>5. AllOn(hosts', t.at, t.host)
    <3>1. \A b \in hosts[t.at] : b.id = t.id \/ b.host = t.host => b = a
      BY <1>1, <2>2, AnswerFacts DEF HostsOK
    <3>2. WithId(t.at, t.id) = {a}
      BY <2>2, <3>1 DEF WithId
    <3>3. after = (hosts[t.at] \ {a}) \cup {[a EXCEPT !.on = TRUE]}
      BY <3>2
    <3>4. [a EXCEPT !.on = TRUE].host = t.host /\ [a EXCEPT !.on = TRUE].on = TRUE
      <4>1. a \in Host
        BY <1>1, AnswerFacts DEF ProvidersTypeOK
      <4> QED BY <2>2, <4>1 DEF Host
    <3> HIDE DEF after
    <3> QED BY <1>1, <2>4, <3>1, <3>3, <3>4, ZenonT(60) DEF AllOn
  <2> HIDE DEF after, r
  <2> QED BY <1>1, <2>1, <2>3, <2>4, <2>5 DEF Carries
<1>4. {} \in SUBSET Task /\ \A u \in {} : Succeeds(t, u)
  OBVIOUS
<1> QED BY <1>1, <1>2, <1>3, <1>4, FollowGood

\* A record that is read is the one to publish, or is swapped, or is added.
LEMMA ReadRecordGood ==
    ASSUME NEW s, NEW t, AnswerTurn(s, t), ReadRecord(s, t)
    PROVE  AnswersInv'
<1> DEFINE r == About(ses[s], rows)
<1>1. /\ t.do = "read" /\ t.do \in OnRecords /\ t.do \in Calls /\ t.do \notin OnHosts
      /\ t \in Task /\ t.at \in Dns /\ t.ip \in Ips /\ Turn(s, t)
  BY TurnFacts DEF ReadRecord, OnHosts, OnRecords, Publishes, Calls, AnswerTurn
<1>2. UNCHANGED <<hosts, recs>>
  BY DEF ReadRecord, Listing
<1>3. "add" \notin OnHosts /\ "swap" \notin OnHosts /\ "add" \in ShowRecord /\ "swap" \in ShowRecord
  BY DEF OnHosts, ShowRecord
<1>4. ASSUME NEW do \in {"add", "swap"}, NEW id, After(t, do, id).do = do,
             After(t, do, id).at = t.at, After(t, do, id).host = t.host, Wants(r)
      PROVE  Carries(t, {After(t, do, id)}, r.host)
  <2>1. t.host = r.host
    BY <1>1, <1>4, FitsFacts
  <2>2. Fits(After(t, do, id), r.host, hosts')
    BY <1>3, <1>4, <2>1 DEF Fits
  <2> HIDE DEF r
  <2> QED BY <1>1, <1>2, <1>3, <1>4, <2>2 DEF Carries
<1>5. CASE Answered(s, t, FALSE, ses[s])
  <2>1. Advance(s, [Over(ses[s], t, {}) EXCEPT !.err = TRUE])
        \/ Advance(s, [[Over(ses[s], t, {}) EXCEPT !.err = TRUE]
                          EXCEPT !.todo = @ \cup {Then("journal", 0)}])
    BY <1>5 DEF Answered, Reply
  <2>2. /\ [Over(ses[s], t, {}) EXCEPT !.err = TRUE].err
        /\ [[Over(ses[s], t, {}) EXCEPT !.err = TRUE] EXCEPT !.todo = @ \cup {Then("journal", 0)}].err
    <3>1. [Over(ses[s], t, {}) EXCEPT !.err = TRUE] \in Session
      BY AnswerFacts DEF Over, Session
    <3>2. [Over(ses[s], t, {}) EXCEPT !.err = TRUE].err
      BY AnswerFacts DEF Over, Session
    <3> QED BY <3>1, <3>2 DEF Session
  <2> QED BY <2>1, <2>2, AnswerFacts, OtherAnswers DEF Answering
<1>6. CASE Answered(s, t, TRUE, Over(ses[s], t, {After(t, "add", None)}))
  <2>1. /\ After(t, "add", None) \in Task /\ Succeeds(t, After(t, "add", None))
        /\ After(t, "add", None).do = "add" /\ After(t, "add", None).at = t.at
        /\ After(t, "add", None).host = t.host
    BY <1>1, AfterCall DEF OnHosts, OnRecords, ById, Removes, Publishes, Calls
  <2>2. Wants(r) => Carries(t, {After(t, "add", None)}, r.host)
    BY <1>4, <2>1
  <2> QED BY <1>1, <1>6, <2>1, <2>2, FollowGood, ZenonT(60)
<1>7. ASSUME NEW other \in Answers(t.at, t.host),
             Answered(s, t, TRUE, Over(ses[s], t,
                 IF other = t.ip THEN {} ELSE {After(t, "swap", other)}))
      PROVE  AnswersInv'
  <2> DEFINE more == IF other = t.ip THEN {} ELSE {After(t, "swap", other)}
  <2>1. other \in Ips
    BY DEF Answers
  <2>2. /\ After(t, "swap", other) \in Task /\ Succeeds(t, After(t, "swap", other))
        /\ After(t, "swap", other).do = "swap" /\ After(t, "swap", other).at = t.at
        /\ After(t, "swap", other).host = t.host
    BY <1>1, <2>1, AfterCall DEF OnHosts, OnRecords, ById, Removes, Publishes, Calls
  <2>3. more \in SUBSET Task /\ \A u \in more : Succeeds(t, u)
    BY <2>2
  <2>4. ASSUME Wants(r) PROVE Carries(t, more, r.host)
    <3>1. CASE other = t.ip
      <4>1. t.host = r.host
        BY <1>1, <2>4, FitsFacts
      <4>2. Pointed(recs', t.at, r.host)
        BY <1>2, <2>1, <4>1 DEF Pointed, Answers
      <4> HIDE DEF r
      <4> QED BY <1>1, <1>2, <3>1, <4>2 DEF Carries
    <3>2. CASE other # t.ip
      BY <1>4, <2>2, <2>4, <3>2
    <3> QED BY <3>1, <3>2
  <2>5. Answered(s, t, TRUE, Over(ses[s], t, more))
    BY <1>7
  <2> HIDE DEF more
  <2> QED BY <1>1, <2>3, <2>4, <2>5, FollowGood
<1> QED BY <1>5, <1>6, <1>7 DEF ReadRecord

\* A stale record makes way for the one to add.
LEMMA SwapRecordGood ==
    ASSUME NEW s, NEW t, AnswerTurn(s, t), SwapRecord(s, t)
    PROVE  AnswersInv'
<1> DEFINE r == About(ses[s], rows)
           u == After(t, "add", None)
<1>1. /\ t.do = "swap" /\ t.do \in OnRecords /\ t.do \in Calls /\ t.do \notin OnHosts
      /\ t \in Task /\ t.at \in Dns /\ t.ip \in Ips /\ Turn(s, t)
  BY TurnFacts DEF SwapRecord, OnHosts, OnRecords, Publishes, Calls, AnswerTurn
<1>2. PICK ok \in BOOLEAN : /\ DeleteRewrite(t.at, t.host, t.id, ok)
                            /\ Answered(s, t, ok, Over(ses[s], t, {u}))
  BY DEF SwapRecord
<1>3. u \in Task /\ Succeeds(t, u) /\ u.do = "add" /\ u.at = t.at /\ u.host = t.host
  BY <1>1, AfterCall DEF OnHosts, OnRecords, ById, Removes, Publishes, Calls
<1>4. ASSUME Wants(r) PROVE Carries(t, {u}, r.host)
  <2>1. t.host = r.host
    BY <1>1, <1>4, FitsFacts
  <2>2. UNCHANGED hosts /\ \A d \in Dns : d = t.at \/ recs'[d] = recs[d]
    BY <1>2, AnswerFacts DEF DeleteRewrite, RecordCall, provVars, ProvidersTypeOK
  <2>3. "add" \notin OnHosts /\ "add" \in ShowRecord
    BY DEF OnHosts, ShowRecord
  <2>4. Fits(u, r.host, hosts')
    BY <1>3, <2>1, <2>3 DEF Fits
  <2> HIDE DEF r, u
  <2> QED BY <1>1, <1>3, <2>2, <2>3, <2>4 DEF Carries
<1> HIDE DEF u
<1>5. {u} \in SUBSET Task /\ \A v \in {u} : Succeeds(t, v)
  BY <1>3
<1>6. ok /\ Wants(About(ses[s], rows)) => Carries(t, {u}, About(ses[s], rows).host)
  BY <1>4
<1> HIDE DEF r
<1> QED BY <1>1, <1>2, <1>5, <1>6, FollowGood

\* A record that is added points to the name.
LEMMA AddRecordGood ==
    ASSUME NEW s, NEW t, AnswerTurn(s, t), AddRecord(s, t)
    PROVE  AnswersInv'
<1> DEFINE r == About(ses[s], rows)
<1>1. /\ t.do = "add" /\ t.do \in OnRecords /\ t.do \in Calls /\ t.do \notin OnHosts
      /\ t \in Task /\ t.at \in Dns /\ t.ip \in Ips /\ Turn(s, t)
  BY TurnFacts DEF AddRecord, OnHosts, OnRecords, Publishes, Calls, AnswerTurn
<1> DEFINE y == [Over(ses[s], t, {}) EXCEPT !.sent = Went(ses[s], t.at)]
<1>2. PICK ok \in BOOLEAN : /\ AddRewrite(t.at, t.host, t.ip, ok)
                            /\ Reply(s, t, ok, y, {}) /\ UNCHANGED rows
  BY DEF AddRecord, Answered
<1>3. ASSUME ok, Wants(r) PROVE Carries(t, {}, r.host)
  <2> DEFINE after == {q \in recs[t.at] : ~(t.at \in Upsert /\ q[1] = t.host)} \cup {<<t.host, t.ip>>}
  <2>1. t.host = r.host
    BY <1>1, <1>3, FitsFacts
  <2>2. UNCHANGED hosts /\ recs' = [recs EXCEPT ![t.at] = after]
    BY <1>2, <1>3 DEF AddRewrite, RecordCall
  <2>3. <<t.host, t.ip>> \in after
    OBVIOUS
  <2> HIDE DEF after, r
  <2>4. \A d \in Dns : recs'[d] = IF d = t.at THEN after ELSE recs[d]
    BY <2>2, AnswerFacts DEF ProvidersTypeOK
  <2>5. Pointed(recs', t.at, r.host)
    BY <1>1, <2>1, <2>3, <2>4 DEF Pointed
  <2> QED BY <1>1, <2>2, <2>4, <2>5 DEF Carries
<1>4. {} \in SUBSET Task /\ \A u \in {} : Succeeds(t, u)
  OBVIOUS
<1>5. ok /\ Wants(About(ses[s], rows)) => Carries(t, {}, About(ses[s], rows).host)
  BY <1>3
<1>6. /\ y \in Session /\ y.new = ses[s].new /\ y.op = ses[s].op /\ y.sid = ses[s].sid
      /\ y.todo = (ses[s].todo \ {t}) \cup {}
  BY <1>1, TurnFacts, AddedFields
<1> HIDE DEF r, y
<1> QED BY <1>1, <1>2, <1>4, <1>5, <1>6, ReplyGood

\* The calls of a withdrawal come in a session that has nothing to publish.
LEMMA Withdrawn ==
    ASSUME NEW s, NEW t, AnswerTurn(s, t),
           t.do \in {"suspend", "scrap", "seek", "drop", "look", "quit", "kept"}
    PROVE  /\ t.do \in Calls /\ ~Wants(About(ses[s], rows))
           /\ t \in Task
           /\ t.do \in OnHosts => t.at \in Proxies /\ t.host \in Hosts
           /\ t.do \in ById => t.id \in Ids
           /\ t.do \in Removes => t.id \in Ips
<1>1. t.do \in Calls /\ t.do \notin ShowHost \cup ShowRecord
  BY DEF Calls, OnHosts, OnRecords, ShowHost, ShowRecord
<1>2. ~Wants(About(ses[s], rows))
  BY <1>1, FitsFacts
<1> QED BY <1>1, <1>2, TurnFacts DEF AnswerTurn

\* So nothing that they do is held against the answer.
LEMMA WithdrawnGood ==
    ASSUME NEW s, NEW t, AnswerTurn(s, t),
           \/ SuspendHost(s, t) \/ ScrapHost(s, t) \/ SeekHost(s, t) \/ DropHost(s, t)
           \/ QuitRecord(s, t) \/ CheckKept(s, t)
    PROVE  AnswersInv'
<1>1. t.do \in {"suspend", "scrap", "seek", "drop", "look", "quit", "kept"}
  BY DEF SuspendHost, ScrapHost, SeekHost, DropHost, QuitRecord, CheckKept
<1>2. /\ t.do \in Calls /\ ~Wants(About(ses[s], rows)) /\ t \in Task /\ ProvidersTypeOK
      /\ t.do \in OnHosts => t.at \in Proxies /\ t.host \in Hosts
      /\ t.do \in ById => t.id \in Ids
      /\ t.do \in Removes => t.id \in Ips
  BY <1>1, Withdrawn, AnswerFacts
<1>3. ASSUME NEW ok, Answered(s, t, ok, Over(ses[s], t, {}))
      PROVE  AnswersInv'
  <2>1. {} \in SUBSET Task /\ \A u \in {} : Succeeds(t, u)
    OBVIOUS
  <2> QED BY <1>2, <1>3, <2>1, FollowGood
<1>4. CASE SuspendHost(s, t)
  <2>1. t.do = "suspend" /\ t.do \in OnHosts /\ t.id \in Ids
    BY <1>2, <1>4 DEF SuspendHost, OnHosts, ById
  <2>2. Instead(t) \in SUBSET Task /\ \A u \in Instead(t) : Succeeds(t, u)
    BY <1>2, <2>1, AfterCall DEF Instead, OnHosts, OnRecords, ById, Removes, Publishes, Calls
  <2>3. \/ \E ok \in BOOLEAN : Answered(s, t, ok, Over(ses[s], t, {}))
        \/ Answered(s, t, TRUE, Over(ses[s], t, Instead(t)))
    BY <1>4 DEF SuspendHost
  <2> QED BY <1>2, <1>3, <2>2, <2>3, FollowGood
<1>5. CASE ScrapHost(s, t)
  <2>1. \E ok \in BOOLEAN : Reply(s, t, ok, [Over(ses[s], t, {}) EXCEPT !.hid = None], {})
    BY <1>5 DEF ScrapHost, Answered
  <2>2. UNCHANGED rows /\ {} \in SUBSET Task /\ \A u \in {} : Succeeds(t, u)
    BY <1>5 DEF ScrapHost, Answered
  <2> QED BY <1>2, <2>1, <2>2, NotedGood
<1>6. CASE SeekHost(s, t)
  <2> DEFINE more == {After(t, "drop", x.id) : x \in Named(t.at, t.host)}
  <2>1. t.do = "seek" /\ t.do \in OnHosts
    BY <1>6 DEF SeekHost, OnHosts
  <2>2. ASSUME NEW x \in Named(t.at, t.host)
        PROVE  After(t, "drop", x.id) \in Task /\ Succeeds(t, After(t, "drop", x.id))
    <3>1. x.id \in Ids
      BY <1>2, <2>1, HostIds DEF Named
    <3> QED BY <1>2, <2>1, <3>1, AfterCall DEF OnHosts, OnRecords, ById, Removes, Publishes, Calls
  <2>3. more \in SUBSET Task /\ \A u \in more : Succeeds(t, u)
    BY <2>2
  <2>4. \E ok \in BOOLEAN : Answered(s, t, ok, Over(ses[s], t, more))
    BY <1>6 DEF SeekHost
  <2> HIDE DEF more
  <2> QED BY <1>2, <2>3, <2>4, FollowGood
<1>7. CASE DropHost(s, t) \/ CheckKept(s, t)
  BY <1>3, <1>7 DEF DropHost, CheckKept
<1>8. CASE QuitRecord(s, t)
  <2>1. t.do = "quit" /\ t.do \in OnRecords /\ t.id \in Ips
    BY <1>2, <1>8 DEF QuitRecord, OnRecords, Removes
  <2>2. After(t, "kept", t.id) \in Task /\ Succeeds(t, After(t, "kept", t.id))
    BY <1>2, <2>1, AfterCall DEF OnHosts, OnRecords, ById, Removes, Publishes, Calls
  <2>3. \E more \in {{}, {After(t, "kept", t.id)}} : Answered(s, t, TRUE, Over(ses[s], t, more))
    BY <1>8 DEF QuitRecord
  <2> QED BY <1>2, <1>3, <2>2, <2>3, FollowGood, ZenonT(60)
<1> QED BY <1>4, <1>5, <1>6, <1>7, <1>8

\* A look at a server before a withdrawal is not answered.
LEMMA LookRecordGood ==
    ASSUME NEW s, NEW t, AnswerTurn(s, t), LookRecord(s, t)
    PROVE  AnswersInv'
<1>1. t.do = "look" /\ t.do \in OnRecords /\ UNCHANGED rows
  BY DEF LookRecord, OnRecords
<1>2. t.do \in Calls /\ ~Wants(About(ses[s], rows)) /\ t \in Task /\ t.id \in Ips \cup {None}
  BY <1>1, Withdrawn, TurnFacts DEF AnswerTurn
<1>3. PICK ok \in BOOLEAN, ip \in Answers(t.at, t.host) \cup {t.id} :
        Advance(s, Over(ses[s], t, IF ip = None THEN {} ELSE {After(t, "quit", ip)}))
  BY DEF LookRecord
<1> DEFINE more == IF ip = None THEN {} ELSE {After(t, "quit", ip)}
           y == Over(ses[s], t, more)
<1>4. more \in SUBSET Task /\ \A u \in more : Succeeds(t, u)
  <2>1. ip # None => ip \in Ips
    BY <1>2, <1>3 DEF Answers
  <2> QED BY <1>1, <1>2, <2>1, AfterCall DEF OnHosts, OnRecords, ById, Removes, Publishes, Calls
<1>5. Advance(s, y)
  BY <1>3
<1> HIDE DEF more
<1>6. y.op = ses[s].op /\ y.sid = ses[s].sid /\ y.new = ses[s].new
      /\ y.todo = (ses[s].todo \ {t}) \cup more
  BY AnswerFacts DEF Over, Session
<1> HIDE DEF y
<1> QED BY <1>1, <1>2, <1>4, <1>5, <1>6, CallGood

(***************************************************************************)
(* The transactions and decisions of a publication.                        *)
(***************************************************************************)
\* What a row says of its targets.
SameTargets(q, r) == /\ q.host = r.host /\ q.enabled = r.enabled
                     /\ q.proxy = r.proxy /\ q.xproxies = r.xproxies
                     /\ q.dns = r.dns /\ q.xdns = r.xdns

\* A decision without a call leaves each target served, or on its way.
LEMMA DecisionShows ==
    ASSUME NEW x, NEW y, NEW r, NEW q, NEW held, NEW names, Shows(x, r, held, names),
           SameTargets(q, r), NEW t, t.do \notin ShowHost \cup ShowRecord \cup {"extras"},
           y.todo = x.todo \ {t}
    PROVE  Shows(y, q, held, names)
<1>1. /\ \A u \in y.todo : Fits(u, q.host, held)
      /\ OnePerProxy(y.todo)
  BY DEF Shows, SameTargets, OnePerProxy
<1>2. ProxiesOf(q) = ProxiesOf(r) /\ DnsOf(q) = DnsOf(r)
  BY DEF SameTargets, ProxiesOf, DnsOf
<1>3. ASSUME NEW p \in ProxiesOf(q)
      PROVE  OnTheWay(y, ShowHost, p, q.xproxies) \/ AllOn(held, p, q.host)
  BY <1>2, <1>3 DEF Shows, SameTargets, OnTheWay
<1>4. ASSUME NEW d \in DnsOf(q)
      PROVE  OnTheWay(y, ShowRecord, d, q.xdns) \/ Pointed(names, d, q.host)
  BY <1>2, <1>4 DEF Shows, SameTargets, OnTheWay
<1> QED BY <1>1, <1>3, <1>4 DEF Shows

\* The INSERT is the one that gives a POST its row.
LEMMA DecisionShape ==
    ASSUME NEW x, Shape(x), NEW t \in x.todo, t.do # "extras",
           NEW y, y.op = x.op, y.todo = x.todo \ {t},
           IF t.do = "insert" THEN y.sid # None ELSE y.sid = x.sid
    PROVE  Shape(y)
<1>1. x.op = "push" => t.do # "insert"
  BY DEF Shape
<1>2. y.sid = None => \E u \in y.todo : u.do = "insert"
  BY DEF Shape
<1>3. \A u, v \in y.todo : u.do = "insert" => y.sid = None /\ (v.do = "insert" => u = v)
  BY DEF Shape
<1> QED BY <1>1, <1>2, <1>3 DEF Shape

LEMMA DecisionGood ==
    ASSUME NEW s, NEW t, AnswerTurn(s, t), t.do \in {"insert", "aim", "settle", "journal"},
           NoCall, NEW y, Advance(s, y), y.op = ses[s].op, y.todo = ses[s].todo \ {t},
           IF t.do = "insert" THEN y.sid # None ELSE y.sid = ses[s].sid,
           Wants(About(y, rows')) =>
               /\ Wants(About(ses[s], rows))
               /\ SameTargets(About(y, rows'), About(ses[s], rows))
    PROVE  AnswersInv'
<1>1. /\ s \in Sessions /\ SessionsOK /\ Alone /\ t \in ses[s].todo /\ Shape(ses[s])
      /\ Wants(About(ses[s], rows)) => Shows(ses[s], About(ses[s], rows), hosts, recs)
  BY AnswerFacts
<1>2. UNCHANGED <<hosts, recs>>
  BY DEF NoCall, provVars
<1>3. Shape(y)
  BY <1>1, DecisionShape
<1>4. t.do \notin ShowHost \cup ShowRecord \cup {"extras"}
  BY DEF ShowHost, ShowRecord
<1>5. Wants(About(y, rows')) => Shows(y, About(y, rows'), hosts, recs)
  BY <1>1, <1>4, DecisionShows
<1>6. Good(y, rows', hosts', recs')
  BY <1>2, <1>3, <1>5 DEF Good
<1> QED BY <1>1, <1>6, StepAnswers

\* The row that is inserted is the body.
LEMMA InsertRowGood ==
    ASSUME NEW s, NEW t, AnswerTurn(s, t), InsertRow(s, t)
    PROVE  AnswersInv'
<1> DEFINE x == ses[s]
<1>1. /\ t.do = "insert" /\ NoCall /\ x \in Session /\ x.new \in Row /\ Turn(s, t)
      /\ s \in Sessions /\ SessionsOK /\ Alone /\ x.sid = None
  <2>1. t \in x.todo /\ Shape(x)
    BY AnswerFacts
  <2> QED BY <2>1, TurnFacts, AnswerFacts DEF InsertRow, AnswerTurn, Sound, Grounded, Shape
<1>2. CASE IndexRefuses(x.new.host, None)
  <2> DEFINE y == [Over(x, t, {}) EXCEPT !.todo = {}, !.err = TRUE]
  <2>1. Advance(s, y)
    BY <1>2 DEF InsertRow
  <2>2. y.err
    BY <1>1 DEF Over, Session
  <2> HIDE DEF y
  <2> QED BY <1>1, <2>1, <2>2, OtherAnswers DEF Answering
<1>3. CASE ~IndexRefuses(x.new.host, None)
  <2>1. PICK sid \in Services :
          /\ rows' = [rows EXCEPT ![sid] = [x.new EXCEPT !.hid = x.hid]]
          /\ Advance(s, [Over(x, t, {}) EXCEPT !.sid = sid, !.sent = {}])
    BY <1>3 DEF InsertRow
  <2> DEFINE y == [Over(x, t, {}) EXCEPT !.sid = sid, !.sent = {}]
             r == [x.new EXCEPT !.hid = x.hid]
  <2>2. y.op = x.op /\ y.sid = sid /\ y.todo = x.todo \ {t}
    BY <1>1 DEF Over, Session
  <2>3. SameTargets(r, x.new) /\ r.enabled = x.new.enabled
    BY <1>1 DEF Row, SameTargets
  <2>4. rows'[sid] = r
    BY <1>1, <2>1, TurnTypes
  <2>5. sid # None /\ x.new # None
    BY <1>1, PublicationAssumption
  <2> HIDE DEF y, r
  <2>6. About(y, rows') = r /\ About(x, rows) = x.new
    BY <1>1, <2>2, <2>4, <2>5 DEF About
  <2>7. Wants(r) => Wants(x.new)
    BY <2>3, <2>5 DEF Wants
  <2>8. Advance(s, y)
    BY <2>1 DEF y
  <2> QED BY <1>1, <2>2, <2>3, <2>5, <2>6, <2>7, <2>8, DecisionGood
<1> QED BY <1>2, <1>3

\* The commit of a push writes an id and an address, and no target.
LEMMA SettleGood ==
    ASSUME NEW s, NEW t, AnswerTurn(s, t), Settle(s, t)
    PROVE  AnswersInv'
<1> DEFINE x == ses[s]
           y == [Over(x, t, {}) EXCEPT !.saved = x.hid, !.ip = None]
<1>1. /\ t.do = "settle" /\ NoCall /\ x \in Session /\ Turn(s, t)
      /\ rows \in [Services -> Row \cup {None}]
  BY TurnFacts, TurnTypes, AnswerFacts DEF Settle, AnswerTurn
<1>2. y.op = x.op /\ y.sid = x.sid /\ y.new = x.new /\ y.todo = x.todo \ {t}
  BY <1>1 DEF Over, Session
<1>3. Advance(s, y)
  BY DEF Settle
<1> HIDE DEF y
<1>4. Wants(About(y, rows')) =>
        Wants(About(x, rows)) /\ SameTargets(About(y, rows'), About(x, rows))
  <2>1. CASE x.sid = None
    BY <1>2, <2>1 DEF About, SameTargets
  <2>2. CASE x.sid # None /\ rows[x.sid] = None
    <3>1. rows' = rows
      BY <2>2 DEF Settle
    <3> QED BY <1>2, <2>2, <3>1 DEF About, Wants
  <2>3. CASE x.sid # None /\ rows[x.sid] # None
    <3> DEFINE q   == rows[x.sid]
               hid == IF x.hid = x.saved THEN q.hid ELSE x.hid
               ip  == IF NewIp(x) = None THEN q.ip ELSE x.ip
               r   == [[q EXCEPT !.hid = hid] EXCEPT !.ip = ip]
    <3>1. x.sid \in Services /\ q \in Row
      BY <1>1, <2>3 DEF Session
    <3>2. rows'[x.sid] = r
      BY <1>1, <2>3, <3>1 DEF Settle, Row
    <3>3. SameTargets(r, q) /\ r.enabled = q.enabled
      <4> HIDE DEF hid, ip, q
      <4> QED BY <3>1 DEF Row, SameTargets
    <3>4. About(x, rows) = q /\ About(y, rows') = r
      BY <1>2, <2>3, <3>2 DEF About
    <3>5. Wants(q) <=> q.enabled
      BY <2>3 DEF Wants
    <3> HIDE DEF r, q
    <3> QED BY <3>3, <3>4, <3>5 DEF Wants
  <2> QED BY <2>1, <2>2, <2>3
<1> QED BY <1>1, <1>2, <1>3, <1>4, DecisionGood

\* A lock that is taken changes nothing else; one that is waited for in vain is told.
LEMMA LockGood ==
    ASSUME NEW s, NEW t, AnswerTurn(s, t), TakeLock(s, t) \/ GiveUp(s, t)
    PROVE  AnswersInv'
<1>1. ses[s] \in Session /\ s \in Sessions /\ SessionsOK /\ Alone
  BY AnswerFacts
<1>2. CASE TakeLock(s, t)
  <2> DEFINE y == Over(ses[s], t, {})
  <2>1. y.op = ses[s].op /\ y.sid = ses[s].sid /\ y.new = ses[s].new /\ y.todo = ses[s].todo \ {t}
    BY <1>1 DEF Over, Session
  <2>2. t.do \in {"journal", "aim"} /\ NoCall /\ UNCHANGED rows /\ Advance(s, y)
    BY <1>2 DEF TakeLock
  <2> HIDE DEF y
  <2>3. About(y, rows') = About(ses[s], rows)
    BY <2>1, <2>2 DEF About
  <2> QED BY <2>1, <2>2, <2>3, DecisionGood DEF SameTargets
<1>3. CASE GiveUp(s, t)
  <2> DEFINE y == [Over(ses[s], t, {}) EXCEPT
                      !.err = TRUE, !.hid = ses[s].saved,
                      !.todo = IF t.do = "journal" THEN @ ELSE {}]
  <2>1. y.err
    BY <1>1 DEF Over, Session
  <2>2. Advance(s, y)
    BY <1>3 DEF GiveUp
  <2> HIDE DEF y
  <2> QED BY <1>1, <2>1, <2>2, OtherAnswers DEF Answering
<1> QED BY <1>2, <1>3

(***************************************************************************)
(* What a push sets out to do.                                             *)
(***************************************************************************)
\* The call that tells proxy p of the row r.
Told(r, p, at) == IF StoredId(r, p) # None
                  THEN OnProxy("renew", p, r.host, StoredId(r, p), at)
                  ELSE OnProxy("find", p, r.host, None, at)

LEMMA ToldAt ==
    ASSUME NEW r, NEW p, NEW at \in {100, 105}
    PROVE  /\ Told(r, p, at).do \in ShowHost /\ Told(r, p, at).do \in OnHosts
           /\ Told(r, p, at).at = p
BY DEF Told, OnProxy, Do, ShowHost, OnHosts

LEMMA ToldFits ==
    ASSUME NEW r, NEW p, NEW at \in {100, 105}, NEW held
    PROVE  Fits(Told(r, p, at), r.host, held)
<1>1. StoredId(r, p) # None => (p \in HostKeyed => StoredId(r, p) = r.host)
  BY DEF StoredId
<1> QED BY <1>1 DEF Told, OnProxy, Do, ShowHost, OnHosts, OnRecords, Fits

\* A push is made of calls and of the decisions of a push.
LEMMA PushDoes ==
    ASSUME NEW r, NEW sid, NEW only, NEW ip, NEW u \in PushPlan(r, sid, only, ip, 100)
    PROVE  u.do \in Calls \cup {"aim", "settle"}
<1>1. \A at : \A v \in WithdrawPlan(r, sid, at, 100) : v.do \in {"drop", "seek", "look"}
  BY DEF WithdrawPlan, OnProxy, OffDns, Do
<1>2. \A v \in WithholdPlan(r, sid, only, 100) : v.do \in {"suspend", "drop", "seek", "look"}
  BY <1>1 DEF WithholdPlan, OnProxy, Do
<1>3. \A v \in PublishPlan(r, sid, only, ip, 100) : v.do \in {"renew", "find", "read"}
  BY DEF PublishPlan, OnProxy, OnDns, Do
<1> QED BY <1>2, <1>3 DEF PushPlan, Then, Do, Calls, OnHosts, OnRecords

\* So the tasks of a push have their shape,
LEMMA PushShape ==
    ASSUME NEW r, NEW sid \in Services, NEW only, NEW ip, NEW y, y.sid = sid,
           y.todo = PushPlan(r, sid, only, ip, 100)
    PROVE  Shape(y)
<1>1. \A u \in y.todo : u.do \in Calls \cup {"aim", "settle"}
  BY PushDoes
<1>2. \A u \in y.todo : u.do \notin {"insert", "extras"}
  BY <1>1 DEF Calls, OnHosts, OnRecords
<1> QED BY <1>1, <1>2, PublicationAssumption DEF Shape

\* and lead to every target that is not served yet.
LEMMA PushShows ==
    ASSUME NEW sid \in Services, NEW r \in Row, rows[sid] = r, r.enabled,
           NEW only, NEW ip, ~NoTarget(r, sid, only, ip), NEW held, NEW names,
           \A p \in ProxiesOf(r) : p \in only \/ AllOn(held, p, r.host),
           \A d \in DnsOf(r) : d \in only \/ Pointed(names, d, r.host),
           NEW y, y.todo = PushPlan(r, sid, only, ip, 100)
    PROVE  Shows(y, r, held, names)
<1> DEFINE main   == {Told(r, p, 100) : p \in Some(r.proxy) \cap only}
           more   == {Told(r, p, 105) : p \in MoreProxies(r, sid) \cap only}
           record == {OnDns("read", d, r.host, ip, 110) : d \in Some(r.dns) \cap only}
           others == {OnDns("read", d, r.host, ip, 115) : d \in (LiveXDns(sid) \ {r.dns}) \cap only}
           names2 == IF ip = None THEN {} ELSE record \cup others
           notes  == {Then("settle", 120), Then("aim", 108)}
<1>1. /\ LiveXProxies(sid) = r.xproxies /\ LiveXDns(sid) = r.xdns
      /\ None \notin ProxiesOf(r) /\ None \notin DnsOf(r)
  BY RowFields, PublicationAssumption, ProvidersAssumption
     DEF LiveXProxies, LiveXDns, ProxiesOf, DnsOf, Some
<1>2. /\ main \cup more \cup names2 \subseteq y.todo
      /\ y.todo \subseteq main \cup more \cup names2 \cup notes
  BY DEF PushPlan, PublishPlan, Told
<1>3. /\ \A u \in notes : u.do \notin OnHosts \cup OnRecords \cup {"find", "renew", "resume"}
      /\ \A u \in names2 : u.do = "read" /\ u.host = r.host
  BY DEF Then, OnDns, Do, OnHosts, OnRecords
<1>4. /\ \A u \in main : \E p : u = Told(r, p, 100) /\ p = r.proxy
      /\ \A u \in more : \E p : u = Told(r, p, 105) /\ p # r.proxy
  BY DEF Some, MoreProxies
<1>5. \A p \in ProxiesOf(r) \cap only : Told(r, p, 100) \in main \/ Told(r, p, 105) \in more
  BY <1>1 DEF ProxiesOf, Some, MoreProxies
<1>6. ASSUME NEW d \in DnsOf(r), d \in only
      PROVE  \E u \in names2 : u.do = "read" /\ u.at = d
  <2>1. d \in HolderDns(r, sid)
    BY <1>1, <1>6 DEF DnsOf, HolderDns
  <2>2. ip # None
    BY <1>6, <2>1 DEF NoTarget
  <2>3. PICK at \in {110, 115} : OnDns("read", d, r.host, ip, at) \in record \cup others
    BY <1>1, <1>6 DEF DnsOf, Some
  <2>4. OnDns("read", d, r.host, ip, at).do = "read" /\ OnDns("read", d, r.host, ip, at).at = d
    BY DEF OnDns, Do
  <2> QED BY <2>2, <2>3, <2>4
<1> HIDE DEF main, more, record, others, names2, notes
<1>7. /\ \A u \in main : u = Told(r, u.at, 100) /\ u.at = r.proxy
      /\ \A u \in more : u = Told(r, u.at, 105) /\ u.at # r.proxy
  BY <1>4, ToldAt
<1>8. ASSUME NEW u \in y.todo PROVE Fits(u, r.host, held)
  <2>1. CASE u \in notes
    BY <1>3, <2>1 DEF Fits
  <2>2. CASE u \in names2
    BY <1>3, <2>2 DEF Fits, OnHosts, OnRecords, ShowRecord
  <2>3. CASE u \in main \cup more
    <3>1. u = Told(r, u.at, 100) \/ u = Told(r, u.at, 105)
      BY <1>7, <2>3
    <3> QED BY <3>1, ToldFits
  <2> QED BY <1>2, <2>1, <2>2, <2>3
<1>9. OnePerProxy(y.todo)
  <2>1. \A u \in notes \cup names2 : u.do \notin OnHosts
    BY <1>3 DEF OnHosts
  <2> SUFFICES ASSUME NEW u \in main \cup more, NEW v \in main \cup more, u.at = v.at
               PROVE  u = v
    BY <1>2, <2>1 DEF OnePerProxy
  <2> QED BY <1>7
<1>10. ASSUME NEW p \in ProxiesOf(r), p \in only
       PROVE  OnTheWay(y, ShowHost, p, r.xproxies)
  <2>1. PICK i \in {100, 105} : Told(r, p, i) \in y.todo
    BY <1>2, <1>5, <1>10
  <2>2. Told(r, p, i).do \in ShowHost /\ Told(r, p, i).at = p
    BY ToldAt
  <2> QED BY <2>1, <2>2 DEF OnTheWay
<1>11. ASSUME NEW d \in DnsOf(r), d \in only
       PROVE  OnTheWay(y, ShowRecord, d, r.xdns)
  <2>1. PICK u \in names2 : u.do = "read" /\ u.at = d
    BY <1>6, <1>11
  <2> QED BY <1>2, <2>1 DEF OnTheWay, ShowRecord
<1> QED BY <1>8, <1>9, <1>10, <1>11 DEF Shows

\* The extra targets of a POST, once its row is there: nothing else is left to do.
LEMMA FollowExtrasGood ==
    ASSUME NEW s, NEW t, AnswerTurn(s, t), FollowExtras(s, t)
    PROVE  AnswersInv'
<1> DEFINE x == ses[s]
           r == rows[x.sid]
<1>1. /\ t.do = "extras" /\ UNCHANGED <<rows, hosts, recs>> /\ Turn(s, t)
      /\ x \in Session /\ s \in Sessions /\ SessionsOK /\ Alone /\ Answering(x) /\ Shape(x)
      /\ t \in x.todo
      /\ rows \in [Services -> Row \cup {None}]
  BY TurnTypes, AnswerFacts DEF FollowExtras, NoCall, provVars, AnswerTurn
<1>2. x.todo = {t}
  <2>1. \A v \in x.todo : v \in Task /\ t.stage <= v.stage
    BY <1>1, TurnFacts DEF Session
  <2>2. \A v \in x.todo : v # t => v.stage < t.stage
    BY <1>1 DEF Shape
  <2>3. \A v \in x.todo : v.stage \in Int
    BY <2>1 DEF Task
  <2> QED BY <1>1, <2>1, <2>2, <2>3
<1>3. x.op = "add" /\ x.sid # None /\ x.sid \in Services
  BY <1>1, <1>2 DEF Shape, Answering, Session
<1>4. About(x, rows) = r /\ r \in Row \cup {None} /\ (Wants(r) => Shows(x, r, hosts, recs))
  <2>1. Wants(About(x, rows)) => Shows(x, About(x, rows), hosts, recs)
    BY AnswerFacts
  <2> QED BY <1>1, <1>3, <2>1 DEF About
\* Nothing left, and nothing needed.
<1>5. ASSUME NEW y, Advance(s, y), y.op = x.op, y.sid = x.sid, y.todo = {},
             Wants(r) => Extras(r) = {}
      PROVE  AnswersInv'
  <2>1. Shape(y) /\ About(y, rows') = r
    BY <1>1, <1>3, <1>5 DEF Shape, About
  <2>2. ASSUME Wants(r) PROVE Shows(y, r, hosts, recs)
    <3>1. r.xproxies = {} /\ r.xdns = {}
      BY <1>5, <2>2 DEF Extras
    <3>2. \A p \in ProxiesOf(r) : AllOn(hosts, p, r.host)
      BY <1>1, <1>2, <1>4, <2>2, <3>1 DEF Shows, OnTheWay, ShowHost
    <3>3. \A d \in DnsOf(r) : Pointed(recs, d, r.host)
      BY <1>1, <1>2, <1>4, <2>2, <3>1 DEF Shows, OnTheWay, ShowRecord
    <3> QED BY <1>5, <3>2, <3>3 DEF Shows, OnePerProxy
  <2> QED BY <1>1, <1>5, <2>1, <2>2, StepAnswers DEF Good
<1>6. CASE r = None
  <2> DEFINE y == [Over(x, t, {}) EXCEPT !.err = @ \/ x.op = "put"]
  <2>1. Advance(s, y)
    BY <1>6 DEF FollowExtras
  <2>2. y.op = x.op /\ y.sid = x.sid /\ y.todo = {}
    BY <1>1, <1>2 DEF Over, Session
  <2> HIDE DEF y
  <2> QED BY <1>5, <1>6, <2>1, <2>2 DEF Wants
<1>7. CASE r # None /\ Extras(r) # {} /\ r.enabled /\ PublishesExtras(x)
  <2>1. PICK ip \in Resolved(r) :
          Advance(s, [Over(x, t, PushPlan(r, x.sid, Extras(r), ip, 100))
                        EXCEPT !.new = r, !.hid = r.hid, !.saved = r.hid, !.ip = ip,
                               !.err = @ \/ NoTarget(r, x.sid, Extras(r), ip)])
    BY <1>7 DEF FollowExtras
  <2> DEFINE plan == PushPlan(r, x.sid, Extras(r), ip, 100)
             none == NoTarget(r, x.sid, Extras(r), ip)
             z    == Over(x, t, plan)
             y    == [z EXCEPT !.new = r, !.hid = r.hid, !.saved = r.hid, !.ip = ip,
                               !.err = @ \/ none]
  <2>2. Advance(s, y)
    BY <2>1
  <2>3. y.op = x.op /\ y.sid = x.sid /\ y.todo = plan /\ y.err = (x.err \/ none)
    <3> HIDE DEF plan, none, r
    <3> QED BY <1>1, <1>2 DEF Over, Session
  <2> HIDE DEF y
  <2>4. CASE none
    BY <1>1, <2>2, <2>3, <2>4, OtherAnswers DEF Answering
  <2>5. CASE ~none
    <3>1. Shape(y)
      BY <1>3, <2>3, PushShape
    <3>2. About(y, rows') = r
      BY <1>1, <1>3, <2>3 DEF About
    <3>3. ASSUME Wants(r) PROVE Shows(y, r, hosts, recs)
      <4>1. Shows(x, r, hosts, recs) /\ r \in Row
        BY <1>4, <3>3 DEF Wants
      <4>2. \A p \in ProxiesOf(r) : p \in Extras(r) \/ AllOn(hosts, p, r.host)
        BY <1>1, <1>2, <4>1 DEF Shows, OnTheWay, ShowHost, Extras
      <4>3. \A d \in DnsOf(r) : d \in Extras(r) \/ Pointed(recs, d, r.host)
        BY <1>1, <1>2, <4>1 DEF Shows, OnTheWay, ShowRecord, Extras
      <4> QED BY <1>3, <1>7, <2>3, <2>5, <4>1, <4>2, <4>3, PushShows
    <3> QED BY <1>1, <2>2, <3>1, <3>2, <3>3, StepAnswers DEF Good
  <2> QED BY <2>4, <2>5
<1>8. CASE r # None /\ ~(Extras(r) # {} /\ r.enabled /\ PublishesExtras(x))
  <2>1. PublishesExtras(x) /\ ~WithdrawsExtras(x)
    BY <1>3 DEF PublishesExtras, WithdrawsExtras
  <2>2. Advance(s, Over(x, t, {})) /\ (Wants(r) => Extras(r) = {})
    BY <1>8, <2>1 DEF FollowExtras, Wants
  <2> DEFINE y == Over(x, t, {})
  <2>3. y.op = x.op /\ y.sid = x.sid /\ y.todo = {}
    BY <1>1, <1>2 DEF Over, Session
  <2> HIDE DEF y
  <2> QED BY <1>5, <2>2, <2>3 DEF y
<1> QED BY <1>6, <1>7, <1>8

(***************************************************************************)
(* A request that has nothing to answer for stays so.                      *)
(***************************************************************************)
\* A turn of a session that owes no clean answer.
OtherTurn(s, t) == Turn(s, t) /\ Alone /\ ~Answering(ses[s])

\* No step makes another request of it, or forgets an error.
Keeps(y, x) == y.op = x.op /\ (x.err => y.err)

LEMMA StepKeeps ==
    ASSUME NEW s, NEW t, OtherTurn(s, t), NEW y, Keeps(y, ses[s]), Advance(s, y)
    PROVE  AnswersInv'
<1>1. s \in Sessions /\ SessionsOK
  BY DEF OtherTurn, Turn, IInv
<1> QED BY <1>1, OtherAnswers DEF OtherTurn, Keeps, Answering

LEMMA ReplyKeeps ==
    ASSUME NEW s, NEW t, OtherTurn(s, t), NEW ok, NEW good, NEW carried,
           Keeps(good, ses[s]), DOMAIN good = DOMAIN ses[s], Reply(s, t, ok, good, carried)
    PROVE  AnswersInv'
<1> DEFINE x       == ses[s]
           j       == Then("journal", 0)
           bad     == [Over(x, t, {}) EXCEPT !.err = TRUE]
           next    == IF ok THEN good ELSE bad
           delayed == [next EXCEPT !.todo = @ \cup {j}]
<1>1. x \in Session
  BY TurnFacts DEF OtherTurn
<1>2. Keeps(bad, x) /\ DOMAIN bad = DOMAIN x
  BY <1>1 DEF Over, Session, Keeps
<1>3. Advance(s, delayed) \/ Advance(s, next)
  BY DEF Reply
<1> HIDE DEF bad, j
<1>4. Keeps(next, x) /\ DOMAIN next = DOMAIN x
  BY <1>2
<1> HIDE DEF next
<1>5. Keeps(delayed, x)
  BY <1>1, <1>4 DEF Session, Keeps
<1> HIDE DEF delayed
<1> QED BY <1>3, <1>4, <1>5, StepKeeps

LEMMA CallKeeps ==
    ASSUME NEW s, NEW t, OtherTurn(s, t), NEW ok, NEW more,
           Answered(s, t, ok, Over(ses[s], t, more))
    PROVE  AnswersInv'
<1> DEFINE good == Over(ses[s], t, more)
<1>1. Keeps(good, ses[s]) /\ DOMAIN good = DOMAIN ses[s]
  BY TurnFacts DEF OtherTurn, Over, Session, Keeps
<1>2. Reply(s, t, ok, good, {})
  BY DEF Answered
<1> HIDE DEF good
<1> QED BY <1>1, <1>2, ReplyKeeps

LEMMA NoteKeeps ==
    ASSUME NEW s, NEW t, OtherTurn(s, t), NEW ok, NEW more, NEW hid, NEW carried,
           Reply(s, t, ok, [Over(ses[s], t, more) EXCEPT !.hid = hid], carried)
    PROVE  AnswersInv'
<1> DEFINE good == [Over(ses[s], t, more) EXCEPT !.hid = hid]
<1>1. Keeps(good, ses[s]) /\ DOMAIN good = DOMAIN ses[s]
  BY TurnFacts DEF OtherTurn, Over, Session, Keeps
<1> HIDE DEF good
<1>2. Reply(s, t, ok, good, carried)
  BY DEF good
<1> QED BY <1>1, <1>2, ReplyKeeps

\* The calls,
LEMMA OtherCalls ==
    ASSUME NEW s, NEW t, OtherTurn(s, t),
           \/ FindHost(s, t) \/ RenewHost(s, t) \/ CreateNewHost(s, t)
           \/ ResumeHost(s, t) \/ SuspendHost(s, t) \/ ScrapHost(s, t)
           \/ SeekHost(s, t) \/ DropHost(s, t)
           \/ ReadRecord(s, t) \/ SwapRecord(s, t) \/ AddRecord(s, t)
           \/ PointRecord(s, t) \/ MoveRecord(s, t) \/ QuitRecord(s, t) \/ CheckKept(s, t)
    PROVE  AnswersInv'
<1>1. CASE FindHost(s, t)
  BY <1>1, CallKeeps DEF FindHost
<1>2. CASE RenewHost(s, t)
  <2> DEFINE more == IF Resumes(t) THEN {After(t, "resume", t.id)} ELSE {}
             hid  == IF t.at # ses[s].new.proxy THEN Over(ses[s], t, more).hid
                     ELSE IF t.at \in HostKeyed THEN t.host ELSE t.id
             was  == {x.host : x \in WithId(t.at, t.id)}
             carried == IF ({t.at} \X was) \cap reported = {} THEN {} ELSE {<<t.at, t.host>>}
  <2>1. \E ok : Reply(s, t, ok, [Over(ses[s], t, more) EXCEPT !.hid = hid], carried)
    BY <1>2 DEF RenewHost
  <2> HIDE DEF more, hid, carried
  <2> QED BY <2>1, NoteKeeps
<1>3. CASE CreateNewHost(s, t)
  <2>1. PICK ok, id : Answered(s, t, ok, [Over(ses[s], t, {}) EXCEPT
               !.hid = IF t.at = ses[s].new.proxy THEN id ELSE @,
               !.sent = Went(ses[s], t.at)])
    BY <1>3 DEF CreateNewHost
  <2> DEFINE hid  == IF t.at = ses[s].new.proxy THEN id ELSE Over(ses[s], t, {}).hid
             good == [Over(ses[s], t, {}) EXCEPT !.hid = hid, !.sent = Went(ses[s], t.at)]
  <2>2. Reply(s, t, ok, good, {})
    BY <2>1 DEF Answered
  <2> HIDE DEF hid
  <2>3. Keeps(good, ses[s]) /\ DOMAIN good = DOMAIN ses[s]
    BY TurnFacts DEF OtherTurn, Over, Session, Keeps
  <2> HIDE DEF good
  <2> QED BY <2>2, <2>3, ReplyKeeps
<1>4. CASE ResumeHost(s, t) \/ DropHost(s, t) \/ SwapRecord(s, t) \/ CheckKept(s, t)
  BY <1>4, CallKeeps DEF ResumeHost, DropHost, SwapRecord, CheckKept
<1>12. CASE AddRecord(s, t)
  <2> DEFINE good == [Over(ses[s], t, {}) EXCEPT !.sent = Went(ses[s], t.at)]
  <2>1. \E ok : Reply(s, t, ok, good, {})
    BY <1>12 DEF AddRecord, Answered
  <2>2. Keeps(good, ses[s]) /\ DOMAIN good = DOMAIN ses[s]
    BY TurnFacts DEF OtherTurn, Over, Session, Keeps
  <2> HIDE DEF good
  <2> QED BY <2>1, <2>2, ReplyKeeps
<1>5. CASE SuspendHost(s, t)
  BY <1>5, CallKeeps DEF SuspendHost
<1>6. CASE ScrapHost(s, t)
  <2>1. \E ok : Reply(s, t, ok, [Over(ses[s], t, {}) EXCEPT !.hid = None], {})
    BY <1>6 DEF ScrapHost, Answered
  <2> QED BY <2>1, NoteKeeps
<1>7. CASE SeekHost(s, t)
  BY <1>7, CallKeeps DEF SeekHost
<1>8. CASE ReadRecord(s, t)
  <2>1. CASE Answered(s, t, FALSE, ses[s])
    BY <2>1, ReplyKeeps DEF Answered, Keeps
  <2>2. CASE \E more : Answered(s, t, TRUE, Over(ses[s], t, more))
    BY <2>2, CallKeeps
  <2> QED BY <1>8, <2>1, <2>2 DEF ReadRecord
<1>9. CASE PointRecord(s, t)
  BY <1>9, CallKeeps DEF PointRecord
<1>10. CASE MoveRecord(s, t)
  BY <1>10, CallKeeps DEF MoveRecord
<1>11. CASE QuitRecord(s, t)
  BY <1>11, CallKeeps DEF QuitRecord
<1> QED BY <1>1, <1>2, <1>3, <1>4, <1>5, <1>6, <1>7, <1>8, <1>9, <1>10, <1>11, <1>12

\* the plain steps,
LEMMA PlainKeeps ==
    ASSUME NEW s, NEW t, OtherTurn(s, t), NEW more, Advance(s, Over(ses[s], t, more))
    PROVE  AnswersInv'
<1> DEFINE y == Over(ses[s], t, more)
<1>1. Keeps(y, ses[s])
  BY TurnFacts DEF OtherTurn, Over, Session, Keeps
<1>2. Advance(s, y)
  OBVIOUS
<1> HIDE DEF y
<1> QED BY <1>1, <1>2, StepKeeps

\* and the transactions and decisions.
LEMMA OtherDecisions ==
    ASSUME NEW s, NEW t, OtherTurn(s, t),
           \/ UnmoveRecord(s, t) \/ LookRecord(s, t)
           \/ InsertRow(s, t) \/ WriteRow(s, t) \/ CommitRow(s, t) \/ Settle(s, t)
           \/ TakeLock(s, t) \/ GiveUp(s, t) \/ FollowExtras(s, t) \/ RemoveRow(s, t)
           \/ NextInBatch(s, t) \/ FlipPrimaries(s, t)
    PROVE  AnswersInv'
<1> DEFINE x == ses[s]
<1>1. x \in Session
  BY TurnFacts DEF OtherTurn
<1>2. ASSUME NEW z \in {x, Over(x, t, {})}, Advance(s, [z EXCEPT !.todo = {}, !.err = TRUE])
      PROVE  AnswersInv'
  <2> DEFINE y == [z EXCEPT !.todo = {}, !.err = TRUE]
  <2>1. Keeps(y, x)
    BY <1>1 DEF Over, Session, Keeps
  <2>2. Advance(s, y)
    BY <1>2
  <2> HIDE DEF y
  <2> QED BY <2>1, <2>2, StepKeeps
<1>3. CASE UnmoveRecord(s, t) \/ LookRecord(s, t) \/ TakeLock(s, t) \/ RemoveRow(s, t)
  BY <1>3, PlainKeeps DEF UnmoveRecord, LookRecord, TakeLock, RemoveRow
<1>4. CASE InsertRow(s, t)
  <2>1. ASSUME NEW sid, Advance(s, [Over(x, t, {}) EXCEPT !.sid = sid, !.sent = {}])
        PROVE  AnswersInv'
    <3> DEFINE y == [Over(x, t, {}) EXCEPT !.sid = sid, !.sent = {}]
    <3>1. Keeps(y, x)
      BY <1>1 DEF Over, Session, Keeps
    <3>2. Advance(s, y)
      BY <2>1
    <3> HIDE DEF y
    <3> QED BY <3>1, <3>2, StepKeeps
  <2> QED BY <1>2, <1>4, <2>1 DEF InsertRow
<1>5. CASE WriteRow(s, t)
  BY <1>2, <1>5, PlainKeeps DEF WriteRow
<1>6. CASE CommitRow(s, t)
  <2> DEFINE more == SwitchPlan(x) \cup {Then("settle", 80)}
             y == [Over(x, t, more) EXCEPT !.saved = x.hid]
  <2>1. Advance(s, [x EXCEPT !.todo = {}, !.err = TRUE]) \/ Advance(s, y)
    BY <1>6 DEF CommitRow
  <2> HIDE DEF more
  <2>2. Keeps(y, x)
    BY <1>1 DEF Over, Session, Keeps
  <2> HIDE DEF y
  <2> QED BY <1>2, <2>1, <2>2, StepKeeps
<1>7. CASE Settle(s, t)
  <2> DEFINE y == [Over(x, t, {}) EXCEPT !.saved = x.hid, !.ip = None]
  <2>1. Keeps(y, x)
    BY <1>1 DEF Over, Session, Keeps
  <2>2. Advance(s, y)
    BY <1>7 DEF Settle
  <2> HIDE DEF y
  <2> QED BY <2>1, <2>2, StepKeeps
<1>8. CASE GiveUp(s, t)
  <2> DEFINE y == [Over(x, t, {}) EXCEPT !.err = TRUE, !.hid = x.saved,
                                         !.todo = IF t.do = "journal" THEN @ ELSE {}]
  <2>1. Keeps(y, x)
    BY <1>1 DEF Over, Session, Keeps
  <2>2. Advance(s, y)
    BY <1>8 DEF GiveUp
  <2> HIDE DEF y
  <2> QED BY <2>1, <2>2, StepKeeps
<1>9. CASE FollowExtras(s, t)
  <2> DEFINE r == rows[x.sid]
  <2>1. ASSUME NEW e, Advance(s, [Over(x, t, {}) EXCEPT !.err = @ \/ e])
        PROVE  AnswersInv'
    <3> DEFINE y == [Over(x, t, {}) EXCEPT !.err = @ \/ e]
    <3>1. Keeps(y, x)
      BY <1>1 DEF Over, Session, Keeps
    <3>2. Advance(s, y)
      BY <2>1
    <3> HIDE DEF y
    <3> QED BY <3>1, <3>2, StepKeeps
  <2>2. ASSUME NEW more, NEW q, NEW ip, NEW e,
               Advance(s, [Over(x, t, more) EXCEPT !.new = q, !.hid = q.hid, !.saved = q.hid,
                                                   !.ip = ip, !.err = @ \/ e])
        PROVE  AnswersInv'
    <3> DEFINE y == [Over(x, t, more) EXCEPT !.new = q, !.hid = q.hid, !.saved = q.hid,
                                             !.ip = ip, !.err = @ \/ e]
    <3>1. Keeps(y, x)
      BY <1>1 DEF Over, Session, Keeps
    <3>2. Advance(s, y)
      BY <2>2
    <3> HIDE DEF y
    <3> QED BY <3>1, <3>2, StepKeeps
  <2>3. \/ Advance(s, [Over(x, t, {}) EXCEPT !.err = @ \/ x.op = "put"])
        \/ \E ip : Advance(s, [Over(x, t, PushPlan(r, x.sid, Extras(r), ip, 100))
                                 EXCEPT !.new = r, !.hid = r.hid, !.saved = r.hid, !.ip = ip,
                                        !.err = @ \/ NoTarget(r, x.sid, Extras(r), ip)])
        \/ \E more : Advance(s, Over(x, t, more))
    BY <1>9 DEF FollowExtras
  <2>4. \A e : Advance(s, [Over(x, t, {}) EXCEPT !.err = @ \/ e]) => AnswersInv'
    BY <2>1
  <2>5. ASSUME NEW more, Advance(s, Over(x, t, more))
        PROVE  AnswersInv'
    BY <2>5, PlainKeeps
  <2>6. CASE Advance(s, [Over(x, t, {}) EXCEPT !.err = @ \/ x.op = "put"])
    BY <2>4, <2>6
  <2>7. CASE \E ip : Advance(s, [Over(x, t, PushPlan(r, x.sid, Extras(r), ip, 100))
                                   EXCEPT !.new = r, !.hid = r.hid, !.saved = r.hid, !.ip = ip,
                                          !.err = @ \/ NoTarget(r, x.sid, Extras(r), ip)])
    <3>1. PICK ip : Advance(s, [Over(x, t, PushPlan(r, x.sid, Extras(r), ip, 100))
                                   EXCEPT !.new = r, !.hid = r.hid, !.saved = r.hid, !.ip = ip,
                                          !.err = @ \/ NoTarget(r, x.sid, Extras(r), ip)])
      BY <2>7
    <3> DEFINE more == PushPlan(r, x.sid, Extras(r), ip, 100)
               e == NoTarget(r, x.sid, Extras(r), ip)
    <3>2. Advance(s, [Over(x, t, more) EXCEPT !.new = r, !.hid = r.hid, !.saved = r.hid,
                                              !.ip = ip, !.err = @ \/ e])
      BY <3>1
    <3> HIDE DEF more, e, r, x
    <3> QED BY <2>2, <3>2
  <2>8. CASE \E more : Advance(s, Over(x, t, more))
    BY <2>5, <2>8
  <2> HIDE DEF r, x
  <2> QED BY <2>3, <2>6, <2>7, <2>8
<1>10. CASE NextInBatch(s, t)
  <2>1. PICK q, todo : Advance(s, [x EXCEPT !.sid = q[1], !.old = q[2], !.queue = @ \ {q},
                                            !.todo = todo])
    BY <1>10 DEF NextInBatch
  <2> DEFINE y == [x EXCEPT !.sid = q[1], !.old = q[2], !.queue = @ \ {q}, !.todo = todo]
  <2>2. Keeps(y, x)
    BY <1>1 DEF Session, Keeps
  <2>3. Advance(s, y)
    BY <2>1
  <2> HIDE DEF y
  <2> QED BY <2>2, <2>3, StepKeeps
<1>11. CASE FlipPrimaries(s, t)
  <2> DEFINE plan == FlipPlan(x)
             y == [Over(x, t, plan) EXCEPT !.new = x.old, !.hid = x.old.hid,
                                           !.saved = x.old.hid, !.ip = None]
  <2>1. Advance(s, y)
    BY <1>11 DEF FlipPrimaries
  <2> HIDE DEF plan
  <2>2. Keeps(y, x)
    BY <1>1 DEF Over, Session, Keeps
  <2> HIDE DEF y
  <2> QED BY <2>1, <2>2, StepKeeps
<1> QED BY <1>3, <1>4, <1>5, <1>6, <1>7, <1>8, <1>9, <1>10, <1>11

(***************************************************************************)
(* The requests.                                                           *)
(***************************************************************************)
\* The fields of a session that opens.
LEMMA OpenedAs ==
    ASSUME NEW op, NEW sid, NEW old, NEW new, NEW hid, NEW todo
    PROVE  /\ Opening(op, sid, old, new, hid, todo).op = op
           /\ Opening(op, sid, old, new, hid, todo).sid = sid
           /\ Opening(op, sid, old, new, hid, todo).new = new
           /\ Opening(op, sid, old, new, hid, todo).todo = todo
BY DEF Opening, NoSession

\* Only a POST and a push have a publication to answer for.
LEMMA OpeningOther ==
    ASSUME Alone, SessionsOK, NEW s \in Sessions, NEW op \in {"put", "delete"},
           NEW sid, NEW old, NEW new, NEW hid, NEW todo,
           Start(s, Opening(op, sid, old, new, hid, todo))
    PROVE  AnswersInv'
<1> DEFINE y == Opening(op, sid, old, new, hid, todo)
<1>1. y.op \in {"put", "delete"}
  BY OpenedAs
<1>2. Start(s, y)
  OBVIOUS
<1> HIDE DEF y
<1> QED BY <1>1, <1>2, OtherAnswers DEF Answering

LEMMA OthersOpen ==
    ASSUME Alone, SessionsOK, NEW s \in Sessions,
           UpdateService(s) \/ DeleteService(s) \/ BulkSwitch(s)
    PROVE  AnswersInv'
<1>1. CASE UpdateService(s)
  <2>1. PICK sid \in Services, b \in Bodies :
          Start(s, Opening("put", sid, rows[sid], b,
               IF rows[sid].proxy = b.proxy THEN rows[sid].hid ELSE None,
               PutProxyPlan(rows[sid], b) \cup PutDnsPlan(rows[sid], b) \cup
               {Then("write", 30), Then("commit", 60), Then("extras", 90)}))
    BY <1>1 DEF UpdateService
  <2> QED BY <2>1, OpeningOther
<1>2. CASE DeleteService(s)
  <2>1. PICK sid \in Services :
          Start(s, Opening("delete", sid, rows[sid], rows[sid], rows[sid].hid,
               WithdrawPlan(rows[sid], sid, Proxies \cup Dns, 100) \cup {Then("remove", 120)}))
    BY <1>2 DEF DeleteService
  <2> QED BY <2>1, OpeningOther
<1>3. CASE BulkSwitch(s)
  <2>1. PICK op \in {"enable", "disable"}, sids \in SUBSET Services :
          Start(s, [Opening(op, None, None, None, None, {Then("next", 1)})
                         EXCEPT !.queue = {<<sid, rows[sid]>> : sid \in sids}])
    BY <1>3 DEF BulkSwitch
  <2> DEFINE queue == {<<sid, rows[sid]>> : sid \in sids}
             y == [Opening(op, None, None, None, None, {Then("next", 1)}) EXCEPT !.queue = queue]
  <2>2. Start(s, y)
    BY <2>1
  <2> HIDE DEF queue
  <2>3. y.op = op
    BY DEF Opening, NoSession
  <2> HIDE DEF y
  <2> QED BY <2>2, <2>3, OtherAnswers DEF Answering
<1> QED BY <1>1, <1>2, <1>3

\* A push leads to every target of its row.
LEMMA PushOpens ==
    ASSUME IInv, Alone, NEW s \in Sessions, PushService(s)
    PROVE  AnswersInv'
<1>1. PICK sid \in Services : rows[sid] # None /\ Push(s, sid, rows[sid])
  BY DEF PushService, Ready
<1> DEFINE r == rows[sid]
<1>2. PICK ip \in Resolved(r) :
        Start(s, [Opening("push", sid, None, r, r.hid,
                          PushPlan(r, sid, Proxies \cup Dns, ip, 100))
                    EXCEPT !.ip = ip, !.err = NoTarget(r, sid, Proxies \cup Dns, ip)])
  BY <1>1 DEF Push
<1> DEFINE todo == PushPlan(r, sid, Proxies \cup Dns, ip, 100)
           err  == NoTarget(r, sid, Proxies \cup Dns, ip)
           z    == Opening("push", sid, None, r, r.hid, todo)
           y    == [z EXCEPT !.ip = ip, !.err = err]
<1>3. Start(s, y)
  BY <1>2
<1>4. y.op = "push" /\ y.sid = sid /\ y.todo = todo /\ y.err = err
  <2> HIDE DEF r, todo, err
  <2> QED BY DEF Opening, NoSession
<1> HIDE DEF y
<1>5. r \in Row /\ SessionsOK /\ UNCHANGED <<hosts, recs, rows>>
  BY <1>1 DEF IInv, TypeOK, PushService, provVars
<1>6. CASE err
  BY <1>3, <1>4, <1>5, <1>6, OtherAnswers DEF Answering
<1>7. CASE ~err
  <2>1. Shape(y)
    BY <1>4, PushShape
  <2>2. About(y, rows') = r
    BY <1>4, <1>5, PublicationAssumption DEF About
  <2>3. ASSUME r.enabled PROVE Shows(y, r, hosts, recs)
    <3>1. ProxiesOf(r) \subseteq Proxies /\ DnsOf(r) \subseteq Dns
      BY <1>5, RowFields DEF ProxiesOf, DnsOf, Some
    <3>2. rows[sid] = r /\ y.todo = PushPlan(r, sid, Proxies \cup Dns, ip, 100)
          /\ ~NoTarget(r, sid, Proxies \cup Dns, ip)
      BY <1>4, <1>7
    <3> HIDE DEF r
    <3> QED BY <1>5, <2>3, <3>1, <3>2, PushShows
  <2> HIDE DEF r
  <2> QED BY <1>3, <1>5, <2>1, <2>2, <2>3, StepAnswers DEF Good, Wants
<1> QED BY <1>6, <1>7

\* A POST leads to its primaries at once, and to the others once its row is there.
LEMMA AddOpens ==
    ASSUME IInv, Alone, NEW s \in Sessions, AddService(s)
    PROVE  AnswersInv'
<1>1. PICK b \in Bodies :
        Start(s, Opening("add", None, None, b, None,
               {Then("insert", 30), Then("extras", 90)} \cup
               IF ~b.enabled THEN {}
               ELSE {OnProxy("create", p, b.host, None, 10) : p \in Some(b.proxy)}
                    \cup {OnDns("add", d, b.host, b.ip, 20) : d \in Some(b.dns)}))
  BY DEF AddService
<1> DEFINE calls == IF ~b.enabled THEN {}
                    ELSE {OnProxy("create", p, b.host, None, 10) : p \in Some(b.proxy)}
                         \cup {OnDns("add", d, b.host, b.ip, 20) : d \in Some(b.dns)}
           insert == Then("insert", 30)
           extras == Then("extras", 90)
           todo == {insert, extras} \cup calls
           y == Opening("add", None, None, b, None, todo)
<1>2. b \in Row /\ SessionsOK /\ UNCHANGED <<hosts, recs, rows>>
  BY PublicationAssumption DEF IInv, AddService, provVars
<1>3. /\ insert.do = "insert" /\ insert.stage = 30
      /\ extras.do = "extras" /\ extras.stage = 90
  BY ThenTask DEF Decisions
<1>4. \A u \in calls : /\ u.do \in {"create", "add"} /\ u.host = b.host
                       /\ u.stage \in {10, 20}
                       /\ u.do = "create" => u = OnProxy("create", b.proxy, b.host, None, 10)
  BY DEF OnProxy, OnDns, Do, Some
<1>5. b.enabled => /\ \A p \in Some(b.proxy) : \E u \in calls : u.do = "create" /\ u.at = p
                   /\ \A d \in Some(b.dns) : \E u \in calls : u.do = "add" /\ u.at = d
  <2> SUFFICES ASSUME b.enabled
               PROVE  /\ \A p \in Some(b.proxy) : \E u \in calls : u.do = "create" /\ u.at = p
                      /\ \A d \in Some(b.dns) : \E u \in calls : u.do = "add" /\ u.at = d
    OBVIOUS
  <2>1. \A p : /\ OnProxy("create", p, b.host, None, 10).do = "create"
               /\ OnProxy("create", p, b.host, None, 10).at = p
    BY DEF OnProxy, Do
  <2>2. \A d : /\ OnDns("add", d, b.host, b.ip, 20).do = "add"
               /\ OnDns("add", d, b.host, b.ip, 20).at = d
    BY DEF OnDns, Do
  <2> QED BY <2>1, <2>2
<1>6. Start(s, y)
  BY <1>1
<1> HIDE DEF calls, insert, extras
<1>7. y.op = "add" /\ y.sid = None /\ y.new = b /\ y.todo = {insert, extras} \cup calls
  BY OpenedAs
<1> HIDE DEF y
<1>8. Shape(y)
  <2>1. "create" \in Calls /\ "add" \in Calls
    BY DEF Calls, OnHosts, OnRecords
  <2>2. \A u \in y.todo : u.do \in Calls \cup {"insert", "extras", "aim", "settle", "journal"}
    BY <1>3, <1>4, <1>7, <2>1
  <2>3. \A u, v \in y.todo : u.do = "insert" /\ v.do = "insert" => u = v
    BY <1>3, <1>4, <1>7
  <2>4. \A u, v \in y.todo : u.do = "extras" => u.stage > 0 /\ (v # u => v.stage < u.stage)
    BY <1>3, <1>4, <1>7
  <2>5. \E u \in y.todo : u.do = "insert"
    BY <1>3, <1>7
  <2> QED BY <1>7, <2>2, <2>3, <2>4, <2>5 DEF Shape
<1>9. About(y, rows') = b
  BY <1>7 DEF About
<1>10. ASSUME b.enabled PROVE Shows(y, b, hosts, recs)
  <2>1. \A u \in y.todo : Fits(u, b.host, hosts)
    BY <1>3, <1>4, <1>7 DEF Fits, OnHosts, OnRecords, ShowHost, ShowRecord
  <2>2. OnePerProxy(y.todo)
    BY <1>3, <1>4, <1>7 DEF OnePerProxy, OnHosts
  <2>3. \A p \in ProxiesOf(b) : OnTheWay(y, ShowHost, p, b.xproxies)
    BY <1>3, <1>5, <1>7, <1>10 DEF ProxiesOf, OnTheWay, ShowHost
  <2>4. \A d \in DnsOf(b) : OnTheWay(y, ShowRecord, d, b.xdns)
    BY <1>3, <1>5, <1>7, <1>10 DEF DnsOf, OnTheWay, ShowRecord
  <2> QED BY <2>1, <2>2, <2>3, <2>4 DEF Shows
<1> QED BY <1>2, <1>6, <1>8, <1>9, <1>10, StepAnswers DEF Good, Wants

(***************************************************************************)
(* The invariant.                                                          *)
(***************************************************************************)
\* Nobody has asked for anything.
LEMMA InitAnswers == Init => AnswersInv
BY DEF Init, AnswersInv, Good, Answering, NoSession

\* A turn, whoever has it.
LEMMA WorkAnswers ==
    ASSUME IInv, HostsOK, AnswersInv, Alone, NEW s \in Sessions, Work(s)
    PROVE  AnswersInv'
<1>1. PICK t \in NextTasks(s) :
        \/ FindHost(s, t) \/ RenewHost(s, t) \/ CreateNewHost(s, t)
        \/ ResumeHost(s, t) \/ SuspendHost(s, t) \/ ScrapHost(s, t)
        \/ SeekHost(s, t) \/ DropHost(s, t)
        \/ ReadRecord(s, t) \/ SwapRecord(s, t) \/ AddRecord(s, t)
        \/ PointRecord(s, t) \/ MoveRecord(s, t) \/ UnmoveRecord(s, t)
        \/ LookRecord(s, t) \/ QuitRecord(s, t) \/ CheckKept(s, t)
        \/ InsertRow(s, t) \/ WriteRow(s, t) \/ CommitRow(s, t) \/ Settle(s, t)
        \/ TakeLock(s, t) \/ GiveUp(s, t)
        \/ FollowExtras(s, t) \/ RemoveRow(s, t)
        \/ NextInBatch(s, t) \/ FlipPrimaries(s, t)
  BY DEF Work
<1>2. Turn(s, t)
  BY DEF Turn
<1>3. CASE ~Answering(ses[s])
  <2>1. OtherTurn(s, t)
    BY <1>2, <1>3 DEF OtherTurn
  <2> QED BY <1>1, <2>1, OtherCalls, OtherDecisions
<1>4. CASE Answering(ses[s])
  <2>1. AnswerTurn(s, t)
    BY <1>2, <1>4 DEF AnswerTurn
  \* No task of an answer is of a PUT, of a DELETE or of a bulk request.
  <2>2. t.do \notin {"point", "move", "unmove", "write", "commit", "remove", "next", "flip"}
    <3>1. t.do \in Calls \cup {"insert", "extras", "aim", "settle", "journal"}
      BY <2>1, AnswerFacts DEF Shape
    <3> QED BY <3>1 DEF Calls, OnHosts, OnRecords
  <2>3. \/ FindHost(s, t) \/ RenewHost(s, t) \/ CreateNewHost(s, t) \/ ResumeHost(s, t)
        \/ ReadRecord(s, t) \/ SwapRecord(s, t) \/ AddRecord(s, t) \/ LookRecord(s, t)
        \/ SuspendHost(s, t) \/ ScrapHost(s, t) \/ SeekHost(s, t) \/ DropHost(s, t)
        \/ QuitRecord(s, t) \/ CheckKept(s, t)
        \/ InsertRow(s, t) \/ Settle(s, t) \/ TakeLock(s, t) \/ GiveUp(s, t) \/ FollowExtras(s, t)
    BY <1>1, <2>2 DEF PointRecord, MoveRecord, UnmoveRecord, WriteRow, CommitRow, RemoveRow,
                      NextInBatch, FlipPrimaries
  <2> QED BY <2>1, <2>3, FindHostGood, RenewHostGood, CreateNewHostGood, ResumeHostGood,
             ReadRecordGood, SwapRecordGood, AddRecordGood, LookRecordGood, WithdrawnGood,
             InsertRowGood, SettleGood, LockGood, FollowExtrasGood
<1> QED BY <1>3, <1>4

\* Every step leaves the answers good, where requests come one at a time.
LEMMA NextAnswers == Alone /\ IInv /\ HostsOK /\ AnswersInv /\ [Next]_vars => AnswersInv'
<1> SUFFICES ASSUME Alone, IInv, HostsOK, AnswersInv, [Next]_vars PROVE AnswersInv'
  OBVIOUS
<1>1. CASE UNCHANGED vars
  <2>1. UNCHANGED <<ses, rows, hosts, recs>>
    BY <1>1 DEF vars, provVars
  <2> QED BY <2>1 DEF AnswersInv
<1>2. ASSUME NEW s \in Sessions, Handle(s) PROVE AnswersInv'
  <2>1. SessionsOK
    BY DEF IInv
  <2> QED BY <1>2, <2>1, OthersOpen, PushOpens, AddOpens DEF Handle
<1> QED BY <1>1, <1>2, WorkAnswers DEF Next

\* An answer without an error, once nothing is left to do, is a target served.
LEMMA AnswersConverge == IInv /\ AnswersInv => CleanAnswerConverges
<1> SUFFICES ASSUME IInv, AnswersInv, NEW s \in Sessions, Quiet, Answering(ses[s]),
                    rows[ses[s].sid] # None, rows[ses[s].sid].enabled
             PROVE  DriftOk(rows[ses[s].sid])
  BY DEF CleanAnswerConverges, Answering
<1> DEFINE x == ses[s]
           r == rows[x.sid]
<1>1. x.todo = {} /\ Shape(x) /\ (Wants(About(x, rows)) => Shows(x, About(x, rows), hosts, recs))
  BY DEF Quiet, Idle, AnswersInv, Good
<1>2. x.sid # None
  BY <1>1 DEF Shape
<1>3. Shows(x, r, hosts, recs)
  BY <1>1, <1>2 DEF About, Wants
<1>4. \A p \in ProxiesOf(r) : AllOn(hosts, p, r.host)
  BY <1>1, <1>3 DEF Shows, OnTheWay
<1>5. \A d \in DnsOf(r) : Pointed(recs, d, r.host)
  BY <1>1, <1>3 DEF Shows, OnTheWay
<1> HIDE DEF r
<1>6. \A p \in ProxiesOf(r) : Named(p, r.host) # {} /\ \A a \in Named(p, r.host) : a.on
  BY <1>4 DEF AllOn, Named
<1>7. \A d \in DnsOf(r) : Answers(d, r.host) # {}
  BY <1>5 DEF Pointed, Answers
<1>8. r.enabled
  BY DEF r
<1> QED BY <1>6, <1>7, <1>8 DEF DriftOk, r

\* However a proxy is called, lost or repeated, it never holds two hosts of
\* one name or of one id.
THEOREM HostsStayDistinct == Spec => []HostsOK
BY InitOK, NextOK, InitHosts, NextHosts, PTL DEF Spec

\* A push or a POST that answers without an error has published what the row
\* it is about asks for, whatever was there before and whichever calls failed.
THEOREM CleanAnswersConverge == ASSUME Alone PROVE Spec => []CleanAnswerConverges
<1>1. IInv /\ HostsOK /\ AnswersInv /\ [Next]_vars => AnswersInv'
  BY NextAnswers
<1> QED BY <1>1, InitOK, NextOK, InitHosts, NextHosts, InitAnswers, AnswersConverge, PTL DEF Spec

=============================================================================
