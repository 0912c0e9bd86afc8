-------------------------- MODULE PublicationProofs --------------------------
(***************************************************************************)
(* What holds of Publication for every number of services, sessions and    *)
(* providers, and for every bound.                                         *)
(*                                                                         *)
(* The inductive invariant is TypeOK with SessionsOK: the tasks a session  *)
(* has left name what their call needs -- a host task its proxy, its name  *)
(* and, where it works by id, the id --, the commit of an edit has the row *)
(* it was read from, and what a session wrote is a row.                    *)
(***************************************************************************)
EXTENDS Publication, TLAPS

(***************************************************************************)
(* The provider calls keep the providers well typed.                       *)
(***************************************************************************)
\* A fault uses up one of the faults the bound allows.
LEMMA FaultType ==
    ASSUME ProvidersTypeOK, Fault
    PROVE  faults' \in 0 .. Faults
BY ProvidersAssumption DEF ProvidersTypeOK, Fault

\* A call to a proxy that leaves hosts in it, or none, leaves well-typed providers.
LEMMA ProxyCallType ==
    ASSUME ProvidersTypeOK,
           NEW p \in Proxies, NEW can, NEW after \in SUBSET Host, NEW ok,
           ProxyCall(p, can, after, ok)
    PROVE  ProvidersTypeOK'
<1>1. hosts' \in [Proxies -> SUBSET Host]
  BY DEF ProvidersTypeOK, ProxyCall
<1>2. recs' \in [Dns -> SUBSET (Hosts \X Ips)]
  BY DEF ProvidersTypeOK, ProxyCall
<1>3. faults' \in 0 .. Faults
  BY FaultType DEF ProvidersTypeOK, ProxyCall
<1> QED BY <1>1, <1>2, <1>3 DEF ProvidersTypeOK

\* So does the creation of a host,
LEMMA CreateHostType ==
    ASSUME ProvidersTypeOK, NEW p \in Proxies, NEW h \in Hosts, NEW id \in Ids, NEW ok,
           CreateHost(p, h, id, ok)
    PROVE  ProvidersTypeOK'
<1> DEFINE after == (hosts[p] \ Named(p, h)) \cup {[id |-> id, host |-> h, on |-> TRUE]}
<1>1. after \in SUBSET Host
  <2>1. hosts[p] \in SUBSET Host
    BY DEF ProvidersTypeOK
  <2>2. [id |-> id, host |-> h, on |-> TRUE] \in Host
    BY DEF Host
  <2> QED BY <2>1, <2>2
<1>2. ProxyCall(p, p \in Upsert \/ Named(p, h) = {}, after, ok)
  BY DEF CreateHost
<1> QED BY <1>1, <1>2, ProxyCallType

\* its renewal under a known id,
LEMMA UpdateHostType ==
    ASSUME ProvidersTypeOK, NEW p \in Proxies, NEW h \in Hosts, NEW id \in Ids, NEW ok,
           UpdateHost(p, id, h, ok)
    PROVE  ProvidersTypeOK'
<1> DEFINE rule == {[id |-> h, host |-> h, on |-> TRUE]}
           upserted == (hosts[p] \ (WithId(p, id) \cup Named(p, h))) \cup rule
           renamed == (hosts[p] \ WithId(p, id)) \cup
                    {[id |-> IF p \in HostKeyed THEN h ELSE id, host |-> h, on |-> x.on]
                        : x \in WithId(p, id)}
           half == /\ hosts' = [hosts EXCEPT ![p] = IF ok THEN (@ \ Named(p, h)) \cup rule
                                                    ELSE @ \ WithId(p, id)]
                   /\ UNCHANGED recs
                   /\ Fault
<1>1. rule \in SUBSET Host /\ hosts[p] \in SUBSET Host
  BY DEF ProvidersTypeOK, Host, Ids
<1>2. upserted \in SUBSET Host
  BY <1>1
<1>3. renamed \in SUBSET Host
  BY <1>1 DEF WithId, Host, Ids
<1>4. \/ ProxyCall(p, TRUE, upserted, ok)
      \/ half
      \/ ProxyCall(p, WithId(p, id) # {} /\ Named(p, h) \subseteq WithId(p, id), renamed, ok)
  BY DEF UpdateHost
<1>5. ASSUME half PROVE ProvidersTypeOK'
  <2>1. hosts' \in [Proxies -> SUBSET Host]
    BY <1>1, <1>5 DEF ProvidersTypeOK
  <2> QED BY <1>5, <2>1, FaultType DEF ProvidersTypeOK
<1> HIDE DEF upserted, renamed, half
<1> QED BY <1>2, <1>3, <1>4, <1>5, ProxyCallType

\* its suspension or resumption,
LEMMA ToggleHostType ==
    ASSUME ProvidersTypeOK, NEW p \in Proxies, NEW id, NEW on \in BOOLEAN, NEW ok,
           ToggleHost(p, id, on, ok)
    PROVE  ProvidersTypeOK'
<1> DEFINE after == (hosts[p] \ WithId(p, id)) \cup {[x EXCEPT !.on = on] : x \in WithId(p, id)}
<1>1. after \in SUBSET Host
  BY DEF ProvidersTypeOK, WithId, Host
<1>2. ProxyCall(p, WithId(p, id) # {}, after, ok)
  BY DEF ToggleHost
<1> QED BY <1>1, <1>2, ProxyCallType

\* and its deletion.
LEMMA DeleteHostType ==
    ASSUME ProvidersTypeOK, NEW p \in Proxies, NEW id, NEW ok, DeleteHost(p, id, ok)
    PROVE  ProvidersTypeOK'
<1>1. hosts[p] \ WithId(p, id) \in SUBSET Host
  BY DEF ProvidersTypeOK
<1>2. ProxyCall(p, p \in Upsert \/ WithId(p, id) # {}, hosts[p] \ WithId(p, id), ok)
  BY DEF DeleteHost
<1> QED BY <1>1, <1>2, ProxyCallType

\* Reading a provider changes nothing but the faults left.
LEMMA ListingType ==
    ASSUME ProvidersTypeOK, NEW ok, Listing(ok)
    PROVE  ProvidersTypeOK'
BY FaultType DEF ProvidersTypeOK, Listing

\* A call to a DNS server that leaves records in it leaves well-typed providers.
LEMMA RecordCallType ==
    ASSUME ProvidersTypeOK,
           NEW d \in Dns, NEW after \in SUBSET (Hosts \X Ips), NEW ok,
           RecordCall(d, after, ok)
    PROVE  ProvidersTypeOK'
<1>1. recs' \in [Dns -> SUBSET (Hosts \X Ips)]
  BY DEF ProvidersTypeOK, RecordCall
<1> QED BY <1>1, FaultType DEF ProvidersTypeOK, RecordCall

\* So does the addition of a record,
LEMMA AddRewriteType ==
    ASSUME ProvidersTypeOK, NEW d \in Dns, NEW h \in Hosts, NEW ip \in Ips, NEW ok,
           AddRewrite(d, h, ip, ok)
    PROVE  ProvidersTypeOK'
<1> DEFINE after == {r \in recs[d] : ~(d \in Upsert /\ r[1] = h)} \cup {<<h, ip>>}
<1>1. after \in SUBSET (Hosts \X Ips)
  BY DEF ProvidersTypeOK
<1>2. RecordCall(d, after, ok)
  BY DEF AddRewrite
<1> QED BY <1>1, <1>2, RecordCallType

\* and its deletion.
LEMMA DeleteRewriteType ==
    ASSUME ProvidersTypeOK, NEW d \in Dns, NEW h, NEW ip, NEW ok, DeleteRewrite(d, h, ip, ok)
    PROVE  ProvidersTypeOK'
<1>1. recs[d] \ {<<h, ip>>} \in SUBSET (Hosts \X Ips)
  BY DEF ProvidersTypeOK
<1>2. CASE RecordCall(d, recs[d] \ {<<h, ip>>}, ok)
  BY <1>1, <1>2, RecordCallType
<1>3. CASE UNCHANGED provVars
  BY <1>3 DEF ProvidersTypeOK, provVars
<1> QED BY <1>2, <1>3 DEF DeleteRewrite


(***************************************************************************)
(* The inductive invariant: a session is grounded when what it has still   *)
(* to do finds the rows it works on.  A task that reads the old row, the   *)
(* new row or the id of the service is only ever queued where they are     *)
(* known; POST alone learns the id on its way, at its INSERT.              *)
(***************************************************************************)
Grounded(x) ==
    \A t \in x.todo :
        /\ t.do \in {"point", "move", "flip", "write", "commit"} => x.old \in Row
        /\ t.do \in {"insert", "write", "commit"} => x.new \in Row
        /\ t.do \in {"write", "commit"} => x.sid \in Services
        /\ t.do = "extras" =>
             \/ x.sid \in Services
             \/ \E u \in x.todo : u.do = "insert" /\ u.stage < t.stage

Sound(x) == x \in Session /\ Grounded(x)

SessionsOK == ses \in [Sessions -> Session] /\ \A s \in Sessions : Grounded(ses[s])

IInv == TypeOK /\ SessionsOK

\* The tasks that ask nothing of their session.
Plain == {t \in Task : t.do \notin {"point", "move", "flip", "write", "commit",
                                   "insert", "extras"}}

\* A session that ends a task, other than the INSERT, and takes up plain ones
\* stays sound, whatever it learned on the way.
LEMMA StepSound ==
    ASSUME NEW x, Sound(x), NEW t \in x.todo, t.do # "insert",
           NEW more \in SUBSET Plain, NEW y \in Session,
           y.todo = (x.todo \ {t}) \cup more,
           y.old \in {x.old} \cup Row, y.new \in {x.new} \cup Row,
           y.sid \in {x.sid} \cup Services
    PROVE  Sound(y)
<1> SUFFICES ASSUME NEW u \in y.todo
             PROVE  /\ u.do \in {"point", "move", "flip", "write", "commit"} => y.old \in Row
                    /\ u.do \in {"insert", "write", "commit"} => y.new \in Row
                    /\ u.do \in {"write", "commit"} => y.sid \in Services
                    /\ u.do = "extras" =>
                         \/ y.sid \in Services
                         \/ \E v \in y.todo : v.do = "insert" /\ v.stage < u.stage
  BY DEF Sound, Grounded
<1>1. CASE u \in x.todo
  BY <1>1 DEF Sound, Grounded
<1>2. CASE u \in more
  BY <1>2 DEF Plain
<1> QED BY <1>1, <1>2

\* A session that replaces a task by plain ones, which hang on no other, stays
\* sound, with or without an error to report.
LEMMA OverSound ==
    ASSUME NEW x, Sound(x), NEW t \in x.todo, t.do # "insert",
           NEW more \in SUBSET Plain
    PROVE  /\ Over(x, t, more) \in Session
           /\ Sound(Over(x, t, more))
           /\ Sound([Over(x, t, more) EXCEPT !.err = TRUE])
<1>1. Over(x, t, more) \in Session /\ [Over(x, t, more) EXCEPT !.err = TRUE] \in Session
  BY DEF Over, Sound, Session, Plain
<1>2. /\ Over(x, t, more).todo = (x.todo \ {t}) \cup more
      /\ Over(x, t, more).old = x.old
      /\ Over(x, t, more).new = x.new
      /\ Over(x, t, more).sid = x.sid
  BY DEF Over, Sound, Session
<1>3. /\ [Over(x, t, more) EXCEPT !.err = TRUE].todo = (x.todo \ {t}) \cup more
      /\ [Over(x, t, more) EXCEPT !.err = TRUE].old = x.old
      /\ [Over(x, t, more) EXCEPT !.err = TRUE].new = x.new
      /\ [Over(x, t, more) EXCEPT !.err = TRUE].sid = x.sid
  BY DEF Over, Sound, Session
<1> QED BY <1>1, <1>2, <1>3, StepSound

\* It may be left with a journal entry to write.
LEMMA JournalSound ==
    ASSUME NEW x, Sound(x)
    PROVE  Sound([x EXCEPT !.todo = @ \cup {Then("journal", 0)}])
<1> DEFINE j == Then("journal", 0)
           y == [x EXCEPT !.todo = @ \cup {j}]
<1>1. j \in Task /\ j.do = "journal"
  BY DEF Then, Do, Task, Decisions, OnHosts, OnRecords, ById, Removes, Publishes
<1>2. y \in Session
  BY <1>1 DEF Sound, Session
<1>3. y.todo = x.todo \cup {j} /\ y.old = x.old /\ y.new = x.new /\ y.sid = x.sid
  BY DEF Sound, Session
<1>4. Grounded(y)
  BY <1>1, <1>3 DEF Sound, Grounded
<1> QED BY <1>2, <1>4 DEF Sound

\* A session whose tasks are done goes back to rest, and is sound there.
LEMMA RestSound ==
    ASSUME NEW x, Sound(x)
    PROVE  Sound(Rest(x))
<1>1. CASE x.todo # {}
  BY <1>1 DEF Rest
<1>2. CASE x.todo = {}
  <2> DEFINE y == [NoSession EXCEPT !.op = x.op, !.sid = x.sid, !.err = x.err,
                                    !.old = IF x.op = "delete" THEN x.old ELSE None]
  <2>0. NoSession \in Session /\ NoSession.todo = {}
    BY DEF NoSession, Session, Ops
  <2>1. y \in Session
    <3>1. /\ x.op \in Ops /\ x.sid \in Services \cup {None} /\ x.err \in BOOLEAN
          /\ (IF x.op = "delete" THEN x.old ELSE None) \in Row \cup {None}
      BY DEF Sound, Session
    <3> QED BY <2>0, <3>1, ZenonT(60) DEF Session
  <2>2. y.todo = {}
    BY <2>0 DEF Session
  <2>3. Sound(y)
    BY <2>1, <2>2 DEF Sound, Grounded
  <2> QED BY <1>2, <2>3 DEF Rest
<1> QED BY <1>1, <1>2

\* A step that moves one session to a sound state keeps them all sound.
LEMMA AdvanceOK ==
    ASSUME SessionsOK, NEW s \in Sessions, NEW x, Sound(x), Advance(s, x)
    PROVE  SessionsOK'
BY RestSound DEF SessionsOK, Advance, Sound


(***************************************************************************)
(* A session s whose turn is task t, in a state of the invariant.          *)
(***************************************************************************)
Turn(s, t) == IInv /\ s \in Sessions /\ t \in NextTasks(s)

Named2 == (Proxies \cup Dns) \X Hosts

\* What a session whose turn it is knows of its next task.
LEMMA TurnFacts ==
    ASSUME NEW s, NEW t, Turn(s, t)
    PROVE  /\ s \in Sessions
           /\ ses[s] \in Session
           /\ Sound(ses[s])
           /\ t \in ses[s].todo
           /\ t \in Task
           /\ \A u \in ses[s].todo : t.stage <= u.stage
           /\ t.do \in OnHosts => t.at \in Proxies /\ t.host \in Hosts
           /\ t.do \in OnRecords => t.at \in Dns /\ t.host \in Hosts
           /\ t.do \in ById => t.id \in Ids
           /\ t.do \in Removes => t.id \in Ips
           /\ t.do \in Publishes => t.ip \in Ips
           /\ t.do = "look" => t.id \in Ips \cup {None}
           /\ ProvidersTypeOK
<1>1. s \in Sessions /\ ses[s] \in Session /\ Sound(ses[s]) /\ ProvidersTypeOK
  BY DEF Turn, IInv, TypeOK, SessionsOK, Sound
<1>2. t \in ses[s].todo /\ \A u \in ses[s].todo : t.stage <= u.stage
  BY DEF Turn, NextTasks
<1>3. t \in Task
  BY <1>1, <1>2 DEF Session
<1> QED BY <1>1, <1>2, <1>3 DEF Task

\* The answer of a provider, good or refused, leaves the sessions sound.
LEMMA ReplyOK ==
    ASSUME NEW s, NEW t, Turn(s, t), t.do \in OnHosts \cup OnRecords,
           NEW ok, NEW good, Sound(good), NEW carried \in SUBSET Named2,
           Reply(s, t, ok, good, carried)
    PROVE  /\ SessionsOK'
           /\ writer' \in Sessions \cup {None}
           /\ reported' \subseteq Named2
<1> DEFINE x       == ses[s]
           bad     == [Over(x, t, {}) EXCEPT !.err = TRUE]
           next    == IF ok THEN good ELSE bad
           delayed == [next EXCEPT !.todo = @ \cup {Then("journal", 0)}]
           told    == IF ok THEN carried
                      ELSE {t.at} \X ({t.host} \cup IF x.old = None THEN {} ELSE {x.old.host})
<1>1. t.do # "insert" /\ t.at \in Proxies \cup Dns /\ t.host \in Hosts
  BY TurnFacts DEF OnHosts, OnRecords
<1>2. Sound(next)
  BY <1>1, TurnFacts, OverSound
<1>3. Sound(delayed)
  BY <1>2, JournalSound
<1>4. told \subseteq Named2
  <2>1. x.old # None => x.old.host \in Hosts
    BY TurnFacts DEF Session, Row
  <2> QED BY <1>1, <2>1 DEF Named2
<1>5. reported' = reported \cup told
  BY DEF Reply
<1>6. Advance(s, delayed) \/ Advance(s, next)
  BY DEF Reply
<1>7. writer' = writer \/ writer' = s
  BY DEF Reply
<1>8. s \in Sessions /\ SessionsOK /\ reported \subseteq Named2 /\ writer \in Sessions \cup {None}
  BY DEF Turn, IInv, TypeOK, Named2
<1> HIDE DEF next, delayed, told
<1> QED BY <1>2, <1>3, <1>4, <1>5, <1>6, <1>7, <1>8, AdvanceOK

\* So an answered call keeps the whole invariant.
LEMMA AnsweredOK ==
    ASSUME NEW s, NEW t, Turn(s, t), t.do \in OnHosts \cup OnRecords,
           NEW ok, NEW good, Sound(good), Answered(s, t, ok, good), ProvidersTypeOK'
    PROVE  IInv'
<1>1. /\ SessionsOK'
      /\ writer' \in Sessions \cup {None}
      /\ reported' \subseteq Named2
  BY ReplyOK DEF Answered
<1>2. UNCHANGED <<rows, requests, unsaid>>
  BY DEF Answered
<1> QED BY <1>1, <1>2 DEF Turn, IInv, TypeOK, SessionsOK, Named2

\* A session that ends its task with plain ones to follow.
LEMMA FollowOK ==
    ASSUME NEW s, NEW t, Turn(s, t), t.do \in OnHosts \cup OnRecords,
           NEW ok, NEW more \in SUBSET Plain, Answered(s, t, ok, Over(ses[s], t, more)),
           ProvidersTypeOK'
    PROVE  IInv'
<1>1. t.do # "insert"
  BY DEF OnHosts, OnRecords
<1>2. Sound(Over(ses[s], t, more))
  BY <1>1, OverSound, TurnFacts
<1> QED BY <1>2, AnsweredOK

\* The task that After makes of a call is plain where it is addressed.
LEMMA AfterFields ==
    ASSUME NEW t \in Task, NEW do \in OnHosts \cup OnRecords, NEW id \in Ids \cup Ips \cup {None},
           do \notin {"point", "move", "look"},
           do \in OnHosts => t.do \in OnHosts,
           do \in OnRecords => t.do \in OnRecords,
           do \in ById => id \in Ids,
           do \in Removes => id \in Ips,
           do \in Publishes => t.ip \in Ips
    PROVE  /\ After(t, do, id) \in Plain
           /\ After(t, do, id).do = do
           /\ After(t, do, id).at = t.at
           /\ After(t, do, id).id = id
<1> DEFINE All == [do : OnHosts \cup OnRecords \cup Decisions,
                   at : Proxies \cup Dns \cup {None}, host : Hosts \cup {None},
                   ip : Ips \cup {None}, id : Ids \cup Ips \cup {None}, stage : Int]
           u   == After(t, do, id)
<1>0. t \in All
  BY DEF Task
<1>1. u.do = do /\ u.id = id /\ u.at = t.at /\ u.host = t.host /\ u.ip = t.ip /\ u \in All
  <2>1. t.stage - 1 \in Int /\ do \in OnHosts \cup OnRecords \cup Decisions
    BY <1>0
  <2>2. u = [[[t EXCEPT !.do = do] EXCEPT !.id = id] EXCEPT !.stage = t.stage - 1]
    BY <1>0 DEF After
  <2>3. u \in All
    BY <1>0, <2>1, <2>2
  <2>4. u.do = do /\ u.id = id /\ u.at = t.at /\ u.host = t.host /\ u.ip = t.ip
    BY <1>0, <2>2
  <2> QED BY <2>3, <2>4
<1>3. /\ t.do \in OnHosts => t.at \in Proxies /\ t.host \in Hosts
      /\ t.do \in OnRecords => t.at \in Dns /\ t.host \in Hosts
  BY DEF Task
<1>2. do \notin {"flip", "write", "commit", "insert", "extras"}
  BY DEF OnHosts, OnRecords
<1>4. u \in Task
  BY <1>1, <1>3 DEF Task
<1> QED BY <1>1, <1>2, <1>4 DEF Plain


\* Noting the id of a host in the session keeps it sound.
LEMMA HidSound ==
    ASSUME NEW x, Sound(x), NEW t \in x.todo, t.do # "insert",
           NEW more \in SUBSET Plain, NEW hid \in Ids \cup {None}
    PROVE  Sound([Over(x, t, more) EXCEPT !.hid = hid])
<1> DEFINE y == [Over(x, t, more) EXCEPT !.hid = hid]
<1>1. y \in Session
  <2>1. Over(x, t, more) \in Session
    BY OverSound
  <2> QED BY <2>1 DEF Session
<1>2. y.todo = (x.todo \ {t}) \cup more /\ y.old = x.old /\ y.new = x.new /\ y.sid = x.sid
  BY DEF Over, Sound, Session
<1> QED BY <1>1, <1>2, StepSound

(***************************************************************************)
(* One lemma per action: a turn keeps the invariant.                       *)
(***************************************************************************)
LEMMA HostIds ==
    ASSUME ProvidersTypeOK, NEW p \in Proxies, NEW x \in hosts[p]
    PROVE  x.id \in Ids /\ x.host \in Hosts
BY DEF ProvidersTypeOK, Host

\* Looking a host up by its name keeps the invariant.
LEMMA FindHostOK ==
    ASSUME NEW s, NEW t, Turn(s, t), FindHost(s, t)
    PROVE  IInv'
<1> DEFINE more == IF Named(t.at, t.host) = {} THEN {After(t, "create", None)}
                   ELSE {After(t, "renew", x.id) : x \in Named(t.at, t.host)}
<1>1. t.do = "find" /\ t.do \in OnHosts /\ t \in Task /\ t.at \in Proxies
  BY TurnFacts DEF FindHost, OnHosts
<1>2. PICK ok \in BOOLEAN : Listing(ok) /\ Answered(s, t, ok, Over(ses[s], t, more))
  BY DEF FindHost
<1>3. more \in SUBSET Plain
  <2>1. After(t, "create", None) \in Plain
    BY <1>1, AfterFields DEF OnHosts, OnRecords, ById, Removes, Publishes
  <2>2. ASSUME NEW x \in Named(t.at, t.host) PROVE After(t, "renew", x.id) \in Plain
    <3>1. x.id \in Ids
      BY <1>1, HostIds, TurnFacts DEF Named
    <3> QED BY <1>1, <3>1, AfterFields DEF OnHosts, OnRecords, ById, Removes, Publishes
  <2> QED BY <2>1, <2>2
<1>4. ProvidersTypeOK'
  BY <1>2, TurnFacts, ListingType
<1> QED BY <1>1, <1>2, <1>3, <1>4, FollowOK

\* Renewing a published host keeps the invariant.
LEMMA RenewHostOK ==
    ASSUME NEW s, NEW t, Turn(s, t), RenewHost(s, t)
    PROVE  IInv'
<1> DEFINE more == IF Resumes(t) THEN {After(t, "resume", t.id)} ELSE {}
           hid  == IF t.at # ses[s].new.proxy THEN Over(ses[s], t, more).hid
                   ELSE IF t.at \in HostKeyed THEN t.host ELSE t.id
           done == [Over(ses[s], t, more) EXCEPT !.hid = hid]
           was  == {x.host : x \in WithId(t.at, t.id)}
           left == {x.host : x \in WithId(t.at, t.id) \cap hosts'[t.at]} \ {t.host}
           carried == IF ({t.at} \X was) \cap reported = {} THEN {} ELSE {<<t.at, t.host>>}
<1>1. /\ t.do = "renew" /\ t.do \in OnHosts /\ t.do \in ById /\ t \in Task
      /\ t.at \in Proxies /\ t.host \in Hosts /\ t.id \in Ids
  BY TurnFacts DEF RenewHost, OnHosts, ById
<1>2. PICK ok \in BOOLEAN :
        /\ UpdateHost(t.at, t.id, t.host, ok)
        /\ Reply(s, t, ok, done, carried)
        /\ unsaid' = IF ok THEN unsaid \cup ({t.at} \X left) ELSE unsaid
  BY DEF RenewHost
<1>3. more \in SUBSET Plain
  BY <1>1, AfterFields DEF OnHosts, OnRecords, ById, Removes, Publishes
<1>4. hid \in Ids \cup {None}
  BY <1>1, <1>3, TurnFacts, OverSound DEF Session, Ids
<1>5. Sound(done)
  BY <1>1, <1>3, <1>4, TurnFacts, HidSound
<1>6. carried \in SUBSET Named2
  BY <1>1 DEF Named2
<1>7. ProvidersTypeOK'
  BY <1>1, <1>2, TurnFacts, UpdateHostType
<1>8. /\ SessionsOK'
      /\ writer' \in Sessions \cup {None}
      /\ reported' \subseteq Named2
  <2> HIDE DEF done, carried
  <2> QED BY <1>1, <1>2, <1>5, <1>6, ReplyOK
<1>9. unsaid' \subseteq Named2
  <2>1. left \subseteq Hosts
    BY <1>1, HostIds, TurnFacts DEF WithId
  <2>2. unsaid \subseteq Named2
    BY DEF Turn, IInv, TypeOK, Named2
  <2> QED BY <1>1, <1>2, <2>1, <2>2 DEF Named2
<1>10. UNCHANGED <<rows, requests>>
  BY DEF RenewHost
<1> QED BY <1>7, <1>8, <1>9, <1>10 DEF Turn, IInv, TypeOK, SessionsOK, Named2

\* published_on names providers.
LEMMA WentNames ==
    ASSUME NEW x \in Session, NEW p \in Proxies \cup Dns
    PROVE  Went(x, p) \in SUBSET (Proxies \cup Dns)
BY DEF Went, Session

\* Noting where a POST has published keeps a session sound.
LEMMA SentSound ==
    ASSUME NEW x, Sound(x), NEW sent \in SUBSET (Proxies \cup Dns)
    PROVE  Sound([x EXCEPT !.sent = sent])
<1> DEFINE y == [x EXCEPT !.sent = sent]
<1>1. x \in Session
  BY DEF Sound
<1>2. y \in Session
  BY <1>1 DEF Session
<1>3. y.todo = x.todo /\ y.old = x.old /\ y.new = x.new /\ y.sid = x.sid
  BY <1>1 DEF Session
<1>4. Grounded(y)
  BY <1>3 DEF Sound, Grounded
<1> QED BY <1>2, <1>4 DEF Sound

\* An addition leaves the session as it was, but for the task that is over and
\* the list of what was published.
LEMMA AddedFields ==
    ASSUME NEW x \in Session, NEW t, t.at \in Proxies \cup Dns
    PROVE  LET y == [Over(x, t, {}) EXCEPT !.sent = Went(x, t.at)]
           IN  /\ y \in Session /\ y.op = x.op /\ y.sid = x.sid /\ y.new = x.new
               /\ y.todo = (x.todo \ {t}) \cup {}
<1> DEFINE sent == Went(x, t.at)
<1>1. sent \in SUBSET (Proxies \cup Dns)
  BY WentNames
<1> HIDE DEF sent
<1> DEFINE y == [Over(x, t, {}) EXCEPT !.sent = sent]
<1>2. /\ y \in Session /\ y.op = x.op /\ y.sid = x.sid /\ y.new = x.new
      /\ y.todo = (x.todo \ {t}) \cup {}
  BY <1>1 DEF Over, Session
<1> QED BY <1>2 DEF sent

\* Creating a host keeps the invariant.
LEMMA CreateNewHostOK ==
    ASSUME NEW s, NEW t, Turn(s, t), CreateNewHost(s, t)
    PROVE  IInv'
<1>1. t.do = "create" /\ t.do \in OnHosts /\ t.at \in Proxies /\ t.host \in Hosts
  BY TurnFacts DEF CreateNewHost, OnHosts
<1>2. PICK ok \in BOOLEAN, id \in IF t.at \in HostKeyed THEN {t.host} ELSE FreeIds(t.at) :
        /\ CreateHost(t.at, t.host, id, ok)
        /\ Answered(s, t, ok, [Over(ses[s], t, {}) EXCEPT
               !.hid = IF t.at = ses[s].new.proxy THEN id ELSE @,
               !.sent = Went(ses[s], t.at)])
  BY DEF CreateNewHost
<1>3. id \in Ids
  BY <1>1 DEF FreeIds, Ids
<1> DEFINE hid  == IF t.at = ses[s].new.proxy THEN id ELSE Over(ses[s], t, {}).hid
           done == [Over(ses[s], t, {}) EXCEPT !.hid = hid, !.sent = Went(ses[s], t.at)]
<1>4. hid \in Ids \cup {None}
  BY <1>1, <1>3, TurnFacts, OverSound DEF Session
<1>5. Sound(done)
  <2>1. Sound([Over(ses[s], t, {}) EXCEPT !.hid = hid])
    BY <1>1, <1>4, TurnFacts, HidSound
  <2>2. Went(ses[s], t.at) \in SUBSET (Proxies \cup Dns)
    BY <1>1, TurnFacts, WentNames
  <2>3. Over(ses[s], t, {}) \in Session
    BY <1>1, TurnFacts, OverSound
  <2> HIDE DEF hid
  <2>4. done = [[Over(ses[s], t, {}) EXCEPT !.hid = hid] EXCEPT !.sent = Went(ses[s], t.at)]
    OBVIOUS
  <2> QED BY <2>1, <2>2, <2>4, SentSound
<1>6. ProvidersTypeOK'
  BY <1>1, <1>2, <1>3, TurnFacts, CreateHostType
<1>7. Answered(s, t, ok, done)
  BY <1>2
<1> HIDE DEF done
<1> QED BY <1>1, <1>5, <1>6, <1>7, AnsweredOK

\* Resuming a suspended host keeps the invariant.
LEMMA ResumeHostOK ==
    ASSUME NEW s, NEW t, Turn(s, t), ResumeHost(s, t)
    PROVE  IInv'
<1>1. t.do = "resume" /\ t.do \in OnHosts /\ t.at \in Proxies
  BY TurnFacts DEF ResumeHost, OnHosts
<1>2. PICK ok \in BOOLEAN : Answered(s, t, ok, Over(ses[s], t, {}))
                           /\ (ToggleHost(t.at, t.id, TRUE, ok) \/ UNCHANGED provVars)
  BY DEF ResumeHost
<1>3. ProvidersTypeOK'
  BY <1>1, <1>2, TurnFacts, ToggleHostType DEF ProvidersTypeOK, provVars
<1> QED BY <1>1, <1>2, <1>3, FollowOK

\* Suspending a host keeps the invariant.
LEMMA SuspendHostOK ==
    ASSUME NEW s, NEW t, Turn(s, t), SuspendHost(s, t)
    PROVE  IInv'
<1>1. t.do = "suspend" /\ t.do \in OnHosts /\ t.do \in ById /\ t \in Task
      /\ t.at \in Proxies /\ t.id \in Ids
  BY TurnFacts DEF SuspendHost, OnHosts, ById
<1>2. Instead(t) \in SUBSET Plain
  BY <1>1, AfterFields DEF Instead, OnHosts, OnRecords, ById, Removes, Publishes
<1>3. PICK ok \in BOOLEAN, more \in SUBSET Plain :
        /\ Answered(s, t, ok, Over(ses[s], t, more))
        /\ ToggleHost(t.at, t.id, FALSE, ok) \/ UNCHANGED provVars
  <2>1. CASE t.at \in Suspending
    <3>1. PICK ok \in BOOLEAN : /\ ToggleHost(t.at, t.id, FALSE, ok)
                               /\ Answered(s, t, ok, Over(ses[s], t, {}))
      BY <2>1 DEF SuspendHost
    <3>2. {} \in SUBSET Plain
      OBVIOUS
    <3> QED BY <3>1, <3>2
  <2>2. CASE t.at \notin Suspending
    <3>1. UNCHANGED provVars /\ Answered(s, t, TRUE, Over(ses[s], t, Instead(t)))
      BY <2>2 DEF SuspendHost
    <3> QED BY <1>2, <3>1
  <2> QED BY <2>1, <2>2
<1>4. ProvidersTypeOK'
  BY <1>1, <1>3, TurnFacts, ToggleHostType DEF ProvidersTypeOK, provVars
<1> QED BY <1>1, <1>3, <1>4, FollowOK

\* Deleting the host of a proxy that cannot suspend keeps the invariant.
LEMMA ScrapHostOK ==
    ASSUME NEW s, NEW t, Turn(s, t), ScrapHost(s, t)
    PROVE  IInv'
<1>1. t.do = "scrap" /\ t.do \in OnHosts /\ t.at \in Proxies
  BY TurnFacts DEF ScrapHost, OnHosts
<1>2. PICK ok \in BOOLEAN : /\ DeleteHost(t.at, t.id, ok)
                           /\ Answered(s, t, ok, [Over(ses[s], t, {}) EXCEPT !.hid = None])
  BY DEF ScrapHost
<1>3. Sound([Over(ses[s], t, {}) EXCEPT !.hid = None])
  BY <1>1, TurnFacts, HidSound
<1>4. ProvidersTypeOK'
  BY <1>1, <1>2, TurnFacts, DeleteHostType
<1> QED BY <1>1, <1>2, <1>3, <1>4, AnsweredOK

\* Looking up the host to withdraw keeps the invariant.
LEMMA SeekHostOK ==
    ASSUME NEW s, NEW t, Turn(s, t), SeekHost(s, t)
    PROVE  IInv'
<1> DEFINE more == {After(t, "drop", x.id) : x \in Named(t.at, t.host)}
<1>1. t.do = "seek" /\ t.do \in OnHosts /\ t \in Task /\ t.at \in Proxies
  BY TurnFacts DEF SeekHost, OnHosts
<1>2. PICK ok \in BOOLEAN : Listing(ok) /\ Answered(s, t, ok, Over(ses[s], t, more))
  BY DEF SeekHost
<1>3. ASSUME NEW x \in Named(t.at, t.host) PROVE After(t, "drop", x.id) \in Plain
  <2>1. x.id \in Ids
    BY <1>1, HostIds, TurnFacts DEF Named
  <2> QED BY <1>1, <2>1, AfterFields DEF OnHosts, OnRecords, ById, Removes, Publishes
<1>4. more \in SUBSET Plain
  BY <1>3
<1>5. ProvidersTypeOK'
  BY <1>2, TurnFacts, ListingType
<1> QED BY <1>1, <1>2, <1>4, <1>5, FollowOK

\* Withdrawing a host keeps the invariant.
LEMMA DropHostOK ==
    ASSUME NEW s, NEW t, Turn(s, t), DropHost(s, t)
    PROVE  IInv'
<1>1. t.do = "drop" /\ t.do \in OnHosts /\ t.at \in Proxies
  BY TurnFacts DEF DropHost, OnHosts
<1>2. PICK ok \in BOOLEAN : DeleteHost(t.at, t.id, ok) /\ Answered(s, t, ok, Over(ses[s], t, {}))
  BY DEF DropHost
<1>3. ProvidersTypeOK'
  BY <1>1, <1>2, TurnFacts, DeleteHostType
<1> QED BY <1>1, <1>2, <1>3, FollowOK


\* Reading the records of a name keeps the invariant.
LEMMA ReadRecordOK ==
    ASSUME NEW s, NEW t, Turn(s, t), ReadRecord(s, t)
    PROVE  IInv'
<1>1. t.do = "read" /\ t.do \in OnRecords /\ t \in Task /\ t.at \in Dns /\ t.ip \in Ips
  BY TurnFacts DEF ReadRecord, OnRecords, Publishes
<1>2. CASE Listing(FALSE) /\ Answered(s, t, FALSE, ses[s])
  BY <1>1, <1>2, TurnFacts, ListingType, AnsweredOK
<1>3. CASE Listing(TRUE) /\ Answers(t.at, t.host) = {}
           /\ Answered(s, t, TRUE, Over(ses[s], t, {After(t, "add", None)}))
  <2>1. After(t, "add", None) \in Plain
    BY <1>1, AfterFields DEF OnHosts, OnRecords, ById, Removes, Publishes
  <2> QED BY <1>1, <1>3, <2>1, TurnFacts, ListingType, FollowOK, ZenonT(60)
<1>4. ASSUME Listing(TRUE), NEW found \in Answers(t.at, t.host),
             Answered(s, t, TRUE, Over(ses[s], t,
                 IF found = t.ip THEN {} ELSE {After(t, "swap", found)}))
      PROVE  IInv'
  <2>1. found \in Ips
    BY DEF Answers
  <2>2. After(t, "swap", found) \in Plain
    BY <1>1, <2>1, AfterFields DEF OnHosts, OnRecords, ById, Removes, Publishes
  <2>3. (IF found = t.ip THEN {} ELSE {After(t, "swap", found)}) \in SUBSET Plain
    BY <2>2
  <2> QED BY <1>1, <1>4, <2>3, TurnFacts, ListingType, FollowOK
<1> QED BY <1>2, <1>3, <1>4 DEF ReadRecord

\* Replacing a record keeps the invariant.
LEMMA SwapRecordOK ==
    ASSUME NEW s, NEW t, Turn(s, t), SwapRecord(s, t)
    PROVE  IInv'
<1>1. t.do = "swap" /\ t.do \in OnRecords /\ t \in Task /\ t.at \in Dns /\ t.ip \in Ips
  BY TurnFacts DEF SwapRecord, OnRecords, Publishes
<1>2. PICK ok \in BOOLEAN : /\ DeleteRewrite(t.at, t.host, t.id, ok)
                           /\ Answered(s, t, ok, Over(ses[s], t, {After(t, "add", None)}))
  BY DEF SwapRecord
<1>3. {After(t, "add", None)} \in SUBSET Plain
  BY <1>1, AfterFields DEF OnHosts, OnRecords, ById, Removes, Publishes
<1>4. ProvidersTypeOK'
  BY <1>1, <1>2, TurnFacts, DeleteRewriteType
<1> QED BY <1>1, <1>2, <1>3, <1>4, FollowOK

\* Adding a record keeps the invariant.
LEMMA AddRecordOK ==
    ASSUME NEW s, NEW t, Turn(s, t), AddRecord(s, t)
    PROVE  IInv'
<1>1. t.do = "add" /\ t.do \in OnRecords /\ t.at \in Dns /\ t.host \in Hosts /\ t.ip \in Ips
  BY TurnFacts DEF AddRecord, OnRecords, Publishes
<1> DEFINE done == [Over(ses[s], t, {}) EXCEPT !.sent = Went(ses[s], t.at)]
<1>2. PICK ok \in BOOLEAN : /\ AddRewrite(t.at, t.host, t.ip, ok)
                           /\ Answered(s, t, ok, done)
  BY DEF AddRecord
<1>3. ProvidersTypeOK'
  BY <1>1, <1>2, TurnFacts, AddRewriteType
<1>4. Went(ses[s], t.at) \in SUBSET (Proxies \cup Dns)
  BY <1>1, TurnFacts, WentNames
<1>5. Sound(done)
  <2>1. Sound(Over(ses[s], t, {}))
    BY <1>1, TurnFacts, OverSound
  <2> QED BY <1>4, <2>1, SentSound
<1> HIDE DEF done
<1> QED BY <1>1, <1>2, <1>3, <1>5, AnsweredOK

\* A task on a DNS server that removes a record, or looks for it.
LEMMA OffDnsPlain ==
    ASSUME NEW do \in {"look", "quit"}, NEW d \in Dns, NEW h \in Hosts,
           NEW ip \in Ips \cup {None}, do = "quit" => ip \in Ips, NEW stage \in Int
    PROVE  OffDns(do, d, h, ip, stage) \in Plain
BY DEF OffDns, Do, Plain, Task, OnHosts, OnRecords, ById, Removes, Publishes

\* A task on a proxy is plain when it names the host it needs.
LEMMA OnProxyPlain ==
    ASSUME NEW do \in OnHosts, NEW p \in Proxies, NEW h \in Hosts,
           NEW id \in Ids \cup {None}, do \in ById => id \in Ids, NEW stage \in Int
    PROVE  OnProxy(do, p, h, id, stage) \in Plain
BY DEF OnProxy, Do, Plain, Task, OnHosts, OnRecords, ById, Removes, Publishes

\* So is one that publishes a record.
LEMMA OnDnsPlain ==
    ASSUME NEW do \in {"read", "add"}, NEW d \in Dns, NEW h \in Hosts,
           NEW ip \in Ips, NEW stage \in Int
    PROVE  OnDns(do, d, h, ip, stage) \in Plain
BY DEF OnDns, Do, Plain, Task, OnHosts, OnRecords, ById, Removes, Publishes

\* A decision is a task.
LEMMA ThenTask ==
    ASSUME NEW do \in Decisions, NEW stage \in Int
    PROVE  /\ Then(do, stage) \in Task
           /\ Then(do, stage).do = do
           /\ Then(do, stage).stage = stage
BY DEF Then, Do, Task, Decisions, OnHosts, OnRecords, ById, Removes, Publishes

\* Publishing the primary record of an edit keeps the invariant.
LEMMA PointRecordOK ==
    ASSUME NEW s, NEW t, Turn(s, t), PointRecord(s, t)
    PROVE  IInv'
<1> DEFINE old    == ses[s].old
           retire == IF old.dns # None /\ old.ip # None /\ Moved(ses[s])
                     THEN {OffDns("quit", old.dns, old.host, old.ip, t.stage - 1)} ELSE {}
<1>1. t.do = "point" /\ t.do \in OnRecords /\ t \in Task
      /\ t.at \in Dns /\ t.host \in Hosts /\ t.ip \in Ips
  BY TurnFacts DEF PointRecord, OnRecords, Publishes
<1>2. PICK ok \in BOOLEAN : /\ AddRewrite(t.at, t.host, t.ip, ok)
                           /\ Answered(s, t, ok, Over(ses[s], t, retire))
  BY DEF PointRecord
<1>3. old \in Row
  BY <1>1, TurnFacts DEF Sound, Grounded
<1>4. old.dns \in Dns \cup {None} /\ old.ip \in Ips \cup {None} /\ old.host \in Hosts
  BY <1>3 DEF Row
<1>5. t.stage - 1 \in Int
  BY <1>1 DEF Task
<1>6. retire \in SUBSET Plain
  <2> HIDE DEF old
  <2> QED BY <1>4, <1>5, OffDnsPlain
<1>7. ProvidersTypeOK'
  BY <1>1, <1>2, TurnFacts, AddRewriteType
<1> HIDE DEF retire
<1> QED BY <1>1, <1>2, <1>6, <1>7, FollowOK

\* Moving it to another name or address keeps the invariant.
LEMMA MoveRecordOK ==
    ASSUME NEW s, NEW t, Turn(s, t), MoveRecord(s, t)
    PROVE  IInv'
<1> DEFINE u == [After(t, "unmove", t.id) EXCEPT !.host = ses[s].old.host, !.ip = None]
<1>1. t.do = "move" /\ t.do \in OnRecords /\ t \in Task
      /\ t.at \in Dns /\ t.host \in Hosts /\ t.ip \in Ips /\ t.id \in Ips
  BY TurnFacts DEF MoveRecord, OnRecords, Publishes, Removes
<1>2. PICK ok \in BOOLEAN : /\ AddRewrite(t.at, t.host, t.ip, ok)
                           /\ Answered(s, t, ok, Over(ses[s], t, {u}))
  BY DEF MoveRecord
<1>3. ses[s].old.host \in Hosts
  BY <1>1, TurnFacts DEF Sound, Grounded, Row
<1>4. u \in Plain
  <2> DEFINE v == After(t, "unmove", t.id)
  <2>1. v \in Plain /\ v.do = "unmove" /\ v.at = t.at /\ v.id = t.id
    BY <1>1, AfterFields DEF OnHosts, OnRecords, ById, Removes, Publishes
  <2>2. u = [[v EXCEPT !.host = ses[s].old.host] EXCEPT !.ip = None]
    OBVIOUS
  <2> HIDE DEF v, u
  <2>3. /\ u.do = "unmove" /\ u.at = t.at /\ u.id = t.id /\ u.host = ses[s].old.host
        /\ u \in [do : OnHosts \cup OnRecords \cup Decisions,
                at : Proxies \cup Dns \cup {None}, host : Hosts \cup {None},
                ip : Ips \cup {None}, id : Ids \cup Ips \cup {None}, stage : Int]
    BY <1>3, <2>1, <2>2 DEF Plain, Task
  <2> QED BY <1>1, <1>3, <2>3
          DEF Plain, Task, OnHosts, OnRecords, ById, Removes, Publishes
<1>5. ProvidersTypeOK'
  BY <1>1, <1>2, TurnFacts, AddRewriteType
<1> HIDE DEF u
<1> QED BY <1>1, <1>2, <1>4, <1>5, FollowOK


\* A turn whose session advances by hand, the providers being well typed.
LEMMA AdvancedOK ==
    ASSUME NEW s, NEW t, Turn(s, t), NEW x, Sound(x), Advance(s, x),
           ProvidersTypeOK', rows' \in [Services -> Row \cup {None}],
           writer' \in Sessions \cup {None}, requests' \in 0 .. Requests,
           reported' \subseteq Named2, unsaid' \subseteq Named2
    PROVE  IInv'
<1>1. s \in Sessions /\ SessionsOK
  BY TurnFacts DEF Turn, IInv
<1>2. SessionsOK'
  BY <1>1, AdvanceOK
<1> QED BY <1>2 DEF IInv, TypeOK, SessionsOK, Named2

\* What the invariant says of the rest of the state in a session's turn.
LEMMA TurnTypes ==
    ASSUME NEW s, NEW t, Turn(s, t)
    PROVE  /\ rows \in [Services -> Row \cup {None}]
           /\ writer \in Sessions \cup {None}
           /\ requests \in 0 .. Requests
           /\ reported \subseteq Named2
           /\ unsaid \subseteq Named2
           /\ ProvidersTypeOK
BY DEF Turn, IInv, TypeOK, Named2

\* Removing the record that was moved keeps the invariant.
LEMMA UnmoveRecordOK ==
    ASSUME NEW s, NEW t, Turn(s, t), UnmoveRecord(s, t)
    PROVE  IInv'
<1>1. t.do = "unmove" /\ t.do \in OnRecords /\ t.at \in Dns /\ t.host \in Hosts
  BY TurnFacts DEF UnmoveRecord, OnRecords
<1>2. PICK ok \in BOOLEAN :
        /\ DeleteRewrite(t.at, t.host, t.id, ok)
        /\ unsaid' = IF ok THEN unsaid ELSE unsaid \cup {<<t.at, t.host>>}
  BY DEF UnmoveRecord
<1>3. Advance(s, Over(ses[s], t, {})) /\ UNCHANGED <<rows, writer, requests, reported>>
  BY DEF UnmoveRecord
<1>4. Sound(Over(ses[s], t, {}))
  BY <1>1, TurnFacts, OverSound
<1>5. ProvidersTypeOK'
  BY <1>1, <1>2, TurnFacts, DeleteRewriteType
<1>6. unsaid' \subseteq Named2
  BY <1>1, <1>2, TurnTypes DEF Named2
<1> QED BY <1>3, <1>4, <1>5, <1>6, TurnTypes, AdvancedOK

\* Reading the records to withdraw keeps the invariant.
LEMMA LookRecordOK ==
    ASSUME NEW s, NEW t, Turn(s, t), LookRecord(s, t)
    PROVE  IInv'
<1> DEFINE held     == Answers(t.at, t.host)
           More(ip) == IF ip = None THEN {} ELSE {After(t, "quit", ip)}
<1>1. t.do = "look" /\ t.do \in OnRecords /\ t \in Task /\ t.at \in Dns /\ t.host \in Hosts
  BY TurnFacts DEF LookRecord, OnRecords
<1>2. PICK ok \in BOOLEAN :
        /\ Listing(ok)
        /\ \E ip \in (IF ok /\ held # {} THEN held ELSE {t.id}) :
              Advance(s, Over(ses[s], t, More(ip)))
        /\ unsaid' = IF ok THEN unsaid
                     ELSE unsaid \cup {<<t.at, t.host>> : ip \in held \ {t.id}}
  BY DEF LookRecord
<1>3. UNCHANGED <<rows, writer, requests, reported>>
  BY DEF LookRecord
<1>4. PICK ip \in (IF ok /\ held # {} THEN held ELSE {t.id}) :
        Advance(s, Over(ses[s], t, More(ip)))
  BY <1>2
<1>6. More(ip) \in SUBSET Plain
  <2>1. CASE ip = None
    BY <2>1
  <2>2. CASE ip \in Ips
    BY <1>1, <2>2, AfterFields DEF OnHosts, OnRecords, ById, Removes, Publishes
  <2>3. ip = None \/ ip \in Ips
    BY <1>1, TurnFacts DEF Answers, Task
  <2> QED BY <2>1, <2>2, <2>3
<1>7. Sound(Over(ses[s], t, More(ip)))
  <2> HIDE DEF More
  <2> QED BY <1>1, <1>6, TurnFacts, OverSound
<1>8. ProvidersTypeOK'
  BY <1>2, TurnFacts, ListingType
<1>9. unsaid' \subseteq Named2
  BY <1>1, <1>2, TurnTypes DEF Named2
<1> HIDE DEF More
<1> QED BY <1>3, <1>4, <1>7, <1>8, <1>9, TurnTypes, AdvancedOK

\* Withdrawing a record keeps the invariant.
LEMMA QuitRecordOK ==
    ASSUME NEW s, NEW t, Turn(s, t), QuitRecord(s, t)
    PROVE  IInv'
<1>1. t.do = "quit" /\ t.do \in OnRecords /\ t \in Task /\ t.at \in Dns /\ t.id \in Ips
  BY TurnFacts DEF QuitRecord, OnRecords, Removes
<1>2. PICK ok \in BOOLEAN :
        /\ DeleteRewrite(t.at, t.host, t.id, ok)
        /\ Answered(s, t, TRUE, Over(ses[s], t, IF ok THEN {} ELSE {After(t, "kept", t.id)}))
  BY DEF QuitRecord
<1>3. (IF ok THEN {} ELSE {After(t, "kept", t.id)}) \in SUBSET Plain
  BY <1>1, AfterFields DEF OnHosts, OnRecords, ById, Removes, Publishes
<1>4. ProvidersTypeOK'
  BY <1>1, <1>2, TurnFacts, DeleteRewriteType
<1> QED BY <1>1, <1>2, <1>3, <1>4, FollowOK

\* Checking whether another service keeps a record keeps the invariant.
LEMMA CheckKeptOK ==
    ASSUME NEW s, NEW t, Turn(s, t), CheckKept(s, t)
    PROVE  IInv'
<1>1. t.do = "kept" /\ t.do \in OnRecords
  BY DEF CheckKept, OnRecords
<1>2. PICK ok \in BOOLEAN :
        /\ Listing(ok)
        /\ Answered(s, t, ok /\ <<t.host, t.id>> \notin recs[t.at], Over(ses[s], t, {}))
  BY DEF CheckKept
<1>3. ProvidersTypeOK'
  BY <1>2, TurnFacts, ListingType
<1> QED BY <1>1, <1>2, <1>3, FollowOK


(***************************************************************************)
(* The plans are made of plain tasks.                                      *)
(***************************************************************************)
LEMMA RowFields ==
    ASSUME NEW r \in Row
    PROVE  /\ r.host \in Hosts /\ r.enabled \in BOOLEAN /\ r.auto \in BOOLEAN
           /\ r.proxy \in Proxies \cup {None} /\ r.dns \in Dns \cup {None}
           /\ r.ip \in Ips \cup {None} /\ r.hid \in Ids \cup {None}
           /\ r.xproxies \subseteq Proxies /\ r.xdns \subseteq Dns
BY DEF Row

\* The holders of the routes of a service are providers.
LEMMA HoldersType ==
    ASSUME NEW sid \in Services, rows \in [Services -> Row \cup {None}], NEW r \in Row
    PROVE  /\ LiveXProxies(sid) \subseteq Proxies
           /\ LiveXDns(sid) \subseteq Dns
           /\ HolderProxies(r, sid) \subseteq Proxies
           /\ HolderDns(r, sid) \subseteq Dns
<1>1. LiveXProxies(sid) \subseteq Proxies /\ LiveXDns(sid) \subseteq Dns
  <2>1. rows[sid] # None => rows[sid] \in Row
    OBVIOUS
  <2> QED BY <2>1, RowFields DEF LiveXProxies, LiveXDns
<1> QED BY <1>1, RowFields DEF HolderProxies, HolderDns, Some

\* Withdrawing a service is made of plain tasks,
LEMMA WithdrawPlanPlain ==
    ASSUME NEW sid \in Services, rows \in [Services -> Row \cup {None}], NEW r \in Row,
           NEW only, NEW stage \in Int
    PROVE  WithdrawPlan(r, sid, only, stage) \in SUBSET Plain
<1>1. /\ r.host \in Hosts /\ r.hid \in Ids \cup {None} /\ r.ip \in Ips \cup {None}
      /\ r.host \in Ids
  BY RowFields DEF Ids
<1>2. ASSUME NEW p \in HolderProxies(r, sid)
      PROVE  (IF p \in HostKeyed THEN OnProxy("drop", p, r.host, r.host, stage)
              ELSE IF p = r.proxy /\ r.hid # None THEN OnProxy("drop", p, r.host, r.hid, stage)
              ELSE OnProxy("seek", p, r.host, None, stage)) \in Plain
  <2>1. p \in Proxies
    BY HoldersType
  <2>2. OnProxy("drop", p, r.host, r.host, stage) \in Plain
    BY <1>1, <2>1, OnProxyPlain DEF OnHosts
  <2>3. r.hid # None => OnProxy("drop", p, r.host, r.hid, stage) \in Plain
    BY <1>1, <2>1, OnProxyPlain DEF OnHosts
  <2>4. OnProxy("seek", p, r.host, None, stage) \in Plain
    BY <1>1, <2>1, OnProxyPlain DEF OnHosts, ById
  <2> QED BY <2>2, <2>3, <2>4
<1>3. ASSUME NEW d \in HolderDns(r, sid)
      PROVE  OffDns("look", d, r.host, r.ip, stage + 5) \in Plain
  BY <1>1, HoldersType, OffDnsPlain
<1> QED BY <1>2, <1>3 DEF WithdrawPlan

\* so is taking it out of service,
LEMMA WithholdPlanPlain ==
    ASSUME NEW sid \in Services, rows \in [Services -> Row \cup {None}], NEW r \in Row,
           NEW only, NEW stage \in Int
    PROVE  WithholdPlan(r, sid, only, stage) \in SUBSET Plain
<1> DEFINE primary == {p \in Some(r.proxy) \cap only : r.hid # None}
<1>1. WithdrawPlan(r, sid, only \ primary, stage) \in SUBSET Plain
  BY WithdrawPlanPlain
<1>2. ASSUME NEW p \in primary
      PROVE  OnProxy("suspend", p, r.host, r.hid, stage - 2) \in Plain
  <2>1. p \in Proxies /\ r.host \in Hosts /\ r.hid \in Ids /\ stage - 2 \in Int
    BY RowFields DEF Some
  <2> QED BY <2>1, OnProxyPlain DEF OnHosts
<1> QED BY <1>1, <1>2 DEF WithholdPlan

\* so is publishing it,
LEMMA PublishPlanPlain ==
    ASSUME NEW sid \in Services, rows \in [Services -> Row \cup {None}], NEW r \in Row,
           NEW only, NEW ip \in Ips \cup {None}, NEW stage \in Int
    PROVE  PublishPlan(r, sid, only, ip, stage) \in SUBSET Plain
<1> DEFINE Tell(p, at) == IF StoredId(r, p) # None
                          THEN OnProxy("renew", p, r.host, StoredId(r, p), at)
                          ELSE OnProxy("find", p, r.host, None, at)
<1>1. r.host \in Hosts /\ Some(r.proxy) \subseteq Proxies /\ Some(r.dns) \subseteq Dns
  BY RowFields DEF Some
<1>2. ASSUME NEW p \in Proxies, NEW at \in Int PROVE Tell(p, at) \in Plain
  <2>1. StoredId(r, p) \in Ids \cup {None}
    BY RowFields DEF StoredId
  <2>2. StoredId(r, p) # None => OnProxy("renew", p, r.host, StoredId(r, p), at) \in Plain
    BY <1>1, <2>1, OnProxyPlain DEF OnHosts
  <2>3. OnProxy("find", p, r.host, None, at) \in Plain
    BY <1>1, OnProxyPlain DEF OnHosts, ById
  <2> QED BY <2>2, <2>3
<1>3. ASSUME NEW d \in Dns, NEW at \in Int, ip # None
      PROVE  OnDns("read", d, r.host, ip, at) \in Plain
  BY <1>1, <1>3, OnDnsPlain
<1>4. MoreProxies(r, sid) \subseteq Proxies /\ LiveXDns(sid) \subseteq Dns
  BY HoldersType DEF MoreProxies
<1>5. stage + 5 \in Int /\ stage + 10 \in Int /\ stage + 15 \in Int
  OBVIOUS
<1>6. {Tell(p, stage) : p \in Some(r.proxy) \cap only}
      \cup {Tell(p, stage + 5) : p \in MoreProxies(r, sid) \cap only} \in SUBSET Plain
  <2> HIDE DEF Tell
  <2> QED BY <1>1, <1>2, <1>4, <1>5
<1>7. ip # None =>
        {OnDns("read", d, r.host, ip, stage + 10) : d \in Some(r.dns) \cap only}
        \cup {OnDns("read", d, r.host, ip, stage + 15)
                 : d \in (LiveXDns(sid) \ {r.dns}) \cap only} \in SUBSET Plain
  BY <1>1, <1>3, <1>4, <1>5
<1> QED BY <1>6, <1>7 DEF PublishPlan

\* so is every decision but the commit,
LEMMA ThenPlain ==
    ASSUME NEW do \in {"commit", "aim", "journal", "settle", "remove", "next"},
           do # "commit", NEW stage \in Int
    PROVE  Then(do, stage) \in Plain
BY ThenTask DEF Plain, Decisions

\* and so is pushing it.
LEMMA PushPlanPlain ==
    ASSUME NEW sid \in Services, rows \in [Services -> Row \cup {None}], NEW r \in Row,
           NEW only, NEW ip \in Ips \cup {None}, NEW stage \in Int
    PROVE  PushPlan(r, sid, only, ip, stage) \in SUBSET Plain
<1>1. Then("settle", stage + 20) \in Plain /\ Then("aim", stage + 8) \in Plain
  BY ThenPlain
<1>2. PublishPlan(r, sid, only, ip, stage) \in SUBSET Plain
  BY PublishPlanPlain
<1>3. WithholdPlan(r, sid, only, stage) \in SUBSET Plain
  BY WithholdPlanPlain
<1> QED BY <1>1, <1>2, <1>3 DEF PushPlan

(***************************************************************************)
(* The transactions and decisions.                                         *)
(***************************************************************************)
\* A session with nothing left to do asks for nothing.
LEMMA EmptySound ==
    ASSUME NEW y \in Session, y.todo = {}
    PROVE  Sound(y)
BY DEF Sound, Grounded

\* A step that calls no provider leaves the providers as they were.
LEMMA NoCallType ==
    ASSUME ProvidersTypeOK, NoCall
    PROVE  ProvidersTypeOK'
BY DEF ProvidersTypeOK, NoCall, provVars

\* POST, the INSERT: from here on the session knows the id of its row.
LEMMA InsertRowOK ==
    ASSUME NEW s, NEW t, Turn(s, t), InsertRow(s, t)
    PROVE  IInv'
<1> DEFINE x == ses[s]
<1>1. t.do = "insert" /\ NoCall /\ UNCHANGED <<writer, requests, unsaid>>
  BY DEF InsertRow
<1>2. x \in Session /\ Sound(x) /\ t \in x.todo /\ x.new \in Row
  BY <1>1, TurnFacts DEF Sound, Grounded
<1>3. ProvidersTypeOK'
  BY <1>1, TurnFacts, NoCallType
<1>4. CASE IndexRefuses(x.new.host, None)
  <2> DEFINE y == [Over(x, t, {}) EXCEPT !.todo = {}, !.err = TRUE]
  <2>1. y \in Session /\ y.todo = {}
    BY <1>2 DEF Over, Session
  <2>2. PublishedOn(x) \subseteq Named2
    BY <1>2, RowFields DEF PublishedOn, Named2, Session
  <2>3. Advance(s, y) /\ reported' = reported \cup PublishedOn(x) /\ UNCHANGED rows
    BY <1>4 DEF InsertRow
  <2> HIDE DEF y
  <2>4. Sound(y)
    BY <2>1, EmptySound
  <2> QED BY <1>1, <1>3, <2>2, <2>3, <2>4, TurnTypes, AdvancedOK
<1>5. CASE ~IndexRefuses(x.new.host, None)
  <2>1. PICK sid \in Services :
          /\ rows' = [rows EXCEPT ![sid] = [x.new EXCEPT !.hid = x.hid]]
          /\ Advance(s, [Over(x, t, {}) EXCEPT !.sid = sid, !.sent = {}])
          /\ UNCHANGED reported
    BY <1>5 DEF InsertRow
  <2> DEFINE y == [Over(x, t, {}) EXCEPT !.sid = sid, !.sent = {}]
  <2>2. /\ y \in Session /\ y.todo = x.todo \ {t}
        /\ y.sid = sid /\ y.old = x.old /\ y.new = x.new
    BY <1>2 DEF Over, Session
  <2>3. Advance(s, y)
    BY <2>1
  <2> HIDE DEF y
  <2>4. Sound(y)
    BY <1>2, <2>2 DEF Sound, Grounded
  <2>5. [x.new EXCEPT !.hid = x.hid] \in Row
    BY <1>2 DEF Session, Row
  <2>6. rows' \in [Services -> Row \cup {None}]
    BY <2>1, <2>5, TurnTypes
  <2> QED BY <1>1, <1>3, <2>1, <2>3, <2>4, <2>6, TurnTypes, AdvancedOK
<1> QED BY <1>4, <1>5

\* PUT, the UPDATE.
LEMMA WriteRowOK ==
    ASSUME NEW s, NEW t, Turn(s, t), WriteRow(s, t)
    PROVE  IInv'
<1> DEFINE x == ses[s]
<1>1. t.do = "write" /\ NoCall /\ UNCHANGED <<rows, requests, unsaid>>
  BY DEF WriteRow
<1>2. /\ x \in Session /\ Sound(x) /\ t \in x.todo /\ s \in Sessions
      /\ x.new \in Row /\ x.old \in Row /\ x.sid \in Services
  BY <1>1, TurnFacts DEF Sound, Grounded
<1>3. ProvidersTypeOK'
  BY <1>1, TurnFacts, NoCallType
<1>4. CASE rows[x.sid] # None /\ IndexRefuses(x.new.host, x.sid)
  <2> DEFINE y == [Over(x, t, {}) EXCEPT !.todo = {}, !.err = TRUE]
             told == (Some(x.new.proxy) \cup Some(x.new.dns)) \X {x.new.host, x.old.host}
  <2>1. y \in Session /\ y.todo = {}
    BY <1>2 DEF Over, Session
  <2>2. told \subseteq Named2
    BY <1>2, RowFields DEF Named2, Some
  <2>3. Advance(s, y) /\ reported' = reported \cup told /\ UNCHANGED writer
    BY <1>4 DEF WriteRow
  <2> HIDE DEF y, told
  <2>4. Sound(y)
    BY <2>1, EmptySound
  <2> QED BY <1>1, <1>3, <2>2, <2>3, <2>4, TurnTypes, AdvancedOK
<1>5. CASE ~(rows[x.sid] # None /\ IndexRefuses(x.new.host, x.sid))
  <2> DEFINE more == WithdrawPlan(x.old, x.sid, StaleTargets(x), 40)
             y == Over(x, t, more)
  <2>1. more \in SUBSET Plain
    BY <1>2, TurnTypes, WithdrawPlanPlain
  <2>2. Sound(y)
    <3> HIDE DEF more
    <3> QED BY <1>1, <1>2, <2>1, OverSound
  <2>3. Advance(s, y) /\ writer' = s /\ UNCHANGED reported
    BY <1>5 DEF WriteRow
  <2> HIDE DEF y
  <2> QED BY <1>1, <1>2, <1>3, <2>2, <2>3, TurnTypes, AdvancedOK
<1> QED BY <1>4, <1>5

\* What a PUT queues on a change of the flag.
LEMMA SwitchPlanPlain ==
    ASSUME NEW x \in Session, x.new \in Row
    PROVE  SwitchPlan(x) \in SUBSET Plain
<1>1. x.hid \in Ids \cup {None} /\ x.new.host \in Hosts /\ Some(x.new.proxy) \subseteq Proxies
  BY RowFields DEF Session, Some
<1>2. ASSUME NEW p \in Some(x.new.proxy), NEW do \in {"resume", "suspend"}, x.hid # None
      PROVE  OnProxy(do, p, x.new.host, x.hid, 70) \in Plain
  BY <1>1, <1>2, OnProxyPlain DEF OnHosts
<1>3. ASSUME NEW p \in Some(x.new.proxy)
      PROVE  OnProxy("create", p, x.new.host, None, 70) \in Plain
  <2>1. /\ "create" \in OnHosts /\ "create" \notin ById
        /\ p \in Proxies /\ x.new.host \in Hosts /\ 70 \in Int
    BY <1>1 DEF OnHosts, ById
  <2> QED BY <2>1, OnProxyPlain
<1>4. SwitchOn(x) \in SUBSET Plain
  BY <1>2, <1>3 DEF SwitchOn
<1>5. SwitchOff(x) \in SUBSET Plain
  BY <1>2 DEF SwitchOff
<1> QED BY <1>4, <1>5 DEF SwitchPlan

\* PUT, the commit.
LEMMA CommitRowOK ==
    ASSUME NEW s, NEW t, Turn(s, t), CommitRow(s, t)
    PROVE  IInv'
<1> DEFINE x == ses[s]
<1>1. t.do = "commit" /\ NoCall /\ UNCHANGED <<requests, reported, unsaid>> /\ writer' = None
  BY DEF CommitRow
<1>2. /\ x \in Session /\ Sound(x) /\ t \in x.todo
      /\ x.new \in Row /\ x.old \in Row /\ x.sid \in Services
  BY <1>1, TurnFacts DEF Sound, Grounded
<1>3. ProvidersTypeOK'
  BY <1>1, TurnFacts, NoCallType
<1>4. CASE rows[x.sid] = None /\ Extras(x.new) # {}
  <2> DEFINE y == [x EXCEPT !.todo = {}, !.err = TRUE]
  <2>1. y \in Session /\ y.todo = {}
    BY <1>2 DEF Session
  <2>2. Advance(s, y) /\ UNCHANGED rows
    BY <1>4 DEF CommitRow
  <2> HIDE DEF y
  <2>3. Sound(y)
    BY <2>1, EmptySound
  <2> QED BY <1>1, <1>3, <2>2, <2>3, TurnTypes, AdvancedOK
<1>5. CASE ~(rows[x.sid] = None /\ Extras(x.new) # {})
  <2> DEFINE more == SwitchPlan(x) \cup {Then("settle", 80)}
             y == [Over(x, t, more) EXCEPT !.saved = x.hid]
  <2>1. more \in SUBSET Plain
    BY <1>2, SwitchPlanPlain, ThenPlain
  <2>2. Advance(s, y)
    BY <1>5 DEF CommitRow
  <2>3. Sound(y)
    <3> HIDE DEF more
    <3>1. Over(x, t, more) \in Session /\ x.hid \in Ids \cup {None}
      BY <1>1, <1>2, <2>1, OverSound DEF Session
    <3>2. y \in Session
      BY <3>1 DEF Session
    <3>3. y.todo = (x.todo \ {t}) \cup more /\ y.old = x.old /\ y.new = x.new /\ y.sid = x.sid
      BY <1>2 DEF Over, Session
    <3> QED BY <1>1, <1>2, <2>1, <3>2, <3>3, StepSound
  <2>4. [x.new EXCEPT !.hid = x.hid] \in Row
    BY <1>2 DEF Session, Row
  <2>5. rows' \in [Services -> Row \cup {None}]
    <3>1. rows' = IF rows[x.sid] = None THEN rows
                  ELSE [rows EXCEPT ![x.sid] = [x.new EXCEPT !.hid = x.hid]]
      BY <1>5 DEF CommitRow
    <3> QED BY <1>2, <2>4, <3>1, TurnTypes
  <2> HIDE DEF y
  <2> QED BY <1>1, <1>3, <2>2, <2>3, <2>5, TurnTypes, AdvancedOK
<1> QED BY <1>4, <1>5

\* A journal line, or dns_ip: the transaction opens.
LEMMA TakeLockOK ==
    ASSUME NEW s, NEW t, Turn(s, t), TakeLock(s, t)
    PROVE  IInv'
<1>1. /\ t.do # "insert" /\ NoCall /\ writer' = s /\ Advance(s, Over(ses[s], t, {}))
      /\ UNCHANGED <<rows, requests, reported, unsaid>>
  BY DEF TakeLock
<1>2. Sound(Over(ses[s], t, {})) /\ s \in Sessions
  BY <1>1, TurnFacts, OverSound
<1> QED BY <1>1, <1>2, TurnFacts, TurnTypes, NoCallType, AdvancedOK

\* The busy timeout.
LEMMA GiveUpOK ==
    ASSUME NEW s, NEW t, Turn(s, t), GiveUp(s, t)
    PROVE  IInv'
<1> DEFINE x == ses[s]
           z == Over(x, t, {})
           y == [z EXCEPT !.err = TRUE, !.hid = x.saved,
                    !.todo = IF t.do = "journal" THEN @ ELSE {}]
<1>1. /\ Fault /\ UNCHANGED <<hosts, recs>> /\ Advance(s, y)
      /\ UNCHANGED <<rows, writer, requests, reported, unsaid>>
  BY DEF GiveUp
<1>2. x \in Session /\ Sound(x) /\ t \in x.todo
  BY TurnFacts
<1>3. /\ z \in Session /\ z.todo = x.todo \ {t}
      /\ z.old = x.old /\ z.new = x.new /\ z.sid = x.sid
  BY <1>2 DEF Over, Session
<1>4. /\ y \in Session /\ y.old = x.old /\ y.new = x.new /\ y.sid = x.sid
      /\ y.todo = IF t.do = "journal" THEN x.todo \ {t} ELSE {}
  <2> HIDE DEF z
  <2>1. x.saved \in Ids \cup {None}
    BY <1>2 DEF Session
  <2>2. (IF t.do = "journal" THEN z.todo ELSE {}) \in SUBSET Task
    BY <1>3 DEF Session
  <2> QED BY <1>3, <2>1, <2>2, ZenonT(60) DEF Session
<1> HIDE DEF y
<1>5. Sound(y)
  <2>1. CASE t.do = "journal"
    <3>1. y.todo = (x.todo \ {t}) \cup {} /\ {} \in SUBSET Plain
      BY <1>4, <2>1
    <3> QED BY <1>2, <1>4, <2>1, <3>1, StepSound
  <2>2. CASE t.do # "journal"
    BY <1>4, <2>2, EmptySound
  <2> QED BY <2>1, <2>2
<1>6. ProvidersTypeOK'
  BY <1>1, TurnFacts, FaultType DEF ProvidersTypeOK
<1> QED BY <1>1, <1>5, <1>6, TurnTypes, AdvancedOK

\* The commit of a push: nothing is written where the row is gone.
LEMMA SettleOK ==
    ASSUME NEW s, NEW t, Turn(s, t), Settle(s, t)
    PROVE  IInv'
<1> DEFINE x == ses[s]
           y == [Over(x, t, {}) EXCEPT !.saved = x.hid, !.ip = None]
<1>1. /\ t.do # "insert" /\ NoCall /\ writer' = Released(s) /\ Advance(s, y)
      /\ UNCHANGED <<requests, reported, unsaid>>
  BY DEF Settle
<1>2. x \in Session /\ Sound(x) /\ t \in x.todo
  BY TurnFacts
<1>3. Over(x, t, {}) \in Session /\ x.hid \in Ids \cup {None}
  BY <1>1, <1>2, OverSound DEF Session
<1>4. y \in Session
  BY <1>3 DEF Session
<1>5. y.todo = (x.todo \ {t}) \cup {} /\ y.old = x.old /\ y.new = x.new /\ y.sid = x.sid
      /\ {} \in SUBSET Plain
  BY <1>2 DEF Over, Session
<1> HIDE DEF y
<1>6. Sound(y)
  BY <1>1, <1>2, <1>4, <1>5, StepSound
<1>7. rows' \in [Services -> Row \cup {None}]
  <2> DEFINE r == rows[x.sid]
             hid == IF x.hid = x.saved THEN r.hid ELSE x.hid
             ip  == IF NewIp(x) = None THEN r.ip ELSE x.ip
             after == [[r EXCEPT !.hid = hid] EXCEPT !.ip = ip]
  <2>1. CASE r = None \/ x.sid \notin Services
    BY <2>1, TurnTypes DEF Settle
  <2>2. CASE r # None /\ x.sid \in Services
    <3>1. r \in Row
      BY <2>2, TurnTypes
    <3>2. hid \in Ids \cup {None} /\ ip \in Ips \cup {None}
      BY <1>2, <3>1, RowFields DEF Session
    <3>3. after \in Row
      BY <3>1, <3>2 DEF Row
    <3>4. rows' = [rows EXCEPT ![x.sid] = after]
      BY <2>2, <3>1, TurnTypes DEF Settle, Row
    <3> QED BY <3>3, <3>4, TurnTypes
  <2> QED BY <2>1, <2>2
<1>8. writer' \in Sessions \cup {None}
  BY <1>1, TurnTypes DEF Released
<1>9. ProvidersTypeOK'
  BY <1>1, TurnFacts, NoCallType
<1> QED BY <1>1, <1>6, <1>7, <1>8, <1>9, TurnTypes, AdvancedOK

\* DELETE, the row.
LEMMA RemoveRowOK ==
    ASSUME NEW s, NEW t, Turn(s, t), RemoveRow(s, t)
    PROVE  IInv'
<1>1. /\ t.do # "insert" /\ NoCall /\ writer' = None /\ Advance(s, Over(ses[s], t, {}))
      /\ rows' = [rows EXCEPT ![ses[s].sid] = None]
      /\ UNCHANGED <<requests, reported, unsaid>>
  BY DEF RemoveRow
<1>2. Sound(Over(ses[s], t, {}))
  BY <1>1, TurnFacts, OverSound
<1>3. rows' \in [Services -> Row \cup {None}]
  BY <1>1, TurnTypes
<1> QED BY <1>1, <1>2, <1>3, TurnFacts, TurnTypes, NoCallType, AdvancedOK

\* A push without an address names DNS servers and the host of its row.
LEMMA UntargetedNames ==
    ASSUME NEW r \in Row, NEW sid \in Services, rows \in [Services -> Row \cup {None}],
           NEW only, NEW ip
    PROVE  Untargeted(r, sid, only, ip) \subseteq Named2
<1>1. HolderDns(r, sid) \subseteq Dns
  BY DEF HolderDns, LiveXDns, Some, Row
<1>2. r.host \in Hosts
  BY DEF Row
<1> QED BY <1>1, <1>2 DEF Untargeted, Named2

\* push_extra_targets and withdraw_extra_targets: a POST comes here only after
\* its INSERT, so that the id is known.
LEMMA FollowExtrasOK ==
    ASSUME NEW s, NEW t, Turn(s, t), FollowExtras(s, t)
    PROVE  IInv'
<1> DEFINE x == ses[s]
           r == rows[x.sid]
<1>1. t.do = "extras" /\ NoCall /\ UNCHANGED <<rows, writer, requests, unsaid>>
  BY DEF FollowExtras
<1>2. /\ x \in Session /\ Sound(x) /\ t \in x.todo /\ t \in Task
      /\ \A u \in x.todo : t.stage <= u.stage
  BY TurnFacts
<1>3. x.sid \in Services
  <2>1. ASSUME NEW u \in x.todo, u.stage < t.stage PROVE FALSE
    BY <1>2, <2>1 DEF Session, Task
  <2> QED BY <1>1, <1>2, <2>1 DEF Sound, Grounded
<1>4. SUFFICES ASSUME NEW y, Sound(y), Advance(s, y), reported' \subseteq Named2 PROVE IInv'
  <2> SUFFICES \E y : Sound(y) /\ Advance(s, y) /\ reported' \subseteq Named2
    BY <1>4
  <2>0. reported \subseteq Named2
    BY TurnTypes
  <2>1. CASE r = None
    <3> DEFINE y == [Over(x, t, {}) EXCEPT !.err = @ \/ x.op = "put"]
    <3>1. /\ y \in Session /\ y.todo = (x.todo \ {t}) \cup {}
          /\ y.old = x.old /\ y.new = x.new /\ y.sid = x.sid /\ {} \in SUBSET Plain
      BY <1>2, ZenonT(60) DEF Over, Session
    <3>2. Advance(s, y) /\ UNCHANGED reported
      BY <2>1 DEF FollowExtras
    <3> HIDE DEF y
    <3>3. Sound(y)
      BY <1>1, <1>2, <3>1, StepSound
    <3> QED BY <2>0, <3>2, <3>3
  <2>2. CASE r # None /\ Extras(r) # {} /\ r.enabled /\ PublishesExtras(x)
    <3>1. PICK ip \in Resolved(r) :
            /\ Advance(s, [Over(x, t, PushPlan(r, x.sid, Extras(r), ip, 100))
                          EXCEPT !.new = r, !.hid = r.hid, !.saved = r.hid, !.ip = ip,
                                 !.err = @ \/ NoTarget(r, x.sid, Extras(r), ip)])
            /\ reported' = reported \cup Untargeted(r, x.sid, Extras(r), ip)
      BY <2>2 DEF FollowExtras
    <3> DEFINE more == PushPlan(r, x.sid, Extras(r), ip, 100)
               z    == Over(x, t, more)
               y    == [z EXCEPT !.new = r, !.hid = r.hid, !.saved = r.hid, !.ip = ip,
                                 !.err = @ \/ NoTarget(r, x.sid, Extras(r), ip)]
    <3>2. r \in Row
      BY <1>3, <2>2, TurnTypes
    <3>3. ip \in Ips \cup {None} /\ r.hid \in Ids \cup {None}
      BY <3>2, RowFields DEF Resolved
    <3>4. more \in SUBSET Plain
      BY <1>3, <3>2, <3>3, TurnTypes, PushPlanPlain
    <3>5. Advance(s, y)
      BY <3>1
    <3>9. reported' \subseteq Named2
      BY <1>3, <2>0, <3>1, <3>2, TurnTypes, UntargetedNames
    <3>6. /\ z \in Session /\ z.todo = (x.todo \ {t}) \cup more
          /\ z.old = x.old /\ z.sid = x.sid
      <4> HIDE DEF more
      <4>1. z \in Session
        BY <1>1, <1>2, <3>4, OverSound
      <4> QED BY <1>2, <4>1 DEF Over, Session
    <3>7. /\ y \in Session /\ y.todo = (x.todo \ {t}) \cup more
          /\ y.old = x.old /\ y.sid = x.sid /\ y.new = r
      <4> DEFINE err == z.err \/ NoTarget(r, x.sid, Extras(r), ip)
      <4>1. err \in BOOLEAN
        OBVIOUS
      <4> HIDE DEF z, more, r, err
      <4>2. y = [z EXCEPT !.new = r, !.hid = r.hid, !.saved = r.hid, !.ip = ip, !.err = err]
        BY DEF err
      <4> QED BY <3>2, <3>3, <3>6, <4>1, <4>2, ZenonT(60) DEF Session
    <3> HIDE DEF y, more, r
    <3>8. Sound(y)
      BY <1>1, <1>2, <3>2, <3>4, <3>7, StepSound
    <3> QED BY <3>5, <3>8, <3>9
  <2>3. CASE r # None /\ ~(Extras(r) # {} /\ r.enabled /\ PublishesExtras(x))
    <3> DEFINE more == IF r.enabled \/ ~WithdrawsExtras(x) \/ Extras(r) = {} THEN {}
                       ELSE WithdrawPlan(r, x.sid, Extras(r), 100)
                            \cup IF x.op = "put" THEN {Then("settle", 120)} ELSE {}
    <3>1. r \in Row
      BY <1>3, <2>3, TurnTypes
    <3>2. WithdrawPlan(r, x.sid, Extras(r), 100) \in SUBSET Plain
      BY <1>3, <3>1, TurnTypes, WithdrawPlanPlain
    <3>3. more \in SUBSET Plain
      BY <3>2, ThenPlain
    <3>4. Advance(s, Over(x, t, more)) /\ UNCHANGED reported
      BY <2>3 DEF FollowExtras
    <3> HIDE DEF more
    <3>5. Sound(Over(x, t, more))
      BY <1>1, <1>2, <3>3, OverSound
    <3> QED BY <2>0, <3>4, <3>5
  <2> QED BY <2>1, <2>2, <2>3
<1> QED BY <1>1, <1>4, TurnFacts, TurnTypes, NoCallType, AdvancedOK

\* The bulk routes, the next service of the batch.
LEMMA NextInBatchOK ==
    ASSUME NEW s, NEW t, Turn(s, t), NextInBatch(s, t)
    PROVE  IInv'
<1> DEFINE x == ses[s]
<1>1. NoCall /\ UNCHANGED <<rows, writer, requests, reported, unsaid>>
  BY DEF NextInBatch
<1>2. PICK q \in x.queue :
        Advance(s, [x EXCEPT !.sid = q[1], !.old = q[2], !.queue = @ \ {q},
            !.todo = {Then("extras", 90), Then("flip", 125)}
                     \cup IF x.queue = {q} THEN {} ELSE {Then("next", 160)}])
  BY DEF NextInBatch
<1> DEFINE more == {Then("extras", 90), Then("flip", 125)}
                   \cup IF x.queue = {q} THEN {} ELSE {Then("next", 160)}
           y == [x EXCEPT !.sid = q[1], !.old = q[2], !.queue = @ \ {q}, !.todo = more]
<1>3. x \in Session /\ q[1] \in Services /\ q[2] \in Row
  BY TurnFacts DEF Session
<1>4. more \in SUBSET Task /\ \A u \in more : u.do \in {"extras", "flip", "next"}
  BY ThenTask DEF Decisions
<1>5. Advance(s, y)
  BY <1>2
<1> HIDE DEF more
<1>6. y \in Session /\ y.todo = more /\ y.sid = q[1] /\ y.old = q[2]
  BY <1>3, <1>4 DEF Session
<1> HIDE DEF y
<1>7. Sound(y)
  BY <1>3, <1>4, <1>6 DEF Sound, Grounded
<1> QED BY <1>1, <1>5, <1>7, TurnFacts, TurnTypes, NoCallType, AdvancedOK

\* What the bulk routes queue for the primaries.
LEMMA FlipPlanPlain ==
    ASSUME NEW x, x.old \in Row
    PROVE  FlipPlan(x) \in SUBSET Plain
<1> DEFINE r == x.old
           tell(p) == IF x.op = "disable" THEN OnProxy("suspend", p, r.host, r.hid, 130)
                      ELSE IF r.hid # None THEN OnProxy("resume", p, r.host, r.hid, 130)
                      ELSE OnProxy("create", p, r.host, None, 130)
           point(d) == IF x.op = "enable" THEN OnDns("add", d, r.host, r.ip, 140)
                       ELSE OffDns("quit", d, r.host, r.ip, 140)
<1>1. /\ r.host \in Hosts /\ r.hid \in Ids \cup {None} /\ r.ip \in Ips \cup {None}
      /\ Some(r.proxy) \subseteq Proxies /\ Some(r.dns) \subseteq Dns
  BY RowFields DEF Some
<1> HIDE DEF r
<1>2. ASSUME NEW p \in Some(r.proxy), x.op = "enable" \/ r.hid # None
      PROVE  tell(p) \in Plain
  <2>1. p \in Proxies
    BY <1>1
  <2>2. r.hid # None => /\ OnProxy("suspend", p, r.host, r.hid, 130) \in Plain
                        /\ OnProxy("resume", p, r.host, r.hid, 130) \in Plain
    BY <1>1, <2>1, OnProxyPlain DEF OnHosts
  <2>3. OnProxy("create", p, r.host, None, 130) \in Plain
    <3>1. "create" \in OnHosts /\ "create" \notin ById /\ 130 \in Int
      BY DEF OnHosts, ById
    <3> QED BY <1>1, <2>1, <3>1, OnProxyPlain
  <2> QED BY <1>2, <2>2, <2>3
<1>3. ASSUME NEW d \in Some(r.dns), r.ip # None
      PROVE  point(d) \in Plain
  <2>1. OnDns("add", d, r.host, r.ip, 140) \in Plain
    BY <1>1, <1>3, OnDnsPlain
  <2>2. OffDns("quit", d, r.host, r.ip, 140) \in Plain
    BY <1>1, <1>3, OffDnsPlain
  <2> QED BY <2>1, <2>2
<1>4. Then("settle", 150) \in Plain
  BY ThenPlain
<1>5. FlipPlan(x) = {Then("settle", 150)}
        \cup {tell(p) : p \in {q \in Some(r.proxy) : x.op = "enable" \/ r.hid # None}}
        \cup {point(d) : d \in {e \in Some(r.dns) : r.ip # None}}
  BY DEF FlipPlan, r
<1> HIDE DEF tell, point
<1> QED BY <1>2, <1>3, <1>4, <1>5

\* The bulk routes, the primaries of a service.
LEMMA FlipPrimariesOK ==
    ASSUME NEW s, NEW t, Turn(s, t), FlipPrimaries(s, t)
    PROVE  IInv'
<1> DEFINE x == ses[s]
           more == FlipPlan(x)
           z == Over(x, t, more)
           y == [z EXCEPT !.new = x.old, !.hid = x.old.hid, !.saved = x.old.hid, !.ip = None]
<1>1. /\ t.do = "flip" /\ NoCall /\ Advance(s, y)
      /\ UNCHANGED <<rows, writer, requests, reported, unsaid>>
  BY DEF FlipPrimaries
<1>2. x \in Session /\ Sound(x) /\ t \in x.todo /\ x.old \in Row /\ x.old.hid \in Ids \cup {None}
  BY <1>1, TurnFacts, RowFields DEF Sound, Grounded
<1>3. more \in SUBSET Plain
  BY <1>2, FlipPlanPlain
<1> HIDE DEF more
<1>4. z \in Session /\ z.todo = (x.todo \ {t}) \cup more /\ z.old = x.old /\ z.sid = x.sid
  <2>1. z \in Session
    BY <1>1, <1>2, <1>3, OverSound
  <2> QED BY <1>2, <2>1 DEF Over, Session
<1> HIDE DEF z
<1>5. /\ y \in Session /\ y.todo = (x.todo \ {t}) \cup more
      /\ y.old = x.old /\ y.sid = x.sid /\ y.new = x.old
  BY <1>2, <1>4 DEF Session
<1> HIDE DEF y
<1>6. Sound(y)
  BY <1>1, <1>2, <1>3, <1>5, StepSound
<1> QED BY <1>1, <1>6, TurnFacts, TurnTypes, NoCallType, AdvancedOK

(***************************************************************************)
(* The requests.                                                           *)
(***************************************************************************)
\* A session that knows its rows and its service may have any task.
LEMMA KnownSound ==
    ASSUME NEW y \in Session, y.old \in Row, y.new \in Row, y.sid \in Services
    PROVE  Sound(y)
BY DEF Sound, Grounded

\* A session with plain tasks need not know anything.
LEMMA PlainSound ==
    ASSUME NEW y \in Session, y.todo \in SUBSET Plain
    PROVE  Sound(y)
BY DEF Sound, Grounded, Plain

\* The session a request opens.
LEMMA OpeningType ==
    ASSUME NEW op \in Ops, NEW sid \in Services \cup {None}, NEW old \in Row \cup {None},
           NEW new \in Row \cup {None}, NEW hid \in Ids \cup {None}, NEW todo \in SUBSET Task
    PROVE  /\ Opening(op, sid, old, new, hid, todo) \in Session
           /\ Opening(op, sid, old, new, hid, todo).sid = sid
           /\ Opening(op, sid, old, new, hid, todo).old = old
           /\ Opening(op, sid, old, new, hid, todo).new = new
           /\ Opening(op, sid, old, new, hid, todo).todo = todo
BY ZenonT(60) DEF Opening, NoSession, Session, Ops

\* A request starts: one fewer to come, and the other sessions go on.
LEMMA StartTold ==
    ASSUME IInv, NEW s \in Sessions, requests > 0, NEW x, Sound(x), Start(s, x),
           ProvidersTypeOK', rows' \in [Services -> Row \cup {None}],
           UNCHANGED <<writer, unsaid>>, reported' \subseteq Named2
    PROVE  IInv'
<1>1. Sound(Rest(x)) /\ Sound(NoSession)
  <2>1. NoSession \in Session /\ NoSession.todo = {}
    BY DEF NoSession, Session, Ops
  <2> QED BY <2>1, EmptySound, RestSound
<1>2. SessionsOK'
  BY <1>1 DEF IInv, SessionsOK, Start, Sound
<1>3. requests' \in 0 .. Requests
  BY PublicationAssumption DEF IInv, TypeOK, Start
<1> QED BY <1>2, <1>3 DEF IInv, TypeOK, SessionsOK, Named2

\* The same, where the start has no error to tell.
LEMMA StartOK ==
    ASSUME IInv, NEW s \in Sessions, requests > 0, NEW x, Sound(x), Start(s, x),
           ProvidersTypeOK', rows' \in [Services -> Row \cup {None}],
           UNCHANGED <<writer, reported, unsaid>>
    PROVE  IInv'
<1>1. reported' \subseteq Named2
  BY DEF IInv, TypeOK, Named2
<1> QED BY <1>1, StartTold

\* A state of the invariant has a row, or nothing, for every service.
LEMMA RowsType ==
    ASSUME IInv
    PROVE  rows \in [Services -> Row \cup {None}] /\ ProvidersTypeOK
BY DEF IInv, TypeOK

\* Providers that nobody called keep their type.
LEMMA SameProviders ==
    ASSUME ProvidersTypeOK, UNCHANGED provVars
    PROVE  ProvidersTypeOK'
BY DEF ProvidersTypeOK, provVars

\* POST: the INSERT comes before the extra targets.
LEMMA AddServiceOK ==
    ASSUME IInv, NEW s \in Sessions, requests > 0, AddService(s)
    PROVE  IInv'
<1>1. PICK b \in Bodies :
        /\ Acceptable(b, None)
        /\ Start(s, Opening("add", None, None, b, None,
               {Then("insert", 30), Then("extras", 90)} \cup
               IF ~b.enabled THEN {}
               ELSE {OnProxy("create", p, b.host, None, 10) : p \in Some(b.proxy)}
                    \cup {OnDns("add", d, b.host, b.ip, 20) : d \in Some(b.dns)}))
  BY DEF AddService
<1> DEFINE calls == IF ~b.enabled THEN {}
                    ELSE {OnProxy("create", p, b.host, None, 10) : p \in Some(b.proxy)}
                         \cup {OnDns("add", d, b.host, b.ip, 20) : d \in Some(b.dns)}
           todo == {Then("insert", 30), Then("extras", 90)} \cup calls
           y == Opening("add", None, None, b, None, todo)
<1>2. b \in Row
  BY PublicationAssumption
<1>3. calls \in SUBSET Plain
  <2>1. /\ b.host \in Hosts /\ Some(b.proxy) \subseteq Proxies
        /\ \A d \in Some(b.dns) : d \in Dns /\ b.ip \in Ips
    BY <1>1, <1>2, RowFields DEF Some, Acceptable
  <2>2. ASSUME NEW p \in Some(b.proxy) PROVE OnProxy("create", p, b.host, None, 10) \in Plain
    <3>1. "create" \in OnHosts /\ "create" \notin ById /\ p \in Proxies
      BY <2>1 DEF OnHosts, ById
    <3> QED BY <2>1, <3>1, OnProxyPlain
  <2>3. ASSUME NEW d \in Some(b.dns) PROVE OnDns("add", d, b.host, b.ip, 20) \in Plain
    BY <2>1, OnDnsPlain
  <2> QED BY <2>2, <2>3
<1>4. /\ Then("insert", 30) \in Task /\ Then("extras", 90) \in Task
      /\ Then("insert", 30).do = "insert" /\ Then("insert", 30).stage = 30
      /\ Then("extras", 90).do = "extras" /\ Then("extras", 90).stage = 90
  BY ThenTask DEF Decisions
<1>5. Start(s, y)
  BY <1>1
<1> HIDE DEF calls
<1>6. y \in Session /\ y.new = b /\ y.todo = todo
  <2>1. todo \in SUBSET Task
    BY <1>3, <1>4 DEF Plain
  <2>2. /\ "add" \in Ops /\ None \in Services \cup {None} /\ b \in Row \cup {None}
        /\ None \in Row \cup {None} /\ None \in Ids \cup {None}
    BY <1>2 DEF Ops
  <2> HIDE DEF todo
  <2>3. y \in Session
    BY <2>1, <2>2, OpeningType
  <2>4. y.new = b /\ y.todo = todo
    BY DEF Opening, NoSession
  <2> QED BY <2>3, <2>4
<1> HIDE DEF y
<1>7. Sound(y)
  <2>1. \A u \in calls : u.do \notin {"point", "move", "flip", "write", "commit", "insert", "extras"}
    BY <1>3 DEF Plain
  <2>2. \E u \in y.todo : u.do = "insert" /\ u.stage < 90
    BY <1>4, <1>6
  <2> QED BY <1>2, <1>4, <1>6, <2>1, <2>2 DEF Sound, Grounded
<1>8. UNCHANGED <<provVars, rows, writer, reported, unsaid>>
  BY DEF AddService
<1> QED BY <1>5, <1>7, <1>8, RowsType, SameProviders, StartOK

\* The tasks a PUT opens with.
LEMMA PutPlansTasks ==
    ASSUME NEW old \in Row, NEW b \in Row, b.dns # None => b.ip # None
    PROVE  PutProxyPlan(old, b) \cup PutDnsPlan(old, b) \in SUBSET Task
<1>1. /\ b.host \in Hosts /\ Some(b.proxy) \subseteq Proxies
      /\ b.dns \in Dns \cup {None} /\ b.ip \in Ips \cup {None}
      /\ old.host \in Hosts /\ old.hid \in Ids \cup {None} /\ old.ip \in Ips \cup {None}
  BY RowFields DEF Some
<1>2. PutProxyPlan(old, b) \in SUBSET Task
  <2>1. ASSUME NEW p \in Some(b.proxy)
        PROVE  (IF old.proxy = p /\ old.hid # None THEN OnProxy("renew", p, b.host, old.hid, 10)
                ELSE OnProxy("create", p, b.host, None, 10)) \in Task
    <3>1. /\ "create" \in OnHosts /\ "create" \notin ById /\ "renew" \in OnHosts
          /\ p \in Proxies /\ 10 \in Int
      BY <1>1 DEF OnHosts, ById
    <3>2. OnProxy("create", p, b.host, None, 10) \in Plain
      BY <1>1, <3>1, OnProxyPlain
    <3>3. old.hid # None => OnProxy("renew", p, b.host, old.hid, 10) \in Plain
      BY <1>1, <3>1, OnProxyPlain
    <3> QED BY <3>2, <3>3 DEF Plain
  <2> QED BY <2>1 DEF PutProxyPlan
<1>3. PutDnsPlan(old, b) \in SUBSET Task
  <2>1. CASE b.dns = None \/ b.ip = None
    BY <2>1 DEF PutDnsPlan
  <2>2. CASE b.dns \in Dns /\ b.ip \in Ips
    <3>1. ASSUME NEW r \in GoneRecords(old, b)
          PROVE  OffDns("quit", b.dns, r[1], r[2], 20) \in Task
      <4>1. r[1] \in Hosts /\ r[2] \in Ips
        BY <1>1, <2>2 DEF GoneRecords, SameDns
      <4> QED BY <2>2, <4>1, OffDnsPlain DEF Plain
    <3>2. OnDns("point", b.dns, b.host, b.ip, 20) \in Task
      BY <1>1, <2>2 DEF OnDns, Do, Task, OnHosts, OnRecords, ById, Removes, Publishes
    <3>3. SameDns(old, b) => Do("move", b.dns, b.host, b.ip, old.ip, 20) \in Task
      BY <1>1, <2>2 DEF SameDns, Do, Task, OnHosts, OnRecords, ById, Removes, Publishes
    <3> QED BY <3>1, <3>2, <3>3 DEF PutDnsPlan
  <2> QED BY <1>1, <2>1, <2>2
<1> QED BY <1>2, <1>3

\* PUT: the handler has read its row before it does anything.
LEMMA UpdateServiceOK ==
    ASSUME IInv, NEW s \in Sessions, requests > 0, UpdateService(s)
    PROVE  IInv'
<1>1. PICK sid \in Services, b \in Bodies :
        /\ rows[sid] # None
        /\ Acceptable(b, sid)
        /\ Start(s, Opening("put", sid, rows[sid], b,
               IF rows[sid].proxy = b.proxy THEN rows[sid].hid ELSE None,
               PutProxyPlan(rows[sid], b) \cup PutDnsPlan(rows[sid], b) \cup
               {Then("write", 30), Then("commit", 60), Then("extras", 90)}))
  BY DEF UpdateService, Ready
<1> DEFINE old == rows[sid]
           hid == IF old.proxy = b.proxy THEN old.hid ELSE None
           todo == PutProxyPlan(old, b) \cup PutDnsPlan(old, b) \cup
                   {Then("write", 30), Then("commit", 60), Then("extras", 90)}
           y == Opening("put", sid, old, b, hid, todo)
<1>2. b \in Row /\ old \in Row
  BY <1>1, RowsType, PublicationAssumption
<1>3. hid \in Ids \cup {None}
  BY <1>2, RowFields
<1>4. todo \in SUBSET Task
  <2>1. PutProxyPlan(old, b) \cup PutDnsPlan(old, b) \in SUBSET Task
    BY <1>1, <1>2, PutPlansTasks DEF Acceptable
  <2>2. {Then("write", 30), Then("commit", 60), Then("extras", 90)} \in SUBSET Task
    BY ThenTask DEF Decisions
  <2> QED BY <2>1, <2>2
<1>5. Start(s, y)
  BY <1>1
<1> HIDE DEF old, hid, todo
<1>6. y \in Session /\ y.sid = sid /\ y.old = old /\ y.new = b
  BY <1>2, <1>3, <1>4, OpeningType DEF Ops
<1> HIDE DEF y
<1>7. Sound(y)
  BY <1>2, <1>6, KnownSound
<1>8. UNCHANGED <<provVars, rows, writer, reported, unsaid>>
  BY DEF UpdateService
<1> QED BY <1>5, <1>7, <1>8, RowsType, SameProviders, StartOK

\* DELETE: likewise.
LEMMA DeleteServiceOK ==
    ASSUME IInv, NEW s \in Sessions, requests > 0, DeleteService(s)
    PROVE  IInv'
<1>1. PICK sid \in Services :
        /\ rows[sid] # None
        /\ Start(s, Opening("delete", sid, rows[sid], rows[sid], rows[sid].hid,
               WithdrawPlan(rows[sid], sid, Proxies \cup Dns, 100) \cup {Then("remove", 120)}))
  BY DEF DeleteService, Ready
<1> DEFINE old == rows[sid]
           todo == WithdrawPlan(old, sid, Proxies \cup Dns, 100) \cup {Then("remove", 120)}
           y == Opening("delete", sid, old, old, old.hid, todo)
<1>2. old \in Row /\ old.hid \in Ids \cup {None}
  BY <1>1, RowsType, RowFields
<1>3. todo \in SUBSET Task
  <2>1. WithdrawPlan(old, sid, Proxies \cup Dns, 100) \in SUBSET Plain
    BY <1>2, RowsType, WithdrawPlanPlain
  <2>2. Then("remove", 120) \in Plain
    BY ThenPlain
  <2> QED BY <2>1, <2>2 DEF Plain
<1>4. Start(s, y)
  BY <1>1
<1> HIDE DEF old, todo
<1>5. y \in Session /\ y.sid = sid /\ y.old = old /\ y.new = old
  BY <1>2, <1>3, OpeningType DEF Ops
<1> HIDE DEF y
<1>6. Sound(y)
  BY <1>2, <1>5, KnownSound
<1>7. UNCHANGED <<provVars, rows, writer, reported, unsaid>>
  BY DEF DeleteService
<1> QED BY <1>4, <1>6, <1>7, RowsType, SameProviders, StartOK

\* The push: it starts with plain tasks only.
LEMMA PushServiceOK ==
    ASSUME IInv, NEW s \in Sessions, requests > 0, PushService(s)
    PROVE  IInv'
<1>1. PICK sid \in Services : rows[sid] # None /\ Push(s, sid, rows[sid])
  BY DEF PushService, Ready
<1> DEFINE r == rows[sid]
<1>2. r \in Row /\ r.hid \in Ids \cup {None}
  BY <1>1, RowsType, RowFields
<1>3. PICK ip \in Resolved(r) :
        /\ Start(s, [Opening("push", sid, None, r, r.hid,
                             PushPlan(r, sid, Proxies \cup Dns, ip, 100))
                       EXCEPT !.ip = ip, !.err = NoTarget(r, sid, Proxies \cup Dns, ip)])
        /\ reported' = reported \cup Untargeted(r, sid, Proxies \cup Dns, ip)
  BY <1>1 DEF Push
<1> DEFINE todo == PushPlan(r, sid, Proxies \cup Dns, ip, 100)
           err  == NoTarget(r, sid, Proxies \cup Dns, ip)
           z    == Opening("push", sid, None, r, r.hid, todo)
           y    == [z EXCEPT !.ip = ip, !.err = err]
<1>4. ip \in Ips \cup {None}
  BY <1>2, RowFields DEF Resolved
<1>5. todo \in SUBSET Plain
  BY <1>2, <1>4, RowsType, PushPlanPlain
<1>6. Start(s, y)
  BY <1>3
<1>7. err \in BOOLEAN
  BY DEF NoTarget
<1> HIDE DEF r, todo, err
<1>8. z \in Session /\ z.todo = todo
  <2>1. todo \in SUBSET Task
    BY <1>5 DEF Plain
  <2>2. /\ "push" \in Ops /\ sid \in Services \cup {None} /\ r \in Row \cup {None}
        /\ None \in Row \cup {None} /\ r.hid \in Ids \cup {None}
    BY <1>2 DEF Ops
  <2>3. z \in Session
    BY <2>1, <2>2, OpeningType
  <2>4. z.todo = todo
    BY DEF Opening, NoSession
  <2> QED BY <2>3, <2>4
<1> HIDE DEF z
<1>9. y \in Session /\ y.todo = todo
  BY <1>4, <1>7, <1>8 DEF Session
<1> HIDE DEF y
<1>10. Sound(y)
  BY <1>5, <1>9, PlainSound
<1>11. UNCHANGED <<provVars, rows, writer, unsaid>>
  BY DEF PushService
<1>12. reported' \subseteq Named2
  <2>1. reported \subseteq Named2
    BY DEF IInv, TypeOK, Named2
  <2>2. Untargeted(rows[sid], sid, Proxies \cup Dns, ip) \subseteq Named2
    BY <1>1, RowsType, UntargetedNames
  <2> QED BY <1>3, <2>1, <2>2 DEF r
<1> QED BY <1>6, <1>10, <1>11, <1>12, RowsType, SameProviders, StartTold

\* The bulk routes: the flag is written for the whole batch.
LEMMA BulkSwitchOK ==
    ASSUME IInv, NEW s \in Sessions, requests > 0, BulkSwitch(s)
    PROVE  IInv'
<1>1. PICK op \in {"enable", "disable"}, sids \in SUBSET Services :
        /\ \A sid \in sids : rows[sid] # None
        /\ rows' = [sid \in Services |-> IF sid \notin sids THEN rows[sid]
                        ELSE [rows[sid] EXCEPT !.enabled = (op = "enable")]]
        /\ Start(s, [Opening(op, None, None, None, None, {Then("next", 1)})
                       EXCEPT !.queue = {<<sid, rows[sid]>> : sid \in sids}])
  BY DEF BulkSwitch, Ready
<1> DEFINE queue == {<<sid, rows[sid]>> : sid \in sids}
           z == Opening(op, None, None, None, None, {Then("next", 1)})
           y == [z EXCEPT !.queue = queue]
<1>2. \A sid \in sids : sid \in Services /\ rows[sid] \in Row
  BY <1>1, RowsType
<1>3. queue \in SUBSET (Services \X Row)
  BY <1>2
<1>4. Then("next", 1) \in Plain
  BY ThenPlain
<1>5. Start(s, y)
  BY <1>1
<1>6. z \in Session /\ z.todo = {Then("next", 1)}
  BY <1>4, OpeningType DEF Ops, Plain
<1> HIDE DEF queue, z
<1>7. y \in Session /\ y.todo = {Then("next", 1)}
  BY <1>3, <1>6 DEF Session
<1> HIDE DEF y
<1>8. Sound(y)
  BY <1>4, <1>7, PlainSound
<1>9. rows' \in [Services -> Row \cup {None}]
  <2>1. ASSUME NEW sid \in sids
        PROVE  [rows[sid] EXCEPT !.enabled = (op = "enable")] \in Row
    BY <1>2 DEF Row
  <2> QED BY <1>1, <2>1, RowsType
<1>10. UNCHANGED <<provVars, writer, reported, unsaid>>
  BY DEF BulkSwitch
<1> QED BY <1>5, <1>8, <1>9, <1>10, RowsType, SameProviders, StartOK

(***************************************************************************)
(* The invariant, and the theorem.                                         *)
(***************************************************************************)
\* The invariant holds before the first request.
LEMMA InitOK == Init => IInv
<1> SUFFICES ASSUME Init PROVE IInv
  OBVIOUS
<1>1. ProvidersTypeOK
  BY ProvidersAssumption DEF Init, ProvidersInit, ProvidersTypeOK
<1>2. NoSession \in Session /\ NoSession.todo = {}
  BY DEF NoSession, Session, Ops
<1>3. SessionsOK
  BY <1>2 DEF Init, SessionsOK, Grounded
<1>4. requests \in 0 .. Requests
  BY PublicationAssumption DEF Init
<1> QED BY <1>1, <1>3, <1>4 DEF Init, IInv, TypeOK, SessionsOK

\* Every step of every session keeps it.
LEMMA NextOK == IInv /\ [Next]_vars => IInv'
<1> SUFFICES ASSUME IInv, [Next]_vars PROVE IInv'
  OBVIOUS
<1>1. CASE UNCHANGED vars
  BY <1>1 DEF IInv, TypeOK, SessionsOK, Grounded, ProvidersTypeOK, vars, provVars
<1>2. ASSUME NEW s \in Sessions, Handle(s) PROVE IInv'
  <2>1. requests > 0
    BY <1>2 DEF Handle
  <2> QED BY <1>2, <2>1, AddServiceOK, UpdateServiceOK, DeleteServiceOK, PushServiceOK,
             BulkSwitchOK DEF Handle
<1>3. ASSUME NEW s \in Sessions, Work(s) PROVE IInv'
  <2>1. PICK t \in NextTasks(s) :
          \/ FindHost(s, t) \/ RenewHost(s, t) \/ CreateNewHost(s, t)
          \/ ResumeHost(s, t) \/ SuspendHost(s, t) \/ ScrapHost(s, t)
          \/ SeekHost(s, t) \/ DropHost(s, t)
          \/ ReadRecord(s, t) \/ SwapRecord(s, t) \/ AddRecord(s, t)
          \/ PointRecord(s, t) \/ MoveRecord(s, t) \/ UnmoveRecord(s, t)
          \/ LookRecord(s, t) \/ QuitRecord(s, t) \/ CheckKept(s, t)
          \/ InsertRow(s, t) \/ WriteRow(s, t) \/ CommitRow(s, t) \/ Settle(s, t)
          \/ TakeLock(s, t) \/ GiveUp(s, t)
          \/ FollowExtras(s, t) \/ RemoveRow(s, t)
          \/ NextInBatch(s, t) \/ FlipPrimaries(s, t)
    BY <1>3 DEF Work
  <2>2. Turn(s, t)
    BY DEF Turn
  <2> QED BY <2>1, <2>2, FindHostOK, RenewHostOK, CreateNewHostOK, ResumeHostOK,
             SuspendHostOK, ScrapHostOK, SeekHostOK, DropHostOK, ReadRecordOK, SwapRecordOK,
             AddRecordOK, PointRecordOK, MoveRecordOK, UnmoveRecordOK, LookRecordOK,
             QuitRecordOK, CheckKeptOK, InsertRowOK, WriteRowOK, CommitRowOK, SettleOK,
             TakeLockOK, GiveUpOK, FollowExtrasOK, RemoveRowOK, NextInBatchOK, FlipPrimariesOK
<1> QED BY <1>1, <1>2, <1>3 DEF Next

\* Whatever requests overlap, fail or are refused, the table, the providers and
\* the sessions stay well formed: no handler reaches a call without the host,
\* the id or the address that the call needs.
THEOREM TypeCorrect == Spec => []TypeOK
<1>1. IInv => TypeOK
  BY DEF IInv
<1> QED BY <1>1, InitOK, NextOK, PTL DEF Spec

\* No handler comes to a decision on a row, a body or a service id that it has
\* not read or been given.
THEOREM SessionsStayGrounded == Spec => []SessionsOK
<1>1. IInv => SessionsOK
  BY DEF IInv
<1> QED BY <1>1, InitOK, NextOK, PTL DEF Spec

=============================================================================
