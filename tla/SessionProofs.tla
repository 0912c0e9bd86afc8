--------------------------- MODULE SessionProofs ----------------------------
(***************************************************************************)
(* What holds of requests that run beside others, for every number of      *)
(* services, sessions and providers: no two services claim one name, and a *)
(* request that takes routes away puts none up.                            *)
(*                                                                         *)
(* The names: the unique index on the hostname is met by the INSERT of a   *)
(* POST and by the UPDATE of a PUT, but the row of a PUT is only there     *)
(* for others at its commit.  What holds between the two is that the       *)
(* session has SQLite's writer, so nobody writes a name meanwhile          *)
(* (NameHeld), and that a session with a commit to come has nothing before *)
(* it that would end its transaction (EditShape).                          *)
(***************************************************************************)
EXTENDS PublicationProofs

\* A commit to come is alone, after the UPDATE and before the extra targets,
\* and nothing else that writes a row is queued with it.
EditShape(x) ==
    \A c \in x.todo : c.do = "commit" =>
        \A u \in x.todo :
            /\ u.do \notin {"insert", "settle", "remove", "next", "flip"}
            /\ u.do = "extras" => u.stage > c.stage
            /\ u.do = "write" => u.stage < c.stage
            /\ u.do = "commit" => u = c

\* The UPDATE of x is behind it, its commit is not.
Checked(x) == /\ \E c \in x.todo : c.do = "commit"
              /\ \A u \in x.todo : u.do # "write"

NameHeld(s) ==
    LET x == ses[s]
    IN  Checked(x) => writer = s /\ (rows[x.sid] # None => ~Taken(x.new.host, x.sid))

NamesInv == UniqueHosts /\ \A s \in Sessions : EditShape(ses[s]) /\ NameHeld(s)

\* The rows keep their names.
SameNames == \A i \in Services : /\ rows'[i] = None <=> rows[i] = None
                                 /\ rows[i] # None => rows'[i].host = rows[i].host

\* No other of the services in `table` has the name.
FreeIn(table, h, sid) == \A o \in Services \ {sid} : table[o] # None => table[o].host # h

Undecided(x) == \A u \in x.todo : u.do # "commit"

\* Tasks that neither end a transaction nor write a row.
Gentle(tasks) == \A u \in tasks : u.do \in OnHosts \cup OnRecords \cup {"journal"}

(***************************************************************************)
(* Sessions with and without a commit to come.                             *)
(***************************************************************************)
\* Without one there is nothing to hold.
LEMMA UndecidedOK ==
    ASSUME NEW x, Undecided(x)
    PROVE  EditShape(x) /\ ~Checked(x)
BY DEF Undecided, EditShape, Checked

\* The answer of a request has none.
LEMMA RestTodo ==
    ASSUME NEW x
    PROVE  Rest(x).todo = x.todo /\ (x.todo # {} => Rest(x) = x)
<1>1. CASE x.todo # {}
  BY <1>1 DEF Rest
<1>2. CASE x.todo = {}
  BY <1>2 DEF Rest, NoSession
<1> QED BY <1>1, <1>2

\* Names that stay stay apart.
LEMMA NamesApart ==
    ASSUME SameNames, UniqueHosts
    PROVE  UniqueHosts'
BY DEF SameNames, UniqueHosts

\* Unchanged rows keep their names.
LEMMA RowsStay ==
    ASSUME UNCHANGED rows
    PROVE  SameNames
BY DEF SameNames

(***************************************************************************)
(* One session steps.  Another that has checked its name has the writer,   *)
(* so either none has, or the names and the writer stay.                   *)
(***************************************************************************)
LEMMA StepNames ==
    ASSUME SessionsOK, NamesInv, NEW s \in Sessions, NEW y,
           Advance(s, y) \/ Start(s, y),
           EditShape(y),
           Checked(y) => writer' = s /\ (rows'[y.sid] # None => FreeIn(rows', y.new.host, y.sid)),
           UniqueHosts',
           writer \in {None, s} \/ (writer' = writer /\ SameNames)
    PROVE  NamesInv'
<1>1. ses'[s] = Rest(y)
  BY DEF SessionsOK, Advance, Start
<1>2. EditShape(ses'[s]) /\ NameHeld(s)'
  <2>1. CASE y.todo = {}
    <3>1. Undecided(ses'[s])
      BY <1>1, <2>1, RestTodo DEF Undecided
    <3> QED BY <3>1, UndecidedOK DEF NameHeld
  <2>2. CASE y.todo # {}
    <3>1. ses'[s] = y
      BY <1>1, <2>2, RestTodo
    <3> QED BY <3>1 DEF NameHeld, Taken, FreeIn
  <2> QED BY <2>1, <2>2
<1>3. ASSUME NEW o \in Sessions, o # s
      PROVE  EditShape(ses'[o]) /\ NameHeld(o)'
  <2>1. ses'[o] = ses[o] \/ ses'[o] = NoSession
    BY <1>3 DEF Advance, Start, SessionsOK
  <2>2. CASE ses'[o] = NoSession
    <3>1. Undecided(ses'[o])
      BY <2>2 DEF Undecided, NoSession
    <3> QED BY <3>1, UndecidedOK DEF NameHeld
  <2>3. CASE ses'[o] = ses[o]
    <3>1. EditShape(ses[o]) /\ NameHeld(o)
      BY DEF NamesInv
    <3>2. CASE ~Checked(ses[o])
      BY <2>3, <3>1, <3>2 DEF NameHeld
    <3>3. CASE Checked(ses[o])
      <4>1. /\ writer = o
            /\ rows[ses[o].sid] # None => ~Taken(ses[o].new.host, ses[o].sid)
        BY <3>1, <3>3 DEF NameHeld
      <4>2. writer' = o /\ SameNames
        BY <1>3, <4>1, PublicationAssumption
      <4>3. ses[o].sid \in Services
        BY <3>3 DEF Checked, SessionsOK, Grounded
      <4>4. rows'[ses[o].sid] # None => ~Taken(ses[o].new.host, ses[o].sid)'
        <5>1. rows'[ses[o].sid] # None => rows[ses[o].sid] # None
          BY <4>2, <4>3 DEF SameNames
        <5> QED BY <4>1, <4>2, <5>1, <2>3 DEF SameNames, Taken
      <4> QED BY <2>3, <3>1, <4>2, <4>4 DEF NameHeld, Taken
    <3> QED BY <3>2, <3>3
  <2> QED BY <2>1, <2>2, <2>3
<1> QED BY <1>2, <1>3 DEF NamesInv

\* A task that neither reads nor writes a name, and leaves gentle ones behind.
LEMMA CallNames ==
    ASSUME NEW s, NEW t, Turn(s, t), NamesInv, NEW y, Advance(s, y),
           y.new = ses[s].new, y.sid = ses[s].sid,
           NEW more, Gentle(more), y.todo \subseteq ses[s].todo \cup more,
           \A u \in ses[s].todo : u.do = "write" => u \in y.todo,
           UNCHANGED rows,
           writer' = writer \/ (CanWrite(s) /\ writer' = s)
    PROVE  NamesInv'
<1> DEFINE x == ses[s]
<1>1. s \in Sessions /\ SessionsOK /\ EditShape(x) /\ NameHeld(s)
  BY DEF Turn, IInv, NamesInv
<1>2. \A u \in y.todo : u \in x.todo \/ u.do \in OnHosts \cup OnRecords \cup {"journal"}
  BY DEF Gentle
<1>3. \A u \in y.todo : u.do \in {"commit", "insert", "settle", "remove", "next", "flip",
                                  "extras", "write"} => u \in x.todo
  BY <1>2 DEF OnHosts, OnRecords
<1>4. EditShape(y)
  BY <1>1, <1>3 DEF EditShape
<1>5. Checked(y) => Checked(x)
  BY <1>3 DEF Checked
<1>6. SameNames
  BY RowsStay
<1>7. Checked(y) => writer' = s /\ (rows'[y.sid] # None => FreeIn(rows', y.new.host, y.sid))
  BY <1>1, <1>5 DEF NameHeld, Taken, FreeIn
<1>8. UniqueHosts'
  BY <1>6, NamesApart DEF NamesInv
<1>9. writer \in {None, s} \/ writer' = writer
  BY DEF CanWrite
<1> QED BY <1>1, <1>4, <1>6, <1>7, <1>8, <1>9, StepNames

\* So is the answer of a provider,
LEMMA ReplyNames ==
    ASSUME NEW s, NEW t, Turn(s, t), NamesInv, t.do \in OnHosts \cup OnRecords,
           NEW ok, NEW good \in Session, good.new = ses[s].new, good.sid = ses[s].sid,
           NEW more, Gentle(more), good.todo = (ses[s].todo \ {t}) \cup more,
           NEW carried, Reply(s, t, ok, good, carried), UNCHANGED rows
    PROVE  NamesInv'
<1> DEFINE x       == ses[s]
           j       == Then("journal", 0)
           bad     == [Over(x, t, {}) EXCEPT !.err = TRUE]
           next    == IF ok THEN good ELSE bad
           delayed == [next EXCEPT !.todo = @ \cup {j}]
           more2   == more \cup {j}
<1>1. x \in Session /\ t.do # "write"
  BY TurnFacts DEF OnHosts, OnRecords
<1>2. /\ bad \in Session /\ bad.new = x.new /\ bad.sid = x.sid
      /\ bad.todo = x.todo \ {t}
  BY <1>1 DEF Over, Session
<1>3. /\ next \in Session /\ next.new = x.new /\ next.sid = x.sid
      /\ next.todo \subseteq x.todo \cup more
      /\ x.todo \ {t} \subseteq next.todo
  <2> HIDE DEF bad
  <2> QED BY <1>2
<1> HIDE DEF next
<1>4. /\ delayed.new = x.new /\ delayed.sid = x.sid
      /\ delayed.todo \subseteq x.todo \cup more2
      /\ x.todo \ {t} \subseteq delayed.todo
  <2> HIDE DEF j
  <2> QED BY <1>3 DEF Session
<1>5. Gentle(more2)
  BY DEF Gentle, Then, Do
<1>6. /\ Advance(s, delayed) \/ Advance(s, next)
      /\ writer' = writer \/ (CanWrite(s) /\ writer' = s)
  BY DEF Reply, next
<1>7. CASE Advance(s, next)
  BY <1>1, <1>3, <1>6, <1>7, CallNames
<1>8. CASE Advance(s, delayed)
  <2> HIDE DEF delayed, more2
  <2> QED BY <1>1, <1>4, <1>5, <1>6, <1>8, CallNames
<1> QED BY <1>6, <1>7, <1>8

\* An answered call whose follow-up is gentle leaves the names alone.
LEMMA FollowNames ==
    ASSUME NEW s, NEW t, Turn(s, t), NamesInv, t.do \in OnHosts \cup OnRecords,
           NEW ok, NEW more \in SUBSET Task, Gentle(more),
           Answered(s, t, ok, Over(ses[s], t, more))
    PROVE  NamesInv'
<1> DEFINE y == Over(ses[s], t, more)
<1>1. /\ y \in Session /\ y.new = ses[s].new /\ y.sid = ses[s].sid
      /\ y.todo = (ses[s].todo \ {t}) \cup more
  BY TurnFacts DEF Over, Session
<1>2. Reply(s, t, ok, y, {}) /\ UNCHANGED rows
  BY DEF Answered
<1> HIDE DEF y
<1> QED BY <1>1, <1>2, ReplyNames

(***************************************************************************)
(* The provider calls.                                                     *)
(***************************************************************************)
\* What follows a call is gentle.
LEMMA AfterGentle ==
    ASSUME NEW t \in Task, NEW do \in OnHosts \cup OnRecords, NEW id \in Ids \cup Ips \cup {None},
           do \notin {"point", "move", "look"},
           do \in OnHosts => t.do \in OnHosts,
           do \in OnRecords => t.do \in OnRecords,
           do \in ById => id \in Ids,
           do \in Removes => id \in Ips,
           do \in Publishes => t.ip \in Ips
    PROVE  After(t, do, id) \in Task /\ Gentle({After(t, do, id)})
BY AfterFields DEF Plain, Gentle

\* No task is a gentle plan.
LEMMA NothingGentle == Gentle({}) /\ {} \in SUBSET Task
BY DEF Gentle

\* The call by name leads to an update or a creation.
LEMMA FindHostNames ==
    ASSUME NEW s, NEW t, Turn(s, t), NamesInv, FindHost(s, t)
    PROVE  NamesInv'
<1> DEFINE more == IF Named(t.at, t.host) = {} THEN {After(t, "create", None)}
                   ELSE {After(t, "renew", x.id) : x \in Named(t.at, t.host)}
<1>1. t.do = "find" /\ t.do \in OnHosts /\ t \in Task /\ t.at \in Proxies
  BY TurnFacts DEF FindHost, OnHosts
<1>2. PICK ok \in BOOLEAN : Answered(s, t, ok, Over(ses[s], t, more))
  BY DEF FindHost
<1>3. After(t, "create", None) \in Task /\ Gentle({After(t, "create", None)})
  BY <1>1, AfterGentle DEF OnHosts, OnRecords, ById, Removes, Publishes
<1>4. ASSUME NEW x \in Named(t.at, t.host)
      PROVE  After(t, "renew", x.id) \in Task /\ Gentle({After(t, "renew", x.id)})
  <2>1. x.id \in Ids
    BY <1>1, HostIds, TurnFacts DEF Named
  <2> QED BY <1>1, <2>1, AfterGentle DEF OnHosts, OnRecords, ById, Removes, Publishes
<1>5. more \in SUBSET Task /\ Gentle(more)
  BY <1>3, <1>4 DEF Gentle
<1> HIDE DEF more
<1> QED BY <1>1, <1>2, <1>5, FollowNames

\* A call after which the session only notes the id of its host.
LEMMA NotedNames ==
    ASSUME NEW s, NEW t, Turn(s, t), NamesInv, t.do \in OnHosts,
           NEW ok, NEW more \in SUBSET Task, Gentle(more), NEW hid \in Ids \cup {None},
           NEW carried, Reply(s, t, ok, [Over(ses[s], t, more) EXCEPT !.hid = hid], carried),
           UNCHANGED rows
    PROVE  NamesInv'
<1> DEFINE y == [Over(ses[s], t, more) EXCEPT !.hid = hid]
<1>1. /\ y \in Session /\ y.new = ses[s].new /\ y.sid = ses[s].sid
      /\ y.todo = (ses[s].todo \ {t}) \cup more
  BY TurnFacts DEF Over, Session
<1> HIDE DEF y
<1>2. Reply(s, t, ok, y, carried)
  BY DEF y
<1> QED BY <1>1, <1>2, ReplyNames

\* An update may lead to a resume, and notes the id.
LEMMA RenewHostNames ==
    ASSUME NEW s, NEW t, Turn(s, t), NamesInv, RenewHost(s, t)
    PROVE  NamesInv'
<1> DEFINE more == IF Resumes(t) THEN {After(t, "resume", t.id)} ELSE {}
           hid  == IF t.at # ses[s].new.proxy THEN Over(ses[s], t, more).hid
                   ELSE IF t.at \in HostKeyed THEN t.host ELSE t.id
           was  == {x.host : x \in WithId(t.at, t.id)}
           carried == IF ({t.at} \X was) \cap reported = {} THEN {} ELSE {<<t.at, t.host>>}
<1>1. /\ t.do = "renew" /\ t.do \in OnHosts /\ t.do \in ById /\ t \in Task
      /\ t.host \in Hosts /\ t.id \in Ids
  BY TurnFacts DEF RenewHost, OnHosts, ById
<1>2. /\ \E ok \in BOOLEAN : Reply(s, t, ok, [Over(ses[s], t, more) EXCEPT !.hid = hid], carried)
      /\ UNCHANGED rows
  BY DEF RenewHost
<1>3. more \in SUBSET Task /\ Gentle(more)
  <2>1. After(t, "resume", t.id) \in Task /\ Gentle({After(t, "resume", t.id)})
    BY <1>1, AfterGentle DEF OnHosts, OnRecords, ById, Removes, Publishes
  <2> QED BY <2>1, NothingGentle
<1> HIDE DEF more
<1>4. hid \in Ids \cup {None}
  <2>1. Over(ses[s], t, more).hid \in Ids \cup {None}
    BY TurnFacts DEF Over, Session
  <2> QED BY <1>1, <2>1 DEF Ids
<1> HIDE DEF hid, carried
<1> QED BY <1>1, <1>2, <1>3, <1>4, NotedNames

\* A creation notes the id.
LEMMA CreateNewHostNames ==
    ASSUME NEW s, NEW t, Turn(s, t), NamesInv, CreateNewHost(s, t)
    PROVE  NamesInv'
<1>1. t.do = "create" /\ t.do \in OnHosts /\ t.host \in Hosts
  BY TurnFacts DEF CreateNewHost, OnHosts
<1>2. PICK ok \in BOOLEAN, id \in IF t.at \in HostKeyed THEN {t.host} ELSE FreeIds(t.at) :
        Answered(s, t, ok, [Over(ses[s], t, {}) EXCEPT
               !.hid = IF t.at = ses[s].new.proxy THEN id ELSE @,
               !.sent = Went(ses[s], t.at)])
  BY DEF CreateNewHost
<1>3. id \in Ids
  BY <1>1 DEF FreeIds, Ids
<1> DEFINE hid == IF t.at = ses[s].new.proxy THEN id ELSE Over(ses[s], t, {}).hid
<1>4. hid \in Ids \cup {None}
  <2>1. Over(ses[s], t, {}).hid \in Ids \cup {None}
    BY TurnFacts DEF Over, Session
  <2> QED BY <1>3, <2>1
<1> DEFINE y == [Over(ses[s], t, {}) EXCEPT !.hid = hid, !.sent = Went(ses[s], t.at)]
<1>5. Reply(s, t, ok, y, {}) /\ UNCHANGED rows
  BY <1>2 DEF Answered
<1> HIDE DEF hid
<1>6. /\ y \in Session /\ y.new = ses[s].new /\ y.sid = ses[s].sid
      /\ y.todo = (ses[s].todo \ {t}) \cup {}
  <2>1. ses[s] \in Session /\ t.at \in Proxies \cup Dns
    BY <1>1, TurnFacts
  <2> DEFINE sent == Went(ses[s], t.at)
             z    == [Over(ses[s], t, {}) EXCEPT !.hid = hid, !.sent = sent]
  <2>2. sent \in SUBSET (Proxies \cup Dns)
    BY <2>1, WentNames
  <2> HIDE DEF sent
  <2>3. /\ z \in Session /\ z.new = ses[s].new /\ z.op = ses[s].op /\ z.sid = ses[s].sid
        /\ z.todo = (ses[s].todo \ {t}) \cup {}
    BY <1>4, <2>1, <2>2 DEF Over, Session
  <2>4. y = z
    BY DEF sent
  <2> HIDE DEF y, z
  <2> QED BY <2>3, <2>4
<1> HIDE DEF y
<1> QED BY <1>1, <1>5, <1>6, NothingGentle, ReplyNames

\* A deletion in place of a suspension forgets the id.
LEMMA ScrapHostNames ==
    ASSUME NEW s, NEW t, Turn(s, t), NamesInv, ScrapHost(s, t)
    PROVE  NamesInv'
<1>1. t.do \in OnHosts
  BY DEF ScrapHost, OnHosts
<1>2. PICK ok \in BOOLEAN : Answered(s, t, ok, [Over(ses[s], t, {}) EXCEPT !.hid = None])
  BY DEF ScrapHost
<1>3. Reply(s, t, ok, [Over(ses[s], t, {}) EXCEPT !.hid = None], {}) /\ UNCHANGED rows
  BY <1>2 DEF Answered
<1> QED BY <1>1, <1>3, NothingGentle, NotedNames

\* A suspension, or what a proxy does that has none.
LEMMA SuspendHostNames ==
    ASSUME NEW s, NEW t, Turn(s, t), NamesInv, SuspendHost(s, t)
    PROVE  NamesInv'
<1>1. t.do = "suspend" /\ t.do \in OnHosts /\ t.do \in ById /\ t \in Task /\ t.id \in Ids
  BY TurnFacts DEF SuspendHost, OnHosts, ById
<1>2. Instead(t) \in SUBSET Task /\ Gentle(Instead(t))
  BY <1>1, AfterGentle DEF Instead, OnHosts, OnRecords, ById, Removes, Publishes
<1>3. CASE \E ok \in BOOLEAN : Answered(s, t, ok, Over(ses[s], t, {}))
  BY <1>1, <1>3, NothingGentle, FollowNames
<1>4. CASE Answered(s, t, TRUE, Over(ses[s], t, Instead(t)))
  BY <1>1, <1>2, <1>4, FollowNames
<1> QED BY <1>3, <1>4 DEF SuspendHost

\* A search before a deletion leads to deletions.
LEMMA SeekHostNames ==
    ASSUME NEW s, NEW t, Turn(s, t), NamesInv, SeekHost(s, t)
    PROVE  NamesInv'
<1> DEFINE more == {After(t, "drop", x.id) : x \in Named(t.at, t.host)}
<1>1. t.do = "seek" /\ t.do \in OnHosts /\ t \in Task /\ t.at \in Proxies
  BY TurnFacts DEF SeekHost, OnHosts
<1>2. PICK ok \in BOOLEAN : Answered(s, t, ok, Over(ses[s], t, more))
  BY DEF SeekHost
<1>3. ASSUME NEW x \in Named(t.at, t.host)
      PROVE  After(t, "drop", x.id) \in Task /\ Gentle({After(t, "drop", x.id)})
  <2>1. x.id \in Ids
    BY <1>1, HostIds, TurnFacts DEF Named
  <2> QED BY <1>1, <2>1, AfterGentle DEF OnHosts, OnRecords, ById, Removes, Publishes
<1>4. more \in SUBSET Task /\ Gentle(more)
  BY <1>3 DEF Gentle
<1> HIDE DEF more
<1> QED BY <1>1, <1>2, <1>4, FollowNames

\* The calls on which nothing depends.
LEMMA PlainCallNames ==
    ASSUME NEW s, NEW t, Turn(s, t), NamesInv,
           ResumeHost(s, t) \/ DropHost(s, t) \/ AddRecord(s, t) \/ CheckKept(s, t)
    PROVE  NamesInv'
<1>1. t.do \in OnHosts \cup OnRecords
  BY DEF ResumeHost, DropHost, AddRecord, CheckKept, OnHosts, OnRecords
<1>2. CASE ResumeHost(s, t) \/ DropHost(s, t) \/ CheckKept(s, t)
  <2>1. \E ok \in BOOLEAN : Answered(s, t, ok, Over(ses[s], t, {}))
    BY <1>2 DEF ResumeHost, DropHost, CheckKept
  <2> QED BY <1>1, <2>1, NothingGentle, FollowNames
<1>3. CASE AddRecord(s, t)
  <2> DEFINE y == [Over(ses[s], t, {}) EXCEPT !.sent = Went(ses[s], t.at)]
  <2>1. t.at \in Dns
    BY <1>3, TurnFacts DEF AddRecord, OnRecords
  <2>2. PICK ok \in BOOLEAN : Reply(s, t, ok, y, {}) /\ UNCHANGED rows
    BY <1>3 DEF AddRecord, Answered
  <2>3. /\ y \in Session /\ y.new = ses[s].new /\ y.sid = ses[s].sid
        /\ y.todo = (ses[s].todo \ {t}) \cup {}
    BY <2>1, TurnFacts, AddedFields
  <2> HIDE DEF y
  <2> QED BY <1>1, <2>2, <2>3, NothingGentle, ReplyNames
<1> QED BY <1>2, <1>3

\* A record that is read is swapped or added.
LEMMA ReadRecordNames ==
    ASSUME NEW s, NEW t, Turn(s, t), NamesInv, ReadRecord(s, t)
    PROVE  NamesInv'
<1>1. t.do = "read" /\ t.do \in OnRecords /\ t \in Task /\ t.ip \in Ips
  BY TurnFacts DEF ReadRecord, OnRecords, Publishes
<1>2. CASE Answered(s, t, FALSE, ses[s])
  <2>1. /\ ses[s] \in Session /\ Gentle({t})
        /\ ses[s].todo = (ses[s].todo \ {t}) \cup {t}
    BY <1>1, TurnFacts DEF Gentle
  <2>2. Reply(s, t, FALSE, ses[s], {}) /\ UNCHANGED rows
    BY <1>2 DEF Answered
  <2> QED BY <1>1, <2>1, <2>2, ReplyNames
<1>3. CASE Answered(s, t, TRUE, Over(ses[s], t, {After(t, "add", None)}))
  <2>1. After(t, "add", None) \in Task /\ Gentle({After(t, "add", None)})
    BY <1>1, AfterGentle DEF OnHosts, OnRecords, ById, Removes, Publishes
  <2> QED BY <1>1, <1>3, <2>1, FollowNames
<1>4. ASSUME NEW found \in Answers(t.at, t.host),
             Answered(s, t, TRUE, Over(ses[s], t,
                 IF found = t.ip THEN {} ELSE {After(t, "swap", found)}))
      PROVE  NamesInv'
  <2> DEFINE more == IF found = t.ip THEN {} ELSE {After(t, "swap", found)}
  <2>1. found \in Ips
    BY DEF Answers
  <2>2. After(t, "swap", found) \in Task /\ Gentle({After(t, "swap", found)})
    BY <1>1, <2>1, AfterGentle DEF OnHosts, OnRecords, ById, Removes, Publishes
  <2>3. more \in SUBSET Task /\ Gentle(more)
    BY <2>2, NothingGentle
  <2>4. Answered(s, t, TRUE, Over(ses[s], t, more))
    BY <1>4
  <2> HIDE DEF more
  <2> QED BY <1>1, <2>3, <2>4, FollowNames
<1> QED BY <1>2, <1>3, <1>4 DEF ReadRecord

\* A record that goes is followed by the one that comes.
LEMMA SwapRecordNames ==
    ASSUME NEW s, NEW t, Turn(s, t), NamesInv, SwapRecord(s, t)
    PROVE  NamesInv'
<1>1. t.do = "swap" /\ t.do \in OnRecords /\ t \in Task /\ t.ip \in Ips
  BY TurnFacts DEF SwapRecord, OnRecords, Publishes
<1>2. PICK ok \in BOOLEAN : Answered(s, t, ok, Over(ses[s], t, {After(t, "add", None)}))
  BY DEF SwapRecord
<1>3. After(t, "add", None) \in Task /\ Gentle({After(t, "add", None)})
  BY <1>1, AfterGentle DEF OnHosts, OnRecords, ById, Removes, Publishes
<1> QED BY <1>1, <1>2, <1>3, FollowNames

\* The record of a PUT on a server that had none.
LEMMA PointRecordNames ==
    ASSUME NEW s, NEW t, Turn(s, t), NamesInv, PointRecord(s, t)
    PROVE  NamesInv'
<1> DEFINE old    == ses[s].old
           quit   == OffDns("quit", old.dns, old.host, old.ip, t.stage - 1)
           retire == IF old.dns # None /\ old.ip # None /\ Moved(ses[s]) THEN {quit} ELSE {}
<1>1. t.do = "point" /\ t.do \in OnRecords /\ t \in Task
  BY TurnFacts DEF PointRecord, OnRecords
<1>2. PICK ok \in BOOLEAN : Answered(s, t, ok, Over(ses[s], t, retire))
  BY DEF PointRecord
<1>3. old \in Row
  BY <1>1, TurnFacts DEF Sound, Grounded
<1>4. old.dns \in Dns \cup {None} /\ old.ip \in Ips \cup {None} /\ old.host \in Hosts
  BY <1>3 DEF Row
<1>5. t.stage - 1 \in Int
  BY <1>1 DEF Task
<1>6. retire \in SUBSET Task
  <2> HIDE DEF old
  <2> QED BY <1>4, <1>5, OffDnsPlain DEF Plain
<1>7. Gentle(retire)
  BY DEF Gentle, OffDns, Do, OnRecords
<1> HIDE DEF retire
<1> QED BY <1>1, <1>2, <1>6, <1>7, FollowNames

\* The record that a PUT moves.
LEMMA MoveRecordNames ==
    ASSUME NEW s, NEW t, Turn(s, t), NamesInv, MoveRecord(s, t)
    PROVE  NamesInv'
<1> DEFINE u == [After(t, "unmove", t.id) EXCEPT !.host = ses[s].old.host, !.ip = None]
<1>1. t.do = "move" /\ t.do \in OnRecords /\ t \in Task /\ t.id \in Ips /\ t.at \in Dns
  BY TurnFacts DEF MoveRecord, OnRecords, Removes
<1>2. PICK ok \in BOOLEAN : Answered(s, t, ok, Over(ses[s], t, {u}))
  BY DEF MoveRecord
<1>3. ses[s].old.host \in Hosts
  BY <1>1, TurnFacts DEF Sound, Grounded, Row
<1>4. u \in Task /\ u.do = "unmove"
  <2> DEFINE v == After(t, "unmove", t.id)
  <2>1. v \in Plain /\ v.do = "unmove" /\ v.at = t.at /\ v.id = t.id
    BY <1>1, AfterFields DEF OnHosts, OnRecords, ById, Removes, Publishes
  <2>2. u = [[v EXCEPT !.host = ses[s].old.host] EXCEPT !.ip = None]
    OBVIOUS
  <2> HIDE DEF v, u
  <2>3. /\ u.do = "unmove" /\ u.at = t.at /\ u.id = t.id /\ u.host = ses[s].old.host
        /\ u \in [do : OnHosts \cup OnRecords \cup Decisions,
                at : Proxies \cup Dns \cup {None}, host : Hosts \cup {None},
                ip : Ips \cup {None}, id : Ids \cup Ips \cup {None}, stage : Int]
    BY <1>3, <2>1, <2>2 DEF Plain, Task
  <2> QED BY <1>1, <1>3, <2>3 DEF Task, OnHosts, OnRecords, ById, Removes, Publishes
<1> HIDE DEF u
<1>5. Gentle({u}) /\ {u} \in SUBSET Task
  BY <1>4 DEF Gentle, OnRecords
<1> QED BY <1>1, <1>2, <1>5, FollowNames

\* A record that is withdrawn is looked at again.
LEMMA QuitRecordNames ==
    ASSUME NEW s, NEW t, Turn(s, t), NamesInv, QuitRecord(s, t)
    PROVE  NamesInv'
<1>1. t.do = "quit" /\ t.do \in OnRecords /\ t \in Task /\ t.id \in Ips
  BY TurnFacts DEF QuitRecord, OnRecords, Removes
<1>2. After(t, "kept", t.id) \in Task /\ Gentle({After(t, "kept", t.id)})
  BY <1>1, AfterGentle DEF OnHosts, OnRecords, ById, Removes, Publishes
<1>3. PICK ok \in BOOLEAN, more \in {{}, {After(t, "kept", t.id)}} :
        Answered(s, t, TRUE, Over(ses[s], t, more))
  BY DEF QuitRecord
<1> QED BY <1>1, <1>2, <1>3, NothingGentle, FollowNames

\* A step that only advances its session to gentle tasks.
LEMMA AdvancedNames ==
    ASSUME NEW s, NEW t, Turn(s, t), NamesInv, t.do # "write",
           NEW more, Gentle(more), Advance(s, Over(ses[s], t, more)),
           UNCHANGED rows, writer' = writer \/ (CanWrite(s) /\ writer' = s)
    PROVE  NamesInv'
<1> DEFINE y == Over(ses[s], t, more)
<1>1. /\ y.new = ses[s].new /\ y.sid = ses[s].sid
      /\ y.todo = (ses[s].todo \ {t}) \cup more
  BY TurnFacts DEF Over, Session
<1> HIDE DEF y
<1>2. Advance(s, y)
  BY DEF y
<1> QED BY <1>1, <1>2, CallNames

\* The old record of a move goes.
LEMMA UnmoveRecordNames ==
    ASSUME NEW s, NEW t, Turn(s, t), NamesInv, UnmoveRecord(s, t)
    PROVE  NamesInv'
<1>1. /\ t.do # "write" /\ Advance(s, Over(ses[s], t, {}))
      /\ UNCHANGED <<rows, writer>>
  BY DEF UnmoveRecord
<1> QED BY <1>1, NothingGentle, AdvancedNames

\* A look at a server leads to a withdrawal at most.
LEMMA LookRecordNames ==
    ASSUME NEW s, NEW t, Turn(s, t), NamesInv, LookRecord(s, t)
    PROVE  NamesInv'
<1>1. /\ t.do = "look" /\ t \in Task /\ UNCHANGED <<rows, writer>>
  BY TurnFacts DEF LookRecord
<1>2. PICK ip : Advance(s, Over(ses[s], t, IF ip = None THEN {} ELSE {After(t, "quit", ip)}))
  BY DEF LookRecord
<1>3. After(t, "quit", ip).do = "quit"
  BY <1>1 DEF After, Task
<1>4. PICK more \in {{}, {After(t, "quit", ip)}} : Advance(s, Over(ses[s], t, more))
  BY <1>2
<1>5. Gentle(more)
  BY <1>3, <1>4 DEF Gentle, OnRecords
<1> QED BY <1>1, <1>4, <1>5, AdvancedNames

(***************************************************************************)
(* The transactions and decisions.                                         *)
(***************************************************************************)
\* A session that comes to any of these has no commit before it.
LEMMA TurnUndecided ==
    ASSUME NEW s, NEW t, Turn(s, t), NamesInv,
           t.do \in {"insert", "settle", "remove", "next", "flip", "extras"}
    PROVE  Undecided(ses[s])
<1> SUFFICES ASSUME NEW c \in ses[s].todo, c.do = "commit" PROVE FALSE
  BY DEF Undecided
<1>1. t \in ses[s].todo /\ t \in Task /\ c \in Task /\ t.stage <= c.stage /\ EditShape(ses[s])
  BY TurnFacts DEF NamesInv, Session
<1>2. t.do = "extras" /\ t.stage > c.stage
  BY <1>1 DEF EditShape
<1>3. t.stage \in Int /\ c.stage \in Int
  BY <1>1 DEF Task
<1> QED BY <1>1, <1>2, <1>3

\* A step to a session without a commit, names and writer being what they were.
LEMMA LeisureNames ==
    ASSUME SessionsOK, NamesInv, NEW s \in Sessions, NEW y, Undecided(y),
           Advance(s, y) \/ Start(s, y), SameNames,
           writer' = writer \/ writer \in {None, s}
    PROVE  NamesInv'
<1>1. UniqueHosts'
  BY NamesApart DEF NamesInv
<1> QED BY <1>1, UndecidedOK, StepNames

\* The INSERT of a POST meets the index, with nothing of the row in sight before.
LEMMA InsertRowNames ==
    ASSUME NEW s, NEW t, Turn(s, t), NamesInv, InsertRow(s, t)
    PROVE  NamesInv'
<1> DEFINE x == ses[s]
<1>1. /\ t.do = "insert" /\ writer \in {None, s} /\ UNCHANGED writer
      /\ s \in Sessions /\ SessionsOK /\ UniqueHosts
  BY DEF InsertRow, CanWrite, Turn, IInv, NamesInv
<1>2. x \in Session /\ x.new \in Row /\ Undecided(x)
  BY <1>1, TurnFacts, TurnUndecided DEF Sound, Grounded
<1>3. CASE IndexRefuses(x.new.host, None)
  <2> DEFINE y == [Over(x, t, {}) EXCEPT !.todo = {}, !.err = TRUE]
  <2>1. Advance(s, y) /\ UNCHANGED rows
    BY <1>3 DEF InsertRow
  <2>2. Undecided(y)
    BY <1>2 DEF Over, Undecided, Session
  <2> QED BY <1>1, <2>1, <2>2, RowsStay, LeisureNames
<1>4. CASE ~IndexRefuses(x.new.host, None)
  <2>1. PICK sid \in Services :
          /\ rows[sid] = None
          /\ rows' = [rows EXCEPT ![sid] = [x.new EXCEPT !.hid = x.hid]]
          /\ Advance(s, [Over(x, t, {}) EXCEPT !.sid = sid, !.sent = {}])
    BY <1>4 DEF InsertRow
  <2> DEFINE y == [Over(x, t, {}) EXCEPT !.sid = sid, !.sent = {}]
             r == [x.new EXCEPT !.hid = x.hid]
  <2>2. Undecided(y)
    BY <1>2 DEF Over, Undecided, Session
  <2>3. r.host = x.new.host
    BY <1>2 DEF Row
  <2>4. ~Taken(x.new.host, None)
    BY <1>4 DEF IndexRefuses
  <2>5. \A i \in Services : rows'[i] = IF i = sid THEN r ELSE rows[i]
    BY <2>1, TurnTypes
  <2> HIDE DEF r
  <2>6. UniqueHosts'
    BY <1>1, <2>3, <2>4, <2>5, PublicationAssumption DEF UniqueHosts, Taken
  <2> QED BY <1>1, <2>1, <2>2, <2>6, UndecidedOK, StepNames
<1> QED BY <1>3, <1>4

\* The withdrawals of a PUT are gentle,
LEMMA WithdrawGentle ==
    ASSUME NEW r, NEW sid, NEW only, NEW stage
    PROVE  Gentle(WithdrawPlan(r, sid, only, stage))
BY DEF Gentle, WithdrawPlan, OnProxy, OffDns, Do, OnHosts, OnRecords

\* and its UPDATE checks the name against the index, with the writer in hand.
LEMMA WriteRowNames ==
    ASSUME NEW s, NEW t, Turn(s, t), NamesInv, WriteRow(s, t)
    PROVE  NamesInv'
<1> DEFINE x == ses[s]
<1>1. /\ t.do = "write" /\ writer \in {None, s} /\ UNCHANGED rows
      /\ s \in Sessions /\ SessionsOK /\ EditShape(x)
  BY DEF WriteRow, CanWrite, Turn, IInv, NamesInv
<1>2. x \in Session
  BY TurnFacts
<1>3. CASE rows[x.sid] # None /\ IndexRefuses(x.new.host, x.sid)
  <2> DEFINE y == [Over(x, t, {}) EXCEPT !.todo = {}, !.err = TRUE]
  <2>1. Advance(s, y)
    BY <1>3 DEF WriteRow
  <2>2. Undecided(y)
    BY <1>2 DEF Over, Undecided, Session
  <2> QED BY <1>1, <2>1, <2>2, RowsStay, LeisureNames
<1>4. CASE ~(rows[x.sid] # None /\ IndexRefuses(x.new.host, x.sid))
  <2> DEFINE more == WithdrawPlan(x.old, x.sid, StaleTargets(x), 40)
             y == Over(x, t, more)
  <2>1. Advance(s, y) /\ writer' = s
    BY <1>4 DEF WriteRow
  <2>2. Gentle(more)
    BY WithdrawGentle
  <2> HIDE DEF more
  <2>3. y.todo = (x.todo \ {t}) \cup more /\ y.new = x.new /\ y.sid = x.sid
    BY <1>2 DEF Over, Session
  <2> HIDE DEF y
  <2>4. \A u \in y.todo : u.do \in {"commit", "insert", "settle", "remove", "next", "flip",
                                    "extras", "write"} => u \in x.todo
    BY <2>2, <2>3 DEF Gentle, OnHosts, OnRecords
  <2>5. EditShape(y)
    BY <1>1, <2>4 DEF EditShape
  <2>6. rows'[y.sid] # None => FreeIn(rows', y.new.host, y.sid)
    BY <1>1, <1>4, <2>3 DEF IndexRefuses, Taken, FreeIn
  <2>7. UniqueHosts'
    BY <1>1, RowsStay, NamesApart DEF NamesInv
  <2> QED BY <1>1, <2>1, <2>5, <2>6, <2>7, StepNames
<1> QED BY <1>3, <1>4

\* The commit of a PUT makes its name visible: the session that checked it has
\* had the writer since, and nobody took the name.
LEMMA CommitRowNames ==
    ASSUME NEW s, NEW t, Turn(s, t), NamesInv, CommitRow(s, t)
    PROVE  NamesInv'
<1> DEFINE x == ses[s]
<1>1. /\ t.do = "commit" /\ s \in Sessions /\ SessionsOK /\ EditShape(x) /\ NameHeld(s)
      /\ UniqueHosts
  BY DEF CommitRow, Turn, IInv, NamesInv
<1>2. x \in Session /\ t \in x.todo /\ x.new \in Row /\ x.sid \in Services
  BY <1>1, TurnFacts DEF Sound, Grounded
<1>3. Checked(x)
  <2> SUFFICES ASSUME NEW u \in x.todo, u.do = "write" PROVE FALSE
    BY <1>1, <1>2 DEF Checked
  <2>1. u.stage < t.stage /\ t.stage <= u.stage
    BY <1>1, <1>2, TurnFacts DEF EditShape
  <2>2. u.stage \in Int /\ t.stage \in Int
    BY <1>2 DEF Session, Task
  <2> QED BY <2>1, <2>2
<1>4. writer = s /\ (rows[x.sid] # None => ~Taken(x.new.host, x.sid))
  BY <1>1, <1>3 DEF NameHeld
<1>5. CASE rows[x.sid] = None /\ Extras(x.new) # {}
  <2> DEFINE y == [x EXCEPT !.todo = {}, !.err = TRUE]
  <2>1. Advance(s, y) /\ UNCHANGED rows
    BY <1>5 DEF CommitRow
  <2>2. Undecided(y)
    BY <1>2 DEF Undecided, Session
  <2> QED BY <1>1, <1>4, <2>1, <2>2, RowsStay, LeisureNames
<1>6. CASE ~(rows[x.sid] = None /\ Extras(x.new) # {})
  <2> DEFINE more == SwitchPlan(x) \cup {Then("settle", 80)}
             y == [Over(x, t, more) EXCEPT !.saved = x.hid]
             r == [x.new EXCEPT !.hid = x.hid]
  <2>1. /\ Advance(s, y)
        /\ rows' = IF rows[x.sid] = None THEN rows ELSE [rows EXCEPT ![x.sid] = r]
    BY <1>6 DEF CommitRow
  <2>2. \A u \in more : u.do # "commit"
    BY DEF SwitchPlan, SwitchOn, SwitchOff, OnProxy, Then, Do
  <2> HIDE DEF more
  <2>3. y.todo = (x.todo \ {t}) \cup more
    BY <1>2 DEF Over, Session
  <2> HIDE DEF y
  <2>4. Undecided(y)
    BY <1>1, <1>2, <2>2, <2>3 DEF Undecided, EditShape
  <2>5. r.host = x.new.host
    BY <1>2 DEF Row
  <2> HIDE DEF r
  <2>6. UniqueHosts'
    <3>1. CASE rows[x.sid] = None
      BY <2>1, <3>1, RowsStay, NamesApart, <1>1
    <3>2. CASE rows[x.sid] # None
      <4>1. \A i \in Services : rows'[i] = IF i = x.sid THEN r ELSE rows[i]
        BY <2>1, <3>2, TurnTypes
      <4> QED BY <1>1, <1>4, <2>5, <3>2, <4>1 DEF UniqueHosts, Taken
    <3> QED BY <3>1, <3>2
  <2> QED BY <1>1, <1>4, <2>1, <2>4, <2>6, UndecidedOK, StepNames
<1> QED BY <1>5, <1>6

\* The commit of a push writes an id and an address, never a name.
LEMMA SettleNames ==
    ASSUME NEW s, NEW t, Turn(s, t), NamesInv, Settle(s, t)
    PROVE  NamesInv'
<1> DEFINE x == ses[s]
           y == [Over(x, t, {}) EXCEPT !.saved = x.hid, !.ip = None]
<1>1. /\ t.do = "settle" /\ s \in Sessions /\ SessionsOK
      /\ writer' = writer \/ writer \in {None, s}
      /\ Advance(s, y)
  BY DEF Settle, Released, Turn, IInv
<1>2. Undecided(x) /\ x \in Session
  BY <1>1, TurnUndecided, TurnFacts
<1>3. Undecided(y)
  BY <1>2 DEF Undecided, Over, Session
<1>4. SameNames
  <2>1. rows' = IF rows[x.sid] = None THEN rows
                ELSE [rows EXCEPT ![x.sid].hid = IF x.hid = x.saved THEN @ ELSE x.hid,
                                  ![x.sid].ip = IF NewIp(x) = None THEN @ ELSE x.ip]
    BY DEF Settle
  <2>2. rows \in [Services -> Row \cup {None}]
    BY TurnTypes
  <2>3. CASE rows[x.sid] = None
    BY <2>1, <2>3, RowsStay
  <2>4. CASE rows[x.sid] # None
    <3> SUFFICES ASSUME NEW i \in Services
                 PROVE  /\ rows'[i] = None <=> rows[i] = None
                        /\ rows[i] # None => rows'[i].host = rows[i].host
      BY DEF SameNames
    <3>1. CASE i # x.sid
      BY <2>1, <2>2, <2>4, <3>1
    <3>2. CASE i = x.sid
      <4> DEFINE hid == IF x.hid = x.saved THEN rows[i].hid ELSE x.hid
                 ip  == IF NewIp(x) = None THEN rows[i].ip ELSE x.ip
                 r   == [[rows[i] EXCEPT !.hid = hid] EXCEPT !.ip = ip]
      <4>1. rows[i] \in Row
        BY <2>2, <2>4, <3>2
      <4>2. rows'[i] = r
        BY <2>1, <2>2, <2>4, <3>2
      <4>3. r \in Row /\ r.host = rows[i].host
        <5>1. hid \in Ids \cup {None} /\ ip \in Ips \cup {None}
          BY <1>2, <4>1 DEF Session, Row
        <5> HIDE DEF hid, ip
        <5> QED BY <4>1, <5>1 DEF Row
      <4> HIDE DEF r
      <4> QED BY <4>1, <4>2, <4>3, PublicationAssumption
    <3> QED BY <3>1, <3>2
  <2> QED BY <2>3, <2>4
<1> QED BY <1>1, <1>3, <1>4, LeisureNames

\* The journal and dns_ip take the writer, and nothing else.
LEMMA TakeLockNames ==
    ASSUME NEW s, NEW t, Turn(s, t), NamesInv, TakeLock(s, t)
    PROVE  NamesInv'
<1>1. /\ t.do # "write" /\ CanWrite(s) /\ writer' = s /\ UNCHANGED rows
      /\ Advance(s, Over(ses[s], t, {}))
  BY DEF TakeLock
<1> QED BY <1>1, NothingGentle, AdvancedNames

\* A busy timeout drops the whole request, commit included, or one journal line.
LEMMA GiveUpNames ==
    ASSUME NEW s, NEW t, Turn(s, t), NamesInv, GiveUp(s, t)
    PROVE  NamesInv'
<1> DEFINE y == [Over(ses[s], t, {}) EXCEPT
                    !.err = TRUE, !.hid = ses[s].saved,
                    !.todo = IF t.do = "journal" THEN @ ELSE {}]
<1>1. /\ s \in Sessions /\ SessionsOK /\ ses[s] \in Session
      /\ UNCHANGED <<rows, writer>> /\ Advance(s, y)
  BY TurnFacts DEF GiveUp, Turn, IInv
<1>2. /\ y.new = ses[s].new /\ y.sid = ses[s].sid
      /\ y.todo = IF t.do = "journal" THEN ses[s].todo \ {t} ELSE {}
  BY <1>1 DEF Over, Session
<1> HIDE DEF y
<1>3. CASE t.do = "journal"
  BY <1>1, <1>2, <1>3, NothingGentle, CallNames
<1>4. CASE t.do # "journal"
  <2>1. Undecided(y)
    BY <1>2, <1>4 DEF Undecided
  <2> QED BY <1>1, <2>1, RowsStay, LeisureNames
<1> QED BY <1>3, <1>4

\* Tasks that commit an edit.
Committing(tasks) == \E u \in tasks : u.do = "commit"

\* Neither the plan of a push nor that of a withdrawal holds a commit.
LEMMA PlansUncommitted ==
    ASSUME NEW r, NEW sid, NEW only, NEW ip, NEW stage
    PROVE  ~Committing(PushPlan(r, sid, only, ip, stage))
           /\ ~Committing(WithdrawPlan(r, sid, only, stage))
<1>1. \A at : ~Committing(WithdrawPlan(r, sid, at, stage))
  BY DEF Committing, WithdrawPlan, OnProxy, OffDns, Do
<1>2. ~Committing(WithholdPlan(r, sid, only, stage))
  BY <1>1 DEF Committing, WithholdPlan, OnProxy, Do
<1>3. ~Committing(PublishPlan(r, sid, only, ip, stage))
  BY DEF Committing, PublishPlan, OnProxy, OnDns, Do
<1> QED BY <1>1, <1>2, <1>3 DEF Committing, PushPlan, Then, Do

\* The extra targets come after the commit, if there is one.
LEMMA FollowExtrasNames ==
    ASSUME NEW s, NEW t, Turn(s, t), NamesInv, FollowExtras(s, t)
    PROVE  NamesInv'
<1> DEFINE x == ses[s]
           r == rows[x.sid]
           withdrawn == WithdrawPlan(r, x.sid, Extras(r), 100)
                        \cup IF x.op = "put" THEN {Then("settle", 120)} ELSE {}
<1>1. /\ t.do = "extras" /\ s \in Sessions /\ SessionsOK /\ UNCHANGED <<rows, writer>>
      /\ x \in Session /\ Undecided(x)
  BY TurnUndecided, TurnFacts DEF FollowExtras, Turn, IInv
<1>2. ~Committing(withdrawn)
  <2> DEFINE plan == WithdrawPlan(r, x.sid, Extras(r), 100)
  <2>1. ~Committing(plan)
    BY PlansUncommitted
  <2> HIDE DEF plan
  <2>2. withdrawn \subseteq plan \cup {Then("settle", 120)}
    BY DEF plan
  <2> HIDE DEF withdrawn
  <2> QED BY <2>1, <2>2 DEF Committing, Then, Do
<1>3. \A ip : ~Committing(PushPlan(r, x.sid, Extras(r), ip, 100))
  BY PlansUncommitted
<1>4. CASE Advance(s, [Over(x, t, {}) EXCEPT !.err = @ \/ x.op = "put"])
  <2> DEFINE y == [Over(x, t, {}) EXCEPT !.err = @ \/ x.op = "put"]
  <2>1. Undecided(y)
    BY <1>1 DEF Undecided, Over, Session
  <2> QED BY <1>1, <1>4, <2>1, RowsStay, LeisureNames
<1>5. ASSUME NEW ip,
             Advance(s, [Over(x, t, PushPlan(r, x.sid, Extras(r), ip, 100))
                           EXCEPT !.new = r, !.hid = r.hid, !.saved = r.hid, !.ip = ip,
                                  !.err = @ \/ NoTarget(r, x.sid, Extras(r), ip)])
      PROVE  NamesInv'
  <2> DEFINE more == PushPlan(r, x.sid, Extras(r), ip, 100)
             y == [Over(x, t, more)
                     EXCEPT !.new = r, !.hid = r.hid, !.saved = r.hid, !.ip = ip,
                            !.err = @ \/ NoTarget(r, x.sid, Extras(r), ip)]
  <2>1. ~Committing(more)
    BY <1>3
  <2>2. Advance(s, y)
    BY <1>5
  <2> HIDE DEF more, r
  <2>3. y.todo = (x.todo \ {t}) \cup more
    BY <1>1 DEF Over, Session
  <2> HIDE DEF y
  <2>4. Undecided(y)
    BY <1>1, <2>1, <2>3 DEF Undecided, Committing
  <2> QED BY <1>1, <2>2, <2>4, RowsStay, LeisureNames
<1>6. CASE \E more \in {{}, withdrawn} : Advance(s, Over(x, t, more))
  <2>1. PICK more : ~Committing(more) /\ Advance(s, Over(x, t, more))
    BY <1>2, <1>6 DEF Committing
  <2>2. Undecided(Over(x, t, more))
    BY <1>1, <2>1 DEF Undecided, Committing, Over, Session
  <2> QED BY <1>1, <2>1, <2>2, RowsStay, LeisureNames
<1>7. \/ Advance(s, [Over(x, t, {}) EXCEPT !.err = @ \/ x.op = "put"])
      \/ \E ip : Advance(s, [Over(x, t, PushPlan(r, x.sid, Extras(r), ip, 100))
                           EXCEPT !.new = r, !.hid = r.hid, !.saved = r.hid, !.ip = ip,
                                  !.err = @ \/ NoTarget(r, x.sid, Extras(r), ip)])
      \/ \E more \in {{}, withdrawn} : Advance(s, Over(x, t, more))
  BY DEF FollowExtras
<1> QED BY <1>4, <1>5, <1>6, <1>7

\* A row that goes frees its name.
LEMMA RemoveRowNames ==
    ASSUME NEW s, NEW t, Turn(s, t), NamesInv, RemoveRow(s, t)
    PROVE  NamesInv'
<1> DEFINE x == ses[s]
           y == Over(x, t, {})
<1>1. /\ t.do = "remove" /\ s \in Sessions /\ SessionsOK /\ writer \in {None, s}
      /\ Advance(s, y) /\ rows' = [rows EXCEPT ![x.sid] = None]
      /\ x \in Session /\ Undecided(x) /\ UniqueHosts
  BY TurnUndecided, TurnFacts DEF RemoveRow, CanWrite, Turn, IInv, NamesInv
<1>2. Undecided(y)
  BY <1>1 DEF Undecided, Over, Session
<1>3. \A i \in Services : rows'[i] = IF i = x.sid THEN None ELSE rows[i]
  BY <1>1, TurnTypes
<1>4. UniqueHosts'
  BY <1>1, <1>3 DEF UniqueHosts
<1> QED BY <1>1, <1>2, <1>4, UndecidedOK, StepNames

\* The bulk routes open one service after the other without a commit,
LEMMA NextInBatchNames ==
    ASSUME NEW s, NEW t, Turn(s, t), NamesInv, NextInBatch(s, t)
    PROVE  NamesInv'
<1> DEFINE x == ses[s]
<1>1. s \in Sessions /\ SessionsOK /\ UNCHANGED <<rows, writer>> /\ x \in Session
  BY TurnFacts DEF NextInBatch, Turn, IInv
<1>2. PICK q \in x.queue :
        Advance(s, [x EXCEPT !.sid = q[1], !.old = q[2], !.queue = @ \ {q},
            !.todo = {Then("extras", 90), Then("flip", 125)}
                     \cup IF x.queue = {q} THEN {} ELSE {Then("next", 160)}])
  BY DEF NextInBatch
<1> DEFINE more == {Then("extras", 90), Then("flip", 125)}
                   \cup IF x.queue = {q} THEN {} ELSE {Then("next", 160)}
           y == [x EXCEPT !.sid = q[1], !.old = q[2], !.queue = @ \ {q}, !.todo = more]
<1>3. ~Committing(more)
  BY DEF Committing, Then, Do
<1>4. Advance(s, y)
  BY <1>2
<1> HIDE DEF more
<1>5. Undecided(y)
  BY <1>1, <1>3 DEF Undecided, Committing, Session
<1> QED BY <1>1, <1>4, <1>5, RowsStay, LeisureNames

\* and switch its primaries without one.
LEMMA FlipPrimariesNames ==
    ASSUME NEW s, NEW t, Turn(s, t), NamesInv, FlipPrimaries(s, t)
    PROVE  NamesInv'
<1> DEFINE x == ses[s]
           more == FlipPlan(x)
           z == Over(x, t, more)
           y == [z EXCEPT !.new = x.old, !.hid = x.old.hid, !.saved = x.old.hid, !.ip = None]
<1>1. /\ t.do = "flip" /\ s \in Sessions /\ SessionsOK /\ UNCHANGED <<rows, writer>>
      /\ x \in Session /\ Undecided(x) /\ Advance(s, y)
  BY TurnUndecided, TurnFacts DEF FlipPrimaries, Turn, IInv
<1>2. ~Committing(more)
  BY DEF Committing, FlipPlan, OnProxy, OnDns, OffDns, Then, Do
<1> HIDE DEF more
<1>3. y.todo = (x.todo \ {t}) \cup more
  BY <1>1 DEF Over, Session
<1>4. Undecided(y)
  BY <1>1, <1>2, <1>3 DEF Undecided, Committing
<1> HIDE DEF y
<1> QED BY <1>1, <1>4, RowsStay, LeisureNames

(***************************************************************************)
(* The requests.                                                           *)
(***************************************************************************)
\* The tasks of a session that opens.
LEMMA OpeningTodo ==
    ASSUME NEW op, NEW sid, NEW old, NEW new, NEW hid, NEW todo
    PROVE  Opening(op, sid, old, new, hid, todo).todo = todo
BY DEF Opening, NoSession

\* A request that opens without a commit to come leaves the names alone.
LEMMA OpeningNames ==
    ASSUME SessionsOK, NamesInv, NEW s \in Sessions, NEW op, NEW sid, NEW old, NEW new,
           NEW hid, NEW todo, ~Committing(todo),
           NEW y, y.todo = Opening(op, sid, old, new, hid, todo).todo, Start(s, y),
           SameNames, UNCHANGED writer
    PROVE  NamesInv'
<1>1. Undecided(y)
  BY OpeningTodo DEF Undecided, Committing
<1> QED BY <1>1, LeisureNames

\* A POST finds the index at its INSERT.
LEMMA AddServiceNames ==
    ASSUME SessionsOK, NamesInv, NEW s \in Sessions, AddService(s)
    PROVE  NamesInv'
<1>1. PICK b \in Bodies :
        Start(s, Opening("add", None, None, b, None,
               {Then("insert", 30), Then("extras", 90)} \cup
               IF ~b.enabled THEN {}
               ELSE {OnProxy("create", p, b.host, None, 10) : p \in Some(b.proxy)}
                    \cup {OnDns("add", d, b.host, b.ip, 20) : d \in Some(b.dns)}))
  BY DEF AddService
<1> DEFINE todo == {Then("insert", 30), Then("extras", 90)} \cup
                   IF ~b.enabled THEN {}
                   ELSE {OnProxy("create", p, b.host, None, 10) : p \in Some(b.proxy)}
                        \cup {OnDns("add", d, b.host, b.ip, 20) : d \in Some(b.dns)}
           y == Opening("add", None, None, b, None, todo)
<1>2. ~Committing(todo)
  BY DEF Committing, OnProxy, OnDns, Then, Do
<1>3. Start(s, y)
  BY <1>1
<1> HIDE DEF todo
<1> QED BY <1>2, <1>3, RowsStay, OpeningNames DEF AddService

\* A DELETE names nothing.
LEMMA DeleteServiceNames ==
    ASSUME SessionsOK, NamesInv, NEW s \in Sessions, DeleteService(s)
    PROVE  NamesInv'
<1>1. PICK sid \in Services :
        Start(s, Opening("delete", sid, rows[sid], rows[sid], rows[sid].hid,
               WithdrawPlan(rows[sid], sid, Proxies \cup Dns, 100) \cup {Then("remove", 120)}))
  BY DEF DeleteService
<1> DEFINE plan == WithdrawPlan(rows[sid], sid, Proxies \cup Dns, 100)
           todo == plan \cup {Then("remove", 120)}
           y == Opening("delete", sid, rows[sid], rows[sid], rows[sid].hid, todo)
<1>2. ~Committing(plan)
  BY PlansUncommitted
<1>3. Start(s, y)
  BY <1>1
<1> HIDE DEF plan
<1>4. ~Committing(todo)
  BY <1>2 DEF Committing, Then, Do
<1> HIDE DEF todo
<1> QED BY <1>3, <1>4, RowsStay, OpeningNames DEF DeleteService

\* Nor does a push.
LEMMA PushServiceNames ==
    ASSUME SessionsOK, NamesInv, NEW s \in Sessions, PushService(s)
    PROVE  NamesInv'
<1>1. PICK sid \in Services : Push(s, sid, rows[sid])
  BY DEF PushService
<1> DEFINE r == rows[sid]
<1>2. PICK ip \in Resolved(r) :
        Start(s, [Opening("push", sid, None, r, r.hid,
                          PushPlan(r, sid, Proxies \cup Dns, ip, 100))
                    EXCEPT !.ip = ip, !.err = NoTarget(r, sid, Proxies \cup Dns, ip)])
  BY <1>1 DEF Push
<1> DEFINE todo == PushPlan(r, sid, Proxies \cup Dns, ip, 100)
           err  == NoTarget(r, sid, Proxies \cup Dns, ip)
           z    == Opening("push", sid, None, r, r.hid, todo)
           y    == [z EXCEPT !.ip = ip, !.err = err]
<1>3. ~Committing(todo)
  BY PlansUncommitted
<1>4. Start(s, y)
  BY <1>2
<1> HIDE DEF r, todo, err
<1>5. y.todo = z.todo
  BY DEF Opening, NoSession
<1> HIDE DEF y
<1> QED BY <1>3, <1>4, <1>5, RowsStay, OpeningNames DEF PushService

\* A bulk switch writes flags.
LEMMA BulkSwitchNames ==
    ASSUME SessionsOK, NamesInv, NEW s \in Sessions, BulkSwitch(s),
           rows \in [Services -> Row \cup {None}]
    PROVE  NamesInv'
<1>1. PICK op \in {"enable", "disable"}, sids \in SUBSET Services :
        /\ \A sid \in sids : rows[sid] # None
        /\ rows' = [sid \in Services |-> IF sid \notin sids THEN rows[sid]
                        ELSE [rows[sid] EXCEPT !.enabled = (op = "enable")]]
        /\ Start(s, [Opening(op, None, None, None, None, {Then("next", 1)})
                       EXCEPT !.queue = {<<sid, rows[sid]>> : sid \in sids}])
  BY DEF BulkSwitch, Ready
<1> DEFINE queue == {<<sid, rows[sid]>> : sid \in sids}
           todo == {Then("next", 1)}
           z == Opening(op, None, None, None, None, todo)
           y == [z EXCEPT !.queue = queue]
<1>2. SameNames
  <2> SUFFICES ASSUME NEW i \in Services
               PROVE  /\ rows'[i] = None <=> rows[i] = None
                      /\ rows[i] # None => rows'[i].host = rows[i].host
    BY DEF SameNames
  <2>1. CASE i \notin sids
    BY <1>1, <2>1
  <2>2. CASE i \in sids
    <3> DEFINE r == [rows[i] EXCEPT !.enabled = (op = "enable")]
    <3>1. rows[i] \in Row
      BY <1>1, <2>2
    <3>2. r \in Row /\ r.host = rows[i].host
      BY <3>1 DEF Row
    <3>3. rows'[i] = r
      BY <1>1, <2>2
    <3> HIDE DEF r
    <3> QED BY <3>1, <3>2, <3>3, PublicationAssumption
  <2> QED BY <2>1, <2>2
<1>3. ~Committing(todo)
  BY DEF Committing, Then, Do
<1>4. Start(s, y)
  BY <1>1
<1> HIDE DEF todo, queue
<1>5. y.todo = z.todo
  BY DEF Opening, NoSession
<1> HIDE DEF y
<1> QED BY <1>2, <1>3, <1>4, <1>5, OpeningNames DEF BulkSwitch

\* What a PUT sets out to do on its providers.
LEMMA PutPlansGentle ==
    ASSUME NEW old, NEW b
    PROVE  Gentle(PutProxyPlan(old, b) \cup PutDnsPlan(old, b))
<1>1. Gentle(PutProxyPlan(old, b))
  BY DEF Gentle, PutProxyPlan, OnProxy, Do, OnHosts
<1>2. Gentle(PutDnsPlan(old, b))
  <2>1. \A r : OffDns("quit", b.dns, r[1], r[2], 20).do = "quit"
    BY DEF OffDns, Do
  <2>2. OnDns("point", b.dns, b.host, b.ip, 20).do = "point"
    BY DEF OnDns, Do
  <2>3. Do("move", b.dns, b.host, b.ip, old.ip, 20).do = "move"
    BY DEF Do
  <2>4. \A u \in PutDnsPlan(old, b) : u.do \in {"quit", "point", "move"}
    BY <2>1, <2>2, <2>3 DEF PutDnsPlan
  <2> QED BY <2>4 DEF Gentle, OnRecords
<1> QED BY <1>1, <1>2 DEF Gentle

\* A PUT opens with its UPDATE before its commit, its extra targets after it.
LEMMA UpdateServiceNames ==
    ASSUME SessionsOK, NamesInv, NEW s \in Sessions, UpdateService(s)
    PROVE  NamesInv'
<1>1. PICK sid \in Services, b \in Bodies :
        Start(s, Opening("put", sid, rows[sid], b,
               IF rows[sid].proxy = b.proxy THEN rows[sid].hid ELSE None,
               PutProxyPlan(rows[sid], b) \cup PutDnsPlan(rows[sid], b) \cup
               {Then("write", 30), Then("commit", 60), Then("extras", 90)}))
  BY DEF UpdateService
<1> DEFINE old == rows[sid]
           hid == IF old.proxy = b.proxy THEN old.hid ELSE None
           calls == PutProxyPlan(old, b) \cup PutDnsPlan(old, b)
           todo == calls \cup {Then("write", 30), Then("commit", 60), Then("extras", 90)}
           y == Opening("put", sid, old, b, hid, todo)
<1>2. Gentle(calls)
  BY PutPlansGentle
<1>3. Start(s, y)
  BY <1>1
<1> HIDE DEF old, hid, calls
<1>4. y.todo = todo
  BY OpeningTodo
<1>5. /\ Then("write", 30).do = "write" /\ Then("write", 30).stage = 30
      /\ Then("commit", 60).do = "commit" /\ Then("commit", 60).stage = 60
      /\ Then("extras", 90).do = "extras" /\ Then("extras", 90).stage = 90
  BY DEF Then, Do
<1>6. \A u \in calls : u.do \notin {"insert", "settle", "remove", "next", "flip",
                                    "extras", "write", "commit"}
  BY <1>2 DEF Gentle, OnHosts, OnRecords
<1> HIDE DEF y
<1>7. EditShape(y)
  BY <1>4, <1>5, <1>6 DEF EditShape
<1>8. ~Checked(y)
  BY <1>4, <1>5 DEF Checked
<1>9. UNCHANGED <<rows, writer>> /\ SameNames /\ UniqueHosts'
  BY RowsStay, NamesApart DEF UpdateService, NamesInv
<1> QED BY <1>3, <1>7, <1>8, <1>9, StepNames

(***************************************************************************)
(* The invariant, and the theorem.                                         *)
(***************************************************************************)
\* An empty table and idle sessions.
LEMMA InitNames == Init => NamesInv
<1> SUFFICES ASSUME Init PROVE NamesInv
  OBVIOUS
<1>1. UniqueHosts
  BY DEF Init, UniqueHosts
<1>2. ASSUME NEW s \in Sessions
      PROVE  EditShape(ses[s]) /\ NameHeld(s)
  <2>1. Undecided(ses[s])
    BY DEF Init, NoSession, Undecided
  <2> QED BY <2>1, UndecidedOK DEF NameHeld
<1> QED BY <1>1, <1>2 DEF NamesInv

\* Every step of every session keeps the names apart, and the name that a PUT
\* has checked free until its commit.
LEMMA NextNames == IInv /\ NamesInv /\ [Next]_vars => NamesInv'
<1> SUFFICES ASSUME IInv, NamesInv, [Next]_vars PROVE NamesInv'
  OBVIOUS
<1>1. CASE UNCHANGED vars
  BY <1>1 DEF NamesInv, UniqueHosts, EditShape, NameHeld, Checked, Taken, vars
<1>2. ASSUME NEW s \in Sessions, Handle(s) PROVE NamesInv'
  <2>1. SessionsOK
    BY DEF IInv
  <2> QED BY <1>2, <2>1, RowsType, AddServiceNames, UpdateServiceNames, DeleteServiceNames,
             PushServiceNames, BulkSwitchNames DEF Handle
<1>3. ASSUME NEW s \in Sessions, Work(s) PROVE NamesInv'
  <2>1. PICK t \in NextTasks(s) :
          \/ FindHost(s, t) \/ RenewHost(s, t) \/ CreateNewHost(s, t)
          \/ ResumeHost(s, t) \/ SuspendHost(s, t) \/ ScrapHost(s, t)
          \/ SeekHost(s, t) \/ DropHost(s, t)
          \/ ReadRecord(s, t) \/ SwapRecord(s, t) \/ AddRecord(s, t)
          \/ PointRecord(s, t) \/ MoveRecord(s, t) \/ UnmoveRecord(s, t)
          \/ LookRecord(s, t) \/ QuitRecord(s, t) \/ CheckKept(s, t)
          \/ InsertRow(s, t) \/ WriteRow(s, t) \/ CommitRow(s, t) \/ Settle(s, t)
          \/ TakeLock(s, t) \/ GiveUp(s, t)
          \/ FollowExtras(s, t) \/ RemoveRow(s, t)
          \/ NextInBatch(s, t) \/ FlipPrimaries(s, t)
    BY <1>3 DEF Work
  <2>2. Turn(s, t)
    BY DEF Turn
  <2> QED BY <2>1, <2>2, FindHostNames, RenewHostNames, CreateNewHostNames, ScrapHostNames,
             SuspendHostNames, SeekHostNames, PlainCallNames, ReadRecordNames,
             SwapRecordNames, PointRecordNames, MoveRecordNames, UnmoveRecordNames,
             LookRecordNames, QuitRecordNames, InsertRowNames, WriteRowNames,
             CommitRowNames, SettleNames, TakeLockNames, GiveUpNames, FollowExtrasNames,
             RemoveRowNames, NextInBatchNames, FlipPrimariesNames
<1> QED BY <1>1, <1>2, <1>3 DEF Next

\* However many POSTs and PUTs race for a name, and whatever their providers
\* answer meanwhile, the table never holds it twice.
THEOREM HostnamesAreUnique == Spec => []UniqueHosts
<1>1. NamesInv => UniqueHosts
  BY DEF NamesInv
<1> QED BY <1>1, InitOK, NextOK, InitNames, NextNames, PTL DEF Spec

(***************************************************************************)
(* A request that takes routes away puts none up, for every number of      *)
(* services, sessions and providers, whatever runs beside it.              *)
(*                                                                         *)
(* The inductive invariant says it of the work a session has still to do:  *)
(* the tasks of a withdrawing session are dark ones, each of which leaves  *)
(* only dark ones behind, and no push or DELETE has a task of the routes   *)
(* that reread the row and could find it switched on (Dim).                *)
(***************************************************************************)
\* Calls that can only take down, and the transactions that publish nothing.
DarkDo == {"seek", "suspend", "scrap", "drop", "look", "quit", "kept", "journal",
           "settle", "extras", "remove", "next", "flip"}

\* The tasks that take another row to work on.
BatchDo == {"extras", "next", "flip"}

Dim(x) ==
    /\ Withdrawing(x) => \A u \in x.todo : u.do \in DarkDo
    /\ x.op \in {"push", "delete"} => \A u \in x.todo : u.do \notin BatchDo

DimInv == \A s \in Sessions : Dim(ses[s])

\* What may follow a task without a session turning from one kind to another.
Follows(t, more) ==
    /\ t.do \in DarkDo => \A u \in more : u.do \in DarkDo
    /\ \A u \in more : u.do \notin BatchDo

\* Every proxy serves at most what it served, every DNS server holds at most
\* what it held.
Darker ==
    /\ \A p \in Proxies, h \in Hosts : Served(p, h)' => Served(p, h)
    /\ \A d \in Dns : recs'[d] \subseteq recs[d]

(***************************************************************************)
(* Sessions.                                                               *)
(***************************************************************************)
\* A session at rest is dim.
LEMMA RestDim ==
    ASSUME NEW x, Dim(x)
    PROVE  Dim(Rest(x))
<1>1. CASE x.todo # {}
  BY <1>1 DEF Rest
<1>2. CASE x.todo = {}
  <2>1. Rest(x).todo = {}
    BY <1>2, RestTodo
  <2> QED BY <2>1 DEF Dim
<1> QED BY <1>1, <1>2

\* One session steps, the others stay or come to rest.
LEMMA StepDim ==
    ASSUME SessionsOK, DimInv, NEW s \in Sessions, NEW y, Dim(y),
           Advance(s, y) \/ Start(s, y)
    PROVE  DimInv'
<1>1. ses'[s] = Rest(y)
  BY DEF SessionsOK, Advance, Start
<1>2. Dim(ses'[s])
  BY <1>1, RestDim
<1>3. ASSUME NEW o \in Sessions, o # s
      PROVE  Dim(ses'[o])
  <2>1. ses'[o] = ses[o] \/ ses'[o] = NoSession
    BY <1>3 DEF Advance, Start, SessionsOK
  <2>2. Dim(NoSession)
    BY DEF Dim, NoSession
  <2>3. Dim(ses[o])
    BY DEF DimInv
  <2> QED BY <2>1, <2>2, <2>3
<1> QED BY <1>2, <1>3 DEF DimInv

\* A session that goes on with what follows its task.
LEMMA GoesOnDim ==
    ASSUME NEW s, NEW t, Turn(s, t), DimInv, NEW y, Advance(s, y),
           y.op = ses[s].op, y.new = ses[s].new,
           NEW more, Follows(t, more), y.todo \subseteq ses[s].todo \cup more
    PROVE  DimInv'
<1> DEFINE x == ses[s]
<1>1. s \in Sessions /\ SessionsOK /\ Dim(x) /\ t \in x.todo
  BY TurnFacts DEF Turn, IInv, DimInv
<1>2. Withdrawing(y) <=> Withdrawing(x)
  BY DEF Withdrawing
<1>3. Dim(y)
  BY <1>1, <1>2 DEF Dim, Follows
<1> QED BY <1>1, <1>3, StepDim

\* The answer of a provider, written down at once or later.
LEMMA ReplyDim ==
    ASSUME NEW s, NEW t, Turn(s, t), DimInv, t.do \in OnHosts \cup OnRecords,
           NEW ok, NEW good \in Session, good.op = ses[s].op, good.new = ses[s].new,
           NEW more, Follows(t, more), good.todo \subseteq ses[s].todo \cup more,
           NEW carried, Reply(s, t, ok, good, carried)
    PROVE  DimInv'
<1> DEFINE x       == ses[s]
           j       == Then("journal", 0)
           bad     == [Over(x, t, {}) EXCEPT !.err = TRUE]
           next    == IF ok THEN good ELSE bad
           delayed == [next EXCEPT !.todo = @ \cup {j}]
           more2   == more \cup {j}
<1>1. x \in Session
  BY TurnFacts
<1>2. /\ bad \in Session /\ bad.new = x.new /\ bad.op = x.op
      /\ bad.todo = x.todo \ {t}
  BY <1>1, ZenonT(60) DEF Over, Session
<1>3. /\ next \in Session /\ next.new = x.new /\ next.op = x.op
      /\ next.todo \subseteq x.todo \cup more
  <2> HIDE DEF bad
  <2> QED BY <1>2
<1>4. Advance(s, delayed) \/ Advance(s, next)
  BY DEF Reply
<1> HIDE DEF next
<1>5. /\ delayed.new = x.new /\ delayed.op = x.op
      /\ delayed.todo \subseteq x.todo \cup more2
  <2> HIDE DEF j
  <2> QED BY <1>3 DEF Session
<1>6. Follows(t, more2)
  BY DEF Follows, Then, Do, DarkDo, BatchDo
<1>7. CASE Advance(s, next)
  BY <1>3, <1>7, GoesOnDim
<1>8. CASE Advance(s, delayed)
  <2> HIDE DEF delayed, more2
  <2> QED BY <1>5, <1>6, <1>8, GoesOnDim
<1> QED BY <1>4, <1>7, <1>8

\* An answered call and what follows it.
LEMMA FollowDim ==
    ASSUME NEW s, NEW t, Turn(s, t), DimInv, t.do \in OnHosts \cup OnRecords,
           NEW ok, NEW more \in SUBSET Task, Follows(t, more),
           Answered(s, t, ok, Over(ses[s], t, more))
    PROVE  DimInv'
<1> DEFINE y == Over(ses[s], t, more)
<1>1. /\ y \in Session /\ y.new = ses[s].new /\ y.op = ses[s].op
      /\ y.todo \subseteq ses[s].todo \cup more
  BY TurnFacts DEF Over, Session
<1>2. Reply(s, t, ok, y, {})
  BY DEF Answered
<1> HIDE DEF y
<1> QED BY <1>1, <1>2, ReplyDim

\* A call after which the session only notes the id of its host.
LEMMA NotedDim ==
    ASSUME NEW s, NEW t, Turn(s, t), DimInv, t.do \in OnHosts,
           NEW ok, NEW more \in SUBSET Task, Follows(t, more), NEW hid \in Ids \cup {None},
           NEW carried, Reply(s, t, ok, [Over(ses[s], t, more) EXCEPT !.hid = hid], carried)
    PROVE  DimInv'
<1> DEFINE y == [Over(ses[s], t, more) EXCEPT !.hid = hid]
<1>1. /\ y \in Session /\ y.new = ses[s].new /\ y.op = ses[s].op
      /\ y.todo \subseteq ses[s].todo \cup more
  BY TurnFacts DEF Over, Session
<1> HIDE DEF y
<1>2. Reply(s, t, ok, y, carried)
  BY DEF y
<1> QED BY <1>1, <1>2, ReplyDim

\* A step of the session without a reply.
LEMMA AdvancedDim ==
    ASSUME NEW s, NEW t, Turn(s, t), DimInv, NEW more, Follows(t, more),
           Advance(s, Over(ses[s], t, more))
    PROVE  DimInv'
<1> DEFINE y == Over(ses[s], t, more)
<1>1. /\ y.new = ses[s].new /\ y.op = ses[s].op
      /\ y.todo \subseteq ses[s].todo \cup more
  BY TurnFacts DEF Over, Session
<1> HIDE DEF y
<1>2. Advance(s, y)
  BY DEF y
<1> QED BY <1>1, <1>2, GoesOnDim

\* Nothing follows.
LEMMA NothingFollows ==
    ASSUME NEW t
    PROVE  Follows(t, {}) /\ {} \in SUBSET Task
BY DEF Follows

\* The task that After makes of a call follows it where it is as dark.
LEMMA AfterFollows ==
    ASSUME NEW t \in Task, NEW do, NEW id, do \notin BatchDo,
           t.do \in DarkDo => do \in DarkDo
    PROVE  Follows(t, {After(t, do, id)})
<1>1. After(t, do, id).do = do
  BY DEF After, Task
<1> QED BY <1>1 DEF Follows

(***************************************************************************)
(* The calls to a proxy.                                                   *)
(***************************************************************************)
\* The call by name leads to an update or a creation, neither of them dark.
LEMMA FindHostDim ==
    ASSUME NEW s, NEW t, Turn(s, t), DimInv, FindHost(s, t)
    PROVE  DimInv'
<1> DEFINE more == IF Named(t.at, t.host) = {} THEN {After(t, "create", None)}
                   ELSE {After(t, "renew", x.id) : x \in Named(t.at, t.host)}
<1>1. t.do = "find" /\ t.do \in OnHosts /\ t \in Task /\ t.at \in Proxies
  BY TurnFacts DEF FindHost, OnHosts
<1>2. PICK ok \in BOOLEAN : Answered(s, t, ok, Over(ses[s], t, more))
  BY DEF FindHost
<1>3. /\ After(t, "create", None) \in Task
      /\ Follows(t, {After(t, "create", None)})
  BY <1>1, AfterGentle, AfterFollows
     DEF OnHosts, OnRecords, ById, Removes, Publishes, DarkDo, BatchDo
<1>4. ASSUME NEW x \in Named(t.at, t.host)
      PROVE  After(t, "renew", x.id) \in Task /\ Follows(t, {After(t, "renew", x.id)})
  <2>1. x.id \in Ids
    BY <1>1, HostIds, TurnFacts DEF Named
  <2> QED BY <1>1, <2>1, AfterGentle, AfterFollows
          DEF OnHosts, OnRecords, ById, Removes, Publishes, DarkDo, BatchDo
<1>5. more \in SUBSET Task /\ Follows(t, more)
  BY <1>3, <1>4 DEF Follows
<1> HIDE DEF more
<1> QED BY <1>1, <1>2, <1>5, FollowDim

\* An update may lead to a resume.
LEMMA RenewHostDim ==
    ASSUME NEW s, NEW t, Turn(s, t), DimInv, RenewHost(s, t)
    PROVE  DimInv'
<1> DEFINE more == IF Resumes(t) THEN {After(t, "resume", t.id)} ELSE {}
           hid  == IF t.at # ses[s].new.proxy THEN Over(ses[s], t, more).hid
                   ELSE IF t.at \in HostKeyed THEN t.host ELSE t.id
           was  == {x.host : x \in WithId(t.at, t.id)}
           carried == IF ({t.at} \X was) \cap reported = {} THEN {} ELSE {<<t.at, t.host>>}
<1>1. /\ t.do = "renew" /\ t.do \in OnHosts /\ t.do \in ById /\ t \in Task
      /\ t.host \in Hosts /\ t.id \in Ids
  BY TurnFacts DEF RenewHost, OnHosts, ById
<1>2. \E ok \in BOOLEAN : Reply(s, t, ok, [Over(ses[s], t, more) EXCEPT !.hid = hid], carried)
  BY DEF RenewHost
<1>3. more \in SUBSET Task /\ Follows(t, more)
  <2>1. After(t, "resume", t.id) \in Task /\ Follows(t, {After(t, "resume", t.id)})
    BY <1>1, AfterGentle, AfterFollows
       DEF OnHosts, OnRecords, ById, Removes, Publishes, DarkDo, BatchDo
  <2> QED BY <2>1, NothingFollows
<1> HIDE DEF more
<1>4. hid \in Ids \cup {None}
  <2>1. Over(ses[s], t, more).hid \in Ids \cup {None}
    BY TurnFacts DEF Over, Session
  <2> QED BY <1>1, <2>1 DEF Ids
<1> HIDE DEF hid, carried
<1> QED BY <1>1, <1>2, <1>3, <1>4, NotedDim

\* A creation notes the id.
LEMMA CreateNewHostDim ==
    ASSUME NEW s, NEW t, Turn(s, t), DimInv, CreateNewHost(s, t)
    PROVE  DimInv'
<1>1. t.do = "create" /\ t.do \in OnHosts /\ t.host \in Hosts
  BY TurnFacts DEF CreateNewHost, OnHosts
<1>2. PICK ok \in BOOLEAN, id \in IF t.at \in HostKeyed THEN {t.host} ELSE FreeIds(t.at) :
        Answered(s, t, ok, [Over(ses[s], t, {}) EXCEPT
               !.hid = IF t.at = ses[s].new.proxy THEN id ELSE @,
               !.sent = Went(ses[s], t.at)])
  BY DEF CreateNewHost
<1>3. id \in Ids
  BY <1>1 DEF FreeIds, Ids
<1> DEFINE hid == IF t.at = ses[s].new.proxy THEN id ELSE Over(ses[s], t, {}).hid
<1>4. hid \in Ids \cup {None}
  <2>1. Over(ses[s], t, {}).hid \in Ids \cup {None}
    BY TurnFacts DEF Over, Session
  <2> QED BY <1>3, <2>1
<1> DEFINE y == [Over(ses[s], t, {}) EXCEPT !.hid = hid, !.sent = Went(ses[s], t.at)]
<1>5. Reply(s, t, ok, y, {})
  BY <1>2 DEF Answered
<1> HIDE DEF hid
<1>6. /\ y \in Session /\ y.new = ses[s].new /\ y.op = ses[s].op
      /\ y.todo \subseteq ses[s].todo \cup {}
  <2>1. ses[s] \in Session /\ t.at \in Proxies \cup Dns
    BY <1>1, TurnFacts
  <2> DEFINE sent == Went(ses[s], t.at)
             z    == [Over(ses[s], t, {}) EXCEPT !.hid = hid, !.sent = sent]
  <2>2. sent \in SUBSET (Proxies \cup Dns)
    BY <2>1, WentNames
  <2> HIDE DEF sent
  <2>3. /\ z \in Session /\ z.new = ses[s].new /\ z.op = ses[s].op /\ z.sid = ses[s].sid
        /\ z.todo = (ses[s].todo \ {t}) \cup {}
    BY <1>4, <2>1, <2>2 DEF Over, Session
  <2>4. y = z
    BY DEF sent
  <2> HIDE DEF y, z
  <2> QED BY <2>3, <2>4
<1> HIDE DEF y
<1> QED BY <1>1, <1>5, <1>6, NothingFollows, ReplyDim

\* A deletion in place of a suspension forgets the id.
LEMMA ScrapHostDim ==
    ASSUME NEW s, NEW t, Turn(s, t), DimInv, ScrapHost(s, t)
    PROVE  DimInv'
<1>1. t.do \in OnHosts
  BY DEF ScrapHost, OnHosts
<1>2. PICK ok \in BOOLEAN : Answered(s, t, ok, [Over(ses[s], t, {}) EXCEPT !.hid = None])
  BY DEF ScrapHost
<1>3. Reply(s, t, ok, [Over(ses[s], t, {}) EXCEPT !.hid = None], {})
  BY <1>2 DEF Answered
<1> QED BY <1>1, <1>3, NothingFollows, NotedDim

\* A suspension, or the deletion in its place.
LEMMA SuspendHostDim ==
    ASSUME NEW s, NEW t, Turn(s, t), DimInv, SuspendHost(s, t)
    PROVE  DimInv'
<1>1. t.do = "suspend" /\ t.do \in OnHosts /\ t.do \in ById /\ t \in Task /\ t.id \in Ids
  BY TurnFacts DEF SuspendHost, OnHosts, ById
<1>2. Instead(t) \in SUBSET Task /\ Follows(t, Instead(t))
  BY <1>1, AfterGentle, AfterFollows
     DEF Instead, OnHosts, OnRecords, ById, Removes, Publishes, DarkDo, BatchDo
<1>3. CASE \E ok \in BOOLEAN : Answered(s, t, ok, Over(ses[s], t, {}))
  BY <1>1, <1>3, NothingFollows, FollowDim
<1>4. CASE Answered(s, t, TRUE, Over(ses[s], t, Instead(t)))
  BY <1>1, <1>2, <1>4, FollowDim
<1> QED BY <1>3, <1>4 DEF SuspendHost

\* A search before a deletion leads to deletions.
LEMMA SeekHostDim ==
    ASSUME NEW s, NEW t, Turn(s, t), DimInv, SeekHost(s, t)
    PROVE  DimInv'
<1> DEFINE more == {After(t, "drop", x.id) : x \in Named(t.at, t.host)}
<1>1. t.do = "seek" /\ t.do \in OnHosts /\ t \in Task /\ t.at \in Proxies
  BY TurnFacts DEF SeekHost, OnHosts
<1>2. PICK ok \in BOOLEAN : Answered(s, t, ok, Over(ses[s], t, more))
  BY DEF SeekHost
<1>3. ASSUME NEW x \in Named(t.at, t.host)
      PROVE  After(t, "drop", x.id) \in Task /\ Follows(t, {After(t, "drop", x.id)})
  <2>1. x.id \in Ids
    BY <1>1, HostIds, TurnFacts DEF Named
  <2> QED BY <1>1, <2>1, AfterGentle, AfterFollows
          DEF OnHosts, OnRecords, ById, Removes, Publishes, DarkDo, BatchDo
<1>4. more \in SUBSET Task /\ Follows(t, more)
  BY <1>3 DEF Follows
<1> HIDE DEF more
<1> QED BY <1>1, <1>2, <1>4, FollowDim

\* The calls that nothing follows.
LEMMA PlainCallDim ==
    ASSUME NEW s, NEW t, Turn(s, t), DimInv,
           ResumeHost(s, t) \/ DropHost(s, t) \/ AddRecord(s, t) \/ CheckKept(s, t)
    PROVE  DimInv'
<1>1. t.do \in OnHosts \cup OnRecords
  BY DEF ResumeHost, DropHost, AddRecord, CheckKept, OnHosts, OnRecords
<1>2. CASE ResumeHost(s, t) \/ DropHost(s, t) \/ CheckKept(s, t)
  <2>1. \E ok \in BOOLEAN : Answered(s, t, ok, Over(ses[s], t, {}))
    BY <1>2 DEF ResumeHost, DropHost, CheckKept
  <2> QED BY <1>1, <2>1, NothingFollows, FollowDim
<1>3. CASE AddRecord(s, t)
  <2> DEFINE y == [Over(ses[s], t, {}) EXCEPT !.sent = Went(ses[s], t.at)]
  <2>1. t.at \in Dns
    BY <1>3, TurnFacts DEF AddRecord, OnRecords
  <2>2. PICK ok \in BOOLEAN : Reply(s, t, ok, y, {}) /\ UNCHANGED rows
    BY <1>3 DEF AddRecord, Answered
  <2>3. /\ y \in Session /\ y.new = ses[s].new /\ y.op = ses[s].op
        /\ y.todo \subseteq ses[s].todo \cup {}
    BY <2>1, TurnFacts, AddedFields
  <2> HIDE DEF y
  <2> QED BY <1>1, <2>2, <2>3, NothingFollows, ReplyDim
<1> QED BY <1>2, <1>3

(***************************************************************************)
(* The calls to a DNS server.                                              *)
(***************************************************************************)
\* A record that is read is swapped or added.
LEMMA ReadRecordDim ==
    ASSUME NEW s, NEW t, Turn(s, t), DimInv, ReadRecord(s, t)
    PROVE  DimInv'
<1>1. t.do = "read" /\ t.do \in OnRecords /\ t \in Task /\ t.ip \in Ips
  BY TurnFacts DEF ReadRecord, OnRecords, Publishes
<1>2. CASE Answered(s, t, FALSE, ses[s])
  <2>1. ses[s] \in Session /\ ses[s].todo \subseteq ses[s].todo \cup {}
    BY TurnFacts
  <2>2. Reply(s, t, FALSE, ses[s], {})
    BY <1>2 DEF Answered
  <2> QED BY <1>1, <2>1, <2>2, NothingFollows, ReplyDim
<1>3. CASE Answered(s, t, TRUE, Over(ses[s], t, {After(t, "add", None)}))
  <2>1. After(t, "add", None) \in Task /\ Follows(t, {After(t, "add", None)})
    BY <1>1, AfterGentle, AfterFollows
       DEF OnHosts, OnRecords, ById, Removes, Publishes, DarkDo, BatchDo
  <2> QED BY <1>1, <1>3, <2>1, FollowDim
<1>4. ASSUME NEW found \in Answers(t.at, t.host),
             Answered(s, t, TRUE, Over(ses[s], t,
                 IF found = t.ip THEN {} ELSE {After(t, "swap", found)}))
      PROVE  DimInv'
  <2> DEFINE more == IF found = t.ip THEN {} ELSE {After(t, "swap", found)}
  <2>1. found \in Ips
    BY DEF Answers
  <2>2. After(t, "swap", found) \in Task /\ Follows(t, {After(t, "swap", found)})
    BY <1>1, <2>1, AfterGentle, AfterFollows
       DEF OnHosts, OnRecords, ById, Removes, Publishes, DarkDo, BatchDo
  <2>3. more \in SUBSET Task /\ Follows(t, more)
    BY <2>2, NothingFollows
  <2>4. Answered(s, t, TRUE, Over(ses[s], t, more))
    BY <1>4
  <2> HIDE DEF more
  <2> QED BY <1>1, <2>3, <2>4, FollowDim
<1> QED BY <1>2, <1>3, <1>4 DEF ReadRecord

\* A record that goes is followed by the one that comes.
LEMMA SwapRecordDim ==
    ASSUME NEW s, NEW t, Turn(s, t), DimInv, SwapRecord(s, t)
    PROVE  DimInv'
<1>1. t.do = "swap" /\ t.do \in OnRecords /\ t \in Task /\ t.ip \in Ips
  BY TurnFacts DEF SwapRecord, OnRecords, Publishes
<1>2. PICK ok \in BOOLEAN : Answered(s, t, ok, Over(ses[s], t, {After(t, "add", None)}))
  BY DEF SwapRecord
<1>3. After(t, "add", None) \in Task /\ Follows(t, {After(t, "add", None)})
  BY <1>1, AfterGentle, AfterFollows
     DEF OnHosts, OnRecords, ById, Removes, Publishes, DarkDo, BatchDo
<1> QED BY <1>1, <1>2, <1>3, FollowDim

\* The record of a PUT is followed by the withdrawal of the old one,
LEMMA PointRecordDim ==
    ASSUME NEW s, NEW t, Turn(s, t), DimInv, PointRecord(s, t)
    PROVE  DimInv'
<1> DEFINE old    == ses[s].old
           quit   == OffDns("quit", old.dns, old.host, old.ip, t.stage - 1)
           retire == IF old.dns # None /\ old.ip # None /\ Moved(ses[s]) THEN {quit} ELSE {}
<1>1. t.do = "point" /\ t.do \in OnRecords /\ t \in Task
  BY TurnFacts DEF PointRecord, OnRecords
<1>2. PICK ok \in BOOLEAN : Answered(s, t, ok, Over(ses[s], t, retire))
  BY DEF PointRecord
<1>3. old \in Row
  BY <1>1, TurnFacts DEF Sound, Grounded
<1>4. old.dns \in Dns \cup {None} /\ old.ip \in Ips \cup {None} /\ old.host \in Hosts
  BY <1>3 DEF Row
<1>5. t.stage - 1 \in Int
  BY <1>1 DEF Task
<1>6. retire \in SUBSET Task
  <2> HIDE DEF old
  <2> QED BY <1>4, <1>5, OffDnsPlain DEF Plain
<1>7. Follows(t, retire)
  BY DEF Follows, OffDns, Do, DarkDo, BatchDo
<1> HIDE DEF retire
<1> QED BY <1>1, <1>2, <1>6, <1>7, FollowDim

\* and so is the one it moves.
LEMMA MoveRecordDim ==
    ASSUME NEW s, NEW t, Turn(s, t), DimInv, MoveRecord(s, t)
    PROVE  DimInv'
<1> DEFINE u == [After(t, "unmove", t.id) EXCEPT !.host = ses[s].old.host, !.ip = None]
<1>1. t.do = "move" /\ t.do \in OnRecords /\ t \in Task /\ t.id \in Ips /\ t.at \in Dns
  BY TurnFacts DEF MoveRecord, OnRecords, Removes
<1>2. PICK ok \in BOOLEAN : Answered(s, t, ok, Over(ses[s], t, {u}))
  BY DEF MoveRecord
<1>3. ses[s].old.host \in Hosts
  BY <1>1, TurnFacts DEF Sound, Grounded, Row
<1>4. u \in Task /\ u.do = "unmove"
  <2> DEFINE v == After(t, "unmove", t.id)
  <2>1. v \in Plain /\ v.do = "unmove" /\ v.at = t.at /\ v.id = t.id
    BY <1>1, AfterFields DEF OnHosts, OnRecords, ById, Removes, Publishes
  <2>2. u = [[v EXCEPT !.host = ses[s].old.host] EXCEPT !.ip = None]
    OBVIOUS
  <2> HIDE DEF v, u
  <2>3. /\ u.do = "unmove" /\ u.at = t.at /\ u.id = t.id /\ u.host = ses[s].old.host
        /\ u \in [do : OnHosts \cup OnRecords \cup Decisions,
                at : Proxies \cup Dns \cup {None}, host : Hosts \cup {None},
                ip : Ips \cup {None}, id : Ids \cup Ips \cup {None}, stage : Int]
    BY <1>3, <2>1, <2>2 DEF Plain, Task
  <2> QED BY <1>1, <1>3, <2>3 DEF Task, OnHosts, OnRecords, ById, Removes, Publishes
<1> HIDE DEF u
<1>5. Follows(t, {u}) /\ {u} \in SUBSET Task
  BY <1>1, <1>4 DEF Follows, DarkDo, BatchDo
<1> QED BY <1>1, <1>2, <1>5, FollowDim

\* The old record of a move goes.
LEMMA UnmoveRecordDim ==
    ASSUME NEW s, NEW t, Turn(s, t), DimInv, UnmoveRecord(s, t)
    PROVE  DimInv'
BY NothingFollows, AdvancedDim DEF UnmoveRecord

\* A look at a server leads to a withdrawal at most.
LEMMA LookRecordDim ==
    ASSUME NEW s, NEW t, Turn(s, t), DimInv, LookRecord(s, t)
    PROVE  DimInv'
<1>1. t \in Task
  BY TurnFacts
<1>2. PICK ip : Advance(s, Over(ses[s], t, IF ip = None THEN {} ELSE {After(t, "quit", ip)}))
  BY DEF LookRecord
<1>3. Follows(t, {After(t, "quit", ip)})
  BY <1>1, AfterFollows DEF DarkDo, BatchDo
<1>4. PICK more \in {{}, {After(t, "quit", ip)}} : Advance(s, Over(ses[s], t, more))
  BY <1>2
<1> QED BY <1>3, <1>4, NothingFollows, AdvancedDim

\* A record that is withdrawn is looked at again.
LEMMA QuitRecordDim ==
    ASSUME NEW s, NEW t, Turn(s, t), DimInv, QuitRecord(s, t)
    PROVE  DimInv'
<1>1. t.do = "quit" /\ t.do \in OnRecords /\ t \in Task /\ t.id \in Ips
  BY TurnFacts DEF QuitRecord, OnRecords, Removes
<1>2. After(t, "kept", t.id) \in Task /\ Follows(t, {After(t, "kept", t.id)})
  BY <1>1, AfterGentle, AfterFollows
     DEF OnHosts, OnRecords, ById, Removes, Publishes, DarkDo, BatchDo
<1>3. PICK ok \in BOOLEAN, more \in {{}, {After(t, "kept", t.id)}} :
        Answered(s, t, TRUE, Over(ses[s], t, more))
  BY DEF QuitRecord
<1> QED BY <1>1, <1>2, <1>3, NothingFollows, FollowDim

(***************************************************************************)
(* The transactions and decisions.                                         *)
(***************************************************************************)
\* A session that is not withdrawing, nor a push or a DELETE, is dim.
LEMMA OthersDim ==
    ASSUME NEW x, x.op \notin {"push", "delete", "disable"}
    PROVE  Dim(x)
BY DEF Dim, Withdrawing

\* So is one that has nothing to do.
LEMMA IdleDim ==
    ASSUME NEW x, x.todo = {}
    PROVE  Dim(x)
BY DEF Dim

\* The INSERT, the UPDATE and the commit are not of a withdrawal, and leave
\* no task to reread a row.
LEMMA WritesDim ==
    ASSUME NEW s, NEW t, Turn(s, t), DimInv,
           InsertRow(s, t) \/ WriteRow(s, t) \/ CommitRow(s, t)
    PROVE  DimInv'
<1> DEFINE x == ses[s]
<1>1. /\ s \in Sessions /\ SessionsOK /\ x \in Session /\ t \in x.todo /\ Dim(x)
      /\ t.do \notin DarkDo
  BY TurnFacts DEF Turn, IInv, DimInv, InsertRow, WriteRow, CommitRow, DarkDo
<1>2. CASE \/ Advance(s, [Over(x, t, {}) EXCEPT !.todo = {}, !.err = TRUE])
           \/ Advance(s, [x EXCEPT !.todo = {}, !.err = TRUE])
  <2>1. /\ [Over(x, t, {}) EXCEPT !.todo = {}, !.err = TRUE].todo = {}
        /\ [x EXCEPT !.todo = {}, !.err = TRUE].todo = {}
    BY <1>1 DEF Over, Session
  <2> QED BY <1>1, <1>2, <2>1, IdleDim, StepDim
<1>3. ASSUME NEW sid, Advance(s, [Over(x, t, {}) EXCEPT !.sid = sid, !.sent = {}])
      PROVE  DimInv'
  <2> DEFINE y == [Over(x, t, {}) EXCEPT !.sid = sid, !.sent = {}]
  <2>1. y.op = x.op /\ y.new = x.new /\ y.todo \subseteq x.todo \cup {}
    BY <1>1 DEF Over, Session
  <2> HIDE DEF y
  <2>2. Advance(s, y)
    BY <1>3 DEF y
  <2> QED BY <2>1, <2>2, NothingFollows, GoesOnDim
<1>4. ASSUME Advance(s, Over(x, t, WithdrawPlan(x.old, x.sid, StaleTargets(x), 40)))
      PROVE  DimInv'
  <2> DEFINE more == WithdrawPlan(x.old, x.sid, StaleTargets(x), 40)
  <2>1. Gentle(more)
    BY WithdrawGentle
  <2> HIDE DEF more
  <2>2. Follows(t, more)
    BY <1>1, <2>1 DEF Follows, Gentle, OnHosts, OnRecords, BatchDo
  <2>3. Advance(s, Over(x, t, more))
    BY <1>4 DEF more
  <2> QED BY <2>2, <2>3, AdvancedDim
<1>5. ASSUME Advance(s, [Over(x, t, SwitchPlan(x) \cup {Then("settle", 80)}) EXCEPT !.saved = x.hid])
      PROVE  DimInv'
  <2> DEFINE more == SwitchPlan(x) \cup {Then("settle", 80)}
             y == [Over(x, t, more) EXCEPT !.saved = x.hid]
  <2>1. \A u \in more : u.do \in {"settle", "resume", "create", "suspend"}
    BY DEF SwitchPlan, SwitchOn, SwitchOff, OnProxy, Then, Do
  <2> HIDE DEF more
  <2>2. Follows(t, more)
    BY <1>1, <2>1 DEF Follows, BatchDo
  <2>3. y.op = x.op /\ y.new = x.new /\ y.todo \subseteq x.todo \cup more
    BY <1>1 DEF Over, Session
  <2>4. Advance(s, y)
    BY <1>5 DEF more
  <2> HIDE DEF y
  <2> QED BY <2>2, <2>3, <2>4, GoesOnDim
<1>6. CASE InsertRow(s, t)
  BY <1>2, <1>3, <1>6 DEF InsertRow
<1>7. CASE WriteRow(s, t)
  BY <1>2, <1>4, <1>7 DEF WriteRow
<1>8. CASE CommitRow(s, t)
  BY <1>2, <1>5, <1>8 DEF CommitRow
<1> QED BY <1>6, <1>7, <1>8

\* A statement and the removal of a row are followed by nothing,
LEMMA DoneDim ==
    ASSUME NEW s, NEW t, Turn(s, t), DimInv, TakeLock(s, t) \/ RemoveRow(s, t)
    PROVE  DimInv'
BY NothingFollows, AdvancedDim DEF TakeLock, RemoveRow

\* nor is a commit, which clears the copy's notes,
LEMMA SettleDim ==
    ASSUME NEW s, NEW t, Turn(s, t), DimInv, Settle(s, t)
    PROVE  DimInv'
<1> DEFINE x == ses[s]
           y == [Over(x, t, {}) EXCEPT !.saved = x.hid, !.ip = None]
<1>1. y.op = x.op /\ y.new = x.new /\ y.todo \subseteq x.todo \cup {}
  BY TurnFacts DEF Over, Session
<1>2. Advance(s, y)
  BY DEF Settle
<1> HIDE DEF y
<1> QED BY <1>1, <1>2, NothingFollows, GoesOnDim

\* nor a write that is given up.
LEMMA GiveUpDim ==
    ASSUME NEW s, NEW t, Turn(s, t), DimInv, GiveUp(s, t)
    PROVE  DimInv'
<1> DEFINE x == ses[s]
           z == Over(x, t, {})
           y == [z EXCEPT !.err = TRUE, !.hid = x.saved,
                          !.todo = IF t.do = "journal" THEN @ ELSE {}]
<1>1. z \in Session /\ z.op = x.op /\ z.new = x.new /\ z.todo \subseteq x.todo
  BY TurnFacts DEF Over, Session
<1>2. Advance(s, y)
  BY DEF GiveUp
<1> HIDE DEF z
<1>3. y.op = x.op /\ y.new = x.new /\ y.todo \subseteq x.todo \cup {}
  BY <1>1 DEF Session
<1> HIDE DEF y
<1> QED BY <1>2, <1>3, NothingFollows, GoesOnDim

\* The plan of a withdrawal is dark, and rereads no row.
LEMMA WithdrawDark ==
    ASSUME NEW r, NEW sid, NEW only, NEW stage
    PROVE  \A u \in WithdrawPlan(r, sid, only, stage) : u.do \in {"drop", "seek", "look"}
BY DEF WithdrawPlan, OnProxy, OffDns, Do

\* The extra targets are reread by the routes that follow one another: of
\* these the bulk disable alone withdraws, and publishes nothing here.
LEMMA FollowExtrasDim ==
    ASSUME NEW s, NEW t, Turn(s, t), DimInv, FollowExtras(s, t)
    PROVE  DimInv'
<1> DEFINE x == ses[s]
           r == rows[x.sid]
           withdrawn == WithdrawPlan(r, x.sid, Extras(r), 100)
                        \cup IF x.op = "put" THEN {Then("settle", 120)} ELSE {}
<1>1. /\ s \in Sessions /\ SessionsOK /\ x \in Session /\ Dim(x)
      /\ x.op \notin {"push", "delete"}
  BY TurnFacts DEF FollowExtras, Turn, IInv, DimInv, Dim, BatchDo
<1>2. ASSUME Advance(s, [Over(x, t, {}) EXCEPT !.err = @ \/ x.op = "put"])
      PROVE  DimInv'
  <2> DEFINE y == [Over(x, t, {}) EXCEPT !.err = @ \/ x.op = "put"]
  <2>1. y.op = x.op /\ y.new = x.new /\ y.todo \subseteq x.todo \cup {}
    BY <1>1 DEF Over, Session
  <2>2. Advance(s, y)
    BY <1>2
  <2> HIDE DEF y
  <2> QED BY <2>1, <2>2, NothingFollows, GoesOnDim
<1>3. ASSUME PublishesExtras(x), NEW ip,
             Advance(s, [Over(x, t, PushPlan(r, x.sid, Extras(r), ip, 100))
                           EXCEPT !.new = r, !.hid = r.hid, !.saved = r.hid, !.ip = ip,
                                  !.err = @ \/ NoTarget(r, x.sid, Extras(r), ip)])
      PROVE  DimInv'
  <2> DEFINE more == PushPlan(r, x.sid, Extras(r), ip, 100)
             z == Over(x, t, more)
             y == [z EXCEPT !.new = r, !.hid = r.hid, !.saved = r.hid, !.ip = ip,
                            !.err = @ \/ NoTarget(r, x.sid, Extras(r), ip)]
  <2>1. Advance(s, y)
    BY <1>3
  <2> HIDE DEF more, r
  <2>2. y.op = x.op
    BY <1>1 DEF Over, Session
  <2>3. x.op \in {"add", "put", "enable"}
    BY <1>3 DEF PublishesExtras
  <2> HIDE DEF y
  <2> QED BY <1>1, <2>1, <2>2, <2>3, OthersDim, StepDim
<1>4. ASSUME NEW more \in {{}, withdrawn}, Advance(s, Over(x, t, more))
      PROVE  DimInv'
  <2>1. \A u \in more : u.do \in {"drop", "seek", "look", "settle"}
    <3> HIDE DEF r
    <3> QED BY <1>4, WithdrawDark DEF Then, Do
  <2>2. Follows(t, more)
    BY <2>1 DEF Follows, DarkDo, BatchDo
  <2> QED BY <1>4, <2>2, AdvancedDim
<1>5. \/ Advance(s, [Over(x, t, {}) EXCEPT !.err = @ \/ x.op = "put"])
      \/ /\ PublishesExtras(x)
         /\ \E ip : Advance(s, [Over(x, t, PushPlan(r, x.sid, Extras(r), ip, 100))
                           EXCEPT !.new = r, !.hid = r.hid, !.saved = r.hid, !.ip = ip,
                                  !.err = @ \/ NoTarget(r, x.sid, Extras(r), ip)])
      \/ \E more \in {{}, withdrawn} : Advance(s, Over(x, t, more))
  BY DEF FollowExtras
<1> HIDE DEF withdrawn, r
<1> QED BY <1>2, <1>3, <1>4, <1>5

\* The bulk routes go on to their next service in the direction of their flag,
LEMMA NextInBatchDim ==
    ASSUME NEW s, NEW t, Turn(s, t), DimInv, NextInBatch(s, t)
    PROVE  DimInv'
<1> DEFINE x == ses[s]
<1>1. /\ s \in Sessions /\ SessionsOK /\ x \in Session
      /\ x.op \notin {"push", "delete"}
  BY TurnFacts DEF NextInBatch, Turn, IInv, DimInv, Dim, BatchDo
<1>2. PICK q \in x.queue :
        Advance(s, [x EXCEPT !.sid = q[1], !.old = q[2], !.queue = @ \ {q},
            !.todo = {Then("extras", 90), Then("flip", 125)}
                     \cup IF x.queue = {q} THEN {} ELSE {Then("next", 160)}])
  BY DEF NextInBatch
<1> DEFINE more == {Then("extras", 90), Then("flip", 125)}
                   \cup IF x.queue = {q} THEN {} ELSE {Then("next", 160)}
           y == [x EXCEPT !.sid = q[1], !.old = q[2], !.queue = @ \ {q}, !.todo = more]
<1>3. \A u \in more : u.do \in DarkDo
  BY DEF DarkDo, Then, Do
<1>4. Advance(s, y)
  BY <1>2
<1> HIDE DEF more
<1>5. y.op = x.op /\ y.todo = more
  BY <1>1 DEF Session
<1>6. Dim(y)
  BY <1>1, <1>3, <1>5 DEF Dim
<1> QED BY <1>1, <1>4, <1>6, StepDim

\* and a bulk disable suspends and withdraws its primaries.
LEMMA FlipPrimariesDim ==
    ASSUME NEW s, NEW t, Turn(s, t), DimInv, FlipPrimaries(s, t)
    PROVE  DimInv'
<1> DEFINE x == ses[s]
           more == FlipPlan(x)
           z == Over(x, t, more)
           y == [z EXCEPT !.new = x.old, !.hid = x.old.hid, !.saved = x.old.hid, !.ip = None]
<1>1. /\ s \in Sessions /\ SessionsOK /\ x \in Session /\ Dim(x) /\ Advance(s, y)
      /\ x.op \notin {"push", "delete"}
  BY TurnFacts DEF FlipPrimaries, Turn, IInv, DimInv, Dim, BatchDo
<1>2. x.op = "disable" => \A u \in more : u.do \in DarkDo
  BY DEF FlipPlan, OnProxy, OffDns, Then, Do, DarkDo
<1> HIDE DEF more
<1>3. y.op = x.op /\ y.todo = (x.todo \ {t}) \cup more
  BY <1>1 DEF Over, Session
<1> HIDE DEF y
<1>4. Dim(y)
  <2>1. CASE x.op = "disable"
    BY <1>1, <1>2, <1>3, <2>1 DEF Dim, Withdrawing
  <2>2. CASE x.op # "disable"
    BY <1>1, <1>3, <2>2, OthersDim
  <2> QED BY <2>1, <2>2
<1> QED BY <1>1, <1>4, StepDim

(***************************************************************************)
(* The requests.                                                           *)
(***************************************************************************)
\* The request, its row and its tasks, as it opens.
LEMMA OpeningIs ==
    ASSUME NEW op, NEW sid, NEW old, NEW new, NEW hid, NEW todo
    PROVE  /\ Opening(op, sid, old, new, hid, todo).op = op
           /\ Opening(op, sid, old, new, hid, todo).new = new
           /\ Opening(op, sid, old, new, hid, todo).todo = todo
BY DEF Opening, NoSession

\* A POST and a PUT do not withdraw.
LEMMA OpenedDim ==
    ASSUME SessionsOK, DimInv, NEW s \in Sessions, NEW op \in {"add", "put"},
           NEW sid, NEW old, NEW new, NEW hid, NEW todo,
           Start(s, Opening(op, sid, old, new, hid, todo))
    PROVE  DimInv'
<1> DEFINE y == Opening(op, sid, old, new, hid, todo)
<1>1. y.op \in {"add", "put"}
  BY OpeningIs
<1> HIDE DEF y
<1>2. Dim(y)
  BY <1>1, OthersDim
<1>3. Start(s, y)
  BY DEF y
<1> QED BY <1>2, <1>3, StepDim

\* So neither opens a session that could put something up as one that withdraws.
LEMMA EditsDim ==
    ASSUME SessionsOK, DimInv, NEW s \in Sessions, AddService(s) \/ UpdateService(s)
    PROVE  DimInv'
<1>1. CASE AddService(s)
  <2>1. PICK b \in Bodies :
          Start(s, Opening("add", None, None, b, None,
               {Then("insert", 30), Then("extras", 90)} \cup
               IF ~b.enabled THEN {}
               ELSE {OnProxy("create", p, b.host, None, 10) : p \in Some(b.proxy)}
                    \cup {OnDns("add", d, b.host, b.ip, 20) : d \in Some(b.dns)}))
    BY <1>1 DEF AddService
  <2> QED BY <2>1, OpenedDim
<1>2. CASE UpdateService(s)
  <2>1. PICK sid \in Services, b \in Bodies :
          Start(s, Opening("put", sid, rows[sid], b,
               IF rows[sid].proxy = b.proxy THEN rows[sid].hid ELSE None,
               PutProxyPlan(rows[sid], b) \cup PutDnsPlan(rows[sid], b) \cup
               {Then("write", 30), Then("commit", 60), Then("extras", 90)}))
    BY <1>2 DEF UpdateService
  <2> QED BY <2>1, OpenedDim
<1> QED BY <1>1, <1>2

\* A DELETE opens with a withdrawal.
LEMMA DeleteServiceDim ==
    ASSUME SessionsOK, DimInv, NEW s \in Sessions, DeleteService(s)
    PROVE  DimInv'
<1>1. PICK sid \in Services :
        Start(s, Opening("delete", sid, rows[sid], rows[sid], rows[sid].hid,
               WithdrawPlan(rows[sid], sid, Proxies \cup Dns, 100) \cup {Then("remove", 120)}))
  BY DEF DeleteService
<1> DEFINE plan == WithdrawPlan(rows[sid], sid, Proxies \cup Dns, 100)
           todo == plan \cup {Then("remove", 120)}
           y == Opening("delete", sid, rows[sid], rows[sid], rows[sid].hid, todo)
<1>2. \A u \in todo : u.do \in {"drop", "seek", "look", "remove"}
  BY WithdrawDark DEF Then, Do
<1>3. Start(s, y)
  BY <1>1
<1> HIDE DEF todo
<1>4. y.todo = todo
  BY OpeningIs
<1>5. Dim(y)
  BY <1>2, <1>4 DEF Dim, DarkDo, BatchDo
<1> QED BY <1>3, <1>5, StepDim

\* A push of a row that is off opens with the withdrawal of all but its
\* suspended host.
LEMMA PushServiceDim ==
    ASSUME SessionsOK, DimInv, NEW s \in Sessions, PushService(s)
    PROVE  DimInv'
<1>1. PICK sid \in Services : Push(s, sid, rows[sid])
  BY DEF PushService
<1> DEFINE r == rows[sid]
<1>2. PICK ip \in Resolved(r) :
        Start(s, [Opening("push", sid, None, r, r.hid,
                          PushPlan(r, sid, Proxies \cup Dns, ip, 100))
                    EXCEPT !.ip = ip, !.err = NoTarget(r, sid, Proxies \cup Dns, ip)])
  BY <1>1 DEF Push
<1> DEFINE todo == PushPlan(r, sid, Proxies \cup Dns, ip, 100)
           err  == NoTarget(r, sid, Proxies \cup Dns, ip)
           z    == Opening("push", sid, None, r, r.hid, todo)
           y    == [z EXCEPT !.ip = ip, !.err = err]
<1>3. \A u \in todo : u.do \notin BatchDo
  <2>1. \A u \in PublishPlan(r, sid, Proxies \cup Dns, ip, 100) :
           u.do \in {"find", "renew", "read"}
    <3> HIDE DEF r
    <3> QED BY DEF PublishPlan, OnProxy, OnDns, Do
  <2>2. \A u \in WithholdPlan(r, sid, Proxies \cup Dns, 100) :
           u.do \in {"suspend", "drop", "seek", "look"}
    <3> HIDE DEF r
    <3> QED BY WithdrawDark DEF WithholdPlan, OnProxy, Do
  <2> HIDE DEF r
  <2> QED BY <2>1, <2>2 DEF PushPlan, Then, Do, BatchDo
<1>4. ~r.enabled => \A u \in todo : u.do \in DarkDo
  <2>1. \A u \in WithholdPlan(r, sid, Proxies \cup Dns, 100) :
           u.do \in {"suspend", "drop", "seek", "look"}
    <3> HIDE DEF r
    <3> QED BY WithdrawDark DEF WithholdPlan, OnProxy, Do
  <2> HIDE DEF r
  <2> QED BY <2>1 DEF PushPlan, Then, Do, DarkDo
<1>5. Start(s, y)
  BY <1>2
<1> HIDE DEF r, todo, err
<1>6. y.todo = todo /\ y.op = "push" /\ y.new = r
  BY DEF Opening, NoSession
<1> HIDE DEF y
<1>7. Dim(y)
  BY <1>3, <1>4, <1>6 DEF Dim, Withdrawing
<1> QED BY <1>5, <1>7, StepDim

\* A bulk request opens with its first service.
LEMMA BulkSwitchDim ==
    ASSUME SessionsOK, DimInv, NEW s \in Sessions, BulkSwitch(s)
    PROVE  DimInv'
<1>1. PICK op \in {"enable", "disable"}, sids \in SUBSET Services :
        Start(s, [Opening(op, None, None, None, None, {Then("next", 1)})
                       EXCEPT !.queue = {<<sid, rows[sid]>> : sid \in sids}])
  BY DEF BulkSwitch
<1> DEFINE queue == {<<sid, rows[sid]>> : sid \in sids}
           todo == {Then("next", 1)}
           z == Opening(op, None, None, None, None, todo)
           y == [z EXCEPT !.queue = queue]
<1>2. \A u \in todo : u.do \in DarkDo
  BY DEF DarkDo, Then, Do
<1>3. Start(s, y)
  BY <1>1
<1> HIDE DEF todo, queue
<1>4. y.op = op /\ y.todo = todo
  BY DEF Opening, NoSession
<1> HIDE DEF y
<1>5. Dim(y)
  BY <1>2, <1>4 DEF Dim
<1> QED BY <1>3, <1>5, StepDim

(***************************************************************************)
(* The invariant.                                                          *)
(***************************************************************************)
\* Nobody has anything to do.
LEMMA InitDim == Init => DimInv
BY DEF Init, DimInv, Dim, NoSession

\* Every step of every session leaves the sessions dim.
LEMMA NextDim == IInv /\ DimInv /\ [Next]_vars => DimInv'
<1> SUFFICES ASSUME IInv, DimInv, [Next]_vars PROVE DimInv'
  OBVIOUS
<1>1. CASE UNCHANGED vars
  BY <1>1 DEF DimInv, vars
<1>2. ASSUME NEW s \in Sessions, Handle(s) PROVE DimInv'
  <2>1. SessionsOK
    BY DEF IInv
  <2> QED BY <1>2, <2>1, EditsDim, DeleteServiceDim, PushServiceDim, BulkSwitchDim DEF Handle
<1>3. ASSUME NEW s \in Sessions, Work(s) PROVE DimInv'
  <2>1. PICK t \in NextTasks(s) :
          \/ FindHost(s, t) \/ RenewHost(s, t) \/ CreateNewHost(s, t)
          \/ ResumeHost(s, t) \/ SuspendHost(s, t) \/ ScrapHost(s, t)
          \/ SeekHost(s, t) \/ DropHost(s, t)
          \/ ReadRecord(s, t) \/ SwapRecord(s, t) \/ AddRecord(s, t)
          \/ PointRecord(s, t) \/ MoveRecord(s, t) \/ UnmoveRecord(s, t)
          \/ LookRecord(s, t) \/ QuitRecord(s, t) \/ CheckKept(s, t)
          \/ InsertRow(s, t) \/ WriteRow(s, t) \/ CommitRow(s, t) \/ Settle(s, t)
          \/ TakeLock(s, t) \/ GiveUp(s, t)
          \/ FollowExtras(s, t) \/ RemoveRow(s, t)
          \/ NextInBatch(s, t) \/ FlipPrimaries(s, t)
    BY <1>3 DEF Work
  <2>2. Turn(s, t)
    BY DEF Turn
  <2> QED BY <2>1, <2>2, FindHostDim, RenewHostDim, CreateNewHostDim, ScrapHostDim,
             SuspendHostDim, SeekHostDim, PlainCallDim, ReadRecordDim, SwapRecordDim,
             PointRecordDim, MoveRecordDim, UnmoveRecordDim, LookRecordDim, QuitRecordDim,
             WritesDim, SettleDim, DoneDim, GiveUpDim, FollowExtrasDim, NextInBatchDim,
             FlipPrimariesDim
<1> QED BY <1>1, <1>2, <1>3 DEF Next

(***************************************************************************)
(* What a dark task does to the providers.                                 *)
(***************************************************************************)
\* Providers that stay as they are are no brighter.
LEMMA SameIsDarker ==
    ASSUME UNCHANGED <<hosts, recs>>
    PROVE  Darker
BY DEF Darker, Served, Named

\* A call to a proxy that leaves of each host what was there, or it suspended.
LEMMA ProxyCallDarker ==
    ASSUME ProvidersTypeOK, NEW p \in Proxies, NEW can, NEW after, NEW ok,
           ProxyCall(p, can, after, ok),
           \A h \in Hosts, x \in after : x.host = h /\ x.on => Served(p, h)
    PROVE  Darker
<1>1. CASE UNCHANGED <<hosts, recs>>
  BY <1>1, SameIsDarker
<1>2. CASE UNCHANGED recs /\ hosts' = [hosts EXCEPT ![p] = after]
  <2>1. \A q \in Proxies : hosts'[q] = IF q = p THEN after ELSE hosts[q]
    BY <1>2 DEF ProvidersTypeOK
  <2>2. ASSUME NEW q \in Proxies, NEW h \in Hosts, Served(q, h)' PROVE Served(q, h)
    <3>1. PICK x \in hosts'[q] : x.host = h /\ x.on
      BY <2>2 DEF Served, Named
    <3>2. CASE q = p
      BY <2>1, <3>1, <3>2
    <3>3. CASE q # p
      BY <2>1, <3>1, <3>3 DEF Served, Named
    <3> QED BY <3>2, <3>3
  <2> QED BY <1>2, <2>2 DEF Darker
<1> QED BY <1>1, <1>2 DEF ProxyCall

\* A deletion,
LEMMA DeleteHostDarker ==
    ASSUME ProvidersTypeOK, NEW p \in Proxies, NEW id, NEW ok, DeleteHost(p, id, ok)
    PROVE  Darker
<1> DEFINE after == hosts[p] \ WithId(p, id)
           can == p \in Upsert \/ WithId(p, id) # {}
<1>1. \A h \in Hosts, x \in after : x.host = h /\ x.on => Served(p, h)
  BY DEF Served, Named
<1>2. ProxyCall(p, can, after, ok)
  BY DEF DeleteHost
<1> HIDE DEF after, can
<1> QED BY <1>1, <1>2, ProxyCallDarker

\* a suspension,
LEMMA SuspendDarker ==
    ASSUME ProvidersTypeOK, NEW p \in Proxies, NEW id, NEW ok, ToggleHost(p, id, FALSE, ok)
    PROVE  Darker
<1> DEFINE after == (hosts[p] \ WithId(p, id)) \cup
                    {[x EXCEPT !.on = FALSE] : x \in WithId(p, id)}
           can == WithId(p, id) # {}
<1>1. ASSUME NEW h \in Hosts, NEW y \in after, y.host = h, y.on
      PROVE  Served(p, h)
  <2>1. \A x \in WithId(p, id) : x \in Host /\ ~[x EXCEPT !.on = FALSE].on
    BY DEF ProvidersTypeOK, WithId, Host
  <2>2. y \in hosts[p]
    BY <1>1, <2>1
  <2> QED BY <1>1, <2>2 DEF Served, Named
<1>2. ProxyCall(p, can, after, ok)
  BY DEF ToggleHost
<1> HIDE DEF after, can
<1> QED BY <1>1, <1>2, ProxyCallDarker

\* and the deletion of a record put nothing up.
LEMMA DeleteRewriteDarker ==
    ASSUME ProvidersTypeOK, NEW d \in Dns, NEW h, NEW ip, NEW ok, DeleteRewrite(d, h, ip, ok)
    PROVE  Darker
<1>1. CASE UNCHANGED <<hosts, recs>>
  BY <1>1, SameIsDarker
<1>2. CASE UNCHANGED hosts /\ recs' = [recs EXCEPT ![d] = recs[d] \ {<<h, ip>>}]
  <2>1. \A e \in Dns : recs'[e] = IF e = d THEN recs[d] \ {<<h, ip>>} ELSE recs[e]
    BY <1>2 DEF ProvidersTypeOK
  <2> QED BY <1>2, <2>1 DEF Darker, Served, Named
<1> QED BY <1>1, <1>2 DEF DeleteRewrite, RecordCall, provVars

\* No dark task puts anything up.
LEMMA DarkStep ==
    ASSUME NEW s, NEW t, Turn(s, t), t.do \in DarkDo,
           \/ FindHost(s, t) \/ RenewHost(s, t) \/ CreateNewHost(s, t)
           \/ ResumeHost(s, t) \/ SuspendHost(s, t) \/ ScrapHost(s, t)
           \/ SeekHost(s, t) \/ DropHost(s, t)
           \/ ReadRecord(s, t) \/ SwapRecord(s, t) \/ AddRecord(s, t)
           \/ PointRecord(s, t) \/ MoveRecord(s, t) \/ UnmoveRecord(s, t)
           \/ LookRecord(s, t) \/ QuitRecord(s, t) \/ CheckKept(s, t)
           \/ InsertRow(s, t) \/ WriteRow(s, t) \/ CommitRow(s, t) \/ Settle(s, t)
           \/ TakeLock(s, t) \/ GiveUp(s, t)
           \/ FollowExtras(s, t) \/ RemoveRow(s, t)
           \/ NextInBatch(s, t) \/ FlipPrimaries(s, t)
    PROVE  Darker
<1>1. /\ ProvidersTypeOK
      /\ t.do \in OnHosts => t.at \in Proxies
      /\ t.do \in OnRecords => t.at \in Dns
  BY TurnFacts
<1>2. CASE SuspendHost(s, t)
  <2>1. t.do \in OnHosts
    BY <1>2 DEF SuspendHost, OnHosts
  <2>2. \/ \E ok \in BOOLEAN : ToggleHost(t.at, t.id, FALSE, ok)
        \/ UNCHANGED <<hosts, recs>>
    BY <1>2 DEF SuspendHost, provVars
  <2> QED BY <1>1, <2>1, <2>2, SuspendDarker, SameIsDarker
<1>3. CASE ScrapHost(s, t) \/ DropHost(s, t)
  <2>1. t.do \in OnHosts /\ \E ok \in BOOLEAN : DeleteHost(t.at, t.id, ok)
    BY <1>3 DEF ScrapHost, DropHost, OnHosts
  <2> QED BY <1>1, <2>1, DeleteHostDarker
<1>4. CASE QuitRecord(s, t)
  <2>1. t.do \in OnRecords /\ \E ok \in BOOLEAN : DeleteRewrite(t.at, t.host, t.id, ok)
    BY <1>4 DEF QuitRecord, OnRecords
  <2> QED BY <1>1, <2>1, DeleteRewriteDarker
<1>5. CASE SeekHost(s, t) \/ LookRecord(s, t) \/ CheckKept(s, t)
  BY <1>5, SameIsDarker DEF SeekHost, LookRecord, CheckKept, Listing
<1>6. CASE Settle(s, t) \/ TakeLock(s, t) \/ FollowExtras(s, t) \/ RemoveRow(s, t)
           \/ NextInBatch(s, t) \/ FlipPrimaries(s, t)
  BY <1>6, SameIsDarker DEF Settle, TakeLock, FollowExtras, RemoveRow, NextInBatch,
                            FlipPrimaries, NoCall, provVars
<1>7. CASE GiveUp(s, t)
  BY <1>7, SameIsDarker DEF GiveUp
<1>8. /\ ~FindHost(s, t) /\ ~RenewHost(s, t) /\ ~CreateNewHost(s, t) /\ ~ResumeHost(s, t)
      /\ ~ReadRecord(s, t) /\ ~SwapRecord(s, t) /\ ~AddRecord(s, t) /\ ~PointRecord(s, t)
      /\ ~MoveRecord(s, t) /\ ~UnmoveRecord(s, t) /\ ~InsertRow(s, t) /\ ~WriteRow(s, t)
      /\ ~CommitRow(s, t)
  BY DEF DarkDo, FindHost, RenewHost, CreateNewHost, ResumeHost, ReadRecord, SwapRecord,
         AddRecord, PointRecord, MoveRecord, UnmoveRecord, InsertRow, WriteRow, CommitRow
<1> QED BY <1>2, <1>3, <1>4, <1>5, <1>6, <1>7, <1>8

(***************************************************************************)
(* The theorem.                                                            *)
(***************************************************************************)
\* What the steps of a withdrawing session leave on the providers.
OnlyDarker ==
    \A s \in Sessions :
        Withdrawing(ses[s]) /\ ~Idle(s) /\ ses'[s] # ses[s] =>
            /\ \A p \in Proxies, h \in Hosts : Served(p, h)' => Served(p, h)
            /\ \A d \in Dns : recs'[d] \subseteq recs[d]

\* A step that moves a withdrawing session is the step of one of its dark tasks.
LEMMA NextOnlyDarker == IInv /\ DimInv /\ [Next]_vars => OnlyDarker
<1> SUFFICES ASSUME IInv, DimInv, [Next]_vars,
                    NEW s \in Sessions, Withdrawing(ses[s]), ~Idle(s), ses'[s] # ses[s]
             PROVE  Darker
  BY DEF OnlyDarker, Darker
<1>1. PICK o \in Sessions : Handle(o) \/ Work(o)
  BY DEF Next, vars
<1>2. CASE Handle(o)
  <2>1. UNCHANGED <<hosts, recs>>
    BY <1>2 DEF Handle, AddService, UpdateService, DeleteService, PushService, BulkSwitch,
                provVars
  <2> QED BY <2>1, SameIsDarker
<1>3. CASE Work(o)
  <2>1. PICK t \in NextTasks(o) :
           \/ FindHost(o, t) \/ RenewHost(o, t) \/ CreateNewHost(o, t)
           \/ ResumeHost(o, t) \/ SuspendHost(o, t) \/ ScrapHost(o, t)
           \/ SeekHost(o, t) \/ DropHost(o, t)
           \/ ReadRecord(o, t) \/ SwapRecord(o, t) \/ AddRecord(o, t)
           \/ PointRecord(o, t) \/ MoveRecord(o, t) \/ UnmoveRecord(o, t)
           \/ LookRecord(o, t) \/ QuitRecord(o, t) \/ CheckKept(o, t)
           \/ InsertRow(o, t) \/ WriteRow(o, t) \/ CommitRow(o, t) \/ Settle(o, t)
           \/ TakeLock(o, t) \/ GiveUp(o, t)
           \/ FollowExtras(o, t) \/ RemoveRow(o, t)
           \/ NextInBatch(o, t) \/ FlipPrimaries(o, t)
    BY <1>3 DEF Work
  <2>2. Turn(o, t)
    BY DEF Turn
  <2>3. CASE o = s
    <3>1. t.do \in DarkDo
      BY <2>2, <2>3, TurnFacts DEF DimInv, Dim
    <3> QED BY <2>1, <2>2, <3>1, DarkStep
  <2>4. CASE o # s
    <3>1. \E x : Advance(o, x)
      BY <2>1, ZenonT(60) DEF FindHost, RenewHost, CreateNewHost, ResumeHost, SuspendHost, ScrapHost,
           SeekHost, DropHost, ReadRecord, SwapRecord, AddRecord, PointRecord, MoveRecord,
           UnmoveRecord, LookRecord, QuitRecord, CheckKept, InsertRow, WriteRow, CommitRow,
           Settle, TakeLock, GiveUp, FollowExtras, RemoveRow, NextInBatch, FlipPrimaries,
           Answered, Reply
    <3>2. ses'[s] = ses[s]
      BY <2>4, <3>1 DEF Advance, IInv, SessionsOK
    <3> QED BY <3>2
  <2> QED BY <2>3, <2>4
<1> QED BY <1>1, <1>2, <1>3

\* A DELETE, a bulk disable and the push of a row that was off put no host and
\* no record up, however their row and its targets change under them.
THEOREM WithdrawalsPublishNothing == Spec => WithdrawalPublishesNothing
<1>1. ([][OnlyDarker]_vars) <=> WithdrawalPublishesNothing
  BY DEF OnlyDarker, WithdrawalPublishesNothing
<1> QED BY <1>1, InitOK, NextOK, InitDim, NextDim, NextOnlyDarker, PTL DEF Spec
=============================================================================
