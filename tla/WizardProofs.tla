---------------------------- MODULE WizardProofs ----------------------------
(***************************************************************************)
(* The gate and the wizard, for any number of names, integrations,         *)
(* requests and scans.  Everything a step draws goes through Render, so    *)
(* one lemma says what a commit of the React tree keeps (RenderKeeps), and *)
(* each action has only to hand it a sound state, a list and a queue.      *)
(***************************************************************************)
EXTENDS Wizard, TLAPS

Requests == [id : 1..MaxCalls, op : Ops, at : Outcomes, here : BOOLEAN, mark : BOOLEAN]

\* What a screen that is mounted knows of its scan: a result, a scan it waits for, a failure,
\* or a list that held nothing to scan.
ScanIsKnown(state) == state.scan # None \/ state.loading \/ state.failed \/ state.skipped

\* A visit of the import screen that has not scanned yet has room to.
RoomToScan(state) == state.step = "import" /\ state.armed => scans < MaxScans

Sound(state) == state = Gone \/ (state \in WizardState /\ ScanIsKnown(state) /\ RoomToScan(state))

\* No request of a kind is sent beside one that is marked, no question is asked of a deletion
\* while the first is, and an end of the setup that was confirmed is one.  A mark goes with
\* the wizard or the login, and not before unless it belongs to one screen.
Queued(requests, completed) ==
    /\ requests \in SUBSET Requests
    /\ \A c, d \in requests : c.id = d.id \/ (c.op = d.op /\ c.mark /\ d.mark) => c = d
    /\ \A c \in requests : /\ c.mark => c.here
                           /\ c.here /\ c.op \notin OwnScreen => c.mark
    /\ \A c, d \in requests : c.op = "delete" /\ c.mark /\ d.mark => d.op # "force"
    /\ \A c \in requests : c.op \in {"complete", "restore"} /\ c.at = "ok" => completed
    /\ \A c \in requests : c.at = "settling" => c.op = "create"

\* What the server, this browser and the bound hold.
World ==
    /\ server \in [password : BOOLEAN, completed : BOOLEAN, providers : 0..MaxProviders]
    /\ cookie \in BOOLEAN /\ cooldown \in BOOLEAN /\ upsets \in 0..MaxUpsets

\* What the gate is read off.
Marks == store \in [active : BOOLEAN, step : Steps] /\ auth \in Query(AuthAnswers)

\* What is on the screen: a request is heard by a wizard that is mounted, no visit of the
\* import screen still owes its scan after a commit, and the gate is obeyed.
View ==
    /\ integrations \in Query(0..MaxProviders)
    /\ Sound(setup)
    /\ scans \in 0..MaxScans /\ (~setup.mounted => scans = 0)
    /\ \A c \in calls : c.here /\ c.op # "login" => setup.mounted
    /\ ~ScanDue(setup, integrations)
    /\ WizardIsGated

IInv == World /\ Marks /\ View /\ Queued(calls, server.completed)

\* A wizard that is gone is not mounted, and any other is.
LEMMA GoneIsNotMounted == ~Gone.mounted /\ (\A state \in WizardState : state.mounted)
<1>1. ~Gone.mounted
  BY DEF Gone
<1>2. \A state \in WizardState : state.mounted
  BY DEF WizardState
<1> QED BY <1>1, <1>2

LEMMA ViewImplies == IInv => TypeOK /\ ScreenIsTrue
<1> SUFFICES ASSUME IInv PROVE TypeOK /\ ScreenIsTrue
  OBVIOUS
<1>1. TypeOK
  BY DEF IInv, World, Marks, View, Sound, Queued, Requests, TypeOK
<1>2. AllClearIsEarned
  <2> SUFFICES ASSUME At("import"), ImportView = "nothing to import"
               PROVE  setup.skipped \/ (setup.scan # None /\ setup.scan.rows = {} /\ ~setup.scan.unread)
    BY DEF AllClearIsEarned
  <2>1. setup \in WizardState /\ ScanIsKnown(setup)
    <3>1. setup # Gone
      BY GoneIsNotMounted DEF At
    <3> QED BY <3>1 DEF IInv, View, Sound
  <2>2. ~setup.failed /\ ~setup.loading /\ NothingFound /\ ~Unread
    BY DEF ImportView
  <2> QED BY <2>1, <2>2 DEF ScanIsKnown, NothingFound, Unread, WizardState
<1> QED BY <1>1, <1>2 DEF ScreenIsTrue, IInv, View

\* The wizard is drawn from what sessionStorage holds.
LEMMA MountedIsSound ==
    ASSUME NEW kept \in [active : BOOLEAN, step : Steps]
    PROVE  /\ Mounted(kept) \in WizardState /\ ScanIsKnown(Mounted(kept))
           /\ Mounted(kept).mounted
BY DEF Mounted, WizardState, ScanIsKnown

LEMMA AskedIsQuery ==
    ASSUME NEW Data, NEW query \in Query(Data)
    PROVE  /\ Asked(query) \in Query(Data) /\ Failed(query) \in Query(Data)
           /\ Asked(query).data = query.data
           /\ Asked(query).error = (query.error /\ query.data # None)
BY DEF Query, Asked, Failed

LEMMA LoadingIs ==
    ASSUME NEW state \in WizardState, NEW list
    PROVE  /\ Loading(state, list) \in WizardState
           /\ ScanIsKnown(Loading(state, list))
           /\ Loading(state, list).armed = state.armed
           /\ Loading(state, list).step = state.step
BY DEF Loading, WizardState, ScanIsKnown

LEMMA AskedGate ==
    ASSUME NEW query \in Query(AuthAnswers), NEW kept
    PROVE  GateOf(Asked(query), kept) = "setup" <=> GateOf(query, kept) = "setup"
BY AskedIsQuery DEF GateOf, Pending

\* A request that is heard no longer keeps its place.
LEMMA HeardIsQueued ==
    ASSUME NEW left, NEW done, Queued(left, done)
    PROVE  Queued({[c EXCEPT !.here = StillHeard(c), !.mark = StillMarked(c)] : c \in left}, done)
<1> DEFINE heard(c) == [c EXCEPT !.here = StillHeard(c), !.mark = StillMarked(c)]
<1>0. \A c \in left : /\ StillHeard(c) \in BOOLEAN /\ StillMarked(c) \in BOOLEAN
                      /\ StillMarked(c) => c.mark /\ StillHeard(c)
                      /\ StillHeard(c) => c.here
                      /\ StillHeard(c) /\ c.mark /\ c.op \notin OwnScreen => StillMarked(c)
  BY DEF StillHeard, StillMarked
<1>1. \A c \in left : /\ heard(c) \in Requests
                      /\ heard(c).id = c.id /\ heard(c).op = c.op /\ heard(c).at = c.at
                      /\ heard(c).here = StillHeard(c) /\ heard(c).mark = StillMarked(c)
  <2> SUFFICES ASSUME NEW c \in left
               PROVE  /\ heard(c) \in Requests
                      /\ heard(c).id = c.id /\ heard(c).op = c.op /\ heard(c).at = c.at
                      /\ heard(c).here = StillHeard(c) /\ heard(c).mark = StillMarked(c)
    OBVIOUS
  <2>1. c \in Requests
    BY DEF Queued
  <2> QED BY <1>0, <2>1 DEF Requests
<1> HIDE DEF heard
<1>2. {heard(c) : c \in left} \in SUBSET Requests
  BY <1>1
<1>3. ASSUME NEW c \in {heard(x) : x \in left}, NEW d \in {heard(x) : x \in left}
      PROVE  /\ c.id = d.id \/ (c.op = d.op /\ c.mark /\ d.mark) => c = d
             /\ c.op = "delete" /\ c.mark /\ d.mark => d.op # "force"
  BY <1>0, <1>1 DEF Queued
<1>4. ASSUME NEW c \in {heard(x) : x \in left}
      PROVE  /\ c.mark => c.here
             /\ c.here /\ c.op \notin OwnScreen => c.mark
             /\ c.op \in {"complete", "restore"} /\ c.at = "ok" => done
             /\ c.at = "settling" => c.op = "create"
  BY <1>0, <1>1 DEF Queued
<1>5. Queued({heard(c) : c \in left}, done)
  BY <1>2, <1>3, <1>4 DEF Queued
<1> QED BY <1>5 DEF heard

\* What a commit of the React tree leaves is what the invariant asks for.
LEMMA RenderKeeps ==
    ASSUME View, Marks', NEW next, Sound(next), next.mounted = setup.mounted,
           NEW list \in Query(0..MaxProviders), NEW left, NEW done, Queued(left, done),
           Render(next, list, left)
    PROVE  View' /\ Queued(calls', done)
<1> DEFINE kept == Kept(next)
           read == IF ~setup.mounted /\ kept.mounted THEN Asked(list) ELSE list
<1>1. /\ setup' = ScanEffect(kept, read)
      /\ integrations' = read
      /\ calls' = {[c EXCEPT !.here = StillHeard(c), !.mark = StillMarked(c)] : c \in left}
      /\ scans' = IF ~kept.mounted THEN 0
                  ELSE IF ScanDue(kept, read) /\ Scans(read) THEN scans + 1 ELSE scans
  BY DEF Render
<1>2. kept.mounted <=> Gate' = "setup"
  BY GoneIsNotMounted, MountedIsSound DEF Kept, Gate, Marks
<1>3. Sound(kept)
  <2>1. CASE Gate' # "setup"
    BY <2>1 DEF Kept, Gate, Sound
  <2>2. CASE Gate' = "setup" /\ next.mounted
    BY <2>2 DEF Kept, Gate
  <2>3. CASE Gate' = "setup" /\ ~next.mounted
    <3>1. kept = Mounted(store')
      BY <2>3 DEF Kept, Gate
    <3>2. scans = 0 /\ 0 < MaxScans
      BY <2>3, WizardAssumption DEF View
    <3> QED BY <3>1, <3>2, MountedIsSound DEF Sound, RoomToScan, Marks
  <2> QED BY <2>1, <2>2, <2>3
<1>4. read \in Query(0..MaxProviders)
  BY AskedIsQuery
<1> HIDE DEF kept, read
<1>5. /\ setup' = Gone \/ (setup' \in WizardState /\ ScanIsKnown(setup') /\ (setup'.step = "import" /\ setup'.armed => scans' < MaxScans))
      /\ scans' \in 0..MaxScans
      /\ setup'.mounted <=> kept.mounted
      /\ ~setup'.mounted => scans' = 0
      /\ ~ScanDue(setup', read)
  <2>1. CASE ~kept.mounted
    <3>1. kept = Gone /\ setup' = Gone /\ scans' = 0
      BY <1>1, <1>3, <2>1, GoneIsNotMounted DEF Sound, ScanEffect, ScanDue
    <3> QED BY <3>1, <2>1, GoneIsNotMounted, WizardAssumption DEF ScanDue
  <2>2. CASE kept.mounted /\ ~ScanDue(kept, read)
    <3>1. setup' = kept /\ scans' = scans /\ kept # Gone
      BY <1>1, <2>2, GoneIsNotMounted DEF ScanEffect
    <3> QED BY <3>1, <2>2, <1>3 DEF Sound, RoomToScan, View
  <2>3. CASE kept.mounted /\ ScanDue(kept, read)
    <3> DEFINE off == [kept EXCEPT !.armed = FALSE]
    <3>1. kept \in WizardState /\ scans < MaxScans
      BY <2>3, <1>3, GoneIsNotMounted DEF Sound, RoomToScan, ScanDue
    <3>2. off \in WizardState /\ off.armed = FALSE
      BY <3>1 DEF WizardState
    <3>3. setup' = Loading(off, read)
      BY <1>1, <2>3 DEF ScanEffect
    <3>4. scans' \in {scans, scans + 1}
      BY <1>1, <2>3
    <3>5. scans' \in 0..MaxScans
      BY <3>1, <3>4, WizardAssumption DEF View
    <3> HIDE DEF off
    <3>6. setup' \in WizardState /\ ScanIsKnown(setup') /\ setup'.armed = FALSE
      BY <3>2, <3>3, LoadingIs
    <3> QED BY <3>5, <3>6, <2>3, GoneIsNotMounted DEF ScanDue
  <2> QED BY <2>1, <2>2, <2>3
<1>6. Queued(calls', done)
  BY <1>1, HeardIsQueued
<1>7. \A c \in calls' : c.here /\ c.op # "login" => setup'.mounted
  <2> SUFFICES ASSUME NEW d \in calls', d.here, d.op # "login" PROVE setup'.mounted
    OBVIOUS
  <2>1. PICK c \in left : d = [c EXCEPT !.here = StillHeard(c), !.mark = StillMarked(c)]
    BY <1>1
  <2>2. c \in Requests
    BY DEF Queued
  <2>3. d.here = StillHeard(c) /\ d.op = c.op
    BY <2>1, <2>2 DEF Requests
  <2> QED BY <2>3 DEF StillHeard
<1>8. View'
  BY <1>1, <1>2, <1>4, <1>5, <1>7 DEF View, Sound, RoomToScan, WizardIsGated, ScanDue, ListRead
<1> QED BY <1>6, <1>8

\* The queue without a request, and once more is confirmed than before.
LEMMA QueuedLess ==
    ASSUME NEW requests, NEW c, NEW completed, Queued(requests, completed)
    PROVE  Queued(requests \ {c}, completed)
BY DEF Queued

LEMMA SameScreen ==
    ASSUME IInv, Marks', NEW list \in Query(0..MaxProviders), NEW left, Queued(left, server.completed),
           Render(setup, list, left)
    PROVE  View' /\ Queued(calls', server.completed)
BY RenderKeeps DEF IInv, View

LEMMA AuthMeIsAnswer == IInv => AuthMe \in AuthAnswers
BY DEF IInv, World, AuthMe, AuthAnswers, Authenticated, SetupRequired

LEMMA CountDownIs == ASSUME NEW goesOn, CountDown(goesOn) PROVE cooldown' \in BOOLEAN
BY DEF CountDown

LEMMA CheckKeeps ==
    ASSUME IInv, NEW query \in Query(AuthAnswers), upsets' \in 0..MaxUpsets, Check(query)
    PROVE  IInv'
<1>1. World'
  BY CountDownIs DEF IInv, World, Check
<1>2. Marks'
  BY DEF IInv, Marks, Check
<1>3. View' /\ Queued(calls', server.completed)
  BY <1>2, SameScreen DEF Check, IInv, View
<1> QED BY <1>1, <1>2, <1>3 DEF IInv, Check

LEMMA Upsets == ASSUME IInv, Upset PROVE upsets' \in 0..MaxUpsets
BY WizardAssumption DEF IInv, World, Upset

\* The check of the caller, and the page that is loaded again.
LEMMA ChecksKeep ==
    ASSUME IInv, AuthLands \/ AuthFails \/ BootRetry \/ AppCall \/ Reload PROVE IInv'
<1>1. auth \in Query(AuthAnswers) /\ upsets \in 0..MaxUpsets
  BY DEF IInv, Marks, World
<1>2. CASE AuthLands
  <2>1. Landed(AuthMe) \in Query(AuthAnswers)
    BY AuthMeIsAnswer DEF Landed, Query
  <2> QED BY <1>1, <1>2, <2>1, CheckKeeps DEF AuthLands
<1>3. CASE AuthFails
  BY <1>1, <1>3, Upsets, AskedIsQuery, CheckKeeps DEF AuthFails
<1>4. CASE BootRetry \/ AppCall
  BY <1>1, <1>4, AskedIsQuery, CheckKeeps DEF BootRetry, AppCall
<1>5. CASE Reload
  <2>1. World'
    BY <1>5, Upsets DEF IInv, World, Reload
  <2>2. Unasked \in Query(AuthAnswers) /\ Unasked \in Query(0..MaxProviders)
    BY DEF Unasked, Query
  <2>3. Marks'
    BY <1>5, <2>2, AskedIsQuery DEF IInv, Marks, Reload
  <2>4. Gate' = "loader"
    BY <1>5, <2>2, AskedIsQuery DEF Reload, Gate, GateOf, Pending, Unasked
  <2>5. View'
    BY <1>5, <2>2, <2>4, GoneIsNotMounted, WizardAssumption DEF Reload, View, Sound, WizardIsGated, ScanDue
  <2>6. Queued(calls', server'.completed)
    BY <1>5 DEF Reload, Queued
  <2> QED BY <2>1, <2>3, <2>5, <2>6 DEF IInv
<1> QED BY <1>2, <1>3, <1>4, <1>5

\* What the server does leaves the screen alone.
LEMMA StillSeen ==
    ASSUME View, UNCHANGED <<store, auth, integrations, setup, scans>>,
           \A c \in calls' : c.here /\ c.op # "login" => setup.mounted
    PROVE  View'
BY DEF View, Sound, RoomToScan, WizardIsGated, Gate, ScanDue, ListRead

LEMMA AnswerKeeps ==
    ASSUME IInv, NEW c \in calls, NEW at \in Outcomes \ {"settling"}, Answer(c, at), NEW completed,
           server.completed => completed,
           c.op \in {"complete", "restore"} /\ at = "ok" => completed
    PROVE  /\ Queued(calls', completed)
           /\ \A d \in calls' : d.here /\ d.op # "login" => setup.mounted
<1> DEFINE answered == [c EXCEPT !.at = at]
<1>1. answered \in Requests /\ answered.op = c.op /\ answered.at = at
      /\ answered.id = c.id /\ answered.here = c.here /\ answered.mark = c.mark
  BY DEF IInv, Queued, Requests
<1>2. calls' = (calls \ {c}) \cup {answered}
  BY DEF Answer
<1> HIDE DEF answered
<1>3. Queued(calls', completed)
  BY <1>1, <1>2 DEF IInv, Queued
<1>4. \A d \in calls' : d.here /\ d.op # "login" => setup.mounted
  BY <1>1, <1>2 DEF IInv, View
<1> QED BY <1>3, <1>4

LEMMA ServedKeeps ==
    ASSUME IInv, NEW c \in calls, NEW at \in Outcomes \ {"settling"}, Answer(c, at),
           server' \in [password : BOOLEAN, completed : BOOLEAN, providers : 0..MaxProviders],
           cookie' \in BOOLEAN, upsets' \in 0..MaxUpsets,
           UNCHANGED <<store, auth, integrations, setup, scans, cooldown>>,
           server.completed => server'.completed,
           c.op \in {"complete", "restore"} /\ at = "ok" => server'.completed
    PROVE  IInv'
<1>1. /\ Queued(calls', server'.completed)
      /\ \A d \in calls' : d.here /\ d.op # "login" => setup.mounted
  BY AnswerKeeps
<1>2. View'
  BY <1>1, StillSeen DEF IInv
<1> QED BY <1>1, <1>2 DEF IInv, World, Marks

\* One integration more.
LEMMA OneMore ==
    ASSUME IInv, server.providers < MaxProviders
    PROVE  /\ [server EXCEPT !.completed = TRUE, !.providers = @ + 1]
                 \in [password : BOOLEAN, completed : BOOLEAN, providers : 0..MaxProviders]
           /\ [server EXCEPT !.completed = TRUE, !.providers = @ + 1].completed
<1>1. server \in [password : BOOLEAN, completed : BOOLEAN, providers : 0..MaxProviders]
  BY DEF IInv, World
<1>2. server.providers + 1 \in 0..MaxProviders
  BY <1>1, WizardAssumption
<1>3. [server EXCEPT !.completed = TRUE, !.providers = @ + 1]
         = [[server EXCEPT !.completed = TRUE] EXCEPT !.providers = @ + 1]
  OBVIOUS
<1> DEFINE ended == [server EXCEPT !.completed = TRUE]
<1>4. /\ ended \in [password : BOOLEAN, completed : BOOLEAN, providers : 0..MaxProviders]
      /\ ended.completed /\ ended.providers = server.providers
  BY <1>1
<1>5. [server EXCEPT !.completed = TRUE, !.providers = @ + 1] = [ended EXCEPT !.providers = @ + 1]
  BY <1>3
<1> HIDE DEF ended
<1> QED BY <1>2, <1>4, <1>5

LEMMA ReplyIs ==
    ASSUME IInv, NEW c, Reply(c)
    PROVE  /\ upsets' \in 0..MaxUpsets
           /\ \E at \in {"ok", "refused"} : Answer(c, at)
BY Upsets DEF Reply, IInv, World

\* What the server does with each request.
LEMMA ServeKeeps == ASSUME IInv, NEW c \in calls, Serve(c) PROVE IInv'
<1> USE DEF Outcomes
<1>1. /\ UNCHANGED <<store, auth, integrations, setup, scans, cooldown>>
      /\ server \in [password : BOOLEAN, completed : BOOLEAN, providers : 0..MaxProviders]
      /\ cookie \in BOOLEAN /\ upsets \in 0..MaxUpsets
  BY DEF Serve, IInv, World
<1>2. CASE Refuse(c)
  <2>1. /\ UNCHANGED <<server, cookie, upsets>>
        /\ \E at \in Outcomes \ {"ok", "settling"} : Answer(c, at)
    BY <1>2 DEF Refuse
  <2> QED BY <1>1, <2>1, ServedKeeps
<1>3. CASE ServeSetupPassword(c)
  <2>1. server' = [server EXCEPT !.password = TRUE, !.completed = TRUE] /\ c.op = "password"
    BY <1>3 DEF ServeSetupPassword
  <2>2. cookie' \in BOOLEAN /\ upsets' \in 0..MaxUpsets /\ \E at \in Outcomes \ {"settling"} : Answer(c, at)
    BY <1>1, <1>3, Upsets DEF ServeSetupPassword
  <2> QED BY <1>1, <2>1, <2>2, ServedKeeps
<1>4. CASE ServeLogin(c)
  BY <1>1, <1>4, ServedKeeps DEF ServeLogin
<1>5. CASE ServeComplete(c)
  <2>1. server' = [server EXCEPT !.completed = TRUE] /\ UNCHANGED cookie
    BY <1>5 DEF ServeComplete
  <2>2. upsets' \in 0..MaxUpsets /\ \E at \in Outcomes \ {"settling"} : Answer(c, at)
    BY <1>5, ReplyIs DEF ServeComplete
  <2> QED BY <1>1, <2>1, <2>2, ServedKeeps
<1>6. CASE ServeCreate(c)
  <2>1. /\ server' = [server EXCEPT !.completed = TRUE, !.providers = @ + 1]
        /\ UNCHANGED cookie /\ server.providers < MaxProviders
    BY <1>6 DEF ServeCreate
  <2>2. upsets' \in 0..MaxUpsets /\ \E at \in Outcomes \ {"settling"} : Answer(c, at)
    BY <1>6, ReplyIs DEF ServeCreate
  <2>3. server' \in [password : BOOLEAN, completed : BOOLEAN, providers : 0..MaxProviders] /\ server'.completed
    BY <2>1, OneMore
  <2> QED BY <1>1, <2>1, <2>2, <2>3, ServedKeeps
<1>7. CASE ServeDelete(c)
  <2>1. server.providers > 0 /\ server' \in {server, [server EXCEPT !.providers = @ - 1]} /\ UNCHANGED cookie
    BY <1>7 DEF ServeDelete
  <2>2. upsets' \in 0..MaxUpsets /\ (\E at \in Outcomes \ {"settling"} : Answer(c, at)) /\ c.op \in {"delete", "force"}
    BY <1>1, <1>7, ReplyIs DEF ServeDelete
  <2>3. /\ server' \in [password : BOOLEAN, completed : BOOLEAN, providers : 0..MaxProviders]
        /\ server'.completed = server.completed
    BY <1>1, <2>1, WizardAssumption
  <2> QED BY <1>1, <2>1, <2>2, <2>3, ServedKeeps
<1>8. CASE ServeImport(c)
  <2>1. upsets' \in 0..MaxUpsets /\ (\E at \in Outcomes \ {"settling"} : Answer(c, at)) /\ c.op = "import" /\ UNCHANGED <<server, cookie>>
    BY <1>8, ReplyIs DEF ServeImport
  <2> QED BY <1>1, <2>1, ServedKeeps
<1>9. CASE ServeRestore(c)
  <2>1. /\ \E n \in 0..MaxProviders : server' = [server EXCEPT !.completed = TRUE, !.providers = n]
        /\ UNCHANGED cookie
    BY <1>9 DEF ServeRestore
  <2>2. upsets' \in 0..MaxUpsets /\ \E at \in Outcomes \ {"settling"} : Answer(c, at)
    BY <1>9, ReplyIs DEF ServeRestore
  <2> QED BY <1>1, <2>1, <2>2, ServedKeeps
<1> QED BY <1>2, <1>3, <1>4, <1>5, <1>6, <1>7, <1>8, <1>9 DEF Serve

\* Another client changes only what the server and this browser hold.
LEMMA ElsewhereKeeps == ASSUME IInv, Elsewhere PROVE IInv'
<1>1. UNCHANGED <<store, auth, integrations, setup, calls, scans, cooldown>> /\ upsets' \in 0..MaxUpsets
  BY Upsets DEF Elsewhere
<1>2. /\ server' \in [password : BOOLEAN, completed : BOOLEAN, providers : 0..MaxProviders]
      /\ server.completed => server'.completed
      /\ cookie' \in BOOLEAN
  <2>1. /\ server \in [password : BOOLEAN, completed : BOOLEAN, providers : 0..MaxProviders]
        /\ cookie \in BOOLEAN
    BY DEF IInv, World
  <2>2. CASE /\ server.providers < MaxProviders /\ UNCHANGED cookie
             /\ server' = [server EXCEPT !.completed = TRUE, !.providers = @ + 1]
    BY <2>1, <2>2, OneMore
  <2>3. CASE server' = [server EXCEPT !.password = TRUE, !.completed = TRUE] /\ UNCHANGED cookie
    BY <2>1, <2>3
  <2>4. CASE cookie' = FALSE /\ UNCHANGED server
    BY <2>1, <2>4
  <2> QED BY <2>2, <2>3, <2>4 DEF Elsewhere
<1>3. View'
  BY <1>1, StillSeen DEF IInv, View
<1>4. Queued(calls', server'.completed)
  BY <1>1, <1>2 DEF IInv, Queued
<1> QED BY <1>1, <1>2, <1>3, <1>4 DEF IInv, World, Marks

(***************************************************************************)
(* The screens.                                                            *)
(***************************************************************************)
LEMMA ArriveIs ==
    ASSUME NEW state \in WizardState, ScanIsKnown(state), NEW screen \in Steps,
           screen = "import" => scans < MaxScans
    PROVE  /\ Arrive(state, screen) \in WizardState
           /\ Sound(Arrive(state, screen))
<1>1. /\ Arrive(state, screen) \in WizardState
      /\ Arrive(state, screen).step = screen
      /\ Arrive(state, screen).scan = state.scan /\ Arrive(state, screen).loading = state.loading
      /\ Arrive(state, screen).failed = state.failed /\ Arrive(state, screen).skipped = state.skipped
  BY DEF Arrive, WizardState
<1> QED BY <1>1 DEF Sound, ScanIsKnown, RoomToScan

LEMMA EnterKeeps ==
    ASSUME IInv, setup.mounted, NEW state \in WizardState, ScanIsKnown(state), NEW screen \in Steps,
           screen = "import" => scans < MaxScans,
           NEW left, Queued(left, server.completed), Enter(state, screen, left)
    PROVE  Marks' /\ View' /\ Queued(calls', server.completed)
<1>1. Marks'
  BY DEF Enter, IInv, Marks
<1>2. Sound(Arrive(state, screen)) /\ Arrive(state, screen).mounted
  BY ArriveIs, GoneIsNotMounted
<1>3. setup.mounted = TRUE /\ Arrive(state, screen).mounted = TRUE
  BY <1>2, GoneIsNotMounted, ArriveIs DEF IInv, View, Sound, WizardState
<1> QED BY <1>1, <1>2, <1>3, RenderKeeps DEF Enter, IInv, View

\* The state of a wizard that is on the screen.
LEMMA OnScreen ==
    ASSUME IInv, setup.mounted
    PROVE  setup \in WizardState /\ ScanIsKnown(setup) /\ RoomToScan(setup)
BY GoneIsNotMounted DEF IInv, View, Sound

LEMMA GoKeeps ==
    ASSUME IInv, setup.mounted, NEW screen \in Steps \ {"import"}, Go(screen)
    PROVE  Marks' /\ View' /\ Queued(calls', server.completed)
BY OnScreen, EnterKeeps DEF Go, IInv

LEMMA RequestKeeps ==
    ASSUME IInv, NEW op \in Ops, Free(op), calls' = calls \cup {Request(op)},
           op = "delete" => ~Busy("force"), op # "force"
    PROVE  Queued(calls', server.completed)
<1> DEFINE sent == Request(op)
<1>1. /\ sent \in Requests /\ sent.id \in FreeIds /\ sent.op = op /\ sent.at = "sent"
      /\ sent.here = TRUE /\ sent.mark = TRUE
  <2>1. PICK id \in FreeIds : id = CHOOSE i \in FreeIds : TRUE
    BY DEF Free
  <2>2. sent = [id |-> id, op |-> op, at |-> "sent", here |-> TRUE, mark |-> TRUE]
    BY <2>1 DEF Request
  <2> QED BY <2>1, <2>2 DEF FreeIds, Requests, Outcomes
<1>2. \A c \in calls : c.id # sent.id /\ (c.op = op => ~c.mark)
  BY <1>1 DEF Free, Busy, FreeIds
<1>3. op = "delete" => \A c \in calls : c.op = "force" => ~c.mark
  BY DEF Busy
<1> HIDE DEF sent
<1>4. calls' = calls \cup {sent}
  BY DEF sent
<1> QED BY <1>4, <1>1, <1>2, <1>3 DEF IInv, Queued

LEMMA SendKeeps ==
    ASSUME IInv, setup.mounted, NEW op \in Ops, Send(op),
           op = "delete" => ~Busy("force"), op # "force"
    PROVE  Marks' /\ View' /\ Queued(calls', server.completed)
<1>1. Queued(calls', server.completed)
  BY RequestKeeps DEF Send
<1>2. View'
  BY StillSeen DEF Send, IInv, View
<1> QED BY <1>1, <1>2 DEF Send, IInv, Marks

LEMMA ScreenKeeps == ASSUME IInv, Screen PROVE IInv'
<1> SUFFICES Marks' /\ View' /\ Queued(calls', server.completed)
  BY CountDownIs DEF Screen, IInv, World
<1>1. ASSUME NEW screen, At(screen) PROVE setup.mounted /\ setup.step = screen
  BY <1>1 DEF At
<1>2. CASE WelcomeStep
  <2>1. CASE auth.data.setup_required /\ Go("restore")
    BY <1>1, <1>2, <2>1, GoKeeps DEF WelcomeStep, Steps
  <2>2. CASE /\ store' = [store EXCEPT !.active = TRUE, !.step = "password"]
             /\ UNCHANGED auth
             /\ Render(Arrive(setup, "password"), integrations, calls)
    <3>1. Marks'
      BY <2>2 DEF IInv, Marks, Steps
    <3>2. setup.mounted /\ setup \in WizardState /\ ScanIsKnown(setup)
      BY <1>1, <1>2, OnScreen DEF WelcomeStep
    <3>3. Sound(Arrive(setup, "password")) /\ Arrive(setup, "password") \in WizardState
      BY <3>2, ArriveIs DEF Steps
    <3>4. setup.mounted = Arrive(setup, "password").mounted
      BY <3>2, <3>3 DEF WizardState
    <3> QED BY <2>2, <3>1, <3>3, <3>4, RenderKeeps DEF IInv, View
  <2> QED BY <1>2, <2>1, <2>2 DEF WelcomeStep
<1>3. CASE RestoreStep
  BY <1>1, <1>3, GoKeeps, SendKeeps DEF RestoreStep, Steps, Ops
<1>4. CASE PasswordStep
  BY <1>1, <1>4, GoKeeps, SendKeeps DEF PasswordStep, Steps, Ops
<1>5. CASE ProvidersStep
  <2>1. CASE Go("password") \/ Go("provider-form") \/ Go("notifications")
    BY <1>1, <1>5, <2>1, GoKeeps DEF ProvidersStep, Steps
  <2>2. CASE ~Busy("force") /\ Send("delete")
    BY <1>1, <1>5, <2>2, SendKeeps DEF ProvidersStep, Ops
  <2>3. CASE UNCHANGED <<store, auth>> /\ Render(setup, Asked(integrations), calls)
    <3>1. Marks' /\ Asked(integrations) \in Query(0..MaxProviders)
      BY <2>3, AskedIsQuery DEF IInv, Marks, View
    <3> QED BY <2>3, <3>1, SameScreen DEF IInv
  <2> QED BY <1>5, <2>1, <2>2, <2>3 DEF ProvidersStep
<1>6. CASE ProviderFormStep
  BY <1>1, <1>6, GoKeeps, SendKeeps DEF ProviderFormStep, Steps, Ops
<1>7. CASE NotificationsStep
  BY <1>1, <1>7, GoKeeps DEF NotificationsStep, Steps
<1>8. CASE DockerStep
  <2>1. CASE Go("notifications")
    BY <1>1, <1>8, <2>1, GoKeeps DEF DockerStep, Steps
  <2>2. CASE scans < MaxScans /\ Enter([setup EXCEPT !.loading = TRUE], "import", calls)
    <3>1. setup.mounted /\ setup \in WizardState
      BY <1>1, <1>8, OnScreen DEF DockerStep, At
    <3>2. [setup EXCEPT !.loading = TRUE] \in WizardState /\ ScanIsKnown([setup EXCEPT !.loading = TRUE])
      BY <3>1 DEF WizardState, ScanIsKnown
    <3> QED BY <2>2, <3>1, <3>2, EnterKeeps DEF Steps, IInv
  <2> QED BY <1>8, <2>1, <2>2 DEF DockerStep, At
<1>9. CASE ImportBack
  BY <1>1, <1>9, GoKeeps DEF ImportBack, Steps, At
<1>10. CASE DoneStep
  BY <1>1, <1>10, SendKeeps DEF DoneStep, Ops
<1> QED BY <1>2, <1>3, <1>4, <1>5, <1>6, <1>7, <1>8, <1>9, <1>10 DEF Screen

(***************************************************************************)
(* The answers.                                                            *)
(***************************************************************************)
LEMMA RecheckIs == ASSUME IInv, NEW unauthorized, Recheck(unauthorized) PROVE auth' \in Query(AuthAnswers)
BY AskedIsQuery DEF Recheck, IInv, Marks

LEMMA TurnsKeep ==
    ASSUME IInv, NEW c \in calls, c.op # "login", auth' \in Query(AuthAnswers),
           NEW screen \in Steps \ {"import"}, NEW left, Queued(left, server.completed),
           TurnsTo(c, screen, left)
    PROVE  Marks' /\ View' /\ Queued(calls', server.completed)
<1>1. CASE c.here
  <2>1. setup.mounted /\ setup \in WizardState /\ ScanIsKnown(setup)
    BY <1>1, OnScreen DEF IInv, View
  <2>2. Marks'
    BY <1>1 DEF TurnsTo, IInv, Marks
  <2>3. Sound(Arrive(setup, screen)) /\ Arrive(setup, screen) \in WizardState
    BY <2>1, ArriveIs
  <2>4. setup.mounted = Arrive(setup, screen).mounted
    BY <2>1, <2>3 DEF WizardState
  <2> QED BY <1>1, <2>2, <2>3, <2>4, RenderKeeps DEF TurnsTo, IInv, View
<1>2. CASE ~c.here
  <2>1. Marks'
    BY <1>2 DEF TurnsTo, IInv, Marks
  <2> QED BY <1>2, <2>1, SameScreen DEF TurnsTo, IInv, View
<1> QED BY <1>1, <1>2

\* A request goes on under another outcome, or is asked again.
LEMMA QueuedAgain ==
    ASSUME IInv, NEW c \in calls
    PROVE  /\ c.op = "create" =>
                 Queued((calls \ {c}) \cup {[c EXCEPT !.at = "settling"]}, server.completed)
           /\ c.op \in {"delete", "force"} /\ c.here =>
                 Queued((calls \ {c}) \cup {[c EXCEPT !.op = "force", !.at = "sent"]}, server.completed)
<1>1. calls \in SUBSET Requests
  BY DEF IInv, Queued
<1>2. ASSUME c.op = "create"
      PROVE  Queued((calls \ {c}) \cup {[c EXCEPT !.at = "settling"]}, server.completed)
  <2> DEFINE settling == [c EXCEPT !.at = "settling"]
  <2>1. /\ settling \in Requests /\ settling.op = c.op /\ settling.at = "settling"
        /\ settling.id = c.id /\ settling.here = c.here /\ settling.mark = c.mark
    BY <1>1 DEF Requests, Outcomes
  <2> HIDE DEF settling
  <2>2. Queued((calls \ {c}) \cup {settling}, server.completed)
    BY <1>2, <2>1 DEF IInv, Queued
  <2> QED BY <2>2 DEF settling
<1>3. ASSUME c.op \in {"delete", "force"}, c.here
      PROVE  Queued((calls \ {c}) \cup {[c EXCEPT !.op = "force", !.at = "sent"]}, server.completed)
  <2> DEFINE again == [c EXCEPT !.op = "force", !.at = "sent"]
  <2>1. /\ again \in Requests /\ again.op = "force" /\ again.at = "sent"
        /\ again.id = c.id /\ again.here = c.here /\ again.mark = c.mark
    BY <1>1 DEF Requests, Ops, Outcomes
  <2> HIDE DEF again
  <2>2. /\ c.mark
        /\ \A d \in calls \ {c} : d.op \in {"delete", "force"} => ~d.mark
    BY <1>3 DEF IInv, Queued, OwnScreen
  <2>3. Queued((calls \ {c}) \cup {again}, server.completed)
    BY <1>3, <2>1, <2>2 DEF IInv, Queued
  <2> QED BY <2>3 DEF again
<1> QED BY <1>2, <1>3

LEMMA AnswersKeep == ASSUME IInv, NEW c \in calls, AnswerLands(c) PROVE IInv'
<1> SUFFICES Marks' /\ View' /\ Queued(calls', server.completed)
  BY CountDownIs DEF AnswerLands, IInv, World
<1>1. Queued(calls \ {c}, server.completed)
  BY QueuedLess DEF IInv
<1>2. /\ integrations \in Query(0..MaxProviders) /\ Asked(integrations) \in Query(0..MaxProviders)
      /\ auth \in Query(AuthAnswers) /\ Asked(auth) \in Query(AuthAnswers)
      /\ store \in [active : BOOLEAN, step : Steps] /\ EmptyStore \in [active : BOOLEAN, step : Steps]
  BY AskedIsQuery DEF IInv, View, Marks, EmptyStore, Steps
<1>3. CASE PasswordLands(c)
  <2>1. c.op = "password" /\ auth' \in Query(AuthAnswers)
    BY <1>3, RecheckIs DEF PasswordLands, Answered
  <2>2. CASE TurnsTo(c, "providers", calls \ {c})
    BY <1>1, <2>1, <2>2, TurnsKeep DEF Steps
  <2>3. CASE UNCHANGED store /\ Render(setup, integrations, calls \ {c})
    BY <1>1, <1>2, <2>1, <2>3, SameScreen DEF Marks
  <2> QED BY <1>3, <2>2, <2>3 DEF PasswordLands
<1>4. CASE CreateLands(c)
  <2>1. Marks' /\ c.op = "create"
    BY <1>2, <1>4, RecheckIs DEF CreateLands, Answered, Marks
  <2>2. CASE Render(setup, Asked(integrations), (calls \ {c}) \cup {[c EXCEPT !.at = "settling"]})
    <3>1. Queued((calls \ {c}) \cup {[c EXCEPT !.at = "settling"]}, server.completed)
      BY <2>1, QueuedAgain
    <3> QED BY <1>2, <2>1, <2>2, <3>1, SameScreen
  <2>3. CASE Render(setup, integrations, calls \ {c})
    BY <1>1, <1>2, <2>1, <2>3, SameScreen
  <2> QED BY <1>4, <2>2, <2>3 DEF CreateLands
<1>5. CASE CreateSettles(c)
  <2>1. c.op = "create" /\ auth' \in Query(AuthAnswers)
    BY <1>2, <1>5 DEF CreateSettles, IInv, Queued
  <2> QED BY <1>1, <1>5, <2>1, TurnsKeep DEF CreateSettles, Steps
<1>6. CASE DeleteLands(c)
  <2>1. Marks' /\ c.op \in {"delete", "force"}
    BY <1>2, <1>6, RecheckIs DEF DeleteLands, Marks
  <2>2. PICK list \in {integrations, Asked(integrations)} :
              \/ Render(setup, list, calls \ {c})
              \/ c.here /\ Render(setup, list, (calls \ {c}) \cup {[c EXCEPT !.op = "force", !.at = "sent"]})
    BY <1>6 DEF DeleteLands
  <2>3. c.here => Queued((calls \ {c}) \cup {[c EXCEPT !.op = "force", !.at = "sent"]}, server.completed)
    BY <2>1, QueuedAgain
  <2> QED BY <1>1, <1>2, <2>1, <2>2, <2>3, SameScreen
<1>7. CASE ImportLands(c)
  <2>1. c.op # "login" /\ auth' \in Query(AuthAnswers)
    BY <1>7, RecheckIs DEF ImportLands, Answered
  <2> QED BY <1>1, <1>7, <2>1, TurnsKeep DEF ImportLands, Steps
<1>8. CASE RestoreLands(c)
  <2> DEFINE next == IF c.at = "ok" /\ c.here /\ At("restore") THEN [setup EXCEPT !.summary = TRUE] ELSE setup
  <2>1. Marks'
    BY <1>2, <1>8, RecheckIs DEF RestoreLands, Marks
  <2>2. Sound(next) /\ next.mounted = setup.mounted
    <3>1. CASE next = setup
      BY <3>1 DEF IInv, View
    <3>2. CASE next # setup
      <4>1. setup.mounted /\ next = [setup EXCEPT !.summary = TRUE]
        BY <3>2 DEF At
      <4>2. setup \in WizardState /\ ScanIsKnown(setup) /\ RoomToScan(setup)
        BY <4>1, OnScreen
      <4> QED BY <4>1, <4>2 DEF WizardState, Sound, ScanIsKnown, RoomToScan
    <3> QED BY <3>1, <3>2
  <2>3. Render(next, integrations, calls \ {c})
    BY <1>8 DEF RestoreLands
  <2> HIDE DEF next
  <2> QED BY <1>1, <1>2, <2>1, <2>2, <2>3, RenderKeeps DEF IInv
<1>9. CASE FinishLands(c)
  <2>1. CASE auth' = Asked(auth) /\ store' = EmptyStore /\ Render(Finished, Asked(integrations), calls \ {c})
    <3>1. Marks'
      BY <1>2, <2>1 DEF Marks
    <3>2. Sound(Finished) /\ Finished.mounted = setup.mounted
      <4>1. CASE ~setup.mounted
        BY <4>1 DEF Finished, IInv, View
      <4>2. CASE setup.mounted
        <5>1. setup \in WizardState /\ ScanIsKnown(setup) /\ RoomToScan(setup)
          BY <4>2, OnScreen
        <5> QED BY <4>2, <5>1 DEF Finished, WizardState, Sound, ScanIsKnown, RoomToScan
      <4> QED BY <4>1, <4>2
    <3> QED BY <1>1, <1>2, <2>1, <3>1, <3>2, RenderKeeps DEF IInv
  <2>2. CASE UNCHANGED <<auth, store>> /\ Render(setup, integrations, calls \ {c})
    <3>1. Marks'
      BY <1>2, <2>2 DEF Marks
    <3> QED BY <1>1, <1>2, <2>2, <3>1, SameScreen
  <2> QED BY <1>9, <2>1, <2>2 DEF FinishLands
<1> QED BY <1>3, <1>4, <1>5, <1>6, <1>7, <1>8, <1>9 DEF AnswerLands

(***************************************************************************)
(* The login, the import screen and the list of integrations.              *)
(***************************************************************************)
LEMMA LoginKeeps ==
    ASSUME IInv, SubmitLogin \/ CooldownEnds \/ \E c \in calls : LoginLands(c)
    PROVE  IInv'
<1>1. CASE SubmitLogin
  <2>1. Queued(calls', server.completed)
    BY <1>1, RequestKeeps DEF SubmitLogin, Ops
  <2>2. \A c \in calls' : c.here /\ c.op # "login" => setup.mounted
    BY <1>1 DEF SubmitLogin, Request, IInv, View
  <2>3. View'
    BY <1>1, <2>2, StillSeen DEF SubmitLogin, IInv
  <2> QED BY <1>1, <2>1, <2>3 DEF SubmitLogin, IInv, World, Marks
<1>2. CASE CooldownEnds
  <2>1. View'
    BY <1>2, StillSeen DEF CooldownEnds, IInv, View
  <2> QED BY <1>2, <2>1 DEF CooldownEnds, IInv, World, Marks
<1>3. ASSUME NEW c \in calls, LoginLands(c) PROVE IInv'
  <2>1. Marks'
    BY <1>3, AskedIsQuery DEF LoginLands, IInv, Marks
  <2>2. World' /\ UNCHANGED server
    BY <1>3, CountDownIs DEF LoginLands, IInv, World
  <2>3. View' /\ Queued(calls', server.completed)
    BY <1>3, <2>1, SameScreen, QueuedLess DEF LoginLands, IInv, View
  <2> QED BY <2>1, <2>2, <2>3 DEF IInv
<1> QED BY <1>1, <1>2, <1>3

LEMMA ImportsKeep == ASSUME IInv, ImportAndFinish \/ OpenDashboard PROVE IInv'
<1>1. Marks' /\ View' /\ Queued(calls', server.completed)
  <2>1. CASE ImportAndFinish
    <3>1. setup.mounted /\ setup \in WizardState /\ ScanIsKnown(setup)
      BY <2>1, OnScreen DEF ImportAndFinish, At
    <3>2. CASE Enter(setup, "done", calls)
      BY <3>1, <3>2, EnterKeeps DEF Steps, IInv
    <3>3. CASE Send("import")
      BY <3>1, <3>3, SendKeeps DEF Ops
    <3> QED BY <2>1, <3>2, <3>3 DEF ImportAndFinish
  <2>2. CASE OpenDashboard
    <3>1. Marks' /\ Asked(integrations) \in Query(0..MaxProviders)
      BY <2>2, AskedIsQuery DEF OpenDashboard, IInv, Marks, View
    <3> QED BY <2>2, <3>1, SameScreen DEF OpenDashboard, IInv
  <2> QED BY <2>1, <2>2
<1>2. World' /\ UNCHANGED server
  BY CountDownIs DEF ImportAndFinish, OpenDashboard, IInv, World
<1> QED BY <1>1, <1>2 DEF IInv

\* A step of the import screen that leaves the gate alone.
LEMMA ImportScreenKeeps ==
    ASSUME IInv, setup.mounted, UNCHANGED <<server, cookie, store, calls, cooldown, upsets>>,
           auth' \in {auth, Asked(auth)}, integrations' \in Query(0..MaxProviders),
           setup' \in WizardState, ScanIsKnown(setup'), scans' \in 0..MaxScans,
           setup'.step = "import" /\ setup'.armed => scans' < MaxScans /\ ~ListRead(integrations')
    PROVE  IInv'
<1>1. Marks'
  BY AskedIsQuery DEF IInv, Marks
<1>2. Gate' = "setup" <=> Gate = "setup"
  BY AskedGate DEF IInv, Marks, Gate
<1>3. setup.mounted = TRUE /\ setup'.mounted = TRUE
  BY OnScreen DEF WizardState
<1>4. View'
  BY <1>2, <1>3 DEF IInv, View, Sound, RoomToScan, WizardIsGated, ScanDue, ListRead
<1> QED BY <1>1, <1>4 DEF IInv, World

LEMMA RetryKeeps ==
    ASSUME IInv, RetryImport \/ \E name \in Names : Tick(name)
    PROVE  IInv'
<1>1. setup.mounted /\ setup \in WizardState /\ ScanIsKnown(setup) /\ RoomToScan(setup)
  BY OnScreen DEF RetryImport, Tick, At
<1>2. /\ scans \in 0..MaxScans /\ integrations \in Query(0..MaxProviders)
      /\ setup.step = "import" /\ setup.armed => scans < MaxScans /\ ~ListRead(integrations)
  BY <1>1 DEF IInv, View, ScanDue, RoomToScan
<1>3. CASE RetryImport /\ integrations.error
  <2>1. /\ setup' = [setup EXCEPT !.armed = TRUE] /\ UNCHANGED <<scans, auth>> /\ scans < MaxScans
        /\ integrations' = Asked(integrations)
        /\ UNCHANGED <<server, cookie, store, calls, cooldown, upsets>>
    BY <1>3 DEF RetryImport
  <2>2. setup' \in WizardState /\ ScanIsKnown(setup')
    BY <1>1, <2>1 DEF WizardState, ScanIsKnown
  <2>3. Asked(integrations) \in Query(0..MaxProviders) /\ ~ListRead(Asked(integrations))
    BY <1>2, <1>3, AskedIsQuery DEF ListRead
  <2> QED BY <1>1, <1>2, <2>1, <2>2, <2>3, ImportScreenKeeps
<1>4. CASE RetryImport /\ ~integrations.error
  <2>1. /\ setup' = Loading(setup, integrations) /\ UNCHANGED <<integrations, auth>>
        /\ scans < MaxScans /\ scans' \in {scans, scans + 1}
        /\ UNCHANGED <<server, cookie, store, calls, cooldown, upsets>>
    BY <1>4 DEF RetryImport
  <2>2. /\ setup' \in WizardState /\ ScanIsKnown(setup')
        /\ setup'.armed = setup.armed /\ setup'.step = setup.step
    BY <1>1, <2>1, LoadingIs
  <2>3. scans' \in 0..MaxScans
    BY <1>2, <2>1, WizardAssumption
  <2>4. setup.step = "import" /\ setup.armed => scans' = scans
    BY <1>2, <1>4 DEF ListRead, Scans, RetryImport
  <2> QED BY <1>1, <1>2, <2>1, <2>2, <2>3, <2>4, ImportScreenKeeps
<1>5. ASSUME NEW name \in Names, Tick(name) PROVE IInv'
  <2>1. /\ setup' = [setup EXCEPT !.ticked = Toggled(setup.ticked, name)]
        /\ UNCHANGED <<server, cookie, store, auth, integrations, calls, scans, cooldown, upsets>>
    BY <1>5 DEF Tick
  <2>2. Toggled(setup.ticked, name) \in SUBSET Names
    BY <1>1 DEF Toggled, WizardState
  <2>3. /\ setup' \in WizardState /\ ScanIsKnown(setup')
        /\ setup'.armed = setup.armed /\ setup'.step = setup.step
    BY <1>1, <2>1, <2>2 DEF WizardState, ScanIsKnown
  <2> QED BY <1>1, <1>2, <2>1, <2>3, ImportScreenKeeps
<1> QED BY <1>3, <1>4, <1>5

LEMMA ScansKeep == ASSUME IInv, ScanLands PROVE IInv'
<1>1. /\ scans \in 0..MaxScans /\ scans > 0 /\ setup.mounted /\ scans' = scans - 1
      /\ integrations \in Query(0..MaxProviders)
      /\ UNCHANGED <<server, cookie, store, integrations, calls, cooldown, upsets>>
  <2>1. scans > 0 /\ scans' = scans - 1 /\ UNCHANGED <<server, cookie, store, integrations, calls, cooldown, upsets>>
    BY DEF ScanLands
  <2>2. scans \in 0..MaxScans /\ (~setup.mounted => scans = 0) /\ integrations \in Query(0..MaxProviders)
    BY DEF IInv, View
  <2> QED BY <2>1, <2>2
<1>2. setup \in WizardState /\ ScanIsKnown(setup) /\ RoomToScan(setup) /\ ~ScanDue(setup, integrations)
  BY <1>1, OnScreen DEF IInv, View
<1>3. scans' \in 0..MaxScans /\ scans' < MaxScans
  BY <1>1, WizardAssumption
<1>4. ~(setup.step = "import" /\ setup.armed) \/ ~ListRead(integrations)
  BY <1>1, <1>2 DEF ScanDue
<1>5. /\ setup' \in WizardState /\ ScanIsKnown(setup')
      /\ setup'.armed = setup.armed /\ setup'.step = setup.step
      /\ auth' \in {auth, Asked(auth)}
  <2>1. CASE /\ \E found \in SUBSET Names, unread \in BOOLEAN :
                    setup' = [setup EXCEPT !.scan = [rows |-> found, unread |-> unread], !.loading = FALSE]
             /\ UNCHANGED auth
    <3>1. PICK found \in SUBSET Names, unread \in BOOLEAN :
             setup' = [setup EXCEPT !.scan = [rows |-> found, unread |-> unread], !.loading = FALSE]
      BY <2>1
    <3> DEFINE result == [rows |-> found, unread |-> unread]
    <3>2. result \in ScanResult /\ result # None
      BY WizardAssumption DEF ScanResult
    <3> HIDE DEF result
    <3>3. setup' = [setup EXCEPT !.scan = result, !.loading = FALSE]
      BY <3>1 DEF result
    <3> QED BY <1>2, <2>1, <3>2, <3>3 DEF WizardState, ScanIsKnown
  <2>2. CASE /\ setup' = [setup EXCEPT !.scan = None, !.failed = TRUE, !.loading = FALSE]
             /\ Recheck(~Admitted)
    BY <1>2, <2>2 DEF WizardState, ScanIsKnown, Recheck
  <2> QED BY <2>1, <2>2 DEF ScanLands
<1> QED BY <1>1, <1>3, <1>4, <1>5, ImportScreenKeeps

LEMMA ListKeeps ==
    ASSUME IInv, NEW list \in Query(0..MaxProviders), NEW unauthorized, upsets' \in 0..MaxUpsets,
           ListAnswers(list, unauthorized)
    PROVE  IInv'
<1>1. World' /\ UNCHANGED server
  BY CountDownIs DEF ListAnswers, IInv, World
<1>2. Marks'
  BY RecheckIs DEF ListAnswers, IInv, Marks
<1>3. View' /\ Queued(calls', server.completed)
  BY <1>2, SameScreen DEF ListAnswers, IInv
<1> QED BY <1>1, <1>2, <1>3 DEF IInv

LEMMA ListsKeep == ASSUME IInv, IntegrationsLand \/ IntegrationsFail \/ BackOnline PROVE IInv'
<1>1. /\ integrations \in Query(0..MaxProviders) /\ upsets \in 0..MaxUpsets
      /\ auth \in Query(AuthAnswers) /\ server.providers \in 0..MaxProviders
  BY DEF IInv, View, World, Marks
<1>2. /\ Asked(integrations) \in Query(0..MaxProviders) /\ Failed(integrations) \in Query(0..MaxProviders)
      /\ Asked(auth) \in Query(AuthAnswers) /\ Landed(server.providers) \in Query(0..MaxProviders)
  BY <1>1, AskedIsQuery DEF Landed, Query
<1>3. CASE IntegrationsLand
  BY <1>1, <1>2, <1>3, ListKeeps DEF IntegrationsLand
<1>4. CASE IntegrationsFail
  BY <1>2, <1>4, Upsets, ListKeeps DEF IntegrationsFail
<1>5. CASE BackOnline
  BY <1>2, <1>5, Upsets, ListKeeps, CheckKeeps DEF BackOnline
<1> QED BY <1>3, <1>4, <1>5

(***************************************************************************)
(* The invariant holds at first, and every step keeps it.                  *)
(***************************************************************************)
LEMMA InvAtFirst == Init => IInv
<1> SUFFICES ASSUME Init PROVE IInv
  OBVIOUS
<1>1. World
  <2>1. 0 \in 0..MaxProviders /\ 0 \in 0..MaxUpsets
    BY WizardAssumption
  <2>2. server \in [password : BOOLEAN, completed : BOOLEAN, providers : {0}]
    BY DEF Init
  <2>3. server \in [password : BOOLEAN, completed : BOOLEAN, providers : 0..MaxProviders]
    BY <2>1, <2>2
  <2> QED BY <2>1, <2>3 DEF Init, World
<1>2. Unasked \in Query(AuthAnswers) /\ Unasked \in Query(0..MaxProviders)
  BY DEF Unasked, Query
<1>3. Marks
  BY <1>2, AskedIsQuery DEF Init, Marks, EmptyStore, Steps
<1>4. Gate = "loader"
  BY <1>2, AskedIsQuery DEF Init, Gate, GateOf, Pending, Unasked
<1>5. View
  BY <1>2, <1>4, GoneIsNotMounted, WizardAssumption DEF Init, View, Sound, WizardIsGated, ScanDue
<1>6. Queued(calls, server.completed)
  BY DEF Init, Queued
<1> QED BY <1>1, <1>3, <1>5, <1>6 DEF IInv

LEMMA InvStays == IInv /\ [Next]_vars => IInv'
<1> SUFFICES ASSUME IInv, [Next]_vars PROVE IInv'
  OBVIOUS
<1>1. CASE AuthLands \/ AuthFails \/ BootRetry \/ AppCall \/ Reload
  BY <1>1, ChecksKeep
<1>2. CASE SubmitLogin \/ CooldownEnds \/ \E c \in calls : LoginLands(c)
  BY <1>2, LoginKeeps
<1>3. CASE Elsewhere \/ \E c \in calls : Serve(c)
  BY <1>3, ServeKeeps, ElsewhereKeeps
<1>4. CASE IntegrationsLand \/ IntegrationsFail \/ BackOnline
  BY <1>4, ListsKeep
<1>5. CASE Screen \/ ImportAndFinish \/ OpenDashboard
  BY <1>5, ScreenKeeps, ImportsKeep
<1>6. CASE RetryImport \/ \E name \in Names : Tick(name)
  BY <1>6, RetryKeeps
<1>7. CASE ScanLands \/ \E c \in calls : AnswerLands(c)
  BY <1>7, ScansKeep, AnswersKeep
<1>8. CASE UNCHANGED vars
  <2>1. View'
    BY <1>8, StillSeen DEF vars, IInv, View
  <2> QED BY <1>8, <2>1 DEF vars, IInv, World, Marks
<1> QED BY <1>1, <1>2, <1>3, <1>4, <1>5, <1>6, <1>7, <1>8 DEF Next, Wizardry, Landing

LEMMA InvHolds == Spec => []IInv
BY InvAtFirst, InvStays, PTL DEF Spec

\* The variables of the wizard keep their types, and no request is doubled as long as the
\* component that sent the first stays: a button that is waiting for its answer sends nothing
\* more (Setup.tsx, PasswordStep.tsx, Login.tsx).
THEOREM WizardTypeCorrect == Spec => []TypeOK
BY InvHolds, ViewImplies, PTL

\* The wizard is on the screen exactly while the gate says so, and the green tick of the
\* import screen is earned (App.tsx, AuthGate; Setup.tsx:245).
THEOREM ScreensAreTrue == Spec => []ScreenIsTrue
BY InvHolds, ViewImplies, PTL

(***************************************************************************)
(* The mark of the wizard is taken off by an end of the setup that the     *)
(* server has confirmed, and by nothing else.                              *)
(***************************************************************************)
LEMMA MarkIsKept ==
    ASSUME IInv, [Next]_vars, store.active, ~store'.active
    PROVE  server.completed
<1>1. store \in [active : BOOLEAN, step : Steps]
  BY DEF IInv, Marks
<1>2. store' # store
  OBVIOUS
<1>3. \A screen : [store EXCEPT !.step = screen].active = store.active
  BY <1>1
<1>4. CASE Screen
  <2>1. ASSUME NEW state, NEW screen, NEW left, Enter(state, screen, left) PROVE FALSE
    BY <1>3, <2>1 DEF Enter
  <2>2. ASSUME NEW op, Send(op) PROVE FALSE
    BY <1>2, <2>2 DEF Send
  <2>3. [store EXCEPT !.active = TRUE, !.step = "password"].active
    BY <1>1
  <2> QED BY <1>2, <1>4, <2>1, <2>2, <2>3
          DEF Screen, WelcomeStep, RestoreStep, PasswordStep, ProvidersStep, ProviderFormStep,
              NotificationsStep, DockerStep, ImportBack, DoneStep, Go
<1>5. CASE ImportAndFinish
  BY <1>2, <1>3, <1>5 DEF ImportAndFinish, Enter, Send
<1>6. ASSUME NEW c \in calls, AnswerLands(c) PROVE server.completed
  <2>1. ASSUME NEW screen, NEW left, TurnsTo(c, screen, left) PROVE FALSE
    BY <1>2, <1>3, <2>1 DEF TurnsTo
  <2>2. CASE PasswordLands(c) \/ CreateLands(c) \/ CreateSettles(c) \/ DeleteLands(c) \/ ImportLands(c)
    BY <1>2, <2>1, <2>2 DEF PasswordLands, CreateLands, CreateSettles, DeleteLands, ImportLands
  <2>3. CASE RestoreLands(c) \/ FinishLands(c)
    <3>1. c.op \in {"complete", "restore"} /\ c.at = "ok"
      BY <1>2, <2>3 DEF RestoreLands, FinishLands, Answered
    <3> QED BY <3>1 DEF IInv, Queued
  <2> QED BY <1>6, <2>2, <2>3 DEF AnswerLands
<1>7. CASE \/ AuthLands \/ AuthFails \/ BootRetry \/ AppCall \/ Reload \/ SubmitLogin \/ CooldownEnds
           \/ (\E c \in calls : Serve(c) \/ LoginLands(c)) \/ Elsewhere \/ IntegrationsLand \/ IntegrationsFail
           \/ BackOnline \/ RetryImport \/ (\E name \in Names : Tick(name)) \/ OpenDashboard \/ ScanLands
           \/ UNCHANGED vars
  BY <1>2, <1>7 DEF AuthLands, AuthFails, BootRetry, AppCall, Reload, SubmitLogin, CooldownEnds, Serve,
        LoginLands, Elsewhere, IntegrationsLand, IntegrationsFail, BackOnline, ListAnswers, Check,
        RetryImport, Tick, OpenDashboard, ScanLands, vars
<1> QED BY <1>4, <1>5, <1>6, <1>7 DEF Next, Wizardry, Landing

\* A setup under way is neither cut short nor forgotten before the server has recorded its
\* end: its own password and its first integration change what the server answers half way
\* (App.tsx:99, Setup.tsx:404).
THEOREM SetupsAreKept == Spec => SetupIsKept
<1>1. IInv /\ [Next]_vars /\ Gate = "setup" /\ store.active /\ Gate' = "app"
         => ~store'.active /\ server.completed
  <2> SUFFICES ASSUME IInv, [Next]_vars, Gate = "setup", store.active, Gate' = "app"
               PROVE  ~store'.active /\ server.completed
    OBVIOUS
  <2>1. ~store'.active
    BY DEF Gate, GateOf
  <2> QED BY <2>1, MarkIsKept
<1>2. IInv /\ [Next]_vars /\ store # EmptyStore /\ store' = EmptyStore /\ store.active => server.completed
  <2>1. ~EmptyStore.active
    BY DEF EmptyStore
  <2> QED BY <2>1, MarkIsKept
<1>3. IInv /\ [Next]_vars => [Gate = "setup" /\ store.active /\ Gate' = "app" => ~store'.active /\ server.completed]_vars
  BY <1>1
<1>4. IInv /\ [Next]_vars => [store # EmptyStore /\ store' = EmptyStore /\ store.active => server.completed]_vars
  BY <1>2
<1> QED BY <1>3, <1>4, InvHolds, PTL DEF Spec, SetupIsKept, WizardIsFinished, NothingClearedEarly
=============================================================================
