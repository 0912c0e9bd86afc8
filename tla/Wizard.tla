------------------------------- MODULE Wizard -------------------------------
(***************************************************************************)
(* The boot gate of the panel and its first-run wizard.  One tab asks the  *)
(* server who the caller is (`GET /auth/me`), and from the answer it has   *)
(* kept, and from the mark the wizard leaves in sessionStorage, the gate   *)
(* shows the loader, the boot error, the login, the wizard or the panel.   *)
(*                                                                         *)
(* A request is in `calls` from the click to the moment its answer reaches *)
(* the code that waits for it; the server serves it in between.  The scans *)
(* of the import screen may overlap, with each other and with `calls`.     *)
(* What the wizard keeps in React state is the record `setup`; it is lost  *)
(* when the gate takes the wizard off the screen and when the tab is       *)
(* reloaded, and built again from sessionStorage (`store`) afterwards.     *)
(***************************************************************************)
EXTENDS Naturals, FiniteSets, Queries

CONSTANTS Names,         \* the names a scan can find, but for those already tracked
          Importable,    \* those of them the import accepts
          MaxProviders,  \* bound: integrations the server can hold
          MaxCalls,      \* bound: requests under way
          MaxScans,      \* bound: scans under way
          MaxUpsets      \* bound: reloads, lost answers, failed reads, changes from elsewhere

ASSUME WizardAssumption == /\ Importable \subseteq Names /\ MaxProviders \in Nat \ {0}
                           /\ MaxCalls \in Nat /\ MaxScans \in Nat \ {0} /\ MaxUpsets \in Nat
                           /\ None \notin BOOLEAN /\ None \notin Nat
                           /\ None \notin [rows : SUBSET Names, unread : BOOLEAN]

VARIABLES server,        \* what the server holds
          cookie,        \* whether the session of this browser is signed in
          store,         \* sessionStorage: the mark of the wizard and its step
          auth,          \* the query ['auth-status']
          integrations,  \* the query ['providers']
          setup,         \* React state of the wizard, or Gone
          calls,         \* the requests under way
          scans,         \* how many scans are under way
          cooldown,      \* whether the login counts down after a 429
          upsets         \* counts what MaxUpsets bounds

vars == <<server, cookie, store, auth, integrations, setup, calls, scans, cooldown, upsets>>

Steps == {"welcome", "restore", "password", "providers", "provider-form",
          "notifications", "docker", "import", "done"}

(***************************************************************************)
(* The server: what its routes answer, and to whom.                        *)
(***************************************************************************)
SetupRequired == ~server.completed /\ server.providers = 0
Authenticated == ~server.password \/ cookie
SetupIncomplete == ~server.password /\ SetupRequired
Admitted == SetupIncomplete \/ Authenticated

AuthMe == [authenticated |-> Authenticated, auth_required |-> server.password,
           setup_required |-> SetupRequired]

AuthAnswers == [authenticated : BOOLEAN, auth_required : BOOLEAN, setup_required : BOOLEAN]

(***************************************************************************)
(* The gate.  No answer is not "no password set": a failed check shows the *)
(* boot error, over old data too.                                          *)
(***************************************************************************)
\* As a bug: the gate follows the server alone.
GateByServer(query, kept) ==
    IF Pending(query) THEN "loader"
    ELSE IF query.error THEN "boot error"
    ELSE IF query.data.auth_required /\ ~query.data.authenticated THEN "login"
    ELSE IF query.data.setup_required THEN "setup"
    ELSE "app"

GateOf(query, kept) ==
    IF Pending(query) THEN "loader"
    ELSE IF query.error THEN "boot error"
    ELSE IF query.data.auth_required /\ ~query.data.authenticated THEN "login"
    ELSE IF query.data.setup_required \/ kept.active THEN "setup"
    ELSE "app"
Gate == GateOf(auth, store)

\* As a bug: a session that is empty has no step.
StoreWithoutStep == [active |-> FALSE, step |-> None]

EmptyStore == [active |-> FALSE, step |-> "welcome"]
Gone == [mounted |-> FALSE]

\* The wizard as it mounts: what sessionStorage holds, and nothing else.
Mounted(kept) ==
    [mounted |-> TRUE, step |-> kept.step, scan |-> None,
     ticked |-> {}, loading |-> TRUE, failed |-> FALSE, armed |-> TRUE,
     skipped |-> FALSE, summary |-> FALSE, finished |-> FALSE]

\* As a bug: a wizard that is mounted stays.
KeptForGood(next) ==
    IF next.mounted THEN next
    ELSE IF GateOf(auth', store') = "setup" THEN Mounted(store') ELSE Gone

\* What becomes of the React state `next` in a step that may move the gate.
Kept(next) ==
    IF GateOf(auth', store') # "setup" THEN Gone
    ELSE IF next.mounted THEN next ELSE Mounted(store')

(***************************************************************************)
(* A commit of the React tree: the gate shows or drops the wizard, a wizard *)
(* that mounts reads the integrations (their data is always stale), and    *)
(* the effect of the import screen scans once for each visit, as soon as   *)
(* the integrations are read.                                              *)
(***************************************************************************)
ListRead(list) == list.data # None /\ ~list.error
ScanDue(state, list) == state.mounted /\ state.step = "import" /\ state.armed /\ ListRead(list)

\* loadImportableServices: a scan, unless there is no integration to scan.
Scans(list) == list.data \notin {None, 0}
Loading(state, list) ==
    IF Scans(list)
    THEN [state EXCEPT !.failed = FALSE, !.ticked = {}, !.skipped = FALSE, !.loading = TRUE]
    ELSE [state EXCEPT !.failed = FALSE, !.ticked = {}, !.skipped = TRUE, !.loading = FALSE, !.scan = None]

ScanEffect(state, list) ==
    IF ScanDue(state, list) THEN Loading([state EXCEPT !.armed = FALSE], list) ELSE state

\* A request outlives the component that sent it: its answer then reaches the
\* shared queries only, and a scan nobody waits for reaches nothing.
StillHeard(c) == c.here /\ IF c.op = "login" THEN Gate' = "login" ELSE setup'.mounted

\* The mark that holds a second click back is state of a component: of the login, of the
\* wizard, or of the one screen (`settingPassword`, `restoring`).  It goes where that is
\* unmounted, and the request goes on.
OwnScreen == {"password", "restore"}
StillMarked(c) == c.mark /\ StillHeard(c) /\ (c.op \in OwnScreen => setup'.step = c.op)

Render(next, list, left) ==
    LET kept == Kept(next)
        read == IF ~setup.mounted /\ kept.mounted THEN Asked(list) ELSE list
    IN  /\ setup' = ScanEffect(kept, read)
        /\ integrations' = read
        /\ calls' = {[c EXCEPT !.here = StillHeard(c), !.mark = StillMarked(c)] : c \in left}
        /\ scans' = IF ~kept.mounted THEN 0
                    ELSE IF ScanDue(kept, read) /\ Scans(read) THEN scans + 1 ELSE scans

\* The count-down belongs to the login that is on the screen.
CountDown(goesOn) == cooldown' = (goesOn /\ Gate' = "login")

\* A request of a kind is held back while one is marked; MaxCalls bounds them all.
Busy(op) == \E c \in calls : c.op = op /\ c.mark
FreeIds == (1..MaxCalls) \ {c.id : c \in calls}
Request(op) ==
    [id |-> CHOOSE id \in FreeIds : TRUE, op |-> op, at |-> "sent", here |-> TRUE, mark |-> TRUE]

Free(op) == ~Busy(op) /\ FreeIds # {}

Init ==
    /\ server \in [password : BOOLEAN, completed : BOOLEAN, providers : {0}]
    /\ cookie = FALSE
    /\ store = EmptyStore
    /\ auth = Asked(Unasked)
    /\ integrations = Unasked
    /\ setup = Gone
    /\ calls = {}
    /\ scans = 0
    /\ cooldown = FALSE
    /\ upsets = 0

Upset == upsets < MaxUpsets /\ upsets' = upsets + 1

(***************************************************************************)
(* The check of the caller.  A 401 of any route but those under /auth/     *)
(* makes the gate ask again.                                               *)
(***************************************************************************)
Check(query) ==
    /\ auth' = query
    /\ UNCHANGED <<server, cookie, store>>
    /\ Render(setup, integrations, calls)
    /\ CountDown(cooldown)

AuthLands == auth.ask = "asked" /\ Check(Landed(AuthMe)) /\ UNCHANGED upsets
AuthFails == auth.ask # "idle" /\ Check(Failed(auth)) /\ Upset

BootRetry == Gate = "boot error" /\ auth.ask = "idle" /\ Check(Asked(auth)) /\ UNCHANGED upsets

\* As a bug: nobody listens to the 401 of a request.
DeafAppCall == FALSE /\ UNCHANGED vars

\* Any request of the panel once the server no longer admits this browser.
AppCall == Gate = "app" /\ ~Admitted /\ auth.ask = "idle" /\ Check(Asked(auth)) /\ UNCHANGED upsets

\* The page is loaded again: React state, queries and callbacks are gone and
\* sessionStorage stays.  What was sent has been served, or never will be.
Reload ==
    /\ Upset
    /\ auth' = Asked(Unasked)
    /\ integrations' = Unasked
    /\ setup' = Gone
    /\ calls' = {}
    /\ scans' = 0
    /\ cooldown' = FALSE
    /\ UNCHANGED <<server, cookie, store>>

(***************************************************************************)
(* The login.                                                              *)
(***************************************************************************)
SubmitLogin ==
    /\ Gate = "login" /\ ~cooldown /\ Free("login")
    /\ calls' = calls \cup {Request("login")}
    /\ UNCHANGED <<server, cookie, store, auth, integrations, setup, scans, cooldown, upsets>>

\* An answer is there for the handler of `op`.
Answered(c, op) == c.op = op /\ c.at \notin {"sent", "settling"}

LoginLands(c) ==
    /\ Answered(c, "login")
    /\ auth' = IF c.at = "ok" THEN Asked(auth) ELSE auth
    /\ UNCHANGED <<server, cookie, store, upsets>>
    /\ Render(setup, integrations, calls \ {c})
    /\ CountDown(cooldown \/ (c.here /\ c.at = "limited"))

CooldownEnds ==
    /\ cooldown
    /\ cooldown' = FALSE
    /\ UNCHANGED <<server, cookie, store, auth, integrations, setup, calls, scans, upsets>>

(***************************************************************************)
(* The server serves a request.  An answer that is lost reads as a refusal *)
(* of what the server has done.                                            *)
(***************************************************************************)
AuthRoutes == {"login", "password", "complete"}
Answer(c, at) == calls' = (calls \ {c}) \cup {[c EXCEPT !.at = at]}
Reply(c) == (Answer(c, "ok") /\ UNCHANGED upsets) \/ (Answer(c, "refused") /\ Upset)

Refuse(c) ==
    /\ \/ Answer(c, "refused")
       \/ ~Admitted /\ c.op \notin AuthRoutes /\ Answer(c, "unauthorized")
       \/ c.op = "login" /\ Answer(c, "limited")
    /\ UNCHANGED <<server, cookie, upsets>>

\* The cookie comes with the answer.
ServeSetupPassword(c) ==
    /\ c.op = "password" /\ ~server.password
    /\ server' = [server EXCEPT !.password = TRUE, !.completed = TRUE]
    /\ \/ Answer(c, "ok") /\ cookie' = TRUE /\ UNCHANGED upsets
       \/ Answer(c, "refused") /\ UNCHANGED cookie /\ Upset

ServeLogin(c) ==
    /\ c.op = "login" /\ server.password
    /\ Answer(c, "ok") /\ cookie' = TRUE
    /\ UNCHANGED <<server, upsets>>

ServeComplete(c) ==
    /\ c.op = "complete" /\ Admitted
    /\ server' = [server EXCEPT !.completed = TRUE]
    /\ Reply(c) /\ UNCHANGED cookie

ServeCreate(c) ==
    /\ c.op = "create" /\ Admitted /\ server.providers < MaxProviders
    /\ server' = [server EXCEPT !.completed = TRUE, !.providers = @ + 1]
    /\ Reply(c) /\ UNCHANGED cookie

\* An integration with services attached goes only under `force`.
ServeDelete(c) ==
    /\ c.op \in {"delete", "force"} /\ Admitted /\ server.providers > 0
    /\ \/ server' = [server EXCEPT !.providers = @ - 1] /\ Reply(c)
       \/ c.op = "delete" /\ Answer(c, "conflict") /\ UNCHANGED <<server, upsets>>
    /\ UNCHANGED cookie

ServeImport(c) ==
    /\ c.op = "import" /\ Admitted
    /\ Reply(c) /\ UNCHANGED <<server, cookie>>

\* A restore empties every table, leaves the password, and ends the setup.
ServeRestore(c) ==
    /\ c.op = "restore" /\ Authenticated
    /\ \E n \in 0..MaxProviders : server' = [server EXCEPT !.completed = TRUE, !.providers = n]
    /\ Reply(c) /\ UNCHANGED cookie

Serve(c) ==
    /\ c.at = "sent"
    /\ \/ Refuse(c) \/ ServeSetupPassword(c) \/ ServeLogin(c) \/ ServeComplete(c) \/ ServeCreate(c)
       \/ ServeDelete(c) \/ ServeImport(c) \/ ServeRestore(c)
    /\ UNCHANGED <<store, auth, integrations, setup, scans, cooldown>>

\* Another client of the server, or the end of the session.
Elsewhere ==
    /\ Upset
    /\ \/ /\ Admitted /\ server.providers < MaxProviders
          /\ server' = [server EXCEPT !.completed = TRUE, !.providers = @ + 1]
          /\ UNCHANGED cookie
       \/ ~server.password /\ server' = [server EXCEPT !.password = TRUE, !.completed = TRUE] /\ UNCHANGED cookie
       \/ cookie /\ cookie' = FALSE /\ UNCHANGED server
    /\ UNCHANGED <<store, auth, integrations, setup, calls, scans, cooldown>>

(***************************************************************************)
(* The screens of the wizard.  Every change of screen is written to        *)
(* sessionStorage by the effect of useSessionState.                        *)
(***************************************************************************)
At(screen) == setup.mounted /\ setup.step = screen
Arrive(state, screen) ==
    [state EXCEPT !.step = screen, !.armed = @ \/ screen # "import", !.summary = FALSE]

\* The wizard turns to `screen`, its state being `state`; `left` are the requests left.
Enter(state, screen, left) ==
    /\ store' = [store EXCEPT !.step = screen]
    /\ UNCHANGED auth
    /\ Render(Arrive(state, screen), integrations, left)

\* A button that leads to another screen, and one that sends a request.
Go(screen) == Enter(setup, screen, calls)
Send(op) ==
    /\ Free(op)
    /\ calls' = calls \cup {Request(op)}
    /\ UNCHANGED <<store, auth, integrations, setup, scans>>

WelcomeStep ==
    /\ At("welcome")
    /\ \/ /\ store' = [store EXCEPT !.active = TRUE, !.step = "password"]
          /\ UNCHANGED auth
          /\ Render(Arrive(setup, "password"), integrations, calls)
       \/ auth.data.setup_required /\ Go("restore")

\* Leaving, and the choice of a file, wait for the restore that was sent from here.
RestoreStep ==
    /\ At("restore") /\ ~Busy("restore") /\ ~setup.summary
    /\ Go("welcome") \/ Send("restore")

\* The mode is a choice made on this screen: "open" leads on and waits for nothing,
\* "protect" sends the password.
PasswordStep ==
    /\ At("password")
    /\ (~Busy("password") /\ Go("welcome")) \/ Go("providers") \/ Send("password")

ListShown == ListRead(integrations) /\ integrations.data # 0

\* The way on waits for the first answer of the list, read or failed.
ProvidersStep ==
    /\ At("providers")
    /\ \/ Go("password") \/ Go("provider-form")
       \/ ~Pending(integrations) /\ Go("notifications")
       \/ ListShown /\ ~Busy("force") /\ Send("delete")
       \/ /\ integrations.error /\ integrations.ask = "idle"
          /\ UNCHANGED <<store, auth>>
          /\ Render(setup, Asked(integrations), calls)

ProviderFormStep == At("provider-form") /\ (Go("providers") \/ Send("create"))
NotificationsStep == At("notifications") /\ (Go("providers") \/ Go("docker"))

\* The import screen is loading from the click on.
DockerStep ==
    /\ At("docker")
    /\ \/ Go("notifications")
       \/ scans < MaxScans /\ Enter([setup EXCEPT !.loading = TRUE], "import", calls)

ImportBack == At("import") /\ ~Busy("import") /\ Go("docker")
DoneStep == At("done") /\ Send("complete")

Screen ==
    /\ \/ WelcomeStep \/ RestoreStep \/ PasswordStep \/ ProvidersStep \/ ProviderFormStep
       \/ NotificationsStep \/ DockerStep \/ ImportBack \/ DoneStep
    /\ CountDown(cooldown)
    /\ UNCHANGED <<server, cookie, upsets>>

(***************************************************************************)
(* The import screen.                                                      *)
(***************************************************************************)
NothingFound == setup.scan = None \/ setup.scan.rows = {}
Unread == setup.scan # None /\ setup.scan.unread

\* As a bug: a scan that failed reads as one that found nothing.
HastyImportView ==
    IF setup.loading \/ integrations.ask # "idle" THEN "loading"
    ELSE IF integrations.data \in {None, 0} THEN "no integration"
    ELSE IF NothingFound THEN IF Unread THEN "not all read" ELSE "nothing to import"
    ELSE "rows"

\* What the import screen shows, from the first reason to the last.
ImportView ==
    IF setup.failed \/ (integrations.error /\ integrations.ask = "idle") THEN "failed"
    ELSE IF setup.loading \/ integrations.ask # "idle" THEN "loading"
    ELSE IF integrations.data \in {None, 0} THEN "no integration"
    ELSE IF NothingFound THEN IF Unread THEN "not all read" ELSE "nothing to import"
    ELSE "rows"

CanRetry == ImportView \in {"failed", "not all read", "nothing to import"} \/ (ImportView = "rows" /\ Unread)

\* The one retry of the screen answers for two reads, the list and the scan.
RetryImport ==
    /\ At("import") /\ CanRetry /\ scans < MaxScans
    /\ IF integrations.error
       THEN /\ setup' = [setup EXCEPT !.armed = TRUE]
            /\ integrations' = Asked(integrations)
            /\ UNCHANGED scans
       ELSE /\ setup' = Loading(setup, integrations)
            /\ scans' = IF Scans(integrations) THEN scans + 1 ELSE scans
            /\ UNCHANGED integrations
    /\ UNCHANGED <<server, cookie, store, auth, calls, cooldown, upsets>>

Toggled(ticked, name) == IF name \in ticked THEN ticked \ {name} ELSE ticked \cup {name}

\* One name at a time; the boxes of a zone and of the whole list tick several.
Tick(name) ==
    /\ At("import") /\ ImportView = "rows" /\ name \in setup.scan.rows \cap Importable
    /\ setup' = [setup EXCEPT !.ticked = Toggled(@, name)]
    /\ UNCHANGED <<server, cookie, store, auth, integrations, calls, scans, cooldown, upsets>>

Chosen == IF setup.scan = None THEN {} ELSE setup.scan.rows \cap Importable \cap setup.ticked

\* The primary button of the import screen is there whatever the scan says.
ImportAndFinish ==
    /\ At("import") /\ ~Busy("import")
    /\ IF Chosen = {} THEN Enter(setup, "done", calls) ELSE Send("import")
    /\ CountDown(cooldown)
    /\ UNCHANGED <<server, cookie, upsets>>

(***************************************************************************)
(* Answers.  What follows an `await` runs whatever the screen has become   *)
(* meanwhile; once the wizard is gone only the shared queries change.      *)
(***************************************************************************)
Recheck(unauthorized) == auth' = IF unauthorized THEN Asked(auth) ELSE auth

\* The answer of `c` turns the wizard to `screen`, if that wizard is still there.
TurnsTo(c, screen, left) ==
    IF c.here
    THEN /\ store' = [store EXCEPT !.step = screen]
         /\ Render(Arrive(setup, screen), integrations, left)
    ELSE UNCHANGED store /\ Render(setup, integrations, left)

PasswordLands(c) ==
    /\ Answered(c, "password")
    /\ Recheck(c.at = "ok")
    /\ IF c.at = "ok" THEN TurnsTo(c, "providers", calls \ {c})
       ELSE UNCHANGED store /\ Render(setup, integrations, calls \ {c})

\* The list is read again before the wizard goes back to it.
CreateLands(c) ==
    /\ Answered(c, "create")
    /\ Recheck(c.at = "unauthorized")
    /\ UNCHANGED store
    /\ IF c.at = "ok"
       THEN Render(setup, Asked(integrations), (calls \ {c}) \cup {[c EXCEPT !.at = "settling"]})
       ELSE Render(setup, integrations, calls \ {c})

CreateSettles(c) ==
    /\ c.at = "settling" /\ integrations.ask = "idle"
    /\ UNCHANGED auth
    /\ TurnsTo(c, "providers", calls \ {c})

\* A conflict opens a second question, and a yes sends the deletion again.
DeleteLands(c) ==
    /\ c.op \in {"delete", "force"} /\ c.at # "sent"
    /\ Recheck(c.at = "unauthorized")
    /\ UNCHANGED store
    /\ LET list == IF c.at = "ok" THEN Asked(integrations) ELSE integrations
       IN  \/ Render(setup, list, calls \ {c})
           \/ c.at = "conflict" /\ c.here /\ Render(setup, list, (calls \ {c}) \cup {[c EXCEPT !.op = "force", !.at = "sent"]})

\* Imported, refused or failed: the wizard goes on to its last screen.
ImportLands(c) ==
    /\ Answered(c, "import")
    /\ Recheck(c.at = "unauthorized")
    /\ TurnsTo(c, "done", calls \ {c})

\* A restore that is done clears the wizard's session before its summary.
RestoreLands(c) ==
    /\ Answered(c, "restore")
    /\ Recheck(c.at = "unauthorized")
    /\ store' = IF c.at = "ok" THEN EmptyStore ELSE store
    /\ Render(IF c.at = "ok" /\ c.here /\ At("restore") THEN [setup EXCEPT !.summary = TRUE] ELSE setup,
              integrations, calls \ {c})

OpenDashboard ==
    /\ At("restore") /\ setup.summary
    /\ auth' = Asked(auth)
    /\ UNCHANGED <<server, cookie, store, upsets>>
    /\ Render(setup, Asked(integrations), calls)
    /\ CountDown(cooldown)

Finished == IF setup.mounted THEN [setup EXCEPT !.finished = TRUE] ELSE setup

\* As bugs: the session is cleared whatever the server said, and the gate is
\* not asked again.
FinishClearsAnyway(c) ==
    /\ Answered(c, "complete")
    /\ auth' = IF c.at = "ok" THEN Asked(auth) ELSE auth
    /\ store' = EmptyStore
    /\ Render(setup, integrations, calls \ {c})

FinishAsksNobody(c) ==
    /\ Answered(c, "complete")
    /\ UNCHANGED auth
    /\ store' = IF c.at = "ok" THEN EmptyStore ELSE store
    /\ Render(IF c.at = "ok" THEN Finished ELSE setup, integrations, calls \ {c})

\* finish: nothing is cleared until the server has confirmed.
FinishLands(c) ==
    /\ Answered(c, "complete")
    /\ IF c.at = "ok"
       THEN auth' = Asked(auth) /\ store' = EmptyStore /\ Render(Finished, Asked(integrations), calls \ {c})
       ELSE UNCHANGED <<auth, store>> /\ Render(setup, integrations, calls \ {c})

AnswerLands(c) ==
    /\ \/ PasswordLands(c) \/ CreateLands(c) \/ CreateSettles(c) \/ DeleteLands(c)
       \/ ImportLands(c) \/ RestoreLands(c) \/ FinishLands(c)
    /\ CountDown(cooldown)
    /\ UNCHANGED <<server, cookie, upsets>>

\* The answer of any scan under way, of this visit or of the one before: every integration
\* was read, some were not, or the scan failed.
ScanLands ==
    /\ scans > 0
    /\ scans' = scans - 1
    /\ \/ /\ Admitted
          /\ \E found \in SUBSET Names, unread \in BOOLEAN :
                setup' = [setup EXCEPT !.scan = [rows |-> found, unread |-> unread], !.loading = FALSE]
          /\ UNCHANGED auth
       \/ /\ setup' = [setup EXCEPT !.scan = None, !.failed = TRUE, !.loading = FALSE]
          /\ Recheck(~Admitted)
    /\ UNCHANGED <<server, cookie, store, integrations, calls, cooldown, upsets>>

(***************************************************************************)
(* The query ['providers'], read while the wizard is on the screen.        *)
(***************************************************************************)
ListAnswers(list, unauthorized) ==
    /\ Recheck(unauthorized)
    /\ UNCHANGED <<server, cookie, store>>
    /\ Render(setup, list, calls)
    /\ CountDown(cooldown)

IntegrationsLand ==
    /\ integrations.ask = "asked" /\ UNCHANGED upsets
    /\ \/ Admitted /\ ListAnswers(Landed(server.providers), FALSE)
       \/ ~Admitted /\ ListAnswers(Failed(integrations), TRUE)

IntegrationsFail == integrations.ask # "idle" /\ ListAnswers(Failed(integrations), FALSE) /\ Upset

\* A browser that is back on the network reads again what is old.
BackOnline ==
    /\ Upset
    /\ \/ setup.mounted /\ integrations.ask = "idle" /\ ListAnswers(Asked(integrations), FALSE)
       \/ auth.ask = "idle" /\ Check(Asked(auth))

Wizardry ==
    \/ Screen \/ RetryImport \/ ImportAndFinish \/ OpenDashboard
    \/ \E name \in Names : Tick(name)

Landing ==
    \/ AuthLands \/ IntegrationsLand \/ ScanLands
    \/ \E c \in calls : LoginLands(c) \/ AnswerLands(c)

Next ==
    \/ AuthFails \/ BootRetry \/ AppCall \/ Reload
    \/ SubmitLogin \/ CooldownEnds \/ (\E c \in calls : Serve(c)) \/ Elsewhere
    \/ IntegrationsFail \/ BackOnline
    \/ Wizardry \/ Landing

\* The network carries a check of the caller and its answer, and a panel on
\* the screen polls the server: neither waits on the operator.
Fairness == WF_vars(AuthLands) /\ WF_vars(AppCall)

Spec == Init /\ [][Next]_vars /\ Fairness

(***************************************************************************)
(* What the gate and the wizard promise.                                   *)
(***************************************************************************)
Ops == {"password", "create", "delete", "force", "restore", "complete", "import", "login"}
Outcomes == {"sent", "ok", "conflict", "refused", "unauthorized", "limited", "settling"}
ScanResult == [rows : SUBSET Names, unread : BOOLEAN]
WizardState == [mounted : {TRUE}, step : Steps,
                scan : ScanResult \cup {None}, ticked : SUBSET Names, loading : BOOLEAN, failed : BOOLEAN,
                armed : BOOLEAN, skipped : BOOLEAN, summary : BOOLEAN, finished : BOOLEAN]

\* Every variable keeps its shape, and no request of a kind is sent beside another of which
\* the screen still shows that it is under way.
TypeOK ==
    /\ server \in [password : BOOLEAN, completed : BOOLEAN, providers : 0..MaxProviders]
    /\ cookie \in BOOLEAN /\ cooldown \in BOOLEAN /\ upsets \in 0..MaxUpsets
    /\ store \in [active : BOOLEAN, step : Steps]
    /\ auth \in Query(AuthAnswers)
    /\ integrations \in Query(0..MaxProviders)
    /\ setup = Gone \/ setup \in WizardState
    /\ calls \in SUBSET [id : 1..MaxCalls, op : Ops, at : Outcomes, here : BOOLEAN, mark : BOOLEAN]
    /\ \A c, d \in calls : c.id = d.id \/ (c.op = d.op /\ c.mark /\ d.mark) => c = d
    /\ scans \in 0..MaxScans

\* The wizard is on the screen exactly while the gate says so, whatever has
\* landed in between (App.tsx, AuthGate).
WizardIsGated == setup.mounted <=> Gate = "setup"

\* A wizard under way is left for the panel only once the server has recorded
\* the end of the setup and the session of the wizard is cleared: its own
\* password and its first integration change the server's answer half way
\* (App.tsx:99, setupSession.ts:6).
WizardIsFinished ==
    [][Gate = "setup" /\ store.active /\ Gate' = "app" => ~store'.active /\ server.completed]_vars

\* What the wizard has in sessionStorage is thrown away only after the server
\* has confirmed: a failed `finish` loses nothing (Setup.tsx:404).
NothingClearedEarly ==
    [][store # EmptyStore /\ store' = EmptyStore /\ store.active => server.completed]_vars

\* The green tick "nothing to import" is read off a scan that answered for every
\* integration, or follows a list of integrations that was empty; never off a scan
\* that failed, nor off one under way (Setup.tsx:245, ImportStep.tsx:199).
AllClearIsEarned ==
    At("import") /\ ImportView = "nothing to import" =>
        setup.skipped \/ (setup.scan # None /\ setup.scan.rows = {} /\ ~setup.scan.unread)

\* A browser the server no longer admits ends up on the login, or on the boot
\* error: the panel is not left on the screen (client.ts:24).
ExpiredIsShown == (Gate = "app" /\ ~Admitted) ~> (Gate # "app" \/ Admitted)

\* Once `finish` has been confirmed the wizard leaves the screen without another click,
\* unless it is begun anew.
FinishLeaves == (setup.mounted /\ setup.finished) ~> (~setup.mounted \/ store.active)

\* What is on the screen is what the gate and the scans have said (App.tsx, AuthGate;
\* Setup.tsx:245).
ScreenIsTrue == WizardIsGated /\ AllClearIsEarned

\* A setup under way is neither cut short nor forgotten before the server has recorded its
\* end (App.tsx:99, Setup.tsx:404).
SetupIsKept == WizardIsFinished /\ NothingClearedEarly

\* The gate does not stay where it does not belong: on the panel without a session, on the
\* wizard after its end (client.ts:24, Setup.tsx:402).
GateSettles == ExpiredIsShown /\ FinishLeaves
=============================================================================
