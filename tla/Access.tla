------------------------------- MODULE Access -------------------------------
(***************************************************************************)
(* The gate of the panel: what it shows is read from the status that       *)
(* /auth/me answered and from the mark of a wizard under way, the sign-in  *)
(* page with its cooldown, the forms that set and change the password, and *)
(* a request of a page inside, whose 401 makes the gate ask again.  What   *)
(* the server answered to the gate is kept apart from its landing, because *)
(* a session may end between the two.                                      *)
(***************************************************************************)
EXTENDS Naturals, Queries

CONSTANTS MaxCooldown,   \* bound: seconds that the server asks to wait
          MaxTries       \* bound: requests that were sent, and sessions that ended

ASSUME AccessAssumption == MaxCooldown \in Nat /\ MaxTries \in Nat

VARIABLES guardAt,       \* at the server: a password is set, this browser's session holds, setup is required
          gateQ,         \* the query of /auth/me
          gateHeard,     \* what the server answered to the fetch under way
          wizardOn,      \* the mark of a wizard under way in this tab
          loginForm,     \* the sign-in page
          signing,       \* the sign-in under way
          passForm,      \* the form of the password card
          passSaving,    \* the request of that form
          leaving,       \* the sign-out under way
          pageCall,      \* a request of a page, outside /auth
          tries          \* counts what MaxTries bounds

gateVars == <<gateQ, gateHeard>>
formVars == <<loginForm, passForm>>
callVars == <<signing, passSaving, leaving, pageCall>>
accessVars == <<guardAt, gateVars, wizardOn, formVars, callVars, tries>>

Status(guard) == [auth_required |-> guard.password, authenticated |-> guard.session \/ ~guard.password,
                  setup_required |-> guard.setup]
BlankLogin == [password |-> FALSE, loading |-> FALSE, cooldown |-> 0, error |-> None]
BlankPass == [current |-> "blank", next |-> "blank", same |-> FALSE]

\* As a bug: the wizard is shown only as long as the server requires setup.
SetupByServer(status, marked) == status.setup_required

InSetup(status, marked) == status.setup_required \/ marked

\* What AuthGate shows for a query and a mark.
ScreenOf(query, marked) ==
    CASE Pending(query) -> "loading"
      [] ~Pending(query) /\ ~Usable(query) -> "boot"
      [] Usable(query) /\ query.data.auth_required /\ ~query.data.authenticated -> "login"
      [] Usable(query) /\ (query.data.auth_required => query.data.authenticated) ->
            IF InSetup(query.data, marked) THEN "setup" ELSE "app"

Screen == ScreenOf(gateQ, wizardOn)
Blocked == loginForm.loading \/ loginForm.cooldown > 0

AccessInit ==
    /\ guardAt \in [password : BOOLEAN, session : BOOLEAN, setup : BOOLEAN]
    /\ guardAt.session => guardAt.password
    /\ gateQ = Asked(Unasked) /\ gateHeard = None /\ wizardOn \in BOOLEAN
    /\ loginForm = BlankLogin /\ passForm = BlankPass
    /\ signing = None /\ passSaving = None /\ leaving = None /\ pageCall = None /\ tries = 0

Try == tries < MaxTries /\ tries' = tries + 1

\* As a bug: a fetch under way is not cancelled by an invalidation.
JoinUnderWay == IF gateQ.ask = "asked" THEN UNCHANGED gateVars ELSE gateQ' = Asked(gateQ) /\ gateHeard' = None

\* invalidateQueries({ queryKey: AUTH_STATUS_KEY })
AskGate == gateQ' = Asked(gateQ) /\ gateHeard' = None

\* As a bug: the login form is kept behind the page that replaces it.
LoginStays(screen) ==
    /\ UNCHANGED loginForm
    /\ passForm' = IF screen = "app" THEN passForm ELSE BlankPass

\* What is on the screen goes with it.
FormsFollow(screen) ==
    /\ loginForm' = IF screen = "login" THEN loginForm ELSE BlankLogin
    /\ passForm' = IF screen = "app" /\ gateQ'.data.auth_required = gateQ.data.auth_required THEN passForm
                                                                                         ELSE BlankPass

ServeGate ==
    /\ gateQ.ask = "asked" /\ gateHeard = None /\ gateHeard' = Status(guardAt)
    /\ UNCHANGED <<guardAt, gateQ, wizardOn, formVars, callVars, tries>>

LandGate ==
    /\ gateQ.ask = "asked" /\ gateHeard # None /\ gateHeard' = None
    /\ \/ gateQ' = Landed(gateHeard) /\ UNCHANGED tries
       \/ gateQ' = Failed(gateQ) /\ Try
    /\ IF gateQ.data = None THEN UNCHANGED formVars ELSE FormsFollow(ScreenOf(gateQ', wizardOn))
    /\ UNCHANGED <<guardAt, wizardOn, callVars>>

\* The button of BootError; the loader comes back when there is no status yet.
RetryGate ==
    /\ Screen = "boot" /\ gateQ.ask = "idle" /\ AskGate
    /\ UNCHANGED <<guardAt, wizardOn, formVars, callVars, tries>>

(***************************************************************************)
(* The sign-in page.                                                       *)
(***************************************************************************)
TypePassword ==
    /\ Screen = "login" /\ ~loginForm.loading
    /\ loginForm' \in {[loginForm EXCEPT !.password = ~@]} \cup
                      (IF loginForm.error = "rate_limited" THEN {} ELSE {[loginForm EXCEPT !.error = None]})
    /\ UNCHANGED <<guardAt, gateVars, wizardOn, passForm, callVars, tries>>

SignIn ==
    /\ Screen = "login" /\ ~Blocked /\ loginForm.password /\ signing = None /\ Try
    /\ loginForm' = [loginForm EXCEPT !.loading = TRUE, !.error = None] /\ signing' = "sent"
    /\ UNCHANGED <<guardAt, gateVars, wizardOn, passForm, passSaving, leaving, pageCall>>

ServeSignIn ==
    /\ signing = "sent" /\ signing' \in {"ok", "invalid", "rate_limited", "other"}
    /\ guardAt' = IF signing' = "ok" THEN [guardAt EXCEPT !.session = TRUE] ELSE guardAt
    /\ UNCHANGED <<gateVars, wizardOn, formVars, passSaving, leaving, pageCall, tries>>

\* The `finally` of handleSubmit.
StillLoading(answer) == FALSE

SignInLands ==
    /\ signing \notin {None, "sent"} /\ signing' = None
    /\ IF signing = "ok" THEN AskGate ELSE UNCHANGED gateVars
    /\ IF Screen # "login" THEN UNCHANGED loginForm
       ELSE \E wait \in 0..MaxCooldown :
              /\ signing # "rate_limited" => wait = loginForm.cooldown
              /\ loginForm' = [loginForm EXCEPT !.loading = StillLoading(signing), !.cooldown = wait,
                                                !.error = IF signing = "ok" THEN @ ELSE signing]
    /\ UNCHANGED <<guardAt, wizardOn, passForm, passSaving, leaving, pageCall, tries>>

\* As a bug: the last second is never counted down.
CountToOne(left) == IF left > 1 THEN left - 1 ELSE left

CountDown(left) == IF left > 1 THEN left - 1 ELSE 0

Second ==
    /\ loginForm.cooldown > 0 /\ loginForm' = [loginForm EXCEPT !.cooldown = CountDown(@)]
    /\ UNCHANGED <<guardAt, gateVars, wizardOn, passForm, callVars, tries>>

(***************************************************************************)
(* The wizard: it sets the mark, and the server stops requiring setup in   *)
(* the middle of it.                                                       *)
(***************************************************************************)
StartWizard ==
    /\ Screen = "setup" /\ wizardOn' = TRUE /\ UNCHANGED <<guardAt, gateVars, formVars, callVars, tries>>

WizardPassword ==
    /\ Screen = "setup" /\ wizardOn /\ ~guardAt.password /\ Try /\ AskGate
    /\ guardAt' = [password |-> TRUE, session |-> TRUE, setup |-> FALSE]
    /\ UNCHANGED <<wizardOn, formVars, callVars>>

WizardIntegration ==
    /\ Screen = "setup" /\ wizardOn /\ guardAt.setup /\ guardAt' = [guardAt EXCEPT !.setup = FALSE]
    /\ UNCHANGED <<gateVars, wizardOn, formVars, callVars, tries>>

\* onComplete: the server is told, the gate asks again, and the mark goes.
FinishWizard ==
    /\ Screen = "setup" /\ wizardOn /\ Try /\ (guardAt.password => guardAt.session)
    /\ guardAt' = [guardAt EXCEPT !.setup = FALSE] /\ AskGate /\ wizardOn' = FALSE
    /\ UNCHANGED <<formVars, callVars>>

(***************************************************************************)
(* Inside: a request of a page, signing out, the password card.            *)
(***************************************************************************)
CallPage ==
    /\ Screen \in {"app", "setup"} /\ pageCall = None /\ Try /\ pageCall' = "sent"
    /\ UNCHANGED <<guardAt, gateVars, wizardOn, formVars, signing, passSaving, leaving>>

ServePage ==
    /\ pageCall = "sent" /\ pageCall' \in {"lost", IF guardAt.password /\ ~guardAt.session THEN "refused" ELSE "ok"}
    /\ UNCHANGED <<guardAt, gateVars, wizardOn, formVars, signing, passSaving, leaving, tries>>

\* The interceptor of client.ts, and the listener of AuthGate.
PageLands ==
    /\ pageCall \in {"lost", "refused", "ok"} /\ pageCall' = None
    /\ IF pageCall = "refused" THEN AskGate ELSE UNCHANGED gateVars
    /\ UNCHANGED <<guardAt, wizardOn, formVars, signing, passSaving, leaving, tries>>

SignOut ==
    /\ Screen = "app" /\ gateQ.data.auth_required /\ leaving = None /\ Try /\ leaving' = "sent"
    /\ UNCHANGED <<guardAt, gateVars, wizardOn, formVars, signing, passSaving, pageCall>>

SignOutLands ==
    \/ /\ leaving = "sent" /\ leaving' \in {"ok", "lost"}
       /\ guardAt' = IF leaving' = "ok" THEN [guardAt EXCEPT !.session = FALSE] ELSE guardAt
       /\ UNCHANGED <<gateVars, wizardOn, formVars, signing, passSaving, pageCall, tries>>
    \/ /\ leaving \in {"ok", "lost"} /\ leaving' = None
       /\ IF leaving = "ok" THEN AskGate ELSE UNCHANGED gateVars
       /\ UNCHANGED <<guardAt, wizardOn, formVars, signing, passSaving, pageCall, tries>>

TypePass ==
    /\ Screen = "app"
    /\ passForm' \in [current : IF gateQ.data.auth_required THEN {"blank", "right", "wrong"} ELSE {"blank"},
                      next : {"blank", "weak", "sound"}, same : BOOLEAN] \ {passForm}
    /\ UNCHANGED <<guardAt, gateVars, wizardOn, loginForm, callVars, tries>>

\* The `submit` of both cards; the button is off while its request is under way.
SavePass ==
    /\ Screen = "app" /\ passSaving = None /\ passForm.next = "sound" /\ passForm.same
    /\ gateQ.data.auth_required => passForm.current # "blank"
    /\ Try /\ passSaving' = [sets |-> ~gateQ.data.auth_required, right |-> passForm.current = "right", at |-> "sent"]
    /\ UNCHANGED <<guardAt, gateVars, wizardOn, formVars, signing, leaving, pageCall>>

\* Whether the server takes it: a first password only when there is none.
TakesPass(s) == IF s.sets THEN ~guardAt.password ELSE guardAt.session /\ s.right

ServePass ==
    /\ passSaving # None /\ passSaving.at = "sent"
    /\ \/ passSaving' = [passSaving EXCEPT !.at = "failed"] /\ UNCHANGED guardAt
       \/ /\ TakesPass(passSaving) /\ passSaving' = [passSaving EXCEPT !.at = "done"]
          /\ guardAt' = [password |-> TRUE, session |-> TRUE, setup |-> guardAt.setup /\ ~passSaving.sets]
    /\ UNCHANGED <<gateVars, wizardOn, formVars, signing, leaving, pageCall, tries>>

PassLands ==
    /\ passSaving # None /\ passSaving.at # "sent" /\ passSaving' = None
    /\ passForm' = IF passSaving.at = "done" THEN BlankPass ELSE passForm
    /\ IF passSaving.at = "done" /\ passSaving.sets THEN AskGate ELSE UNCHANGED gateVars
    /\ UNCHANGED <<guardAt, wizardOn, loginForm, signing, leaving, pageCall, tries>>

\* The session runs out, or another browser sets or changes the password.
SessionEnds ==
    /\ Try /\ guardAt' \in {[guardAt EXCEPT !.session = FALSE], [password |-> TRUE, session |-> FALSE, setup |-> FALSE]}
    /\ guardAt' # guardAt /\ UNCHANGED <<gateVars, wizardOn, formVars, callVars>>

AccessNext ==
    \/ ServeGate \/ LandGate \/ RetryGate
    \/ TypePassword \/ SignIn \/ ServeSignIn \/ SignInLands \/ Second
    \/ StartWizard \/ WizardPassword \/ WizardIntegration \/ FinishWizard
    \/ CallPage \/ ServePage \/ PageLands \/ SignOut \/ SignOutLands
    \/ TypePass \/ SavePass \/ ServePass \/ PassLands \/ SessionEnds

\* Requests are answered or fail, their answers land, and the clock runs.
AccessFairness ==
    /\ WF_accessVars(ServeGate) /\ WF_accessVars(LandGate) /\ WF_accessVars(Second)
    /\ WF_accessVars(ServePage) /\ WF_accessVars(PageLands)
    /\ WF_accessVars(ServeSignIn) /\ WF_accessVars(SignInLands)

AccessSpec == AccessInit /\ [][AccessNext]_accessVars /\ AccessFairness

(***************************************************************************)
(* What the gate promises.                                                 *)
(***************************************************************************)
AccessTypeOK ==
    /\ guardAt \in [password : BOOLEAN, session : BOOLEAN, setup : BOOLEAN]
    /\ gateQ.ask \in {"idle", "asked"} /\ (gateHeard # None => gateQ.ask = "asked")
    /\ loginForm.cooldown \in 0..MaxCooldown /\ loginForm.error \in {None, "invalid", "rate_limited", "other"}
    /\ passForm \in [current : {"blank", "right", "wrong"}, next : {"blank", "weak", "sound"}, same : BOOLEAN]
    /\ Screen # "login" => loginForm = BlankLogin
    /\ tries \in 0..MaxTries

\* A page whose request met the end of the session does not stay on the screen:
\* the sign-in comes, or the error of the gate (client.ts:24, App.tsx:104).
RefusedIsTold == (pageCall = "refused") ~> (Screen \in {"login", "boot"} \/ guardAt.session)

\* The sign-in takes another try at last, whatever became of the one before
\* (Login.tsx:82-88 and 109).
DoorOpensAgain == (Screen = "login" /\ Blocked) ~> (Screen # "login" \/ ~Blocked)

\* A wizard under way is not cut by what it does itself: a password set or a first
\* integration saved ends the setup for the server (lib/setupSession.ts:3-21).
WizardIsKept == [][Screen = "setup" /\ wizardOn /\ wizardOn' => Screen' # "app"]_accessVars
=============================================================================
