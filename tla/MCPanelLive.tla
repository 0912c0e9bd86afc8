---------------------------- MODULE MCPanelLive ----------------------------
(***************************************************************************)
(* The pages of the panel where something must end, in one instance.  The  *)
(* panel shows one page; the page is chosen as it opens, and the variables *)
(* of the others rest at one fixed initial value.                          *)
(***************************************************************************)
EXTENDS Integrations, ServiceList, Webhooks, Access, DriftReport

CONSTANTS i1, i2, s1, s2, w1, w2

VARIABLE screen          \* the page that is shown

TheTargets == [provider |-> {"p"}, service |-> {"s"}]

Rests(page) == screen # page

\* The gate of another page has let it through: no password is set.
AccessRests ==
    /\ guardAt = [password |-> FALSE, session |-> FALSE, setup |-> FALSE] /\ wizardOn = FALSE
    /\ gateQ = Landed(Status(guardAt)) /\ gateHeard = None /\ loginForm = BlankLogin /\ passForm = BlankPass
    /\ signing = None /\ passSaving = None /\ leaving = None /\ pageCall = None /\ tries = 0

PanelInit ==
    /\ screen \in {"integrations", "services", "webhooks", "access", "drift"}
    /\ IntegrationsInit /\ hosts[i1] = "on" /\ (Rests("integrations") => hosts[i2] = "on")
    /\ ServiceListInit /\ server[s1] = "on" /\ server[s2] = "off"
    /\ HooksInit /\ freshHooks = {w1} /\ (Rests("webhooks") => targetsAt.provider = {})
    /\ IF Rests("access") THEN AccessRests ELSE AccessInit
    /\ DriftInit

PanelNext ==
    \/ /\ screen = "integrations" /\ IntegrationsNext
       /\ UNCHANGED <<screen, serviceListVars, hookVars, accessVars, driftVars>>
    \/ /\ screen = "services" /\ ServiceListNext
       /\ UNCHANGED <<screen, integrationsVars, hookVars, accessVars, driftVars>>
    \/ /\ screen = "webhooks" /\ HooksNext
       /\ UNCHANGED <<screen, integrationsVars, serviceListVars, accessVars, driftVars>>
    \/ /\ screen = "access" /\ AccessNext
       /\ UNCHANGED <<screen, integrationsVars, serviceListVars, hookVars, driftVars>>
    \/ /\ screen = "drift" /\ DriftNext
       /\ UNCHANGED <<screen, integrationsVars, serviceListVars, hookVars, accessVars>>

panelVars == <<screen, integrationsVars, serviceListVars, hookVars, accessVars, driftVars>>

\* A page that rests has nothing under way: fairness asks nothing of it.
PanelSpec ==
    /\ PanelInit /\ [][PanelNext]_panelVars
    /\ IntegrationsFairness /\ ServiceListFairness /\ HooksFairness /\ AccessFairness

\* The pages keep their types.
TypeOK ==
    IntegrationsTypeOK /\ ServiceListTypeOK /\ HooksTypeOK /\ AccessTypeOK /\ DriftTypeOK

\* At rest the lists are those of the server and no row is left busy, whatever order the
\* answers came in; a card stays held while the second question about it is on the screen,
\* and no rule watches "a provider" without saying which (Providers.tsx:393 and 473,
\* Services.tsx:230 and 735, WebhooksTab.tsx:111).
PagesAreSound ==
    /\ ListCatchesUp /\ HeldWhileAsked
    /\ RowsCatchUp /\ RowsFreedAtLast
    /\ ScopedOnSomething

\* What spins stops: "Check all", the bulk check, a test of a webhook, the count-down of
\* the sign-in; and a page whose session has ended gives way (Providers.tsx:355,
\* Services.tsx:602, WebhooksTab.tsx:209, Login.tsx:82, client.ts:24).
WaitsEnd == RefreshEnds /\ BulkCheckEnds /\ TestsEnd /\ DoorOpensAgain /\ RefusedIsTold

\* No step takes back what was there for something else: a rule's edit the edits before it,
\* the end of the setup the wizard that caused it, an answer what the drawer said
\* (WebhooksTab.tsx:180, lib/setupSession.ts:3-21, DriftDrawer.tsx:216).
NothingIsTakenBack == EditsKeepTheRest /\ WizardIsKept /\ BlankOnlyByPush
=============================================================================
