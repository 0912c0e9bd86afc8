----------------------------- MODULE RouteForm -----------------------------
(***************************************************************************)
(* The form that publishes a name: its edits, what is wrong with it, and   *)
(* the route it sends.  Names and addresses are reduced to what the rules  *)
(* tell apart; scheme, websocket, icon and the tunnel's own hostname are   *)
(* left out.  What is done with the route is in Expose.                    *)
(***************************************************************************)
EXTENDS Naturals, Queries

CONSTANTS Proxies,       \* reverse proxies
          Tunnels,       \* proxies that only know tunnels
          Locals,        \* DNS servers of the local network
          Publics,       \* DNS servers of a public zone
          AutoDns,       \* DNS servers that support an automatic target
          MaxEdits       \* bound: edits of the form

ASSUME RouteFormAssumption ==
    /\ None \notin Proxies \cup Tunnels \cup Locals \cup Publics
    /\ AutoDns \subseteq Locals \cup Publics
    /\ MaxEdits \in Nat

VARIABLES editing,       \* the route the form was opened on, or None to create one
          live,          \* the integrations that are switched on
          draft,         \* the form
          found,         \* the public address that was looked up, "empty" when none
          edits          \* counts what MaxEdits bounds

routeFormVars == <<editing, live, draft, found, edits>>

Dns == Locals \cup Publics
Integrations == Proxies \cup Tunnels \cup Dns
Modes == {"dns_only", "dns_proxy", "tunnel"}
Names == {"empty", "good", "bad"}
Addresses == {"empty", "typed", "found", "lan"}   \* "lan" is the target of the route itself

Form == [name : Names, target : {"empty", "lan"}, port : {0, 80}, mode : Modes,
         proxy : Proxies \cup {None}, dns : Dns \cup {None}, tunnel : Tunnels \cup {None},
         extraProxies : SUBSET Proxies, extraDns : SUBSET Dns,
         auto : BOOLEAN, follow : BOOLEAN, ip : Addresses, labelled : BOOLEAN]

initialForm ==
    [name |-> "empty", target |-> "empty", port |-> 80, mode |-> "dns_proxy",
     proxy |-> None, dns |-> None, tunnel |-> None, extraProxies |-> {}, extraDns |-> {},
     auto |-> FALSE, follow |-> FALSE, ip |-> "empty", labelled |-> FALSE]

Route == [name : Names, target : {"empty", "lan"}, port : {0, 80}, tunnelled : BOOLEAN,
          proxy : Proxies \cup {None}, dns : Dns \cup {None}, tunnel : Tunnels \cup {None},
          extraProxies : SUBSET Proxies, extraDns : SUBSET Dns,
          auto : BOOLEAN, follow : BOOLEAN, ip : Addresses, labelled : BOOLEAN]

(***************************************************************************)
(* A stored route as a form, and a template as a form.                     *)
(***************************************************************************)
uiModeFor(route) ==
    IF route.tunnelled THEN "tunnel"
    ELSE IF route.proxy = None /\ route.dns # None THEN "dns_only" ELSE "dns_proxy"

toFormState(route) ==
    [name |-> route.name, target |-> route.target, port |-> route.port, mode |-> uiModeFor(route),
     proxy |-> route.proxy, dns |-> route.dns, tunnel |-> route.tunnel,
     extraProxies |-> route.extraProxies, extraDns |-> route.extraDns,
     auto |-> route.auto, follow |-> route.follow, ip |-> route.ip, labelled |-> route.labelled]

\* As a bug: the labels have no column waiting for them.
TemplateUnlabelled(tpl) ==
    [initialForm EXCEPT
        !.name = tpl.name, !.port = IF tpl.port = 0 THEN initialForm.port ELSE tpl.port,
        !.mode = uiModeFor(tpl), !.proxy = tpl.proxy, !.dns = tpl.dns, !.tunnel = tpl.tunnel,
        !.auto = tpl.auto, !.ip = tpl.ip]

templateToFormState(tpl) ==
    [initialForm EXCEPT
        !.name = tpl.name, !.port = IF tpl.port = 0 THEN initialForm.port ELSE tpl.port, !.mode = uiModeFor(tpl),
        !.proxy = tpl.proxy, !.dns = tpl.dns, !.tunnel = tpl.tunnel,
        !.auto = tpl.auto, !.ip = tpl.ip, !.labelled = tpl.labelled]

(***************************************************************************)
(* The automatic target, and the route that is sent.                       *)
(***************************************************************************)
\* As a bug: an integration that the list does not know supports nothing.
AutoTargetKnown(form) == form.auto /\ (form.dns = None \/ form.dns \in AutoDns \cap live)

\* A DNS server the page does not know (switched off, deleted, not read yet)
\* leaves the setting alone.
autoPublicTarget(form) ==
    form.auto /\ ~(form.dns \in live /\ form.dns \notin AutoDns)

canOfferAuto(form) == form.dns \in Publics \cap AutoDns \cap live

shouldSuggestTarget(form) == form.mode # "tunnel" /\ form.auto /\ form.dns \in AutoDns \cap live

ExtrasOf(extras, primary) == extras \ {primary}

TargetOf(form) ==
    IF form.mode = "tunnel" THEN "empty"
    ELSE IF form.ip # "empty" THEN form.ip
    ELSE IF found # "empty" THEN found
    ELSE IF form.mode = "dns_only" /\ form.dns \in Locals \cap live THEN form.target ELSE "empty"

buildPayload(form) ==
    LET direct == form.mode # "tunnel"
        auto == direct /\ autoPublicTarget(form)
    IN  [name |-> form.name, target |-> form.target, port |-> form.port, tunnelled |-> ~direct,
         proxy |-> IF direct THEN form.proxy ELSE None,
         dns |-> IF direct THEN form.dns ELSE None,
         tunnel |-> IF direct THEN None ELSE form.tunnel,
         extraProxies |-> ExtrasOf(form.extraProxies, form.proxy),
         extraDns |-> IF direct THEN ExtrasOf(form.extraDns, form.dns) ELSE {},
         auto |-> auto, follow |-> auto /\ form.follow,
         ip |-> TargetOf(form), labelled |-> form.labelled]

\* A template keeps neither the target nor the extra integrations; of the name it
\* keeps the domain.
buildTemplatePayload(form) ==
    [buildPayload(form) EXCEPT !.target = "empty", !.extraProxies = {},
                                            !.extraDns = {}, !.follow = FALSE]

\* What an edit moved, when all it moved is labels.
labelChanges(form, saved) ==
    form.labelled # saved.labelled /\ [form EXCEPT !.labelled = saved.labelled] = saved

(***************************************************************************)
(* What is wrong with a form, in no order.                                 *)
(***************************************************************************)
SoundName(form) == form.name = "good" /\ form.target # "empty"

SoundProviders(form) ==
    /\ form.mode = "tunnel" => form.tunnel # None
    /\ form.mode # "tunnel" => \/ form.proxy # None \/ form.dns # None
                               \/ form.extraProxies # {} \/ form.extraDns # {}

SoundPort(form) ==
    form.port = 0 => form.mode # "tunnel" /\ form.proxy = None /\ form.extraProxies = {}

\* As a bug: an address that was looked up earlier is taken for an answer to a
\* form that is to carry its own.
SoundTargetLoosely(form) ==
    form.mode = "tunnel" \/ form.dns \notin live \/ form.ip # "empty" \/ found # "empty"
      \/ form.mode = "dns_only"

SoundTarget(form) ==
    \/ form.mode = "tunnel" \/ form.dns = None \/ form.ip # "empty"
    \/ autoPublicTarget(form) /\ found # "empty"
    \/ ~autoPublicTarget(form) /\ form.mode = "dns_only" /\ (form.dns \in Publics \cap live => found # "empty")
    \/ ~autoPublicTarget(form) /\ form.mode = "dns_proxy" /\ form.dns \notin live

validate(form) ==
    SoundName(form) /\ SoundProviders(form) /\ SoundPort(form) /\ SoundTarget(form)

(***************************************************************************)
(* The edits.                                                              *)
(***************************************************************************)
EditName(form) == {[form EXCEPT !.name = name] : name \in Names}

\* An address pasted as a URL brings its port.
parseTargetInput(form) ==
    {[form EXCEPT !.target = target, !.port = port] :
        target \in {"empty", "lan"}, port \in {form.port, 80}}

\* An empty port goes back to 80 when the field is left, but for a name that is
\* only published in DNS.
EditPort(form) == {[form EXCEPT !.port = port] : port \in IF form.mode = "dns_only" THEN {0, 80} ELSE {80}}

ChooseDnsOnly(form) ==
    IF Dns \cap live = {} THEN {}
    ELSE {[form EXCEPT !.mode = "dns_only", !.proxy = None, !.extraProxies = {}, !.tunnel = None]}

ChooseDnsProxy(form) ==
    {[form EXCEPT !.mode = "dns_proxy", !.port = 80, !.tunnel = None,
                  !.extraProxies = IF form.mode = "tunnel" THEN {} ELSE @]}

ChooseTunnel(form) ==
    IF Tunnels \cap live = {} THEN {}
    ELSE {[form EXCEPT !.mode = "tunnel", !.port = 80, !.auto = FALSE, !.follow = FALSE,
                       !.proxy = None, !.dns = None, !.ip = "empty", !.extraProxies = {}]}

PickTunnel(form) ==
    IF form.mode # "tunnel" THEN {}
    ELSE {[form EXCEPT !.tunnel = t] : t \in (Tunnels \cap live) \cup {None}}

\* The host of the proxy is offered as the target of a local DNS server.
PickProxy(form) ==
    IF form.mode # "dns_proxy" THEN {}
    ELSE {[form EXCEPT !.proxy = p, !.extraProxies = @ \ {p},
                       !.ip = IF @ = "empty" /\ form.dns \in Locals \cap live /\ p # None
                              THEN "typed" ELSE @]
          : p \in (Proxies \cap live) \cup {None}}

\* An address of one kind of zone is no address of the other kind.
PickDns(form) ==
    IF form.mode = "tunnel" THEN {}
    ELSE {LET next == [form EXCEPT !.dns = d, !.extraDns = @ \ {d},
                           !.ip = IF d # None /\ (form.dns \in Publics \cap live) # (d \in Publics)
                                  THEN "empty" ELSE @]
              auto == autoPublicTarget(next)
          IN  [next EXCEPT !.auto = auto, !.follow = auto /\ @]
          : d \in (Dns \cap live) \cup {None}}

\* A server that is the primary is not offered as an extra.
ToggleProxy(form) ==
    IF form.mode = "dns_only" THEN {}
    ELSE {[form EXCEPT !.extraProxies = IF p \in @ THEN @ \ {p} ELSE @ \cup {p}]
          : p \in (Proxies \cap live) \ {form.proxy}}

ToggleDns(form) ==
    IF form.mode = "tunnel" THEN {}
    ELSE {[form EXCEPT !.extraDns = IF d \in @ THEN @ \ {d} ELSE @ \cup {d}]
          : d \in (Dns \cap live) \ {form.dns}}

\* The field for the target, and the button that takes what was looked up.
EditAddress(form) ==
    IF form.mode = "tunnel" \/ form.dns = None \/ (form.mode = "dns_only" /\ form.dns \notin Publics \cap live)
    THEN {} ELSE {[form EXCEPT !.ip = ip] : ip \in {"empty", "typed", found}}

SwitchAuto(form) ==
    IF form.mode = "tunnel" \/ ~canOfferAuto(form) THEN {}
    ELSE {[form EXCEPT !.auto = TRUE, !.follow = ~(autoPublicTarget(form) /\ form.follow)]}

toggleTag(form) == {[form EXCEPT !.labelled = ~@]}

Edits(form) ==
    EditName(form) \cup parseTargetInput(form) \cup EditPort(form) \cup ChooseDnsOnly(form)
    \cup ChooseDnsProxy(form) \cup ChooseTunnel(form) \cup PickTunnel(form)
    \cup PickProxy(form) \cup PickDns(form) \cup ToggleProxy(form)
    \cup ToggleDns(form) \cup EditAddress(form) \cup SwitchAuto(form)
    \cup toggleTag(form)

(***************************************************************************)
(* The form on its own.  It is opened on a stored route, whose             *)
(* integrations may have been switched off, or on nothing.                 *)
(***************************************************************************)
seedForm == IF editing = None THEN initialForm ELSE toFormState(editing)

StoredRoute(proxy, dns, tunnel, extras) ==
    [name |-> "good", target |-> "lan", port |-> 80, tunnelled |-> tunnel # None,
     proxy |-> proxy, dns |-> dns, tunnel |-> tunnel, extraProxies |-> extras \ {proxy}, extraDns |-> {},
     auto |-> dns \in AutoDns, follow |-> dns \in AutoDns,
     ip |-> IF dns = None THEN "empty" ELSE "typed", labelled |-> FALSE]
Stored == {StoredRoute(None, None, t, {}) : t \in Tunnels}
          \cup {StoredRoute(p, d, None, extras) : p \in Proxies, d \in Dns, extras \in {{}, Proxies}}

RouteFormInit ==
    /\ editing \in Stored \cup {None}
    /\ live \in {Integrations} \cup {Integrations \ {i} : i \in Integrations}
    /\ draft = seedForm /\ found = "empty" /\ edits = 0

EditForm ==
    /\ edits < MaxEdits /\ edits' = edits + 1
    /\ draft' \in Edits(draft) \ {draft}
    /\ UNCHANGED <<editing, live, found>>

\* The address is looked up while the form asks for it, and by Detect.
LookUp ==
    /\ shouldSuggestTarget(draft)
    /\ found' \in {"empty", "found"}
    /\ UNCHANGED <<editing, live, draft, edits>>

\* The dialog is closed, and opened again.
StartOver ==
    /\ edits > 0 /\ edits' = 0
    /\ draft' = seedForm /\ found' = "empty"
    /\ UNCHANGED <<editing, live>>

RouteFormNext == EditForm \/ LookUp \/ StartOver

RouteFormSpec == RouteFormInit /\ [][RouteFormNext]_routeFormVars

(***************************************************************************)
(* What the form promises.                                                 *)
(***************************************************************************)
RouteFormTypeOK ==
    /\ editing \in Route \cup {None} /\ live \subseteq Integrations
    /\ draft \in Form /\ found \in {"empty", "found"} /\ edits \in 0..MaxEdits

\* No integration serves the route twice, what is forwarded has a port, a record
\* has a target, and a target is only left to a DNS server that can find one.
Publishable(r) ==
    /\ r.name = "good" /\ r.target # "empty"
    /\ r.proxy \notin r.extraProxies /\ r.dns \notin r.extraDns
    /\ r.tunnelled => r.tunnel # None /\ r.proxy = None /\ r.dns = None /\ r.extraDns = {}
    /\ ~r.tunnelled => r.tunnel = None
    /\ r.tunnelled \/ r.proxy # None \/ r.extraProxies # {} => r.port # 0
    /\ r.dns \in live => r.ip # "empty"
    /\ r.auto /\ r.dns \in live => r.dns \in AutoDns
    /\ r.follow => r.auto

\* What the form lets through can be published, however the form came to be what
\* it is (ExposeModal.tsx:365).
WhatPassesIsSound == validate(draft) => Publishable(buildPayload(draft))

\* Opening an edit and saving it publishes the route as it was stored, also when
\* an integration of it is switched off (types.ts:169).
UntouchedIsKept == editing # None /\ draft = seedForm => buildPayload(draft) = editing

\* A template gives back the route it was taken from, but for what it does not
\* hold (ExposeModal.tsx:606).
TemplateGivesItBack ==
    LET tpl == buildTemplatePayload(draft)
        again == buildPayload(templateToFormState(tpl))
    IN  tpl.port # 0 => again = tpl
=============================================================================
