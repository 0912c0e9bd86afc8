--------------------------- MODULE MCPublication ---------------------------
(***************************************************************************)
(* Instances of Publication for TLC: one NPM, one Zoraxy, one Cloudflare   *)
(* Tunnel used as a proxy, one AdGuard and one Cloudflare.                 *)
(***************************************************************************)
EXTENDS Publication, TLC

CONSTANTS npm, zoraxy, tunnel, adguard, cloudflare

BodiesOver(proxies, dns, autos) ==
    {b \in [host : Hosts, enabled : BOOLEAN, proxy : proxies \cup {None},
            dns : dns \cup {None}, ip : Ips, auto : autos, hid : {None},
            xproxies : SUBSET proxies, xdns : SUBSET dns] :
        /\ b.proxy \notin b.xproxies
        /\ b.dns \notin b.xdns
        /\ ProxiesOf(b) \cup DnsOf(b) # {}
        /\ b.auto => DnsOf(b) # {}}

ProxyBodies == {b \in BodiesOver(Proxies, {}, {FALSE}) :
                    b.ip = (CHOOSE ip \in Ips : TRUE) /\ Cardinality(ProxiesOf(b)) <= 2}
RaceBodies == {b \in BodiesOver({npm}, {adguard}, {FALSE}) : b.proxy # None}
LockBodies == {b \in RaceBodies : b.xdns # {}}
AnyDnsBodies == BodiesOver({}, {adguard, cloudflare}, BOOLEAN)

\* An address that is detected, on one list of DNS servers only: the primary
\* is written with the address of the body, the extra targets with the one
\* that is detected when they are pushed.
DnsBodies == {b \in AnyDnsBodies : b.auto => b.dns = None \/ b.xdns = {}}

\* An edit that changes the name or the address of a service and, at once,
\* moves a provider between its primary column and its extra targets.
RoleSwap(old, new) ==
    /\ <<old.host, old.ip>> # <<new.host, new.ip>>
    /\ \/ (Some(new.proxy) \cup Some(new.dns)) \cap Extras(old) # {}
       \/ (Some(old.proxy) \cup Some(old.dns)) \cap Extras(new) # {}

\* An edit of a suspended service that moves it to another proxy, or of one
\* whose host the Tunnel would not let go.
PublishesWhileOff(old, new) ==
    /\ ~old.enabled /\ ~new.enabled /\ old.hid # None
    /\ new.proxy # None
    /\ new.proxy # old.proxy \/ new.proxy \in Upsert

Symmetry == Permutations(Hosts) \cup Permutations(Ips) \cup Permutations(Sessions)

WhileOffEdit(old, new) == ~RoleSwap(old, new)
RoutineEdit(old, new) == ~RoleSwap(old, new) /\ ~PublishesWhileOff(old, new)
=============================================================================
