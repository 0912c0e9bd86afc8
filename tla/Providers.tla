----------------------------- MODULE Providers -----------------------------
(***************************************************************************)
(* The remote side of Vauxtra: the reverse proxies and the DNS servers     *)
(* that Vauxtra writes to, seen through the calls of app/providers/.       *)
(*                                                                         *)
(* A proxy keeps hosts [id, host, on]; a DNS server keeps (name, address)  *)
(* pairs.  Every call answers TRUE or FALSE and nothing else, as           *)
(* ProxyProvider and DNSProvider do.  FALSE has three causes a caller      *)
(* cannot tell apart: the call makes no sense there (no such id, the name  *)
(* is taken), the provider refused it, or the provider carried it out and  *)
(* its reply was lost.  The last two are faults, and Faults bounds them.   *)
(***************************************************************************)
EXTENDS Integers, FiniteSets

CONSTANTS
    Hosts,       \* public hostnames
    Ips,         \* addresses a DNS record may point at
    Proxies,     \* proxy integrations
    Dns,         \* DNS integrations
    Suspending,  \* proxies whose class overrides toggle_host (NPM, Zoraxy)
    HostKeyed,   \* proxies that key a host on its name (Zoraxy, Cloudflare Tunnel)
    Upsert,      \* providers whose write replaces what has the name (Cloudflare, its Tunnel)
    NumIds,      \* ids a numbering proxy (NPM) hands out
    Faults,      \* bound: refused or lost calls in a behaviour
    None         \* SQL NULL, Python None, and "no provider"

ASSUME ProvidersAssumption ==
    /\ Suspending \subseteq Proxies
    /\ HostKeyed \subseteq Proxies
    /\ Upsert \subseteq Proxies \cup Dns
    /\ Upsert \cap Proxies \subseteq HostKeyed
    /\ Faults \in Nat
    /\ None \notin Hosts \cup Ips \cup Proxies \cup Dns \cup NumIds

VARIABLES
    hosts,   \* hosts[p]: what proxy p holds
    recs,    \* recs[d]: what DNS server d holds
    faults   \* faults still to come

provVars == <<hosts, recs, faults>>

Ids  == NumIds \cup Hosts
Host == [id : Ids, host : Hosts, on : BOOLEAN]

ProvidersTypeOK ==
    /\ hosts \in [Proxies -> SUBSET Host]
    /\ recs \in [Dns -> SUBSET (Hosts \X Ips)]
    /\ faults \in 0 .. Faults

ProvidersInit ==
    /\ hosts = [p \in Proxies |-> {}]
    /\ recs = [d \in Dns |-> {}]
    /\ faults = Faults

Named(p, h)   == {x \in hosts[p] : x.host = h}
WithId(p, id) == {x \in hosts[p] : x.id = id}
Answers(d, h) == {ip \in Ips : <<h, ip>> \in recs[d]}

Fault == faults > 0 /\ faults' = faults - 1

\* The answer to a call on proxy p that leaves p holding `after` when it is
\* carried out: done, carried out with the reply lost, or refused.
ProxyCall(p, can, after, ok) ==
    /\ UNCHANGED recs
    /\ \/ /\ can
          /\ hosts' = [hosts EXCEPT ![p] = after]
          /\ IF ok THEN UNCHANGED faults ELSE Fault
       \/ /\ ~ok
          /\ UNCHANGED hosts
          /\ IF can THEN Fault ELSE UNCHANGED faults

\* create_host.  NPM and Zoraxy refuse a name that they already serve.
CreateHost(p, h, id, ok) ==
    ProxyCall(p, p \in Upsert \/ Named(p, h) = {},
        (hosts[p] \ Named(p, h)) \cup {[id |-> id, host |-> h, on |-> TRUE]}, ok)

\* update_host.  The host is read first, so an id that is gone is a refusal;
\* the on flag is not part of the call; a name-keyed id follows the name.
\* The Tunnel deletes the old rule without reading the answer, then writes
\* the new one: each half may fail on its own.
UpdateHost(p, id, h, ok) ==
    LET rule == {[id |-> h, host |-> h, on |-> TRUE]}
    IN  IF p \in Upsert
        THEN \/ ProxyCall(p, TRUE, (hosts[p] \ (WithId(p, id) \cup Named(p, h))) \cup rule, ok)
             \/ /\ id # h /\ WithId(p, id) # {}
                /\ hosts' = [hosts EXCEPT ![p] = IF ok THEN (@ \ Named(p, h)) \cup rule
                                                 ELSE @ \ WithId(p, id)]
                /\ UNCHANGED recs
                /\ Fault
        ELSE ProxyCall(p,
                WithId(p, id) # {} /\ Named(p, h) \subseteq WithId(p, id),
                (hosts[p] \ WithId(p, id)) \cup
                    {[id |-> IF p \in HostKeyed THEN h ELSE id, host |-> h, on |-> x.on]
                        : x \in WithId(p, id)},
                ok)

\* toggle_host of a proxy that has a suspension: it answers on the state the
\* host ends up in, so asking twice is not a refusal.
ToggleHost(p, id, on, ok) ==
    ProxyCall(p, WithId(p, id) # {},
        (hosts[p] \ WithId(p, id)) \cup {[x EXCEPT !.on = on] : x \in WithId(p, id)}, ok)

\* delete_host.  NPM and Zoraxy answer for an id they do not hold as they
\* answer for a refusal.
DeleteHost(p, id, ok) ==
    ProxyCall(p, p \in Upsert \/ WithId(p, id) # {}, hosts[p] \ WithId(p, id), ok)

\* list_hosts and list_rewrites: `ok` FALSE is a listing that raised.
Listing(ok) ==
    /\ UNCHANGED <<hosts, recs>>
    /\ IF ok THEN UNCHANGED faults ELSE Fault

RecordCall(d, after, ok) ==
    /\ UNCHANGED hosts
    /\ \/ /\ recs' = [recs EXCEPT ![d] = after]
          /\ IF ok THEN UNCHANGED faults ELSE Fault
       \/ ~ok /\ UNCHANGED recs /\ Fault

\* add_rewrite.  A record that is there already is a success everywhere;
\* Cloudflare changes the record of that name, the others add a second one.
AddRewrite(d, h, ip, ok) ==
    RecordCall(d,
        {r \in recs[d] : ~(d \in Upsert /\ r[1] = h)} \cup {<<h, ip>>}, ok)

\* delete_rewrite.  For a record that is not there, AdGuard and deSEC answer
\* TRUE, Cloudflare and Technitium FALSE.
DeleteRewrite(d, h, ip, ok) ==
    \/ RecordCall(d, recs[d] \ {<<h, ip>>}, ok)
    \/ /\ <<h, ip>> \notin recs[d]
       /\ ~ok
       /\ UNCHANGED provVars
=============================================================================
