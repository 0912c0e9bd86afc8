------------------------------ MODULE MCAlerts ------------------------------
(***************************************************************************)
(* Instances of Alerts for TLC: a service watched through a webhook, by a  *)
(* rule of its own and by a rule of the webhook, with what those may ask   *)
(* for: to wait a cycle before the alert, or to repeat it each cycle.      *)
(***************************************************************************)
EXTENDS Alerts, TLC

OneOfEach == [kind : {"global", "service"}, hook : Hooks, service : Services]

Watch(delay, repeat) == [down |-> TRUE, up |-> TRUE, delay |-> delay, repeat |-> repeat]

Mixed == {Watch(0, 1), Watch(1, 0)}

TwoTiers == <<1, 2>>

Symmetry == Permutations(Services) \cup Permutations(Hooks) \cup Permutations(Slots)
=============================================================================
