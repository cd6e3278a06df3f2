---------------------------- MODULE MCRebalance ----------------------------
(* Small instances of Rebalance for TLC: nodes are <<host, port>>. *)
EXTENDS Rebalance

Alpha == <<1, 11211>>
Beta == <<2, 11211>>
Beta2 == <<2, 11212>>

(* Configured out of host order; Beta and Beta2 share a host. *)
OneNode == <<Alpha>>
TwoNodes == <<Beta, Alpha>>
ThreeNodes == <<Beta2, Alpha, Beta>>

(* One node, and one node twice. *)
OneNodeLists == {OneNode, <<Alpha, Alpha>>}
OnlyAlpha == {Alpha}
=============================================================================
