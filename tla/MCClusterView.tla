---------------------------- MODULE MCClusterView ----------------------------
(* Small instances of ClusterView: Self and one or two other nodes.           *)
EXTENDS ClusterView, TLC

CONSTANTS n1, n2

OneNode == {n1}
TwoNodes == {n1, n2}

\* Subscriptions of each node, of each but Self.
NoPuts == [n \in All |-> 0]
OnePut == [n \in All |-> 1]
OthersPut == [n \in All |-> IF n = Self THEN 0 ELSE 1]

Alike == Permutations(TwoNodes)
=============================================================================
