----------------------------- MODULE MCCluster -----------------------------
(* Instances of Cluster for TLC. *)
EXTENDS Cluster, TLC

CONSTANTS e1, e2

(* The second update is typed next to the first. *)
Chain == (e1 :> {}) @@ (e2 :> {e1})

(* Instances are interchangeable. *)
Symmetry == Permutations(Instances)

=============================================================================
