----------------------------- MODULE MCPresence -----------------------------
(* Instances of Presence for TLC. *)
EXTENDS Presence, TLC

Symmetry == Permutations(Clients) \cup Permutations(Instances)

=============================================================================
