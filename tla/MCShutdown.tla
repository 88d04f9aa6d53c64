----------------------------- MODULE MCShutdown -----------------------------
(* Instances of Shutdown for TLC. *)
EXTENDS Shutdown, TLC

(* Clients are interchangeable, and so are updates. *)
Symmetry == Permutations(Clients) \cup Permutations(Edits)

=============================================================================
