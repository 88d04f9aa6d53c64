-------------------------- MODULE MCPostgresStore --------------------------
(* Instances of PostgresStore for TLC. *)
EXTENDS PostgresStore, TLC

(* Batches are interchangeable; so are writers, and loaders. *)
Symmetry == Permutations(Writers) \cup Permutations(Batches)

=============================================================================
