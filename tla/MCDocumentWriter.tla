-------------------------- MODULE MCDocumentWriter --------------------------
(* Instances of DocumentWriter for TLC. *)
EXTENDS DocumentWriter, TLC

(* Updates are interchangeable. *)
Symmetry == Permutations(Edits)

=============================================================================
