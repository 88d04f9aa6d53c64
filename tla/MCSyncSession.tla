--------------------------- MODULE MCSyncSession ---------------------------
(* Instances of SyncSession for TLC. *)
EXTENDS SyncSession, TLC

CONSTANTS e1, e2

(* Edits are interchangeable, so that an order in which they are typed leaves no
   behaviour out but for their names.  It takes the place of symmetry where a liveness
   property forbids that. *)
InAnyOrder == (e1 :> {}) @@ (e2 :> {})
InOrder == (e1 :> {}) @@ (e2 :> {e1})

(* Clients are interchangeable, and so are instances and edits. *)
Symmetry == Permutations(Clients) \cup Permutations(Instances) \cup Permutations(Edits)

=============================================================================
