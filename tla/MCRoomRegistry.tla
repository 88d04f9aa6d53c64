--------------------------- MODULE MCRoomRegistry ---------------------------
(* Instances of RoomRegistry for TLC. *)
EXTENDS RoomRegistry, TLC

(* Clients are interchangeable, and so are updates. *)
Symmetry == Permutations(Clients) \cup Permutations(Edits)

=============================================================================
