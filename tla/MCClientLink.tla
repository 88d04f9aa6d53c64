---------------------------- MODULE MCClientLink ----------------------------
(* Instances of ClientLink for TLC. *)
EXTENDS ClientLink

=============================================================================
