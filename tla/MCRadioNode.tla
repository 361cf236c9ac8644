---------------------------- MODULE MCRadioNode ----------------------------
(* Small instances of RadioNode for TLC. *)
EXTENDS RadioNode
=============================================================================
