----------------------------- MODULE MCReliable -----------------------------
(* Small instances of ReliableDatagram for TLC. *)
EXTENDS ReliableDatagram
=============================================================================
