------------------------------- MODULE MCMesh -------------------------------
(* Small instances of Mesh for TLC. *)
EXTENDS Mesh

Nodes == 1 .. 4
Calls == {<<2, 1, TRUE>>, <<2, 4, FALSE>>, <<1, 4, FALSE>>}
=============================================================================
