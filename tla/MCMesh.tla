-------------------------------- MODULE MCMesh --------------------------------
(***************************************************************************)
(* A small instance of Mesh: node b can dial anew before node a has noticed *)
(* that the old connection broke.                                          *)
(***************************************************************************)
EXTENDS Mesh

CONSTANTS a, b

MCNode == {a, b}
MCSlots == [n \in MCNode |-> IF n = b THEN 2 ELSE 1]
=============================================================================
