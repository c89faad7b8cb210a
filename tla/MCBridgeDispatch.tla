-------------------------- MODULE MCBridgeDispatch --------------------------
(***************************************************************************)
(* Small instances of BridgeDispatch: the constants are in the .cfg files. *)
(***************************************************************************)
EXTENDS BridgeDispatch, TLC

Symmetry == Permutations(Handler)
=============================================================================
