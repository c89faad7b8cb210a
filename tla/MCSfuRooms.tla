----------------------------- MODULE MCSfuRooms -----------------------------
(***************************************************************************)
(* Small instances of SfuRooms: the constants are in the .cfg files.       *)
(***************************************************************************)
EXTENDS SfuRooms, TLC

Symmetry == Permutations(Sid) \cup Permutations(Room)
=============================================================================
