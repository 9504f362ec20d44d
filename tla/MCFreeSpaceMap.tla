--------------------------- MODULE MCFreeSpaceMap ---------------------------
(* Instance of FreeSpaceMap: two directory pages of two sizes each, blocks   *)
(* of two entries, and interchangeable data blocks.                          *)
EXTENDS FreeSpaceMap, TLC

CONSTANTS a1, a2, a3, a4

MCAddr == {a1, a2, a3, a4}
AddrSymmetry == Permutations(MCAddr)
=============================================================================
