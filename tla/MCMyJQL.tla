------------------------------ MODULE MCMyJQL ------------------------------
(* Instance of MyJQL: keys and values are interchangeable.                   *)
EXTENDS MyJQL, TLC

CONSTANTS k1, k2, v1, v2, MaxRec, MaxStr

MCRecRid == 1 .. MaxRec
MCStrRid == 1 .. MaxStr
NameSymmetry == Permutations(Key) \cup Permutations(Val)
=============================================================================
