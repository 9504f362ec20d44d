----------------------------- MODULE MCStrings -----------------------------
(* Instance of Strings: chunks of two characters and strings of one to three *)
(* chunks, among them the empty one, prefixes of each other, and some that   *)
(* differ in the first or in a later chunk.                                  *)
EXTENDS Strings, TLC

CONSTANTS r1, r2, r3, r4, r5, r6

MCRid == {r1, r2, r3, r4, r5, r6}
RidSymmetry == Permutations(MCRid)

MCStr == {<<>>, <<1>>, <<2>>, <<1, 2>>, <<1, 2, 1>>, <<1, 2, 2>>, <<1, 2, 1, 1>>, <<1, 2, 1, 1, 2>>}
=============================================================================
