------------------------------ MODULE MCTable ------------------------------
(* Instance of Table: pages of 14 bytes, with room for two or three items of *)
(* two or three bytes, all of them different.                                *)
EXTENDS Table

MCItem == {<<"a1", "a2">>, <<"b1", "b2">>, <<"c1", "c2", "c3">>}
=============================================================================
