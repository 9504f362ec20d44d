----------------------------- MODULE MCClients -----------------------------
(* Instances of Clients: one key and one value of each length that matters:  *)
(* 1, 2 and 4 can be taken for codes (set, del, none), 6 is over the limit.  *)
EXTENDS Clients, TLC

CONSTANTS a, b, k1, kLong, v1, v2, v4, vLong

MCKey == {k1, kLong}
MCVal == {v1, v2, v4, vLong}
MCLength == k1 :> 1 @@ kLong :> 6 @@ v1 :> 1 @@ v2 :> 2 @@ v4 :> 4 @@ vLong :> 6 @@ Other :> 1

Req(o, k, v) == [op |-> o, key |-> k, val |-> v]

\* All ways a request can end.
AllRequests == {Req(0, k1, Nil), Req(1, k1, v2), Req(2, k1, Nil), Req(0, kLong, Nil),
                Req(1, kLong, vLong), Req(1, k1, vLong), Req(2, kLong, Nil)}
OneSet       == {Req(1, k1, v1)}
=============================================================================
