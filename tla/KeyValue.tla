------------------------------ MODULE KeyValue ------------------------------
(***************************************************************************)
(* What myjql.h promises: a map from keys to values that an orderly stop   *)
(* and a new start leave as it was.                                        *)
(***************************************************************************)
EXTENDS Integers

CONSTANTS Key, Val, Nil

VARIABLES map,
          call  \* the last call and, for a get, what it returned

Init == map = [k \in Key |-> Nil] /\ call = Nil

\* "return -1 if the key does not exist"
Get(k)    == map' = map /\ call' = <<"get", k, map[k]>>
Set(k, v) == map' = [map EXCEPT ![k] = v] /\ call' = <<"set", k, v>>
Del(k)    == map' = [map EXCEPT ![k] = Nil] /\ call' = <<"del", k, Nil>>

Restart == map' = map /\ call' = Nil

Next ==
  \/ \E k \in Key : Get(k) \/ Del(k) \/ \E v \in Val : Set(k, v)
  \/ Restart

Spec == Init /\ [][Next]_<<map, call>>
=============================================================================
