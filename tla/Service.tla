------------------------------ MODULE Service ------------------------------
(***************************************************************************)
(* What clients may rely on: each request takes effect on the store at one *)
(* moment between asking and being told, and the client is told what the   *)
(* store said at that moment.                                              *)
(***************************************************************************)
EXTENDS Integers

CONSTANTS Client, Key,
          Request,     \* requests: op, key, val
          TooLong(_),  \* keys and values the service refuses
          Nil

VARIABLES store, asked, answer, told

Init ==
  /\ store = [k \in Key |-> Nil]
  /\ asked = [c \in Client |-> Nil]
  /\ answer = [c \in Client |-> Nil]
  /\ told = [c \in Client |-> Nil]

Ask(c, r) ==
  /\ asked[c] = Nil
  /\ asked' = [asked EXCEPT ![c] = r]
  /\ UNCHANGED <<store, answer, told>>

Effect(r) ==
  CASE r.op = 1 -> [store EXCEPT ![r.key] = r.val]
    [] r.op = 2 -> [store EXCEPT ![r.key] = Nil]
    [] OTHER    -> store

Reply(r) ==
  IF r.op # 3 /\ TooLong(r.key)           THEN "key too long"
  ELSE IF r.op = 1 /\ TooLong(r.val)      THEN "value too long"
  ELSE IF r.op = 0 /\ store[r.key] = Nil  THEN "not found"
  ELSE IF r.op = 0                        THEN store[r.key]
  ELSE "ok"

Do(c) ==
  /\ asked[c] # Nil /\ answer[c] = Nil
  /\ answer' = [answer EXCEPT ![c] = Reply(asked[c])]
  /\ store' = IF Reply(asked[c]) = "ok" THEN Effect(asked[c]) ELSE store
  /\ UNCHANGED <<asked, told>>

Tell(c) ==
  /\ answer[c] # Nil
  /\ told' = [told EXCEPT ![c] = answer[c]]
  /\ asked' = [asked EXCEPT ![c] = Nil]
  /\ answer' = [answer EXCEPT ![c] = Nil]
  /\ UNCHANGED store

Next == \E c \in Client : (\E r \in Request : Ask(c, r)) \/ Do(c) \/ Tell(c)

Spec == Init /\ [][Next]_<<store, asked, answer, told>>
=============================================================================
