------------------------------ MODULE PageStore ------------------------------
(***************************************************************************)
(* What a buffer pool promises the code above it, with no cache in sight:  *)
(* a growing and shrinking row of pages, each holding the last value       *)
(* stored in it.  A page can be stored to while it is held.  An orderly    *)
(* stop loses nothing and may only leave extra pages at the end; after a   *)
(* kill nothing is promised.                                               *)
(***************************************************************************)
EXTENDS Integers

CONSTANTS Val, MaxPages

Page == 0 .. MaxPages - 1

VARIABLES mode, length, content, held

TypeOK ==
  /\ mode \in {"up", "closing", "closed", "killed"}
  /\ length \in 0 .. MaxPages
  /\ content \in [0 .. length - 1 -> Val]
  /\ held \subseteq 0 .. length - 1

Init ==
  /\ mode = "up" /\ length = 0
  /\ content = [a \in {} |-> a]
  /\ held = {}

\* A page of the file is handed out and nothing the caller stored changes.
Get(a) ==
  /\ mode = "up" /\ a < length
  /\ held' = held \cup {a}
  /\ UNCHANGED <<mode, length, content>>

\* The page after the last one is handed out, with some content.
Append(v) ==
  /\ mode = "up" /\ length < MaxPages
  /\ length' = length + 1
  /\ content' = [a \in 0 .. length |-> IF a = length THEN v ELSE content[a]]
  /\ held' = held \cup {length}
  /\ mode' = mode

Write(a, v) ==
  /\ mode = "up" /\ a \in held
  /\ content' = [content EXCEPT ![a] = v]
  /\ UNCHANGED <<mode, length, held>>

Release(a) ==
  /\ mode = "up"
  /\ held' = held \ {a}
  /\ UNCHANGED <<mode, length, content>>

DropLast ==
  /\ mode = "up" /\ length > 0
  /\ length' = length - 1
  /\ content' = [a \in 0 .. length - 2 |-> content[a]]
  /\ held' = held \ {length - 1}
  /\ mode' = mode

BeginClose ==
  /\ mode = "up" /\ mode' = "closing"
  /\ held' = {}
  /\ UNCHANGED <<length, content>>

\* Every page is on disk; pages that had been dropped may be back behind them.
EndClose ==
  /\ mode = "closing" /\ mode' = "closed"
  /\ length' \in length .. MaxPages
  /\ \E more \in [0 .. length' - 1 -> Val] :
       content' = [a \in 0 .. length' - 1 |-> IF a < length THEN content[a] ELSE more[a]]
  /\ held' = {}

Kill ==
  /\ mode \in {"up", "closing"} /\ mode' = "killed"
  /\ length' \in 0 .. MaxPages
  /\ content' \in [0 .. length' - 1 -> Val]
  /\ held' = {}

Start ==
  /\ mode \in {"closed", "killed"} /\ mode' = "up"
  /\ UNCHANGED <<length, content, held>>

Next ==
  \/ \E a \in Page : Get(a) \/ Release(a) \/ (\E v \in Val : Write(a, v))
  \/ \E v \in Val : Append(v)
  \/ DropLast
  \/ BeginClose \/ EndClose \/ Kill \/ Start

vars == <<mode, length, content, held>>
Spec == Init /\ [][Next]_vars
=============================================================================
