---------------------------- MODULE MCTallBTree ----------------------------
(* An instance of BTree at the program's own degree with trees of three       *)
(* levels: it first runs through one of the Scripts, in which k stands for an *)
(* insert of k and -k for a delete, then makes any Budget calls.              *)
EXTENDS BTree

CONSTANTS MaxKey, MaxNode, Budget

MCKey  == 1 .. MaxKey
MCNode == 1 .. MaxNode

\* 29 rising keys: a third level, its right node and the last leaf full.  And
\* 21 of them, with deletes that leave both nodes below the root, and the first
\* two leaves of each, with as few rows as they may have.
Scripts == {[i \in 1 .. 29 |-> i],
            [i \in 1 .. 21 |-> i] \o <<-1, -4, -16, -19, -20, -10, -13>>}

VARIABLES script,  \* what is left of the script
          calls    \* calls made after it

Scripted ==
  /\ script # <<>> /\ AtRest
  /\ IF Head(script) > 0 THEN Insert(Head(script)) ELSE Delete(-Head(script))
  /\ script' = Tail(script) /\ UNCHANGED calls

Unscripted ==
  /\ script = <<>> /\ calls < Budget /\ AtRest
  /\ \E k \in Key : Insert(k) \/ Delete(k)
  /\ calls' = calls + 1 /\ UNCHANGED script

Loop == (SplitStep \/ MergeStep \/ DropSeparator \/ CopySeparator) /\ UNCHANGED <<script, calls>>

Finished == script = <<>> /\ calls = Budget /\ AtRest /\ UNCHANGED <<vars, script, calls>>

TallVars == <<vars, script, calls>>
MCInit == Init /\ script \in Scripts /\ calls = 0
MCNext == Scripted \/ Unscripted \/ Loop \/ Finished

\* A call runs to its end: its steps wait for nothing.
TallSpec == MCInit /\ [][MCNext]_TallVars /\ WF_TallVars(Loop)
=============================================================================
