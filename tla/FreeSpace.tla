------------------------------ MODULE FreeSpace ------------------------------
(***************************************************************************)
(* What a free-space map promises table.c: a set of data blocks, each with *)
(* the size it was filed under, and the best fit on demand.                *)
(***************************************************************************)
EXTENDS Integers

CONSTANTS Addr, Sizes, Nil

VARIABLES entries,  \* pairs <<size, data block>>
          call      \* the last call: its size, and the block it filed or returned

TypeOK == entries \subseteq (0 .. Sizes - 1) \X Addr /\ call \in ((0 .. Sizes - 1) \X (Addr \cup {Nil})) \cup {Nil}

Init == entries = {} /\ call = Nil

Filed(a) == \E s \in 0 .. Sizes - 1 : <<s, a>> \in entries

Insert(s, a) ==
  /\ ~Filed(a)
  /\ entries' = entries \cup {<<s, a>>}
  /\ call' = <<s, a>>

Remove(s, a) ==
  /\ <<s, a>> \in entries
  /\ entries' = entries \ {<<s, a>>}
  /\ call' = <<s, a>>

\* The entries of the least size that suffices.
BestFits(s) == {e \in entries : e[1] >= s /\ \A d \in entries : d[1] >= s => d[1] >= e[1]}

\* One of them is taken out and its block returned.
PopLowerBound(s) ==
  \E e \in BestFits(s) :
    /\ entries' = entries \ {e}
    /\ call' = <<s, e[2]>>

PopNothing(s) ==
  /\ BestFits(s) = {}
  /\ entries' = entries
  /\ call' = <<s, Nil>>

\* An orderly stop and a new start.
Reopen == entries' = entries /\ call' = Nil

Next ==
  \/ \E s \in 0 .. Sizes - 1 :
       \/ PopLowerBound(s) \/ PopNothing(s)
       \/ \E a \in Addr : Insert(s, a) \/ Remove(s, a)
  \/ Reopen

Spec == Init /\ [][Next]_<<entries, call>>
=============================================================================
