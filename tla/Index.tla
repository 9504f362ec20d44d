-------------------------------- MODULE Index --------------------------------
(***************************************************************************)
(* What b_tree.c and myjql.c promise each other: a set of rows, and copies *)
(* of some of them in the nonleaf nodes, which the index has myjql.c make  *)
(* and delete through its handlers.  An insertion may want one copy; a     *)
(* deletion may have one deleted, and may then want another in its place.  *)
(***************************************************************************)
EXTENDS Integers

CONSTANT Row

VARIABLES stored,  \* rows of the leaves
          copies,  \* rows of the nonleaf nodes
          todo     \* what the call in progress will ask of the handlers

TypeOK == /\ stored \subseteq Row /\ copies \subseteq Row /\ stored \cap copies = {}
          /\ todo \in {"none", "copy", "drop", "replace"}

Init == stored = {} /\ copies = {} /\ todo = "none"

\* b_tree_insert
Insert(r) ==
  /\ todo = "none" /\ r \notin stored \cup copies
  /\ stored' = stored \cup {r} /\ copies' = copies
  /\ todo' \in {"none", "copy"}

\* b_tree_delete
Delete(r) ==
  /\ todo = "none" /\ r \in stored
  /\ stored' = stored \ {r} /\ copies' = copies
  /\ todo' \in {"none", "drop", "replace"}
  /\ todo' # "none" => copies # {} /\ stored' # {}

\* insert_handler has made copy c of a stored row.
Copy(c) ==
  /\ todo = "copy" /\ c \notin stored \cup copies
  /\ copies' = copies \cup {c} /\ stored' = stored
  /\ todo' = "none"

\* delete_handler has deleted copy c.
Drop(c) ==
  /\ todo \in {"drop", "replace"} /\ c \in copies
  /\ copies' = copies \ {c} /\ stored' = stored
  /\ todo' = IF todo = "replace" THEN "copy" ELSE "none"

Next == \E r \in Row : Insert(r) \/ Delete(r) \/ Copy(r) \/ Drop(r)

Spec == Init /\ [][Next]_<<stored, copies, todo>>
=============================================================================
