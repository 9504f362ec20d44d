-------------------------------- MODULE Rows --------------------------------
(***************************************************************************)
(* What a table promises its callers: rows that stay where they are, under *)
(* the RID they were given, until they are deleted.  str.c promises the    *)
(* same of strings.                                                        *)
(***************************************************************************)
EXTENDS Integers

CONSTANTS Rid, Row, Nil

VARIABLES rows,  \* the rows that exist, by RID
          call   \* the last call that changed something

TypeOK == /\ DOMAIN rows \subseteq Rid /\ \A r \in DOMAIN rows : rows[r] \in Row
          /\ call \in ({"insert"} \X Row \X Rid) \cup ({"delete"} \X Rid) \cup {Nil}

Init == rows = [r \in {} |-> Nil] /\ call = Nil

\* rs with row under r, and without r.
With(rs, r, row) == [q \in DOMAIN rs \cup {r} |-> IF q = r THEN row ELSE rs[q]]
Without(rs, r)   == [q \in DOMAIN rs \ {r} |-> rs[q]]

Insert(r, row) ==
  /\ r \in Rid \ DOMAIN rows
  /\ rows' = With(rows, r, row)
  /\ call' = <<"insert", row, r>>

Delete(r) ==
  /\ r \in DOMAIN rows
  /\ rows' = Without(rows, r)
  /\ call' = <<"delete", r>>

Next == \E r \in Rid : Delete(r) \/ \E row \in Row : Insert(r, row)

Spec == Init /\ [][Next]_<<rows, call>>
=============================================================================
