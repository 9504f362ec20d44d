------------------------------- MODULE BTree -------------------------------
(***************************************************************************)
(* b_tree.c: the B+ tree index, as myjql.c uses it.                        *)
(*                                                                         *)
(* A row is a RID, the record it names written <<key, c>>: c = 0 is the    *)
(* record myjql.c writes for a stored key, c > 0 a copy insert_handler     *)
(* makes for a nonleaf node.  The handlers, and the caller's writing and   *)
(* deleting of the record, are the changes of live.                        *)
(*                                                                         *)
(* b_tree_insert and b_tree_delete change a leaf in one step; their loops  *)
(* up the tree (while tag_split, while tag_merge) take one step per        *)
(* iteration, job being what the loop's local variables carry.  Nodes are  *)
(* the contents of pages seen through the buffer pool; a new node gets the *)
(* least page not in use (NodePages is the allocator).                     *)
(***************************************************************************)
EXTENDS Integers, Sequences, SequencesExt

CONSTANTS Degree,     \* DEGREE
          Key,        \* keys, in the order of compare_string_record
          Node,       \* pages the index can grow to
          MaxCopies,  \* bound: copies of one key's record at a time
          Nil         \* -1

ASSUME DegreeAssumption == Degree \in Nat /\ Degree >= 2
ASSUME SetsAssumption   == Key \subseteq Nat \ {0} /\ Node \subseteq Nat /\ 1 \in Node
ASSUME NilAssumption    == Nil \notin Node /\ Nil \notin Key
ASSUME CopiesAssumption == MaxCopies \in Nat \ {0}

MaxRows == 2 * Degree - 1

VARIABLES nodes,  \* BNode: leaf, parent, row_ptr and child up to n
          used,   \* pages holding a node of the tree
          root,   \* root_node
          live,   \* records that exist in the record table
          job     \* what the loop of the call in progress carries

vars == <<nodes, used, root, live, job>>

Row   == Key \X (0 .. MaxCopies)
Blank == [leaf |-> TRUE, parent |-> Nil, rows |-> <<>>, child |-> <<>>]

Idle == [kind |-> "none"]
Split(at, right, row, copy) ==
  [kind |-> "split", at |-> at, right |-> right, row |-> row, copy |-> copy]
Merge(at, row, drop, victim) ==
  [kind |-> "merge", at |-> at, row |-> row, drop |-> drop, victim |-> victim]
Replace(at, i, row, drop, victim) ==
  [kind |-> "replace", at |-> at, i |-> i, row |-> row, drop |-> drop, victim |-> victim]

TypeOK ==
  /\ used \subseteq Node /\ root \in used
  /\ DOMAIN nodes = Node
  /\ \A a \in Node :
       /\ nodes[a].leaf \in BOOLEAN /\ nodes[a].parent \in Node \cup {Nil}
       /\ nodes[a].rows \in Seq(Row) /\ nodes[a].child \in Seq(Node)
       /\ Len(nodes[a].rows) <= MaxRows
       /\ Len(nodes[a].child) = IF nodes[a].leaf THEN 0 ELSE Len(nodes[a].rows) + 1
  /\ live \subseteq Row
  /\ \/ job = Idle
     \/ \E a, b \in used, r \in Row, c \in BOOLEAN : job = Split(a, b, r, c)
     \/ \E a \in used, r \in Row, d \in BOOLEAN, k \in Key :
          job = Merge(a, r, d, k) \/ \E i \in DOMAIN nodes[a].rows : job = Replace(a, i, r, d, k)

-----------------------------------------------------------------------------
(* Searching.                                                               *)

\* lower_bound_rr and lower_bound_pr: the index, from 0, of the first row not
\* below k, by bisection.
LowerBound(rows, k) ==
  LET n == Len(rows)
      bisect[at \in (0 .. n) \X (-1 .. n - 1) \X (0 .. n)] ==  \* l, r and ans
        IF at[1] > at[2] THEN at[3]
        ELSE LET mid == (at[1] + at[2]) \div 2
             IN  IF k > rows[mid + 1][1] THEN bisect[<<mid + 1, at[2], at[3]>>]
                                         ELSE bisect[<<at[1], mid - 1, mid>>]
  IN  bisect[<<0, n - 1, n>>]

HasKey(rows, k) == LET i == LowerBound(rows, k) IN i < Len(rows) /\ rows[i + 1][1] = k

\* Mutant of ChildFor: a key equal to a separator is sought on its left.
ChildForLeft(rows, k) == LowerBound(rows, k) + 1

\* The child to go down to: right of a row that equals k.
ChildFor(rows, k) == LowerBound(rows, k) + (IF HasKey(rows, k) THEN 2 ELSE 1)

LeafFor(k) ==
  LET down[a \in Node] ==
        IF nodes[a].leaf THEN a ELSE down[nodes[a].child[ChildFor(nodes[a].rows, k)]]
  IN  down[root]

\* b_tree_search returns a row, not -1.
Found(k) == HasKey(nodes[LeafFor(k)].rows, k)

\* What the tree stands for: the keys in its leaves.
Stored == UNION {{r[1] : r \in Range(nodes[a].rows)} : a \in {b \in used : nodes[b].leaf}}

-----------------------------------------------------------------------------
(* The record table, the pages, and arrays of rows and children.            *)

Least(S) == CHOOSE i \in S : \A j \in S : i <= j

Original(k)      == <<k, 0>>
CopyOf(row, now) == <<row[1], Least({c \in 1 .. MaxCopies : <<row[1], c>> \notin now})>>

NewNode == Least(Node \ used)

WithRow(rows, row) == InsertAt(rows, LowerBound(rows, row[1]) + 1, row)

\* ns with the nodes of the sequence kids made children of p.
Adopt(ns, kids, p) ==
  [a \in Node |-> IF a \in Range(kids) THEN [ns[a] EXCEPT !.parent = p] ELSE ns[a]]

-----------------------------------------------------------------------------
(* b_tree_insert.                                                           *)

\* Mutant of InsertInLeaf: off by one about a full leaf.
InsertBeyondRoom(k) ==
  LET a == LeafFor(k) IN
  /\ Len(nodes[a].rows) <= MaxRows
  /\ nodes' = [nodes EXCEPT ![a].rows = WithRow(@, Original(k))]
  /\ UNCHANGED <<used, root, job>>

InsertInLeaf(k) ==
  LET a == LeafFor(k) IN
  /\ Len(nodes[a].rows) < MaxRows
  /\ nodes' = [nodes EXCEPT ![a].rows = WithRow(@, Original(k))]
  /\ UNCHANGED <<used, root, job>>

\* Mutant of SplitLeaf: the upper half is copied from one row too far.
SplitLeafShort(k) ==
  LET a     == LeafFor(k)
      all   == WithRow(nodes[a].rows, Original(k))
      upper == SubSeq(all, Degree + 2, 2 * Degree)
      y     == NewNode
  IN
  /\ Len(nodes[a].rows) = MaxRows
  /\ used # Node
  /\ nodes' = [nodes EXCEPT ![a].rows = SubSeq(all, 1, Degree),
                            ![y] = [leaf |-> TRUE, parent |-> nodes[a].parent,
                                    rows |-> upper, child |-> <<>>]]
  /\ used' = used \cup {y}
  /\ job' = Split(a, y, upper[1], TRUE)
  /\ UNCHANGED root

\* The upper half of 2 * Degree rows goes to a new leaf; its first row is to
\* be copied into the parent.
SplitLeaf(k) ==
  LET a     == LeafFor(k)
      all   == WithRow(nodes[a].rows, Original(k))
      upper == SubSeq(all, Degree + 1, 2 * Degree)
      y     == NewNode
  IN
  /\ Len(nodes[a].rows) = MaxRows
  /\ used # Node
  /\ nodes' = [nodes EXCEPT ![a].rows = SubSeq(all, 1, Degree),
                            ![y] = [leaf |-> TRUE, parent |-> nodes[a].parent,
                                    rows |-> upper, child |-> <<>>]]
  /\ used' = used \cup {y}
  /\ job' = Split(a, y, upper[1], TRUE)
  /\ UNCHANGED root

\* myjql_set writes the record of a key it has not found, then inserts it.
Insert(k) ==
  /\ job = Idle /\ k \notin Stored
  /\ live' = live \cup {Original(k)}
  /\ InsertInLeaf(k) \/ SplitLeaf(k)

\* The row an iteration puts into the parent, through the handler at first.
Separator == IF job.copy THEN CopyOf(job.row, live) ELSE job.row

\* The split node was the root.
GrowRoot ==
  LET p == NewNode IN
  /\ nodes[job.at].parent = Nil
  /\ used # Node
  /\ nodes' = [nodes EXCEPT ![p] = [leaf |-> FALSE, parent |-> Nil, rows |-> <<Separator>>,
                                    child |-> <<job.at, job.right>>],
                            ![job.right].parent = p, ![job.at].parent = p]
  /\ used' = used \cup {p} /\ root' = p
  /\ job' = Idle

\* The parent has room.
InsertInParent ==
  LET p == nodes[job.at].parent IN
  /\ p # Nil /\ Len(nodes[p].rows) < MaxRows
  /\ nodes' = [nodes EXCEPT
       ![p].rows  = WithRow(@, Separator),
       ![p].child = InsertAt(@, LowerBound(nodes[p].rows, job.row[1]) + 2, job.right)]
  /\ job' = Idle
  /\ UNCHANGED <<used, root>>

\* The parent is full: it splits too, and its middle row moves up.
SplitParent ==
  LET p    == nodes[job.at].parent
      t    == NewNode
      rows == WithRow(nodes[p].rows, Separator)
      kids == InsertAt(nodes[p].child, LowerBound(nodes[p].rows, job.row[1]) + 2, job.right)
      low  == SubSeq(kids, 1, Degree)
      high == SubSeq(kids, Degree + 1, 2 * Degree + 1)
      cut  == [nodes EXCEPT
                 ![p].rows = SubSeq(rows, 1, Degree - 1), ![p].child = low,
                 ![t] = [leaf |-> FALSE, parent |-> nodes[p].parent,
                         rows |-> SubSeq(rows, Degree + 1, 2 * Degree), child |-> high]]
  IN
  /\ p # Nil /\ Len(nodes[p].rows) = MaxRows
  /\ used # Node
  /\ nodes' = Adopt(Adopt(cut, low, p), high, t)
  /\ used' = used \cup {t}
  /\ job' = Split(p, t, rows[Degree], FALSE)
  /\ UNCHANGED root

\* An iteration of "while(tag_split)".
SplitStep ==
  /\ job.kind = "split"
  /\ live' = live \cup {Separator}
  /\ GrowRoot \/ InsertInParent \/ SplitParent

-----------------------------------------------------------------------------
(* b_tree_delete.  ns is nodes after a row has left node a.                 *)

\* The place of a among its parent's children (index + 1).
Place(ns, a) ==
  LET kids == ns[ns[a].parent].child IN Least({j \in DOMAIN kids : kids[j] = a})

LeftOf(ns, a)  == ns[ns[a].parent].child[Place(ns, a) - 1]
RightOf(ns, a) == ns[ns[a].parent].child[Place(ns, a) + 1]

Lends(ns, s) == Len(ns[s].rows) > Degree - 1

LeftLends(ns, a)  == Place(ns, a) > 1 /\ Lends(ns, LeftOf(ns, a))
RightLends(ns, a) == Place(ns, a) < Len(ns[ns[a].parent].child) /\ Lends(ns, RightOf(ns, a))

\* Mutant of Remedy: a node is taken to have enough rows one row too long.
RemedyLate(ns, a) ==
  IF ns[a].parent = Nil \/ Len(ns[a].rows) >= Degree - 2 THEN "none"
  ELSE IF LeftLends(ns, a)  THEN "borrow left"
  ELSE IF RightLends(ns, a) THEN "borrow right"
  ELSE IF Place(ns, a) > 1  THEN "merge left"
  ELSE "merge right"

\* What the code does about a node that is left with too few rows.
Remedy(ns, a) ==
  IF ns[a].parent = Nil \/ Len(ns[a].rows) >= Degree - 1 THEN "none"
  ELSE IF LeftLends(ns, a)  THEN "borrow left"
  ELSE IF RightLends(ns, a) THEN "borrow right"
  ELSE IF Place(ns, a) > 1  THEN "merge left"
  ELSE "merge right"

\* The leaf keeps enough rows, or is the root.
LeafStays(ns, a, k) ==
  /\ Remedy(ns, a) = "none"
  /\ nodes' = ns /\ live' = live \ {Original(k)} /\ job' = Idle
  /\ UNCHANGED <<used, root>>

\* The separator at position i of the parent is to be replaced by a copy of row.
Reseparate(ns, p, i, row, k) ==
  /\ nodes' = ns
  /\ job' = Replace(p, i, row, TRUE, k)
  /\ UNCHANGED <<used, root, live>>

LeafBorrowsLeft(ns, a, k) ==
  LET s   == LeftOf(ns, a)
      row == Last(ns[s].rows)
  IN
  /\ Remedy(ns, a) = "borrow left"
  /\ Reseparate([ns EXCEPT ![a].rows = <<row>> \o @, ![s].rows = Front(@)],
                ns[a].parent, Place(ns, a) - 1, row, k)

\* Mutant of LeafBorrowsRight: the row that moved becomes the separator.
LeafBorrowsRightEarly(ns, a, k) ==
  LET s == RightOf(ns, a) IN
  /\ Remedy(ns, a) = "borrow right"
  /\ Reseparate([ns EXCEPT ![a].rows = Append(@, Head(ns[s].rows)), ![s].rows = Tail(@)],
                ns[a].parent, Place(ns, a), ns[s].rows[1], k)

LeafBorrowsRight(ns, a, k) ==
  LET s == RightOf(ns, a) IN
  /\ Remedy(ns, a) = "borrow right"
  /\ Reseparate([ns EXCEPT ![a].rows = Append(@, Head(ns[s].rows)), ![s].rows = Tail(@)],
                ns[a].parent, Place(ns, a), ns[s].rows[2], k)

\* Two leaves become one; the row between them is to leave the parent and to
\* be deleted.
LeafMergesLeft(ns, a, k) ==
  LET s == LeftOf(ns, a)
      p == ns[a].parent
  IN
  /\ Remedy(ns, a) = "merge left"
  /\ nodes' = [ns EXCEPT ![s].rows = @ \o ns[a].rows, ![a] = Blank]
  /\ used' = used \ {a}
  /\ job' = Merge(p, ns[p].rows[Place(ns, a) - 1], TRUE, k)
  /\ UNCHANGED <<root, live>>

LeafMergesRight(ns, a, k) ==
  LET s == RightOf(ns, a)
      p == ns[a].parent
  IN
  /\ Remedy(ns, a) = "merge right"
  /\ nodes' = [ns EXCEPT ![a].rows = @ \o ns[s].rows, ![s] = Blank]
  /\ used' = used \ {s}
  /\ job' = Merge(p, ns[p].rows[Place(ns, a)], TRUE, k)
  /\ UNCHANGED <<root, live>>

\* myjql_del deletes a key it has found, and its record when the call returns.
Delete(k) ==
  /\ job = Idle /\ Found(k)
  /\ LET a  == LeafFor(k)
         ns == [nodes EXCEPT ![a].rows = RemoveAt(@, LowerBound(@, k) + 1)]
     IN  \/ LeafStays(ns, a, k)
         \/ LeafBorrowsLeft(ns, a, k) \/ LeafBorrowsRight(ns, a, k)
         \/ LeafMergesLeft(ns, a, k)  \/ LeafMergesRight(ns, a, k)

\* The loop ends: the call returns, and the caller deletes its record.
Return(left) == live' = left \ {Original(job.victim)} /\ job' = Idle

\* Mutant of DropSeparator: the old separator's record is not deleted.
DropSeparatorNot ==
  /\ job.kind = "replace" /\ job.drop
  /\ job' = [job EXCEPT !.drop = FALSE]
  /\ UNCHANGED <<nodes, used, root, live>>

\* delete_handler, on the old separator.
DropSeparator ==
  /\ job.kind = "replace" /\ job.drop
  /\ live' = live \ {nodes[job.at].rows[job.i]}
  /\ job' = [job EXCEPT !.drop = FALSE]
  /\ UNCHANGED <<nodes, used, root>>

\* insert_handler, on the row that now begins the right leaf.
CopySeparator ==
  /\ job.kind = "replace" /\ ~job.drop
  /\ nodes' = [nodes EXCEPT ![job.at].rows[job.i] = CopyOf(job.row, live)]
  /\ Return(live \cup {CopyOf(job.row, live)})
  /\ UNCHANGED <<used, root>>

\* Mutant of StopHere: tag_merge is not reset.
StopHereForgets(ns, a, left) ==
  /\ Remedy(ns, a) = "none"
  /\ ns[a].parent = Nil => ns[a].rows # <<>>
  /\ nodes' = ns /\ live' = left
  /\ job' = [job EXCEPT !.drop = FALSE]
  /\ UNCHANGED <<used, root>>

StopHere(ns, a, left) ==
  /\ Remedy(ns, a) = "none"
  /\ ns[a].parent = Nil => ns[a].rows # <<>>
  /\ nodes' = ns /\ Return(left)
  /\ UNCHANGED <<used, root>>

ShrinkRoot(ns, a, left) ==
  LET c == ns[a].child[1] IN
  /\ ns[a].parent = Nil /\ ns[a].rows = <<>>
  /\ nodes' = [ns EXCEPT ![c].parent = Nil, ![a] = Blank]
  /\ used' = used \ {a} /\ root' = c
  /\ Return(left)

\* Borrowing by way of the parent: its row comes down, the sibling's goes up,
\* and a child changes hands.
\* Mutant of BorrowLeft: the child that changed hands keeps its old parent.
BorrowLeftForgets(ns, a, left) ==
  LET s == LeftOf(ns, a)
      p == ns[a].parent
      j == Place(ns, a) - 1
      c == Last(ns[s].child)
  IN
  /\ Remedy(ns, a) = "borrow left"
  /\ nodes' = [ns EXCEPT ![a].rows = <<ns[p].rows[j]>> \o @, ![a].child = <<c>> \o @,
                               ![p].rows[j] = Last(ns[s].rows),
                               ![s].rows = Front(@), ![s].child = Front(@)]
  /\ Return(left)
  /\ UNCHANGED <<used, root>>

BorrowLeft(ns, a, left) ==
  LET s == LeftOf(ns, a)
      p == ns[a].parent
      j == Place(ns, a) - 1
      c == Last(ns[s].child)
  IN
  /\ Remedy(ns, a) = "borrow left"
  /\ nodes' = Adopt([ns EXCEPT ![a].rows = <<ns[p].rows[j]>> \o @, ![a].child = <<c>> \o @,
                               ![p].rows[j] = Last(ns[s].rows),
                               ![s].rows = Front(@), ![s].child = Front(@)], <<c>>, a)
  /\ Return(left)
  /\ UNCHANGED <<used, root>>

BorrowRight(ns, a, left) ==
  LET s == RightOf(ns, a)
      p == ns[a].parent
      j == Place(ns, a)
      c == Head(ns[s].child)
  IN
  /\ Remedy(ns, a) = "borrow right"
  /\ nodes' = Adopt([ns EXCEPT ![a].rows = Append(@, ns[p].rows[j]), ![a].child = Append(@, c),
                               ![p].rows[j] = Head(ns[s].rows),
                               ![s].rows = Tail(@), ![s].child = Tail(@)], <<c>>, a)
  /\ Return(left)
  /\ UNCHANGED <<used, root>>

\* l takes the row between l and r, and all of r; that row has then to leave
\* the parent, but lives on.
Joined(ns, l, r, j) ==
  LET p == ns[l].parent IN
  /\ nodes' = Adopt([ns EXCEPT ![l].rows = Append(@, ns[p].rows[j]) \o ns[r].rows,
                               ![l].child = @ \o ns[r].child,
                               ![r] = Blank], ns[r].child, l)
  /\ used' = used \ {r}
  /\ job' = Merge(p, ns[p].rows[j], FALSE, job.victim)

MergeLeft(ns, a, left) ==
  /\ Remedy(ns, a) = "merge left"
  /\ Joined(ns, LeftOf(ns, a), a, Place(ns, a) - 1)
  /\ live' = left /\ UNCHANGED root

MergeRight(ns, a, left) ==
  /\ Remedy(ns, a) = "merge right"
  /\ Joined(ns, a, RightOf(ns, a), Place(ns, a))
  /\ live' = left /\ UNCHANGED root

\* An iteration of "while(tag_merge)": the row and the child behind it leave
\* the node, which may be left with too few.
MergeStep ==
  /\ job.kind = "merge"
  /\ LET a    == job.at
         i    == LowerBound(nodes[a].rows, job.row[1])
         left == IF job.drop THEN live \ {nodes[a].rows[i + 1]} ELSE live
         ns   == [nodes EXCEPT ![a].rows = RemoveAt(@, i + 1), ![a].child = RemoveAt(@, i + 2)]
     IN  \/ StopHere(ns, a, left)   \/ ShrinkRoot(ns, a, left)
         \/ BorrowLeft(ns, a, left) \/ BorrowRight(ns, a, left)
         \/ MergeLeft(ns, a, left)  \/ MergeRight(ns, a, left)

-----------------------------------------------------------------------------
Init ==
  /\ nodes = [a \in Node |-> Blank]
  /\ used = {1} /\ root = 1
  /\ live = {}
  /\ job = Idle

Next == \/ \E k \in Key : Insert(k) \/ Delete(k)
        \/ SplitStep \/ MergeStep \/ DropSeparator \/ CopySeparator

Spec == Init /\ [][Next]_vars

-----------------------------------------------------------------------------
(* Properties.                                                              *)

Inner  == {a \in used : ~nodes[a].leaf}
AtRest == job = Idle

\* Every node but the root hangs in exactly one place, and knows the node it
\* hangs from, also while a loop is under way: the new half of a split hangs
\* nowhere yet, and a merged-away leaf or node is still listed by its parent.
\* (b_tree.c keeps the parent pointers by hand: 290-303, 584-586, 648-653.)
\* A page that the tree no longer needs but did not give back hangs nowhere.
ParentsKnown ==
  /\ nodes[root].parent = Nil
  /\ \A a \in Inner : \A j \in DOMAIN nodes[a].child :
       nodes[a].child[j] \in used => nodes[nodes[a].child[j]].parent = a
  /\ \A c \in used \ {root} :
       LET hung == {h \in Inner \X (1 .. 2 * Degree) :
                      h[2] <= Len(nodes[h[1]].child) /\ nodes[h[1]].child[h[2]] = c}
       IN  IF job.kind = "split" /\ c = job.right THEN hung = {} ELSE \E h \in hung : hung = {h}

\* A node other than the root keeps Degree - 1 rows or more, and a root that
\* is no leaf has one: no split or merge leaves a node the next call cannot
\* repair.  (433 and 552 against 166, 224-225.)
Filled ==
  \A a \in used : \/ Len(nodes[a].rows) >= Degree - 1
                  \/ a = root /\ (nodes[a].leaf \/ nodes[a].rows # <<>>)

\* All leaves are equally deep, and the rows of a node and of what hangs below
\* it lie between the rows on either side, in strict order within a node.
Balanced ==
  AtRest =>
    LET depth[a \in Node] == IF nodes[a].leaf THEN 0 ELSE 1 + depth[nodes[a].child[1]]
        fits[at \in Node \X (Key \cup {0}) \X (Key \cup {Nil})] ==
          LET a    == at[1]
              low  == at[2]
              high == at[3]
              rows == nodes[a].rows
              below(j) == IF j = 1 THEN low ELSE rows[j - 1][1]
              above(j) == IF j = Len(rows) + 1 THEN high ELSE rows[j][1]
          IN  /\ \A j \in DOMAIN rows :
                   /\ low <= rows[j][1] /\ (high # Nil => rows[j][1] < high)
                   /\ j > 1 => rows[j - 1][1] < rows[j][1]
              /\ ~nodes[a].leaf =>
                   \A j \in DOMAIN nodes[a].child :
                     /\ depth[nodes[a].child[j]] = depth[a] - 1
                     /\ fits[<<nodes[a].child[j], below(j), above(j)>>]
    IN  fits[<<root, 0, Nil>>]

\* Between calls, searching finds exactly the keys that are stored: no split,
\* borrowing or stale separator hides one.
SearchFinds == AtRest => \A k \in Key : Found(k) <=> k \in Stored

RowsOf(a) == Range(nodes[a].rows)
Referenced == UNION {RowsOf(a) : a \in used}

\* The separator that a borrowing has deleted and not yet replaced.
BeingReplaced == IF job.kind = "replace" /\ ~job.drop THEN {nodes[job.at].rows[job.i]} ELSE {}

\* No row names a deleted record, which a comparison would read, and a search
\* after the record's reuse would take for another key.  (Nonleaf nodes hold
\* copies exactly so that deleting a key leaves them readable.)
NoDanglingRow == Referenced \subseteq live \cup BeingReplaced

\* And between calls the record table holds the records of the stored keys and
\* one copy per separator, no more: every separator dropped was deleted by the
\* handler, none twice, and leaves hold no copies.
RecordsMatch ==
  /\ NoDanglingRow
  /\ AtRest =>
       /\ live \subseteq Referenced
       /\ \A a, b \in used : a # b => RowsOf(a) \cap RowsOf(b) = {}
       /\ \A a \in used : \A r \in RowsOf(a) : (r[2] = 0) = nodes[a].leaf

\* A call adds or removes its own row, when it changes the leaf, and the steps
\* that follow move rows about and lose none; and it asks of the handlers one
\* copy, one deletion, or a deletion and then a copy: all that myjql.c relies on.
Rows == INSTANCE Index WITH
  stored <- UNION {RowsOf(a) : a \in used \ Inner},
  copies <- {r \in live : r[2] > 0},
  todo   <- CASE job.kind = "split" /\ job.copy    -> "copy"
              [] job.kind = "merge" /\ job.drop    -> "drop"
              [] job.kind = "replace" /\ job.drop  -> "replace"
              [] job.kind = "replace" /\ ~job.drop -> "copy"
              [] OTHER                             -> "none"
ImplementsIndex == Rows!Spec

\* A call returns: both loops reach the root or stop below it.
CallsReturn == job.kind # "none" ~> job.kind = "none"

=============================================================================
