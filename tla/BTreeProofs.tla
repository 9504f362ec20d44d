---------------------------- MODULE BTreeProofs ----------------------------
(***************************************************************************)
(* b_tree.c, for every degree, every set of keys and every set of pages:   *)
(* BTree, and at the end NodePages, which hands out the pages.             *)
(*                                                                         *)
(* The invariant IInv says that in every state there is a search tree of   *)
(* which the nodes of the module are the picture: the whole of it between  *)
(* calls, and all but what a loop still has to do while one is under way.  *)
(* Each action is one of the changes of SearchTrees.  From it follow the   *)
(* types, the number of rows in a node, the equal depth of the leaves,     *)
(* what a search finds, which records there are, where the parents point,  *)
(* and that the module implements Index.                                   *)
(***************************************************************************)
EXTENDS SearchTrees, NodePages, FiniteSetTheorems
-----------------------------------------------------------------------------
(* The nodes of BTree, and the tree they stand for.                         *)

RowsAt(ns, a)   == ns[a].rows
KidsAt(ns, a)   == ns[a].child
ParentAt(ns, a) == ns[a].parent
LeafAt(ns, a)   == ns[a].leaf
KeysAt(ns, a)   == KeysOf(RowsAt(ns, a))

NodeRec == [leaf : BOOLEAN, parent : Page, rows : Seq(Row), child : Seq(Node)]

\* The rows of leaves are the stored keys' own, those of other nodes copies.
Own    == Key \X {0}
Copied == Key \X {1}
Tagged(leaf) == IF leaf THEN Own ELSE Copied

ShapedAt(ns, a) ==
  /\ RowsAt(ns, a) \in Seq(Tagged(LeafAt(ns, a))) /\ Len(RowsAt(ns, a)) <= MaxRows
  /\ Len(KidsAt(ns, a)) = IF LeafAt(ns, a) THEN 0 ELSE Len(RowsAt(ns, a)) + 1

Shaped(ns, us) ==
  ns \in [Node -> NodeRec] /\ \A a \in Node : ShapedAt(ns, a) /\ (a \notin us => LeafAt(ns, a))

\* The nodes are those of T, but for the rows and children of p; above the
\* root, T may have one more, as long as a new root is missing.
View(T, ns, us, rt, p) ==
  /\ Tree(T) /\ Shaped(ns, us) /\ us \subseteq Node /\ rt \in us
  /\ us \subseteq Nodes(T) /\ Nodes(T) \subseteq us \cup {Nil}
  /\ Top(T) = IF Nil \in Nodes(T) THEN Nil ELSE rt
  /\ ParentAt(ns, rt) = Nil
  /\ \A x \in us : Up(T, x) = ParentAt(ns, x) /\ (Lev(T, x) = 0 <=> LeafAt(ns, x))
  /\ \A x \in us : x # p => Keys(T, x) = KeysAt(ns, x) /\ Kids(T, x) = KidsAt(ns, x)

\* Every node but s has enough rows.
AllFilled(ns, us, rt, s) ==
  \A x \in us : x # s => \/ Len(RowsAt(ns, x)) >= Degree - 1
                         \/ x = rt /\ (LeafAt(ns, x) \/ Len(RowsAt(ns, x)) >= 1)

\* The records of the stored keys a, and copies for the separators b.
Recs(A, B) == {<<k, 0>> : k \in A} \cup {<<k, 1>> : k \in B}

\* The rows of leaves and those of nonleaf nodes are rows.
LEMMA TaggedRows ==
  Own \subseteq Row /\ Copied \subseteq Row /\ Seq(Own) \subseteq Seq(Row) /\ Seq(Copied) \subseteq Seq(Row)
<1>1. Own \subseteq Row /\ Copied \subseteq Row
  BY CopiesAssumption DEF Own, Copied, Row
<1>. QED  BY <1>1, SeqMonotonic, Zenon

\* The fields of a node, typed.
LEMMA NodeRecIs ==
  ASSUME NEW ns, ns \in [Node -> NodeRec], NEW a \in Node
  PROVE  RowsAt(ns, a) \in Seq(Row) /\ KidsAt(ns, a) \in Seq(Node) /\ ParentAt(ns, a) \in Page /\ LeafAt(ns, a) \in BOOLEAN
BY Zenon DEF NodeRec, RowsAt, KidsAt, ParentAt, LeafAt

\* The fields of a node of the tree, typed, and how many rows it has.
LEMMA ShapedFacts ==
  ASSUME NEW ns, NEW us, Shaped(ns, us), NEW a \in Node
  PROVE  /\ RowsAt(ns, a) \in Seq(Row) /\ KidsAt(ns, a) \in Seq(Node) /\ ParentAt(ns, a) \in Page /\ LeafAt(ns, a) \in BOOLEAN
         /\ Len(RowsAt(ns, a)) \in Nat /\ Len(RowsAt(ns, a)) <= MaxRows
         /\ RowsAt(ns, a) \in Seq(Tagged(LeafAt(ns, a)))
         /\ LeafAt(ns, a) => Len(KidsAt(ns, a)) = 0 /\ RowsAt(ns, a) \in Seq(Own)
         /\ ~ LeafAt(ns, a) => Len(KidsAt(ns, a)) = Len(RowsAt(ns, a)) + 1 /\ RowsAt(ns, a) \in Seq(Copied) /\ a \in us
         /\ KeysAt(ns, a) \in Seq(Key) /\ Len(KeysAt(ns, a)) = Len(RowsAt(ns, a))
         /\ \A i \in 1 .. Len(RowsAt(ns, a)) : KeysAt(ns, a)[i] = RowsAt(ns, a)[i][1] /\ RowsAt(ns, a)[i] \in Tagged(LeafAt(ns, a))
<1>1. ns \in [Node -> NodeRec] /\ ShapedAt(ns, a) /\ (a \notin us => LeafAt(ns, a))
  BY DEF Shaped
<1>2. RowsAt(ns, a) \in Seq(Row) /\ KidsAt(ns, a) \in Seq(Node) /\ ParentAt(ns, a) \in Page /\ LeafAt(ns, a) \in BOOLEAN
  BY <1>1, NodeRecIs
<1>3. RowsAt(ns, a) \in Seq(Tagged(LeafAt(ns, a))) /\ Len(RowsAt(ns, a)) <= MaxRows
  BY <1>1 DEF ShapedAt
<1>4. /\ LeafAt(ns, a) => Len(KidsAt(ns, a)) = 0
      /\ ~ LeafAt(ns, a) => Len(KidsAt(ns, a)) = Len(RowsAt(ns, a)) + 1
  BY <1>1 DEF ShapedAt
<1>5. /\ LeafAt(ns, a) => RowsAt(ns, a) \in Seq(Own)
      /\ ~ LeafAt(ns, a) => RowsAt(ns, a) \in Seq(Copied)
  BY <1>3 DEF Tagged
<1>6. /\ KeysAt(ns, a) \in Seq(Key) /\ Len(KeysAt(ns, a)) = Len(RowsAt(ns, a)) /\ Len(RowsAt(ns, a)) \in Nat
      /\ \A i \in 1 .. Len(RowsAt(ns, a)) : KeysAt(ns, a)[i] = RowsAt(ns, a)[i][1]
  BY <1>2, KeysOfIs, KeysAreKeys DEF KeysAt
<1>7. \A i \in 1 .. Len(RowsAt(ns, a)) : RowsAt(ns, a)[i] \in Tagged(LeafAt(ns, a))
  BY <1>3
<1>. QED  BY <1>1, <1>2, <1>3, <1>4, <1>5, <1>6, <1>7

\* What the tree says of a node, the node says too.
LEMMA ViewFacts ==
  ASSUME NEW T, NEW ns, NEW us, NEW rt, NEW p, View(T, ns, us, rt, p), NEW a \in us
  PROVE  /\ a \in Node /\ a \in Page /\ a # Nil /\ a \in Nodes(T) /\ Tree(T) /\ Shaped(ns, us)
         /\ Up(T, a) = ParentAt(ns, a) /\ (Lev(T, a) = 0 <=> LeafAt(ns, a))
         /\ a # p => Keys(T, a) = KeysAt(ns, a) /\ Kids(T, a) = KidsAt(ns, a)
         /\ Nil \notin Nodes(T) => Nodes(T) = us /\ Top(T) = rt
BY NilAssumption DEF View, Page

\* A node has no parent when it is the root.
LEMMA ParentIs ==
  ASSUME NEW T, NEW ns, NEW us, NEW rt, NEW p, View(T, ns, us, rt, p), Nil \notin Nodes(T), NEW a \in us
  PROVE  ParentAt(ns, a) = Nil <=> a = rt
<1>1. a = rt => ParentAt(ns, a) = Nil
  BY DEF View
<1>2. ASSUME a # rt PROVE ParentAt(ns, a) # Nil
  BY <1>2, ViewFacts, HungFacts
<1>. QED  BY <1>1, <1>2

-----------------------------------------------------------------------------
(* Records.                                                                 *)

\* The records are the rows of the stored keys and the copies.
LEMMA RecsHave ==
  ASSUME NEW A, NEW B, NEW k
  PROVE  /\ <<k, 0>> \in Recs(A, B) <=> k \in A
         /\ <<k, 1>> \in Recs(A, B) <=> k \in B
BY DEF Recs

\* Writing the record of a stored key.
LEMMA RecsPut ==
  ASSUME NEW A, NEW B, NEW k
  PROVE  Recs(A, B) \cup {<<k, 0>>} = Recs(A \cup {k}, B)
BY DEF Recs

\* Records are rows.
LEMMA RecsAreRows ==
  ASSUME NEW A \in SUBSET Key, NEW B \in SUBSET Key
  PROVE  Recs(A, B) \subseteq Row
BY CopiesAssumption DEF Recs, Row

\* The first copy of a row is the one that is free.
LEMMA LeastOne ==
  ASSUME NEW S \in SUBSET (Nat \ {0}), 1 \in S
  PROVE  Least(S) = 1
<1>1. \A j \in S : 1 <= j
  OBVIOUS
<1>2. \A i \in S : (\A j \in S : i <= j) => i = 1
  BY <1>1
<1>3. \E i \in S : \A j \in S : i <= j
  BY <1>1
<1>. QED  BY <1>2, <1>3 DEF Least

\* insert_handler makes the first copy.
LEMMA CopyIs ==
  ASSUME NEW k, NEW c, NEW row, row = <<k, c>>, NEW lv, <<k, 1>> \notin lv
  PROVE  CopyOf(row, lv) = <<k, 1>>
<1>1. PICK S : S = {x \in 1 .. MaxCopies : <<k, x>> \notin lv}
  OBVIOUS
<1>2. S \in SUBSET (Nat \ {0}) /\ 1 \in S
  BY <1>1, CopiesAssumption
<1>3. Least(S) = 1
  BY <1>2, LeastOne
<1>4. row[1] = k
  OBVIOUS
<1>. QED  BY <1>1, <1>3, <1>4 DEF CopyOf

-----------------------------------------------------------------------------
(* Inserting.                                                               *)

GoodIdle(T, ns, us, rt, lv) ==
  /\ View(T, ns, us, rt, Nil) /\ Nil \notin Nodes(T) /\ AllFilled(ns, us, rt, Nil)
  /\ lv = Recs(LeafKeys(T), InnerKeys(T))

\* k is to go to the leaf a, whose rows will be all.
Putting(T, ns, us, rt, a, k, all) ==
  /\ View(T, ns, us, rt, Nil) /\ Nil \notin Nodes(T) /\ a \in us /\ LeafAt(ns, a)
  /\ k \in Key /\ k \in Span(T, a) /\ k \notin LeafKeys(T)
  /\ all = WithRow(RowsAt(ns, a), Original(k))

\* W is T with the keys ks in the leaf a.
Written(T, W, a, ks) ==
  /\ Tree(W) /\ Nodes(W) = Nodes(T) /\ Top(W) = Top(T) /\ Keys(W, a) = ks
  /\ \A x \in Nodes(T) : /\ Lev(W, x) = Lev(T, x) /\ Kids(W, x) = Kids(T, x) /\ Up(W, x) = Up(T, x)
                         /\ Span(W, x) = Span(T, x) /\ (x # a => Keys(W, x) = Keys(T, x))

\* A key put in its leaf where the bisection says keeps the search tree.
LEMMA PutPlace ==
  ASSUME NEW T, NEW ns, NEW us, NEW rt, NEW a, NEW k, NEW all, Putting(T, ns, us, rt, a, k, all)
  PROVE  /\ all \in Seq(Own) /\ all \in Seq(Row) /\ Len(all) = Len(RowsAt(ns, a)) + 1
         /\ \E W : /\ Written(T, W, a, KeysOf(all))
                   /\ LeafKeys(W) = LeafKeys(T) \cup {k} /\ InnerKeys(W) = InnerKeys(T)
<1>1. /\ View(T, ns, us, rt, Nil) /\ Nil \notin Nodes(T) /\ a \in us /\ LeafAt(ns, a)
      /\ k \in Key /\ k \in Span(T, a) /\ k \notin LeafKeys(T)
      /\ all = WithRow(RowsAt(ns, a), Original(k))
  BY DEF Putting
<1>2. /\ a \in Node /\ a # Nil /\ a \in Nodes(T) /\ Tree(T) /\ Shaped(ns, us) /\ Lev(T, a) = 0
      /\ Keys(T, a) = KeysAt(ns, a)
  BY <1>1, ViewFacts
<1>3. PICK rows, row, ks, b : rows = RowsAt(ns, a) /\ row = Original(k) /\ ks = KeysOf(rows) /\ b = LowerBound(rows, k)
  OBVIOUS
<1>4. ks = Keys(T, a)
  BY <1>2, <1>3 DEF KeysAt
<1>5. rows \in Seq(Row) /\ rows \in Seq(Own) /\ Len(rows) \in Nat
  BY <1>1, <1>2, <1>3, ShapedFacts
<1>6. /\ ks \in Seq(Nat) /\ Len(rows) = Len(ks) /\ \A i \in 1 .. Len(ks) : rows[i][1] = ks[i]
  BY <1>3, <1>5, KeysOfIs
<1>7. Sorted(ks) /\ k \in Nat
  BY <1>1, <1>2, <1>4, NodeFacts, KeysAreNumbers
<1>8. Behind(ks, k, b)
  BY <1>3, <1>6, <1>7, LowerBoundIs
<1>9. b + 1 \in 1 .. Len(rows) + 1
  BY <1>6, <1>8 DEF Behind
<1>10. row \in Row /\ row \in Own /\ row[1] = k
  BY <1>1, <1>3, CopiesAssumption DEF Original, Row, Own
<1>11. all = InsertAt(rows, b + 1, row)
  BY <1>1, <1>3, <1>10 DEF WithRow
<1>12. all \in Seq(Own) /\ Len(all) = Len(rows) + 1
  <2>1. PICK j : j = b + 1
    OBVIOUS
  <2>2. j \in 1 .. Len(rows) + 1
    BY <1>9, <2>1
  <2>3. InsertAt(rows, j, row) \in Seq(Own) /\ Len(InsertAt(rows, j, row)) = Len(rows) + 1
    BY ONLY <1>5, <1>10, <2>2, InsertAtIs
  <2>. QED  BY <1>11, <2>1, <2>3
<1>13. all \in Seq(Row) /\ KeysOf(all) = InsertAt(ks, b + 1, k)
  BY <1>3, <1>5, <1>9, <1>10, <1>11, KeysInsertAt
<1>14. ~ Has(T, a, k)
  BY <1>1, <1>2, HasInLeaf
<1>15. PICK W : W = Write(T, a, InsertAt(Keys(T, a), b + 1, k))
  OBVIOUS
<1>16. /\ Tree(W) /\ Nodes(W) = Nodes(T) /\ Top(W) = Top(T) /\ Keys(W, a) = InsertAt(Keys(T, a), b + 1, k)
       /\ \A x \in Nodes(T) : /\ Lev(W, x) = Lev(T, x) /\ Kids(W, x) = Kids(T, x) /\ Up(W, x) = Up(T, x)
                              /\ Span(W, x) = Span(T, x) /\ (x # a => Keys(W, x) = Keys(T, x))
       /\ LeafKeys(W) = LeafKeys(T) \cup {k} /\ InnerKeys(W) = InnerKeys(T)
  BY <1>1, <1>2, <1>4, <1>8, <1>14, <1>15, PutTree
<1>17. Written(T, W, a, KeysOf(all))
  BY <1>4, <1>13, <1>16 DEF Written
<1>. QED  BY <1>3, <1>12, <1>13, <1>16, <1>17

\* The rows of the node a are R in ns2, and nothing else has changed.
Rewritten(ns2, ns, a, R) ==
  /\ ns2 \in [Node -> NodeRec] /\ RowsAt(ns2, a) = R
  /\ \A x \in Node : /\ KidsAt(ns2, x) = KidsAt(ns, x) /\ ParentAt(ns2, x) = ParentAt(ns, x)
                     /\ LeafAt(ns2, x) = LeafAt(ns, x) /\ (x # a => RowsAt(ns2, x) = RowsAt(ns, x))

\* One field of a node is written, and nothing else.
LEMMA SetRows ==
  ASSUME NEW ns, ns \in [Node -> NodeRec], NEW a \in Node, NEW R \in Seq(Row), NEW ns2, ns2 = [ns EXCEPT ![a].rows = R]
  PROVE  Rewritten(ns2, ns, a, R)
BY DEF NodeRec, RowsAt, KidsAt, ParentAt, LeafAt, Rewritten

\* InsertInLeaf.
Puts(T, ns, us, rt, lv, a, k, all, ns2) ==
  /\ GoodIdle(T, ns, us, rt, lv) /\ Putting(T, ns, us, rt, a, k, all)
  /\ Len(RowsAt(ns, a)) < MaxRows /\ Rewritten(ns2, ns, a, all)
\* The tree is another, with the same keys in its leaves.
Kept(T, ns2, us2, rt2, lv2) == \E W : GoodIdle(W, ns2, us2, rt2, lv2) /\ LeafKeys(W) = LeafKeys(T)
PutIn(T, ns2, us, rt, lv2, k) ==
  \E W : /\ GoodIdle(W, ns2, us, rt, lv2)
         /\ LeafKeys(W) = LeafKeys(T) \cup {k} /\ InnerKeys(W) = InnerKeys(T)

\* The leaf has room: the key is stored, and nothing is left to be done.
LEMMA PutIdle ==
  ASSUME NEW T, NEW ns, NEW us, NEW rt, NEW lv, NEW a, NEW k, NEW all, NEW ns2, Puts(T, ns, us, rt, lv, a, k, all, ns2)
  PROVE  PutIn(T, ns2, us, rt, lv \cup {Original(k)}, k)
<1>0. /\ GoodIdle(T, ns, us, rt, lv) /\ Putting(T, ns, us, rt, a, k, all)
      /\ Len(RowsAt(ns, a)) < MaxRows /\ Rewritten(ns2, ns, a, all)
  BY DEF Puts
<1>1. /\ View(T, ns, us, rt, Nil) /\ Nil \notin Nodes(T) /\ a \in us /\ LeafAt(ns, a)
  BY <1>0 DEF Putting
<1>3. all \in Seq(Own) /\ all \in Seq(Row) /\ Len(all) = Len(RowsAt(ns, a)) + 1
  BY <1>0, PutPlace
<1>4. PICK W : /\ Written(T, W, a, KeysOf(all))
               /\ LeafKeys(W) = LeafKeys(T) \cup {k} /\ InnerKeys(W) = InnerKeys(T)
  BY <1>0, PutPlace
<1>5. /\ a \in Node /\ a # Nil /\ a \in Nodes(T) /\ Shaped(ns, us) /\ ns \in [Node -> NodeRec] /\ Nodes(T) = us /\ us \subseteq Node
  <2>1. a \in Node /\ a # Nil /\ a \in Nodes(T) /\ Shaped(ns, us) /\ Nodes(T) = us
    BY <1>1, ViewFacts
  <2>. QED  BY <1>1, <2>1 DEF Shaped, View
<1>6. /\ ns2 \in [Node -> NodeRec]
      /\ RowsAt(ns2, a) = all
      /\ \A x \in Node : /\ KidsAt(ns2, x) = KidsAt(ns, x) /\ ParentAt(ns2, x) = ParentAt(ns, x)
                         /\ LeafAt(ns2, x) = LeafAt(ns, x) /\ (x # a => RowsAt(ns2, x) = RowsAt(ns, x))
  BY <1>0 DEF Rewritten
<1>7. Len(RowsAt(ns, a)) \in Nat /\ Len(all) <= MaxRows /\ MaxRows \in Nat /\ Len(KidsAt(ns, a)) = 0
  BY <1>0, <1>1, <1>3, <1>5, ShapedFacts, DegreeAssumption DEF MaxRows
<1>8. Shaped(ns2, us)
  <2>1. ASSUME NEW x \in Node PROVE ShapedAt(ns2, x) /\ (x \notin us => LeafAt(ns2, x))
    <3>1. ShapedAt(ns, x) /\ (x \notin us => LeafAt(ns, x))
      BY <1>5 DEF Shaped
    <3>2. CASE x = a
      <4>1. LeafAt(ns2, a) = TRUE
        BY <1>1, <1>5, <1>6, ShapedFacts
      <4>. QED  BY <1>1, <1>3, <1>6, <1>7, <3>2, <4>1 DEF ShapedAt, Tagged
    <3>3. CASE x # a
      BY <1>6, <3>1, <3>3 DEF ShapedAt
    <3>. QED  BY <3>2, <3>3
  <2>. QED  BY <1>6, <2>1 DEF Shaped
<1>9. View(W, ns2, us, rt, Nil) /\ Nil \notin Nodes(W)
  <2>1. ASSUME NEW x \in us PROVE /\ Up(W, x) = ParentAt(ns2, x) /\ (Lev(W, x) = 0 <=> LeafAt(ns2, x))
                                  /\ Keys(W, x) = KeysAt(ns2, x) /\ Kids(W, x) = KidsAt(ns2, x)
    <3>1. /\ x \in Node /\ x # Nil /\ x \in Nodes(T) /\ Up(T, x) = ParentAt(ns, x) /\ (Lev(T, x) = 0 <=> LeafAt(ns, x))
          /\ Keys(T, x) = KeysAt(ns, x) /\ Kids(T, x) = KidsAt(ns, x)
      BY <1>1, ViewFacts
    <3>2. Keys(W, x) = KeysAt(ns2, x)
      BY <1>4, <1>6, <3>1 DEF KeysAt, Written
    <3>. QED  BY <1>4, <1>6, <3>1, <3>2 DEF Written
  <2>2. Tree(W) /\ Nodes(W) = Nodes(T) /\ Top(W) = Top(T)
    BY <1>4 DEF Written
  <2>3. rt \in us /\ ParentAt(ns, rt) = Nil /\ Top(T) = rt
    BY <1>1, ViewFacts DEF View
  <2>. QED  BY <1>1, <1>5, <1>6, <1>8, <2>1, <2>2, <2>3 DEF View
<1>10. AllFilled(ns2, us, rt, Nil)
  <2>1. ASSUME NEW x \in us PROVE \/ Len(RowsAt(ns2, x)) >= Degree - 1
                                  \/ x = rt /\ (LeafAt(ns2, x) \/ Len(RowsAt(ns2, x)) >= 1)
    <3>1. \/ Len(RowsAt(ns, x)) >= Degree - 1
          \/ x = rt /\ (LeafAt(ns, x) \/ Len(RowsAt(ns, x)) >= 1)
      BY <1>0, <1>1, ViewFacts DEF GoodIdle, AllFilled
    <3>2. Len(RowsAt(ns2, x)) \in Nat /\ Len(RowsAt(ns, x)) \in Nat /\ Len(RowsAt(ns2, x)) >= Len(RowsAt(ns, x)) /\ LeafAt(ns2, x) = LeafAt(ns, x)
      <4>1. x \in Node /\ LeafAt(ns2, x) = LeafAt(ns, x)
        BY <1>5, <1>6
      <4>2. Len(RowsAt(ns2, x)) \in Nat /\ Len(RowsAt(ns, x)) \in Nat
        BY <1>5, <1>8, <4>1, ShapedFacts
      <4>3. Len(RowsAt(ns2, x)) = Len(RowsAt(ns, x)) \/ Len(RowsAt(ns2, x)) = Len(RowsAt(ns, x)) + 1
        BY <1>3, <1>6, <4>1
      <4>. QED  BY <4>1, <4>2, <4>3
    <3>. QED  BY <3>1, <3>2, DegreeAssumption
  <2>. QED  BY <2>1 DEF AllFilled
<1>11. lv \cup {Original(k)} = Recs(LeafKeys(W), InnerKeys(W))
  <2>1. lv = Recs(LeafKeys(T), InnerKeys(T)) /\ Original(k) = <<k, 0>>
    BY <1>0 DEF GoodIdle, Original
  <2>2. Recs(LeafKeys(T), InnerKeys(T)) \cup {<<k, 0>>} = Recs(LeafKeys(T) \cup {k}, InnerKeys(T))
    BY RecsPut
  <2>. QED  BY <1>4, <2>1, <2>2
<1>. QED  BY <1>4, <1>9, <1>10, <1>11 DEF GoodIdle, PutIn

\* right is to hang behind at, with the separator k between them.
SplitShown(T, ns, us, rt, at, right, k) ==
  /\ at \in us /\ right \in us /\ at # right
  /\ ParentAt(ns, at) = Nil => Nil \in Nodes(T) /\ at = rt /\ Keys(T, Nil) = <<k>> /\ Kids(T, Nil) = <<at, right>>
  /\ ParentAt(ns, at) # Nil =>
       /\ Nil \notin Nodes(T) /\ ParentAt(ns, at) \in us /\ ~ LeafAt(ns, ParentAt(ns, at))
       /\ \E j \in 1 .. Len(KidsAt(ns, ParentAt(ns, at))) :
            /\ KidsAt(ns, ParentAt(ns, at))[j] = at
            /\ Inserted(Keys(T, ParentAt(ns, at)), KeysAt(ns, ParentAt(ns, at)), j, k)
            /\ Inserted(Kids(T, ParentAt(ns, at)), KidsAt(ns, ParentAt(ns, at)), j + 1, right)

GoodSplit(T, ns, us, rt, lv, at, right, k, copy) ==
  /\ View(T, ns, us, rt, ParentAt(ns, at)) /\ AllFilled(ns, us, rt, Nil)
  /\ SplitShown(T, ns, us, rt, at, right, k) /\ Len(RowsAt(ns, at)) >= Degree - 1
  /\ k \in InnerKeys(T)
  /\ lv = Recs(LeafKeys(T), IF copy THEN InnerKeys(T) \ {k} ELSE InnerKeys(T))

\* ns2 is ns with the node a, which in T has more rows, broken in two.
Breaking(T, W, ns, ns2, us, rt, a, r, e) ==
  /\ Tree(T) /\ Nodes(T) = us /\ Top(T) = rt /\ us \subseteq Node /\ a \in us /\ r \in Node /\ r \notin us
  /\ \A x \in us : /\ Up(T, x) = ParentAt(ns, x) /\ (Lev(T, x) = 0 <=> LeafAt(ns, x))
                   /\ (x # a => Keys(T, x) = KeysAt(ns, x) /\ Kids(T, x) = KidsAt(ns, x))
  /\ Tree(W) /\ Broken(T, W, a, r, e, KeysAt(ns2, a), KidsAt(ns2, a), KeysAt(ns2, r), KidsAt(ns2, r))
  /\ e \in Key /\ Shaped(ns2, us \cup {r})
  /\ \A x \in us : /\ x # a => KeysAt(ns2, x) = KeysAt(ns, x) /\ KidsAt(ns2, x) = KidsAt(ns, x)
                   /\ LeafAt(ns2, x) = LeafAt(ns, x)
                   /\ ParentAt(ns2, x) = IF In(KidsAt(ns2, r), x) THEN r ELSE ParentAt(ns, x)
  /\ LeafAt(ns2, r) = LeafAt(ns, a) /\ ParentAt(ns2, r) = ParentAt(ns, a)

\* A node broken in the tree and in the nodes alike: the nodes show the tree.
LEMMA BreakShown ==
  ASSUME NEW T, NEW W, NEW ns, NEW ns2, NEW us, NEW rt, NEW a, NEW r, NEW e,
         Breaking(T, W, ns, ns2, us, rt, a, r, e)
  PROVE  /\ View(W, ns2, us \cup {r}, rt, ParentAt(ns2, a)) /\ SplitShown(W, ns2, us \cup {r}, rt, a, r, e)
         /\ ParentAt(ns2, a) = ParentAt(ns, a)
<1>1. /\ Tree(T) /\ Nodes(T) = us /\ Top(T) = rt /\ us \subseteq Node /\ a \in us /\ r \in Node /\ r \notin us
      /\ \A x \in us : /\ Up(T, x) = ParentAt(ns, x) /\ (Lev(T, x) = 0 <=> LeafAt(ns, x))
                       /\ (x # a => Keys(T, x) = KeysAt(ns, x) /\ Kids(T, x) = KidsAt(ns, x))
      /\ Tree(W) /\ e \in Key /\ Shaped(ns2, us \cup {r})
      /\ \A x \in us : /\ x # a => KeysAt(ns2, x) = KeysAt(ns, x) /\ KidsAt(ns2, x) = KidsAt(ns, x)
                       /\ LeafAt(ns2, x) = LeafAt(ns, x)
                       /\ ParentAt(ns2, x) = IF In(KidsAt(ns2, r), x) THEN r ELSE ParentAt(ns, x)
      /\ LeafAt(ns2, r) = LeafAt(ns, a) /\ ParentAt(ns2, r) = ParentAt(ns, a)
  BY DEF Breaking
<1>2. PICK kl, cl, kr, cr, p : /\ kl = KeysAt(ns2, a) /\ cl = KidsAt(ns2, a) /\ kr = KeysAt(ns2, r) /\ cr = KidsAt(ns2, r)
                               /\ p = ParentAt(ns, a)
  OBVIOUS
<1>3. Broken(T, W, a, r, e, kl, cl, kr, cr)
  BY <1>2 DEF Breaking
<1>4. /\ Nodes(W) = us \cup {r, p} /\ Top(W) = IF a = rt THEN Nil ELSE rt
      /\ Keys(W, a) = kl /\ Kids(W, a) = cl /\ Keys(W, r) = kr /\ Kids(W, r) = cr
      /\ \A x \in us \ {a, p} : Keys(W, x) = Keys(T, x) /\ Kids(W, x) = Kids(T, x)
      /\ Lev(W, r) = Lev(T, a) /\ \A x \in us : Lev(W, x) = Lev(T, x)
      /\ Up(W, r) = p /\ \A x \in us : Up(W, x) = IF IsKid(W, r, x) THEN r ELSE Up(T, x)
  BY <1>1, <1>2, <1>3 DEF Broken
<1>5. rt \in us /\ rt \in Node /\ Nil \notin us /\ r # Nil /\ rt # Nil
  BY <1>1, NilAssumption DEF Tree
<1>6. p = Nil <=> a = rt
  <2>1. Up(T, rt) = Nil
    BY <1>1 DEF Tree
  <2>2. a # rt => Up(T, a) \in us
    BY <1>1, HungFacts
  <2>. QED  BY <1>1, <1>2, <1>5, <2>1, <2>2
<1>7. a # rt => p \in us /\ p # a /\ Lev(T, p) # 0 /\ p # r
  <2>1. ASSUME a # rt PROVE p \in us /\ p # a /\ Lev(T, p) # 0 /\ p # r
    <3>1. p \in us /\ Lev(T, a) + 1 = Lev(T, p)
      BY <1>1, <1>2, <2>1, HungFacts
    <3>2. Lev(T, a) \in Nat
      BY <1>1, NodeFacts
    <3>. QED  BY <1>1, <3>1, <3>2
  <2>. QED  BY <2>1
<1>8. \A x \in us : IsKid(W, r, x) <=> In(KidsAt(ns2, r), x)
  BY <1>2, <1>4 DEF IsKid, In
<1>9. ~ IsKid(W, r, a) /\ ~ IsKid(W, r, rt)
  <2>1. r \in Nodes(W) /\ a \in Nodes(W) /\ rt \in Nodes(W)
    BY <1>1, <1>4, <1>5
  <2>2. \A i \in 1 .. Len(Kids(W, r)) : Lev(W, Kids(W, r)[i]) + 1 = Lev(W, r)
    BY <1>1, <2>1, KidFacts
  <2>3. Lev(T, a) \in Nat /\ Lev(T, rt) \in Nat /\ Lev(T, a) <= Lev(T, rt)
    BY <1>1, NodeFacts
  <2>4. Lev(W, a) = Lev(T, a) /\ Lev(W, r) = Lev(T, a) /\ Lev(W, rt) = Lev(T, rt)
    BY <1>1, <1>4, <1>5
  <2>5. ASSUME NEW x, IsKid(W, r, x) PROVE Lev(W, x) + 1 = Lev(W, r)
    BY <2>2, <2>5 DEF IsKid
  <2>6. Lev(W, a) + 1 # Lev(W, r) /\ Lev(W, rt) + 1 # Lev(W, r)
    BY <2>3, <2>4
  <2>. QED  BY <2>5, <2>6
<1>10. ParentAt(ns2, a) = p /\ ParentAt(ns2, rt) = Nil
  <2>1. Up(T, rt) = Nil
    BY <1>1 DEF Tree
  <2>. QED  BY <1>1, <1>2, <1>5, <1>8, <1>9, <2>1
<1>11. View(W, ns2, us \cup {r}, rt, p)
  <2>1. us \cup {r} \subseteq Node /\ rt \in us \cup {r}
    BY <1>1, <1>5
  <2>2. us \cup {r} \subseteq Nodes(W) /\ Nodes(W) \subseteq (us \cup {r}) \cup {Nil}
    BY <1>4, <1>6, <1>7
  <2>3. Top(W) = IF Nil \in Nodes(W) THEN Nil ELSE rt
    BY <1>4, <1>5, <1>6, <1>7
  <2>4. ASSUME NEW x \in us \cup {r} PROVE Up(W, x) = ParentAt(ns2, x) /\ (Lev(W, x) = 0 <=> LeafAt(ns2, x))
    <3>1. CASE x = r
      BY <1>1, <1>2, <1>4, <3>1
    <3>2. CASE x # r
      <4>1. x \in us
        BY <3>2
      <4>2. Up(W, x) = ParentAt(ns2, x)
        BY <1>1, <1>4, <1>8, <4>1
      <4>3. Lev(W, x) = Lev(T, x) /\ LeafAt(ns2, x) = LeafAt(ns, x) /\ (Lev(T, x) = 0 <=> LeafAt(ns, x))
        BY <1>1, <1>4, <4>1
      <4>. QED  BY <4>2, <4>3
    <3>. QED  BY <3>1, <3>2
  <2>5. ASSUME NEW x \in us \cup {r}, x # p PROVE Keys(W, x) = KeysAt(ns2, x) /\ Kids(W, x) = KidsAt(ns2, x)
    <3>1. CASE x = r
      BY <1>2, <1>4, <3>1
    <3>2. CASE x = a
      BY <1>2, <1>4, <3>2
    <3>3. CASE x # r /\ x # a
      <4>1. x \in us \ {a, p}
        BY <2>5, <3>3
      <4>. QED  BY <1>1, <1>4, <4>1
    <3>. QED  BY <3>1, <3>2, <3>3
  <2>. QED  BY <1>1, <1>10, <2>1, <2>2, <2>3, <2>4, <2>5 DEF View
<1>12. SplitShown(W, ns2, us \cup {r}, rt, a, r, e)
  <2>1. ASSUME p = Nil PROVE Nil \in Nodes(W) /\ a = rt /\ Keys(W, Nil) = <<e>> /\ Kids(W, Nil) = <<a, r>>
    <3>1. a = Top(T)
      BY <1>1, <1>6, <2>1
    <3>. QED  BY <1>3, <1>4, <1>6, <2>1, <3>1 DEF Broken
  <2>2. ASSUME p # Nil
        PROVE  /\ Nil \notin Nodes(W) /\ p \in us \cup {r} /\ ~ LeafAt(ns2, p)
               /\ \E j \in 1 .. Len(KidsAt(ns2, p)) :
                    /\ KidsAt(ns2, p)[j] = a
                    /\ Inserted(Keys(W, p), KeysAt(ns2, p), j, e)
                    /\ Inserted(Kids(W, p), KidsAt(ns2, p), j + 1, r)
    <3>1. a # rt /\ p \in us /\ p # a /\ Lev(T, p) # 0 /\ p # r
      BY <1>6, <1>7, <2>2
    <3>2. PICK kp, cp : kp = KeysAt(ns2, p) /\ cp = KidsAt(ns2, p)
      OBVIOUS
    <3>3. Keys(T, p) = kp /\ Kids(T, p) = cp
      BY <1>1, <3>1, <3>2
    <3>4. kp \in Seq(Key) /\ cp \in Seq(us) /\ Len(cp) = Len(kp) + 1 /\ Len(kp) \in Nat
      BY <1>1, <3>1, <3>3, NodeFacts
    <3>5. PICK j \in 1 .. Len(cp) : cp[j] = a /\ Keys(W, p) = InsertAt(kp, j, e) /\ Kids(W, p) = InsertAt(cp, j + 1, r)
      <4>1. a # Top(T) /\ Up(T, a) = p
        BY <1>1, <1>2, <3>1
      <4>. QED  BY <1>3, <3>3, <4>1 DEF Broken
    <3>6. j \in 1 .. Len(kp) + 1 /\ j + 1 \in 1 .. Len(cp) + 1
      BY <3>4
    <3>7. Inserted(Keys(W, p), kp, j, e)
      BY <1>1, <3>4, <3>5, <3>6, InsertAtInserted
    <3>8. Inserted(Kids(W, p), cp, j + 1, r)
      <4>1. cp \in Seq(Node)
        <5>1. us \subseteq Node
          BY <1>1
        <5>. QED  BY <3>4, <5>1, SeqMonotonic, Zenon
      <4>. QED  BY <1>1, <3>5, <3>6, <4>1, InsertAtInserted
    <3>9. Nil \notin Nodes(W)
      BY <1>4, <1>5, <3>1
    <3>10. ~ LeafAt(ns2, p)
      BY <1>1, <3>1
    <3>. QED  BY <3>1, <3>2, <3>5, <3>7, <3>8, <3>9, <3>10
  <2>3. a \in us \cup {r} /\ r \in us \cup {r} /\ a # r
    BY <1>1
  <2>. QED  BY <1>10, <2>1, <2>2, <2>3 DEF SplitShown
<1>. QED  BY <1>2, <1>10, <1>11, <1>12

\* The leaf a, with the rows all, is broken in two.
LeafBroken(ns2, ns, a, y, all) ==
  /\ ns2 \in [Node -> NodeRec]
  /\ RowsAt(ns2, a) = SubSeq(all, 1, Degree) /\ RowsAt(ns2, y) = SubSeq(all, Degree + 1, 2 * Degree)
  /\ KidsAt(ns2, a) = KidsAt(ns, a) /\ KidsAt(ns2, y) = << >>
  /\ ParentAt(ns2, y) = ParentAt(ns, a) /\ LeafAt(ns2, y) = TRUE
  /\ \A x \in Node \ {y} : ParentAt(ns2, x) = ParentAt(ns, x) /\ LeafAt(ns2, x) = LeafAt(ns, x)
  /\ \A x \in Node \ {a, y} : RowsAt(ns2, x) = RowsAt(ns, x) /\ KidsAt(ns2, x) = KidsAt(ns, x)

\* The assignments of SplitLeaf.
LEMMA SetHalves ==
  ASSUME NEW ns, ns \in [Node -> NodeRec], NEW a \in Node, NEW y \in Node, a # y,
         NEW all, NEW low \in Seq(Row), NEW upper \in Seq(Row),
         low = SubSeq(all, 1, Degree), upper = SubSeq(all, Degree + 1, 2 * Degree),
         NEW ns2, ns2 = [ns EXCEPT ![a].rows = low,
                                   ![y] = [leaf |-> TRUE, parent |-> ns[a].parent, rows |-> upper, child |-> << >>]]
  PROVE  LeafBroken(ns2, ns, a, y, all)
<1>1. PICK new : new = [leaf |-> TRUE, parent |-> ns[a].parent, rows |-> upper, child |-> << >>]
  OBVIOUS
<1>2. new \in NodeRec /\ new.leaf = TRUE /\ new.parent = ns[a].parent /\ new.rows = upper /\ new.child = << >>
  <2>1. ns[a].parent \in Page
    BY NodeRecIs DEF ParentAt
  <2>2. << >> \in Seq(Node) /\ TRUE \in BOOLEAN
    OBVIOUS
  <2>3. PICK p, c : p = ns[a].parent /\ c = << >>
    OBVIOUS
  <2>4. new = [leaf |-> TRUE, parent |-> p, rows |-> upper, child |-> c] /\ p \in Page /\ c \in Seq(Node)
    BY ONLY <1>1, <2>1, <2>2, <2>3, Zenon
  <2>5. new \in NodeRec
    BY ONLY <2>2, <2>4, upper \in Seq(Row), Zenon DEF NodeRec
  <2>6. new.leaf = TRUE /\ new.parent = p /\ new.rows = upper /\ new.child = c
    BY ONLY <2>4, Zenon
  <2>. QED  BY <2>3, <2>5, <2>6, Zenon
<1>3. ns2 = [ns EXCEPT ![a].rows = low, ![y] = new]
  BY <1>1
<1>4. /\ ns2 \in [Node -> NodeRec] /\ RowsAt(ns2, a) = low /\ RowsAt(ns2, y) = upper
      /\ KidsAt(ns2, a) = KidsAt(ns, a) /\ KidsAt(ns2, y) = << >>
      /\ ParentAt(ns2, y) = ParentAt(ns, a) /\ LeafAt(ns2, y) = TRUE
      /\ \A x \in Node \ {y} : ParentAt(ns2, x) = ParentAt(ns, x) /\ LeafAt(ns2, x) = LeafAt(ns, x)
      /\ \A x \in Node \ {a, y} : RowsAt(ns2, x) = RowsAt(ns, x) /\ KidsAt(ns2, x) = KidsAt(ns, x)
  <2>1. new.leaf = TRUE /\ new.parent = ns[a].parent /\ new.rows = upper /\ new.child = << >>
    BY <1>2
  <2>2. ns2 \in [Node -> NodeRec]
    <3>1. PICK old : old = [ns[a] EXCEPT !.rows = low]
      OBVIOUS
    <3>2. ns[a] \in NodeRec
      OBVIOUS
    <3>3. old \in NodeRec
      BY <3>1, <3>2 DEF NodeRec
    <3>4. ns2 = [ns EXCEPT ![a] = old, ![y] = new]
      BY <1>3, <3>1
    <3>. QED  BY ONLY ns \in [Node -> NodeRec], a \in Node, y \in Node, <1>2, <3>3, <3>4
  <2>3. ns2[y] = new /\ ns2[a] = [ns[a] EXCEPT !.rows = low] /\ \A x \in Node \ {a, y} : ns2[x] = ns[x]
    BY <1>3, Zenon
  <2>4. ns[a] \in NodeRec
    OBVIOUS
  <2>5. /\ RowsAt(ns2, a) = low /\ KidsAt(ns2, a) = KidsAt(ns, a)
        /\ ParentAt(ns2, a) = ParentAt(ns, a) /\ LeafAt(ns2, a) = LeafAt(ns, a)
    BY <2>3, <2>4 DEF NodeRec, RowsAt, KidsAt, ParentAt, LeafAt
  <2>6. RowsAt(ns2, y) = upper /\ KidsAt(ns2, y) = << >> /\ ParentAt(ns2, y) = ParentAt(ns, a) /\ LeafAt(ns2, y) = TRUE
    BY <2>1, <2>3 DEF RowsAt, KidsAt, ParentAt, LeafAt
  <2>7. ASSUME NEW x \in Node \ {a, y}
        PROVE  /\ RowsAt(ns2, x) = RowsAt(ns, x) /\ KidsAt(ns2, x) = KidsAt(ns, x)
               /\ ParentAt(ns2, x) = ParentAt(ns, x) /\ LeafAt(ns2, x) = LeafAt(ns, x)
    BY <2>3 DEF RowsAt, KidsAt, ParentAt, LeafAt
  <2>. QED  BY <2>2, <2>5, <2>6, <2>7
<1>. QED  BY <1>4 DEF LeafBroken

\* A leaf is cut in two.
LeafCutting(W, a, all, low, upper, cl) ==
  /\ all \in Seq(Row) /\ Len(all) = 2 * Degree /\ Lev(W, a) = 0 /\ Keys(W, a) = KeysOf(all) /\ Len(Kids(W, a)) = 0
  /\ low = SubSeq(all, 1, Degree) /\ upper = SubSeq(all, Degree + 1, 2 * Degree) /\ Len(cl) = 0 /\ cl \in Seq(Node)

\* The halves of a full leaf, as the tree has them.
LEMMA LeafCut ==
  ASSUME NEW W, NEW a, NEW all, NEW low, NEW upper, NEW cl, LeafCutting(W, a, all, low, upper, cl)
  PROVE  /\ low \in Seq(Row) /\ Len(low) = Degree /\ upper \in Seq(Row) /\ Len(upper) = Degree
         /\ KeysOf(upper)[1] = upper[1][1] /\ upper[1][1] \in Key
         /\ Cut(W, a, upper[1][1], KeysOf(low), cl, KeysOf(upper), << >>)
<1>. /\ all \in Seq(Row) /\ Len(all) = 2 * Degree /\ Lev(W, a) = 0 /\ Keys(W, a) = KeysOf(all) /\ Len(Kids(W, a)) = 0
     /\ low = SubSeq(all, 1, Degree) /\ upper = SubSeq(all, Degree + 1, 2 * Degree) /\ Len(cl) = 0 /\ cl \in Seq(Node)
  BY DEF LeafCutting
<1>1. Degree \in Nat /\ Degree >= 2 /\ 2 * Degree \in Nat /\ Degree <= 2 * Degree /\ 2 * Degree - Degree = Degree
  BY DegreeAssumption
<1>2. PICK m, z : m = Degree + 1 /\ z = 2 * Degree
  OBVIOUS
<1>3. /\ SubSeq(all, 1, Degree) \in Seq(Row) /\ Len(SubSeq(all, 1, Degree)) = Degree
      /\ SubSeq(all, m, z) \in Seq(Row) /\ Len(SubSeq(all, m, z)) = z - Degree
      /\ Glued(all, SubSeq(all, 1, Degree), SubSeq(all, m, z))
  <2>1. Degree <= Len(all) /\ z = Len(all)
    BY <1>1, <1>2
  <2>. QED  BY ONLY <1>1, <1>2, <2>1, all \in Seq(Row), HalvesGlued
<1>4. /\ low \in Seq(Row) /\ Len(low) = Degree /\ upper \in Seq(Row) /\ Len(upper) = Degree
      /\ Glued(all, low, upper)
  BY <1>1, <1>2, <1>3
<1>5. Glued(KeysOf(all), KeysOf(low), KeysOf(upper))
  BY <1>4, KeysGlued
<1>6. /\ KeysOf(low) \in Seq(Key) /\ KeysOf(upper) \in Seq(Key) /\ Len(KeysOf(low)) = Degree /\ Len(KeysOf(upper)) = Degree
  BY <1>4, KeysAreKeys, KeysOfIs
<1>7. 1 \in 1 .. Len(upper)
  BY <1>1, <1>4
<1>8. KeysOf(upper)[1] = upper[1][1] /\ upper[1][1] \in Key
  BY <1>4, <1>7, KeysOfIs
<1>9. Glued(Kids(W, a), cl, << >>)
  BY DEF Glued
<1>10. cl \in Seq(Nodes(W)) /\ << >> \in Seq(Nodes(W))
  BY SeqOfOthers
<1>11. PICK kl, kr, e : kl = KeysOf(low) /\ kr = KeysOf(upper) /\ e = upper[1][1]
  OBVIOUS
<1>12. /\ kl \in Seq(Key) /\ kr \in Seq(Key) /\ Len(kl) >= 1 /\ Len(kr) >= 1 /\ e = kr[1] /\ Glued(Keys(W, a), kl, kr)
  BY <1>1, <1>5, <1>6, <1>8, <1>11
<1>13. Cut(W, a, e, kl, cl, kr, << >>)
  BY <1>9, <1>10, <1>12 DEF Cut
<1>. QED  BY <1>4, <1>8, <1>11, <1>13

\* The hypotheses of a leaf's split.
Breaks(T, ns, us, rt, lv, a, k, all, y, ns2) ==
  /\ GoodIdle(T, ns, us, rt, lv) /\ Putting(T, ns, us, rt, a, k, all) /\ Len(RowsAt(ns, a)) = MaxRows
  /\ y \in Node /\ y \notin us /\ LeafBroken(ns2, ns, a, y, all)

PutApart(T, ns2, us2, rt, lv2, a, y, row, k) ==
  \E W, e : /\ e \in Key /\ row = <<e, 0>> /\ GoodSplit(W, ns2, us2, rt, lv2, a, y, e, TRUE)
            /\ LeafKeys(W) = LeafKeys(T) \cup {k}

\* SplitLeaf.
LEMMA PutSplit ==
  ASSUME NEW T, NEW ns, NEW us, NEW rt, NEW lv, NEW a, NEW k, NEW all, NEW y, NEW ns2,
         Breaks(T, ns, us, rt, lv, a, k, all, y, ns2)
  PROVE  PutApart(T, ns2, us \cup {y}, rt, lv \cup {Original(k)}, a, y, RowsAt(ns2, y)[1], k)
<1>1. /\ GoodIdle(T, ns, us, rt, lv) /\ Putting(T, ns, us, rt, a, k, all) /\ Len(RowsAt(ns, a)) = MaxRows
      /\ y \in Node /\ y \notin us /\ LeafBroken(ns2, ns, a, y, all)
  BY DEF Breaks
<1>2. View(T, ns, us, rt, Nil) /\ Nil \notin Nodes(T) /\ a \in us /\ LeafAt(ns, a) /\ k \in Key
  BY <1>1 DEF Putting
<1>3. all \in Seq(Own) /\ all \in Seq(Row) /\ Len(all) = Len(RowsAt(ns, a)) + 1
  BY <1>1, PutPlace
<1>4. PICK W1 : /\ Written(T, W1, a, KeysOf(all))
                /\ LeafKeys(W1) = LeafKeys(T) \cup {k} /\ InnerKeys(W1) = InnerKeys(T)
  BY <1>1, PutPlace
<1>5. Degree \in Nat /\ Degree >= 2 /\ Len(all) = 2 * Degree
  BY <1>1, <1>3, DegreeAssumption DEF MaxRows
<1>6. /\ a \in Node /\ a # Nil /\ a \in Nodes(T) /\ Shaped(ns, us) /\ Nodes(T) = us /\ Top(T) = rt /\ Lev(T, a) = 0
      /\ Kids(T, a) = KidsAt(ns, a) /\ us \subseteq Node
  <2>1. us \subseteq Node
    BY <1>2 DEF View
  <2>. QED  BY <1>2, <2>1, ViewFacts
<1>7. Len(KidsAt(ns, a)) = 0 /\ KidsAt(ns, a) \in Seq(Node)
  BY <1>2, <1>6, ShapedFacts
<1>8. /\ Tree(W1) /\ Nodes(W1) = us /\ Top(W1) = rt /\ Keys(W1, a) = KeysOf(all)
      /\ \A x \in us : /\ Lev(W1, x) = Lev(T, x) /\ Kids(W1, x) = Kids(T, x) /\ Up(W1, x) = Up(T, x)
                       /\ (x # a => Keys(W1, x) = Keys(T, x))
  BY <1>4, <1>6 DEF Written
<1>9. PICK low, upper, cl : low = SubSeq(all, 1, Degree) /\ upper = SubSeq(all, Degree + 1, 2 * Degree) /\ cl = KidsAt(ns, a)
  OBVIOUS
<1>10. /\ low \in Seq(Row) /\ Len(low) = Degree /\ upper \in Seq(Row) /\ Len(upper) = Degree
       /\ KeysOf(upper)[1] = upper[1][1] /\ upper[1][1] \in Key
       /\ Cut(W1, a, upper[1][1], KeysOf(low), cl, KeysOf(upper), << >>)
  <2>1. Lev(W1, a) = 0 /\ Len(Kids(W1, a)) = 0
    BY <1>2, <1>6, <1>7, <1>8
  <2>2. LeafCutting(W1, a, all, low, upper, cl)
    BY <1>3, <1>5, <1>7, <1>8, <1>9, <2>1 DEF LeafCutting
  <2>. QED  BY <2>2, LeafCut
<1>11. PICK e, kl, kr : e = upper[1][1] /\ kl = KeysOf(low) /\ kr = KeysOf(upper)
  OBVIOUS
<1>12. PICK W : /\ Tree(W) /\ Broken(W1, W, a, y, e, kl, cl, kr, << >>)
                /\ LeafKeys(W) = LeafKeys(W1) /\ InnerKeys(W) = InnerKeys(W1) \cup {e} /\ e \in Key
                /\ Lev(W1, a) = 0 => e \notin InnerKeys(W1)
  BY <1>1, <1>2, <1>6, <1>8, <1>10, <1>11, BreakTree
<1>13. /\ ns2 \in [Node -> NodeRec]
       /\ RowsAt(ns2, a) = low /\ RowsAt(ns2, y) = upper
       /\ KidsAt(ns2, a) = cl /\ KidsAt(ns2, y) = << >>
       /\ ParentAt(ns2, y) = ParentAt(ns, a) /\ LeafAt(ns2, y) = TRUE
       /\ \A x \in Node \ {y} : ParentAt(ns2, x) = ParentAt(ns, x) /\ LeafAt(ns2, x) = LeafAt(ns, x)
       /\ \A x \in Node \ {a, y} : RowsAt(ns2, x) = RowsAt(ns, x) /\ KidsAt(ns2, x) = KidsAt(ns, x)
  BY <1>1, <1>9 DEF LeafBroken
<1>14. low \in Seq(Own) /\ upper \in Seq(Own)
  <2>1. PICK m, z : m = Degree + 1 /\ z = 2 * Degree
    OBVIOUS
  <2>2. Degree <= Len(all) /\ z = Len(all)
    BY <1>5, <2>1
  <2>3. SubSeq(all, 1, Degree) \in Seq(Own) /\ SubSeq(all, m, z) \in Seq(Own)
    BY <1>3, <1>5, <2>1, <2>2, HalvesGlued
  <2>. QED  BY <1>9, <2>1, <2>3
<1>15. Shaped(ns2, us \cup {y})
  <2>1. ASSUME NEW x \in Node PROVE ShapedAt(ns2, x) /\ (x \notin us \cup {y} => LeafAt(ns2, x))
    <3>1. ShapedAt(ns, x) /\ (x \notin us => LeafAt(ns, x))
      BY <1>6 DEF Shaped
    <3>2. CASE x = a
      <4>1. LeafAt(ns2, a) = TRUE
        BY <1>1, <1>2, <1>6, <1>13, ShapedFacts
      <4>2. Degree <= MaxRows
        BY <1>5 DEF MaxRows
      <4>. QED  BY <1>7, <1>9, <1>10, <1>13, <1>14, <3>2, <4>1, <4>2 DEF ShapedAt, Tagged
    <3>3. CASE x = y
      <4>1. Degree <= MaxRows
        BY <1>5 DEF MaxRows
      <4>. QED  BY <1>10, <1>13, <1>14, <3>3, <4>1 DEF ShapedAt, Tagged
    <3>4. CASE x # a /\ x # y
      <4>1. x \in Node \ {y} /\ x \in Node \ {a, y}
        BY <3>4
      <4>. QED  BY <1>13, <3>1, <3>4, <4>1 DEF ShapedAt
    <3>. QED  BY <3>2, <3>3, <3>4
  <2>. QED  BY <1>13, <2>1 DEF Shaped
<1>16. Breaking(W1, W, ns, ns2, us, rt, a, y, e)
  <2>1. \A x \in us : /\ Up(W1, x) = ParentAt(ns, x) /\ (Lev(W1, x) = 0 <=> LeafAt(ns, x))
                      /\ (x # a => Keys(W1, x) = KeysAt(ns, x) /\ Kids(W1, x) = KidsAt(ns, x))
    <3>1. ASSUME NEW x \in us
          PROVE  /\ Up(W1, x) = ParentAt(ns, x) /\ (Lev(W1, x) = 0 <=> LeafAt(ns, x))
                 /\ (x # a => Keys(W1, x) = KeysAt(ns, x) /\ Kids(W1, x) = KidsAt(ns, x))
      <4>1. /\ x # Nil /\ Up(T, x) = ParentAt(ns, x) /\ (Lev(T, x) = 0 <=> LeafAt(ns, x))
            /\ Keys(T, x) = KeysAt(ns, x) /\ Kids(T, x) = KidsAt(ns, x)
        BY <1>2, ViewFacts
      <4>. QED  BY <1>8, <4>1
    <3>. QED  BY <3>1
  <2>2. KeysAt(ns2, a) = kl /\ KidsAt(ns2, a) = cl /\ KeysAt(ns2, y) = kr /\ KidsAt(ns2, y) = << >>
    BY <1>11, <1>13 DEF KeysAt
  <2>3. Broken(W1, W, a, y, e, KeysAt(ns2, a), KidsAt(ns2, a), KeysAt(ns2, y), KidsAt(ns2, y))
    BY <1>12, <2>2
  <2>4. ASSUME NEW x \in us
        PROVE  /\ x # a => KeysAt(ns2, x) = KeysAt(ns, x) /\ KidsAt(ns2, x) = KidsAt(ns, x)
               /\ LeafAt(ns2, x) = LeafAt(ns, x)
               /\ ParentAt(ns2, x) = IF In(KidsAt(ns2, y), x) THEN y ELSE ParentAt(ns, x)
    <3>1. x \in Node \ {y}
      BY <1>1, <1>6
    <3>2. ~ In(KidsAt(ns2, y), x)
      BY <2>2 DEF In
    <3>3. x # a => RowsAt(ns2, x) = RowsAt(ns, x) /\ KidsAt(ns2, x) = KidsAt(ns, x)
      BY <1>13, <3>1
    <3>. QED  BY <1>13, <3>1, <3>2, <3>3 DEF KeysAt
  <2>5. LeafAt(ns2, y) = LeafAt(ns, a)
    BY <1>2, <1>6, <1>13, ShapedFacts
  <2>. QED  BY <1>1, <1>2, <1>6, <1>8, <1>12, <1>13, <1>15, <2>1, <2>3, <2>4, <2>5 DEF Breaking
<1>17. /\ View(W, ns2, us \cup {y}, rt, ParentAt(ns2, a)) /\ SplitShown(W, ns2, us \cup {y}, rt, a, y, e)
  BY <1>16, BreakShown
<1>18. AllFilled(ns2, us \cup {y}, rt, Nil)
  <2>1. ASSUME NEW x \in us \cup {y} PROVE \/ Len(RowsAt(ns2, x)) >= Degree - 1
                                           \/ x = rt /\ (LeafAt(ns2, x) \/ Len(RowsAt(ns2, x)) >= 1)
    <3>1. CASE x = a \/ x = y
      BY <1>5, <1>10, <1>13, <3>1
    <3>2. CASE x # a /\ x # y
      <4>1. x \in us /\ x # Nil /\ x \in Node \ {y} /\ x \in Node \ {a, y}
        BY <1>6, <3>2, NilAssumption
      <4>2. \/ Len(RowsAt(ns, x)) >= Degree - 1
            \/ x = rt /\ (LeafAt(ns, x) \/ Len(RowsAt(ns, x)) >= 1)
        BY <1>1, <4>1 DEF GoodIdle, AllFilled
      <4>. QED  BY <1>13, <4>1, <4>2
    <3>. QED  BY <3>1, <3>2
  <2>. QED  BY <2>1 DEF AllFilled
<1>19. /\ e \notin InnerKeys(T) /\ InnerKeys(W) = InnerKeys(T) \cup {e} /\ LeafKeys(W) = LeafKeys(T) \cup {k}
  BY <1>2, <1>4, <1>6, <1>8, <1>12
<1>20. InnerKeys(W) \ {e} = InnerKeys(T) /\ e \in InnerKeys(W)
  BY <1>19
<1>21. lv \cup {Original(k)} = Recs(LeafKeys(W), InnerKeys(W) \ {e})
  <2>1. lv = Recs(LeafKeys(T), InnerKeys(T)) /\ Original(k) = <<k, 0>>
    BY <1>1 DEF GoodIdle, Original
  <2>2. Recs(LeafKeys(T), InnerKeys(T)) \cup {<<k, 0>>} = Recs(LeafKeys(T) \cup {k}, InnerKeys(T))
    BY RecsPut
  <2>. QED  BY <1>19, <1>20, <2>1, <2>2
<1>22. RowsAt(ns2, y)[1] = <<e, 0>> /\ e \in Key
  <2>1. upper[1] \in Own
    <3>1. 1 \in 1 .. Len(upper)
      BY <1>5, <1>10
    <3>. QED  BY <1>14, <3>1
  <2>2. upper[1] = <<upper[1][1], 0>>
    BY <2>1 DEF Own
  <2>. QED  BY <1>10, <1>11, <1>13, <2>2
<1>23. GoodSplit(W, ns2, us \cup {y}, rt, lv \cup {Original(k)}, a, y, e, TRUE)
  <2>1. Len(RowsAt(ns2, a)) >= Degree - 1
    BY <1>5, <1>10, <1>13
  <2>. QED  BY <1>17, <1>18, <1>20, <1>21, <2>1 DEF GoodSplit
<1>. QED  BY <1>19, <1>20, <1>22, <1>23 DEF PutApart

-----------------------------------------------------------------------------
(* The loop of a split.                                                     *)

\* A key has one place.
LEMMA BehindOnce ==
  ASSUME NEW ks, Len(ks) \in Nat, NEW k, NEW b, NEW c, Behind(ks, k, b), Behind(ks, k, c)
  PROVE  b = c
<1>1. /\ b \in 0 .. Len(ks) /\ c \in 0 .. Len(ks)
      /\ \A i \in 1 .. Len(ks) : i <= b <=> i <= c
  BY DEF Behind
<1>2. ASSUME b < c PROVE FALSE
  <2>1. c \in 1 .. Len(ks)
    BY <1>1, <1>2
  <2>. QED  BY <1>1, <1>2, <2>1
<1>3. ASSUME c < b PROVE FALSE
  <2>1. b \in 1 .. Len(ks)
    BY <1>1, <1>3
  <2>. QED  BY <1>1, <1>3, <2>1
<1>. QED  BY <1>1, <1>2, <1>3

\* Where a key is in sorted keys, it belongs in the others.
LEMMA InsertedBehind ==
  ASSUME NEW q \in Seq(Nat), NEW p \in Seq(Nat), NEW j, NEW k \in Nat, Inserted(q, p, j, k), Sorted(q)
  PROVE  Sorted(p) /\ Behind(p, k, j - 1)
<1>1. Sorted(p)
  BY InsertedSorted
<1>2. Len(p) \in Nat
  OBVIOUS
<1>3. /\ Len(q) = Len(p) + 1 /\ j \in Nat /\ 1 <= j /\ j <= Len(p) + 1
      /\ j \in 1 .. Len(q) /\ q[j] = k
      /\ \A i \in 1 .. j - 1 : i \in 1 .. Len(p) /\ i \in 1 .. Len(q) /\ q[i] = p[i]
      /\ \A i \in j .. Len(p) : i \in 1 .. Len(p) /\ \E x \in 1 .. Len(q) : x = i + 1 /\ q[x] = p[i]
  BY <1>2, InsertedIs
<1>4. \A x, y \in 1 .. Len(q) : x < y => q[x] < q[y]
  BY SortedIs
<1>5. ASSUME NEW i \in 1 .. Len(p) PROVE p[i] < k <=> i <= j - 1
  <2>1. p[i] \in Nat
    OBVIOUS
  <2>2. CASE i <= j - 1
    <3>1. i \in 1 .. j - 1 /\ i < j
      BY <1>3, <2>2
    <3>. QED  BY <1>3, <1>4, <2>2, <3>1
  <2>3. CASE ~ (i <= j - 1)
    <3>1. i \in j .. Len(p)
      BY <1>2, <1>3, <2>3
    <3>2. PICK x \in 1 .. Len(q) : x = i + 1 /\ q[x] = p[i]
      BY <1>3, <3>1
    <3>3. j < x
      BY <1>3, <2>3, <3>2
    <3>4. k < p[i]
      BY <1>3, <1>4, <3>2, <3>3
    <3>. QED  BY <2>1, <2>3, <3>4
  <2>. QED  BY <2>2, <2>3
<1>6. j - 1 \in 0 .. Len(p)
  BY <1>2, <1>3
<1>. QED  BY <1>1, <1>5, <1>6 DEF Behind

\* The place of k among the rows of a node that in T has it too.
LEMMA LowerBoundAt ==
  ASSUME NEW rows \in Seq(Row), NEW q \in Seq(Nat), Sorted(q), NEW j, NEW k \in Nat, Inserted(q, KeysOf(rows), j, k)
  PROVE  LowerBound(rows, k) = j - 1 /\ Sorted(KeysOf(rows)) /\ j \in 1 .. Len(rows) + 1
<1>1. PICK ks : ks = KeysOf(rows)
  OBVIOUS
<1>2. /\ ks \in Seq(Nat) /\ Len(rows) = Len(ks) /\ \A i \in 1 .. Len(ks) : rows[i][1] = ks[i]
  BY <1>1, KeysOfIs
<1>3. Sorted(ks) /\ Behind(ks, k, j - 1)
  BY <1>1, <1>2, InsertedBehind
<1>4. Behind(ks, k, LowerBound(rows, k))
  BY <1>2, <1>3, LowerBoundIs
<1>5. Len(ks) \in Nat
  BY <1>2
<1>6. LowerBound(rows, k) = j - 1
  BY <1>3, <1>4, <1>5, BehindOnce
<1>7. j \in 1 .. Len(rows) + 1
  BY <1>1, <1>2 DEF Inserted
<1>. QED  BY <1>1, <1>3, <1>6, <1>7

\* The rows and the children of the parent of the node that was split, with the new ones.
Seated(T, ns, us, rt, lv, at, right, k, copy, p, all, kids) ==
  /\ GoodSplit(T, ns, us, rt, lv, at, right, k, copy) /\ p = ParentAt(ns, at) /\ p # Nil
  /\ all = WithRow(RowsAt(ns, p), <<k, 1>>)
  /\ kids = InsertAt(KidsAt(ns, p), LowerBound(RowsAt(ns, p), k) + 2, right)

\* Where the loop of a split has put the separator.
LEMMA SeatedIs ==
  ASSUME NEW T, NEW ns, NEW us, NEW rt, NEW lv, NEW at, NEW right, NEW k, NEW copy, NEW p, NEW all, NEW kids,
         Seated(T, ns, us, rt, lv, at, right, k, copy, p, all, kids)
  PROVE  /\ View(T, ns, us, rt, p) /\ Nil \notin Nodes(T) /\ p \in us /\ ~ LeafAt(ns, p)
         /\ all \in Seq(Copied) /\ all \in Seq(Row) /\ Len(all) = Len(RowsAt(ns, p)) + 1
         /\ Keys(T, p) = KeysOf(all) /\ Kids(T, p) = kids /\ kids \in Seq(us) /\ Len(kids) = Len(all) + 1
<1>1. /\ GoodSplit(T, ns, us, rt, lv, at, right, k, copy) /\ p = ParentAt(ns, at) /\ p # Nil
      /\ all = WithRow(RowsAt(ns, p), <<k, 1>>)
      /\ kids = InsertAt(KidsAt(ns, p), LowerBound(RowsAt(ns, p), k) + 2, right)
  BY DEF Seated
<1>2. View(T, ns, us, rt, p) /\ SplitShown(T, ns, us, rt, at, right, k) /\ k \in InnerKeys(T)
  BY <1>1 DEF GoodSplit
<1>3. /\ at \in us /\ right \in us
      /\ Nil \notin Nodes(T) /\ p \in us /\ ~ LeafAt(ns, p)
      /\ \E j \in 1 .. Len(KidsAt(ns, p)) :
            /\ KidsAt(ns, p)[j] = at
            /\ Inserted(Keys(T, p), KeysAt(ns, p), j, k)
            /\ Inserted(Kids(T, p), KidsAt(ns, p), j + 1, right)
  BY <1>1, <1>2 DEF SplitShown
<1>4. PICK rows, ks, cs : rows = RowsAt(ns, p) /\ ks = KeysOf(rows) /\ cs = KidsAt(ns, p)
  OBVIOUS
<1>5. PICK j \in 1 .. Len(cs) : Inserted(Keys(T, p), ks, j, k) /\ Inserted(Kids(T, p), cs, j + 1, right)
  BY <1>3, <1>4 DEF KeysAt
<1>6. /\ p \in Node /\ p \in Nodes(T) /\ Tree(T) /\ Shaped(ns, us) /\ Lev(T, p) # 0 /\ Nodes(T) = us /\ right \in Node /\ us \subseteq Node
  <2>1. us \subseteq Node
    BY <1>2 DEF View
  <2>. QED  BY <1>2, <1>3, <2>1, ViewFacts
<1>7. rows \in Seq(Row) /\ rows \in Seq(Copied) /\ Len(rows) \in Nat /\ cs \in Seq(Node) /\ Len(cs) = Len(rows) + 1
  BY <1>3, <1>4, <1>6, ShapedFacts
<1>8. /\ Keys(T, p) \in Seq(Key) /\ Keys(T, p) \in Seq(Nat) /\ Sorted(Keys(T, p)) /\ Kids(T, p) \in Seq(us)
  BY <1>6, NodeFacts
<1>9. k \in Key /\ k \in Nat
  BY <1>2, KeysAreNumbers DEF InnerKeys
<1>10. LowerBound(rows, k) = j - 1 /\ j \in 1 .. Len(rows) + 1 /\ j \in Nat
  BY <1>4, <1>5, <1>7, <1>8, <1>9, LowerBoundAt
<1>11. PICK row, m : row = <<k, 1>> /\ m = j + 1
  OBVIOUS
<1>12. row \in Row /\ row \in Copied /\ row[1] = k
  BY <1>9, <1>11, CopiesAssumption DEF Row, Copied
<1>13. all = InsertAt(rows, j, row)
  <2>1. (j - 1) + 1 = j
    BY <1>10
  <2>. QED  BY <1>1, <1>4, <1>10, <1>11, <1>12, <2>1 DEF WithRow
<1>14. kids = InsertAt(cs, m, right)
  <2>1. (j - 1) + 2 = m
    BY <1>10, <1>11
  <2>. QED  BY <1>1, <1>4, <1>10, <2>1
<1>15. all \in Seq(Copied) /\ Len(all) = Len(rows) + 1
  <2>1. InsertAt(rows, j, row) \in Seq(Copied) /\ Len(InsertAt(rows, j, row)) = Len(rows) + 1
    BY ONLY <1>7, <1>10, <1>12, InsertAtIs
  <2>. QED  BY <1>13, <2>1
<1>16. all \in Seq(Row) /\ KeysOf(all) = InsertAt(ks, j, k)
  BY <1>4, <1>7, <1>10, <1>12, <1>13, KeysInsertAt
<1>17. ks \in Seq(Key) /\ Len(ks) = Len(rows)
  BY <1>4, <1>7, KeysAreKeys, KeysOfIs
<1>18. Keys(T, p) = KeysOf(all)
  <2>1. InsertAt(ks, j, k) \in Seq(Key) /\ Inserted(InsertAt(ks, j, k), ks, j, k)
    BY <1>9, <1>10, <1>17, InsertAtInserted
  <2>2. KeysOf(all) \in Seq(Key) /\ Inserted(KeysOf(all), ks, j, k)
    BY <1>16, <2>1
  <2>. QED  BY <1>5, <1>8, <1>17, <2>2, InsertedOnce
<1>19. Kids(T, p) = kids
  <2>1. m \in 1 .. Len(cs) + 1
    BY <1>7, <1>10, <1>11
  <2>2. InsertAt(cs, m, right) \in Seq(Node) /\ Inserted(InsertAt(cs, m, right), cs, m, right)
    BY <1>6, <1>7, <2>1, InsertAtInserted
  <2>3. kids \in Seq(Node) /\ Inserted(kids, cs, m, right)
    BY <1>14, <2>2
  <2>4. Kids(T, p) \in Seq(Node)
    BY <1>6, <1>8, SeqMonotonic, Zenon
  <2>5. Inserted(Kids(T, p), cs, m, right)
    BY <1>5, <1>11
  <2>. QED  BY <1>7, <2>3, <2>4, <2>5, InsertedOnce
<1>20. Len(kids) = Len(all) + 1
  <2>1. Len(Kids(T, p)) = Len(Keys(T, p)) + 1
    BY <1>6, NodeFacts
  <2>2. Len(KeysOf(all)) = Len(all)
    BY <1>16, KeysOfIs
  <2>. QED  BY <1>18, <1>19, <2>1, <2>2
<1>. QED  BY <1>2, <1>3, <1>4, <1>8, <1>15, <1>16, <1>18, <1>19, <1>20

\* The rows and children of p are new, and nothing else.
Refilled(ns2, ns, p, R, C) ==
  /\ ns2 \in [Node -> NodeRec] /\ RowsAt(ns2, p) = R /\ KidsAt(ns2, p) = C
  /\ \A x \in Node : /\ ParentAt(ns2, x) = ParentAt(ns, x) /\ LeafAt(ns2, x) = LeafAt(ns, x)
                     /\ (x # p => RowsAt(ns2, x) = RowsAt(ns, x) /\ KidsAt(ns2, x) = KidsAt(ns, x))

\* Rows and children of a node are written, and nothing else.
LEMMA SetBoth ==
  ASSUME NEW ns, ns \in [Node -> NodeRec], NEW p \in Node, NEW R \in Seq(Row), NEW C \in Seq(Node),
         NEW ns2, ns2 = [ns EXCEPT ![p].rows = R, ![p].child = C]
  PROVE  Refilled(ns2, ns, p, R, C)
<1>1. PICK new : new = [ns[p] EXCEPT !.rows = R, !.child = C]
  OBVIOUS
<1>2. ns[p] \in NodeRec
  OBVIOUS
<1>3. /\ new \in NodeRec /\ new.rows = R /\ new.child = C
      /\ new.parent = ns[p].parent /\ new.leaf = ns[p].leaf
  BY <1>1, <1>2 DEF NodeRec
<1>4. ns2 = [ns EXCEPT ![p] = new]
  BY <1>1, <1>2 DEF NodeRec
<1>5. ns2 \in [Node -> NodeRec] /\ ns2[p] = new /\ \A x \in Node : x # p => ns2[x] = ns[x]
  BY ONLY ns \in [Node -> NodeRec], p \in Node, <1>3, <1>4
<1>. QED  BY <1>3, <1>5 DEF Refilled, RowsAt, KidsAt, ParentAt, LeafAt

\* The separator of a split, when it is in its place.
SplitKept(T, lv, k, copy) ==
  /\ lv \cup {<<k, 1>>} = Recs(LeafKeys(T), InnerKeys(T)) /\ k \in Key
  /\ copy => <<k, 1>> \notin lv
  /\ ~ copy => lv = Recs(LeafKeys(T), InnerKeys(T))

\* The records, with the separator's copy made.
LEMMA SplitRecs ==
  ASSUME NEW T, NEW ns, NEW us, NEW rt, NEW lv, NEW at, NEW right, NEW k, NEW copy \in BOOLEAN,
         GoodSplit(T, ns, us, rt, lv, at, right, k, copy)
  PROVE  SplitKept(T, lv, k, copy)
<1>1. PICK LK, IK : LK = LeafKeys(T) /\ IK = InnerKeys(T)
  OBVIOUS
<1>2. k \in IK /\ lv = Recs(LK, IF copy THEN IK \ {k} ELSE IK)
  BY <1>1 DEF GoodSplit
<1>3. k \in Key
  BY <1>1, <1>2 DEF InnerKeys
<1>4. CASE copy
  <2>1. lv = Recs(LK, IK \ {k}) /\ (IK \ {k}) \cup {k} = IK
    BY <1>2, <1>4
  <2>2. Recs(LK, IK \ {k}) \cup {<<k, 1>>} = Recs(LK, (IK \ {k}) \cup {k})
    BY DEF Recs
  <2>3. <<k, 1>> \notin Recs(LK, IK \ {k})
    BY DEF Recs
  <2>. QED  BY <1>1, <1>3, <1>4, <2>1, <2>2, <2>3 DEF SplitKept
<1>5. CASE ~ copy
  <2>1. lv = Recs(LK, IK) /\ IK \cup {k} = IK
    BY <1>2, <1>5
  <2>2. Recs(LK, IK) \cup {<<k, 1>>} = Recs(LK, IK \cup {k})
    BY DEF Recs
  <2>. QED  BY <1>1, <1>3, <1>5, <2>1, <2>2 DEF SplitKept
<1>. QED  BY <1>4, <1>5 DEF SplitKept

\* InsertInParent.
Joins(T, ns, us, rt, lv, at, right, k, copy, p, all, kids, ns2) ==
  /\ Seated(T, ns, us, rt, lv, at, right, k, copy, p, all, kids) /\ copy \in BOOLEAN
  /\ Len(RowsAt(ns, p)) < MaxRows /\ Refilled(ns2, ns, p, all, kids)

\* The separator goes into a parent with room: nothing is left to be done.
LEMMA SplitIdle ==
  ASSUME NEW T, NEW ns, NEW us, NEW rt, NEW lv, NEW at, NEW right, NEW k, NEW copy, NEW p, NEW all, NEW kids, NEW ns2,
         Joins(T, ns, us, rt, lv, at, right, k, copy, p, all, kids, ns2)
  PROVE  GoodIdle(T, ns2, us, rt, lv \cup {<<k, 1>>})
<1>1. /\ Seated(T, ns, us, rt, lv, at, right, k, copy, p, all, kids) /\ copy \in BOOLEAN
      /\ Len(RowsAt(ns, p)) < MaxRows /\ Refilled(ns2, ns, p, all, kids)
  BY DEF Joins
<1>2. GoodSplit(T, ns, us, rt, lv, at, right, k, copy)
  BY <1>1 DEF Seated
<1>3. /\ View(T, ns, us, rt, p) /\ Nil \notin Nodes(T) /\ p \in us /\ ~ LeafAt(ns, p)
      /\ all \in Seq(Copied) /\ all \in Seq(Row) /\ Len(all) = Len(RowsAt(ns, p)) + 1
      /\ Keys(T, p) = KeysOf(all) /\ Kids(T, p) = kids /\ kids \in Seq(us) /\ Len(kids) = Len(all) + 1
  BY <1>1, SeatedIs
<1>4. lv \cup {<<k, 1>>} = Recs(LeafKeys(T), InnerKeys(T))
  <2>1. SplitKept(T, lv, k, copy)
    BY <1>1, <1>2, SplitRecs, Zenon
  <2>. QED  BY <2>1 DEF SplitKept
<1>5. /\ ns2 \in [Node -> NodeRec] /\ RowsAt(ns2, p) = all /\ KidsAt(ns2, p) = kids
      /\ \A x \in Node : /\ ParentAt(ns2, x) = ParentAt(ns, x) /\ LeafAt(ns2, x) = LeafAt(ns, x)
                         /\ (x # p => RowsAt(ns2, x) = RowsAt(ns, x) /\ KidsAt(ns2, x) = KidsAt(ns, x))
  BY <1>1 DEF Refilled
<1>6. Tree(T) /\ Shaped(ns, us) /\ us \subseteq Node /\ rt \in us /\ p \in Node
  BY <1>3 DEF View
<1>7. Len(RowsAt(ns, p)) \in Nat /\ Len(all) \in Nat /\ Len(all) <= MaxRows /\ MaxRows \in Nat
  BY <1>1, <1>3, <1>6, ShapedFacts, DegreeAssumption DEF MaxRows
<1>8. Shaped(ns2, us)
  <2>1. ASSUME NEW x \in Node PROVE ShapedAt(ns2, x) /\ (x \notin us => LeafAt(ns2, x))
    <3>1. ShapedAt(ns, x) /\ (x \notin us => LeafAt(ns, x))
      BY <1>6 DEF Shaped
    <3>2. CASE x = p
      <4>1. ~ LeafAt(ns2, p)
        BY <1>3, <1>5, <1>6
      <4>. QED  BY <1>3, <1>5, <1>7, <3>2, <4>1 DEF ShapedAt, Tagged
    <3>3. CASE x # p
      BY <1>5, <3>1, <3>3 DEF ShapedAt
    <3>. QED  BY <3>2, <3>3
  <2>. QED  BY <1>5, <2>1 DEF Shaped
<1>9. View(T, ns2, us, rt, Nil)
  <2>1. ASSUME NEW x \in us PROVE /\ Up(T, x) = ParentAt(ns2, x) /\ (Lev(T, x) = 0 <=> LeafAt(ns2, x))
                                  /\ Keys(T, x) = KeysAt(ns2, x) /\ Kids(T, x) = KidsAt(ns2, x)
    <3>1. /\ x \in Node /\ Up(T, x) = ParentAt(ns, x) /\ (Lev(T, x) = 0 <=> LeafAt(ns, x))
          /\ x # p => Keys(T, x) = KeysAt(ns, x) /\ Kids(T, x) = KidsAt(ns, x)
      BY <1>3, ViewFacts
    <3>2. CASE x = p
      BY <1>3, <1>5, <3>1, <3>2 DEF KeysAt
    <3>3. CASE x # p
      BY <1>5, <3>1, <3>3 DEF KeysAt
    <3>. QED  BY <3>2, <3>3
  <2>. QED  BY <1>3, <1>5, <1>8, <2>1 DEF View
<1>10. AllFilled(ns2, us, rt, Nil)
  <2>1. ASSUME NEW x \in us PROVE \/ Len(RowsAt(ns2, x)) >= Degree - 1
                                  \/ x = rt /\ (LeafAt(ns2, x) \/ Len(RowsAt(ns2, x)) >= 1)
    <3>1. \/ Len(RowsAt(ns, x)) >= Degree - 1
          \/ x = rt /\ (LeafAt(ns, x) \/ Len(RowsAt(ns, x)) >= 1)
      BY <1>2, <1>3, ViewFacts DEF GoodSplit, AllFilled
    <3>2. x \in Node /\ LeafAt(ns2, x) = LeafAt(ns, x)
      BY <1>5, <1>6
    <3>3. CASE x = p
      BY <1>3, <1>5, <1>7, <3>1, <3>2, <3>3, DegreeAssumption
    <3>4. CASE x # p
      BY <1>5, <3>1, <3>2, <3>4
    <3>. QED  BY <3>3, <3>4
  <2>. QED  BY <2>1 DEF AllFilled
<1>. QED  BY <1>3, <1>4, <1>9, <1>10 DEF GoodIdle

\* at and right hang below a new root p.
RootGrown(ns2, ns, at, right, k, p) ==
  /\ ns2 \in [Node -> NodeRec]
  /\ RowsAt(ns2, p) = <<<<k, 1>>>> /\ KidsAt(ns2, p) = <<at, right>> /\ ParentAt(ns2, p) = Nil /\ LeafAt(ns2, p) = FALSE
  /\ \A x \in Node \ {p} : /\ RowsAt(ns2, x) = RowsAt(ns, x) /\ KidsAt(ns2, x) = KidsAt(ns, x) /\ LeafAt(ns2, x) = LeafAt(ns, x)
                           /\ ParentAt(ns2, x) = IF x = at \/ x = right THEN p ELSE ParentAt(ns, x)

\* GrowRoot.
Grows(T, ns, us, rt, lv, at, right, k, copy, p, ns2) ==
  /\ GoodSplit(T, ns, us, rt, lv, at, right, k, copy) /\ copy \in BOOLEAN /\ ParentAt(ns, at) = Nil
  /\ p \in Node /\ p \notin us /\ RootGrown(ns2, ns, at, right, k, p)

\* The separator goes into a new root: nothing is left to be done.
LEMMA GrowIdle ==
  ASSUME NEW T, NEW ns, NEW us, NEW rt, NEW lv, NEW at, NEW right, NEW k, NEW copy, NEW p, NEW ns2,
         Grows(T, ns, us, rt, lv, at, right, k, copy, p, ns2)
  PROVE  Kept(T, ns2, us \cup {p}, p, lv \cup {<<k, 1>>})
<1>1. /\ GoodSplit(T, ns, us, rt, lv, at, right, k, copy) /\ copy \in BOOLEAN /\ ParentAt(ns, at) = Nil
      /\ p \in Node /\ p \notin us /\ RootGrown(ns2, ns, at, right, k, p)
  BY DEF Grows
<1>2. View(T, ns, us, rt, Nil) /\ AllFilled(ns, us, rt, Nil) /\ Len(RowsAt(ns, at)) >= Degree - 1
  BY <1>1 DEF GoodSplit
<1>3. at \in us /\ right \in us /\ at = rt /\ Nil \in Nodes(T) /\ Keys(T, Nil) = <<k>> /\ Kids(T, Nil) = <<at, right>>
  BY <1>1 DEF GoodSplit, SplitShown
<1>4. SplitKept(T, lv, k, copy)
  BY <1>1, SplitRecs, Zenon
<1>5. k \in Key /\ lv \cup {<<k, 1>>} = Recs(LeafKeys(T), InnerKeys(T))
  BY <1>4 DEF SplitKept
<1>6. /\ Tree(T) /\ Shaped(ns, us) /\ us \subseteq Node /\ Nodes(T) = us \cup {Nil} /\ Top(T) = Nil
  BY <1>2, <1>3 DEF View
<1>7. /\ ns2 \in [Node -> NodeRec]
      /\ RowsAt(ns2, p) = <<<<k, 1>>>> /\ KidsAt(ns2, p) = <<at, right>> /\ ParentAt(ns2, p) = Nil /\ LeafAt(ns2, p) = FALSE
      /\ \A x \in Node \ {p} : /\ RowsAt(ns2, x) = RowsAt(ns, x) /\ KidsAt(ns2, x) = KidsAt(ns, x) /\ LeafAt(ns2, x) = LeafAt(ns, x)
                               /\ ParentAt(ns2, x) = IF x = at \/ x = right THEN p ELSE ParentAt(ns, x)
  BY <1>1 DEF RootGrown
<1>8. PICK W : W = Rename(T, p)
  OBVIOUS
<1>9. p \in Page /\ p \notin Nodes(T) /\ p # Nil /\ Nil \notin us
  BY <1>1, <1>6, NilAssumption DEF Page
<1>10. /\ Tree(W) /\ Nodes(W) = (Nodes(T) \ {Nil}) \cup {p} /\ Top(W) = p
       /\ Keys(W, p) = Keys(T, Nil) /\ Kids(W, p) = Kids(T, Nil) /\ Lev(W, p) = Lev(T, Nil)
       /\ \A x \in Nodes(T) \ {Nil} :
            /\ Lev(W, x) = Lev(T, x) /\ Keys(W, x) = Keys(T, x) /\ Kids(W, x) = Kids(T, x)
            /\ Up(W, x) = IF IsKid(T, Nil, x) THEN p ELSE Up(T, x)
  BY <1>6, <1>8, <1>9, RenameTree
<1>11. LeafKeys(W) = LeafKeys(T) /\ InnerKeys(W) = InnerKeys(T)
  BY <1>6, <1>8, <1>9, RenameKeys
<1>12. Nodes(W) = us \cup {p} /\ Nil \notin Nodes(W)
  BY <1>6, <1>9, <1>10
<1>13. Lev(T, Nil) # 0
  <2>1. PICK c : c = Kids(T, Nil)
    OBVIOUS
  <2>2. c = <<at, right>>
    BY <1>3, <2>1
  <2>3. Len(c) = 2
    BY <2>2
  <2>4. Lev(T, Nil) = 0 => Len(c) = 0
    BY <1>3, <1>6, <2>1, NodeFacts
  <2>. QED  BY <2>3, <2>4
<1>14. \A x : IsKid(T, Nil, x) <=> x = at \/ x = right
  <2>1. PICK c : c = Kids(T, Nil)
    OBVIOUS
  <2>2. c = <<at, right>>
    BY <1>3, <2>1
  <2>3. Len(c) = 2 /\ c[1] = at /\ c[2] = right
    BY <2>2
  <2>4. 1 .. 2 = {1, 2}
    OBVIOUS
  <2>5. \A x : (\E i \in 1 .. Len(c) : c[i] = x) <=> x = at \/ x = right
    BY <2>3, <2>4
  <2>. QED  BY <2>1, <2>5 DEF IsKid
<1>15. PICK row : row = <<k, 1>>
  OBVIOUS
<1>16. row \in Copied /\ row \in Row /\ row[1] = k
  BY <1>5, <1>15, CopiesAssumption DEF Copied, Row
<1>17. PICK rows : rows = <<row>>
  OBVIOUS
<1>18. rows \in Seq(Copied) /\ rows \in Seq(Row) /\ Len(rows) = 1 /\ rows[1] = row
  BY <1>16, <1>17
<1>19. KeysOf(rows) = Keys(T, Nil)
  <2>1. PICK ks : ks = KeysOf(rows)
    OBVIOUS
  <2>2. ks \in Seq(Key) /\ Len(ks) = 1 /\ ks[1] = k
    <3>1. 1 \in 1 .. Len(rows)
      BY <1>18
    <3>. QED  BY <1>16, <1>18, <2>1, <3>1, KeysOfIs, KeysAreKeys
  <2>3. ks = <<k>>
    BY <2>2
  <2>. QED  BY <1>3, <2>1, <2>3
<1>20. RowsAt(ns2, p) = rows
  BY <1>7, <1>15, <1>17
<1>21. Shaped(ns2, us \cup {p})
  <2>1. ASSUME NEW x \in Node PROVE ShapedAt(ns2, x) /\ (x \notin us \cup {p} => LeafAt(ns2, x))
    <3>1. ShapedAt(ns, x) /\ (x \notin us => LeafAt(ns, x))
      BY <1>6 DEF Shaped
    <3>2. CASE x = p
      <4>1. 1 <= MaxRows
        BY DegreeAssumption DEF MaxRows
      <4>2. PICK c : c = <<at, right>>
        OBVIOUS
      <4>3. Len(c) = 2
        BY <4>2
      <4>4. KidsAt(ns2, p) = c
        BY <1>7, <4>2
      <4>5. Len(KidsAt(ns2, p)) = Len(rows) + 1
        BY <1>18, <4>3, <4>4
      <4>. QED  BY <1>7, <1>18, <1>20, <3>2, <4>1, <4>5 DEF ShapedAt, Tagged
    <3>3. CASE x # p
      BY <1>7, <3>1, <3>3 DEF ShapedAt
    <3>. QED  BY <3>2, <3>3
  <2>. QED  BY <1>7, <2>1 DEF Shaped
<1>22. View(W, ns2, us \cup {p}, p, Nil)
  <2>1. ASSUME NEW x \in us \cup {p}
        PROVE  /\ Up(W, x) = ParentAt(ns2, x) /\ (Lev(W, x) = 0 <=> LeafAt(ns2, x))
               /\ Keys(W, x) = KeysAt(ns2, x) /\ Kids(W, x) = KidsAt(ns2, x)
    <3>1. CASE x = p
      <4>1. Up(W, p) = Nil
        BY <1>10 DEF Tree
      <4>2. Keys(W, p) = KeysAt(ns2, p)
        BY <1>10, <1>19, <1>20 DEF KeysAt
      <4>. QED  BY <1>3, <1>7, <1>10, <1>13, <3>1, <4>1, <4>2
    <3>2. CASE x # p
      <4>1. x \in us /\ x \in Node \ {p} /\ x # Nil /\ x \in Nodes(T) \ {Nil}
        BY <1>6, <1>9, <3>2
      <4>2. /\ Up(T, x) = ParentAt(ns, x) /\ (Lev(T, x) = 0 <=> LeafAt(ns, x))
            /\ Keys(T, x) = KeysAt(ns, x) /\ Kids(T, x) = KidsAt(ns, x)
        BY <1>2, <4>1, ViewFacts
      <4>3. Up(W, x) = ParentAt(ns2, x)
        BY <1>7, <1>10, <1>14, <4>1, <4>2
      <4>. QED  BY <1>7, <1>10, <4>1, <4>2, <4>3 DEF KeysAt
    <3>. QED  BY <3>1, <3>2
  <2>2. us \cup {p} \subseteq Node /\ p \in us \cup {p} /\ ParentAt(ns2, p) = Nil
    BY <1>1, <1>6, <1>7
  <2>. QED  BY <1>10, <1>12, <1>21, <2>1, <2>2 DEF View
<1>23. AllFilled(ns2, us \cup {p}, p, Nil)
  <2>1. ASSUME NEW x \in us \cup {p} PROVE \/ Len(RowsAt(ns2, x)) >= Degree - 1
                                           \/ x = p /\ (LeafAt(ns2, x) \/ Len(RowsAt(ns2, x)) >= 1)
    <3>1. CASE x = p
      BY <1>18, <1>20, <3>1
    <3>2. CASE x # p
      <4>1. x \in us /\ x \in Node \ {p} /\ x # Nil
        BY <1>6, <1>9, <3>2
      <4>2. Len(RowsAt(ns, x)) >= Degree - 1
        BY <1>2, <1>3, <4>1 DEF AllFilled
      <4>. QED  BY <1>7, <4>1, <4>2
    <3>. QED  BY <3>1, <3>2
  <2>. QED  BY <2>1 DEF AllFilled
<1>. QED  BY <1>5, <1>11, <1>12, <1>22, <1>23 DEF GoodIdle, Kept

-----------------------------------------------------------------------------
\* The nonleaf node p, with the rows all and the children kids, is broken in two.
NodeBroken(ns2, ns, us, p, t, all, kids) ==
  /\ ns2 \in [Node -> NodeRec]
  /\ RowsAt(ns2, p) = SubSeq(all, 1, Degree - 1) /\ RowsAt(ns2, t) = SubSeq(all, Degree + 1, 2 * Degree)
  /\ KidsAt(ns2, p) = SubSeq(kids, 1, Degree) /\ KidsAt(ns2, t) = SubSeq(kids, Degree + 1, 2 * Degree + 1)
  /\ LeafAt(ns2, t) = FALSE
  /\ \A x \in Node \ {t} : LeafAt(ns2, x) = LeafAt(ns, x)
  /\ \A x \in Node \ {p, t} : RowsAt(ns2, x) = RowsAt(ns, x) /\ KidsAt(ns2, x) = KidsAt(ns, x)
  /\ \A x \in Node \ {t} : ParentAt(ns2, x) = IF In(KidsAt(ns2, t), x) THEN t
                                              ELSE IF In(KidsAt(ns2, p), x) THEN p ELSE ParentAt(ns, x)
  /\ ParentAt(ns2, t) = IF In(KidsAt(ns2, t), t) THEN t
                        ELSE IF In(KidsAt(ns2, p), t) THEN p ELSE ParentAt(ns, p)

\* A nonleaf node is cut in two.
NodeCutting(T, p, all, kids, low, upper, cl, cr) ==
  /\ all \in Seq(Row) /\ Len(all) = 2 * Degree /\ Lev(T, p) # 0 /\ Keys(T, p) = KeysOf(all)
  /\ Kids(T, p) = kids /\ kids \in Seq(Nodes(T)) /\ Len(kids) = 2 * Degree + 1
  /\ low = SubSeq(all, 1, Degree - 1) /\ upper = SubSeq(all, Degree + 1, 2 * Degree)
  /\ cl = SubSeq(kids, 1, Degree) /\ cr = SubSeq(kids, Degree + 1, 2 * Degree + 1)

Splicing(S, s, n, h, m, z) == s \in Seq(S) /\ n \in 1 .. Len(s) /\ h = n - 1 /\ m = n + 1 /\ z = Len(s)

\* An array cut about its n-th element.
LEMMA SpliceIs ==
  ASSUME NEW S, NEW s, NEW n, NEW h, NEW m, NEW z, Splicing(S, s, n, h, m, z)
  PROVE  /\ SubSeq(s, 1, h) \in Seq(S) /\ Len(SubSeq(s, 1, h)) = h
         /\ SubSeq(s, m, z) \in Seq(S) /\ Len(SubSeq(s, m, z)) = z - n
         /\ s[n] \in S
         /\ Spliced(s, SubSeq(s, 1, h), s[n], SubSeq(s, m, z))
<1>1. s \in Seq(S) /\ n \in 1 .. Len(s) /\ h = n - 1 /\ m = n + 1 /\ z = Len(s)
  BY DEF Splicing
<1>. QED  BY <1>1, HalvesSpliced

\* The parts of an overfull nonleaf node, as the tree has them.
LEMMA NodeCut ==
  ASSUME NEW T, NEW p, NEW all, NEW kids, NEW low, NEW upper, NEW cl, NEW cr, NodeCutting(T, p, all, kids, low, upper, cl, cr)
  PROVE  /\ low \in Seq(Row) /\ Len(low) = Degree - 1 /\ upper \in Seq(Row) /\ Len(upper) = Degree
         /\ cl \in Seq(Nodes(T)) /\ Len(cl) = Degree /\ cr \in Seq(Nodes(T)) /\ Len(cr) = Degree + 1
         /\ all[Degree] \in Row /\ all[Degree][1] \in Key
         /\ Cut(T, p, all[Degree][1], KeysOf(low), cl, KeysOf(upper), cr)
<1>1. /\ all \in Seq(Row) /\ Len(all) = 2 * Degree /\ Lev(T, p) # 0 /\ Keys(T, p) = KeysOf(all)
      /\ Kids(T, p) = kids /\ kids \in Seq(Nodes(T)) /\ Len(kids) = 2 * Degree + 1
      /\ low = SubSeq(all, 1, Degree - 1) /\ upper = SubSeq(all, Degree + 1, 2 * Degree)
      /\ cl = SubSeq(kids, 1, Degree) /\ cr = SubSeq(kids, Degree + 1, 2 * Degree + 1)
  BY DEF NodeCutting
<1>2. PICK h, m, z, zc : h = Degree - 1 /\ m = Degree + 1 /\ z = 2 * Degree /\ zc = 2 * Degree + 1
  OBVIOUS
<1>3. /\ Degree \in Nat /\ h \in Nat /\ Degree = h + 1 /\ z - Degree = Degree /\ zc - Degree = Degree + 1 /\ h >= 1
      /\ Degree \in 1 .. z /\ Degree <= zc
  BY <1>2, DegreeAssumption
<1>4. /\ SubSeq(all, 1, h) \in Seq(Row) /\ Len(SubSeq(all, 1, h)) = h
      /\ SubSeq(all, m, z) \in Seq(Row) /\ Len(SubSeq(all, m, z)) = z - Degree
      /\ all[Degree] \in Row
      /\ Spliced(all, SubSeq(all, 1, h), all[Degree], SubSeq(all, m, z))
  <2>1. Degree \in 1 .. Len(all) /\ z = Len(all)
    BY <1>1, <1>2, <1>3
  <2>2. all \in Seq(Row)
    BY <1>1
  <2>3. h = Degree - 1 /\ m = Degree + 1
    BY <1>2
  <2>4. PICK n : n = Degree
    OBVIOUS
  <2>5. n \in 1 .. Len(all) /\ h = n - 1 /\ m = n + 1 /\ z = Len(all)
    BY <2>1, <2>3, <2>4
  <2>7. Splicing(Row, all, n, h, m, z)
    BY ONLY <2>2, <2>5 DEF Splicing
  <2>6. /\ SubSeq(all, 1, h) \in Seq(Row) /\ Len(SubSeq(all, 1, h)) = h
        /\ SubSeq(all, m, z) \in Seq(Row) /\ Len(SubSeq(all, m, z)) = z - n
        /\ all[n] \in Row
        /\ Spliced(all, SubSeq(all, 1, h), all[n], SubSeq(all, m, z))
    BY ONLY <2>7, SpliceIs, Zenon
  <2>. QED  BY ONLY <2>4, <2>6
<1>5. /\ SubSeq(kids, 1, Degree) \in Seq(Nodes(T)) /\ Len(SubSeq(kids, 1, Degree)) = Degree
      /\ SubSeq(kids, m, zc) \in Seq(Nodes(T)) /\ Len(SubSeq(kids, m, zc)) = zc - Degree
      /\ Glued(kids, SubSeq(kids, 1, Degree), SubSeq(kids, m, zc))
  <2>1. Degree <= Len(kids) /\ zc = Len(kids)
    BY <1>1, <1>2, <1>3
  <2>2. kids \in Seq(Nodes(T))
    BY <1>1
  <2>3. PICK n : n = Degree
    OBVIOUS
  <2>4. n \in Nat /\ n <= Len(kids) /\ m = n + 1 /\ zc = Len(kids)
    BY <1>2, <1>3, <2>1, <2>3
  <2>5. /\ SubSeq(kids, 1, n) \in Seq(Nodes(T)) /\ Len(SubSeq(kids, 1, n)) = n
        /\ SubSeq(kids, m, zc) \in Seq(Nodes(T)) /\ Len(SubSeq(kids, m, zc)) = zc - n
        /\ Glued(kids, SubSeq(kids, 1, n), SubSeq(kids, m, zc))
    BY ONLY <2>2, <2>4, HalvesGlued
  <2>. QED  BY ONLY <2>3, <2>5
<1>6. /\ low \in Seq(Row) /\ Len(low) = h /\ upper \in Seq(Row) /\ Len(upper) = Degree
      /\ Spliced(all, low, all[Degree], upper)
  BY <1>1, <1>2, <1>3, <1>4
<1>7. /\ cl \in Seq(Nodes(T)) /\ Len(cl) = Degree /\ cr \in Seq(Nodes(T)) /\ Len(cr) = Degree + 1 /\ Glued(kids, cl, cr)
  BY <1>1, <1>2, <1>3, <1>5
<1>8. PICK row : row = all[Degree]
  OBVIOUS
<1>9. row \in Row /\ row[1] \in Key
  BY <1>4, <1>8 DEF Row
<1>10. Spliced(KeysOf(all), KeysOf(low), row[1], KeysOf(upper))
  BY <1>1, <1>6, <1>8, KeysSpliced
<1>11. KeysOf(low) \in Seq(Key) /\ KeysOf(upper) \in Seq(Key) /\ Len(KeysOf(low)) = h
  BY <1>6, KeysAreKeys, KeysOfIs
<1>12. PICK kl, kr, e : kl = KeysOf(low) /\ kr = KeysOf(upper) /\ e = row[1]
  OBVIOUS
<1>13. /\ kl \in Seq(Key) /\ kr \in Seq(Key) /\ Spliced(Keys(T, p), kl, e, kr) /\ Len(cl) = Len(kl) + 1
       /\ Glued(Kids(T, p), cl, cr)
  BY <1>1, <1>3, <1>7, <1>10, <1>11, <1>12
<1>14. Cut(T, p, e, kl, cl, kr, cr)
  BY <1>1, <1>7, <1>13 DEF Cut
<1>. QED  BY <1>2, <1>6, <1>7, <1>8, <1>9, <1>12, <1>14

\* The hypotheses of a parent's split.
Splits(T, ns, us, rt, lv, at, right, k, copy, p, all, kids, t, ns2) ==
  /\ Seated(T, ns, us, rt, lv, at, right, k, copy, p, all, kids) /\ copy \in BOOLEAN
  /\ Len(RowsAt(ns, p)) = MaxRows /\ t \in Node /\ t \notin us /\ NodeBroken(ns2, ns, us, p, t, all, kids)

\* A split goes on from p and t, with the row row between them.
SplitsOn(T, ns2, us2, rt, lv2, p, t, row) ==
  \E W, e : /\ e \in Key /\ row = <<e, 1>> /\ GoodSplit(W, ns2, us2, rt, lv2, p, t, e, FALSE)
            /\ LeafKeys(W) = LeafKeys(T)

\* SplitParent.
LEMMA SplitAgain ==
  ASSUME NEW T, NEW ns, NEW us, NEW rt, NEW lv, NEW at, NEW right, NEW k, NEW copy, NEW p, NEW all, NEW kids, NEW t, NEW ns2,
         Splits(T, ns, us, rt, lv, at, right, k, copy, p, all, kids, t, ns2)
  PROVE  SplitsOn(T, ns2, us \cup {t}, rt, lv \cup {<<k, 1>>}, p, t, all[Degree])
<1>1. /\ Seated(T, ns, us, rt, lv, at, right, k, copy, p, all, kids) /\ copy \in BOOLEAN
      /\ Len(RowsAt(ns, p)) = MaxRows /\ t \in Node /\ t \notin us /\ NodeBroken(ns2, ns, us, p, t, all, kids)
  BY DEF Splits
<1>2. GoodSplit(T, ns, us, rt, lv, at, right, k, copy)
  BY <1>1 DEF Seated
<1>3. /\ View(T, ns, us, rt, p) /\ Nil \notin Nodes(T) /\ p \in us /\ ~ LeafAt(ns, p)
      /\ all \in Seq(Copied) /\ all \in Seq(Row) /\ Len(all) = Len(RowsAt(ns, p)) + 1
      /\ Keys(T, p) = KeysOf(all) /\ Kids(T, p) = kids /\ kids \in Seq(us) /\ Len(kids) = Len(all) + 1
  BY <1>1, SeatedIs
<1>4. SplitKept(T, lv, k, copy)
  BY <1>1, <1>2, SplitRecs, Zenon
<1>5. Degree \in Nat /\ Degree >= 2 /\ Len(all) = 2 * Degree /\ Len(kids) = 2 * Degree + 1
  BY <1>1, <1>3, DegreeAssumption DEF MaxRows
<1>6. /\ p \in Node /\ p \in Nodes(T) /\ Tree(T) /\ Shaped(ns, us) /\ Nodes(T) = us /\ Top(T) = rt /\ Lev(T, p) # 0
      /\ us \subseteq Node
  <2>1. us \subseteq Node
    BY <1>3 DEF View
  <2>. QED  BY <1>3, <2>1, ViewFacts
<1>7. PICK low, upper, cl, cr :
        /\ low = SubSeq(all, 1, Degree - 1) /\ upper = SubSeq(all, Degree + 1, 2 * Degree)
        /\ cl = SubSeq(kids, 1, Degree) /\ cr = SubSeq(kids, Degree + 1, 2 * Degree + 1)
  OBVIOUS
<1>8. /\ low \in Seq(Row) /\ Len(low) = Degree - 1 /\ upper \in Seq(Row) /\ Len(upper) = Degree
      /\ cl \in Seq(us) /\ Len(cl) = Degree /\ cr \in Seq(us) /\ Len(cr) = Degree + 1
      /\ all[Degree] \in Row /\ all[Degree][1] \in Key
      /\ Cut(T, p, all[Degree][1], KeysOf(low), cl, KeysOf(upper), cr)
  <2>1. NodeCutting(T, p, all, kids, low, upper, cl, cr)
    BY <1>3, <1>5, <1>6, <1>7 DEF NodeCutting
  <2>. QED  BY <1>6, <2>1, NodeCut
<1>9. PICK e, kl, kr : e = all[Degree][1] /\ kl = KeysOf(low) /\ kr = KeysOf(upper)
  OBVIOUS
<1>10. e \in Key /\ Cut(T, p, e, kl, cl, kr, cr)
  BY <1>8, <1>9
<1>11. PICK W : /\ Tree(W) /\ Broken(T, W, p, t, e, kl, cl, kr, cr)
                /\ LeafKeys(W) = LeafKeys(T) /\ InnerKeys(W) = InnerKeys(T) \cup {e}
                /\ Lev(T, p) # 0 => e \in InnerKeys(T)
  BY <1>1, <1>6, <1>10, BreakTree
<1>12. /\ ns2 \in [Node -> NodeRec]
       /\ RowsAt(ns2, p) = low /\ RowsAt(ns2, t) = upper /\ KidsAt(ns2, p) = cl /\ KidsAt(ns2, t) = cr
       /\ LeafAt(ns2, t) = FALSE
       /\ \A x \in Node \ {t} : LeafAt(ns2, x) = LeafAt(ns, x)
       /\ \A x \in Node \ {p, t} : RowsAt(ns2, x) = RowsAt(ns, x) /\ KidsAt(ns2, x) = KidsAt(ns, x)
       /\ \A x \in Node \ {t} : ParentAt(ns2, x) = IF In(cr, x) THEN t ELSE IF In(cl, x) THEN p ELSE ParentAt(ns, x)
       /\ ParentAt(ns2, t) = IF In(cr, t) THEN t ELSE IF In(cl, t) THEN p ELSE ParentAt(ns, p)
  BY <1>1, <1>7 DEF NodeBroken
<1>13. low \in Seq(Copied) /\ upper \in Seq(Copied) /\ all[Degree] \in Copied
  <2>1. PICK n, h, m, z : n = Degree /\ h = Degree - 1 /\ m = Degree + 1 /\ z = 2 * Degree
    OBVIOUS
  <2>2. n \in 1 .. Len(all) /\ h = n - 1 /\ m = n + 1 /\ z = Len(all)
    BY <1>5, <2>1
  <2>3. Splicing(Copied, all, n, h, m, z)
    BY ONLY <1>3, <2>2 DEF Splicing
  <2>4. SubSeq(all, 1, h) \in Seq(Copied) /\ SubSeq(all, m, z) \in Seq(Copied) /\ all[n] \in Copied
    BY ONLY <2>3, SpliceIs, Zenon
  <2>. QED  BY <1>7, <2>1, <2>4
<1>14. all[Degree] = <<e, 1>>
  BY <1>9, <1>13 DEF Copied
<1>15. ~ In(cl, t) /\ ~ In(cr, t)
  BY <1>1, <1>8 DEF In
<1>16. \A x \in us : In(cl, x) => ParentAt(ns, x) = p
  <2>1. ASSUME NEW x \in us, In(cl, x) PROVE ParentAt(ns, x) = p
    <3>1. PICK i \in 1 .. Len(cl) : cl[i] = x
      BY <2>1 DEF In
    <3>2. Glued(kids, cl, cr)
      BY <1>3, <1>10 DEF Cut
    <3>3. i \in 1 .. Len(kids) /\ kids[i] = x
      <4>1. PICK m, n : m = Len(cl) /\ n = Len(kids)
        OBVIOUS
      <4>2. kids[i] = cl[i]
        BY <3>2 DEF Glued
      <4>3. Degree \in Nat /\ m = Degree /\ n = 2 * Degree + 1 /\ i \in 1 .. m
        BY <1>5, <1>8, <4>1
      <4>4. i \in 1 .. n
        BY ONLY <4>3
      <4>. QED  BY <3>1, <4>1, <4>2, <4>4
    <3>4. i \in 1 .. Len(Kids(T, p)) /\ x = Kids(T, p)[i]
      BY <1>3, <3>3
    <3>5. Up(T, x) = p
      BY <1>6, <3>4, KidFacts
    <3>. QED  BY <1>3, <3>5, ViewFacts
  <2>. QED  BY <2>1
<1>17. Shaped(ns2, us \cup {t})
  <2>1. ASSUME NEW x \in Node PROVE ShapedAt(ns2, x) /\ (x \notin us \cup {t} => LeafAt(ns2, x))
    <3>1. ShapedAt(ns, x) /\ (x \notin us => LeafAt(ns, x))
      BY <1>6 DEF Shaped
    <3>0. Degree - 1 <= MaxRows /\ Degree <= MaxRows
      BY <1>5 DEF MaxRows
    <3>2. CASE x = p
      <4>1. ~ LeafAt(ns2, p)
        BY <1>1, <1>3, <1>6, <1>12
      <4>2. Len(cl) = Len(low) + 1
        BY <1>5, <1>8
      <4>. QED  BY <1>3, <1>8, <1>12, <1>13, <3>0, <3>2, <4>1, <4>2 DEF ShapedAt, Tagged
    <3>3. CASE x = t
      <4>1. Len(cr) = Len(upper) + 1
        BY <1>5, <1>8
      <4>. QED  BY <1>8, <1>12, <1>13, <3>0, <3>3, <4>1 DEF ShapedAt, Tagged
    <3>4. CASE x # p /\ x # t
      <4>1. x \in Node \ {t} /\ x \in Node \ {p, t}
        BY <3>4
      <4>. QED  BY <1>12, <3>1, <3>4, <4>1 DEF ShapedAt
    <3>. QED  BY <3>2, <3>3, <3>4
  <2>. QED  BY <1>12, <2>1 DEF Shaped
<1>18. Breaking(T, W, ns, ns2, us, rt, p, t, e)
  <2>1. \A x \in us : /\ Up(T, x) = ParentAt(ns, x) /\ (Lev(T, x) = 0 <=> LeafAt(ns, x))
                      /\ (x # p => Keys(T, x) = KeysAt(ns, x) /\ Kids(T, x) = KidsAt(ns, x))
    BY <1>3, ViewFacts
  <2>2. KeysAt(ns2, p) = kl /\ KidsAt(ns2, p) = cl /\ KeysAt(ns2, t) = kr /\ KidsAt(ns2, t) = cr
    BY <1>9, <1>12 DEF KeysAt
  <2>3. Broken(T, W, p, t, e, KeysAt(ns2, p), KidsAt(ns2, p), KeysAt(ns2, t), KidsAt(ns2, t))
    BY <1>11, <2>2
  <2>4. ASSUME NEW x \in us
        PROVE  /\ x # p => KeysAt(ns2, x) = KeysAt(ns, x) /\ KidsAt(ns2, x) = KidsAt(ns, x)
               /\ LeafAt(ns2, x) = LeafAt(ns, x)
               /\ ParentAt(ns2, x) = IF In(KidsAt(ns2, t), x) THEN t ELSE ParentAt(ns, x)
    <3>1. x \in Node \ {t}
      BY <1>1, <1>6
    <3>2. x # p => RowsAt(ns2, x) = RowsAt(ns, x) /\ KidsAt(ns2, x) = KidsAt(ns, x)
      BY <1>12, <3>1
    <3>3. LeafAt(ns2, x) = LeafAt(ns, x)
      BY <1>12, <3>1
    <3>4. ParentAt(ns2, x) = IF In(cr, x) THEN t ELSE IF In(cl, x) THEN p ELSE ParentAt(ns, x)
      BY <1>12, <3>1
    <3>5. ParentAt(ns2, x) = IF In(cr, x) THEN t ELSE ParentAt(ns, x)
      BY <1>16, <3>4
    <3>. QED  BY <2>2, <3>2, <3>3, <3>5 DEF KeysAt
  <2>5. LeafAt(ns2, t) = LeafAt(ns, p)
    <3>1. LeafAt(ns, p) = FALSE
      BY <1>3, <1>6, ShapedFacts
    <3>. QED  BY <1>12, <3>1
  <2>6. ParentAt(ns2, t) = ParentAt(ns, p)
    BY <1>12, <1>15
  <2>. QED  BY <1>1, <1>3, <1>6, <1>10, <1>11, <1>17, <2>1, <2>3, <2>4, <2>5, <2>6 DEF Breaking
<1>19. View(W, ns2, us \cup {t}, rt, ParentAt(ns2, p)) /\ SplitShown(W, ns2, us \cup {t}, rt, p, t, e)
  BY <1>18, BreakShown
<1>20. AllFilled(ns2, us \cup {t}, rt, Nil)
  <2>1. ASSUME NEW x \in us \cup {t} PROVE \/ Len(RowsAt(ns2, x)) >= Degree - 1
                                           \/ x = rt /\ (LeafAt(ns2, x) \/ Len(RowsAt(ns2, x)) >= 1)
    <3>1. CASE x = p \/ x = t
      BY <1>5, <1>8, <1>12, <3>1
    <3>2. CASE x # p /\ x # t
      <4>1. x \in us /\ x # Nil /\ x \in Node \ {t} /\ x \in Node \ {p, t}
        BY <1>6, <3>2, NilAssumption
      <4>2. \/ Len(RowsAt(ns, x)) >= Degree - 1
            \/ x = rt /\ (LeafAt(ns, x) \/ Len(RowsAt(ns, x)) >= 1)
        BY <1>2, <4>1 DEF GoodSplit, AllFilled
      <4>. QED  BY <1>12, <4>1, <4>2
    <3>. QED  BY <3>1, <3>2
  <2>. QED  BY <2>1 DEF AllFilled
<1>21. InnerKeys(W) = InnerKeys(T) /\ e \in InnerKeys(W)
  BY <1>6, <1>11
<1>22. lv \cup {<<k, 1>>} = Recs(LeafKeys(W), InnerKeys(W))
  BY <1>4, <1>11, <1>21 DEF SplitKept
<1>23. Len(RowsAt(ns2, p)) >= Degree - 1
  BY <1>5, <1>8, <1>12
<1>24. GoodSplit(W, ns2, us \cup {t}, rt, lv \cup {<<k, 1>>}, p, t, e, FALSE)
  BY <1>19, <1>20, <1>21, <1>22, <1>23 DEF GoodSplit
<1>. QED  BY <1>10, <1>11, <1>14, <1>21, <1>24 DEF SplitsOn

-----------------------------------------------------------------------------
(* Deleting.                                                                *)

\* A row has left the node a, which may have too few; v is the key that is being deleted.
Short(T, ns, us, rt, lv, a, v) ==
  /\ View(T, ns, us, rt, Nil) /\ Nil \notin Nodes(T) /\ AllFilled(ns, us, rt, a) /\ a \in us
  /\ (a # rt => Len(RowsAt(ns, a)) >= Degree - 2)
  /\ v \in Key /\ v \notin LeafKeys(T)
  /\ lv = Recs(LeafKeys(T) \cup {v}, InnerKeys(T))

\* The i-th row of the leaf a, with key k, is taken from it.
Taking(T, ns, us, rt, lv, a, k, i, R, ns2) ==
  /\ GoodIdle(T, ns, us, rt, lv) /\ a \in us /\ LeafAt(ns, a) /\ i \in 1 .. Len(RowsAt(ns, a))
  /\ RowsAt(ns, a)[i][1] = k /\ R = RemoveAt(RowsAt(ns, a), i) /\ Rewritten(ns2, ns, a, R)

Taken(T, ns2, us, rt, lv, a, k) ==
  \E W : /\ Short(W, ns2, us, rt, lv, a, k)
         /\ k \in LeafKeys(T) /\ LeafKeys(W) = LeafKeys(T) \ {k} /\ InnerKeys(W) = InnerKeys(T)

\* A key taken from its leaf leaves a search tree, with one node perhaps short.
LEMMA TakeShort ==
  ASSUME NEW T, NEW ns, NEW us, NEW rt, NEW lv, NEW a, NEW k, NEW i, NEW R, NEW ns2,
         Taking(T, ns, us, rt, lv, a, k, i, R, ns2)
  PROVE  Taken(T, ns2, us, rt, lv, a, k)
<1>1. /\ GoodIdle(T, ns, us, rt, lv) /\ a \in us /\ LeafAt(ns, a) /\ i \in 1 .. Len(RowsAt(ns, a))
      /\ RowsAt(ns, a)[i][1] = k /\ R = RemoveAt(RowsAt(ns, a), i) /\ Rewritten(ns2, ns, a, R)
  BY DEF Taking
<1>2. /\ View(T, ns, us, rt, Nil) /\ Nil \notin Nodes(T) /\ AllFilled(ns, us, rt, Nil)
      /\ lv = Recs(LeafKeys(T), InnerKeys(T))
  BY <1>1 DEF GoodIdle
<1>3. /\ a \in Node /\ a # Nil /\ a \in Nodes(T) /\ Tree(T) /\ Shaped(ns, us) /\ Lev(T, a) = 0 /\ Nodes(T) = us /\ Top(T) = rt
      /\ Keys(T, a) = KeysAt(ns, a) /\ us \subseteq Node /\ rt \in us /\ ParentAt(ns, rt) = Nil
  <2>1. us \subseteq Node /\ rt \in us /\ ParentAt(ns, rt) = Nil
    BY <1>2 DEF View
  <2>. QED  BY <1>1, <1>2, <2>1, ViewFacts
<1>4. PICK rows, ks : rows = RowsAt(ns, a) /\ ks = KeysOf(rows)
  OBVIOUS
<1>5. ks = Keys(T, a)
  BY <1>3, <1>4 DEF KeysAt
<1>6. rows \in Seq(Row) /\ rows \in Seq(Own) /\ Len(rows) \in Nat /\ Len(rows) <= MaxRows /\ Len(KidsAt(ns, a)) = 0
  BY <1>1, <1>3, <1>4, ShapedFacts
<1>7. i \in 1 .. Len(rows) /\ R = RemoveAt(rows, i) /\ rows[i][1] = k
  BY <1>1, <1>4
<1>8. R \in Seq(Own) /\ Len(R) = Len(rows) - 1
  BY ONLY <1>6, <1>7, RemoveAtIs
<1>9. R \in Seq(Row) /\ KeysOf(R) = RemoveAt(ks, i)
  BY <1>4, <1>6, <1>7, KeysRemoveAt
<1>10. i \in 1 .. Len(Keys(T, a)) /\ k = Keys(T, a)[i]
  <2>1. Len(ks) = Len(rows) /\ \A x \in 1 .. Len(rows) : ks[x] = rows[x][1]
    BY ONLY <1>4, <1>6, KeysOfIs
  <2>. QED  BY <1>5, <1>7, <2>1
<1>11. PICK W : W = Write(T, a, RemoveAt(Keys(T, a), i))
  OBVIOUS
<1>12. /\ Tree(W) /\ Nodes(W) = Nodes(T) /\ Top(W) = Top(T) /\ Keys(W, a) = RemoveAt(Keys(T, a), i)
       /\ \A x \in Nodes(T) : /\ Lev(W, x) = Lev(T, x) /\ Kids(W, x) = Kids(T, x) /\ Up(W, x) = Up(T, x)
                              /\ Span(W, x) = Span(T, x) /\ (x # a => Keys(W, x) = Keys(T, x))
       /\ k \in LeafKeys(T) /\ LeafKeys(W) = LeafKeys(T) \ {k} /\ InnerKeys(W) = InnerKeys(T)
  BY <1>3, <1>10, <1>11, TakeTree
<1>13. /\ ns2 \in [Node -> NodeRec] /\ RowsAt(ns2, a) = R
       /\ \A x \in Node : /\ KidsAt(ns2, x) = KidsAt(ns, x) /\ ParentAt(ns2, x) = ParentAt(ns, x)
                          /\ LeafAt(ns2, x) = LeafAt(ns, x) /\ (x # a => RowsAt(ns2, x) = RowsAt(ns, x))
  BY <1>1 DEF Rewritten
<1>14. Shaped(ns2, us)
  <2>1. ASSUME NEW x \in Node PROVE ShapedAt(ns2, x) /\ (x \notin us => LeafAt(ns2, x))
    <3>1. ShapedAt(ns, x) /\ (x \notin us => LeafAt(ns, x))
      BY <1>3 DEF Shaped
    <3>2. CASE x = a
      <4>1. LeafAt(ns2, a) = TRUE
        BY <1>1, <1>3, <1>13, ShapedFacts
      <4>2. Len(R) <= MaxRows
        BY <1>6, <1>8, DegreeAssumption DEF MaxRows
      <4>. QED  BY <1>1, <1>6, <1>8, <1>13, <3>2, <4>1, <4>2 DEF ShapedAt, Tagged
    <3>3. CASE x # a
      BY <1>13, <3>1, <3>3 DEF ShapedAt
    <3>. QED  BY <3>2, <3>3
  <2>. QED  BY <1>13, <2>1 DEF Shaped
<1>15. View(W, ns2, us, rt, Nil) /\ Nil \notin Nodes(W)
  <2>1. ASSUME NEW x \in us PROVE /\ Up(W, x) = ParentAt(ns2, x) /\ (Lev(W, x) = 0 <=> LeafAt(ns2, x))
                                  /\ Keys(W, x) = KeysAt(ns2, x) /\ Kids(W, x) = KidsAt(ns2, x)
    <3>1. /\ x \in Node /\ x # Nil /\ x \in Nodes(T) /\ Up(T, x) = ParentAt(ns, x) /\ (Lev(T, x) = 0 <=> LeafAt(ns, x))
          /\ Keys(T, x) = KeysAt(ns, x) /\ Kids(T, x) = KidsAt(ns, x)
      BY <1>2, ViewFacts
    <3>2. CASE x = a
      <4>1. Keys(W, x) = KeysAt(ns2, x)
        BY <1>5, <1>9, <1>12, <1>13, <3>2 DEF KeysAt
      <4>. QED  BY <1>12, <1>13, <3>1, <4>1
    <3>3. CASE x # a
      BY <1>12, <1>13, <3>1, <3>3 DEF KeysAt
    <3>. QED  BY <3>2, <3>3
  <2>. QED  BY <1>2, <1>3, <1>12, <1>13, <1>14, <2>1 DEF View
<1>16. AllFilled(ns2, us, rt, a)
  <2>1. ASSUME NEW x \in us, x # a PROVE \/ Len(RowsAt(ns2, x)) >= Degree - 1
                                         \/ x = rt /\ (LeafAt(ns2, x) \/ Len(RowsAt(ns2, x)) >= 1)
    <3>1. \/ Len(RowsAt(ns, x)) >= Degree - 1
          \/ x = rt /\ (LeafAt(ns, x) \/ Len(RowsAt(ns, x)) >= 1)
      BY <1>2, ViewFacts DEF AllFilled
    <3>2. x \in Node
      BY <1>3
    <3>. QED  BY <1>13, <2>1, <3>1, <3>2
  <2>. QED  BY <2>1 DEF AllFilled
<1>17. a # rt => Len(RowsAt(ns2, a)) >= Degree - 2
  <2>1. ASSUME a # rt PROVE Len(RowsAt(ns2, a)) >= Degree - 2
    <3>1. Len(rows) >= Degree - 1
      BY <1>1, <1>2, <1>3, <1>4, <2>1 DEF AllFilled
    <3>. QED  BY <1>6, <1>8, <1>13, <3>1, DegreeAssumption
  <2>. QED  BY <2>1
<1>18. lv = Recs(LeafKeys(W) \cup {k}, InnerKeys(W)) /\ k \notin LeafKeys(W) /\ k \in Key
  <2>1. LeafKeys(W) \cup {k} = LeafKeys(T)
    BY <1>12
  <2>2. k \in Key
    BY <1>12 DEF LeafKeys
  <2>. QED  BY <1>2, <1>12, <2>1, <2>2
<1>. QED  BY <1>1, <1>12, <1>15, <1>16, <1>17, <1>18 DEF Short, Taken

-----------------------------------------------------------------------------
\* What the record table has when the caller has deleted its record.
LEMMA VictimTaken ==
  ASSUME NEW A, NEW B, NEW v, v \notin A
  PROVE  Recs(A \cup {v}, B) \ {<<v, 0>>} = Recs(A, B)
<1>1. ASSUME NEW r \in Recs(A, B) PROVE r # <<v, 0>>
  BY <1>1 DEF Recs
<1>2. Recs(A \cup {v}, B) = Recs(A, B) \cup {<<v, 0>>}
  BY DEF Recs
<1>. QED  BY <1>1, <1>2

\* LeafStays and StopHere.
LEMMA ShortIdle ==
  ASSUME NEW T, NEW ns, NEW us, NEW rt, NEW lv, NEW a, NEW v, Short(T, ns, us, rt, lv, a, v),
         \/ Len(RowsAt(ns, a)) >= Degree - 1
         \/ ParentAt(ns, a) = Nil /\ (LeafAt(ns, a) \/ Len(RowsAt(ns, a)) >= 1)
  PROVE  GoodIdle(T, ns, us, rt, lv \ {<<v, 0>>})
<1>1. /\ View(T, ns, us, rt, Nil) /\ Nil \notin Nodes(T) /\ AllFilled(ns, us, rt, a) /\ a \in us
      /\ v \in Key /\ v \notin LeafKeys(T)
      /\ lv = Recs(LeafKeys(T) \cup {v}, InnerKeys(T))
  BY DEF Short
<1>2. PICK LK, IK : LK = LeafKeys(T) /\ IK = InnerKeys(T)
  OBVIOUS
<1>3. Recs(LK \cup {v}, IK) \ {<<v, 0>>} = Recs(LK, IK)
  BY <1>1, <1>2, VictimTaken
<1>4. ParentAt(ns, a) = Nil => a = rt
  BY <1>1, ParentIs
<1>5. AllFilled(ns, us, rt, Nil)
  BY <1>1, <1>4 DEF AllFilled
<1>. QED  BY <1>1, <1>2, <1>3, <1>5 DEF GoodIdle

\* The root loses its last row.
Shrinks(T, ns, us, rt, lv, a, v, c, ns2) ==
  /\ Short(T, ns, us, rt, lv, a, v) /\ ~ LeafAt(ns, a) /\ ParentAt(ns, a) = Nil /\ RowsAt(ns, a) = << >>
  /\ c = KidsAt(ns, a)[1]
  /\ ns2 \in [Node -> NodeRec]
  /\ RowsAt(ns2, a) = << >> /\ KidsAt(ns2, a) = << >> /\ LeafAt(ns2, a) = TRUE
  /\ \A x \in Node \ {a} : /\ RowsAt(ns2, x) = RowsAt(ns, x) /\ KidsAt(ns2, x) = KidsAt(ns, x) /\ LeafAt(ns2, x) = LeafAt(ns, x)
                           /\ ParentAt(ns2, x) = IF x = c THEN Nil ELSE ParentAt(ns, x)

\* ShrinkRoot.
LEMMA ShrinkIdle ==
  ASSUME NEW T, NEW ns, NEW us, NEW rt, NEW lv, NEW a, NEW v, NEW c, NEW ns2, Shrinks(T, ns, us, rt, lv, a, v, c, ns2)
  PROVE  Kept(T, ns2, us \ {a}, c, lv \ {<<v, 0>>})
<1>1. /\ Short(T, ns, us, rt, lv, a, v) /\ ~ LeafAt(ns, a) /\ ParentAt(ns, a) = Nil /\ RowsAt(ns, a) = << >>
      /\ c = KidsAt(ns, a)[1]
      /\ ns2 \in [Node -> NodeRec]
      /\ RowsAt(ns2, a) = << >> /\ KidsAt(ns2, a) = << >> /\ LeafAt(ns2, a) = TRUE
      /\ \A x \in Node \ {a} : /\ RowsAt(ns2, x) = RowsAt(ns, x) /\ KidsAt(ns2, x) = KidsAt(ns, x) /\ LeafAt(ns2, x) = LeafAt(ns, x)
                               /\ ParentAt(ns2, x) = IF x = c THEN Nil ELSE ParentAt(ns, x)
  BY DEF Shrinks
<1>2. /\ View(T, ns, us, rt, Nil) /\ Nil \notin Nodes(T) /\ AllFilled(ns, us, rt, a) /\ a \in us
      /\ v \in Key /\ v \notin LeafKeys(T)
      /\ lv = Recs(LeafKeys(T) \cup {v}, InnerKeys(T))
  BY <1>1 DEF Short
<1>3. a = rt
  BY <1>1, <1>2, ParentIs
<1>4. /\ a \in Node /\ a # Nil /\ Tree(T) /\ Shaped(ns, us) /\ Lev(T, a) # 0 /\ Nodes(T) = us /\ Top(T) = a
      /\ Keys(T, a) = KeysAt(ns, a) /\ Kids(T, a) = KidsAt(ns, a) /\ us \subseteq Node
  <2>1. us \subseteq Node
    BY <1>2 DEF View
  <2>. QED  BY <1>1, <1>2, <1>3, <2>1, ViewFacts
<1>5. Len(Keys(T, Top(T))) = 0 /\ Lev(T, Top(T)) # 0 /\ c = Kids(T, Top(T))[1]
  <2>1. PICK rows : rows = RowsAt(ns, a)
    OBVIOUS
  <2>2. Len(rows) = 0
    BY <1>1, <2>1
  <2>3. Len(KeysAt(ns, a)) = Len(RowsAt(ns, a))
    BY <1>4, ShapedFacts
  <2>. QED  BY <1>1, <1>4, <2>1, <2>2, <2>3
<1>6. PICK W : W = Shrink(T, c)
  OBVIOUS
<1>7. /\ Tree(W) /\ Nodes(W) = us \ {a} /\ Top(W) = c /\ c \in us /\ c # a
      /\ \A x \in us \ {a} : /\ Lev(W, x) = Lev(T, x) /\ Keys(W, x) = Keys(T, x) /\ Kids(W, x) = Kids(T, x)
                             /\ Up(W, x) = IF x = c THEN Nil ELSE Up(T, x)
  BY <1>4, <1>5, <1>6, ShrinkTree
<1>8. LeafKeys(W) = LeafKeys(T) /\ InnerKeys(W) = InnerKeys(T)
  BY <1>4, <1>5, <1>6, ShrinkKeys
<1>9. Shaped(ns2, us \ {a})
  <2>1. ASSUME NEW x \in Node PROVE ShapedAt(ns2, x) /\ (x \notin us \ {a} => LeafAt(ns2, x))
    <3>1. ShapedAt(ns, x) /\ (x \notin us => LeafAt(ns, x))
      BY <1>4 DEF Shaped
    <3>2. CASE x = a
      <4>1. PICK e : e = << >>
        OBVIOUS
      <4>2. e \in Seq(Own) /\ Len(e) = 0 /\ Len(e) <= MaxRows
        BY <4>1, DegreeAssumption DEF MaxRows
      <4>. QED  BY <1>1, <3>2, <4>1, <4>2 DEF ShapedAt, Tagged
    <3>3. CASE x # a
      BY <1>1, <3>1, <3>3 DEF ShapedAt
    <3>. QED  BY <3>2, <3>3
  <2>. QED  BY <1>1, <2>1 DEF Shaped
<1>10. View(W, ns2, us \ {a}, c, Nil) /\ Nil \notin Nodes(W)
  <2>1. ASSUME NEW x \in us \ {a} PROVE /\ Up(W, x) = ParentAt(ns2, x) /\ (Lev(W, x) = 0 <=> LeafAt(ns2, x))
                                        /\ Keys(W, x) = KeysAt(ns2, x) /\ Kids(W, x) = KidsAt(ns2, x)
    <3>1. /\ x \in us /\ x \in Node \ {a} /\ x # Nil
      BY <1>4, NilAssumption
    <3>2. /\ Up(T, x) = ParentAt(ns, x) /\ (Lev(T, x) = 0 <=> LeafAt(ns, x))
          /\ Keys(T, x) = KeysAt(ns, x) /\ Kids(T, x) = KidsAt(ns, x)
      BY <1>2, <3>1, ViewFacts
    <3>. QED  BY <1>1, <1>7, <3>1, <3>2 DEF KeysAt
  <2>2. us \ {a} \subseteq Node /\ c \in us \ {a} /\ Nil \notin us /\ ParentAt(ns2, c) = Nil
    BY <1>1, <1>4, <1>7, NilAssumption
  <2>. QED  BY <1>7, <1>9, <2>1, <2>2 DEF View
<1>11. AllFilled(ns2, us \ {a}, c, Nil)
  <2>1. ASSUME NEW x \in us \ {a} PROVE Len(RowsAt(ns2, x)) >= Degree - 1
    <3>1. x \in Node \ {a} /\ x # rt /\ x # a /\ x \in us
      BY <1>3, <1>4
    <3>2. Len(RowsAt(ns, x)) >= Degree - 1
      BY <1>2, <3>1 DEF AllFilled
    <3>. QED  BY <1>1, <3>1, <3>2
  <2>. QED  BY <2>1 DEF AllFilled
<1>12. lv \ {<<v, 0>>} = Recs(LeafKeys(W), InnerKeys(W))
  <2>1. PICK LK, IK : LK = LeafKeys(T) /\ IK = InnerKeys(T)
    OBVIOUS
  <2>2. Recs(LK \cup {v}, IK) \ {<<v, 0>>} = Recs(LK, IK)
    BY <1>2, <2>1, VictimTaken
  <2>. QED  BY <1>2, <1>8, <2>1, <2>2
<1>. QED  BY <1>8, <1>10, <1>11, <1>12 DEF GoodIdle, Kept

\* l and r are neighbours below p, and one of them is a.
Beside(T, ns, us, rt, lv, a, v, p, j, l, r) ==
  /\ Short(T, ns, us, rt, lv, a, v) /\ p = ParentAt(ns, a) /\ p # Nil
  /\ j \in 1 .. Len(RowsAt(ns, p)) /\ l = KidsAt(ns, p)[j] /\ r = KidsAt(ns, p)[j + 1] /\ (a = l \/ a = r)

\* What is known of them in the tree, and in the nodes.
BesideInTree(T, ns, us, rt, p, j, l, r) ==
  /\ Tree(T) /\ Nodes(T) = us /\ Top(T) = rt
  /\ p \in us /\ l \in us /\ r \in us /\ p # l /\ p # r /\ l # r /\ l # rt /\ r # rt
  /\ Lev(T, p) # 0 /\ Lev(T, l) = Lev(T, r) /\ (Lev(T, l) = 0 <=> LeafAt(ns, l)) /\ (Lev(T, r) = 0 <=> LeafAt(ns, r))
  /\ j \in 1 .. Len(Keys(T, p)) /\ l = Kids(T, p)[j] /\ r = Kids(T, p)[j + 1]
  /\ \A x \in us : Keys(T, x) = KeysAt(ns, x) /\ Kids(T, x) = KidsAt(ns, x) /\ Up(T, x) = ParentAt(ns, x)

BesideInNodes(ns, us, rt, p, j, l, r) ==
  /\ Shaped(ns, us) /\ us \subseteq Node /\ rt \in us /\ ParentAt(ns, rt) = Nil /\ p \in Node /\ l \in Node /\ r \in Node
  /\ ~ LeafAt(ns, p) /\ LeafAt(ns, l) = LeafAt(ns, r) /\ ParentAt(ns, l) = p /\ ParentAt(ns, r) = p
  /\ RowsAt(ns, p)[j] = <<KeysAt(ns, p)[j], 1>> /\ KeysAt(ns, p)[j] \in Key

\* Neighbours below one parent, in the tree and in the nodes.
LEMMA BesideIs ==
  ASSUME NEW T, NEW ns, NEW us, NEW rt, NEW lv, NEW a, NEW v, NEW p, NEW j, NEW l, NEW r,
         Beside(T, ns, us, rt, lv, a, v, p, j, l, r)
  PROVE  BesideInTree(T, ns, us, rt, p, j, l, r) /\ BesideInNodes(ns, us, rt, p, j, l, r)
<1>1. /\ Short(T, ns, us, rt, lv, a, v) /\ p = ParentAt(ns, a) /\ p # Nil
      /\ j \in 1 .. Len(RowsAt(ns, p)) /\ l = KidsAt(ns, p)[j] /\ r = KidsAt(ns, p)[j + 1] /\ (a = l \/ a = r)
  BY DEF Beside
<1>2. View(T, ns, us, rt, Nil) /\ Nil \notin Nodes(T) /\ a \in us
  BY <1>1 DEF Short
<1>3. us \subseteq Node /\ rt \in us /\ ParentAt(ns, rt) = Nil
  BY <1>2 DEF View
<1>4. Tree(T) /\ Shaped(ns, us) /\ Nodes(T) = us /\ Top(T) = rt
  BY <1>2, ViewFacts
<1>5. \A x \in us : /\ x \in Node /\ Keys(T, x) = KeysAt(ns, x) /\ Kids(T, x) = KidsAt(ns, x) /\ Up(T, x) = ParentAt(ns, x)
                    /\ (Lev(T, x) = 0 <=> LeafAt(ns, x)) /\ LeafAt(ns, x) \in BOOLEAN
  <2>1. ASSUME NEW x \in us
        PROVE /\ x \in Node /\ Keys(T, x) = KeysAt(ns, x) /\ Kids(T, x) = KidsAt(ns, x) /\ Up(T, x) = ParentAt(ns, x)
              /\ (Lev(T, x) = 0 <=> LeafAt(ns, x)) /\ LeafAt(ns, x) \in BOOLEAN
    <3>1. x \in Node /\ x # Nil
      BY <1>3, NilAssumption
    <3>. QED  BY <1>2, <1>4, <3>1, ViewFacts, ShapedFacts
  <2>. QED  BY <2>1
<1>6. p \in us
  <2>1. a # rt
    BY <1>1, <1>3
  <2>. QED  BY <1>1, <1>2, <1>4, <1>5, <2>1, HungFacts
<1>7. PICK ks, cs : ks = Keys(T, p) /\ cs = Kids(T, p)
  OBVIOUS
<1>8. Len(ks) = Len(RowsAt(ns, p)) /\ Len(RowsAt(ns, p)) \in Nat
  BY <1>4, <1>5, <1>6, <1>7, ShapedFacts
<1>9. j \in 1 .. Len(ks) /\ l = cs[j] /\ r = cs[j + 1]
  BY <1>1, <1>5, <1>6, <1>7, <1>8
<1>10. Lev(T, p) # 0 /\ Len(cs) = Len(ks) + 1
  <2>1. Lev(T, p) = 0 => Len(cs) = 0
    BY <1>4, <1>6, <1>7, NodeFacts
  <2>2. PICK i \in 1 .. Len(cs) : cs[i] = a
    <3>1. a # rt
      BY <1>1, <1>3
    <3>2. Up(T, a) = p
      BY <1>1, <1>2, <1>5
    <3>. QED  BY <1>2, <1>4, <1>7, <3>1, <3>2, HungFacts
  <2>3. Lev(T, p) # 0
    BY <2>1, <2>2
  <2>. QED  BY <1>4, <1>6, <1>7, <2>3, NodeFacts
<1>11. PICK m : m = j + 1
  OBVIOUS
<1>12. j \in 1 .. Len(cs) /\ m \in 1 .. Len(cs) /\ l = cs[j] /\ r = cs[m] /\ j # m
  BY <1>8, <1>9, <1>10, <1>11
<1>13. l \in us /\ l # rt /\ Up(T, l) = p /\ Lev(T, l) + 1 = Lev(T, p) /\ l # p
  BY <1>4, <1>6, <1>7, <1>12, KidFacts
<1>14. r \in us /\ r # rt /\ Up(T, r) = p /\ Lev(T, r) + 1 = Lev(T, p) /\ r # p
  BY <1>4, <1>6, <1>7, <1>12, KidFacts
<1>15. l # r
  BY <1>4, <1>6, <1>7, <1>12, KidsApart
<1>16. Lev(T, l) = Lev(T, r)
  <2>1. Lev(T, l) \in Nat /\ Lev(T, r) \in Nat
    BY <1>4, <1>13, <1>14, NodeFacts
  <2>. QED  BY <1>13, <1>14, <2>1
<1>17. LeafAt(ns, l) = LeafAt(ns, r) /\ ~ LeafAt(ns, p)
  BY <1>5, <1>6, <1>10, <1>13, <1>14, <1>16
<1>18. RowsAt(ns, p)[j] = <<KeysAt(ns, p)[j], 1>> /\ KeysAt(ns, p)[j] \in Key
  <2>1. PICK rows : rows = RowsAt(ns, p)
    OBVIOUS
  <2>2. rows \in Seq(Copied) /\ rows[j][1] = KeysAt(ns, p)[j]
    BY <1>1, <1>4, <1>5, <1>6, <1>17, <2>1, ShapedFacts
  <2>3. rows[j] \in Copied
    BY <1>1, <2>1, <2>2
  <2>. QED  BY <2>1, <2>2, <2>3 DEF Copied
<1>19. BesideInTree(T, ns, us, rt, p, j, l, r)
  BY <1>4, <1>5, <1>6, <1>7, <1>9, <1>10, <1>13, <1>14, <1>15, <1>16 DEF BesideInTree
<1>20. BesideInNodes(ns, us, rt, p, j, l, r)
  BY <1>3, <1>4, <1>5, <1>6, <1>13, <1>14, <1>17, <1>18 DEF BesideInNodes
<1>. QED  BY <1>19, <1>20

-----------------------------------------------------------------------------
\* The row with key k of the node p, and the child behind it, which is no node any more, are to go.
GoodMerge(T, ns, us, rt, lv, p, k, drop, v) ==
  /\ View(T, ns, us, rt, p) /\ Nil \notin Nodes(T) /\ AllFilled(ns, us, rt, Nil)
  /\ p \in us /\ ~ LeafAt(ns, p) /\ Sorted(KeysAt(ns, p))
  /\ (\E j, d : d \notin us /\ Inserted(KeysAt(ns, p), Keys(T, p), j, k) /\ Inserted(KidsAt(ns, p), Kids(T, p), j + 1, d))
  /\ k \in Key /\ v \in Key /\ v \notin LeafKeys(T) /\ (drop <=> k \notin InnerKeys(T))
  /\ lv = Recs(LeafKeys(T) \cup {v}, InnerKeys(T) \cup {k})

\* l takes the rows L and the children C, and r is a node no more.
Merged(ns2, ns, l, r, L, C) ==
  /\ ns2 \in [Node -> NodeRec]
  /\ RowsAt(ns2, l) = L /\ KidsAt(ns2, l) = C
  /\ RowsAt(ns2, r) = << >> /\ KidsAt(ns2, r) = << >> /\ LeafAt(ns2, r) = TRUE
  /\ \A x \in Node \ {l, r} : RowsAt(ns2, x) = RowsAt(ns, x) /\ KidsAt(ns2, x) = KidsAt(ns, x)
  /\ \A x \in Node \ {r} : /\ LeafAt(ns2, x) = LeafAt(ns, x)
                           /\ ParentAt(ns2, x) = IF In(KidsAt(ns, r), x) THEN l ELSE ParentAt(ns, x)

\* The rows and the children of two nodes that become one.
Pooled(ns, p, j, l, r, L, C) ==
  /\ LeafAt(ns, l) => L = RowsAt(ns, l) \o RowsAt(ns, r)
  /\ ~ LeafAt(ns, l) => L = Append(RowsAt(ns, l), RowsAt(ns, p)[j]) \o RowsAt(ns, r)
  /\ C = KidsAt(ns, l) \o KidsAt(ns, r)
  /\ Len(RowsAt(ns, l)) + Len(RowsAt(ns, r)) < MaxRows
  /\ Len(RowsAt(ns, l)) + Len(RowsAt(ns, r)) >= Degree - 1

Merging(T, ns, us, rt, lv, a, v, p, j, l, r, e, L, C, ns2) ==
  /\ Beside(T, ns, us, rt, lv, a, v, p, j, l, r) /\ e = KeysAt(ns, p)[j]
  /\ Pooled(ns, p, j, l, r, L, C) /\ Merged(ns2, ns, l, r, L, C)

\* The rows L are those of J's node, and of the right kind.
LEMMA PooledIs ==
  ASSUME NEW T, NEW ns, NEW us, NEW rt, NEW p, NEW j, NEW l, NEW r, NEW L, NEW C,
         BesideInTree(T, ns, us, rt, p, j, l, r), BesideInNodes(ns, us, rt, p, j, l, r),
         Pooled(ns, p, j, l, r, L, C), j \in 1 .. Len(RowsAt(ns, p))
  PROVE  /\ L \in Seq(Row) /\ L \in Seq(Tagged(LeafAt(ns, l))) /\ Len(L) <= MaxRows /\ Len(L) >= Degree - 1
         /\ C \in Seq(Node) /\ Len(C) = IF LeafAt(ns, l) THEN 0 ELSE Len(L) + 1
         /\ KeysOf(L) = IF LeafAt(ns, l) THEN KeysAt(ns, l) \o KeysAt(ns, r)
                        ELSE Append(KeysAt(ns, l), KeysAt(ns, p)[j]) \o KeysAt(ns, r)
<1>1. /\ LeafAt(ns, l) => L = RowsAt(ns, l) \o RowsAt(ns, r)
      /\ ~ LeafAt(ns, l) => L = Append(RowsAt(ns, l), RowsAt(ns, p)[j]) \o RowsAt(ns, r)
      /\ C = KidsAt(ns, l) \o KidsAt(ns, r)
      /\ Len(RowsAt(ns, l)) + Len(RowsAt(ns, r)) < MaxRows
      /\ Len(RowsAt(ns, l)) + Len(RowsAt(ns, r)) >= Degree - 1
  BY DEF Pooled
<1>2. /\ Shaped(ns, us) /\ p \in Node /\ l \in Node /\ r \in Node
      /\ ~ LeafAt(ns, p) /\ LeafAt(ns, l) = LeafAt(ns, r)
      /\ RowsAt(ns, p)[j] = <<KeysAt(ns, p)[j], 1>> /\ KeysAt(ns, p)[j] \in Key
  BY DEF BesideInNodes
<1>3. PICK x, y, e, row, cx, cy : /\ x = RowsAt(ns, l) /\ y = RowsAt(ns, r) /\ e = KeysAt(ns, p)[j] /\ row = RowsAt(ns, p)[j]
                                  /\ cx = KidsAt(ns, l) /\ cy = KidsAt(ns, r)
  OBVIOUS
<1>4. row \in Copied /\ row \in Row /\ row[1] = e
  BY <1>2, <1>3, CopiesAssumption DEF Copied, Row
<1>5. /\ x \in Seq(Row) /\ y \in Seq(Row) /\ Len(x) \in Nat /\ Len(y) \in Nat /\ cx \in Seq(Node) /\ cy \in Seq(Node)
      /\ Len(x) + Len(y) < MaxRows /\ Len(x) + Len(y) >= Degree - 1 /\ MaxRows \in Nat
  <2>1. /\ x \in Seq(Row) /\ Len(x) \in Nat /\ cx \in Seq(Node)
    BY <1>2, <1>3, ShapedFacts
  <2>2. /\ y \in Seq(Row) /\ Len(y) \in Nat /\ cy \in Seq(Node)
    BY <1>2, <1>3, ShapedFacts
  <2>3. MaxRows \in Nat
    BY DegreeAssumption DEF MaxRows
  <2>4. Len(x) + Len(y) < MaxRows /\ Len(x) + Len(y) >= Degree - 1
    BY <1>1, <1>3
  <2>. QED  BY <2>1, <2>2, <2>3, <2>4
<1>6. cx \o cy \in Seq(Node) /\ Len(cx \o cy) = Len(cx) + Len(cy)
  BY <1>5, ConcatIs
<1>7. CASE LeafAt(ns, l)
  <2>1. x \in Seq(Own) /\ y \in Seq(Own) /\ Len(cx) = 0 /\ Len(cy) = 0
    BY <1>2, <1>3, <1>7, ShapedFacts
  <2>2. x \o y \in Seq(Own) /\ Len(x \o y) = Len(x) + Len(y)
    BY ONLY <2>1, ConcatIs
  <2>3. x \o y \in Seq(Row) /\ KeysOf(x \o y) = KeysOf(x) \o KeysOf(y)
    BY <1>5, KeysConcat
  <2>4. L = x \o y /\ C = cx \o cy
    BY <1>1, <1>3, <1>7
  <2>5. Len(C) = 0 /\ C \in Seq(Node)
    BY <1>6, <2>1, <2>4
  <2>6. Len(L) = Len(x) + Len(y)
    BY <2>2, <2>4
  <2>7. Len(L) <= MaxRows /\ Len(L) >= Degree - 1
    BY <1>5, <2>6
  <2>. QED  BY <1>3, <1>7, <2>2, <2>3, <2>4, <2>5, <2>7 DEF Tagged, KeysAt
<1>8. CASE ~ LeafAt(ns, l)
  <2>1. x \in Seq(Copied) /\ y \in Seq(Copied) /\ Len(cx) = Len(x) + 1 /\ Len(cy) = Len(y) + 1
    BY <1>2, <1>3, <1>8, ShapedFacts
  <2>2. Append(x, row) \in Seq(Copied) /\ Len(Append(x, row)) = Len(x) + 1
    BY <1>4, <2>1
  <2>3. Append(x, row) \o y \in Seq(Copied) /\ Len(Append(x, row) \o y) = Len(Append(x, row)) + Len(y)
    BY ONLY <2>1, <2>2, ConcatIs
  <2>4. Append(x, row) \o y \in Seq(Row) /\ KeysOf(Append(x, row) \o y) = Append(KeysOf(x), row[1]) \o KeysOf(y)
    BY <1>4, <1>5, KeysAppend
  <2>5. L = Append(x, row) \o y /\ C = cx \o cy
    BY <1>1, <1>3, <1>8
  <2>6. Len(L) = Len(x) + 1 + Len(y)
    BY <2>2, <2>3, <2>5
  <2>7. Len(L) <= MaxRows /\ Len(L) >= Degree - 1 /\ Len(C) = Len(L) + 1
    <3>1. Len(C) = Len(cx) + Len(cy)
      BY <1>6, <2>5
    <3>2. PICK nx, ny, nl, nc : nx = Len(x) /\ ny = Len(y) /\ nl = Len(L) /\ nc = Len(C)
      OBVIOUS
    <3>3. nl = nx + 1 + ny /\ nc = nx + 1 + (ny + 1) /\ nx \in Nat /\ ny \in Nat /\ nx + ny < MaxRows /\ nx + ny >= Degree - 1
      BY <1>5, <2>1, <2>6, <3>1, <3>2
    <3>. QED  BY ONLY <3>2, <3>3, DegreeAssumption DEF MaxRows
  <2>8. C \in Seq(Node)
    BY <1>6, <2>5
  <2>. QED  BY <1>3, <1>4, <1>8, <2>3, <2>4, <2>5, <2>7, <2>8 DEF Tagged, KeysAt
<1>. QED  BY <1>7, <1>8

\* A merge goes on with the key e of p.
MergesOn(T, ns2, us2, rt, lv, p, e, drop, v) ==
  \E J : /\ GoodMerge(J, ns2, us2, rt, lv, p, e, drop, v)
         /\ LeafKeys(J) = LeafKeys(T) /\ InnerKeys(T) = InnerKeys(J) \cup {e}

\* LeafMergesLeft, LeafMergesRight and Joined.
LEMMA MergeKept ==
  ASSUME NEW T, NEW ns, NEW us, NEW rt, NEW lv, NEW a, NEW v, NEW p, NEW j, NEW l, NEW r, NEW e, NEW L, NEW C, NEW ns2,
         Merging(T, ns, us, rt, lv, a, v, p, j, l, r, e, L, C, ns2)
  PROVE  MergesOn(T, ns2, us \ {r}, rt, lv, p, e, LeafAt(ns, l), v)
<1>1. /\ Beside(T, ns, us, rt, lv, a, v, p, j, l, r) /\ e = KeysAt(ns, p)[j]
      /\ Pooled(ns, p, j, l, r, L, C) /\ Merged(ns2, ns, l, r, L, C)
  BY DEF Merging
<1>2. BesideInTree(T, ns, us, rt, p, j, l, r) /\ BesideInNodes(ns, us, rt, p, j, l, r)
  BY <1>1, BesideIs
<1>3. /\ Tree(T) /\ Nodes(T) = us /\ Top(T) = rt
      /\ p \in us /\ l \in us /\ r \in us /\ p # l /\ p # r /\ l # r /\ l # rt /\ r # rt
      /\ Lev(T, p) # 0 /\ Lev(T, l) = Lev(T, r) /\ (Lev(T, l) = 0 <=> LeafAt(ns, l)) /\ (Lev(T, r) = 0 <=> LeafAt(ns, r))
      /\ j \in 1 .. Len(Keys(T, p)) /\ l = Kids(T, p)[j] /\ r = Kids(T, p)[j + 1]
      /\ \A x \in us : Keys(T, x) = KeysAt(ns, x) /\ Kids(T, x) = KidsAt(ns, x) /\ Up(T, x) = ParentAt(ns, x)
  BY <1>2 DEF BesideInTree
<1>4. /\ Shaped(ns, us) /\ us \subseteq Node /\ rt \in us /\ ParentAt(ns, rt) = Nil /\ p \in Node /\ l \in Node /\ r \in Node
      /\ ~ LeafAt(ns, p) /\ LeafAt(ns, l) = LeafAt(ns, r) /\ ParentAt(ns, l) = p /\ ParentAt(ns, r) = p
      /\ RowsAt(ns, p)[j] = <<KeysAt(ns, p)[j], 1>> /\ KeysAt(ns, p)[j] \in Key
  BY <1>2 DEF BesideInNodes
<1>5. /\ Short(T, ns, us, rt, lv, a, v) /\ j \in 1 .. Len(RowsAt(ns, p)) /\ (a = l \/ a = r)
  BY <1>1 DEF Beside
<1>6. /\ View(T, ns, us, rt, Nil) /\ Nil \notin Nodes(T) /\ AllFilled(ns, us, rt, a)
      /\ v \in Key /\ v \notin LeafKeys(T) /\ lv = Recs(LeafKeys(T) \cup {v}, InnerKeys(T))
  BY <1>5 DEF Short
<1>7. /\ L \in Seq(Row) /\ L \in Seq(Tagged(LeafAt(ns, l))) /\ Len(L) <= MaxRows /\ Len(L) >= Degree - 1
      /\ C \in Seq(Node) /\ Len(C) = IF LeafAt(ns, l) THEN 0 ELSE Len(L) + 1
      /\ KeysOf(L) = IF LeafAt(ns, l) THEN KeysAt(ns, l) \o KeysAt(ns, r)
                     ELSE Append(KeysAt(ns, l), KeysAt(ns, p)[j]) \o KeysAt(ns, r)
  BY <1>1, <1>2, <1>5, PooledIs
<1>8. PICK J : J = Join(T, p, j, l, r, e)
  OBVIOUS
<1>9. e = Keys(T, p)[j] /\ e \in Key
  BY <1>1, <1>3, <1>4
<1>10. /\ Tree(J) /\ Halved(J, T, p, j, l, r, e)
       /\ Keys(J, p) = RemoveAt(Keys(T, p), j) /\ Kids(J, p) = RemoveAt(Kids(T, p), j + 1)
       /\ Kids(J, l) = Kids(T, l) \o Kids(T, r)
       /\ Keys(J, l) = IF Lev(T, l) = 0 THEN Keys(T, l) \o Keys(T, r) ELSE Append(Keys(T, l), e) \o Keys(T, r)
  <2>1. Joining(T, J, p, j, l, r, e)
    BY <1>3, <1>8, <1>9 DEF Joining
  <2>. QED  BY <2>1, JoinTree
<1>11. /\ Nodes(J) = us \ {r} /\ Top(J) = rt
       /\ \A x \in us \ {r} : Lev(J, x) = Lev(T, x) /\ Up(J, x) = IF IsKid(T, r, x) THEN l ELSE Up(T, x)
       /\ \A x \in us \ {r, p, l} : Keys(J, x) = Keys(T, x) /\ Kids(J, x) = Kids(T, x)
  <2>1. /\ Nodes(J) = Nodes(T) \ {r} /\ Top(J) = Top(T)
        /\ \A x \in Nodes(J) :
              /\ Lev(J, x) = Lev(T, x)
              /\ x \notin {p, l} => Keys(J, x) = Keys(T, x) /\ Kids(J, x) = Kids(T, x)
              /\ Up(J, x) = IF IsKid(T, r, x) THEN l ELSE Up(T, x)
    BY <1>8, JoinIs
  <2>. QED  BY <1>3, <2>1
<1>12. /\ LeafKeys(T) = LeafKeys(J) /\ InnerKeys(T) = InnerKeys(J) \cup {e}
       /\ Lev(J, l) = 0 => e \notin InnerKeys(J)
       /\ Lev(J, l) # 0 => e \in InnerKeys(J)
  BY <1>3, <1>10, HalvedKeys
<1>13. /\ LeafAt(ns, l) => e \notin InnerKeys(J)
       /\ ~ LeafAt(ns, l) => e \in InnerKeys(J)
  <2>1. Lev(J, l) = Lev(T, l)
    BY <1>3, <1>11
  <2>. QED  BY <1>3, <1>12, <2>1
<1>14. KeysOf(L) = Keys(J, l) /\ C = Kids(J, l)
  <2>1. Keys(T, l) = KeysAt(ns, l) /\ Keys(T, r) = KeysAt(ns, r) /\ Kids(T, l) = KidsAt(ns, l) /\ Kids(T, r) = KidsAt(ns, r)
    BY <1>3
  <2>2. C = KidsAt(ns, l) \o KidsAt(ns, r)
    BY <1>1 DEF Pooled
  <2>3. C = Kids(J, l)
    BY <1>10, <2>1, <2>2
  <2>4. CASE LeafAt(ns, l)
    BY <1>3, <1>7, <1>10, <2>1, <2>3, <2>4
  <2>5. CASE ~ LeafAt(ns, l)
    <3>1. KeysOf(L) = Append(KeysAt(ns, l), e) \o KeysAt(ns, r)
      BY <1>1, <1>7, <2>5
    <3>2. Keys(J, l) = Append(KeysAt(ns, l), e) \o KeysAt(ns, r)
      BY <1>3, <1>10, <2>1, <2>5
    <3>. QED  BY <2>3, <3>1, <3>2
  <2>. QED  BY <2>4, <2>5
<1>15. /\ ns2 \in [Node -> NodeRec]
       /\ RowsAt(ns2, l) = L /\ KidsAt(ns2, l) = C
       /\ RowsAt(ns2, r) = << >> /\ KidsAt(ns2, r) = << >> /\ LeafAt(ns2, r) = TRUE
       /\ \A x \in Node \ {l, r} : RowsAt(ns2, x) = RowsAt(ns, x) /\ KidsAt(ns2, x) = KidsAt(ns, x)
       /\ \A x \in Node \ {r} : /\ LeafAt(ns2, x) = LeafAt(ns, x)
                                /\ ParentAt(ns2, x) = IF In(KidsAt(ns, r), x) THEN l ELSE ParentAt(ns, x)
  BY <1>1 DEF Merged
<1>16. Shaped(ns2, us \ {r})
  <2>1. ASSUME NEW x \in Node PROVE ShapedAt(ns2, x) /\ (x \notin us \ {r} => LeafAt(ns2, x))
    <3>1. ShapedAt(ns, x) /\ (x \notin us => LeafAt(ns, x))
      BY <1>4 DEF Shaped
    <3>2. CASE x = r
      <4>1. PICK n : n = << >>
        OBVIOUS
      <4>2. n \in Seq(Own) /\ Len(n) = 0 /\ Len(n) <= MaxRows
        BY <4>1, DegreeAssumption DEF MaxRows
      <4>. QED  BY <1>15, <3>2, <4>1, <4>2 DEF ShapedAt, Tagged
    <3>3. CASE x = l
      <4>1. LeafAt(ns2, l) = LeafAt(ns, l)
        BY <1>3, <1>4, <1>15
      <4>. QED  BY <1>3, <1>7, <1>15, <3>3, <4>1 DEF ShapedAt
    <3>4. CASE x # r /\ x # l
      <4>1. x \in Node \ {r} /\ x \in Node \ {l, r}
        BY <3>4
      <4>. QED  BY <1>15, <3>1, <3>4, <4>1 DEF ShapedAt
    <3>. QED  BY <3>2, <3>3, <3>4
  <2>. QED  BY <1>15, <2>1 DEF Shaped
<1>17. \A x \in us \ {r} : Up(J, x) = ParentAt(ns2, x) /\ (Lev(J, x) = 0 <=> LeafAt(ns2, x))
  <2>1. ASSUME NEW x \in us \ {r} PROVE Up(J, x) = ParentAt(ns2, x) /\ (Lev(J, x) = 0 <=> LeafAt(ns2, x))
    <3>1. x \in us /\ x \in Node \ {r}
      BY <1>4
    <3>2. Up(T, x) = ParentAt(ns, x) /\ (Lev(T, x) = 0 <=> LeafAt(ns, x))
      BY <1>6, <3>1, ViewFacts
    <3>3. IsKid(T, r, x) <=> In(KidsAt(ns, r), x)
      BY <1>3 DEF IsKid, In
    <3>. QED  BY <1>11, <1>15, <3>1, <3>2, <3>3
  <2>. QED  BY <2>1
<1>18. View(J, ns2, us \ {r}, rt, p)
  <2>1. ASSUME NEW x \in us \ {r}, x # p PROVE Keys(J, x) = KeysAt(ns2, x) /\ Kids(J, x) = KidsAt(ns2, x)
    <3>1. CASE x = l
      BY <1>14, <1>15, <3>1 DEF KeysAt
    <3>2. CASE x # l
      <4>1. x \in us \ {r, p, l} /\ x \in us /\ x \in Node \ {l, r}
        BY <1>4, <2>1, <3>2
      <4>2. Keys(T, x) = KeysAt(ns, x) /\ Kids(T, x) = KidsAt(ns, x)
        BY <1>3, <4>1
      <4>. QED  BY <1>11, <1>15, <4>1, <4>2 DEF KeysAt
    <3>. QED  BY <3>1, <3>2
  <2>2. us \ {r} \subseteq Node /\ rt \in us \ {r} /\ Nil \notin Nodes(J)
    BY <1>3, <1>4, <1>6, <1>11
  <2>3. ParentAt(ns2, rt) = Nil
    <3>1. Up(J, rt) = Nil
      BY <1>10, <1>11 DEF Tree
    <3>. QED  BY <1>17, <2>2, <3>1
  <2>. QED  BY <1>10, <1>11, <1>16, <1>17, <2>1, <2>2, <2>3 DEF View
<1>19. AllFilled(ns2, us \ {r}, rt, Nil)
  <2>1. ASSUME NEW x \in us \ {r} PROVE \/ Len(RowsAt(ns2, x)) >= Degree - 1
                                        \/ x = rt /\ (LeafAt(ns2, x) \/ Len(RowsAt(ns2, x)) >= 1)
    <3>1. CASE x = l
      BY <1>7, <1>15, <3>1
    <3>2. CASE x # l
      <4>1. x # a /\ x \in us /\ x \in Node \ {r} /\ x \in Node \ {l, r}
        BY <1>4, <1>5, <3>2
      <4>2. \/ Len(RowsAt(ns, x)) >= Degree - 1
            \/ x = rt /\ (LeafAt(ns, x) \/ Len(RowsAt(ns, x)) >= 1)
        BY <1>6, <4>1 DEF AllFilled
      <4>. QED  BY <1>15, <4>1, <4>2
    <3>. QED  BY <3>1, <3>2
  <2>. QED  BY <2>1 DEF AllFilled
<1>20. PICK ks, cs : ks = Keys(T, p) /\ cs = Kids(T, p)
  OBVIOUS
<1>21. KeysAt(ns2, p) = ks /\ KidsAt(ns2, p) = cs /\ ~ LeafAt(ns2, p) /\ Sorted(ks) /\ ks \in Seq(Key)
  <2>1. p \in Node \ {r} /\ p \in Node \ {l, r}
    BY <1>3, <1>4
  <2>2. KeysAt(ns2, p) = KeysAt(ns, p) /\ KidsAt(ns2, p) = KidsAt(ns, p)
    BY <1>15, <2>1 DEF KeysAt
  <2>. QED  BY <1>3, <1>4, <1>15, <1>20, <2>1, <2>2, NodeFacts
<1>22. Inserted(ks, Keys(J, p), j, e)
  <2>1. j \in 1 .. Len(ks) /\ e = ks[j] /\ Keys(J, p) = RemoveAt(ks, j)
    BY <1>3, <1>9, <1>10, <1>20
  <2>2. ks \in Seq(Key)
    BY <1>21
  <2>. QED  BY ONLY <2>1, <2>2, RemoveAtInserted
<1>23. Inserted(cs, Kids(J, p), j + 1, r)
  <2>1. PICK m : m = j + 1
    OBVIOUS
  <2>2. m \in 1 .. Len(cs) /\ r = cs[m] /\ Kids(J, p) = RemoveAt(cs, m)
    <3>1. Len(cs) = Len(ks) + 1 /\ Len(ks) \in Nat
      BY <1>3, <1>20, NodeFacts
    <3>. QED  BY <1>3, <1>10, <1>20, <2>1, <3>1
  <2>3. cs \in Seq(us)
    BY <1>3, <1>20, NodeFacts
  <2>4. Inserted(cs, RemoveAt(cs, m), m, r)
    BY ONLY <2>2, <2>3, RemoveAtInserted
  <2>. QED  BY <2>1, <2>2, <2>4
<1>24. \E i, d : d \notin us \ {r} /\ Inserted(KeysAt(ns2, p), Keys(J, p), i, e) /\ Inserted(KidsAt(ns2, p), Kids(J, p), i + 1, d)
  BY <1>21, <1>22, <1>23
<1>25. lv = Recs(LeafKeys(J) \cup {v}, InnerKeys(J) \cup {e}) /\ v \notin LeafKeys(J)
  BY <1>6, <1>12
<1>26. GoodMerge(J, ns2, us \ {r}, rt, lv, p, e, LeafAt(ns, l), v)
  <2>1. LeafAt(ns, l) <=> e \notin InnerKeys(J)
    BY <1>13
  <2>2. p \in us \ {r} /\ Nil \notin Nodes(J) /\ Sorted(KeysAt(ns2, p)) /\ ~ LeafAt(ns2, p)
    BY <1>3, <1>6, <1>11, <1>21
  <2>. QED  BY <1>6, <1>9, <1>18, <1>19, <1>24, <1>25, <2>1, <2>2 DEF GoodMerge
<1>. QED  BY <1>12, <1>13, <1>26 DEF MergesOn

-----------------------------------------------------------------------------
\* p has the rows P; l and r have the rows and children that both had, shared anew.
Moved(ns2, ns, p, P, l, L, CL, r, R, CR) ==
  /\ ns2 \in [Node -> NodeRec]
  /\ RowsAt(ns2, p) = P /\ KidsAt(ns2, p) = KidsAt(ns, p)
  /\ RowsAt(ns2, l) = L /\ KidsAt(ns2, l) = CL /\ RowsAt(ns2, r) = R /\ KidsAt(ns2, r) = CR
  /\ \A x \in Node \ {p, l, r} : RowsAt(ns2, x) = RowsAt(ns, x) /\ KidsAt(ns2, x) = KidsAt(ns, x)
  /\ \A x \in Node : LeafAt(ns2, x) = LeafAt(ns, x)
  /\ \A x \in Node : ParentAt(ns2, x) = IF In(CR, x) THEN r ELSE IF In(KidsAt(ns, r), x) THEN l ELSE ParentAt(ns, x)

\* The shares, parted by the row w.
Shares(ns, us, p, j, l, r, w, L, CL, R, CR) ==
  /\ L \in Seq(Tagged(LeafAt(ns, l))) /\ R \in Seq(Tagged(LeafAt(ns, l))) /\ CL \in Seq(us) /\ CR \in Seq(us)
  /\ Len(L) >= Degree - 1 /\ Len(L) <= MaxRows /\ Len(R) >= Degree - 1 /\ Len(R) <= MaxRows
  /\ LeafAt(ns, l) => Glued(RowsAt(ns, l) \o RowsAt(ns, r), L, R) /\ w = R[1] /\ Len(CL) = 0 /\ Len(CR) = 0
  /\ ~ LeafAt(ns, l) => /\ Spliced(Append(RowsAt(ns, l), RowsAt(ns, p)[j]) \o RowsAt(ns, r), L, w, R)
                        /\ Len(CL) = Len(L) + 1 /\ Len(CR) = Len(R) + 1
  /\ Glued(KidsAt(ns, l) \o KidsAt(ns, r), CL, CR)

Sharing(T, ns, us, rt, lv, a, v, p, j, l, r, w, P, L, CL, R, CR, ns2) ==
  /\ Beside(T, ns, us, rt, lv, a, v, p, j, l, r) /\ Shares(ns, us, p, j, l, r, w, L, CL, R, CR)
  /\ Moved(ns2, ns, p, P, l, L, CL, r, R, CR) /\ P \in Seq(Copied) /\ Len(P) = Len(RowsAt(ns, p))

\* The shares as arrays of keys.
LEMMA SharesShift ==
  ASSUME NEW T, NEW ns, NEW us, NEW rt, NEW p, NEW j, NEW l, NEW r, NEW w, NEW L, NEW CL, NEW R, NEW CR,
         BesideInTree(T, ns, us, rt, p, j, l, r), BesideInNodes(ns, us, rt, p, j, l, r),
         Shares(ns, us, p, j, l, r, w, L, CL, R, CR)
  PROVE  Shifting(T, p, j, l, r, KeysAt(ns, p)[j], w[1], KeysOf(L), CL, KeysOf(R), CR)
<1>1. /\ L \in Seq(Tagged(LeafAt(ns, l))) /\ R \in Seq(Tagged(LeafAt(ns, l))) /\ CL \in Seq(us) /\ CR \in Seq(us)
      /\ Len(L) >= Degree - 1 /\ Len(R) >= Degree - 1
      /\ LeafAt(ns, l) => Glued(RowsAt(ns, l) \o RowsAt(ns, r), L, R) /\ w = R[1]
      /\ ~ LeafAt(ns, l) => /\ Spliced(Append(RowsAt(ns, l), RowsAt(ns, p)[j]) \o RowsAt(ns, r), L, w, R)
                            /\ Len(CL) = Len(L) + 1
      /\ Glued(KidsAt(ns, l) \o KidsAt(ns, r), CL, CR)
  BY DEF Shares
<1>2. /\ Tree(T) /\ Nodes(T) = us
      /\ p \in us /\ l \in us /\ r \in us
      /\ Lev(T, p) # 0 /\ (Lev(T, l) = 0 <=> LeafAt(ns, l))
      /\ j \in 1 .. Len(Keys(T, p)) /\ l = Kids(T, p)[j] /\ r = Kids(T, p)[j + 1]
      /\ \A x \in us : Keys(T, x) = KeysAt(ns, x) /\ Kids(T, x) = KidsAt(ns, x)
  BY DEF BesideInTree
<1>3. /\ Shaped(ns, us) /\ l \in Node /\ r \in Node
      /\ RowsAt(ns, p)[j] = <<KeysAt(ns, p)[j], 1>> /\ KeysAt(ns, p)[j] \in Key
  BY DEF BesideInNodes
<1>4. L \in Seq(Row) /\ R \in Seq(Row)
  BY <1>1, TaggedRows DEF Tagged
<1>5. PICK x, y, e, row, kl, kr : /\ x = RowsAt(ns, l) /\ y = RowsAt(ns, r) /\ e = KeysAt(ns, p)[j] /\ row = RowsAt(ns, p)[j]
                                  /\ kl = KeysOf(L) /\ kr = KeysOf(R)
  OBVIOUS
<1>6. row \in Row /\ row[1] = e
  BY <1>3, <1>5, CopiesAssumption DEF Row
<1>7. x \in Seq(Row) /\ y \in Seq(Row)
  BY <1>3, <1>5, ShapedFacts
<1>8. Keys(T, l) = KeysOf(x) /\ Keys(T, r) = KeysOf(y) /\ e = Keys(T, p)[j] /\ Kids(T, l) = KidsAt(ns, l) /\ Kids(T, r) = KidsAt(ns, r)
  BY <1>2, <1>5 DEF KeysAt
<1>9. kl \in Seq(Key) /\ kr \in Seq(Key) /\ Len(kl) = Len(L) /\ Len(kr) = Len(R) /\ Len(kl) >= 1 /\ Len(kr) >= 1
  BY <1>1, <1>4, <1>5, KeysAreKeys, KeysOfIs, DegreeAssumption
<1>10. LeafAt(ns, l) => Glued(Keys(T, l) \o Keys(T, r), kl, kr) /\ w[1] = kr[1]
  <2>1. ASSUME LeafAt(ns, l) PROVE Glued(Keys(T, l) \o Keys(T, r), kl, kr) /\ w[1] = kr[1]
    <3>1. x \o y \in Seq(Row) /\ KeysOf(x \o y) = KeysOf(x) \o KeysOf(y)
      BY <1>7, KeysConcat
    <3>2. PICK s : s = x \o y
      OBVIOUS
    <3>3. s \in Seq(Row) /\ Glued(s, L, R)
      BY <1>1, <1>5, <2>1, <3>1, <3>2
    <3>4. Glued(KeysOf(s), KeysOf(L), KeysOf(R))
      BY <1>4, <3>3, KeysGlued
    <3>5. 1 \in 1 .. Len(R)
      BY <1>9, KeysOfIs, <1>4
    <3>6. kr[1] = R[1][1]
      BY <1>4, <1>5, <3>5, KeysOfIs
    <3>. QED  BY <1>1, <1>5, <1>8, <2>1, <3>1, <3>2, <3>4, <3>6
  <2>. QED  BY <2>1
<1>11. ~ LeafAt(ns, l) => Spliced(Append(Keys(T, l), e) \o Keys(T, r), kl, w[1], kr)
  <2>1. ASSUME ~ LeafAt(ns, l) PROVE Spliced(Append(Keys(T, l), e) \o Keys(T, r), kl, w[1], kr)
    <3>1. Append(x, row) \o y \in Seq(Row) /\ KeysOf(Append(x, row) \o y) = Append(KeysOf(x), row[1]) \o KeysOf(y)
      BY <1>6, <1>7, KeysAppend
    <3>2. PICK s : s = Append(x, row) \o y
      OBVIOUS
    <3>3. s \in Seq(Row) /\ Spliced(s, L, w, R)
      BY <1>1, <1>5, <2>1, <3>1, <3>2
    <3>4. Spliced(KeysOf(s), KeysOf(L), w[1], KeysOf(R))
      BY <1>4, <3>3, KeysSpliced
    <3>. QED  BY <1>5, <1>6, <1>8, <3>1, <3>2, <3>4
  <2>. QED  BY <2>1
<1>12. Glued(Kids(T, l) \o Kids(T, r), CL, CR)
  BY <1>1, <1>8
<1>13. Lev(T, l) = 0 => Glued(Keys(T, l) \o Keys(T, r), kl, kr) /\ Len(kl) >= 1 /\ Len(kr) >= 1 /\ w[1] = kr[1]
  BY <1>2, <1>9, <1>10
<1>14. Lev(T, l) # 0 => Spliced(Append(Keys(T, l), e) \o Keys(T, r), kl, w[1], kr) /\ Len(CL) = Len(kl) + 1
  BY <1>1, <1>2, <1>9, <1>11
<1>15. PICK f : f = w[1]
  OBVIOUS
<1>16. Shifting(T, p, j, l, r, e, f, kl, CL, kr, CR)
  BY <1>1, <1>2, <1>8, <1>9, <1>12, <1>13, <1>14, <1>15 DEF Shifting
<1>. QED  BY <1>5, <1>15, <1>16

\* What sharing leads to, but for the keys of p.
SharedWell(T, W, ns, ns2, us, rt, p, j, w, leaf) ==
  /\ View(W, ns2, us, rt, p) /\ Nil \notin Nodes(W) /\ AllFilled(ns2, us, rt, Nil)
  /\ Swapped(Keys(W, p), KeysAt(ns, p), j, w[1]) /\ Kids(W, p) = KidsAt(ns2, p)
  /\ LeafKeys(W) = LeafKeys(T) /\ KeysAt(ns, p)[j] \in Key /\ w[1] \in Key
  /\ leaf => /\ KeysAt(ns, p)[j] \in InnerKeys(T) /\ w[1] \notin InnerKeys(T) \ {KeysAt(ns, p)[j]}
             /\ InnerKeys(W) = (InnerKeys(T) \ {KeysAt(ns, p)[j]}) \cup {w[1]}
  /\ ~ leaf => InnerKeys(W) = InnerKeys(T)

\* Neighbours that share their rows anew make a search tree.
LEMMA ShareTree ==
  ASSUME NEW T, NEW ns, NEW us, NEW rt, NEW lv, NEW a, NEW v, NEW p, NEW j, NEW l, NEW r, NEW w, NEW P, NEW L, NEW CL, NEW R, NEW CR,
         NEW ns2, Sharing(T, ns, us, rt, lv, a, v, p, j, l, r, w, P, L, CL, R, CR, ns2)
  PROVE  \E W : SharedWell(T, W, ns, ns2, us, rt, p, j, w, LeafAt(ns, l))
<1>1. /\ Beside(T, ns, us, rt, lv, a, v, p, j, l, r) /\ Shares(ns, us, p, j, l, r, w, L, CL, R, CR)
      /\ Moved(ns2, ns, p, P, l, L, CL, r, R, CR) /\ P \in Seq(Copied) /\ Len(P) = Len(RowsAt(ns, p))
  BY DEF Sharing
<1>2. BesideInTree(T, ns, us, rt, p, j, l, r) /\ BesideInNodes(ns, us, rt, p, j, l, r)
  BY <1>1, BesideIs
<1>3. /\ Tree(T) /\ Nodes(T) = us /\ Top(T) = rt
      /\ p \in us /\ l \in us /\ r \in us /\ p # l /\ p # r /\ l # r /\ l # rt /\ r # rt
      /\ Lev(T, p) # 0 /\ Lev(T, l) = Lev(T, r) /\ (Lev(T, l) = 0 <=> LeafAt(ns, l))
      /\ \A x \in us : Keys(T, x) = KeysAt(ns, x) /\ Kids(T, x) = KidsAt(ns, x) /\ Up(T, x) = ParentAt(ns, x)
  BY <1>2 DEF BesideInTree
<1>4. /\ Shaped(ns, us) /\ us \subseteq Node /\ rt \in us /\ ParentAt(ns, rt) = Nil /\ p \in Node /\ l \in Node /\ r \in Node
      /\ ~ LeafAt(ns, p) /\ LeafAt(ns, l) = LeafAt(ns, r)
  BY <1>2 DEF BesideInNodes
<1>5. /\ Short(T, ns, us, rt, lv, a, v) /\ (a = l \/ a = r)
  BY <1>1 DEF Beside
<1>6. View(T, ns, us, rt, Nil) /\ Nil \notin Nodes(T) /\ AllFilled(ns, us, rt, a)
  BY <1>5 DEF Short
<1>7. /\ L \in Seq(Tagged(LeafAt(ns, l))) /\ R \in Seq(Tagged(LeafAt(ns, l))) /\ CL \in Seq(us) /\ CR \in Seq(us)
      /\ Len(L) >= Degree - 1 /\ Len(L) <= MaxRows /\ Len(R) >= Degree - 1 /\ Len(R) <= MaxRows
      /\ Len(CL) = (IF LeafAt(ns, l) THEN 0 ELSE Len(L) + 1)
      /\ Len(CR) = (IF LeafAt(ns, l) THEN 0 ELSE Len(R) + 1)
  BY <1>1 DEF Shares
<1>8. PICK e, f, kl, kr : e = KeysAt(ns, p)[j] /\ f = w[1] /\ kl = KeysOf(L) /\ kr = KeysOf(R)
  OBVIOUS
<1>9. Shifting(T, p, j, l, r, e, f, kl, CL, kr, CR)
  BY <1>1, <1>2, <1>8, SharesShift, Zenon
<1>10. PICK W : /\ Tree(W) /\ Shifted(T, W, p, j, l, r, f, kl, CL, kr, CR)
                /\ LeafKeys(W) = LeafKeys(T) /\ e \in Key /\ f \in Key
                /\ Lev(T, l) = 0 => /\ e \in InnerKeys(T) /\ f \notin InnerKeys(T) \ {e}
                                    /\ InnerKeys(W) = (InnerKeys(T) \ {e}) \cup {f}
                /\ Lev(T, l) # 0 => InnerKeys(W) = InnerKeys(T)
  BY <1>9, ShiftTree
<1>11. /\ Nodes(W) = us /\ Top(W) = rt /\ \A x \in us : Lev(W, x) = Lev(T, x)
       /\ Keys(W, l) = kl /\ Kids(W, l) = CL /\ Keys(W, r) = kr /\ Kids(W, r) = CR
       /\ Swapped(Keys(W, p), Keys(T, p), j, f) /\ Kids(W, p) = Kids(T, p)
       /\ \A x \in us \ {p, l, r} : Keys(W, x) = Keys(T, x) /\ Kids(W, x) = Kids(T, x)
       /\ \A x \in us : Up(W, x) = IF In(CR, x) THEN r ELSE IF IsKid(T, r, x) THEN l ELSE Up(T, x)
  BY <1>3, <1>10 DEF Shifted
<1>12. /\ ns2 \in [Node -> NodeRec]
       /\ RowsAt(ns2, p) = P /\ KidsAt(ns2, p) = KidsAt(ns, p)
       /\ RowsAt(ns2, l) = L /\ KidsAt(ns2, l) = CL /\ RowsAt(ns2, r) = R /\ KidsAt(ns2, r) = CR
       /\ \A x \in Node \ {p, l, r} : RowsAt(ns2, x) = RowsAt(ns, x) /\ KidsAt(ns2, x) = KidsAt(ns, x)
       /\ \A x \in Node : LeafAt(ns2, x) = LeafAt(ns, x)
       /\ \A x \in Node : ParentAt(ns2, x) = IF In(CR, x) THEN r ELSE IF In(KidsAt(ns, r), x) THEN l ELSE ParentAt(ns, x)
  BY <1>1 DEF Moved
<1>13. Shaped(ns2, us)
  <2>1. ASSUME NEW x \in Node PROVE ShapedAt(ns2, x) /\ (x \notin us => LeafAt(ns2, x))
    <3>1. ShapedAt(ns, x) /\ (x \notin us => LeafAt(ns, x))
      BY <1>4 DEF Shaped
    <3>2. CASE x = p
      <4>1. Len(P) <= MaxRows /\ Len(KidsAt(ns, p)) = Len(P) + 1
        BY <1>1, <1>4, ShapedFacts
      <4>. QED  BY <1>1, <1>3, <1>4, <1>12, <3>2, <4>1 DEF ShapedAt, Tagged
    <3>3. CASE x = l
      BY <1>3, <1>4, <1>7, <1>12, <3>3 DEF ShapedAt
    <3>4. CASE x = r
      BY <1>3, <1>4, <1>7, <1>12, <3>4 DEF ShapedAt
    <3>5. CASE x # p /\ x # r /\ x # l
      <4>1. x \in Node \ {p, l, r}
        BY <3>5
      <4>. QED  BY <1>12, <3>1, <4>1 DEF ShapedAt
    <3>. QED  BY <3>2, <3>3, <3>4, <3>5
  <2>. QED  BY <1>12, <2>1 DEF Shaped
<1>14. View(W, ns2, us, rt, p)
  <2>1. ASSUME NEW x \in us PROVE Up(W, x) = ParentAt(ns2, x) /\ (Lev(W, x) = 0 <=> LeafAt(ns2, x))
    <3>1. x \in Node /\ Up(T, x) = ParentAt(ns, x) /\ (Lev(T, x) = 0 <=> LeafAt(ns, x))
      BY <1>6, ViewFacts
    <3>2. IsKid(T, r, x) <=> In(KidsAt(ns, r), x)
      BY <1>3 DEF IsKid, In
    <3>. QED  BY <1>11, <1>12, <3>1, <3>2
  <2>2. ASSUME NEW x \in us, x # p PROVE Keys(W, x) = KeysAt(ns2, x) /\ Kids(W, x) = KidsAt(ns2, x)
    <3>1. CASE x = l
      BY <1>8, <1>11, <1>12, <3>1 DEF KeysAt
    <3>2. CASE x = r
      BY <1>8, <1>11, <1>12, <3>2 DEF KeysAt
    <3>3. CASE x # l /\ x # r
      <4>1. x \in us \ {p, l, r} /\ x \in Node \ {p, l, r}
        BY <1>4, <2>2, <3>3
      <4>2. Keys(T, x) = KeysAt(ns, x) /\ Kids(T, x) = KidsAt(ns, x)
        BY <1>3
      <4>. QED  BY <1>11, <1>12, <4>1, <4>2 DEF KeysAt
    <3>. QED  BY <3>1, <3>2, <3>3
  <2>3. ParentAt(ns2, rt) = Nil
    <3>1. Up(W, rt) = Nil
      BY <1>10, <1>11 DEF Tree
    <3>. QED  BY <1>4, <2>1, <3>1
  <2>. QED  BY <1>3, <1>4, <1>6, <1>10, <1>11, <1>13, <2>1, <2>2, <2>3 DEF View
<1>15. AllFilled(ns2, us, rt, Nil)
  <2>1. ASSUME NEW x \in us PROVE \/ Len(RowsAt(ns2, x)) >= Degree - 1
                                  \/ x = rt /\ (LeafAt(ns2, x) \/ Len(RowsAt(ns2, x)) >= 1)
    <3>1. CASE x = l \/ x = r
      BY <1>7, <1>12, <3>1
    <3>2. CASE x # l /\ x # r
      <4>1. x # a /\ x \in Node
        BY <1>4, <1>5, <3>2
      <4>2. \/ Len(RowsAt(ns, x)) >= Degree - 1
            \/ x = rt /\ (LeafAt(ns, x) \/ Len(RowsAt(ns, x)) >= 1)
        BY <1>6, <4>1 DEF AllFilled
      <4>3. Len(RowsAt(ns2, x)) = Len(RowsAt(ns, x))
        <5>1. CASE x = p
          BY <1>1, <1>12, <5>1
        <5>2. CASE x # p
          <6>1. x \in Node \ {p, l, r}
            BY <3>2, <4>1, <5>2
          <6>. QED  BY <1>12, <6>1
        <5>. QED  BY <5>1, <5>2
      <4>. QED  BY <1>12, <4>1, <4>2, <4>3
    <3>. QED  BY <3>1, <3>2
  <2>. QED  BY <2>1 DEF AllFilled
<1>16. Swapped(Keys(W, p), KeysAt(ns, p), j, f) /\ Kids(W, p) = KidsAt(ns2, p) /\ Nil \notin Nodes(W)
  BY <1>3, <1>6, <1>11, <1>12
<1>. QED  BY <1>3, <1>8, <1>10, <1>14, <1>15, <1>16 DEF SharedWell

\* The i-th row of the node p is to be replaced by a copy of that of k; its own is deleted first.
GoodReplace(T, ns, us, rt, lv, p, i, k, drop, v) ==
  /\ View(T, ns, us, rt, p) /\ Nil \notin Nodes(T) /\ AllFilled(ns, us, rt, Nil)
  /\ p \in us /\ ~ LeafAt(ns, p) /\ i \in 1 .. Len(RowsAt(ns, p))
  /\ Kids(T, p) = KidsAt(ns, p) /\ Swapped(Keys(T, p), KeysAt(ns, p), i, k)
  /\ k \in Key /\ v \in Key /\ v \notin LeafKeys(T) /\ k \in InnerKeys(T) /\ KeysAt(ns, p)[i] \notin InnerKeys(T) \ {k}
  /\ lv = Recs(LeafKeys(T) \cup {v}, IF drop THEN (InnerKeys(T) \ {k}) \cup {KeysAt(ns, p)[i]} ELSE InnerKeys(T) \ {k})

\* LeafBorrowsLeft and LeafBorrowsRight.
SharedLeaves(T, ns, us, rt, lv, a, v, p, j, l, r, w, P, L, CL, R, CR, ns2) ==
  Sharing(T, ns, us, rt, lv, a, v, p, j, l, r, w, P, L, CL, R, CR, ns2) /\ LeafAt(ns, l) /\ P = RowsAt(ns, p)

Replaceable(T, ns2, us, rt, lv, p, j, w, v) ==
  \E W : GoodReplace(W, ns2, us, rt, lv, p, j, w[1], TRUE, v) /\ LeafKeys(W) = LeafKeys(T)

\* Leaves that have shared their rows wait for a new separator.
LEMMA ShareReplace ==
  ASSUME NEW T, NEW ns, NEW us, NEW rt, NEW lv, NEW a, NEW v, NEW p, NEW j, NEW l, NEW r, NEW w, NEW P, NEW L, NEW CL, NEW R, NEW CR,
         NEW ns2, SharedLeaves(T, ns, us, rt, lv, a, v, p, j, l, r, w, P, L, CL, R, CR, ns2)
  PROVE  Replaceable(T, ns2, us, rt, lv, p, j, w, v)
<1>0. Sharing(T, ns, us, rt, lv, a, v, p, j, l, r, w, P, L, CL, R, CR, ns2) /\ LeafAt(ns, l) /\ P = RowsAt(ns, p)
  BY DEF SharedLeaves
<1>1. PICK W : SharedWell(T, W, ns, ns2, us, rt, p, j, w, LeafAt(ns, l))
  BY <1>0, ShareTree, Zenon
<1>2. PICK e, f : e = KeysAt(ns, p)[j] /\ f = w[1]
  OBVIOUS
<1>3. /\ View(W, ns2, us, rt, p) /\ Nil \notin Nodes(W) /\ AllFilled(ns2, us, rt, Nil)
      /\ Swapped(Keys(W, p), KeysAt(ns, p), j, f) /\ Kids(W, p) = KidsAt(ns2, p)
      /\ LeafKeys(W) = LeafKeys(T) /\ e \in Key /\ f \in Key
      /\ e \in InnerKeys(T) /\ f \notin InnerKeys(T) \ {e}
      /\ InnerKeys(W) = (InnerKeys(T) \ {e}) \cup {f}
  BY <1>0, <1>1, <1>2 DEF SharedWell
<1>4. /\ Beside(T, ns, us, rt, lv, a, v, p, j, l, r) /\ Moved(ns2, ns, p, P, l, L, CL, r, R, CR)
  BY <1>0 DEF Sharing
<1>5. BesideInTree(T, ns, us, rt, p, j, l, r) /\ BesideInNodes(ns, us, rt, p, j, l, r)
  BY <1>4, BesideIs
<1>6. Short(T, ns, us, rt, lv, a, v) /\ j \in 1 .. Len(RowsAt(ns, p))
  BY <1>4 DEF Beside
<1>7. v \in Key /\ v \notin LeafKeys(T) /\ lv = Recs(LeafKeys(T) \cup {v}, InnerKeys(T))
  BY <1>6 DEF Short
<1>8. p \in us /\ p \in Node /\ ~ LeafAt(ns, p)
  BY <1>5 DEF BesideInTree, BesideInNodes
<1>9. RowsAt(ns2, p) = RowsAt(ns, p) /\ LeafAt(ns2, p) = LeafAt(ns, p)
  BY <1>0, <1>4, <1>8 DEF Moved
<1>10. KeysAt(ns2, p) = KeysAt(ns, p)
  BY <1>9 DEF KeysAt
<1>11. (InnerKeys(W) \ {f}) \cup {e} = InnerKeys(T) /\ f \in InnerKeys(W) /\ e \notin InnerKeys(W) \ {f}
  BY <1>3
<1>12. lv = Recs(LeafKeys(W) \cup {v}, (InnerKeys(W) \ {f}) \cup {e})
  BY <1>3, <1>7, <1>11
<1>13. GoodReplace(W, ns2, us, rt, lv, p, j, f, TRUE, v)
  BY <1>2, <1>3, <1>6, <1>7, <1>8, <1>9, <1>10, <1>11, <1>12 DEF GoodReplace
<1>. QED  BY <1>2, <1>3, <1>13 DEF Replaceable

\* BorrowLeft and BorrowRight.
SharedInner(T, ns, us, rt, lv, a, v, p, j, l, r, w, P, L, CL, R, CR, ns2) ==
  Sharing(T, ns, us, rt, lv, a, v, p, j, l, r, w, P, L, CL, R, CR, ns2) /\ ~ LeafAt(ns, l) /\ Swapped(P, RowsAt(ns, p), j, w)

Settled(T, ns2, us, rt, lv, v) ==
  \E W : /\ GoodIdle(W, ns2, us, rt, lv \ {<<v, 0>>})
         /\ LeafKeys(W) = LeafKeys(T) /\ InnerKeys(W) = InnerKeys(T)

\* Nonleaf nodes that have shared their rows wait for nothing.
LEMMA ShareIdle ==
  ASSUME NEW T, NEW ns, NEW us, NEW rt, NEW lv, NEW a, NEW v, NEW p, NEW j, NEW l, NEW r, NEW w, NEW P, NEW L, NEW CL, NEW R, NEW CR,
         NEW ns2, SharedInner(T, ns, us, rt, lv, a, v, p, j, l, r, w, P, L, CL, R, CR, ns2)
  PROVE  Settled(T, ns2, us, rt, lv, v)
<1>0. Sharing(T, ns, us, rt, lv, a, v, p, j, l, r, w, P, L, CL, R, CR, ns2) /\ ~ LeafAt(ns, l) /\ Swapped(P, RowsAt(ns, p), j, w)
  BY DEF SharedInner
<1>1. PICK W : SharedWell(T, W, ns, ns2, us, rt, p, j, w, LeafAt(ns, l))
  BY <1>0, ShareTree, Zenon
<1>2. /\ View(W, ns2, us, rt, p) /\ Nil \notin Nodes(W) /\ AllFilled(ns2, us, rt, Nil)
      /\ Swapped(Keys(W, p), KeysAt(ns, p), j, w[1]) /\ Kids(W, p) = KidsAt(ns2, p)
      /\ LeafKeys(W) = LeafKeys(T) /\ InnerKeys(W) = InnerKeys(T)
  BY <1>0, <1>1 DEF SharedWell
<1>3. /\ Beside(T, ns, us, rt, lv, a, v, p, j, l, r) /\ Moved(ns2, ns, p, P, l, L, CL, r, R, CR) /\ P \in Seq(Copied)
  BY <1>0 DEF Sharing
<1>4. BesideInTree(T, ns, us, rt, p, j, l, r) /\ BesideInNodes(ns, us, rt, p, j, l, r)
  BY <1>3, BesideIs
<1>5. Short(T, ns, us, rt, lv, a, v)
  BY <1>3 DEF Beside
<1>6. v \in Key /\ v \notin LeafKeys(T) /\ lv = Recs(LeafKeys(T) \cup {v}, InnerKeys(T))
  BY <1>5 DEF Short
<1>7. p \in us /\ p \in Node /\ Shaped(ns, us)
  BY <1>4 DEF BesideInTree, BesideInNodes
<1>8. RowsAt(ns2, p) = P
  BY <1>3 DEF Moved
<1>9. Keys(W, p) = KeysAt(ns2, p)
  <2>1. PICK rows, ks, f : rows = RowsAt(ns, p) /\ ks = Keys(W, p) /\ f = w[1]
    OBVIOUS
  <2>2. rows \in Seq(Row) /\ P \in Seq(Row)
    BY <1>3, <1>7, <2>1, ShapedFacts, TaggedRows
  <2>3. Swapped(KeysOf(P), KeysOf(rows), j, f)
    BY <1>0, <2>1, <2>2, KeysSwapped
  <2>4. Swapped(ks, KeysOf(rows), j, f)
    BY <1>2, <2>1 DEF KeysAt
  <2>5. KeysOf(P) \in Seq(Key) /\ KeysOf(rows) \in Seq(Key)
    BY <2>2, KeysAreKeys
  <2>6. ks \in Seq(Key)
    <3>1. Tree(W) /\ p \in Nodes(W)
      BY <1>2, <1>7, ViewFacts
    <3>. QED  BY <2>1, <3>1, NodeFacts
  <2>7. ks = KeysOf(P)
    BY <2>3, <2>4, <2>5, <2>6, SwappedOnce
  <2>. QED  BY <1>8, <2>1, <2>7 DEF KeysAt
<1>10. View(W, ns2, us, rt, Nil)
  BY <1>2, <1>9 DEF View
<1>11. lv \ {<<v, 0>>} = Recs(LeafKeys(W), InnerKeys(W))
  <2>1. PICK LK, IK : LK = LeafKeys(T) /\ IK = InnerKeys(T)
    OBVIOUS
  <2>2. Recs(LK \cup {v}, IK) \ {<<v, 0>>} = Recs(LK, IK)
    BY <1>6, <2>1, VictimTaken
  <2>. QED  BY <1>2, <1>6, <2>1, <2>2
<1>. QED  BY <1>2, <1>10, <1>11 DEF GoodIdle, Settled

-----------------------------------------------------------------------------
(* The handlers.                                                            *)

\* The record that DropSeparator deletes.
LEMMA DropKept ==
  ASSUME NEW T, NEW ns, NEW us, NEW rt, NEW lv, NEW p, NEW i, NEW k, NEW v, NEW old, old = RowsAt(ns, p)[i],
         NEW drop, drop = TRUE, NEW now, now = FALSE, GoodReplace(T, ns, us, rt, lv, p, i, k, drop, v)
  PROVE  GoodReplace(T, ns, us, rt, lv \ {old}, p, i, k, now, v) /\ old \in lv /\ old \in Copied
<1>1. PICK e, LK, IK : e = KeysAt(ns, p)[i] /\ LK = LeafKeys(T) \cup {v} /\ IK = InnerKeys(T) \ {k}
  OBVIOUS
<1>2. /\ View(T, ns, us, rt, p) /\ p \in us /\ ~ LeafAt(ns, p) /\ i \in 1 .. Len(RowsAt(ns, p))
      /\ e \notin IK /\ lv = Recs(LK, IK \cup {e})
  BY <1>1 DEF GoodReplace
<1>3. old \in Copied /\ old = <<e, 1>>
  <2>1. p \in Node /\ Shaped(ns, us)
    BY <1>2, ViewFacts
  <2>2. PICK rows : rows = RowsAt(ns, p)
    OBVIOUS
  <2>3. rows \in Seq(Copied) /\ rows[i][1] = e
    BY <1>1, <1>2, <2>1, <2>2, ShapedFacts
  <2>4. rows[i] \in Copied
    BY <1>2, <2>2, <2>3
  <2>. QED  BY <2>2, <2>3, <2>4 DEF Copied
<1>4. Recs(LK, IK \cup {e}) \ {<<e, 1>>} = Recs(LK, IK) /\ <<e, 1>> \in Recs(LK, IK \cup {e})
  <2>1. ASSUME NEW x \in Recs(LK, IK) PROVE x # <<e, 1>>
    BY <1>2, <2>1 DEF Recs
  <2>2. Recs(LK, IK \cup {e}) = Recs(LK, IK) \cup {<<e, 1>>}
    BY DEF Recs
  <2>. QED  BY <2>1, <2>2
<1>5. lv \ {old} = Recs(LeafKeys(T) \cup {v}, InnerKeys(T) \ {k})
  BY <1>1, <1>2, <1>3, <1>4
<1>6. GoodReplace(T, ns, us, rt, lv \ {old}, p, i, k, now, v)
  BY <1>5 DEF GoodReplace
<1>. QED  BY <1>2, <1>3, <1>4, <1>6

\* The copy that CopySeparator makes.
Copying(T, ns, us, rt, lv, p, i, k, drop, v, P, ns2) ==
  /\ GoodReplace(T, ns, us, rt, lv, p, i, k, drop, v) /\ drop = FALSE
  /\ Rewritten(ns2, ns, p, P) /\ P \in Seq(Copied) /\ Swapped(P, RowsAt(ns, p), i, <<k, 1>>)

\* The new separator's copy is made: nothing is left to be done.
LEMMA CopyKept ==
  ASSUME NEW T, NEW ns, NEW us, NEW rt, NEW lv, NEW p, NEW i, NEW k, NEW drop, NEW v, NEW P, NEW ns2,
         Copying(T, ns, us, rt, lv, p, i, k, drop, v, P, ns2)
  PROVE  /\ <<k, 1>> \notin lv /\ GoodIdle(T, ns2, us, rt, (lv \cup {<<k, 1>>}) \ {<<v, 0>>})
<1>0. /\ GoodReplace(T, ns, us, rt, lv, p, i, k, drop, v) /\ drop = FALSE
      /\ Rewritten(ns2, ns, p, P) /\ P \in Seq(Copied) /\ Swapped(P, RowsAt(ns, p), i, <<k, 1>>)
  BY DEF Copying
<1>1. PICK LK, IK, row : LK = LeafKeys(T) /\ IK = InnerKeys(T) /\ row = <<k, 1>>
  OBVIOUS
<1>2. /\ View(T, ns, us, rt, p) /\ Nil \notin Nodes(T) /\ AllFilled(ns, us, rt, Nil)
      /\ p \in us /\ ~ LeafAt(ns, p) /\ i \in 1 .. Len(RowsAt(ns, p))
      /\ Kids(T, p) = KidsAt(ns, p) /\ Swapped(Keys(T, p), KeysAt(ns, p), i, k)
      /\ k \in Key /\ v \in Key /\ v \notin LK /\ k \in IK
      /\ lv = Recs(LK \cup {v}, IK \ {k})
  BY <1>0, <1>1 DEF GoodReplace
<1>3. /\ p \in Node /\ p # Nil /\ p \in Nodes(T) /\ Tree(T) /\ Shaped(ns, us) /\ Nodes(T) = us /\ us \subseteq Node
  <2>1. us \subseteq Node
    BY <1>2 DEF View
  <2>. QED  BY <1>2, <2>1, ViewFacts
<1>4. /\ ns2 \in [Node -> NodeRec] /\ RowsAt(ns2, p) = P
      /\ \A x \in Node : /\ KidsAt(ns2, x) = KidsAt(ns, x) /\ ParentAt(ns2, x) = ParentAt(ns, x)
                         /\ LeafAt(ns2, x) = LeafAt(ns, x) /\ (x # p => RowsAt(ns2, x) = RowsAt(ns, x))
  BY <1>0 DEF Rewritten
<1>5. PICK rows, ks : rows = RowsAt(ns, p) /\ ks = Keys(T, p)
  OBVIOUS
<1>6. rows \in Seq(Row) /\ P \in Seq(Row) /\ Len(P) = Len(rows) /\ Swapped(P, rows, i, row) /\ row[1] = k
  BY <1>0, <1>1, <1>3, <1>5, ShapedFacts, TaggedRows DEF Swapped
<1>7. Keys(T, p) = KeysOf(P)
  <2>1. Swapped(KeysOf(P), KeysOf(rows), i, k)
    BY <1>6, KeysSwapped
  <2>2. Swapped(ks, KeysOf(rows), i, k)
    BY <1>2, <1>5 DEF KeysAt
  <2>3. KeysOf(P) \in Seq(Key) /\ KeysOf(rows) \in Seq(Key) /\ ks \in Seq(Key)
    BY <1>3, <1>5, <1>6, KeysAreKeys, NodeFacts
  <2>. QED  BY <1>5, <2>1, <2>2, <2>3, SwappedOnce
<1>8. Shaped(ns2, us)
  <2>1. ASSUME NEW x \in Node PROVE ShapedAt(ns2, x) /\ (x \notin us => LeafAt(ns2, x))
    <3>1. ShapedAt(ns, x) /\ (x \notin us => LeafAt(ns, x))
      BY <1>3 DEF Shaped
    <3>2. CASE x = p
      <4>1. Len(P) <= MaxRows /\ Len(KidsAt(ns, p)) = Len(P) + 1
        BY <1>2, <1>3, <1>5, <1>6, ShapedFacts
      <4>. QED  BY <1>0, <1>2, <1>3, <1>4, <3>2, <4>1 DEF ShapedAt, Tagged
    <3>3. CASE x # p
      BY <1>4, <3>1, <3>3 DEF ShapedAt
    <3>. QED  BY <3>2, <3>3
  <2>. QED  BY <1>4, <2>1 DEF Shaped
<1>9. View(T, ns2, us, rt, Nil)
  <2>1. ASSUME NEW x \in us PROVE /\ Up(T, x) = ParentAt(ns2, x) /\ (Lev(T, x) = 0 <=> LeafAt(ns2, x))
                                  /\ Keys(T, x) = KeysAt(ns2, x) /\ Kids(T, x) = KidsAt(ns2, x)
    <3>1. /\ x \in Node /\ Up(T, x) = ParentAt(ns, x) /\ (Lev(T, x) = 0 <=> LeafAt(ns, x))
          /\ x # p => Keys(T, x) = KeysAt(ns, x) /\ Kids(T, x) = KidsAt(ns, x)
      BY <1>2, ViewFacts
    <3>2. CASE x = p
      BY <1>2, <1>4, <1>7, <3>1, <3>2 DEF KeysAt
    <3>3. CASE x # p
      BY <1>4, <3>1, <3>3 DEF KeysAt
    <3>. QED  BY <3>2, <3>3
  <2>2. rt \in Node
    BY <1>2 DEF View
  <2>. QED  BY <1>2, <1>4, <1>8, <2>1, <2>2 DEF View
<1>10. AllFilled(ns2, us, rt, Nil)
  <2>1. ASSUME NEW x \in us PROVE \/ Len(RowsAt(ns2, x)) >= Degree - 1
                                  \/ x = rt /\ (LeafAt(ns2, x) \/ Len(RowsAt(ns2, x)) >= 1)
    <3>1. x \in Node /\ (\/ Len(RowsAt(ns, x)) >= Degree - 1
                         \/ x = rt /\ (LeafAt(ns, x) \/ Len(RowsAt(ns, x)) >= 1))
      BY <1>2, ViewFacts DEF AllFilled
    <3>2. Len(RowsAt(ns2, x)) = Len(RowsAt(ns, x))
      BY <1>4, <1>5, <1>6, <3>1
    <3>. QED  BY <1>4, <3>1, <3>2
  <2>. QED  BY <2>1 DEF AllFilled
<1>11. <<k, 1>> \notin lv
  BY <1>2 DEF Recs
<1>12. (lv \cup {<<k, 1>>}) \ {<<v, 0>>} = Recs(LK, IK)
  <2>1. (IK \ {k}) \cup {k} = IK
    BY <1>2
  <2>2. Recs(LK \cup {v}, IK \ {k}) \cup {<<k, 1>>} = Recs(LK \cup {v}, (IK \ {k}) \cup {k})
    BY DEF Recs
  <2>3. Recs(LK \cup {v}, IK) \ {<<v, 0>>} = Recs(LK, IK)
    BY <1>2, VictimTaken
  <2>. QED  BY <1>2, <2>1, <2>2, <2>3
<1>. QED  BY <1>1, <1>2, <1>9, <1>10, <1>11, <1>12 DEF GoodIdle

\* The bisection finds the row that has the key.
LEMMA LowerBoundHit ==
  ASSUME NEW rows \in Seq(Row), NEW ks, ks = KeysOf(rows), Sorted(ks), NEW j \in 1 .. Len(rows), NEW k, ks[j] = k
  PROVE  LowerBound(rows, k) = j - 1
<1>1. /\ ks \in Seq(Nat) /\ Len(rows) = Len(ks) /\ Len(ks) \in Nat
      /\ \A i \in 1 .. Len(ks) : rows[i][1] = ks[i] /\ ks[i] \in Nat
  BY KeysOfIs
<1>2. k \in Nat
  BY <1>1
<1>3. PICK b : b = LowerBound(rows, k)
  OBVIOUS
<1>4. Behind(ks, k, b)
  BY <1>1, <1>2, <1>3, LowerBoundIs
<1>5. b \in 0 .. Len(ks) /\ \A i \in 1 .. Len(ks) : ks[i] < k <=> i <= b
  BY <1>4 DEF Behind
<1>6. ~ j <= b
  BY <1>1, <1>2, <1>5
<1>7. j > 1 => j - 1 <= b
  <2>1. ASSUME j > 1 PROVE j - 1 <= b
    <3>1. PICK i : i = j - 1
      OBVIOUS
    <3>2. i \in 1 .. Len(ks) /\ i < j /\ j \in 1 .. Len(ks)
      BY <1>1, <2>1, <3>1
    <3>3. ks[i] < ks[j]
      BY <1>1, <3>2, SortedIs
    <3>. QED  BY <1>5, <3>1, <3>2, <3>3
  <2>. QED  BY <2>1
<1>. QED  BY <1>1, <1>3, <1>5, <1>6, <1>7

\* The row and the child leave the node that a merge goes on with.
Leaving(T, ns, us, rt, lv, p, k, drop, v, i, R, C, left, ns2) ==
  /\ GoodMerge(T, ns, us, rt, lv, p, k, drop, v) /\ drop \in BOOLEAN /\ i = LowerBound(RowsAt(ns, p), k)
  /\ R = RemoveAt(RowsAt(ns, p), i + 1) /\ C = RemoveAt(KidsAt(ns, p), i + 2) /\ Refilled(ns2, ns, p, R, C)
  /\ left = (IF drop THEN lv \ {<<k, 1>>} ELSE lv)

\* The place of the row in the node.
LeavingAt(T, ns, us, p, k, i) ==
  \E j \in 1 .. Len(RowsAt(ns, p)) :
    /\ i = j - 1 /\ RowsAt(ns, p)[j] = <<k, 1>>
    /\ KidsAt(ns, p) \in Seq(Node) /\ j + 1 \in 1 .. Len(KidsAt(ns, p))
    /\ Inserted(KeysAt(ns, p), Keys(T, p), j, k)
    /\ \E d : d \notin us /\ Inserted(KidsAt(ns, p), Kids(T, p), j + 1, d)

\* The separator that goes is where the bisection looks for it.
LEMMA MergePlace ==
  ASSUME NEW T, NEW ns, NEW us, NEW rt, NEW lv, NEW p, NEW k, NEW drop, NEW v, GoodMerge(T, ns, us, rt, lv, p, k, drop, v),
         NEW i, i = LowerBound(RowsAt(ns, p), k)
  PROVE  LeavingAt(T, ns, us, p, k, i)
<1>0. GoodMerge(T, ns, us, rt, lv, p, k, drop, v) /\ i = LowerBound(RowsAt(ns, p), k)
  OBVIOUS
<1>1. /\ View(T, ns, us, rt, p) /\ p \in us /\ ~ LeafAt(ns, p) /\ Sorted(KeysAt(ns, p)) /\ k \in Key
      /\ \E j, d : d \notin us /\ Inserted(KeysAt(ns, p), Keys(T, p), j, k) /\ Inserted(KidsAt(ns, p), Kids(T, p), j + 1, d)
  BY <1>0 DEF GoodMerge
<1>2. PICK j, d : d \notin us /\ Inserted(KeysAt(ns, p), Keys(T, p), j, k) /\ Inserted(KidsAt(ns, p), Kids(T, p), j + 1, d)
  BY <1>1
<1>3. PICK rows, ks, cs : rows = RowsAt(ns, p) /\ ks = KeysOf(rows) /\ cs = KidsAt(ns, p)
  OBVIOUS
<1>4. /\ rows \in Seq(Row) /\ rows \in Seq(Copied) /\ cs \in Seq(Node) /\ Len(rows) \in Nat /\ Len(cs) = Len(rows) + 1
      /\ Len(ks) = Len(rows) /\ Sorted(ks)
  <2>1. p \in Node /\ Shaped(ns, us)
    BY <1>1, ViewFacts
  <2>2. rows \in Seq(Row) /\ rows \in Seq(Copied) /\ cs \in Seq(Node) /\ Len(rows) \in Nat /\ Len(cs) = Len(rows) + 1
    BY <1>1, <1>3, <2>1, ShapedFacts
  <2>. QED  BY <1>1, <1>3, <2>2, KeysOfIs DEF KeysAt
<1>5. ks = KeysAt(ns, p)
  BY <1>3 DEF KeysAt
<1>6. j \in 1 .. Len(rows) /\ ks[j] = k
  BY <1>2, <1>4, <1>5 DEF Inserted
<1>7. i = j - 1
  BY <1>0, <1>3, <1>4, <1>6, LowerBoundHit
<1>8. rows[j] = <<k, 1>>
  <2>1. rows[j] \in Copied /\ rows[j][1] = k
    BY <1>3, <1>4, <1>6, KeysOfIs
  <2>. QED  BY <2>1 DEF Copied
<1>9. j + 1 \in 1 .. Len(cs)
  BY <1>4, <1>6
<1>. QED  BY <1>2, <1>3, <1>4, <1>6, <1>7, <1>8, <1>9 DEF LeavingAt

\* The same of a separator that is leaving.
LEMMA LeavingPlace ==
  ASSUME NEW T, NEW ns, NEW us, NEW rt, NEW lv, NEW p, NEW k, NEW drop, NEW v, NEW i, NEW R, NEW C, NEW left, NEW ns2,
         Leaving(T, ns, us, rt, lv, p, k, drop, v, i, R, C, left, ns2)
  PROVE  LeavingAt(T, ns, us, p, k, i)
BY MergePlace DEF Leaving

\* MergeStep, before it looks at what is left.
LEMMA MergeShort ==
  ASSUME NEW T, NEW ns, NEW us, NEW rt, NEW lv, NEW p, NEW k, NEW drop, NEW v, NEW i, NEW R, NEW C, NEW left, NEW ns2,
         Leaving(T, ns, us, rt, lv, p, k, drop, v, i, R, C, left, ns2)
  PROVE  /\ Short(T, ns2, us, rt, left, p, v) /\ ~ LeafAt(ns2, p)
         /\ drop => <<k, 1>> \in lv
<1>1. /\ GoodMerge(T, ns, us, rt, lv, p, k, drop, v) /\ drop \in BOOLEAN /\ i = LowerBound(RowsAt(ns, p), k)
      /\ R = RemoveAt(RowsAt(ns, p), i + 1) /\ C = RemoveAt(KidsAt(ns, p), i + 2) /\ Refilled(ns2, ns, p, R, C)
      /\ left = (IF drop THEN lv \ {<<k, 1>>} ELSE lv)
  BY DEF Leaving
<1>2. /\ View(T, ns, us, rt, p) /\ Nil \notin Nodes(T) /\ AllFilled(ns, us, rt, Nil)
      /\ p \in us /\ ~ LeafAt(ns, p)
      /\ k \in Key /\ v \in Key /\ v \notin LeafKeys(T) /\ (drop <=> k \notin InnerKeys(T))
      /\ lv = Recs(LeafKeys(T) \cup {v}, InnerKeys(T) \cup {k})
  BY <1>1 DEF GoodMerge
<1>3. PICK j \in 1 .. Len(RowsAt(ns, p)) :
           /\ i = j - 1 /\ RowsAt(ns, p)[j] = <<k, 1>>
           /\ KidsAt(ns, p) \in Seq(Node) /\ j + 1 \in 1 .. Len(KidsAt(ns, p))
           /\ Inserted(KeysAt(ns, p), Keys(T, p), j, k)
           /\ \E d : d \notin us /\ Inserted(KidsAt(ns, p), Kids(T, p), j + 1, d)
  <2>1. LeavingAt(T, ns, us, p, k, i)
    BY LeavingPlace, Zenon
  <2>. QED  BY <2>1 DEF LeavingAt
<1>4. PICK d : Inserted(KidsAt(ns, p), Kids(T, p), j + 1, d)
  BY <1>3
<1>5. PICK rows, ks, cs, m : rows = RowsAt(ns, p) /\ ks = KeysOf(rows) /\ cs = KidsAt(ns, p) /\ m = j + 1
  OBVIOUS
<1>6. /\ p \in Node /\ p # Nil /\ p \in Nodes(T) /\ Tree(T) /\ Shaped(ns, us) /\ Nodes(T) = us /\ us \subseteq Node /\ rt \in us
      /\ Lev(T, p) # 0
  <2>1. us \subseteq Node /\ rt \in us
    BY <1>2 DEF View
  <2>. QED  BY <1>2, <2>1, ViewFacts
<1>7. rows \in Seq(Row) /\ rows \in Seq(Copied) /\ Len(rows) \in Nat /\ Len(cs) = Len(rows) + 1 /\ cs \in Seq(Node) /\ Len(rows) <= MaxRows
  BY <1>2, <1>5, <1>6, ShapedFacts
<1>8. R = RemoveAt(rows, j) /\ C = RemoveAt(cs, m) /\ j \in 1 .. Len(rows) /\ m \in 1 .. Len(cs)
  <2>1. i + 2 = m /\ i + 1 = j /\ j \in 1 .. Len(rows) /\ m \in 1 .. Len(cs)
    BY <1>3, <1>5, <1>7
  <2>. QED  BY <1>1, <1>5, <2>1
<1>9. R \in Seq(Copied) /\ Len(R) = Len(rows) - 1
  BY ONLY <1>7, <1>8, RemoveAtIs
<1>10. R \in Seq(Row) /\ KeysOf(R) = RemoveAt(ks, j)
  BY <1>5, <1>7, <1>8, KeysRemoveAt
<1>11. C \in Seq(Node) /\ Len(C) = Len(cs) - 1
  BY ONLY <1>7, <1>8, RemoveAtIs
<1>12. Keys(T, p) = KeysOf(R)
  <2>1. ks \in Seq(Key) /\ Len(ks) = Len(rows)
    BY <1>5, <1>7, KeysAreKeys, KeysOfIs
  <2>2. Inserted(ks, Keys(T, p), j, k)
    BY <1>3, <1>5 DEF KeysAt
  <2>3. PICK e : e = ks[j]
    OBVIOUS
  <2>4. j \in 1 .. Len(ks)
    BY <1>8, <2>1
  <2>5. RemoveAt(ks, j) \in Seq(Key) /\ Inserted(ks, RemoveAt(ks, j), j, e)
    BY ONLY <2>1, <2>3, <2>4, RemoveAtInserted
  <2>6. Keys(T, p) \in Seq(Key)
    BY <1>6, NodeFacts
  <2>7. PICK u : u = RemoveAt(ks, j)
    OBVIOUS
  <2>8. Keys(T, p) = u
    BY <2>1, <2>2, <2>5, <2>6, <2>7, RemovedOnce
  <2>. QED  BY <1>10, <2>7, <2>8
<1>13. Kids(T, p) = C
  <2>1. Inserted(cs, Kids(T, p), m, d)
    BY <1>4, <1>5
  <2>2. PICK e : e = cs[m]
    OBVIOUS
  <2>3. C \in Seq(Node) /\ Inserted(cs, C, m, e)
    <3>1. RemoveAt(cs, m) \in Seq(Node) /\ Inserted(cs, RemoveAt(cs, m), m, e)
      BY ONLY <1>7, <1>8, <2>2, RemoveAtInserted
    <3>. QED  BY <1>8, <3>1
  <2>4. Kids(T, p) \in Seq(Node)
    <3>1. Kids(T, p) \in Seq(us)
      BY <1>6, NodeFacts
    <3>. QED  BY <1>6, <3>1, SeqMonotonic, Zenon
  <2>. QED  BY <1>7, <2>1, <2>3, <2>4, RemovedOnce
<1>14. /\ ns2 \in [Node -> NodeRec] /\ RowsAt(ns2, p) = R /\ KidsAt(ns2, p) = C
       /\ \A x \in Node : /\ ParentAt(ns2, x) = ParentAt(ns, x) /\ LeafAt(ns2, x) = LeafAt(ns, x)
                          /\ (x # p => RowsAt(ns2, x) = RowsAt(ns, x) /\ KidsAt(ns2, x) = KidsAt(ns, x))
  BY <1>1 DEF Refilled
<1>15. Shaped(ns2, us)
  <2>1. ASSUME NEW x \in Node PROVE ShapedAt(ns2, x) /\ (x \notin us => LeafAt(ns2, x))
    <3>1. ShapedAt(ns, x) /\ (x \notin us => LeafAt(ns, x))
      BY <1>6 DEF Shaped
    <3>2. CASE x = p
      <4>1. Len(R) <= MaxRows /\ Len(C) = Len(R) + 1
        BY <1>7, <1>9, <1>11, DegreeAssumption DEF MaxRows
      <4>. QED  BY <1>2, <1>6, <1>9, <1>14, <3>2, <4>1 DEF ShapedAt, Tagged
    <3>3. CASE x # p
      BY <1>14, <3>1, <3>3 DEF ShapedAt
    <3>. QED  BY <3>2, <3>3
  <2>. QED  BY <1>14, <2>1 DEF Shaped
<1>16. View(T, ns2, us, rt, Nil)
  <2>1. ASSUME NEW x \in us PROVE /\ Up(T, x) = ParentAt(ns2, x) /\ (Lev(T, x) = 0 <=> LeafAt(ns2, x))
                                  /\ Keys(T, x) = KeysAt(ns2, x) /\ Kids(T, x) = KidsAt(ns2, x)
    <3>1. /\ x \in Node /\ Up(T, x) = ParentAt(ns, x) /\ (Lev(T, x) = 0 <=> LeafAt(ns, x))
          /\ x # p => Keys(T, x) = KeysAt(ns, x) /\ Kids(T, x) = KidsAt(ns, x)
      BY <1>2, ViewFacts
    <3>2. CASE x = p
      BY <1>12, <1>13, <1>14, <3>1, <3>2 DEF KeysAt
    <3>3. CASE x # p
      BY <1>14, <3>1, <3>3 DEF KeysAt
    <3>. QED  BY <3>2, <3>3
  <2>2. rt \in Node
    BY <1>6
  <2>. QED  BY <1>2, <1>14, <1>15, <2>1, <2>2 DEF View
<1>17. AllFilled(ns2, us, rt, p)
  <2>1. ASSUME NEW x \in us, x # p PROVE \/ Len(RowsAt(ns2, x)) >= Degree - 1
                                         \/ x = rt /\ (LeafAt(ns2, x) \/ Len(RowsAt(ns2, x)) >= 1)
    <3>1. x \in Node /\ (\/ Len(RowsAt(ns, x)) >= Degree - 1
                         \/ x = rt /\ (LeafAt(ns, x) \/ Len(RowsAt(ns, x)) >= 1))
      BY <1>2, ViewFacts DEF AllFilled
    <3>. QED  BY <1>14, <2>1, <3>1
  <2>. QED  BY <2>1 DEF AllFilled
<1>18. p # rt => Len(RowsAt(ns2, p)) >= Degree - 2
  <2>1. ASSUME p # rt PROVE Len(RowsAt(ns2, p)) >= Degree - 2
    <3>1. Len(rows) >= Degree - 1
      BY <1>2, <1>5, <1>6, <2>1 DEF AllFilled
    <3>. QED  BY <1>7, <1>9, <1>14, <3>1, DegreeAssumption
  <2>. QED  BY <2>1
<1>19. left = Recs(LeafKeys(T) \cup {v}, InnerKeys(T)) /\ (drop => <<k, 1>> \in lv)
  <2>1. PICK LK, IK : LK = LeafKeys(T) \cup {v} /\ IK = InnerKeys(T)
    OBVIOUS
  <2>2. CASE drop
    <3>1. ASSUME NEW x \in Recs(LK, IK) PROVE x # <<k, 1>>
      BY <1>2, <2>1, <2>2, <3>1 DEF Recs
    <3>2. Recs(LK, IK \cup {k}) = Recs(LK, IK) \cup {<<k, 1>>}
      BY DEF Recs
    <3>3. left = lv \ {<<k, 1>>}
      BY <1>1, <2>2
    <3>. QED  BY <1>2, <2>1, <3>1, <3>2, <3>3
  <2>3. CASE ~ drop
    <3>1. IK \cup {k} = IK
      BY <1>2, <2>1, <2>3
    <3>2. left = lv
      BY <1>1, <2>3
    <3>. QED  BY <1>2, <2>1, <2>3, <3>1, <3>2
  <2>. QED  BY <1>1, <2>2, <2>3
<1>20. ~ LeafAt(ns2, p)
  BY <1>2, <1>6, <1>14
<1>. QED  BY <1>2, <1>16, <1>17, <1>18, <1>19, <1>20 DEF Short

(* What the code does about a node with too few rows.                       *)

\* The first of a set of places.
LEMMA LeastIs ==
  ASSUME NEW S \in SUBSET Nat, S # {}
  PROVE  Least(S) \in S
<1>1. \E i \in S : \A j \in S : i <= j
  BY LeastNumber
<1>. QED  BY <1>1 DEF Least

\* The cases of remedy.
LEMMA RemedyIs ==
  ASSUME NEW ns, NEW a
  PROVE  /\ Remedy(ns, a) = "none" => ParentAt(ns, a) = Nil \/ Len(RowsAt(ns, a)) >= Degree - 1
         /\ Remedy(ns, a) = "borrow left" =>
              /\ ParentAt(ns, a) # Nil /\ ~ Len(RowsAt(ns, a)) >= Degree - 1
              /\ Place(ns, a) > 1 /\ Len(RowsAt(ns, LeftOf(ns, a))) > Degree - 1
         /\ Remedy(ns, a) = "borrow right" =>
              /\ ParentAt(ns, a) # Nil /\ ~ Len(RowsAt(ns, a)) >= Degree - 1
              /\ Place(ns, a) < Len(KidsAt(ns, ParentAt(ns, a))) /\ Len(RowsAt(ns, RightOf(ns, a))) > Degree - 1
         /\ Remedy(ns, a) = "merge left" =>
              /\ ParentAt(ns, a) # Nil /\ ~ Len(RowsAt(ns, a)) >= Degree - 1
              /\ Place(ns, a) > 1 /\ ~ Len(RowsAt(ns, LeftOf(ns, a))) > Degree - 1
         /\ Remedy(ns, a) = "merge right" =>
              /\ ParentAt(ns, a) # Nil /\ ~ Len(RowsAt(ns, a)) >= Degree - 1
              /\ ~ Place(ns, a) > 1
              /\ Place(ns, a) < Len(KidsAt(ns, ParentAt(ns, a))) => ~ Len(RowsAt(ns, RightOf(ns, a))) > Degree - 1
<1>1. /\ LeftLends(ns, a) <=> Place(ns, a) > 1 /\ Len(RowsAt(ns, LeftOf(ns, a))) > Degree - 1
      /\ RightLends(ns, a) <=> Place(ns, a) < Len(KidsAt(ns, ParentAt(ns, a))) /\ Len(RowsAt(ns, RightOf(ns, a))) > Degree - 1
  BY Zenon DEF LeftLends, RightLends, Lends, RowsAt, KidsAt, ParentAt
<1>2. PICK stays, ll, rl, first : /\ stays <=> ParentAt(ns, a) = Nil \/ Len(RowsAt(ns, a)) >= Degree - 1
                                  /\ (ll <=> LeftLends(ns, a)) /\ (rl <=> RightLends(ns, a)) /\ (first <=> Place(ns, a) > 1)
  OBVIOUS
<1>3. Remedy(ns, a) = IF stays THEN "none" ELSE IF ll THEN "borrow left" ELSE IF rl THEN "borrow right"
                      ELSE IF first THEN "merge left" ELSE "merge right"
  BY <1>2, Zenon DEF Remedy, RowsAt, ParentAt
<1>4. /\ Remedy(ns, a) = "none" => stays
      /\ Remedy(ns, a) = "borrow left" => ~ stays /\ ll
      /\ Remedy(ns, a) = "borrow right" => ~ stays /\ rl
      /\ Remedy(ns, a) = "merge left" => ~ stays /\ ~ ll /\ first
      /\ Remedy(ns, a) = "merge right" => ~ stays /\ ~ rl /\ ~ first
  BY ONLY <1>3
<1>. QED  BY <1>1, <1>2, <1>4, Zenon

\* The place of a node below its parent.
LEMMA PlaceIs ==
  ASSUME NEW T, NEW ns, NEW us, NEW rt, NEW lv, NEW a, NEW v, Short(T, ns, us, rt, lv, a, v), ParentAt(ns, a) # Nil,
         NEW p, p = ParentAt(ns, a)
  PROVE  /\ p \in us /\ p # a /\ ~ LeafAt(ns, p) /\ a # rt
         /\ Place(ns, a) \in 1 .. Len(KidsAt(ns, p)) /\ KidsAt(ns, p)[Place(ns, a)] = a
         /\ KidsAt(ns, p) \in Seq(us) /\ Len(KidsAt(ns, p)) = Len(RowsAt(ns, p)) + 1 /\ Len(RowsAt(ns, p)) \in Nat
         /\ Len(RowsAt(ns, p)) >= 1
<1>1. /\ View(T, ns, us, rt, Nil) /\ Nil \notin Nodes(T) /\ AllFilled(ns, us, rt, a) /\ a \in us
  BY DEF Short
<1>2. /\ a \in Nodes(T) /\ Tree(T) /\ Up(T, a) = p /\ Nodes(T) = us /\ Top(T) = rt
  BY <1>1, ViewFacts
<1>3. a # rt
  BY <1>1, ParentIs
<1>4. /\ p \in Nodes(T) /\ Lev(T, a) + 1 = Lev(T, p) /\ \E j \in 1 .. Len(Kids(T, p)) : Kids(T, p)[j] = a
  <2>1. p = Up(T, a)
    BY <1>2
  <2>. QED  BY <1>2, <1>3, <2>1, HungFacts
<1>5. Lev(T, p) # 0 /\ p # a
  BY <1>2, <1>4, NodeFacts
<1>6. p \in Node /\ p # Nil /\ Shaped(ns, us) /\ ~ LeafAt(ns, p) /\ Kids(T, p) = KidsAt(ns, p)
  BY <1>1, <1>2, <1>4, <1>5, ViewFacts
<1>7. KidsAt(ns, p) \in Seq(us)
  <2>1. Kids(T, p) \in Seq(Nodes(T))
    BY <1>2, <1>4, NodeFacts
  <2>. QED  BY <1>2, <1>6, <2>1
<1>8. Len(KidsAt(ns, p)) = Len(RowsAt(ns, p)) + 1 /\ Len(RowsAt(ns, p)) \in Nat
  BY <1>6, ShapedFacts
<1>9. Len(RowsAt(ns, p)) >= 1
  <2>1. \/ Len(RowsAt(ns, p)) >= Degree - 1
        \/ p = rt /\ (LeafAt(ns, p) \/ Len(RowsAt(ns, p)) >= 1)
    BY <1>1, <1>2, <1>4, <1>5 DEF AllFilled
  <2>. QED  BY <1>6, <1>8, <2>1, DegreeAssumption
<1>10. Place(ns, a) \in 1 .. Len(KidsAt(ns, p)) /\ KidsAt(ns, p)[Place(ns, a)] = a
  <2>1. PICK kids : kids = KidsAt(ns, p)
    OBVIOUS
  <2>2. DOMAIN kids = 1 .. Len(kids) /\ Len(kids) \in Nat
    BY <1>7, <2>1
  <2>3. PICK S : S = {j \in DOMAIN kids : kids[j] = a}
    OBVIOUS
  <2>4. Place(ns, a) = Least(S)
    BY <2>1, <2>3, Zenon DEF Place, KidsAt, ParentAt
  <2>5. S \in SUBSET Nat /\ S # {}
    BY <1>4, <1>6, <2>1, <2>2, <2>3
  <2>6. Least(S) \in S
    BY <2>5, LeastIs
  <2>. QED  BY <2>1, <2>2, <2>3, <2>4, <2>6
<1>. QED  BY <1>2, <1>3, <1>4, <1>5, <1>6, <1>7, <1>8, <1>9, <1>10

\* The neighbours a and s below p, s to the left of a or to the right of it.
Paired(T, ns, us, rt, lv, a, v, p, j, l, r, s) ==
  /\ Beside(T, ns, us, rt, lv, a, v, p, j, l, r) /\ a # s /\ s \in us
  /\ p \in us /\ l \in us /\ r \in us /\ j + 1 \in 1 .. Len(KidsAt(ns, p))
  /\ Len(RowsAt(ns, a)) = Degree - 2 /\ Len(RowsAt(ns, s)) \in Nat /\ Len(RowsAt(ns, s)) >= Degree - 1

\* A short node and the neighbour the code looks at are neighbours in the tree.
LEMMA PairedIs ==
  ASSUME NEW T, NEW ns, NEW us, NEW rt, NEW lv, NEW a, NEW v, Short(T, ns, us, rt, lv, a, v), ParentAt(ns, a) # Nil,
         ~ Len(RowsAt(ns, a)) >= Degree - 1, NEW p, p = ParentAt(ns, a)
  PROVE  /\ Place(ns, a) > 1 => Paired(T, ns, us, rt, lv, a, v, p, Place(ns, a) - 1, LeftOf(ns, a), a, LeftOf(ns, a))
         /\ Place(ns, a) < Len(KidsAt(ns, p)) =>
              Paired(T, ns, us, rt, lv, a, v, p, Place(ns, a), a, RightOf(ns, a), RightOf(ns, a))
         /\ Place(ns, a) > 1 \/ Place(ns, a) < Len(KidsAt(ns, p))
<1>1. /\ p \in us /\ p # a /\ ~ LeafAt(ns, p) /\ a # rt
      /\ Place(ns, a) \in 1 .. Len(KidsAt(ns, p)) /\ KidsAt(ns, p)[Place(ns, a)] = a
      /\ KidsAt(ns, p) \in Seq(us) /\ Len(KidsAt(ns, p)) = Len(RowsAt(ns, p)) + 1 /\ Len(RowsAt(ns, p)) \in Nat
      /\ Len(RowsAt(ns, p)) >= 1
  BY PlaceIs
<1>2. PICK j, kids, m, n : j = Place(ns, a) /\ kids = KidsAt(ns, p) /\ m = Len(kids) /\ n = Len(RowsAt(ns, p))
  OBVIOUS
<1>3. j \in 1 .. m /\ m = n + 1 /\ n \in Nat /\ n >= 1 /\ kids[j] = a /\ kids \in Seq(us) /\ m = Len(kids)
  BY <1>1, <1>2
<1>4. /\ View(T, ns, us, rt, Nil) /\ AllFilled(ns, us, rt, a) /\ a \in us /\ Nil \notin Nodes(T)
      /\ (a # rt => Len(RowsAt(ns, a)) >= Degree - 2)
  BY DEF Short
<1>5. Len(RowsAt(ns, a)) \in Nat
  <2>1. a \in Node /\ Shaped(ns, us)
    BY <1>4, ViewFacts
  <2>. QED  BY <2>1, ShapedFacts
<1>6. Len(RowsAt(ns, a)) = Degree - 2
  BY <1>1, <1>4, <1>5, DegreeAssumption
<1>7. ASSUME NEW i, i \in 1 .. n, NEW l, NEW r, NEW s, l = kids[i], r = kids[i + 1], (a = l /\ s = r) \/ (a = r /\ s = l)
      PROVE  Paired(T, ns, us, rt, lv, a, v, p, i, l, r, s)
  <2>1. Beside(T, ns, us, rt, lv, a, v, p, i, l, r)
    BY <1>2, <1>7 DEF Beside
  <2>2. BesideInTree(T, ns, us, rt, p, i, l, r)
    BY ONLY <2>1, BesideIs, Zenon
  <2>3. l \in us /\ r \in us /\ l # r /\ l # rt /\ r # rt
    BY <2>2 DEF BesideInTree
  <2>4. s \in us /\ s # a /\ s # rt
    BY <1>7, <2>3
  <2>5. Len(RowsAt(ns, s)) >= Degree - 1
    BY <1>4, <2>4 DEF AllFilled
  <2>6. Len(RowsAt(ns, s)) \in Nat
    <3>1. s \in Node /\ Shaped(ns, us)
      BY <1>4, <2>4, ViewFacts
    <3>. QED  BY <3>1, ShapedFacts
  <2>7. i + 1 \in 1 .. Len(KidsAt(ns, p))
    BY <1>2, <1>3, <1>7
  <2>. QED  BY <1>1, <1>6, <2>1, <2>3, <2>4, <2>5, <2>6, <2>7 DEF Paired
<1>8. ASSUME j > 1 PROVE Paired(T, ns, us, rt, lv, a, v, p, j - 1, LeftOf(ns, a), a, LeftOf(ns, a))
  <2>1. PICK i, s : i = j - 1 /\ s = kids[i]
    OBVIOUS
  <2>2. i \in 1 .. n /\ i + 1 = j
    BY <1>3, <1>8, <2>1
  <2>3. a = kids[i + 1]
    BY <1>3, <2>2
  <2>4. Paired(T, ns, us, rt, lv, a, v, p, i, s, a, s)
    BY <1>7, <2>1, <2>2, <2>3
  <2>5. s = LeftOf(ns, a)
    BY <1>2, <2>1, Zenon DEF LeftOf, KidsAt, ParentAt
  <2>. QED  BY <2>1, <2>4, <2>5
<1>9. ASSUME j < m PROVE Paired(T, ns, us, rt, lv, a, v, p, j, a, RightOf(ns, a), RightOf(ns, a))
  <2>1. PICK s : s = kids[j + 1]
    OBVIOUS
  <2>2. j \in 1 .. n
    BY <1>3, <1>9
  <2>4. Paired(T, ns, us, rt, lv, a, v, p, j, a, s, s)
    BY <1>3, <1>7, <2>1, <2>2
  <2>5. s = RightOf(ns, a)
    BY <1>2, <2>1, Zenon DEF RightOf, KidsAt, ParentAt
  <2>. QED  BY <2>4, <2>5
<1>10. j > 1 \/ j < m
  BY <1>3
<1>. QED  BY <1>2, <1>8, <1>9, <1>10

(* What one update of the nodes does.                                       *)

Rechilded(ns2, ns, a, C) ==
  /\ ns2 \in [Node -> NodeRec] /\ KidsAt(ns2, a) = C
  /\ \A x \in Node : /\ RowsAt(ns2, x) = RowsAt(ns, x) /\ ParentAt(ns2, x) = ParentAt(ns, x)
                     /\ LeafAt(ns2, x) = LeafAt(ns, x) /\ (x # a => KidsAt(ns2, x) = KidsAt(ns, x))

Reparented(ns2, ns, a, q) ==
  /\ ns2 \in [Node -> NodeRec] /\ ParentAt(ns2, a) = q
  /\ \A x \in Node : /\ RowsAt(ns2, x) = RowsAt(ns, x) /\ KidsAt(ns2, x) = KidsAt(ns, x)
                     /\ LeafAt(ns2, x) = LeafAt(ns, x) /\ (x # a => ParentAt(ns2, x) = ParentAt(ns, x))

Renewed(ns2, ns, a, leaf, parent, rows, child) ==
  /\ ns2 \in [Node -> NodeRec]
  /\ LeafAt(ns2, a) = leaf /\ ParentAt(ns2, a) = parent /\ RowsAt(ns2, a) = rows /\ KidsAt(ns2, a) = child
  /\ \A x \in Node : x # a => /\ RowsAt(ns2, x) = RowsAt(ns, x) /\ KidsAt(ns2, x) = KidsAt(ns, x)
                              /\ LeafAt(ns2, x) = LeafAt(ns, x) /\ ParentAt(ns2, x) = ParentAt(ns, x)

Adopted(ns2, ns, kids, q) ==
  /\ ns2 \in [Node -> NodeRec]
  /\ \A x \in Node : /\ RowsAt(ns2, x) = RowsAt(ns, x) /\ KidsAt(ns2, x) = KidsAt(ns, x) /\ LeafAt(ns2, x) = LeafAt(ns, x)
                     /\ ParentAt(ns2, x) = IF In(kids, x) THEN q ELSE ParentAt(ns, x)

\* The children of a node are written, and nothing else.
LEMMA SetKids ==
  ASSUME NEW ns, ns \in [Node -> NodeRec], NEW a \in Node, NEW C \in Seq(Node), NEW ns2, ns2 = [ns EXCEPT ![a].child = C]
  PROVE  Rechilded(ns2, ns, a, C)
<1>1. PICK new : new = [ns[a] EXCEPT !.child = C]
  OBVIOUS
<1>2. ns[a] \in NodeRec
  OBVIOUS
<1>3. /\ new \in NodeRec /\ new.child = C /\ new.rows = ns[a].rows
      /\ new.parent = ns[a].parent /\ new.leaf = ns[a].leaf
  BY <1>1, <1>2 DEF NodeRec
<1>4. ns2 = [ns EXCEPT ![a] = new]
  BY <1>1
<1>5. ns2 \in [Node -> NodeRec] /\ ns2[a] = new /\ \A x \in Node : x # a => ns2[x] = ns[x]
  BY ONLY ns \in [Node -> NodeRec], a \in Node, <1>3, <1>4
<1>. QED  BY <1>3, <1>5 DEF Rechilded, RowsAt, KidsAt, ParentAt, LeafAt

\* The parent of a node is written, and nothing else.
LEMMA SetParent ==
  ASSUME NEW ns, ns \in [Node -> NodeRec], NEW a \in Node, NEW q \in Page, NEW ns2, ns2 = [ns EXCEPT ![a].parent = q]
  PROVE  Reparented(ns2, ns, a, q)
<1>1. PICK new : new = [ns[a] EXCEPT !.parent = q]
  OBVIOUS
<1>2. ns[a] \in NodeRec
  OBVIOUS
<1>3. /\ new \in NodeRec /\ new.child = ns[a].child /\ new.rows = ns[a].rows
      /\ new.parent = q /\ new.leaf = ns[a].leaf
  BY <1>1, <1>2 DEF NodeRec
<1>4. ns2 = [ns EXCEPT ![a] = new]
  BY <1>1
<1>5. ns2 \in [Node -> NodeRec] /\ ns2[a] = new /\ \A x \in Node : x # a => ns2[x] = ns[x]
  BY ONLY ns \in [Node -> NodeRec], a \in Node, <1>3, <1>4
<1>. QED  BY <1>3, <1>5 DEF Reparented, RowsAt, KidsAt, ParentAt, LeafAt

\* A whole node is written, and nothing else.
LEMMA SetNode ==
  ASSUME NEW ns, ns \in [Node -> NodeRec], NEW a \in Node, NEW leaf \in BOOLEAN, NEW parent \in Page, NEW rows \in Seq(Row),
         NEW child \in Seq(Node),
         NEW ns2, ns2 = [ns EXCEPT ![a] = [leaf |-> leaf, parent |-> parent, rows |-> rows, child |-> child]]
  PROVE  Renewed(ns2, ns, a, leaf, parent, rows, child)
<1>1. PICK new : new = [leaf |-> leaf, parent |-> parent, rows |-> rows, child |-> child]
  OBVIOUS
<1>2. new \in NodeRec
  BY <1>1, Zenon DEF NodeRec
<1>3. new.leaf = leaf /\ new.parent = parent /\ new.rows = rows /\ new.child = child
  BY <1>1, Zenon
<1>4. ns2 = [ns EXCEPT ![a] = new]
  BY <1>1
<1>5. ns2 \in [Node -> NodeRec] /\ ns2[a] = new /\ \A x \in Node : x # a => ns2[x] = ns[x]
  BY ONLY ns \in [Node -> NodeRec], a \in Node, <1>2, <1>4
<1>. QED  BY <1>3, <1>5 DEF Renewed, RowsAt, KidsAt, ParentAt, LeafAt

\* Adopt writes the parents of the kids, and nothing else.
LEMMA AdoptIs ==
  ASSUME NEW ns, ns \in [Node -> NodeRec], NEW kids \in Seq(Node), NEW q \in Page, NEW ns2, ns2 = Adopt(ns, kids, q)
  PROVE  Adopted(ns2, ns, kids, q)
<1>1. ns2 = [a \in Node |-> IF a \in Range(kids) THEN [ns[a] EXCEPT !.parent = q] ELSE ns[a]]
  BY DEF Adopt
<1>2. ASSUME NEW x \in Node PROVE In(kids, x) <=> x \in Range(kids)
  BY DEF In, Range
<1>3. ASSUME NEW x \in Node
      PROVE  /\ ns2[x] \in NodeRec
             /\ RowsAt(ns2, x) = RowsAt(ns, x) /\ KidsAt(ns2, x) = KidsAt(ns, x) /\ LeafAt(ns2, x) = LeafAt(ns, x)
             /\ ParentAt(ns2, x) = IF In(kids, x) THEN q ELSE ParentAt(ns, x)
  <2>1. PICK old, new : old = ns[x] /\ new = [old EXCEPT !.parent = q]
    OBVIOUS
  <2>2. old \in NodeRec
    BY <2>1
  <2>3. /\ new \in NodeRec /\ new.child = old.child /\ new.rows = old.rows /\ new.parent = q /\ new.leaf = old.leaf
    BY <2>1, <2>2 DEF NodeRec
  <2>4. ns2[x] = IF x \in Range(kids) THEN new ELSE old
    BY <1>1, <2>1, Zenon
  <2>5. CASE In(kids, x)
    <3>1. ns2[x] = new
      BY <1>2, <2>4, <2>5
    <3>. QED  BY <2>1, <2>3, <2>5, <3>1, Zenon DEF RowsAt, KidsAt, ParentAt, LeafAt
  <2>6. CASE ~ In(kids, x)
    <3>1. ns2[x] = old
      BY <1>2, <2>4, <2>6
    <3>. QED  BY <2>1, <2>2, <2>6, <3>1, Zenon DEF RowsAt, KidsAt, ParentAt, LeafAt
  <2>. QED  BY <2>5, <2>6
<1>4. ns2 \in [Node -> NodeRec]
  <2>1. DOMAIN ns2 = Node /\ ns2 = [x \in Node |-> ns2[x]]
    BY <1>1, Zenon
  <2>. QED  BY <1>3, <2>1, Zenon
<1>. QED  BY <1>3, <1>4 DEF Adopted

\* One row of a node is another.
SettingRow(ns, p, j, y, ns2) ==
  /\ ns \in [Node -> NodeRec] /\ p \in Node /\ j \in 1 .. Len(RowsAt(ns, p))
  /\ RowsAt(ns, p) \in Seq(Copied) /\ y \in Copied /\ ns2 = [ns EXCEPT ![p].rows[j] = y]

LEMMA SetRow ==
  ASSUME NEW ns, NEW p, NEW j, NEW y, NEW ns2, SettingRow(ns, p, j, y, ns2)
  PROVE  \E P \in Seq(Copied) : Rewritten(ns2, ns, p, P) /\ Swapped(P, RowsAt(ns, p), j, y) /\ Len(P) = Len(RowsAt(ns, p))
<1>0. PICK S : /\ S = Copied /\ S \subseteq Row
               /\ ns \in [Node -> NodeRec] /\ p \in Node /\ j \in 1 .. Len(RowsAt(ns, p))
               /\ RowsAt(ns, p) \in Seq(S) /\ y \in S /\ ns2 = [ns EXCEPT ![p].rows[j] = y]
  BY TaggedRows DEF SettingRow
<1>. USE <1>0
<1>1. PICK rows, P : rows = RowsAt(ns, p) /\ P = [rows EXCEPT ![j] = y]
  OBVIOUS
<1>2. rows \in Seq(S) /\ rows \in Seq(Row) /\ j \in 1 .. Len(rows) /\ Len(rows) \in Nat
  BY <1>1, NodeRecIs
<1>3. P \in Seq(S) /\ P \in Seq(Row) /\ Len(P) = Len(rows) /\ P[j] = y /\ \A i \in 1 .. Len(rows) : i # j => P[i] = rows[i]
  <2>1. y \in Row
    OBVIOUS
  <2>. QED  BY <1>1, <1>2, <2>1
<1>4. ns2 = [ns EXCEPT ![p].rows = P]
  BY <1>1, Zenon DEF RowsAt
<1>5. Rewritten(ns2, ns, p, P)
  BY <1>3, <1>4, SetRows
<1>6. P \in Seq(Copied)
  BY <1>3
<1>. QED  BY <1>1, <1>2, <1>3, <1>5, <1>6 DEF Swapped

(* What the steps do to the nodes.                                          *)

\* GrowRoot.
LEMMA SetGrown ==
  ASSUME NEW ns, ns \in [Node -> NodeRec], NEW at \in Node, NEW right \in Node, NEW p \in Node, at # right, p # at, p # right,
         NEW k \in Key, NEW ns2,
         ns2 = [ns EXCEPT ![p] = [leaf |-> FALSE, parent |-> Nil, rows |-> <<<<k, 1>>>>, child |-> <<at, right>>],
                          ![right].parent = p, ![at].parent = p]
  PROVE  RootGrown(ns2, ns, at, right, k, p)
<1>1. PICK rows, child, leaf : rows = <<<<k, 1>>>> /\ child = <<at, right>> /\ leaf = FALSE
  OBVIOUS
<1>2. rows \in Seq(Row) /\ child \in Seq(Node) /\ leaf \in BOOLEAN /\ Nil \in Page /\ p \in Page
  <2>1. <<k, 1>> \in Row
    BY CopiesAssumption DEF Row
  <2>2. rows \in Seq(Row)
    BY ONLY <1>1, <2>1
  <2>3. child \in Seq(Node)
    BY <1>1
  <2>. QED  BY <1>1, <2>2, <2>3 DEF Page
<1>3. PICK n1 : n1 = [ns EXCEPT ![p] = [leaf |-> leaf, parent |-> Nil, rows |-> rows, child |-> child]]
  OBVIOUS
<1>4. Renewed(n1, ns, p, leaf, Nil, rows, child)
  BY <1>2, <1>3, SetNode
<1>5. n1 \in [Node -> NodeRec]
  BY <1>4 DEF Renewed
<1>6. PICK n2 : n2 = [n1 EXCEPT ![right].parent = p]
  OBVIOUS
<1>7. Reparented(n2, n1, right, p)
  BY <1>2, <1>5, <1>6, SetParent
<1>8. n2 \in [Node -> NodeRec]
  BY <1>7 DEF Reparented
<1>9. ns2 = [n2 EXCEPT ![at].parent = p]
  BY <1>1, <1>3, <1>6, Zenon
<1>10. Reparented(ns2, n2, at, p)
  BY <1>2, <1>8, <1>9, SetParent
<1>11. /\ RowsAt(n1, p) = rows /\ KidsAt(n1, p) = child /\ ParentAt(n1, p) = Nil /\ LeafAt(n1, p) = leaf
       /\ \A x \in Node : x # p => /\ RowsAt(n1, x) = RowsAt(ns, x) /\ KidsAt(n1, x) = KidsAt(ns, x)
                                   /\ LeafAt(n1, x) = LeafAt(ns, x) /\ ParentAt(n1, x) = ParentAt(ns, x)
  BY ONLY <1>4 DEF Renewed
<1>12. /\ ns2 \in [Node -> NodeRec]
       /\ \A x \in Node : /\ RowsAt(ns2, x) = RowsAt(n1, x) /\ KidsAt(ns2, x) = KidsAt(n1, x) /\ LeafAt(ns2, x) = LeafAt(n1, x)
                          /\ ParentAt(ns2, x) = IF x = at \/ x = right THEN p ELSE ParentAt(n1, x)
  BY ONLY <1>7, <1>10 DEF Reparented
<1>13. RowsAt(ns2, p) = rows /\ KidsAt(ns2, p) = child /\ ParentAt(ns2, p) = Nil /\ LeafAt(ns2, p) = leaf
  BY ONLY <1>11, <1>12, p \in Node, p # at, p # right
<1>14. \A x \in Node \ {p} : /\ RowsAt(ns2, x) = RowsAt(ns, x) /\ KidsAt(ns2, x) = KidsAt(ns, x) /\ LeafAt(ns2, x) = LeafAt(ns, x)
                            /\ ParentAt(ns2, x) = IF x = at \/ x = right THEN p ELSE ParentAt(ns, x)
  BY ONLY <1>11, <1>12
<1>. QED  BY <1>1, <1>12, <1>13, <1>14, Zenon DEF RootGrown

\* SplitParent.
NodeCutIn(ns, p, t, R1, R2, C1, C2) ==
  [ns EXCEPT ![p].rows = R1, ![p].child = C1,
             ![t] = [leaf |-> FALSE, parent |-> ns[p].parent, rows |-> R2, child |-> C2]]

\* The assignments of SplitParent.
LEMMA SetBroken ==
  ASSUME NEW ns, ns \in [Node -> NodeRec], NEW us, NEW p \in Node, NEW t \in Node, p # t, NEW all, NEW kids,
         NEW R1 \in Seq(Row), NEW R2 \in Seq(Row), NEW C1 \in Seq(Node), NEW C2 \in Seq(Node),
         R1 = SubSeq(all, 1, Degree - 1), R2 = SubSeq(all, Degree + 1, 2 * Degree),
         C1 = SubSeq(kids, 1, Degree), C2 = SubSeq(kids, Degree + 1, 2 * Degree + 1),
         NEW ns2, ns2 = Adopt(Adopt(NodeCutIn(ns, p, t, R1, R2, C1, C2), C1, p), C2, t)
  PROVE  NodeBroken(ns2, ns, us, p, t, all, kids)
<1>1. PICK n1 : n1 = [ns EXCEPT ![p].rows = R1]
  OBVIOUS
<1>2. Rewritten(n1, ns, p, R1)
  BY <1>1, SetRows
<1>3. n1 \in [Node -> NodeRec]
  BY <1>2 DEF Rewritten
<1>4. PICK n2 : n2 = [n1 EXCEPT ![p].child = C1]
  OBVIOUS
<1>5. Rechilded(n2, n1, p, C1)
  BY <1>3, <1>4, SetKids
<1>6. n2 \in [Node -> NodeRec]
  BY <1>5 DEF Rechilded
<1>7. PICK leaf, q : leaf = FALSE /\ q = ParentAt(ns, p)
  OBVIOUS
<1>8. leaf \in BOOLEAN /\ q \in Page /\ p \in Page /\ t \in Page
  BY <1>7, NodeRecIs DEF Page
<1>9. PICK n3 : n3 = [n2 EXCEPT ![t] = [leaf |-> leaf, parent |-> q, rows |-> R2, child |-> C2]]
  OBVIOUS
<1>10. Renewed(n3, n2, t, leaf, q, R2, C2)
  BY <1>6, <1>8, <1>9, SetNode
<1>11. n3 \in [Node -> NodeRec]
  BY <1>10 DEF Renewed
<1>12. NodeCutIn(ns, p, t, R1, R2, C1, C2) = n3
  BY <1>1, <1>4, <1>7, <1>9, Zenon DEF NodeCutIn, ParentAt
<1>13. PICK n4 : n4 = Adopt(n3, C1, p)
  OBVIOUS
<1>14. Adopted(n4, n3, C1, p)
  BY <1>8, <1>11, <1>13, AdoptIs
<1>15. n4 \in [Node -> NodeRec]
  BY <1>14 DEF Adopted
<1>16. ns2 = Adopt(n4, C2, t)
  BY <1>12, <1>13
<1>17. Adopted(ns2, n4, C2, t)
  BY <1>8, <1>15, <1>16, AdoptIs
<1>18. /\ RowsAt(n2, p) = R1 /\ KidsAt(n2, p) = C1
       /\ \A x \in Node : ParentAt(n2, x) = ParentAt(ns, x) /\ LeafAt(n2, x) = LeafAt(ns, x)
       /\ \A x \in Node \ {p} : RowsAt(n2, x) = RowsAt(ns, x) /\ KidsAt(n2, x) = KidsAt(ns, x)
  BY <1>2, <1>5 DEF Rewritten, Rechilded
<1>19. /\ RowsAt(n3, p) = R1 /\ KidsAt(n3, p) = C1 /\ RowsAt(n3, t) = R2 /\ KidsAt(n3, t) = C2
       /\ LeafAt(n3, t) = leaf /\ ParentAt(n3, t) = q
       /\ \A x \in Node \ {t} : ParentAt(n3, x) = ParentAt(ns, x) /\ LeafAt(n3, x) = LeafAt(ns, x)
       /\ \A x \in Node \ {p, t} : RowsAt(n3, x) = RowsAt(ns, x) /\ KidsAt(n3, x) = KidsAt(ns, x)
  BY <1>10, <1>18 DEF Renewed
<1>20. /\ ns2 \in [Node -> NodeRec]
       /\ \A x \in Node : /\ RowsAt(ns2, x) = RowsAt(n3, x) /\ KidsAt(ns2, x) = KidsAt(n3, x) /\ LeafAt(ns2, x) = LeafAt(n3, x)
                          /\ ParentAt(ns2, x) = IF In(C2, x) THEN t ELSE IF In(C1, x) THEN p ELSE ParentAt(n3, x)
  BY <1>14, <1>17 DEF Adopted
<1>21. RowsAt(ns2, p) = R1 /\ RowsAt(ns2, t) = R2 /\ KidsAt(ns2, p) = C1 /\ KidsAt(ns2, t) = C2 /\ LeafAt(ns2, t) = FALSE
  BY <1>7, <1>19, <1>20
<1>. QED  BY <1>7, <1>19, <1>20, <1>21, Zenon DEF NodeBroken

\* LeafMergesLeft and LeafMergesRight.
LEMMA SetMerged ==
  ASSUME NEW ns, ns \in [Node -> NodeRec], NEW l \in Node, NEW r \in Node, l # r, NEW L \in Seq(Row),
         KidsAt(ns, l) = << >>, KidsAt(ns, r) = << >>,
         NEW ns2, ns2 = [ns EXCEPT ![l].rows = L, ![r] = Blank]
  PROVE  Merged(ns2, ns, l, r, L, << >>)
<1>1. PICK n1 : n1 = [ns EXCEPT ![l].rows = L]
  OBVIOUS
<1>2. Rewritten(n1, ns, l, L)
  BY <1>1, SetRows
<1>3. n1 \in [Node -> NodeRec]
  BY <1>2 DEF Rewritten
<1>4. PICK none, leaf : none = << >> /\ leaf = TRUE
  OBVIOUS
<1>5. none \in Seq(Row) /\ none \in Seq(Node) /\ leaf \in BOOLEAN /\ Nil \in Page
  BY <1>4 DEF Page
<1>6. ns2 = [n1 EXCEPT ![r] = [leaf |-> leaf, parent |-> Nil, rows |-> none, child |-> none]]
  BY <1>1, <1>4, Zenon DEF Blank
<1>7. Renewed(ns2, n1, r, leaf, Nil, none, none)
  BY ONLY <1>3, <1>5, <1>6, SetNode, r \in Node
<1>8. \A x : ~ In(KidsAt(ns, r), x)
  BY DEF In
<1>. QED  BY <1>2, <1>4, <1>7, <1>8 DEF Rewritten, Renewed, Merged

\* Joined.
LEMMA SetJoined ==
  ASSUME NEW ns, ns \in [Node -> NodeRec], NEW l \in Node, NEW r \in Node, l # r, NEW L \in Seq(Row), NEW C \in Seq(Node),
         NEW K \in Seq(Node), K = KidsAt(ns, r),
         NEW ns2, ns2 = Adopt([ns EXCEPT ![l].rows = L, ![l].child = C, ![r] = Blank], K, l)
  PROVE  Merged(ns2, ns, l, r, L, C)
<1>1. PICK n1 : n1 = [ns EXCEPT ![l].rows = L]
  OBVIOUS
<1>2. Rewritten(n1, ns, l, L)
  BY <1>1, SetRows
<1>3. n1 \in [Node -> NodeRec]
  BY <1>2 DEF Rewritten
<1>4. PICK n2 : n2 = [n1 EXCEPT ![l].child = C]
  OBVIOUS
<1>5. Rechilded(n2, n1, l, C)
  BY <1>3, <1>4, SetKids
<1>6. n2 \in [Node -> NodeRec]
  BY <1>5 DEF Rechilded
<1>7. PICK none, leaf : none = << >> /\ leaf = TRUE
  OBVIOUS
<1>8. none \in Seq(Row) /\ none \in Seq(Node) /\ leaf \in BOOLEAN /\ Nil \in Page /\ l \in Page
  BY <1>7 DEF Page
<1>9. PICK n3 : n3 = [n2 EXCEPT ![r] = [leaf |-> leaf, parent |-> Nil, rows |-> none, child |-> none]]
  OBVIOUS
<1>10. Renewed(n3, n2, r, leaf, Nil, none, none)
  BY <1>6, <1>8, <1>9, SetNode
<1>11. n3 \in [Node -> NodeRec]
  BY <1>10 DEF Renewed
<1>12. [ns EXCEPT ![l].rows = L, ![l].child = C, ![r] = Blank] = n3
  BY <1>1, <1>4, <1>7, <1>9, Zenon DEF Blank
<1>13. Adopted(ns2, n3, K, l)
  BY <1>8, <1>11, <1>12, AdoptIs
<1>14. /\ RowsAt(n2, l) = L /\ KidsAt(n2, l) = C
       /\ \A x \in Node : ParentAt(n2, x) = ParentAt(ns, x) /\ LeafAt(n2, x) = LeafAt(ns, x)
       /\ \A x \in Node \ {l} : RowsAt(n2, x) = RowsAt(ns, x) /\ KidsAt(n2, x) = KidsAt(ns, x)
  BY <1>2, <1>5 DEF Rewritten, Rechilded
<1>15. /\ RowsAt(n3, l) = L /\ KidsAt(n3, l) = C /\ RowsAt(n3, r) = << >> /\ KidsAt(n3, r) = << >> /\ LeafAt(n3, r) = TRUE
       /\ \A x \in Node \ {r} : ParentAt(n3, x) = ParentAt(ns, x) /\ LeafAt(n3, x) = LeafAt(ns, x)
       /\ \A x \in Node \ {l, r} : RowsAt(n3, x) = RowsAt(ns, x) /\ KidsAt(n3, x) = KidsAt(ns, x)
  BY <1>7, <1>10, <1>14 DEF Renewed
<1>. QED  BY <1>13, <1>15 DEF Adopted, Merged

\* ShrinkRoot.
Shrunk(ns2, ns, a, c) ==
  /\ ns2 \in [Node -> NodeRec]
  /\ RowsAt(ns2, a) = << >> /\ KidsAt(ns2, a) = << >> /\ LeafAt(ns2, a) = TRUE
  /\ \A x \in Node \ {a} : /\ RowsAt(ns2, x) = RowsAt(ns, x) /\ KidsAt(ns2, x) = KidsAt(ns, x) /\ LeafAt(ns2, x) = LeafAt(ns, x)
                           /\ ParentAt(ns2, x) = IF x = c THEN Nil ELSE ParentAt(ns, x)

\* The assignments of ShrinkRoot.
LEMMA SetShrunk ==
  ASSUME NEW ns, ns \in [Node -> NodeRec], NEW a \in Node, NEW c \in Node, a # c, NEW ns2, ns2 = [ns EXCEPT ![c].parent = Nil, ![a] = Blank]
  PROVE  Shrunk(ns2, ns, a, c)
<1>1. PICK n1 : n1 = [ns EXCEPT ![c].parent = Nil]
  OBVIOUS
<1>2. Reparented(n1, ns, c, Nil)
  BY <1>1, SetParent DEF Page
<1>3. n1 \in [Node -> NodeRec]
  BY <1>2 DEF Reparented
<1>4. PICK none, leaf : none = << >> /\ leaf = TRUE
  OBVIOUS
<1>5. none \in Seq(Row) /\ none \in Seq(Node) /\ leaf \in BOOLEAN /\ Nil \in Page
  BY <1>4 DEF Page
<1>6. ns2 = [n1 EXCEPT ![a] = [leaf |-> leaf, parent |-> Nil, rows |-> none, child |-> none]]
  BY <1>1, <1>4, Zenon DEF Blank
<1>7. Renewed(ns2, n1, a, leaf, Nil, none, none)
  BY ONLY <1>3, <1>5, <1>6, SetNode, a \in Node
<1>. QED  BY <1>2, <1>4, <1>7 DEF Reparented, Renewed, Shrunk

(* Borrowing, in the nodes.                                                 *)

\* LeafBorrowsLeft and LeafBorrowsRight: the leaves a and s have the rows X and Y.
TwoRows(ns2, ns, a, X, s, Y) ==
  /\ ns2 \in [Node -> NodeRec] /\ RowsAt(ns2, a) = X /\ RowsAt(ns2, s) = Y
  /\ \A x \in Node : /\ KidsAt(ns2, x) = KidsAt(ns, x) /\ ParentAt(ns2, x) = ParentAt(ns, x) /\ LeafAt(ns2, x) = LeafAt(ns, x)
                     /\ (x # a /\ x # s => RowsAt(ns2, x) = RowsAt(ns, x))

\* The assignments of a borrowing of leaves.
LEMMA SetTwo ==
  ASSUME NEW ns, ns \in [Node -> NodeRec], NEW a \in Node, NEW s \in Node, a # s, NEW X \in Seq(Row), NEW Y \in Seq(Row),
         NEW ns2, ns2 = [ns EXCEPT ![a].rows = X, ![s].rows = Y]
  PROVE  TwoRows(ns2, ns, a, X, s, Y)
<1>1. PICK n1 : n1 = [ns EXCEPT ![a].rows = X]
  OBVIOUS
<1>2. Rewritten(n1, ns, a, X)
  BY <1>1, SetRows
<1>3. n1 \in [Node -> NodeRec]
  BY <1>2 DEF Rewritten
<1>4. ns2 = [n1 EXCEPT ![s].rows = Y]
  BY <1>1, Zenon
<1>5. Rewritten(ns2, n1, s, Y)
  BY <1>3, <1>4, SetRows
<1>. QED  BY <1>2, <1>5 DEF Rewritten, TwoRows

\* BorrowLeft and BorrowRight: a row comes down, a row goes up, and the child c changes hands.
Borrowed(ns2, ns, p, P, a, X, C, s, U, V, c) ==
  /\ ns2 \in [Node -> NodeRec]
  /\ RowsAt(ns2, p) = P /\ KidsAt(ns2, p) = KidsAt(ns, p)
  /\ RowsAt(ns2, a) = X /\ KidsAt(ns2, a) = C /\ RowsAt(ns2, s) = U /\ KidsAt(ns2, s) = V
  /\ \A x \in Node \ {p, a, s} : RowsAt(ns2, x) = RowsAt(ns, x) /\ KidsAt(ns2, x) = KidsAt(ns, x)
  /\ \A x \in Node : LeafAt(ns2, x) = LeafAt(ns, x)
  /\ \A x \in Node : ParentAt(ns2, x) = IF x = c THEN a ELSE ParentAt(ns, x)

\* The nodes that a borrowing makes.
BorrowIn(ns, a, X, C, p, j, y, s, U, V) ==
  [ns EXCEPT ![a].rows = X, ![a].child = C, ![p].rows[j] = y, ![s].rows = U, ![s].child = V]

Borrowing(ns, a, X, C, p, j, y, s, U, V, c, ns2) ==
  /\ ns \in [Node -> NodeRec] /\ a \in Node /\ p \in Node /\ s \in Node /\ a # p /\ a # s /\ p # s
  /\ X \in Seq(Row) /\ C \in Seq(Node) /\ U \in Seq(Row) /\ V \in Seq(Node) /\ c \in Node
  /\ j \in 1 .. Len(RowsAt(ns, p)) /\ RowsAt(ns, p) \in Seq(Copied) /\ y \in Copied
  /\ ns2 = Adopt(BorrowIn(ns, a, X, C, p, j, y, s, U, V), <<c>>, a)

BorrowedBy(ns, a, X, C, p, j, y, s, U, V, c, ns2) ==
  \E P \in Seq(Copied) : /\ Borrowed(ns2, ns, p, P, a, X, C, s, U, V, c)
                         /\ Swapped(P, RowsAt(ns, p), j, y) /\ Len(P) = Len(RowsAt(ns, p))

\* The assignments of a borrowing of nonleaf nodes.
LEMMA SetBorrowed ==
  ASSUME NEW ns, NEW a, NEW X, NEW C, NEW p, NEW j, NEW y, NEW s, NEW U, NEW V, NEW c, NEW ns2,
         Borrowing(ns, a, X, C, p, j, y, s, U, V, c, ns2)
  PROVE  BorrowedBy(ns, a, X, C, p, j, y, s, U, V, c, ns2)
<1>1. /\ ns \in [Node -> NodeRec] /\ a \in Node /\ p \in Node /\ s \in Node /\ a # p /\ a # s /\ p # s
      /\ X \in Seq(Row) /\ C \in Seq(Node) /\ U \in Seq(Row) /\ V \in Seq(Node) /\ c \in Node
      /\ j \in 1 .. Len(RowsAt(ns, p)) /\ RowsAt(ns, p) \in Seq(Copied) /\ y \in Copied
      /\ ns2 = Adopt(BorrowIn(ns, a, X, C, p, j, y, s, U, V), <<c>>, a)
  BY DEF Borrowing
<1>2. PICK n1 : n1 = [ns EXCEPT ![a].rows = X]
  OBVIOUS
<1>3. Rewritten(n1, ns, a, X)
  BY ONLY <1>1, <1>2, SetRows
<1>4. n1 \in [Node -> NodeRec]
  BY <1>3 DEF Rewritten
<1>5. PICK n2 : n2 = [n1 EXCEPT ![a].child = C]
  OBVIOUS
<1>6. Rechilded(n2, n1, a, C)
  BY ONLY <1>1, <1>4, <1>5, SetKids
<1>7. n2 \in [Node -> NodeRec]
  BY <1>6 DEF Rechilded
<1>8. /\ RowsAt(n2, a) = X /\ KidsAt(n2, a) = C
      /\ \A x \in Node : ParentAt(n2, x) = ParentAt(ns, x) /\ LeafAt(n2, x) = LeafAt(ns, x)
      /\ \A x \in Node \ {a} : RowsAt(n2, x) = RowsAt(ns, x) /\ KidsAt(n2, x) = KidsAt(ns, x)
  BY <1>1, <1>3, <1>6 DEF Rewritten, Rechilded
<1>9. PICK n3 : n3 = [n2 EXCEPT ![p].rows[j] = y]
  OBVIOUS
<1>10. RowsAt(n2, p) = RowsAt(ns, p)
  BY <1>1, <1>8
<1>11. Copied \subseteq Row
  BY TaggedRows
<1>12. PICK P \in Seq(Copied) : Rewritten(n3, n2, p, P) /\ Swapped(P, RowsAt(n2, p), j, y) /\ Len(P) = Len(RowsAt(n2, p))
  <2>1. SettingRow(n2, p, j, y, n3)
    BY <1>1, <1>7, <1>9, <1>10 DEF SettingRow
  <2>. QED  BY ONLY <2>1, SetRow
<1>13. n3 \in [Node -> NodeRec]
  BY <1>12 DEF Rewritten
<1>14. PICK n4 : n4 = [n3 EXCEPT ![s].rows = U]
  OBVIOUS
<1>15. Rewritten(n4, n3, s, U)
  BY ONLY <1>1, <1>13, <1>14, SetRows
<1>16. n4 \in [Node -> NodeRec]
  BY <1>15 DEF Rewritten
<1>17. PICK n5 : n5 = [n4 EXCEPT ![s].child = V]
  OBVIOUS
<1>18. Rechilded(n5, n4, s, V)
  BY ONLY <1>1, <1>16, <1>17, SetKids
<1>19. n5 \in [Node -> NodeRec]
  BY <1>18 DEF Rechilded
<1>20. BorrowIn(ns, a, X, C, p, j, y, s, U, V) = n5
  BY <1>1, <1>2, <1>5, <1>9, <1>14, <1>17, Zenon DEF BorrowIn
<1>21. PICK q : q = <<c>>
  OBVIOUS
<1>22. q \in Seq(Node) /\ a \in Page /\ \A x : In(q, x) <=> x = c
  BY <1>1, <1>21 DEF Page, In
<1>23. Adopted(ns2, n5, q, a)
  BY <1>1, <1>19, <1>20, <1>21, <1>22, AdoptIs
<1>24. /\ RowsAt(n3, p) = P /\ KidsAt(n3, p) = KidsAt(ns, p) /\ RowsAt(n3, a) = X /\ KidsAt(n3, a) = C
       /\ \A x \in Node : ParentAt(n3, x) = ParentAt(ns, x) /\ LeafAt(n3, x) = LeafAt(ns, x)
       /\ \A x \in Node \ {a, p} : RowsAt(n3, x) = RowsAt(ns, x) /\ KidsAt(n3, x) = KidsAt(ns, x)
  BY <1>1, <1>8, <1>12 DEF Rewritten
<1>25. /\ RowsAt(n5, s) = U /\ KidsAt(n5, s) = V
       /\ \A x \in Node : ParentAt(n5, x) = ParentAt(n3, x) /\ LeafAt(n5, x) = LeafAt(n3, x)
       /\ \A x \in Node \ {s} : RowsAt(n5, x) = RowsAt(n3, x) /\ KidsAt(n5, x) = KidsAt(n3, x)
  BY <1>1, <1>15, <1>18 DEF Rewritten, Rechilded
<1>26. /\ ns2 \in [Node -> NodeRec]
       /\ \A x \in Node : /\ RowsAt(ns2, x) = RowsAt(n5, x) /\ KidsAt(ns2, x) = KidsAt(n5, x) /\ LeafAt(ns2, x) = LeafAt(n5, x)
                          /\ ParentAt(ns2, x) = IF x = c THEN a ELSE ParentAt(n5, x)
  BY <1>22, <1>23 DEF Adopted
<1>27. Borrowed(ns2, ns, p, P, a, X, C, s, U, V, c)
  BY <1>1, <1>24, <1>25, <1>26 DEF Borrowed
<1>. QED  BY <1>10, <1>12, <1>27 DEF BorrowedBy

\* The children of neighbours know their parent.
LEMMA KidsKnown ==
  ASSUME NEW T, NEW ns, NEW us, NEW rt, NEW p, NEW j, NEW l, NEW r, BesideInTree(T, ns, us, rt, p, j, l, r),
         NEW a \in us
  PROVE  /\ KidsAt(ns, a) \in Seq(us) /\ \A x : In(KidsAt(ns, a), x) => x \in us /\ ParentAt(ns, x) = a
         /\ \A i, m \in 1 .. Len(KidsAt(ns, a)) : KidsAt(ns, a)[i] = KidsAt(ns, a)[m] => i = m
<1>1. Tree(T) /\ Nodes(T) = us /\ \A x \in us : Kids(T, x) = KidsAt(ns, x) /\ Up(T, x) = ParentAt(ns, x)
  BY DEF BesideInTree
<1>2. PICK cs : cs = Kids(T, a)
  OBVIOUS
<1>3. cs = KidsAt(ns, a) /\ a \in Nodes(T)
  BY <1>1, <1>2
<1>4. cs \in Seq(us)
  BY <1>1, <1>2, <1>3, NodeFacts
<1>5. ASSUME NEW i \in 1 .. Len(cs) PROVE cs[i] \in us /\ ParentAt(ns, cs[i]) = a
  <2>1. PICK c : c = cs[i]
    OBVIOUS
  <2>2. c \in Nodes(T) /\ Up(T, c) = a
    BY <1>1, <1>2, <1>3, <1>5, <2>1, KidFacts
  <2>. QED  BY <1>1, <2>1, <2>2
<1>6. \A x : In(cs, x) => x \in us /\ ParentAt(ns, x) = a
  BY <1>5 DEF In
<1>7. \A i, m \in 1 .. Len(cs) : cs[i] = cs[m] => i = m
  BY <1>1, <1>2, <1>3, KidsApart
<1>. QED  BY <1>3, <1>4, <1>6, <1>7

\* A row and a child go from the left to the right.
LEMMA MovedLeft ==
  ASSUME NEW T, NEW ns, NEW us, NEW rt, NEW p, NEW j, NEW l, NEW r, BesideInTree(T, ns, us, rt, p, j, l, r), us \subseteq Node,
         NEW ns2, NEW P, NEW X, NEW C, NEW U, NEW V, NEW c, Borrowed(ns2, ns, p, P, r, X, C, l, U, V, c),
         c \in us, C = <<c>> \o KidsAt(ns, r)
  PROVE  Moved(ns2, ns, p, P, l, U, V, r, X, C)
<1>1. l \in us /\ r \in us /\ p \in us
  BY DEF BesideInTree
<1>2. PICK cs : cs = KidsAt(ns, r)
  OBVIOUS
<1>3. cs \in Seq(us) /\ \A x : In(cs, x) => x \in us /\ ParentAt(ns, x) = r
  BY <1>1, <1>2, KidsKnown
<1>4. \A x : In(C, x) <=> x = c \/ In(cs, x)
  <2>1. Len(C) = Len(cs) + 1 /\ C[1] = c /\ \A i \in 1 .. Len(cs) : C[i + 1] = cs[i]
    BY <1>2, <1>3, ConsIs
  <2>2. Len(cs) \in Nat
    BY <1>3
  <2>3. ASSUME NEW x, In(C, x) PROVE x = c \/ In(cs, x)
    <3>1. PICK i \in 1 .. Len(C) : C[i] = x
      BY <2>3 DEF In
    <3>2. CASE i = 1
      BY <2>1, <3>1, <3>2
    <3>3. CASE i # 1
      <4>1. PICK m : m = i - 1
        OBVIOUS
      <4>2. m \in 1 .. Len(cs) /\ m + 1 = i
        BY <2>1, <2>2, <3>1, <3>3, <4>1
      <4>3. cs[m] = x
        BY <2>1, <3>1, <4>2
      <4>. QED  BY <4>2, <4>3 DEF In
    <3>. QED  BY <3>2, <3>3
  <2>4. ASSUME NEW x, x = c \/ In(cs, x) PROVE In(C, x)
    <3>1. CASE x = c
      <4>1. 1 \in 1 .. Len(C)
        BY <2>1, <2>2
      <4>. QED  BY <2>1, <3>1, <4>1 DEF In
    <3>2. CASE In(cs, x)
      <4>1. PICK m \in 1 .. Len(cs) : cs[m] = x
        BY <3>2 DEF In
      <4>2. PICK i : i = m + 1
        OBVIOUS
      <4>3. i \in 1 .. Len(C) /\ C[i] = x
        BY <2>1, <2>2, <4>1, <4>2
      <4>. QED  BY <4>3 DEF In
    <3>. QED  BY <2>4, <3>1, <3>2
  <2>. QED  BY <2>3, <2>4
<1>5. \A x \in Node : ParentAt(ns2, x) = IF In(C, x) THEN r ELSE IF In(cs, x) THEN l ELSE ParentAt(ns, x)
  <2>1. \A x \in Node : ParentAt(ns2, x) = IF x = c THEN r ELSE ParentAt(ns, x)
    BY DEF Borrowed
  <2>. QED  BY <1>3, <1>4, <2>1, Zenon
<1>. QED  BY <1>2, <1>5 DEF Moved, Borrowed

\* And from the right to the left.
LEMMA MovedRight ==
  ASSUME NEW T, NEW ns, NEW us, NEW rt, NEW p, NEW j, NEW l, NEW r, BesideInTree(T, ns, us, rt, p, j, l, r), us \subseteq Node,
         NEW ns2, NEW P, NEW X, NEW C, NEW U, NEW V, NEW c, Borrowed(ns2, ns, p, P, l, X, C, r, U, V, c),
         Len(KidsAt(ns, r)) >= 1, c = Head(KidsAt(ns, r)), V = Tail(KidsAt(ns, r))
  PROVE  Moved(ns2, ns, p, P, l, X, C, r, U, V)
<1>1. l \in us /\ r \in us /\ p \in us
  BY DEF BesideInTree
<1>2. PICK cs : cs = KidsAt(ns, r)
  OBVIOUS
<1>3. /\ cs \in Seq(us) /\ \A x : In(cs, x) => x \in us /\ ParentAt(ns, x) = r
      /\ \A i, m \in 1 .. Len(cs) : cs[i] = cs[m] => i = m
  BY <1>1, <1>2, KidsKnown
<1>4. \A x : In(cs, x) <=> x = c \/ In(V, x)
  <2>1. Len(V) = Len(cs) - 1 /\ c = cs[1] /\ \A i \in 1 .. Len(cs) - 1 : V[i] = cs[i + 1]
    BY <1>2, <1>3, EndsAre
  <2>2. Len(cs) \in Nat /\ Len(cs) >= 1
    BY <1>2, <1>3
  <2>3. ASSUME NEW x, In(cs, x) PROVE x = c \/ In(V, x)
    <3>1. PICK i \in 1 .. Len(cs) : cs[i] = x
      BY <2>3 DEF In
    <3>2. CASE i = 1
      BY <2>1, <3>1, <3>2
    <3>3. CASE i # 1
      <4>1. PICK m : m = i - 1
        OBVIOUS
      <4>2. m \in 1 .. Len(V) /\ m + 1 = i
        BY <2>1, <2>2, <3>1, <3>3, <4>1
      <4>3. V[m] = x
        BY <2>1, <3>1, <4>2
      <4>. QED  BY <4>2, <4>3 DEF In
    <3>. QED  BY <3>2, <3>3
  <2>4. ASSUME NEW x, x = c \/ In(V, x) PROVE In(cs, x)
    <3>1. CASE x = c
      <4>1. 1 \in 1 .. Len(cs)
        BY <2>2
      <4>. QED  BY <2>1, <3>1, <4>1 DEF In
    <3>2. CASE In(V, x)
      <4>1. PICK m \in 1 .. Len(V) : V[m] = x
        BY <3>2 DEF In
      <4>2. PICK i : i = m + 1
        OBVIOUS
      <4>3. i \in 1 .. Len(cs) /\ cs[i] = x
        BY <2>1, <2>2, <4>1, <4>2
      <4>. QED  BY <4>3 DEF In
    <3>. QED  BY <2>4, <3>1, <3>2
  <2>. QED  BY <2>3, <2>4
<1>5. ~ In(V, c)
  <2>1. Len(V) = Len(cs) - 1 /\ c = cs[1] /\ \A i \in 1 .. Len(cs) - 1 : V[i] = cs[i + 1]
    BY <1>2, <1>3, EndsAre
  <2>2. Len(cs) \in Nat /\ Len(cs) >= 1
    BY <1>2, <1>3
  <2>3. ASSUME In(V, c) PROVE FALSE
    <3>1. PICK m \in 1 .. Len(V) : V[m] = c
      BY <2>3 DEF In
    <3>2. PICK i, o : i = m + 1 /\ o = 1
      OBVIOUS
    <3>3. i \in 1 .. Len(cs) /\ o \in 1 .. Len(cs) /\ cs[i] = cs[o] /\ i # o
      BY <2>1, <2>2, <3>1, <3>2
    <3>. QED  BY <1>3, <3>3
  <2>. QED  BY <2>3
<1>6. \A x \in Node : ParentAt(ns2, x) = IF In(V, x) THEN r ELSE IF In(cs, x) THEN l ELSE ParentAt(ns, x)
  <2>1. \A x \in Node : ParentAt(ns2, x) = IF x = c THEN l ELSE ParentAt(ns, x)
    BY DEF Borrowed
  <2>. QED  BY <1>3, <1>4, <1>5, <2>1, Zenon
<1>. QED  BY <1>2, <1>6 DEF Moved, Borrowed

(* Borrowing, in the tree.                                                  *)
LendLeft(T, ns, us, rt, lv, a, v, p, j, s) ==
  Paired(T, ns, us, rt, lv, a, v, p, j, s, a, s) /\ Len(RowsAt(ns, s)) > Degree - 1
LendRight(T, ns, us, rt, lv, a, v, p, j, s) ==
  Paired(T, ns, us, rt, lv, a, v, p, j, a, s, s) /\ Len(RowsAt(ns, s)) > Degree - 1

\* What neighbours have.
Neighbours(T, ns, us, rt, lv, a, v, p, j, l, r, s) ==
  /\ BesideInTree(T, ns, us, rt, p, j, l, r) /\ BesideInNodes(ns, us, rt, p, j, l, r)
  /\ Beside(T, ns, us, rt, lv, a, v, p, j, l, r)
  /\ a \in Node /\ s \in Node /\ p \in Node /\ a # s /\ a # p /\ s # p /\ a \in us /\ s \in us /\ us \subseteq Node
  /\ LeafAt(ns, a) = LeafAt(ns, s) /\ LeafAt(ns, a) = LeafAt(ns, l)
  /\ ns \in [Node -> NodeRec] /\ RowsAt(ns, p) \in Seq(Copied) /\ j \in 1 .. Len(RowsAt(ns, p)) /\ Len(RowsAt(ns, p)) \in Nat
  /\ RowsAt(ns, p)[j] \in Copied
  /\ KidsAt(ns, a) \in Seq(us) /\ KidsAt(ns, s) \in Seq(us)
  /\ RowsAt(ns, a) \in Seq(Tagged(LeafAt(ns, a))) /\ RowsAt(ns, s) \in Seq(Tagged(LeafAt(ns, a)))
  /\ LeafAt(ns, a) => KidsAt(ns, a) = << >> /\ KidsAt(ns, s) = << >>
  /\ ~ LeafAt(ns, a) => Len(KidsAt(ns, a)) = Len(RowsAt(ns, a)) + 1 /\ Len(KidsAt(ns, s)) = Len(RowsAt(ns, s)) + 1
  /\ Len(RowsAt(ns, a)) = Degree - 2 /\ Len(RowsAt(ns, a)) \in Nat
  /\ Len(RowsAt(ns, s)) \in Nat /\ Len(RowsAt(ns, s)) >= Degree - 1 /\ Len(RowsAt(ns, s)) <= MaxRows

\* What is known of a short node and its neighbour.
LEMMA NeighboursAre ==
  ASSUME NEW T, NEW ns, NEW us, NEW rt, NEW lv, NEW a, NEW v, NEW p, NEW j, NEW l, NEW r, NEW s,
         Paired(T, ns, us, rt, lv, a, v, p, j, l, r, s), (a = l /\ s = r) \/ (a = r /\ s = l)
  PROVE  Neighbours(T, ns, us, rt, lv, a, v, p, j, l, r, s)
<1>1. /\ Beside(T, ns, us, rt, lv, a, v, p, j, l, r) /\ a # s /\ s \in us
      /\ Len(RowsAt(ns, a)) = Degree - 2 /\ Len(RowsAt(ns, s)) \in Nat /\ Len(RowsAt(ns, s)) >= Degree - 1
  BY DEF Paired
<1>2. BesideInTree(T, ns, us, rt, p, j, l, r) /\ BesideInNodes(ns, us, rt, p, j, l, r)
  BY ONLY <1>1, BesideIs, Zenon
<1>3. j \in 1 .. Len(RowsAt(ns, p))
  BY <1>1 DEF Beside
<1>4. /\ Shaped(ns, us) /\ us \subseteq Node /\ p \in Node /\ ~ LeafAt(ns, p) /\ LeafAt(ns, l) = LeafAt(ns, r)
      /\ RowsAt(ns, p)[j] = <<KeysAt(ns, p)[j], 1>> /\ KeysAt(ns, p)[j] \in Key
  BY <1>2 DEF BesideInNodes
<1>5. /\ l \in us /\ r \in us /\ p # l /\ p # r /\ l # r
  BY <1>2 DEF BesideInTree
<1>6. a \in us /\ a \in Node /\ s \in Node /\ a # p /\ s # p /\ LeafAt(ns, a) = LeafAt(ns, s) /\ LeafAt(ns, a) = LeafAt(ns, l)
  BY <1>1, <1>4, <1>5
<1>7. KidsAt(ns, a) \in Seq(us) /\ KidsAt(ns, s) \in Seq(us)
  BY <1>1, <1>2, <1>6, KidsKnown
<1>8. ASSUME NEW x \in Node
      PROVE  /\ RowsAt(ns, x) \in Seq(Tagged(LeafAt(ns, x))) /\ Len(RowsAt(ns, x)) \in Nat /\ Len(RowsAt(ns, x)) <= MaxRows
             /\ LeafAt(ns, x) => Len(KidsAt(ns, x)) = 0
             /\ ~ LeafAt(ns, x) => Len(KidsAt(ns, x)) = Len(RowsAt(ns, x)) + 1
             /\ KidsAt(ns, x) \in Seq(Node)
  BY <1>4, ShapedFacts
<1>9. ASSUME NEW x \in Node, LeafAt(ns, x) PROVE KidsAt(ns, x) = << >>
  <2>1. KidsAt(ns, x) \in Seq(Node) /\ Len(KidsAt(ns, x)) = 0
    BY <1>8, <1>9
  <2>. QED  BY <2>1
<1>10. RowsAt(ns, p) \in Seq(Copied)
  BY <1>4, ShapedFacts
<1>11. ns \in [Node -> NodeRec]
  BY <1>4 DEF Shaped
<1>12. RowsAt(ns, p)[j] \in Copied
  BY <1>4 DEF Copied
<1>13. Len(RowsAt(ns, p)) \in Nat /\ Len(RowsAt(ns, a)) \in Nat /\ Len(RowsAt(ns, s)) <= MaxRows
  BY <1>4, <1>6, <1>8
<1>14. RowsAt(ns, a) \in Seq(Tagged(LeafAt(ns, a))) /\ RowsAt(ns, s) \in Seq(Tagged(LeafAt(ns, a)))
  <2>1. RowsAt(ns, s) \in Seq(Tagged(LeafAt(ns, s)))
    BY <1>6, <1>8
  <2>. QED  BY <1>6, <1>8, <2>1
<1>15. LeafAt(ns, a) => KidsAt(ns, a) = << >> /\ KidsAt(ns, s) = << >>
  BY <1>6, <1>9
<1>16. ~ LeafAt(ns, a) => Len(KidsAt(ns, a)) = Len(RowsAt(ns, a)) + 1 /\ Len(KidsAt(ns, s)) = Len(RowsAt(ns, s)) + 1
  BY <1>6, <1>8
<1>. QED  BY <1>1, <1>2, <1>3, <1>4, <1>6, <1>7, <1>10, <1>11, <1>12, <1>13, <1>14, <1>15, <1>16, Zenon DEF Neighbours

\* The j-th row of p is due to be replaced by a copy of row.
ReplaceDue(T, ns2, us, rt, lv, p, j, row, v) ==
  \E W, k : row = <<k, 0>> /\ GoodReplace(W, ns2, us, rt, lv, p, j, k, TRUE, v) /\ LeafKeys(W) = LeafKeys(T)

\* LeafBorrowsLeft.
LeafLeft(T, ns, us, rt, lv, a, v, p, j, s, row, X, Y, ns2) ==
  /\ LendLeft(T, ns, us, rt, lv, a, v, p, j, s) /\ LeafAt(ns, a)
  /\ row = Last(RowsAt(ns, s)) /\ X = <<row>> \o RowsAt(ns, a) /\ Y = Front(RowsAt(ns, s)) /\ TwoRows(ns2, ns, a, X, s, Y)

\* A leaf borrows the last row of the leaf left of it.
LEMMA LeafLeftReplace ==
  ASSUME NEW T, NEW ns, NEW us, NEW rt, NEW lv, NEW a, NEW v, NEW p, NEW j, NEW s, NEW row, NEW X, NEW Y, NEW ns2,
         LeafLeft(T, ns, us, rt, lv, a, v, p, j, s, row, X, Y, ns2)
  PROVE  ReplaceDue(T, ns2, us, rt, lv, p, j, row, v)
<1>1. /\ Paired(T, ns, us, rt, lv, a, v, p, j, s, a, s) /\ Len(RowsAt(ns, s)) > Degree - 1 /\ LeafAt(ns, a)
      /\ row = Last(RowsAt(ns, s)) /\ X = <<row>> \o RowsAt(ns, a) /\ Y = Front(RowsAt(ns, s)) /\ TwoRows(ns2, ns, a, X, s, Y)
  BY DEF LeafLeft, LendLeft
<1>2. Neighbours(T, ns, us, rt, lv, a, v, p, j, s, a, s)
  <2>1. (a = s /\ s = a) \/ (a = a /\ s = s)
    OBVIOUS
  <2>. QED  BY ONLY <1>1, <2>1, NeighboursAre, Zenon
<1>3. PICK A, B, n, m, d : A = RowsAt(ns, a) /\ B = RowsAt(ns, s) /\ n = Len(A) /\ m = Len(B) /\ d = Degree
  OBVIOUS
<1>4. Own = Tagged(LeafAt(ns, a))
  BY <1>1 DEF Tagged
<1>5. A \in Seq(Own) /\ B \in Seq(Own) /\ n \in Nat /\ m \in Nat /\ n = d - 2 /\ m > d - 1 /\ m <= 2 * d - 1 /\ d \in Nat /\ d >= 2
  BY <1>1, <1>2, <1>3, <1>4, DegreeAssumption DEF Neighbours, MaxRows
<1>6. Y \in Seq(Own) /\ Len(Y) = m - 1 /\ row \in Own /\ X \in Seq(Own) /\ Len(X) = n + 1 /\ X[1] = row /\ Glued(B \o A, Y, X)
  <2>1. Len(B) >= 1
    BY <1>3, <1>5
  <2>2. row = Last(B) /\ Y = Front(B) /\ X = <<row>> \o A
    BY <1>1, <1>3
  <2>3. /\ Front(B) \in Seq(Own) /\ Len(Front(B)) = Len(B) - 1 /\ row \in Own
        /\ <<row>> \o A \in Seq(Own) /\ Len(<<row>> \o A) = Len(A) + 1 /\ (<<row>> \o A)[1] = row
        /\ Glued(B \o A, Front(B), <<row>> \o A)
    BY ONLY <1>5, <2>1, <2>2, LastMoves
  <2>. QED  BY ONLY <1>3, <2>2, <2>3
<1>7. KidsAt(ns, a) = << >> /\ KidsAt(ns, s) = << >> /\ KidsAt(ns, a) \in Seq(us) /\ KidsAt(ns, s) \in Seq(us) /\ LeafAt(ns, s)
  BY <1>1, <1>2 DEF Neighbours
<1>8. Shares(ns, us, p, j, s, a, row, Y, KidsAt(ns, s), X, KidsAt(ns, a))
  <2>1. Len(Y) >= Degree - 1 /\ Len(Y) <= MaxRows /\ Len(X) >= Degree - 1 /\ Len(X) <= MaxRows
    BY <1>3, <1>5, <1>6 DEF MaxRows
  <2>2. Glued(KidsAt(ns, s) \o KidsAt(ns, a), KidsAt(ns, s), KidsAt(ns, a))
    BY <1>7, ConcatGlued
  <2>3. Own = Tagged(LeafAt(ns, s))
    BY <1>7 DEF Tagged
  <2>4. Len(KidsAt(ns, s)) = 0 /\ Len(KidsAt(ns, a)) = 0
    BY <1>7
  <2>. QED  BY <1>3, <1>6, <1>7, <2>1, <2>2, <2>3, <2>4, Zenon DEF Shares
<1>9. Moved(ns2, ns, p, RowsAt(ns, p), s, Y, KidsAt(ns, s), a, X, KidsAt(ns, a))
  <2>1. \A x : ~ In(KidsAt(ns, a), x)
    BY <1>7 DEF In
  <2>2. a \in Node /\ s \in Node /\ p \in Node /\ a # s /\ a # p /\ s # p
    BY <1>2 DEF Neighbours
  <2>. QED  BY <1>1, <2>1, <2>2 DEF Moved, TwoRows
<1>10. Sharing(T, ns, us, rt, lv, a, v, p, j, s, a, row, RowsAt(ns, p), Y, KidsAt(ns, s), X, KidsAt(ns, a), ns2)
  BY <1>2, <1>8, <1>9, Zenon DEF Neighbours, Sharing
<1>11. PICK P, CL, CR : P = RowsAt(ns, p) /\ CL = KidsAt(ns, s) /\ CR = KidsAt(ns, a)
  OBVIOUS
<1>12. Replaceable(T, ns2, us, rt, lv, p, j, row, v)
  <2>1. SharedLeaves(T, ns, us, rt, lv, a, v, p, j, s, a, row, P, Y, CL, X, CR, ns2)
    BY ONLY <1>7, <1>10, <1>11 DEF SharedLeaves
  <2>. QED  BY ONLY <2>1, ShareReplace, Zenon
<1>13. PICK k : k = row[1]
  OBVIOUS
<1>14. row = <<k, 0>>
  BY <1>6, <1>13 DEF Own
<1>. QED  BY <1>12, <1>13, <1>14 DEF Replaceable, ReplaceDue

\* LeafBorrowsRight.
LeafRight(T, ns, us, rt, lv, a, v, p, j, s, row, X, Y, ns2) ==
  /\ LendRight(T, ns, us, rt, lv, a, v, p, j, s) /\ LeafAt(ns, a)
  /\ row = RowsAt(ns, s)[2] /\ X = Append(RowsAt(ns, a), Head(RowsAt(ns, s))) /\ Y = Tail(RowsAt(ns, s)) /\ TwoRows(ns2, ns, a, X, s, Y)

\* A leaf borrows the first row of the leaf right of it.
LEMMA LeafRightReplace ==
  ASSUME NEW T, NEW ns, NEW us, NEW rt, NEW lv, NEW a, NEW v, NEW p, NEW j, NEW s, NEW row, NEW X, NEW Y, NEW ns2,
         LeafRight(T, ns, us, rt, lv, a, v, p, j, s, row, X, Y, ns2)
  PROVE  ReplaceDue(T, ns2, us, rt, lv, p, j, row, v)
<1>1. /\ Paired(T, ns, us, rt, lv, a, v, p, j, a, s, s) /\ Len(RowsAt(ns, s)) > Degree - 1 /\ LeafAt(ns, a)
      /\ row = RowsAt(ns, s)[2] /\ X = Append(RowsAt(ns, a), Head(RowsAt(ns, s))) /\ Y = Tail(RowsAt(ns, s))
      /\ TwoRows(ns2, ns, a, X, s, Y)
  BY DEF LeafRight, LendRight
<1>2. Neighbours(T, ns, us, rt, lv, a, v, p, j, a, s, s)
  <2>1. (a = a /\ s = s) \/ (a = s /\ s = a)
    OBVIOUS
  <2>. QED  BY ONLY <1>1, <2>1, NeighboursAre, Zenon
<1>3. PICK A, B, n, m, d : A = RowsAt(ns, a) /\ B = RowsAt(ns, s) /\ n = Len(A) /\ m = Len(B) /\ d = Degree
  OBVIOUS
<1>4. Own = Tagged(LeafAt(ns, a))
  BY <1>1 DEF Tagged
<1>5. A \in Seq(Own) /\ B \in Seq(Own) /\ n \in Nat /\ m \in Nat /\ n = d - 2 /\ m > d - 1 /\ m <= 2 * d - 1 /\ d \in Nat /\ d >= 2
  BY <1>1, <1>2, <1>3, <1>4, DegreeAssumption DEF Neighbours, MaxRows
<1>6. Y \in Seq(Own) /\ Len(Y) = m - 1 /\ X \in Seq(Own) /\ Len(X) = n + 1 /\ Y[1] = row /\ Glued(A \o B, X, Y)
  <2>1. Len(B) >= 1 /\ Len(B) >= 2
    BY <1>3, <1>5
  <2>2. PICK f : f = Head(B)
    OBVIOUS
  <2>3. row = B[2] /\ Y = Tail(B) /\ X = Append(A, f)
    BY <1>1, <1>3, <2>2
  <2>4. /\ Tail(B) \in Seq(Own) /\ Len(Tail(B)) = Len(B) - 1
        /\ Len(B) >= 2 => Tail(B)[1] = B[2]
        /\ Append(A, f) \in Seq(Own) /\ Len(Append(A, f)) = Len(A) + 1
        /\ Glued(A \o B, Append(A, f), Tail(B))
    BY ONLY <1>5, <2>1, <2>2, HeadMoves
  <2>. QED  BY ONLY <1>3, <2>1, <2>3, <2>4
<1>7. KidsAt(ns, a) = << >> /\ KidsAt(ns, s) = << >> /\ KidsAt(ns, a) \in Seq(us) /\ KidsAt(ns, s) \in Seq(us) /\ LeafAt(ns, a)
  BY <1>1, <1>2 DEF Neighbours
<1>8. Shares(ns, us, p, j, a, s, row, X, KidsAt(ns, a), Y, KidsAt(ns, s))
  <2>1. Len(Y) >= Degree - 1 /\ Len(Y) <= MaxRows /\ Len(X) >= Degree - 1 /\ Len(X) <= MaxRows
    BY <1>3, <1>5, <1>6 DEF MaxRows
  <2>2. Glued(KidsAt(ns, a) \o KidsAt(ns, s), KidsAt(ns, a), KidsAt(ns, s))
    BY <1>7, ConcatGlued
  <2>4. Len(KidsAt(ns, s)) = 0 /\ Len(KidsAt(ns, a)) = 0
    BY <1>7
  <2>. QED  BY <1>3, <1>4, <1>6, <1>7, <2>1, <2>2, <2>4, Zenon DEF Shares
<1>9. Moved(ns2, ns, p, RowsAt(ns, p), a, X, KidsAt(ns, a), s, Y, KidsAt(ns, s))
  <2>1. \A x : ~ In(KidsAt(ns, s), x)
    BY <1>7 DEF In
  <2>2. a \in Node /\ s \in Node /\ p \in Node /\ a # s /\ a # p /\ s # p
    BY <1>2 DEF Neighbours
  <2>. QED  BY <1>1, <2>1, <2>2 DEF Moved, TwoRows
<1>10. Sharing(T, ns, us, rt, lv, a, v, p, j, a, s, row, RowsAt(ns, p), X, KidsAt(ns, a), Y, KidsAt(ns, s), ns2)
  BY <1>2, <1>8, <1>9, Zenon DEF Neighbours, Sharing
<1>11. PICK P, CL, CR : P = RowsAt(ns, p) /\ CL = KidsAt(ns, a) /\ CR = KidsAt(ns, s)
  OBVIOUS
<1>12. Replaceable(T, ns2, us, rt, lv, p, j, row, v)
  <2>1. SharedLeaves(T, ns, us, rt, lv, a, v, p, j, a, s, row, P, X, CL, Y, CR, ns2)
    BY ONLY <1>7, <1>10, <1>11 DEF SharedLeaves
  <2>. QED  BY ONLY <2>1, ShareReplace, Zenon
<1>13. PICK k : k = row[1]
  OBVIOUS
<1>14. row = <<k, 0>>
  <2>1. 1 \in 1 .. Len(Y)
    BY <1>5, <1>6
  <2>2. row \in Own
    BY <1>6, <2>1
  <2>. QED  BY <1>13, <2>2 DEF Own
<1>. QED  BY <1>12, <1>13, <1>14 DEF Replaceable, ReplaceDue

\* BorrowLeft.
InnerLeft(T, ns, us, rt, lv, a, v, p, j, s, y, X, c, C, U, V, ns2) ==
  /\ LendLeft(T, ns, us, rt, lv, a, v, p, j, s) /\ ~ LeafAt(ns, a)
  /\ y = Last(RowsAt(ns, s)) /\ X = <<RowsAt(ns, p)[j]>> \o RowsAt(ns, a) /\ U = Front(RowsAt(ns, s))
  /\ c = Last(KidsAt(ns, s)) /\ C = <<c>> \o KidsAt(ns, a) /\ V = Front(KidsAt(ns, s))
  /\ ns2 = Adopt(BorrowIn(ns, a, X, C, p, j, y, s, U, V), <<c>>, a)

\* A nonleaf node borrows from the node left of it.
LEMMA InnerLeftIdle ==
  ASSUME NEW T, NEW ns, NEW us, NEW rt, NEW lv, NEW a, NEW v, NEW p, NEW j, NEW s, NEW y, NEW X, NEW c, NEW C, NEW U, NEW V, NEW ns2,
         InnerLeft(T, ns, us, rt, lv, a, v, p, j, s, y, X, c, C, U, V, ns2)
  PROVE  Settled(T, ns2, us, rt, lv, v)
<1>1. /\ Paired(T, ns, us, rt, lv, a, v, p, j, s, a, s) /\ Len(RowsAt(ns, s)) > Degree - 1 /\ ~ LeafAt(ns, a)
      /\ y = Last(RowsAt(ns, s)) /\ X = <<RowsAt(ns, p)[j]>> \o RowsAt(ns, a) /\ U = Front(RowsAt(ns, s))
      /\ c = Last(KidsAt(ns, s)) /\ C = <<c>> \o KidsAt(ns, a) /\ V = Front(KidsAt(ns, s))
      /\ ns2 = Adopt(BorrowIn(ns, a, X, C, p, j, y, s, U, V), <<c>>, a)
  BY DEF InnerLeft, LendLeft
<1>2. Neighbours(T, ns, us, rt, lv, a, v, p, j, s, a, s)
  <2>1. (a = s /\ s = a) \/ (a = a /\ s = s)
    OBVIOUS
  <2>. QED  BY ONLY <1>1, <2>1, NeighboursAre, Zenon
<1>3. PICK A, B, KA, KB, e, n, m, d : /\ A = RowsAt(ns, a) /\ B = RowsAt(ns, s) /\ KA = KidsAt(ns, a) /\ KB = KidsAt(ns, s)
                                      /\ e = RowsAt(ns, p)[j] /\ n = Len(A) /\ m = Len(B) /\ d = Degree
  OBVIOUS
<1>4. Copied = Tagged(LeafAt(ns, a))
  BY <1>1 DEF Tagged
<1>5. /\ A \in Seq(Copied) /\ B \in Seq(Copied) /\ e \in Copied /\ KA \in Seq(us) /\ KB \in Seq(us) /\ us \subseteq Node
      /\ n \in Nat /\ m \in Nat /\ n = d - 2 /\ m > d - 1 /\ m <= 2 * d - 1 /\ d \in Nat /\ d >= 2
      /\ Len(KA) = n + 1 /\ Len(KB) = m + 1
  BY <1>1, <1>2, <1>3, <1>4, DegreeAssumption DEF Neighbours, MaxRows
<1>6. U \in Seq(Copied) /\ Len(U) = m - 1 /\ y \in Copied /\ X \in Seq(Copied) /\ Len(X) = n + 1 /\ Spliced(Append(B, e) \o A, U, y, X)
  <2>1. Len(B) >= 1
    BY <1>3, <1>5
  <2>2. y = Last(B) /\ U = Front(B) /\ X = <<e>> \o A
    BY <1>1, <1>3
  <2>3. /\ Front(B) \in Seq(Copied) /\ Len(Front(B)) = Len(B) - 1 /\ y \in Copied
        /\ <<e>> \o A \in Seq(Copied) /\ Len(<<e>> \o A) = Len(A) + 1
        /\ Spliced(Append(B, e) \o A, Front(B), y, <<e>> \o A)
    <3>1. LastTurning(Copied, B, A, e, y)
      BY <1>5, <2>1, <2>2 DEF LastTurning
    <3>. QED  BY ONLY <3>1, LastTurns
  <2>. QED  BY ONLY <1>3, <2>2, <2>3
<1>7. V \in Seq(us) /\ Len(V) = m /\ c \in us /\ C \in Seq(us) /\ Len(C) = n + 2 /\ Glued(KB \o KA, V, C)
  <2>1. Len(KB) >= 1
    BY <1>5
  <2>2. c = Last(KB) /\ V = Front(KB) /\ C = <<c>> \o KA
    BY <1>1, <1>3
  <2>3. /\ Front(KB) \in Seq(us) /\ Len(Front(KB)) = Len(KB) - 1 /\ c \in us
        /\ <<c>> \o KA \in Seq(us) /\ Len(<<c>> \o KA) = Len(KA) + 1
        /\ Glued(KB \o KA, Front(KB), <<c>> \o KA)
    <3>1. KA \in Seq(us) /\ KB \in Seq(us)
      BY <1>5
    <3>. QED  BY ONLY <3>1, <2>1, <2>2, LastMoves
  <2>. QED  BY ONLY <1>5, <2>2, <2>3
<1>8. Shares(ns, us, p, j, s, a, y, U, V, X, C)
  <2>1. Len(U) >= Degree - 1 /\ Len(U) <= MaxRows /\ Len(X) >= Degree - 1 /\ Len(X) <= MaxRows /\ Len(V) = Len(U) + 1 /\ Len(C) = Len(X) + 1
    BY <1>3, <1>5, <1>6, <1>7 DEF MaxRows
  <2>2. ~ LeafAt(ns, s)
    BY <1>1, <1>2 DEF Neighbours
  <2>3. Copied = Tagged(LeafAt(ns, s))
    BY <2>2 DEF Tagged
  <2>. QED  BY <1>3, <1>6, <1>7, <2>1, <2>2, <2>3, Zenon DEF Shares
<1>9. BesideInTree(T, ns, us, rt, p, j, s, a) /\ Beside(T, ns, us, rt, lv, a, v, p, j, s, a) /\ ~ LeafAt(ns, s)
  BY <1>1, <1>2 DEF Neighbours
<1>10. PICK P \in Seq(Copied) : /\ Borrowed(ns2, ns, p, P, a, X, C, s, U, V, c)
                               /\ Swapped(P, RowsAt(ns, p), j, y) /\ Len(P) = Len(RowsAt(ns, p))
  <2>1. Seq(Copied) \subseteq Seq(Row) /\ Seq(us) \subseteq Seq(Node)
    <3>1. Seq(us) \subseteq Seq(Node)
      BY <1>5, SeqMonotonic, Zenon
    <3>. QED  BY <3>1, TaggedRows
  <2>2. /\ X \in Seq(Row) /\ C \in Seq(Node) /\ U \in Seq(Row) /\ V \in Seq(Node) /\ c \in Node
    BY <1>5, <1>6, <1>7, <2>1
  <2>3. Borrowing(ns, a, X, C, p, j, y, s, U, V, c, ns2)
    BY <1>1, <1>2, <1>6, <2>2, Zenon DEF Borrowing, Neighbours
  <2>4. BorrowedBy(ns, a, X, C, p, j, y, s, U, V, c, ns2)
    BY ONLY <2>3, SetBorrowed, Zenon
  <2>. QED  BY ONLY <2>4 DEF BorrowedBy
<1>11. Moved(ns2, ns, p, P, s, U, V, a, X, C)
  BY <1>1, <1>5, <1>7, <1>9, <1>10, MovedLeft
<1>12. SharedInner(T, ns, us, rt, lv, a, v, p, j, s, a, y, P, U, V, X, C, ns2)
  BY <1>8, <1>9, <1>10, <1>11, Zenon DEF Sharing, SharedInner
<1>. QED  BY ONLY <1>12, ShareIdle, Zenon

\* BorrowRight.
InnerRight(T, ns, us, rt, lv, a, v, p, j, s, y, X, c, C, U, V, ns2) ==
  /\ LendRight(T, ns, us, rt, lv, a, v, p, j, s) /\ ~ LeafAt(ns, a)
  /\ y = Head(RowsAt(ns, s)) /\ X = Append(RowsAt(ns, a), RowsAt(ns, p)[j]) /\ U = Tail(RowsAt(ns, s))
  /\ c = Head(KidsAt(ns, s)) /\ C = Append(KidsAt(ns, a), c) /\ V = Tail(KidsAt(ns, s))
  /\ ns2 = Adopt(BorrowIn(ns, a, X, C, p, j, y, s, U, V), <<c>>, a)

\* A nonleaf node borrows from the node right of it.
LEMMA InnerRightIdle ==
  ASSUME NEW T, NEW ns, NEW us, NEW rt, NEW lv, NEW a, NEW v, NEW p, NEW j, NEW s, NEW y, NEW X, NEW c, NEW C, NEW U, NEW V, NEW ns2,
         InnerRight(T, ns, us, rt, lv, a, v, p, j, s, y, X, c, C, U, V, ns2)
  PROVE  Settled(T, ns2, us, rt, lv, v)
<1>1. /\ Paired(T, ns, us, rt, lv, a, v, p, j, a, s, s) /\ Len(RowsAt(ns, s)) > Degree - 1 /\ ~ LeafAt(ns, a)
      /\ y = Head(RowsAt(ns, s)) /\ X = Append(RowsAt(ns, a), RowsAt(ns, p)[j]) /\ U = Tail(RowsAt(ns, s))
      /\ c = Head(KidsAt(ns, s)) /\ C = Append(KidsAt(ns, a), c) /\ V = Tail(KidsAt(ns, s))
      /\ ns2 = Adopt(BorrowIn(ns, a, X, C, p, j, y, s, U, V), <<c>>, a)
  BY DEF InnerRight, LendRight
<1>2. Neighbours(T, ns, us, rt, lv, a, v, p, j, a, s, s)
  <2>1. (a = a /\ s = s) \/ (a = s /\ s = a)
    OBVIOUS
  <2>. QED  BY ONLY <1>1, <2>1, NeighboursAre, Zenon
<1>3. PICK A, B, KA, KB, e, n, m, d : /\ A = RowsAt(ns, a) /\ B = RowsAt(ns, s) /\ KA = KidsAt(ns, a) /\ KB = KidsAt(ns, s)
                                      /\ e = RowsAt(ns, p)[j] /\ n = Len(A) /\ m = Len(B) /\ d = Degree
  OBVIOUS
<1>4. Copied = Tagged(LeafAt(ns, a))
  BY <1>1 DEF Tagged
<1>5. /\ A \in Seq(Copied) /\ B \in Seq(Copied) /\ e \in Copied /\ KA \in Seq(us) /\ KB \in Seq(us) /\ us \subseteq Node
      /\ n \in Nat /\ m \in Nat /\ n = d - 2 /\ m > d - 1 /\ m <= 2 * d - 1 /\ d \in Nat /\ d >= 2
      /\ Len(KA) = n + 1 /\ Len(KB) = m + 1
  BY <1>1, <1>2, <1>3, <1>4, DegreeAssumption DEF Neighbours, MaxRows
<1>6. U \in Seq(Copied) /\ Len(U) = m - 1 /\ y \in Copied /\ X \in Seq(Copied) /\ Len(X) = n + 1 /\ Spliced(Append(A, e) \o B, X, y, U)
  <2>1. Len(B) >= 1
    BY <1>3, <1>5
  <2>2. y = Head(B) /\ U = Tail(B) /\ X = Append(A, e)
    BY <1>1, <1>3
  <2>3. /\ Tail(B) \in Seq(Copied) /\ Len(Tail(B)) = Len(B) - 1 /\ y \in Copied
        /\ Append(A, e) \in Seq(Copied) /\ Len(Append(A, e)) = Len(A) + 1
        /\ Spliced(Append(A, e) \o B, Append(A, e), y, Tail(B))
    <3>1. HeadTurning(Copied, B, A, e, y)
      BY <1>5, <2>1, <2>2 DEF HeadTurning
    <3>. QED  BY ONLY <3>1, HeadTurns
  <2>. QED  BY ONLY <1>3, <2>2, <2>3
<1>7. V \in Seq(us) /\ Len(V) = m /\ c \in us /\ C \in Seq(us) /\ Len(C) = n + 2 /\ Glued(KA \o KB, C, V) /\ Len(KB) >= 1
  <2>1. Len(KB) >= 1
    BY <1>5
  <2>2. c = Head(KB) /\ V = Tail(KB) /\ C = Append(KA, c)
    BY <1>1, <1>3
  <2>3. /\ Tail(KB) \in Seq(us) /\ Len(Tail(KB)) = Len(KB) - 1 /\ c \in us
        /\ Append(KA, c) \in Seq(us) /\ Len(Append(KA, c)) = Len(KA) + 1
        /\ Glued(KA \o KB, Append(KA, c), Tail(KB))
    <3>1. KA \in Seq(us) /\ KB \in Seq(us)
      BY <1>5
    <3>. QED  BY ONLY <3>1, <2>1, <2>2, HeadMoves
  <2>. QED  BY ONLY <1>5, <2>1, <2>2, <2>3
<1>8. Shares(ns, us, p, j, a, s, y, X, C, U, V)
  <2>1. Len(U) >= Degree - 1 /\ Len(U) <= MaxRows /\ Len(X) >= Degree - 1 /\ Len(X) <= MaxRows /\ Len(V) = Len(U) + 1 /\ Len(C) = Len(X) + 1
    BY <1>3, <1>5, <1>6, <1>7 DEF MaxRows
  <2>. QED  BY <1>1, <1>3, <1>4, <1>6, <1>7, <2>1, Zenon DEF Shares
<1>9. BesideInTree(T, ns, us, rt, p, j, a, s) /\ Beside(T, ns, us, rt, lv, a, v, p, j, a, s)
  BY <1>1, <1>2 DEF Neighbours
<1>10. PICK P \in Seq(Copied) : /\ Borrowed(ns2, ns, p, P, a, X, C, s, U, V, c)
                               /\ Swapped(P, RowsAt(ns, p), j, y) /\ Len(P) = Len(RowsAt(ns, p))
  <2>1. Seq(Copied) \subseteq Seq(Row) /\ Seq(us) \subseteq Seq(Node)
    <3>1. Seq(us) \subseteq Seq(Node)
      BY <1>5, SeqMonotonic, Zenon
    <3>. QED  BY <3>1, TaggedRows
  <2>2. /\ X \in Seq(Row) /\ C \in Seq(Node) /\ U \in Seq(Row) /\ V \in Seq(Node) /\ c \in Node
    BY <1>5, <1>6, <1>7, <2>1
  <2>3. Borrowing(ns, a, X, C, p, j, y, s, U, V, c, ns2)
    BY <1>1, <1>2, <1>6, <2>2, Zenon DEF Borrowing, Neighbours
  <2>4. BorrowedBy(ns, a, X, C, p, j, y, s, U, V, c, ns2)
    BY ONLY <2>3, SetBorrowed, Zenon
  <2>. QED  BY ONLY <2>4 DEF BorrowedBy
<1>11. Moved(ns2, ns, p, P, a, X, C, s, U, V)
  BY <1>1, <1>3, <1>5, <1>7, <1>9, <1>10, MovedRight
<1>12. SharedInner(T, ns, us, rt, lv, a, v, p, j, a, s, y, P, X, C, U, V, ns2)
  BY <1>1, <1>8, <1>9, <1>10, <1>11, Zenon DEF Sharing, SharedInner
<1>. QED  BY ONLY <1>12, ShareIdle, Zenon

(* Merging.                                                                 *)
\* What the code puts in l when neither of two neighbours can lend a row.
Pooling(T, ns, us, rt, lv, a, v, p, j, l, r, s, L, C) ==
  /\ Paired(T, ns, us, rt, lv, a, v, p, j, l, r, s) /\ ~ Len(RowsAt(ns, s)) > Degree - 1
  /\ (a = l /\ s = r) \/ (a = r /\ s = l)
  /\ LeafAt(ns, l) => L = RowsAt(ns, l) \o RowsAt(ns, r)
  /\ ~ LeafAt(ns, l) => L = Append(RowsAt(ns, l), RowsAt(ns, p)[j]) \o RowsAt(ns, r)
  /\ C = KidsAt(ns, l) \o KidsAt(ns, r)

\* It is of the right kind, and neither too much nor too little.
LEMMA PoolingIs ==
  ASSUME NEW T, NEW ns, NEW us, NEW rt, NEW lv, NEW a, NEW v, NEW p, NEW j, NEW l, NEW r, NEW s, NEW L, NEW C,
         Pooling(T, ns, us, rt, lv, a, v, p, j, l, r, s, L, C)
  PROVE  /\ Beside(T, ns, us, rt, lv, a, v, p, j, l, r) /\ Pooled(ns, p, j, l, r, L, C)
         /\ L \in Seq(Row) /\ C \in Seq(Node) /\ ns \in [Node -> NodeRec]
         /\ l \in Node /\ r \in Node /\ l # r /\ KidsAt(ns, l) \in Seq(Node) /\ KidsAt(ns, r) \in Seq(Node)
         /\ LeafAt(ns, l) => KidsAt(ns, l) = << >> /\ KidsAt(ns, r) = << >>
         /\ LeafAt(ns, l) \in BOOLEAN
<1>1. /\ Paired(T, ns, us, rt, lv, a, v, p, j, l, r, s) /\ ~ Len(RowsAt(ns, s)) > Degree - 1
      /\ (a = l /\ s = r) \/ (a = r /\ s = l)
      /\ LeafAt(ns, l) => L = RowsAt(ns, l) \o RowsAt(ns, r)
      /\ ~ LeafAt(ns, l) => L = Append(RowsAt(ns, l), RowsAt(ns, p)[j]) \o RowsAt(ns, r)
      /\ C = KidsAt(ns, l) \o KidsAt(ns, r)
  BY DEF Pooling
<1>2. Beside(T, ns, us, rt, lv, a, v, p, j, l, r) /\ Len(RowsAt(ns, a)) = Degree - 2 /\ Len(RowsAt(ns, s)) \in Nat /\ Len(RowsAt(ns, s)) >= Degree - 1
  BY <1>1 DEF Paired
<1>3. Neighbours(T, ns, us, rt, lv, a, v, p, j, l, r, s)
  BY ONLY <1>1, NeighboursAre, Zenon
<1>4. BesideInTree(T, ns, us, rt, p, j, l, r) /\ BesideInNodes(ns, us, rt, p, j, l, r) /\ j \in 1 .. Len(RowsAt(ns, p))
  BY <1>3 DEF Neighbours
<1>5. Len(RowsAt(ns, l)) + Len(RowsAt(ns, r)) < MaxRows /\ Len(RowsAt(ns, l)) + Len(RowsAt(ns, r)) >= Degree - 1
  <2>1. PICK n, m, d : n = Len(RowsAt(ns, a)) /\ m = Len(RowsAt(ns, s)) /\ d = Degree
    OBVIOUS
  <2>2. n \in Nat
    BY <1>3, <2>1 DEF Neighbours
  <2>3. n = d - 2 /\ m \in Nat /\ m = d - 1 /\ d \in Nat /\ d >= 2
    BY <1>1, <1>2, <2>1, DegreeAssumption
  <2>4. n + m < 2 * d - 1 /\ n + m >= d - 1 /\ m + n < 2 * d - 1 /\ m + n >= d - 1
    BY ONLY <2>2, <2>3
  <2>. QED  BY <1>1, <2>1, <2>4 DEF MaxRows
<1>6. Pooled(ns, p, j, l, r, L, C)
  BY <1>1, <1>5 DEF Pooled
<1>7. L \in Seq(Row) /\ C \in Seq(Node)
  BY ONLY <1>4, <1>6, PooledIs
<1>8. /\ ns \in [Node -> NodeRec] /\ l \in Node /\ r \in Node /\ l # r /\ LeafAt(ns, l) = LeafAt(ns, r)
  BY <1>1, <1>3 DEF Neighbours
<1>9. /\ KidsAt(ns, l) \in Seq(Node) /\ KidsAt(ns, r) \in Seq(Node) /\ LeafAt(ns, l) \in BOOLEAN
  BY <1>8, NodeRecIs
<1>10. LeafAt(ns, l) => KidsAt(ns, l) = << >> /\ KidsAt(ns, r) = << >>
  BY <1>1, <1>3 DEF Neighbours
<1>. QED  BY <1>2, <1>6, <1>7, <1>8, <1>9, <1>10

\* A merge goes on with the row row of p.
MergeDue(T, ns2, us2, rt, lv, p, row, drop, v) ==
  \E e \in Key : row = <<e, 1>> /\ MergesOn(T, ns2, us2, rt, lv, p, e, drop, v)

PooledIn(T, ns, us, rt, lv, a, v, p, j, l, r, s, L, C, ns2) ==
  Pooling(T, ns, us, rt, lv, a, v, p, j, l, r, s, L, C) /\ Merged(ns2, ns, l, r, L, C)

\* Two neighbours are made one, and their separator is due to go.
LEMMA PooledDue ==
  ASSUME NEW T, NEW ns, NEW us, NEW rt, NEW lv, NEW a, NEW v, NEW p, NEW j, NEW l, NEW r, NEW s, NEW L, NEW C, NEW ns2,
         PooledIn(T, ns, us, rt, lv, a, v, p, j, l, r, s, L, C, ns2)
  PROVE  MergeDue(T, ns2, us \ {r}, rt, lv, p, RowsAt(ns, p)[j], LeafAt(ns, l), v)
<1>1. Pooling(T, ns, us, rt, lv, a, v, p, j, l, r, s, L, C) /\ Merged(ns2, ns, l, r, L, C)
  BY DEF PooledIn
<1>2. Beside(T, ns, us, rt, lv, a, v, p, j, l, r) /\ Pooled(ns, p, j, l, r, L, C)
  BY ONLY <1>1, PoolingIs, Zenon
<1>3. PICK e : e = KeysAt(ns, p)[j]
  OBVIOUS
<1>4. BesideInNodes(ns, us, rt, p, j, l, r)
  BY ONLY <1>2, BesideIs, Zenon
<1>5. RowsAt(ns, p)[j] = <<e, 1>> /\ e \in Key
  BY <1>3, <1>4 DEF BesideInNodes
<1>6. Merging(T, ns, us, rt, lv, a, v, p, j, l, r, e, L, C, ns2)
  BY ONLY <1>1, <1>2, <1>3 DEF Merging
<1>7. MergesOn(T, ns2, us \ {r}, rt, lv, p, e, LeafAt(ns, l), v)
  BY ONLY <1>6, MergeKept, Zenon
<1>. QED  BY <1>5, <1>7 DEF MergeDue, MergesOn

\* LeafMergesLeft and LeafMergesRight.
LeavesPooled(T, ns, us, rt, lv, a, v, p, j, l, r, s, L, ns2) ==
  /\ Pooling(T, ns, us, rt, lv, a, v, p, j, l, r, s, L, << >>) /\ LeafAt(ns, l)
  /\ ns2 = [ns EXCEPT ![l].rows = L, ![r] = Blank]

\* The same of leaves.
LEMMA LeavesDue ==
  ASSUME NEW T, NEW ns, NEW us, NEW rt, NEW lv, NEW a, NEW v, NEW p, NEW j, NEW l, NEW r, NEW s, NEW L, NEW ns2,
         LeavesPooled(T, ns, us, rt, lv, a, v, p, j, l, r, s, L, ns2)
  PROVE  MergeDue(T, ns2, us \ {r}, rt, lv, p, RowsAt(ns, p)[j], LeafAt(ns, l), v)
<1>1. PICK C : C = << >>
  OBVIOUS
<1>2. Pooling(T, ns, us, rt, lv, a, v, p, j, l, r, s, L, C) /\ LeafAt(ns, l) /\ ns2 = [ns EXCEPT ![l].rows = L, ![r] = Blank]
  BY <1>1 DEF LeavesPooled
<1>3. /\ L \in Seq(Row) /\ ns \in [Node -> NodeRec] /\ l \in Node /\ r \in Node /\ l # r
      /\ LeafAt(ns, l) => KidsAt(ns, l) = << >> /\ KidsAt(ns, r) = << >>
  BY ONLY <1>2, PoolingIs
<1>4. Merged(ns2, ns, l, r, L, << >>)
  BY ONLY <1>2, <1>3, SetMerged
<1>5. PooledIn(T, ns, us, rt, lv, a, v, p, j, l, r, s, L, C, ns2)
  BY ONLY <1>1, <1>2, <1>4 DEF PooledIn
<1>. QED  BY ONLY <1>5, PooledDue, Zenon

\* Joined.
NodesPooled(T, ns, us, rt, lv, a, v, p, j, l, r, s, L, C, ns2) ==
  /\ Pooling(T, ns, us, rt, lv, a, v, p, j, l, r, s, L, C)
  /\ ns2 = Adopt([ns EXCEPT ![l].rows = L, ![l].child = C, ![r] = Blank], KidsAt(ns, r), l)

\* The same of nonleaf nodes.
LEMMA NodesDue ==
  ASSUME NEW T, NEW ns, NEW us, NEW rt, NEW lv, NEW a, NEW v, NEW p, NEW j, NEW l, NEW r, NEW s, NEW L, NEW C, NEW ns2,
         NodesPooled(T, ns, us, rt, lv, a, v, p, j, l, r, s, L, C, ns2)
  PROVE  MergeDue(T, ns2, us \ {r}, rt, lv, p, RowsAt(ns, p)[j], LeafAt(ns, l), v)
<1>1. /\ Pooling(T, ns, us, rt, lv, a, v, p, j, l, r, s, L, C)
      /\ ns2 = Adopt([ns EXCEPT ![l].rows = L, ![l].child = C, ![r] = Blank], KidsAt(ns, r), l)
  BY DEF NodesPooled
<1>2. /\ L \in Seq(Row) /\ C \in Seq(Node) /\ ns \in [Node -> NodeRec] /\ l \in Node /\ r \in Node /\ l # r
      /\ KidsAt(ns, r) \in Seq(Node)
  BY ONLY <1>1, PoolingIs, Zenon
<1>3. PICK K : K = KidsAt(ns, r)
  OBVIOUS
<1>4. ns2 = Adopt([ns EXCEPT ![l].rows = L, ![l].child = C, ![r] = Blank], K, l)
  BY ONLY <1>1, <1>3, Zenon
<1>5. Merged(ns2, ns, l, r, L, C)
  BY ONLY <1>2, <1>3, <1>4, SetJoined
<1>6. PooledIn(T, ns, us, rt, lv, a, v, p, j, l, r, s, L, C, ns2)
  BY ONLY <1>1, <1>5 DEF PooledIn
<1>. QED  BY ONLY <1>6, PooledDue, Zenon

(* Searching.                                                               *)
\* Every node of the tree is as the tree says.
Shown(T, ns, us, rt) == View(T, ns, us, rt, Nil) /\ Nil \notin Nodes(T)

\* At rest all nodes are as the tree says.
LEMMA ShownFacts ==
  ASSUME NEW T, NEW ns, NEW us, NEW rt, Shown(T, ns, us, rt)
  PROVE  /\ Tree(T) /\ Nodes(T) = us /\ Top(T) = rt /\ rt \in us /\ us \subseteq Node /\ Shaped(ns, us)
         /\ \A a \in us : /\ Keys(T, a) = KeysAt(ns, a) /\ Kids(T, a) = KidsAt(ns, a) /\ Up(T, a) = ParentAt(ns, a)
                          /\ Lev(T, a) = 0 <=> LeafAt(ns, a)
<1>1. View(T, ns, us, rt, Nil) /\ Nil \notin Nodes(T)
  BY DEF Shown
<1>2. Tree(T) /\ rt \in us /\ us \subseteq Node /\ Shaped(ns, us)
  BY <1>1 DEF View
<1>3. ASSUME NEW a \in us
      PROVE  /\ Keys(T, a) = KeysAt(ns, a) /\ Kids(T, a) = KidsAt(ns, a) /\ Up(T, a) = ParentAt(ns, a)
             /\ Lev(T, a) = 0 <=> LeafAt(ns, a)
  BY <1>1, ViewFacts
<1>4. Nodes(T) = us /\ Top(T) = rt
  BY <1>1, <1>2, ViewFacts
<1>. QED  BY <1>2, <1>3, <1>4

\* The rows of a node are in order.
LEMMA RowsInOrder ==
  ASSUME NEW T, NEW ns, NEW us, NEW rt, Shown(T, ns, us, rt), NEW a \in us
  PROVE  /\ RowsAt(ns, a) \in Seq(Row) /\ Ascending(RowsAt(ns, a)) /\ Len(RowsAt(ns, a)) \in Nat
         /\ Len(Keys(T, a)) = Len(RowsAt(ns, a))
         /\ \A i \in 1 .. Len(RowsAt(ns, a)) : Keys(T, a)[i] = RowsAt(ns, a)[i][1]
<1>1. Tree(T) /\ Nodes(T) = us /\ us \subseteq Node /\ Shaped(ns, us) /\ Keys(T, a) = KeysAt(ns, a)
  BY ShownFacts
<1>2. RowsAt(ns, a) \in Seq(Row)
  BY <1>1, ShapedFacts
<1>3. PICK rows : rows = RowsAt(ns, a)
  OBVIOUS
<1>4. Sorted(KeysOf(rows)) /\ KeysOf(rows) = Keys(T, a)
  BY <1>1, <1>3, NodeFacts DEF KeysAt
<1>5. rows \in Seq(Row)
  BY <1>2, <1>3
<1>6. Len(KeysOf(rows)) = Len(rows) /\ Len(rows) \in Nat /\ Ascending(rows) /\ \A i \in 1 .. Len(rows) : KeysOf(rows)[i] = rows[i][1]
  BY <1>4, <1>5, KeysOfIs
<1>. QED  BY <1>3, <1>4, <1>5, <1>6

\* Where a search goes from a.
ChildAt(ns, a, k) == KidsAt(ns, a)[ChildFor(RowsAt(ns, a), k)]

\* The child that a search for k goes to has k in its span if its parent has.
LEMMA ChildAtIs ==
  ASSUME NEW T, NEW ns, NEW us, NEW rt, Shown(T, ns, us, rt), NEW a \in us, ~ LeafAt(ns, a), NEW k \in Key
  PROVE  /\ ChildAt(ns, a, k) \in us /\ Lev(T, ChildAt(ns, a, k)) + 1 = Lev(T, a)
         /\ k \in Span(T, a) => k \in Span(T, ChildAt(ns, a, k))
<1>1. /\ Tree(T) /\ Nodes(T) = us /\ Keys(T, a) = KeysAt(ns, a) /\ Kids(T, a) = KidsAt(ns, a)
      /\ Lev(T, a) # 0
  BY ShownFacts
<1>2. PICK rows, c : rows = RowsAt(ns, a) /\ c = ChildFor(rows, k)
  OBVIOUS
<1>3. /\ rows \in Seq(Row) /\ Ascending(rows) /\ Len(rows) \in Nat /\ Len(Keys(T, a)) = Len(rows)
      /\ \A i \in 1 .. Len(rows) : Keys(T, a)[i] = rows[i][1]
  BY <1>2, RowsInOrder
<1>4. c \in 1 .. Len(rows) + 1 /\ \A i \in 1 .. Len(rows) : rows[i][1] <= k <=> i < c
  BY <1>2, <1>3, Descends
<1>5. PICK ks, n : ks = Keys(T, a) /\ n = Len(rows)
  OBVIOUS
<1>6. /\ n \in Nat /\ Len(ks) = n /\ c \in 1 .. n + 1 /\ k \in Nat
      /\ \A i \in 1 .. n : ks[i] \in Nat /\ (ks[i] <= k <=> i < c)
  BY <1>1, <1>3, <1>4, <1>5, NodeFacts, KeysAreNumbers
<1>7. Gap(ks, c, k)
  <2>1. ASSUME c > 1 PROVE ks[c - 1] <= k
    <3>1. PICK i : i = c - 1
      OBVIOUS
    <3>2. i \in 1 .. n /\ i < c
      BY <1>6, <2>1, <3>1
    <3>. QED  BY <1>6, <3>1, <3>2
  <2>2. ASSUME c <= Len(ks) PROVE k < ks[c]
    <3>1. c \in 1 .. n
      BY <1>6, <2>2
    <3>2. ~ (c < c)
      BY <1>6
    <3>3. ~ (ks[c] <= k) /\ ks[c] \in Nat
      BY <1>6, <3>1, <3>2
    <3>. QED  BY <1>6, <3>3
  <2>. QED  BY <2>1, <2>2 DEF Gap
<1>8. c \in 1 .. Len(Kids(T, a))
  <2>1. Len(Kids(T, a)) = Len(Keys(T, a)) + 1
    BY <1>1, NodeFacts
  <2>. QED  BY <1>3, <1>4, <2>1
<1>9. PICK b : b = Kids(T, a)[c]
  OBVIOUS
<1>10. b \in Nodes(T) /\ Lev(T, b) + 1 = Lev(T, a) /\ \A x \in Key : x \in Span(T, b) <=> x \in Span(T, a) /\ Slot(T, a, c, x)
  BY <1>1, <1>8, <1>9, KidFacts
<1>11. Slot(T, a, c, k)
  BY <1>5, <1>7 DEF Slot
<1>12. b = ChildAt(ns, a, k)
  BY <1>1, <1>2, <1>9 DEF ChildAt
<1>. QED  BY <1>1, <1>10, <1>11, <1>12

\* The function that search goes down by.
Goes(ns, k, f, a) == IF LeafAt(ns, a) THEN a ELSE f[ChildAt(ns, a, k)]

\* Level by level, there is a function that goes down.
LEMMA DownTo ==
  ASSUME NEW T, NEW ns, NEW us, NEW rt, Shown(T, ns, us, rt), NEW k \in Key, NEW n \in Nat
  PROVE  \E f : \A a \in Node : (a \in us => Lev(T, a) <= n) => f[a] = Goes(ns, k, f, a)
<1>. DEFINE Ready(f, m) == \A a \in Node : (a \in us => Lev(T, a) <= m) => f[a] = Goes(ns, k, f, a)
            S == {m \in Nat : ~ \E f : Ready(f, m)}
<1>1. /\ us \subseteq Node /\ \A a \in us : Lev(T, a) \in Nat /\ (Lev(T, a) = 0 <=> LeafAt(ns, a))
      /\ \A a \in Node \ us : LeafAt(ns, a)
  <2>1. Tree(T) /\ Nodes(T) = us /\ us \subseteq Node /\ Shaped(ns, us) /\ \A a \in us : Lev(T, a) = 0 <=> LeafAt(ns, a)
    BY ShownFacts
  <2>2. \A a \in us : Lev(T, a) \in Nat
    BY <2>1, NodeFacts
  <2>3. \A a \in Node \ us : LeafAt(ns, a)
    BY <2>1 DEF Shaped
  <2>. QED  BY <2>1, <2>2, <2>3
<1>2. ASSUME S # {} PROVE FALSE
  <2>1. PICK m \in S : \A x \in S : m <= x
    <3>1. S \subseteq Nat
      OBVIOUS
    <3>. HIDE DEF S
    <3>. QED  BY <1>2, <3>1, LeastNumber
  <2>2. m \in Nat
    OBVIOUS
  <2>3. CASE m = 0
    <3>1. PICK f : f = [a \in Node |-> a]
      OBVIOUS
    <3>2. ASSUME NEW a \in Node, a \in us => Lev(T, a) <= m PROVE f[a] = Goes(ns, k, f, a)
      <4>1. LeafAt(ns, a)
        BY <1>1, <2>3, <3>2
      <4>. QED  BY <3>1, <4>1 DEF Goes
    <3>. QED  BY <3>2
  <2>4. CASE m # 0
    <3>1. PICK o : o = m - 1
      OBVIOUS
    <3>2. o \in Nat /\ ~ (m <= o)
      BY <2>2, <2>4, <3>1
    <3>3. PICK f : Ready(f, o)
      BY <2>1, <3>2
    <3>4. PICK g : g = [a \in Node |-> Goes(ns, k, f, a)]
      OBVIOUS
    <3>5. ASSUME NEW a \in Node, a \in us => Lev(T, a) <= m PROVE g[a] = Goes(ns, k, g, a)
      <4>1. CASE LeafAt(ns, a)
        BY <3>4, <4>1 DEF Goes
      <4>2. CASE ~ LeafAt(ns, a)
        <5>1. a \in us
          BY <1>1, <4>2
        <5>2. PICK c : c = ChildAt(ns, a, k)
          OBVIOUS
        <5>3. c \in us /\ Lev(T, c) + 1 = Lev(T, a)
          BY <4>2, <5>1, <5>2, ChildAtIs
        <5>4. Lev(T, c) <= o
          <6>1. PICK x, y : x = Lev(T, c) /\ y = Lev(T, a)
            OBVIOUS
          <6>2. x \in Nat /\ y \in Nat /\ x + 1 = y /\ y <= m
            BY <1>1, <3>5, <5>1, <5>3, <6>1
          <6>3. x <= o
            BY ONLY <2>2, <3>1, <6>2
          <6>. QED  BY <6>1, <6>3
        <5>5. f[c] = Goes(ns, k, f, c) /\ c \in Node
          BY <1>1, <3>3, <5>3, <5>4
        <5>6. g[a] = f[c] /\ g[c] = f[c]
          BY <3>4, <4>2, <5>2, <5>5 DEF Goes
        <5>. QED  BY <4>2, <5>2, <5>6 DEF Goes
      <4>. QED  BY <4>1, <4>2
    <3>. QED  BY <3>5
  <2>. QED  BY <2>3, <2>4
<1>3. n \notin S
  BY <1>2
<1>. QED  BY <1>3

\* A function that goes down as Goes says comes to the leaf where k is sought.
LEMMA GoesToLeaf ==
  ASSUME NEW T, NEW ns, NEW us, NEW rt, Shown(T, ns, us, rt), NEW k \in Key,
         NEW f, \A a \in Node : f[a] = Goes(ns, k, f, a)
  PROVE  \A a \in us : k \in Span(T, a) => f[a] \in us /\ LeafAt(ns, f[a]) /\ k \in Span(T, f[a])
<1>. DEFINE Well(a) == k \in Span(T, a) => f[a] \in us /\ LeafAt(ns, f[a]) /\ k \in Span(T, f[a])
<1>1. Tree(T) /\ Nodes(T) = us /\ us \subseteq Node
  BY ShownFacts
<1>2. PICK height : height = [a \in us |-> Lev(T, a)]
  OBVIOUS
<1>3. \A a \in us : height[a] \in Nat /\ height[a] = Lev(T, a)
  BY <1>1, <1>2, NodeFacts
<1>4. PICK G : G = {a \in us : Well(a)}
  OBVIOUS
<1>5. ASSUME NEW a \in us, \A y \in us : height[y] < height[a] => y \in G PROVE a \in G
  <2>1. f[a] = Goes(ns, k, f, a)
    BY <1>1
  <2>2. CASE LeafAt(ns, a)
    BY <1>4, <2>1, <2>2 DEF Goes
  <2>3. CASE ~ LeafAt(ns, a)
    <3>1. PICK c : c = ChildAt(ns, a, k)
      OBVIOUS
    <3>2. c \in us /\ Lev(T, c) + 1 = Lev(T, a) /\ (k \in Span(T, a) => k \in Span(T, c))
      BY <2>3, <3>1, ChildAtIs
    <3>3. height[c] < height[a]
      <4>1. PICK x, y : x = height[c] /\ y = height[a]
        OBVIOUS
      <4>2. x \in Nat /\ y \in Nat /\ x + 1 = y
        BY <1>3, <3>2, <4>1
      <4>. QED  BY <4>1, <4>2
    <3>4. Well(c)
      BY <1>4, <1>5, <3>2, <3>3
    <3>5. f[a] = f[c]
      BY <2>1, <2>3, <3>1 DEF Goes
    <3>6. Well(a)
      BY <3>2, <3>4, <3>5
    <3>. QED  BY <1>4, <3>6
  <2>. QED  BY <2>2, <2>3
<1>6. us \subseteq G
  BY <1>3, <1>5, Descent
<1>. QED  BY <1>4, <1>6

\* b_tree_search and the others (75-99) come to the leaf where k is sought.
LEMMA LeafForIs ==
  ASSUME NEW T, Shown(T, nodes, used, root), NEW k \in Key
  PROVE  LeafFor(k) \in used /\ LeafAt(nodes, LeafFor(k)) /\ k \in Span(T, LeafFor(k))
<1>. DEFINE F(f) == [a \in Node |-> IF nodes[a].leaf THEN a ELSE f[nodes[a].child[ChildFor(nodes[a].rows, k)]]]
<1>1. /\ Tree(T) /\ Nodes(T) = used /\ Top(T) = root /\ root \in used /\ used \subseteq Node /\ Shaped(nodes, used)
  BY ShownFacts
<1>2. PICK n : n = Lev(T, root)
  OBVIOUS
<1>3. n \in Nat /\ \A a \in used : Lev(T, a) <= n
  BY <1>1, <1>2, NodeFacts
<1>4. PICK f : \A a \in Node : (a \in used => Lev(T, a) <= n) => f[a] = Goes(nodes, k, f, a)
  BY <1>3, DownTo
<1>5. PICK L : L = [a \in Node |-> f[a]]
  OBVIOUS
<1>6. L = F(L)
  <2>1. ASSUME NEW a \in Node
        PROVE  L[a] = IF nodes[a].leaf THEN a ELSE L[nodes[a].child[ChildFor(nodes[a].rows, k)]]
    <3>1. L[a] = Goes(nodes, k, f, a)
      BY <1>3, <1>4, <1>5
    <3>2. CASE LeafAt(nodes, a)
      BY <3>1, <3>2 DEF Goes, LeafAt
    <3>3. CASE ~ LeafAt(nodes, a)
      <4>1. a \in used
        BY <1>1, <3>3 DEF Shaped
      <4>2. ChildAt(nodes, a, k) \in Node
        BY <1>1, <3>3, <4>1, ChildAtIs
      <4>3. L[a] = L[ChildAt(nodes, a, k)]
        BY <1>5, <3>1, <3>3, <4>2 DEF Goes
      <4>. QED  BY <3>3, <4>3 DEF LeafAt, ChildAt, KidsAt, RowsAt
    <3>. QED  BY <3>2, <3>3
  <2>2. DOMAIN L = Node /\ L = [a \in Node |-> L[a]]
    BY <1>5
  <2>. QED  BY <2>1, <2>2, Zenon
<1>7. PICK g : g = (CHOOSE h : h = F(h)) /\ LeafFor(k) = g[root]
  BY Zenon DEF LeafFor
<1>8. g = F(g)
  BY ONLY <1>6, <1>7, Zenon
<1>9. \A a \in Node : g[a] = Goes(nodes, k, g, a)
  <2>1. ASSUME NEW a \in Node
        PROVE  g[a] = IF nodes[a].leaf THEN a ELSE g[nodes[a].child[ChildFor(nodes[a].rows, k)]]
    BY <1>8
  <2>. QED  BY <2>1 DEF Goes, LeafAt, ChildAt, KidsAt, RowsAt
<1>10. k \in Span(T, root)
  BY <1>1 DEF Tree
<1>11. \A a \in used : k \in Span(T, a) => g[a] \in used /\ LeafAt(nodes, g[a]) /\ k \in Span(T, g[a])
  <2>1. PICK ns, us, rt : ns = nodes /\ us = used /\ rt = root
    OBVIOUS
  <2>2. Shown(T, ns, us, rt) /\ \A a \in Node : g[a] = Goes(ns, k, g, a)
    BY <1>9, <2>1
  <2>3. \A a \in us : k \in Span(T, a) => g[a] \in us /\ LeafAt(ns, g[a]) /\ k \in Span(T, g[a])
    BY ONLY <2>2, GoesToLeaf, k \in Key
  <2>. QED  BY <2>1, <2>3
<1>. QED  BY <1>1, <1>7, <1>10, <1>11

\* What the tree stores, and whether a search finds it.
LEMMA StoredIs ==
  ASSUME NEW T, Shown(T, nodes, used, root)
  PROVE  Stored = LeafKeys(T)
<1>1. /\ Tree(T) /\ Nodes(T) = used /\ used \subseteq Node
      /\ \A a \in used : Lev(T, a) = 0 <=> LeafAt(nodes, a)
  BY ShownFacts
<1>2. ASSUME NEW a \in used, NEW k PROVE Has(T, a, k) <=> k \in {r[1] : r \in Range(nodes[a].rows)}
  <2>1. PICK rows : rows = RowsAt(nodes, a)
    OBVIOUS
  <2>2. rows \in Seq(Row) /\ Len(Keys(T, a)) = Len(rows) /\ \A i \in 1 .. Len(rows) : Keys(T, a)[i] = rows[i][1]
    BY <2>1, RowsInOrder
  <2>3. Has(T, a, k) <=> \E i \in 1 .. Len(rows) : rows[i][1] = k
    BY <2>2 DEF Has
  <2>4. Range(rows) = {rows[i] : i \in 1 .. Len(rows)}
    BY <2>2 DEF Range
  <2>5. k \in {r[1] : r \in Range(rows)} <=> \E i \in 1 .. Len(rows) : rows[i][1] = k
    BY <2>4
  <2>. QED  BY <2>1, <2>3, <2>5 DEF RowsAt
<1>3. ASSUME NEW k PROVE k \in LeafKeys(T) <=> \E a \in used : LeafAt(nodes, a) /\ Has(T, a, k)
  BY <1>1, HasIsKey DEF LeafKeys
<1>4. ASSUME NEW k PROVE k \in Stored <=> \E a \in used : LeafAt(nodes, a) /\ k \in {r[1] : r \in Range(nodes[a].rows)}
  BY DEF Stored, LeafAt
<1>. QED  BY <1>2, <1>3, <1>4

\* A search finds what the leaves store, and nothing else.
LEMMA FoundIs ==
  ASSUME NEW T, Shown(T, nodes, used, root), NEW k \in Key
  PROVE  Found(k) <=> k \in LeafKeys(T)
<1>1. PICK a : a = LeafFor(k)
  OBVIOUS
<1>2. a \in used /\ LeafAt(nodes, a) /\ k \in Span(T, a)
  BY <1>1, LeafForIs
<1>3. Tree(T) /\ Nodes(T) = used /\ Lev(T, a) = 0
  BY <1>2, ShownFacts
<1>4. k \in LeafKeys(T) <=> Has(T, a, k)
  BY <1>2, <1>3, HasInLeaf
<1>5. PICK rows : rows = RowsAt(nodes, a)
  OBVIOUS
<1>6. rows \in Seq(Row) /\ Ascending(rows) /\ Len(Keys(T, a)) = Len(rows) /\ \A i \in 1 .. Len(rows) : Keys(T, a)[i] = rows[i][1]
  BY <1>2, <1>5, RowsInOrder
<1>7. HasKey(rows, k) <=> \E i \in 1 .. Len(rows) : rows[i][1] = k
  BY <1>6, Membership
<1>8. HasKey(rows, k) <=> Has(T, a, k)
  BY <1>6, <1>7 DEF Has
<1>9. Found(k) <=> HasKey(rows, k)
  BY <1>1, <1>5 DEF Found, RowsAt
<1>. QED  BY <1>4, <1>8, <1>9

(* The invariant: the nodes are those of a search tree, as far as the call  *)
(* in progress has come.                                                    *)
IdleGood(T, ns, us, rt, lv, jb) == jb = Idle /\ GoodIdle(T, ns, us, rt, lv)
SplitGood(T, ns, us, rt, lv, jb) ==
  \E at, right, k : \E copy \in BOOLEAN :
    jb = Split(at, right, <<k, IF copy THEN 0 ELSE 1>>, copy) /\ GoodSplit(T, ns, us, rt, lv, at, right, k, copy)
MergeGood(T, ns, us, rt, lv, jb) ==
  \E p, k, v : \E drop \in BOOLEAN :
    jb = Merge(p, <<k, 1>>, drop, v) /\ GoodMerge(T, ns, us, rt, lv, p, k, drop, v)
ReplaceGood(T, ns, us, rt, lv, jb) ==
  \E p, i, k, v : \E drop \in BOOLEAN :
    jb = Replace(p, i, <<k, 0>>, drop, v) /\ GoodReplace(T, ns, us, rt, lv, p, i, k, drop, v)
Good(T, ns, us, rt, lv, jb) ==
  \/ IdleGood(T, ns, us, rt, lv, jb) \/ SplitGood(T, ns, us, rt, lv, jb)
  \/ MergeGood(T, ns, us, rt, lv, jb) \/ ReplaceGood(T, ns, us, rt, lv, jb)

IInv == \E T : Good(T, nodes, used, root, live, job)

\* What a loop carries.
LEMMA SplitIs ==
  ASSUME NEW at, NEW right, NEW row, NEW copy, NEW jb, jb = Split(at, right, row, copy)
  PROVE  jb.kind = "split" /\ jb.at = at /\ jb.right = right /\ jb.row = row /\ jb.copy = copy
BY Zenon DEF Split

\* The fields of a merge's job.
LEMMA MergeIs ==
  ASSUME NEW at, NEW row, NEW drop, NEW v, NEW jb, jb = Merge(at, row, drop, v)
  PROVE  jb.kind = "merge" /\ jb.at = at /\ jb.row = row /\ jb.drop = drop /\ jb.victim = v
BY Zenon DEF Merge

\* The fields of a replacement's job.
LEMMA ReplaceIs ==
  ASSUME NEW at, NEW i, NEW row, NEW drop, NEW v, NEW jb, jb = Replace(at, i, row, drop, v)
  PROVE  jb.kind = "replace" /\ jb.at = at /\ jb.i = i /\ jb.row = row /\ jb.drop = drop /\ jb.victim = v
BY Zenon DEF Replace

\* No job.
LEMMA IdleIs == Idle.kind = "none"
BY DEF Idle

\* The kinds of jobs differ.
LEMMA KindsApart ==
  /\ "none" # "split" /\ "none" # "merge" /\ "none" # "replace"
  /\ "split" # "merge" /\ "split" # "replace" /\ "merge" # "replace"
OBVIOUS

\* The kind of the job says which part of the invariant it is.
LEMMA GoodKinds ==
  ASSUME NEW T, NEW ns, NEW us, NEW rt, NEW lv, NEW jb, Good(T, ns, us, rt, lv, jb)
  PROVE  /\ IdleGood(T, ns, us, rt, lv, jb) => jb.kind = "none"
         /\ SplitGood(T, ns, us, rt, lv, jb) => jb.kind = "split"
         /\ MergeGood(T, ns, us, rt, lv, jb) => jb.kind = "merge"
         /\ ReplaceGood(T, ns, us, rt, lv, jb) => jb.kind = "replace"
         /\ jb = Idle => IdleGood(T, ns, us, rt, lv, jb)
         /\ jb.kind = "split" => SplitGood(T, ns, us, rt, lv, jb)
         /\ jb.kind = "merge" => MergeGood(T, ns, us, rt, lv, jb)
         /\ jb.kind = "replace" => ReplaceGood(T, ns, us, rt, lv, jb)
<1>1. IdleGood(T, ns, us, rt, lv, jb) => jb.kind = "none"
  BY IdleIs DEF IdleGood
<1>2. ASSUME SplitGood(T, ns, us, rt, lv, jb) PROVE jb.kind = "split"
  <2>1. PICK at, right, row, copy : jb = Split(at, right, row, copy)
    BY <1>2, Zenon DEF SplitGood
  <2>. QED  BY ONLY <2>1, SplitIs
<1>3. ASSUME MergeGood(T, ns, us, rt, lv, jb) PROVE jb.kind = "merge"
  <2>1. PICK at, row, drop, v : jb = Merge(at, row, drop, v)
    BY <1>3, Zenon DEF MergeGood
  <2>. QED  BY ONLY <2>1, MergeIs
<1>4. ASSUME ReplaceGood(T, ns, us, rt, lv, jb) PROVE jb.kind = "replace"
  <2>1. PICK at, i, row, drop, v : jb = Replace(at, i, row, drop, v)
    BY <1>4, Zenon DEF ReplaceGood
  <2>. QED  BY ONLY <2>1, ReplaceIs
<1>5. jb = Idle => jb.kind = "none"
  BY IdleIs
<1>. QED  BY <1>1, <1>2, <1>3, <1>4, <1>5, KindsApart DEF Good

\* A record that is deleted by myjql.c, or written by it.
LEMMA OriginalIs == \A k : Original(k) = <<k, 0>>
BY DEF Original

(* The initial tree.                                                        *)
Seed == [set |-> {1}, top |-> 1, lev |-> [a \in {1} |-> 0], keys |-> [a \in {1} |-> << >>], kids |-> [a \in {1} |-> << >>],
         up |-> [a \in {1} |-> Nil], span |-> [a \in {1} |-> Key]]

\* The empty tree is a search tree.
LEMMA InitGood == Init => IInv
<1>. SUFFICES ASSUME Init PROVE IInv
  OBVIOUS
<1>1. nodes = [a \in Node |-> Blank] /\ used = {1} /\ root = 1 /\ live = {} /\ job = Idle
  BY DEF Init
<1>2. PICK T : T = Seed
  OBVIOUS
<1>3. /\ Nodes(T) = {1} /\ Top(T) = 1 /\ Lev(T, 1) = 0 /\ Keys(T, 1) = << >> /\ Kids(T, 1) = << >> /\ Up(T, 1) = Nil
      /\ Span(T, 1) = Key
  BY <1>2, Zenon DEF Seed, Nodes, Top, Lev, Keys, Kids, Up, Span
<1>4. PICK e : e = << >>
  OBVIOUS
<1>5. Len(e) = 0 /\ e \in Seq(Key) /\ e \in Seq({1}) /\ e \in Seq(Own) /\ e \in Seq(Row) /\ e \in Seq(Node) /\ e \in Seq(Nat)
  BY <1>4
<1>6. Sorted(e)
  <2>1. DOMAIN e = {}
    BY <1>4
  <2>. QED  BY <2>1 DEF Sorted
<1>7. NodeOK(T, 1)
  <2>1. Kids(T, 1) \in Seq(Nodes(T)) /\ Len(Kids(T, 1)) = 0 /\ Len(Keys(T, 1)) = 0 /\ Keys(T, 1) \in Seq(Key) /\ Sorted(Keys(T, 1))
    BY <1>3, <1>4, <1>5, <1>6
  <2>2. Lev(T, 1) \in Nat /\ Lev(T, 1) <= Lev(T, Top(T))
    BY <1>3
  <2>. QED  BY <1>3, <2>1, <2>2 DEF NodeOK
<1>8. 1 \in Page /\ 1 \in Node
  BY SetsAssumption DEF Page
<1>9. Tree(T)
  <2>1. \A a \in Nodes(T) : a = 1
    BY <1>3
  <2>2. \A a \in Nodes(T) : \A j \in 1 .. Len(Kids(T, a)) : KidOK(T, a, j)
    BY <1>3, <1>4, <1>5, <2>1
  <2>. QED  BY <1>3, <1>7, <1>8, <2>1, <2>2 DEF Tree
<1>10. PICK ns : ns = nodes
  OBVIOUS
<1>11. \A a \in Node : RowsAt(ns, a) = e /\ KidsAt(ns, a) = e /\ ParentAt(ns, a) = Nil /\ LeafAt(ns, a) = TRUE
  BY <1>1, <1>4, <1>10, Zenon DEF Blank, RowsAt, KidsAt, ParentAt, LeafAt
<1>12. Shaped(ns, {1})
  <2>1. Blank \in NodeRec
    BY <1>4, <1>5 DEF Blank, NodeRec, Page
  <2>2. ns \in [Node -> NodeRec]
    BY <1>1, <1>10, <2>1
  <2>3. Len(e) <= MaxRows
    BY <1>5, DegreeAssumption DEF MaxRows
  <2>4. \A a \in Node : ShapedAt(ns, a)
    BY <1>5, <1>11, <2>3 DEF ShapedAt, Tagged
  <2>. QED  BY <1>11, <2>2, <2>4 DEF Shaped
<1>13. KeysAt(ns, 1) = e
  <2>1. KeysOf(e) \in Seq(Nat) /\ Len(KeysOf(e)) = Len(e)
    BY <1>5, KeysOfIs
  <2>2. KeysOf(e) = e
    BY <1>4, <1>5, <2>1
  <2>. QED  BY <1>8, <1>11, <2>2 DEF KeysAt
<1>14. Nil \notin Nodes(T)
  BY <1>3, <1>8, NilAssumption
<1>15. View(T, ns, {1}, 1, Nil)
  BY <1>3, <1>4, <1>8, <1>9, <1>11, <1>12, <1>13, <1>14 DEF View
<1>16. AllFilled(ns, {1}, 1, Nil)
  BY <1>8, <1>11 DEF AllFilled
<1>17. LeafKeys(T) = {} /\ InnerKeys(T) = {}
  <2>1. \A k : \A a \in Nodes(T) : ~ Has(T, a, k)
    BY <1>3, <1>4, <1>5 DEF Has
  <2>. QED  BY <2>1 DEF LeafKeys, InnerKeys
<1>18. live = Recs(LeafKeys(T), InnerKeys(T))
  BY <1>1, <1>17 DEF Recs
<1>19. GoodIdle(T, ns, {1}, 1, live)
  BY <1>14, <1>15, <1>16, <1>18 DEF GoodIdle
<1>. QED  BY <1>1, <1>10, <1>19 DEF IInv, Good, IdleGood

(* The steps of an insertion.                                               *)
\* After a step the nodes are those of a tree that stores the keys A.
Leads(ns2, us2, rt2, lv2, jb2, A) == \E W : Good(W, ns2, us2, rt2, lv2, jb2) /\ LeafKeys(W) = A

\* A new page is one that is free.
LEMMA NewNodeIs ==
  ASSUME NEW us, us = used, us \subseteq Node, us # Node
  PROVE  NewNode \in Node /\ NewNode \notin us
<1>1. PICK S : S = Node \ us
  OBVIOUS
<1>2. S # {} /\ S \in SUBSET Nat
  BY <1>1, SetsAssumption
<1>3. Least(S) \in S
  BY ONLY <1>2, LeastIs
<1>. QED  BY <1>1, <1>3 DEF NewNode

\* InsertInLeaf keeps the invariant, and stores k.
LEMMA LeafGood ==
  ASSUME NEW T, Good(T, nodes, used, root, live, job), NEW k \in Key, job = Idle, k \notin Stored,
         live' = live \cup {Original(k)}, InsertInLeaf(k)
  PROVE  k \notin LeafKeys(T) /\ Leads(nodes', used', root', live', job', LeafKeys(T) \cup {k})
<1>1. GoodIdle(T, nodes, used, root, live)
  BY GoodKinds DEF IdleGood
<1>2. PICK ns, us, rt, lv, ns2, a, all : /\ ns = nodes /\ us = used /\ rt = root /\ lv = live /\ ns2 = nodes' /\ a = LeafFor(k)
                                         /\ all = WithRow(RowsAt(ns, a), Original(k))
  OBVIOUS
<1>3. Shown(T, nodes, used, root)
  BY <1>1 DEF GoodIdle, Shown
<1>4. a \in us /\ LeafAt(ns, a) /\ k \in Span(T, a) /\ k \notin LeafKeys(T)
  BY <1>2, <1>3, LeafForIs, StoredIs
<1>5. GoodIdle(T, ns, us, rt, lv)
  BY <1>1, <1>2
<1>6. Putting(T, ns, us, rt, a, k, all)
  BY <1>2, <1>4, <1>5 DEF Putting, GoodIdle
<1>7. all \in Seq(Row)
  BY ONLY <1>6, PutPlace
<1>8. ns \in [Node -> NodeRec] /\ a \in Node
  BY <1>4, <1>5 DEF GoodIdle, View, Shaped
<1>9. /\ Len(RowsAt(ns, a)) < MaxRows /\ nodes' = [nodes EXCEPT ![a].rows = WithRow(@, Original(k))]
      /\ used' = used /\ root' = root /\ job' = job
  BY <1>2 DEF InsertInLeaf, RowsAt
<1>10. ns2 = [ns EXCEPT ![a].rows = all]
  BY <1>2, <1>9, Zenon DEF RowsAt
<1>11. Rewritten(ns2, ns, a, all)
  BY ONLY <1>7, <1>8, <1>10, SetRows
<1>12. PutIn(T, ns2, us, rt, lv \cup {Original(k)}, k)
  <2>1. Puts(T, ns, us, rt, lv, a, k, all, ns2)
    BY ONLY <1>5, <1>6, <1>9, <1>11 DEF Puts
  <2>. QED  BY ONLY <2>1, PutIdle, Zenon
<1>. QED  BY <1>2, <1>4, <1>9, <1>12 DEF Leads, Good, IdleGood, PutIn

\* SplitLeaf keeps the invariant, and stores k.
LEMMA SplitLeafGood ==
  ASSUME NEW T, Good(T, nodes, used, root, live, job), NEW k \in Key, job = Idle, k \notin Stored,
         live' = live \cup {Original(k)}, SplitLeaf(k)
  PROVE  k \notin LeafKeys(T) /\ Leads(nodes', used', root', live', job', LeafKeys(T) \cup {k})
<1>1. GoodIdle(T, nodes, used, root, live)
  BY GoodKinds DEF IdleGood
<1>2. PICK ns, us, rt, lv, ns2, a, all : /\ ns = nodes /\ us = used /\ rt = root /\ lv = live /\ ns2 = nodes' /\ a = LeafFor(k)
                                         /\ all = WithRow(RowsAt(ns, a), Original(k))
  OBVIOUS
<1>3. Shown(T, nodes, used, root)
  BY <1>1 DEF GoodIdle, Shown
<1>4. a \in us /\ LeafAt(ns, a) /\ k \in Span(T, a) /\ k \notin LeafKeys(T)
  BY <1>2, <1>3, LeafForIs, StoredIs
<1>5. GoodIdle(T, ns, us, rt, lv)
  BY <1>1, <1>2
<1>6. Putting(T, ns, us, rt, a, k, all)
  BY <1>2, <1>4, <1>5 DEF Putting, GoodIdle
<1>7. all \in Seq(Row) /\ Len(all) = Len(RowsAt(ns, a)) + 1
  BY ONLY <1>6, PutPlace
<1>8. ns \in [Node -> NodeRec] /\ a \in Node /\ us \subseteq Node
  BY <1>4, <1>5 DEF GoodIdle, View, Shaped
<1>9. PICK low, upper, y : low = SubSeq(all, 1, Degree) /\ upper = SubSeq(all, Degree + 1, 2 * Degree) /\ y = NewNode
  OBVIOUS
<1>10. /\ Len(RowsAt(ns, a)) = MaxRows /\ us # Node /\ used' = us \cup {y} /\ root' = rt
       /\ job' = Split(a, y, upper[1], TRUE)
       /\ ns2 = [ns EXCEPT ![a].rows = low, ![y] = [leaf |-> TRUE, parent |-> ns[a].parent, rows |-> upper, child |-> <<>>]]
  BY <1>2, <1>9, Zenon DEF SplitLeaf, RowsAt
<1>11. y \in Node /\ y \notin us
  BY <1>2, <1>8, <1>9, <1>10, NewNodeIs
<1>12. low \in Seq(Row) /\ upper \in Seq(Row)
  <2>1. PICK d : d = Degree
    OBVIOUS
  <2>2. d \in Nat /\ d >= 2 /\ Len(all) = 2 * d
    BY <1>7, <1>10, <2>1, DegreeAssumption DEF MaxRows
  <2>3. 1 \in Nat \ {0} /\ d + 1 \in Nat \ {0} /\ d \in Nat /\ 2 * d \in Nat /\ 1 <= d + 1 /\ d <= Len(all) /\ d + 1 <= 2 * d + 1 /\ 2 * d <= Len(all)
    BY ONLY <2>2
  <2>. QED  BY <1>7, <1>9, <2>1, <2>3, SubSeqIs
<1>13. LeafBroken(ns2, ns, a, y, all)
  <2>1. a # y
    BY <1>4, <1>11
  <2>. QED  BY ONLY <1>8, <1>9, <1>10, <1>11, <1>12, <2>1, SetHalves
<1>14. Breaks(T, ns, us, rt, lv, a, k, all, y, ns2)
  BY <1>5, <1>6, <1>10, <1>11, <1>13 DEF Breaks
<1>15. PutApart(T, ns2, us \cup {y}, rt, lv \cup {Original(k)}, a, y, RowsAt(ns2, y)[1], k)
  BY ONLY <1>14, PutSplit, Zenon
<1>16. RowsAt(ns2, y)[1] = upper[1]
  BY <1>9, <1>13 DEF LeafBroken
<1>17. PICK W, e : /\ e \in Key /\ upper[1] = <<e, 0>> /\ GoodSplit(W, ns2, us \cup {y}, rt, lv \cup {Original(k)}, a, y, e, TRUE)
                   /\ LeafKeys(W) = LeafKeys(T) \cup {k}
  BY <1>15, <1>16 DEF PutApart
<1>18. SplitGood(W, ns2, us \cup {y}, rt, lv \cup {Original(k)}, job')
  BY <1>10, <1>17 DEF SplitGood
<1>. QED  BY <1>2, <1>4, <1>10, <1>17, <1>18 DEF Leads, Good

\* b_tree_insert keeps the invariant up to its loop, and stores k.
LEMMA InsertGood ==
  ASSUME NEW T, Good(T, nodes, used, root, live, job), NEW k \in Key, Insert(k)
  PROVE  k \notin LeafKeys(T) /\ Leads(nodes', used', root', live', job', LeafKeys(T) \cup {k})
<1>1. job = Idle /\ k \notin Stored /\ live' = live \cup {Original(k)} /\ (InsertInLeaf(k) \/ SplitLeaf(k))
  BY DEF Insert
<1>. QED  BY <1>1, LeafGood, SplitLeafGood

(* The steps of the loop of a split.                                        *)
\* What a step of the loop finds.
SplitFound(T, ns, us, rt, lv, at, right, k, copy) ==
  /\ GoodSplit(T, ns, us, rt, lv, at, right, k, copy) /\ copy \in BOOLEAN
  /\ ns = nodes /\ us = used /\ rt = root /\ lv = live
  /\ job.at = at /\ job.right = right /\ job.row[1] = k /\ job.copy = copy
  /\ Separator = <<k, 1>> /\ (~ copy => <<k, 1>> \in lv) /\ (copy => <<k, 1>> \notin lv)

\* What the loop of a split finds.
LEMMA SplitFacts ==
  ASSUME NEW T, Good(T, nodes, used, root, live, job), job.kind = "split"
  PROVE  \E ns, us, rt, lv, at, right, k, copy : SplitFound(T, ns, us, rt, lv, at, right, k, copy)
<1>1. PICK ns, us, rt, lv, jb : ns = nodes /\ us = used /\ rt = root /\ lv = live /\ jb = job
  OBVIOUS
<1>2. SplitGood(T, ns, us, rt, lv, jb)
  BY <1>1, GoodKinds
<1>3. PICK at, right, k, copy : /\ copy \in BOOLEAN /\ jb = Split(at, right, <<k, IF copy THEN 0 ELSE 1>>, copy)
                                /\ GoodSplit(T, ns, us, rt, lv, at, right, k, copy)
  BY <1>2 DEF SplitGood
<1>4. PICK row : row = <<k, IF copy THEN 0 ELSE 1>>
  OBVIOUS
<1>5. jb.at = at /\ jb.right = right /\ jb.row = row /\ jb.copy = copy
  BY <1>3, <1>4, SplitIs
<1>6. SplitKept(T, lv, k, copy)
  BY <1>3, SplitRecs
<1>7. /\ lv \cup {<<k, 1>>} = Recs(LeafKeys(T), InnerKeys(T)) /\ (copy => <<k, 1>> \notin lv)
      /\ ~ copy => lv = Recs(LeafKeys(T), InnerKeys(T))
  BY <1>6 DEF SplitKept
<1>8. ~ copy => <<k, 1>> \in lv
  BY <1>7
<1>9. Separator = <<k, 1>>
  <2>1. CASE copy
    <3>1. row = <<k, 0>>
      BY <1>4, <2>1
    <3>2. CopyOf(row, lv) = <<k, 1>>
      BY <1>7, <2>1, <3>1, CopyIs
    <3>. QED  BY <1>1, <1>5, <2>1, <3>2 DEF Separator
  <2>2. CASE ~ copy
    BY <1>1, <1>4, <1>5, <2>2 DEF Separator
  <2>. QED  BY <2>1, <2>2
<1>10. job.at = at /\ job.right = right /\ job.row[1] = k /\ job.copy = copy
  BY <1>1, <1>4, <1>5
<1>. QED  BY <1>1, <1>3, <1>7, <1>8, <1>9, <1>10 DEF SplitFound

\* GrowRoot keeps the invariant and ends the loop.
LEMMA GrowGood ==
  ASSUME NEW T, NEW ns, NEW us, NEW rt, NEW lv, NEW at, NEW right, NEW k, NEW copy,
         SplitFound(T, ns, us, rt, lv, at, right, k, copy), live' = live \cup {Separator}, GrowRoot
  PROVE  Leads(nodes', used', root', live', job', LeafKeys(T)) /\ job' = Idle
<1>1. /\ GoodSplit(T, ns, us, rt, lv, at, right, k, copy) /\ copy \in BOOLEAN
      /\ ns = nodes /\ us = used /\ rt = root /\ lv = live
      /\ job.at = at /\ job.right = right /\ Separator = <<k, 1>>
  BY DEF SplitFound
<1>2. PICK p, ns2 : p = NewNode /\ ns2 = nodes'
  OBVIOUS
<1>3. /\ ParentAt(ns, at) = Nil /\ us # Node /\ used' = us \cup {p} /\ root' = p /\ job' = Idle
      /\ ns2 = [ns EXCEPT ![p] = [leaf |-> FALSE, parent |-> Nil, rows |-> <<<<k, 1>>>>, child |-> <<at, right>>],
                          ![right].parent = p, ![at].parent = p]
  BY <1>1, <1>2, Zenon DEF GrowRoot, ParentAt
<1>4. us \subseteq Node /\ ns \in [Node -> NodeRec] /\ at \in us /\ right \in us /\ at # right
  BY <1>1 DEF GoodSplit, View, Shaped, SplitShown
<1>5. p \in Node /\ p \notin us
  BY <1>1, <1>2, <1>3, <1>4, NewNodeIs
<1>6. k \in Key
  BY <1>1, SplitRecs DEF SplitKept
<1>7. at \in Node /\ right \in Node /\ p # at /\ p # right
  BY <1>4, <1>5
<1>8. RootGrown(ns2, ns, at, right, k, p)
  BY ONLY <1>3, <1>4, <1>5, <1>6, <1>7, SetGrown
<1>9. Grows(T, ns, us, rt, lv, at, right, k, copy, p, ns2)
  BY <1>1, <1>3, <1>5, <1>8 DEF Grows
<1>10. Kept(T, ns2, us \cup {p}, p, lv \cup {<<k, 1>>})
  BY ONLY <1>9, GrowIdle, Zenon
<1>. QED  BY <1>1, <1>2, <1>3, <1>10 DEF Kept, Leads, Good, IdleGood

\* The rows and the children that the parent gets.
LEMMA SeatGood ==
  ASSUME NEW T, NEW ns, NEW us, NEW rt, NEW lv, NEW at, NEW right, NEW k, NEW copy,
         SplitFound(T, ns, us, rt, lv, at, right, k, copy), NEW p, p = ParentAt(ns, at), p # Nil,
         NEW all, NEW kids, all = WithRow(RowsAt(ns, p), Separator),
         kids = InsertAt(KidsAt(ns, p), LowerBound(RowsAt(ns, p), job.row[1]) + 2, job.right)
  PROVE  /\ Seated(T, ns, us, rt, lv, at, right, k, copy, p, all, kids) /\ copy \in BOOLEAN
         /\ ns \in [Node -> NodeRec] /\ us \subseteq Node /\ p \in us /\ p \in Node
         /\ all \in Seq(Row) /\ kids \in Seq(Node) /\ Len(all) = Len(RowsAt(ns, p)) + 1 /\ Len(kids) = Len(all) + 1
<1>1. /\ GoodSplit(T, ns, us, rt, lv, at, right, k, copy) /\ copy \in BOOLEAN
      /\ job.right = right /\ job.row[1] = k /\ Separator = <<k, 1>>
  BY DEF SplitFound
<1>2. Seated(T, ns, us, rt, lv, at, right, k, copy, p, all, kids)
  BY <1>1 DEF Seated
<1>3. /\ View(T, ns, us, rt, p) /\ p \in us
      /\ all \in Seq(Row) /\ Len(all) = Len(RowsAt(ns, p)) + 1 /\ kids \in Seq(us) /\ Len(kids) = Len(all) + 1
  BY ONLY <1>2, SeatedIs
<1>4. ns \in [Node -> NodeRec] /\ us \subseteq Node
  BY <1>3 DEF View, Shaped
<1>5. kids \in Seq(Node)
  BY <1>3, <1>4, SeqMonotonic, Zenon
<1>. QED  BY <1>1, <1>2, <1>3, <1>4, <1>5

\* InsertInParent keeps the invariant and ends the loop.
LEMMA JoinGood ==
  ASSUME NEW T, NEW ns, NEW us, NEW rt, NEW lv, NEW at, NEW right, NEW k, NEW copy,
         SplitFound(T, ns, us, rt, lv, at, right, k, copy), live' = live \cup {Separator}, InsertInParent
  PROVE  Leads(nodes', used', root', live', job', LeafKeys(T)) /\ job' = Idle
<1>1. /\ ns = nodes /\ us = used /\ rt = root /\ lv = live
      /\ job.at = at /\ job.right = right /\ Separator = <<k, 1>>
  BY DEF SplitFound
<1>2. PICK p, ns2, all, kids : /\ p = ParentAt(ns, at) /\ ns2 = nodes' /\ all = WithRow(RowsAt(ns, p), Separator)
                               /\ kids = InsertAt(KidsAt(ns, p), LowerBound(RowsAt(ns, p), job.row[1]) + 2, job.right)
  OBVIOUS
<1>3. /\ p # Nil /\ Len(RowsAt(ns, p)) < MaxRows /\ job' = Idle /\ used' = us /\ root' = rt
      /\ ns2 = [ns EXCEPT ![p].rows = all, ![p].child = kids]
  BY <1>1, <1>2, Zenon DEF InsertInParent, ParentAt, RowsAt, KidsAt
<1>4. /\ Seated(T, ns, us, rt, lv, at, right, k, copy, p, all, kids) /\ copy \in BOOLEAN
      /\ ns \in [Node -> NodeRec] /\ p \in Node /\ all \in Seq(Row) /\ kids \in Seq(Node)
  BY <1>2, <1>3, SeatGood
<1>5. Refilled(ns2, ns, p, all, kids)
  BY ONLY <1>3, <1>4, SetBoth
<1>6. Joins(T, ns, us, rt, lv, at, right, k, copy, p, all, kids, ns2)
  BY <1>3, <1>4, <1>5 DEF Joins
<1>7. GoodIdle(T, ns2, us, rt, lv \cup {<<k, 1>>})
  BY ONLY <1>6, SplitIdle, Zenon
<1>. QED  BY <1>1, <1>2, <1>3, <1>7 DEF Leads, Good, IdleGood

\* SplitParent keeps the invariant; the loop goes on, with no copy to be made.
LEMMA AgainGood ==
  ASSUME NEW T, NEW ns, NEW us, NEW rt, NEW lv, NEW at, NEW right, NEW k, NEW copy,
         SplitFound(T, ns, us, rt, lv, at, right, k, copy), live' = live \cup {Separator}, SplitParent
  PROVE  /\ Leads(nodes', used', root', live', job', LeafKeys(T))
         /\ \E a, b, row : job' = Split(a, b, row, FALSE)
<1>1. /\ ns = nodes /\ us = used /\ rt = root /\ lv = live
      /\ job.at = at /\ job.right = right /\ Separator = <<k, 1>>
  BY DEF SplitFound
<1>2. PICK p, ns2, all, kids, t : /\ p = ParentAt(ns, at) /\ ns2 = nodes' /\ all = WithRow(RowsAt(ns, p), Separator)
                               /\ kids = InsertAt(KidsAt(ns, p), LowerBound(RowsAt(ns, p), job.row[1]) + 2, job.right)
                               /\ t = NewNode
  OBVIOUS
<1>3. PICK R1, R2, C1, C2 : /\ R1 = SubSeq(all, 1, Degree - 1) /\ R2 = SubSeq(all, Degree + 1, 2 * Degree)
                            /\ C1 = SubSeq(kids, 1, Degree) /\ C2 = SubSeq(kids, Degree + 1, 2 * Degree + 1)
  OBVIOUS
<1>4. /\ p # Nil /\ Len(RowsAt(ns, p)) = MaxRows /\ us # Node /\ used' = us \cup {t} /\ root' = rt
      /\ job' = Split(p, t, all[Degree], FALSE)
      /\ ns2 = Adopt(Adopt(NodeCutIn(ns, p, t, R1, R2, C1, C2), C1, p), C2, t)
  BY <1>1, <1>2, <1>3, Zenon DEF SplitParent, ParentAt, RowsAt, KidsAt, NodeCutIn
<1>5. /\ Seated(T, ns, us, rt, lv, at, right, k, copy, p, all, kids) /\ copy \in BOOLEAN
      /\ ns \in [Node -> NodeRec] /\ us \subseteq Node /\ p \in us /\ p \in Node
      /\ all \in Seq(Row) /\ kids \in Seq(Node) /\ Len(all) = Len(RowsAt(ns, p)) + 1 /\ Len(kids) = Len(all) + 1
  BY <1>2, <1>4, SeatGood
<1>6. t \in Node /\ t \notin us /\ p # t
  BY <1>1, <1>2, <1>4, <1>5, NewNodeIs
<1>7. R1 \in Seq(Row) /\ R2 \in Seq(Row) /\ C1 \in Seq(Node) /\ C2 \in Seq(Node)
  <2>1. PICK d, h, n, m : d = Degree /\ h = Degree - 1 /\ n = Len(all) /\ m = Len(kids)
    OBVIOUS
  <2>2. d \in Nat /\ d >= 2 /\ n = 2 * d /\ m = 2 * d + 1 /\ h = d - 1
    BY <1>4, <1>5, <2>1, DegreeAssumption DEF MaxRows
  <2>3. /\ 1 \in Nat \ {0} /\ d + 1 \in Nat \ {0} /\ d \in Nat /\ h \in Nat /\ 2 * d \in Nat /\ 2 * d + 1 \in Nat
        /\ 1 <= h + 1 /\ h <= n /\ d + 1 <= 2 * d + 1 /\ 2 * d <= n
        /\ 1 <= d + 1 /\ d <= m /\ d + 1 <= 2 * d + 1 + 1 /\ 2 * d + 1 <= m
    BY ONLY <2>2
  <2>4. R1 \in Seq(Row) /\ R2 \in Seq(Row)
    BY <1>3, <1>5, <2>1, <2>3, SubSeqIs
  <2>5. C1 \in Seq(Node) /\ C2 \in Seq(Node)
    BY <1>3, <1>5, <2>1, <2>3, SubSeqIs
  <2>. QED  BY <2>4, <2>5
<1>8. NodeBroken(ns2, ns, us, p, t, all, kids)
  BY ONLY <1>3, <1>4, <1>5, <1>6, <1>7, SetBroken
<1>9. Splits(T, ns, us, rt, lv, at, right, k, copy, p, all, kids, t, ns2)
  BY <1>4, <1>5, <1>6, <1>8 DEF Splits
<1>10. SplitsOn(T, ns2, us \cup {t}, rt, lv \cup {<<k, 1>>}, p, t, all[Degree])
  BY ONLY <1>9, SplitAgain, Zenon
<1>11. PICK W, e : /\ e \in Key /\ all[Degree] = <<e, 1>> /\ GoodSplit(W, ns2, us \cup {t}, rt, lv \cup {<<k, 1>>}, p, t, e, FALSE)
                   /\ LeafKeys(W) = LeafKeys(T)
  BY <1>10 DEF SplitsOn
<1>12. SplitGood(W, ns2, us \cup {t}, rt, lv \cup {<<k, 1>>}, job')
  BY <1>4, <1>11 DEF SplitGood
<1>. QED  BY <1>1, <1>2, <1>4, <1>11, <1>12 DEF Leads, Good

(* The steps of a deletion: the leaf.                                       *)
\* The leaf a has lost its row, and W says what the tree is then.
LeafShort(W, ns, us, rt, lv, a, k) ==
  Short(W, ns, us, rt, lv, a, k) /\ LeafAt(ns, a) /\ us = used /\ rt = root /\ lv = live /\ ns \in [Node -> NodeRec] /\ k \in Key

\* What LeafShort gives of a neighbour that lends or that is merged with.
LEMMA LeafStaysGood ==
  ASSUME NEW W, NEW ns, NEW us, NEW rt, NEW lv, NEW a, NEW k, LeafShort(W, ns, us, rt, lv, a, k), LeafStays(ns, a, k)
  PROVE  Leads(nodes', used', root', live', job', LeafKeys(W)) /\ job' = Idle
<1>1. Short(W, ns, us, rt, lv, a, k) /\ LeafAt(ns, a) /\ us = used /\ rt = root /\ lv = live
  BY DEF LeafShort
<1>2. Remedy(ns, a) = "none" /\ nodes' = ns /\ live' = lv \ {<<k, 0>>} /\ job' = Idle /\ used' = us /\ root' = rt
  BY <1>1, OriginalIs DEF LeafStays
<1>3. ParentAt(ns, a) = Nil \/ Len(RowsAt(ns, a)) >= Degree - 1
  BY <1>2, RemedyIs
<1>4. GoodIdle(W, ns, us, rt, lv \ {<<k, 0>>})
  BY <1>1, <1>3, ShortIdle
<1>. QED  BY <1>2, <1>4 DEF Leads, Good, IdleGood

\* LeafBorrowsLeft keeps the invariant and asks for a new separator.
LEMMA LeafLeftGood ==
  ASSUME NEW W, NEW ns, NEW us, NEW rt, NEW lv, NEW a, NEW k, LeafShort(W, ns, us, rt, lv, a, k), LeafBorrowsLeft(ns, a, k)
  PROVE  /\ Leads(nodes', used', root', live', job', LeafKeys(W))
         /\ \E p, i, row : job' = Replace(p, i, row, TRUE, k)
<1>1. Short(W, ns, us, rt, lv, a, k) /\ LeafAt(ns, a) /\ us = used /\ rt = root /\ lv = live /\ ns \in [Node -> NodeRec]
  BY DEF LeafShort
<1>2. PICK p, j, s, row, X, Y, ns2 : /\ p = ParentAt(ns, a) /\ j = Place(ns, a) - 1 /\ s = LeftOf(ns, a) /\ row = Last(RowsAt(ns, s))
                                /\ X = <<row>> \o RowsAt(ns, a) /\ Y = Front(RowsAt(ns, s)) /\ ns2 = nodes'
  OBVIOUS
<1>3. /\ Remedy(ns, a) = "borrow left" /\ used' = us /\ root' = rt /\ live' = lv
      /\ ns2 = [ns EXCEPT ![a].rows = X, ![s].rows = Y] /\ job' = Replace(p, j, row, TRUE, k)
  BY <1>1, <1>2, Zenon DEF LeafBorrowsLeft, Reseparate, RowsAt, ParentAt
<1>4. LendLeft(W, ns, us, rt, lv, a, k, p, j, s)
  <2>1. /\ ParentAt(ns, a) # Nil /\ ~ Len(RowsAt(ns, a)) >= Degree - 1
        /\ Place(ns, a) > 1 /\ Len(RowsAt(ns, LeftOf(ns, a))) > Degree - 1
    BY <1>3, RemedyIs
  <2>2. Paired(W, ns, us, rt, lv, a, k, p, Place(ns, a) - 1, LeftOf(ns, a), a, LeftOf(ns, a))
    BY <1>1, <1>2, <2>1, PairedIs
  <2>. QED  BY <1>2, <2>1, <2>2 DEF LendLeft
<1>5. Neighbours(W, ns, us, rt, lv, a, k, p, j, s, a, s)
  <2>1. Paired(W, ns, us, rt, lv, a, k, p, j, s, a, s)
    BY <1>4 DEF LendLeft
  <2>. QED  BY <2>1, NeighboursAre
<1>6. a \in Node /\ s \in Node /\ a # s /\ RowsAt(ns, a) \in Seq(Row) /\ RowsAt(ns, s) \in Seq(Row) /\ Len(RowsAt(ns, s)) >= 1
  <2>1. a \in Node /\ s \in Node /\ a # s /\ Len(RowsAt(ns, s)) \in Nat /\ Len(RowsAt(ns, s)) >= Degree - 1
    BY <1>5 DEF Neighbours
  <2>. QED  BY <1>1, <2>1, NodeRecIs, DegreeAssumption
<1>7. X \in Seq(Row) /\ Y \in Seq(Row)
  BY ONLY <1>2, <1>6, LastMoves
<1>8. TwoRows(ns2, ns, a, X, s, Y)
  BY ONLY <1>1, <1>3, <1>6, <1>7, SetTwo
<1>9. LeafLeft(W, ns, us, rt, lv, a, k, p, j, s, row, X, Y, ns2)
  BY <1>1, <1>2, <1>4, <1>8 DEF LeafLeft
<1>10. ReplaceDue(W, ns2, us, rt, lv, p, j, row, k)
  BY ONLY <1>9, LeafLeftReplace, Zenon
<1>11. PICK V, e : row = <<e, 0>> /\ GoodReplace(V, ns2, us, rt, lv, p, j, e, TRUE, k) /\ LeafKeys(V) = LeafKeys(W)
  BY <1>10 DEF ReplaceDue
<1>12. ReplaceGood(V, ns2, us, rt, lv, job')
  BY <1>3, <1>11 DEF ReplaceGood
<1>. QED  BY <1>2, <1>3, <1>11, <1>12 DEF Leads, Good

\* LeafBorrowsRight keeps the invariant and asks for a new separator.
LEMMA LeafRightGood ==
  ASSUME NEW W, NEW ns, NEW us, NEW rt, NEW lv, NEW a, NEW k, LeafShort(W, ns, us, rt, lv, a, k), LeafBorrowsRight(ns, a, k)
  PROVE  /\ Leads(nodes', used', root', live', job', LeafKeys(W))
         /\ \E p, i, row : job' = Replace(p, i, row, TRUE, k)
<1>1. Short(W, ns, us, rt, lv, a, k) /\ LeafAt(ns, a) /\ us = used /\ rt = root /\ lv = live /\ ns \in [Node -> NodeRec]
  BY DEF LeafShort
<1>2. PICK p, j, s, row, X, Y, ns2 : /\ p = ParentAt(ns, a) /\ j = Place(ns, a) /\ s = RightOf(ns, a) /\ row = RowsAt(ns, s)[2]
                                /\ X = Append(RowsAt(ns, a), Head(RowsAt(ns, s))) /\ Y = Tail(RowsAt(ns, s)) /\ ns2 = nodes'
  OBVIOUS
<1>3. /\ Remedy(ns, a) = "borrow right" /\ used' = us /\ root' = rt /\ live' = lv
      /\ ns2 = [ns EXCEPT ![a].rows = X, ![s].rows = Y] /\ job' = Replace(p, j, row, TRUE, k)
  BY <1>1, <1>2, Zenon DEF LeafBorrowsRight, Reseparate, RowsAt, ParentAt
<1>4. LendRight(W, ns, us, rt, lv, a, k, p, j, s)
  <2>1. /\ ParentAt(ns, a) # Nil /\ ~ Len(RowsAt(ns, a)) >= Degree - 1
        /\ Place(ns, a) < Len(KidsAt(ns, ParentAt(ns, a))) /\ Len(RowsAt(ns, RightOf(ns, a))) > Degree - 1
    BY <1>3, RemedyIs
  <2>2. Paired(W, ns, us, rt, lv, a, k, p, Place(ns, a), a, RightOf(ns, a), RightOf(ns, a))
    BY <1>1, <1>2, <2>1, PairedIs
  <2>. QED  BY <1>2, <2>1, <2>2 DEF LendRight
<1>5. Neighbours(W, ns, us, rt, lv, a, k, p, j, a, s, s)
  <2>1. Paired(W, ns, us, rt, lv, a, k, p, j, a, s, s)
    BY <1>4 DEF LendRight
  <2>. QED  BY <2>1, NeighboursAre
<1>6. a \in Node /\ s \in Node /\ a # s /\ RowsAt(ns, a) \in Seq(Row) /\ RowsAt(ns, s) \in Seq(Row) /\ Len(RowsAt(ns, s)) >= 1
  <2>1. a \in Node /\ s \in Node /\ a # s /\ Len(RowsAt(ns, s)) \in Nat /\ Len(RowsAt(ns, s)) >= Degree - 1
    BY <1>5 DEF Neighbours
  <2>. QED  BY <1>1, <2>1, NodeRecIs, DegreeAssumption
<1>7. X \in Seq(Row) /\ Y \in Seq(Row)
  BY ONLY <1>2, <1>6, HeadMoves
<1>8. TwoRows(ns2, ns, a, X, s, Y)
  BY ONLY <1>1, <1>3, <1>6, <1>7, SetTwo
<1>9. LeafRight(W, ns, us, rt, lv, a, k, p, j, s, row, X, Y, ns2)
  BY <1>1, <1>2, <1>4, <1>8 DEF LeafRight
<1>10. ReplaceDue(W, ns2, us, rt, lv, p, j, row, k)
  BY ONLY <1>9, LeafRightReplace, Zenon
<1>11. PICK V, e : row = <<e, 0>> /\ GoodReplace(V, ns2, us, rt, lv, p, j, e, TRUE, k) /\ LeafKeys(V) = LeafKeys(W)
  BY <1>10 DEF ReplaceDue
<1>12. ReplaceGood(V, ns2, us, rt, lv, job')
  BY <1>3, <1>11 DEF ReplaceGood
<1>. QED  BY <1>2, <1>3, <1>11, <1>12 DEF Leads, Good

\* Two leaves that are merged.
LEMMA LeavesGood ==
  ASSUME NEW W, NEW ns, NEW us, NEW rt, NEW lv, NEW a, NEW k, LeafShort(W, ns, us, rt, lv, a, k),
         NEW p, NEW j, NEW l, NEW r, NEW s, Paired(W, ns, us, rt, lv, a, k, p, j, l, r, s), (a = l /\ s = r) \/ (a = r /\ s = l),
         ~ Len(RowsAt(ns, s)) > Degree - 1, NEW L, L = RowsAt(ns, l) \o RowsAt(ns, r),
         nodes' = [ns EXCEPT ![l].rows = L, ![r] = Blank], used' = us \ {r}, root' = rt, live' = lv,
         job' = Merge(p, RowsAt(ns, p)[j], TRUE, k)
  PROVE  Leads(nodes', used', root', live', job', LeafKeys(W))
<1>1. LeafAt(ns, a)
  BY DEF LeafShort
<1>2. Neighbours(W, ns, us, rt, lv, a, k, p, j, l, r, s)
  BY NeighboursAre
<1>3. /\ LeafAt(ns, l) /\ KidsAt(ns, l) = << >> /\ KidsAt(ns, r) = << >> /\ LeafAt(ns, l) = LeafAt(ns, a)
      /\ a \in Node /\ ns \in [Node -> NodeRec]
  BY <1>1, <1>2 DEF Neighbours
<1>4. LeafAt(ns, a) = TRUE
  BY <1>1, <1>3, NodeRecIs
<1>5. PICK ns2, row : ns2 = nodes' /\ row = RowsAt(ns, p)[j]
  OBVIOUS
<1>6. Pooling(W, ns, us, rt, lv, a, k, p, j, l, r, s, L, << >>)
  <2>1. << >> = KidsAt(ns, l) \o KidsAt(ns, r)
    BY <1>3
  <2>. QED  BY <1>3, <2>1 DEF Pooling
<1>7. LeavesPooled(W, ns, us, rt, lv, a, k, p, j, l, r, s, L, ns2)
  BY <1>3, <1>5, <1>6 DEF LeavesPooled
<1>8. MergeDue(W, ns2, us \ {r}, rt, lv, p, RowsAt(ns, p)[j], LeafAt(ns, l), k)
  BY ONLY <1>7, LeavesDue, Zenon
<1>9. PICK drop : drop = TRUE
  OBVIOUS
<1>10. MergeDue(W, ns2, us \ {r}, rt, lv, p, row, drop, k)
  BY <1>3, <1>4, <1>5, <1>8, <1>9
<1>11. PICK J, e : /\ row = <<e, 1>> /\ GoodMerge(J, ns2, us \ {r}, rt, lv, p, e, drop, k) /\ LeafKeys(J) = LeafKeys(W)
  BY <1>10 DEF MergeDue, MergesOn
<1>12. job' = Merge(p, row, drop, k) /\ drop \in BOOLEAN
  BY <1>5, <1>9
<1>13. MergeGood(J, ns2, us \ {r}, rt, lv, job')
  BY <1>11, <1>12 DEF MergeGood
<1>. QED  BY <1>5, <1>11, <1>13 DEF Leads, Good

\* LeafMergesLeft keeps the invariant and asks that the separator's copy go.
LEMMA MergesLeftGood ==
  ASSUME NEW W, NEW ns, NEW us, NEW rt, NEW lv, NEW a, NEW k, LeafShort(W, ns, us, rt, lv, a, k), LeafMergesLeft(ns, a, k)
  PROVE  /\ Leads(nodes', used', root', live', job', LeafKeys(W))
         /\ \E p, row : job' = Merge(p, row, TRUE, k)
<1>1. Short(W, ns, us, rt, lv, a, k) /\ us = used /\ rt = root /\ lv = live
  BY DEF LeafShort
<1>2. PICK p, j, s, L : p = ParentAt(ns, a) /\ j = Place(ns, a) - 1 /\ s = LeftOf(ns, a) /\ L = RowsAt(ns, s) \o RowsAt(ns, a)
  OBVIOUS
<1>3. /\ Remedy(ns, a) = "merge left" /\ used' = us \ {a} /\ root' = rt /\ live' = lv
      /\ nodes' = [ns EXCEPT ![s].rows = L, ![a] = Blank] /\ job' = Merge(p, RowsAt(ns, p)[j], TRUE, k)
  BY <1>1, <1>2, Zenon DEF LeafMergesLeft, RowsAt, ParentAt
<1>4. /\ ParentAt(ns, a) # Nil /\ ~ Len(RowsAt(ns, a)) >= Degree - 1
      /\ Place(ns, a) > 1 /\ ~ Len(RowsAt(ns, LeftOf(ns, a))) > Degree - 1
  BY <1>3, RemedyIs
<1>5. Paired(W, ns, us, rt, lv, a, k, p, j, s, a, s)
  BY <1>1, <1>2, <1>4, PairedIs
<1>6. Leads(nodes', used', root', live', job', LeafKeys(W))
  BY <1>2, <1>3, <1>4, <1>5, LeavesGood
<1>. QED  BY <1>3, <1>6

\* LeafMergesRight keeps the invariant and asks that the separator's copy go.
LEMMA MergesRightGood ==
  ASSUME NEW W, NEW ns, NEW us, NEW rt, NEW lv, NEW a, NEW k, LeafShort(W, ns, us, rt, lv, a, k), LeafMergesRight(ns, a, k)
  PROVE  /\ Leads(nodes', used', root', live', job', LeafKeys(W))
         /\ \E p, row : job' = Merge(p, row, TRUE, k)
<1>1. Short(W, ns, us, rt, lv, a, k) /\ us = used /\ rt = root /\ lv = live
  BY DEF LeafShort
<1>2. PICK p, j, s, L : p = ParentAt(ns, a) /\ j = Place(ns, a) /\ s = RightOf(ns, a) /\ L = RowsAt(ns, a) \o RowsAt(ns, s)
  OBVIOUS
<1>3. /\ Remedy(ns, a) = "merge right" /\ used' = us \ {s} /\ root' = rt /\ live' = lv
      /\ nodes' = [ns EXCEPT ![a].rows = L, ![s] = Blank] /\ job' = Merge(p, RowsAt(ns, p)[j], TRUE, k)
  BY <1>1, <1>2, Zenon DEF LeafMergesRight, RowsAt, ParentAt
<1>4. /\ ParentAt(ns, a) # Nil /\ ~ Len(RowsAt(ns, a)) >= Degree - 1 /\ ~ Place(ns, a) > 1
      /\ Place(ns, a) < Len(KidsAt(ns, p)) => ~ Len(RowsAt(ns, s)) > Degree - 1
  BY <1>2, <1>3, RemedyIs
<1>5. Place(ns, a) < Len(KidsAt(ns, p)) /\ Paired(W, ns, us, rt, lv, a, k, p, j, a, s, s)
  BY <1>1, <1>2, <1>4, PairedIs
<1>6. Leads(nodes', used', root', live', job', LeafKeys(W))
  BY <1>2, <1>3, <1>4, <1>5, LeavesGood
<1>. QED  BY <1>3, <1>6

\* A deletion's first step, and what it leaves for its loop.
LEMMA DeleteGood ==
  ASSUME NEW T, Good(T, nodes, used, root, live, job), NEW k \in Key, Delete(k)
  PROVE  /\ k \in LeafKeys(T) /\ Leads(nodes', used', root', live', job', LeafKeys(T) \ {k})
         /\ \/ job' = Idle \/ \E p, row : job' = Merge(p, row, TRUE, k)
            \/ \E p, i, row : job' = Replace(p, i, row, TRUE, k)
<1>1. GoodIdle(T, nodes, used, root, live) /\ Found(k)
  BY GoodKinds DEF IdleGood, Delete
<1>2. PICK ns, us, rt, lv, a, R, i : /\ ns = nodes /\ us = used /\ rt = root /\ lv = live /\ a = LeafFor(k)
                                     /\ i = LowerBound(RowsAt(ns, a), k) + 1 /\ R = RemoveAt(RowsAt(ns, a), i)
  OBVIOUS
<1>3. PICK ns2 : ns2 = [ns EXCEPT ![a].rows = R]
  OBVIOUS
<1>4. \/ LeafStays(ns2, a, k)
      \/ LeafBorrowsLeft(ns2, a, k) \/ LeafBorrowsRight(ns2, a, k)
      \/ LeafMergesLeft(ns2, a, k)  \/ LeafMergesRight(ns2, a, k)
  <2>1. ns2 = [nodes EXCEPT ![LeafFor(k)].rows = RemoveAt(@, LowerBound(@, k) + 1)]
    BY <1>2, <1>3, Zenon DEF RowsAt
  <2>. QED  BY <1>2, <2>1, Zenon DEF Delete
<1>5. Shown(T, nodes, used, root)
  BY <1>1 DEF GoodIdle, Shown
<1>6. a \in us /\ LeafAt(ns, a)
  BY <1>2, <1>5, LeafForIs
<1>7. RowsAt(ns, a) \in Seq(Row) /\ Ascending(RowsAt(ns, a)) /\ Len(RowsAt(ns, a)) \in Nat
  BY <1>2, <1>5, <1>6, RowsInOrder
<1>8. i \in 1 .. Len(RowsAt(ns, a)) /\ RowsAt(ns, a)[i][1] = k
  <2>1. PICK rows : rows = RowsAt(ns, a)
    OBVIOUS
  <2>2. HasKey(rows, k)
    BY <1>1, <1>2, <2>1, Zenon DEF Found, RowsAt
  <2>3. LowerBound(rows, k) < Len(rows) /\ rows[LowerBound(rows, k) + 1][1] = k
    BY <2>2 DEF HasKey
  <2>4. LowerBound(rows, k) \in 0 .. Len(rows)
    BY <1>7, <2>1, Bisection
  <2>. QED  BY <1>2, <1>7, <2>1, <2>3, <2>4
<1>9. ns \in [Node -> NodeRec] /\ a \in Node /\ R \in Seq(Row)
  BY <1>1, <1>2, <1>6, <1>7, <1>8, KeysRemoveAt DEF GoodIdle, View, Shaped
<1>10. Rewritten(ns2, ns, a, R)
  BY ONLY <1>3, <1>9, SetRows
<1>11. Taking(T, ns, us, rt, lv, a, k, i, R, ns2)
  BY <1>1, <1>2, <1>6, <1>8, <1>10 DEF Taking
<1>12. Taken(T, ns2, us, rt, lv, a, k)
  BY ONLY <1>11, TakeShort, Zenon
<1>13. PICK W : /\ Short(W, ns2, us, rt, lv, a, k) /\ k \in LeafKeys(T) /\ LeafKeys(W) = LeafKeys(T) \ {k}
  BY <1>12 DEF Taken
<1>14. LeafShort(W, ns2, us, rt, lv, a, k)
  <2>1. LeafAt(ns2, a) /\ ns2 \in [Node -> NodeRec]
    BY <1>6, <1>9, <1>10 DEF Rewritten
  <2>. QED  BY <1>2, <1>13, <2>1 DEF LeafShort
<1>15. Leads(nodes', used', root', live', job', LeafKeys(W))
  BY <1>4, <1>14, LeafStaysGood, LeafLeftGood, LeafRightGood, MergesLeftGood, MergesRightGood
<1>16. \/ job' = Idle \/ \E p, row : job' = Merge(p, row, TRUE, k)
       \/ \E p, q, row : job' = Replace(p, q, row, TRUE, k)
  BY <1>4, <1>14, LeafStaysGood, LeafLeftGood, LeafRightGood, MergesLeftGood, MergesRightGood
<1>. QED  BY <1>13, <1>15, <1>16

(* The steps of the loop of a merge.                                        *)
\* A row and a child have left the node a, and W says what the tree is then.
NodeShort(W, ns, us, rt, left, a, v) ==
  /\ Short(W, ns, us, rt, left, a, v) /\ ~ LeafAt(ns, a) /\ us = used /\ rt = root /\ job.victim = v
  /\ ns \in [Node -> NodeRec]

\* StopHere keeps the invariant and ends the loop.
LEMMA StopGood ==
  ASSUME NEW W, NEW ns, NEW us, NEW rt, NEW left, NEW a, NEW v, NodeShort(W, ns, us, rt, left, a, v), StopHere(ns, a, left)
  PROVE  Leads(nodes', used', root', live', job', LeafKeys(W)) /\ job' = Idle
<1>1. Short(W, ns, us, rt, left, a, v) /\ us = used /\ rt = root /\ job.victim = v /\ ns \in [Node -> NodeRec]
  BY DEF NodeShort
<1>2. /\ Remedy(ns, a) = "none" /\ nodes' = ns /\ live' = left \ {<<v, 0>>} /\ job' = Idle /\ used' = us /\ root' = rt
      /\ ParentAt(ns, a) = Nil => RowsAt(ns, a) # << >>
  BY <1>1, OriginalIs DEF StopHere, Return, ParentAt, RowsAt
<1>3. ParentAt(ns, a) = Nil \/ Len(RowsAt(ns, a)) >= Degree - 1
  BY <1>2, RemedyIs
<1>4. a \in Node
  BY <1>1 DEF Short, View
<1>5. RowsAt(ns, a) \in Seq(Row)
  BY <1>1, <1>4, NodeRecIs
<1>6. ParentAt(ns, a) = Nil => Len(RowsAt(ns, a)) >= 1
  BY <1>2, <1>5
<1>7. GoodIdle(W, ns, us, rt, left \ {<<v, 0>>})
  BY <1>1, <1>3, <1>6, ShortIdle
<1>. QED  BY <1>2, <1>7 DEF Leads, Good, IdleGood

\* ShrinkRoot keeps the invariant and ends the loop.
LEMMA ShrinkGood ==
  ASSUME NEW W, NEW ns, NEW us, NEW rt, NEW left, NEW a, NEW v, NodeShort(W, ns, us, rt, left, a, v), ShrinkRoot(ns, a, left)
  PROVE  Leads(nodes', used', root', live', job', LeafKeys(W)) /\ job' = Idle
<1>1. Short(W, ns, us, rt, left, a, v) /\ ~ LeafAt(ns, a) /\ us = used /\ rt = root /\ job.victim = v /\ ns \in [Node -> NodeRec]
  BY DEF NodeShort
<1>2. PICK c, ns2 : c = KidsAt(ns, a)[1] /\ ns2 = nodes'
  OBVIOUS
<1>3. /\ ParentAt(ns, a) = Nil /\ RowsAt(ns, a) = << >> /\ used' = us \ {a} /\ root' = c
      /\ ns2 = [ns EXCEPT ![c].parent = Nil, ![a] = Blank] /\ live' = left \ {<<v, 0>>} /\ job' = Idle
  BY <1>1, <1>2, OriginalIs, Zenon DEF ShrinkRoot, Return, ParentAt, RowsAt, KidsAt
<1>4. a \in Node /\ a \in us /\ View(W, ns, us, rt, Nil) /\ Nil \notin Nodes(W) /\ us \subseteq Node
  BY <1>1 DEF Short, View
<1>5. c \in Node /\ c # a
  <2>1. /\ Tree(W) /\ a \in Nodes(W) /\ Lev(W, a) # 0 /\ Kids(W, a) = KidsAt(ns, a) /\ Nodes(W) = us /\ Keys(W, a) = KeysAt(ns, a)
    BY <1>1, <1>4, ViewFacts
  <2>2. Len(KidsAt(ns, a)) = Len(RowsAt(ns, a)) + 1
    BY <1>1, <1>4, ShapedFacts DEF View
  <2>3. 1 \in 1 .. Len(Kids(W, a))
    BY <1>3, <2>1, <2>2
  <2>4. c \in Nodes(W) /\ Lev(W, c) + 1 = Lev(W, a) /\ Lev(W, c) \in Nat
    BY <1>2, <2>1, <2>3, KidFacts, NodeFacts
  <2>. QED  BY <1>4, <2>1, <2>4
<1>7. Shrunk(ns2, ns, a, c)
  BY ONLY <1>1, <1>3, <1>4, <1>5, SetShrunk
<1>8. Shrinks(W, ns, us, rt, left, a, v, c, ns2)
  BY <1>1, <1>2, <1>3, <1>7 DEF Shrinks, Shrunk
<1>9. Kept(W, ns2, us \ {a}, c, left \ {<<v, 0>>})
  BY ONLY <1>8, ShrinkIdle, Zenon
<1>. QED  BY <1>2, <1>3, <1>9 DEF Kept, Leads, Good, IdleGood

\* BorrowLeft keeps the invariant and ends the loop.
LEMMA BorrowLeftGood ==
  ASSUME NEW W, NEW ns, NEW us, NEW rt, NEW left, NEW a, NEW v, NodeShort(W, ns, us, rt, left, a, v), BorrowLeft(ns, a, left)
  PROVE  Leads(nodes', used', root', live', job', LeafKeys(W)) /\ job' = Idle
<1>1. Short(W, ns, us, rt, left, a, v) /\ ~ LeafAt(ns, a) /\ us = used /\ rt = root /\ job.victim = v /\ ns \in [Node -> NodeRec]
  BY DEF NodeShort
<1>2. PICK p, j, s, y, c, ns2 : /\ p = ParentAt(ns, a) /\ j = Place(ns, a) - 1 /\ s = LeftOf(ns, a)
                                /\ y = Last(RowsAt(ns, s)) /\ c = Last(KidsAt(ns, s)) /\ ns2 = nodes'
  OBVIOUS
<1>3. PICK X, C, U, V : /\ X = <<RowsAt(ns, p)[j]>> \o RowsAt(ns, a) /\ U = Front(RowsAt(ns, s))
                        /\ C = <<c>> \o KidsAt(ns, a) /\ V = Front(KidsAt(ns, s))
  OBVIOUS
<1>4. /\ Remedy(ns, a) = "borrow left" /\ used' = us /\ root' = rt /\ live' = left \ {<<v, 0>>} /\ job' = Idle
      /\ ns2 = Adopt(BorrowIn(ns, a, X, C, p, j, y, s, U, V), <<c>>, a)
  BY <1>1, <1>2, <1>3, OriginalIs, Zenon DEF BorrowLeft, Return, RowsAt, KidsAt, ParentAt, BorrowIn
<1>5. LendLeft(W, ns, us, rt, left, a, v, p, j, s)
  <2>1. /\ ParentAt(ns, a) # Nil /\ ~ Len(RowsAt(ns, a)) >= Degree - 1
        /\ Place(ns, a) > 1 /\ Len(RowsAt(ns, LeftOf(ns, a))) > Degree - 1
    BY <1>4, RemedyIs
  <2>2. Paired(W, ns, us, rt, left, a, v, p, Place(ns, a) - 1, LeftOf(ns, a), a, LeftOf(ns, a))
    BY <1>1, <1>2, <2>1, PairedIs
  <2>. QED  BY <1>2, <2>1, <2>2 DEF LendLeft
<1>6. InnerLeft(W, ns, us, rt, left, a, v, p, j, s, y, X, c, C, U, V, ns2)
  BY <1>1, <1>2, <1>3, <1>4, <1>5 DEF InnerLeft
<1>7. Settled(W, ns2, us, rt, left, v)
  BY ONLY <1>6, InnerLeftIdle, Zenon
<1>. QED  BY <1>2, <1>4, <1>7 DEF Settled, Leads, Good, IdleGood

\* BorrowRight keeps the invariant and ends the loop.
LEMMA BorrowRightGood ==
  ASSUME NEW W, NEW ns, NEW us, NEW rt, NEW left, NEW a, NEW v, NodeShort(W, ns, us, rt, left, a, v), BorrowRight(ns, a, left)
  PROVE  Leads(nodes', used', root', live', job', LeafKeys(W)) /\ job' = Idle
<1>1. Short(W, ns, us, rt, left, a, v) /\ ~ LeafAt(ns, a) /\ us = used /\ rt = root /\ job.victim = v /\ ns \in [Node -> NodeRec]
  BY DEF NodeShort
<1>2. PICK p, j, s, y, c, ns2 : /\ p = ParentAt(ns, a) /\ j = Place(ns, a) /\ s = RightOf(ns, a)
                                /\ y = Head(RowsAt(ns, s)) /\ c = Head(KidsAt(ns, s)) /\ ns2 = nodes'
  OBVIOUS
<1>3. PICK X, C, U, V : /\ X = Append(RowsAt(ns, a), RowsAt(ns, p)[j]) /\ U = Tail(RowsAt(ns, s))
                        /\ C = Append(KidsAt(ns, a), c) /\ V = Tail(KidsAt(ns, s))
  OBVIOUS
<1>4. /\ Remedy(ns, a) = "borrow right" /\ used' = us /\ root' = rt /\ live' = left \ {<<v, 0>>} /\ job' = Idle
      /\ ns2 = Adopt(BorrowIn(ns, a, X, C, p, j, y, s, U, V), <<c>>, a)
  BY <1>1, <1>2, <1>3, OriginalIs, Zenon DEF BorrowRight, Return, RowsAt, KidsAt, ParentAt, BorrowIn
<1>5. LendRight(W, ns, us, rt, left, a, v, p, j, s)
  <2>1. /\ ParentAt(ns, a) # Nil /\ ~ Len(RowsAt(ns, a)) >= Degree - 1
        /\ Place(ns, a) < Len(KidsAt(ns, ParentAt(ns, a))) /\ Len(RowsAt(ns, RightOf(ns, a))) > Degree - 1
    BY <1>4, RemedyIs
  <2>2. Paired(W, ns, us, rt, left, a, v, p, Place(ns, a), a, RightOf(ns, a), RightOf(ns, a))
    BY <1>1, <1>2, <2>1, PairedIs
  <2>. QED  BY <1>2, <2>1, <2>2 DEF LendRight
<1>6. InnerRight(W, ns, us, rt, left, a, v, p, j, s, y, X, c, C, U, V, ns2)
  BY <1>1, <1>2, <1>3, <1>4, <1>5 DEF InnerRight
<1>7. Settled(W, ns2, us, rt, left, v)
  BY ONLY <1>6, InnerRightIdle, Zenon
<1>. QED  BY <1>2, <1>4, <1>7 DEF Settled, Leads, Good, IdleGood

\* Two nodes that are merged.
LEMMA NodesGood ==
  ASSUME NEW W, NEW ns, NEW us, NEW rt, NEW left, NEW a, NEW v, NodeShort(W, ns, us, rt, left, a, v),
         NEW p, NEW j, NEW l, NEW r, NEW s, Paired(W, ns, us, rt, left, a, v, p, j, l, r, s), (a = l /\ s = r) \/ (a = r /\ s = l),
         ~ Len(RowsAt(ns, s)) > Degree - 1, Joined(ns, l, r, j), root' = rt, live' = left
  PROVE  /\ Leads(nodes', used', root', live', job', LeafKeys(W))
         /\ \E q, row : job' = Merge(q, row, FALSE, v)
<1>1. ~ LeafAt(ns, a) /\ us = used /\ rt = root /\ job.victim = v
  BY DEF NodeShort
<1>2. Neighbours(W, ns, us, rt, left, a, v, p, j, l, r, s)
  BY NeighboursAre
<1>3. /\ ~ LeafAt(ns, l) /\ LeafAt(ns, l) = LeafAt(ns, a) /\ a \in Node /\ ns \in [Node -> NodeRec] /\ ParentAt(ns, l) = p
  BY <1>1, <1>2 DEF Neighbours, BesideInNodes
<1>4. LeafAt(ns, a) = FALSE
  BY <1>1, <1>3, NodeRecIs
<1>5. PICK ns2, row, L, C : /\ ns2 = nodes' /\ row = RowsAt(ns, p)[j] /\ C = KidsAt(ns, l) \o KidsAt(ns, r)
                            /\ L = Append(RowsAt(ns, l), RowsAt(ns, p)[j]) \o RowsAt(ns, r)
  OBVIOUS
<1>6. /\ ns2 = Adopt([ns EXCEPT ![l].rows = L, ![l].child = C, ![r] = Blank], KidsAt(ns, r), l)
      /\ used' = us \ {r} /\ job' = Merge(p, row, FALSE, v)
  BY <1>1, <1>3, <1>5, Zenon DEF Joined, RowsAt, KidsAt, ParentAt
<1>7. Pooling(W, ns, us, rt, left, a, v, p, j, l, r, s, L, C)
  BY <1>3, <1>5 DEF Pooling
<1>8. NodesPooled(W, ns, us, rt, left, a, v, p, j, l, r, s, L, C, ns2)
  BY <1>6, <1>7 DEF NodesPooled
<1>9. MergeDue(W, ns2, us \ {r}, rt, left, p, RowsAt(ns, p)[j], LeafAt(ns, l), v)
  BY ONLY <1>8, NodesDue, Zenon
<1>10. PICK drop : drop = FALSE
  OBVIOUS
<1>11. MergeDue(W, ns2, us \ {r}, rt, left, p, row, drop, v)
  BY <1>3, <1>4, <1>5, <1>9, <1>10
<1>12. PICK J, e : /\ row = <<e, 1>> /\ GoodMerge(J, ns2, us \ {r}, rt, left, p, e, drop, v) /\ LeafKeys(J) = LeafKeys(W)
  BY <1>11 DEF MergeDue, MergesOn
<1>13. job' = Merge(p, row, drop, v) /\ drop \in BOOLEAN
  BY <1>6, <1>10
<1>14. MergeGood(J, ns2, us \ {r}, rt, left, job')
  BY <1>12, <1>13 DEF MergeGood
<1>. QED  BY <1>1, <1>5, <1>6, <1>12, <1>14 DEF Leads, Good

\* MergeLeft keeps the invariant; the loop goes on, with no copy to be deleted.
LEMMA MergeLeftGood ==
  ASSUME NEW W, NEW ns, NEW us, NEW rt, NEW left, NEW a, NEW v, NodeShort(W, ns, us, rt, left, a, v), MergeLeft(ns, a, left)
  PROVE  /\ Leads(nodes', used', root', live', job', LeafKeys(W))
         /\ \E q, row : job' = Merge(q, row, FALSE, v)
<1>1. Short(W, ns, us, rt, left, a, v) /\ us = used /\ rt = root
  BY DEF NodeShort
<1>2. PICK p, j, s : p = ParentAt(ns, a) /\ j = Place(ns, a) - 1 /\ s = LeftOf(ns, a)
  OBVIOUS
<1>3. /\ Remedy(ns, a) = "merge left" /\ root' = rt /\ live' = left /\ Joined(ns, s, a, j)
  BY <1>1, <1>2 DEF MergeLeft
<1>4. /\ ParentAt(ns, a) # Nil /\ ~ Len(RowsAt(ns, a)) >= Degree - 1
      /\ Place(ns, a) > 1 /\ ~ Len(RowsAt(ns, LeftOf(ns, a))) > Degree - 1
  BY <1>3, RemedyIs
<1>5. Paired(W, ns, us, rt, left, a, v, p, j, s, a, s)
  BY <1>1, <1>2, <1>4, PairedIs
<1>. QED  BY <1>2, <1>3, <1>4, <1>5, NodesGood

\* MergeRight keeps the invariant; the loop goes on, with no copy to be deleted.
LEMMA MergeRightGood ==
  ASSUME NEW W, NEW ns, NEW us, NEW rt, NEW left, NEW a, NEW v, NodeShort(W, ns, us, rt, left, a, v), MergeRight(ns, a, left)
  PROVE  /\ Leads(nodes', used', root', live', job', LeafKeys(W))
         /\ \E q, row : job' = Merge(q, row, FALSE, v)
<1>1. Short(W, ns, us, rt, left, a, v) /\ us = used /\ rt = root
  BY DEF NodeShort
<1>2. PICK p, j, s : p = ParentAt(ns, a) /\ j = Place(ns, a) /\ s = RightOf(ns, a)
  OBVIOUS
<1>3. /\ Remedy(ns, a) = "merge right" /\ root' = rt /\ live' = left /\ Joined(ns, a, s, j)
  BY <1>1, <1>2 DEF MergeRight
<1>4. /\ ParentAt(ns, a) # Nil /\ ~ Len(RowsAt(ns, a)) >= Degree - 1 /\ ~ Place(ns, a) > 1
      /\ Place(ns, a) < Len(KidsAt(ns, p)) => ~ Len(RowsAt(ns, s)) > Degree - 1
  BY <1>2, <1>3, RemedyIs
<1>5. Place(ns, a) < Len(KidsAt(ns, p)) /\ Paired(W, ns, us, rt, left, a, v, p, j, a, s, s)
  BY <1>1, <1>2, <1>4, PairedIs
<1>. QED  BY <1>2, <1>3, <1>4, <1>5, NodesGood

\* What a step does to the records: it may delete that of the victim.
Fewer(A, B) == A = B \/ \E v : A = B \ {<<v, 0>>}

\* A round of the loop of a merge keeps the invariant and the stored keys, and
\* deletes at most the copy it was asked to and the record of the deleted key.
LEMMA MergeStepGood ==
  ASSUME NEW T, Good(T, nodes, used, root, live, job), MergeStep
  PROVE  /\ Leads(nodes', used', root', live', job', LeafKeys(T))
         /\ job' = Idle \/ \E q, row, v : job' = Merge(q, row, FALSE, v)
         /\ job.drop => \E e : <<e, 1>> \in live /\ Fewer(live', live \ {<<e, 1>>})
         /\ ~ job.drop => Fewer(live', live)
<1>1. PICK ns, us, rt, lv, jb : ns = nodes /\ us = used /\ rt = root /\ lv = live /\ jb = job
  OBVIOUS
<1>2. MergeGood(T, ns, us, rt, lv, jb)
  BY <1>1, GoodKinds DEF MergeStep
<1>3. PICK p, k, v, drop : /\ drop \in BOOLEAN /\ jb = Merge(p, <<k, 1>>, drop, v)
                           /\ GoodMerge(T, ns, us, rt, lv, p, k, drop, v)
  BY <1>2 DEF MergeGood
<1>4. PICK row : row = <<k, 1>>
  OBVIOUS
<1>5. job.at = p /\ job.row = row /\ job.drop = drop /\ job.victim = v
  BY <1>1, <1>3, <1>4, MergeIs
<1>6. row[1] = k
  BY <1>4
<1>7. PICK i, R, C, left, ns2 : /\ i = LowerBound(RowsAt(ns, p), k) /\ R = RemoveAt(RowsAt(ns, p), i + 1)
                                /\ C = RemoveAt(KidsAt(ns, p), i + 2) /\ left = (IF drop THEN lv \ {<<k, 1>>} ELSE lv)
                                /\ ns2 = [ns EXCEPT ![p].rows = R, ![p].child = C]
  OBVIOUS
<1>8. p \in Node /\ ns \in [Node -> NodeRec] /\ p \in us
  BY <1>3 DEF GoodMerge, View, Shaped
<1>9. PICK j \in 1 .. Len(RowsAt(ns, p)) :
        /\ i = j - 1 /\ RowsAt(ns, p)[j] = <<k, 1>>
        /\ KidsAt(ns, p) \in Seq(Node) /\ j + 1 \in 1 .. Len(KidsAt(ns, p))
  <2>1. LeavingAt(T, ns, us, p, k, i)
    BY <1>3, <1>7, MergePlace
  <2>. QED  BY <2>1 DEF LeavingAt
<1>10. R \in Seq(Row) /\ C \in Seq(Node)
  <2>1. RowsAt(ns, p) \in Seq(Row)
    BY <1>8, NodeRecIs
  <2>2. PICK m : m = j + 1
    OBVIOUS
  <2>3. i + 1 = j /\ i + 2 = m /\ m \in 1 .. Len(KidsAt(ns, p))
    BY <1>9, <2>2
  <2>4. R = RemoveAt(RowsAt(ns, p), j) /\ C = RemoveAt(KidsAt(ns, p), m)
    BY <1>7, <2>3
  <2>5. RemoveAt(RowsAt(ns, p), j) \in Seq(Row)
    BY <2>1, RemoveAtInserted
  <2>6. RemoveAt(KidsAt(ns, p), m) \in Seq(Node)
    BY <1>9, <2>3, RemoveAtInserted
  <2>. QED  BY <2>4, <2>5, <2>6
<1>11. Refilled(ns2, ns, p, R, C)
  BY ONLY <1>7, <1>8, <1>10, SetBoth
<1>12. Leaving(T, ns, us, rt, lv, p, k, drop, v, i, R, C, left, ns2)
  BY <1>3, <1>7, <1>11 DEF Leaving
<1>13. Short(T, ns2, us, rt, left, p, v) /\ ~ LeafAt(ns2, p) /\ (drop => <<k, 1>> \in lv)
  BY ONLY <1>12, MergeShort, Zenon
<1>14. NodeShort(T, ns2, us, rt, left, p, v)
  BY <1>1, <1>5, <1>11, <1>13 DEF NodeShort, Refilled
<1>15. \/ StopHere(ns2, p, left)   \/ ShrinkRoot(ns2, p, left)
       \/ BorrowLeft(ns2, p, left) \/ BorrowRight(ns2, p, left)
       \/ MergeLeft(ns2, p, left)  \/ MergeRight(ns2, p, left)
  <2>1. i = LowerBound(nodes[job.at].rows, job.row[1])
    BY <1>1, <1>5, <1>6, <1>7 DEF RowsAt
  <2>2. left = IF job.drop THEN live \ {nodes[job.at].rows[i + 1]} ELSE live
    <3>1. i + 1 = j
      BY <1>9
    <3>2. nodes[job.at].rows[i + 1] = <<k, 1>>
      BY <1>1, <1>5, <1>9, <3>1 DEF RowsAt
    <3>. QED  BY <1>1, <1>5, <1>7, <3>2
  <2>3. ns2 = [nodes EXCEPT ![job.at].rows = RemoveAt(@, i + 1), ![job.at].child = RemoveAt(@, i + 2)]
    BY <1>1, <1>5, <1>7, Zenon DEF RowsAt, KidsAt
  <2>. QED  BY <1>5, <2>1, <2>2, <2>3, Zenon DEF MergeStep
<1>16. Leads(nodes', used', root', live', job', LeafKeys(T))
  BY <1>14, <1>15, StopGood, ShrinkGood, BorrowLeftGood, BorrowRightGood, MergeLeftGood, MergeRightGood
<1>17. job' = Idle \/ \E q, w, x : job' = Merge(q, w, FALSE, x)
  BY <1>14, <1>15, StopGood, ShrinkGood, BorrowLeftGood, BorrowRightGood, MergeLeftGood, MergeRightGood
<1>18. Fewer(live', left)
  BY <1>15, OriginalIs, Zenon DEF StopHere, ShrinkRoot, BorrowLeft, BorrowRight, MergeLeft, MergeRight, Return, Fewer
<1>19. job.drop => <<k, 1>> \in live /\ Fewer(live', live \ {<<k, 1>>})
  BY <1>1, <1>5, <1>7, <1>13, <1>18
<1>20. ~ job.drop => Fewer(live', live)
  BY <1>1, <1>5, <1>7, <1>18
<1>. QED  BY <1>16, <1>17, <1>19, <1>20

(* The steps after a borrowing of leaves: the handlers.                     *)
\* What they find.
ReplaceFound(T, ns, us, rt, lv, p, i, k, drop, v) ==
  /\ GoodReplace(T, ns, us, rt, lv, p, i, k, drop, v) /\ drop \in BOOLEAN
  /\ ns = nodes /\ us = used /\ rt = root /\ lv = live /\ job = Replace(p, i, <<k, 0>>, drop, v)
  /\ job.at = p /\ job.i = i /\ job.row = <<k, 0>> /\ job.drop = drop /\ job.victim = v

\* What the handlers find.
LEMMA ReplaceFacts ==
  ASSUME NEW T, Good(T, nodes, used, root, live, job), job.kind = "replace"
  PROVE  \E ns, us, rt, lv, p, i, k, drop, v : ReplaceFound(T, ns, us, rt, lv, p, i, k, drop, v)
<1>1. PICK ns, us, rt, lv, jb : ns = nodes /\ us = used /\ rt = root /\ lv = live /\ jb = job
  OBVIOUS
<1>2. ReplaceGood(T, ns, us, rt, lv, jb)
  BY <1>1, GoodKinds
<1>3. PICK p, i, k, v, drop : /\ drop \in BOOLEAN /\ jb = Replace(p, i, <<k, 0>>, drop, v)
                              /\ GoodReplace(T, ns, us, rt, lv, p, i, k, drop, v)
  BY <1>2 DEF ReplaceGood
<1>4. PICK row : row = <<k, 0>>
  OBVIOUS
<1>5. jb.at = p /\ jb.i = i /\ jb.row = row /\ jb.drop = drop /\ jb.victim = v
  BY <1>3, <1>4, ReplaceIs
<1>. QED  BY <1>1, <1>3, <1>4, <1>5 DEF ReplaceFound

\* delete_handler on the old separator keeps the invariant.
LEMMA DropGood ==
  ASSUME NEW T, Good(T, nodes, used, root, live, job), DropSeparator
  PROVE  /\ Leads(nodes', used', root', live', job', LeafKeys(T))
         /\ \E p, i, row, v : job' = Replace(p, i, row, FALSE, v)
         /\ \E e : <<e, 1>> \in live /\ live' = live \ {<<e, 1>>}
<1>1. PICK ns, us, rt, lv, p, i, k, drop, v : ReplaceFound(T, ns, us, rt, lv, p, i, k, drop, v)
  BY ReplaceFacts DEF DropSeparator
<1>2. /\ GoodReplace(T, ns, us, rt, lv, p, i, k, drop, v) /\ drop \in BOOLEAN
      /\ ns = nodes /\ us = used /\ rt = root /\ lv = live
      /\ job.at = p /\ job.i = i /\ job.drop = drop
  BY <1>1 DEF ReplaceFound
<1>3. PICK old, now, row, jb : old = RowsAt(ns, p)[i] /\ now = FALSE /\ row = <<k, 0>> /\ jb = job
  OBVIOUS
<1>4. drop = TRUE /\ live' = lv \ {old} /\ nodes' = ns /\ used' = us /\ root' = rt /\ job' = [jb EXCEPT !.drop = now]
  BY <1>2, <1>3 DEF DropSeparator, RowsAt
<1>5. GoodReplace(T, ns, us, rt, lv \ {old}, p, i, k, now, v) /\ old \in lv /\ old \in Copied
  BY ONLY <1>2, <1>3, <1>4, DropKept, Zenon
<1>6. jb = Replace(p, i, row, drop, v)
  BY <1>1, <1>3 DEF ReplaceFound
<1>7. job' = Replace(p, i, row, now, v)
  <2>1. [jb EXCEPT !.drop = now] = Replace(p, i, row, now, v)
    BY ONLY <1>6, SMT DEF Replace
  <2>. QED  BY <1>4, <2>1
<1>8. ReplaceGood(T, ns, us, rt, lv \ {old}, job')
  BY <1>3, <1>5, <1>7 DEF ReplaceGood
<1>9. \E e : old = <<e, 1>>
  BY <1>5 DEF Copied
<1>10. Leads(nodes', used', root', live', job', LeafKeys(T))
  BY <1>4, <1>8 DEF Leads, Good
<1>11. \E e : <<e, 1>> \in live /\ live' = live \ {<<e, 1>>}
  BY <1>2, <1>4, <1>5, <1>9
<1>. QED  BY <1>3, <1>7, <1>10, <1>11, Zenon

\* insert_handler on the new separator keeps the invariant and ends the call.
LEMMA CopyGood ==
  ASSUME NEW T, Good(T, nodes, used, root, live, job), CopySeparator
  PROVE  /\ Leads(nodes', used', root', live', job', LeafKeys(T)) /\ job' = Idle
         /\ \E e : <<e, 1>> \notin live /\ Fewer(live', live \cup {<<e, 1>>})
<1>1. PICK ns, us, rt, lv, p, i, k, drop, v : ReplaceFound(T, ns, us, rt, lv, p, i, k, drop, v)
  BY ReplaceFacts DEF CopySeparator
<1>2. /\ GoodReplace(T, ns, us, rt, lv, p, i, k, drop, v) /\ drop \in BOOLEAN
      /\ ns = nodes /\ us = used /\ rt = root /\ lv = live
      /\ job.at = p /\ job.i = i /\ job.row = <<k, 0>> /\ job.drop = drop /\ job.victim = v
  BY <1>1 DEF ReplaceFound
<1>3. drop = FALSE
  BY <1>2 DEF CopySeparator
<1>4. /\ p \in Node /\ ns \in [Node -> NodeRec] /\ RowsAt(ns, p) \in Seq(Copied) /\ i \in 1 .. Len(RowsAt(ns, p)) /\ k \in Key
      /\ lv = Recs(LeafKeys(T) \cup {v}, InnerKeys(T) \ {k})
  <2>1. View(T, ns, us, rt, p) /\ p \in us /\ ~ LeafAt(ns, p) /\ i \in 1 .. Len(RowsAt(ns, p)) /\ k \in Key
    BY <1>2 DEF GoodReplace
  <2>2. p \in Node /\ Shaped(ns, us)
    BY <2>1, ViewFacts
  <2>3. RowsAt(ns, p) \in Seq(Copied)
    BY <2>1, <2>2, ShapedFacts
  <2>. QED  BY <1>2, <1>3, <2>1, <2>2, <2>3 DEF Shaped, GoodReplace
<1>5. <<k, 1>> \notin lv
  BY <1>4 DEF Recs
<1>6. PICK row, copy, ns2 : row = <<k, 0>> /\ copy = <<k, 1>> /\ ns2 = nodes'
  OBVIOUS
<1>7. CopyOf(row, lv) = copy
  BY <1>5, <1>6, CopyIs
<1>8. /\ ns2 = [ns EXCEPT ![p].rows[i] = copy] /\ job' = Idle /\ used' = us /\ root' = rt
      /\ live' = (lv \cup {copy}) \ {<<v, 0>>}
  BY <1>2, <1>6, <1>7, OriginalIs DEF CopySeparator, Return
<1>9. copy \in Copied /\ Copied \subseteq Row
  BY <1>4, <1>6, TaggedRows DEF Copied
<1>10. \E P \in Seq(Copied) : Rewritten(ns2, ns, p, P) /\ Swapped(P, RowsAt(ns, p), i, copy) /\ Len(P) = Len(RowsAt(ns, p))
  <2>1. SettingRow(ns, p, i, copy, ns2)
    BY <1>4, <1>8, <1>9 DEF SettingRow
  <2>. QED  BY ONLY <2>1, SetRow
<1>11. PICK P \in Seq(Copied) : Rewritten(ns2, ns, p, P) /\ Swapped(P, RowsAt(ns, p), i, copy)
  BY <1>10
<1>12. Copying(T, ns, us, rt, lv, p, i, k, drop, v, P, ns2)
  BY <1>2, <1>3, <1>6, <1>11 DEF Copying
<1>13. GoodIdle(T, ns2, us, rt, (lv \cup {<<k, 1>>}) \ {<<v, 0>>})
  BY ONLY <1>12, CopyKept, Zenon
<1>14. Fewer(live', live \cup {<<k, 1>>})
  BY <1>2, <1>6, <1>8 DEF Fewer
<1>. QED  BY <1>2, <1>5, <1>6, <1>8, <1>13, <1>14 DEF Leads, Good, IdleGood

\* A round of the loop of a split keeps the invariant and the stored keys, and
\* makes at most one copy, which was not there.
LEMMA SplitStepGood ==
  ASSUME NEW T, Good(T, nodes, used, root, live, job), SplitStep
  PROVE  /\ Leads(nodes', used', root', live', job', LeafKeys(T))
         /\ job' = Idle \/ \E a, b, row : job' = Split(a, b, row, FALSE)
         /\ \E e : live' = live \cup {<<e, 1>>} /\ (job.copy => <<e, 1>> \notin live) /\ (~ job.copy => <<e, 1>> \in live)
<1>1. job.kind = "split" /\ live' = live \cup {Separator} /\ (GrowRoot \/ InsertInParent \/ SplitParent)
  BY DEF SplitStep
<1>2. PICK ns, us, rt, lv, at, right, k, copy : SplitFound(T, ns, us, rt, lv, at, right, k, copy)
  BY <1>1, SplitFacts
<1>3. Separator = <<k, 1>> /\ (job.copy => <<k, 1>> \notin live) /\ (~ job.copy => <<k, 1>> \in live)
  BY <1>2 DEF SplitFound
<1>4. CASE GrowRoot
  BY <1>1, <1>2, <1>3, <1>4, GrowGood
<1>5. CASE InsertInParent
  BY <1>1, <1>2, <1>3, <1>5, JoinGood
<1>6. CASE SplitParent
  BY <1>1, <1>2, <1>3, <1>6, AgainGood
<1>. QED  BY <1>1, <1>4, <1>5, <1>6

(* The invariant is kept.                                                   *)

\* A step that leads to the picture of some tree ends in a state of the invariant.
LEMMA LeadsOn ==
  ASSUME NEW A, Leads(nodes', used', root', live', job', A)
  PROVE  IInv'
BY DEF Leads, IInv

\* Every step keeps the invariant.
LEMMA NextGood ==
  ASSUME IInv, [Next]_vars
  PROVE  IInv'
<1>1. PICK T : Good(T, nodes, used, root, live, job)
  BY DEF IInv
<1>2. CASE \E k \in Key : Insert(k)
  BY <1>1, <1>2, InsertGood, LeadsOn
<1>3. CASE \E k \in Key : Delete(k)
  BY <1>1, <1>3, DeleteGood, LeadsOn
<1>4. CASE SplitStep
  BY <1>1, <1>4, SplitStepGood, LeadsOn
<1>5. CASE MergeStep
  BY <1>1, <1>5, MergeStepGood, LeadsOn
<1>6. CASE DropSeparator
  BY <1>1, <1>6, DropGood, LeadsOn
<1>7. CASE CopySeparator
  BY <1>1, <1>7, CopyGood, LeadsOn
<1>8. CASE UNCHANGED vars
  BY <1>1, <1>8 DEF IInv, vars
<1>. QED  BY <1>2, <1>3, <1>4, <1>5, <1>6, <1>7, <1>8 DEF Next

\* In every reachable state, between calls and in the middle of their loops, the
\* nodes are those of a search tree (IInv): of every insertion and deletion of
\* b_tree.c (121-377, 401-714), with each split, borrowing, merge and change of root.
THEOREM SearchTree == Spec => []IInv
<1>1. Init => IInv
  BY InitGood
<1>2. IInv /\ [Next]_vars => IInv'
  BY NextGood
<1>. QED  BY <1>1, <1>2, PTL DEF Spec

(* What the invariant says of every state.                                  *)
\* However far a call has come, the nodes but one are those of a search tree.
Framed(T, p) == View(T, nodes, used, root, p) /\ AllFilled(nodes, used, root, Nil)

\* Some node at most is not as the tree says, and it is filled like the others.
LEMMA GoodFramed ==
  ASSUME NEW T, Good(T, nodes, used, root, live, job)
  PROVE  \E p : Framed(T, p)
<1>1. CASE IdleGood(T, nodes, used, root, live, job)
  BY <1>1 DEF IdleGood, GoodIdle, Framed
<1>2. CASE SplitGood(T, nodes, used, root, live, job)
  BY <1>2 DEF SplitGood, GoodSplit, Framed
<1>3. CASE MergeGood(T, nodes, used, root, live, job)
  BY <1>3 DEF MergeGood, GoodMerge, Framed
<1>4. CASE ReplaceGood(T, nodes, used, root, live, job)
  BY <1>4 DEF ReplaceGood, GoodReplace, Framed
<1>. QED  BY <1>1, <1>2, <1>3, <1>4 DEF Good

\* The invariant says of each node that it keeps its rows.
LEMMA IInvFilled == IInv => Filled
<1>. SUFFICES ASSUME IInv PROVE Filled
  OBVIOUS
<1>1. PICK T, p : Framed(T, p)
  BY GoodFramed DEF IInv
<1>2. AllFilled(nodes, used, root, Nil) /\ used \subseteq Node /\ Shaped(nodes, used)
  BY <1>1 DEF Framed, View
<1>3. ASSUME NEW a \in used PROVE \/ Len(nodes[a].rows) >= Degree - 1
                                  \/ a = root /\ (nodes[a].leaf \/ nodes[a].rows # << >>)
  <2>1. a # Nil /\ a \in Node
    BY <1>2, NilAssumption
  <2>2. \/ Len(RowsAt(nodes, a)) >= Degree - 1
        \/ a = root /\ (LeafAt(nodes, a) \/ Len(RowsAt(nodes, a)) >= 1)
    BY <1>2, <2>1 DEF AllFilled
  <2>3. RowsAt(nodes, a) # << >> \/ ~ Len(RowsAt(nodes, a)) >= 1
    OBVIOUS
  <2>. QED  BY <2>2, <2>3 DEF RowsAt, LeafAt
<1>. QED  BY <1>3 DEF Filled

\* In a search tree the search finds what is stored.
LEMMA IInvSearch == IInv => SearchFinds
<1>. SUFFICES ASSUME IInv, job = Idle, NEW k \in Key PROVE Found(k) <=> k \in Stored
  BY DEF SearchFinds, AtRest
<1>1. PICK T : Good(T, nodes, used, root, live, job)
  BY DEF IInv
<1>2. Shown(T, nodes, used, root)
  BY <1>1, GoodKinds DEF IdleGood, GoodIdle, Shown
<1>. QED  BY <1>2, FoundIs, StoredIs

\* The records.
LEMMA LiveRows ==
  ASSUME NEW T, Good(T, nodes, used, root, live, job)
  PROVE  live \subseteq Row
<1>1. LeafKeys(T) \subseteq Key /\ InnerKeys(T) \subseteq Key
  BY DEF LeafKeys, InnerKeys
<1>2. CASE IdleGood(T, nodes, used, root, live, job)
  BY <1>1, <1>2, RecsAreRows DEF IdleGood, GoodIdle
<1>3. CASE SplitGood(T, nodes, used, root, live, job)
  <2>1. PICK at, right, k, copy : GoodSplit(T, nodes, used, root, live, at, right, k, copy)
    BY <1>3 DEF SplitGood
  <2>2. PICK A, B : A = LeafKeys(T) /\ B = (IF copy THEN InnerKeys(T) \ {k} ELSE InnerKeys(T))
    OBVIOUS
  <2>3. live = Recs(A, B) /\ A \in SUBSET Key /\ B \in SUBSET Key
    BY <1>1, <2>1, <2>2 DEF GoodSplit
  <2>. QED  BY <2>3, RecsAreRows
<1>4. CASE MergeGood(T, nodes, used, root, live, job)
  <2>1. PICK p, k, v, drop : GoodMerge(T, nodes, used, root, live, p, k, drop, v)
    BY <1>4 DEF MergeGood
  <2>2. PICK A, B : A = LeafKeys(T) \cup {v} /\ B = InnerKeys(T) \cup {k}
    OBVIOUS
  <2>3. live = Recs(A, B) /\ A \in SUBSET Key /\ B \in SUBSET Key
    BY <1>1, <2>1, <2>2 DEF GoodMerge
  <2>. QED  BY <2>3, RecsAreRows
<1>5. CASE ReplaceGood(T, nodes, used, root, live, job)
  <2>1. PICK p, i, k, v, drop : GoodReplace(T, nodes, used, root, live, p, i, k, drop, v)
    BY <1>5 DEF ReplaceGood
  <2>2. PICK A, B : /\ A = LeafKeys(T) \cup {v}
                    /\ B = (IF drop THEN (InnerKeys(T) \ {k}) \cup {KeysAt(nodes, p)[i]} ELSE InnerKeys(T) \ {k})
    OBVIOUS
  <2>3. KeysAt(nodes, p)[i] \in Key
    <3>1. View(T, nodes, used, root, p) /\ p \in used /\ i \in 1 .. Len(RowsAt(nodes, p))
      BY <2>1 DEF GoodReplace
    <3>2. p \in Node /\ Shaped(nodes, used)
      BY <3>1, ViewFacts
    <3>3. KeysAt(nodes, p) \in Seq(Key) /\ Len(KeysAt(nodes, p)) = Len(RowsAt(nodes, p))
      BY <3>2, ShapedFacts
    <3>. QED  BY <3>1, <3>3
  <2>4. live = Recs(A, B) /\ A \in SUBSET Key /\ B \in SUBSET Key
    BY <1>1, <2>1, <2>2, <2>3 DEF GoodReplace
  <2>. QED  BY <2>4, RecsAreRows
<1>. QED  BY <1>2, <1>3, <1>4, <1>5 DEF Good

\* The job.
JobTyped ==
  \/ job = Idle
  \/ \E a, b \in used, r \in Row, c \in BOOLEAN : job = Split(a, b, r, c)
  \/ \E a \in used, r \in Row, d \in BOOLEAN, k \in Key :
       job = Merge(a, r, d, k) \/ \E i \in DOMAIN nodes[a].rows : job = Replace(a, i, r, d, k)

\* What a job holds, typed.
LEMMA GoodJob ==
  ASSUME NEW T, Good(T, nodes, used, root, live, job)
  PROVE  JobTyped
<1>1. ASSUME NEW k \in Key PROVE <<k, 0>> \in Row /\ <<k, 1>> \in Row
  BY CopiesAssumption DEF Row
<1>2. CASE IdleGood(T, nodes, used, root, live, job)
  BY <1>2 DEF IdleGood, JobTyped
<1>3. CASE SplitGood(T, nodes, used, root, live, job)
  <2>1. PICK at, right, k, copy : /\ copy \in BOOLEAN /\ job = Split(at, right, <<k, IF copy THEN 0 ELSE 1>>, copy)
                                  /\ GoodSplit(T, nodes, used, root, live, at, right, k, copy)
    BY <1>3 DEF SplitGood
  <2>2. PICK row : row = <<k, IF copy THEN 0 ELSE 1>>
    OBVIOUS
  <2>3. at \in used /\ right \in used /\ k \in Key
    BY <2>1 DEF GoodSplit, SplitShown, InnerKeys
  <2>4. row \in Row
    BY <1>1, <2>2, <2>3
  <2>. QED  BY <2>1, <2>2, <2>3, <2>4 DEF JobTyped
<1>4. CASE MergeGood(T, nodes, used, root, live, job)
  <2>1. PICK p, k, v, drop : /\ drop \in BOOLEAN /\ job = Merge(p, <<k, 1>>, drop, v)
                             /\ GoodMerge(T, nodes, used, root, live, p, k, drop, v)
    BY <1>4 DEF MergeGood
  <2>2. p \in used /\ k \in Key /\ v \in Key
    BY <2>1 DEF GoodMerge
  <2>. QED  BY <1>1, <2>1, <2>2 DEF JobTyped
<1>5. CASE ReplaceGood(T, nodes, used, root, live, job)
  <2>1. PICK p, i, k, v, drop : /\ drop \in BOOLEAN /\ job = Replace(p, i, <<k, 0>>, drop, v)
                                /\ GoodReplace(T, nodes, used, root, live, p, i, k, drop, v)
    BY <1>5 DEF ReplaceGood
  <2>2. p \in used /\ k \in Key /\ v \in Key /\ i \in 1 .. Len(RowsAt(nodes, p)) /\ View(T, nodes, used, root, p)
    BY <2>1 DEF GoodReplace
  <2>3. p \in Node /\ Shaped(nodes, used)
    BY <2>2, ViewFacts
  <2>4. RowsAt(nodes, p) \in Seq(Row)
    BY <2>3, ShapedFacts
  <2>5. i \in DOMAIN nodes[p].rows
    BY <2>2, <2>4 DEF RowsAt
  <2>6. PICK row : row = <<k, 0>>
    OBVIOUS
  <2>7. row \in Row /\ job = Replace(p, i, row, drop, v)
    BY <1>1, <2>1, <2>2, <2>6
  <2>. QED  BY <2>1, <2>2, <2>5, <2>7 DEF JobTyped
<1>. QED  BY <1>2, <1>3, <1>4, <1>5 DEF Good

\* The invariant implies the types.
LEMMA IInvTypeOK == IInv => TypeOK
<1>. SUFFICES ASSUME IInv PROVE TypeOK
  OBVIOUS
<1>1. PICK T : Good(T, nodes, used, root, live, job)
  BY DEF IInv
<1>2. PICK p : Framed(T, p)
  BY <1>1, GoodFramed
<1>3. used \subseteq Node /\ root \in used /\ Shaped(nodes, used)
  BY <1>2 DEF Framed, View
<1>4. nodes \in [Node -> NodeRec]
  BY <1>3 DEF Shaped
<1>5. ASSUME NEW a \in Node
      PROVE  /\ nodes[a].leaf \in BOOLEAN /\ nodes[a].parent \in Node \cup {Nil}
             /\ nodes[a].rows \in Seq(Row) /\ nodes[a].child \in Seq(Node)
             /\ Len(nodes[a].rows) <= MaxRows
             /\ Len(nodes[a].child) = IF nodes[a].leaf THEN 0 ELSE Len(nodes[a].rows) + 1
  <2>1. /\ RowsAt(nodes, a) \in Seq(Row) /\ KidsAt(nodes, a) \in Seq(Node) /\ ParentAt(nodes, a) \in Page
        /\ LeafAt(nodes, a) \in BOOLEAN /\ Len(RowsAt(nodes, a)) <= MaxRows
    BY <1>3, ShapedFacts
  <2>2. Len(KidsAt(nodes, a)) = IF LeafAt(nodes, a) THEN 0 ELSE Len(RowsAt(nodes, a)) + 1
    BY <1>3 DEF Shaped, ShapedAt
  <2>. QED  BY <2>1, <2>2, Zenon DEF RowsAt, KidsAt, ParentAt, LeafAt, Page
<1>6. live \subseteq Row /\ JobTyped
  BY <1>1, LiveRows, GoodJob
<1>7. DOMAIN nodes = Node
  BY <1>4
<1>. QED  BY <1>3, <1>5, <1>6, <1>7, Zenon DEF TypeOK, JobTyped

(* No row names a record that is gone.                                      *)
\* A row of a leaf is the stored key's own, another is a copy.
LEMMA RowIs ==
  ASSUME NEW ns, NEW us, Shaped(ns, us), NEW a \in Node, NEW i \in 1 .. Len(RowsAt(ns, a)),
         NEW k, k = KeysAt(ns, a)[i]
  PROVE  /\ k \in Key /\ i \in 1 .. Len(KeysAt(ns, a))
         /\ LeafAt(ns, a) => RowsAt(ns, a)[i] = <<k, 0>>
         /\ ~ LeafAt(ns, a) => RowsAt(ns, a)[i] = <<k, 1>>
<1>1. /\ KeysAt(ns, a) \in Seq(Key) /\ Len(KeysAt(ns, a)) = Len(RowsAt(ns, a))
      /\ KeysAt(ns, a)[i] = RowsAt(ns, a)[i][1] /\ RowsAt(ns, a)[i] \in Tagged(LeafAt(ns, a))
  BY ShapedFacts
<1>2. k \in Key
  BY <1>1
<1>3. PICK row : row = RowsAt(ns, a)[i]
  OBVIOUS
<1>4. LeafAt(ns, a) => row = <<k, 0>>
  BY <1>1, <1>3 DEF Tagged, Own
<1>5. ~ LeafAt(ns, a) => row = <<k, 1>>
  BY <1>1, <1>3 DEF Tagged, Copied
<1>. QED  BY <1>1, <1>2, <1>3, <1>4, <1>5

\* The rows of a node that is as the tree says.
LEMMA RowInTree ==
  ASSUME NEW T, NEW ns, NEW us, NEW rt, NEW p, View(T, ns, us, rt, p), NEW a \in us, a # p,
         NEW i \in 1 .. Len(RowsAt(ns, a)), NEW k, k = KeysAt(ns, a)[i]
  PROVE  /\ k \in Key /\ Has(T, a, k)
         /\ LeafAt(ns, a) => RowsAt(ns, a)[i] = <<k, 0>> /\ k \in LeafKeys(T)
         /\ ~ LeafAt(ns, a) => RowsAt(ns, a)[i] = <<k, 1>> /\ k \in InnerKeys(T)
<1>1. /\ a \in Node /\ a \in Nodes(T) /\ Shaped(ns, us) /\ (Lev(T, a) = 0 <=> LeafAt(ns, a))
      /\ Keys(T, a) = KeysAt(ns, a)
  BY ViewFacts
<1>2. /\ k \in Key /\ i \in 1 .. Len(KeysAt(ns, a))
      /\ LeafAt(ns, a) => RowsAt(ns, a)[i] = <<k, 0>>
      /\ ~ LeafAt(ns, a) => RowsAt(ns, a)[i] = <<k, 1>>
  BY <1>1, RowIs
<1>3. Has(T, a, k)
  BY <1>1, <1>2 DEF Has
<1>. QED  BY <1>1, <1>2, <1>3 DEF LeafKeys, InnerKeys

\* Every row of every node is in lv or old.
Safe(ns, us, lv, old) ==
  \A a \in us : \A i \in 1 .. Len(RowsAt(ns, a)) : RowsAt(ns, a)[i] \in lv \cup old

\* No row names a deleted record: between calls.
LEMMA IdleSafe ==
  ASSUME NEW T, NEW ns, NEW us, NEW rt, NEW lv, GoodIdle(T, ns, us, rt, lv), NEW old
  PROVE  Safe(ns, us, lv, old)
<1>1. View(T, ns, us, rt, Nil) /\ lv = Recs(LeafKeys(T), InnerKeys(T))
  BY DEF GoodIdle
<1>2. ASSUME NEW a \in us, NEW i \in 1 .. Len(RowsAt(ns, a)) PROVE RowsAt(ns, a)[i] \in lv
  <2>1. a # Nil
    BY <1>1, ViewFacts
  <2>2. PICK k : k = KeysAt(ns, a)[i]
    OBVIOUS
  <2>3. /\ LeafAt(ns, a) => RowsAt(ns, a)[i] = <<k, 0>> /\ k \in LeafKeys(T)
        /\ ~ LeafAt(ns, a) => RowsAt(ns, a)[i] = <<k, 1>> /\ k \in InnerKeys(T)
    BY <1>1, <2>1, <2>2, RowInTree
  <2>. QED  BY <1>1, <2>3, RecsHave
<1>. QED  BY <1>2 DEF Safe

\* What is left of distinct keys when one is not among them.
LEMMA OthersLeft ==
  ASSUME NEW q, NEW p, Len(p) \in Nat, NEW j, NEW k, Inserted(q, p, j, k),
         \A x, y \in 1 .. Len(q) : q[x] = q[y] => x = y
  PROVE  \A i \in 1 .. Len(p) : In(q, p[i]) /\ p[i] # k
<1>1. /\ Len(q) = Len(p) + 1 /\ j \in 1 .. Len(q) /\ q[j] = k
      /\ \A i \in 1 .. j - 1 : q[i] = p[i]
      /\ \A i \in j .. Len(p) : q[i + 1] = p[i]
  BY DEF Inserted
<1>2. ASSUME NEW i \in 1 .. Len(p) PROVE \E x \in 1 .. Len(q) : x # j /\ q[x] = p[i]
  <2>1. CASE i < j
    BY <1>1, <2>1
  <2>2. CASE ~ i < j
    BY <1>1, <2>2
  <2>. QED  BY <2>1, <2>2
<1>3. ASSUME NEW i \in 1 .. Len(p) PROVE In(q, p[i]) /\ p[i] # k
  <2>1. PICK x \in 1 .. Len(q) : x # j /\ q[x] = p[i]
    BY <1>2
  <2>. QED  BY <1>1, <2>1 DEF In
<1>. QED  BY <1>3

\* The separator of a split is not yet in the nodes.
LEMMA SplitAbsent ==
  ASSUME NEW T, NEW ns, NEW us, NEW rt, NEW lv, NEW at, NEW right, NEW k, NEW copy,
         GoodSplit(T, ns, us, rt, lv, at, right, k, copy),
         NEW a \in us, ~ LeafAt(ns, a), NEW i \in 1 .. Len(RowsAt(ns, a))
  PROVE  KeysAt(ns, a)[i] \in InnerKeys(T) \ {k}
<1>1. PICK p : p = ParentAt(ns, at)
  OBVIOUS
<1>2. View(T, ns, us, rt, p) /\ SplitShown(T, ns, us, rt, at, right, k)
  BY <1>1 DEF GoodSplit
<1>3. PICK e : e = KeysAt(ns, a)[i]
  OBVIOUS
<1>4. a \in Node /\ a # Nil /\ a \in Nodes(T) /\ Tree(T) /\ Shaped(ns, us) /\ Lev(T, a) # 0
  BY <1>2, ViewFacts
<1>5. e \in Key /\ i \in 1 .. Len(KeysAt(ns, a)) /\ KeysAt(ns, a) \in Seq(Key)
  BY <1>3, <1>4, RowIs, ShapedFacts
<1>6. CASE p = Nil
  <2>1. Nil \in Nodes(T) /\ Keys(T, Nil) = <<k>> /\ Kids(T, Nil) = <<at, right>>
    BY <1>1, <1>2, <1>6 DEF SplitShown
  <2>2. Has(T, Nil, k)
    <3>1. 1 \in 1 .. Len(Keys(T, Nil)) /\ Keys(T, Nil)[1] = k
      BY <2>1
    <3>. QED  BY <3>1 DEF Has
  <2>3. Lev(T, Nil) # 0
    <3>1. Len(Kids(T, Nil)) # 0
      BY <2>1
    <3>. QED  BY <1>4, <2>1, <3>1, NodeFacts
  <2>4. Has(T, a, e) /\ e \in InnerKeys(T)
    BY <1>2, <1>3, <1>4, <1>6, RowInTree
  <2>5. e # k
    BY <1>4, <2>1, <2>2, <2>3, <2>4, DistinctHas
  <2>. QED  BY <1>3, <2>4, <2>5
<1>7. CASE p # Nil
  <2>1. p \in us /\ ~ LeafAt(ns, p) /\ \E j : Inserted(Keys(T, p), KeysAt(ns, p), j, k)
    BY <1>1, <1>2, <1>7 DEF SplitShown
  <2>2. PICK j : Inserted(Keys(T, p), KeysAt(ns, p), j, k)
    BY <2>1
  <2>3. p \in Nodes(T) /\ p \in Node /\ Lev(T, p) # 0
    BY <1>2, <2>1, ViewFacts
  <2>4. Has(T, p, k)
    BY <2>2 DEF Inserted, Has
  <2>5. CASE a = p
    <3>1. KeysAt(ns, p) \in Seq(Key) /\ Len(KeysAt(ns, p)) \in Nat
      BY <1>4, <2>3, ShapedFacts
    <3>2. \A x, y \in 1 .. Len(Keys(T, p)) : Keys(T, p)[x] = Keys(T, p)[y] => x = y
      BY <1>4, <2>3, HasOnce
    <3>3. \A x \in 1 .. Len(KeysAt(ns, p)) : In(Keys(T, p), KeysAt(ns, p)[x]) /\ KeysAt(ns, p)[x] # k
      BY <2>2, <3>1, <3>2, OthersLeft
    <3>4. In(Keys(T, p), e) /\ e # k
      BY <1>3, <1>5, <2>5, <3>3
    <3>5. e \in InnerKeys(T)
      BY <1>5, <2>3, <3>4 DEF In, InnerKeys, Has
    <3>. QED  BY <1>3, <3>4, <3>5
  <2>6. CASE a # p
    <3>1. Has(T, a, e) /\ e \in InnerKeys(T)
      BY <1>2, <1>3, <2>6, RowInTree
    <3>2. e # k
      BY <1>4, <2>3, <2>4, <2>6, <3>1, DistinctHas
    <3>. QED  BY <1>3, <3>1, <3>2
  <2>. QED  BY <2>5, <2>6
<1>. QED  BY <1>6, <1>7

\* In the loop of a split.
LEMMA SplitSafe ==
  ASSUME NEW T, NEW ns, NEW us, NEW rt, NEW lv, NEW at, NEW right, NEW k, NEW copy \in BOOLEAN,
         GoodSplit(T, ns, us, rt, lv, at, right, k, copy), NEW old
  PROVE  Safe(ns, us, lv, old)
<1>1. PICK p : p = ParentAt(ns, at)
  OBVIOUS
<1>2. View(T, ns, us, rt, p) /\ SplitShown(T, ns, us, rt, at, right, k)
  BY <1>1 DEF GoodSplit
<1>3. PICK A, B : A = LeafKeys(T) /\ B = InnerKeys(T) \ {k}
  OBVIOUS
<1>4. lv = Recs(A, B) \/ lv = Recs(A, InnerKeys(T))
  BY <1>3 DEF GoodSplit
<1>5. \A x : x \in A => <<x, 0>> \in lv
  BY <1>4, RecsHave
<1>6. \A x : x \in B => <<x, 1>> \in lv
  BY <1>3, <1>4, RecsHave
<1>7. ASSUME NEW a \in us, NEW i \in 1 .. Len(RowsAt(ns, a)) PROVE RowsAt(ns, a)[i] \in lv
  <2>1. a \in Node /\ Shaped(ns, us)
    BY <1>2, ViewFacts
  <2>2. PICK e : e = KeysAt(ns, a)[i]
    OBVIOUS
  <2>3. CASE LeafAt(ns, a)
    <3>1. a # p
      BY <1>1, <1>2, <2>1, <2>3, NilAssumption DEF SplitShown
    <3>2. RowsAt(ns, a)[i] = <<e, 0>> /\ e \in LeafKeys(T)
      BY <1>2, <2>2, <2>3, <3>1, RowInTree
    <3>. QED  BY <1>3, <1>5, <3>2
  <2>4. CASE ~ LeafAt(ns, a)
    <3>1. RowsAt(ns, a)[i] = <<e, 1>>
      BY <2>1, <2>2, <2>4, RowIs
    <3>2. e \in B
      BY <1>3, <2>2, <2>4, SplitAbsent
    <3>. QED  BY <1>6, <3>1, <3>2
  <2>. QED  BY <2>3, <2>4
<1>. QED  BY <1>7 DEF Safe

\* In the loop of a merge.
LEMMA MergeSafe ==
  ASSUME NEW T, NEW ns, NEW us, NEW rt, NEW lv, NEW p, NEW k, NEW drop, NEW v,
         GoodMerge(T, ns, us, rt, lv, p, k, drop, v), NEW old
  PROVE  Safe(ns, us, lv, old)
<1>1. View(T, ns, us, rt, p) /\ p \in us /\ ~ LeafAt(ns, p)
  BY DEF GoodMerge
<1>2. PICK j : Inserted(KeysAt(ns, p), Keys(T, p), j, k)
  BY DEF GoodMerge
<1>3. PICK A, B : A = LeafKeys(T) \cup {v} /\ B = InnerKeys(T) \cup {k}
  OBVIOUS
<1>4. lv = Recs(A, B)
  BY <1>3 DEF GoodMerge
<1>5. p \in Node /\ p \in Nodes(T) /\ Tree(T) /\ Shaped(ns, us) /\ Lev(T, p) # 0
  BY <1>1, ViewFacts
<1>6. ASSUME NEW a \in us, NEW i \in 1 .. Len(RowsAt(ns, a)) PROVE RowsAt(ns, a)[i] \in lv
  <2>1. PICK e : e = KeysAt(ns, a)[i]
    OBVIOUS
  <2>2. CASE a # p
    <3>1. /\ LeafAt(ns, a) => RowsAt(ns, a)[i] = <<e, 0>> /\ e \in LeafKeys(T)
          /\ ~ LeafAt(ns, a) => RowsAt(ns, a)[i] = <<e, 1>> /\ e \in InnerKeys(T)
      BY <1>1, <2>1, <2>2, RowInTree
    <3>. QED  BY <1>3, <1>4, <3>1, RecsHave
  <2>3. CASE a = p
    <3>1. RowsAt(ns, a)[i] = <<e, 1>> /\ e \in Key /\ i \in 1 .. Len(KeysAt(ns, a))
      BY <1>1, <1>5, <2>1, <2>3, RowIs
    <3>2. Len(Keys(T, p)) \in Nat
      BY <1>5, NodeFacts
    <3>3. e = k \/ \E x \in 1 .. Len(Keys(T, p)) : Keys(T, p)[x] = e
      BY <1>2, <2>1, <2>3, <3>1, <3>2, InsertedParts
    <3>4. e \in B
      BY <1>3, <1>5, <3>1, <3>3 DEF InnerKeys, Has
    <3>. QED  BY <1>4, <3>1, <3>4, RecsHave
  <2>. QED  BY <2>2, <2>3
<1>. QED  BY <1>6 DEF Safe

\* While a separator is replaced.
LEMMA ReplaceSafe ==
  ASSUME NEW T, NEW ns, NEW us, NEW rt, NEW lv, NEW p, NEW i, NEW k, NEW drop \in BOOLEAN, NEW v,
         GoodReplace(T, ns, us, rt, lv, p, i, k, drop, v), NEW old, drop \/ RowsAt(ns, p)[i] \in old
  PROVE  Safe(ns, us, lv, old)
<1>1. /\ View(T, ns, us, rt, p) /\ p \in us /\ ~ LeafAt(ns, p) /\ i \in 1 .. Len(RowsAt(ns, p))
      /\ Swapped(Keys(T, p), KeysAt(ns, p), i, k)
  BY DEF GoodReplace
<1>2. PICK A, B, C : /\ A = LeafKeys(T) \cup {v} /\ B = InnerKeys(T) \ {k}
                     /\ C = (InnerKeys(T) \ {k}) \cup {KeysAt(ns, p)[i]}
  OBVIOUS
<1>3. (~ drop /\ lv = Recs(A, B)) \/ (drop /\ lv = Recs(A, C))
  BY <1>2 DEF GoodReplace
<1>4. p \in Node /\ p \in Nodes(T) /\ Tree(T) /\ Shaped(ns, us) /\ Lev(T, p) # 0
  BY <1>1, ViewFacts
<1>5. Len(Keys(T, p)) = Len(KeysAt(ns, p)) /\ i \in 1 .. Len(KeysAt(ns, p)) /\ Keys(T, p)[i] = k
      /\ \A x \in 1 .. Len(KeysAt(ns, p)) : x # i => Keys(T, p)[x] = KeysAt(ns, p)[x]
  BY <1>1 DEF Swapped
<1>6. Has(T, p, k)
  BY <1>5 DEF Has
<1>7. /\ \A x : x \in A => <<x, 0>> \in lv
      /\ \A x : x \in B => <<x, 1>> \in lv
  <2>1. \A x : x \in B => x \in C
    BY <1>2
  <2>2. CASE lv = Recs(A, B)
    BY <2>2, RecsHave
  <2>3. CASE lv = Recs(A, C)
    BY <2>1, <2>3, RecsHave
  <2>. QED  BY <1>3, <2>2, <2>3
<1>8. drop => \A x : x \in C => <<x, 1>> \in lv
  BY <1>3, RecsHave
<1>9. ASSUME NEW a \in us, NEW x \in 1 .. Len(RowsAt(ns, a)) PROVE RowsAt(ns, a)[x] \in lv \cup old
  <2>1. PICK e : e = KeysAt(ns, a)[x]
    OBVIOUS
  <2>2. CASE a # p
    <3>1. /\ LeafAt(ns, a) => RowsAt(ns, a)[x] = <<e, 0>> /\ e \in LeafKeys(T)
          /\ ~ LeafAt(ns, a) => RowsAt(ns, a)[x] = <<e, 1>> /\ e \in InnerKeys(T)
          /\ Has(T, a, e)
      BY <1>1, <2>1, <2>2, RowInTree
    <3>2. a \in Nodes(T) /\ (Lev(T, a) = 0 <=> LeafAt(ns, a))
      BY <1>1, ViewFacts
    <3>3. ~ LeafAt(ns, a) => e # k
      BY <1>4, <1>6, <2>2, <3>1, <3>2, DistinctHas
    <3>. QED  BY <1>2, <1>7, <3>1, <3>3
  <2>3. CASE a = p
    <3>1. RowsAt(ns, a)[x] = <<e, 1>> /\ e \in Key /\ x \in 1 .. Len(KeysAt(ns, a))
      BY <1>1, <1>4, <2>1, <2>3, RowIs
    <3>2. CASE x = i
      <4>1. CASE drop
        <5>1. e \in C
          BY <1>2, <2>1, <2>3, <3>2
        <5>. QED  BY <1>8, <3>1, <4>1, <5>1
      <4>2. CASE ~ drop
        BY <2>3, <3>2, <4>2
      <4>. QED  BY <4>1, <4>2
    <3>3. CASE x # i
      <4>1. x \in 1 .. Len(Keys(T, p)) /\ i \in 1 .. Len(Keys(T, p)) /\ Keys(T, p)[x] = e
        BY <1>5, <2>1, <2>3, <3>1, <3>3
      <4>2. e # k
        BY <1>4, <1>5, <3>3, <4>1, HasOnce
      <4>3. e \in InnerKeys(T)
        BY <1>4, <3>1, <4>1 DEF InnerKeys, Has
      <4>. QED  BY <1>2, <1>7, <3>1, <4>2, <4>3
    <3>. QED  BY <3>2, <3>3
  <2>. QED  BY <2>2, <2>3
<1>. QED  BY <1>9 DEF Safe

\* No row is left dangling, at any time.
LEMMA IInvNoDangling == IInv => NoDanglingRow
<1>. SUFFICES ASSUME IInv PROVE NoDanglingRow
  OBVIOUS
<1>1. PICK T : Good(T, nodes, used, root, live, job)
  BY DEF IInv
<1>2. PICK ns, us, rt, lv, jb : ns = nodes /\ us = used /\ rt = root /\ lv = live /\ jb = job
  OBVIOUS
<1>3. PICK old : old = BeingReplaced
  OBVIOUS
<1>4. Safe(ns, us, lv, old)
  <2>1. CASE IdleGood(T, ns, us, rt, lv, jb)
    <3>1. GoodIdle(T, ns, us, rt, lv)
      BY <2>1 DEF IdleGood
    <3>. QED  BY <3>1, IdleSafe
  <2>2. CASE SplitGood(T, ns, us, rt, lv, jb)
    <3>1. PICK at, right, k, copy : copy \in BOOLEAN /\ GoodSplit(T, ns, us, rt, lv, at, right, k, copy)
      BY <2>2 DEF SplitGood
    <3>. QED  BY <3>1, SplitSafe
  <2>3. CASE MergeGood(T, ns, us, rt, lv, jb)
    <3>1. PICK p, k, v, drop : GoodMerge(T, ns, us, rt, lv, p, k, drop, v)
      BY <2>3 DEF MergeGood
    <3>. QED  BY <3>1, MergeSafe
  <2>4. CASE ReplaceGood(T, ns, us, rt, lv, jb)
    <3>1. PICK p, i, k, v, drop : /\ drop \in BOOLEAN /\ jb = Replace(p, i, <<k, 0>>, drop, v)
                                  /\ GoodReplace(T, ns, us, rt, lv, p, i, k, drop, v)
      BY <2>4 DEF ReplaceGood
    <3>2. PICK row : row = <<k, 0>>
      OBVIOUS
    <3>3. jb.kind = "replace" /\ jb.at = p /\ jb.i = i /\ jb.drop = drop
      BY <3>1, <3>2, ReplaceIs
    <3>4. drop \/ RowsAt(ns, p)[i] \in old
      BY <1>2, <1>3, <3>3 DEF BeingReplaced, RowsAt
    <3>. QED  BY <3>1, <3>4, ReplaceSafe
  <2>. QED  BY <1>1, <1>2, <2>1, <2>2, <2>3, <2>4 DEF Good
<1>5. PICK p : Framed(T, p)
  BY <1>1, GoodFramed
<1>6. us \subseteq Node /\ Shaped(ns, us)
  BY <1>2, <1>5 DEF Framed, View
<1>7. ASSUME NEW a \in us, NEW r \in RowsOf(a) PROVE r \in lv \cup old
  <2>1. RowsAt(ns, a) \in Seq(Row) /\ RowsAt(ns, a) = nodes[a].rows
    BY <1>2, <1>6, ShapedFacts DEF RowsAt
  <2>2. PICK i \in 1 .. Len(RowsAt(ns, a)) : r = RowsAt(ns, a)[i]
    BY <2>1 DEF RowsOf, Range
  <2>. QED  BY <1>4, <2>2 DEF Safe
<1>. QED  BY <1>2, <1>3, <1>7 DEF NoDanglingRow, Referenced

\* Between calls every record is in one node.
LEMMA RecordsAtRest ==
  ASSUME NEW T, NEW ns, NEW us, NEW rt, NEW lv, GoodIdle(T, ns, us, rt, lv)
  PROVE  /\ \A r \in lv : \E a \in us : \E i \in 1 .. Len(RowsAt(ns, a)) : RowsAt(ns, a)[i] = r
         /\ \A a, b \in us : \A i \in 1 .. Len(RowsAt(ns, a)) : \A j \in 1 .. Len(RowsAt(ns, b)) :
              RowsAt(ns, a)[i] = RowsAt(ns, b)[j] => a = b
         /\ \A a \in us : \A i \in 1 .. Len(RowsAt(ns, a)) : RowsAt(ns, a)[i][2] = 0 <=> LeafAt(ns, a)
<1>1. View(T, ns, us, rt, Nil) /\ Nil \notin Nodes(T) /\ lv = Recs(LeafKeys(T), InnerKeys(T))
  BY DEF GoodIdle
<1>2. /\ Tree(T) /\ Nodes(T) = us /\ us \subseteq Node /\ Shaped(ns, us)
      /\ \A a \in us : Keys(T, a) = KeysAt(ns, a) /\ (Lev(T, a) = 0 <=> LeafAt(ns, a))
  BY <1>1, ShownFacts DEF Shown
<1>3. ASSUME NEW a \in us, NEW i \in 1 .. Len(RowsAt(ns, a)), NEW k, k = KeysAt(ns, a)[i]
      PROVE  /\ k \in Key /\ Has(T, a, k)
             /\ LeafAt(ns, a) => RowsAt(ns, a)[i] = <<k, 0>>
             /\ ~ LeafAt(ns, a) => RowsAt(ns, a)[i] = <<k, 1>>
  <2>1. a # Nil
    BY <1>2, NilAssumption
  <2>. QED  BY <1>1, <1>3, <2>1, RowInTree
<1>4. ASSUME NEW a \in us, NEW k, Has(T, a, k)
      PROVE  \E i \in 1 .. Len(RowsAt(ns, a)) : RowsAt(ns, a)[i] = IF LeafAt(ns, a) THEN <<k, 0>> ELSE <<k, 1>>
  <2>1. PICK i \in 1 .. Len(KeysAt(ns, a)) : KeysAt(ns, a)[i] = k
    BY <1>2, <1>4 DEF Has
  <2>2. i \in 1 .. Len(RowsAt(ns, a))
    <3>1. Len(KeysAt(ns, a)) = Len(RowsAt(ns, a))
      BY <1>2, ShapedFacts
    <3>. QED  BY <2>1, <3>1
  <2>. QED  BY <1>3, <2>1, <2>2
<1>5. ASSUME NEW r \in lv PROVE \E a \in us : \E i \in 1 .. Len(RowsAt(ns, a)) : RowsAt(ns, a)[i] = r
  <2>1. (\E k \in LeafKeys(T) : r = <<k, 0>>) \/ (\E k \in InnerKeys(T) : r = <<k, 1>>)
    BY <1>1 DEF Recs
  <2>2. CASE \E k \in LeafKeys(T) : r = <<k, 0>>
    <3>1. PICK k \in LeafKeys(T) : r = <<k, 0>>
      BY <2>2
    <3>2. PICK a \in us : Lev(T, a) = 0 /\ Has(T, a, k)
      BY <1>2, <3>1 DEF LeafKeys
    <3>3. LeafAt(ns, a)
      BY <1>2, <3>2
    <3>. QED  BY <1>4, <3>1, <3>2, <3>3
  <2>3. CASE \E k \in InnerKeys(T) : r = <<k, 1>>
    <3>1. PICK k \in InnerKeys(T) : r = <<k, 1>>
      BY <2>3
    <3>2. PICK a \in us : Lev(T, a) # 0 /\ Has(T, a, k)
      BY <1>2, <3>1 DEF InnerKeys
    <3>3. ~ LeafAt(ns, a)
      BY <1>2, <3>2
    <3>. QED  BY <1>4, <3>1, <3>2, <3>3
  <2>. QED  BY <2>1, <2>2, <2>3
<1>6. ASSUME NEW a \in us, NEW b \in us, NEW i \in 1 .. Len(RowsAt(ns, a)), NEW j \in 1 .. Len(RowsAt(ns, b)),
             RowsAt(ns, a)[i] = RowsAt(ns, b)[j]
      PROVE  a = b
  <2>1. PICK k, m : k = KeysAt(ns, a)[i] /\ m = KeysAt(ns, b)[j]
    OBVIOUS
  <2>2. /\ k \in Key /\ Has(T, a, k)
        /\ LeafAt(ns, a) => RowsAt(ns, a)[i] = <<k, 0>>
        /\ ~ LeafAt(ns, a) => RowsAt(ns, a)[i] = <<k, 1>>
    BY <1>3, <2>1
  <2>3. /\ m \in Key /\ Has(T, b, m)
        /\ LeafAt(ns, b) => RowsAt(ns, b)[j] = <<m, 0>>
        /\ ~ LeafAt(ns, b) => RowsAt(ns, b)[j] = <<m, 1>>
    BY <1>3, <2>1
  <2>4. k = m /\ (LeafAt(ns, a) <=> LeafAt(ns, b))
    BY <1>6, <2>2, <2>3
  <2>5. CASE LeafAt(ns, a)
    <3>1. Lev(T, a) = 0 /\ Lev(T, b) = 0
      BY <1>2, <2>4, <2>5
    <3>2. k \in Span(T, a) /\ k \in Span(T, b)
      BY <1>2, <2>2, <2>3, <2>4, HasIsKey
    <3>. QED  BY <1>2, <2>2, <3>1, <3>2, Apart
  <2>6. CASE ~ LeafAt(ns, a)
    <3>1. Lev(T, a) # 0 /\ Lev(T, b) # 0
      BY <1>2, <2>4, <2>6
    <3>. QED  BY <1>2, <2>2, <2>3, <2>4, <3>1, DistinctHas
  <2>. QED  BY <2>5, <2>6
<1>7. ASSUME NEW a \in us, NEW i \in 1 .. Len(RowsAt(ns, a)) PROVE RowsAt(ns, a)[i][2] = 0 <=> LeafAt(ns, a)
  <2>1. PICK k : k = KeysAt(ns, a)[i]
    OBVIOUS
  <2>2. /\ LeafAt(ns, a) => RowsAt(ns, a)[i] = <<k, 0>>
        /\ ~ LeafAt(ns, a) => RowsAt(ns, a)[i] = <<k, 1>>
    BY <1>3, <2>1
  <2>. QED  BY <2>2
<1>. QED  BY <1>5, <1>6, <1>7

\* At rest the records are those of the rows.
LEMMA IInvRecords == IInv => RecordsMatch
<1>. SUFFICES ASSUME IInv PROVE RecordsMatch
  OBVIOUS
<1>1. NoDanglingRow
  BY IInvNoDangling
<1>2. ASSUME job = Idle
      PROVE  /\ live \subseteq Referenced
             /\ \A a, b \in used : a # b => RowsOf(a) \cap RowsOf(b) = {}
             /\ \A a \in used : \A r \in RowsOf(a) : (r[2] = 0) = nodes[a].leaf
  <2>1. PICK T : Good(T, nodes, used, root, live, job)
    BY DEF IInv
  <2>2. PICK ns, us, rt, lv : ns = nodes /\ us = used /\ rt = root /\ lv = live
    OBVIOUS
  <2>3. GoodIdle(T, ns, us, rt, lv)
    <3>1. IdleGood(T, nodes, used, root, live, job)
      BY <1>2, <2>1, GoodKinds
    <3>. QED  BY <2>2, <3>1 DEF IdleGood
  <2>4. us \subseteq Node /\ Shaped(ns, us)
    BY <2>3 DEF GoodIdle, View
  <2>5. ASSUME NEW a \in us
        PROVE  /\ \A i \in 1 .. Len(RowsAt(ns, a)) : RowsAt(ns, a)[i] \in RowsOf(a)
               /\ \A r \in RowsOf(a) : \E i \in 1 .. Len(RowsAt(ns, a)) : RowsAt(ns, a)[i] = r
    <3>1. RowsAt(ns, a) \in Seq(Row) /\ RowsAt(ns, a) = nodes[a].rows
      BY <2>2, <2>4, ShapedFacts DEF RowsAt
    <3>. QED  BY <3>1 DEF RowsOf, Range
  <2>6. /\ \A r \in lv : \E a \in us : \E i \in 1 .. Len(RowsAt(ns, a)) : RowsAt(ns, a)[i] = r
        /\ \A a, b \in us : \A i \in 1 .. Len(RowsAt(ns, a)) : \A j \in 1 .. Len(RowsAt(ns, b)) :
             RowsAt(ns, a)[i] = RowsAt(ns, b)[j] => a = b
        /\ \A a \in us : \A i \in 1 .. Len(RowsAt(ns, a)) : RowsAt(ns, a)[i][2] = 0 <=> LeafAt(ns, a)
    BY <2>3, RecordsAtRest
  <2>7. live \subseteq Referenced
    BY <2>2, <2>5, <2>6 DEF Referenced
  <2>8. ASSUME NEW a \in us, NEW b \in us, a # b PROVE RowsOf(a) \cap RowsOf(b) = {}
    <3>1. ASSUME NEW r \in RowsOf(a), r \in RowsOf(b) PROVE FALSE
      <4>1. PICK i \in 1 .. Len(RowsAt(ns, a)) : RowsAt(ns, a)[i] = r
        BY <2>5
      <4>2. PICK j \in 1 .. Len(RowsAt(ns, b)) : RowsAt(ns, b)[j] = r
        BY <2>5, <3>1
      <4>. QED  BY <2>6, <2>8, <4>1, <4>2
    <3>. QED  BY <3>1
  <2>9. ASSUME NEW a \in us, NEW r \in RowsOf(a) PROVE (r[2] = 0) = nodes[a].leaf
    <3>1. PICK i \in 1 .. Len(RowsAt(ns, a)) : RowsAt(ns, a)[i] = r
      BY <2>5
    <3>2. r[2] = 0 <=> LeafAt(ns, a)
      BY <2>6, <3>1
    <3>3. LeafAt(ns, a) \in BOOLEAN /\ LeafAt(ns, a) = nodes[a].leaf
      BY <2>2, <2>4, ShapedFacts DEF LeafAt
    <3>. QED  BY <3>2, <3>3
  <2>. QED  BY <2>2, <2>7, <2>8, <2>9
<1>. QED  BY <1>1, <1>2 DEF RecordsMatch, AtRest

(* Parents and children.                                                    *)
\* The children of a that are nodes are those of the tree, but for free.
KidsSeen(T, ns, us, a, free) ==
  /\ \A j \in 1 .. Len(KidsAt(ns, a)) :
       KidsAt(ns, a)[j] \in us => IsKid(T, a, KidsAt(ns, a)[j]) /\ KidsAt(ns, a)[j] # free
  /\ \A i, j \in 1 .. Len(KidsAt(ns, a)) :
       KidsAt(ns, a)[i] = KidsAt(ns, a)[j] /\ KidsAt(ns, a)[i] \in us => i = j
  /\ \A c \in us : IsKid(T, a, c) /\ c # free => In(KidsAt(ns, a), c)

\* Every node but the root and free hangs in one place, from its parent.
Seen(ns, us, rt, free) ==
  /\ ParentAt(ns, rt) = Nil
  /\ \A a \in us : ~ LeafAt(ns, a) =>
       \A j \in 1 .. Len(KidsAt(ns, a)) : KidsAt(ns, a)[j] \in us => ParentAt(ns, KidsAt(ns, a)[j]) = a /\ KidsAt(ns, a)[j] # free
  /\ \A a \in us : ~ LeafAt(ns, a) =>
       \A i, j \in 1 .. Len(KidsAt(ns, a)) : KidsAt(ns, a)[i] = KidsAt(ns, a)[j] /\ KidsAt(ns, a)[i] \in us => i = j
  /\ \A c \in us : c # rt /\ c # free => \E a \in us : ~ LeafAt(ns, a) /\ In(KidsAt(ns, a), c)

\* When nodes know their parents and hang in one place.
LEMMA SeenBy ==
  ASSUME NEW T, NEW ns, NEW us, NEW rt, NEW p, NEW free, View(T, ns, us, rt, p),
         \A a \in us : ~ LeafAt(ns, a) => KidsSeen(T, ns, us, a, free),
         \A c \in us : c # rt /\ c # free => Up(T, c) \in us
  PROVE  Seen(ns, us, rt, free)
<1>1. ParentAt(ns, rt) = Nil /\ (Top(T) = Nil \/ Top(T) = rt)
  BY DEF View
<1>2. ASSUME NEW a \in us
      PROVE a # Nil /\ a \in Nodes(T) /\ Tree(T) /\ Up(T, a) = ParentAt(ns, a) /\ (Lev(T, a) = 0 <=> LeafAt(ns, a))
  BY ViewFacts
<1>3. ASSUME NEW a \in us, ~ LeafAt(ns, a), NEW j \in 1 .. Len(KidsAt(ns, a)), KidsAt(ns, a)[j] \in us
      PROVE  ParentAt(ns, KidsAt(ns, a)[j]) = a /\ KidsAt(ns, a)[j] # free
  <2>1. PICK c : c = KidsAt(ns, a)[j]
    OBVIOUS
  <2>2. IsKid(T, a, c) /\ c # free
    BY <1>3, <2>1 DEF KidsSeen
  <2>3. PICK i \in 1 .. Len(Kids(T, a)) : Kids(T, a)[i] = c
    BY <2>2 DEF IsKid
  <2>4. Up(T, c) = a
    BY <1>2, <2>3, KidFacts
  <2>. QED  BY <1>2, <1>3, <2>1, <2>2, <2>4
<1>4. ASSUME NEW a \in us, ~ LeafAt(ns, a), NEW i \in 1 .. Len(KidsAt(ns, a)), NEW j \in 1 .. Len(KidsAt(ns, a)),
             KidsAt(ns, a)[i] = KidsAt(ns, a)[j], KidsAt(ns, a)[i] \in us
      PROVE  i = j
  BY <1>4 DEF KidsSeen
<1>5. ASSUME NEW c \in us, c # rt, c # free PROVE \E a \in us : ~ LeafAt(ns, a) /\ In(KidsAt(ns, a), c)
  <2>1. c # Top(T) /\ c \in Nodes(T) /\ Tree(T)
    BY <1>1, <1>2, <1>5
  <2>2. PICK a \in us : a = Up(T, c)
    BY <1>5
  <2>3. Lev(T, c) + 1 = Lev(T, a) /\ \E j \in 1 .. Len(Kids(T, a)) : Kids(T, a)[j] = c
    BY <2>1, <2>2, HungFacts
  <2>4. Lev(T, a) # 0 /\ IsKid(T, a, c)
    <3>1. Lev(T, c) \in Nat
      BY <2>1, NodeFacts
    <3>. QED  BY <2>3, <3>1 DEF IsKid
  <2>5. ~ LeafAt(ns, a)
    BY <1>2, <2>4
  <2>. QED  BY <1>5, <2>4, <2>5 DEF KidsSeen
<1>. QED  BY <1>1, <1>3, <1>4, <1>5 DEF Seen

\* The children of a node that is as the tree says.
LEMMA SameKids ==
  ASSUME NEW T, NEW ns, NEW us, Tree(T), us \subseteq Nodes(T), NEW a \in us, Kids(T, a) = KidsAt(ns, a),
         NEW free, ~ IsKid(T, a, free)
  PROVE  KidsSeen(T, ns, us, a, free)
<1>1. a \in Nodes(T)
  OBVIOUS
<1>2. ASSUME NEW i \in 1 .. Len(Kids(T, a)), NEW j \in 1 .. Len(Kids(T, a)), Kids(T, a)[i] = Kids(T, a)[j] PROVE i = j
  BY <1>1, <1>2, KidsApart
<1>. QED  BY <1>2 DEF KidsSeen, IsKid, In

\* A child that is still to be hung in its place.
LEMMA FewerKids ==
  ASSUME NEW T, NEW ns, NEW us, Tree(T), us \subseteq Nodes(T), NEW a \in us, Len(KidsAt(ns, a)) \in Nat,
         NEW j, NEW free, Inserted(Kids(T, a), KidsAt(ns, a), j, free)
  PROVE  KidsSeen(T, ns, us, a, free)
<1>1. PICK q, p : q = Kids(T, a) /\ p = KidsAt(ns, a)
  OBVIOUS
<1>2. \A x, y \in 1 .. Len(q) : q[x] = q[y] => x = y
  BY <1>1, KidsApart
<1>3. Len(p) \in Nat /\ Inserted(q, p, j, free)
  BY <1>1
<1>4. \A i \in 1 .. Len(p) : In(q, p[i]) /\ p[i] # free
  BY <1>2, <1>3, OthersLeft
<1>5. ASSUME NEW x \in 1 .. Len(p), NEW y \in 1 .. Len(p), p[x] = p[y] PROVE x = y
  <2>1. /\ Len(q) = Len(p) + 1 /\ j \in 1 .. Len(q)
        /\ \A i \in 1 .. j - 1 : q[i] = p[i]
        /\ \A i \in j .. Len(p) : q[i + 1] = p[i]
    BY <1>3 DEF Inserted
  <2>2. PICK m : m = IF x < j THEN x ELSE x + 1
    OBVIOUS
  <2>3. PICK n : n = IF y < j THEN y ELSE y + 1
    OBVIOUS
  <2>4. m \in 1 .. Len(q) /\ q[m] = p[x]
    BY <1>3, <2>1, <2>2
  <2>5. n \in 1 .. Len(q) /\ q[n] = p[y]
    BY <1>3, <2>1, <2>3
  <2>6. m = n
    BY <1>2, <1>5, <2>4, <2>5
  <2>7. j \in Nat
    BY <1>3, <2>1
  <2>. QED  BY <2>2, <2>3, <2>6, <2>7
<1>6. ASSUME NEW c, In(q, c), c # free PROVE In(p, c)
  <2>1. PICK i \in 1 .. Len(q) : q[i] = c
    BY <1>6 DEF In
  <2>2. q[j] = free /\ j \in Nat /\ i \in Nat /\ i >= 1 /\ i <= Len(p) + 1
    BY <1>3, <2>1 DEF Inserted
  <2>3. i # j
    BY <1>6, <2>1, <2>2
  <2>4. \E x \in 1 .. Len(p) : p[x] = q[i]
    BY <1>3, <2>1, <2>3, InsertedParts
  <2>. QED  BY <2>1, <2>4 DEF In
<1>. QED  BY <1>1, <1>4, <1>5, <1>6 DEF KidsSeen, IsKid, In

\* A child that is a node no more.
LEMMA MoreKids ==
  ASSUME NEW T, NEW ns, NEW us, Tree(T), us \subseteq Nodes(T), NEW a \in us,
         NEW j, NEW d, d \notin us, Inserted(KidsAt(ns, a), Kids(T, a), j, d)
  PROVE  KidsSeen(T, ns, us, a, Nil) \/ Nil \in us
<1>. SUFFICES ASSUME Nil \notin us PROVE KidsSeen(T, ns, us, a, Nil)
  OBVIOUS
<1>1. PICK q, p : q = KidsAt(ns, a) /\ p = Kids(T, a)
  OBVIOUS
<1>2. \A x, y \in 1 .. Len(p) : p[x] = p[y] => x = y
  BY <1>1, KidsApart
<1>3. a \in Nodes(T)
  OBVIOUS
<1>4. Len(p) \in Nat
  BY <1>1, <1>3, NodeFacts
<1>5. Inserted(q, p, j, d)
  BY <1>1
<1>6. ASSUME NEW i \in 1 .. Len(q), q[i] \in us
      PROVE  \E x \in 1 .. Len(p) : q[i] = p[x] /\ i = (IF x < j THEN x ELSE x + 1)
  <2>1. \/ i \in 1 .. j - 1 /\ i \in 1 .. Len(p) /\ q[i] = p[i]
        \/ i = j /\ q[i] = d
        \/ \E x \in j .. Len(p) : x \in 1 .. Len(p) /\ i = x + 1 /\ q[i] = p[x]
    BY <1>4, <1>5, InsertedParts
  <2>2. j \in Nat
    BY <1>4, <1>5 DEF Inserted
  <2>3. CASE i \in 1 .. j - 1 /\ i \in 1 .. Len(p) /\ q[i] = p[i]
    BY <2>2, <2>3
  <2>4. CASE \E x \in j .. Len(p) : x \in 1 .. Len(p) /\ i = x + 1 /\ q[i] = p[x]
    BY <2>2, <2>4
  <2>. QED  BY <1>6, <2>1, <2>3, <2>4
<1>7. ASSUME NEW x \in 1 .. Len(q), NEW y \in 1 .. Len(q), q[x] = q[y], q[x] \in us PROVE x = y
  <2>1. PICK m \in 1 .. Len(p) : q[x] = p[m] /\ x = (IF m < j THEN m ELSE m + 1)
    BY <1>6, <1>7
  <2>2. PICK n \in 1 .. Len(p) : q[y] = p[n] /\ y = (IF n < j THEN n ELSE n + 1)
    BY <1>6, <1>7
  <2>. QED  BY <1>2, <1>7, <2>1, <2>2
<1>8. ASSUME NEW c, In(p, c) PROVE In(q, c)
  <2>1. PICK i \in 1 .. Len(p) : p[i] = c
    BY <1>8 DEF In
  <2>2. \E x \in 1 .. Len(q) : q[x] = p[i]
    <3>1. /\ \A x \in 1 .. j - 1 : x \in 1 .. Len(p) /\ x \in 1 .. Len(q) /\ q[x] = p[x]
          /\ \A z \in j .. Len(p) : z \in 1 .. Len(p) /\ \E x \in 1 .. Len(q) : x = z + 1 /\ q[x] = p[z]
          /\ j \in Nat
      BY <1>4, <1>5, InsertedIs
    <3>2. i \in 1 .. j - 1 \/ i \in j .. Len(p)
      BY <2>1, <3>1
    <3>. QED  BY <3>1, <3>2
  <2>. QED  BY <2>1, <2>2 DEF In
<1>9. ASSUME NEW i \in 1 .. Len(q), q[i] \in us PROVE In(p, q[i])
  BY <1>6, <1>9 DEF In
<1>. QED  BY <1>1, <1>7, <1>8, <1>9 DEF KidsSeen, IsKid, In

\* Where nothing is missing.
LEMMA WholeSeen ==
  ASSUME NEW T, NEW ns, NEW us, NEW rt, NEW p, View(T, ns, us, rt, p), Nil \notin Nodes(T),
         p \in us /\ ~ LeafAt(ns, p) => KidsSeen(T, ns, us, p, Nil)
  PROVE  Seen(ns, us, rt, Nil)
<1>1. Tree(T) /\ Nodes(T) = us /\ Top(T) = rt
  BY DEF View
<1>2. ASSUME NEW a \in us PROVE ~ IsKid(T, a, Nil)
  <2>1. ASSUME NEW j \in 1 .. Len(Kids(T, a)) PROVE Kids(T, a)[j] \in Nodes(T)
    BY <1>1, NodeFacts
  <2>. QED  BY <2>1 DEF IsKid
<1>3. ASSUME NEW a \in us, ~ LeafAt(ns, a) PROVE KidsSeen(T, ns, us, a, Nil)
  <2>1. CASE a = p
    BY <1>3, <2>1
  <2>2. CASE a # p
    <3>1. Kids(T, a) = KidsAt(ns, a)
      BY <2>2, ViewFacts
    <3>. QED  BY <1>1, <1>2, <3>1, SameKids
  <2>. QED  BY <2>1, <2>2
<1>4. ASSUME NEW c \in us, c # rt PROVE Up(T, c) \in us
  BY <1>1, <1>4, HungFacts
<1>. QED  BY <1>3, <1>4, SeenBy

\* Between calls.
LEMMA IdleSeen ==
  ASSUME NEW T, NEW ns, NEW us, NEW rt, NEW lv, GoodIdle(T, ns, us, rt, lv)
  PROVE  Seen(ns, us, rt, Nil)
<1>1. View(T, ns, us, rt, Nil) /\ Nil \notin Nodes(T) /\ us \subseteq Nodes(T)
  BY DEF GoodIdle, View
<1>. QED  BY <1>1, WholeSeen

\* In the loop of a merge.
LEMMA MergeSeen ==
  ASSUME NEW T, NEW ns, NEW us, NEW rt, NEW lv, NEW p, NEW k, NEW drop, NEW v,
         GoodMerge(T, ns, us, rt, lv, p, k, drop, v)
  PROVE  Seen(ns, us, rt, Nil)
<1>1. View(T, ns, us, rt, p) /\ Nil \notin Nodes(T) /\ p \in us
  BY DEF GoodMerge
<1>2. PICK j, d : d \notin us /\ Inserted(KidsAt(ns, p), Kids(T, p), j + 1, d)
  BY DEF GoodMerge
<1>3. PICK x : x = j + 1
  OBVIOUS
<1>4. Tree(T) /\ us \subseteq Nodes(T) /\ Nil \notin us
  BY <1>1 DEF View
<1>5. Inserted(KidsAt(ns, p), Kids(T, p), x, d)
  BY <1>2, <1>3
<1>6. KidsSeen(T, ns, us, p, Nil)
  BY <1>1, <1>2, <1>4, <1>5, MoreKids
<1>. QED  BY <1>1, <1>6, WholeSeen

\* While a separator is replaced.
LEMMA ReplaceSeen ==
  ASSUME NEW T, NEW ns, NEW us, NEW rt, NEW lv, NEW p, NEW i, NEW k, NEW drop, NEW v,
         GoodReplace(T, ns, us, rt, lv, p, i, k, drop, v)
  PROVE  Seen(ns, us, rt, Nil)
<1>1. View(T, ns, us, rt, p) /\ Nil \notin Nodes(T) /\ p \in us /\ Kids(T, p) = KidsAt(ns, p)
  BY DEF GoodReplace
<1>2. Tree(T) /\ us \subseteq Nodes(T) /\ p \in Nodes(T)
  BY <1>1 DEF View
<1>3. ~ IsKid(T, p, Nil)
  <2>1. ASSUME NEW j \in 1 .. Len(Kids(T, p)) PROVE Kids(T, p)[j] \in Nodes(T)
    BY <1>2, NodeFacts
  <2>. QED  BY <1>1, <2>1 DEF IsKid
<1>4. KidsSeen(T, ns, us, p, Nil)
  BY <1>1, <1>2, <1>3, SameKids
<1>. QED  BY <1>1, <1>4, WholeSeen

\* In the loop of a split, where the new half hangs nowhere yet.
LEMMA SplitSeen ==
  ASSUME NEW T, NEW ns, NEW us, NEW rt, NEW lv, NEW at, NEW right, NEW k, NEW copy,
         GoodSplit(T, ns, us, rt, lv, at, right, k, copy)
  PROVE  Seen(ns, us, rt, right)
<1>1. PICK p : p = ParentAt(ns, at)
  OBVIOUS
<1>2. View(T, ns, us, rt, p) /\ SplitShown(T, ns, us, rt, at, right, k)
  BY <1>1 DEF GoodSplit
<1>3. at \in us /\ right \in us /\ at # right
  BY <1>2 DEF SplitShown
<1>4. Tree(T) /\ us \subseteq Nodes(T) /\ Nodes(T) \subseteq us \cup {Nil} /\ us \subseteq Node /\ Shaped(ns, us)
      /\ Top(T) = IF Nil \in Nodes(T) THEN Nil ELSE rt
  BY <1>2 DEF View
<1>5. CASE p = Nil
  <2>1. Nil \in Nodes(T) /\ at = rt /\ Kids(T, Nil) = <<at, right>>
    BY <1>1, <1>2, <1>5 DEF SplitShown
  <2>2. Len(Kids(T, Nil)) = 2 /\ Kids(T, Nil)[1] = at /\ Kids(T, Nil)[2] = right
    BY <2>1
  <2>3. Up(T, right) = Nil
    <3>1. 2 \in 1 .. Len(Kids(T, Nil))
      BY <2>2
    <3>. QED  BY <1>4, <2>1, <2>2, <3>1, KidFacts
  <2>4. ASSUME NEW a \in us, ~ LeafAt(ns, a) PROVE KidsSeen(T, ns, us, a, right)
    <3>1. a # p /\ a # Nil /\ a \in Nodes(T)
      BY <1>2, <1>5, ViewFacts
    <3>2. Kids(T, a) = KidsAt(ns, a)
      BY <1>2, <3>1, ViewFacts
    <3>3. ~ IsKid(T, a, right)
      <4>1. ASSUME NEW j \in 1 .. Len(Kids(T, a)), Kids(T, a)[j] = right PROVE FALSE
        <5>1. Up(T, right) = a
          BY <1>4, <3>1, <4>1, KidFacts
        <5>. QED  BY <2>3, <3>1, <5>1
      <4>. QED  BY <4>1 DEF IsKid
    <3>. QED  BY <1>4, <3>2, <3>3, SameKids
  <2>5. ASSUME NEW c \in us, c # rt, c # right PROVE Up(T, c) \in us
    <3>1. c # Top(T) /\ c \in Nodes(T)
      BY <1>2, <1>4, <2>1, <2>5, ViewFacts
    <3>2. Up(T, c) \in Nodes(T) /\ \E j \in 1 .. Len(Kids(T, Up(T, c))) : Kids(T, Up(T, c))[j] = c
      BY <1>4, <3>1, HungFacts
    <3>3. CASE Up(T, c) = Nil
      <4>1. PICK j \in 1 .. 2 : Kids(T, Nil)[j] = c
        BY <2>2, <3>2, <3>3
      <4>2. j = 1 \/ j = 2
        BY <4>1
      <4>. QED  BY <2>1, <2>2, <2>5, <4>1, <4>2
    <3>. QED  BY <1>4, <3>2, <3>3
  <2>. QED  BY <1>2, <2>4, <2>5, SeenBy
<1>6. CASE p # Nil
  <2>1. Nil \notin Nodes(T) /\ p \in us /\ \E j : Inserted(Kids(T, p), KidsAt(ns, p), j + 1, right)
    BY <1>1, <1>2, <1>6 DEF SplitShown
  <2>2. PICK j : Inserted(Kids(T, p), KidsAt(ns, p), j + 1, right)
    BY <2>1
  <2>3. PICK x : x = j + 1
    OBVIOUS
  <2>4. Inserted(Kids(T, p), KidsAt(ns, p), x, right)
    BY <2>2, <2>3
  <2>5. p \in Node /\ p \in Nodes(T)
    BY <1>4, <2>1
  <2>6. Len(KidsAt(ns, p)) \in Nat
    <3>1. KidsAt(ns, p) \in Seq(Node)
      BY <1>4, <2>5, ShapedFacts
    <3>. QED  BY <3>1
  <2>7. KidsSeen(T, ns, us, p, right)
    BY <1>4, <2>1, <2>4, <2>6, FewerKids
  <2>8. Up(T, right) = p
    <3>1. x \in 1 .. Len(Kids(T, p)) /\ Kids(T, p)[x] = right
      BY <2>4 DEF Inserted
    <3>. QED  BY <1>4, <2>5, <3>1, KidFacts
  <2>9. ASSUME NEW a \in us, ~ LeafAt(ns, a) PROVE KidsSeen(T, ns, us, a, right)
    <3>1. CASE a = p
      BY <2>7, <3>1
    <3>2. CASE a # p
      <4>1. Kids(T, a) = KidsAt(ns, a) /\ a \in Nodes(T)
        BY <1>2, <3>2, ViewFacts
      <4>2. ~ IsKid(T, a, right)
        <5>1. ASSUME NEW i \in 1 .. Len(Kids(T, a)), Kids(T, a)[i] = right PROVE FALSE
          <6>1. Up(T, right) = a
            BY <1>4, <4>1, <5>1, KidFacts
          <6>. QED  BY <2>8, <3>2, <6>1
        <5>. QED  BY <5>1 DEF IsKid
      <4>. QED  BY <1>4, <4>1, <4>2, SameKids
    <3>. QED  BY <3>1, <3>2
  <2>10. ASSUME NEW c \in us, c # rt PROVE Up(T, c) \in us
    BY <1>4, <2>1, <2>10, HungFacts
  <2>. QED  BY <1>2, <2>9, <2>10, SeenBy
<1>. QED  BY <1>5, <1>6

\* The invariant implies that parents are known.
LEMMA IInvParents == IInv => ParentsKnown
<1>. SUFFICES ASSUME IInv PROVE ParentsKnown
  OBVIOUS
<1>1. PICK T : Good(T, nodes, used, root, live, job)
  BY DEF IInv
<1>2. PICK ns, us, rt, lv, jb : ns = nodes /\ us = used /\ rt = root /\ lv = live /\ jb = job
  OBVIOUS
<1>3. PICK free : free = IF job.kind = "split" THEN job.right ELSE Nil
  OBVIOUS
<1>4. PICK q : Framed(T, q)
  BY <1>1, GoodFramed
<1>5. us \subseteq Node /\ Shaped(ns, us)
  BY <1>2, <1>4 DEF Framed, View
<1>6. Seen(ns, us, rt, free)
  <2>1. CASE IdleGood(T, ns, us, rt, lv, jb)
    <3>1. GoodIdle(T, ns, us, rt, lv) /\ jb.kind = "none"
      BY <2>1, IdleIs DEF IdleGood
    <3>2. free = Nil
      BY <1>2, <1>3, <3>1
    <3>. QED  BY <3>1, <3>2, IdleSeen
  <2>2. CASE SplitGood(T, ns, us, rt, lv, jb)
    <3>1. PICK at, right, k, copy : /\ copy \in BOOLEAN /\ jb = Split(at, right, <<k, IF copy THEN 0 ELSE 1>>, copy)
                                    /\ GoodSplit(T, ns, us, rt, lv, at, right, k, copy)
      BY <2>2 DEF SplitGood
    <3>2. PICK row : row = <<k, IF copy THEN 0 ELSE 1>>
      OBVIOUS
    <3>3. jb.kind = "split" /\ jb.right = right
      BY <3>1, <3>2, SplitIs
    <3>4. free = right
      BY <1>2, <1>3, <3>3
    <3>. QED  BY <3>1, <3>4, SplitSeen
  <2>3. CASE MergeGood(T, ns, us, rt, lv, jb)
    <3>1. PICK p, k, v, drop : jb = Merge(p, <<k, 1>>, drop, v) /\ GoodMerge(T, ns, us, rt, lv, p, k, drop, v)
      BY <2>3 DEF MergeGood
    <3>2. PICK row : row = <<k, 1>>
      OBVIOUS
    <3>3. jb.kind = "merge"
      BY <3>1, <3>2, MergeIs
    <3>4. free = Nil
      BY <1>2, <1>3, <3>3, KindsApart
    <3>. QED  BY <3>1, <3>4, MergeSeen
  <2>4. CASE ReplaceGood(T, ns, us, rt, lv, jb)
    <3>1. PICK p, i, k, v, drop : jb = Replace(p, i, <<k, 0>>, drop, v) /\ GoodReplace(T, ns, us, rt, lv, p, i, k, drop, v)
      BY <2>4 DEF ReplaceGood
    <3>2. PICK row : row = <<k, 0>>
      OBVIOUS
    <3>3. jb.kind = "replace"
      BY <3>1, <3>2, ReplaceIs
    <3>4. free = Nil
      BY <1>2, <1>3, <3>3, KindsApart
    <3>. QED  BY <3>1, <3>4, ReplaceSeen
  <2>. QED  BY <1>1, <1>2, <2>1, <2>2, <2>3, <2>4 DEF Good
<1>7. ASSUME NEW a \in us
      PROVE  /\ nodes[a].child = KidsAt(ns, a) /\ nodes[a].parent = ParentAt(ns, a) /\ nodes[a].leaf = LeafAt(ns, a)
             /\ DOMAIN nodes[a].child = 1 .. Len(KidsAt(ns, a)) /\ Len(KidsAt(ns, a)) \in Nat
             /\ ~ LeafAt(ns, a) => Len(KidsAt(ns, a)) <= 2 * Degree
  <2>1. /\ KidsAt(ns, a) \in Seq(Node) /\ Len(RowsAt(ns, a)) \in Nat /\ Len(RowsAt(ns, a)) <= MaxRows
        /\ ~ LeafAt(ns, a) => Len(KidsAt(ns, a)) = Len(RowsAt(ns, a)) + 1
    BY <1>5, ShapedFacts
  <2>2. nodes[a].child = KidsAt(ns, a) /\ nodes[a].parent = ParentAt(ns, a) /\ nodes[a].leaf = LeafAt(ns, a)
    BY <1>2 DEF KidsAt, ParentAt, LeafAt
  <2>3. ~ LeafAt(ns, a) => Len(KidsAt(ns, a)) <= 2 * Degree
    <3>1. PICK m, n : m = Len(KidsAt(ns, a)) /\ n = Len(RowsAt(ns, a))
      OBVIOUS
    <3>2. ~ LeafAt(ns, a) => m = n + 1 /\ n <= 2 * Degree - 1 /\ n \in Nat
      BY <2>1, <3>1 DEF MaxRows
    <3>3. ~ LeafAt(ns, a) => m <= 2 * Degree
      BY ONLY <3>2, DegreeAssumption
    <3>. QED  BY <3>1, <3>3
  <2>. QED  BY <2>1, <2>2, <2>3
<1>8. /\ ParentAt(ns, rt) = Nil
      /\ \A a \in us : ~ LeafAt(ns, a) =>
           \A j \in 1 .. Len(KidsAt(ns, a)) : KidsAt(ns, a)[j] \in us => ParentAt(ns, KidsAt(ns, a)[j]) = a /\ KidsAt(ns, a)[j] # free
      /\ \A a \in us : ~ LeafAt(ns, a) =>
           \A i, j \in 1 .. Len(KidsAt(ns, a)) : KidsAt(ns, a)[i] = KidsAt(ns, a)[j] /\ KidsAt(ns, a)[i] \in us => i = j
      /\ \A c \in us : c # rt /\ c # free => \E a \in us : ~ LeafAt(ns, a) /\ In(KidsAt(ns, a), c)
  BY <1>6 DEF Seen
<1>9. Inner = {a \in us : ~ LeafAt(ns, a)}
  BY <1>2, <1>7 DEF Inner
<1>10. nodes[root].parent = Nil
  BY <1>2, <1>8 DEF ParentAt
<1>11. ASSUME NEW a \in Inner, NEW j \in DOMAIN nodes[a].child, nodes[a].child[j] \in used
       PROVE  nodes[nodes[a].child[j]].parent = a
  BY <1>2, <1>7, <1>8, <1>9, <1>11
<1>12. ASSUME NEW c \in used \ {root}, NEW hung,
              hung = {h \in Inner \X (1 .. 2 * Degree) : h[2] <= Len(nodes[h[1]].child) /\ nodes[h[1]].child[h[2]] = c}
       PROVE  IF job.kind = "split" /\ c = job.right THEN hung = {} ELSE \E h \in hung : hung = {h}
  <2>1. ASSUME NEW h \in hung
        PROVE  \E a \in us, j \in 1 .. 2 * Degree : /\ h = <<a, j>> /\ ~ LeafAt(ns, a) /\ j \in 1 .. Len(KidsAt(ns, a))
                                                    /\ KidsAt(ns, a)[j] = c
    <3>1. PICK a \in Inner, j \in 1 .. 2 * Degree : h = <<a, j>>
      BY <1>12
    <3>2. j <= Len(nodes[a].child) /\ nodes[a].child[j] = c
      BY <1>12, <3>1
    <3>3. a \in us /\ ~ LeafAt(ns, a)
      BY <1>9
    <3>4. j \in 1 .. Len(KidsAt(ns, a)) /\ KidsAt(ns, a)[j] = c
      <4>1. PICK m : m = Len(KidsAt(ns, a))
        OBVIOUS
      <4>2. m \in Nat /\ j <= m /\ KidsAt(ns, a)[j] = c
        BY <1>7, <3>2, <3>3, <4>1
      <4>3. j \in 1 .. m
        BY ONLY <4>2, j \in 1 .. 2 * Degree, DegreeAssumption
      <4>. QED  BY <4>1, <4>2, <4>3
    <3>. QED  BY <3>1, <3>3, <3>4
  <2>2. CASE c = free
    <3>1. hung = {}
      BY <1>2, <1>8, <2>1, <2>2
    <3>2. free # Nil
      BY <1>2, <1>5, <1>12, <2>2, NilAssumption
    <3>. QED  BY <1>3, <2>2, <3>1, <3>2
  <2>3. CASE c # free
    <3>1. PICK a \in us : ~ LeafAt(ns, a) /\ In(KidsAt(ns, a), c)
      BY <1>2, <1>8, <2>3
    <3>2. PICK j \in 1 .. Len(KidsAt(ns, a)) : KidsAt(ns, a)[j] = c
      BY <3>1 DEF In
    <3>3. j \in 1 .. 2 * Degree /\ j <= Len(KidsAt(ns, a))
      <4>1. PICK m : m = Len(KidsAt(ns, a))
        OBVIOUS
      <4>2. m \in Nat /\ m <= 2 * Degree /\ j \in 1 .. m
        BY <1>7, <3>1, <3>2, <4>1
      <4>3. j \in 1 .. 2 * Degree /\ j <= m
        BY ONLY <4>2, DegreeAssumption
      <4>. QED  BY <4>1, <4>3
    <3>4. <<a, j>> \in hung
      <4>1. a \in Inner
        BY <1>9, <3>1
      <4>2. j <= Len(nodes[a].child) /\ nodes[a].child[j] = c
        BY <1>7, <3>2, <3>3
      <4>. QED  BY <1>12, <3>3, <4>1, <4>2
    <3>5. ASSUME NEW h \in hung PROVE h = <<a, j>>
      <4>1. PICK b \in us, i \in 1 .. 2 * Degree : /\ h = <<b, i>> /\ ~ LeafAt(ns, b) /\ i \in 1 .. Len(KidsAt(ns, b))
                                                   /\ KidsAt(ns, b)[i] = c
        BY <2>1
      <4>2. c \in us
        BY <1>2
      <4>3. b = a
        BY <1>8, <3>1, <3>2, <4>1, <4>2
      <4>4. i = j
        BY <1>8, <3>1, <3>2, <4>1, <4>2, <4>3
      <4>. QED  BY <4>1, <4>3, <4>4
    <3>6. hung = {<<a, j>>}
      BY <3>4, <3>5
    <3>7. ~ (job.kind = "split" /\ c = job.right)
      BY <1>3, <2>3
    <3>. QED  BY <3>4, <3>6, <3>7
  <2>. QED  BY <2>2, <2>3
<1>13. ASSUME NEW c \in used \ {root}
       PROVE  LET hung == {h \in Inner \X (1 .. 2 * Degree) :
                             h[2] <= Len(nodes[h[1]].child) /\ nodes[h[1]].child[h[2]] = c}
              IN  IF job.kind = "split" /\ c = job.right THEN hung = {} ELSE \E h \in hung : hung = {h}
  <2>1. PICK hung : hung = {h \in Inner \X (1 .. 2 * Degree) : h[2] <= Len(nodes[h[1]].child) /\ nodes[h[1]].child[h[2]] = c}
    OBVIOUS
  <2>2. IF job.kind = "split" /\ c = job.right THEN hung = {} ELSE \E h \in hung : hung = {h}
    BY <1>12, <2>1
  <2>. QED  BY <2>1, <2>2, Zenon
<1>. QED  BY <1>10, <1>11, <1>13, Zenon DEF ParentsKnown

(* The rows and the handlers, as Index has them.                            *)
LeafRows(ns, us) == UNION {Range(RowsAt(ns, a)) : a \in {b \in us : LeafAt(ns, b)}}
Originals(A)     == {<<k, 0>> : k \in A}
Copies(A)        == {r \in A : r[2] > 0}

\* The leaves are those of the tree.
Firm(T, ns, us, rt, p) ==
  /\ View(T, ns, us, rt, p) /\ (p \in us => ~ LeafAt(ns, p)) /\ (Nil \in Nodes(T) => Lev(T, Nil) # 0)

\* The nodes that are not as the tree says are no leaves.
LEMMA GoodFirm ==
  ASSUME NEW T, NEW ns, NEW us, NEW rt, NEW lv, NEW jb, Good(T, ns, us, rt, lv, jb)
  PROVE  \E p : Firm(T, ns, us, rt, p)
<1>1. CASE IdleGood(T, ns, us, rt, lv, jb)
  <2>1. View(T, ns, us, rt, Nil) /\ Nil \notin Nodes(T)
    BY <1>1 DEF IdleGood, GoodIdle
  <2>2. Nil \notin us
    BY <2>1 DEF View
  <2>. QED  BY <2>1, <2>2 DEF Firm
<1>2. CASE SplitGood(T, ns, us, rt, lv, jb)
  <2>1. PICK at, right, k, copy : GoodSplit(T, ns, us, rt, lv, at, right, k, copy)
    BY <1>2 DEF SplitGood
  <2>2. PICK p : p = ParentAt(ns, at)
    OBVIOUS
  <2>3. View(T, ns, us, rt, p) /\ SplitShown(T, ns, us, rt, at, right, k)
    BY <2>1, <2>2 DEF GoodSplit
  <2>4. p # Nil => Nil \notin Nodes(T) /\ ~ LeafAt(ns, p)
    BY <2>2, <2>3 DEF SplitShown
  <2>5. p = Nil => p \notin us /\ Lev(T, Nil) # 0
    <3>1. SUFFICES ASSUME p = Nil PROVE p \notin us /\ Lev(T, Nil) # 0
      OBVIOUS
    <3>2. Tree(T) /\ us \subseteq Node
      BY <2>3 DEF View
    <3>3. Nil \in Nodes(T) /\ Kids(T, Nil) = <<at, right>>
      BY <2>2, <2>3, <3>1 DEF SplitShown
    <3>4. Len(Kids(T, Nil)) # 0
      BY <3>3
    <3>5. Lev(T, Nil) # 0
      BY <3>2, <3>3, <3>4, NodeFacts
    <3>. QED  BY <3>1, <3>2, <3>5, NilAssumption
  <2>. QED  BY <2>3, <2>4, <2>5 DEF Firm
<1>3. CASE MergeGood(T, ns, us, rt, lv, jb)
  BY <1>3 DEF MergeGood, GoodMerge, Firm
<1>4. CASE ReplaceGood(T, ns, us, rt, lv, jb)
  BY <1>4 DEF ReplaceGood, GoodReplace, Firm
<1>. QED  BY <1>1, <1>2, <1>3, <1>4 DEF Good

\* The rows of the leaves are those of the stored keys.
LEMMA LeafRowsAre ==
  ASSUME NEW T, NEW ns, NEW us, NEW rt, NEW lv, NEW jb, Good(T, ns, us, rt, lv, jb)
  PROVE  LeafRows(ns, us) = Originals(LeafKeys(T))
<1>1. PICK p : Firm(T, ns, us, rt, p)
  BY GoodFirm
<1>2. View(T, ns, us, rt, p) /\ (p \in us => ~ LeafAt(ns, p)) /\ (Nil \in Nodes(T) => Lev(T, Nil) # 0)
  BY <1>1 DEF Firm
<1>3. us \subseteq Node /\ Shaped(ns, us) /\ Nodes(T) \subseteq us \cup {Nil}
  BY <1>2 DEF View
<1>4. ASSUME NEW r \in LeafRows(ns, us) PROVE r \in Originals(LeafKeys(T))
  <2>1. PICK a \in us : LeafAt(ns, a) /\ r \in Range(RowsAt(ns, a))
    BY DEF LeafRows
  <2>2. a # p
    BY <1>2, <2>1
  <2>3. RowsAt(ns, a) \in Seq(Row)
    BY <1>3, ShapedFacts
  <2>4. PICK i \in 1 .. Len(RowsAt(ns, a)) : r = RowsAt(ns, a)[i]
    BY <2>1, <2>3 DEF Range
  <2>5. PICK k : k = KeysAt(ns, a)[i]
    OBVIOUS
  <2>6. RowsAt(ns, a)[i] = <<k, 0>> /\ k \in LeafKeys(T)
    BY <1>2, <2>1, <2>2, <2>5, RowInTree
  <2>. QED  BY <2>4, <2>6 DEF Originals
<1>5. ASSUME NEW k \in LeafKeys(T) PROVE <<k, 0>> \in LeafRows(ns, us)
  <2>1. PICK a \in Nodes(T) : Lev(T, a) = 0 /\ Has(T, a, k)
    BY DEF LeafKeys
  <2>2. a \in us
    BY <1>2, <1>3, <2>1
  <2>3. LeafAt(ns, a)
    BY <1>2, <2>1, <2>2, ViewFacts
  <2>4. a # p
    BY <1>2, <2>2, <2>3
  <2>5. Keys(T, a) = KeysAt(ns, a)
    BY <1>2, <2>2, <2>4, ViewFacts
  <2>6. PICK i \in 1 .. Len(KeysAt(ns, a)) : KeysAt(ns, a)[i] = k
    BY <2>1, <2>5 DEF Has
  <2>7. RowsAt(ns, a) \in Seq(Row) /\ i \in 1 .. Len(RowsAt(ns, a))
    <3>1. RowsAt(ns, a) \in Seq(Row) /\ Len(KeysAt(ns, a)) = Len(RowsAt(ns, a))
      BY <1>3, <2>2, ShapedFacts
    <3>. QED  BY <2>6, <3>1
  <2>8. RowsAt(ns, a)[i] = <<k, 0>>
    BY <1>2, <2>2, <2>3, <2>4, <2>6, <2>7, RowInTree
  <2>9. <<k, 0>> \in Range(RowsAt(ns, a))
    <3>1. PICK rows, r : rows = RowsAt(ns, a) /\ r = <<k, 0>>
      OBVIOUS
    <3>2. rows \in Seq(Row) /\ i \in 1 .. Len(rows) /\ rows[i] = r
      BY <2>7, <2>8, <3>1
    <3>3. r \in Range(rows)
      BY ONLY <3>2 DEF Range
    <3>. QED  BY <3>1, <3>3
  <2>. QED  BY <2>2, <2>3, <2>9 DEF LeafRows
<1>. QED  BY <1>4, <1>5 DEF Originals

\* A tree of more than one node stores something.
LEMMA SomeStored ==
  ASSUME NEW T, NEW ns, NEW us, NEW rt, NEW p, View(T, ns, us, rt, p), Nil \notin Nodes(T), AllFilled(ns, us, rt, Nil),
         p \in us, ~ LeafAt(ns, p)
  PROVE  LeafKeys(T) # {}
<1>1. /\ Tree(T) /\ Nodes(T) = us /\ Top(T) = rt /\ us \subseteq Node /\ Shaped(ns, us)
  BY DEF View
<1>2. ASSUME NEW a \in us, Lev(T, a) # 0 PROVE \E c \in us : c # rt /\ Lev(T, c) + 1 = Lev(T, a)
  <2>1. 1 \in 1 .. Len(Kids(T, a))
    <3>1. Len(Kids(T, a)) = Len(Keys(T, a)) + 1 /\ Len(Keys(T, a)) \in Nat
      BY <1>1, <1>2, NodeFacts
    <3>. QED  BY <3>1
  <2>2. PICK c : c = Kids(T, a)[1]
    OBVIOUS
  <2>3. c \in Nodes(T) /\ c # Top(T) /\ Lev(T, c) + 1 = Lev(T, a)
    BY <1>1, <2>1, <2>2, KidFacts
  <2>. QED  BY <1>1, <2>3
<1>3. PICK S : S = {Lev(T, x) : x \in us \ {rt}}
  OBVIOUS
<1>4. S \in SUBSET Nat
  <2>1. \A x \in us : Lev(T, x) \in Nat
    BY <1>1, NodeFacts
  <2>. QED  BY <1>3, <2>1
<1>5. S # {}
  <2>1. Lev(T, p) # 0
    BY <1>1, ViewFacts
  <2>. QED  BY <1>2, <1>3, <2>1
<1>6. PICK n \in S : \A m \in S : n <= m
  BY <1>4, <1>5, LeastNumber
<1>7. PICK x \in us : x # rt /\ Lev(T, x) = n
  BY <1>3, <1>6
<1>8. Lev(T, x) = 0
  <2>1. SUFFICES ASSUME n # 0 PROVE FALSE
    BY <1>7
  <2>2. PICK c \in us : c # rt /\ Lev(T, c) + 1 = n
    BY <1>2, <1>7, <2>1
  <2>3. PICK m : m = Lev(T, c)
    OBVIOUS
  <2>4. m \in S /\ m + 1 = n
    BY <1>3, <2>2, <2>3
  <2>5. m \in Nat /\ n \in Nat /\ n <= m
    BY <1>4, <1>6, <2>4
  <2>. QED  BY ONLY <2>4, <2>5
<1>9. LeafAt(ns, x) /\ x # Nil /\ x \in Node
  BY <1>1, <1>8, ViewFacts
<1>10. x # p /\ Keys(T, x) = KeysAt(ns, x)
  BY <1>9, ViewFacts
<1>11. Len(RowsAt(ns, x)) >= Degree - 1 /\ Len(RowsAt(ns, x)) \in Nat
  BY <1>1, <1>7, <1>9, ShapedFacts DEF AllFilled
<1>12. 1 \in 1 .. Len(RowsAt(ns, x))
  <2>1. PICK m : m = Len(RowsAt(ns, x))
    OBVIOUS
  <2>2. m \in Nat /\ m >= Degree - 1
    BY <1>11, <2>1
  <2>3. 1 \in 1 .. m
    BY ONLY <2>2, DegreeAssumption
  <2>. QED  BY <2>1, <2>3
<1>13. PICK k : k = KeysAt(ns, x)[1]
  OBVIOUS
<1>14. k \in LeafKeys(T)
  BY <1>9, <1>10, <1>12, <1>13, RowInTree
<1>. QED  BY <1>14

\* While a deletion has something to ask, there are copies, and rows in the leaves.
LEMMA SomeLeft ==
  ASSUME NEW T, NEW ns, NEW us, NEW rt, NEW lv, NEW jb, Good(T, ns, us, rt, lv, jb), NEW d, d = TRUE,
         (\E p, row, v : jb = Merge(p, row, d, v)) \/ (\E p, i, row, v : jb = Replace(p, i, row, d, v))
  PROVE  Copies(lv) # {} /\ LeafKeys(T) # {}
<1>1. \E k : <<k, 1>> \in lv
  <2>1. CASE \E p, row, v : jb = Merge(p, row, d, v)
    <3>1. MergeGood(T, ns, us, rt, lv, jb)
      <4>1. PICK q, r, u : jb = Merge(q, r, d, u)
        BY <2>1
      <4>2. jb.kind = "merge" /\ jb.at = q /\ jb.row = r /\ jb.drop = d /\ jb.victim = u
        BY ONLY <4>1, MergeIs
      <4>. QED  BY <4>2, GoodKinds
    <3>2. PICK p, k, v, drop : GoodMerge(T, ns, us, rt, lv, p, k, drop, v)
      BY <3>1 DEF MergeGood
    <3>3. PICK A, B : A = LeafKeys(T) \cup {v} /\ B = InnerKeys(T) \cup {k}
      OBVIOUS
    <3>4. lv = Recs(A, B) /\ k \in B
      BY <3>2, <3>3 DEF GoodMerge
    <3>. QED  BY <3>4, RecsHave
  <2>2. CASE \E p, i, row, v : jb = Replace(p, i, row, d, v)
    <3>1. PICK q, x, r, u : jb = Replace(q, x, r, d, u)
      BY <2>2
    <3>2. jb.kind = "replace" /\ jb.at = q /\ jb.i = x /\ jb.row = r /\ jb.drop = d /\ jb.victim = u
      BY ONLY <3>1, ReplaceIs
    <3>3. PICK p, i, k, v, drop : /\ drop \in BOOLEAN /\ jb = Replace(p, i, <<k, 0>>, drop, v)
                                  /\ GoodReplace(T, ns, us, rt, lv, p, i, k, drop, v)
      BY <3>2, GoodKinds DEF ReplaceGood
    <3>4. PICK row : row = <<k, 0>>
      OBVIOUS
    <3>5. jb.at = p /\ jb.i = i /\ jb.row = row /\ jb.drop = drop
      BY <3>3, <3>4, ReplaceIs
    <3>8. drop
      BY <3>2, <3>5
    <3>6. PICK A, B, e : /\ A = LeafKeys(T) \cup {v} /\ e = KeysAt(ns, p)[i]
                         /\ B = (InnerKeys(T) \ {k}) \cup {KeysAt(ns, p)[i]}
      OBVIOUS
    <3>7. lv = Recs(A, B) /\ e \in B
      BY <3>3, <3>6, <3>8 DEF GoodReplace
    <3>. QED  BY <3>7, RecsHave
  <2>. QED  BY <2>1, <2>2
<1>2. Copies(lv) # {}
  BY <1>1 DEF Copies
<1>3. LeafKeys(T) # {}
  <2>1. MergeGood(T, ns, us, rt, lv, jb) \/ ReplaceGood(T, ns, us, rt, lv, jb)
    <3>1. jb.kind = "merge" \/ jb.kind = "replace"
      <4>1. CASE \E p, row, v : jb = Merge(p, row, d, v)
        <5>1. PICK q, r, u : jb = Merge(q, r, d, u)
          BY <4>1
        <5>2. jb.kind = "merge" /\ jb.at = q /\ jb.row = r /\ jb.drop = d /\ jb.victim = u
          BY ONLY <5>1, MergeIs
        <5>. QED  BY <5>2
      <4>2. CASE \E p, i, row, v : jb = Replace(p, i, row, d, v)
        <5>1. PICK q, x, r, u : jb = Replace(q, x, r, d, u)
          BY <4>2
        <5>2. jb.kind = "replace" /\ jb.at = q /\ jb.i = x /\ jb.row = r /\ jb.drop = d /\ jb.victim = u
          BY ONLY <5>1, ReplaceIs
        <5>. QED  BY <5>2
      <4>. QED  BY <4>1, <4>2
    <3>. QED  BY <3>1, GoodKinds
  <2>2. PICK p : View(T, ns, us, rt, p) /\ Nil \notin Nodes(T) /\ AllFilled(ns, us, rt, Nil) /\ p \in us /\ ~ LeafAt(ns, p)
    <3>1. CASE MergeGood(T, ns, us, rt, lv, jb)
      <4>1. PICK p, k, v, drop : GoodMerge(T, ns, us, rt, lv, p, k, drop, v)
        BY <3>1 DEF MergeGood
      <4>. QED  BY <4>1 DEF GoodMerge
    <3>2. CASE ReplaceGood(T, ns, us, rt, lv, jb)
      <4>1. PICK p, i, k, v, drop : GoodReplace(T, ns, us, rt, lv, p, i, k, drop, v)
        BY <3>2 DEF ReplaceGood
      <4>. QED  BY <4>1 DEF GoodReplace
    <3>. QED  BY <2>1, <3>1, <3>2
  <2>. QED  BY <2>2, SomeStored
<1>. QED  BY <1>2, <1>3

\* The copies among the records.
LEMMA CopiesAre ==
  ASSUME NEW A, NEW B, NEW e
  PROVE  /\ Fewer(A, B) => Copies(A) = Copies(B)
         /\ Copies(B \cup {<<e, 0>>}) = Copies(B) /\ Copies(B \ {<<e, 0>>}) = Copies(B)
         /\ Copies(B \cup {<<e, 1>>}) = Copies(B) \cup {<<e, 1>>}
         /\ Copies(B \ {<<e, 1>>}) = Copies(B) \ {<<e, 1>>}
         /\ <<e, 1>> \in B <=> <<e, 1>> \in Copies(B)
BY DEF Fewer, Copies

\* The rows of stored keys.
LEMMA OriginalsAre ==
  ASSUME NEW A, NEW e
  PROVE  /\ Originals(A \cup {e}) = Originals(A) \cup {<<e, 0>>} /\ Originals(A \ {e}) = Originals(A) \ {<<e, 0>>}
         /\ <<e, 0>> \in Originals(A) <=> e \in A
         /\ <<e, 1>> \notin Originals(A)
         /\ A # {} => Originals(A) # {}
<1>1. /\ <<e, 0>> \in Originals(A) <=> e \in A
      /\ A # {} => Originals(A) # {}
  BY DEF Originals
<1>4. <<e, 1>> \notin Originals(A)
  <2>1. ASSUME NEW k \in A PROVE <<e, 1>> # <<k, 0>>
    OBVIOUS
  <2>. QED  BY <2>1 DEF Originals
<1>2. Originals(A \cup {e}) = Originals(A) \cup {<<e, 0>>}
  <2>1. ASSUME NEW r \in Originals(A \cup {e}) PROVE r \in Originals(A) \/ r = <<e, 0>>
    <3>1. PICK k \in A \cup {e} : r = <<k, 0>>
      BY DEF Originals
    <3>. QED  BY <3>1 DEF Originals
  <2>2. ASSUME NEW r \in Originals(A) PROVE r \in Originals(A \cup {e})
    <3>1. PICK k \in A : r = <<k, 0>>
      BY DEF Originals
    <3>. QED  BY <3>1 DEF Originals
  <2>3. <<e, 0>> \in Originals(A \cup {e})
    BY DEF Originals
  <2>. QED  BY <2>1, <2>2, <2>3
<1>3. Originals(A \ {e}) = Originals(A) \ {<<e, 0>>}
  <2>1. ASSUME NEW r \in Originals(A \ {e}) PROVE r \in Originals(A) /\ r # <<e, 0>>
    <3>1. PICK k \in A \ {e} : r = <<k, 0>>
      BY DEF Originals
    <3>. QED  BY <3>1 DEF Originals
  <2>2. ASSUME NEW r \in Originals(A), r # <<e, 0>> PROVE r \in Originals(A \ {e})
    <3>1. PICK k \in A : r = <<k, 0>>
      BY DEF Originals
    <3>2. k # e
      BY <2>2, <3>1
    <3>. QED  BY <3>1, <3>2 DEF Originals
  <2>. QED  BY <2>1, <2>2
<1>. QED  BY <1>1, <1>2, <1>3, <1>4

\* What the handlers will be asked for.
TodoOf(jb) ==
  CASE jb.kind = "split" /\ jb.copy    -> "copy"
    [] jb.kind = "merge" /\ jb.drop    -> "drop"
    [] jb.kind = "replace" /\ jb.drop  -> "replace"
    [] jb.kind = "replace" /\ ~jb.drop -> "copy"
    [] OTHER                           -> "none"

\* Nothing is asked for between calls.
LEMMA TodoIdle ==
  ASSUME NEW jb, jb = Idle
  PROVE  TodoOf(jb) = "none"
<1>1. jb.kind = "none"
  BY IdleIs
<1>. QED  BY <1>1, KindsApart DEF TodoOf

\* What a split asks for.
LEMMA TodoSplit ==
  ASSUME NEW at, NEW right, NEW row, NEW copy, NEW jb, jb = Split(at, right, row, copy)
  PROVE  /\ copy = TRUE => TodoOf(jb) = "copy"
         /\ copy = FALSE => TodoOf(jb) = "none"
<1>1. jb.kind = "split" /\ jb.at = at /\ jb.right = right /\ jb.row = row /\ jb.copy = copy
  BY SplitIs
<1>2. CASE copy = TRUE
  <2>1. jb.copy
    BY <1>1, <1>2
  <2>. QED  BY <1>1, <1>2, <2>1, KindsApart DEF TodoOf
<1>3. CASE copy = FALSE
  <2>1. ~ jb.copy
    BY <1>1, <1>3
  <2>. QED  BY <1>1, <1>3, <2>1, KindsApart DEF TodoOf
<1>. QED  BY <1>2, <1>3

\* What a merge asks for.
LEMMA TodoMerge ==
  ASSUME NEW at, NEW row, NEW drop, NEW v, NEW jb, jb = Merge(at, row, drop, v)
  PROVE  /\ drop = TRUE => TodoOf(jb) = "drop"
         /\ drop = FALSE => TodoOf(jb) = "none"
<1>1. jb.kind = "merge" /\ jb.at = at /\ jb.row = row /\ jb.drop = drop /\ jb.victim = v
  BY MergeIs
<1>2. CASE drop = TRUE
  <2>1. jb.drop
    BY <1>1, <1>2
  <2>. QED  BY <1>1, <1>2, <2>1, KindsApart DEF TodoOf
<1>3. CASE drop = FALSE
  <2>1. ~ jb.drop
    BY <1>1, <1>3
  <2>. QED  BY <1>1, <1>3, <2>1, KindsApart DEF TodoOf
<1>. QED  BY <1>2, <1>3

\* What a replacement asks for.
LEMMA TodoReplace ==
  ASSUME NEW at, NEW i, NEW row, NEW drop, NEW v, NEW jb, jb = Replace(at, i, row, drop, v)
  PROVE  /\ drop = TRUE => TodoOf(jb) = "replace"
         /\ drop = FALSE => TodoOf(jb) = "copy"
<1>1. jb.kind = "replace" /\ jb.at = at /\ jb.i = i /\ jb.row = row /\ jb.drop = drop /\ jb.victim = v
  BY ReplaceIs
<1>2. CASE drop = TRUE
  <2>1. jb.drop
    BY <1>1, <1>2
  <2>. QED  BY <1>1, <1>2, <2>1, KindsApart DEF TodoOf
<1>3. CASE drop = FALSE
  <2>1. ~ jb.drop
    BY <1>1, <1>3
  <2>. QED  BY <1>1, <1>3, <2>1, KindsApart DEF TodoOf
<1>. QED  BY <1>2, <1>3

\* The state of Index.
StoredNow == UNION {RowsOf(a) : a \in used \ Inner}
CopiesNow == {r \in live : r[2] > 0}
TodoNow ==
  CASE job.kind = "split" /\ job.copy    -> "copy"
    [] job.kind = "merge" /\ job.drop    -> "drop"
    [] job.kind = "replace" /\ job.drop  -> "replace"
    [] job.kind = "replace" /\ ~job.drop -> "copy"
    [] OTHER                             -> "none"

\* The state of Index, in these words.
LEMMA IndexState ==
  /\ StoredNow = LeafRows(nodes, used) /\ StoredNow' = LeafRows(nodes', used')
  /\ CopiesNow = Copies(live) /\ CopiesNow' = Copies(live')
  /\ TodoNow = TodoOf(job) /\ TodoNow' = TodoOf(job')
<1>1. StoredNow = LeafRows(nodes, used)
  <2>1. used \ Inner = {b \in used : LeafAt(nodes, b)}
    BY DEF Inner, LeafAt
  <2>2. \A a : RowsOf(a) = Range(RowsAt(nodes, a))
    BY DEF RowsOf, RowsAt
  <2>. QED  BY <2>1, <2>2 DEF StoredNow, LeafRows
<1>2. StoredNow' = LeafRows(nodes', used')
  <2>1. (used \ Inner)' = {b \in used' : LeafAt(nodes', b)}
    BY DEF Inner, LeafAt
  <2>2. \A a : RowsOf(a)' = Range(RowsAt(nodes', a))
    BY DEF RowsOf, RowsAt
  <2>. QED  BY <2>1, <2>2 DEF StoredNow, LeafRows
<1>3. CopiesNow = Copies(live) /\ CopiesNow' = Copies(live')
  BY DEF CopiesNow, Copies
<1>4. TodoNow = TodoOf(job) /\ TodoNow' = TodoOf(job')
  BY DEF TodoNow, TodoOf
<1>. QED  BY <1>1, <1>2, <1>3, <1>4

\* In the words of the search tree.
LEMMA IndexRows ==
  ASSUME NEW T, Good(T, nodes, used, root, live, job)
  PROVE  /\ StoredNow = Originals(LeafKeys(T)) /\ CopiesNow = Copies(live) /\ TodoNow = TodoOf(job)
         /\ CopiesNow' = Copies(live') /\ TodoNow' = TodoOf(job')
         /\ \A A : Leads(nodes', used', root', live', job', A) => StoredNow' = Originals(A)
<1>1. StoredNow = Originals(LeafKeys(T))
  BY IndexState, LeafRowsAre
<1>2. ASSUME NEW A, Leads(nodes', used', root', live', job', A) PROVE StoredNow' = Originals(A)
  <2>1. PICK ns, us, rt, lv, jb : ns = nodes' /\ us = used' /\ rt = root' /\ lv = live' /\ jb = job'
    OBVIOUS
  <2>2. PICK W : Good(W, ns, us, rt, lv, jb) /\ LeafKeys(W) = A
    BY <1>2, <2>1 DEF Leads
  <2>3. LeafRows(ns, us) = Originals(A)
    BY <2>2, LeafRowsAre
  <2>. QED  BY <2>1, <2>3, IndexState
<1>. QED  BY <1>1, <1>2, IndexState

\* The actions of Index, in these words.
LEMMA IndexActions ==
  ASSUME NEW r \in Row
  PROVE  /\ TodoNow = "none" /\ r \notin StoredNow \cup CopiesNow /\ StoredNow' = StoredNow \cup {r} /\ CopiesNow' = CopiesNow
            /\ TodoNow' \in {"none", "copy"} => Rows!Next
         /\ TodoNow = "none" /\ r \in StoredNow /\ StoredNow' = StoredNow \ {r} /\ CopiesNow' = CopiesNow
            /\ TodoNow' \in {"none", "drop", "replace"} /\ (TodoNow' # "none" => CopiesNow # {} /\ StoredNow' # {}) => Rows!Next
         /\ TodoNow = "copy" /\ r \notin StoredNow \cup CopiesNow /\ CopiesNow' = CopiesNow \cup {r} /\ StoredNow' = StoredNow
            /\ TodoNow' = "none" => Rows!Next
         /\ TodoNow \in {"drop", "replace"} /\ r \in CopiesNow /\ CopiesNow' = CopiesNow \ {r} /\ StoredNow' = StoredNow
            /\ TodoNow' = (IF TodoNow = "replace" THEN "copy" ELSE "none") => Rows!Next
<1>1. ASSUME TodoNow = "none", r \notin StoredNow \cup CopiesNow, StoredNow' = StoredNow \cup {r}, CopiesNow' = CopiesNow,
             TodoNow' \in {"none", "copy"}
      PROVE  Rows!Next
  <2>1. Rows!Insert(r)
    BY <1>1 DEF Rows!Insert, StoredNow, CopiesNow, TodoNow
  <2>. QED  BY <2>1 DEF Rows!Next
<1>2. ASSUME TodoNow = "none", r \in StoredNow, StoredNow' = StoredNow \ {r}, CopiesNow' = CopiesNow,
             TodoNow' \in {"none", "drop", "replace"}, TodoNow' # "none" => CopiesNow # {} /\ StoredNow' # {}
      PROVE  Rows!Next
  <2>1. Rows!Delete(r)
    BY <1>2 DEF Rows!Delete, StoredNow, CopiesNow, TodoNow
  <2>. QED  BY <2>1 DEF Rows!Next
<1>3. ASSUME TodoNow = "copy", r \notin StoredNow \cup CopiesNow, CopiesNow' = CopiesNow \cup {r}, StoredNow' = StoredNow, TodoNow' = "none"
      PROVE  Rows!Next
  <2>1. Rows!Copy(r)
    BY <1>3 DEF Rows!Copy, StoredNow, CopiesNow, TodoNow
  <2>. QED  BY <2>1 DEF Rows!Next
<1>4. ASSUME TodoNow \in {"drop", "replace"}, r \in CopiesNow, CopiesNow' = CopiesNow \ {r}, StoredNow' = StoredNow,
             TodoNow' = (IF TodoNow = "replace" THEN "copy" ELSE "none")
      PROVE  Rows!Next
  <2>1. Rows!Drop(r)
    BY <1>4 DEF Rows!Drop, StoredNow, CopiesNow, TodoNow
  <2>. QED  BY <2>1 DEF Rows!Next
<1>. QED  BY <1>1, <1>2, <1>3, <1>4

\* An insertion is one, and may leave a copy to be made.
LEMMA InsertIndex ==
  ASSUME NEW T, Good(T, nodes, used, root, live, job), NEW k \in Key, Insert(k)
  PROVE  Rows!Next
<1>1. k \notin LeafKeys(T) /\ Leads(nodes', used', root', live', job', LeafKeys(T) \cup {k})
  BY InsertGood
<1>2. PICK r, A, lv, lv2, jb, jb2 : r = <<k, 0>> /\ A = LeafKeys(T) /\ lv = live /\ lv2 = live' /\ jb = job /\ jb2 = job'
  OBVIOUS
<1>3. jb = Idle /\ lv2 = lv \cup {<<k, 0>>}
  BY <1>2, OriginalIs DEF Insert
<1>4. jb2 = Idle \/ \E a, y, row : jb2 = Split(a, y, row, TRUE)
  <2>1. CASE InsertInLeaf(k)
    BY <1>2, <1>3, <2>1 DEF InsertInLeaf
  <2>2. CASE SplitLeaf(k)
    BY <1>2, <2>2, Zenon DEF SplitLeaf
  <2>. QED  BY <2>1, <2>2 DEF Insert
<1>5. TodoOf(jb2) \in {"none", "copy"}
  <2>1. CASE jb2 = Idle
    BY <2>1, TodoIdle
  <2>2. CASE \E a, y, row : jb2 = Split(a, y, row, TRUE)
    <3>1. PICK a, y, row, c : c = TRUE /\ jb2 = Split(a, y, row, c)
      BY <2>2
    <3>. QED  BY <3>1, TodoSplit
  <2>. QED  BY <1>4, <2>1, <2>2
<1>6. TodoNow = "none" /\ TodoNow' \in {"none", "copy"}
  <2>1. TodoOf(jb) = "none"
    BY <1>3, TodoIdle
  <2>. QED  BY <1>2, <1>5, <2>1, IndexState
<1>7. StoredNow = Originals(A) /\ StoredNow' = Originals(A \cup {k})
  BY <1>1, <1>2, IndexRows
<1>8. StoredNow' = StoredNow \cup {r} /\ r \notin StoredNow
  BY <1>1, <1>2, <1>7, OriginalsAre
<1>9. CopiesNow = Copies(lv) /\ CopiesNow' = Copies(lv2)
  BY <1>2, IndexState
<1>10. CopiesNow' = CopiesNow
  BY <1>3, <1>9, CopiesAre
<1>11. r \notin CopiesNow
  BY <1>2, <1>9 DEF Copies
<1>12. r \in Row
  BY <1>2, CopiesAssumption DEF Row
<1>. QED  BY <1>6, <1>8, <1>10, <1>11, <1>12, IndexActions

\* A deletion is one, and may leave a copy to be deleted, or replaced.
LEMMA DeleteIndex ==
  ASSUME NEW T, Good(T, nodes, used, root, live, job), NEW k \in Key, Delete(k)
  PROVE  Rows!Next
<1>1. /\ k \in LeafKeys(T) /\ Leads(nodes', used', root', live', job', LeafKeys(T) \ {k})
      /\ \/ job' = Idle \/ \E p, row : job' = Merge(p, row, TRUE, k)
         \/ \E p, i, row : job' = Replace(p, i, row, TRUE, k)
  BY DeleteGood
<1>2. PICK r, A, ns2, us2, rt2, lv, lv2, jb, jb2 : /\ r = <<k, 0>> /\ A = LeafKeys(T) /\ lv = live /\ lv2 = live' /\ jb = job /\ jb2 = job'
                                                   /\ ns2 = nodes' /\ us2 = used' /\ rt2 = root'
  OBVIOUS
<1>3. jb = Idle
  BY <1>2 DEF Delete
<1>4. lv2 = lv \/ lv2 = lv \ {<<k, 0>>}
  BY <1>2, OriginalIs, Zenon DEF Delete, LeafStays, LeafBorrowsLeft, LeafBorrowsRight, LeafMergesLeft, LeafMergesRight, Reseparate
<1>5. PICK W : Good(W, ns2, us2, rt2, lv2, jb2) /\ LeafKeys(W) = A \ {k}
  BY <1>1, <1>2 DEF Leads
<1>6. CopiesNow = Copies(lv) /\ CopiesNow' = Copies(lv2) /\ TodoNow = TodoOf(jb) /\ TodoNow' = TodoOf(jb2)
  BY <1>2, IndexState
<1>7. CopiesNow' = CopiesNow
  <2>1. CASE lv2 = lv
    BY <1>6, <2>1
  <2>2. CASE lv2 = lv \ {<<k, 0>>}
    <3>1. Copies(lv \ {<<k, 0>>}) = Copies(lv)
      BY CopiesAre
    <3>. QED  BY <1>6, <2>2, <3>1
  <2>. QED  BY <1>4, <2>1, <2>2
<1>8. StoredNow = Originals(A) /\ StoredNow' = Originals(A \ {k})
  BY <1>1, <1>2, IndexRows
<1>9. StoredNow' = StoredNow \ {r} /\ r \in StoredNow
  BY <1>1, <1>2, <1>8, OriginalsAre
<1>10. /\ TodoOf(jb2) \in {"none", "drop", "replace"}
       /\ TodoOf(jb2) # "none" => Copies(lv2) # {} /\ LeafKeys(W) # {}
  <2>1. CASE jb2 = Idle
    BY <2>1, TodoIdle
  <2>2. CASE \E p, row : jb2 = Merge(p, row, TRUE, k)
    <3>1. PICK p, row, d : d = TRUE /\ jb2 = Merge(p, row, d, k)
      BY <2>2
    <3>2. TodoOf(jb2) = "drop"
      BY <3>1, TodoMerge
    <3>3. \E q, rr, v : jb2 = Merge(q, rr, d, v)
      BY <3>1
    <3>4. Copies(lv2) # {} /\ LeafKeys(W) # {}
      BY ONLY <1>5, <3>1, <3>3, SomeLeft
    <3>. QED  BY <3>2, <3>4
  <2>3. CASE \E p, i, row : jb2 = Replace(p, i, row, TRUE, k)
    <3>1. PICK p, i, row, d : d = TRUE /\ jb2 = Replace(p, i, row, d, k)
      BY <2>3
    <3>2. TodoOf(jb2) = "replace"
      BY <3>1, TodoReplace
    <3>3. \E q, j, rr, v : jb2 = Replace(q, j, rr, d, v)
      BY <3>1
    <3>4. Copies(lv2) # {} /\ LeafKeys(W) # {}
      BY ONLY <1>5, <3>1, <3>3, SomeLeft
    <3>. QED  BY <3>2, <3>4
  <2>. QED  BY <1>1, <1>2, <2>1, <2>2, <2>3
<1>11. TodoNow = "none"
  BY <1>3, <1>6, TodoIdle
<1>12. TodoNow' \in {"none", "drop", "replace"} /\ (TodoNow' # "none" => CopiesNow # {} /\ StoredNow' # {})
  BY <1>5, <1>6, <1>7, <1>8, <1>10, OriginalsAre
<1>13. r \in Row
  BY <1>2, CopiesAssumption DEF Row
<1>. QED  BY <1>7, <1>9, <1>11, <1>12, <1>13, IndexActions

\* The records are rows, after a step as well.
LEMMA RowsOnly == IInv => live \subseteq Row
BY LiveRows DEF IInv

\* After a step, the records are rows too.
LEMMA RowsStay ==
  ASSUME NEW A, Leads(nodes', used', root', live', job', A)
  PROVE  live' \subseteq Row
<1>1. IInv'
  BY LeadsOn
<1>2. IInv' => (live \subseteq Row)'
  BY RowsOnly, PTL
<1>. QED  BY <1>1, <1>2

\* A step of a loop leaves the stored rows as they are.
LEMMA StoredStays ==
  ASSUME NEW T, Good(T, nodes, used, root, live, job), Leads(nodes', used', root', live', job', LeafKeys(T))
  PROVE  StoredNow' = StoredNow /\ \A e : <<e, 1>> \notin StoredNow
<1>1. StoredNow = Originals(LeafKeys(T)) /\ StoredNow' = Originals(LeafKeys(T))
  BY IndexRows
<1>. QED  BY <1>1, OriginalsAre

\* What is asked for, job by job.
LEMMA TodoSplits ==
  ASSUME NEW jb, jb.kind = "split"
  PROVE  /\ jb.copy => TodoOf(jb) = "copy"
         /\ ~ jb.copy => TodoOf(jb) = "none"
BY KindsApart DEF TodoOf

\* What a merge asks for.
LEMMA TodoMerges ==
  ASSUME NEW jb, jb.kind = "merge"
  PROVE  /\ jb.drop => TodoOf(jb) = "drop"
         /\ ~ jb.drop => TodoOf(jb) = "none"
BY KindsApart DEF TodoOf

\* What a replacement asks for.
LEMMA TodoReplaces ==
  ASSUME NEW jb, jb.kind = "replace"
  PROVE  /\ jb.drop => TodoOf(jb) = "replace"
         /\ ~ jb.drop => TodoOf(jb) = "copy"
BY KindsApart DEF TodoOf

\* A separator going up is a copy made, or a row that was one.
LEMMA SplitIndex ==
  ASSUME NEW T, Good(T, nodes, used, root, live, job), SplitStep
  PROVE  Rows!Next \/ UNCHANGED <<StoredNow, CopiesNow, TodoNow>>
<1>1. /\ Leads(nodes', used', root', live', job', LeafKeys(T))
      /\ job' = Idle \/ \E a, b, row : job' = Split(a, b, row, FALSE)
  BY SplitStepGood
<1>2. PICK e : live' = live \cup {<<e, 1>>} /\ (job.copy => <<e, 1>> \notin live) /\ (~ job.copy => <<e, 1>> \in live)
  BY SplitStepGood
<1>3. PICK lv, lv2, jb, jb2 : lv = live /\ lv2 = live' /\ jb = job /\ jb2 = job'
  OBVIOUS
<1>4. TodoOf(jb2) = "none"
  <2>1. CASE jb2 = Idle
    BY <2>1, TodoIdle
  <2>2. CASE \E a, b, row : jb2 = Split(a, b, row, FALSE)
    <3>1. PICK a, b, row, c : c = FALSE /\ jb2 = Split(a, b, row, c)
      BY <2>2
    <3>. QED  BY <3>1, TodoSplit
  <2>. QED  BY <1>1, <1>3, <2>1, <2>2
<1>5. CopiesNow = Copies(lv) /\ CopiesNow' = Copies(lv2) /\ TodoNow = TodoOf(jb) /\ TodoNow' = "none"
  BY <1>3, <1>4, IndexState
<1>6. StoredNow' = StoredNow /\ <<e, 1>> \notin StoredNow
  BY <1>1, StoredStays
<1>7. CASE job.copy
  <2>1. TodoNow = "copy"
    BY <1>3, <1>5, <1>7, TodoSplits DEF SplitStep
  <2>2. <<e, 1>> \notin CopiesNow /\ CopiesNow' = CopiesNow \cup {<<e, 1>>}
    BY <1>2, <1>3, <1>5, <1>7, CopiesAre
  <2>3. <<e, 1>> \in Row
    BY <1>1, <1>2, RowsStay
  <2>. QED  BY <1>5, <1>6, <2>1, <2>2, <2>3, IndexActions
<1>8. CASE ~ job.copy
  <2>1. TodoNow = "none"
    BY <1>3, <1>5, <1>8, TodoSplits DEF SplitStep
  <2>2. CopiesNow' = CopiesNow
    BY <1>2, <1>3, <1>5, <1>8
  <2>. QED  BY <1>5, <1>6, <2>1, <2>2
<1>. QED  BY <1>7, <1>8

\* A separator coming down is a copy deleted, if the leaves were merged, or one
\* that has moved within the tree.
LEMMA MergeIndex ==
  ASSUME NEW T, Good(T, nodes, used, root, live, job), MergeStep
  PROVE  Rows!Next \/ UNCHANGED <<StoredNow, CopiesNow, TodoNow>>
<1>1. /\ Leads(nodes', used', root', live', job', LeafKeys(T))
      /\ job' = Idle \/ \E q, row, v : job' = Merge(q, row, FALSE, v)
  BY MergeStepGood
<1>2. /\ job.drop => \E e : <<e, 1>> \in live /\ Fewer(live', live \ {<<e, 1>>})
      /\ ~ job.drop => Fewer(live', live)
  BY MergeStepGood
<1>3. PICK lv, lv2, jb, jb2 : lv = live /\ lv2 = live' /\ jb = job /\ jb2 = job'
  OBVIOUS
<1>4. TodoOf(jb2) = "none"
  <2>1. CASE jb2 = Idle
    BY <2>1, TodoIdle
  <2>2. CASE \E q, row, v : jb2 = Merge(q, row, FALSE, v)
    <3>1. PICK q, row, v, d : d = FALSE /\ jb2 = Merge(q, row, d, v)
      BY <2>2
    <3>. QED  BY <3>1, TodoMerge
  <2>. QED  BY <1>1, <1>3, <2>1, <2>2
<1>5. CopiesNow = Copies(lv) /\ CopiesNow' = Copies(lv2) /\ TodoNow = TodoOf(jb) /\ TodoNow' = "none"
  BY <1>3, <1>4, IndexState
<1>6. StoredNow' = StoredNow
  BY <1>1, StoredStays
<1>7. CASE job.drop
  <2>1. TodoNow = "drop"
    BY <1>3, <1>5, <1>7, TodoMerges DEF MergeStep
  <2>2. PICK e : <<e, 1>> \in lv /\ Fewer(lv2, lv \ {<<e, 1>>})
    BY <1>2, <1>3, <1>7
  <2>3. Copies(lv2) = Copies(lv \ {<<e, 1>>})
    <3>1. PICK B : B = lv \ {<<e, 1>>}
      OBVIOUS
    <3>2. Fewer(lv2, B)
      BY <2>2, <3>1
    <3>3. Copies(lv2) = Copies(B)
      BY ONLY <3>2, CopiesAre
    <3>. QED  BY <3>1, <3>3
  <2>4. Copies(lv \ {<<e, 1>>}) = Copies(lv) \ {<<e, 1>>} /\ <<e, 1>> \in Copies(lv)
    BY <2>2 DEF Copies
  <2>5. <<e, 1>> \in Row
    BY <1>3, <2>2, LiveRows
  <2>. QED  BY <1>5, <1>6, <2>1, <2>3, <2>4, <2>5, IndexActions
<1>8. CASE ~ job.drop
  <2>1. TodoNow = "none"
    BY <1>3, <1>5, <1>8, TodoMerges DEF MergeStep
  <2>2. Fewer(lv2, lv)
    BY <1>2, <1>3, <1>8
  <2>3. CopiesNow' = CopiesNow
    BY <1>5, <2>2, CopiesAre
  <2>. QED  BY <1>5, <1>6, <2>1, <2>3
<1>. QED  BY <1>7, <1>8

\* delete_handler on the old separator is a drop.
LEMMA DropIndex ==
  ASSUME NEW T, Good(T, nodes, used, root, live, job), DropSeparator
  PROVE  Rows!Next
<1>1. Leads(nodes', used', root', live', job', LeafKeys(T)) /\ \E p, i, row, v : job' = Replace(p, i, row, FALSE, v)
  BY DropGood
<1>2. PICK e : <<e, 1>> \in live /\ live' = live \ {<<e, 1>>}
  BY DropGood
<1>3. PICK lv, lv2, jb, jb2 : lv = live /\ lv2 = live' /\ jb = job /\ jb2 = job'
  OBVIOUS
<1>4. TodoOf(jb2) = "copy"
  <2>1. PICK p, i, row, v, d : d = FALSE /\ jb2 = Replace(p, i, row, d, v)
    BY <1>1, <1>3
  <2>. QED  BY <2>1, TodoReplace
<1>5. CopiesNow = Copies(lv) /\ CopiesNow' = Copies(lv2) /\ TodoNow = TodoOf(jb) /\ TodoNow' = "copy"
  BY <1>3, <1>4, IndexState
<1>6. StoredNow' = StoredNow
  BY <1>1, StoredStays
<1>7. TodoNow = "replace"
  BY <1>3, <1>5, TodoReplaces DEF DropSeparator
<1>8. Copies(lv \ {<<e, 1>>}) = Copies(lv) \ {<<e, 1>>} /\ <<e, 1>> \in Copies(lv)
  BY <1>2, <1>3 DEF Copies
<1>9. <<e, 1>> \in Row
  BY <1>2, LiveRows
<1>. QED  BY <1>2, <1>3, <1>5, <1>6, <1>7, <1>8, <1>9, IndexActions

\* insert_handler on the new separator is a copy.
LEMMA CopyIndex ==
  ASSUME NEW T, Good(T, nodes, used, root, live, job), CopySeparator
  PROVE  Rows!Next
<1>1. Leads(nodes', used', root', live', job', LeafKeys(T)) /\ job' = Idle
  BY CopyGood
<1>2. PICK e : <<e, 1>> \notin live /\ Fewer(live', live \cup {<<e, 1>>})
  BY CopyGood
<1>3. PICK lv, lv2, jb, jb2 : lv = live /\ lv2 = live' /\ jb = job /\ jb2 = job'
  OBVIOUS
<1>4. CopiesNow = Copies(lv) /\ CopiesNow' = Copies(lv2) /\ TodoNow = TodoOf(jb) /\ TodoNow' = "none"
  BY <1>1, <1>3, IndexState, TodoIdle
<1>5. StoredNow' = StoredNow /\ <<e, 1>> \notin StoredNow
  BY <1>1, StoredStays
<1>6. TodoNow = "copy"
  BY <1>3, <1>4, TodoReplaces DEF CopySeparator
<1>7. Copies(lv2) = Copies(lv) \cup {<<e, 1>>} /\ <<e, 1>> \notin Copies(lv)
  <2>1. Copies(lv2) = Copies(lv \cup {<<e, 1>>})
    BY <1>2, <1>3, CopiesAre
  <2>. QED  BY <1>2, <1>3, <2>1, CopiesAre
<1>8. <<e, 1>> \in Row
  <2>1. <<e, 1>> \in live'
    BY <1>3, <1>7 DEF Copies
  <2>. QED  BY <1>1, <2>1, RowsStay
<1>. QED  BY <1>4, <1>5, <1>6, <1>7, <1>8, IndexActions

\* The whole step.
LEMMA NextIndex ==
  ASSUME IInv, [Next]_vars
  PROVE  Rows!Next \/ UNCHANGED <<StoredNow, CopiesNow, TodoNow>>
<1>1. PICK T : Good(T, nodes, used, root, live, job)
  BY DEF IInv
<1>2. CASE \E k \in Key : Insert(k)
  BY <1>1, <1>2, InsertIndex
<1>3. CASE \E k \in Key : Delete(k)
  BY <1>1, <1>3, DeleteIndex
<1>4. CASE SplitStep
  BY <1>1, <1>4, SplitIndex
<1>5. CASE MergeStep
  BY <1>1, <1>5, MergeIndex
<1>6. CASE DropSeparator
  BY <1>1, <1>6, DropIndex
<1>7. CASE CopySeparator
  BY <1>1, <1>7, CopyIndex
<1>8. CASE UNCHANGED vars
  <2>1. StoredNow' = StoredNow /\ CopiesNow' = CopiesNow /\ TodoNow' = TodoNow
    BY <1>8, IndexState DEF vars
  <2>. QED  BY <2>1
<1>. QED  BY <1>2, <1>3, <1>4, <1>5, <1>6, <1>7, <1>8 DEF Next

\* The empty tree is the empty index.
LEMMA InitIndex == Init => Rows!Init
<1>. SUFFICES ASSUME Init PROVE Rows!Init
  OBVIOUS
<1>1. nodes = [a \in Node |-> Blank] /\ used = {1} /\ live = {} /\ job = Idle
  BY DEF Init
<1>2. StoredNow = {}
  <2>1. 1 \in Node
    BY SetsAssumption DEF Page
  <2>2. PICK R : R = Blank.rows
    OBVIOUS
  <2>3. R = << >>
    BY <2>2 DEF Blank
  <2>4. Range(R) = {}
    BY <2>3 DEF Range
  <2>5. RowsOf(1) = Range(R)
    BY <1>1, <2>1, <2>2 DEF RowsOf
  <2>. QED  BY <1>1, <2>4, <2>5 DEF StoredNow
<1>3. CopiesNow = {}
  BY <1>1 DEF CopiesNow
<1>4. TodoNow = "none"
  BY <1>1, IndexState, TodoIdle
<1>. QED  BY <1>2, <1>3, <1>4 DEF Rows!Init, StoredNow, CopiesNow, TodoNow

\* b_tree.c keeps the promise of Index to myjql.c: each call inserts or deletes
\* one row, and each handler call it makes copies or drops one row of another key
\* than those there (121-714).
THEOREM Implementation == Spec => ImplementsIndex
<1>1. Init => Rows!Init
  BY InitIndex
<1>2. IInv /\ [Next]_vars => [Rows!Next]_<<StoredNow, CopiesNow, TodoNow>>
  BY NextIndex
<1>. QED  BY <1>1, <1>2, SearchTree, PTL DEF Spec, ImplementsIndex, Rows!Spec, StoredNow, CopiesNow, TodoNow

\* Every field of every node, the job and the records have their types.
THEOREM TypesKept == Spec => []TypeOK
BY SearchTree, IInvTypeOK, PTL

\* No split, borrowing or merge leaves a node with too few rows (433, 552).
THEOREM FilledKept == Spec => []Filled
BY SearchTree, IInvFilled, PTL

\* Between calls, a search finds exactly the stored keys (57-116).
THEOREM SearchKept == Spec => []SearchFinds
BY SearchTree, IInvSearch, PTL

\* Between calls, the record table holds the rows of the stored keys and one copy
\* per separator: no handler call is missed or made twice (237, 323, 355, 461-462, 541-542).
THEOREM RecordsKept == Spec => []RecordsMatch
BY SearchTree, IInvRecords, PTL

\* Every node knows the one place it hangs from, also in the loops (290-303,
\* 584-586, 648-653).
THEOREM ParentsKept == Spec => []ParentsKnown
BY SearchTree, IInvParents, PTL

(* How deep the leaves are, and the bounds of what hangs below a row.       *)
\* depth of Balanced, unfolded once.
Deep(ns, d, a) == IF LeafAt(ns, a) THEN 0 ELSE 1 + d[KidsAt(ns, a)[1]]

\* The first child of a nonleaf node is one level below it.
LEMMA FirstKid ==
  ASSUME NEW T, NEW ns, NEW us, NEW rt, Shown(T, ns, us, rt), NEW a \in us, ~ LeafAt(ns, a)
  PROVE  /\ KidsAt(ns, a)[1] \in us /\ Lev(T, a) = 1 + Lev(T, KidsAt(ns, a)[1])
         /\ Lev(T, KidsAt(ns, a)[1]) \in Nat /\ Lev(T, a) \in Nat
<1>1. Tree(T) /\ Nodes(T) = us /\ Kids(T, a) = KidsAt(ns, a) /\ Lev(T, a) # 0
  BY ShownFacts
<1>2. PICK n, m : n = Len(Kids(T, a)) /\ m = Len(Keys(T, a))
  OBVIOUS
<1>3. n = m + 1 /\ m \in Nat
  BY <1>1, <1>2, NodeFacts
<1>4. 1 \in 1 .. Len(Kids(T, a))
  BY <1>2, <1>3
<1>5. PICK c, x, y : c = Kids(T, a)[1] /\ x = Lev(T, c) /\ y = Lev(T, a)
  OBVIOUS
<1>6. c \in us /\ x + 1 = y
  BY <1>1, <1>4, <1>5, KidFacts
<1>7. x \in Nat /\ y \in Nat
  BY <1>1, <1>5, <1>6, NodeFacts
<1>8. y = 1 + x
  BY ONLY <1>6, <1>7
<1>. QED  BY <1>1, <1>5, <1>6, <1>7, <1>8

\* The levels are such depths.
LEMMA DepthExists ==
  ASSUME NEW T, NEW ns, NEW us, NEW rt, Shown(T, ns, us, rt)
  PROVE  \E d : d = [a \in Node |-> Deep(ns, d, a)]
<1>1. /\ Tree(T) /\ Nodes(T) = us /\ us \subseteq Node /\ Shaped(ns, us)
      /\ \A a \in us : Lev(T, a) = 0 <=> LeafAt(ns, a)
  BY ShownFacts
<1>2. PICK d : d = [a \in Node |-> IF a \in us THEN Lev(T, a) ELSE 0]
  OBVIOUS
<1>3. ASSUME NEW a \in Node PROVE d[a] = Deep(ns, d, a)
  <2>1. CASE LeafAt(ns, a)
    BY <1>1, <1>2, <2>1 DEF Deep
  <2>2. CASE ~ LeafAt(ns, a)
    <3>1. a \in us
      BY <1>1, <2>2 DEF Shaped
    <3>2. PICK c : c = KidsAt(ns, a)[1]
      OBVIOUS
    <3>3. c \in us /\ Lev(T, a) = 1 + Lev(T, c)
      BY <2>2, <3>1, <3>2, FirstKid
    <3>4. d[a] = Lev(T, a) /\ d[c] = Lev(T, c)
      BY <1>1, <1>2, <3>1, <3>3
    <3>. QED  BY <2>2, <3>2, <3>3, <3>4 DEF Deep
  <2>. QED  BY <2>1, <2>2
<1>4. DOMAIN d = Node /\ d = [a \in Node |-> d[a]]
  BY <1>2
<1>5. d = [a \in Node |-> Deep(ns, d, a)]
  BY ONLY <1>3, <1>4, Zenon
<1>. QED  BY ONLY <1>5, Zenon

\* And nothing else is.
LEMMA DepthIs ==
  ASSUME NEW T, NEW ns, NEW us, NEW rt, Shown(T, ns, us, rt), NEW d, \A a \in Node : d[a] = Deep(ns, d, a)
  PROVE  \A a \in us : d[a] = Lev(T, a)
<1>1. /\ Tree(T) /\ Nodes(T) = us /\ us \subseteq Node
      /\ \A a \in us : Lev(T, a) = 0 <=> LeafAt(ns, a)
  BY ShownFacts
<1>2. PICK height : height = [a \in us |-> Lev(T, a)]
  OBVIOUS
<1>3. \A a \in us : height[a] \in Nat /\ height[a] = Lev(T, a)
  BY <1>1, <1>2, NodeFacts
<1>4. PICK G : G = {a \in us : d[a] = Lev(T, a)}
  OBVIOUS
<1>5. ASSUME NEW a \in us, \A y \in us : height[y] < height[a] => y \in G PROVE a \in G
  <2>1. d[a] = Deep(ns, d, a)
    BY <1>1
  <2>2. CASE LeafAt(ns, a)
    BY <1>1, <1>4, <2>1, <2>2 DEF Deep
  <2>3. CASE ~ LeafAt(ns, a)
    <3>1. PICK c : c = KidsAt(ns, a)[1]
      OBVIOUS
    <3>2. c \in us /\ Lev(T, a) = 1 + Lev(T, c)
      BY <2>3, <3>1, FirstKid
    <3>3. height[c] < height[a]
      <4>1. PICK x, y : x = height[c] /\ y = height[a]
        OBVIOUS
      <4>2. x \in Nat /\ y \in Nat /\ y = 1 + x
        BY <1>3, <3>2, <4>1
      <4>. QED  BY <4>1, <4>2
    <3>4. d[c] = Lev(T, c)
      BY <1>4, <1>5, <3>2, <3>3
    <3>5. d[a] = 1 + d[c]
      BY <2>1, <2>3, <3>1 DEF Deep
    <3>. QED  BY <1>4, <3>2, <3>4, <3>5
  <2>. QED  BY <2>2, <2>3
<1>6. us \subseteq G
  BY <1>3, <1>5, Descent
<1>. QED  BY <1>4, <1>6

\* fits of Balanced, unfolded once: at is a node and the bounds of what it holds.
Spot == Node \X (Key \cup {0}) \X (Key \cup {Nil})
Below(rows, low, j)  == IF j = 1 THEN low ELSE rows[j - 1][1]
Above(rows, high, j) == IF j = Len(rows) + 1 THEN high ELSE rows[j][1]
KidSpot(ns, at, j) == <<KidsAt(ns, at[1])[j], Below(RowsAt(ns, at[1]), at[2], j), Above(RowsAt(ns, at[1]), at[3], j)>>
InBounds(rows, low, high) ==
  \A j \in DOMAIN rows : /\ low <= rows[j][1] /\ (high # Nil => rows[j][1] < high)
                         /\ j > 1 => rows[j - 1][1] < rows[j][1]
Fit(ns, d, f, at) ==
  /\ InBounds(RowsAt(ns, at[1]), at[2], at[3])
  /\ ~ LeafAt(ns, at[1]) => \A j \in DOMAIN KidsAt(ns, at[1]) :
                              /\ d[KidsAt(ns, at[1])[j]] = d[at[1]] - 1
                              /\ f[KidSpot(ns, at, j)]

\* A child, and the rows on either side of it.
LEMMA KidSpotIs ==
  ASSUME NEW T, NEW ns, NEW us, NEW rt, Shown(T, ns, us, rt), NEW at \in Spot, at[1] \in us, ~ LeafAt(ns, at[1]),
         NEW j \in DOMAIN KidsAt(ns, at[1])
  PROVE  /\ KidSpot(ns, at, j) \in Spot /\ KidSpot(ns, at, j)[1] = KidsAt(ns, at[1])[j]
         /\ KidsAt(ns, at[1])[j] \in us
         /\ Lev(T, KidsAt(ns, at[1])[j]) + 1 = Lev(T, at[1])
<1>1. PICK a, low, high : a \in Node /\ low \in Key \cup {0} /\ high \in Key \cup {Nil} /\ a = at[1] /\ low = at[2] /\ high = at[3]
  BY DEF Spot
<1>2. Tree(T) /\ Nodes(T) = us /\ us \subseteq Node /\ Kids(T, a) = KidsAt(ns, a) /\ Lev(T, a) # 0 /\ a \in us /\ ~ LeafAt(ns, a)
  BY <1>1, ShownFacts
<1>3. PICK rows, kids, n : rows = RowsAt(ns, a) /\ kids = KidsAt(ns, a) /\ n = Len(rows)
  OBVIOUS
<1>4. rows \in Seq(Row) /\ n \in Nat /\ Len(Keys(T, a)) = n /\ \A i \in 1 .. n : rows[i][1] \in Key
  <2>1. rows \in Seq(Row) /\ n \in Nat /\ Len(Keys(T, a)) = n /\ \A i \in 1 .. n : Keys(T, a)[i] = rows[i][1]
    BY <1>2, <1>3, RowsInOrder
  <2>2. \A i \in 1 .. Len(Keys(T, a)) : Keys(T, a)[i] \in Key
    BY <1>2, NodeFacts
  <2>. QED  BY <2>1, <2>2
<1>5. kids \in Seq(us) /\ Len(kids) = n + 1 /\ j \in 1 .. n + 1
  <2>1. Kids(T, a) \in Seq(Nodes(T)) /\ Len(Kids(T, a)) = Len(Keys(T, a)) + 1
    BY <1>2, NodeFacts
  <2>2. kids \in Seq(us) /\ Len(kids) = n + 1 /\ j \in DOMAIN kids
    BY <1>1, <1>2, <1>3, <1>4, <2>1
  <2>. QED  BY ONLY <2>2
<1>6. PICK c : c = kids[j]
  OBVIOUS
<1>7. c \in us /\ Lev(T, c) + 1 = Lev(T, a)
  BY <1>2, <1>3, <1>5, <1>6, KidFacts
<1>8. Below(rows, low, j) \in Key \cup {0}
  <2>1. CASE j = 1
    BY <1>1, <2>1 DEF Below
  <2>2. CASE j # 1
    <3>1. PICK i : i = j - 1
      OBVIOUS
    <3>2. i \in 1 .. n
      BY <1>4, <1>5, <2>2, <3>1
    <3>. QED  BY <1>4, <2>2, <3>1, <3>2 DEF Below
  <2>. QED  BY <2>1, <2>2
<1>9. Above(rows, high, j) \in Key \cup {Nil}
  <2>1. CASE j = n + 1
    BY <1>1, <1>3, <2>1 DEF Above
  <2>2. CASE j # n + 1
    <3>1. j \in 1 .. n
      BY <1>4, <1>5, <2>2
    <3>. QED  BY <1>3, <1>4, <2>2, <3>1 DEF Above
  <2>. QED  BY <2>1, <2>2
<1>10. KidSpot(ns, at, j) = <<c, Below(rows, low, j), Above(rows, high, j)>>
  BY <1>1, <1>3, <1>6 DEF KidSpot
<1>11. KidSpot(ns, at, j) \in Spot
  BY <1>2, <1>7, <1>8, <1>9, <1>10 DEF Spot
<1>12. KidSpot(ns, at, j)[1] = c
  BY <1>10
<1>. QED  BY <1>1, <1>3, <1>6, <1>7, <1>11, <1>12

\* Functions that agree on the children are unfolded alike.
LEMMA FitSame ==
  ASSUME NEW ns, NEW d, NEW f, NEW g, NEW at,
         ~ LeafAt(ns, at[1]) => \A j \in DOMAIN KidsAt(ns, at[1]) : f[KidSpot(ns, at, j)] = g[KidSpot(ns, at, j)]
  PROVE  Fit(ns, d, f, at) = Fit(ns, d, g, at)
<1>1. Fit(ns, d, f, at) <=> Fit(ns, d, g, at)
  BY Zenon DEF Fit
<1>2. Fit(ns, d, f, at) \in BOOLEAN /\ Fit(ns, d, g, at) \in BOOLEAN
  BY DEF Fit
<1>. QED  BY <1>1, <1>2

\* Level by level, there is such a function.
FitsBelow(T, ns, us, d, n) ==
  \E f : \A at \in Spot : (at[1] \in us => Lev(T, at[1]) <= n) => f[at] = Fit(ns, d, f, at)

\* There is such a function, down from any level.
LEMMA FitsTo ==
  ASSUME NEW T, NEW ns, NEW us, NEW rt, Shown(T, ns, us, rt), NEW d, NEW n \in Nat
  PROVE  FitsBelow(T, ns, us, d, n)
<1>. DEFINE Ready(f, m) == \A at \in Spot : (at[1] \in us => Lev(T, at[1]) <= m) => f[at] = Fit(ns, d, f, at)
            S == {m \in Nat : ~ \E f : Ready(f, m)}
<1>1. /\ us \subseteq Node /\ \A a \in us : Lev(T, a) \in Nat /\ (Lev(T, a) = 0 <=> LeafAt(ns, a))
      /\ \A a \in Node \ us : LeafAt(ns, a)
  <2>1. Tree(T) /\ Nodes(T) = us /\ us \subseteq Node /\ Shaped(ns, us) /\ \A a \in us : Lev(T, a) = 0 <=> LeafAt(ns, a)
    BY ShownFacts
  <2>2. \A a \in us : Lev(T, a) \in Nat
    BY <2>1, NodeFacts
  <2>3. \A a \in Node \ us : LeafAt(ns, a)
    BY <2>1 DEF Shaped
  <2>. QED  BY <2>1, <2>2, <2>3
<1>2. \A at \in Spot : at[1] \in Node
  BY DEF Spot
<1>3. ASSUME S # {} PROVE FALSE
  <2>1. PICK m \in S : \A x \in S : m <= x
    <3>1. S \subseteq Nat
      OBVIOUS
    <3>. HIDE DEF S
    <3>. QED  BY <1>3, <3>1, LeastNumber
  <2>2. m \in Nat
    OBVIOUS
  <2>3. CASE m = 0
    <3>1. PICK f : f = [at \in Spot |-> Fit(ns, d, at, at)]
      OBVIOUS
    <3>2. ASSUME NEW at \in Spot, at[1] \in us => Lev(T, at[1]) <= m PROVE f[at] = Fit(ns, d, f, at)
      <4>1. LeafAt(ns, at[1])
        BY <1>1, <1>2, <2>3, <3>2
      <4>2. Fit(ns, d, at, at) = Fit(ns, d, f, at)
        BY <4>1, FitSame
      <4>. QED  BY <3>1, <4>2
    <3>. QED  BY <3>2
  <2>4. CASE m # 0
    <3>1. PICK o : o = m - 1
      OBVIOUS
    <3>2. o \in Nat /\ ~ (m <= o)
      BY <2>2, <2>4, <3>1
    <3>3. PICK f : Ready(f, o)
      BY <2>1, <3>2
    <3>4. PICK g : g = [at \in Spot |-> Fit(ns, d, f, at)]
      OBVIOUS
    <3>5. ASSUME NEW at \in Spot, at[1] \in us => Lev(T, at[1]) <= m PROVE g[at] = Fit(ns, d, g, at)
      <4>1. ASSUME ~ LeafAt(ns, at[1]), NEW j \in DOMAIN KidsAt(ns, at[1])
            PROVE  f[KidSpot(ns, at, j)] = g[KidSpot(ns, at, j)]
        <5>1. at[1] \in us
          BY <1>1, <1>2, <4>1
        <5>2. PICK h, c : h = KidSpot(ns, at, j) /\ c = h[1]
          OBVIOUS
        <5>3. h \in Spot /\ c \in us /\ Lev(T, c) + 1 = Lev(T, at[1])
          BY <4>1, <5>1, <5>2, KidSpotIs
        <5>4. Lev(T, c) <= o
          <6>1. PICK x, y : x = Lev(T, c) /\ y = Lev(T, at[1])
            OBVIOUS
          <6>2. x \in Nat /\ y \in Nat /\ x + 1 = y /\ y <= m
            BY <1>1, <3>5, <5>1, <5>3, <6>1
          <6>3. x <= o
            BY ONLY <2>2, <3>1, <6>2
          <6>. QED  BY <6>1, <6>3
        <5>5. f[h] = Fit(ns, d, f, h)
          BY <3>3, <5>2, <5>3, <5>4
        <5>6. g[h] = Fit(ns, d, f, h)
          BY <3>4, <5>3
        <5>. QED  BY <5>2, <5>5, <5>6
      <4>2. Fit(ns, d, f, at) = Fit(ns, d, g, at)
        BY <4>1, FitSame
      <4>3. g[at] = Fit(ns, d, f, at)
        BY <3>4
      <4>. QED  BY <4>2, <4>3
    <3>. QED  BY <3>5
  <2>. QED  BY <2>3, <2>4
<1>4. n \notin S
  BY <1>3
<1>. QED  BY <1>4 DEF FitsBelow

\* The bounds hold of what is sought in a.
Bounds(T, a, low, high) ==
  /\ low \in Key \cup {0} /\ high \in Key \cup {Nil}
  /\ \A x \in Key : x \in Span(T, a) => low <= x /\ (high # Nil => x < high)

\* Such bounds hold of the rows, and those of a child of what is sought there.
LEMMA BoundsOfRows ==
  ASSUME NEW T, NEW ns, NEW us, NEW rt, Shown(T, ns, us, rt), NEW a \in us, NEW low, NEW high, Bounds(T, a, low, high)
  PROVE  InBounds(RowsAt(ns, a), low, high)
<1>1. Tree(T) /\ Nodes(T) = us
  BY ShownFacts
<1>2. PICK rows, ks, n : rows = RowsAt(ns, a) /\ ks = Keys(T, a) /\ n = Len(rows)
  OBVIOUS
<1>3. /\ rows \in Seq(Row) /\ n \in Nat /\ Len(ks) = n /\ \A i \in 1 .. n : ks[i] = rows[i][1]
  BY <1>2, RowsInOrder
<1>4. /\ \A i \in 1 .. n : ks[i] \in Key /\ ks[i] \in Span(T, a)
      /\ \A i, j \in 1 .. n : i < j => ks[i] < ks[j]
  BY <1>1, <1>2, <1>3, NodeFacts
<1>5. ASSUME NEW j \in DOMAIN rows
      PROVE  /\ low <= rows[j][1] /\ (high # Nil => rows[j][1] < high)
             /\ j > 1 => rows[j - 1][1] < rows[j][1]
  <2>1. j \in 1 .. n
    BY <1>2, <1>3
  <2>2. low <= rows[j][1] /\ (high # Nil => rows[j][1] < high)
    BY <1>3, <1>4, <2>1 DEF Bounds
  <2>3. ASSUME j > 1 PROVE rows[j - 1][1] < rows[j][1]
    <3>1. PICK i : i = j - 1
      OBVIOUS
    <3>2. i \in 1 .. n /\ i < j
      BY <1>3, <2>1, <2>3, <3>1
    <3>3. rows[i][1] < rows[j][1]
      BY <1>3, <1>4, <2>1, <3>2
    <3>. QED  BY <3>1, <3>3
  <2>. QED  BY <2>2, <2>3
<1>. QED  BY <1>2, <1>5 DEF InBounds

\* The bounds of a node, narrowed by the rows beside a child, hold of the child.
LEMMA BoundsOfKid ==
  ASSUME NEW T, NEW ns, NEW us, NEW rt, Shown(T, ns, us, rt), NEW a \in us, NEW low, NEW high, Bounds(T, a, low, high),
         ~ LeafAt(ns, a), NEW j \in DOMAIN KidsAt(ns, a)
  PROVE  Bounds(T, KidsAt(ns, a)[j], Below(RowsAt(ns, a), low, j), Above(RowsAt(ns, a), high, j))
<1>1. Tree(T) /\ Nodes(T) = us /\ us \subseteq Node /\ Kids(T, a) = KidsAt(ns, a) /\ Lev(T, a) # 0
  BY ShownFacts
<1>2. PICK rows, ks, n, c, b, t : /\ rows = RowsAt(ns, a) /\ ks = Keys(T, a) /\ n = Len(rows) /\ c = Kids(T, a)[j]
                                  /\ b = Below(rows, low, j) /\ t = Above(rows, high, j)
  OBVIOUS
<1>3. /\ rows \in Seq(Row) /\ n \in Nat /\ Len(ks) = n /\ \A i \in 1 .. n : ks[i] = rows[i][1]
  BY <1>2, RowsInOrder
<1>4. \A i \in 1 .. n : ks[i] \in Key
  BY <1>1, <1>2, <1>3, NodeFacts
<1>5. j \in 1 .. n + 1 /\ j \in 1 .. Len(Kids(T, a))
  BY <1>1, <1>2, <1>3, NodeFacts
<1>6. \A x \in Key : x \in Span(T, c) => x \in Span(T, a) /\ Gap(ks, j, x)
  BY <1>1, <1>2, <1>5, KidFacts DEF Slot
<1>7. b \in Key \cup {0} /\ \A x \in Key : x \in Span(T, c) => b <= x
  <2>1. CASE j = 1
    BY <1>2, <1>6, <2>1 DEF Below, Bounds
  <2>2. CASE j # 1
    <3>1. PICK i : i = j - 1
      OBVIOUS
    <3>2. i \in 1 .. n /\ j > 1
      BY <1>3, <1>5, <2>2, <3>1
    <3>3. b = ks[i]
      BY <1>2, <1>3, <2>2, <3>1, <3>2 DEF Below
    <3>4. \A x \in Key : x \in Span(T, c) => ks[i] <= x
      BY <1>6, <3>1, <3>2 DEF Gap
    <3>. QED  BY <1>4, <3>2, <3>3, <3>4
  <2>. QED  BY <2>1, <2>2
<1>8. t \in Key \cup {Nil} /\ \A x \in Key : x \in Span(T, c) => (t # Nil => x < t)
  <2>1. CASE j = n + 1
    BY <1>2, <1>6, <2>1 DEF Above, Bounds
  <2>2. CASE j # n + 1
    <3>1. j \in 1 .. n /\ j <= Len(ks)
      BY <1>3, <1>5, <2>2
    <3>2. t = ks[j]
      BY <1>2, <1>3, <2>2, <3>1 DEF Above
    <3>3. \A x \in Key : x \in Span(T, c) => x < ks[j]
      BY <1>6, <3>1 DEF Gap
    <3>. QED  BY <1>4, <3>1, <3>2, <3>3
  <2>. QED  BY <2>1, <2>2
<1>9. Bounds(T, c, b, t)
  BY <1>7, <1>8 DEF Bounds
<1>. QED  BY <1>1, <1>2, <1>9

\* A function unfolded as Fit says is true of bounds that hold.
LEMMA FitsHold ==
  ASSUME NEW T, NEW ns, NEW us, NEW rt, Shown(T, ns, us, rt),
         NEW d, \A a \in us : d[a] = Lev(T, a),
         NEW f, \A at \in Spot : f[at] = Fit(ns, d, f, at)
  PROVE  \A a \in us : \A low, high : Bounds(T, a, low, high) => f[<<a, low, high>>]
<1>. DEFINE Well(a) == \A low, high : Bounds(T, a, low, high) => f[<<a, low, high>>]
<1>1. Tree(T) /\ Nodes(T) = us /\ us \subseteq Node
  BY ShownFacts
<1>2. PICK height : height = [a \in us |-> Lev(T, a)]
  OBVIOUS
<1>3. \A a \in us : height[a] \in Nat /\ height[a] = Lev(T, a)
  BY <1>1, <1>2, NodeFacts
<1>4. PICK G : G = {a \in us : Well(a)}
  OBVIOUS
<1>5. ASSUME NEW a \in us, \A y \in us : height[y] < height[a] => y \in G PROVE a \in G
  <2>1. ASSUME NEW low, NEW high, Bounds(T, a, low, high) PROVE f[<<a, low, high>>]
    <3>1. PICK at : at = <<a, low, high>>
      OBVIOUS
    <3>2. at[1] = a /\ at[2] = low /\ at[3] = high
      BY <3>1
    <3>3. at \in Spot
      BY <1>1, <2>1, <3>1 DEF Spot, Bounds
    <3>4. InBounds(RowsAt(ns, a), low, high)
      BY <2>1, BoundsOfRows
    <3>5. ASSUME ~ LeafAt(ns, a), NEW j \in DOMAIN KidsAt(ns, a)
          PROVE  d[KidsAt(ns, a)[j]] = d[a] - 1 /\ f[KidSpot(ns, at, j)]
      <4>1. PICK c, b, t, kids : /\ kids = KidsAt(ns, a) /\ c = kids[j]
                                 /\ b = Below(RowsAt(ns, a), low, j) /\ t = Above(RowsAt(ns, a), high, j)
        OBVIOUS
      <4>2. c \in us /\ Lev(T, c) + 1 = Lev(T, a)
        BY <3>2, <3>3, <3>5, <4>1, KidSpotIs
      <4>3. PICK x, y : x = d[c] /\ y = d[a]
        OBVIOUS
      <4>4. x \in Nat /\ y \in Nat /\ x + 1 = y /\ height[c] = x /\ height[a] = y
        BY <1>3, <4>2, <4>3
      <4>5. x = y - 1 /\ x < y
        BY ONLY <4>4
      <4>6. Well(c)
        BY <1>4, <1>5, <4>2, <4>4, <4>5
      <4>7. Bounds(T, c, b, t)
        BY <2>1, <3>5, <4>1, BoundsOfKid
      <4>8. KidSpot(ns, at, j) = <<c, b, t>>
        BY <3>2, <4>1 DEF KidSpot
      <4>. QED  BY <4>1, <4>3, <4>5, <4>6, <4>7, <4>8
    <3>6. Fit(ns, d, f, at)
      BY <3>2, <3>4, <3>5 DEF Fit
    <3>7. f[at] = Fit(ns, d, f, at)
      BY <3>3
    <3>. QED  BY <3>1, <3>6, <3>7
  <2>. QED  BY <1>4, <2>1
<1>6. us \subseteq G
  BY <1>3, <1>5, Descent
<1>. QED  BY <1>4, <1>6

\* Balanced, with its functions named.
TheDepth == CHOOSE d : d = [a \in Node |-> IF nodes[a].leaf THEN 0 ELSE 1 + d[nodes[a].child[1]]]
TheFits ==
  CHOOSE f : f =
    [at \in Node \X (Key \cup {0}) \X (Key \cup {Nil}) |->
       /\ \A j \in DOMAIN nodes[at[1]].rows :
            /\ at[2] <= nodes[at[1]].rows[j][1] /\ (at[3] # Nil => nodes[at[1]].rows[j][1] < at[3])
            /\ j > 1 => nodes[at[1]].rows[j - 1][1] < nodes[at[1]].rows[j][1]
       /\ ~nodes[at[1]].leaf =>
            \A j \in DOMAIN nodes[at[1]].child :
              /\ TheDepth[nodes[at[1]].child[j]] = TheDepth[at[1]] - 1
              /\ f[<<nodes[at[1]].child[j],
                     IF j = 1 THEN at[2] ELSE nodes[at[1]].rows[j - 1][1],
                     IF j = Len(nodes[at[1]].rows) + 1 THEN at[3] ELSE nodes[at[1]].rows[j][1]>>]]

\* Balanced, with its functions named.
LEMMA BalancedIs == Balanced <=> (AtRest => TheFits[<<root, 0, Nil>>])
BY Zenon DEF Balanced, TheDepth, TheFits

\* They are those of Deep and Fit.
LEMMA TheDepthIs == TheDepth = CHOOSE d : d = [a \in Node |-> Deep(nodes, d, a)]
BY Zenon DEF TheDepth, Deep, LeafAt, KidsAt

\* And so is TheFits.
LEMMA TheFitsIs == TheFits = CHOOSE f : f = [at \in Spot |-> Fit(nodes, TheDepth, f, at)]
BY Zenon DEF TheFits, Spot, Fit, InBounds, KidSpot, Below, Above, LeafAt, KidsAt, RowsAt

\* At rest, the leaves are equally deep and everything is between its bounds.
LEMMA ShownBalanced ==
  ASSUME NEW T, Shown(T, nodes, used, root)
  PROVE  TheFits[<<root, 0, Nil>>]
<1>1. PICK ns, us, rt : ns = nodes /\ us = used /\ rt = root
  OBVIOUS
<1>2. Shown(T, ns, us, rt)
  BY <1>1
<1>3. Tree(T) /\ Nodes(T) = us /\ Top(T) = rt /\ rt \in us /\ us \subseteq Node
  BY <1>2, ShownFacts
<1>4. PICK d : d = TheDepth
  OBVIOUS
<1>5. d = [a \in Node |-> Deep(ns, d, a)]
  <2>1. PICK e : e = [a \in Node |-> Deep(ns, e, a)]
    BY <1>2, DepthExists
  <2>2. d = CHOOSE h : h = [a \in Node |-> Deep(ns, h, a)]
    BY <1>1, <1>4, TheDepthIs
  <2>. QED  BY <2>1, <2>2, Zenon
<1>6. \A a \in Node : d[a] = Deep(ns, d, a)
  BY <1>5, Zenon
<1>7. \A a \in us : d[a] = Lev(T, a)
  BY ONLY <1>2, <1>6, DepthIs
<1>8. PICK f : f = TheFits
  OBVIOUS
<1>9. f = [at \in Spot |-> Fit(ns, d, f, at)]
  <2>1. PICK n : n = Lev(T, rt)
    OBVIOUS
  <2>2. n \in Nat /\ \A a \in us : Lev(T, a) <= n
    BY <1>3, <2>1, NodeFacts
  <2>3. PICK g : \A at \in Spot : (at[1] \in us => Lev(T, at[1]) <= n) => g[at] = Fit(ns, d, g, at)
    <3>1. n \in Nat
      BY <2>2
    <3>2. FitsBelow(T, ns, us, d, n)
      BY ONLY <1>2, <3>1, FitsTo
    <3>. QED  BY <3>2 DEF FitsBelow
  <2>4. PICK L : L = [at \in Spot |-> g[at]]
    OBVIOUS
  <2>5. ASSUME NEW at \in Spot PROVE L[at] = Fit(ns, d, L, at)
    <3>1. g[at] = Fit(ns, d, g, at)
      BY <2>2, <2>3
    <3>2. ASSUME ~ LeafAt(ns, at[1]), NEW j \in DOMAIN KidsAt(ns, at[1])
          PROVE  g[KidSpot(ns, at, j)] = L[KidSpot(ns, at, j)]
      <4>1. at[1] \in Node
        BY DEF Spot
      <4>2. at[1] \in us
        BY <1>2, <3>2, <4>1, ShownFacts DEF Shaped
      <4>3. KidSpot(ns, at, j) \in Spot
        BY <1>2, <3>2, <4>2, KidSpotIs
      <4>. QED  BY <2>4, <4>3
    <3>3. Fit(ns, d, g, at) = Fit(ns, d, L, at)
      BY <3>2, FitSame
    <3>. QED  BY <2>4, <3>1, <3>3
  <2>6. DOMAIN L = Spot /\ L = [at \in Spot |-> L[at]]
    BY <2>4
  <2>7. L = [at \in Spot |-> Fit(ns, d, L, at)]
    BY <2>5, <2>6, Zenon
  <2>8. f = CHOOSE h : h = [at \in Spot |-> Fit(ns, d, h, at)]
    BY <1>1, <1>4, <1>8, TheFitsIs
  <2>. QED  BY <2>7, <2>8, Zenon
<1>10. \A at \in Spot : f[at] = Fit(ns, d, f, at)
  BY <1>9, Zenon
<1>11. \A a \in us : \A low, high : Bounds(T, a, low, high) => f[<<a, low, high>>]
  BY ONLY <1>2, <1>7, <1>10, FitsHold
<1>12. Bounds(T, rt, 0, Nil)
  BY KeysAreNumbers DEF Bounds
<1>. QED  BY <1>1, <1>3, <1>8, <1>11, <1>12

\* The invariant implies that the tree is balanced and in order.
LEMMA IInvBalanced == IInv => Balanced
<1>. SUFFICES ASSUME IInv, AtRest PROVE TheFits[<<root, 0, Nil>>]
  BY BalancedIs
<1>1. PICK T : Good(T, nodes, used, root, live, job)
  BY DEF IInv
<1>2. Shown(T, nodes, used, root)
  BY <1>1, GoodKinds DEF AtRest, IdleGood, GoodIdle, Shown
<1>. QED  BY <1>2, ShownBalanced

\* Between calls, all leaves are equally deep, and what hangs between two rows
\* lies between them (205-377, 536-714).
THEOREM BalanceKept == Spec => []Balanced
BY SearchTree, IInvBalanced, PTL

-----------------------------------------------------------------------------
(* NodePages: the queue of free node pages, for every size of the file.     *)
(*                                                                          *)
(* The counts and ends of the queue are kept by hand, and QueueSound speaks *)
(* of them; what a step needs beyond it is that the links of the queue      *)
(* neither meet nor lead back to the head (OneWay), so that taking the head *)
(* off leaves exactly the other pages.  No induction along the queue is     *)
(* needed: Free is the least set that holds the head and follows the links, *)
(* and every step below compares two such sets.                             *)

OneWay ==
  \A a \in Free : /\ next[a] # head
                  /\ \A b \in Free : next[a] = next[b] /\ next[a] # NoPage => a = b

QueueInv == PagesTypeOK /\ QueueSound /\ HeldApart /\ OneWay

-----------------------------------------------------------------------------
(* The pages of the queue.                                                  *)

LEMMA FreeFollows ==
  ASSUME PagesTypeOK
  PROVE  Free \subseteq NodePage /\ Follows(Free)
<1>1. Follows(NodePage)
  BY DEF PagesTypeOK, Follows
<1>2. head # NoPage => head \in Free
  BY <1>1 DEF Free, Follows, PagesTypeOK
<1>3. ASSUME NEW a \in Free, next[a] # NoPage PROVE next[a] \in Free
  BY <1>1, <1>3 DEF Free, Follows, PagesTypeOK
<1>. QED  BY <1>2, <1>3 DEF Follows, Free

LEMMA FreeLeast ==
  ASSUME NEW S, Follows(S), PagesTypeOK
  PROVE  Free \subseteq S
<1>1. S \cap NodePage \in SUBSET NodePage /\ Follows(S \cap NodePage)
  BY DEF Follows, PagesTypeOK
<1>. QED  BY <1>1 DEF Free

LEMMA FreeFinite ==
  ASSUME PagesTypeOK
  PROVE  /\ IsFiniteSet(Free) /\ Cardinality(Free) \in 0 .. MaxPages - 1
         /\ Cardinality(Free) = 0 <=> Free = {}
<1>1. IsFiniteSet(NodePage) /\ Cardinality(NodePage) = MaxPages - 1
  BY PagesAssumption, FS_Interval DEF NodePage
<1>2. Free \in SUBSET NodePage
  BY FreeFollows
<1>3. IsFiniteSet(Free) /\ Cardinality(Free) <= MaxPages - 1
  BY <1>1, <1>2, FS_Subset
<1>4. Cardinality(Free) \in Nat
  BY <1>3, FS_CardinalityType
<1>. QED  BY <1>3, <1>4, FS_EmptySet, PagesAssumption

\* The head is in the queue, and the queue is empty without one.
LEMMA HeadFree ==
  ASSUME PagesTypeOK
  PROVE  IF head = NoPage THEN Free = {} ELSE head \in Free
<1>1. head = NoPage => Follows({})
  BY DEF Follows
<1>2. head = NoPage => Free = {}
  BY <1>1, FreeLeast
<1>. QED  BY <1>2, FreeFollows DEF Follows

\* The queue is its head alone when the head has no successor.
LEMMA HeadAlone ==
  ASSUME PagesTypeOK, head # NoPage, next[head] = NoPage
  PROVE  Free = {head}
<1>1. Follows({head})
  BY DEF Follows
<1>. QED  BY <1>1, FreeLeast, HeadFree

\* The queue after a step is the least set that follows the new links.
LEMMA FreeIs ==
  ASSUME NEW Q \in SUBSET NodePage, Follows(Q)',
         \A S \in SUBSET NodePage : Follows(S)' => Q \subseteq S
  PROVE  Free' = Q
BY DEF Free

-----------------------------------------------------------------------------
(* A page is taken.                                                         *)

\* What is left behind the head is the rest of the queue, in its order.
LEMMA TakeFreeQueue ==
  ASSUME QueueInv, TakeFree
  PROVE  PagesTypeOK' /\ head \in Free /\ Free' = Free \ {head}
<1>1. PagesTypeOK /\ OneWay /\ num > 0 /\ Cardinality(Free) = num
  BY DEF QueueInv, QueueSound, TakeFree
<1>2. head \in Free /\ head \in NodePage
  BY <1>1, FreeFinite, HeadFree, FreeFollows DEF PagesTypeOK
<1>3. /\ head' = next[head]
      /\ \A a \in NodePage : next'[a] = IF a = head THEN NoPage ELSE next[a]
  BY <1>1, <1>2 DEF TakeFree, PagesTypeOK
<1>4. PagesTypeOK'
  <2>1. next' \in [NodePage -> NodePage \cup {NoPage}] /\ head' \in NodePage \cup {NoPage} /\ tail' \in NodePage \cup {NoPage}
    BY <1>1, <1>2 DEF PagesTypeOK, TakeFree
  <2>2. num' \in 0 .. MaxPages /\ length' \in 2 .. MaxPages /\ size' \in length' .. MaxPages
    BY <1>1, PagesAssumption DEF PagesTypeOK, TakeFree
  <2>3. held' \subseteq NodePage /\ held' # {}
    BY <1>1, <1>2 DEF PagesTypeOK, TakeFree
  <2>. QED  BY <2>1, <2>2, <2>3 DEF PagesTypeOK
<1>5. PICK h, rest : h = head /\ rest = Free \ {head}
  OBVIOUS
<1>6. rest \in SUBSET NodePage /\ Follows(rest)'
  <2>1. next[h] \in Free \cup {NoPage} /\ next[h] # h
    BY <1>1, <1>2, <1>5, FreeFollows DEF Follows, OneWay
  <2>2. ASSUME NEW a \in rest PROVE next'[a] \in rest \cup {NoPage}
    BY <1>1, <1>2, <1>3, <1>5, FreeFollows DEF Follows, OneWay
  <2>. QED  BY <1>1, <1>3, <1>5, <2>1, <2>2, FreeFollows DEF Follows
<1>7. ASSUME NEW S \in SUBSET NodePage, Follows(S)' PROVE rest \subseteq S
  <2>1. Follows(S \cup {h})
    BY <1>3, <1>5, <1>7 DEF Follows
  <2>. QED  BY <1>1, <1>5, <2>1, FreeLeast
<1>8. Free' = rest
  BY <1>6, <1>7, FreeIs
<1>. QED  BY <1>2, <1>4, <1>5, <1>8

LEMMA TakeFreeKeeps ==
  ASSUME QueueInv, TakeFree
  PROVE  QueueInv'
<1>1. PagesTypeOK /\ QueueSound /\ HeldApart /\ OneWay
  BY DEF QueueInv
<1>2. PagesTypeOK' /\ head \in Free /\ Free' = Free \ {head}
  BY TakeFreeQueue
<1>3. Free \subseteq NodePage /\ IsFiniteSet(Free) /\ Cardinality(Free) = num /\ num \in Nat \ {0}
  BY <1>1, FreeFollows, FreeFinite DEF QueueSound, TakeFree, PagesTypeOK
<1>4. Cardinality(Free') = num'
  BY <1>2, <1>3, FS_RemoveElement DEF TakeFree
<1>5. /\ head' = next[head] /\ num' = num - 1 /\ tail' = IF num = 1 THEN NoPage ELSE tail
      /\ \A a \in NodePage : next'[a] = IF a = head THEN NoPage ELSE next[a]
      /\ held' = held \cup {head} /\ length' = length
  BY <1>1, <1>2, <1>3 DEF TakeFree, PagesTypeOK
<1>6. CASE num = 1
  <2>1. Free' = {}
    BY <1>2, <1>3, <1>4, <1>5, <1>6, FS_EmptySet, FS_RemoveElement
  <2>2. head' = NoPage
    BY <1>2, <1>1, <2>1, FreeFollows, <1>5 DEF Follows, OneWay
  <2>. QED  BY <1>1, <1>2, <1>3, <1>4, <1>5, <1>6, <2>1, <2>2 DEF QueueInv, QueueSound, HeldApart, OneWay
<1>7. CASE num # 1
  <2>1. tail \in Free /\ next[tail] = NoPage
    BY <1>1, <1>3 DEF QueueSound
  <2>2. tail # head /\ next[head] # NoPage
    <3>1. SUFFICES ASSUME next[head] = NoPage PROVE FALSE
      BY <2>1
    <3>2. Free = {head}
      BY <1>1, <1>2, <1>3, <3>1, HeadAlone, NoPageAssumption DEF NodePage
    <3>. QED  BY <1>3, <1>7, <3>2, FS_Singleton
  <2>3. QueueSound'
    BY <1>2, <1>3, <1>4, <1>5, <1>7, <2>1, <2>2 DEF QueueSound
  <2>4. HeldApart'
    BY <1>1, <1>2, <1>5 DEF HeldApart
  <2>5. OneWay'
    BY <1>1, <1>2, <1>3, <1>5, <2>2 DEF OneWay
  <2>. QED  BY <1>2, <2>3, <2>4, <2>5 DEF QueueInv
<1>. QED  BY <1>6, <1>7

\* The file grows by the page.
LEMMA AppendPageKeeps ==
  ASSUME QueueInv, AppendPage
  PROVE  QueueInv' /\ Free' = Free
<1>1. PagesTypeOK /\ QueueSound /\ HeldApart /\ OneWay
  BY DEF QueueInv
<1>2. /\ next' = next /\ head' = head /\ tail' = tail /\ num' = num
      /\ length < MaxPages /\ length' = length + 1 /\ held' = held \cup {length}
      /\ size' = IF size > length THEN size ELSE length + 1
  BY DEF AppendPage, queue
<1>3. PagesTypeOK'
  <2>1. length \in NodePage
    BY <1>1, <1>2, PagesAssumption DEF PagesTypeOK, NodePage
  <2>2. length' \in 2 .. MaxPages /\ size' \in length' .. MaxPages
    BY <1>1, <1>2, PagesAssumption DEF PagesTypeOK
  <2>. QED  BY <1>1, <1>2, <2>1, <2>2 DEF PagesTypeOK
<1>4. Free' = Free
  BY <1>2 DEF Free, Follows
<1>5. QueueSound' /\ OneWay'
  BY <1>1, <1>2, <1>4 DEF QueueSound, OneWay
<1>6. HeldApart'
  <2>1. length \in Nat /\ length \notin Free /\ \A a \in held \cup Free : a \in 1 .. length - 1
    BY <1>1 DEF HeldApart, PagesTypeOK
  <2>2. \A a \in held' \cup Free : a \in 1 .. length' - 1
    BY <1>1, <1>2, <2>1 DEF PagesTypeOK
  <2>. QED  BY <1>1, <1>2, <1>4, <2>1, <2>2 DEF HeldApart
<1>. QED  BY <1>3, <1>4, <1>5, <1>6 DEF QueueInv

-----------------------------------------------------------------------------
(* A page is given back.                                                    *)

\* The last page of the file is cut off.
LEMMA CutOffKeeps ==
  ASSUME QueueInv, NEW a \in held, held # {a}, held' = held \ {a}, CutOff(a)
  PROVE  QueueInv' /\ Free' = Free
<1>1. PagesTypeOK /\ QueueSound /\ HeldApart /\ OneWay
  BY DEF QueueInv
<1>2. /\ next' = next /\ head' = head /\ tail' = tail /\ num' = num
      /\ a = length - 1 /\ length' = length - 1 /\ size' = size
  BY DEF CutOff, queue
<1>3. length \in Nat /\ \A b \in held \cup Free : b \in 1 .. length - 1
  BY <1>1 DEF HeldApart, PagesTypeOK
<1>4. PagesTypeOK'
  <2>1. PICK b \in held : b # a
    OBVIOUS
  <2>2. length' \in 2 .. MaxPages /\ size' \in length' .. MaxPages
    BY <1>1, <1>2, <1>3, <2>1, PagesAssumption DEF PagesTypeOK
  <2>3. held' \subseteq NodePage /\ held' # {}
    BY <1>1, <2>1 DEF PagesTypeOK
  <2>. QED  BY <1>1, <1>2, <2>2, <2>3 DEF PagesTypeOK
<1>5. Free' = Free
  BY <1>2 DEF Free, Follows
<1>6. QueueSound' /\ OneWay'
  BY <1>1, <1>2, <1>5 DEF QueueSound, OneWay
<1>7. HeldApart'
  <2>1. a \notin Free
    BY <1>1 DEF HeldApart
  <2>2. \A b \in held' \cup Free : b \in 1 .. length' - 1
    BY <1>2, <1>3, <2>1
  <2>. QED  BY <1>1, <1>5, <2>2 DEF HeldApart
<1>. QED  BY <1>4, <1>5, <1>6, <1>7 DEF QueueInv

\* Any other page is reached from the head, behind the tail.
LEMMA EnqueueQueue ==
  ASSUME QueueInv, NEW a \in held, held # {a}, held' = held \ {a}, Enqueue(a)
  PROVE  PagesTypeOK' /\ a \notin Free /\ Free' = Free \cup {a}
<1>1. PagesTypeOK /\ QueueSound /\ HeldApart
  BY DEF QueueInv
<1>2. a \in NodePage /\ a \notin Free /\ Free \subseteq NodePage
  BY <1>1, FreeFollows DEF PagesTypeOK, HeldApart
<1>3. /\ head' = IF num = 0 THEN a ELSE head
      /\ \A b \in NodePage : next'[b] = IF b = a THEN NoPage
                                        ELSE IF num > 0 /\ b = tail THEN a ELSE next[b]
  BY DEF Enqueue
<1>4. num \in 0 .. MaxPages - 1 /\ (num = 0 <=> Free = {}) /\ Cardinality(Free) = num
  BY <1>1, FreeFinite DEF QueueSound
<1>5. PagesTypeOK'
  <2>1. next' \in [NodePage -> NodePage \cup {NoPage}] /\ head' \in NodePage \cup {NoPage} /\ tail' \in NodePage \cup {NoPage}
    BY <1>1, <1>2 DEF PagesTypeOK, Enqueue
  <2>2. num' \in 0 .. MaxPages /\ length' \in 2 .. MaxPages /\ size' \in length' .. MaxPages
    BY <1>1, <1>4, PagesAssumption DEF PagesTypeOK, Enqueue
  <2>3. held' \subseteq NodePage /\ held' # {}
    BY <1>1 DEF PagesTypeOK
  <2>. QED  BY <2>1, <2>2, <2>3 DEF PagesTypeOK
<1>6. PICK longer : longer = Free \cup {a}
  OBVIOUS
<1>7. longer \in SUBSET NodePage /\ Follows(longer)'
  <2>1. head' \in longer
    BY <1>1, <1>3, <1>4, <1>6, HeadFree
  <2>2. ASSUME NEW b \in longer PROVE next'[b] \in longer \cup {NoPage}
    BY <1>1, <1>2, <1>3, <1>6, FreeFollows DEF Follows
  <2>. QED  BY <1>2, <1>6, <2>1, <2>2 DEF Follows
<1>8. ASSUME NEW S \in SUBSET NodePage, Follows(S)' PROVE longer \subseteq S
  <2>1. CASE num = 0
    BY <1>2, <1>3, <1>4, <1>6, <1>8, <2>1, NoPageAssumption DEF Follows, NodePage
  <2>2. CASE num # 0
    <3>1. num > 0 /\ tail \in Free /\ next[tail] = NoPage /\ head \in Free /\ head' = head
      BY <1>1, <1>3, <1>4, <2>2, HeadFree DEF QueueSound
    <3>2. head \in S
      BY <1>2, <1>8, <3>1, NoPageAssumption DEF Follows, NodePage
    <3>3. ASSUME NEW b \in S \cap Free PROVE next[b] \in (S \cap Free) \cup {NoPage}
      <4>1. next[b] \in Free \cup {NoPage}
        BY <1>1, FreeFollows DEF Follows
      <4>2. CASE b = tail
        BY <3>1, <4>2
      <4>3. CASE b # tail
        BY <1>2, <1>3, <1>8, <4>1, <4>3 DEF Follows
      <4>. QED  BY <4>2, <4>3
    <3>4. Free \subseteq S
      BY <1>1, <3>1, <3>2, <3>3, FreeLeast DEF Follows
    <3>5. next'[tail] = a
      BY <1>2, <1>3, <3>1
    <3>. QED  BY <1>2, <1>6, <1>8, <3>1, <3>4, <3>5, NoPageAssumption DEF Follows, NodePage
  <2>. QED  BY <2>1, <2>2
<1>9. Free' = longer
  BY <1>7, <1>8, FreeIs
<1>. QED  BY <1>2, <1>5, <1>6, <1>9

LEMMA EnqueueKeeps ==
  ASSUME QueueInv, NEW a \in held, held # {a}, held' = held \ {a}, Enqueue(a)
  PROVE  QueueInv'
<1>1. PagesTypeOK /\ QueueSound /\ HeldApart /\ OneWay
  BY DEF QueueInv
<1>2. PagesTypeOK' /\ a \notin Free /\ Free' = Free \cup {a}
  BY EnqueueQueue
<1>3. Free \subseteq NodePage /\ IsFiniteSet(Free) /\ Cardinality(Free) = num /\ num \in Nat
  BY <1>1, FreeFollows, FreeFinite DEF QueueSound, PagesTypeOK
<1>4. /\ head' = IF num = 0 THEN a ELSE head
      /\ tail' = a /\ num' = num + 1 /\ length' = length
      /\ \A b \in NodePage : next'[b] = IF b = a THEN NoPage
                                        ELSE IF num > 0 /\ b = tail THEN a ELSE next[b]
  BY DEF Enqueue
<1>5. a \in NodePage /\ a \in 1 .. length - 1
  BY <1>1 DEF PagesTypeOK, HeldApart
<1>6. QueueSound'
  <2>1. Cardinality(Free \cup {a}) = num + 1
    BY <1>2, <1>3, FS_AddElement
  <2>2. tail' \in Free' /\ next'[tail'] = NoPage
    BY <1>2, <1>4, <1>5
  <2>3. Cardinality(Free') = num' /\ num' # 0
    BY <1>2, <1>3, <1>4, <2>1
  <2>. QED  BY <2>2, <2>3 DEF QueueSound
<1>7. HeldApart'
  BY <1>1, <1>2, <1>4, <1>5 DEF HeldApart
<1>8. OneWay'
  <2>1. CASE num = 0
    <3>1. Free' = {a}
      BY <1>2, <1>3, <2>1, FS_EmptySet
    <3>. QED  BY <1>4, <1>5, <2>1, <3>1, NoPageAssumption DEF OneWay, NodePage
  <2>2. CASE num # 0
    <3>1. tail \in Free /\ next[tail] = NoPage /\ head \in Free /\ head' = head
      BY <1>1, <1>3, <1>4, <2>2, FS_EmptySet, HeadFree DEF QueueSound
    <3>2. \A b \in Free : b # a /\ b \in NodePage /\ next[b] \in Free \cup {NoPage} /\ next[b] # a
      BY <1>1, <1>2, <1>3, <1>5, FreeFollows, NoPageAssumption DEF Follows, NodePage
    <3>3. \A b \in Free : next'[b] = IF b = tail THEN a ELSE next[b]
      BY <1>3, <1>4, <2>2, <3>2
    <3>4. next'[a] = NoPage /\ a # NoPage /\ head # NoPage
      BY <1>4, <1>5, <3>1, <3>2, NoPageAssumption DEF NodePage
    <3>5. ASSUME NEW b \in Free' PROVE next'[b] # head'
      BY <1>1, <1>2, <3>1, <3>2, <3>3, <3>4 DEF OneWay
    <3>6. ASSUME NEW b \in Free', NEW c \in Free', next'[b] = next'[c], next'[b] # NoPage PROVE b = c
      BY <1>1, <1>2, <3>1, <3>2, <3>3, <3>4, <3>6 DEF OneWay
    <3>. QED  BY <3>5, <3>6 DEF OneWay
  <2>. QED  BY <2>1, <2>2
<1>. QED  BY <1>2, <1>6, <1>7, <1>8 DEF QueueInv

-----------------------------------------------------------------------------
(* The restart, and the theorems.                                           *)

LEMMA ReopenKeeps ==
  ASSUME QueueInv, Reopen
  PROVE  QueueInv' /\ Free' = Free
<1>1. PagesTypeOK /\ QueueSound /\ HeldApart /\ OneWay
  BY DEF QueueInv
<1>2. /\ next' = next /\ head' = head /\ tail' = tail /\ num' = num
      /\ length' = size /\ size' = size /\ held' = held
  BY DEF Reopen, queue
<1>3. length \in Nat /\ size \in Nat /\ length <= size
  BY <1>1 DEF PagesTypeOK
<1>4. PagesTypeOK'
  BY <1>1, <1>2, <1>3, PagesAssumption DEF PagesTypeOK
<1>5. Free' = Free
  BY <1>2 DEF Free, Follows
<1>6. QueueSound' /\ OneWay'
  BY <1>1, <1>2, <1>5 DEF QueueSound, OneWay
<1>7. HeldApart'
  BY <1>1, <1>2, <1>3, <1>5 DEF HeldApart
<1>. QED  BY <1>4, <1>5, <1>6, <1>7 DEF QueueInv

LEMMA QueueInitSound == PagesInit => QueueInv
<1>1. SUFFICES ASSUME PagesInit PROVE QueueInv
  OBVIOUS
<1>2. PagesTypeOK
  BY <1>1, PagesAssumption DEF PagesInit, PagesTypeOK, NodePage
<1>3. Free = {} /\ Cardinality({}) = 0
  BY <1>1, <1>2, HeadFree, FS_EmptySet DEF PagesInit
<1>. QED  BY <1>1, <1>2, <1>3, PagesAssumption DEF QueueInv, PagesInit, QueueSound, HeldApart, OneWay

LEMMA QueueUnchanged ==
  ASSUME QueueInv, UNCHANGED pageVars
  PROVE  QueueInv' /\ Free' = Free
<1>1. /\ next' = next /\ head' = head /\ tail' = tail /\ num' = num
      /\ length' = length /\ size' = size /\ held' = held
  BY DEF pageVars, queue
<1>2. Free' = Free
  BY <1>1 DEF Free, Follows
<1>. QED  BY <1>1, <1>2 DEF QueueInv, PagesTypeOK, QueueSound, HeldApart, OneWay

LEMMA QueueNextSound == QueueInv /\ [PagesNext]_pageVars => QueueInv'
<1>1. SUFFICES ASSUME QueueInv, [PagesNext]_pageVars PROVE QueueInv'
  OBVIOUS
<1>2. CASE TakeFree
  BY <1>1, <1>2, TakeFreeKeeps
<1>3. CASE AppendPage
  BY <1>1, <1>3, AppendPageKeeps
<1>4. ASSUME NEW a \in NodePage, ReleaseNode(a) PROVE QueueInv'
  BY <1>1, <1>4, CutOffKeeps, EnqueueKeeps DEF ReleaseNode
<1>5. CASE Reopen
  BY <1>1, <1>5, ReopenKeeps
<1>6. CASE UNCHANGED pageVars
  BY <1>1, <1>6, QueueUnchanged
<1>. QED  BY <1>1, <1>2, <1>3, <1>4, <1>5, <1>6 DEF PagesNext, GetNewNode

\* get_new_BNode and release_new_BNode, called in any order, with restarts,
\* keep the queue what they take it for, and its links one way.
THEOREM QueueKept == PagesSpec => []QueueInv
BY QueueInitSound, QueueNextSound, PTL DEF PagesSpec

\* The pages named by the control block and the nodes are pages of the file.
THEOREM PagesTypesKept == PagesSpec => []PagesTypeOK
<1>1. QueueInv => PagesTypeOK
  BY DEF QueueInv
<1>. QED  BY <1>1, QueueKept, PTL

\* get_new_BNode, which goes by free_node_num, never takes -1 for a page, and
\* what release_new_BNode appends behind the tail is found again.
THEOREM QueueIsSound == PagesSpec => []QueueSound
<1>1. QueueInv => QueueSound
  BY DEF QueueInv
<1>. QED  BY <1>1, QueueKept, PTL

\* A node's page is never handed out a second time, nor cut off with the file.
THEOREM NeverTwice == PagesSpec => []HeldApart
<1>1. QueueInv => HeldApart
  BY DEF QueueInv
<1>. QED  BY <1>1, QueueKept, PTL

\* What a step may do to the pages that are neither the tree's nor free.
LostOnlyBack == Lost' \subseteq Lost \cup (IF held' = held THEN length .. size - 1 ELSE {})

LEMMA StepLoses == QueueInv /\ [PagesNext]_pageVars => LostOnlyBack \/ UNCHANGED pageVars
<1>1. SUFFICES ASSUME QueueInv, PagesNext PROVE LostOnlyBack
  OBVIOUS
<1>2. PagesTypeOK /\ length \in Nat /\ size \in Nat
  BY <1>1 DEF QueueInv, PagesTypeOK
<1>3. CASE TakeFree
  BY <1>1, <1>3, TakeFreeQueue DEF TakeFree, Lost, LostOnlyBack
<1>4. CASE AppendPage
  BY <1>1, <1>2, <1>4, AppendPageKeeps DEF AppendPage, Lost, LostOnlyBack
<1>5. ASSUME NEW a \in NodePage, ReleaseNode(a) PROVE LostOnlyBack
  <2>1. CASE CutOff(a)
    BY <1>1, <1>2, <1>5, <2>1, CutOffKeeps DEF ReleaseNode, CutOff, Lost, LostOnlyBack
  <2>2. CASE Enqueue(a)
    BY <1>1, <1>2, <1>5, <2>2, EnqueueQueue DEF ReleaseNode, Enqueue, Lost, LostOnlyBack
  <2>. QED  BY <1>5, <2>1, <2>2 DEF ReleaseNode
<1>6. CASE Reopen
  BY <1>1, <1>2, <1>6, ReopenKeeps DEF Reopen, Lost, LostOnlyBack
<1>. QED  BY <1>1, <1>3, <1>4, <1>5, <1>6 DEF PagesNext, GetNewNode

\* The code forgets no page: one becomes lost only when b_tree_init brings back
\* pages that release_new_BNode had cut off.
THEOREM Accounted == PagesSpec => NothingElseLost
<1>1. QueueInv /\ [PagesNext]_pageVars => [LostOnlyBack]_pageVars
  BY StepLoses
<1>. QED  BY <1>1, QueueKept, PTL DEF PagesSpec, NothingElseLost, LostOnlyBack
=============================================================================
