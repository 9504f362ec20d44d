----------------------------- MODULE NodePages -----------------------------
(***************************************************************************)
(* b_tree.c: where the index gets the pages of its nodes.  Page 0 is the   *)
(* control block, page 1 the first root; pages given back form a queue     *)
(* linked through next, and the last page of the file is cut off instead.  *)
(* The tree (BTree) is the caller: it gives back any page it holds but the *)
(* only one.  BTreeProofs is about both modules, which is why the usual    *)
(* names (Spec, TypeOK) are qualified here.                                *)
(***************************************************************************)
EXTENDS Integers, FiniteSets

CONSTANTS MaxPages,  \* bound: pages the file can grow to
          NoPage     \* -1

ASSUME PagesAssumption  == MaxPages \in Nat /\ MaxPages > 2
ASSUME NoPageAssumption == NoPage \notin Nat

NodePage == 1 .. MaxPages - 1

VARIABLES next,    \* BNode.next
          head, tail, num,  \* free_node_head, free_node_tail, free_node_num
          length,  \* file.length, in pages
          size,    \* pages of the file on disk
          held     \* pages the tree uses

queue == <<next, head, tail, num>>
pageVars == <<queue, length, size, held>>

PagesTypeOK ==
  /\ next \in [NodePage -> NodePage \cup {NoPage}]
  /\ head \in NodePage \cup {NoPage} /\ tail \in NodePage \cup {NoPage} /\ num \in 0 .. MaxPages
  /\ length \in 2 .. MaxPages /\ size \in length .. MaxPages
  /\ held \subseteq NodePage /\ held # {}

\* Mutant of TakeFree: free_node_num is not counted down.
TakeFreeUncounted ==
  /\ num > 0
  /\ held' = held \cup {head}
  /\ head' = next[head]
  /\ next' = [next EXCEPT ![head] = NoPage]
  /\ tail' = IF num = 1 THEN NoPage ELSE tail
  /\ UNCHANGED <<num, length, size>>

\* get_new_BNode takes the head of the queue.
TakeFree ==
  /\ num > 0
  /\ held' = held \cup {head}
  /\ head' = next[head]
  /\ next' = [next EXCEPT ![head] = NoPage]
  /\ num' = num - 1
  /\ tail' = IF num = 1 THEN NoPage ELSE tail
  /\ UNCHANGED <<length, size>>

\* Mutant of AppendPage: the new page is not written to the file.
AppendPageUnwritten ==
  /\ num = 0
  /\ length < MaxPages
  /\ held' = held \cup {length}
  /\ length' = length + 1
  /\ UNCHANGED <<queue, size>>

\* It returns -1, and its caller appends a page.
AppendPage ==
  /\ num = 0
  /\ length < MaxPages
  /\ held' = held \cup {length}
  /\ length' = length + 1
  /\ size' = IF size > length THEN size ELSE length + 1
  /\ UNCHANGED queue

GetNewNode == TakeFree \/ AppendPage

\* Mutant of CutOff: the file is cut short whichever page is given back.
CutOffAlways(a) == length' = length - 1 /\ UNCHANGED <<queue, size>>

\* release_new_BNode of the last page of the file.
CutOff(a) ==
  /\ a = length - 1
  /\ length' = length - 1
  /\ UNCHANGED <<queue, size>>

\* Mutant of Enqueue: the queue is taken for empty when it has one page.
EnqueueRestarts(a) ==
  /\ a # length - 1
  /\ head' = IF num <= 1 THEN a ELSE head
  /\ next' = [b \in NodePage |-> IF b = a THEN NoPage
                                 ELSE IF num > 1 /\ b = tail THEN a ELSE next[b]]
  /\ tail' = a /\ num' = IF num <= 1 THEN 1 ELSE num + 1
  /\ UNCHANGED <<length, size>>

\* release_new_BNode of any other page.
Enqueue(a) ==
  /\ a # length - 1
  /\ head' = IF num = 0 THEN a ELSE head
  /\ next' = [b \in NodePage |-> IF b = a THEN NoPage
                                 ELSE IF num > 0 /\ b = tail THEN a ELSE next[b]]
  /\ tail' = a /\ num' = num + 1
  /\ UNCHANGED <<length, size>>

ReleaseNode(a) ==
  /\ a \in held /\ held # {a}
  /\ held' = held \ {a}
  /\ CutOff(a) \/ Enqueue(a)

\* b_tree_close, and b_tree_init on the file it leaves, which still has the
\* pages that were cut off.
Reopen == length' = size /\ UNCHANGED <<queue, size, held>>

\* b_tree_init on an empty file.
PagesInit ==
  /\ next = [a \in NodePage |-> NoPage]
  /\ head = NoPage /\ tail = NoPage /\ num = 0
  /\ length = 2 /\ size = 2
  /\ held = {1}

PagesNext == GetNewNode \/ (\E a \in NodePage : ReleaseNode(a)) \/ Reopen

PagesSpec == PagesInit /\ [][PagesNext]_pageVars

-----------------------------------------------------------------------------
\* The pages of the queue: those that are reached from its head.
Follows(S) == head \in S \cup {NoPage} /\ \A a \in S : next[a] \in S \cup {NoPage}
Free == {a \in NodePage : \A S \in SUBSET NodePage : Follows(S) => a \in S}

\* The head, the links, the tail and the count agree on one queue of distinct
\* pages, which ends: get_new_BNode, which goes by the count, never takes -1 for
\* a page, and what is appended behind the tail is reached from the head.
QueueSound ==
  /\ Cardinality(Free) = num
  /\ IF num = 0 THEN head = NoPage /\ tail = NoPage ELSE tail \in Free /\ next[tail] = NoPage

\* No page of the tree is free, and all of them are pages of the file: a node
\* is never handed out a second time, nor cut off with the file.
HeldApart == held \cap Free = {} /\ held \cup Free \subseteq 1 .. length - 1

Lost == (1 .. length - 1) \ (held \cup Free)

\* A page is lost to the index only when a restart brings back pages that had
\* been cut off: the code forgets none.
NothingElseLost ==
  [][Lost' \subseteq Lost \cup (IF held' = held THEN length .. size - 1 ELSE {})]_pageVars
=============================================================================
