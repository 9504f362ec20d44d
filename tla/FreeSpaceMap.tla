---------------------------- MODULE FreeSpaceMap ----------------------------
(***************************************************************************)
(* hash_map.c: the free-space map of one table, in the pages of one file.  *)
(*                                                                         *)
(*   page 0                 control block: the head of the free list       *)
(*   pages 1 .. DirPages    directory: the head of one chain per size      *)
(*   the rest               blocks, with room for BlockSize entries each   *)
(*                                                                         *)
(* A block in a chain holds data-block addresses; a block in the free list *)
(* holds the addresses of blocks to reuse, its own first.  Pages are the   *)
(* contents seen through the buffer pool (PageStore), so a call is one     *)
(* step.  The field prv is written by the code and never read: left out.   *)
(***************************************************************************)
EXTENDS Integers

CONSTANTS DirPages,   \* n_directory_blocks
          Slots,      \* HASH_MAP_DIR_BLOCK_SIZE
          BlockSize,  \* HASH_MAP_BLOCK_SIZE
          Addr,       \* data blocks the table may file
          Nil,        \* -1
          MaxPages    \* bound: pages the file can grow to

ASSUME SizesAssumption ==
  /\ DirPages \in Nat \ {0} /\ Slots \in Nat \ {0} /\ BlockSize \in Nat \ {0}
  /\ MaxPages \in Nat /\ MaxPages > DirPages
ASSUME NilAssumption == Nil \notin Addr /\ Nil \notin Nat

Sizes == DirPages * Slots
Size  == 0 .. Sizes - 1
First == DirPages + 1
Block == First .. MaxPages - 1
Cell  == 1 .. BlockSize

ASSUME CallAssumption == Nil \notin Size \X (Addr \cup {Nil})

VARIABLES dir,       \* the directory blocks, as one array
          blk,       \* the blocks: next, n_items, table
          freeHead,  \* free_block_head
          length,    \* file.length, in pages
          size,      \* pages of the file on disk
          pinned,    \* pages whose ref flag is set between calls
          call       \* the last call: its size, and the block it filed or returned

vars == <<dir, blk, freeHead, length, size, pinned, call>>

Blank == [next |-> Nil, n |-> 0, table |-> [i \in Cell |-> Nil]]

TypeOK ==
  /\ dir \in [Size -> Block \cup {Nil}]
  /\ blk \in [Block -> [next : Block \cup {Nil}, n : 0 .. BlockSize,
                        table : [Cell -> Addr \cup Block \cup {Nil}]]]
  /\ freeHead \in Block \cup {Nil}
  /\ length \in First .. MaxPages /\ size \in length .. MaxPages
  /\ pinned \subseteq {First} \cap 1 .. length - 1
  /\ call \in (Size \X (Addr \cup {Nil})) \cup {Nil}

-----------------------------------------------------------------------------
Greatest(S) == CHOOSE i \in S : \A j \in S : j <= i

\* The blocks that the links lead to from p, p itself among them: those that no
\* set which holds p and follows the links can do without.
Walk(links, p) ==
  IF p = Nil THEN {}
  ELSE {b \in Block : \A S \in SUBSET (Block \ {b}) :
          p \in S => \E c \in S : links[c] # Nil /\ links[c] \notin S}

Links    == [b \in Block |-> blk[b].next]
Chain(p) == Walk(Links, p)

\* The blocks that a loop which starts at p and stops at any of stop gets and
\* releases: they are left unpinned.
Seen(p, stop) == Walk([b \in Block |-> IF b \in stop THEN Nil ELSE blk[b].next], p)

\* The loop "n_items is full and there is a next" stops at a block with room,
\* or at the last one.
Room == {b \in Block : blk[b].n < BlockSize}

\* An entry is put behind the others.
Extended(b, a) == [next |-> b.next, n |-> b.n + 1, table |-> [b.table EXCEPT ![b.n + 1] = a]]

-----------------------------------------------------------------------------
(* get_new_hash_block, and the append that stands in for it.                *)

NewBlock == IF freeHead = Nil THEN length ELSE blk[freeHead].table[blk[freeHead].n]

CanAllocate == freeHead # Nil \/ length < MaxPages

\* The free list without the block handed out: the head that listed nothing
\* but itself leaves the list.
TakenFrom(b) ==
  [next  |-> IF b.n = 1 THEN Nil ELSE b.next,
   n     |-> b.n - 1,
   table |-> [b.table EXCEPT ![b.n] = Nil]]

\* Mutant: the head stays the head when it has nothing more to list.
AllocateKeepsHead ==
  IF freeHead = Nil
    THEN /\ length' = length + 1
         /\ size' = IF size > length THEN size ELSE length + 1
         /\ freeHead' = freeHead
    ELSE UNCHANGED <<freeHead, length, size>>

\* Mutant: the blocks behind the head are forgotten with it.
AllocateDropsRest ==
  IF freeHead = Nil
    THEN /\ length' = length + 1
         /\ size' = IF size > length THEN size ELSE length + 1
         /\ freeHead' = freeHead
    ELSE /\ freeHead' = IF blk[freeHead].n = 1 THEN Nil ELSE freeHead
         /\ UNCHANGED <<length, size>>

Allocate ==
  IF freeHead = Nil
    THEN /\ length' = length + 1
         /\ size' = IF size > length THEN size ELSE length + 1
         /\ freeHead' = freeHead
    ELSE /\ freeHead' = IF blk[freeHead].n = 1 THEN blk[freeHead].next ELSE freeHead
         /\ UNCHANGED <<length, size>>

AfterAllocate ==
  IF freeHead = Nil THEN blk ELSE [blk EXCEPT ![freeHead] = TakenFrom(@)]

\* A block with one entry, as both branches of hash_table_insert set it up.
Fresh(a) == [next |-> Nil, n |-> 1, table |-> [i \in Cell |-> IF i = 1 THEN a ELSE Nil]]

-----------------------------------------------------------------------------
(* hash_table_insert                                                        *)

\* Nothing is filed under s yet.
InsertFirst(s, a) ==
  /\ dir[s] = Nil /\ CanAllocate
  /\ dir' = [dir EXCEPT ![s] = NewBlock]
  /\ blk' = [AfterAllocate EXCEPT ![NewBlock] = Fresh(a)]
  /\ Allocate
  /\ pinned' = pinned \ {freeHead, NewBlock}

\* Mutant: one entry too many is taken to fit.
InsertBeyondRoom(s, a) ==
  /\ \E now \in Seen(dir[s], Room) :
       /\ now \in Room \/ blk[now].next = Nil
       /\ blk' = [blk EXCEPT ![now] = Extended(@, a)]
  /\ UNCHANGED <<dir, freeHead, length, size, pinned>>

\* Some block of the chain has room.
InsertIntoRoom(s, a) ==
  /\ \E now \in Seen(dir[s], Room) \cap Room : blk' = [blk EXCEPT ![now] = Extended(@, a)]
  /\ pinned' = pinned \ Seen(dir[s], Room)
  /\ UNCHANGED <<dir, freeHead, length, size>>

\* The chain is full: a block is linked behind its last one.
InsertBehind(s, a) ==
  /\ CanAllocate
  /\ \E now \in Seen(dir[s], Room) \ Room :
       /\ blk[now].next = Nil
       /\ blk' = [AfterAllocate EXCEPT ![now].next = NewBlock, ![NewBlock] = Fresh(a)]
  /\ pinned' = pinned \ (Seen(dir[s], Room) \cup {freeHead, NewBlock})
  /\ Allocate
  /\ UNCHANGED dir

\* What is filed under s: the entries of its chain, block by block.
Listed(b) == {blk[b].table[i] : i \in 1 .. blk[b].n}
Filed(s)  == UNION {Listed(b) : b \in Chain(dir[s])}

\* "there should not be no duplicate addr": table.c files a block once.
Insert(s, a) ==
  /\ \A t \in Size : a \notin Filed(t)
  /\ InsertFirst(s, a) \/ InsertIntoRoom(s, a) \/ InsertBehind(s, a)
  /\ call' = <<s, a>>

-----------------------------------------------------------------------------
(* Taking out entry j of block b of the chain of s: the common part of      *)
(* hash_table_pop and my_hash_table_pop.                                    *)

\* Mutant: the hole stays.
LeftOpen(b, j) == [b EXCEPT !.n = @ - 1, !.table[j] = Nil]

\* The hole is filled with the last entry of the table that is not -1.
Closed(b, j) ==
  LET rest == {k \in j + 1 .. BlockSize : b.table[k] # Nil}
  IN  [b EXCEPT !.n = @ - 1,
                !.table = IF rest = {} THEN [@ EXCEPT ![j] = Nil]
                          ELSE [@ EXCEPT ![j] = b.table[Greatest(rest)],
                                         ![Greatest(rest)] = Nil]]

\* The block keeps other entries.
TakeEntry(s, b, j) ==
  /\ blk[b].n > 1
  /\ blk' = [blk EXCEPT ![b] = Closed(@, j)]
  /\ pinned' = pinned \ Seen(dir[s], {b})
  /\ UNCHANGED <<dir, freeHead, length, size>>

\* It has no other: what is left of it.
Emptied(b, j) == [next |-> Nil, n |-> 0, table |-> [b.table EXCEPT ![j] = Nil]]

\* Mutant: the block before still points to the one taken out.
UnlinkHeadOnly(s, b, blocks) ==
  /\ dir' = IF b = dir[s] THEN [dir EXCEPT ![s] = blk[b].next] ELSE dir
  /\ blk' = blocks

\* The chain goes on without block b.
Unlink(s, b, blocks) ==
  IF b = dir[s]
    THEN /\ dir' = [dir EXCEPT ![s] = blk[b].next]
         /\ blk' = blocks
    ELSE /\ dir' = dir
         /\ \E c \in Chain(dir[s]) :
              /\ blk[c].next = b
              /\ blk' = [blocks EXCEPT ![c].next = blk[b].next]

\* The block is empty and the last page of the file: the file is shortened.
\* (The page keeps its bytes; nothing refers to them any more.)
TakeLastPage(s, b, j) ==
  /\ blk[b].n = 1 /\ b = length - 1
  /\ Unlink(s, b, [blk EXCEPT ![b] = Blank])
  /\ length' = length - 1
  /\ pinned' = pinned \ Seen(dir[s], {b})
  /\ UNCHANGED <<freeHead, size>>

\* release_new_hash_block: b becomes an entry of the free list, or a block of
\* it that lists itself.
TakeBlock(s, b, j) ==
  LET alone == Extended(Emptied(blk[b], j), b)
  IN  /\ blk[b].n = 1 /\ b # length - 1
      /\ pinned' = pinned \ (Seen(dir[s], {b}) \cup Seen(freeHead, Room))
      /\ \/ /\ freeHead = Nil
            /\ freeHead' = b
            /\ Unlink(s, b, [blk EXCEPT ![b] = alone])
         \/ /\ freeHead' = freeHead
            /\ \E f \in Seen(freeHead, Room) \cap Room :
                 Unlink(s, b, [blk EXCEPT ![b] = Emptied(@, j), ![f] = Extended(@, b)])
         \/ /\ freeHead' = freeHead
            /\ \E f \in Seen(freeHead, Room) \ Room :
                 /\ blk[f].next = Nil
                 /\ Unlink(s, b, [blk EXCEPT ![b] = alone, ![f].next = b])
      /\ UNCHANGED <<length, size>>

Take(s, b, j) == TakeEntry(s, b, j) \/ TakeLastPage(s, b, j) \/ TakeBlock(s, b, j)

\* hash_table_pop: "addr to be poped must exist".
Remove(s, a) ==
  /\ \E b \in Chain(dir[s]) : \E j \in 1 .. blk[b].n : blk[b].table[j] = a /\ Take(s, b, j)
  /\ call' = <<s, a>>

\* Mutant: the search starts behind the size asked for.
PopGreater(s) ==
  /\ \E t \in s + 1 .. Sizes - 1 :
       /\ dir[t] # Nil /\ \A u \in s + 1 .. t - 1 : dir[u] = Nil
       /\ LET b == blk[dir[t]]
          IN  Take(t, dir[t], b.n) /\ call' = <<s, b.table[b.n]>>

\* hash_table_pop_lower_bound finds the first size from s on with a chain and
\* takes the last entry of its first block.
PopLowerBound(s) ==
  /\ \E t \in s .. Sizes - 1 :
       /\ dir[t] # Nil /\ \A u \in s .. t - 1 : dir[u] = Nil
       /\ LET b == blk[dir[t]]
          IN  Take(t, dir[t], b.n) /\ call' = <<s, b.table[b.n]>>

\* It finds none: it has gone on to the page behind the directory, which
\* get_page appends if the file ends there, and does not release it.
PopNothing(s) ==
  /\ \A t \in s .. Sizes - 1 : dir[t] = Nil
  /\ First < length \/ length < MaxPages
  /\ length' = IF length = First THEN First + 1 ELSE length
  /\ size' = IF size > length' THEN size ELSE length'
  /\ pinned' = pinned \cup {First}
  /\ call' = <<s, Nil>>
  /\ UNCHANGED <<dir, blk, freeHead>>

\* hash_table_close, and hash_table_init on the file it leaves.
Reopen ==
  /\ length' = size /\ pinned' = {} /\ call' = Nil
  /\ UNCHANGED <<dir, blk, freeHead, size>>

-----------------------------------------------------------------------------
\* hash_table_init on an empty file.
Init ==
  /\ dir = [s \in Size |-> Nil]
  /\ blk = [b \in Block |-> Blank]
  /\ freeHead = Nil
  /\ length = First /\ size = First
  /\ pinned = {}
  /\ call = Nil

Next ==
  \/ \E s \in Size :
       \/ PopLowerBound(s) \/ PopNothing(s)
       \/ \E a \in Addr : Insert(s, a) \/ Remove(s, a)
  \/ Reopen

Spec == Init /\ [][Next]_vars

-----------------------------------------------------------------------------
(* Safety *)

FreeList  == Chain(freeHead)
FreePages == UNION {Listed(b) : b \in FreeList}
InUse     == UNION {Chain(dir[s]) : s \in Size}
Heads     == ({freeHead} \cup {dir[s] : s \in Size}) \ {Nil}

\* Every chain ends, and no two chains share a block: the walks of
\* hash_table_insert, hash_table_pop and release_new_hash_block terminate, and
\* a store into one chain is never seen in another.
ChainsApart ==
  /\ \A h \in Heads : \E b \in Chain(h) : blk[b].next = Nil
  /\ \A s, t \in Size : dir[s] = dir[t] /\ dir[s] # Nil => s = t
  /\ \A b \in InUse \cup FreeList : blk[b].next \notin Heads
  /\ \A b, c \in InUse \cup FreeList : blk[b].next = blk[c].next /\ blk[b].next # Nil => b = c

\* The free list lists every block once, its own blocks included ("addr 1 store
\* its self"), and nothing it lists is in a chain or behind the end of the file.
FreeListSound ==
  /\ FreeList \subseteq FreePages
  /\ \A b, c \in FreeList : \A i \in 1 .. blk[b].n, j \in 1 .. blk[c].n :
       blk[b].table[i] = blk[c].table[j] => b = c /\ i = j
  /\ FreePages \cap InUse = {}
  /\ FreePages \cup InUse \subseteq First .. length - 1

\* Tables are packed and -1 behind: what the removals that fill a hole with the
\* last entry that is not -1, and the test of n_items alone, both rely on.
TablesPacked ==
  \A b \in InUse \cup FreeList :
    /\ blk[b].n > 0
    /\ \A i \in Cell : blk[b].table[i] = Nil <=> i > blk[b].n

\* Pages of the file that nothing refers to.
Lost == (First .. length - 1) \ (InUse \cup FreePages)

\* No call loses a page, but for two known leaks: the page appended by a search
\* that finds nothing, and dropped pages that a restart brings back.
NothingElseLost ==
  [][Lost' \subseteq Lost \cup (IF call' = Nil THEN length .. size - 1
                                ELSE IF call'[2] = Nil THEN {First} ELSE {})]_vars

\* The map is a set of (size, data block) entries with best-fit removal.
Space == INSTANCE FreeSpace WITH entries <- UNION {{s} \X Filed(s) : s \in Size}
ImplementsFreeSpace == Space!Spec
=============================================================================
