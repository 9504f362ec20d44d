-------------------------------- MODULE Table --------------------------------
(***************************************************************************)
(* table.c: rows in the blocks of a data file, with a free-space map that  *)
(* finds a block with room.  The map is the one hash_map.c implements      *)
(* (FreeSpace); the blocks are pages seen through the buffer pool.         *)
(***************************************************************************)
EXTENDS SlottedBlock

CONSTANT MaxBlocks  \* bound: pages the data file can grow to

ASSUME BlocksAssumption == MaxBlocks \in Nat

Addr == 0 .. MaxBlocks - 1

VARIABLES blocks,   \* the data file
          length,   \* its length, in pages
          entries,  \* the free-space map: pairs <<size, block>>
          call      \* the last call that changed something

vars == <<blocks, length, entries, call>>

Free == INSTANCE FreeSpace WITH Sizes <- PageSize

TypeOK ==
  /\ length \in 0 .. MaxBlocks
  /\ DOMAIN blocks = Addr
  /\ \A a \in Addr : /\ blocks[a].ids \in Seq(ItemID)
                     /\ blocks[a].mem \in [0 .. PageSize - 1 -> Byte \cup {Nil}]
  /\ entries \subseteq (0 .. PageSize - 1) \X (0 .. length - 1)

-----------------------------------------------------------------------------
\* The row goes into block b at a, and a is filed under the room that is left.
Place(a, b, item, others) ==
  LET now == NewItem(b, item) IN
  /\ blocks' = [blocks EXCEPT ![a] = now]
  /\ entries' = others \cup {<<Room(now), a>>}
  /\ call' = <<"insert", item, <<a, NewIndex(b)>>>>

\* The map offers a block, which leaves it meanwhile.
InsertIntoRoom(item) ==
  \E e \in Free!BestFits(Len(item)) :
    /\ Place(e[2], blocks[e[2]], item, entries \ {e})
    /\ UNCHANGED length

\* It offers none: a block is appended.
InsertIntoNew(item) ==
  /\ Free!BestFits(Len(item)) = {}
  /\ length < MaxBlocks
  /\ Place(length, InitBlock, item, entries)
  /\ length' = length + 1

Insert(item) == InsertIntoRoom(item) \/ InsertIntoNew(item)

\* Mutant of Delete: the block stays filed under its old room as well.
DeleteFilesTwice(a, i) ==
  /\ a < length /\ i \in Used(blocks[a])
  /\ blocks' = [blocks EXCEPT ![a] = DeleteItem(@, i)]
  /\ entries' = entries \cup {<<Room(DeleteItem(blocks[a], i)), a>>}
  /\ call' = <<"delete", <<a, i>>>>
  /\ UNCHANGED length

\* table_delete of a row that exists.  hash_table_pop looks for the block
\* under the room computed before.
Delete(a, i) ==
  /\ a < length /\ i \in Used(blocks[a])
  /\ blocks' = [blocks EXCEPT ![a] = DeleteItem(@, i)]
  /\ entries' = (entries \ {<<Room(blocks[a]), a>>}) \cup {<<Room(DeleteItem(blocks[a], i)), a>>}
  /\ call' = <<"delete", <<a, i>>>>
  /\ UNCHANGED length

-----------------------------------------------------------------------------
\* table_init on empty files.
Init ==
  /\ blocks = [a \in Addr |-> InitBlock]
  /\ length = 0
  /\ entries = {}
  /\ call = Nil

Next ==
  \/ \E item \in Item : Insert(item)
  \/ \E a \in Addr : \E i \in Used(blocks[a]) : Delete(a, i)

Spec == Init /\ [][Next]_vars

-----------------------------------------------------------------------------
\* In every block, the items fill the page from the tail on without a hole or
\* an overlap and never meet the ids: delete_item moves exactly the items below
\* the hole, ids and bytes alike, and new_item is only called where there is
\* room ("there should be enough space", block.h:47).
BlocksTiled == TypeOK /\ \A a \in 0 .. length - 1 : Sound(blocks[a]) /\ Tight(blocks[a])

\* Every block is filed once, under its room: the three computations in table.c
\* agree, so hash_table_pop finds the entry it looks for, no block is forgotten
\* and none is offered for a row that does not fit.
FiledUnderRoom == entries = {<<Room(blocks[a]), a>> : a \in 0 .. length - 1}

\* A row is read back as it was written under the RID it was given, whatever
\* happens to its neighbours.
Rids == {<<a, i>> : a \in Addr, i \in 0 .. PageSize}
Held == {r \in Rids : r[2] \in Used(blocks[r[1]])}

Row == INSTANCE Rows WITH Rid <- Rids, Row <- Item,
                          rows <- [r \in Held |-> GetItem(blocks[r[1]], r[2])]
ImplementsRows == Row!Spec
=============================================================================
