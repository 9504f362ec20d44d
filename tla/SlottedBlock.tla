---------------------------- MODULE SlottedBlock ----------------------------
(***************************************************************************)
(* block.c: the items of one page.  After the header, item ids grow        *)
(* upwards; from the end of the page, items grow downwards.  An id tells   *)
(* whether it is available, and the offset and size of its item.           *)
(*                                                                         *)
(* Indices are C's, from 0; the ids are a sequence, so id i is ids[i + 1]. *)
(* Bytes below the last item are rubbish nobody reads, and written Nil.    *)
(***************************************************************************)
EXTENDS Integers, Sequences

CONSTANTS PageSize,  \* PAGE_SIZE
          Header,    \* the offset of data in Block
          IdSize,    \* sizeof(ItemID)
          Item,      \* items: sequences of bytes
          Nil

Byte == UNION {{item[i] : i \in DOMAIN item} : item \in Item}

ASSUME LayoutAssumption ==
  /\ PageSize \in Nat /\ Header \in Nat /\ IdSize \in Nat \ {0}
  /\ Header + IdSize < PageSize
\* "tables do not handle rows/records which are larger than one page"
ASSUME ItemAssumption ==
  \A item \in Item : /\ item \in Seq(Byte)
                     /\ Len(item) \in 1 .. PageSize - Header - IdSize
ASSUME NilAssumption == Nil \notin Byte

Offset == 0 .. PageSize
ItemID == [free : BOOLEAN, off : Offset, size : Offset]

\* compose_item_id(1, 0, 0)
Available == [free |-> TRUE, off |-> 0, size |-> 0]

\* The indices of ids, and those with an item.
Index(b) == 0 .. Len(b.ids) - 1
Used(b)  == {i \in Index(b) : ~b.ids[i + 1].free}

InitBlock == [ids |-> <<>>, head |-> Header, tail |-> PageSize,
              mem |-> [o \in 0 .. PageSize - 1 |-> Nil]]

\* get_item, and the size table_read copies.
GetItem(b, i) ==
  [j \in 1 .. b.ids[i + 1].size |-> b.mem[b.ids[i + 1].off + j - 1]]

-----------------------------------------------------------------------------
(* new_item                                                                 *)

\* The item's bytes from offset o on.
Stored(mem, o, item) ==
  [p \in DOMAIN mem |-> IF p \in o .. o + Len(item) - 1 THEN item[p - o + 1] ELSE mem[p]]

HasAvailable(b) == \E i \in Index(b) : b.ids[i + 1].free

\* The index the item gets: the first available id, or a new one.
NewIndex(b) ==
  IF HasAvailable(b)
    THEN CHOOSE i \in Index(b) : b.ids[i + 1].free /\ \A k \in Index(b) : b.ids[k + 1].free => i <= k
    ELSE Len(b.ids)

NewItem(b, item) ==
  LET tail == b.tail - Len(item)
      id   == [free |-> FALSE, off |-> tail, size |-> Len(item)]
  IN  [ids  |-> IF HasAvailable(b) THEN [b.ids EXCEPT ![NewIndex(b) + 1] = id] ELSE Append(b.ids, id),
       head |-> IF HasAvailable(b) THEN b.head ELSE b.head + IdSize,
       tail |-> tail,
       mem  |-> Stored(b.mem, tail, item)]

-----------------------------------------------------------------------------
(* delete_item                                                              *)

\* Mutant of Moved: the item next to the hole is not accounted for.
MovedBelow(id, hole) ==
  IF ~id.free /\ id.off + id.size < hole.off THEN [id EXCEPT !.off = @ + hole.size] ELSE id

\* Where an item is once the ones below the hole have moved up.
Moved(id, hole) ==
  IF ~id.free /\ id.off <= hole.off THEN [id EXCEPT !.off = @ + hole.size] ELSE id

\* The bytes from the tail up to the hole move up over it.
Closed(b, hole) ==
  [o \in DOMAIN b.mem |-> IF o < b.tail + hole.size THEN Nil
                          ELSE IF o < hole.off + hole.size THEN b.mem[o - hole.size]
                          ELSE b.mem[o]]

DeleteItem(b, i) ==
  LET hole == b.ids[i + 1]
      n    == Len(b.ids)
      last == i = n - 1
      ids  == [k \in 1 .. n |-> IF k = i + 1 THEN Available ELSE Moved(b.ids[k], hole)]
  IN  [ids  |-> IF last THEN SubSeq(ids, 1, n - 1) ELSE ids,
       head |-> IF last THEN b.head - IdSize ELSE b.head,
       tail |-> b.tail + hole.size,
       mem  |-> Closed(b, hole)]

-----------------------------------------------------------------------------
\* Mutant of Room: the id a new item needs is forgotten.
RoomForgetsId(b) == b.tail - b.head

\* What table.c files a block under: the largest item that fits.
Room(b) ==
  LET gap == b.tail - b.head IN
  IF HasAvailable(b) THEN gap ELSE IF gap < IdSize THEN 0 ELSE gap - IdSize

\* The items lie apart, above the ids and within the page.
Sound(b) ==
  /\ DOMAIN b.mem = 0 .. PageSize - 1
  /\ b.head = Header + IdSize * Len(b.ids) /\ b.head <= b.tail /\ b.tail <= PageSize
  /\ \A i \in Used(b) : LET id == b.ids[i + 1] IN
       id.size > 0 /\ b.tail <= id.off /\ id.off + id.size <= PageSize
  /\ \A i, j \in Used(b) : LET x == b.ids[i + 1]  y == b.ids[j + 1] IN
       i # j => x.off + x.size <= y.off \/ y.off + y.size <= x.off

\* They leave no hole: every byte above the tail is some item's.
Tight(b) ==
  \A o \in b.tail .. PageSize - 1 : \E i \in Used(b) :
    o \in b.ids[i + 1].off .. b.ids[i + 1].off + b.ids[i + 1].size - 1
=============================================================================
