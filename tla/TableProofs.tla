----------------------------- MODULE TableProofs -----------------------------
(***************************************************************************)
(* Proofs about block.c and table.c: the items of a block fill its end     *)
(* without a hole or an overlap, each block is filed once under its room,  *)
(* and a table implements Rows, for every page layout, every set of rows   *)
(* and every number of blocks.                                             *)
(***************************************************************************)
EXTENDS Table, SequenceTheorems, WellFoundedInduction, TLAPS

-----------------------------------------------------------------------------
(* Arithmetic and sequences.                                                *)

\* A set of natural numbers has a least element: new_item finds the first
\* available id.
LEMMA LeastExists ==
  ASSUME NEW S, S \subseteq Nat, S # {}
  PROVE  \E i \in S : \A k \in S : i <= k
<1>1. PICK i \in S : \A k \in S : ~ (<<k, i>> \in OpToRel(<, Nat))
  BY NatLessThanWellFounded, WFMin, Zenon
<1>2. \A k \in S : k \in Nat /\ i \in Nat
  OBVIOUS
<1>3. ASSUME NEW k \in S PROVE ~(k < i)
  BY <1>1, <1>2, Zenon DEF OpToRel
<1>. QED  BY <1>2, <1>3

\* The ids of n items take IdSize bytes each.
LEMMA IdsTake ==
  ASSUME NEW n \in Nat
  PROVE  /\ IdSize * n \in Nat /\ n <= IdSize * n
         /\ IdSize * (n + 1) = IdSize * n + IdSize
         /\ n > 0 => IdSize * n >= IdSize /\ IdSize * (n - 1) = IdSize * n - IdSize
BY LayoutAssumption

-----------------------------------------------------------------------------
(* What an operation on a block needs, and leaves.                          *)

BlockOK(b) ==
  /\ b.ids \in Seq(ItemID) /\ b.tail \in 0 .. PageSize
  /\ b.mem \in [0 .. PageSize - 1 -> Byte \cup {Nil}]
  /\ Sound(b) /\ Tight(b)

\* The ids are below the items, and the items within the page.
LEMMA Bounds ==
  ASSUME NEW b, BlockOK(b)
  PROVE  /\ Len(b.ids) \in 0 .. PageSize
         /\ b.head \in Nat /\ b.head <= b.tail /\ b.tail \in 0 .. PageSize
         /\ b.head >= Header
         /\ Len(b.ids) > 0 => b.head >= Header + IdSize
<1>1. Len(b.ids) \in Nat
  BY DEF BlockOK
<1>2. b.head = Header + IdSize * Len(b.ids) /\ b.head <= b.tail /\ b.tail \in 0 .. PageSize
  BY DEF BlockOK, Sound
<1>3. IdSize * Len(b.ids) \in Nat /\ Len(b.ids) <= IdSize * Len(b.ids)
      /\ (Len(b.ids) > 0 => IdSize * Len(b.ids) >= IdSize)
  BY <1>1, IdsTake
<1>. DEFINE x == IdSize * Len(b.ids)
<1>. HIDE DEF x
<1>. QED  BY <1>1, <1>2, <1>3, LayoutAssumption DEF x

\* The indices that are used, and their ids.
LEMMA UsedIds ==
  ASSUME NEW b, BlockOK(b), NEW i \in Used(b)
  PROVE  /\ i \in Nat /\ i + 1 \in 1 .. Len(b.ids) /\ b.ids[i + 1] \in ItemID
         /\ ~b.ids[i + 1].free
         /\ b.ids[i + 1].off \in Nat /\ b.ids[i + 1].size \in Nat \ {0}
         /\ b.tail <= b.ids[i + 1].off
         /\ b.ids[i + 1].off + b.ids[i + 1].size <= PageSize
<1>1. i \in Nat /\ i + 1 \in 1 .. Len(b.ids) /\ ~b.ids[i + 1].free
  BY DEF BlockOK, Used, Index
<1>2. b.ids[i + 1] \in ItemID
  BY <1>1, ElementOfSeq DEF BlockOK
<1>3. /\ b.ids[i + 1].size > 0 /\ b.tail <= b.ids[i + 1].off
      /\ b.ids[i + 1].off + b.ids[i + 1].size <= PageSize
  BY DEF BlockOK, Sound
<1>. QED  BY <1>1, <1>2, <1>3, LayoutAssumption DEF ItemID, Offset

\* And their items lie apart.
LEMMA Apart ==
  ASSUME NEW b, BlockOK(b), NEW i \in Used(b), NEW j \in Used(b), i # j
  PROVE  \/ b.ids[i + 1].off + b.ids[i + 1].size <= b.ids[j + 1].off
         \/ b.ids[j + 1].off + b.ids[j + 1].size <= b.ids[i + 1].off
BY DEF BlockOK, Sound

LEMMA InitBlockOK == BlockOK(InitBlock) /\ Used(InitBlock) = {}
<1>1. Used(InitBlock) = {}
  BY DEF Used, Index, InitBlock
<1>2. IdSize * 0 = 0
  BY LayoutAssumption
<1>3. Sound(InitBlock)
  BY <1>1, <1>2, LayoutAssumption DEF Sound, InitBlock
<1>4. Tight(InitBlock)
  BY LayoutAssumption DEF Tight, InitBlock
<1>. QED  BY <1>1, <1>3, <1>4, LayoutAssumption DEF BlockOK, InitBlock

-----------------------------------------------------------------------------
(* new_item                                                                 *)

\* The item fits below the tail, and above the ids even if it needs a new one.
LEMMA RoomFits ==
  ASSUME NEW b, BlockOK(b), NEW n \in Nat \ {0}, n <= Room(b)
  PROVE  /\ n <= b.tail - b.head
         /\ ~HasAvailable(b) => b.head + IdSize + n <= b.tail
BY Bounds, LayoutAssumption DEF Room

\* A block that is filed at all has a size the map knows.
LEMMA RoomSize ==
  ASSUME NEW b, BlockOK(b)
  PROVE  Room(b) \in 0 .. PageSize - 1
<1>1. HasAvailable(b) => Len(b.ids) > 0
  BY DEF HasAvailable, Index, BlockOK
<1>. QED  BY <1>1, Bounds, LayoutAssumption DEF Room

\* The index a new item gets is not in use.
LEMMA NewIndexUnused ==
  ASSUME NEW b, BlockOK(b)
  PROVE  /\ NewIndex(b) \notin Used(b)
         /\ HasAvailable(b) => NewIndex(b) \in Index(b)
         /\ ~HasAvailable(b) => NewIndex(b) = Len(b.ids)
<1>1. CASE HasAvailable(b)
  <2>. DEFINE S == {i \in Index(b) : b.ids[i + 1].free}
  <2>0. Len(b.ids) \in Nat
    BY DEF BlockOK
  <2>1. S \subseteq Nat /\ S # {}
    <3>1. S \subseteq Nat
      BY <2>0 DEF Index
    <3>2. S # {}
      BY <1>1 DEF HasAvailable
    <3>. QED  BY <3>1, <3>2
  <2>2. \E i \in S : \A k \in S : i <= k
    BY <2>1, LeastExists
  <2>3. \E i \in Index(b) : b.ids[i + 1].free /\ \A k \in Index(b) : b.ids[k + 1].free => i <= k
    BY <2>2
  <2>4. NewIndex(b) \in Index(b) /\ b.ids[NewIndex(b) + 1].free
    BY <1>1, <2>3 DEF NewIndex
  <2>. QED  BY <1>1, <2>4 DEF Used
<1>2. CASE ~HasAvailable(b)
  BY <1>2 DEF NewIndex, Used, Index, BlockOK
<1>. QED  BY <1>1, <1>2

\* One id is set, or added; the others stay.
LEMMA NewIds ==
  ASSUME NEW b, BlockOK(b), NEW id \in ItemID, ~id.free
  PROVE  LET j   == NewIndex(b)
             ids == IF HasAvailable(b) THEN [b.ids EXCEPT ![j + 1] = id] ELSE Append(b.ids, id)
         IN  /\ ids \in Seq(ItemID)
             /\ Len(ids) = IF HasAvailable(b) THEN Len(b.ids) ELSE Len(b.ids) + 1
             /\ j \in 0 .. Len(ids) - 1 /\ ids[j + 1] = id
             /\ \A k \in Used(b) : k \in 0 .. Len(ids) - 1 /\ ids[k + 1] = b.ids[k + 1]
             /\ \A k \in 0 .. Len(ids) - 1 : ~ids[k + 1].free => k \in Used(b) \cup {j}
<1>. DEFINE j   == NewIndex(b)
            ids == IF HasAvailable(b) THEN [b.ids EXCEPT ![j + 1] = id] ELSE Append(b.ids, id)
            n   == Len(b.ids)
<1>1. b.ids \in Seq(ItemID) /\ n \in Nat
  BY DEF BlockOK
<1>2. /\ j \notin Used(b)
      /\ HasAvailable(b) => j \in 0 .. n - 1
      /\ ~HasAvailable(b) => j = n
  BY NewIndexUnused DEF Index
<1>3. CASE HasAvailable(b)
  <2>1. j + 1 \in 1 .. n /\ ids = [b.ids EXCEPT ![j + 1] = id]
    BY <1>1, <1>2, <1>3
  <2>2. /\ ids \in Seq(ItemID) /\ Len(ids) = n /\ ids[j + 1] = id
        /\ \A k \in 0 .. n - 1 : k # j => ids[k + 1] = b.ids[k + 1]
    <3>. HIDE DEF j
    <3>. QED  BY <1>1, <1>2, <1>3, <2>1, ExceptSeq
  <2>. HIDE DEF j, ids
  <2>. QED  BY <1>1, <1>2, <1>3, <2>2 DEF Used, Index, j, ids
<1>4. CASE ~HasAvailable(b)
  <2>1. ids = Append(b.ids, id) /\ j = n
    BY <1>2, <1>4
  <2>2. /\ ids \in Seq(ItemID) /\ Len(ids) = n + 1 /\ ids[j + 1] = id
        /\ \A k \in 0 .. n - 1 : ids[k + 1] = b.ids[k + 1]
    BY <1>1, <2>1, AppendProperties
  <2>. HIDE DEF j, ids
  <2>. QED  BY <1>1, <1>2, <1>4, <2>1, <2>2 DEF Used, Index, j, ids
<1>. QED  BY <1>3, <1>4

\* The bytes of an item that is stored, and all others.
LEMMA StoredBytes ==
  ASSUME NEW mem \in [0 .. PageSize - 1 -> Byte \cup {Nil}], NEW item \in Item,
         NEW o \in Nat, o + Len(item) <= PageSize
  PROVE  /\ Stored(mem, o, item) \in [0 .. PageSize - 1 -> Byte \cup {Nil}]
         /\ \A p \in o .. o + Len(item) - 1 : Stored(mem, o, item)[p] = item[p - o + 1]
         /\ \A p \in 0 .. PageSize - 1 :
              p \notin o .. o + Len(item) - 1 => Stored(mem, o, item)[p] = mem[p]
<1>1. item \in Seq(Byte) /\ Len(item) \in Nat
  BY ItemAssumption
<1>2. \A p \in o .. o + Len(item) - 1 : p - o + 1 \in 1 .. Len(item) /\ item[p - o + 1] \in Byte
  BY <1>1, ElementOfSeq
<1>3. DOMAIN mem = 0 .. PageSize - 1
  OBVIOUS
<1>. DEFINE s == Stored(mem, o, item)
            n == Len(item)
<1>4. s = [p \in 0 .. PageSize - 1 |-> IF p \in o .. o + n - 1 THEN item[p - o + 1] ELSE mem[p]]
  BY <1>3 DEF Stored
<1>5. o .. o + n - 1 \subseteq 0 .. PageSize - 1
  BY <1>1, LayoutAssumption
<1>. HIDE DEF s, n
<1>6. \A p \in 0 .. PageSize - 1 :
        s[p] = IF p \in o .. o + n - 1 THEN item[p - o + 1] ELSE mem[p]
  BY <1>4
<1>7. s \in [0 .. PageSize - 1 -> Byte \cup {Nil}]
  BY <1>2, <1>4 DEF n
<1>. QED  BY <1>5, <1>6, <1>7 DEF s, n

\* new_item keeps a block in order, adds its item and touches no other.
LEMMA NewItemKeeps ==
  ASSUME NEW b, BlockOK(b), NEW item \in Item, Len(item) <= Room(b)
  PROVE  LET now == NewItem(b, item)
             j   == NewIndex(b)
         IN  /\ BlockOK(now)
             /\ j \notin Used(b) /\ j \in 0 .. PageSize
             /\ Used(now) = Used(b) \cup {j}
             /\ GetItem(now, j) = item
             /\ \A k \in Used(b) : GetItem(now, k) = GetItem(b, k)
<1>. DEFINE now == NewItem(b, item)
            j   == NewIndex(b)
            n   == Len(item)
            t   == b.tail - n
            id  == [free |-> FALSE, off |-> t, size |-> n]
            Old(k) == b.ids[k + 1]
<1>1. item \in Seq(Byte) /\ n \in Nat \ {0} /\ n <= PageSize
  BY ItemAssumption, LayoutAssumption
<1>2. /\ b.tail \in 0 .. PageSize /\ b.head \in Nat
      /\ n <= b.tail - b.head
      /\ ~HasAvailable(b) => b.head + IdSize + n <= b.tail
  BY <1>1, RoomFits, Bounds
<1>3. t \in Nat /\ t + n = b.tail /\ b.head <= t
  BY <1>1, <1>2
<1>4. id \in ItemID /\ ~id.free /\ id.off = t /\ id.size = n
  <2>1. t \in 0 .. PageSize /\ n \in 0 .. PageSize
    BY <1>1, <1>2, <1>3, LayoutAssumption
  <2>. HIDE DEF t, n
  <2>. QED  BY <2>1 DEF ItemID, Offset
<1>5. /\ now.ids = IF HasAvailable(b) THEN [b.ids EXCEPT ![j + 1] = id] ELSE Append(b.ids, id)
      /\ now.head = IF HasAvailable(b) THEN b.head ELSE b.head + IdSize
      /\ now.tail = t /\ now.mem = Stored(b.mem, t, item)
  BY DEF NewItem
<1>6. /\ now.ids \in Seq(ItemID)
      /\ Len(now.ids) = IF HasAvailable(b) THEN Len(b.ids) ELSE Len(b.ids) + 1
      /\ j \in 0 .. Len(now.ids) - 1 /\ now.ids[j + 1] = id
      /\ \A k \in Used(b) : k \in 0 .. Len(now.ids) - 1 /\ now.ids[k + 1] = b.ids[k + 1]
      /\ \A k \in 0 .. Len(now.ids) - 1 : ~now.ids[k + 1].free => k \in Used(b) \cup {j}
  <2>. HIDE DEF id, now
  <2>. QED  BY <1>4, <1>5, NewIds
<1>7. Used(now) = Used(b) \cup {j} /\ j \notin Used(b)
  <2>1. \A k \in Used(b) : ~b.ids[k + 1].free
    BY UsedIds
  <2>. QED  BY <1>4, <1>6, <2>1, NewIndexUnused DEF Used, Index
<1>8. /\ now.mem \in [0 .. PageSize - 1 -> Byte \cup {Nil}]
      /\ \A p \in t .. t + n - 1 : now.mem[p] = item[p - t + 1]
      /\ \A p \in 0 .. PageSize - 1 : p \notin t .. t + n - 1 => now.mem[p] = b.mem[p]
  <2>1. b.mem \in [0 .. PageSize - 1 -> Byte \cup {Nil}] /\ t + Len(item) <= PageSize
    BY <1>2, <1>3 DEF BlockOK
  <2>. HIDE DEF t, now
  <2>. QED  BY <1>3, <1>5, <2>1, StoredBytes
<1>9. \A k \in Used(b) : /\ Old(k).off \in Nat /\ Old(k).size \in Nat \ {0}
                         /\ t + n <= Old(k).off /\ Old(k).off + Old(k).size <= PageSize
  BY <1>3, UsedIds
<1>10. Sound(now)
  <2>1. now.head = Header + IdSize * Len(now.ids)
    <3>1. Len(b.ids) \in Nat /\ b.head = Header + IdSize * Len(b.ids)
      BY DEF BlockOK, Sound
    <3>. DEFINE x == IdSize * Len(b.ids)
    <3>2. x \in Nat /\ IdSize * (Len(b.ids) + 1) = x + IdSize
      BY <3>1, IdsTake
    <3>3. now.head = Header + (IF HasAvailable(b) THEN x ELSE x + IdSize)
      <4>. HIDE DEF x
      <4>1. b.head = Header + x
        BY <3>1 DEF x
      <4>. QED  BY <1>5, <3>2, <4>1, LayoutAssumption
    <3>. QED  BY <1>6, <3>2, <3>3
  <2>2. now.head <= now.tail /\ now.tail <= PageSize /\ DOMAIN now.mem = 0 .. PageSize - 1
    BY <1>1, <1>2, <1>3, <1>5, <1>8, LayoutAssumption
  <2>3. ASSUME NEW k \in Used(now)
        PROVE  /\ now.ids[k + 1].size > 0 /\ now.tail <= now.ids[k + 1].off
               /\ now.ids[k + 1].off + now.ids[k + 1].size <= PageSize
    <3>1. CASE k = j
      BY <1>1, <1>2, <1>3, <1>4, <1>5, <1>6, <3>1
    <3>2. CASE k \in Used(b)
      <4>1. now.ids[k + 1] = Old(k) /\ now.tail = t
        BY <1>5, <1>6, <3>2
      <4>2. Old(k).off \in Nat /\ Old(k).size \in Nat \ {0} /\ t + n <= Old(k).off
            /\ Old(k).off + Old(k).size <= PageSize
        BY <1>9, <3>2
      <4>. HIDE DEF t, n, now
      <4>. QED  BY <1>1, <1>3, <4>1, <4>2
    <3>. QED  BY <1>7, <3>1, <3>2
  <2>4. ASSUME NEW k \in Used(now), NEW l \in Used(now), k # l
        PROVE  \/ now.ids[k + 1].off + now.ids[k + 1].size <= now.ids[l + 1].off
               \/ now.ids[l + 1].off + now.ids[l + 1].size <= now.ids[k + 1].off
    <3>1. CASE k \in Used(b) /\ l \in Used(b)
      BY <1>6, <2>4, <3>1, Apart
    <3>2. CASE k = j /\ l \in Used(b)
      BY <1>4, <1>6, <1>9, <3>2
    <3>3. CASE k \in Used(b) /\ l = j
      BY <1>4, <1>6, <1>9, <3>3
    <3>. QED  BY <1>7, <2>4, <3>1, <3>2, <3>3
  <2>. QED  BY <2>1, <2>2, <2>3, <2>4 DEF Sound
<1>11. Tight(now)
  <2>1. SUFFICES ASSUME NEW o \in t .. PageSize - 1
                 PROVE  \E k \in Used(now) :
                          o \in now.ids[k + 1].off .. now.ids[k + 1].off + now.ids[k + 1].size - 1
    BY <1>5 DEF Tight
  <2>2. CASE o < b.tail
    BY <1>3, <1>4, <1>6, <1>7, <2>2
  <2>3. CASE o >= b.tail
    <3>1. PICK k \in Used(b) : o \in Old(k).off .. Old(k).off + Old(k).size - 1
      <4>1. o \in b.tail .. PageSize - 1
        BY <1>2, <1>3, <2>3, LayoutAssumption
      <4>. QED  BY <4>1 DEF BlockOK, Tight
    <3>. QED  BY <1>6, <1>7, <3>1
  <2>. QED  BY <1>2, <1>3, <2>2, <2>3
<1>12. BlockOK(now)
  <2>1. now.tail \in 0 .. PageSize
    <3>1. t \in 0 .. PageSize
      BY <1>1, <1>2, <1>3, LayoutAssumption
    <3>. QED  BY <1>5, <3>1
  <2>. QED  BY <1>6, <1>8, <1>10, <1>11, <2>1 DEF BlockOK
<1>13. j \in 0 .. PageSize
  <2>1. Len(now.ids) \in 0 .. PageSize
    BY <1>12, Bounds
  <2>. DEFINE l == Len(now.ids)
  <2>. HIDE DEF l, j
  <2>. QED  BY <1>6, <2>1, LayoutAssumption DEF l
<1>14. GetItem(now, j) = item
  <2>1. GetItem(now, j) = [p \in 1 .. n |-> now.mem[t + p - 1]]
    BY <1>4, <1>6 DEF GetItem
  <2>2. \A p \in 1 .. n : now.mem[t + p - 1] = item[p]
    <3>. HIDE DEF t, n
    <3>1. ASSUME NEW p \in 1 .. n PROVE now.mem[t + p - 1] = item[p]
      <4>1. t + p - 1 \in t .. t + n - 1 /\ (t + p - 1) - t + 1 = p
        BY <1>1, <1>3
      <4>. QED  BY <1>8, <4>1
    <3>. QED  BY <3>1
  <2>3. item = [p \in 1 .. n |-> item[p]]
    BY <1>1, LenProperties
  <2>. QED  BY <2>1, <2>2, <2>3, Zenon
<1>15. ASSUME NEW k \in Used(b) PROVE GetItem(now, k) = GetItem(b, k)
  <2>. DEFINE f == Old(k).off
              s == Old(k).size
  <2>1. GetItem(now, k) = [p \in 1 .. s |-> now.mem[f + p - 1]]
    BY <1>6, <1>15 DEF GetItem
  <2>2. ASSUME NEW p \in 1 .. s PROVE now.mem[f + p - 1] = b.mem[f + p - 1]
    <3>1. f \in Nat /\ s \in Nat /\ t + n <= f /\ f + s <= PageSize
      BY <1>9, <1>15
    <3>. HIDE DEF f, s, t, n
    <3>2. f + p - 1 \in 0 .. PageSize - 1 /\ f + p - 1 \notin t .. t + n - 1
      BY <1>1, <1>3, <2>2, <3>1, LayoutAssumption
    <3>. QED  BY <1>8, <3>2
  <2>. QED  BY <2>1, <2>2 DEF GetItem
<1>. QED  BY <1>7, <1>12, <1>13, <1>14, <1>15

-----------------------------------------------------------------------------
(* delete_item                                                              *)

\* Item k ends where the hole begins or below, or begins where it ends or above;
\* delete_item moves exactly the former.
LEMMA BelowOrAbove ==
  ASSUME NEW b, BlockOK(b), NEW i \in Used(b), NEW k \in Used(b), k # i
  PROVE  LET hole == b.ids[i + 1]
             old  == b.ids[k + 1]
             new  == Moved(old, hole)
         IN  /\ ~new.free /\ new.size = old.size
             /\ \/ old.off + old.size <= hole.off /\ new.off = old.off + hole.size
                \/ old.off >= hole.off + hole.size /\ new.off = old.off
<1>. DEFINE hole == b.ids[i + 1]
            old  == b.ids[k + 1]
<1>1. /\ hole.off \in Nat /\ hole.size \in Nat \ {0} /\ hole \in ItemID
      /\ old.off \in Nat /\ old.size \in Nat \ {0} /\ old \in ItemID /\ ~old.free
  BY UsedIds
<1>2. old.off + old.size <= hole.off \/ hole.off + hole.size <= old.off
  BY Apart
<1>. HIDE DEF hole, old
<1>3. CASE old.off <= hole.off
  <2>1. Moved(old, hole) = [old EXCEPT !.off = @ + hole.size]
    BY <1>1, <1>3 DEF Moved
  <2>2. /\ Moved(old, hole).free = old.free /\ Moved(old, hole).size = old.size
        /\ Moved(old, hole).off = old.off + hole.size
    BY <1>1, <2>1 DEF ItemID
  <2>3. old.off + old.size <= hole.off
    BY <1>1, <1>2, <1>3
  <2>. QED  BY <1>1, <2>2, <2>3 DEF hole, old
<1>4. CASE ~(old.off <= hole.off)
  <2>1. Moved(old, hole) = old
    BY <1>4 DEF Moved
  <2>. QED  BY <1>1, <1>2, <1>4, <2>1 DEF hole, old
<1>. QED  BY <1>3, <1>4

\* Whatever delete_item does to an id leaves an id.
LEMMA MovedIds ==
  ASSUME NEW b, BlockOK(b), NEW i \in Used(b)
  PROVE  \A k \in 1 .. Len(b.ids) : Moved(b.ids[k], b.ids[i + 1]) \in ItemID
<1>. DEFINE hole == b.ids[i + 1]
<1>1. SUFFICES ASSUME NEW k \in 1 .. Len(b.ids) PROVE Moved(b.ids[k], hole) \in ItemID
  OBVIOUS
<1>2. b.ids[k] \in ItemID
  BY <1>1, ElementOfSeq DEF BlockOK
<1>3. /\ hole.off \in Nat /\ hole.size \in Nat /\ hole.off + hole.size <= PageSize
  BY UsedIds
<1>. HIDE DEF hole
<1>4. CASE ~b.ids[k].free /\ b.ids[k].off <= hole.off
  <2>1. b.ids[k].off + hole.size \in Offset
    BY <1>2, <1>3, <1>4, LayoutAssumption DEF ItemID, Offset
  <2>. QED  BY <1>2, <1>4, <2>1 DEF Moved, ItemID
<1>5. CASE ~(~b.ids[k].free /\ b.ids[k].off <= hole.off)
  BY <1>2, <1>5 DEF Moved
<1>. QED  BY <1>4, <1>5

\* The ids after a deletion: one is available or gone, the others are moved.
LEMMA IdsAfterDelete ==
  ASSUME NEW b, BlockOK(b), NEW i \in Used(b)
  PROVE  LET now == DeleteItem(b, i) IN
         /\ now.ids \in Seq(ItemID)
         /\ Len(now.ids) = IF i = Len(b.ids) - 1 THEN Len(b.ids) - 1 ELSE Len(b.ids)
         /\ Used(now) = Used(b) \ {i}
         /\ \A k \in Used(b) \ {i} : now.ids[k + 1] = Moved(b.ids[k + 1], b.ids[i + 1])
<1>. DEFINE now  == DeleteItem(b, i)
            n    == Len(b.ids)
            hole == b.ids[i + 1]
            ids  == [k \in 1 .. n |-> IF k = i + 1 THEN Available ELSE Moved(b.ids[k], hole)]
<1>1. n \in Nat /\ i \in Nat /\ i + 1 \in 1 .. n /\ hole \in ItemID
  BY UsedIds DEF BlockOK
<1>2. Available \in ItemID /\ Available.free
  BY LayoutAssumption DEF Available, ItemID, Offset
<1>3. ids \in Seq(ItemID) /\ Len(ids) = n
  BY <1>1, <1>2, MovedIds
<1>4. \A k \in 0 .. n - 1 : ids[k + 1] = IF k = i THEN Available ELSE Moved(b.ids[k + 1], hole)
  BY <1>1
<1>5. now.ids = IF i = n - 1 THEN SubSeq(ids, 1, n - 1) ELSE ids
  BY DEF DeleteItem
<1>. HIDE DEF ids, now
<1>6. /\ now.ids \in Seq(ItemID)
      /\ Len(now.ids) = IF i = n - 1 THEN n - 1 ELSE n
      /\ \A k \in 0 .. Len(now.ids) - 1 : now.ids[k + 1] = ids[k + 1]
  <2>1. CASE i = n - 1
    <3>1. \A k \in 1 .. n - 1 : ids[k] \in ItemID
      BY <1>1, <1>3, ElementOfSeq
    <3>2. /\ SubSeq(ids, 1, n - 1) \in Seq(ItemID)
          /\ Len(SubSeq(ids, 1, n - 1)) = n - 1
          /\ \A k \in 1 .. n - 1 : SubSeq(ids, 1, n - 1)[k] = ids[k]
      BY <1>1, <3>1, SubSeqProperties
    <3>. QED  BY <1>1, <1>5, <2>1, <3>2
  <2>2. CASE i # n - 1
    BY <1>1, <1>3, <1>5, <2>2
  <2>. QED  BY <2>1, <2>2
<1>7. \A k \in 0 .. n - 1 : k # i => Moved(b.ids[k + 1], hole).free = b.ids[k + 1].free
  <2>1. SUFFICES ASSUME NEW k \in 0 .. n - 1, k # i
                 PROVE  Moved(b.ids[k + 1], hole).free = b.ids[k + 1].free
    OBVIOUS
  <2>2. b.ids[k + 1] \in ItemID
    BY <1>1, <2>1, ElementOfSeq DEF BlockOK
  <2>. QED  BY <2>2 DEF Moved, ItemID
<1>8. Used(b) = {k \in 0 .. n - 1 : ~b.ids[k + 1].free}
  BY DEF Used, Index
<1>9. Used(now) = {k \in 0 .. Len(now.ids) - 1 : ~now.ids[k + 1].free}
  BY DEF Used, Index
<1>10. \A k \in 0 .. n - 1 : k # i => k \in 0 .. Len(now.ids) - 1
  BY <1>1, <1>6
<1>11. \A k \in 0 .. Len(now.ids) - 1 : k \in 0 .. n - 1
  BY <1>1, <1>6
<1>12. Used(now) = Used(b) \ {i}
  <2>1. ASSUME NEW k \in Used(now) PROVE k \in Used(b) \ {i}
    <3>1. k \in 0 .. n - 1 /\ k \in 0 .. Len(now.ids) - 1 /\ ~ids[k + 1].free
      BY <1>6, <1>9, <1>11
    <3>2. k # i
      BY <1>2, <1>4, <3>1
    <3>. QED  BY <1>4, <1>7, <1>8, <3>1, <3>2
  <2>2. ASSUME NEW k \in Used(b), k # i PROVE k \in Used(now)
    BY <1>4, <1>6, <1>7, <1>8, <1>9, <1>10, <2>2
  <2>. QED  BY <1>9, <1>11, <2>1, <2>2, <1>8
<1>13. \A k \in Used(b) \ {i} : now.ids[k + 1] = Moved(b.ids[k + 1], hole)
  BY <1>4, <1>6, <1>8, <1>10
<1>. QED  BY <1>6, <1>12, <1>13 DEF now

\* Where the bytes are after the gap is closed.
LEMMA ClosedBytes ==
  ASSUME NEW b, BlockOK(b), NEW i \in Used(b)
  PROVE  LET hole == b.ids[i + 1]
             mem  == Closed(b, hole)
         IN  /\ mem \in [0 .. PageSize - 1 -> Byte \cup {Nil}]
             /\ \A o \in 0 .. PageSize - 1 :
                  /\ b.tail + hole.size <= o /\ o < hole.off + hole.size => mem[o] = b.mem[o - hole.size]
                  /\ hole.off + hole.size <= o => mem[o] = b.mem[o]
<1>. DEFINE hole == b.ids[i + 1]
            mem  == Closed(b, hole)
<1>1. /\ hole.off \in Nat /\ hole.size \in Nat \ {0}
      /\ b.tail <= hole.off /\ hole.off + hole.size <= PageSize
  BY UsedIds
<1>2. /\ b.mem \in [0 .. PageSize - 1 -> Byte \cup {Nil}] /\ DOMAIN b.mem = 0 .. PageSize - 1
      /\ b.tail \in 0 .. PageSize
  BY DEF BlockOK
<1>3. mem = [o \in 0 .. PageSize - 1 |-> IF o < b.tail + hole.size THEN Nil
                                         ELSE IF o < hole.off + hole.size THEN b.mem[o - hole.size]
                                         ELSE b.mem[o]]
  BY <1>2 DEF Closed
<1>. HIDE DEF mem, hole
<1>4. ASSUME NEW o \in 0 .. PageSize - 1, ~(o < b.tail + hole.size)
      PROVE  o - hole.size \in 0 .. PageSize - 1
  BY <1>1, <1>2, <1>4, LayoutAssumption
<1>5. \A o \in 0 .. PageSize - 1 :
        mem[o] = IF o < b.tail + hole.size THEN Nil
                 ELSE IF o < hole.off + hole.size THEN b.mem[o - hole.size]
                 ELSE b.mem[o]
  BY <1>3
<1>6. mem \in [0 .. PageSize - 1 -> Byte \cup {Nil}]
  BY <1>2, <1>3, <1>4
<1>7. ASSUME NEW o \in 0 .. PageSize - 1
      PROVE  /\ b.tail + hole.size <= o /\ o < hole.off + hole.size => mem[o] = b.mem[o - hole.size]
             /\ hole.off + hole.size <= o => mem[o] = b.mem[o]
  BY <1>1, <1>2, <1>5, LayoutAssumption
<1>. QED  BY <1>6, <1>7 DEF mem, hole

\* delete_item keeps a block in order and every other item's bytes.
LEMMA DeleteItemKeeps ==
  ASSUME NEW b, BlockOK(b), NEW i \in Used(b)
  PROVE  LET now == DeleteItem(b, i) IN
         /\ BlockOK(now)
         /\ Used(now) = Used(b) \ {i}
         /\ \A k \in Used(b) \ {i} : GetItem(now, k) = GetItem(b, k)
<1>. DEFINE now    == DeleteItem(b, i)
            hole   == b.ids[i + 1]
            n      == Len(b.ids)
            h      == hole.size
            Old(k) == b.ids[k + 1]
            New(k) == now.ids[k + 1]
<1>1. /\ hole.off \in Nat /\ h \in Nat \ {0}
      /\ b.tail <= hole.off /\ hole.off + h <= PageSize
      /\ n \in Nat /\ i \in Nat /\ i + 1 \in 1 .. n
  BY UsedIds DEF BlockOK
<1>2. /\ now.head = IF i = n - 1 THEN b.head - IdSize ELSE b.head
      /\ now.tail = b.tail + h /\ now.mem = Closed(b, hole)
  BY DEF DeleteItem
<1>3. /\ now.ids \in Seq(ItemID)
      /\ Len(now.ids) = IF i = n - 1 THEN n - 1 ELSE n
      /\ Used(now) = Used(b) \ {i}
      /\ \A k \in Used(b) \ {i} : New(k) = Moved(Old(k), hole)
  BY IdsAfterDelete
<1>4. /\ now.mem \in [0 .. PageSize - 1 -> Byte \cup {Nil}]
      /\ \A o \in 0 .. PageSize - 1 :
           /\ b.tail + h <= o /\ o < hole.off + h => now.mem[o] = b.mem[o - h]
           /\ hole.off + h <= o => now.mem[o] = b.mem[o]
  BY <1>2, ClosedBytes
<1>5. /\ b.tail \in 0 .. PageSize /\ b.head \in Nat /\ b.head <= b.tail
      /\ b.head >= Header + IdSize
  BY <1>1, Bounds
<1>6. \A k \in Used(b) \ {i} :
        /\ Old(k).off \in Nat /\ Old(k).size \in Nat \ {0} /\ New(k).size = Old(k).size
        /\ b.tail <= Old(k).off /\ Old(k).off + Old(k).size <= PageSize
        /\ \/ Old(k).off + Old(k).size <= hole.off /\ New(k).off = Old(k).off + h
           \/ Old(k).off >= hole.off + h /\ New(k).off = Old(k).off
  BY <1>3, UsedIds, BelowOrAbove
<1>. HIDE DEF now, hole, n, h
<1>7. Sound(now)
  <2>1. now.head = Header + IdSize * Len(now.ids)
    <3>. DEFINE x == IdSize * n
    <3>1. b.head = Header + x /\ x \in Nat /\ IdSize * (n - 1) = x - IdSize
      <4>1. b.head = Header + x
        BY DEF n, BlockOK, Sound
      <4>. QED  BY <1>1, <4>1, IdsTake
    <3>2. IdSize * Len(now.ids) = IF i = n - 1 THEN x - IdSize ELSE x
      BY <1>3, <3>1
    <3>. HIDE DEF x
    <3>. QED  BY <1>2, <3>1, <3>2, LayoutAssumption
  <2>2. now.head <= now.tail /\ now.tail <= PageSize /\ DOMAIN now.mem = 0 .. PageSize - 1
    BY <1>1, <1>2, <1>4, <1>5, LayoutAssumption
  <2>3. ASSUME NEW k \in Used(now)
        PROVE  /\ New(k).size > 0 /\ now.tail <= New(k).off
               /\ New(k).off + New(k).size <= PageSize
    <3>1. /\ Old(k).off \in Nat /\ Old(k).size \in Nat \ {0} /\ New(k).size = Old(k).size
          /\ b.tail <= Old(k).off /\ Old(k).off + Old(k).size <= PageSize
          /\ \/ Old(k).off + Old(k).size <= hole.off /\ New(k).off = Old(k).off + h
             \/ Old(k).off >= hole.off + h /\ New(k).off = Old(k).off
      BY <1>3, <1>6, <2>3
    <3>. QED  BY <1>1, <1>2, <1>5, <3>1, LayoutAssumption
  <2>4. ASSUME NEW k \in Used(now), NEW l \in Used(now), k # l
        PROVE  \/ New(k).off + New(k).size <= New(l).off
               \/ New(l).off + New(l).size <= New(k).off
    <3>1. k \in Used(b) \ {i} /\ l \in Used(b) \ {i}
      BY <1>3
    <3>2. Old(k).off + Old(k).size <= Old(l).off \/ Old(l).off + Old(l).size <= Old(k).off
      BY <2>4, <3>1, Apart
    <3>. QED  BY <1>1, <1>6, <3>1, <3>2
  <2>. QED  BY <2>1, <2>2, <2>3, <2>4 DEF Sound
<1>8. Tight(now)
  <2>1. SUFFICES ASSUME NEW o \in b.tail + h .. PageSize - 1
                 PROVE  \E k \in Used(now) : o \in New(k).off .. New(k).off + New(k).size - 1
    BY <1>2 DEF Tight
  <2>2. CASE o < hole.off + h
    <3>1. o - h \in b.tail .. PageSize - 1
      BY <1>1, <1>5, LayoutAssumption
    <3>2. PICK k \in Used(b) : o - h \in Old(k).off .. Old(k).off + Old(k).size - 1
      BY <3>1 DEF BlockOK, Tight
    <3>3. k # i
      BY <1>1, <1>5, <2>2, <3>2 DEF hole, h
    <3>4. /\ Old(k).off \in Nat /\ Old(k).size \in Nat \ {0} /\ New(k).size = Old(k).size
          /\ \/ Old(k).off + Old(k).size <= hole.off /\ New(k).off = Old(k).off + h
             \/ Old(k).off >= hole.off + h /\ New(k).off = Old(k).off
      BY <1>6, <3>2, <3>3
    <3>5. o \in New(k).off .. New(k).off + New(k).size - 1
      BY <1>1, <1>5, <2>1, <2>2, <3>2, <3>4, LayoutAssumption
    <3>. QED  BY <1>3, <3>2, <3>3, <3>5
  <2>3. CASE hole.off + h <= o
    <3>1. o \in b.tail .. PageSize - 1
      BY <1>1, <1>5, LayoutAssumption
    <3>2. PICK k \in Used(b) : o \in Old(k).off .. Old(k).off + Old(k).size - 1
      BY <3>1 DEF BlockOK, Tight
    <3>3. k # i
      BY <1>1, <1>5, <2>3, <3>2 DEF hole, h
    <3>4. /\ Old(k).off \in Nat /\ Old(k).size \in Nat \ {0} /\ New(k).size = Old(k).size
          /\ \/ Old(k).off + Old(k).size <= hole.off /\ New(k).off = Old(k).off + h
             \/ Old(k).off >= hole.off + h /\ New(k).off = Old(k).off
      BY <1>6, <3>2, <3>3
    <3>5. o \in New(k).off .. New(k).off + New(k).size - 1
      BY <1>1, <1>5, <2>1, <2>3, <3>2, <3>4, LayoutAssumption
    <3>. QED  BY <1>3, <3>2, <3>3, <3>5
  <2>. QED  BY <1>1, <1>5, <2>2, <2>3
<1>9. BlockOK(now)
  <2>1. now.tail \in 0 .. PageSize
    BY <1>1, <1>2, <1>5, LayoutAssumption
  <2>. QED  BY <1>3, <1>4, <1>7, <1>8, <2>1 DEF BlockOK
<1>10. ASSUME NEW k \in Used(b) \ {i} PROVE GetItem(now, k) = GetItem(b, k)
  <2>. DEFINE f == Old(k).off
              s == Old(k).size
              g == New(k).off
  <2>1. GetItem(now, k) = [p \in 1 .. s |-> now.mem[g + p - 1]]
    BY <1>6 DEF GetItem
  <2>2. ASSUME NEW p \in 1 .. s PROVE now.mem[g + p - 1] = b.mem[f + p - 1]
    <3>1. /\ f \in Nat /\ s \in Nat /\ b.tail <= f /\ f + s <= PageSize
          /\ \/ f + s <= hole.off /\ g = f + h
             \/ f >= hole.off + h /\ g = f
      BY <1>6
    <3>. HIDE DEF f, s, g
    <3>2. CASE f + s <= hole.off /\ g = f + h
      <4>1. /\ g + p - 1 \in 0 .. PageSize - 1 /\ b.tail + h <= g + p - 1
            /\ g + p - 1 < hole.off + h /\ (g + p - 1) - h = f + p - 1
        BY <1>1, <1>5, <2>2, <3>1, <3>2, LayoutAssumption
      <4>. QED  BY <1>4, <4>1
    <3>3. CASE f >= hole.off + h /\ g = f
      <4>1. g + p - 1 \in 0 .. PageSize - 1 /\ hole.off + h <= g + p - 1
        BY <1>1, <1>5, <2>2, <3>1, <3>3, LayoutAssumption
      <4>. QED  BY <1>4, <3>3, <4>1
    <3>. QED  BY <3>1, <3>2, <3>3
  <2>. QED  BY <2>1, <2>2 DEF GetItem
<1>. QED  BY <1>3, <1>9, <1>10 DEF now

-----------------------------------------------------------------------------
(* table.c                                                                  *)

\* The inductive invariant.  A block beyond the end of the file is the one
\* init_block will make of it.
Inv ==
  /\ length \in 0 .. MaxBlocks
  /\ DOMAIN blocks = Addr
  /\ \A a \in Addr : BlockOK(blocks[a]) /\ (a >= length => blocks[a] = InitBlock)
  /\ FiledUnderRoom

\* An item fits into an empty block.
LEMMA FitsEmpty ==
  ASSUME NEW item \in Item
  PROVE  Len(item) <= Room(InitBlock)
<1>1. ~HasAvailable(InitBlock)
  BY DEF HasAvailable, Index, InitBlock
<1>2. Room(InitBlock) = PageSize - Header - IdSize
  BY <1>1, LayoutAssumption DEF Room, InitBlock
<1>. QED  BY <1>2, ItemAssumption

\* Filing the one block that changed, and it alone, files all.
LEMMA Refile ==
  ASSUME NEW n \in Nat, NEW a \in 0 .. n - 1, NEW m \in Nat, m <= n,
         NEW f, NEW g, \A c \in 0 .. n - 1 : c # a => c < m /\ g[c] = f[c],
         NEW others, others = {<<Room(f[c]), c>> : c \in 0 .. m - 1} \ {<<Room(f[a]), a>>}
  PROVE  others \cup {<<Room(g[a]), a>>} = {<<Room(g[c]), c>> : c \in 0 .. n - 1}
<1>1. ASSUME NEW e \in others PROVE e \in {<<Room(g[c]), c>> : c \in 0 .. n - 1}
  <2>1. PICK c \in 0 .. m - 1 : e = <<Room(f[c]), c>>
    OBVIOUS
  <2>2. c # a /\ c \in 0 .. n - 1
    BY <2>1
  <2>. QED  BY <2>1, <2>2
<1>2. ASSUME NEW c \in 0 .. n - 1, c # a PROVE <<Room(g[c]), c>> \in others
  <2>1. c \in 0 .. m - 1 /\ g[c] = f[c]
    BY <1>2
  <2>2. <<Room(f[c]), c>> # <<Room(f[a]), a>>
    BY <1>2
  <2>. QED  BY <2>1, <2>2
<1>. QED  BY <1>1, <1>2

\* What table_insert does: the block it picks has room, and only it changes.
LEMMA InsertEffect ==
  ASSUME Inv, NEW item \in Item, Insert(item)
  PROVE  \E a \in Addr :
           /\ Len(item) <= Room(blocks[a])
           /\ blocks' = [blocks EXCEPT ![a] = NewItem(blocks[a], item)]
           /\ call' = <<"insert", item, <<a, NewIndex(blocks[a])>>>>
           /\ length' \in 0 .. MaxBlocks /\ length <= length' /\ a < length'
           /\ FiledUnderRoom'
<1>0. MaxBlocks \in Nat /\ length \in 0 .. MaxBlocks /\ DOMAIN blocks = Addr
  BY BlocksAssumption DEF Inv
<1>1. CASE InsertIntoRoom(item)
  <2>1. PICK e \in Free!BestFits(Len(item)) :
           Place(e[2], blocks[e[2]], item, entries \ {e}) /\ length' = length
    BY <1>1 DEF InsertIntoRoom
  <2>2. e \in entries /\ e[1] >= Len(item)
    BY <2>1 DEF Free!BestFits
  <2>3. PICK a \in 0 .. length - 1 : e = <<Room(blocks[a]), a>>
    BY <2>2 DEF Inv, FiledUnderRoom
  <2>4. a \in Addr /\ e[2] = a /\ Len(item) <= Room(blocks[a])
    BY <1>0, <2>2, <2>3, RoomSize, ItemAssumption, LayoutAssumption DEF Addr, Inv
  <2>5. /\ blocks' = [blocks EXCEPT ![a] = NewItem(blocks[a], item)]
        /\ entries' = (entries \ {e}) \cup {<<Room(NewItem(blocks[a], item)), a>>}
        /\ call' = <<"insert", item, <<a, NewIndex(blocks[a])>>>>
    BY <2>1, <2>4 DEF Place
  <2>6. blocks'[a] = NewItem(blocks[a], item) /\ \A c \in Addr : c # a => blocks'[c] = blocks[c]
    BY <1>0, <2>4, <2>5
  <2>7. FiledUnderRoom'
    <3>1. entries = {<<Room(blocks[c]), c>> : c \in 0 .. length - 1}
      BY DEF Inv, FiledUnderRoom
    <3>2. \A c \in 0 .. length - 1 : c # a => c < length /\ blocks'[c] = blocks[c]
      BY <1>0, <2>6 DEF Addr
    <3>3. (entries \ {e}) \cup {<<Room(blocks'[a]), a>>} = {<<Room(blocks'[c]), c>> : c \in 0 .. length - 1}
      BY <1>0, <2>3, <3>1, <3>2, Refile
    <3>. QED  BY <2>1, <2>5, <2>6, <3>3 DEF FiledUnderRoom
  <2>8. length' \in 0 .. MaxBlocks /\ length <= length' /\ a < length'
    BY <1>0, <2>1, <2>3
  <2>. QED  BY <2>4, <2>5, <2>7, <2>8, Zenon
<1>2. CASE InsertIntoNew(item)
  <2>. DEFINE a == length
  <2>1. length < MaxBlocks /\ length' = length + 1 /\ Place(a, InitBlock, item, entries)
    BY <1>2 DEF InsertIntoNew
  <2>2. a \in Addr /\ blocks[a] = InitBlock /\ Len(item) <= Room(blocks[a])
    BY <1>0, <2>1, FitsEmpty DEF Addr, Inv
  <2>3. /\ blocks' = [blocks EXCEPT ![a] = NewItem(blocks[a], item)]
        /\ entries' = entries \cup {<<Room(NewItem(blocks[a], item)), a>>}
        /\ call' = <<"insert", item, <<a, NewIndex(blocks[a])>>>>
    BY <2>1, <2>2 DEF Place
  <2>4. blocks'[a] = NewItem(blocks[a], item) /\ \A c \in Addr : c # a => blocks'[c] = blocks[c]
    BY <1>0, <2>2, <2>3
  <2>5. FiledUnderRoom'
    <3>1. entries = {<<Room(blocks[c]), c>> : c \in 0 .. length - 1}
      BY DEF Inv, FiledUnderRoom
    <3>2. \A c \in 0 .. length : c # a => c < length /\ blocks'[c] = blocks[c]
      BY <1>0, <2>1, <2>4 DEF Addr
    <3>3. entries = entries \ {<<Room(blocks[a]), a>>}
      BY <1>0, <3>1
    <3>4. entries \cup {<<Room(blocks'[a]), a>>} = {<<Room(blocks'[c]), c>> : c \in 0 .. (length + 1) - 1}
      BY <1>0, <3>1, <3>2, <3>3, Refile
    <3>. QED  BY <2>1, <2>3, <2>4, <3>4 DEF FiledUnderRoom
  <2>6. length' \in 0 .. MaxBlocks /\ length <= length' /\ a < length'
    BY <1>0, <2>1
  <2>. QED  BY <2>2, <2>3, <2>5, <2>6, Zenon
<1>. QED  BY <1>1, <1>2 DEF Insert

\* What table_delete does.
LEMMA DeleteEffect ==
  ASSUME Inv, NEW a \in Addr, NEW i \in Used(blocks[a]), Delete(a, i)
  PROVE  /\ blocks' = [blocks EXCEPT ![a] = DeleteItem(blocks[a], i)]
         /\ call' = <<"delete", <<a, i>>>> /\ length' = length /\ a < length
         /\ FiledUnderRoom'
<1>0. MaxBlocks \in Nat /\ length \in 0 .. MaxBlocks /\ DOMAIN blocks = Addr
  BY BlocksAssumption DEF Inv
<1>1. /\ blocks' = [blocks EXCEPT ![a] = DeleteItem(blocks[a], i)]
      /\ entries' = (entries \ {<<Room(blocks[a]), a>>}) \cup {<<Room(DeleteItem(blocks[a], i)), a>>}
      /\ call' = <<"delete", <<a, i>>>> /\ length' = length /\ a < length
  BY DEF Delete
<1>2. blocks'[a] = DeleteItem(blocks[a], i) /\ \A c \in Addr : c # a => blocks'[c] = blocks[c]
  BY <1>0, <1>1
<1>3. entries = {<<Room(blocks[c]), c>> : c \in 0 .. length - 1}
  BY DEF Inv, FiledUnderRoom
<1>4. a \in 0 .. length - 1 /\ \A c \in 0 .. length - 1 : c # a => c < length /\ blocks'[c] = blocks[c]
  BY <1>0, <1>1, <1>2 DEF Addr
<1>5. (entries \ {<<Room(blocks[a]), a>>}) \cup {<<Room(blocks'[a]), a>>}
        = {<<Room(blocks'[c]), c>> : c \in 0 .. length - 1}
  BY <1>0, <1>3, <1>4, Refile
<1>. QED  BY <1>1, <1>2, <1>5 DEF FiledUnderRoom

LEMMA InvInit == Init => Inv
<1>. SUFFICES ASSUME Init PROVE Inv
  OBVIOUS
<1>1. MaxBlocks \in Nat /\ length = 0 /\ entries = {} /\ blocks = [a \in Addr |-> InitBlock]
  BY BlocksAssumption DEF Init
<1>2. FiledUnderRoom
  BY <1>1 DEF FiledUnderRoom
<1>3. \A a \in Addr : BlockOK(blocks[a]) /\ blocks[a] = InitBlock
  BY <1>1, InitBlockOK
<1>. QED  BY <1>1, <1>2, <1>3 DEF Inv

LEMMA InvNext == Inv /\ [Next]_vars => Inv'
<1>. SUFFICES ASSUME Inv, [Next]_vars PROVE Inv'
  OBVIOUS
<1>0. MaxBlocks \in Nat /\ length \in 0 .. MaxBlocks /\ DOMAIN blocks = Addr /\ Addr \subseteq Nat
  BY BlocksAssumption DEF Inv, Addr
<1>1. ASSUME NEW item \in Item, Insert(item) PROVE Inv'
  <2>1. PICK a \in Addr :
          /\ Len(item) <= Room(blocks[a])
          /\ blocks' = [blocks EXCEPT ![a] = NewItem(blocks[a], item)]
          /\ length' \in 0 .. MaxBlocks /\ length <= length' /\ a < length'
          /\ FiledUnderRoom'
    BY <1>1, InsertEffect
  <2>2. BlockOK(NewItem(blocks[a], item))
    BY <2>1, NewItemKeeps DEF Inv
  <2>3. ASSUME NEW c \in Addr PROVE BlockOK(blocks'[c]) /\ (c >= length' => blocks'[c] = InitBlock)
    BY <1>0, <2>1, <2>2 DEF Inv
  <2>. QED  BY <1>0, <2>1, <2>3 DEF Inv
<1>2. ASSUME NEW a \in Addr, NEW i \in Used(blocks[a]), Delete(a, i) PROVE Inv'
  <2>1. /\ blocks' = [blocks EXCEPT ![a] = DeleteItem(blocks[a], i)]
        /\ length' = length /\ a < length /\ FiledUnderRoom'
    BY <1>2, DeleteEffect
  <2>2. BlockOK(DeleteItem(blocks[a], i))
    BY DeleteItemKeeps DEF Inv
  <2>3. ASSUME NEW c \in Addr PROVE BlockOK(blocks'[c]) /\ (c >= length' => blocks'[c] = InitBlock)
    BY <1>0, <2>1, <2>2 DEF Inv
  <2>. QED  BY <1>0, <2>1, <2>3 DEF Inv
<1>3. CASE UNCHANGED vars
  BY <1>3 DEF vars, Inv, FiledUnderRoom
<1>. QED  BY <1>1, <1>2, <1>3 DEF Next

\* Blocks and map are in order in every reachable state.
THEOREM Invariance == Spec => []Inv
<1>. QED  BY InvInit, InvNext, PTL DEF Spec

\* In every block of a table, the items fill the end of the page without a hole
\* or an overlap and never meet the ids, for all page layouts and sets of rows
\* (new_item, delete_item).
THEOREM Tiled == Spec => []BlocksTiled
<1>1. Inv => BlocksTiled
  <2>. SUFFICES ASSUME Inv PROVE BlocksTiled
    OBVIOUS
  <2>1. MaxBlocks \in Nat /\ length \in 0 .. MaxBlocks /\ DOMAIN blocks = Addr
    BY BlocksAssumption DEF Inv
  <2>2. entries \subseteq (0 .. PageSize - 1) \X (0 .. length - 1)
    <3>1. entries = {<<Room(blocks[a]), a>> : a \in 0 .. length - 1}
      BY DEF Inv, FiledUnderRoom
    <3>2. \A a \in 0 .. length - 1 : Room(blocks[a]) \in 0 .. PageSize - 1
      BY <2>1, RoomSize DEF Inv, Addr
    <3>. QED  BY <3>1, <3>2
  <2>3. \A a \in Addr : /\ blocks[a].ids \in Seq(ItemID)
                        /\ blocks[a].mem \in [0 .. PageSize - 1 -> Byte \cup {Nil}]
                        /\ Sound(blocks[a]) /\ Tight(blocks[a])
    BY DEF Inv, BlockOK
  <2>4. \A a \in 0 .. length - 1 : a \in Addr
    BY <2>1 DEF Addr
  <2>. QED  BY <2>1, <2>2, <2>3, <2>4 DEF BlocksTiled, TypeOK
<1>. QED  BY <1>1, Invariance, PTL

\* Every block is filed once, under its room, in every state (table_insert,
\* table_delete).
THEOREM Filed == Spec => []FiledUnderRoom
<1>1. Inv => FiledUnderRoom
  BY DEF Inv
<1>. QED  BY <1>1, Invariance, PTL

-----------------------------------------------------------------------------
(* The table implements Rows.                                               *)

\* The rows a table holds, as Rows sees them.
Content == [r \in Held |-> GetItem(blocks[r[1]], r[2])]

\* Insertion adds its row under an unused RID and leaves the others.
LEMMA InsertRefines ==
  ASSUME Inv, NEW item \in Item, Insert(item)
  PROVE  Row!Next
<1>1. PICK a \in Addr :
        /\ Len(item) <= Room(blocks[a])
        /\ blocks' = [blocks EXCEPT ![a] = NewItem(blocks[a], item)]
        /\ call' = <<"insert", item, <<a, NewIndex(blocks[a])>>>>
  BY InsertEffect
<1>. DEFINE j == NewIndex(blocks[a])
            r == <<a, j>>
<1>2. /\ j \notin Used(blocks[a]) /\ j \in 0 .. PageSize
      /\ Used(NewItem(blocks[a], item)) = Used(blocks[a]) \cup {j}
      /\ GetItem(NewItem(blocks[a], item), j) = item
      /\ \A k \in Used(blocks[a]) : GetItem(NewItem(blocks[a], item), k) = GetItem(blocks[a], k)
  BY <1>1, NewItemKeeps DEF Inv
<1>3. blocks'[a] = NewItem(blocks[a], item) /\ \A c \in Addr : c # a => blocks'[c] = blocks[c]
  BY <1>1 DEF Inv
<1>. HIDE DEF j
<1>4. r \in Rids \ Held
  BY <1>2 DEF Rids, Held
<1>5. Held' = Held \cup {r}
  <2>1. ASSUME NEW q \in Rids PROVE q \in Held' <=> q \in Held \cup {r}
    <3>1. PICK c \in Addr, k \in 0 .. PageSize : q = <<c, k>>
      BY DEF Rids
    <3>2. k \in Used(blocks'[c]) <=> k \in Used(blocks[c]) \/ (c = a /\ k = j)
      BY <1>2, <1>3
    <3>. QED  BY <3>1, <3>2 DEF Held, Rids
  <2>. QED  BY <1>4, <2>1 DEF Held
<1>6. Content' = [q \in Held \cup {r} |-> IF q = r THEN item ELSE Content[q]]
  <2>1. ASSUME NEW q \in Held \cup {r}
        PROVE  GetItem(blocks'[q[1]], q[2]) = IF q = r THEN item ELSE Content[q]
    <3>1. CASE q = r
      BY <1>2, <1>3, <3>1
    <3>2. CASE q # r
      <4>1. q \in Held /\ q[1] \in Addr /\ q[2] \in Used(blocks[q[1]])
        BY <3>2 DEF Held, Rids
      <4>. QED  BY <1>2, <1>3, <3>2, <4>1 DEF Content
    <3>. QED  BY <3>1, <3>2
  <2>. QED  BY <1>5, <2>1 DEF Content
<1>7. Row!Insert(r, item)
  <2>1. DOMAIN Content = Held
    BY DEF Content
  <2>. QED  BY <1>1, <1>4, <1>6, <2>1 DEF Row!Insert, Row!With, Content, j
<1>. QED  BY <1>4, <1>7 DEF Row!Next

\* Deletion takes its row away and leaves the others.
LEMMA DeleteRefines ==
  ASSUME Inv, NEW a \in Addr, NEW i \in Used(blocks[a]), Delete(a, i)
  PROVE  Row!Next
<1>. DEFINE r == <<a, i>>
<1>1. /\ blocks' = [blocks EXCEPT ![a] = DeleteItem(blocks[a], i)]
      /\ call' = <<"delete", r>>
  BY DeleteEffect
<1>2. /\ Used(DeleteItem(blocks[a], i)) = Used(blocks[a]) \ {i}
      /\ \A k \in Used(blocks[a]) \ {i} : GetItem(DeleteItem(blocks[a], i), k) = GetItem(blocks[a], k)
  BY DeleteItemKeeps DEF Inv
<1>3. blocks'[a] = DeleteItem(blocks[a], i) /\ \A c \in Addr : c # a => blocks'[c] = blocks[c]
  BY <1>1 DEF Inv
<1>4. r \in Held
  <2>1. i \in 0 .. PageSize
    <3>1. Len(blocks[a].ids) \in 0 .. PageSize /\ i \in Nat /\ i + 1 \in 1 .. Len(blocks[a].ids)
      BY Bounds, UsedIds DEF Inv
    <3>. QED  BY <3>1, LayoutAssumption
  <2>. QED  BY <2>1 DEF Held, Rids
<1>5. Held' = Held \ {r}
  <2>1. ASSUME NEW q \in Rids PROVE q \in Held' <=> q \in Held \ {r}
    <3>1. PICK c \in Addr, k \in 0 .. PageSize : q = <<c, k>>
      BY DEF Rids
    <3>2. k \in Used(blocks'[c]) <=> k \in Used(blocks[c]) /\ ~(c = a /\ k = i)
      BY <1>2, <1>3
    <3>. QED  BY <3>1, <3>2 DEF Held, Rids
  <2>. QED  BY <2>1 DEF Held
<1>6. Content' = [q \in Held \ {r} |-> Content[q]]
  <2>1. ASSUME NEW q \in Held \ {r} PROVE GetItem(blocks'[q[1]], q[2]) = Content[q]
    <3>1. /\ q \in Held /\ q[1] \in Addr /\ q[2] \in Used(blocks[q[1]])
          /\ q[1] = a => q[2] # i
      BY DEF Held, Rids
    <3>. QED  BY <1>2, <1>3, <3>1 DEF Content
  <2>. QED  BY <1>5, <2>1 DEF Content
<1>7. Row!Delete(r)
  <2>1. DOMAIN Content = Held
    BY DEF Content
  <2>. QED  BY <1>1, <1>4, <1>6, <2>1 DEF Row!Delete, Row!Without, Content
<1>8. r \in Rids
  BY <1>4 DEF Held
<1>. QED  BY <1>7, <1>8 DEF Row!Next

\* A row is read as it was written under the RID it was given, until it is
\* deleted, whatever table_insert and table_delete do to its neighbours.
THEOREM Refinement == Spec => ImplementsRows
<1>1. Init => Row!Init
  <2>. SUFFICES ASSUME Init PROVE Row!Init
    OBVIOUS
  <2>1. Held = {}
    <3>1. \A a \in Addr : Used(blocks[a]) = {}
      BY InitBlockOK DEF Init
    <3>. QED  BY <3>1 DEF Held, Rids
  <2>. QED  BY <2>1 DEF Init, Row!Init
<1>2. Inv /\ [Next]_vars => [Row!Next]_<<Content, call>>
  <2>. SUFFICES ASSUME Inv, [Next]_vars PROVE Row!Next \/ UNCHANGED <<Content, call>>
    OBVIOUS
  <2>1. ASSUME NEW item \in Item, Insert(item) PROVE Row!Next
    BY <2>1, InsertRefines
  <2>2. ASSUME NEW a \in Addr, NEW i \in Used(blocks[a]), Delete(a, i) PROVE Row!Next
    BY <2>2, DeleteRefines
  <2>3. CASE UNCHANGED vars
    BY <2>3 DEF vars, Content, Held
  <2>. QED  BY <2>1, <2>2, <2>3 DEF Next
<1>. QED  BY <1>1, <1>2, Invariance, PTL DEF Spec, ImplementsRows, Row!Spec, Content
=============================================================================
