-------------------------- MODULE BufferPoolProofs --------------------------
(***************************************************************************)
(* Proofs about BufferPool, and about MCBufferPool with its history of     *)
(* get_page calls, for every number of frames, pages and contents.         *)
(***************************************************************************)
EXTENDS MCBufferPool, TLAPS

USE DEF Running

\* What close_buffer_pool and the end of a process leave behind.
Stopped ==
  /\ mode # "up" => Held = {}
  /\ ~Running => file.length = 0

\* The frames close_buffer_pool has passed are on disk.
Flushed ==
  mode = "closing" =>
    \A f \in Frame : f < cursor /\ addrs[f] # NoAddr => file.disk[addrs[f]] = data[f]

IInv ==
  /\ TypeOK /\ NoAlias /\ PointersStayValid /\ PinsMatchPointers
  /\ CachedInFile /\ AgesDistinct /\ Stopped /\ Flushed

-----------------------------------------------------------------------------
(* Least and Greatest are only ever asked about one frame.                  *)

LEMMA Singleton ==
  ASSUME NEW x \in Int
  PROVE  Least({x}) = x /\ Greatest({x}) = x
  BY DEF Least, Greatest

\* A page has at most one frame, so the loops of get_page, release and the
\* drop idiom agree on which one it is.
LEMMA OneFrame ==
  ASSUME TypeOK, NoAlias, Running,
         NEW a \in Page, NEW f \in Frame, addrs[f] = a
  PROVE  Caching(a) = {f} /\ Least(Caching(a)) = f /\ Greatest(Caching(a)) = f
<1>1. Caching(a) = {f}
  BY DEF Caching, NoAlias, TypeOK, Page, NoAddr
<1>2. f \in Int
  BY CachePagesAssumption DEF Frame
<1> QED
  BY <1>1, <1>2, Singleton

\* A page that is held is in the frame its pointer leads to.
LEMMA HeldFrame ==
  ASSUME TypeOK, PointersStayValid, NEW a \in Held
  PROVE  a \in Page /\ handle[a] \in Frame /\ addrs[handle[a]] = a
  BY DEF TypeOK, PointersStayValid, Held

\* write_page on a page of the file changes that page on disk and no length.
LEMMA Overwrite ==
  ASSUME TypeOK, file.length <= file.size,
         NEW a \in Page, a < file.length, NEW v \in Val
  PROVE  /\ WritePage(file, a, v) = [length |-> file.length, size |-> file.size,
                                     disk |-> [file.disk EXCEPT ![a] = v]]
         /\ WritePage(file, a, v) \in
              [length : 0 .. MaxPages, size : 0 .. MaxPages, disk : [Page -> Val]]
<1>1. a \in 0 .. file.length /\ a # file.length /\ ~(a >= file.size)
  BY BoundsAssumption DEF TypeOK, Page
<1> QED
  BY <1>1 DEF TypeOK, WritePage, Page

\* write_page at the end of the file: one more page, and no fewer on disk.
LEMMA AppendPage ==
  ASSUME NEW fi \in [length : 0 .. MaxPages, size : 0 .. MaxPages, disk : [Page -> Val]],
         fi.length <= fi.size, fi.length \in Page, NEW v \in Val
  PROVE  LET w == WritePage(fi, fi.length, v)
         IN  /\ w \in [length : 0 .. MaxPages, size : 0 .. MaxPages, disk : [Page -> Val]]
             /\ w.length = fi.length + 1
             /\ w.size \in {fi.size, fi.length + 1}
             /\ w.length <= w.size
             /\ w.disk = [fi.disk EXCEPT ![fi.length] = v]
<1>1. fi.length \in 0 .. fi.length /\ fi.length \in 0 .. MaxPages - 1
  BY BoundsAssumption DEF Page
<1> QED
  BY <1>1, BoundsAssumption DEF WritePage, Page
-----------------------------------------------------------------------------
(* The inductive invariant.                                                 *)

LEMMA InitIInv == Init => IInv
  BY CachePagesAssumption, BoundsAssumption, ZeroAssumption
  DEF Init, IInv, TypeOK, NoAlias, PointersStayValid, PinsMatchPointers, CachedInFile,
      AgesDistinct, Stopped, Flushed, Held, Frame, Page, NoAddr, NoFrame, FreshCnt

\* One get_page ages every frame but the one it found or filled, which keeps
\* the ages of occupied frames distinct and below the bound.
LEMMA AgedType ==
  ASSUME TypeOK, CanAge, NEW a
  PROVE  /\ Aged(a) \in [Frame -> 1 .. MaxCnt]
         /\ \A f \in Frame : Aged(a)[f] = IF addrs[f] = a THEN 1 ELSE cnt[f] + 1
<1>1. \A f \in Frame : cnt[f] \in 1 .. MaxCnt /\ cnt[f] < MaxCnt
  BY DEF TypeOK, CanAge
<1> QED
  BY <1>1, BoundsAssumption DEF Aged, FreshCnt

LEMMA GetHitIInv == ASSUME IInv, NEW a \in Page, a \notin Held, GetHit(a) PROVE IInv'
<1> USE DEF IInv
<1>0. PICK f \in Frame : addrs[f] = a
  BY DEF GetHit, Caching
<1>1. handle' = [handle EXCEPT ![a] = f] /\ mode = "up"
  BY <1>0, OneFrame DEF GetHit
<1>f. \A g \in Frame : addrs[g] = a <=> g = f
  BY <1>0, <1>1, OneFrame DEF Caching
<1>2. ref' = [ref EXCEPT ![f] = 1]
  BY <1>f DEF GetHit, TypeOK
<1>3. TypeOK'
  BY <1>1, <1>2, AgedType DEF GetHit, TypeOK
<1>4. Held' = Held \cup {a}
  BY <1>1, CachePagesAssumption DEF TypeOK, Held, Frame, NoFrame
<1>5. PointersStayValid'
  BY <1>0, <1>1, <1>4 DEF GetHit, PointersStayValid, TypeOK, Held
<1>6. PinsMatchPointers'
  BY <1>0, <1>1, <1>2, <1>4 DEF GetHit, PinsMatchPointers, PointersStayValid, TypeOK, Held
<1>7. AgesDistinct'
  <2> SUFFICES ASSUME NEW g \in Frame, NEW h \in Frame,
                      addrs[g] # NoAddr, addrs[h] # NoAddr, cnt'[g] = cnt'[h]
               PROVE  g = h
    BY DEF AgesDistinct, GetHit
  <2>1. \A i \in Frame : cnt'[i] = IF i = f THEN 1 ELSE cnt[i] + 1
    BY <1>f, AgedType DEF GetHit
  <2>2. \A i \in Frame : cnt[i] \in Nat \ {0}
    BY DEF TypeOK
  <2> QED
    BY <1>1, <2>1, <2>2 DEF AgesDistinct
<1>8. NoAlias' /\ CachedInFile' /\ Stopped' /\ Flushed'
  BY <1>1 DEF GetHit, NoAlias, CachedInFile, Stopped, Flushed
<1> QED
  BY <1>3, <1>5, <1>6, <1>7, <1>8

\* The frame a missing page goes to is in no caller's hands; if it is occupied,
\* writing it back stores it at its own page and changes no length.
LEMMA SlotIsFree ==
  ASSUME IInv, mode = "up", NEW f \in Frame, IsSlot(f)
  PROVE  /\ ref[f] = 0
         /\ \A b \in Held : handle[b] # f
         /\ WrittenBack(f) \in
              [length : 0 .. MaxPages, size : 0 .. MaxPages, disk : [Page -> Val]]
         /\ WrittenBack(f).length = file.length /\ WrittenBack(f).size = file.size
         /\ \A c \in Page :
              WrittenBack(f).disk[c] =
                IF addrs[f] = c THEN data[f] ELSE file.disk[c]
<1> USE DEF IInv
<1>1. CASE Caching(NoAddr) # {}
  <2>1. addrs[f] = NoAddr /\ WrittenBack(f) = file
    BY <1>1 DEF IsSlot, Caching, WrittenBack
  <2>2. \A b \in Held : handle[b] # f
    BY <2>1, HeldFrame DEF Page, NoAddr
  <2>3. ref[f] = 0
    BY <2>2 DEF PinsMatchPointers, TypeOK
  <2> QED
    BY <2>1, <2>2, <2>3 DEF TypeOK, Page, NoAddr
<1>2. CASE Caching(NoAddr) = {}
  <2>1. ref[f] = 0 /\ addrs[f] # NoAddr
    BY <1>2 DEF IsSlot, IsVictim, Caching
  <2>2. addrs[f] \in Page /\ addrs[f] < file.length /\ data[f] \in Val
        /\ file.length <= file.size
    BY <2>1 DEF TypeOK, CachedInFile
  <2>3. WrittenBack(f) = [length |-> file.length, size |-> file.size,
                          disk |-> [file.disk EXCEPT ![addrs[f]] = data[f]]]
        /\ WrittenBack(f) \in
              [length : 0 .. MaxPages, size : 0 .. MaxPages, disk : [Page -> Val]]
    BY <1>2, <2>2, Overwrite DEF WrittenBack
  <2>4. \A b \in Held : handle[b] # f
    BY <2>1 DEF PinsMatchPointers
  <2> QED
    BY <2>1, <2>3, <2>4 DEF TypeOK
<1> QED
  BY <1>1, <1>2

\* The file and the frame after get_page has brought page a into frame f.
LEMMA MissFile ==
  ASSUME IInv, NEW a \in Page, NEW f \in Frame, GetMiss(a, f)
  PROVE  /\ file' \in [length : 0 .. MaxPages, size : 0 .. MaxPages, disk : [Page -> Val]]
         /\ file'.length = IF a = file.length THEN a + 1 ELSE file.length
         /\ file'.length <= file'.size
         /\ a < file'.length
         /\ data' = [data EXCEPT ![f] = IF a = file.length THEN data[f] ELSE file'.disk[a]]
         /\ data' \in [Frame -> Val]
         /\ \A c \in Page \ {a} :
              file'.disk[c] = IF addrs[f] = c THEN data[f] ELSE file.disk[c]
         /\ a # file.length => file'.disk[a] = file.disk[a]
<1> USE DEF IInv
<1> DEFINE fl == WrittenBack(f)
<1>1. /\ fl \in [length : 0 .. MaxPages, size : 0 .. MaxPages, disk : [Page -> Val]]
      /\ fl.length = file.length /\ fl.size = file.size
      /\ \A c \in Page : fl.disk[c] = IF addrs[f] = c THEN data[f] ELSE file.disk[c]
  BY SlotIsFree DEF GetMiss
<1>2. file.length <= file.size /\ a <= file.length /\ addrs[f] # a /\ data[f] \in Val
      /\ file.length \in Nat /\ file.size \in Nat /\ a \in Nat
  BY BoundsAssumption DEF GetMiss, CachedInFile, Caching, TypeOK, Page
<1>3. CASE a = file.length
  <2>1. file' = WritePage(fl, fl.length, data[f]) /\ data' = data
    BY <1>1, <1>3 DEF GetMiss
  <2>2. /\ file' \in [length : 0 .. MaxPages, size : 0 .. MaxPages, disk : [Page -> Val]]
        /\ file'.length = a + 1 /\ file'.length <= file'.size
        /\ file'.disk = [fl.disk EXCEPT ![a] = data[f]]
    <3> HIDE DEF fl
    <3> QED
      BY <1>1, <1>2, <1>3, <2>1, AppendPage
  <2>3. data' = [data EXCEPT ![f] = data[f]]
    BY <2>1 DEF TypeOK
  <2>4. \A c \in Page \ {a} : file'.disk[c] = fl.disk[c]
    <3> HIDE DEF fl
    <3> QED
      BY <1>1, <2>2
  <2>5. data' \in [Frame -> Val]
    BY <2>1 DEF TypeOK
  <2>6. a < file'.length
    BY <1>2, <2>2
  <2> QED
    BY <1>1, <1>3, <2>2, <2>3, <2>4, <2>5, <2>6
<1>4. CASE a # file.length
  <2>1. file' = fl /\ data' = [data EXCEPT ![f] = ReadPage(fl, a, data[f])]
    BY <1>1, <1>4 DEF GetMiss
  <2> HIDE DEF fl
  <2>2. a < file.length /\ ReadPage(fl, a, data[f]) = fl.disk[a]
    BY <1>1, <1>2, <1>4 DEF ReadPage, Page
  <2> QED
    BY <1>1, <1>2, <1>4, <2>1, <2>2 DEF TypeOK
<1> QED
  BY <1>3, <1>4

LEMMA GetMissIInv ==
  ASSUME IInv, NEW a \in Page, a \notin Held, NEW f \in Frame, GetMiss(a, f)
  PROVE  IInv'
<1> USE DEF IInv
<1>1. mode = "up" /\ mode' = "up" /\ handle' = [handle EXCEPT ![a] = f]
      /\ ref' = [ref EXCEPT ![f] = 1] /\ addrs' = [addrs EXCEPT ![f] = a]
      /\ cursor' = cursor
  BY DEF GetMiss
<1>2. ref[f] = 0 /\ \A b \in Held : handle[b] # f
  BY <1>1, SlotIsFree DEF GetMiss
<1>3. \A g \in Frame : addrs[g] # a
  BY DEF GetMiss, Caching
<1>4. cnt' \in [Frame -> 1 .. MaxCnt]
      /\ \A g \in Frame : cnt'[g] = IF g = f THEN 1 ELSE cnt[g] + 1
  BY <1>3, AgedType, BoundsAssumption DEF GetMiss, FreshCnt
<1>5. TypeOK'
  BY <1>1, <1>4, MissFile DEF TypeOK
<1>6. Held' = Held \cup {a}
  BY <1>1, CachePagesAssumption DEF TypeOK, Held, Frame, NoFrame
<1>7. NoAlias'
  BY <1>1, <1>3 DEF NoAlias, TypeOK
<1>8. PointersStayValid'
  BY <1>1, <1>2, <1>6 DEF PointersStayValid, TypeOK, Held
<1>9. PinsMatchPointers'
  BY <1>1, <1>2, <1>6 DEF PinsMatchPointers, TypeOK, Held
<1>10. CachedInFile'
  <2>1. file.length \in Nat /\ file'.length \in Nat /\ file.length <= file'.length
    BY MissFile, BoundsAssumption DEF TypeOK, Page
  <2>2. \A g \in Frame : addrs[g] # NoAddr => addrs[g] < file'.length
    <3> SUFFICES ASSUME NEW g \in Frame, addrs[g] # NoAddr PROVE addrs[g] < file'.length
      OBVIOUS
    <3>1. addrs[g] \in Nat /\ addrs[g] < file.length
      BY <1>1 DEF CachedInFile, TypeOK, Page
    <3> QED
      BY <2>1, <3>1
  <2> QED
    BY <1>1, <2>2, MissFile DEF CachedInFile, TypeOK
<1>11. AgesDistinct'
  <2>1. \A g \in Frame : cnt[g] \in Nat \ {0}
    BY DEF TypeOK
  <2> QED
    BY <1>1, <1>4, <2>1 DEF AgesDistinct, TypeOK
<1>12. Stopped' /\ Flushed'
  BY <1>1 DEF Stopped, Flushed
<1> QED
  BY <1>5, <1>7, <1>8, <1>9, <1>10, <1>11, <1>12

LEMMA GetRefusedIInv == ASSUME IInv, NEW a \in Page, GetRefused(a) PROVE IInv'
<1> USE DEF IInv
<1>1. \A g \in Frame : addrs[g] # a
  BY DEF GetRefused, Caching
<1>2. cnt' \in [Frame -> 1 .. MaxCnt] /\ \A g \in Frame : cnt'[g] = cnt[g] + 1
  BY <1>1, AgedType DEF GetRefused
<1>3. \A g \in Frame : cnt[g] \in Nat
  BY DEF TypeOK
<1>4. AgesDistinct'
  BY <1>2, <1>3 DEF GetRefused, AgesDistinct
<1> QED
  BY <1>2, <1>4
  DEF GetRefused, TypeOK, NoAlias, PointersStayValid, PinsMatchPointers, CachedInFile,
      Stopped, Flushed, Held

LEMMA WriteIInv == ASSUME IInv, NEW a \in Page, NEW v \in Val, Write(a, v) PROVE IInv'
<1> USE DEF IInv
<1>1. TypeOK'
  BY HeldFrame DEF Write, TypeOK
<1> QED
  BY <1>1
  DEF Write, NoAlias, PointersStayValid, PinsMatchPointers, CachedInFile, AgesDistinct,
      Stopped, Flushed, Held

LEMMA ReleaseIInv == ASSUME IInv, NEW a \in Page, Release(a) PROVE IInv'
<1> USE DEF IInv
<1>1. mode = "up" /\ a \in Held /\ addrs' = addrs /\ mode' = mode
      /\ handle' = [handle EXCEPT ![a] = NoFrame]
  BY DEF Release
<1>2. handle[a] \in Frame /\ addrs[handle[a]] = a
  BY <1>1, HeldFrame
<1>3. ref' = [ref EXCEPT ![handle[a]] = 0]
  BY <1>1, <1>2, OneFrame DEF Release
<1>4. TypeOK'
  BY <1>1, <1>3 DEF Release, TypeOK
<1>5. Held' = Held \ {a}
  BY <1>1 DEF TypeOK, Held
<1>6. PointersStayValid'
  BY <1>1, <1>5 DEF PointersStayValid, TypeOK, Held
<1>7. \A b \in Held \ {a} : handle[b] # handle[a]
  BY <1>2 DEF PointersStayValid
<1>8. PinsMatchPointers'
  BY <1>1, <1>2, <1>3, <1>5, <1>7 DEF PinsMatchPointers, TypeOK, Held
<1> QED
  BY <1>1, <1>4, <1>6, <1>8
  DEF Release, NoAlias, CachedInFile, AgesDistinct, Stopped, Flushed

\* Emptying the frame of the last page and shortening the file, in one idiom.
LEMMA DropLastIInv == ASSUME IInv, DropLast PROVE IInv'
<1> USE DEF IInv
<1> DEFINE a == file.length - 1
<1>1. mode = "up" /\ mode' = mode /\ a \in Page /\ data' = data /\ cursor' = cursor
      /\ handle' = [handle EXCEPT ![a] = NoFrame]
      /\ file' = [file EXCEPT !.length = a]
  BY BoundsAssumption DEF DropLast, TypeOK, Page
<1>2. \A f \in Frame : addrs'[f] = (IF addrs[f] = a THEN NoAddr ELSE addrs[f])
                    /\ cnt'[f] = (IF addrs[f] = a THEN 1 ELSE cnt[f])
                    /\ ref'[f] = (IF addrs[f] = a THEN 0 ELSE ref[f])
  <2>1. CASE \A f \in Frame : addrs[f] # a
    <3>1. Caching(a) = {}
      BY <2>1 DEF Caching
    <3> QED
      BY <2>1, <3>1 DEF DropLast
  <2>2. ASSUME NEW f \in Frame, addrs[f] = a
        PROVE  /\ addrs' = [addrs EXCEPT ![f] = NoAddr]
               /\ cnt' = [cnt EXCEPT ![f] = 1]
               /\ ref' = [ref EXCEPT ![f] = 0]
               /\ \A g \in Frame : addrs[g] = a => g = f
    <3>1. Caching(a) = {f} /\ Least(Caching(a)) = f
      BY <1>1, <2>2, OneFrame
    <3> QED
      BY <2>2, <3>1 DEF DropLast, FreshCnt, Caching
  <2> QED
    BY <2>1, <2>2 DEF TypeOK
<1>3. addrs' \in [Frame -> Page \cup {NoAddr}] /\ cnt' \in [Frame -> 1 .. MaxCnt]
      /\ ref' \in [Frame -> {0, 1}]
  <2>1. CASE Caching(a) = {}
    BY <2>1 DEF DropLast, TypeOK
  <2>2. CASE Caching(a) # {}
    <3>1. PICK f : Least(Caching(a)) = f
      OBVIOUS
    <3>2. addrs' = [addrs EXCEPT ![f] = NoAddr] /\ cnt' = [cnt EXCEPT ![f] = 1]
          /\ ref' = [ref EXCEPT ![f] = 0]
      BY <2>2, <3>1 DEF DropLast, FreshCnt
    <3>3. 1 \in 1 .. MaxCnt
      BY BoundsAssumption
    <3>4. cnt \in [Frame -> 1 .. MaxCnt] /\ addrs \in [Frame -> Page \cup {NoAddr}]
          /\ ref \in [Frame -> {0, 1}]
      BY DEF TypeOK
    <3> QED
      BY <3>2, <3>3, <3>4
  <2> QED
    BY <2>1, <2>2
<1> HIDE DEF a
<1>4. a \in 0 .. MaxPages /\ file.length = a + 1
  BY <1>1, BoundsAssumption DEF a, TypeOK, Page
<1>5. TypeOK'
  BY <1>1, <1>3, <1>4 DEF TypeOK
<1>6. Held' = Held \ {a}
  BY <1>1 DEF TypeOK, Held
<1>7. NoAlias' /\ AgesDistinct'
  BY <1>1, <1>2 DEF NoAlias, AgesDistinct
<1>8. PointersStayValid'
  BY <1>1, <1>2, <1>6, HeldFrame DEF PointersStayValid, TypeOK, Held
<1>9. \A b \in Held \ {a} : addrs[handle[b]] # a
  BY HeldFrame
<1>10. PinsMatchPointers'
  <2>1. \A b \in Held \ {a} : handle'[b] = handle[b]
    BY <1>1 DEF Held, TypeOK
  <2>2. \A f \in Frame : addrs[f] = a => ~(\E b \in Held \ {a} : handle[b] = f)
    BY <1>9
  <2>3. \A f \in Frame : addrs[f] # a =>
          ((\E b \in Held \ {a} : handle[b] = f) <=> (\E b \in Held : handle[b] = f))
    BY HeldFrame
  <2> QED
    BY <1>1, <1>2, <1>6, <2>1, <2>2, <2>3 DEF PinsMatchPointers
<1>11. CachedInFile'
  <2>1. \A f \in Frame : addrs[f] # NoAddr => addrs[f] < file.length /\ addrs[f] \in Int
    BY <1>1 DEF CachedInFile, TypeOK, Page
  <2>2. a \in Int /\ file.length = a + 1 /\ file'.length = a /\ file'.size = file.size
        /\ file.size \in Int /\ file.length <= file.size
    BY <1>1, <1>4 DEF a, TypeOK, CachedInFile
  <2>3. a <= file.size /\ \A f \in Frame : addrs[f] # NoAddr /\ addrs[f] # a => addrs[f] < a
    BY <2>1, <2>2
  <2> QED
    BY <1>2, <2>2, <2>3 DEF CachedInFile
<1>12. Stopped' /\ Flushed'
  BY <1>1 DEF Stopped, Flushed
<1> QED
  BY <1>5, <1>7, <1>8, <1>10, <1>11, <1>12

LEMMA BeginCloseIInv == ASSUME IInv, BeginClose PROVE IInv'
<1> USE DEF IInv
<1>1. handle' = [a \in Page |-> NoFrame] /\ mode = "up" /\ mode' = "closing" /\ cursor' = 0
      /\ addrs' = addrs /\ data' = data /\ cnt' = cnt /\ ref' = ref /\ file' = file
  BY DEF BeginClose, frames
<1>2. Held' = {}
  BY <1>1 DEF Held
<1>3. TypeOK'
  BY <1>1, CachePagesAssumption DEF TypeOK
<1>4. Flushed'
  BY <1>1 DEF Flushed, Frame
<1> QED
  BY <1>1, <1>2, <1>3, <1>4
  DEF NoAlias, PointersStayValid, PinsMatchPointers, CachedInFile, AgesDistinct, Stopped

\* One write_page of close_buffer_pool: the frame's page is on disk and no page
\* passed before is disturbed.
LEMMA CloseFrameFile ==
  ASSUME IInv, CloseFrame
  PROVE  /\ mode = "closing" /\ cursor \in Frame
         /\ file' \in [length : 0 .. MaxPages, size : 0 .. MaxPages, disk : [Page -> Val]]
         /\ file'.length = file.length /\ file'.size = file.size
         /\ \A c \in Page :
              file'.disk[c] = IF addrs[cursor] = c THEN data[cursor] ELSE file.disk[c]
<1> USE DEF IInv
<1>1. mode = "closing" /\ cursor \in Frame
  BY CachePagesAssumption DEF CloseFrame, TypeOK, Frame
<1>2. CASE addrs[cursor] = NoAddr
  BY <1>1, <1>2 DEF CloseFrame, TypeOK, Page, NoAddr
<1>3. CASE addrs[cursor] # NoAddr
  <2>1. addrs[cursor] \in Page /\ addrs[cursor] < file.length /\ data[cursor] \in Val
        /\ file.length <= file.size /\ addrs[cursor] >= 0
    BY <1>1, <1>3 DEF TypeOK, CachedInFile, Page
  <2>2. file' = WritePage(file, addrs[cursor], data[cursor])
    BY <2>1 DEF CloseFrame
  <2>3. file' = [length |-> file.length, size |-> file.size,
                 disk |-> [file.disk EXCEPT ![addrs[cursor]] = data[cursor]]]
        /\ file' \in [length : 0 .. MaxPages, size : 0 .. MaxPages, disk : [Page -> Val]]
    BY <2>1, <2>2, Overwrite
  <2> QED
    BY <1>1, <2>3 DEF TypeOK
<1> QED
  BY <1>2, <1>3

LEMMA CloseFrameIInv == ASSUME IInv, CloseFrame PROVE IInv'
<1> USE DEF IInv
<1>1. mode = "closing" /\ mode' = mode /\ cursor \in Frame /\ cursor' = cursor + 1
      /\ addrs' = addrs /\ data' = data /\ cnt' = cnt /\ ref' = ref /\ handle' = handle
  BY CloseFrameFile DEF CloseFrame, frames
<1>2. TypeOK'
  BY <1>1, CloseFrameFile, CachePagesAssumption DEF TypeOK, Frame
<1>3. Flushed'
  <2> SUFFICES ASSUME NEW f \in Frame, f < cursor + 1, addrs[f] # NoAddr
               PROVE  file'.disk[addrs[f]] = data[f]
    BY <1>1 DEF Flushed
  <2>1. addrs[f] \in Page
    BY DEF TypeOK
  <2>2. CASE f = cursor
    BY <2>1, <2>2, CloseFrameFile
  <2>3. CASE f # cursor
    <3>1. f < cursor
      BY <1>1, <2>3, CachePagesAssumption DEF Frame
    <3>2. addrs[f] # addrs[cursor]
      BY <1>1, <2>3 DEF NoAlias
    <3> QED
      BY <1>1, <2>1, <3>1, <3>2, CloseFrameFile DEF Flushed
  <2> QED
    BY <2>2, <2>3
<1>4. CachedInFile'
  BY <1>1, CloseFrameFile DEF CachedInFile
<1> QED
  BY <1>1, <1>2, <1>3, <1>4
  DEF NoAlias, PointersStayValid, PinsMatchPointers, AgesDistinct, Stopped, Held

LEMMA DownIInv == ASSUME IInv, EndClose \/ Kill PROVE IInv'
<1> USE DEF IInv
<1>1. Running /\ ~Running' /\ mode' \in {"closed", "killed"} /\ file' = [file EXCEPT !.length = 0]
      /\ addrs' = addrs /\ data' = data /\ cnt' = cnt /\ ref' = ref /\ cursor' = cursor
  BY DEF EndClose, Kill, frames, CloseFile
<1>2. handle' \in [Page -> Frame \cup {NoFrame}] /\ Held' = {}
  BY DEF EndClose, Kill, TypeOK, Stopped, Held
<1>3. TypeOK'
  BY <1>1, <1>2, BoundsAssumption DEF TypeOK
<1> QED
  BY <1>1, <1>2, <1>3
  DEF NoAlias, PointersStayValid, PinsMatchPointers, CachedInFile, AgesDistinct, Stopped,
      Flushed, TypeOK

LEMMA StartIInv == ASSUME IInv, Start PROVE IInv'
<1> USE DEF IInv
<1>1. mode \in {"closed", "killed"} /\ mode' = "up" /\ file' = [file EXCEPT !.length = file.size]
      /\ handle' = handle /\ Held' = {} /\ Held = {}
  BY DEF Start, OpenFile, Stopped, Held, TypeOK
<1>2. TypeOK'
  BY <1>1, BoundsAssumption, CachePagesAssumption, ZeroAssumption
  DEF Start, TypeOK, FreshCnt
<1>3. file'.length <= file'.size
  BY <1>1 DEF TypeOK
<1> QED
  BY <1>1, <1>2, <1>3
  DEF Start, NoAlias, PointersStayValid, PinsMatchPointers, CachedInFile, AgesDistinct,
      Stopped, Flushed, NoAddr

LEMMA NextIInv == IInv /\ [Next]_vars => IInv'
<1> SUFFICES ASSUME IInv, [Next]_vars PROVE IInv'
  OBVIOUS
<1>1. ASSUME NEW a \in Page, Get(a) PROVE IInv'
  BY <1>1, GetHitIInv, GetMissIInv, GetRefusedIInv DEF Get
<1>2. ASSUME NEW a \in Page, Release(a) PROVE IInv'
  BY <1>2, ReleaseIInv
<1>3. ASSUME NEW a \in Page, NEW v \in Val, Write(a, v) PROVE IInv'
  BY <1>3, WriteIInv
<1>4. CASE DropLast
  BY <1>4, DropLastIInv
<1>5. CASE BeginClose
  BY <1>5, BeginCloseIInv
<1>6. CASE CloseFrame
  BY <1>6, CloseFrameIInv
<1>7. CASE EndClose \/ Kill
  BY <1>7, DownIInv
<1>8. CASE Start
  BY <1>8, StartIInv
<1>9. CASE UNCHANGED vars
  BY <1>9
  DEF vars, IInv, TypeOK, NoAlias, PointersStayValid, PinsMatchPointers, CachedInFile,
      AgesDistinct, Stopped, Flushed, Held
<1> QED
  BY <1>1, <1>2, <1>3, <1>4, <1>5, <1>6, <1>7, <1>8, <1>9 DEF Next

THEOREM Invariance == Spec => []IInv
<1>1. Init => IInv
  BY InitIInv
<1>2. IInv /\ [Next]_vars => IInv'
  BY NextIInv
<1> QED
  BY <1>1, <1>2, PTL DEF Spec

-----------------------------------------------------------------------------
(* The properties.                                                          *)

\* get_page, release, the drop idiom and close_buffer_pool keep the arrays of
\* the pool, and the file under it, well formed.
THEOREM TypeCorrect == Spec => []TypeOK
  BY Invariance, PTL DEF IInv

\* get_page never gives one page two frames.
THEOREM NoAliasing == Spec => []NoAlias
  BY Invariance, PTL DEF IInv

\* A pointer that get_page returned leads to its page until it is released,
\* whatever else is fetched, released or dropped in between.
THEOREM PointersValid == Spec => []PointersStayValid
  BY Invariance, PTL DEF IInv

\* The flag ref is set for exactly the frames the caller has a pointer to.
THEOREM PinsExact == Spec => []PinsMatchPointers
  BY Invariance, PTL DEF IInv

\* get_page and close_buffer_pool, which ignore what write_page answers, never
\* call it with an address it refuses.
THEOREM WritesNeverRefused == Spec => []CachedInFile
  BY Invariance, PTL DEF IInv

\* No two occupied frames have the same age, so get_page has one victim.
THEOREM OneVictim == Spec => []AgesDistinct
  BY Invariance, PTL DEF IInv

-----------------------------------------------------------------------------
(* The victim is the least recently used page.                              *)

\* The ages agree with the order of the last get_page calls.
OlderIsAge ==
  /\ older \subseteq {p \in Page \X Page : Cached(p[1]) /\ Cached(p[2])}
  /\ \A f, g \in Frame : <<addrs[f], addrs[g]>> \in older => cnt[g] < cnt[f]

\* A step of the history variable is a step of the pool.
LEMMA HistoryStep == [MCNext]_<<vars, older>> => [Next]_vars
  BY DEF MCNext, Next, vars

\* What the frames of the cached pages have in common in a call of get_page:
\* the page asked for is young and every other age grows by one.
LEMMA GetAges ==
  ASSUME IInv, NEW a \in Page, Get(a),
         NEW f \in Frame, addrs'[f] # NoAddr
  PROVE  /\ addrs'[f] = a => cnt'[f] = 1
         /\ addrs'[f] # a => addrs[f] = addrs'[f] /\ cnt'[f] = cnt[f] + 1
<1>1. /\ addrs \in [Frame -> Page \cup {NoAddr}] /\ cnt \in [Frame -> 1 .. MaxCnt]
      /\ \A g \in Frame : Aged(a)[g] = IF addrs[g] = a THEN 1 ELSE cnt[g] + 1
      /\ Aged(a) = [g \in Frame |-> Aged(a)[g]]
  BY DEF IInv, TypeOK, Aged, FreshCnt
<1>2. CASE GetHit(a)
  BY <1>1, <1>2 DEF GetHit
<1>3. ASSUME NEW h \in Frame, GetMiss(a, h)
      PROVE  /\ addrs'[f] = a => cnt'[f] = 1
             /\ addrs'[f] # a => addrs[f] = addrs'[f] /\ cnt'[f] = cnt[f] + 1
  <2>1. /\ addrs' = [addrs EXCEPT ![h] = a] /\ cnt' = [Aged(a) EXCEPT ![h] = 1]
        /\ addrs[f] # a
    BY <1>3 DEF GetMiss, Caching, FreshCnt
  <2> QED
    BY <1>1, <2>1
<1>4. CASE GetRefused(a)
  BY <1>1, <1>4 DEF GetRefused
<1> QED
  BY <1>2, <1>3, <1>4 DEF Get

LEMMA GetOlder ==
  ASSUME IInv, OlderIsAge, NEW a \in Page, Get(a),
         older' = {p \in Page \X Page :
                     /\ Cached(p[1])' /\ Cached(p[2])' /\ p[1] # p[2]
                     /\ p[1] # a /\ (p[2] = a \/ p \in older)}
  PROVE  OlderIsAge'
<1>1. older' \subseteq {p \in Page \X Page : Cached(p[1])' /\ Cached(p[2])'}
  OBVIOUS
<1>2. ASSUME NEW f \in Frame, NEW g \in Frame, <<addrs'[f], addrs'[g]>> \in older'
      PROVE  cnt'[g] < cnt'[f]
  <2>1. /\ addrs'[f] \in Page /\ addrs'[g] \in Page /\ addrs'[f] # a
        /\ addrs'[g] = a \/ <<addrs'[f], addrs'[g]>> \in older
    BY <1>2
  <2>2. /\ addrs'[f] # NoAddr /\ addrs'[g] # NoAddr
        /\ cnt[f] \in Nat /\ 1 <= cnt[f] /\ cnt[g] \in Nat
    BY <2>1, BoundsAssumption DEF IInv, TypeOK, Page, NoAddr
  <2>3. addrs[f] = addrs'[f] /\ cnt'[f] = cnt[f] + 1
    BY <2>1, <2>2, GetAges
  <2>4. CASE addrs'[g] = a
    <3>1. cnt'[g] = 1
      BY <2>2, <2>4, GetAges
    <3> QED
      BY <2>2, <2>3, <3>1
  <2>5. CASE addrs'[g] # a
    <3>1. addrs[g] = addrs'[g] /\ cnt'[g] = cnt[g] + 1
      BY <2>2, <2>5, GetAges
    <3>2. cnt[g] < cnt[f]
      BY <2>1, <2>3, <2>5, <3>1 DEF OlderIsAge
    <3> QED
      BY <2>2, <2>3, <3>1, <3>2
  <2> QED
    BY <2>4, <2>5
<1> QED
  BY <1>1, <1>2 DEF OlderIsAge, Cached

LEMMA OlderKept == IInv /\ OlderIsAge /\ [MCNext]_<<vars, older>> => OlderIsAge'
<1> SUFFICES ASSUME IInv, OlderIsAge, [MCNext]_<<vars, older>> PROVE OlderIsAge'
  OBVIOUS
<1>1. ASSUME NEW a \in Page, Get(a),
             older' = {p \in Page \X Page :
                         /\ Cached(p[1])' /\ Cached(p[2])' /\ p[1] # p[2]
                         /\ p[1] # a /\ (p[2] = a \/ p \in older)}
      PROVE  OlderIsAge'
  BY <1>1, GetOlder
\* The other steps of a pool that goes on leave every age as it is, but that
\* of a frame they empty.
<1>2. ASSUME older' = {p \in older : Cached(p[1])' /\ Cached(p[2])'},
             \A f \in Frame :
               addrs'[f] # NoAddr => addrs'[f] = addrs[f] /\ cnt'[f] = cnt[f]
      PROVE  OlderIsAge'
  <2>1. older' \subseteq {p \in Page \X Page : Cached(p[1])' /\ Cached(p[2])'}
    BY <1>2 DEF OlderIsAge
  <2>2. ASSUME NEW f \in Frame, NEW g \in Frame, <<addrs'[f], addrs'[g]>> \in older'
        PROVE  cnt'[g] < cnt'[f]
    <3>1. addrs'[f] # NoAddr /\ addrs'[g] # NoAddr
      BY <2>1, <2>2, BoundsAssumption DEF Page, NoAddr
    <3>2. <<addrs[f], addrs[g]>> \in older
      BY <1>2, <2>2, <3>1
    <3> QED
      BY <1>2, <3>1, <3>2 DEF OlderIsAge
  <2> QED
    BY <2>1, <2>2 DEF OlderIsAge, Cached
<1>3. ASSUME DropLast
      PROVE  \A f \in Frame :
               addrs'[f] # NoAddr => addrs'[f] = addrs[f] /\ cnt'[f] = cnt[f]
  BY <1>3 DEF DropLast, IInv, TypeOK
<1>4. CASE older' = {}
  BY <1>4 DEF OlderIsAge
<1>5. CASE UNCHANGED <<vars, older>>
  BY <1>5 DEF OlderIsAge, Cached, vars
<1>6. ASSUME NEW a \in Page, Release(a) \/ (\E v \in Val : Write(a, v))
      PROVE  UNCHANGED <<addrs, cnt>>
  BY <1>6 DEF Release, Write
<1>7. ASSUME BeginClose \/ CloseFrame
      PROVE  UNCHANGED <<addrs, cnt>>
  BY <1>7 DEF BeginClose, CloseFrame, frames
<1> QED
  BY <1>1, <1>2, <1>3, <1>4, <1>5, <1>6, <1>7 DEF MCNext

\* The page a missing one displaces is the oldest of those not held.
LEMMA VictimIsOldest ==
  ASSUME IInv, OlderIsAge, [MCNext]_<<vars, older>>, mode = "up",
         NEW b \in Page, NEW f \in Frame, addrs[f] = b, addrs'[f] \notin {b, NoAddr},
         NEW c \in Page, <<c, b>> \in older
  PROVE  c \in Held
<1>1. PICK a \in Page : GetMiss(a, f)
  <2>1. addrs'[f] # addrs[f] /\ addrs'[f] # NoAddr /\ mode = "up"
    OBVIOUS
  <2>2. addrs \in [Frame -> Page \cup {NoAddr}]
    BY DEF IInv, TypeOK
  <2>3. PICK a \in Page : Get(a)
    <3>1. ASSUME NEW d \in Page
          PROVE  ~Release(d) /\ ~(\E v \in Val : Write(d, v))
      BY <2>1 DEF Release, Write
    <3>2. ~DropLast
      BY <2>1, <2>2 DEF DropLast
    <3>3. ~BeginClose /\ ~CloseFrame /\ ~EndClose /\ ~Kill /\ ~Start
      BY <2>1 DEF BeginClose, CloseFrame, EndClose, Kill, Start, frames, Running
    <3>4. ~(UNCHANGED <<vars, older>>)
      BY <2>1 DEF vars
    <3> QED
      BY <3>1, <3>2, <3>3, <3>4 DEF MCNext
  <2>4. ~GetHit(a) /\ ~GetRefused(a)
    BY <2>1 DEF GetHit, GetRefused
  <2>5. PICK h \in Frame : GetMiss(a, h)
    BY <2>3, <2>4 DEF Get
  <2>6. h = f
    BY <2>1, <2>2, <2>5 DEF GetMiss
  <2> QED
    BY <2>5, <2>6
<1>2. PICK g \in Frame : addrs[g] = c
  BY DEF OlderIsAge, Cached
<1>3. cnt[f] < cnt[g] /\ cnt[f] \in Nat /\ cnt[g] \in Nat
  BY <1>2, BoundsAssumption DEF OlderIsAge, IInv, TypeOK
<1>4. ref[g] = 1
  <2>1. f \notin Caching(NoAddr)
    BY BoundsAssumption DEF Caching, Page, NoAddr
  <2>2. IsVictim(f)
    BY <1>1, <2>1 DEF GetMiss, IsSlot
  <2>3. ref[g] \in {0, 1}
    BY DEF IInv, TypeOK
  <2> QED
    BY <1>3, <2>2, <2>3 DEF IsVictim
<1>5. PICK d \in Held : handle[d] = g
  BY <1>4 DEF IInv, PinsMatchPointers
<1> QED
  BY <1>2, <1>5 DEF IInv, PointersStayValid

\* Whatever is fetched, refused, released or dropped, a frame changes hands
\* only at the cost of the least recently used page that nobody holds.
THEOREM Eviction == MCSpec => EvictsLeastRecentlyUsed
<1> DEFINE Inv == IInv /\ OlderIsAge
<1>1. MCInit => Inv
  BY InitIInv DEF MCInit, OlderIsAge
<1>2. Inv /\ [MCNext]_<<vars, older>> => Inv'
  BY NextIInv, HistoryStep, OlderKept
<1>3. Inv /\ [MCNext]_<<vars, older>>
        => [mode = "up" =>
              \A b \in Page :
                (\E f \in Frame : addrs[f] = b /\ addrs'[f] \notin {b, NoAddr})
                  => \A c \in Page : <<c, b>> \in older => c \in Held]_<<vars, older>>
  BY VictimIsOldest
<1> QED
  BY <1>1, <1>2, <1>3, PTL DEF MCSpec, EvictsLeastRecentlyUsed

-----------------------------------------------------------------------------
(* The pool implements PageStore.                                           *)

\* What a page contains, without the choice of a frame.
ContentFacts ==
  /\ StoreLength = IF Running THEN file.length ELSE file.size
  /\ DOMAIN StoreContent = 0 .. StoreLength - 1
  /\ StoreContent = [c \in 0 .. StoreLength - 1 |-> StoreContent[c]]
  /\ \A c \in 0 .. StoreLength - 1 :
       /\ ~Running => StoreContent[c] = file.disk[c]
       /\ Running =>
            /\ \A f \in Frame : addrs[f] = c => StoreContent[c] = data[f]
            /\ (\A f \in Frame : addrs[f] # c) => StoreContent[c] = file.disk[c]
       /\ StoreContent[c] \in Val
       /\ c \in Page
  /\ StoreLength \in 0 .. MaxPages

LEMMA ContentIs == TypeOK /\ NoAlias => ContentFacts
<1> SUFFICES ASSUME TypeOK, NoAlias PROVE ContentFacts
  OBVIOUS
<1>1. StoreLength \in 0 .. MaxPages
  BY DEF StoreLength, TypeOK
<1>2. \A c \in 0 .. StoreLength - 1 : c \in Page
  BY <1>1, BoundsAssumption DEF Page
<1>3. ASSUME NEW c \in 0 .. StoreLength - 1
      PROVE  /\ ~Running => StoreContent[c] = file.disk[c]
             /\ Running =>
                  /\ \A f \in Frame : addrs[f] = c => StoreContent[c] = data[f]
                  /\ (\A f \in Frame : addrs[f] # c) => StoreContent[c] = file.disk[c]
             /\ StoreContent[c] \in Val
  <2>1. c \in Page
    BY <1>2
  <2>2. CASE Running /\ \E f \in Frame : addrs[f] = c
    <3>1. PICK f \in Frame : addrs[f] = c
      BY <2>2
    <3>2. Caching(c) = {f} /\ Least(Caching(c)) = f
      BY <2>1, <2>2, <3>1, OneFrame
    <3>3. StoreContent[c] = data[f]
      BY <2>2, <3>2 DEF StoreContent
    <3> QED
      BY <2>2, <3>1, <3>2, <3>3 DEF Caching, TypeOK
  <2>3. CASE ~Running \/ \A f \in Frame : addrs[f] # c
    <3>1. StoreContent[c] = file.disk[c]
      BY <2>3 DEF StoreContent, Caching
    <3> QED
      BY <2>1, <2>3, <3>1 DEF TypeOK
  <2> QED
    BY <2>2, <2>3
<1>4. DOMAIN StoreContent = 0 .. StoreLength - 1
      /\ StoreContent = [c \in 0 .. StoreLength - 1 |-> StoreContent[c]]
  BY DEF StoreContent
<1> QED
  BY <1>1, <1>2, <1>3, <1>4 DEF ContentFacts, StoreLength

LEMMA ContentIsNext == (TypeOK /\ NoAlias)' => ContentFacts'
  BY ContentIs, PTL

LEMMA InitStore == Init => Store!Init
<1> SUFFICES ASSUME Init PROVE Store!Init
  OBVIOUS
<1>1. Held = {}
  BY DEF Init, Held
<1>2. StoreLength = 0
  BY DEF Init, StoreLength
<1>3. StoreContent = [a \in {} |-> a]
  BY <1>2 DEF StoreContent
<1> QED
  BY <1>1, <1>2, <1>3 DEF Init, Store!Init

\* A page found, or read from disk into the frame of a page that is written
\* back first: the contents of the file, cached or not, are what they were.
LEMMA GetStore ==
  ASSUME IInv, IInv', NEW a \in Page, a \notin Held, Get(a)
  PROVE  Store!Next \/ UNCHANGED Store!vars
<1> USE DEF IInv
<1>0. ContentFacts /\ ContentFacts'
  BY ContentIs, ContentIsNext
<1>1. CASE GetHit(a)
  <2>1. PICK f \in Frame : addrs[f] = a
    BY <1>1 DEF GetHit, Caching
  <2>a. mode = "up" /\ mode' = mode /\ a # NoAddr
    BY <1>1 DEF GetHit, Page, NoAddr
  <2>2. handle' = [handle EXCEPT ![a] = f] /\ a < file.length /\ mode = "up" /\ mode' = mode
    BY <1>1, <2>1, <2>a, OneFrame DEF GetHit, CachedInFile
  <2>3. Held' = Held \cup {a}
    BY <2>2, CachePagesAssumption DEF TypeOK, Held, Frame, NoFrame
  <2>4. StoreLength' = StoreLength /\ StoreContent' = StoreContent /\ a < StoreLength
    BY <1>1, <2>2 DEF GetHit, StoreLength, StoreContent, Caching
  <2>5. Store!Get(a)
    BY <2>2, <2>3, <2>4 DEF Store!Get
  <2> QED
    BY <2>5 DEF Store!Next, Store!Page, Page
<1>2. ASSUME NEW f \in Frame, GetMiss(a, f) PROVE Store!Next
  <2>1. mode = "up" /\ mode' = mode /\ addrs' = [addrs EXCEPT ![f] = a]
        /\ handle' = [handle EXCEPT ![a] = f] /\ \A g \in Frame : addrs[g] # a
    BY <1>2 DEF GetMiss, Caching
  <2>2. Held' = Held \cup {a}
    BY <2>1, CachePagesAssumption DEF TypeOK, Held, Frame, NoFrame
  <2>3. StoreLength = file.length /\ StoreLength' = file'.length
        /\ file.length \in 0 .. MaxPages
    BY <2>1 DEF StoreLength, TypeOK
  <2>4. ASSUME NEW c \in 0 .. file.length - 1, c # a PROVE StoreContent'[c] = StoreContent[c]
    <3>1. c \in Page /\ c \in 0 .. file'.length - 1
      BY <1>0, <1>2, <2>3, MissFile DEF ContentFacts, Page
    <3>2. file'.disk[c] = IF addrs[f] = c THEN data[f] ELSE file.disk[c]
      BY <1>2, <2>4, <3>1, MissFile
    <3>3. \A g \in Frame \ {f} : addrs'[g] = addrs[g] /\ data'[g] = data[g]
      BY <1>2, <2>1, MissFile DEF TypeOK
    <3>4. addrs'[f] = a
      BY <2>1 DEF TypeOK
    <3>5. CASE \E g \in Frame \ {f} : addrs[g] = c
      <4>1. PICK g \in Frame \ {f} : addrs[g] = c
        BY <3>5
      <4>2. StoreContent[c] = data[g]
        BY <1>0, <2>1, <2>3, <4>1 DEF ContentFacts
      <4>3. addrs'[g] = c /\ data'[g] = data[g]
        BY <3>3, <4>1
      <4>4. StoreContent'[c] = data'[g]
        BY <1>0, <2>1, <2>3, <3>1, <4>3 DEF ContentFacts
      <4> QED
        BY <4>2, <4>3, <4>4
    <3>6. CASE \A g \in Frame \ {f} : addrs[g] # c
      <4>1. StoreContent'[c] = file'.disk[c]
        BY <1>0, <2>1, <2>3, <2>4, <3>1, <3>3, <3>4, <3>6 DEF ContentFacts
      <4>2. StoreContent[c] = IF addrs[f] = c THEN data[f] ELSE file.disk[c]
        BY <1>0, <2>1, <2>3, <3>6 DEF ContentFacts
      <4> QED
        BY <3>2, <4>1, <4>2
    <3> QED
      BY <3>5, <3>6
  <2>5. CASE a = file.length
    <3>1. file'.length = file.length + 1
      BY <1>2, <2>5, MissFile
    <3> DEFINE v == StoreContent'[a]
    <3>2. v \in Val
      BY <1>0, <2>3, <2>5, <3>1 DEF ContentFacts
    <3>3. StoreContent' = [c \in 0 .. StoreLength |-> IF c = StoreLength THEN v ELSE StoreContent[c]]
      <4> DEFINE s == StoreContent'
                 t == [c \in 0 .. StoreLength |-> IF c = StoreLength THEN v ELSE StoreContent[c]]
      <4>1. 0 .. StoreLength' - 1 = 0 .. StoreLength
        BY <2>3, <3>1
      <4>2. s = [c \in 0 .. StoreLength |-> s[c]]
        BY <1>0, <4>1 DEF ContentFacts
      <4>3. \A c \in 0 .. StoreLength : s[c] = t[c]
        <5> TAKE c \in 0 .. StoreLength
        <5>1. CASE c = StoreLength
          BY <2>3, <2>5, <5>1
        <5>2. CASE c # StoreLength
          <6>1. c \in 0 .. file.length - 1 /\ c # a
            BY <2>3, <2>5, <5>2
          <6> QED
            BY <2>4, <5>2, <6>1
        <5> QED
          BY <5>1, <5>2
      <4>4. t = [c \in 0 .. StoreLength |-> t[c]]
        OBVIOUS
      <4>5. s = t
        <5> HIDE DEF s, t
        <5> QED
          BY <4>2, <4>3, <4>4
      <4> QED
        BY <4>5
    <3>4. StoreLength < MaxPages /\ StoreLength' = StoreLength + 1 /\ a = StoreLength
      BY <2>3, <2>5, <3>1, BoundsAssumption DEF Page
    <3>5. Store!Append(v)
      <4> HIDE DEF v
      <4> QED
        BY <2>1, <2>2, <3>3, <3>4 DEF Store!Append
    <3> QED
      BY <3>2, <3>5 DEF Store!Next
  <2>6. CASE a # file.length
    <3>1. file'.length = file.length /\ a < file.length /\ a \in 0 .. file.length - 1
      BY <1>2, <2>3, <2>6, MissFile DEF Page
    <3>2. StoreContent'[a] = StoreContent[a]
      <4>1. StoreContent[a] = file.disk[a]
        BY <1>0, <2>1, <2>3, <3>1 DEF ContentFacts
      <4>2. addrs'[f] = a /\ data'[f] = file.disk[a]
        BY <1>2, <2>1, <2>6, MissFile DEF TypeOK
      <4>3. StoreContent'[a] = data'[f]
        BY <1>0, <2>1, <2>3, <3>1, <4>2 DEF ContentFacts
      <4> QED
        BY <4>1, <4>2, <4>3
    <3>3. StoreContent' = StoreContent
      <4> DEFINE n == file.length
      <4>1. StoreContent = [c \in 0 .. n - 1 |-> StoreContent[c]]
            /\ StoreContent' = [c \in 0 .. n - 1 |-> StoreContent'[c]]
        BY <1>0, <2>3, <3>1 DEF ContentFacts
      <4>2. \A c \in 0 .. n - 1 : StoreContent[c] = StoreContent'[c]
        BY <2>4, <3>2
      <4> HIDE DEF n
      <4> QED
        BY <4>1, <4>2
    <3>4. Store!Get(a)
      BY <2>1, <2>2, <2>3, <3>1, <3>3 DEF Store!Get
    <3> QED
      BY <3>4 DEF Store!Next, Store!Page, Page
  <2> QED
    BY <2>5, <2>6
<1>3. CASE GetRefused(a)
  BY <1>3 DEF GetRefused, Store!vars, StoreLength, StoreContent, Caching, Held
<1> QED
  BY <1>1, <1>2, <1>3 DEF Get

LEMMA WriteStore ==
  ASSUME IInv, IInv', NEW a \in Page, NEW v \in Val, Write(a, v)
  PROVE  Store!Write(a, v)
<1> USE DEF IInv
<1>0. ContentFacts /\ ContentFacts'
  BY ContentIs, ContentIsNext
<1>1. mode = "up" /\ mode' = mode /\ a \in Held /\ Held' = Held /\ addrs' = addrs
      /\ file' = file /\ data' = [data EXCEPT ![handle[a]] = v]
  BY DEF Write, Held
<1>2. handle[a] \in Frame /\ addrs[handle[a]] = a
  BY <1>1, HeldFrame
<1>3. StoreLength' = StoreLength
  BY <1>1 DEF StoreLength
<1>4. StoreContent' = [StoreContent EXCEPT ![a] = v]
  <2> DEFINE D == 0 .. StoreLength - 1
  <2>1. ASSUME NEW c \in D PROVE StoreContent'[c] = IF c = a THEN v ELSE StoreContent[c]
    <3>1. CASE c = a
      <4>1. data'[handle[a]] = v
        BY <1>1, <1>2 DEF TypeOK
      <4> QED
        BY <1>0, <1>1, <1>2, <1>3, <3>1, <4>1 DEF ContentFacts
    <3>2. ASSUME c # a, NEW f \in Frame, addrs[f] = c
          PROVE  StoreContent'[c] = StoreContent[c]
      <4>1. data'[f] = data[f]
        BY <1>1, <1>2, <3>2 DEF TypeOK
      <4>2. StoreContent[c] = data[f] /\ StoreContent'[c] = data'[f]
        BY <1>0, <1>1, <1>3, <3>2 DEF ContentFacts
      <4> QED
        BY <4>1, <4>2
    <3>3. CASE \A f \in Frame : addrs[f] # c
      <4>1. StoreContent[c] = file.disk[c] /\ StoreContent'[c] = file.disk[c]
        BY <1>0, <1>1, <1>3, <3>3 DEF ContentFacts
      <4> QED
        BY <1>2, <3>3, <4>1
    <3> QED
      BY <3>1, <3>2, <3>3
  <2>2. StoreContent = [c \in D |-> StoreContent[c]] /\ StoreContent' = [c \in D |-> StoreContent'[c]]
        /\ DOMAIN StoreContent = D
    BY <1>0, <1>3 DEF ContentFacts
  <2> HIDE DEF D
  <2> QED
    BY <2>1, <2>2
<1> QED
  BY <1>1, <1>3, <1>4 DEF Store!Write

LEMMA ReleaseStore == ASSUME IInv, NEW a \in Page, Release(a) PROVE Store!Release(a)
<1>1. Held' = Held \ {a}
  BY DEF IInv, Release, Held, TypeOK
<1>2. StoreLength' = StoreLength /\ StoreContent' = StoreContent
  BY DEF Release, StoreLength, StoreContent, Caching
<1> QED
  BY <1>1, <1>2 DEF Release, Store!Release

LEMMA DropLastStore == ASSUME IInv, IInv', DropLast PROVE Store!DropLast
<1> USE DEF IInv
<1>0. ContentFacts /\ ContentFacts'
  BY ContentIs, ContentIsNext
<1> DEFINE a == file.length - 1
<1>1. mode = "up" /\ mode' = mode /\ a \in Page /\ data' = data /\ file.length > 0
      /\ handle' = [handle EXCEPT ![a] = NoFrame] /\ file.length \in 0 .. MaxPages
      /\ file'.length = a /\ file'.disk = file.disk
  BY BoundsAssumption DEF DropLast, TypeOK, Page
<1>2. Held' = Held \ {a}
  BY <1>1 DEF TypeOK, Held
<1>3. StoreLength = file.length /\ StoreLength' = a
  BY <1>1 DEF StoreLength
<1>4. \A c \in 0 .. a - 1, f \in Frame : addrs'[f] = c <=> addrs[f] = c
  <2>1. CASE Caching(a) = {}
    BY <2>1 DEF DropLast
  <2>2. CASE Caching(a) # {}
    <3>1. PICK f \in Frame : addrs[f] = a
      BY <2>2 DEF Caching
    <3>2. addrs' = [addrs EXCEPT ![f] = NoAddr]
      BY <1>1, <2>2, <3>1, OneFrame DEF DropLast
    <3> QED
      BY <1>1, <3>1, <3>2 DEF TypeOK, NoAddr
  <2> QED
    BY <2>1, <2>2
<1>5. ASSUME NEW c \in 0 .. a - 1 PROVE StoreContent'[c] = StoreContent[c]
  <2>1. c \in 0 .. StoreLength - 1 /\ c \in 0 .. StoreLength' - 1
    BY <1>1, <1>3
  <2>2. CASE \A f \in Frame : addrs[f] # c
    <3>1. \A f \in Frame : addrs'[f] # c
      BY <1>4, <2>2
    <3>2. StoreContent[c] = file.disk[c]
      BY <1>0, <1>1, <2>1, <2>2 DEF ContentFacts
    <3>3. StoreContent'[c] = file'.disk[c]
      <4> HIDE DEF a
      <4> QED
        BY <1>0, <1>1, <2>1, <3>1 DEF ContentFacts
    <3> QED
      BY <1>1, <3>2, <3>3
  <2>3. ASSUME NEW f \in Frame, addrs[f] = c PROVE StoreContent'[c] = StoreContent[c]
    <3>1. addrs'[f] = c
      BY <1>4, <2>3
    <3>2. StoreContent[c] = data[f]
      BY <1>0, <1>1, <2>1, <2>3 DEF ContentFacts
    <3>3. StoreContent'[c] = data'[f]
      <4> HIDE DEF a
      <4> QED
        BY <1>0, <1>1, <2>1, <3>1 DEF ContentFacts
    <3> QED
      BY <1>1, <3>2, <3>3
  <2> QED
    BY <2>2, <2>3
<1>6. StoreContent' = [c \in 0 .. a - 1 |-> StoreContent[c]]
  <2>1. StoreContent' = [c \in 0 .. a - 1 |-> StoreContent'[c]]
    BY <1>0, <1>3 DEF ContentFacts
  <2> HIDE DEF a
  <2> QED
    BY <1>5, <2>1
<1>7. a - 1 = StoreLength - 2
  BY <1>1, <1>3
<1> QED
  BY <1>1, <1>2, <1>3, <1>6, <1>7 DEF Store!DropLast

LEMMA BeginCloseStore == ASSUME IInv', BeginClose PROVE Store!BeginClose
<1>1. Held' = {}
  BY DEF IInv, Stopped, BeginClose
<1>2. StoreLength' = StoreLength /\ StoreContent' = StoreContent
  BY DEF BeginClose, frames, StoreLength, StoreContent, Caching
<1> QED
  BY <1>1, <1>2 DEF BeginClose, Store!BeginClose

\* Writing a cached page to the file changes nobody's view of that page.
LEMMA CloseFrameStore == ASSUME IInv, IInv', CloseFrame PROVE UNCHANGED Store!vars
<1> USE DEF IInv
<1>0. ContentFacts /\ ContentFacts'
  BY ContentIs, ContentIsNext
<1>1. mode = "closing" /\ mode' = mode /\ addrs' = addrs /\ data' = data /\ handle' = handle
      /\ cursor \in Frame
  BY CloseFrameFile DEF CloseFrame, frames
<1>2. StoreLength' = StoreLength /\ Held' = Held
  BY <1>1, CloseFrameFile DEF StoreLength, Held
<1> DEFINE D == 0 .. StoreLength - 1
<1>3. ASSUME NEW c \in D PROVE StoreContent'[c] = StoreContent[c]
  <2>1. CASE \A f \in Frame : addrs[f] # c
    <3>1. file'.disk[c] = file.disk[c]
      BY <1>0, <1>1, <2>1, CloseFrameFile DEF ContentFacts
    <3>2. StoreContent[c] = file.disk[c]
      BY <1>0, <1>1, <2>1 DEF ContentFacts
    <3>3. StoreContent'[c] = file'.disk[c]
      BY <1>0, <1>1, <1>2, <2>1 DEF ContentFacts
    <3> QED
      BY <3>1, <3>2, <3>3
  <2>2. ASSUME NEW f \in Frame, addrs[f] = c PROVE StoreContent'[c] = StoreContent[c]
    <3>1. StoreContent[c] = data[f]
      BY <1>0, <1>1, <2>2 DEF ContentFacts
    <3>2. StoreContent'[c] = data'[f]
      BY <1>0, <1>1, <1>2, <2>2 DEF ContentFacts
    <3> QED
      BY <1>1, <3>1, <3>2
  <2> QED
    BY <2>1, <2>2
<1>4. StoreContent' = StoreContent
  <2>1. StoreContent = [c \in D |-> StoreContent[c]]
        /\ StoreContent' = [c \in D |-> StoreContent'[c]]
    BY <1>0, <1>2 DEF ContentFacts
  <2> HIDE DEF D
  <2> QED
    BY <1>3, <2>1
<1> QED
  BY <1>1, <1>2, <1>4 DEF Store!vars

\* After the loop every cached page is on disk, where the next process and
\* nobody before it looks; the pages that had been dropped are back.
LEMMA EndCloseStore == ASSUME IInv, IInv', EndClose PROVE Store!EndClose
<1> USE DEF IInv
<1>0. ContentFacts /\ ContentFacts'
  BY ContentIs, ContentIsNext
<1>1. mode = "closing" /\ mode' = "closed" /\ cursor = CachePages /\ addrs' = addrs
      /\ file'.disk = file.disk /\ file'.size = file.size /\ handle' = handle
  BY DEF EndClose, frames, CloseFile, TypeOK
<1>2. StoreLength = file.length /\ StoreLength' = file.size /\ Held' = {}
      /\ file.length \in 0 .. MaxPages /\ file.size \in 0 .. MaxPages
      /\ file.length <= file.size
  BY <1>1 DEF StoreLength, Stopped, TypeOK, CachedInFile
<1>3. ASSUME NEW c \in 0 .. StoreLength - 1 PROVE StoreContent'[c] = StoreContent[c]
  <2>1. StoreContent'[c] = file.disk[c]
    <3>1. c \in 0 .. StoreLength' - 1
      BY <1>2
    <3> QED
      BY <1>0, <1>1, <3>1 DEF ContentFacts
  <2>2. CASE \A f \in Frame : addrs[f] # c
    BY <1>0, <1>1, <2>1, <2>2 DEF ContentFacts
  <2>3. ASSUME NEW f \in Frame, addrs[f] = c PROVE StoreContent'[c] = StoreContent[c]
    <3>1. f < cursor /\ addrs[f] # NoAddr
      BY <1>1, <2>3, CachePagesAssumption DEF Frame, NoAddr
    <3>2. file.disk[c] = data[f]
      BY <1>1, <2>3, <3>1 DEF Flushed
    <3> QED
      BY <1>0, <1>1, <2>1, <2>3, <3>2 DEF ContentFacts
  <2> QED
    BY <2>2, <2>3
<1> DEFINE D == 0 .. StoreLength' - 1
<1>4. StoreContent' \in [D -> Val] /\ StoreContent' = [c \in D |-> StoreContent'[c]]
  <2>1. StoreContent' = [c \in D |-> StoreContent'[c]] /\ \A c \in D : StoreContent'[c] \in Val
    BY <1>0 DEF ContentFacts
  <2> HIDE DEF D
  <2> QED
    BY <2>1
<1>5. StoreContent' =
        [c \in D |-> IF c < StoreLength THEN StoreContent[c] ELSE StoreContent'[c]]
  <2>1. \A c \in D : c < StoreLength => c \in 0 .. StoreLength - 1
    BY <1>2
  <2> HIDE DEF D
  <2> QED
    BY <1>3, <1>4, <2>1
<1>6. StoreLength' \in StoreLength .. MaxPages
  BY <1>2
<1>7. \E more \in [D -> Val] :
        StoreContent' = [c \in D |-> IF c < StoreLength THEN StoreContent[c] ELSE more[c]]
  <2> HIDE DEF D
  <2> QED
    BY <1>4, <1>5
<1> QED
  BY <1>1, <1>2, <1>6, <1>7 DEF Store!EndClose

LEMMA KillStore == ASSUME IInv, IInv', Kill PROVE Store!Kill
<1>0. ContentFacts'
  BY ContentIsNext DEF IInv
<1>1. mode \in {"up", "closing"} /\ mode' = "killed" /\ Held' = {}
  BY DEF Kill, IInv, Stopped
<1> DEFINE D == 0 .. StoreLength' - 1
<1>2. StoreContent' = [c \in D |-> StoreContent'[c]] /\ \A c \in D : StoreContent'[c] \in Val
  BY <1>0 DEF ContentFacts
<1>3. StoreContent' \in [D -> Val]
  <2> HIDE DEF D
  <2> QED
    BY <1>2
<1> QED
  BY <1>0, <1>1, <1>3 DEF ContentFacts, Store!Kill

LEMMA StartStore == ASSUME IInv, IInv', Start PROVE Store!Start
<1> USE DEF IInv
<1>0. ContentFacts /\ ContentFacts'
  BY ContentIs, ContentIsNext
<1>1. mode \in {"closed", "killed"} /\ mode' = "up" /\ file'.length = file.size /\ file'.disk = file.disk
      /\ handle' = handle /\ \A f \in Frame : addrs'[f] = NoAddr
  BY DEF Start, OpenFile, TypeOK
<1>2. StoreLength = file.size /\ StoreLength' = file.size /\ Held' = Held
  BY <1>1 DEF StoreLength, Held
<1> DEFINE D == 0 .. StoreLength - 1
<1>3. ASSUME NEW c \in D PROVE StoreContent'[c] = StoreContent[c]
  <2>1. c \in D /\ c \in 0 .. StoreLength' - 1 /\ \A f \in Frame : addrs'[f] # c
    BY <1>0, <1>1, <1>2 DEF ContentFacts, Page, NoAddr
  <2>2. StoreContent[c] = file.disk[c]
    BY <1>0, <1>1, <2>1 DEF ContentFacts
  <2>3. StoreContent'[c] = file'.disk[c]
    BY <1>0, <1>1, <2>1 DEF ContentFacts
  <2> QED
    BY <1>1, <2>2, <2>3
<1>4. StoreContent' = StoreContent
  <2>1. StoreContent = [c \in D |-> StoreContent[c]]
        /\ StoreContent' = [c \in D |-> StoreContent'[c]]
    BY <1>0, <1>2 DEF ContentFacts
  <2> HIDE DEF D
  <2> QED
    BY <1>3, <2>1
<1> QED
  BY <1>1, <1>2, <1>4 DEF Store!Start

LEMMA NextStore == IInv /\ IInv' /\ [Next]_vars => [Store!Next]_Store!vars
<1> SUFFICES ASSUME IInv, IInv', [Next]_vars PROVE Store!Next \/ UNCHANGED Store!vars
  OBVIOUS
<1>1. Page = Store!Page
  BY DEF Page, Store!Page
<1>2. ASSUME NEW a \in Page, Get(a) PROVE Store!Next \/ UNCHANGED Store!vars
  BY <1>2, GetStore DEF Get
<1>3. ASSUME NEW a \in Page, Release(a) PROVE Store!Next
  BY <1>1, <1>3, ReleaseStore DEF Store!Next
<1>4. ASSUME NEW a \in Page, NEW v \in Val, Write(a, v) PROVE Store!Next
  BY <1>1, <1>4, WriteStore DEF Store!Next
<1>5. CASE DropLast
  BY <1>5, DropLastStore DEF Store!Next
<1>6. CASE BeginClose
  BY <1>6, BeginCloseStore DEF Store!Next
<1>7. CASE CloseFrame
  BY <1>7, CloseFrameStore
<1>8. CASE EndClose
  BY <1>8, EndCloseStore DEF Store!Next
<1>9. CASE Kill
  BY <1>9, KillStore DEF Store!Next
<1>10. CASE Start
  BY <1>10, StartStore DEF Store!Next
<1>11. CASE UNCHANGED vars
  BY <1>11 DEF vars, frames, Store!vars, StoreLength, StoreContent, Caching, Held
<1> QED
  BY <1>2, <1>3, <1>4, <1>5, <1>6, <1>7, <1>8, <1>9, <1>10, <1>11 DEF Next

\* The pool of buffer_pool.c behaves like a file of pages with no cache: what
\* get_page returns is what was last stored in the page, over evictions,
\* reloads, dropped pages and an orderly close_buffer_pool.
THEOREM Refinement == Spec => ImplementsPageStore
<1>1. Init => Store!Init
  BY InitStore
<1>2. IInv /\ IInv' /\ [Next]_vars => [Store!Next]_Store!vars
  BY NextStore
<1> QED
  BY <1>1, <1>2, Invariance, PTL DEF Spec, Store!Spec, ImplementsPageStore
=============================================================================
