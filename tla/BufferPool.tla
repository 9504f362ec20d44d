----------------------------- MODULE BufferPool -----------------------------
(***************************************************************************)
(* buffer_pool.c over file_io.c: CachePages frames in front of one page    *)
(* file, with a pin flag (ref) and an age (cnt) per frame.                 *)
(*                                                                         *)
(* The caller is the code of hash_map.c, b_tree.c and table.c seen from    *)
(* here: it gets pages, keeps the pointer get_page returned until it       *)
(* releases the page, writes through that pointer, and sometimes drops the *)
(* last page of the file.  It holds at most one pointer to a page.         *)
(***************************************************************************)
EXTENDS FileIO, FiniteSets

CONSTANTS CachePages,  \* CACHE_PAGE
          Val,         \* contents a page can have
          Zero,        \* the content of zeroed memory
          MaxPages,    \* bound: pages a file can grow to
          MaxCnt       \* bound: the largest age

ASSUME CachePagesAssumption == CachePages \in Nat \ {0}
ASSUME BoundsAssumption     == MaxPages \in Nat /\ MaxCnt \in Nat \ {0}
ASSUME ZeroAssumption       == Zero \in Val

Frame   == 0 .. CachePages - 1
Page    == 0 .. MaxPages - 1
NoFrame == -1

VARIABLES mode,    \* "up" after init_buffer_pool, "closing", "closed", "killed"
          file,    \* pool->file and the disk behind it
          addrs, data, cnt, ref,   \* the four arrays of BufferPool
          handle,  \* the pointer the caller keeps for each page it holds
          cursor   \* the loop variable of close_buffer_pool

frames == <<addrs, data, cnt, ref>>
vars   == <<mode, file, addrs, data, cnt, ref, handle, cursor>>

Running == mode \in {"up", "closing"}

Held == {a \in Page : handle[a] # NoFrame}

TypeOK ==
  /\ mode \in {"up", "closing", "closed", "killed"}
  /\ file \in [length : 0 .. MaxPages, size : 0 .. MaxPages, disk : [Page -> Val]]
  /\ addrs \in [Frame -> Page \cup {NoAddr}]
  /\ data \in [Frame -> Val]
  /\ cnt \in [Frame -> 1 .. MaxCnt]
  /\ ref \in [Frame -> {0, 1}]
  /\ handle \in [Page -> Frame \cup {NoFrame}]
  /\ cursor \in 0 .. CachePages

-----------------------------------------------------------------------------
Least(S)    == CHOOSE i \in S : \A j \in S : i <= j
Greatest(S) == CHOOSE i \in S : \A j \in S : j <= i

Caching(a) == {f \in Frame : addrs[f] = a}
Unpinned   == {f \in Frame : ref[f] = 0}

\* Mutant: init_buffer_pool zeroes the ages instead of starting them at 1.
ZeroCnt == 0

\* The values init_buffer_pool stores in an empty frame.
FreshCnt == 1

\* Mutant: the first loop of get_page ages the page it finds as well.
AgedAll(a) == [f \in Frame |-> cnt[f] + 1]

\* The first loop of get_page: what it finds becomes young, the rest ages.
Aged(a) == [f \in Frame |-> IF addrs[f] = a THEN FreshCnt ELSE cnt[f] + 1]

\* Mutant: the replacement loop does not look at ref.
IsOldest(f) == \A g \in Frame : cnt[g] < cnt[f] \/ (cnt[g] = cnt[f] /\ f <= g)

\* A frame the replacement loop may settle on: unpinned, of greatest age, and
\* the first of those (the comparison is strict).
IsVictim(f) ==
  /\ ref[f] = 0
  /\ \A g \in Frame : ref[g] = 0 => cnt[g] < cnt[f] \/ (cnt[g] = cnt[f] /\ f <= g)

\* The frame a missing page goes to: the first empty one, else the victim.
IsSlot(f) ==
  IF Caching(NoAddr) # {}
    THEN f \in Caching(NoAddr) /\ \A g \in Caching(NoAddr) : f <= g
    ELSE IsVictim(f)

\* The file once the victim is written back; an empty frame is not written.
WrittenBack(f) ==
  IF Caching(NoAddr) # {} THEN file ELSE WritePage(file, addrs[f], data[f])

\* The bound on ages: get_page may run while no age is at MaxCnt.
CanAge == \A f \in Frame : cnt[f] < MaxCnt

-----------------------------------------------------------------------------
\* get_page finds the page.
GetHit(a) ==
  /\ mode = "up" /\ CanAge
  /\ a <= file.length
  /\ Caching(a) # {}
  /\ cnt' = Aged(a)
  /\ ref' = [f \in Frame |-> IF addrs[f] = a THEN 1 ELSE ref[f]]
  /\ handle' = [handle EXCEPT ![a] = Greatest(Caching(a))]
  /\ UNCHANGED <<mode, file, addrs, data, cursor>>

\* Mutant: get_page goes on to the miss part after a hit.
GetMissAlways(a, f) ==
  /\ mode = "up" /\ CanAge
  /\ a <= file.length
  /\ IsSlot(f)
  /\ cnt' = [Aged(a) EXCEPT ![f] = FreshCnt]
  /\ ref' = [ref EXCEPT ![f] = 1]
  /\ addrs' = [addrs EXCEPT ![f] = a]
  /\ file' = WritePage(WrittenBack(f), a, data[f])
  /\ handle' = [handle EXCEPT ![a] = f]
  /\ UNCHANGED <<mode, data, cursor>>

\* get_page brings in page a of the file, or appends page a, into frame f.
\* An appended page is written to the file with whatever the frame held.
GetMiss(a, f) ==
  /\ mode = "up" /\ CanAge
  /\ a <= file.length
  /\ Caching(a) = {}
  /\ IsSlot(f)
  /\ cnt' = [Aged(a) EXCEPT ![f] = FreshCnt]
  /\ ref' = [ref EXCEPT ![f] = 1]
  /\ addrs' = [addrs EXCEPT ![f] = a]
  /\ LET flushed == WrittenBack(f)
     IN  IF flushed.length = a
           THEN /\ file' = WritePage(flushed, a, data[f])
                /\ data' = data
           ELSE /\ file' = flushed
                /\ data' = [data EXCEPT ![f] = ReadPage(flushed, a, @)]
  /\ handle' = [handle EXCEPT ![a] = f]
  /\ UNCHANGED <<mode, cursor>>

\* Every frame is pinned: get_page has aged them all and returns NULL.
GetRefused(a) ==
  /\ mode = "up" /\ CanAge
  /\ a <= file.length
  /\ Caching(a) = {} /\ Caching(NoAddr) = {} /\ Unpinned = {}
  /\ cnt' = Aged(a)
  /\ UNCHANGED <<mode, file, addrs, data, ref, handle, cursor>>

\* The caller stores v in the page, through the pointer it was given.
Write(a, v) ==
  /\ mode = "up" /\ a \in Held
  /\ data' = [data EXCEPT ![handle[a]] = v]
  /\ UNCHANGED <<mode, file, addrs, cnt, ref, handle, cursor>>

\* Mutant: release gives the pointer up and leaves the flag set.
ReleaseKeepsFlag(a) ==
  /\ mode = "up" /\ a \in Held
  /\ handle' = [handle EXCEPT ![a] = NoFrame]
  /\ UNCHANGED <<mode, file, addrs, data, cnt, ref, cursor>>

\* release clears the flag of the first frame with that address.
Release(a) ==
  /\ mode = "up" /\ a \in Held
  /\ ref' = IF Caching(a) = {} THEN ref ELSE [ref EXCEPT ![Least(Caching(a))] = 0]
  /\ handle' = [handle EXCEPT ![a] = NoFrame]
  /\ UNCHANGED <<mode, file, addrs, data, cnt, cursor>>

\* Mutant: the last page is dropped from the file and stays in its frame.
DropLastKeepsFrame ==
  /\ mode = "up" /\ file.length > 0
  /\ handle' = [handle EXCEPT ![file.length - 1] = NoFrame]
  /\ ref' = [f \in Frame |-> IF addrs[f] = file.length - 1 THEN 0 ELSE ref[f]]
  /\ file' = [file EXCEPT !.length = @ - 1]
  /\ UNCHANGED <<mode, addrs, data, cnt, cursor>>

\* "del the last block": the caller empties the frame of the last page by hand
\* and shortens the file, whether it still holds the page (hash_map.c) or has
\* just released it (b_tree.c).
DropLast ==
  /\ mode = "up" /\ file.length > 0
  /\ LET a == file.length - 1
     IN  /\ IF Caching(a) = {}
              THEN UNCHANGED <<addrs, cnt, ref>>
              ELSE LET f == Least(Caching(a))
                   IN  /\ addrs' = [addrs EXCEPT ![f] = NoAddr]
                       /\ cnt' = [cnt EXCEPT ![f] = FreshCnt]
                       /\ ref' = [ref EXCEPT ![f] = 0]
         /\ handle' = [handle EXCEPT ![a] = NoFrame]
  /\ file' = [file EXCEPT !.length = @ - 1]
  /\ UNCHANGED <<mode, data, cursor>>

-----------------------------------------------------------------------------
\* close_buffer_pool: the loop over the frames, one write_page at a time.
BeginClose ==
  /\ mode = "up"
  /\ mode' = "closing" /\ cursor' = 0
  /\ handle' = [a \in Page |-> NoFrame]
  /\ UNCHANGED <<file, frames>>

\* Mutant: the loop takes page 0 for an empty frame.
CloseFrameSkipsPage0 ==
  /\ mode = "closing" /\ cursor < CachePages
  /\ file' = IF addrs[cursor] > 0
               THEN WritePage(file, addrs[cursor], data[cursor])
               ELSE file
  /\ cursor' = cursor + 1
  /\ UNCHANGED <<mode, frames, handle>>

CloseFrame ==
  /\ mode = "closing" /\ cursor < CachePages
  /\ file' = IF addrs[cursor] >= 0
               THEN WritePage(file, addrs[cursor], data[cursor])
               ELSE file
  /\ cursor' = cursor + 1
  /\ UNCHANGED <<mode, frames, handle>>

EndClose ==
  /\ mode = "closing" /\ cursor = CachePages
  /\ mode' = "closed" /\ file' = CloseFile(file)
  /\ UNCHANGED <<frames, handle, cursor>>

\* The process dies without close_buffer_pool: the frames are gone.
Kill ==
  /\ Running
  /\ mode' = "killed" /\ file' = CloseFile(file)
  /\ handle' = [a \in Page |-> NoFrame]
  /\ UNCHANGED <<frames, cursor>>

\* A new process: static memory is zero, and init_buffer_pool opens the file.
Start ==
  /\ ~Running
  /\ mode' = "up" /\ file' = OpenFile(file)
  /\ addrs' = [f \in Frame |-> NoAddr]
  /\ data' = [f \in Frame |-> Zero]
  /\ cnt' = [f \in Frame |-> FreshCnt]
  /\ ref' = [f \in Frame |-> 0]
  /\ cursor' = 0
  /\ UNCHANGED handle

-----------------------------------------------------------------------------
Init ==
  /\ mode = "up"
  /\ file = [length |-> 0, size |-> 0, disk |-> [a \in Page |-> Zero]]
  /\ addrs = [f \in Frame |-> NoAddr]
  /\ data = [f \in Frame |-> Zero]
  /\ cnt = [f \in Frame |-> FreshCnt]
  /\ ref = [f \in Frame |-> 0]
  /\ handle = [a \in Page |-> NoFrame]
  /\ cursor = 0

Get(a) == a \notin Held /\ (GetHit(a) \/ (\E f \in Frame : GetMiss(a, f)) \/ GetRefused(a))

Next ==
  \/ \E a \in Page : Get(a) \/ Release(a) \/ (\E v \in Val : Write(a, v))
  \/ DropLast
  \/ BeginClose \/ CloseFrame \/ EndClose
  \/ Kill \/ Start

Spec == Init /\ [][Next]_vars

-----------------------------------------------------------------------------
(* Safety *)

\* No page is in two frames: get_page's hit loop, release and the drop idiom
\* each stop at, or keep, one match, so a second copy would lose writes.
NoAlias ==
  Running =>
    \A f, g \in Frame : addrs[f] = addrs[g] /\ addrs[f] # NoAddr => f = g

\* As long as the caller holds a page, the pointer get_page gave it leads to
\* that page: neither eviction, nor dropping another page, nor a release of
\* another page takes the frame away.
PointersStayValid == \A a \in Held : addrs[handle[a]] = a

\* A frame is pinned exactly while the caller holds its page: no pin is lost
\* early, and none outlives the caller's interest and shrinks the pool.
PinsMatchPointers ==
  mode = "up" => \A f \in Frame : ref[f] = 1 <=> \E a \in Held : handle[a] = f

\* Cached pages are pages of the file, so the unchecked write_page calls of
\* get_page and close_buffer_pool are never refused and never append.
CachedInFile ==
  Running =>
    /\ file.length <= file.size
    /\ \A f \in Frame : addrs[f] # NoAddr => addrs[f] < file.length

\* Ages order the occupied frames totally by last use, so the victim of
\* get_page is the least recently used page and never an accident of position.
AgesDistinct ==
  Running =>
    \A f, g \in Frame :
      addrs[f] # NoAddr /\ addrs[g] # NoAddr /\ cnt[f] = cnt[g] => f = g

-----------------------------------------------------------------------------
(* The pool implements PageStore: what a page contains is what its frame    *)
(* contains if it is cached, and what is on disk otherwise.                 *)

StoreLength == IF Running THEN file.length ELSE file.size

StoreContent ==
  [a \in 0 .. StoreLength - 1 |->
     IF Running /\ Caching(a) # {} THEN data[Least(Caching(a))] ELSE file.disk[a]]

Store == INSTANCE PageStore
           WITH length <- StoreLength, content <- StoreContent, held <- Held

\* Whatever the pool evicts, reloads, drops and writes back, the pages read
\* through get_page are the pages last written, across an orderly stop too.
ImplementsPageStore == Store!Spec
=============================================================================
