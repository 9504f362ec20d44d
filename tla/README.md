# MyJQL in TLA+

MyJQL is a small key-value database: `get`, `set` and `del` over three paged
files (records, strings, index), each behind a buffer pool, with a free-space
map per data file, a B+ tree over the keys, a threaded TCP server and a client
library. This directory holds its TLA+ models, the TLC runs that check them and
the TLAPS proofs about them.

## Inventory

| part | source | state | operations | what makes it correct |
|---|---|---|---|---|
| page file | `src/file_io.c` | `FileInfo.length`, the bytes on disk | `open_file`, `close_file`, `read_page`, `write_page` | pages are overwritten or appended at the end, nothing else |
| buffer pool | `src/buffer_pool.c` | 8 frames: `addrs`, `cnt`, `ref`, contents | `get_page`, `release`, init, close; callers also drop the last page by hand | one frame per page, pointers stay valid while pinned, LRU, no store lost |
| free-space map | `src/hash_map.c` | per data file: directory of 128 chains by free size, blocks of 13 entries, list of free blocks | `hash_table_insert`, `_pop`, `_pop_lower_bound` | every data block in one chain exactly once, no block lost or used twice |
| slotted block | `src/block.c` | one page: header, item ids, items from the tail | `new_item`, `get_item`, `delete_item` | items keep their index and content while others come and go; no hole, no overlap |
| table | `src/table.c` | data blocks and their free-space map | `table_read`, `table_insert`, `table_delete` | every block is filed once, under the room it has; a row is read back as it was written |
| strings | `src/str.c` | chains of chunk records | write, read, compare, delete | a chain is read back as written and freed whole; both comparisons are the same order |
| index | `src/b_tree.c` | B+ tree in pages, list of free nodes | search, insert, delete | sorted, balanced, filled; the records its rows refer to exist, and no others |
| store | `src/myjql.c` | index, records, strings | `myjql_get`, `_set`, `_del`, init, close | a map from keys to values that survives an orderly stop |
| server | `main/myjqlserver.c` | a thread per client, one mutex, a SIGINT handler | accept, receive, execute, reply, exit | requests are atomic, every request is answered, an orderly stop loses nothing |
| client driver | `driver/myjqlclient.cpp` | a socket | get, set, del, exit | request and reply stay paired |
| shell | `main/myjqlshell.cpp` | none | a console loop over the driver | - |

The store calls the index, the strings and the tables; the index and the tables
call buffer pools, one per file; the server calls the store under one mutex, and
its signal handler takes the same mutex. Failure comes in as a client that
disconnects, a signal at any moment, and a process that ends without closing its
pools. There is no log: durability is `close_buffer_pool`, nothing else.

## Modules and the code they stand for

| module | stands for | its state |
|---|---|---|
| `FileIO` | `file_io.c`: operators on a file record | `length` (in memory), `size` and `disk` |
| `BufferPool` | `buffer_pool.c` over `FileIO`, with its callers' habits | the four arrays, the pointers callers hold (`handle`), the loop of `close_buffer_pool` (`cursor`) |
| `PageStore` | what a pool promises: pages, and no cache | page contents, pages held |
| `FreeSpaceMap` | `hash_map.c` | directory, blocks, free list, file length in memory and on disk, pages left pinned |
| `FreeSpace` | what the map promises: a set of (size, block) with best-fit removal | the entries, the last call |
| `SlottedBlock` | `block.c`: operators on a block | ids, head, tail, bytes |
| `Table` | `table.c` over `SlottedBlock` and `FreeSpace` | blocks, the file's length, the map's entries, the last call |
| `Rows` | what a table, and `str.c`, promise: rows that stay under their RID | the rows, the last call |
| `Strings` | `str.c` over the rows of a table, and the comparisons of `myjql.c` | chunks, the strings held, the loop in progress, the last call |
| `BTree` | `b_tree.c` and what `myjql.c` does around it | nodes, root, the records that exist (`live`), the loop in progress (`job`) |
| `Index` | what `b_tree.c` and `myjql.c` promise each other | rows stored, copies, what the handlers are still to do |
| `MyJQL` | `myjql.c` over `Index` and two `Rows` | strings, records, the index, the call and its local variables, the files |
| `KeyValue` | what `myjql.h` promises: a map | the map, the last call |
| `NodePages` | `get_new_BNode`, `release_new_BNode` and the pages of the index file | the queue of free pages, the file's length, the pages the tree has |
| `Server` | `myjqlserver.c` on Linux | one `worker` per client, one `handler` per thread, the mutex, the streams, the store in memory and on disk |
| `Clients` | `Server` with `myjqlclient.cpp` as the shell calls it | per client: the request it waits for and what it made of the last reply |
| `Service` | what clients may rely on | the map, requests, answers |
| `BufferPoolProofs`, `FreeSpaceMapProofs`, `TableProofs`, `StringsProofs`, `BTreeProofs`, `MyJQLProofs`, `ClientsProofs` | theorems about the module they are named for, `BTreeProofs` about `NodePages` and `ClientsProofs` about `Server` too | - |
| `SearchTrees` | the theory of search trees that `BTreeProofs` rests on | - |

The abstract modules meet in the middle: `hash_map.c` is shown to be a
`FreeSpace`, on which `Table` is built; `Table` is shown to be `Rows`, on which
`Strings` and `MyJQL` are built; `Strings` is `Rows` again, of whole strings, and
`BTree` is an `Index`: with these `MyJQL` is a `KeyValue`, and the pages below
all of them are a `PageStore`.

The modules whose names begin with `MC` are instances for TLC. A definition called a mutant in its comment is a plausible mistake in the
code beside it; putting it in the place of the original makes TLC find a
property violated, which shows that the property depends on that code.

### Buffer pool

`Get(a)` is `get_page`: `GetHit`, `GetMiss` (victim written back, page read or
appended) or `GetRefused` (all frames pinned, `NULL`). The ages follow the code:
one loop ages every occupied or empty frame but the one found. `Write` is a
store through a pointer that `get_page` returned; `DropLast` is the idiom of
`hash_map.c:245-257` and `b_tree.c:815-824`, which empties a frame by hand and
shortens the file in memory only. Closing is one step per frame, and a process
may be killed between any two steps and started again on the file it left.

The caller is modelled as disciplined: it writes through a pointer only until it
releases the page, and holds one pointer per page. This is how `hash_map.c`,
`b_tree.c` and `table.c` use the pool, but for one path of `hash_map.c` (below).

Run `pool` shows that a page is in one frame at most, that a pointer keeps
leading to its page while it is pinned, that pins are exactly the pointers held,
that the page which loses its frame is the least recently used of the unpinned
ones (a history variable keeps which of two cached pages was asked for longer
ago), and that the whole is a `PageStore`: what was stored is what is read,
before and after eviction and after an orderly restart. Two frames, three pages
and two contents are the smallest numbers with which a miss must choose, an
unpinned page can be older or younger than a pinned one, and a page can come
back in the other frame. `MaxCnt` bounds the ages; reaching it stops further
calls, and 4 leaves room for every order of two frames.

### Free-space map

Each call is one step over the contents of the file's pages: the pool has been
shown to be invisible, and calls do not overlap (the server's mutex). `Insert`
splits by the code's three branches (empty chain, room in a block of the chain,
new block behind the last), `Remove` and `PopLowerBound` by what becomes of the block that
lost an entry (kept, last of its chain, unlinked, cut off with the file, or put
on the free list). The list of free blocks is itself kept in blocks, which list
themselves first. What a loop over a chain visits (`Walk`, `Seen`) is the least
set that holds where the loop starts and follows the links, which says the same
as a recursion along the chain and leaves the proofs without one; so do `Free`
in `NodePages` and `Chain` in `Strings`. That the loop ends is that the set has
a block without a successor (`ChainsApart`).

Run `free_space` shows that chains and free list never share a block, that every
table is packed (which the removals assume), that no page is lost but to a
search that finds nothing and to a restart (`NothingElseLost`), and that the map is a set with best-fit
removal. Two directory pages of two slots, blocks of two entries, four data
blocks and seven pages give chains of two blocks in two chains at once, a free
list that needs a second block, and searches that run past the directory. The
data blocks are interchangeable, hence the symmetry; no liveness is checked.

### B+ tree

A row is a record; rows of nonleaf nodes are copies of a key's record made by
`insert_handler`. A leaf is changed in one step; the loops that carry a split or
a merge upwards take one step per iteration, so that what an iteration leaves
behind for the next is visible to the invariants. `live` is the record table as
far as the index is concerned: `myjql.c` writes and deletes the records of
stored keys, the handlers those of copies.

`myjql.c` never inserts a key that is present or deletes one that is absent;
the model does not enumerate these. A new node gets the least page not in use:
the code never compares pages, so which one it is makes no difference to the
tree. `NodePages` is the allocator, with the tree as a caller that may give back
any page but its last.

A borrowing between leaves replaces the separator in two steps, as the code calls
`delete_handler` and then `insert_handler`: between the two the parent refers to
a record that is gone, the only moment at which a row does (`BeingReplaced`).

Run `b_tree`: degree 2 and seven keys, in which every branch of both loops
occurs at leaves and above. Nine nodes are never all in use, so the bound on
nodes excludes nothing. It also shows that the tree is an `Index`: a call adds or
removes its own row, and asks the handlers for one copy, one deletion, or a
deletion and then a copy. `MaxCopies` is 2; a third copy of a key at one time
would stop TLC with an error (no least number is left), as would a tenth node,
so the run also shows that both bounds are enough.

Run `b_tree_tall` uses the program's own degree, 3, where the two halves of a
split differ and a node may have spare rows. It starts from two trees of three
levels that a script of calls builds: 29 rising keys, which leave the right
node and the last leaf full, and 21 rising keys with seven deletions, which
leave nodes with as few rows as they may have. Any three calls follow, so that
splits, borrowings and merges run through an inner node that is neither leaf nor
root, and the loops are shown to end.

Run `node_pages`: seven pages, restarts at any point; the queue of free pages
is intact from head to tail, apart from the tree's pages, and loses only what a
restart brings back.

### Blocks and tables

`SlottedBlock` works on the bytes of one page: `NewItem` takes the first
available id or a new one and writes the item below the tail; `DeleteItem` moves
the bytes between the tail and the hole up over it and corrects the ids of the
items that moved. Indices are C's. Bytes nobody may read are `Nil`, so reading
one would show.

`Insert` is `table_insert`: the map offers a block, which leaves it, or a block
is appended; either way the block is filed under the room that is left, which
depends on whether it has an id to reuse. `Delete` is `table_delete`, which looks
for the block under the room it computed before. `table.c` writes the formula
out three times; it is one operator here, `Room`, and `FiledUnderRoom` is what
goes wrong if they disagree.

Run `table`: two blocks of 14 bytes with a header and ids of 2 bytes each, and
three items of two lengths whose bytes are all different. A block holds up to
three items, so that a hole occurs at every place among them, ids are reused out
of order, the last id is given up while an earlier one is available, and a block
is full to the byte. A row never moves to another RID, and is read as it was
written.

### Strings

A string is a chain of chunks, rows of a table, written last chunk first. Writing
and deleting take a step per chunk; reading, loading, measuring and comparing are
operators on a reader (`StringRecord`), a chunk and a place in it. `CompareKey` is
`rid_ptr_row_cmp`, which loads two characters more than the key has.

Run `strings`: chunks of two characters, and eight strings of no, one, two and
three chunks, among them prefixes of each other that end within and at the end
of a chunk, over six RIDs (interchangeable, hence the symmetry): enough for three
strings at a time, deleted in any order. The search of the tree compares a key by
`CompareKey` and its order is that of `Compare`; that both are the order of
strings is what `BTree` and `MyJQL` rest on.

### Store

`MyJQL` has a step for every write to the index, the records or the strings,
whether a call makes it or a handler; the calls of the handlers fall where the
index asks for them. A row of the index is compared by reading its record and
then its key: `AlwaysComparable` says that both are there at every step but for
the copy a handler is deleting. `myjql_set` of a key that exists takes it out of
the index, writes the value and the record anew, and puts it back; the refinement
maps what the map holds meanwhile to the value being set, since no other call
runs. A row's RID is the least one free, which is a freed one whenever there is
one: the choice under which a reference that is kept too long leads to a wrong
row soonest.

Run `myjql`: two keys, two values, five records and nine strings, with an orderly
stop and start between any two calls. Two keys with a copy each need four
records, and a call one or two more while it runs. `Index` allows every
insertion and deletion to want a copy or a deletion, whatever the tree's shape,
so that all orders in which the handlers can be called occur with these few keys;
the five records bound only how many copies there are at once (`Room`, and the
guard in `InsertRow`).

### Server and clients

A `worker` is the local state of `InstanceThread` (`pc` is where it waits).
`code` is one variable in the program, used for commands, lengths and replies,
and so it is here. Fields travel in order and whole: a length and its bytes are
one field. `recv` returning 0 (`Ended`) changes nothing and is not noticed, as
in the code; what unfilled memory holds is chosen among the strings of that
length and `Other`. A `handler` is `exit_nicely` on top of the thread the
signal interrupted, which does not run meanwhile: Linux delivers the signal to
main unless main is in the handler, where it is blocked, and then to any other
thread. After `myjql_close` a call works on what is left in memory and may end
the process. A send after the reset arrived ends the process by SIGPIPE.

Run `service` checks two polite clients with two requests each of every outcome
against `Service`: linearizable requests, each answered with what the store said
at that moment, the streams in step after every reply, error replies included.
Lengths 1, 2, 4 and 6 with a limit of 5 are chosen so that a length can be
mistaken for a command, for none, or be too long.

Run `stop` adds a client that may leave in the middle and ctrl + c, once or
twice at any moment. Never are two threads, or a thread and a handler, inside
the store; after one signal the server stops; a client that waits hears
something (unless ctrl + c is pressed a second time, see below).

Fairness: threads that can run do run (the scheduler), a client takes a reply
that has arrived, and resets are delivered (the network). Weak fairness of a
client's thread is enough for the mutex, although pthread mutexes promise no
order, because clients ask finitely often in the model: nobody can be overtaken
for ever. Nothing is assumed of signals or of clients' asking.

These runs do not check for deadlock: a server whose clients are all quiet waits
in `recv` and `accept`, as it should. All others check it.

## What the models found

Each is a run that TLC must find violated.

- `stop_loses`: `exit_nicely` unlocks between `myjql_close` and `exit`; a set
  that waited for the mutex runs on the closed store, is acknowledged, and is
  gone.
- `only_requested`: after a client has left, `recv` returns 0 and the thread
  executes the stale code as a command: after an acknowledged set, another set,
  of one unfilled byte. A code above 3 makes the thread spin.

Seen while modelling, and part of the models without a run of their own:

- a best-fit search that finds nothing (`hash_map.c:121-133`) leaves the page
  behind the directory pinned, and appends a page if the file ends there
  (`PopNothing`; `pinned` and `NothingElseLost` in `FreeSpaceMap` allow for it;
  `test_hash_map.c:20` expects all 8 frames to stay free);
- ctrl + c pressed twice: the first handler, on main, waits for a thread inside
  the store; the second lands on that thread, which then waits for the mutex it
  owns, and the server never ends (hence `OneSignalStops` speaks of one);
- a page appended by `get_page` holds what its frame held, although
  `buffer_pool.c:103-104` says it is filled with 0 (`GetMiss`);
- `FileInfo.length` is not the length of the file once a page was dropped, and
  the next start brings the page back (`DropLast`, `Reopen`);
- a driver whose server is gone takes the length it sent last for the reply, so a
  set of a one-byte value returns as if done (`HearEnd`).

## What is proved

TLAPS checks every proof; nothing is assumed but the `ASSUME`s on constants,
which TLC evaluates in the runs: a pool has a frame, bounds are numbers, there
are finitely many RIDs, and values that stand for "none" are not among the
values they are told from (`Nil` is no page, RID, client or request, `NoPage` no page,
a call of the map is not `Nil`, `Main` is no client). For each modelled component
there is one inductive invariant, from which the properties of the runs follow.

| module | theorem about | properties of the runs it states |
|---|---|---|
| `BufferPoolProofs` | every number of frames, pages, contents | `TypeOK`, `NoAlias`, `PointersStayValid`, `PinsMatchPointers`, `EvictsLeastRecentlyUsed`, `ImplementsPageStore` |
| `FreeSpaceMapProofs` | every size of directory, block and file | `TypeOK`, `ChainsApart`, `FreeListSound`, `TablesPacked`, `NothingElseLost`, `ImplementsFreeSpace` |
| `TableProofs` | every page layout, set of rows, number of blocks | `BlocksTiled`, `FiledUnderRoom`, `ImplementsRows` |
| `StringsProofs` | every chunk length and set of strings | `ChunksOwned`, `ComparesInOrder`, `ImplementsRows` |
| `MyJQLProofs` | every set of keys, values and RIDs | `AlwaysComparable`, `NothingLeaks`, `ImplementsKeyValue` |
| `BTreeProofs` | every degree, set of keys and pages | `TypeOK`, `ParentsKnown`, `Filled`, `Balanced`, `SearchFinds`, `RecordsMatch`, `ImplementsIndex` |
| `BTreeProofs` on `NodePages` | every length of the file | `PagesTypeOK`, `QueueSound`, `HeldApart`, `NothingElseLost` |
| `ClientsProofs` | every number of clients, requests, signals | `StoreExclusive`, `DriverTypeOK`, `InStep`, `ImplementsService` |

So what `table.c` takes from the map, and what `myjql.c` takes from its tables and
from the index, is proved of the modules below them. Every invariant, action
property and refinement that a passing run checks is a theorem here.

`BufferPoolProofs`. The invariant is the conjunction of the properties with
`CachedInFile`, `AgesDistinct` and two facts about stopping: `Stopped` (no pointer
survives the running pool, and a pool that is not running has no length) and
`Flushed` (the frames `close_buffer_pool` has passed agree with the disk). They
need each other: a miss may reuse a frame because pins are exactly the pointers
held; that its write-back goes to the right page needs `NoAlias` and
`CachedInFile`; that a restart finds everything needs `Flushed`, which
`CloseFrame` extends frame by frame. `Eviction` adds to them that the ages agree with
the history of `MCBufferPool` (`OlderIsAge`): every call of `get_page` makes its page
the youngest and every other older by one, refused calls included, so the order
of two ages is the order of two calls. The refinement maps a page's content to its
frame's if it is cached and to the disk's otherwise; each step is then a step of
`PageStore` or a stutter, and eviction and write-back are stutters because of
`NoAlias`.

`FreeSpaceMapProofs`. The free list is treated as one chain more, under the
number -1. The invariant, `Stored`, is that links and starts are `Apart` (every chain
ends, no two starts are equal, no two blocks link to the same block, none links
to a start), that each block on a chain is `Proper` for it (packed, not empty,
listing data blocks or, on the free list, itself and other blocks), that nothing
is listed twice (`Once`), and that free pages and used blocks are apart and in the
file (`Placed`). `ChainsApart` alone is not inductive: cutting a block out keeps the
other chains only if its predecessor is the one block that leads to it. The
code changes links in four ways, and each has a lemma that says what becomes of
every chain: the first block leaves (`HeadOff`), an inner one is bypassed
(`Bypass`), a block starts a chain (`NewStart`), a block follows the last (`Behind`).
Beside them are the four changes of what blocks list (`Grown`, `Shrunk`,
`Removed`, `Added`). A call is a composition of these, `release_new_hash_block`
included, and in the refinement a block's entry is the number of the chain it
is on.

`TableProofs`. `BlockOK` is what one block keeps: well-formed ids and bytes,
`Sound` (items apart, within the page, above the ids) and `Tight` (no hole).
`NewItemKeeps` and `DeleteItemKeeps` prove that `block.c`'s two operations keep it
and every other item's bytes. The latter rests on two facts: items that lie
apart from the hole end below it or begin above it, so that the ids that are
corrected are those whose bytes move (`BelowOrAbove`), and closing the gap moves
exactly the bytes below it (`ClosedBytes`). `NewItemKeeps` needs room, and that
there is room needs `FiledUnderRoom`: the entry the map offers is the block's own
room. So the invariant of a table is `BlockOK` of every block together with
`FiledUnderRoom`, and that blocks beyond the file's end are as `init_block` will
make them. The refinement follows: a row's content is the bytes of its item.

`StringsProofs`. `Sound` says that every chunk is on the chain of one root, that
chains end, that no two chunks link to the same one (`OneWay`), and which chunks
are full; `JobSound` what the loops of `write_string` and `delete_string` rely on
between two chunks: the chain they are at is nobody's yet or any more, and a
chunk that is written links to one that is not empty.

What the strings say is a function `T`, the text from each chunk on (`Steady`). A
`StringRecord` always has a rest of `T` before it, whose head `next_char` returns and
whose tail it leaves (`ReaderIs`). So each loop of the readers and the comparisons,
a recursive function here, computes something known of `T`: `Size` its length,
`Load` its first characters, `Compare` and `CompareKey` the order of two texts. That
the loop's equation has this solution is shown by cases; that it has no other, by
induction on what is left to read (`Descent`, from the library's theorem that sets
of numbers have a least one). The invariant `Tells` says that `T` is a string at
each stored string, and that the text behind `write_string`'s last chunk is the
rest of what it was given. `InOrder` and `Implementation` follow.

`MyJQLProofs`. The invariant says, for every point in the three calls and the
handlers they reach, who owns what: the records that have a key and those that
have a value (`Keyed`, `Valued`), the strings that a local variable alone refers to
(`Loose`); that all references are distinct and lead to strings that exist and
that no string is without one (`Owns`); what the strings are (`Spelling`, and
`Wording` for those the call in progress handles); that the RIDs reserved for the
rest of the call are free (`Enough`); and what `myjql_close` has saved so far
(`Saved`). `AlwaysComparable` needs all the rest of it, since a row may be compared
while its key's previous record is half deleted. The refinement maps the store
to what `KeyValue`'s map holds once the call in progress is done with.

`SearchTrees` and `BTreeProofs`. The bisection is correct in every node in order (`Bisection`,
`Membership`, `Descends`), and rows put in or taken out where it points leave the
node in order (`Insertion`, `Removal`). The rest is about search trees. A tree is
not walked: it is a set of nodes, each with a level, keys, children, a
parent and a span, the keys a search for which comes by it, and to be a search
tree (`Tree`) is a condition on each node and its children. That two nodes of one
level share no key (`Apart`), that a separator is the least key in every span
below it (`Lowest`) and that no two nonleaf nodes have a key in common (`Distinct`)
follow by least counterexamples. What the loops of `b_tree.c` do to a tree is
joining two neighbours (`JoinTree`) and parting a node (`PartTree`), a borrowing
being a join and a part, and growing and shrinking at the root; each makes a
search tree of a search tree (`Halve`, `Unhalve`), leaves the keys in the leaves as
they are, and adds or removes one separator if it is of a leaf (`HalvedKeys`).

The invariant `IInv` says that in every state some tree `T` is what the nodes show
(`View`). It has a case for each kind of `job`:

- none (`GoodIdle`): the nodes are those of `T`, each has enough rows, and `live` is
  one record per key in a leaf and one copy per separator (`Recs`);
- a split (`GoodSplit`): `T` already has the separator and the right half that the
  parent still lacks; if the root was split, `T` has one more node above it, under
  the name `Nil`, for the root that is missing. The copy may not exist yet;
- a merge (`GoodMerge`): node `at` still has a row, and behind it a child that is no
  node any more, which `T` has lost. The record of the deleted key, which
  `myjql.c` deletes when the call returns, still exists, and so may the copy;
- a replaced separator (`GoodReplace`): one key of node `at` differs from that of
  `T`, and its record may be deleted.

The properties that the runs check are not inductive without it: that the next
iteration finds its place in the parent, and that the node there is not full or
too empty, depends on the whole tree. `SearchTree` has one lemma per branch of the
two loops (`MergeStepGood`, `DeleteGood` and their like put them together), which
names the tree after the step. `IInv` quantifies over all trees and
so is not a formula TLC can evaluate; runs `b_tree` and `b_tree_tall` check what
follows from it.

What follows is `TypeOK`, `ParentsKnown`, `Filled`, `RecordsMatch`, and two properties
stated with recursive functions. `LeafFor`, which a search goes by, and the
`depth` and `fits` of `Balanced` are shown to have one solution, namely what the
tree says (where a key's span leads, levels, spans), by induction on the level
(`Descent`). The refinement maps the leaves' rows and the copies in `live` to those
of `Index`; an iteration that only moves rows is a stutter because `T` keeps its
keys.

The last part of `BTreeProofs` is about `NodePages`. The queue is kept three times
(head and links, tail, count). To the properties the invariant (`QueueInv`) adds
`OneWay`: no two pages link to the same one, and none to the head. Without it a
page taken from the head might still be linked to.

`ClientsProofs`. That the owner of the mutex is inside the store (`Exclusion`) is not
inductive: a handler's unlock must not be the unlock of a call below it on the
same thread. The invariant adds that a thread inside a call has at most a handler
that still waits.

`InTurn` follows a request through streams and locals: it is on
its way (the fields the server has not read are the rest of what was sent), or
pending (read, and in the server's variables), or answered (the fields yet to be
sent and those in the stream are together one possible answer). A client that
left is the exception, and what it may leave behind is bounded by `LeftOver`,
which is why the next two theorems hold of impolite clients as well. `Framing`
says `InStep` as long as the process is up, and for signals too: a process that
stops leaves requests in the streams, which is what `Framing` excludes and
`InStep` does not, and no run checks `InStep` where signals are allowed. For
`InStepAlways` and `Implementation` the hypotheses are those of run `service`,
`MaxSignals = 0` and `Impolite = {}`, for any number of clients and requests: with a
signal or a client that leaves, the two findings above refute the latter.

## What is model-checked only

Liveness (`CallsReturn`, `EveryRequestAnswered`, `OneSignalStops`), which rests on
fairness and so on `ENABLED`.

One limit of the prover shaped the models. The library's induction rules, which
take a predicate, cannot be instantiated. Where a least set says the same as a
recursion (`Seen`, `Free`, `Chain`) it takes its place; where it does not, in
`Strings`, the recursive function has one argument and the proof goes through a
least counterexample.

## What is not modelled

- Failures of file operations, whose results the code ignores, and stdio's
  buffer between `fwrite` and the disk.
- A store opened after a process was killed: the code has no recovery to be
  checked, and the pool's kill shows what is left.
- `recv` returning part of a length or a string; the driver's "incomplete
  response" arises from it.
- The Windows branch, failing `accept` and `pthread_create`, `SIGINT` before the
  accept loop, and the C library inside the handler.
- Parsing of a shell line, tests, build files.

## Plan

Done: every component from the page file to the store is modelled, the abstract
modules connect them, and all their safety properties are proved. What would add
most next is a byte-level stream between `Server` and `Clients`, with partial
receives: the driver's "incomplete response", and what a later call reads after it,
arise there.
