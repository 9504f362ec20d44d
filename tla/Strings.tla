------------------------------- MODULE Strings -------------------------------
(***************************************************************************)
(* str.c: strings as chains of chunks, which are rows of a table (Rows),   *)
(* and the comparisons of myjql.c that read them.  Writing and deleting    *)
(* take a step per iteration of their loops; reading changes nothing but   *)
(* the reader's StringRecord and is a matter of operators.                 *)
(***************************************************************************)
EXTENDS Integers, Sequences, FiniteSets, Functions

CONSTANTS Rid,      \* RIDs of the string table
          MaxLen,   \* STR_CHUNK_MAX_LEN
          Str,      \* strings: sequences of numbers
          Nil       \* -1

ASSUME MaxLenAssumption == MaxLen \in Nat \ {0}
ASSUME StrAssumption    == \A s \in Str : s \in Seq(Int)
ASSUME NilAssumption    == Nil \notin Rid

VARIABLES rows,  \* the chunks in the table, by RID
          held,  \* strings that have been written and not deleted, by their RID
          job,   \* the loop of write_string or delete_string in progress
          call   \* the last call: what it was asked and returned

vars == <<rows, held, job, call>>

Char == UNION {{s[i] : i \in DOMAIN s} : s \in Str}

\* How many chunks a string takes: one at least.
Chunks(s) == IF s = <<>> THEN 1 ELSE (Len(s) - 1) \div MaxLen + 1

Idle             == [kind |-> "none"]
Writing(s, i, r) == [kind |-> "write", str |-> s, left |-> i, rid |-> r]
Deleting(r)      == [kind |-> "delete", rid |-> r]

TypeOK ==
  /\ DOMAIN rows \subseteq Rid
  /\ \A r \in DOMAIN rows :
       rows[r].next \in Rid \cup {Nil} /\ rows[r].data \in Seq(Char) /\ Len(rows[r].data) <= MaxLen
  /\ held \subseteq DOMAIN rows
  /\ \/ job = Idle
     \/ \E s \in Str, r \in Rid \cup {Nil} : \E i \in 1 .. Chunks(s) : job = Writing(s, i, r)
     \/ \E r \in Rid : job = Deleting(r)

Table == INSTANCE Rows WITH Row <- Str

-----------------------------------------------------------------------------
(* Reading.  A StringRecord is a chunk and a place in it.                   *)

StringRecord == [chunk : Range(rows), idx : Nat]

\* read_string
Read(r) == [chunk |-> rows[r], idx |-> 0]

InChunk(rec) == rec.idx < Len(rec.chunk.data)

\* has_next_char
HasNext(rec) == InChunk(rec) \/ rec.chunk.next # Nil

\* next_char: the character, and the record after it.
NextChar(rec) ==
  IF InChunk(rec) THEN rec.chunk.data[rec.idx + 1] ELSE rows[rec.chunk.next].data[1]

\* Mutant of Advance: the character that led into a chunk is read again.
AdvanceTwice(rec) ==
  IF InChunk(rec) THEN [rec EXCEPT !.idx = @ + 1] ELSE Read(rec.chunk.next)

Advance(rec) ==
  IF InChunk(rec) THEN [rec EXCEPT !.idx = @ + 1]
                  ELSE [Read(rec.chunk.next) EXCEPT !.idx = 1]

\* load_string: p is the record and what was read before it.
Load(rec, max) ==
  LET load[p \in StringRecord \X Seq(Char)] ==
        IF HasNext(p[1]) /\ Len(p[2]) < max
          THEN load[<<Advance(p[1]), Append(p[2], NextChar(p[1]))>>]
          ELSE p[2]
  IN  load[<<rec, <<>>>>]

\* get_string_size, which also takes the record back to its root.
Size(r) ==
  LET from[q \in DOMAIN rows] ==
        Len(rows[q].data) + (IF rows[q].next = Nil THEN 0 ELSE from[rows[q].next])
  IN  from[r]

\* A string as insert_handler reads it.
Text(r) == Load(Read(r), Size(r) + 1)

\* compare_string_record, of the strings at two RIDs (rid_row_row_cmp).
Compare(p, q) ==
  LET compare[at \in StringRecord \X StringRecord] ==
        IF HasNext(at[1]) /\ HasNext(at[2])
          THEN IF NextChar(at[1]) > NextChar(at[2]) THEN 1
               ELSE IF NextChar(at[1]) < NextChar(at[2]) THEN -1
               ELSE compare[<<Advance(at[1]), Advance(at[2])>>]
          ELSE IF HasNext(at[1]) THEN 1 ELSE IF HasNext(at[2]) THEN -1 ELSE 0
  IN  compare[<<Read(p), Read(q)>>]

\* The first place where t and s differ, or the end of the shorter one.
Meet(t, s) ==
  LET meet[i \in Nat] == IF i < Len(t) /\ i < Len(s) /\ t[i + 1] = s[i + 1] THEN meet[i + 1] ELSE i
  IN  meet[0]

\* Mutant of CompareKey: no more is loaded than the key is long.
CompareKeyShort(t, r) ==
  LET s == Load(Read(r), Len(t))
      i == Meet(t, s)
  IN  IF i < Len(t) /\ i < Len(s) THEN IF t[i + 1] > s[i + 1] THEN 1 ELSE -1
      ELSE IF Len(t) > Len(s) THEN 1 ELSE IF Len(t) < Len(s) THEN -1 ELSE 0

\* rid_ptr_row_cmp: key t against the string at r, of which two characters
\* more than t has are loaded.
CompareKey(t, r) ==
  LET s == Load(Read(r), Len(t) + 2)
      i == Meet(t, s)
  IN  IF i < Len(t) /\ i < Len(s) THEN IF t[i + 1] > s[i + 1] THEN 1 ELSE -1
      ELSE IF Len(t) > Len(s) THEN 1 ELSE IF Len(t) < Len(s) THEN -1 ELSE 0

-----------------------------------------------------------------------------
(* Writing and deleting.                                                    *)

\* write_string is called.  (The table has room for the string: a bound.)
BeginWrite(s) ==
  /\ job = Idle
  /\ Cardinality(Rid \ DOMAIN rows) >= Chunks(s)
  /\ job' = Writing(s, Chunks(s), Nil)
  /\ UNCHANGED <<rows, held, call>>

\* The part of a string that goes into chunk i: the last one takes the rest.
Part(s, i) == SubSeq(s, MaxLen * (i - 1) + 1, IF i = Chunks(s) THEN Len(s) ELSE MaxLen * i)

\* An iteration: the chunks are written last one first, each pointing to the
\* one written before; the RID of the first is returned.
WriteChunk(r) ==
  /\ job.kind = "write"
  /\ r \in Rid \ DOMAIN rows
  /\ rows' = Table!With(rows, r, [next |-> job.rid, data |-> Part(job.str, job.left)])
  /\ IF job.left > 1
       THEN job' = Writing(job.str, job.left - 1, r) /\ UNCHANGED <<held, call>>
       ELSE job' = Idle /\ held' = held \cup {r} /\ call' = <<"insert", job.str, r>>

\* Mutant of GoOn: the last chunk is left.
GoOnShort(r) == job' = IF r = Nil \/ rows[r].next = Nil THEN Idle ELSE Deleting(r)

\* The loop of delete_string ends behind the chunk without a next one.
GoOn(r) == job' = IF r = Nil THEN Idle ELSE Deleting(r)

\* delete_string of a string that exists, with its first iteration.
BeginDelete(r) ==
  /\ job = Idle /\ r \in held
  /\ rows' = Table!Without(rows, r)
  /\ held' = held \ {r} /\ call' = <<"delete", r>>
  /\ GoOn(rows[r].next)

DeleteChunk ==
  /\ job.kind = "delete"
  /\ rows' = Table!Without(rows, job.rid)
  /\ GoOn(rows[job.rid].next)
  /\ UNCHANGED <<held, call>>

-----------------------------------------------------------------------------
Init ==
  /\ rows = [r \in {} |-> Nil] /\ held = {}
  /\ job = Idle /\ call = Nil

Next ==
  \/ \E s \in Str : BeginWrite(s)
  \/ \E r \in Rid : WriteChunk(r) \/ BeginDelete(r)
  \/ DeleteChunk

Spec == Init /\ [][Next]_vars

-----------------------------------------------------------------------------
\* The chunks of the string at r: those the links lead to from r.
Continues(S) == \A q \in S : rows[q].next \in S \cup {Nil}
Chain(r)     == {q \in DOMAIN rows : \A S \in SUBSET DOMAIN rows : r \in S /\ Continues(S) => q \in S}

Roots == held \cup (IF job.kind = "none" \/ job.rid = Nil THEN {} ELSE {job.rid})

\* Every chunk in the table belongs to one string, or to the one being written
\* or deleted, and chains end; all chunks but a string's last are full, and
\* only an empty string has an empty one (next_char takes the first character
\* of a chunk it moves on to without looking at its size).
ChunksOwned ==
  /\ TypeOK
  /\ Roots \subseteq DOMAIN rows /\ Continues(DOMAIN rows)
  /\ \A r \in Roots : \E q \in Chain(r) : rows[q].next = Nil
  /\ \A q \in DOMAIN rows : \E r \in Roots : \A p \in Roots : q \in Chain(p) <=> p = r
  /\ \A r \in DOMAIN rows :
       /\ rows[r].next # Nil => Len(rows[r].data) = MaxLen
       /\ rows[r].data = <<>> => r \in Roots /\ rows[r].next = Nil

\* x below y in the order of strings: a proper prefix, or less at the first
\* difference.
Below(x, y) ==
  \E n \in 0 .. Len(x) :
    /\ \A i \in 1 .. n : i <= Len(y) /\ x[i] = y[i]
    /\ n < Len(y) /\ (n < Len(x) => x[n + 1] < y[n + 1])

Order(x, y) == IF Below(x, y) THEN -1 ELSE IF x = y THEN 0 ELSE 1

\* Both comparisons, of two stored strings and of a key with a stored string,
\* are the same order, wherever chunks begin and although a key is compared
\* with the beginning of the string only: the tree is searched by one and
\* sorted by the other.
ComparesInOrder ==
  job = Idle =>
    \A r \in held :
      /\ \A q \in held : Compare(r, q) = Order(Text(r), Text(q))
      /\ \A t \in Str : CompareKey(t, r) = Order(t, Text(r))

\* Strings are read back as they were written, until they are deleted, and
\* deleting one disturbs no other.
Heap == INSTANCE Rows WITH Row <- Str, rows <- [r \in held |-> Text(r)]
ImplementsRows == Heap!Spec
=============================================================================
