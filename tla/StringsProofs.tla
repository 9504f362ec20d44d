--------------------------- MODULE StringsProofs ---------------------------
(***************************************************************************)
(* The chunks of the strings in a table, for every length of a chunk and   *)
(* every set of strings.                                                   *)
(*                                                                         *)
(* ChunksOwned says where every chunk belongs; what its preservation needs *)
(* beyond it is that the links neither meet nor lead to the beginning of a *)
(* string (OneWay), so that taking a first chunk away leaves every other   *)
(* chain as it was, and what the loop of write_string knows of the chunk   *)
(* it wrote last (JobSound).  Both loops do one of two things to the       *)
(* table: put a chunk before a chain, or take the first chunk of one off.  *)
(*                                                                         *)
(* What the strings say is a function T, the text from each chunk on       *)
(* (Steady).  A reader always has a rest of T before it (ReaderIs), so the *)
(* recursive readers and comparisons are known by their values on T: each  *)
(* equation has the solution given in closed form, and no other by         *)
(* induction on what is left to read (Descent).  Tells is the invariant: T *)
(* is a string of Str at every stored string, and what write_string has    *)
(* still to write comes before what it has written.                        *)
(***************************************************************************)
EXTENDS Strings, SequenceTheorems, WellFoundedInduction, TLAPS

\* The links neither meet nor lead to the beginning of a string.
OneWay ==
  \A p \in DOMAIN rows :
    /\ rows[p].next \notin Roots
    /\ \A q \in DOMAIN rows : rows[p].next = rows[q].next /\ rows[p].next # Nil => p = q

\* What is being written or deleted is no stored string; the chunk written last
\* is missing in the first iteration only, and it is not empty.
JobSound ==
  /\ job.kind # "none" => job.rid \notin held
  /\ job.kind = "write" => /\ job.left = Chunks(job.str) <=> job.rid = Nil
                           /\ job.rid # Nil => rows[job.rid].data # <<>>

\* ChunksOwned, in parts.
Linked == DOMAIN rows \subseteq Rid /\ Roots \subseteq DOMAIN rows /\ Continues(DOMAIN rows)
Ending == \A r \in Roots : \E q \in Chain(r) : rows[q].next = Nil
Owned  == \A q \in DOMAIN rows : \E r \in Roots : \A p \in Roots : q \in Chain(p) <=> p = r
Filled ==
  \A r \in DOMAIN rows :
    /\ rows[r].next # Nil => Len(rows[r].data) = MaxLen
    /\ rows[r].data = <<>> => r \in Roots /\ rows[r].next = Nil

\* What both loops keep, whatever it is they are doing.
Sound == Linked /\ Ending /\ Owned /\ Filled /\ OneWay

IInv == TypeOK /\ Sound /\ JobSound

-----------------------------------------------------------------------------
(* Arithmetic: the size of a string and of its parts.                       *)

LEMMA ChunksBound ==
  ASSUME NEW s \in Str
  PROVE  /\ Chunks(s) \in Nat \ {0}
         /\ s # <<>> => MaxLen * Chunks(s) - MaxLen < Len(s) /\ Len(s) <= MaxLen * Chunks(s)
         /\ s = <<>> => Chunks(s) = 1
<1>1. s \in Seq(Int) /\ Len(s) \in Nat
  BY StrAssumption
<1>2. CASE s = <<>>
  BY <1>2 DEF Chunks
<1>3. CASE s # <<>>
  <2>1. Len(s) - 1 \in Nat
    BY <1>1, <1>3
  <2>2. PICK n, d : n = Len(s) - 1 /\ d = n \div MaxLen
    OBVIOUS
  <2>3. d \in Nat /\ MaxLen * d <= n /\ n < MaxLen * d + MaxLen
    BY <2>1, <2>2, MaxLenAssumption, SMT
  <2>4. Chunks(s) = d + 1
    BY <1>3, <2>2 DEF Chunks
  <2>5. MaxLen * (d + 1) = MaxLen * d + MaxLen
    BY <2>3, MaxLenAssumption
  <2>. QED  BY <1>1, <1>3, <2>1, <2>2, <2>3, <2>4, <2>5, MaxLenAssumption
<1>. QED  BY <1>2, <1>3

\* What goes into a chunk: as much as fits, but for the last chunk, and nothing
\* at all for the empty string only.
LEMMA PartBound ==
  ASSUME NEW s \in Str, NEW i \in 1 .. Chunks(s)
  PROVE  /\ Part(s, i) \in Seq(Char) /\ Len(Part(s, i)) <= MaxLen
         /\ i < Chunks(s) => Len(Part(s, i)) = MaxLen
         /\ Part(s, i) = <<>> => s = <<>>
<1>1. s \in Seq(Int) /\ Len(s) \in Nat /\ i \in Nat \ {0} /\ Chunks(s) \in Nat \ {0}
  BY StrAssumption, ChunksBound
<1>2. s \in Seq(Char)
  <2>1. \A j \in DOMAIN s : s[j] \in Char
    BY DEF Char
  <2>. QED  BY <1>1, <2>1
<1>3. PICK m, n : m = MaxLen * (i - 1) + 1 /\ n = IF i = Chunks(s) THEN Len(s) ELSE MaxLen * i
  OBVIOUS
<1>4. MaxLen * i \in Nat /\ MaxLen * (i - 1) \in Nat /\ MaxLen * i = MaxLen * (i - 1) + MaxLen
  BY <1>1, MaxLenAssumption
<1>5. Part(s, i) = SubSeq(s, m, n)
  BY <1>3 DEF Part
<1>6. CASE i = Chunks(s)
  <2>1. n = Len(s)
    BY <1>3, <1>6
  <2>2. CASE s = <<>>
    <3>1. i = 1 /\ Chunks(s) = 1 /\ n = 0
      BY <1>6, <2>1, <2>2, ChunksBound
    <3>2. m = 1
      BY <1>3, <3>1, MaxLenAssumption
    <3>3. Part(s, i) = <<>> /\ <<>> \in Seq(Char) /\ Len(<<>>) = 0
      BY <1>5, <2>2, <3>1, <3>2
    <3>4. Part(s, i) \in Seq(Char) /\ Len(Part(s, i)) <= MaxLen
      BY <3>3, MaxLenAssumption
    <3>. QED  BY <1>1, <2>2, <3>1, <3>4
  <2>3. CASE s # <<>>
    <3>1. MaxLen * i - MaxLen < Len(s) /\ Len(s) <= MaxLen * i
      BY <1>6, <2>3, ChunksBound
    <3>2. m \in 1 .. Len(s) /\ n - m + 1 \in 1 .. MaxLen
      BY <1>1, <1>3, <1>4, <2>1, <3>1, MaxLenAssumption
    <3>3. SubSeq(s, m, n) \in Seq(Char) /\ Len(SubSeq(s, m, n)) = n - m + 1
      BY <1>1, <1>2, <2>1, <3>2
    <3>. QED  BY <1>5, <1>6, <2>3, <3>2, <3>3, MaxLenAssumption
  <2>. QED  BY <2>2, <2>3
<1>7. CASE i < Chunks(s)
  <2>1. n = MaxLen * i /\ s # <<>>
    BY <1>1, <1>3, <1>7, ChunksBound
  <2>2. PICK k \in Nat : Chunks(s) = i + 1 + k
    <3>1. Chunks(s) - i - 1 \in Nat /\ Chunks(s) = i + 1 + (Chunks(s) - i - 1)
      BY <1>1, <1>7
    <3>. QED  BY <3>1
  <2>3. MaxLen * Chunks(s) = MaxLen * i + MaxLen + MaxLen * k /\ MaxLen * k \in Nat
    BY <1>1, <2>2, MaxLenAssumption
  <2>4. MaxLen * i < Len(s)
    BY <1>1, <1>4, <2>1, <2>3, ChunksBound, MaxLenAssumption
  <2>5. m \in 1 .. Len(s) /\ n \in 1 .. Len(s) /\ n - m + 1 = MaxLen
    BY <1>1, <1>3, <1>4, <2>1, <2>4, MaxLenAssumption
  <2>6. SubSeq(s, m, n) \in Seq(Char) /\ Len(SubSeq(s, m, n)) = n - m + 1
    BY <1>1, <1>2, <2>5, MaxLenAssumption
  <2>. QED  BY <1>5, <2>1, <2>5, <2>6, MaxLenAssumption
<1>. QED  BY <1>1, <1>6, <1>7

-----------------------------------------------------------------------------
(* Chains.                                                                  *)

\* A chain holds its first chunk and follows the links, and it is the least set
\* that does.
LEMMA ChainFollows ==
  ASSUME Linked, NEW r \in DOMAIN rows
  PROVE  /\ r \in Chain(r) /\ Chain(r) \subseteq DOMAIN rows /\ Continues(Chain(r))
         /\ \A S \in SUBSET DOMAIN rows : r \in S /\ Continues(S) => Chain(r) \subseteq S
<1>1. ASSUME NEW q \in Chain(r), rows[q].next # Nil PROVE rows[q].next \in Chain(r)
  <2>1. rows[q].next \in DOMAIN rows
    BY <1>1 DEF Linked, Continues, Chain
  <2>2. ASSUME NEW S \in SUBSET DOMAIN rows, r \in S /\ Continues(S) PROVE rows[q].next \in S
    BY <1>1, <2>2 DEF Continues, Chain
  <2>. QED  BY <2>1, <2>2 DEF Chain
<1>. QED  BY <1>1 DEF Chain, Continues

\* A chain after a step.
LEMMA ChainIs ==
  ASSUME NEW r, NEW Q, Q \subseteq DOMAIN rows', r \in Q, Continues(Q)',
         \A S \in SUBSET DOMAIN rows' : r \in S /\ Continues(S)' => Q \subseteq S
  PROVE  Chain(r)' = Q
<1>1. Chain(r)' = {q \in DOMAIN rows' : \A S \in SUBSET DOMAIN rows' : r \in S /\ Continues(S)' => q \in S}
  BY DEF Chain
<1>. QED  BY <1>1

\* No chain but its own holds the beginning of a string.
LEMMA RootApart ==
  ASSUME Sound, NEW r \in Roots, NEW p \in Roots \ {r}
  PROVE  r \notin Chain(p)
<1>1. Linked /\ OneWay /\ p \in DOMAIN rows
  BY DEF Sound, Linked
<1>2. Continues(Chain(p) \ {r})
  BY <1>1, ChainFollows DEF Continues, OneWay
<1>. QED  BY <1>1, <1>2, ChainFollows

-----------------------------------------------------------------------------
(* The first chunk is taken off a chain.                                    *)

Drops(r, n) ==
  /\ r \in Roots /\ n = rows[r].next
  /\ rows' = Table!Without(rows, r)
  /\ Roots' = (Roots \ {r}) \cup ({n} \ {Nil})

LEMMA DropRows ==
  ASSUME NEW r, NEW n, Drops(r, n)
  PROVE  /\ DOMAIN rows' = DOMAIN rows \ {r}
         /\ \A q \in DOMAIN rows \ {r} : rows'[q] = rows[q]
BY DEF Drops, Table!Without

LEMMA DropChains ==
  ASSUME Sound, NEW r, NEW n, Drops(r, n)
  PROVE  /\ \A p \in Roots \ {r} : Chain(p)' = Chain(p)
         /\ n # Nil => Chain(n)' = Chain(r) \ {r}
         /\ n = Nil => Chain(r) = {r}
<1>1. Linked /\ OneWay /\ r \in Roots /\ r \in DOMAIN rows /\ n = rows[r].next
  BY DEF Sound, Linked, Drops
<1>2. r \in Chain(r) /\ Chain(r) \subseteq DOMAIN rows /\ Continues(Chain(r))
  BY <1>1, ChainFollows
<1>3. /\ DOMAIN rows' = DOMAIN rows \ {r}
      /\ \A q \in DOMAIN rows \ {r} : rows'[q] = rows[q]
  BY DropRows
<1>4. n # r /\ n \notin Roots /\ (n # Nil => n \in DOMAIN rows)
  BY <1>1 DEF Linked, Continues, OneWay
<1>5. ASSUME NEW p \in Roots \ {r} PROVE Chain(p)' = Chain(p)
  <2>1. p \in DOMAIN rows
    BY <1>1 DEF Linked
  <2>2. PICK Q : Q = Chain(p)
    OBVIOUS
  <2>3. p \in Q /\ Q \subseteq DOMAIN rows /\ Continues(Q) /\ r \notin Q
    BY <1>1, <2>1, <2>2, ChainFollows, RootApart
  <2>4. Q \subseteq DOMAIN rows' /\ Continues(Q)'
    BY <1>3, <2>3 DEF Continues
  <2>5. ASSUME NEW S \in SUBSET DOMAIN rows', p \in S /\ Continues(S)' PROVE Q \subseteq S
    <3>1. S \in SUBSET DOMAIN rows /\ Continues(S)
      BY <1>3, <2>5 DEF Continues
    <3>. QED  BY <1>1, <2>1, <2>2, <2>5, <3>1, ChainFollows
  <2>. QED  BY <2>2, <2>3, <2>4, <2>5, ChainIs
<1>6. ASSUME n # Nil PROVE Chain(n)' = Chain(r) \ {r}
  <2>1. PICK Q : Q = Chain(r) \ {r}
    OBVIOUS
  <2>2. n \in Q /\ Q \subseteq DOMAIN rows'
    BY <1>1, <1>2, <1>6, <1>3, <1>4, <2>1 DEF Continues
  <2>3. Continues(Q)'
    <3>1. ASSUME NEW q \in Q PROVE rows'[q].next \in Q \cup {Nil}
      <4>1. rows'[q] = rows[q] /\ q \in DOMAIN rows /\ q \in Chain(r)
        BY <1>2, <1>3, <2>1
      <4>2. rows[q].next \in Chain(r) \cup {Nil} /\ rows[q].next # r
        BY <1>1, <1>2, <4>1 DEF Continues, OneWay
      <4>. QED  BY <2>1, <4>1, <4>2
    <3>. QED  BY <3>1 DEF Continues
  <2>4. ASSUME NEW S \in SUBSET DOMAIN rows', n \in S /\ Continues(S)' PROVE Q \subseteq S
    <3>1. S \cup {r} \in SUBSET DOMAIN rows /\ Continues(S \cup {r})
      BY <1>1, <1>3, <2>4 DEF Continues
    <3>. QED  BY <1>1, <2>1, <3>1, ChainFollows
  <2>. QED  BY <2>1, <2>2, <2>3, <2>4, ChainIs
<1>7. ASSUME n = Nil PROVE Chain(r) = {r}
  <2>1. {r} \in SUBSET DOMAIN rows /\ Continues({r})
    BY <1>1, <1>7 DEF Continues
  <2>. QED  BY <1>1, <1>2, <2>1, ChainFollows
<1>. QED  BY <1>5, <1>6, <1>7

LEMMA DropSound ==
  ASSUME Sound, NEW r, NEW n, Drops(r, n)
  PROVE  Sound'
<1>1. Linked /\ Ending /\ Owned /\ Filled /\ OneWay
  BY DEF Sound
<1>2. r \in Roots /\ r \in DOMAIN rows /\ n = rows[r].next /\ Roots' = (Roots \ {r}) \cup ({n} \ {Nil})
  BY <1>1 DEF Linked, Drops
<1>3. n # r /\ n \notin Roots /\ (n # Nil => n \in DOMAIN rows)
  BY <1>1, <1>2 DEF Linked, Continues, OneWay
<1>4. /\ DOMAIN rows' = DOMAIN rows \ {r}
      /\ \A q \in DOMAIN rows \ {r} : rows'[q] = rows[q]
  BY DropRows
<1>5. /\ \A p \in Roots \ {r} : Chain(p)' = Chain(p)
      /\ n # Nil => Chain(n)' = Chain(r) \ {r}
      /\ n = Nil => Chain(r) = {r}
  BY DropChains
<1>6. Linked'
  <2>1. Continues(DOMAIN rows)'
    BY <1>1, <1>2, <1>4 DEF Linked, Continues, OneWay
  <2>. QED  BY <1>1, <1>2, <1>3, <1>4, <2>1 DEF Linked
<1>7. Ending'
  <2>1. ASSUME NEW p \in Roots' PROVE \E q \in Chain(p)' : rows'[q].next = Nil
    <3>1. CASE p = n /\ n # Nil
      <4>1. PICK q \in Chain(r) : rows[q].next = Nil
        BY <1>1, <1>2 DEF Ending
      <4>2. q # r /\ q \in DOMAIN rows
        BY <1>2, <3>1, <4>1 DEF Chain
      <4>. QED  BY <1>4, <1>5, <3>1, <4>1, <4>2
    <3>2. CASE p \in Roots \ {r}
      <4>1. PICK q \in Chain(p) : rows[q].next = Nil
        BY <1>1, <3>2 DEF Ending
      <4>2. q # r /\ q \in DOMAIN rows
        BY <1>2, <3>2, RootApart DEF Chain
      <4>. QED  BY <1>4, <1>5, <3>2, <4>1, <4>2
    <3>. QED  BY <1>2, <3>1, <3>2
  <2>. QED  BY <2>1 DEF Ending
<1>8. Owned'
  <2>1. ASSUME NEW q \in DOMAIN rows' PROVE \E o \in Roots' : \A p \in Roots' : q \in Chain(p)' <=> p = o
    <3>1. PICK o \in Roots : \A p \in Roots : q \in Chain(p) <=> p = o
      BY <1>1, <1>4, <2>1 DEF Owned
    <3>2. CASE o # r
      BY <1>2, <1>3, <1>5, <3>1, <3>2
    <3>3. CASE o = r
      <4>1. q \in Chain(r) /\ q # r
        BY <1>4, <2>1, <3>1, <3>3
      <4>2. n # Nil /\ q \in Chain(n)'
        BY <1>5, <4>1
      <4>. QED  BY <1>2, <1>3, <1>5, <3>1, <3>3, <4>2
    <3>. QED  BY <3>2, <3>3
  <2>. QED  BY <2>1 DEF Owned
<1>9. Filled'
  BY <1>1, <1>2, <1>4 DEF Filled
<1>10. OneWay'
  <2>1. ASSUME NEW p \in DOMAIN rows' PROVE rows'[p].next \notin Roots'
    BY <1>1, <1>2, <1>4, <2>1 DEF OneWay
  <2>. QED  BY <1>1, <1>4, <2>1 DEF OneWay
<1>. QED  BY <1>6, <1>7, <1>8, <1>9, <1>10 DEF Sound

-----------------------------------------------------------------------------
(* A chunk is put before a chain, or is a chain of its own.                 *)

Adds(r, n, d) ==
  /\ r \in Rid \ DOMAIN rows /\ n \in Roots \cup {Nil}
  /\ rows' = Table!With(rows, r, [next |-> n, data |-> d])
  /\ Roots' = (Roots \ {n}) \cup {r}
  /\ d = <<>> => n = Nil
  /\ n # Nil => Len(d) = MaxLen /\ rows[n].data # <<>>

LEMMA AddRows ==
  ASSUME NEW r, NEW n, NEW d, Adds(r, n, d)
  PROVE  /\ DOMAIN rows' = DOMAIN rows \cup {r} /\ r \notin DOMAIN rows /\ r # Nil
         /\ \A q \in DOMAIN rows : rows'[q] = rows[q]
         /\ rows'[r] = [next |-> n, data |-> d] /\ rows'[r].next = n /\ rows'[r].data = d
BY NilAssumption DEF Adds, Table!With

LEMMA AddChains ==
  ASSUME Sound, NEW r, NEW n, NEW d, Adds(r, n, d)
  PROVE  /\ \A p \in Roots \ {n} : Chain(p)' = Chain(p)
         /\ n = Nil => Chain(r)' = {r}
         /\ n # Nil => Chain(r)' = Chain(n) \cup {r}
<1>1. Linked /\ OneWay /\ n \in Roots \cup {Nil}
  BY DEF Sound, Adds
<1>2. /\ DOMAIN rows' = DOMAIN rows \cup {r} /\ r \notin DOMAIN rows /\ r # Nil
      /\ \A q \in DOMAIN rows : rows'[q] = rows[q]
      /\ rows'[r].next = n
  BY AddRows
<1>3. ASSUME NEW p \in DOMAIN rows, NEW Q, Q = Chain(p)
      PROVE  /\ p \in Q /\ Q \subseteq DOMAIN rows /\ Continues(Q)'
             /\ \A S \in SUBSET DOMAIN rows' : p \in S /\ Continues(S)' => Q \subseteq S
  <2>1. p \in Q /\ Q \subseteq DOMAIN rows /\ Continues(Q)
    BY <1>1, <1>3, ChainFollows
  <2>2. Continues(Q)'
    BY <1>2, <2>1 DEF Continues
  <2>3. ASSUME NEW S \in SUBSET DOMAIN rows', p \in S /\ Continues(S)' PROVE Q \subseteq S
    <3>1. S \cap DOMAIN rows \in SUBSET DOMAIN rows /\ Continues(S \cap DOMAIN rows)
      <4>1. ASSUME NEW q \in S \cap DOMAIN rows PROVE rows[q].next \in (S \cap DOMAIN rows) \cup {Nil}
        <5>1. rows'[q] = rows[q] /\ rows'[q].next \in S \cup {Nil}
          BY <1>2, <2>3 DEF Continues
        <5>2. rows[q].next \in DOMAIN rows \cup {Nil}
          BY <1>1 DEF Linked, Continues
        <5>. QED  BY <5>1, <5>2
      <4>. QED  BY <4>1 DEF Continues
    <3>. QED  BY <1>1, <1>3, <2>3, <3>1, ChainFollows
  <2>. QED  BY <2>1, <2>2, <2>3
<1>4. ASSUME NEW p \in Roots \ {n} PROVE Chain(p)' = Chain(p)
  <2>1. PICK Q : Q = Chain(p)
    OBVIOUS
  <2>2. p \in DOMAIN rows
    BY <1>1 DEF Linked
  <2>3. /\ p \in Q /\ Q \subseteq DOMAIN rows /\ Continues(Q)'
        /\ \A S \in SUBSET DOMAIN rows' : p \in S /\ Continues(S)' => Q \subseteq S
    BY <1>3, <2>1, <2>2
  <2>4. Q \subseteq DOMAIN rows'
    BY <1>2, <2>3
  <2>. QED  BY <2>1, <2>3, <2>4, ChainIs
<1>5. ASSUME n = Nil PROVE Chain(r)' = {r}
  <2>1. PICK Q : Q = {r}
    OBVIOUS
  <2>2. Q \subseteq DOMAIN rows' /\ r \in Q /\ Continues(Q)'
    BY <1>2, <1>5, <2>1 DEF Continues
  <2>3. \A S \in SUBSET DOMAIN rows' : r \in S /\ Continues(S)' => Q \subseteq S
    BY <2>1
  <2>. QED  BY <2>1, <2>2, <2>3, ChainIs
<1>6. ASSUME n # Nil PROVE Chain(r)' = Chain(n) \cup {r}
  <2>1. PICK Q : Q = Chain(n)
    OBVIOUS
  <2>2. n \in DOMAIN rows
    BY <1>1, <1>6 DEF Linked
  <2>3. /\ n \in Q /\ Q \subseteq DOMAIN rows /\ Continues(Q)'
        /\ \A S \in SUBSET DOMAIN rows' : n \in S /\ Continues(S)' => Q \subseteq S
    BY <1>3, <2>1, <2>2
  <2>4. PICK R : R = Q \cup {r}
    OBVIOUS
  <2>5. R \subseteq DOMAIN rows' /\ r \in R
    BY <1>2, <2>3, <2>4
  <2>6. Continues(R)'
    BY <1>2, <2>3, <2>4 DEF Continues
  <2>7. ASSUME NEW S \in SUBSET DOMAIN rows', r \in S /\ Continues(S)' PROVE R \subseteq S
    <3>1. n \in S
      BY <1>2, <1>6, <2>7 DEF Continues
    <3>. QED  BY <2>3, <2>4, <2>7, <3>1
  <2>8. Chain(r)' = R
    BY <2>5, <2>6, <2>7, ChainIs
  <2>. QED  BY <2>1, <2>4, <2>8
<1>. QED  BY <1>4, <1>5, <1>6

LEMMA AddSound ==
  ASSUME Sound, NEW r, NEW n, NEW d, Adds(r, n, d)
  PROVE  Sound'
<1>1. Linked /\ Ending /\ Owned /\ Filled /\ OneWay
  BY DEF Sound
<1>2. /\ n \in Roots \cup {Nil} /\ Roots' = (Roots \ {n}) \cup {r}
      /\ d = <<>> => n = Nil
      /\ n # Nil => Len(d) = MaxLen /\ rows[n].data # <<>>
  BY DEF Adds
<1>3. /\ DOMAIN rows' = DOMAIN rows \cup {r} /\ r \notin DOMAIN rows /\ r # Nil
      /\ \A q \in DOMAIN rows : rows'[q] = rows[q]
      /\ rows'[r].next = n /\ rows'[r].data = d
  BY AddRows
<1>4. /\ \A p \in Roots \ {n} : Chain(p)' = Chain(p)
      /\ n = Nil => Chain(r)' = {r}
      /\ n # Nil => Chain(r)' = Chain(n) \cup {r}
  BY AddChains
<1>5. Roots \subseteq DOMAIN rows /\ r \notin Roots
  BY <1>1, <1>3 DEF Linked
<1>6. \A p \in DOMAIN rows : rows[p].next \in DOMAIN rows \cup {Nil}
  BY <1>1 DEF Linked, Continues
<1>7. Linked'
  <2>1. ASSUME NEW q \in DOMAIN rows' PROVE rows'[q].next \in DOMAIN rows' \cup {Nil}
    BY <1>2, <1>3, <1>5, <1>6
  <2>2. DOMAIN rows' \subseteq Rid
    BY <1>1, <1>3 DEF Linked, Adds
  <2>. QED  BY <1>2, <1>3, <1>5, <2>1, <2>2 DEF Linked, Continues
<1>8. Ending'
  <2>1. ASSUME NEW p \in Roots' PROVE \E q \in Chain(p)' : rows'[q].next = Nil
    <3>1. CASE p = r /\ n = Nil
      BY <1>3, <1>4, <3>1
    <3>2. CASE p = r /\ n # Nil
      <4>1. PICK q \in Chain(n) : rows[q].next = Nil
        BY <1>1, <1>2, <3>2 DEF Ending
      <4>2. q \in DOMAIN rows
        BY DEF Chain
      <4>. QED  BY <1>3, <1>4, <3>2, <4>1, <4>2
    <3>3. CASE p \in Roots \ {n}
      <4>1. PICK q \in Chain(p) : rows[q].next = Nil
        BY <1>1, <3>3 DEF Ending
      <4>2. q \in DOMAIN rows
        BY DEF Chain
      <4>. QED  BY <1>3, <1>4, <3>3, <4>1, <4>2
    <3>. QED  BY <1>2, <3>1, <3>2, <3>3
  <2>. QED  BY <2>1 DEF Ending
<1>9. Owned'
  <2>1. ASSUME NEW q \in DOMAIN rows' PROVE \E o \in Roots' : \A p \in Roots' : q \in Chain(p)' <=> p = o
    <3>1. CASE q = r
      <4>1. \A p \in Roots \ {n} : q \notin Chain(p)'
        BY <1>3, <1>4, <3>1 DEF Chain
      <4>2. q \in Chain(r)' /\ r \in Roots'
        BY <1>2, <1>4, <3>1
      <4>. QED  BY <1>2, <1>5, <4>1, <4>2
    <3>2. CASE q \in DOMAIN rows
      <4>1. PICK o \in Roots : \A p \in Roots : q \in Chain(p) <=> p = o
        BY <1>1, <3>2 DEF Owned
      <4>2. q # r
        BY <1>3, <3>2
      <4>3. q \in Chain(r)' <=> n # Nil /\ o = n
        <5>1. CASE n = Nil
          BY <1>4, <4>2, <5>1
        <5>2. CASE n # Nil
          BY <1>2, <1>4, <4>1, <4>2, <5>2
        <5>. QED  BY <5>1, <5>2
      <4>4. o # Nil
        BY <1>1, <1>5, <4>1, NilAssumption DEF Linked
      <4>5. CASE o = n
        BY <1>2, <1>4, <1>5, <4>1, <4>3, <4>4, <4>5
      <4>6. CASE o # n
        BY <1>2, <1>4, <1>5, <4>1, <4>3, <4>6
      <4>. QED  BY <4>5, <4>6
    <3>. QED  BY <1>3, <2>1, <3>1, <3>2
  <2>. QED  BY <2>1 DEF Owned
<1>10. Filled'
  <2>1. ASSUME NEW q \in DOMAIN rows, q # n
        PROVE  /\ rows'[q].next # Nil => Len(rows'[q].data) = MaxLen
               /\ rows'[q].data = <<>> => q \in Roots' /\ rows'[q].next = Nil
    BY <1>1, <1>2, <1>3, <2>1 DEF Filled
  <2>2. ASSUME n \in DOMAIN rows, n # Nil
        PROVE  /\ rows'[n].next # Nil => Len(rows'[n].data) = MaxLen
               /\ rows'[n].data # <<>>
    BY <1>1, <1>2, <1>3, <2>2 DEF Filled
  <2>3. /\ rows'[r].next # Nil => Len(rows'[r].data) = MaxLen
        /\ rows'[r].data = <<>> => r \in Roots' /\ rows'[r].next = Nil
    BY <1>2, <1>3
  <2>4. n \in DOMAIN rows => n # Nil
    BY <1>1, NilAssumption DEF Linked
  <2>5. ASSUME NEW q \in DOMAIN rows'
        PROVE  /\ rows'[q].next # Nil => Len(rows'[q].data) = MaxLen
               /\ rows'[q].data = <<>> => q \in Roots' /\ rows'[q].next = Nil
    <3>1. CASE q = r
      BY <2>3, <3>1
    <3>2. CASE q = n /\ q # r
      BY <1>3, <2>2, <2>4, <2>5, <3>2
    <3>3. CASE q # n /\ q # r
      BY <1>3, <2>1, <2>5, <3>3
    <3>. QED  BY <3>1, <3>2, <3>3
  <2>. QED  BY <2>5 DEF Filled
<1>11. OneWay'
  <2>1. ASSUME NEW p \in DOMAIN rows' PROVE rows'[p].next \notin Roots'
    <3>1. CASE p = r
      BY <1>2, <1>3, <1>5, <3>1
    <3>2. CASE p \in DOMAIN rows
      BY <1>1, <1>2, <1>3, <1>6, <3>2 DEF OneWay
    <3>. QED  BY <1>3, <3>1, <3>2
  <2>2. ASSUME NEW p \in DOMAIN rows', NEW q \in DOMAIN rows', rows'[p].next = rows'[q].next, rows'[p].next # Nil
        PROVE  p = q
    BY <1>1, <1>2, <1>3, <2>2 DEF OneWay
  <2>. QED  BY <2>1, <2>2 DEF OneWay
<1>. QED  BY <1>7, <1>8, <1>9, <1>10, <1>11 DEF Sound

-----------------------------------------------------------------------------
(* The steps.                                                               *)

\* What is in progress.
LEMMA JobKinds ==
  /\ Idle.kind = "none"
  /\ \A s, i, r : LET j == Writing(s, i, r) IN j.kind = "write" /\ j.str = s /\ j.left = i /\ j.rid = r
  /\ \A r : Deleting(r).kind = "delete" /\ Deleting(r).rid = r
BY DEF Idle, Writing, Deleting

LEMMA JobShape ==
  ASSUME TypeOK
  PROVE  /\ job.kind = "none" => job = Idle
         /\ job.kind = "write" => \E s \in Str, r \in Rid \cup {Nil} : \E i \in 1 .. Chunks(s) : job = Writing(s, i, r)
         /\ job.kind = "delete" => \E r \in Rid : job = Deleting(r)
<1>1. CASE job = Idle
  BY <1>1, JobKinds
<1>2. CASE \E s \in Str, r \in Rid \cup {Nil} : \E i \in 1 .. Chunks(s) : job = Writing(s, i, r)
  BY <1>2, JobKinds
<1>3. CASE \E r \in Rid : job = Deleting(r)
  BY <1>3, JobKinds
<1>. QED  BY <1>1, <1>2, <1>3 DEF TypeOK

LEMMA SameSound ==
  ASSUME Sound, rows' = rows, Roots' = Roots
  PROVE  Sound'
<1>1. \A r : Chain(r)' = Chain(r)
  BY DEF Chain, Continues
<1>. QED  BY <1>1 DEF Sound, Linked, Continues, Ending, Owned, Filled, OneWay

LEMMA InitSound ==
  ASSUME Init
  PROVE  IInv
<1>1. DOMAIN rows = {} /\ held = {} /\ job = Idle /\ job.kind = "none"
  BY JobKinds DEF Init
<1>2. Roots = {}
  BY <1>1 DEF Roots
<1>3. TypeOK
  BY <1>1 DEF TypeOK
<1>4. Sound
  BY <1>1, <1>2 DEF Sound, Linked, Continues, Ending, Owned, Filled, OneWay
<1>5. JobSound
  BY <1>1 DEF JobSound
<1>. QED  BY <1>3, <1>4, <1>5 DEF IInv

LEMMA BeginWriteKeeps ==
  ASSUME IInv, NEW s \in Str, BeginWrite(s)
  PROVE  IInv'
<1>1. TypeOK /\ Sound /\ Nil \notin held
  BY NilAssumption DEF IInv, TypeOK
<1>2. /\ job.kind = "none" /\ job' = Writing(s, Chunks(s), Nil) /\ rows' = rows /\ held' = held
      /\ job'.kind = "write" /\ job'.str = s /\ job'.left = Chunks(s) /\ job'.rid = Nil
  BY JobKinds DEF BeginWrite
<1>3. Roots' = Roots
  BY <1>2 DEF Roots
<1>4. Chunks(s) \in 1 .. Chunks(s)
  BY ChunksBound
<1>5. TypeOK'
  BY <1>1, <1>2, <1>4 DEF TypeOK
<1>6. JobSound'
  BY <1>1, <1>2 DEF JobSound
<1>. QED  BY <1>1, <1>2, <1>3, <1>5, <1>6, SameSound DEF IInv

LEMMA WriteChunkKeeps ==
  ASSUME IInv, NEW r \in Rid, WriteChunk(r)
  PROVE  IInv'
<1>1. TypeOK /\ Sound /\ JobSound /\ job.kind = "write" /\ r \notin DOMAIN rows /\ Nil \notin held /\ r # Nil
  BY NilAssumption DEF IInv, TypeOK, WriteChunk
<1>2. PICK s \in Str, n \in Rid \cup {Nil} : \E j \in 1 .. Chunks(s) : job = Writing(s, j, n)
  BY <1>1, JobShape
<1>3. PICK i \in 1 .. Chunks(s) : job = Writing(s, i, n)
  BY <1>2
<1>4. job.str = s /\ job.left = i /\ job.rid = n
  BY <1>3, JobKinds
<1>5. PICK d : d = Part(s, i)
  OBVIOUS
<1>6. /\ d \in Seq(Char) /\ Len(d) <= MaxLen
      /\ i < Chunks(s) => Len(d) = MaxLen
      /\ d = <<>> => s = <<>>
  BY <1>5, PartBound
<1>7. i \in Nat \ {0} /\ Chunks(s) \in Nat \ {0} /\ i <= Chunks(s) /\ (s = <<>> => Chunks(s) = 1)
  BY ChunksBound
<1>8. /\ n \notin held
      /\ i = Chunks(s) <=> n = Nil
      /\ n # Nil => rows[n].data # <<>>
  BY <1>1, <1>4 DEF JobSound
<1>9. Roots = held \cup ({n} \ {Nil})
  BY <1>1, <1>4 DEF Roots
<1>10. rows' = Table!With(rows, r, [next |-> n, data |-> d])
  BY <1>4, <1>5 DEF WriteChunk
<1>11. \/ i > 1 /\ job' = Writing(s, i - 1, r) /\ held' = held
       \/ i = 1 /\ job' = Idle /\ held' = held \cup {r}
  BY <1>4, <1>7 DEF WriteChunk
<1>12. Roots' = held \cup {r}
  BY <1>1, <1>11, JobKinds DEF Roots
<1>13. Adds(r, n, d)
  <2>1. Roots' = (Roots \ {n}) \cup {r}
    BY <1>1, <1>8, <1>9, <1>12
  <2>2. d = <<>> => n = Nil
    BY <1>6, <1>7, <1>8
  <2>3. n # Nil => Len(d) = MaxLen
    BY <1>6, <1>7, <1>8
  <2>. QED  BY <1>1, <1>8, <1>9, <1>10, <2>1, <2>2, <2>3 DEF Adds
<1>14. Sound'
  BY <1>1, <1>13, AddSound
<1>15. /\ DOMAIN rows' = DOMAIN rows \cup {r} /\ \A q \in DOMAIN rows : rows'[q] = rows[q]
       /\ rows'[r].next = n /\ rows'[r].data = d
  BY <1>13, AddRows
<1>16. TypeOK'
  <2>1. \A q \in DOMAIN rows' :
          rows'[q].next \in Rid \cup {Nil} /\ rows'[q].data \in Seq(Char) /\ Len(rows'[q].data) <= MaxLen
    BY <1>1, <1>2, <1>6, <1>15 DEF TypeOK
  <2>2. DOMAIN rows' \subseteq Rid /\ held' \subseteq DOMAIN rows'
    BY <1>1, <1>11, <1>15 DEF TypeOK
  <2>3. i > 1 => i - 1 \in 1 .. Chunks(s)
    BY <1>7
  <2>. QED  BY <1>11, <2>1, <2>2, <2>3 DEF TypeOK
<1>17. JobSound'
  <2>1. CASE i > 1 /\ job' = Writing(s, i - 1, r) /\ held' = held
    <3>1. job'.kind = "write" /\ job'.str = s /\ job'.left = i - 1 /\ job'.rid = r
      BY <2>1, JobKinds
    <3>2. r \notin held /\ rows'[r].data # <<>>
      BY <1>1, <1>6, <1>7, <1>15, <2>1 DEF TypeOK
    <3>3. i - 1 # Chunks(s)
      BY <1>7
    <3>. QED  BY <1>1, <2>1, <3>1, <3>2, <3>3 DEF JobSound
  <2>2. CASE job' = Idle
    <3>1. job'.kind = "none"
      BY <2>2, JobKinds
    <3>. QED  BY <3>1 DEF JobSound
  <2>. QED  BY <1>11, <2>1, <2>2
<1>. QED  BY <1>14, <1>16, <1>17 DEF IInv

\* An iteration of delete_string, the first one and the others.
LEMMA DropKeeps ==
  ASSUME TypeOK, Sound, NEW r \in Roots, NEW n, n = rows[r].next,
         rows' = Table!Without(rows, r), held' = held \ {r}, Roots = held \cup {r}, GoOn(n)
  PROVE  IInv'
<1>1. Linked /\ OneWay /\ r \in DOMAIN rows /\ n \notin Roots /\ n \in DOMAIN rows \cup {Nil} /\ Nil \notin DOMAIN rows
  BY NilAssumption DEF Sound, Linked, OneWay, Continues
<1>2. \/ n = Nil /\ job' = Idle
      \/ n # Nil /\ job' = Deleting(n)
  BY DEF GoOn
<1>3. Roots' = (Roots \ {r}) \cup ({n} \ {Nil})
  <2>1. CASE n = Nil /\ job' = Idle
    BY <2>1, JobKinds DEF Roots
  <2>2. CASE n # Nil /\ job' = Deleting(n)
    BY <2>2, JobKinds DEF Roots
  <2>. QED  BY <1>2, <2>1, <2>2
<1>4. Drops(r, n)
  BY <1>3 DEF Drops
<1>5. Sound'
  BY <1>4, DropSound
<1>6. DOMAIN rows' = DOMAIN rows \ {r} /\ \A q \in DOMAIN rows \ {r} : rows'[q] = rows[q]
  BY <1>4, DropRows
<1>7. TypeOK'
  <2>1. \A q \in DOMAIN rows' :
          rows'[q].next \in Rid \cup {Nil} /\ rows'[q].data \in Seq(Char) /\ Len(rows'[q].data) <= MaxLen
    BY <1>6 DEF TypeOK
  <2>2. DOMAIN rows' \subseteq Rid /\ held' \subseteq DOMAIN rows'
    BY <1>6 DEF TypeOK
  <2>3. n # Nil => n \in Rid
    BY <1>1 DEF TypeOK
  <2>. QED  BY <1>2, <2>1, <2>2, <2>3 DEF TypeOK
<1>8. JobSound'
  <2>1. CASE job' = Idle
    BY <2>1, JobKinds DEF JobSound
  <2>2. CASE job' = Deleting(n)
    <3>1. job'.kind = "delete" /\ job'.rid = n
      BY <2>2, JobKinds
    <3>. QED  BY <1>1, <3>1 DEF JobSound
  <2>. QED  BY <1>2, <2>1, <2>2
<1>. QED  BY <1>5, <1>7, <1>8 DEF IInv

LEMMA BeginDeleteKeeps ==
  ASSUME IInv, NEW r \in Rid, BeginDelete(r)
  PROVE  IInv'
<1>1. TypeOK /\ Sound /\ r \in held
  BY DEF IInv, BeginDelete
<1>2. job.kind = "none"
  BY JobKinds DEF BeginDelete
<1>3. r \in Roots /\ Roots = held \cup {r}
  BY <1>1, <1>2 DEF Roots
<1>4. PICK n : n = rows[r].next
  OBVIOUS
<1>5. GoOn(n)
  BY <1>4 DEF BeginDelete, GoOn
<1>6. rows' = Table!Without(rows, r) /\ held' = held \ {r}
  BY DEF BeginDelete
<1>. QED  BY <1>1, <1>3, <1>4, <1>5, <1>6, DropKeeps

LEMMA DeleteChunkKeeps ==
  ASSUME IInv, DeleteChunk
  PROVE  IInv'
<1>1. TypeOK /\ Sound /\ JobSound /\ job.kind = "delete"
  BY DEF IInv, DeleteChunk
<1>2. PICK r \in Rid : job = Deleting(r)
  BY <1>1, JobShape
<1>3. job.rid = r /\ r # Nil /\ r \notin held
  BY <1>1, <1>2, JobKinds, NilAssumption DEF JobSound
<1>4. r \in Roots /\ Roots = held \cup {r}
  BY <1>1, <1>3 DEF Roots
<1>5. PICK n : n = rows[r].next
  OBVIOUS
<1>6. GoOn(n) /\ rows' = Table!Without(rows, r) /\ held' = held \ {r}
  BY <1>3, <1>5 DEF DeleteChunk, GoOn
<1>. QED  BY <1>1, <1>4, <1>5, <1>6, DropKeeps

-----------------------------------------------------------------------------
(* Theorems on where the chunks are.                                        *)

\* The invariant the other theorems follow from, for every length of a chunk
\* and every set of strings.
THEOREM Invariance == Spec => []IInv
<1>1. Init => IInv
  BY InitSound
<1>2. IInv /\ [Next]_vars => IInv'
  <2>. SUFFICES ASSUME IInv, [Next]_vars PROVE IInv'
    OBVIOUS
  <2>1. CASE UNCHANGED vars
    <3>1. rows' = rows /\ held' = held /\ job' = job
      BY <2>1 DEF vars
    <3>2. Roots' = Roots /\ TypeOK' /\ JobSound'
      BY <3>1 DEF IInv, Roots, TypeOK, JobSound
    <3>. QED  BY <3>1, <3>2, SameSound DEF IInv
  <2>2. CASE \E s \in Str : BeginWrite(s)
    BY <2>2, BeginWriteKeeps
  <2>3. CASE \E r \in Rid : WriteChunk(r)
    BY <2>3, WriteChunkKeeps
  <2>4. CASE \E r \in Rid : BeginDelete(r)
    BY <2>4, BeginDeleteKeeps
  <2>5. CASE DeleteChunk
    BY <2>5, DeleteChunkKeeps
  <2>. QED  BY <2>1, <2>2, <2>3, <2>4, <2>5 DEF Next
<1>. QED  BY <1>1, <1>2, PTL DEF Spec

\* Every chunk write_string stores belongs to one string until delete_string
\* takes it, chains end, and next_char finds a character in every chunk it
\* moves on to.
THEOREM EveryChunkOwned == Spec => []ChunksOwned
<1>1. IInv => ChunksOwned
  BY DEF IInv, Sound, Linked, Ending, Owned, Filled, ChunksOwned
<1>. QED  BY <1>1, Invariance, PTL

-----------------------------------------------------------------------------
(* Induction: every set of numbers has a least one.                         *)

Less == {p \in Nat \X Nat : p[1] < p[2]}

LEMMA Least ==
  ASSUME NEW S \in SUBSET Nat, S # {}
  PROVE  \E n \in S : \A m \in S : n <= m
<1>1. IsWellFoundedOn(Less, Nat)
  <2>1. Less \cap (Nat \X Nat) \subseteq OpToRel(<, Nat)
    BY DEF Less, OpToRel
  <2>. QED  BY <2>1, NatLessThanWellFounded, IsWellFoundedOnSubrelation
<1>2. PICK n \in S : \A m \in S : ~ (<<m, n>> \in Less)
  BY <1>1, WFMin
<1>3. ASSUME NEW m \in S PROVE n <= m
  <2>1. <<m, n>> \notin Less /\ m \in Nat /\ n \in Nat
    BY <1>2
  <2>2. ~ (m < n)
    BY <2>1 DEF Less
  <2>. QED  BY <2>1, <2>2
<1>. QED  BY <1>3

\* What holds of x whenever it holds of all that measure less holds of all.
LEMMA Descent ==
  ASSUME NEW D, NEW size, \A x \in D : size[x] \in Nat, NEW G,
         \A x \in D : (\A y \in D : size[y] < size[x] => y \in G) => x \in G
  PROVE  D \subseteq G
<1>. SUFFICES ASSUME ~ (D \subseteq G) PROVE FALSE
  OBVIOUS
<1>1. PICK S : S = {size[x] : x \in D \ G}
  OBVIOUS
<1>2. S \in SUBSET Nat /\ S # {}
  BY <1>1
<1>3. PICK n \in S : \A m \in S : n <= m
  BY <1>2, Least
<1>4. PICK x \in D \ G : n = size[x]
  BY <1>1
<1>5. ASSUME NEW y \in D, size[y] < size[x] PROVE y \in G
  <2>. SUFFICES ASSUME y \notin G PROVE FALSE
    OBVIOUS
  <2>1. size[y] \in S
    BY <1>1
  <2>2. size[x] <= size[y] /\ size[x] \in Nat /\ size[y] \in Nat
    BY <1>3, <1>4, <2>1
  <2>. QED  BY <1>5, <2>2
<1>. QED  BY <1>4, <1>5

-----------------------------------------------------------------------------
(* What a reader has before it.                                             *)

After(T, n) == IF n = Nil THEN <<>> ELSE T[n]

\* T is the text from each chunk on.
Steady(T) ==
  /\ T \in [DOMAIN rows -> Seq(Char)]
  /\ \A q \in DOMAIN rows :
       /\ rows[q].data \in Seq(Char) /\ T[q] = rows[q].data \o After(T, rows[q].next)
       /\ rows[q].next # Nil => /\ rows[q].next \in DOMAIN rows
                                /\ rows[q].data # <<>> /\ rows[rows[q].next].data # <<>>

Rest(T, rec) ==
  SubSeq(rec.chunk.data, rec.idx + 1, Len(rec.chunk.data)) \o After(T, rec.chunk.next)

\* A sequence from a place on, and the same one place further on.
LEMMA FromOn ==
  ASSUME NEW S, NEW s \in Seq(S), NEW i \in Nat
  PROVE  /\ SubSeq(s, i + 1, Len(s)) \in Seq(S)
         /\ i < Len(s) => SubSeq(s, i + 1, Len(s)) = <<s[i + 1]>> \o SubSeq(s, i + 2, Len(s)) /\ s[i + 1] \in S
         /\ ~ (i < Len(s)) => SubSeq(s, i + 1, Len(s)) = <<>>
         /\ SubSeq(s, 1, Len(s)) = s
<1>1. Len(s) \in Nat /\ \A j \in i + 1 .. Len(s) : s[j] \in S
  OBVIOUS
<1>2. SubSeq(s, i + 1, Len(s)) \in Seq(S)
  BY <1>1, SubSeqProperties
<1>3. ASSUME i < Len(s) PROVE SubSeq(s, i + 1, Len(s)) = <<s[i + 1]>> \o SubSeq(s, i + 2, Len(s)) /\ s[i + 1] \in S
  <2>1. i + 1 \in 1 .. Len(s) /\ Len(s) \in i + 1 .. Len(s) /\ i + 2 = (i + 1) + 1
    BY <1>1, <1>3
  <2>. QED  BY <2>1, SubSeqRecursiveFirst
<1>4. ~ (i < Len(s)) => SubSeq(s, i + 1, Len(s)) = <<>>
  BY <1>1, SubSeqEmpty
<1>. QED  BY <1>2, <1>3, <1>4, SubSeqFull

\* A character and what follows it.
LEMMA Consed ==
  ASSUME NEW S, NEW x \in S, NEW u \in Seq(S), NEW v \in Seq(S), NEW w, w = (<<x>> \o u) \o v
  PROVE  /\ w \in Seq(S) /\ w # <<>> /\ Head(w) = x /\ Tail(w) = u \o v /\ w = <<x>> \o (u \o v)
<1>1. w = <<x>> \o (u \o v) /\ <<x>> \in Seq(S) /\ u \o v \in Seq(S)
  BY ConcatAssociative, ConcatProperties
<1>2. PICK r \in Seq(S) : r = u \o v
  BY <1>1
<1>3. w = <<x>> \o r
  BY <1>1, <1>2
<1>4. w \in Seq(S) /\ Len(w) = 1 + Len(r) /\ \A i \in 1 .. 1 + Len(r) : w[i] = IF i <= 1 THEN x ELSE r[i - 1]
  BY <1>1, <1>3, ConcatProperties
<1>5. w # <<>> /\ w[1] = x /\ Head(w) = x
  BY <1>4
<1>6. Tail(w) \in Seq(S) /\ Len(Tail(w)) = Len(r) /\ \A i \in 1 .. Len(r) : Tail(w)[i] = w[i + 1]
  BY <1>4, <1>5, HeadTailProperties
<1>7. \A i \in 1 .. Len(r) : Tail(w)[i] = r[i]
  BY <1>4, <1>6
<1>8. Tail(w) = r
  BY <1>6, <1>7, SeqEqual
<1>. QED  BY <1>1, <1>2, <1>4, <1>5, <1>8

\* The reader's operators in terms of what it has before it.
LEMMA ReaderIs ==
  ASSUME NEW T, Steady(T), NEW rec \in StringRecord
  PROVE  /\ Rest(T, rec) \in Seq(Char)
         /\ HasNext(rec) <=> Rest(T, rec) # <<>>
         /\ HasNext(rec) => /\ Advance(rec) \in StringRecord /\ NextChar(rec) \in Char
                            /\ NextChar(rec) = Head(Rest(T, rec))
                            /\ Rest(T, Advance(rec)) = Tail(Rest(T, rec))
                            /\ Rest(T, rec) = <<NextChar(rec)>> \o Rest(T, Advance(rec))
<1>1. rec.chunk \in Range(rows) /\ rec.idx \in Nat /\ rec = [chunk |-> rec.chunk, idx |-> rec.idx]
  BY DEF StringRecord
<1>2. PICK q \in DOMAIN rows : rec.chunk = rows[q]
  BY <1>1 DEF Range
<1>3. PICK s, n, i : s = rows[q].data /\ n = rows[q].next /\ i = rec.idx
  OBVIOUS
<1>4. /\ s \in Seq(Char) /\ i \in Nat /\ Len(s) \in Nat /\ After(T, n) \in Seq(Char)
      /\ n # Nil => n \in DOMAIN rows /\ rows[n].data # <<>>
  <2>1. s \in Seq(Char) /\ i \in Nat /\ (n # Nil => n \in DOMAIN rows /\ rows[n].data # <<>>)
    BY <1>1, <1>3 DEF Steady
  <2>2. After(T, n) \in Seq(Char)
    BY <2>1 DEF Steady, After
  <2>. QED  BY <2>1, <2>2
<1>5. Rest(T, rec) = SubSeq(s, i + 1, Len(s)) \o After(T, n)
  BY <1>2, <1>3 DEF Rest
<1>6. /\ InChunk(rec) <=> i < Len(s)
      /\ HasNext(rec) <=> i < Len(s) \/ n # Nil
  BY <1>2, <1>3 DEF InChunk, HasNext
<1>7. CASE i < Len(s)
  <2>1. SubSeq(s, i + 1, Len(s)) = <<s[i + 1]>> \o SubSeq(s, i + 2, Len(s)) /\ s[i + 1] \in Char
    BY <1>4, <1>7, FromOn
  <2>2. NextChar(rec) = s[i + 1] /\ Advance(rec) = [chunk |-> rec.chunk, idx |-> i + 1]
    BY <1>1, <1>2, <1>3, <1>6, <1>7 DEF NextChar, Advance
  <2>3. Advance(rec) \in StringRecord
    BY <1>1, <1>4, <2>2 DEF StringRecord
  <2>4. Rest(T, Advance(rec)) = SubSeq(s, i + 2, Len(s)) \o After(T, n)
    <3>1. Advance(rec).chunk = rows[q] /\ Advance(rec).idx + 1 = i + 2
      BY <1>2, <1>4, <2>2
    <3>. QED  BY <1>3, <3>1 DEF Rest
  <2>5. SubSeq(s, i + 2, Len(s)) \in Seq(Char)
    <3>1. i + 1 \in Nat /\ (i + 1) + 1 = i + 2
      BY <1>4
    <3>. QED  BY <1>4, <3>1, FromOn
  <2>6. PICK x, u, v, w : x = s[i + 1] /\ u = SubSeq(s, i + 2, Len(s)) /\ v = After(T, n) /\ w = Rest(T, rec)
    OBVIOUS
  <2>7. x \in Char /\ u \in Seq(Char) /\ v \in Seq(Char) /\ w = (<<x>> \o u) \o v
    BY <1>4, <1>5, <2>1, <2>5, <2>6
  <2>8. w \in Seq(Char) /\ w # <<>> /\ Head(w) = x /\ Tail(w) = u \o v /\ w = <<x>> \o (u \o v)
    BY <2>7, Consed
  <2>9. NextChar(rec) = x /\ Rest(T, Advance(rec)) = u \o v /\ HasNext(rec)
    BY <1>6, <1>7, <2>2, <2>4, <2>6
  <2>. QED  BY <2>3, <2>6, <2>7, <2>8, <2>9
<1>8. CASE ~ (i < Len(s))
  <2>1. Rest(T, rec) = After(T, n)
    BY <1>4, <1>5, <1>8, FromOn, ConcatEmptySeq
  <2>2. CASE n = Nil
    BY <1>4, <1>6, <1>8, <2>1, <2>2 DEF After
  <2>3. CASE n # Nil
    <3>1. PICK d, m : d = rows[n].data /\ m = rows[n].next
      OBVIOUS
    <3>2. d \in Seq(Char) /\ d # <<>> /\ T[n] = d \o After(T, m) /\ After(T, m) \in Seq(Char)
      <4>1. d \in Seq(Char) /\ d # <<>> /\ T[n] = d \o After(T, m) /\ (m # Nil => m \in DOMAIN rows)
        BY <1>4, <2>3, <3>1 DEF Steady
      <4>. QED  BY <4>1 DEF Steady, After
    <3>3. Rest(T, rec) = d \o After(T, m)
      BY <2>1, <2>3, <3>2 DEF After
    <3>4. 0 < Len(d)
      BY <3>2
    <3>5. d = <<d[1]>> \o SubSeq(d, 2, Len(d)) /\ d[1] \in Char /\ SubSeq(d, 2, Len(d)) \in Seq(Char)
      <4>1. 0 \in Nat /\ 1 \in Nat /\ 0 + 1 = 1 /\ 0 + 2 = 2 /\ 1 + 1 = 2
        OBVIOUS
      <4>2. SubSeq(d, 1, Len(d)) = <<d[1]>> \o SubSeq(d, 2, Len(d)) /\ d[1] \in Char /\ SubSeq(d, 1, Len(d)) = d
        BY <3>2, <3>4, <4>1, FromOn
      <4>3. SubSeq(d, 2, Len(d)) \in Seq(Char)
        BY <3>2, <4>1, FromOn
      <4>. QED  BY <4>2, <4>3
    <3>6. NextChar(rec) = d[1] /\ Advance(rec) = [chunk |-> rows[n], idx |-> 1]
      BY <1>2, <1>3, <1>6, <1>8, <3>1 DEF NextChar, Advance, Read
    <3>7. Advance(rec) \in StringRecord
      BY <1>4, <2>3, <3>6 DEF StringRecord, Range
    <3>8. Rest(T, Advance(rec)) = SubSeq(d, 2, Len(d)) \o After(T, m)
      <4>1. Advance(rec).chunk = rows[n] /\ Advance(rec).idx + 1 = 2
        BY <3>6
      <4>. QED  BY <3>1, <4>1 DEF Rest
    <3>9. PICK x, u, v, w : x = d[1] /\ u = SubSeq(d, 2, Len(d)) /\ v = After(T, m) /\ w = Rest(T, rec)
      OBVIOUS
    <3>10. x \in Char /\ u \in Seq(Char) /\ v \in Seq(Char) /\ w = (<<x>> \o u) \o v
      BY <3>2, <3>3, <3>5, <3>9
    <3>11. w \in Seq(Char) /\ w # <<>> /\ Head(w) = x /\ Tail(w) = u \o v /\ w = <<x>> \o (u \o v)
      BY <3>10, Consed
    <3>12. NextChar(rec) = x /\ Rest(T, Advance(rec)) = u \o v /\ HasNext(rec)
      BY <1>6, <2>3, <3>6, <3>8, <3>9
    <3>. QED  BY <3>7, <3>9, <3>10, <3>11, <3>12
  <2>. QED  BY <2>2, <2>3
<1>. QED  BY <1>7, <1>8

LEMMA ReadIs ==
  ASSUME NEW T, Steady(T), NEW r \in DOMAIN rows
  PROVE  Read(r) \in StringRecord /\ Rest(T, Read(r)) = T[r] /\ T[r] \in Seq(Char)
<1>1. Read(r).chunk = rows[r] /\ Read(r).idx + 1 = 1 /\ Read(r) \in StringRecord
  BY DEF Read, StringRecord, Range
<1>2. rows[r].data \in Seq(Char) /\ T[r] = rows[r].data \o After(T, rows[r].next) /\ T[r] \in Seq(Char)
  BY DEF Steady
<1>3. SubSeq(rows[r].data, 1, Len(rows[r].data)) = rows[r].data
  BY <1>2, SubSeqFull
<1>. QED  BY <1>1, <1>2, <1>3 DEF Rest

-----------------------------------------------------------------------------
(* The recursive functions: each is met by a function known beforehand, and  *)
(* by no other.                                                             *)

LEMMA SizeIs ==
  ASSUME NEW T, Steady(T), NEW r \in DOMAIN rows
  PROVE  Size(r) = Len(T[r])
<1> DEFINE F(f) == [q \in DOMAIN rows |->
                      Len(rows[q].data) + (IF rows[q].next = Nil THEN 0 ELSE f[rows[q].next])]
<1>1. ASSUME NEW q \in DOMAIN rows
      PROVE  /\ Len(T[q]) \in Nat
             /\ Len(T[q]) = Len(rows[q].data) + (IF rows[q].next = Nil THEN 0 ELSE Len(T[rows[q].next]))
             /\ rows[q].next # Nil => /\ rows[q].next \in DOMAIN rows
                                      /\ Len(T[rows[q].next]) < Len(T[q])
  <2>1. PICK d, n : d = rows[q].data /\ n = rows[q].next
    OBVIOUS
  <2>2. /\ T[q] \in Seq(Char) /\ d \in Seq(Char) /\ T[q] = d \o After(T, n) /\ After(T, n) \in Seq(Char)
        /\ n # Nil => n \in DOMAIN rows /\ d # <<>>
    <3>1. T[q] \in Seq(Char) /\ d \in Seq(Char) /\ T[q] = d \o After(T, n) /\ (n # Nil => n \in DOMAIN rows /\ d # <<>>)
      BY <2>1 DEF Steady
    <3>. QED  BY <3>1 DEF Steady, After
  <2>3. Len(T[q]) = Len(d) + Len(After(T, n)) /\ Len(T[q]) \in Nat /\ Len(d) \in Nat /\ Len(After(T, n)) \in Nat
    BY <2>2, ConcatProperties
  <2>4. CASE n = Nil
    <3>1. Len(After(T, n)) = 0
      BY <2>4 DEF After
    <3>. QED  BY <2>1, <2>3, <2>4, <3>1
  <2>5. CASE n # Nil
    <3>1. After(T, n) = T[n] /\ Len(d) > 0
      BY <2>2, <2>3, <2>5 DEF After
    <3>2. n \in DOMAIN rows /\ Len(T[n]) < Len(T[q]) /\ Len(T[q]) = Len(d) + Len(T[n])
      BY <2>2, <2>3, <2>5, <3>1
    <3>. QED  BY <2>1, <2>3, <2>5, <3>2
  <2>. QED  BY <2>4, <2>5
<1>2. PICK L : L = [q \in DOMAIN rows |-> Len(T[q])]
  OBVIOUS
<1>3. L = F(L)
  BY <1>1, <1>2
<1>4. PICK f : f = (CHOOSE g : g = F(g)) /\ Size(r) = f[r]
  BY DEF Size
<1>5. f = F(f)
  BY <1>3, <1>4
<1>6. PICK G : G = {q \in DOMAIN rows : f[q] = L[q]}
  OBVIOUS
<1>7. ASSUME NEW q \in DOMAIN rows, \A p \in DOMAIN rows : L[p] < L[q] => p \in G PROVE q \in G
  BY <1>1, <1>2, <1>5, <1>6, <1>7
<1>8. \A q \in DOMAIN rows : L[q] \in Nat
  BY <1>1, <1>2
<1>9. DOMAIN rows \subseteq G
  <2>1. PICK D : D = DOMAIN rows
    OBVIOUS
  <2>2. \A q \in D : (\A p \in D : L[p] < L[q] => p \in G) => q \in G
    BY <1>7, <2>1
  <2>3. \A q \in D : L[q] \in Nat
    BY <1>8, <2>1
  <2>. QED  BY <2>1, <2>2, <2>3, Descent
<1>. QED  BY <1>2, <1>4, <1>6, <1>9

\* The first n of a sequence, or all of it.
Upto(s, n) == SubSeq(s, 1, IF n < Len(s) THEN n ELSE Len(s))

LEMMA UptoIs ==
  ASSUME NEW S, NEW s \in Seq(S), NEW n \in Nat
  PROVE  /\ Upto(s, n) \in Seq(S)
         /\ Len(Upto(s, n)) = (IF n < Len(s) THEN n ELSE Len(s))
         /\ \A i \in 1 .. Len(Upto(s, n)) : Upto(s, n)[i] = s[i]
         /\ n >= Len(s) => Upto(s, n) = s
         /\ n = 0 => Upto(s, n) = <<>>
         /\ s = <<>> => Upto(s, n) = <<>>
<1>1. PICK m : m = IF n < Len(s) THEN n ELSE Len(s)
  OBVIOUS
<1>2. m \in Nat /\ m <= Len(s) /\ Upto(s, n) = SubSeq(s, 1, m) /\ Len(s) \in Nat
  BY <1>1 DEF Upto
<1>3. \A i \in 1 .. m : s[i] \in S
  BY <1>2
<1>4. Upto(s, n) \in Seq(S) /\ Len(Upto(s, n)) = m /\ \A i \in 1 .. m : Upto(s, n)[i] = s[i]
  <2>1. 1 \in Int /\ m \in Int
    BY <1>2
  <2>2. /\ SubSeq(s, 1, m) \in Seq(S)
        /\ Len(SubSeq(s, 1, m)) = IF 1 <= m THEN m - 1 + 1 ELSE 0
        /\ \A i \in 1 .. m - 1 + 1 : SubSeq(s, 1, m)[i] = s[1 + i - 1]
    BY <1>3, <2>1, SubSeqProperties
  <2>3. m - 1 + 1 = m /\ (~(1 <= m) => m = 0)
    BY <1>2
  <2>4. Len(SubSeq(s, 1, m)) = m
    BY <2>2, <2>3
  <2>5. ASSUME NEW i \in 1 .. m PROVE SubSeq(s, 1, m)[i] = s[i]
    <3>1. 1 + i - 1 = i /\ i \in 1 .. m - 1 + 1
      BY <1>2, <2>3
    <3>. QED  BY <2>2, <3>1
  <2>. QED  BY <1>2, <2>2, <2>4, <2>5
<1>5. n >= Len(s) => Upto(s, n) = s
  BY <1>1, <1>2, SubSeqFull
<1>6. n = 0 \/ s = <<>> => Upto(s, n) = <<>>
  BY <1>1, <1>2, <1>4
<1>. QED  BY <1>1, <1>4, <1>5, <1>6

LEMMA UptoCons ==
  ASSUME NEW S, NEW x \in S, NEW s \in Seq(S), NEW n \in Nat, n > 0
  PROVE  Upto(<<x>> \o s, n) = <<x>> \o Upto(s, n - 1)
<1>1. PICK w : w = <<x>> \o s
  OBVIOUS
<1>2. <<x>> \in Seq(S) /\ Len(<<x>>) = 1 /\ n - 1 \in Nat
  OBVIOUS
<1>3. w \in Seq(S) /\ Len(w) = 1 + Len(s) /\ \A i \in 1 .. 1 + Len(s) : w[i] = IF i <= 1 THEN x ELSE s[i - 1]
  BY <1>1, <1>2, ConcatProperties
<1>4. PICK u, v : u = Upto(w, n) /\ v = Upto(s, n - 1)
  OBVIOUS
<1>5. u \in Seq(S) /\ Len(u) = (IF n < Len(w) THEN n ELSE Len(w)) /\ \A i \in 1 .. Len(u) : u[i] = w[i]
  BY <1>3, <1>4, UptoIs
<1>6. v \in Seq(S) /\ Len(v) = (IF n - 1 < Len(s) THEN n - 1 ELSE Len(s)) /\ \A i \in 1 .. Len(v) : v[i] = s[i]
  BY <1>2, <1>4, UptoIs
<1>7. PICK z : z = <<x>> \o v
  OBVIOUS
<1>8. z \in Seq(S) /\ Len(z) = 1 + Len(v) /\ \A i \in 1 .. 1 + Len(v) : z[i] = IF i <= 1 THEN x ELSE v[i - 1]
  BY <1>2, <1>6, <1>7, ConcatProperties
<1>9. Len(s) \in Nat /\ Len(u) = Len(z) /\ Len(u) <= Len(w) /\ Len(v) <= Len(s) /\ Len(v) \in Nat
  BY <1>3, <1>5, <1>6, <1>8
<1>10. ASSUME NEW i \in 1 .. Len(u) PROVE u[i] = z[i]
  <2>1. CASE i = 1
    BY <1>3, <1>5, <1>8, <1>9, <2>1
  <2>2. CASE i # 1
    <3>1. i - 1 \in 1 .. Len(v) /\ i \in 1 .. 1 + Len(s) /\ i \in 1 .. 1 + Len(v) /\ ~ (i <= 1)
      BY <1>3, <1>8, <1>9, <2>2
    <3>2. u[i] = s[i - 1] /\ z[i] = v[i - 1] /\ v[i - 1] = s[i - 1]
      BY <1>3, <1>5, <1>6, <1>8, <3>1
    <3>. QED  BY <3>2
  <2>. QED  BY <2>1, <2>2
<1>11. u = z
  BY <1>5, <1>8, <1>9, <1>10, SeqEqual
<1>. QED  BY <1>1, <1>4, <1>7, <1>11

LEMMA LoadIs ==
  ASSUME NEW T, Steady(T), NEW rec \in StringRecord, NEW max \in Nat
  PROVE  Load(rec, max) = Upto(Rest(T, rec), max)
<1> DEFINE F(f) == [p \in StringRecord \X Seq(Char) |->
                      IF HasNext(p[1]) /\ Len(p[2]) < max
                        THEN f[<<Advance(p[1]), Append(p[2], NextChar(p[1]))>>]
                        ELSE p[2]]
<1>1. PICK D : D = StringRecord \X Seq(Char)
  OBVIOUS
<1>2. PICK L : L = [p \in D |-> IF Len(p[2]) < max THEN p[2] \o Upto(Rest(T, p[1]), max - Len(p[2])) ELSE p[2]]
  OBVIOUS
<1>3. PICK size : size = [p \in D |-> Len(Rest(T, p[1]))]
  OBVIOUS
<1>4. ASSUME NEW p \in D
      PROVE  /\ HasNext(p[1]) /\ Len(p[2]) < max =>
                  /\ <<Advance(p[1]), Append(p[2], NextChar(p[1]))>> \in D
                  /\ L[p] = L[<<Advance(p[1]), Append(p[2], NextChar(p[1]))>>]
                  /\ size[<<Advance(p[1]), Append(p[2], NextChar(p[1]))>>] < size[p]
             /\ ~ (HasNext(p[1]) /\ Len(p[2]) < max) => L[p] = p[2]
             /\ size[p] \in Nat
  <2>1. PICK a \in StringRecord, s \in Seq(Char) : p = <<a, s>>
    BY <1>1
  <2>2. p[1] = a /\ p[2] = s /\ Len(s) \in Nat
    BY <2>1
  <2>3. Rest(T, a) \in Seq(Char) /\ (HasNext(a) <=> Rest(T, a) # <<>>)
    BY ReaderIs
  <2>4. size[p] = Len(Rest(T, a)) /\ size[p] \in Nat
    BY <1>3, <2>2, <2>3
  <2>5. ASSUME ~ (HasNext(a) /\ Len(s) < max) PROVE L[p] = s
    <3>1. CASE ~ (Len(s) < max)
      BY <1>2, <2>2, <3>1
    <3>2. CASE ~ HasNext(a) /\ Len(s) < max
      <4>1. PICK m : m = max - Len(s)
        OBVIOUS
      <4>2. m \in Nat /\ <<>> \in Seq(Char)
        BY <2>2, <3>2, <4>1
      <4>3. Upto(<<>>, m) = <<>>
        BY <4>2, UptoIs
      <4>4. L[p] = s \o Upto(Rest(T, a), m)
        BY <1>2, <2>2, <3>2, <4>1
      <4>. QED  BY <2>3, <3>2, <4>3, <4>4, ConcatEmptySeq
    <3>. QED  BY <2>5, <3>1, <3>2
  <2>6. ASSUME HasNext(a), Len(s) < max
        PROVE  /\ <<Advance(a), Append(s, NextChar(a))>> \in D
               /\ L[p] = L[<<Advance(a), Append(s, NextChar(a))>>]
               /\ size[<<Advance(a), Append(s, NextChar(a))>>] < size[p]
    <3>1. PICK b, x, y, w, m : /\ b = Advance(a) /\ x = NextChar(a) /\ y = Rest(T, b) /\ w = Rest(T, a)
                               /\ m = max - Len(s)
      OBVIOUS
    <3>2. b \in StringRecord /\ x \in Char /\ w = <<x>> \o y /\ m \in Nat /\ m > 0
      BY <2>2, <2>6, <3>1, ReaderIs
    <3>3. y \in Seq(Char)
      BY <3>1, <3>2, ReaderIs
    <3>4. PICK t : t = Append(s, x)
      OBVIOUS
    <3>5. t \in Seq(Char) /\ Len(t) = Len(s) + 1 /\ t = s \o <<x>> /\ <<x>> \in Seq(Char)
      BY <3>2, <3>4
    <3>6. <<b, t>> \in D
      BY <1>1, <3>2, <3>5
    <3>7. L[p] = s \o Upto(w, m)
      BY <1>2, <2>2, <2>6, <3>1
    <3>8. Upto(w, m) = <<x>> \o Upto(y, m - 1)
      BY <3>2, <3>3, UptoCons
    <3>9. m - 1 \in Nat
      BY <3>2
    <3>10. Upto(y, m - 1) \in Seq(Char)
      BY <3>3, <3>9, UptoIs
    <3>11. L[p] = t \o Upto(y, m - 1)
      BY <3>5, <3>7, <3>8, <3>10, ConcatAssociative
    <3>12. L[<<b, t>>] = t \o Upto(y, m - 1)
      <4>1. L[<<b, t>>] = IF Len(t) < max THEN t \o Upto(y, max - Len(t)) ELSE t
        BY <1>2, <3>1, <3>6
      <4>2. max - Len(t) = m - 1
        BY <2>2, <3>1, <3>5
      <4>3. CASE Len(t) < max
        BY <4>1, <4>2, <4>3
      <4>4. CASE ~ (Len(t) < max)
        <5>1. m - 1 = 0
          BY <2>2, <3>1, <3>2, <3>5, <4>4
        <5>2. Upto(y, m - 1) = <<>>
          BY <3>3, <3>9, <5>1, UptoIs
        <5>. QED  BY <3>5, <4>1, <4>4, <5>2, ConcatEmptySeq
      <4>. QED  BY <4>3, <4>4
    <3>13. size[<<b, t>>] = Len(y) /\ size[p] = Len(w)
      BY <1>3, <2>2, <3>1, <3>6
    <3>14. Len(w) = 1 + Len(y) /\ Len(y) \in Nat
      BY <3>2, <3>3, <3>5, ConcatProperties
    <3>. QED  BY <3>1, <3>4, <3>6, <3>11, <3>12, <3>13, <3>14
  <2>. QED  BY <2>2, <2>4, <2>5, <2>6
<1>5. L = F(L)
  <2>1. F(L) = [p \in D |-> IF HasNext(p[1]) /\ Len(p[2]) < max
                        THEN L[<<Advance(p[1]), Append(p[2], NextChar(p[1]))>>]
                        ELSE p[2]]
    BY <1>1
  <2>2. \A p \in D : L[p] = IF HasNext(p[1]) /\ Len(p[2]) < max
                        THEN L[<<Advance(p[1]), Append(p[2], NextChar(p[1]))>>]
                        ELSE p[2]
    BY <1>4
  <2>3. DOMAIN L = D /\ L = [p \in D |-> L[p]]
    BY <1>2
  <2>4. L = [p \in D |-> IF HasNext(p[1]) /\ Len(p[2]) < max
                        THEN L[<<Advance(p[1]), Append(p[2], NextChar(p[1]))>>]
                        ELSE p[2]]
    BY <2>2, <2>3, Zenon
  <2>. QED  BY <2>1, <2>4
<1>6. PICK f : f = (CHOOSE g : g = F(g)) /\ Load(rec, max) = f[<<rec, <<>>>>]
  BY DEF Load
<1>7. f = F(f)
  BY <1>5, <1>6
<1>8. \A p \in D : f[p] = IF HasNext(p[1]) /\ Len(p[2]) < max
                            THEN f[<<Advance(p[1]), Append(p[2], NextChar(p[1]))>>]
                            ELSE p[2]
  BY <1>1, <1>7
<1>9. PICK G : G = {p \in D : f[p] = L[p]}
  OBVIOUS
<1>10. ASSUME NEW p \in D, \A q \in D : size[q] < size[p] => q \in G PROVE p \in G
  <2>1. CASE HasNext(p[1]) /\ Len(p[2]) < max
    <3>1. PICK q : q = <<Advance(p[1]), Append(p[2], NextChar(p[1]))>>
      OBVIOUS
    <3>2. q \in D /\ L[p] = L[q] /\ size[q] < size[p]
      BY <1>4, <2>1, <3>1
    <3>3. f[p] = f[q]
      BY <1>8, <2>1, <3>1
    <3>. QED  BY <1>9, <1>10, <3>2, <3>3
  <2>2. CASE ~ (HasNext(p[1]) /\ Len(p[2]) < max)
    BY <1>4, <1>8, <1>9, <2>2
  <2>. QED  BY <2>1, <2>2
<1>11. \A p \in D : size[p] \in Nat
  BY <1>4
<1>12. D \subseteq G
  BY <1>10, <1>11, Descent
<1>13. PICK p : p = <<rec, <<>>>>
  OBVIOUS
<1>14. p \in D /\ p[1] = rec /\ p[2] = <<>> /\ <<>> \in Seq(Char) /\ Len(<<>>) = 0
  <2>1. <<>> \in Seq(Char) /\ Len(<<>>) = 0
    OBVIOUS
  <2>2. p[1] = rec /\ p[2] = <<>>
    BY <1>13
  <2>3. p \in D
    BY <1>1, <1>13, <2>1
  <2>. QED  BY <2>1, <2>2, <2>3
<1>15. Load(rec, max) = L[p]
  BY <1>6, <1>9, <1>12, <1>13, <1>14
<1>16. Rest(T, rec) \in Seq(Char)
  BY ReaderIs
<1>17. CASE 0 < max
  <2>1. max - 0 = max
    OBVIOUS
  <2>2. L[p] = <<>> \o Upto(Rest(T, rec), max)
    BY <1>2, <1>14, <1>17, <2>1
  <2>3. Upto(Rest(T, rec), max) \in Seq(Char)
    BY <1>16, UptoIs
  <2>. QED  BY <1>15, <2>2, <2>3, ConcatEmptySeq
<1>18. CASE ~ (0 < max)
  <2>1. max = 0
    BY <1>18
  <2>2. L[p] = <<>>
    BY <1>2, <1>14, <1>18
  <2>. QED  BY <1>15, <1>16, <2>1, <2>2, UptoIs
<1>. QED  BY <1>17, <1>18

LEMMA TextIs ==
  ASSUME NEW T, Steady(T), NEW r \in DOMAIN rows
  PROVE  Text(r) = T[r]
<1>1. Read(r) \in StringRecord /\ Rest(T, Read(r)) = T[r] /\ T[r] \in Seq(Char)
  BY ReadIs
<1>2. Size(r) + 1 = Len(T[r]) + 1
  BY SizeIs
<1>3. PICK n : n = Len(T[r]) + 1
  OBVIOUS
<1>4. n \in Nat /\ n >= Len(T[r])
  BY <1>1, <1>3
<1>5. Text(r) = Load(Read(r), n)
  BY <1>2, <1>3 DEF Text
<1>6. Text(r) = Upto(T[r], n)
  BY <1>1, <1>4, <1>5, LoadIs
<1>. QED  BY <1>1, <1>4, <1>6, UptoIs

-----------------------------------------------------------------------------
(* The order of strings, and the two comparisons.                           *)

LEMMA CharsAreNumbers == Char \subseteq Int
<1>1. ASSUME NEW s \in Str, NEW i \in DOMAIN s PROVE s[i] \in Int
  BY StrAssumption
<1>. QED  BY <1>1 DEF Char

\* x is the number a followed by u.
Begins(x, a, u) ==
  /\ x \in Seq(Int) /\ a \in Int /\ u \in Seq(Int)
  /\ Len(x) = 1 + Len(u) /\ x[1] = a /\ \A i \in 1 .. Len(u) : x[i + 1] = u[i]

LEMMA ConsBegins ==
  ASSUME NEW a \in Int, NEW u \in Seq(Int)
  PROVE  Begins(<<a>> \o u, a, u)
<1>1. PICK w : w = <<a>> \o u
  OBVIOUS
<1>2. <<a>> \in Seq(Int) /\ Len(<<a>>) = 1 /\ Len(u) \in Nat
  OBVIOUS
<1>3. w \in Seq(Int) /\ Len(w) = 1 + Len(u) /\ \A i \in 1 .. 1 + Len(u) : w[i] = IF i <= 1 THEN a ELSE u[i - 1]
  BY <1>1, <1>2, ConcatProperties
<1>4. ASSUME NEW i \in 1 .. Len(u) PROVE w[i + 1] = u[i]
  <2>1. i + 1 \in 1 .. 1 + Len(u) /\ ~ (i + 1 <= 1) /\ (i + 1) - 1 = i
    BY <1>2
  <2>. QED  BY <1>3, <2>1
<1>5. w[1] = a
  BY <1>2, <1>3
<1>. QED  BY <1>1, <1>3, <1>4, <1>5 DEF Begins

LEMMA BelowBegins ==
  ASSUME NEW x, NEW a, NEW u, NEW y, NEW b, NEW v, Begins(x, a, u), Begins(y, b, v)
  PROVE  /\ Below(x, y) <=> a < b \/ (a = b /\ Below(u, v))
         /\ x = y <=> a = b /\ u = v
<1>1. /\ x \in Seq(Int) /\ a \in Int /\ u \in Seq(Int) /\ Len(u) \in Nat
      /\ Len(x) = 1 + Len(u) /\ x[1] = a /\ \A i \in 1 .. Len(u) : x[i + 1] = u[i]
      /\ y \in Seq(Int) /\ b \in Int /\ v \in Seq(Int) /\ Len(v) \in Nat
      /\ Len(y) = 1 + Len(v) /\ y[1] = b /\ \A i \in 1 .. Len(v) : y[i + 1] = v[i]
  BY DEF Begins
<1>0. Len(u) \in Nat /\ Len(v) \in Nat /\ Len(x) = 1 + Len(u) /\ Len(y) = 1 + Len(v)
  BY <1>1
<1>2. ASSUME Below(x, y) PROVE a < b \/ (a = b /\ Below(u, v))
  <2>1. PICK n \in 0 .. Len(x) : /\ \A i \in 1 .. n : i <= Len(y) /\ x[i] = y[i]
                                 /\ n < Len(y) /\ (n < Len(x) => x[n + 1] < y[n + 1])
    BY <1>2 DEF Below
  <2>2. CASE n = 0
    <3>1. n < Len(x) /\ n + 1 = 1
      BY <1>1, <2>2
    <3>. QED  BY <1>1, <2>1, <3>1
  <2>3. CASE n # 0
    <3>1. PICK m : m = n - 1
      OBVIOUS
    <3>2. m \in 0 .. Len(u) /\ n = m + 1 /\ m < Len(v) /\ n \in Nat /\ m \in Nat
      BY <1>1, <2>1, <2>3, <3>1
    <3>3. a = b
      <4>1. 1 \in 1 .. n
        BY <3>2
      <4>. QED  BY <1>1, <2>1, <4>1
    <3>4. ASSUME NEW i \in 1 .. m PROVE i <= Len(v) /\ u[i] = v[i]
      <4>1. i + 1 \in 1 .. n /\ i \in 1 .. Len(u) /\ i \in 1 .. Len(v) /\ i <= Len(v)
        BY <1>1, <3>2
      <4>2. x[i + 1] = y[i + 1] /\ x[i + 1] = u[i] /\ y[i + 1] = v[i]
        BY <1>1, <2>1, <4>1
      <4>. QED  BY <4>1, <4>2
    <3>5. ASSUME m < Len(u) PROVE u[m + 1] < v[m + 1]
      <4>1. n < Len(x) /\ n \in 1 .. Len(u) /\ n \in 1 .. Len(v)
        BY <1>0, <3>2, <3>5
      <4>2. x[n + 1] < y[n + 1] /\ x[n + 1] = u[n] /\ y[n + 1] = v[n]
        BY <1>1, <2>1, <4>1
      <4>. QED  BY <3>2, <4>2
    <3>. QED  BY <3>2, <3>3, <3>4, <3>5 DEF Below
  <2>. QED  BY <2>2, <2>3
<1>3. ASSUME a < b PROVE Below(x, y)
  <2>1. 0 \in 0 .. Len(x) /\ 0 < Len(y) /\ 0 + 1 = 1 /\ \A i \in 1 .. 0 : FALSE
    BY <1>1
  <2>2. x[0 + 1] < y[0 + 1]
    BY <1>1, <1>3, <2>1
  <2>. QED  BY <2>1, <2>2 DEF Below
<1>4. ASSUME a = b, Below(u, v) PROVE Below(x, y)
  <2>1. PICK m \in 0 .. Len(u) : /\ \A i \in 1 .. m : i <= Len(v) /\ u[i] = v[i]
                                 /\ m < Len(v) /\ (m < Len(u) => u[m + 1] < v[m + 1])
    BY <1>4 DEF Below
  <2>2. PICK n : n = m + 1
    OBVIOUS
  <2>3. n \in 0 .. Len(x) /\ n < Len(y) /\ m \in Nat /\ m <= Len(u) /\ m < Len(v)
    BY <1>1, <2>1, <2>2
  <2>4. ASSUME NEW i \in 1 .. n PROVE i <= Len(y) /\ x[i] = y[i]
    <3>1. i <= Len(y)
      BY <1>1, <2>1, <2>2, <2>3
    <3>2. CASE i = 1
      BY <1>1, <1>4, <3>1, <3>2
    <3>3. CASE i # 1
      <4>1. PICK j : j = i - 1
        OBVIOUS
      <4>2. j \in 1 .. m /\ i = j + 1 /\ j \in 1 .. Len(u) /\ j \in 1 .. Len(v)
        BY <1>0, <2>2, <2>3, <3>3, <4>1
      <4>3. u[j] = v[j] /\ x[j + 1] = u[j] /\ y[j + 1] = v[j]
        BY <1>1, <2>1, <4>2
      <4>. QED  BY <3>1, <4>2, <4>3
    <3>. QED  BY <3>2, <3>3
  <2>5. ASSUME n < Len(x) PROVE x[n + 1] < y[n + 1]
    <3>1. m < Len(u) /\ n \in 1 .. Len(u) /\ n \in 1 .. Len(v)
      BY <1>0, <2>2, <2>3, <2>5
    <3>2. u[n] < v[n]
      BY <2>1, <2>2, <3>1
    <3>3. x[n + 1] = u[n] /\ y[n + 1] = v[n]
      BY <1>1, <3>1
    <3>. QED  BY <3>2, <3>3
  <2>. QED  BY <2>3, <2>4, <2>5 DEF Below
<1>5. ASSUME x = y PROVE a = b /\ u = v
  <2>1. a = b /\ Len(u) = Len(v)
    BY <1>1, <1>5
  <2>2. \A i \in 1 .. Len(u) : u[i] = v[i]
    BY <1>1, <1>5, <2>1
  <2>. QED  BY <1>1, <2>1, <2>2, SeqEqual
<1>6. ASSUME a = b, u = v PROVE x = y
  <2>1. ASSUME NEW i \in 1 .. Len(x) PROVE x[i] = y[i]
    <3>1. CASE i = 1
      BY <1>1, <1>6, <3>1
    <3>2. CASE i # 1
      <4>1. PICK j : j = i - 1
        OBVIOUS
      <4>2. j \in 1 .. Len(u) /\ i = j + 1
        BY <1>1, <3>2, <4>1
      <4>3. x[j + 1] = u[j] /\ y[j + 1] = v[j]
        BY <1>1, <1>6, <4>2
      <4>. QED  BY <1>6, <4>2, <4>3
    <3>. QED  BY <3>1, <3>2
  <2>2. Len(x) = Len(y)
    BY <1>1, <1>6
  <2>. QED  BY <1>1, <2>1, <2>2, SeqEqual
<1>. QED  BY <1>2, <1>3, <1>4, <1>5, <1>6

LEMMA OrderBegins ==
  ASSUME NEW x, NEW a, NEW u, NEW y, NEW b, NEW v, Begins(x, a, u), Begins(y, b, v)
  PROVE  Order(x, y) = IF a > b THEN 1 ELSE IF a < b THEN -1 ELSE Order(u, v)
<1>1. a \in Int /\ b \in Int
  BY DEF Begins
<1>2. /\ Below(x, y) <=> a < b \/ (a = b /\ Below(u, v))
      /\ x = y <=> a = b /\ u = v
  BY BelowBegins
<1>3. CASE a > b
  BY <1>1, <1>2, <1>3 DEF Order
<1>4. CASE a < b
  BY <1>1, <1>2, <1>4 DEF Order
<1>5. CASE a = b
  <2>1. (Below(x, y) <=> Below(u, v)) /\ (x = y <=> u = v)
    BY <1>1, <1>2, <1>5
  <2>2. Order(x, y) = Order(u, v)
    BY <2>1 DEF Order
  <2>. QED  BY <1>1, <1>5, <2>2
<1>. QED  BY <1>1, <1>3, <1>4, <1>5

LEMMA OrderEmpty ==
  ASSUME NEW x \in Seq(Int), NEW y \in Seq(Int)
  PROVE  /\ x # <<>> /\ y = <<>> => Order(x, y) = 1
         /\ x = <<>> /\ y # <<>> => Order(x, y) = -1
         /\ x = <<>> /\ y = <<>> => Order(x, y) = 0
<1>1. ASSUME y = <<>> PROVE ~ Below(x, y)
  <2>1. Len(y) = 0
    BY <1>1
  <2>. QED  BY <2>1 DEF Below
<1>2. ASSUME x = <<>>, y # <<>> PROVE Below(x, y)
  <2>1. Len(x) = 0 /\ Len(y) > 0 /\ 0 \in 0 .. Len(x) /\ \A i \in 1 .. 0 : FALSE
    BY <1>2
  <2>. QED  BY <2>1 DEF Below
<1>. QED  BY <1>1, <1>2 DEF Order

LEMMA CompareIs ==
  ASSUME NEW T, Steady(T), NEW p \in DOMAIN rows, NEW q \in DOMAIN rows
  PROVE  Compare(p, q) = Order(T[p], T[q])
<1> DEFINE F(f) == [at \in StringRecord \X StringRecord |->
        IF HasNext(at[1]) /\ HasNext(at[2])
          THEN IF NextChar(at[1]) > NextChar(at[2]) THEN 1
               ELSE IF NextChar(at[1]) < NextChar(at[2]) THEN -1
               ELSE f[<<Advance(at[1]), Advance(at[2])>>]
          ELSE IF HasNext(at[1]) THEN 1 ELSE IF HasNext(at[2]) THEN -1 ELSE 0]
<1>1. PICK D : D = StringRecord \X StringRecord
  OBVIOUS
<1>2. PICK L : L = [at \in D |-> Order(Rest(T, at[1]), Rest(T, at[2]))]
  OBVIOUS
<1>3. PICK size : size = [at \in D |-> Len(Rest(T, at[1]))]
  OBVIOUS
<1>4. ASSUME NEW at \in D
      PROVE  /\ L[at] = IF HasNext(at[1]) /\ HasNext(at[2])
                          THEN IF NextChar(at[1]) > NextChar(at[2]) THEN 1
                               ELSE IF NextChar(at[1]) < NextChar(at[2]) THEN -1
                               ELSE L[<<Advance(at[1]), Advance(at[2])>>]
                          ELSE IF HasNext(at[1]) THEN 1 ELSE IF HasNext(at[2]) THEN -1 ELSE 0
             /\ HasNext(at[1]) /\ HasNext(at[2]) =>
                  /\ <<Advance(at[1]), Advance(at[2])>> \in D
                  /\ size[<<Advance(at[1]), Advance(at[2])>>] < size[at]
             /\ size[at] \in Nat
  <2>1. PICK a \in StringRecord, b \in StringRecord : at = <<a, b>>
    BY <1>1
  <2>2. at[1] = a /\ at[2] = b
    BY <2>1
  <2>3. PICK x, y : x = Rest(T, a) /\ y = Rest(T, b)
    OBVIOUS
  <2>4. x \in Seq(Char) /\ y \in Seq(Char) /\ (HasNext(a) <=> x # <<>>) /\ (HasNext(b) <=> y # <<>>)
    BY <2>3, ReaderIs
  <2>5. x \in Seq(Int) /\ y \in Seq(Int)
    BY <2>4, CharsAreNumbers, SeqMonotonic
  <2>6. L[at] = Order(x, y) /\ size[at] = Len(x) /\ size[at] \in Nat
    BY <1>2, <1>3, <2>2, <2>3, <2>4
  <2>7. CASE HasNext(a) /\ HasNext(b)
    <3>1. PICK c, d, k, l, u, v : /\ c = Advance(a) /\ d = Advance(b) /\ k = NextChar(a) /\ l = NextChar(b)
                                  /\ u = Rest(T, c) /\ v = Rest(T, d)
      OBVIOUS
    <3>2. c \in StringRecord /\ d \in StringRecord /\ k \in Char /\ l \in Char /\ x = <<k>> \o u /\ y = <<l>> \o v
      BY <2>3, <2>7, <3>1, ReaderIs
    <3>3. u \in Seq(Char) /\ v \in Seq(Char)
      BY <3>1, <3>2, ReaderIs
    <3>4. u \in Seq(Int) /\ v \in Seq(Int) /\ k \in Int /\ l \in Int
      BY <3>2, <3>3, CharsAreNumbers, SeqMonotonic
    <3>5. Begins(x, k, u) /\ Begins(y, l, v)
      BY <3>2, <3>4, ConsBegins
    <3>6. Order(x, y) = IF k > l THEN 1 ELSE IF k < l THEN -1 ELSE Order(u, v)
      BY <3>5, OrderBegins
    <3>7. <<c, d>> \in D /\ L[<<c, d>>] = Order(u, v) /\ size[<<c, d>>] = Len(u)
      <4>1. <<c, d>> \in D
        BY <1>1, <3>2
      <4>. QED  BY <1>2, <1>3, <3>1, <4>1
    <3>8. Len(u) < Len(x)
      BY <3>5 DEF Begins
    <3>. QED  BY <2>2, <2>6, <2>7, <3>1, <3>6, <3>7, <3>8
  <2>8. CASE ~ (HasNext(a) /\ HasNext(b))
    BY <2>2, <2>4, <2>5, <2>6, <2>8, OrderEmpty
  <2>. QED  BY <2>7, <2>8
<1>5. L = F(L)
  <2>1. DOMAIN L = D /\ L = [at \in D |-> L[at]]
    BY <1>2
  <2>. QED  BY <1>1, <1>4, <2>1, Zenon
<1>6. PICK f : f = (CHOOSE g : g = F(g)) /\ Compare(p, q) = f[<<Read(p), Read(q)>>]
  BY DEF Compare
<1>7. f = F(f)
  BY <1>5, <1>6
<1>8. \A at \in D : f[at] = IF HasNext(at[1]) /\ HasNext(at[2])
                              THEN IF NextChar(at[1]) > NextChar(at[2]) THEN 1
                                   ELSE IF NextChar(at[1]) < NextChar(at[2]) THEN -1
                                   ELSE f[<<Advance(at[1]), Advance(at[2])>>]
                              ELSE IF HasNext(at[1]) THEN 1 ELSE IF HasNext(at[2]) THEN -1 ELSE 0
  BY <1>1, <1>7
<1>9. PICK G : G = {at \in D : f[at] = L[at]}
  OBVIOUS
<1>10. ASSUME NEW at \in D, \A to \in D : size[to] < size[at] => to \in G PROVE at \in G
  <2>1. CASE HasNext(at[1]) /\ HasNext(at[2])
    <3>1. PICK to : to = <<Advance(at[1]), Advance(at[2])>>
      OBVIOUS
    <3>2. to \in D /\ size[to] < size[at]
      BY <1>4, <2>1, <3>1
    <3>3. f[to] = L[to]
      BY <1>9, <1>10, <3>2
    <3>. QED  BY <1>4, <1>8, <1>9, <2>1, <3>1, <3>3
  <2>2. CASE ~ (HasNext(at[1]) /\ HasNext(at[2]))
    BY <1>4, <1>8, <1>9, <2>2
  <2>. QED  BY <2>1, <2>2
<1>11. \A at \in D : size[at] \in Nat
  BY <1>4
<1>12. D \subseteq G
  BY <1>10, <1>11, Descent
<1>13. Read(p) \in StringRecord /\ Read(q) \in StringRecord /\ Rest(T, Read(p)) = T[p] /\ Rest(T, Read(q)) = T[q]
  BY ReadIs
<1>14. PICK at : at = <<Read(p), Read(q)>>
  OBVIOUS
<1>15. at \in D /\ at[1] = Read(p) /\ at[2] = Read(q)
  BY <1>1, <1>13, <1>14
<1>16. Compare(p, q) = L[at]
  BY <1>6, <1>9, <1>12, <1>14, <1>15
<1>. QED  BY <1>2, <1>13, <1>15, <1>16

\* A loop over numbers that goes on within C.
Loops(f, C) == \A i \in Nat : f[i] = IF i \in C THEN f[i + 1] ELSE i

LEMMA OneLoop ==
  ASSUME NEW C, NEW n \in Nat, \A i \in C : i < n, NEW f, Loops(f, C), NEW g, Loops(g, C)
  PROVE  \A i \in Nat : f[i] = g[i]
<1>. (\A i \in Nat : f[i] = IF i \in C THEN f[i + 1] ELSE i) /\ (\A i \in Nat : g[i] = IF i \in C THEN g[i + 1] ELSE i)
  BY DEF Loops
<1>1. PICK size : size = [i \in Nat |-> IF i < n THEN n - i ELSE 0]
  OBVIOUS
<1>2. PICK N, G : N = Nat /\ G = {i \in Nat : f[i] = g[i]}
  OBVIOUS
<1>3. ASSUME NEW i \in N, \A k \in N : size[k] < size[i] => k \in G PROVE i \in G
  <2>1. CASE i \in C
    <3>1. i + 1 \in N /\ size[i + 1] < size[i]
      BY <1>1, <1>2, <2>1
    <3>2. f[i + 1] = g[i + 1]
      BY <1>2, <1>3, <3>1
    <3>. QED  BY <1>2, <2>1, <3>2
  <2>2. CASE i \notin C
    BY <1>2, <2>2
  <2>. QED  BY <2>1, <2>2
<1>4. \A i \in N : size[i] \in Nat
  BY <1>1, <1>2
<1>5. N \subseteq G
  BY <1>3, <1>4, Descent
<1>. QED  BY <1>2, <1>5

LEMMA MeetIs ==
  ASSUME NEW t \in Seq(Int), NEW s \in Seq(Int)
  PROVE  \E i \in Nat : /\ i = Meet(t, s) /\ i <= Len(t) /\ i <= Len(s)
                        /\ \A j \in 1 .. i : t[j] = s[j]
                        /\ i < Len(t) /\ i < Len(s) => t[i + 1] # s[i + 1]
<1> DEFINE F(f) == [i \in Nat |-> IF i < Len(t) /\ i < Len(s) /\ t[i + 1] = s[i + 1] THEN f[i + 1] ELSE i]
<1>1. PICK C \in SUBSET Nat : C = {i \in Nat : i < Len(t) /\ i < Len(s) /\ t[i + 1] = s[i + 1]}
  OBVIOUS
<1>2. Len(t) \in Nat /\ Len(s) \in Nat
  OBVIOUS
<1>3. ASSUME NEW i \in Nat PROVE \E n \in Nat \ C : i <= n /\ \A m \in Nat \ C : i <= m => n <= m
  <2>1. PICK S : S = {n \in Nat \ C : i <= n}
    OBVIOUS
  <2>2. PICK n \in Nat : i <= n /\ ~ (n < Len(t))
    <3>1. i <= i + Len(t) /\ ~ (i + Len(t) < Len(t)) /\ i + Len(t) \in Nat
      BY <1>2
    <3>. QED  BY <3>1
  <2>3. S \in SUBSET Nat /\ n \in S
    BY <1>1, <2>1, <2>2
  <2>4. PICK k \in S : \A m \in S : k <= m
    BY <2>3, Least
  <2>. QED  BY <2>1, <2>4
<1>4. PICK L : L = [i \in Nat |-> CHOOSE n \in Nat \ C : i <= n /\ \A m \in Nat \ C : i <= m => n <= m]
  OBVIOUS
<1>5. ASSUME NEW i \in Nat
      PROVE  L[i] \in Nat \ C /\ i <= L[i] /\ \A m \in Nat \ C : i <= m => L[i] <= m
  BY <1>3, <1>4
<1>6. ASSUME NEW i \in Nat PROVE L[i] = IF i \in C THEN L[i + 1] ELSE i
  <2>1. CASE i \in C
    <3>1. PICK a, b : a = L[i] /\ b = L[i + 1]
      OBVIOUS
    <3>2. i + 1 \in Nat
      OBVIOUS
    <3>3. a \in Nat \ C /\ i <= a /\ \A m \in Nat \ C : i <= m => a <= m
      BY <1>5, <3>1
    <3>4. b \in Nat \ C /\ i + 1 <= b /\ \A m \in Nat \ C : i + 1 <= m => b <= m
      BY <1>5, <3>1, <3>2
    <3>5. i # a
      BY <2>1, <3>3
    <3>6. i + 1 <= a /\ i <= b
      BY <3>3, <3>4, <3>5
    <3>7. a <= b /\ b <= a
      BY <3>3, <3>4, <3>6
    <3>8. a = b
      BY <3>3, <3>4, <3>7
    <3>. QED  BY <2>1, <3>1, <3>8
  <2>2. CASE i \notin C
    <3>1. L[i] \in Nat /\ i <= L[i] /\ L[i] <= i
      BY <1>5, <2>2
    <3>. QED  BY <2>2, <3>1
  <2>. QED  BY <2>1, <2>2
<1>7. L = F(L)
  <2>1. \A i \in Nat : i \in C <=> i < Len(t) /\ i < Len(s) /\ t[i + 1] = s[i + 1]
    BY <1>1
  <2>2. DOMAIN L = Nat /\ L = [i \in Nat |-> L[i]]
    BY <1>4
  <2>3. \A i \in Nat : L[i] = IF i < Len(t) /\ i < Len(s) /\ t[i + 1] = s[i + 1] THEN L[i + 1] ELSE i
    BY <1>6, <2>1
  <2>. QED  BY <2>2, <2>3, Zenon
<1>8. PICK f : f = (CHOOSE g : g = F(g)) /\ Meet(t, s) = f[0]
  BY DEF Meet
<1>9. f = F(f)
  BY <1>7, <1>8
<1>10. \A i \in Nat : f[i] = IF i \in C THEN f[i + 1] ELSE i
  BY <1>1, <1>9
<1>15. \A i \in Nat : f[i] = L[i]
  <2>1. PICK n \in Nat : \A i \in C : i < n
    BY <1>1, <1>2
  <2>2. Loops(f, C) /\ Loops(L, C)
    BY <1>6, <1>10 DEF Loops
  <2>. QED  BY <2>1, <2>2, OneLoop
<1>16. PICK i : i = Meet(t, s)
  OBVIOUS
<1>17. i \in Nat \ C /\ \A m \in Nat \ C : i <= m
  <2>1. 0 \in Nat /\ \A m \in Nat : 0 <= m
    OBVIOUS
  <2>2. i = L[0]
    BY <1>8, <1>15, <1>16, <2>1
  <2>. QED  BY <1>5, <2>1, <2>2
<1>18. i <= Len(t) /\ i <= Len(s)
  <2>1. Len(t) \notin C /\ Len(s) \notin C
    BY <1>1, <1>2
  <2>. QED  BY <1>2, <1>17, <2>1
<1>19. ASSUME NEW j \in 1 .. i PROVE t[j] = s[j]
  <2>1. PICK k : k = j - 1
    OBVIOUS
  <2>2. k \in Nat /\ ~ (i <= k) /\ j = k + 1
    BY <1>17, <2>1
  <2>3. k \in C
    BY <1>17, <2>2
  <2>. QED  BY <1>1, <2>2, <2>3
<1>20. i < Len(t) /\ i < Len(s) => t[i + 1] # s[i + 1]
  BY <1>1, <1>17
<1>. QED  BY <1>16, <1>17, <1>18, <1>19, <1>20

\* A string that agrees with another up to a place where it is less, or ends.
LEMMA OrderAt ==
  ASSUME NEW t \in Seq(Int), NEW x \in Seq(Int), NEW i \in Nat, i <= Len(t), i <= Len(x),
         \A j \in 1 .. i : t[j] = x[j]
  PROVE  /\ i < Len(x) /\ (i < Len(t) => t[i + 1] < x[i + 1]) => Order(t, x) = -1
         /\ i < Len(t) /\ (i < Len(x) => t[i + 1] > x[i + 1]) => Order(t, x) = 1
         /\ i = Len(t) /\ i = Len(x) => Order(t, x) = 0
<1>1. Len(t) \in Nat /\ Len(x) \in Nat
  OBVIOUS
<1>2. ASSUME i < Len(x), i < Len(t) => t[i + 1] < x[i + 1] PROVE Order(t, x) = -1
  <2>1. i \in 0 .. Len(t) /\ \A j \in 1 .. i : j <= Len(x)
    BY <1>1
  <2>2. Below(t, x)
    BY <1>2, <2>1 DEF Below
  <2>. QED  BY <2>2 DEF Order
<1>3. ASSUME i < Len(t), i < Len(x) => t[i + 1] > x[i + 1] PROVE Order(t, x) = 1
  <2>1. ASSUME NEW n \in 0 .. Len(t), \A j \in 1 .. n : j <= Len(x) /\ t[j] = x[j],
               n < Len(x), n < Len(t) => t[n + 1] < x[n + 1]
        PROVE  FALSE
    <3>1. n \in Nat
      OBVIOUS
    <3>2. CASE n < i
      <4>1. n + 1 \in 1 .. i /\ n < Len(t)
        BY <3>1, <3>2, <1>1
      <4>2. t[n + 1] = x[n + 1] /\ t[n + 1] < x[n + 1] /\ t[n + 1] \in Int
        <5>1. n + 1 \in 1 .. Len(t)
          BY <1>1, <4>1
        <5>. QED  BY <2>1, <4>1, <5>1
      <4>. QED  BY <4>2
    <3>3. CASE n = i
      <4>1. i + 1 \in 1 .. Len(t) /\ i + 1 \in 1 .. Len(x)
        BY <1>1, <1>3, <2>1, <3>3
      <4>2. t[i + 1] \in Int /\ x[i + 1] \in Int /\ t[i + 1] > x[i + 1] /\ t[i + 1] < x[i + 1]
        BY <1>3, <2>1, <3>3, <4>1
      <4>. QED  BY <4>2
    <3>4. CASE n > i
      <4>1. i + 1 \in 1 .. n
        BY <3>1, <3>4
      <4>2. i + 1 <= Len(x) /\ t[i + 1] = x[i + 1]
        BY <2>1, <4>1
      <4>3. i < Len(x) /\ i + 1 \in 1 .. Len(t)
        BY <1>1, <1>3, <4>2
      <4>4. t[i + 1] > x[i + 1] /\ t[i + 1] \in Int
        BY <1>3, <4>3
      <4>. QED  BY <4>2, <4>4
    <3>. QED  BY <3>1, <3>2, <3>3, <3>4
  <2>2. ~ Below(t, x)
    BY <2>1 DEF Below
  <2>3. t # x
    <3>. SUFFICES ASSUME t = x PROVE FALSE
      OBVIOUS
    <3>1. i < Len(x) /\ i + 1 \in 1 .. Len(t)
      BY <1>1, <1>3
    <3>2. t[i + 1] > x[i + 1] /\ t[i + 1] = x[i + 1] /\ t[i + 1] \in Int
      BY <1>3, <3>1
    <3>. QED  BY <3>2
  <2>. QED  BY <2>2, <2>3 DEF Order
<1>4. ASSUME i = Len(t), i = Len(x) PROVE Order(t, x) = 0
  <2>1. t = x
    BY <1>4, SeqEqual
  <2>2. ~ Below(t, x)
    <3>. SUFFICES ASSUME NEW n \in 0 .. Len(t), n < Len(x), n < Len(t) => t[n + 1] < x[n + 1] PROVE FALSE
      BY DEF Below
    <3>1. n + 1 \in 1 .. Len(t) /\ n < Len(t)
      BY <1>4
    <3>2. t[n + 1] < x[n + 1] /\ t[n + 1] = x[n + 1] /\ t[n + 1] \in Int
      BY <2>1, <3>1
    <3>. QED  BY <3>2
  <2>. QED  BY <2>1, <2>2 DEF Order
<1>. QED  BY <1>2, <1>3, <1>4

LEMMA CompareKeyIs ==
  ASSUME NEW T, Steady(T), NEW t \in Str, NEW r \in DOMAIN rows
  PROVE  CompareKey(t, r) = Order(t, T[r])
<1>1. Read(r) \in StringRecord /\ Rest(T, Read(r)) = T[r] /\ T[r] \in Seq(Char)
  BY ReadIs
<1>2. PICK x \in Seq(Int) : x = T[r]
  BY <1>1, CharsAreNumbers, SeqMonotonic
<1>3. t \in Seq(Int) /\ Len(t) \in Nat /\ Len(x) \in Nat
  BY StrAssumption
<1>4. PICK n : n = Len(t) + 2
  OBVIOUS
<1>5. n \in Nat
  BY <1>3, <1>4
<1>6. PICK s : s = Load(Read(r), n)
  OBVIOUS
<1>7. s = Upto(x, n)
  BY <1>1, <1>2, <1>5, <1>6, LoadIs
<1>8. /\ s \in Seq(Int) /\ Len(s) = (IF n < Len(x) THEN n ELSE Len(x)) /\ Len(s) \in Nat
      /\ \A j \in 1 .. Len(s) : s[j] = x[j]
  <2>1. s \in Seq(Int) /\ Len(s) = (IF n < Len(x) THEN n ELSE Len(x)) /\ \A j \in 1 .. Len(s) : s[j] = x[j]
    BY <1>5, <1>7, UptoIs
  <2>. QED  BY <2>1
<1>9. PICK i \in Nat : /\ i = Meet(t, s) /\ i <= Len(t) /\ i <= Len(s)
                       /\ \A j \in 1 .. i : t[j] = s[j]
                       /\ i < Len(t) /\ i < Len(s) => t[i + 1] # s[i + 1]
  BY <1>3, <1>8, MeetIs
<1>10. CompareKey(t, r) = IF i < Len(t) /\ i < Len(s) THEN IF t[i + 1] > s[i + 1] THEN 1 ELSE -1
                          ELSE IF Len(t) > Len(s) THEN 1 ELSE IF Len(t) < Len(s) THEN -1 ELSE 0
  BY <1>4, <1>6, <1>9 DEF CompareKey
<1>11. Len(s) <= Len(x) /\ i <= Len(x) /\ (Len(s) < n => Len(s) = Len(x))
  <2>1. i <= Len(s) /\ i \in Nat
    BY <1>9
  <2>. QED  BY <1>3, <1>5, <1>8, <2>1
<1>12. \A j \in 1 .. i : t[j] = x[j]
  <2>1. ASSUME NEW j \in 1 .. i PROVE t[j] = x[j]
    <3>1. j \in 1 .. Len(s)
      BY <1>8, <1>9
    <3>. QED  BY <1>8, <1>9, <3>1
  <2>. QED  BY <2>1
<1>13. /\ i < Len(x) /\ (i < Len(t) => t[i + 1] < x[i + 1]) => Order(t, x) = -1
       /\ i < Len(t) /\ (i < Len(x) => t[i + 1] > x[i + 1]) => Order(t, x) = 1
       /\ i = Len(t) /\ i = Len(x) => Order(t, x) = 0
  BY <1>3, <1>9, <1>11, <1>12, OrderAt
<1>14. i <= Len(t) /\ i <= Len(s) /\ i \in Nat
  BY <1>9
<1>15. CASE i < Len(t) /\ i < Len(s)
  <2>1. i + 1 \in 1 .. Len(t) /\ i + 1 \in 1 .. Len(s) /\ i < Len(x)
    BY <1>3, <1>8, <1>11, <1>14, <1>15
  <2>2. t[i + 1] \in Int /\ s[i + 1] \in Int /\ s[i + 1] = x[i + 1] /\ t[i + 1] # s[i + 1]
    BY <1>3, <1>8, <1>9, <1>15, <2>1
  <2>3. CASE t[i + 1] > s[i + 1]
    BY <1>2, <1>10, <1>13, <1>15, <2>1, <2>2, <2>3
  <2>4. CASE t[i + 1] < s[i + 1]
    <3>1. ~ (t[i + 1] > s[i + 1])
      BY <2>2, <2>4
    <3>. QED  BY <1>2, <1>10, <1>13, <1>15, <2>1, <2>2, <2>4, <3>1
  <2>. QED  BY <2>2, <2>3, <2>4
<1>16. CASE ~ (i < Len(t) /\ i < Len(s))
  <2>1. CASE Len(t) > Len(s)
    <3>1. i = Len(s) /\ Len(s) = Len(x) /\ i < Len(t)
      BY <1>3, <1>4, <1>8, <1>11, <1>14, <1>16, <2>1
    <3>2. ~ (i < Len(x))
      BY <1>3, <3>1
    <3>. QED  BY <1>2, <1>10, <1>13, <1>16, <2>1, <3>1, <3>2
  <2>2. CASE Len(t) < Len(s)
    <3>1. i = Len(t) /\ i < Len(x) /\ ~ (i < Len(t)) /\ ~ (Len(t) > Len(s))
      BY <1>3, <1>8, <1>11, <1>14, <1>16, <2>2
    <3>. QED  BY <1>2, <1>10, <1>13, <1>16, <2>2, <3>1
  <2>3. CASE Len(t) = Len(s)
    <3>1. i = Len(t) /\ i = Len(x) /\ ~ (Len(t) > Len(s)) /\ ~ (Len(t) < Len(s))
      BY <1>3, <1>4, <1>8, <1>11, <1>14, <1>16, <2>3
    <3>. QED  BY <1>2, <1>10, <1>13, <1>16, <3>1
  <2>. QED  BY <1>3, <1>8, <2>1, <2>2, <2>3
<1>. QED  BY <1>15, <1>16

-----------------------------------------------------------------------------
(* What is stored is what was asked to be stored.                           *)

\* The text from each chunk on, which is one of the strings where one begins,
\* and what the loop of write_string has written of its string so far.
Tells(T) ==
  /\ Steady(T)
  /\ \A r \in held : T[r] \in Str
  /\ job.kind = "write" => After(T, job.rid) = SubSeq(job.str, MaxLen * job.left + 1, Len(job.str))

\* What a step changes of the stored strings, T before it and U after it.
Moves(T, U) ==
  /\ \A q \in held \cap held' : U[q] = T[q]
  /\ \/ held' = held /\ call' = call
     \/ \E r \in Rid \ held : held' = held \cup {r} /\ call' = <<"insert", U[r], r>>
     \/ \E r \in held : held' = held \ {r} /\ call' = <<"delete", r>>

\* A part of a string and what comes after it.
LEMMA PartAndRest ==
  ASSUME NEW s \in Str, NEW i \in 1 .. Chunks(s)
  PROVE  /\ Part(s, i) \o SubSeq(s, MaxLen * i + 1, Len(s)) = SubSeq(s, MaxLen * (i - 1) + 1, Len(s))
         /\ i = Chunks(s) => SubSeq(s, MaxLen * i + 1, Len(s)) = <<>>
         /\ i = 1 => SubSeq(s, MaxLen * (i - 1) + 1, Len(s)) = s
<1>1. s \in Seq(Int) /\ Len(s) \in Nat /\ i \in Nat \ {0} /\ Chunks(s) \in Nat \ {0} /\ i <= Chunks(s)
  BY StrAssumption, ChunksBound
<1>2. PICK a, b : a = MaxLen * (i - 1) /\ b = MaxLen * i
  OBVIOUS
<1>3. a \in Nat /\ b \in Nat /\ b = a + MaxLen /\ (i = 1 => a = 0)
  BY <1>1, <1>2, MaxLenAssumption
<1>4. CASE i = Chunks(s)
  <2>1. Len(s) <= b
    <3>1. CASE s = <<>>
      BY <1>3, <3>1
    <3>2. CASE s # <<>>
      BY <1>2, <1>4, <3>2, ChunksBound
    <3>. QED  BY <3>1, <3>2
  <2>2. SubSeq(s, b + 1, Len(s)) = <<>>
    BY <1>1, <1>3, <2>1, SubSeqEmpty
  <2>3. Part(s, i) = SubSeq(s, a + 1, Len(s))
    BY <1>2, <1>4 DEF Part
  <2>4. Part(s, i) \in Seq(Char)
    BY PartBound
  <2>5. Part(s, i) \o <<>> = Part(s, i)
    BY <2>4, ConcatEmptySeq
  <2>6. i = 1 => SubSeq(s, a + 1, Len(s)) = s
    <3>1. i = 1 => a + 1 = 1
      BY <1>3
    <3>. QED  BY <1>1, <3>1, SubSeqFull
  <2>. QED  BY <1>2, <2>2, <2>3, <2>5, <2>6
<1>5. CASE i < Chunks(s)
  <2>1. s # <<>>
    BY <1>1, <1>5, ChunksBound
  <2>2. PICK k \in Nat : Chunks(s) = i + 1 + k
    <3>1. Chunks(s) - i - 1 \in Nat /\ Chunks(s) = i + 1 + (Chunks(s) - i - 1)
      BY <1>1, <1>5
    <3>. QED  BY <3>1
  <2>3. MaxLen * Chunks(s) = MaxLen * i + MaxLen + MaxLen * k /\ MaxLen * k \in Nat
    BY <1>1, <2>2, MaxLenAssumption
  <2>4. b < Len(s)
    BY <1>1, <1>2, <1>3, <2>1, <2>3, ChunksBound, MaxLenAssumption
  <2>5. Part(s, i) = SubSeq(s, a + 1, b)
    BY <1>1, <1>2, <1>5 DEF Part
  <2>6. a + 1 \in 1 .. Len(s) + 1 /\ b \in (a + 1) - 1 .. Len(s) /\ Len(s) \in b .. Len(s)
    BY <1>1, <1>3, <2>4, MaxLenAssumption
  <2>7. PICK m : m = a + 1
    OBVIOUS
  <2>8. m \in 1 .. Len(s) + 1 /\ b \in m - 1 .. Len(s)
    BY <2>6, <2>7
  <2>9. SubSeq(s, m, b) \o SubSeq(s, b + 1, Len(s)) = SubSeq(s, m, Len(s))
    BY <1>1, <2>6, <2>8, ConcatAdjacentSubSeq
  <2>10. i = 1 => SubSeq(s, a + 1, Len(s)) = s
    <3>1. i = 1 => a + 1 = 1
      BY <1>3
    <3>. QED  BY <1>1, <3>1, SubSeqFull
  <2>11. i # Chunks(s)
    BY <1>1, <1>5
  <2>12. Part(s, i) \o SubSeq(s, b + 1, Len(s)) = SubSeq(s, a + 1, Len(s))
    BY <2>5, <2>7, <2>9
  <2>. QED  BY <1>2, <2>10, <2>11, <2>12
<1>6. i = Chunks(s) \/ i < Chunks(s)
  BY <1>1
<1>. QED  BY <1>4, <1>5, <1>6

LEMMA AddSteady ==
  ASSUME Linked, NEW r, NEW n, NEW d \in Seq(Char), Adds(r, n, d), NEW T, Steady(T),
         NEW U, U = [q \in DOMAIN rows \cup {r} |-> IF q = r THEN d \o After(T, n) ELSE T[q]]
  PROVE  Steady(U)'
<1>1. /\ DOMAIN rows' = DOMAIN rows \cup {r} /\ r \notin DOMAIN rows /\ r # Nil
      /\ \A q \in DOMAIN rows : rows'[q] = rows[q]
      /\ rows'[r].next = n /\ rows'[r].data = d
  BY AddRows
<1>2. Roots \subseteq DOMAIN rows /\ Nil \notin DOMAIN rows
  BY NilAssumption DEF Linked
<1>3. n \in DOMAIN rows \cup {Nil} /\ (n # Nil => d # <<>> /\ rows[n].data # <<>>)
  BY <1>2, MaxLenAssumption DEF Adds
<1>4. \A q \in DOMAIN rows :
        /\ T[q] \in Seq(Char) /\ rows[q].data \in Seq(Char) /\ T[q] = rows[q].data \o After(T, rows[q].next)
        /\ rows[q].next # Nil => /\ rows[q].next \in DOMAIN rows
                                 /\ rows[q].data # <<>> /\ rows[rows[q].next].data # <<>>
  BY DEF Steady
<1>5. After(T, n) \in Seq(Char) /\ U[r] = d \o After(T, n) /\ U[r] \in Seq(Char)
  <2>1. After(T, n) \in Seq(Char)
    <3>1. CASE n = Nil
      BY <3>1 DEF After
    <3>2. CASE n # Nil
      BY <1>3, <1>4, <3>2 DEF After
    <3>. QED  BY <3>1, <3>2
  <2>2. d \o After(T, n) \in Seq(Char)
    BY <2>1, ConcatProperties
  <2>. QED  BY <2>1, <2>2
<1>6. \A q \in DOMAIN rows : U[q] = T[q]
  BY <1>1
<1>7. \A m \in DOMAIN rows \cup {Nil} : After(U, m) = After(T, m)
  BY <1>6 DEF After
<1>8. U \in [DOMAIN rows' -> Seq(Char)]
  BY <1>1, <1>4, <1>5, <1>6
<1>9. ASSUME NEW q \in DOMAIN rows'
      PROVE  /\ rows'[q].data \in Seq(Char) /\ U[q] = rows'[q].data \o After(U, rows'[q].next)
             /\ rows'[q].next # Nil => /\ rows'[q].next \in DOMAIN rows'
                                       /\ rows'[q].data # <<>> /\ rows'[rows'[q].next].data # <<>>
  <2>1. CASE q = r
    <3>1. After(U, n) = After(T, n)
      BY <1>3, <1>7
    <3>2. n # Nil => n \in DOMAIN rows' /\ rows'[n].data # <<>>
      BY <1>1, <1>3
    <3>. QED  BY <1>1, <1>3, <1>5, <2>1, <3>1, <3>2
  <2>2. CASE q \in DOMAIN rows
    <3>1. PICK e, m : e = rows[q].data /\ m = rows[q].next
      OBVIOUS
    <3>2. /\ e \in Seq(Char) /\ T[q] = e \o After(T, m)
          /\ m # Nil => m \in DOMAIN rows /\ e # <<>> /\ rows[m].data # <<>>
      BY <1>4, <2>2, <3>1
    <3>3. rows'[q].data = e /\ rows'[q].next = m /\ U[q] = T[q]
      BY <1>1, <1>6, <2>2, <3>1
    <3>4. After(U, m) = After(T, m)
      BY <1>7, <3>2
    <3>5. m # Nil => m \in DOMAIN rows' /\ rows'[m].data # <<>>
      BY <1>1, <3>2
    <3>. QED  BY <3>2, <3>3, <3>4, <3>5
  <2>. QED  BY <1>1, <1>9, <2>1, <2>2
<1>10. Steady(U)' <=> /\ U \in [DOMAIN rows' -> Seq(Char)]
                      /\ \A q \in DOMAIN rows' :
                           /\ rows'[q].data \in Seq(Char) /\ U[q] = rows'[q].data \o After(U, rows'[q].next)
                           /\ rows'[q].next # Nil => /\ rows'[q].next \in DOMAIN rows'
                                                     /\ rows'[q].data # <<>> /\ rows'[rows'[q].next].data # <<>>
  BY DEF Steady, After
<1>. QED  BY <1>8, <1>9, <1>10

LEMMA DropSteady ==
  ASSUME Linked, OneWay, NEW r, NEW n, Drops(r, n), NEW T, Steady(T),
         NEW U, U = [q \in DOMAIN rows \ {r} |-> T[q]]
  PROVE  Steady(U)'
<1>1. /\ DOMAIN rows' = DOMAIN rows \ {r}
      /\ \A q \in DOMAIN rows \ {r} : rows'[q] = rows[q]
  BY DropRows
<1>2. \A q \in DOMAIN rows : rows[q].next # r
  BY DEF OneWay, Drops
<1>3. \A q \in DOMAIN rows :
        /\ T[q] \in Seq(Char) /\ rows[q].data \in Seq(Char) /\ T[q] = rows[q].data \o After(T, rows[q].next)
        /\ rows[q].next # Nil => /\ rows[q].next \in DOMAIN rows
                                 /\ rows[q].data # <<>> /\ rows[rows[q].next].data # <<>>
  BY DEF Steady
<1>4. \A m \in (DOMAIN rows \ {r}) \cup {Nil} : After(U, m) = After(T, m)
  BY DEF After
<1>5. U \in [DOMAIN rows' -> Seq(Char)]
  BY <1>1, <1>3
<1>6. ASSUME NEW q \in DOMAIN rows'
      PROVE  /\ rows'[q].data \in Seq(Char) /\ U[q] = rows'[q].data \o After(U, rows'[q].next)
             /\ rows'[q].next # Nil => /\ rows'[q].next \in DOMAIN rows'
                                       /\ rows'[q].data # <<>> /\ rows'[rows'[q].next].data # <<>>
  <2>1. PICK e, m : e = rows[q].data /\ m = rows[q].next
    OBVIOUS
  <2>2. /\ e \in Seq(Char) /\ T[q] = e \o After(T, m) /\ m # r
        /\ m # Nil => m \in DOMAIN rows /\ e # <<>> /\ rows[m].data # <<>>
    BY <1>1, <1>2, <1>3, <1>6, <2>1
  <2>3. rows'[q].data = e /\ rows'[q].next = m /\ U[q] = T[q]
    BY <1>1, <1>6, <2>1
  <2>4. After(U, m) = After(T, m)
    BY <1>4, <2>2
  <2>5. m # Nil => m \in DOMAIN rows' /\ rows'[m].data # <<>>
    BY <1>1, <2>2
  <2>. QED  BY <2>2, <2>3, <2>4, <2>5
<1>7. Steady(U)' <=> /\ U \in [DOMAIN rows' -> Seq(Char)]
                     /\ \A q \in DOMAIN rows' :
                          /\ rows'[q].data \in Seq(Char) /\ U[q] = rows'[q].data \o After(U, rows'[q].next)
                          /\ rows'[q].next # Nil => /\ rows'[q].next \in DOMAIN rows'
                                                    /\ rows'[q].data # <<>> /\ rows'[rows'[q].next].data # <<>>
  BY DEF Steady, After
<1>. QED  BY <1>5, <1>6, <1>7

LEMMA InitTells ==
  ASSUME Init
  PROVE  \E T : Tells(T)
<1>1. DOMAIN rows = {} /\ held = {} /\ job.kind = "none"
  BY JobKinds DEF Init
<1>2. PICK T : T = [q \in {} |-> <<>>]
  OBVIOUS
<1>3. Steady(T)
  BY <1>1, <1>2 DEF Steady
<1>. QED  BY <1>1, <1>3 DEF Tells

LEMMA BeginWriteTells ==
  ASSUME NEW s \in Str, BeginWrite(s), NEW T, Tells(T)
  PROVE  \E U : Tells(U)' /\ Moves(T, U)
<1>1. /\ rows' = rows /\ held' = held /\ call' = call
      /\ job'.str = s /\ job'.left = Chunks(s) /\ job'.rid = Nil
  BY JobKinds DEF BeginWrite
<1>2. Steady(T)'
  BY <1>1 DEF Tells, Steady, After
<1>3. SubSeq(s, MaxLen * Chunks(s) + 1, Len(s)) = <<>>
  <2>1. Chunks(s) \in 1 .. Chunks(s)
    BY ChunksBound
  <2>. QED  BY <2>1, PartAndRest
<1>4. After(T, job.rid)' = <<>>
  BY <1>1 DEF After
<1>5. Tells(T)'
  BY <1>1, <1>2, <1>3, <1>4 DEF Tells
<1>6. Moves(T, T)
  BY <1>1 DEF Moves
<1>. QED  BY <1>5, <1>6

LEMMA WriteChunkTells ==
  ASSUME IInv, NEW r \in Rid, WriteChunk(r), NEW T, Tells(T)
  PROVE  \E U : Tells(U)' /\ Moves(T, U)
<1>1. TypeOK /\ Sound /\ Linked /\ JobSound /\ job.kind = "write" /\ r \notin DOMAIN rows /\ Nil \notin held /\ r # Nil
  BY NilAssumption DEF IInv, TypeOK, WriteChunk, Sound
<1>2. PICK s \in Str, n \in Rid \cup {Nil} : \E j \in 1 .. Chunks(s) : job = Writing(s, j, n)
  BY <1>1, JobShape
<1>3. PICK i \in 1 .. Chunks(s) : job = Writing(s, i, n)
  BY <1>2
<1>4. job.str = s /\ job.left = i /\ job.rid = n
  BY <1>3, JobKinds
<1>5. PICK d : d = Part(s, i)
  OBVIOUS
<1>6. /\ d \in Seq(Char)
      /\ i < Chunks(s) => Len(d) = MaxLen
      /\ d = <<>> => s = <<>>
  BY <1>5, PartBound
<1>7. i \in Nat \ {0} /\ Chunks(s) \in Nat \ {0} /\ i <= Chunks(s) /\ (s = <<>> => Chunks(s) = 1)
  BY ChunksBound
<1>8. /\ n \notin held
      /\ i = Chunks(s) <=> n = Nil
      /\ n # Nil => rows[n].data # <<>>
  BY <1>1, <1>4 DEF JobSound
<1>9. Roots = held \cup ({n} \ {Nil})
  BY <1>1, <1>4 DEF Roots
<1>10. rows' = Table!With(rows, r, [next |-> n, data |-> d])
  BY <1>4, <1>5 DEF WriteChunk
<1>11. \/ i > 1 /\ job' = Writing(s, i - 1, r) /\ held' = held /\ call' = call
       \/ i = 1 /\ job' = Idle /\ held' = held \cup {r} /\ call' = <<"insert", s, r>>
  BY <1>4, <1>7 DEF WriteChunk
<1>12. Roots' = held \cup {r}
  BY <1>1, <1>11, JobKinds DEF Roots
<1>13. Adds(r, n, d)
  <2>1. Roots' = (Roots \ {n}) \cup {r}
    BY <1>1, <1>8, <1>9, <1>12
  <2>2. d = <<>> => n = Nil
    BY <1>6, <1>7, <1>8
  <2>3. n # Nil => Len(d) = MaxLen
    BY <1>6, <1>7, <1>8
  <2>. QED  BY <1>1, <1>8, <1>9, <1>10, <2>1, <2>2, <2>3 DEF Adds
<1>14. PICK U : U = [q \in DOMAIN rows \cup {r} |-> IF q = r THEN d \o After(T, n) ELSE T[q]]
  OBVIOUS
<1>15. Steady(T) /\ (\A q \in held : T[q] \in Str) /\ After(T, n) = SubSeq(s, MaxLen * i + 1, Len(s))
  BY <1>1, <1>4 DEF Tells
<1>16. Steady(U)'
  <2>1. Linked /\ d \in Seq(Char) /\ Steady(T)
    BY <1>1, <1>6, <1>15
  <2>. QED  BY <2>1, <1>13, <1>14, AddSteady
<1>17. U[r] = SubSeq(s, MaxLen * (i - 1) + 1, Len(s)) /\ (i = 1 => U[r] = s)
  <2>1. U[r] = d \o After(T, n)
    BY <1>14
  <2>. QED  BY <1>5, <1>15, <2>1, PartAndRest
<1>18. \A q \in held : q # r /\ q \in DOMAIN rows /\ U[q] = T[q]
  BY <1>1, <1>14 DEF TypeOK
<1>19. CASE i > 1 /\ job' = Writing(s, i - 1, r) /\ held' = held /\ call' = call
  <2>1. job'.str = s /\ job'.left = i - 1 /\ job'.rid = r
    BY <1>19, JobKinds
  <2>2. After(U, job.rid)' = U[r]
    BY <1>1, <2>1 DEF After
  <2>3. Tells(U)'
    BY <1>15, <1>16, <1>17, <1>18, <1>19, <2>1, <2>2 DEF Tells
  <2>4. Moves(T, U)
    BY <1>18, <1>19 DEF Moves
  <2>. QED  BY <2>3, <2>4
<1>20. CASE i = 1 /\ job' = Idle /\ held' = held \cup {r} /\ call' = <<"insert", s, r>>
  <2>1. job'.kind # "write"
    BY <1>20, JobKinds
  <2>2. Tells(U)'
    BY <1>15, <1>16, <1>17, <1>18, <1>20, <2>1 DEF Tells
  <2>3. r \in Rid \ held
    BY <1>18
  <2>4. call' = <<"insert", U[r], r>>
    BY <1>17, <1>20
  <2>5. Moves(T, U)
    BY <1>18, <1>20, <2>3, <2>4 DEF Moves
  <2>. QED  BY <2>2, <2>5
<1>. QED  BY <1>11, <1>19, <1>20

\* An iteration of delete_string.
LEMMA DropTells ==
  ASSUME IInv, NEW T, Tells(T), NEW r \in Roots, NEW n, n = rows[r].next,
         rows' = Table!Without(rows, r), held' = held \ {r}, Roots = held \cup {r}, GoOn(n),
         \/ r \notin held /\ call' = call
         \/ r \in held /\ call' = <<"delete", r>>
  PROVE  \E U : Tells(U)' /\ Moves(T, U)
<1>1. TypeOK /\ Sound /\ Linked /\ OneWay /\ n \notin Roots
  BY DEF IInv, Sound, Linked, OneWay
<1>2. \/ n = Nil /\ job' = Idle
      \/ n # Nil /\ job' = Deleting(n)
  BY DEF GoOn
<1>3. Roots' = (Roots \ {r}) \cup ({n} \ {Nil}) /\ job'.kind # "write"
  <2>1. CASE n = Nil /\ job' = Idle
    BY <2>1, JobKinds DEF Roots
  <2>2. CASE n # Nil /\ job' = Deleting(n)
    BY <2>2, JobKinds DEF Roots
  <2>. QED  BY <1>2, <2>1, <2>2
<1>4. Drops(r, n)
  BY <1>3 DEF Drops
<1>5. PICK U : U = [q \in DOMAIN rows \ {r} |-> T[q]]
  OBVIOUS
<1>6. Steady(T) /\ \A q \in held : T[q] \in Str
  BY DEF Tells
<1>7. Steady(U)'
  BY <1>1, <1>4, <1>5, <1>6, DropSteady
<1>8. \A q \in held' : U[q] = T[q] /\ q \in held
  BY <1>1, <1>5 DEF TypeOK
<1>9. Tells(U)'
  BY <1>3, <1>6, <1>7, <1>8 DEF Tells
<1>10. Moves(T, U)
  <2>1. \A q \in held \cap held' : U[q] = T[q]
    BY <1>8
  <2>2. CASE r \notin held /\ call' = call
    BY <2>1, <2>2 DEF Moves
  <2>3. CASE r \in held /\ call' = <<"delete", r>>
    BY <2>1, <2>3 DEF Moves
  <2>. QED  BY <2>2, <2>3
<1>. QED  BY <1>9, <1>10

LEMMA BeginDeleteTells ==
  ASSUME IInv, NEW r \in Rid, BeginDelete(r), NEW T, Tells(T)
  PROVE  \E U : Tells(U)' /\ Moves(T, U)
<1>1. r \in held /\ job.kind = "none"
  BY JobKinds DEF BeginDelete
<1>2. r \in Roots /\ Roots = held \cup {r}
  BY <1>1 DEF Roots
<1>3. PICK n : n = rows[r].next
  OBVIOUS
<1>4. GoOn(n)
  BY <1>3 DEF BeginDelete, GoOn
<1>5. rows' = Table!Without(rows, r) /\ held' = held \ {r} /\ call' = <<"delete", r>>
  BY DEF BeginDelete
<1>. QED  BY <1>1, <1>2, <1>3, <1>4, <1>5, DropTells

LEMMA DeleteChunkTells ==
  ASSUME IInv, DeleteChunk, NEW T, Tells(T)
  PROVE  \E U : Tells(U)' /\ Moves(T, U)
<1>1. TypeOK /\ JobSound /\ job.kind = "delete"
  BY DEF IInv, DeleteChunk
<1>2. PICK r \in Rid : job = Deleting(r)
  BY <1>1, JobShape
<1>3. job.rid = r /\ r # Nil /\ r \notin held
  BY <1>1, <1>2, JobKinds, NilAssumption DEF JobSound
<1>4. r \in Roots /\ Roots = held \cup {r}
  BY <1>1, <1>3 DEF Roots
<1>5. PICK n : n = rows[r].next
  OBVIOUS
<1>6. GoOn(n) /\ rows' = Table!Without(rows, r) /\ held' = held \ {r} /\ call' = call
  BY <1>3, <1>5 DEF DeleteChunk, GoOn
<1>. QED  BY <1>3, <1>4, <1>5, <1>6, DropTells

LEMMA StepTells ==
  ASSUME IInv, [Next]_vars, NEW T, Tells(T)
  PROVE  \E U : Tells(U)' /\ Moves(T, U)
<1>1. CASE UNCHANGED vars
  <2>1. rows' = rows /\ held' = held /\ job' = job /\ call' = call
    BY <1>1 DEF vars
  <2>2. Tells(T)'
    BY <2>1 DEF Tells, Steady, After
  <2>3. Moves(T, T)
    BY <2>1 DEF Moves
  <2>. QED  BY <2>2, <2>3
<1>2. CASE \E s \in Str : BeginWrite(s)
  BY <1>2, BeginWriteTells
<1>3. CASE \E r \in Rid : WriteChunk(r)
  BY <1>3, WriteChunkTells
<1>4. CASE \E r \in Rid : BeginDelete(r)
  BY <1>4, BeginDeleteTells
<1>5. CASE DeleteChunk
  BY <1>5, DeleteChunkTells
<1>. QED  BY <1>1, <1>2, <1>3, <1>4, <1>5 DEF Next

-----------------------------------------------------------------------------
(* Theorems on what is stored.                                              *)

\* load_string finds what Steady says.
TextKnown == \A T : Steady(T) => \A r \in DOMAIN rows : Text(r) = T[r]

Told == \E T : Tells(T)

THEOREM Telling == Spec => [](IInv /\ Told /\ TextKnown)
<1>1. Init => Told
  BY InitTells DEF Told
<1>2. IInv /\ Told /\ [Next]_vars => Told'
  BY StepTells DEF Told
<1>3. TextKnown
  BY TextIs DEF TextKnown
<1>. QED  BY <1>1, <1>2, <1>3, Invariance, PTL DEF Spec

\* compare_string_record and rid_ptr_row_cmp put strings in the same order.
THEOREM InOrder == Spec => []ComparesInOrder
<1>1. IInv /\ Told => ComparesInOrder
  <2>. SUFFICES ASSUME IInv, Told PROVE ComparesInOrder
    OBVIOUS
  <2>1. PICK T : Tells(T)
    BY DEF Told
  <2>2. Steady(T) /\ held \subseteq DOMAIN rows
    BY <2>1 DEF Tells, IInv, TypeOK
  <2>3. ASSUME NEW r \in held
        PROVE  /\ \A q \in held : Compare(r, q) = Order(Text(r), Text(q))
               /\ \A t \in Str : CompareKey(t, r) = Order(t, Text(r))
    <3>1. r \in DOMAIN rows /\ Text(r) = T[r]
      BY <2>2, TextIs
    <3>2. ASSUME NEW q \in held PROVE Compare(r, q) = Order(Text(r), Text(q))
      <4>1. q \in DOMAIN rows /\ Text(q) = T[q]
        BY <2>2, TextIs
      <4>2. Compare(r, q) = Order(T[r], T[q])
        BY <2>2, <3>1, <4>1, CompareIs
      <4>. QED  BY <3>1, <4>1, <4>2
    <3>3. ASSUME NEW t \in Str PROVE CompareKey(t, r) = Order(t, Text(r))
      <4>1. CompareKey(t, r) = Order(t, T[r])
        BY <2>2, <3>1, CompareKeyIs
      <4>. QED  BY <3>1, <4>1
    <3>. QED  BY <3>2, <3>3
  <2>. QED  BY <2>3 DEF ComparesInOrder
<1>. QED  BY <1>1, Telling, PTL

\* write_string and load_string of what was written are a table of whole
\* strings, whatever else is written or deleted in between.
THEOREM Implementation == Spec => ImplementsRows
<1>1. Init => Heap!Init
  <2>. SUFFICES ASSUME Init PROVE Heap!Init
    OBVIOUS
  <2>1. held = {} /\ call = Nil
    BY DEF Init
  <2>. QED  BY <2>1 DEF Heap!Init
<1>2. (IInv /\ Told /\ TextKnown) /\ (IInv /\ Told /\ TextKnown)' /\ [Next]_vars
        => [Heap!Next]_<<[r \in held |-> Text(r)], call>>
  <2>. SUFFICES ASSUME IInv, Told, TextKnown, IInv', TextKnown', [Next]_vars
                PROVE  Heap!Next \/ UNCHANGED <<[r \in held |-> Text(r)], call>>
    OBVIOUS
  <2>1. PICK T : Tells(T)
    BY DEF Told
  <2>2. PICK U : Tells(U)' /\ Moves(T, U)
    BY <2>1, StepTells
  <2>3. \A r \in held : Text(r) = T[r] /\ r \in Rid
    <3>1. Steady(T) /\ held \subseteq DOMAIN rows /\ DOMAIN rows \subseteq Rid
      BY <2>1 DEF Tells, IInv, TypeOK
    <3>. QED  BY <3>1 DEF TextKnown
  <2>4. (\A r \in held' : Text(r)' = U[r]) /\ (\A r \in held' : U[r] \in Str)
    <3>1. Steady(U)' /\ held' \subseteq DOMAIN rows' /\ \A r \in held' : U[r] \in Str
      BY <2>2 DEF Tells, IInv, TypeOK
    <3>2. \A r \in DOMAIN rows' : Text(r)' = U[r]
      BY <3>1 DEF TextKnown
    <3>. QED  BY <3>1, <3>2
  <2>5. PICK old, new : old = [r \in held |-> Text(r)] /\ new = [r \in held |-> Text(r)]'
    OBVIOUS
  <2>6. old = [r \in held |-> T[r]] /\ new = [r \in held' |-> U[r]]
    <3>1. new = [r \in held' |-> Text(r)']
      BY <2>5
    <3>2. old = [r \in held |-> Text(r)]
      BY <2>5
    <3>3. old = [r \in held |-> T[r]]
      BY <2>3, <3>2
    <3>4. new = [r \in held' |-> U[r]]
      BY <2>4, <3>1
    <3>. QED  BY <3>3, <3>4
  <2>7. \A q \in held \cap held' : U[q] = T[q]
    BY <2>2 DEF Moves
  <2>8. CASE held' = held /\ call' = call
    <3>1. new = old
      BY <2>6, <2>7, <2>8
    <3>. QED  BY <2>5, <2>8, <3>1
  <2>9. CASE \E r \in Rid \ held : held' = held \cup {r} /\ call' = <<"insert", U[r], r>>
    <3>1. PICK r \in Rid \ held : held' = held \cup {r} /\ call' = <<"insert", U[r], r>>
      BY <2>9
    <3>2. PICK s \in Str : s = U[r]
      BY <2>4, <3>1
    <3>3. new = [q \in held \cup {r} |-> IF q = r THEN s ELSE old[q]]
      BY <2>6, <2>7, <3>1, <3>2
    <3>4. new = [q \in DOMAIN old \cup {r} |-> IF q = r THEN s ELSE old[q]] /\ r \in Rid \ DOMAIN old
      BY <2>6, <3>1, <3>3
    <3>5. Heap!Insert(r, s)
      BY <2>5, <3>1, <3>2, <3>4 DEF Heap!Insert, Heap!With
    <3>. QED  BY <3>1, <3>5 DEF Heap!Next
  <2>10. CASE \E r \in held : held' = held \ {r} /\ call' = <<"delete", r>>
    <3>1. PICK r \in held : held' = held \ {r} /\ call' = <<"delete", r>>
      BY <2>10
    <3>2. new = [q \in DOMAIN old \ {r} |-> old[q]] /\ r \in DOMAIN old /\ r \in Rid
      BY <2>3, <2>6, <2>7, <3>1
    <3>3. Heap!Delete(r)
      BY <2>5, <3>1, <3>2 DEF Heap!Delete, Heap!Without
    <3>. QED  BY <3>2, <3>3 DEF Heap!Next
  <2>. QED  BY <2>2, <2>8, <2>9, <2>10 DEF Moves
<1>. QED  BY <1>1, <1>2, Telling, PTL DEF Spec, ImplementsRows, Heap!Spec

=============================================================================
