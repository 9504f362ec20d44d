------------------------- MODULE FreeSpaceMapProofs -------------------------
(***************************************************************************)
(* The free-space map of a table, for every number of sizes, every size of *)
(* a block and every number of data blocks.                                *)
(*                                                                         *)
(* The first part is about links alone: a function from blocks to blocks   *)
(* and the places where chains start.  hash_map.c does four things to it:  *)
(* it takes the first block of a chain off, takes a later one out, starts  *)
(* a chain, and puts a block behind a chain; one call may do two of them,  *)
(* to a chain of a size and to the free list.  The second part is about    *)
(* what the blocks hold.                                                   *)
(***************************************************************************)
EXTENDS FreeSpaceMap, TLAPS

\* The chains: one per size, and the free list.
List == -1 .. Sizes - 1

Live(N, F) == UNION {Walk(N, F[l]) : l \in List}

\* Chains of links N that start at F end, and no block is in two places.
Apart(N, F) ==
  /\ N \in [Block -> Block \cup {Nil}] /\ F \in [List -> Block \cup {Nil}]
  /\ \A l \in List : F[l] # Nil => \E b \in Walk(N, F[l]) : N[b] = Nil
  /\ \A l, m \in List : F[l] = F[m] /\ F[l] # Nil => l = m
  /\ \A b \in Live(N, F), l \in List : N[b] = F[l] => N[b] = Nil
  /\ \A b, c \in Live(N, F) : N[b] = N[c] => N[b] = Nil \/ b = c

-----------------------------------------------------------------------------
(* Walks.                                                                   *)

LEMMA NilNoBlock == Nil \notin Block /\ Block \subseteq Nat
BY NilAssumption, SizesAssumption DEF Block, First

LEMMA WalkNil ==
  ASSUME NEW N
  PROVE  Walk(N, Nil) = {}
BY DEF Walk

\* A walk is the least set that holds its start and follows the links.
LEMMA WalkFollows ==
  ASSUME NEW N \in [Block -> Block \cup {Nil}], NEW h \in Block
  PROVE  h \in Walk(N, h) /\ Walk(N, h) \subseteq Block /\ \A c \in Walk(N, h) : N[c] \in Walk(N, h) \cup {Nil}
<1>1. h # Nil
  BY NilNoBlock
<1>2. ASSUME NEW c \in Walk(N, h), N[c] # Nil PROVE N[c] \in Walk(N, h)
  <2>1. N[c] \in Block /\ c \in Block
    BY <1>1, <1>2 DEF Walk
  <2>2. ASSUME NEW S \in SUBSET (Block \ {N[c]}), h \in S PROVE \E d \in S : N[d] # Nil /\ N[d] \notin S
    <3>1. CASE c \in S
      BY <1>2, <2>2, <3>1
    <3>2. CASE c \notin S
      BY <1>1, <1>2, <2>2, <3>2 DEF Walk
    <3>. QED  BY <3>1, <3>2
  <2>. QED  BY <1>1, <2>1, <2>2 DEF Walk
<1>. QED  BY <1>1, <1>2 DEF Walk

LEMMA WalkLeast ==
  ASSUME NEW N, NEW h, NEW S \in SUBSET Block, h \in S \cup {Nil}, \A c \in S : N[c] \in S \cup {Nil}
  PROVE  Walk(N, h) \subseteq S
<1>1. ASSUME NEW b \in Walk(N, h), b \notin S PROVE FALSE
  <2>1. h # Nil /\ h \in S /\ S \in SUBSET (Block \ {b})
    BY <1>1, WalkNil
  <2>. QED  BY <1>1, <2>1 DEF Walk
<1>. QED  BY <1>1

LEMMA WalkIs ==
  ASSUME NEW N \in [Block -> Block \cup {Nil}], NEW h \in Block, NEW Q \in SUBSET Block,
         h \in Q, \A c \in Q : N[c] \in Q \cup {Nil},
         \A S \in SUBSET Block : h \in S /\ (\A c \in S : N[c] \in S \cup {Nil}) => Q \subseteq S
  PROVE  Walk(N, h) = Q
<1>1. Walk(N, h) \subseteq Q
  BY WalkLeast
<1>2. Q \subseteq Walk(N, h)
  BY WalkFollows
<1>. QED  BY <1>1, <1>2

LEMMA WalkSame ==
  ASSUME NEW N \in [Block -> Block \cup {Nil}], NEW M \in [Block -> Block \cup {Nil}],
         NEW h \in Block \cup {Nil}, \A c \in Walk(N, h) : M[c] = N[c]
  PROVE  Walk(M, h) = Walk(N, h)
<1>1. CASE h = Nil
  BY <1>1, WalkNil
<1>2. CASE h \in Block
  <2>1. PICK W, V : W = Walk(N, h) /\ V = Walk(M, h)
    OBVIOUS
  <2>2. /\ h \in W /\ W \subseteq Block /\ \A c \in W : N[c] \in W \cup {Nil}
        /\ h \in V /\ V \subseteq Block /\ \A c \in V : M[c] \in V \cup {Nil}
    BY <1>2, <2>1, WalkFollows
  <2>3. V \subseteq W
    BY <2>1, <2>2, WalkLeast
  <2>4. W \subseteq V
    BY <2>1, <2>2, <2>3, WalkLeast
  <2>. QED  BY <2>1, <2>3, <2>4
<1>. QED  BY <1>1, <1>2

\* Every block of a walk but the first is linked from one before it.
LEMMA Before ==
  ASSUME NEW N \in [Block -> Block \cup {Nil}], NEW h \in Block, NEW b \in Walk(N, h), b # h
  PROVE  \E c \in Walk(N, h) \ {b} : N[c] = b
<1>1. PICK W : W = Walk(N, h)
  OBVIOUS
<1>2. h \in W /\ W \subseteq Block /\ \A c \in W : N[c] \in W \cup {Nil}
  BY <1>1, WalkFollows
<1>3. ASSUME \A c \in W \ {b} : N[c] # b PROVE FALSE
  <2>1. W \ {b} \in SUBSET Block /\ h \in W \ {b} /\ \A c \in W \ {b} : N[c] \in (W \ {b}) \cup {Nil}
    BY <1>2, <1>3
  <2>2. W \subseteq W \ {b}
    BY <1>1, <2>1, WalkLeast
  <2>. QED  BY <1>1, <2>2
<1>. QED  BY <1>1, <1>3

\* A loop that stops at a block of its chain has seen it.
LEMMA SeesStop ==
  ASSUME NEW N \in [Block -> Block \cup {Nil}], NEW h \in Block, NEW b \in Walk(N, h)
  PROVE  b \in Walk([c \in Block |-> IF c \in {b} THEN Nil ELSE N[c]], h)
<1>1. PICK M : M = [c \in Block |-> IF c \in {b} THEN Nil ELSE N[c]]
  OBVIOUS
<1>2. M \in [Block -> Block \cup {Nil}] /\ \A c \in Block : c # b => M[c] = N[c]
  BY <1>1
<1>3. PICK V : V = Walk(M, h)
  OBVIOUS
<1>4. h \in V /\ V \subseteq Block /\ \A c \in V : M[c] \in V \cup {Nil}
  BY <1>2, <1>3, WalkFollows
<1>5. ASSUME b \notin V PROVE FALSE
  <2>1. \A c \in V : N[c] \in V \cup {Nil}
    BY <1>2, <1>4, <1>5
  <2>2. Walk(N, h) \subseteq V
    BY <1>4, <2>1, WalkLeast
  <2>. QED  BY <1>5, <2>2
<1>. QED  BY <1>1, <1>3, <1>5

\* What a loop sees is on its chain.
LEMMA SeesChain ==
  ASSUME NEW N \in [Block -> Block \cup {Nil}], NEW h \in Block \cup {Nil}, NEW stop
  PROVE  Walk([c \in Block |-> IF c \in stop THEN Nil ELSE N[c]], h) \subseteq Walk(N, h)
<1>1. CASE h = Nil
  BY <1>1, WalkNil
<1>2. CASE h \in Block
  <2>1. PICK W, M : W = Walk(N, h) /\ M = [c \in Block |-> IF c \in stop THEN Nil ELSE N[c]]
    OBVIOUS
  <2>2. h \in W /\ W \subseteq Block /\ \A c \in W : N[c] \in W \cup {Nil}
    BY <1>2, <2>1, WalkFollows
  <2>3. \A c \in W : M[c] \in W \cup {Nil}
    BY <2>1, <2>2
  <2>4. Walk(M, h) \subseteq W
    BY <2>2, <2>3, WalkLeast
  <2>. QED  BY <2>1, <2>4
<1>. QED  BY <1>1, <1>2

-----------------------------------------------------------------------------
(* Chains that are apart.                                                   *)

LEMMA LiveBlocks ==
  ASSUME NEW N, NEW F, Apart(N, F)
  PROVE  /\ Live(N, F) \subseteq Block
         /\ \A b \in Live(N, F) : N[b] \in Live(N, F) \cup {Nil}
         /\ \A l \in List : F[l] # Nil => F[l] \in Live(N, F)
         /\ \A l \in List : Walk(N, F[l]) \subseteq Live(N, F)
<1>1. ASSUME NEW l \in List
      PROVE  /\ Walk(N, F[l]) \subseteq Block /\ \A b \in Walk(N, F[l]) : N[b] \in Walk(N, F[l]) \cup {Nil}
             /\ F[l] # Nil => F[l] \in Walk(N, F[l])
  <2>1. CASE F[l] = Nil
    BY <2>1, WalkNil
  <2>2. CASE F[l] \in Block
    BY <2>2, WalkFollows DEF Apart
  <2>. QED  BY <2>1, <2>2 DEF Apart
<1>. QED  BY <1>1 DEF Live

LEMMA NoLoop ==
  ASSUME NEW N, NEW F, Apart(N, F), NEW b \in Live(N, F)
  PROVE  N[b] # b
<1>1. PICK l \in List : b \in Walk(N, F[l])
  BY DEF Live
<1>2. F[l] \in Block /\ N \in [Block -> Block \cup {Nil}] /\ b \in Block /\ b # Nil
  BY <1>1, WalkNil, LiveBlocks, NilNoBlock DEF Apart
<1>3. CASE b = F[l]
  BY <1>2, <1>3 DEF Apart
<1>4. CASE b # F[l]
  <2>1. PICK c \in Walk(N, F[l]) \ {b} : N[c] = b
    BY <1>1, <1>2, <1>4, Before
  <2>2. c \in Live(N, F)
    BY LiveBlocks
  <2>. QED  BY <1>2, <2>1, <2>2 DEF Apart
<1>. QED  BY <1>3, <1>4

LEMMA Disjoint ==
  ASSUME NEW N, NEW F, Apart(N, F), NEW l \in List, NEW m \in List, l # m
  PROVE  Walk(N, F[l]) \cap Walk(N, F[m]) = {}
<1>1. CASE F[l] = Nil \/ F[m] = Nil
  BY <1>1, WalkNil
<1>2. CASE F[l] \in Block /\ F[m] \in Block
  <2>1. PICK W, V : W = Walk(N, F[l]) /\ V = Walk(N, F[m])
    OBVIOUS
  <2>2. /\ N \in [Block -> Block \cup {Nil}]
        /\ F[l] \in W /\ W \subseteq Block /\ \A c \in W : N[c] \in W \cup {Nil}
        /\ F[m] \in V /\ V \subseteq Block /\ \A c \in V : N[c] \in V \cup {Nil}
        /\ W \subseteq Live(N, F) /\ V \subseteq Live(N, F)
    BY <1>2, <2>1, WalkFollows, LiveBlocks DEF Apart
  <2>3. F[l] # F[m] /\ F[l] # Nil
    BY <1>2, NilNoBlock DEF Apart
  <2>4. \A c \in Live(N, F), k \in List : N[c] = F[k] => N[c] = Nil
    BY DEF Apart
  <2>5. F[l] \notin V
    <3>1. ASSUME F[l] \in V PROVE FALSE
      <4>1. \E c \in V \ {F[l]} : N[c] = F[l]
        BY <1>2, <2>1, <2>2, <2>3, <3>1, Before
      <4>. QED  BY <2>2, <2>3, <2>4, <4>1
    <3>. QED  BY <3>1
  <2>6. ASSUME NEW c \in W \ V, N[c] # Nil PROVE N[c] \notin V
    <3>1. ASSUME N[c] \in V PROVE FALSE
      <4>1. N[c] # F[m] /\ c \in Live(N, F)
        BY <2>2, <2>4, <2>6
      <4>2. PICK e \in V \ {N[c]} : N[e] = N[c]
        BY <1>2, <2>1, <2>2, <3>1, <4>1, Before
      <4>3. e = c
        BY <2>2, <2>6, <4>1, <4>2 DEF Apart
      <4>. QED  BY <2>6, <4>2, <4>3
    <3>. QED  BY <3>1
  <2>7. W \ V \in SUBSET Block /\ F[l] \in W \ V /\ \A c \in W \ V : N[c] \in (W \ V) \cup {Nil}
    BY <2>2, <2>5, <2>6
  <2>8. W \subseteq W \ V
    BY <2>1, <2>7, WalkLeast
  <2>. QED  BY <2>1, <2>8
<1>. QED  BY <1>1, <1>2 DEF Apart

-----------------------------------------------------------------------------
(* The four changes.  M is what the links N become; what blocks outside the *)
(* chains point to does not matter.                                         *)

\* The first block of chain l is taken off.
LEMMA HeadOff ==
  ASSUME NEW N, NEW F, Apart(N, F), NEW l \in List, NEW b \in Block, F[l] = b,
         NEW M \in [Block -> Block \cup {Nil}], \A c \in Live(N, F) \ {b} : M[c] = N[c],
         NEW G \in [List -> Block \cup {Nil}], G[l] = N[b], \A m \in List \ {l} : G[m] = F[m]
  PROVE  /\ Apart(M, G)
         /\ Walk(M, G[l]) = Walk(N, F[l]) \ {b}
         /\ \A m \in List \ {l} : G[m] = F[m] /\ Walk(M, G[m]) = Walk(N, F[m])
         /\ Live(M, G) = Live(N, F) \ {b}
<1>1. /\ N \in [Block -> Block \cup {Nil}] /\ F \in [List -> Block \cup {Nil}] /\ b # Nil
      /\ G \in [List -> Block \cup {Nil}] /\ G[l] = N[b] /\ \A m \in List \ {l} : G[m] = F[m]
  BY NilNoBlock DEF Apart
<1>2. PICK W : W = Walk(N, b)
  OBVIOUS
<1>3. b \in W /\ W \subseteq Block /\ W \subseteq Live(N, F) /\ \A c \in W : N[c] \in W \cup {Nil}
  BY <1>1, <1>2, WalkFollows, LiveBlocks
<1>4. \A c \in Live(N, F), m \in List : N[c] = F[m] => N[c] = Nil
  BY DEF Apart
<1>5. \A c, d \in Live(N, F) : N[c] = N[d] => N[c] = Nil \/ c = d
  BY DEF Apart
<1>6. ASSUME NEW m \in List \ {l} PROVE Walk(M, G[m]) = Walk(N, F[m]) /\ b \notin Walk(N, F[m])
  <2>1. b \notin Walk(N, F[m])
    BY <1>2, <1>3, Disjoint
  <2>2. \A c \in Walk(N, F[m]) : M[c] = N[c]
    BY <2>1, LiveBlocks
  <2>. QED  BY <1>1, <2>1, <2>2, WalkSame
<1>7. Walk(M, N[b]) = W \ {b}
  <2>1. CASE N[b] = Nil
    <3>1. {b} \in SUBSET Block /\ b \in {b} /\ \A c \in {b} : N[c] \in {b} \cup {Nil}
      BY <2>1
    <3>2. W \subseteq {b}
      BY <1>2, <3>1, WalkLeast
    <3>. QED  BY <1>3, <2>1, <3>2, WalkNil
  <2>2. CASE N[b] # Nil
    <3>1. N[b] \in W \ {b} /\ N[b] \in Block
      BY <1>3, <1>4, <2>2
    <3>2. W \ {b} \in SUBSET Block /\ \A c \in W \ {b} : M[c] \in (W \ {b}) \cup {Nil}
      BY <1>1, <1>3, <1>4
    <3>3. ASSUME NEW S \in SUBSET Block, N[b] \in S, \A c \in S : M[c] \in S \cup {Nil} PROVE W \ {b} \subseteq S
      <4>1. PICK T : T = (S \cap W) \cup {b}
        OBVIOUS
      <4>2. T \in SUBSET Block /\ b \in T
        BY <1>3, <4>1
      <4>3. ASSUME NEW c \in T PROVE N[c] \in T \cup {Nil}
        <5>1. CASE c = b
          BY <3>1, <3>3, <4>1, <5>1
        <5>2. CASE c # b
          <6>1. c \in S /\ c \in W /\ M[c] = N[c]
            BY <1>3, <4>1, <4>3, <5>2
          <6>. QED  BY <1>3, <3>3, <4>1, <6>1
        <5>. QED  BY <5>1, <5>2
      <4>4. W \subseteq T
        BY <1>2, <4>2, <4>3, WalkLeast
      <4>. QED  BY <4>1, <4>4
    <3>4. PICK Q : Q = W \ {b}
      OBVIOUS
    <3>5. \A S \in SUBSET Block : N[b] \in S /\ (\A c \in S : M[c] \in S \cup {Nil}) => Q \subseteq S
      BY <3>3, <3>4
    <3>6. Q \in SUBSET Block /\ N[b] \in Q /\ \A c \in Q : M[c] \in Q \cup {Nil}
      BY <3>1, <3>2, <3>4
    <3>7. Walk(M, N[b]) = Q
      BY <3>1, <3>5, <3>6, WalkIs
    <3>. QED  BY <3>4, <3>7
  <2>. QED  BY <2>1, <2>2
<1>8. Live(M, G) = Live(N, F) \ {b}
  <2>1. Live(M, G) = (W \ {b}) \cup UNION {Walk(M, G[m]) : m \in List \ {l}}
    BY <1>1, <1>7 DEF Live
  <2>2. UNION {Walk(M, G[m]) : m \in List \ {l}} = UNION {Walk(N, F[m]) : m \in List \ {l}}
    BY <1>6
  <2>3. Live(N, F) = W \cup UNION {Walk(N, F[m]) : m \in List \ {l}}
    BY <1>2 DEF Live
  <2>4. b \notin UNION {Walk(N, F[m]) : m \in List \ {l}}
    BY <1>6
  <2>. QED  BY <2>1, <2>2, <2>3, <2>4
<1>9. ASSUME NEW m \in List, G[m] # Nil PROVE \E e \in Walk(M, G[m]) : M[e] = Nil
  <2>1. CASE m = l
    <3>1. PICK e \in W : N[e] = Nil
      BY <1>1, <1>2 DEF Apart
    <3>2. e # b
      BY <1>1, <1>9, <2>1, <3>1
    <3>. QED  BY <1>1, <1>3, <1>7, <2>1, <3>1, <3>2
  <2>2. CASE m # l
    <3>1. PICK e \in Walk(N, F[m]) : N[e] = Nil
      BY <1>1, <1>9, <2>2 DEF Apart
    <3>2. e \in Live(N, F) \ {b}
      BY <1>6, <2>2, <3>1, LiveBlocks
    <3>. QED  BY <1>6, <2>2, <3>1, <3>2
  <2>. QED  BY <2>1, <2>2
<1>10. \A m, k \in List : G[m] = G[k] /\ G[m] # Nil => m = k
  BY <1>1, <1>3, <1>4 DEF Apart
<1>11. \A c \in Live(M, G), m \in List : M[c] = G[m] => M[c] = Nil
  BY <1>1, <1>3, <1>4, <1>5, <1>8
<1>12. \A c, d \in Live(M, G) : M[c] = M[d] => M[c] = Nil \/ c = d
  BY <1>5, <1>8
<1>13. Apart(M, G)
  BY <1>1, <1>9, <1>10, <1>11, <1>12 DEF Apart
<1>. QED  BY <1>1, <1>2, <1>6, <1>7, <1>8, <1>13

\* A block of chain l is taken out from behind another.
LEMMA Bypass ==
  ASSUME NEW N, NEW F, Apart(N, F), NEW l \in List,
         NEW c \in Walk(N, F[l]), NEW b \in Block, N[c] = b,
         NEW M \in [Block -> Block \cup {Nil}], \A d \in Live(N, F) \ {b, c} : M[d] = N[d], M[c] = N[b]
  PROVE  /\ Apart(M, F)
         /\ Walk(M, F[l]) = Walk(N, F[l]) \ {b}
         /\ \A m \in List \ {l} : Walk(M, F[m]) = Walk(N, F[m])
         /\ Live(M, F) = Live(N, F) \ {b}
<1>1. N \in [Block -> Block \cup {Nil}] /\ F \in [List -> Block \cup {Nil}] /\ b # Nil
  BY NilNoBlock DEF Apart
<1>2. F[l] \in Block
  BY <1>1, WalkNil
<1>3. PICK W : W = Walk(N, F[l])
  OBVIOUS
<1>4. F[l] \in W /\ c \in W /\ W \subseteq Block /\ W \subseteq Live(N, F) /\ \A d \in W : N[d] \in W \cup {Nil}
  BY <1>1, <1>2, <1>3, WalkFollows, LiveBlocks
<1>5. \A d \in Live(N, F), m \in List : N[d] = F[m] => N[d] = Nil
  BY DEF Apart
<1>6. \A d, e \in Live(N, F) : N[d] = N[e] => N[d] = Nil \/ d = e
  BY DEF Apart
<1>7. b \in W /\ b # c /\ N[b] # b /\ F[l] # b
  BY <1>1, <1>4, <1>5, NoLoop
<1>8. ASSUME NEW m \in List \ {l} PROVE Walk(M, F[m]) = Walk(N, F[m]) /\ b \notin Walk(N, F[m])
  <2>1. b \notin Walk(N, F[m]) /\ c \notin Walk(N, F[m])
    BY <1>3, <1>4, <1>7, Disjoint
  <2>2. \A d \in Walk(N, F[m]) : M[d] = N[d]
    BY <2>1, LiveBlocks
  <2>. QED  BY <1>1, <2>1, <2>2, WalkSame
<1>9. Walk(M, F[l]) = W \ {b}
  <2>1. W \ {b} \in SUBSET Block /\ F[l] \in W \ {b}
    BY <1>4, <1>7
  <2>2. ASSUME NEW d \in W \ {b} PROVE M[d] \in (W \ {b}) \cup {Nil}
    <3>1. CASE d = c
      BY <1>4, <1>7, <3>1
    <3>2. CASE d # c
      BY <1>1, <1>4, <1>6, <2>2, <3>2
    <3>. QED  BY <3>1, <3>2
  <2>3. ASSUME NEW S \in SUBSET Block, F[l] \in S, \A d \in S : M[d] \in S \cup {Nil} PROVE W \ {b} \subseteq S
    <3>1. \A d \in S \cap (W \ {b, c}) : N[d] \in S \cup {Nil} /\ N[d] \in W \cup {Nil} /\ N[d] # b
      BY <1>1, <1>4, <1>6, <2>3
    <3>2. c \in S
      <4>1. ASSUME c \notin S PROVE FALSE
        <5>1. PICK T : T = S \cap (W \ {b})
          OBVIOUS
        <5>2. T \in SUBSET Block /\ F[l] \in T /\ \A d \in T : N[d] \in T \cup {Nil}
          BY <1>4, <1>7, <2>3, <3>1, <4>1, <5>1
        <5>3. W \subseteq T
          BY <1>3, <5>2, WalkLeast
        <5>. QED  BY <1>4, <4>1, <5>1, <5>3
      <4>. QED  BY <4>1
    <3>3. PICK T : T = (S \cap W) \cup {b}
      OBVIOUS
    <3>4. T \in SUBSET Block /\ F[l] \in T
      BY <1>4, <2>3, <3>3
    <3>5. ASSUME NEW d \in T PROVE N[d] \in T \cup {Nil}
      <4>1. CASE d = b
        BY <1>4, <1>7, <2>3, <3>2, <3>3, <4>1
      <4>2. CASE d = c
        BY <3>3, <4>2
      <4>3. CASE d # b /\ d # c
        BY <3>1, <3>3, <3>5, <4>3
      <4>. QED  BY <4>1, <4>2, <4>3
    <3>6. W \subseteq T
      BY <1>3, <3>4, <3>5, WalkLeast
    <3>. QED  BY <3>3, <3>6
  <2>4. PICK Q : Q = W \ {b}
    OBVIOUS
  <2>5. \A S \in SUBSET Block : F[l] \in S /\ (\A d \in S : M[d] \in S \cup {Nil}) => Q \subseteq S
    BY <2>3, <2>4
  <2>6. Q \in SUBSET Block /\ F[l] \in Q /\ \A d \in Q : M[d] \in Q \cup {Nil}
    BY <2>1, <2>2, <2>4
  <2>7. Walk(M, F[l]) = Q
    BY <1>2, <2>5, <2>6, WalkIs
  <2>. QED  BY <2>4, <2>7
<1>10. Live(M, F) = Live(N, F) \ {b}
  <2>1. Live(M, F) = (W \ {b}) \cup UNION {Walk(M, F[m]) : m \in List \ {l}}
    BY <1>9 DEF Live
  <2>2. UNION {Walk(M, F[m]) : m \in List \ {l}} = UNION {Walk(N, F[m]) : m \in List \ {l}}
    BY <1>8
  <2>3. Live(N, F) = W \cup UNION {Walk(N, F[m]) : m \in List \ {l}}
    BY <1>3 DEF Live
  <2>. QED  BY <1>8, <2>1, <2>2, <2>3
<1>11. ASSUME NEW m \in List, F[m] # Nil PROVE \E e \in Walk(M, F[m]) : M[e] = Nil
  <2>1. PICK e \in Walk(N, F[m]) : N[e] = Nil
    BY <1>11 DEF Apart
  <2>2. CASE m = l
    <3>1. e \in W /\ e # c
      BY <1>1, <1>3, <2>1, <2>2
    <3>2. CASE e = b
      BY <1>4, <1>7, <1>9, <2>1, <2>2, <3>2
    <3>3. CASE e # b
      BY <1>4, <1>9, <2>1, <2>2, <3>1, <3>3
    <3>. QED  BY <3>2, <3>3
  <2>3. CASE m # l
    <3>1. e \in Live(N, F) \ {b, c}
      BY <1>1, <1>8, <2>1, <2>3, LiveBlocks
    <3>. QED  BY <1>8, <2>1, <2>3, <3>1
  <2>. QED  BY <2>2, <2>3
<1>12. ASSUME NEW d \in Live(M, F) PROVE d \in Live(N, F) /\ d # b /\ M[d] = IF d = c THEN N[b] ELSE N[d]
  BY <1>10
<1>13. \A d \in Live(M, F), m \in List : M[d] = F[m] => M[d] = Nil
  BY <1>4, <1>5, <1>7, <1>12
<1>14. \A d, e \in Live(M, F) : M[d] = M[e] => M[d] = Nil \/ d = e
  BY <1>4, <1>6, <1>7, <1>12
<1>15. \A m, k \in List : F[m] = F[k] /\ F[m] # Nil => m = k
  BY DEF Apart
<1>16. Apart(M, F)
  BY <1>1, <1>11, <1>13, <1>14, <1>15 DEF Apart
<1>. QED  BY <1>3, <1>8, <1>9, <1>10, <1>16

\* Chain l, which was empty, starts with a block of no chain.
LEMMA NewStart ==
  ASSUME NEW N, NEW F, Apart(N, F), NEW l \in List, F[l] = Nil, NEW b \in Block \ Live(N, F),
         NEW M \in [Block -> Block \cup {Nil}], \A c \in Live(N, F) : M[c] = N[c], M[b] = Nil,
         NEW G \in [List -> Block \cup {Nil}], G[l] = b, \A m \in List \ {l} : G[m] = F[m]
  PROVE  /\ Apart(M, G)
         /\ Walk(M, G[l]) = {b}
         /\ \A m \in List \ {l} : G[m] = F[m] /\ Walk(M, G[m]) = Walk(N, F[m])
         /\ Live(M, G) = Live(N, F) \cup {b}
<1>1. /\ N \in [Block -> Block \cup {Nil}] /\ F \in [List -> Block \cup {Nil}] /\ b # Nil /\ b \in Block
      /\ G \in [List -> Block \cup {Nil}] /\ G[l] = b /\ \A m \in List \ {l} : G[m] = F[m]
  BY NilNoBlock DEF Apart
<1>2. ASSUME NEW m \in List \ {l} PROVE Walk(M, G[m]) = Walk(N, F[m])
  <2>1. \A c \in Walk(N, F[m]) : M[c] = N[c]
    BY LiveBlocks
  <2>. QED  BY <1>1, <2>1, WalkSame
<1>3. Walk(M, b) = {b}
  <2>1. {b} \in SUBSET Block /\ b \in {b} /\ \A c \in {b} : M[c] \in {b} \cup {Nil}
    BY <1>1
  <2>2. Walk(M, b) \subseteq {b}
    BY <2>1, WalkLeast
  <2>. QED  BY <1>1, <2>2, WalkFollows
<1>4. Live(M, G) = Live(N, F) \cup {b}
  <2>1. Live(M, G) = {b} \cup UNION {Walk(M, G[m]) : m \in List \ {l}}
    BY <1>1, <1>3 DEF Live
  <2>2. UNION {Walk(M, G[m]) : m \in List \ {l}} = UNION {Walk(N, F[m]) : m \in List \ {l}}
    BY <1>2
  <2>3. Walk(N, F[l]) = {}
    BY WalkNil
  <2>4. Live(N, F) = UNION {Walk(N, F[m]) : m \in List \ {l}}
    BY <2>3 DEF Live
  <2>. QED  BY <2>1, <2>2, <2>4
<1>5. ASSUME NEW m \in List, G[m] # Nil PROVE \E e \in Walk(M, G[m]) : M[e] = Nil
  <2>1. CASE m = l
    BY <1>1, <1>3, <2>1
  <2>2. CASE m # l
    <3>1. PICK e \in Walk(N, F[m]) : N[e] = Nil
      BY <1>1, <1>5, <2>2 DEF Apart
    <3>2. e \in Live(N, F)
      BY <3>1, LiveBlocks
    <3>. QED  BY <1>2, <2>2, <3>1, <3>2
  <2>. QED  BY <2>1, <2>2
<1>6. \A m \in List : F[m] # Nil => F[m] # b
  BY LiveBlocks
<1>7. \A c \in Live(N, F) : N[c] \in Live(N, F) \cup {Nil}
  BY LiveBlocks
<1>8. \A m, k \in List : G[m] = G[k] /\ G[m] # Nil => m = k
  BY <1>1, <1>6 DEF Apart
<1>9. \A c \in Live(N, F), m \in List : N[c] = F[m] => N[c] = Nil
  BY DEF Apart
<1>10. ASSUME NEW c \in Live(M, G), NEW m \in List, M[c] = G[m] PROVE M[c] = Nil
  <2>1. CASE c = b
    BY <2>1
  <2>2. CASE c \in Live(N, F)
    BY <1>1, <1>7, <1>9, <1>10, <2>2
  <2>. QED  BY <1>4, <2>1, <2>2
<1>11. \A c, d \in Live(M, G) : M[c] = M[d] => M[c] = Nil \/ c = d
  BY <1>4 DEF Apart
<1>12. Apart(M, G)
  BY <1>1, <1>5, <1>8, <1>10, <1>11 DEF Apart
<1>. QED  BY <1>1, <1>2, <1>3, <1>4, <1>12

\* A block of no chain is put behind the last one, e, of chain l.
LEMMA Behind ==
  ASSUME NEW N, NEW F, Apart(N, F), NEW l \in List, NEW b \in Block \ Live(N, F),
         NEW e \in Walk(N, F[l]), N[e] = Nil,
         NEW M \in [Block -> Block \cup {Nil}], \A c \in Live(N, F) \ {e} : M[c] = N[c], M[e] = b, M[b] = Nil
  PROVE  /\ Apart(M, F)
         /\ Walk(M, F[l]) = Walk(N, F[l]) \cup {b}
         /\ \A m \in List \ {l} : Walk(M, F[m]) = Walk(N, F[m])
         /\ Live(M, F) = Live(N, F) \cup {b}
<1>1. N \in [Block -> Block \cup {Nil}] /\ F \in [List -> Block \cup {Nil}] /\ b # Nil /\ b \in Block
  BY NilNoBlock DEF Apart
<1>2. F[l] \in Block
  BY <1>1, WalkNil
<1>3. PICK W : W = Walk(N, F[l])
  OBVIOUS
<1>4. F[l] \in W /\ e \in W /\ W \subseteq Block /\ W \subseteq Live(N, F) /\ \A c \in W : N[c] \in W \cup {Nil}
  BY <1>1, <1>2, <1>3, WalkFollows, LiveBlocks
<1>5. ASSUME NEW m \in List \ {l} PROVE Walk(M, F[m]) = Walk(N, F[m])
  <2>1. e \notin Walk(N, F[m])
    BY <1>3, <1>4, Disjoint
  <2>2. \A c \in Walk(N, F[m]) : M[c] = N[c]
    BY <2>1, LiveBlocks
  <2>. QED  BY <1>1, <2>2, WalkSame
<1>6. Walk(M, F[l]) = W \cup {b}
  <2>1. PICK Q : Q = W \cup {b}
    OBVIOUS
  <2>2. Q \in SUBSET Block /\ F[l] \in Q
    BY <1>1, <1>4, <2>1
  <2>3. \A c \in Q : M[c] \in Q \cup {Nil}
    BY <1>4, <2>1
  <2>4. ASSUME NEW S \in SUBSET Block, F[l] \in S, \A c \in S : M[c] \in S \cup {Nil} PROVE Q \subseteq S
    <3>1. S \cap W \in SUBSET Block /\ F[l] \in S \cap W
      BY <1>4, <2>4
    <3>2. \A c \in S \cap W : N[c] \in (S \cap W) \cup {Nil}
      BY <1>4, <2>4
    <3>3. W \subseteq S
      BY <1>3, <3>1, <3>2, WalkLeast
    <3>. QED  BY <1>1, <1>4, <2>1, <2>4, <3>3
  <2>5. \A S \in SUBSET Block : F[l] \in S /\ (\A c \in S : M[c] \in S \cup {Nil}) => Q \subseteq S
    BY <2>4
  <2>6. Walk(M, F[l]) = Q
    BY <1>2, <2>2, <2>3, <2>5, WalkIs
  <2>. QED  BY <2>1, <2>6
<1>7. Live(M, F) = Live(N, F) \cup {b}
  <2>1. Live(M, F) = W \cup {b} \cup UNION {Walk(M, F[m]) : m \in List \ {l}}
    BY <1>6 DEF Live
  <2>2. UNION {Walk(M, F[m]) : m \in List \ {l}} = UNION {Walk(N, F[m]) : m \in List \ {l}}
    BY <1>5
  <2>3. Live(N, F) = W \cup UNION {Walk(N, F[m]) : m \in List \ {l}}
    BY <1>3 DEF Live
  <2>. QED  BY <2>1, <2>2, <2>3
<1>8. ASSUME NEW m \in List, F[m] # Nil PROVE \E c \in Walk(M, F[m]) : M[c] = Nil
  <2>1. CASE m = l
    BY <1>6, <2>1
  <2>2. CASE m # l
    <3>1. PICK c \in Walk(N, F[m]) : N[c] = Nil
      BY <1>8 DEF Apart
    <3>2. c \in Live(N, F) /\ c # e
      BY <1>3, <1>4, <2>2, <3>1, LiveBlocks, Disjoint
    <3>. QED  BY <1>5, <2>2, <3>1, <3>2
  <2>. QED  BY <2>1, <2>2
<1>9. \A m \in List : F[m] # Nil => F[m] # b
  BY LiveBlocks
<1>10. \A c \in Live(N, F) : N[c] \in Live(N, F) \cup {Nil}
  BY LiveBlocks
<1>11. \A m, k \in List : F[m] = F[k] /\ F[m] # Nil => m = k
  BY DEF Apart
<1>12. \A c \in Live(N, F), m \in List : N[c] = F[m] => N[c] = Nil
  BY DEF Apart
<1>13. ASSUME NEW c \in Live(M, F), NEW m \in List, M[c] = F[m] PROVE M[c] = Nil
  BY <1>1, <1>7, <1>9, <1>12, <1>13
<1>14. ASSUME NEW c \in Live(M, F), NEW d \in Live(M, F), M[c] = M[d], M[c] # Nil PROVE c = d
  <2>1. c # b /\ d # b
    BY <1>14
  <2>2. c = e => d = e
    BY <1>1, <1>7, <1>10, <1>14, <2>1
  <2>3. d = e => c = e
    BY <1>1, <1>7, <1>10, <1>14, <2>1
  <2>. QED  BY <1>7, <1>14, <2>1, <2>2, <2>3 DEF Apart
<1>15. Apart(M, F)
  BY <1>1, <1>8, <1>11, <1>13, <1>14 DEF Apart
<1>. QED  BY <1>3, <1>5, <1>6, <1>7, <1>15

\* Nothing changes on the chains.
LEMMA SameLinks ==
  ASSUME NEW N, NEW F, Apart(N, F),
         NEW M \in [Block -> Block \cup {Nil}], \A c \in Live(N, F) : M[c] = N[c]
  PROVE  /\ Apart(M, F)
         /\ \A m \in List : Walk(M, F[m]) = Walk(N, F[m])
         /\ Live(M, F) = Live(N, F)
<1>1. ASSUME NEW m \in List PROVE Walk(M, F[m]) = Walk(N, F[m])
  <2>1. \A c \in Walk(N, F[m]) : M[c] = N[c]
    BY LiveBlocks
  <2>. QED  BY <2>1, WalkSame DEF Apart
<1>2. Live(M, F) = Live(N, F)
  BY <1>1 DEF Live
<1>3. ASSUME NEW m \in List, F[m] # Nil PROVE \E e \in Walk(M, F[m]) : M[e] = Nil
  <2>1. PICK e \in Walk(N, F[m]) : N[e] = Nil
    BY <1>3 DEF Apart
  <2>. QED  BY <1>1, <2>1, LiveBlocks
<1>. QED  BY <1>1, <1>2, <1>3 DEF Apart

-----------------------------------------------------------------------------
(* What the blocks hold: B gives the contents of the blocks, F the starts   *)
(* of the chains.                                                           *)

Contents == [next : Block \cup {Nil}, n : 0 .. BlockSize, table : [Cell -> Addr \cup Block \cup {Nil}]]

LinksOf(B)  == [b \in Block |-> B[b].next]
At(B, F, l) == Walk(LinksOf(B), F[l])

Entries(r)       == {r.table[i] : i \in 1 .. r.n}
FiledAt(B, F, l) == UNION {Entries(B[b]) : b \in At(B, F, l)}

\* Block b of chain l may hold r: packed, of the right kind, and in the free
\* list it lists itself first.
Proper(l, b, r) ==
  /\ r.n \in 1 .. BlockSize
  /\ \A i \in Cell : r.table[i] = Nil <=> i > r.n
  /\ l = -1 => r.table[1] = b /\ \A i \in 1 .. r.n : r.table[i] \in Block
  /\ l # -1 => \A i \in 1 .. r.n : r.table[i] \in Addr

\* Both chains of sizes, or both the free list.
Alike(l, m) == l = -1 <=> m = -1

\* Nothing is listed twice: not in a block, and not in two of the same kind.
Distinct(r) == \A i, k \in 1 .. r.n : r.table[i] = r.table[k] => i = k

Once(B, F) ==
  /\ \A l \in List : \A b \in At(B, F, l) : Distinct(B[b])
  /\ \A l, m \in List : Alike(l, m) =>
       \A b \in At(B, F, l), c \in At(B, F, m) : b # c => Entries(B[b]) \cap Entries(B[c]) = {}

Good(B, F) ==
  /\ B \in [Block -> Contents]
  /\ Apart(LinksOf(B), F)
  /\ \A l \in List : \A b \in At(B, F, l) : Proper(l, b, B[b])
  /\ Once(B, F)

LEMMA CellIs == BlockSize \in Nat \ {0} /\ Cell = 1 .. BlockSize /\ Nil \notin Addr /\ Nil \notin Block
BY SizesAssumption, NilAssumption, NilNoBlock DEF Cell

LEMMA LinksOfType ==
  ASSUME NEW B \in [Block -> Contents]
  PROVE  LinksOf(B) \in [Block -> Block \cup {Nil}] /\ \A b \in Block : LinksOf(B)[b] = B[b].next
BY DEF LinksOf, Contents

LEMMA AtBlocks ==
  ASSUME NEW B, NEW F, Good(B, F)
  PROVE  /\ \A l \in List : At(B, F, l) \subseteq Block
         /\ Live(LinksOf(B), F) = UNION {At(B, F, l) : l \in List}
         /\ \A l, m \in List : l # m => At(B, F, l) \cap At(B, F, m) = {}
<1>1. Apart(LinksOf(B), F)
  BY DEF Good
<1>2. \A l \in List : At(B, F, l) \subseteq Block
  BY <1>1, LiveBlocks DEF At
<1>3. \A l, m \in List : l # m => At(B, F, l) \cap At(B, F, m) = {}
  BY <1>1, Disjoint DEF At
<1>. QED  BY <1>2, <1>3 DEF Live, At

LEMMA FiledIs ==
  ASSUME NEW B, NEW F, NEW l
  PROVE  \A x : x \in FiledAt(B, F, l) <=> \E b \in At(B, F, l) : x \in Entries(B[b])
BY DEF FiledAt

\* An entry more.
LEMMA ExtendedProper ==
  ASSUME NEW l \in List, NEW b, NEW r \in Contents, Proper(l, b, r), r.n < BlockSize,
         NEW x, IF l = -1 THEN x \in Block ELSE x \in Addr,
         NEW q, q = Extended(r, x)
  PROVE  /\ q \in Contents /\ q.next = r.next /\ q.n = r.n + 1
         /\ \A i \in 1 .. r.n : q.table[i] = r.table[i]
         /\ q.table[r.n + 1] = x
         /\ Proper(l, b, q)
         /\ Entries(q) = Entries(r) \cup {x}
         /\ Distinct(r) /\ x \notin Entries(r) => Distinct(q)
<1>1. r.n \in 1 .. BlockSize /\ r.n + 1 \in Cell /\ x # Nil /\ x \in Addr \cup Block
  BY CellIs DEF Proper
<1>2. r.table \in [Cell -> Addr \cup Block \cup {Nil}] /\ r.next \in Block \cup {Nil}
  BY DEF Contents
<1>3. q.next = r.next /\ q.n = r.n + 1 /\ q.table = [r.table EXCEPT ![r.n + 1] = x]
  BY DEF Extended
<1>4. \A i \in Cell : q.table[i] = IF i = r.n + 1 THEN x ELSE r.table[i]
  BY <1>1, <1>2, <1>3
<1>5. q \in Contents
  <2>1. q.table \in [Cell -> Addr \cup Block \cup {Nil}] /\ q.n \in 0 .. BlockSize
    BY <1>1, <1>2, <1>3, CellIs
  <2>. QED  BY <1>2, <1>3, <2>1 DEF Extended, Contents
<1>6. \A i \in 1 .. r.n : i \in Cell /\ q.table[i] = r.table[i]
  BY <1>1, <1>4, CellIs
<1>7. q.table[r.n + 1] = x
  BY <1>1, <1>4
<1>8. \A i \in 1 .. q.n : i \in 1 .. r.n \/ i = r.n + 1
  BY <1>1, <1>3
<1>9. Proper(l, b, q)
  <2>1. q.n \in 1 .. BlockSize
    BY <1>1, <1>3, CellIs
  <2>2. \A i \in Cell : q.table[i] = Nil <=> i > q.n
    BY <1>1, <1>3, <1>4, CellIs DEF Proper
  <2>3. 1 \in 1 .. r.n
    BY <1>1
  <2>4. l = -1 => q.table[1] = b /\ \A i \in 1 .. q.n : q.table[i] \in Block
    BY <1>6, <1>7, <1>8, <2>3 DEF Proper
  <2>5. l # -1 => \A i \in 1 .. q.n : q.table[i] \in Addr
    BY <1>6, <1>7, <1>8 DEF Proper
  <2>. QED  BY <2>1, <2>2, <2>4, <2>5 DEF Proper
<1>10. Entries(q) = Entries(r) \cup {x}
  <2>1. \A i \in 1 .. r.n : i \in 1 .. q.n
    BY <1>1, <1>3
  <2>2. r.n + 1 \in 1 .. q.n
    BY <1>1, <1>3
  <2>. QED  BY <1>6, <1>7, <1>8, <2>1, <2>2 DEF Entries
<1>11. ASSUME Distinct(r), x \notin Entries(r) PROVE Distinct(q)
  <2>1. \A i \in 1 .. r.n : r.table[i] # x
    BY <1>11 DEF Entries
  <2>2. ASSUME NEW i \in 1 .. q.n, NEW k \in 1 .. q.n, q.table[i] = q.table[k] PROVE i = k
    BY <1>6, <1>7, <1>8, <1>11, <2>1, <2>2 DEF Distinct
  <2>. QED  BY <2>2 DEF Distinct
<1>. QED  BY <1>3, <1>5, <1>6, <1>7, <1>9, <1>10, <1>11

\* An entry less: the last one takes its place.
LEMMA ClosedProper ==
  ASSUME NEW l \in List, NEW b, NEW r \in Contents, Proper(l, b, r), r.n > 1,
         Distinct(r), NEW j \in 1 .. r.n, l = -1 => j # 1,
         NEW q, q = Closed(r, j)
  PROVE  /\ q \in Contents /\ q.next = r.next /\ q.n = r.n - 1
         /\ \A i \in 1 .. r.n - 1 : q.table[i] = r.table[IF i = j THEN r.n ELSE i]
         /\ Proper(l, b, q) /\ Distinct(q)
         /\ Entries(q) = Entries(r) \ {r.table[j]}
<1>1. r.n \in 2 .. BlockSize /\ j \in Cell /\ r.n \in Cell /\ \A i \in Cell : i \in Nat
  BY CellIs DEF Proper
<1>2. r.table \in [Cell -> Addr \cup Block \cup {Nil}] /\ r.next \in Block \cup {Nil}
  BY DEF Contents
<1>3. PICK rest : rest = {k \in j + 1 .. BlockSize : r.table[k] # Nil}
  OBVIOUS
<1>4. rest = j + 1 .. r.n
  BY <1>1, <1>3, CellIs DEF Proper
<1>5. q.next = r.next /\ q.n = r.n - 1
  BY DEF Closed, Contents
<1>6. q.table = IF rest = {} THEN [r.table EXCEPT ![j] = Nil]
                ELSE [r.table EXCEPT ![j] = r.table[Greatest(rest)], ![Greatest(rest)] = Nil]
  BY <1>3 DEF Closed, Contents
<1>7. \A i \in Cell : q.table[i] = IF i = r.n THEN Nil ELSE IF i = j THEN r.table[r.n] ELSE r.table[i]
  <2>1. CASE j = r.n
    <3>1. rest = {}
      BY <1>1, <1>4, <2>1
    <3>. QED  BY <1>1, <1>2, <1>6, <2>1, <3>1
  <2>2. CASE j # r.n
    <3>1. r.n \in rest /\ \A k \in rest : k <= r.n
      BY <1>1, <1>4, <2>2
    <3>2. PICK g : g = Greatest(rest)
      OBVIOUS
    <3>3. g \in rest /\ \A k \in rest : k <= g
      BY <3>1, <3>2 DEF Greatest
    <3>4. g = r.n
      BY <1>1, <1>4, <3>1, <3>3
    <3>5. rest # {}
      BY <3>1
    <3>6. q.table = [r.table EXCEPT ![j] = r.table[r.n], ![r.n] = Nil]
      BY <1>6, <3>2, <3>4, <3>5
    <3>. QED  BY <1>1, <1>2, <2>2, <3>6
  <2>. QED  BY <2>1, <2>2
<1>8. q \in Contents
  <2>1. q.table \in [Cell -> Addr \cup Block \cup {Nil}]
    <3>1. CASE rest = {}
      BY <1>1, <1>2, <1>6, <3>1
    <3>2. CASE rest # {}
      <4>1. r.n \in rest /\ \A k \in rest : k <= r.n
        BY <1>1, <1>4, <3>2
      <4>2. PICK g : g = Greatest(rest)
        OBVIOUS
      <4>3. g \in rest
        BY <4>1, <4>2 DEF Greatest
      <4>4. g \in Cell
        BY <1>1, <1>4, <4>3, CellIs
      <4>. QED  BY <1>1, <1>2, <1>6, <3>2, <4>2, <4>4
    <3>. QED  BY <3>1, <3>2
  <2>2. q.n \in 0 .. BlockSize
    BY <1>1, <1>5, CellIs
  <2>3. q = [next |-> q.next, n |-> q.n, table |-> q.table]
    BY DEF Closed, Contents
  <2>. QED  BY <1>2, <1>5, <2>1, <2>2, <2>3 DEF Contents
<1>9. \A i \in 1 .. r.n - 1 : i \in Cell /\ i # r.n /\ q.table[i] = r.table[IF i = j THEN r.n ELSE i]
  BY <1>1, <1>7, CellIs
<1>10. Proper(l, b, q)
  <2>1. q.n \in 1 .. BlockSize
    BY <1>1, <1>5, CellIs
  <2>2. \A i \in Cell : q.table[i] = Nil <=> i > q.n
    BY <1>1, <1>5, <1>7, CellIs DEF Proper
  <2>3. 1 \in 1 .. r.n - 1 /\ r.n \in 1 .. r.n /\ \A i \in 1 .. r.n - 1 : i \in 1 .. r.n
    BY <1>1
  <2>4. l = -1 => q.table[1] = b /\ \A i \in 1 .. q.n : q.table[i] \in Block
    BY <1>5, <1>9, <2>3 DEF Proper
  <2>5. l # -1 => \A i \in 1 .. q.n : q.table[i] \in Addr
    BY <1>5, <1>9, <2>3 DEF Proper
  <2>. QED  BY <2>1, <2>2, <2>4, <2>5 DEF Proper
<1>11. Entries(q) = Entries(r) \ {r.table[j]}
  <2>. USE DEF Distinct
  <2>1. \A i \in 1 .. r.n - 1 : i \in 1 .. r.n /\ (i # j => q.table[i] = r.table[i]) /\ (i = j => q.table[i] = r.table[r.n])
    BY <1>1, <1>9
  <2>2. \A i \in 1 .. r.n : i = r.n \/ i \in 1 .. r.n - 1
    BY <1>1
  <2>3. r.n \in 1 .. r.n
    BY <1>1
  <2>4. j # r.n => j \in 1 .. r.n - 1
    BY <2>2
  <2>5. ASSUME NEW i \in 1 .. r.n - 1 PROVE q.table[i] \in Entries(r) \ {r.table[j]}
    <3>1. CASE i = j
      <4>1. j # r.n
        BY <1>1, <2>5, <3>1
      <4>. QED  BY <2>1, <2>3, <2>5, <3>1, <4>1 DEF Entries
    <3>2. CASE i # j
      BY <2>1, <2>5, <3>2 DEF Entries
    <3>. QED  BY <3>1, <3>2
  <2>6. ASSUME NEW i \in 1 .. r.n, i # j PROVE \E k \in 1 .. r.n - 1 : q.table[k] = r.table[i]
    <3>1. CASE i = r.n
      BY <2>1, <2>4, <2>6, <3>1
    <3>2. CASE i # r.n
      BY <2>1, <2>2, <2>6, <3>2
    <3>. QED  BY <3>1, <3>2
  <2>. QED  BY <1>5, <2>5, <2>6 DEF Entries
<1>12. Distinct(q)
  <2>1. ASSUME NEW i \in 1 .. q.n, NEW k \in 1 .. q.n, q.table[i] = q.table[k] PROVE i = k
    <3>1. PICK f, g : f = (IF i = j THEN r.n ELSE i) /\ g = IF k = j THEN r.n ELSE k
      OBVIOUS
    <3>2. i \in 1 .. r.n - 1 /\ k \in 1 .. r.n - 1 /\ f \in 1 .. r.n /\ g \in 1 .. r.n
      BY <1>1, <1>5, <3>1
    <3>3. r.table[f] = r.table[g]
      BY <1>9, <2>1, <3>1, <3>2
    <3>4. f = g
      BY <3>2, <3>3 DEF Distinct
    <3>. QED  BY <1>1, <3>1, <3>2, <3>4
  <2>. QED  BY <2>1 DEF Distinct
<1>. QED  BY <1>5, <1>8, <1>9, <1>10, <1>11, <1>12

\* All blocks hold what they held, but for x, of chain k if of any.
LEMMA GoodIs ==
  ASSUME NEW B, NEW F, Good(B, F), NEW C \in [Block -> Contents], NEW G, Apart(LinksOf(C), G),
         NEW k \in List, NEW x,
         \A l \in List : \A b \in At(C, G, l) : b # x \/ l # k =>
           b \in At(B, F, l) /\ b # x /\ C[b].n = B[b].n /\ C[b].table = B[b].table,
         x \in At(C, G, k) =>
           /\ Proper(k, x, C[x]) /\ Distinct(C[x])
           /\ \A l \in List : Alike(k, l) =>
                \A b \in At(B, F, l) : b # x => Entries(C[x]) \cap Entries(B[b]) = {}
  PROVE  Good(C, G)
<1>1. \A l \in List : \A b \in At(B, F, l) : Proper(l, b, B[b]) /\ Distinct(B[b])
  BY DEF Good, Once
<1>2. ASSUME NEW l \in List, NEW b \in At(C, G, l), b # x \/ l # k
      PROVE  /\ b \in At(B, F, l) /\ b # x
             /\ Proper(l, b, C[b]) /\ Distinct(C[b]) /\ Entries(C[b]) = Entries(B[b])
  <2>1. b \in At(B, F, l) /\ b # x /\ C[b].n = B[b].n /\ C[b].table = B[b].table
    BY <1>2
  <2>. QED  BY <1>1, <2>1 DEF Proper, Distinct, Entries
<1>3. \A l \in List : \A b \in At(C, G, l) : Proper(l, b, C[b]) /\ Distinct(C[b])
  BY <1>2
<1>4. ASSUME NEW l \in List, NEW m \in List, Alike(l, m), NEW b \in At(C, G, l), NEW c \in At(C, G, m), b # c
      PROVE  Entries(C[b]) \cap Entries(C[c]) = {}
  <2>1. CASE b # x \/ l # k
    <3>1. CASE c # x \/ m # k
      BY <1>2, <1>4, <2>1, <3>1 DEF Good, Once
    <3>2. CASE c = x /\ m = k
      BY <1>2, <1>4, <2>1, <3>2 DEF Alike
    <3>. QED  BY <3>1, <3>2
  <2>2. CASE b = x /\ l = k
    BY <1>2, <1>4, <2>2 DEF Alike
  <2>. QED  BY <2>1, <2>2
<1>5. Once(C, G)
  BY <1>3, <1>4 DEF Once
<1>. QED  BY <1>3, <1>5 DEF Good

\* The contents of one block change and the links stay.
LEMMA Refilled ==
  ASSUME NEW B, NEW F, Good(B, F), NEW l \in List, NEW b \in At(B, F, l),
         NEW C \in [Block -> Contents], \A m \in List : \A c \in At(B, F, m) : c # b => C[c] = B[c],
         C[b].next = B[b].next, Proper(l, b, C[b]), Distinct(C[b]),
         \A x \in Entries(C[b]) : x \in Entries(B[b]) \/ \A m \in List : Alike(l, m) => x \notin FiledAt(B, F, m)
  PROVE  /\ Good(C, F)
         /\ \A m \in List : At(C, F, m) = At(B, F, m)
         /\ \A m \in List \ {l} : FiledAt(C, F, m) = FiledAt(B, F, m)
         /\ \A x : x \in FiledAt(C, F, l) <=> x \in Entries(C[b]) \/ \E c \in At(B, F, l) \ {b} : x \in Entries(B[c])
<1>1. /\ B \in [Block -> Contents] /\ Apart(LinksOf(B), F) /\ b \in Block
      /\ Live(LinksOf(B), F) = UNION {At(B, F, m) : m \in List}
      /\ LinksOf(B) \in [Block -> Block \cup {Nil}] /\ LinksOf(C) \in [Block -> Block \cup {Nil}]
  BY AtBlocks, LinksOfType DEF Good
<1>2. ASSUME NEW c \in Live(LinksOf(B), F) PROVE LinksOf(C)[c] = LinksOf(B)[c]
  <2>1. c \in Block /\ C[c].next = B[c].next
    BY <1>1, <1>2, LiveBlocks
  <2>. QED  BY <2>1 DEF LinksOf
<1>3. /\ Apart(LinksOf(C), F)
      /\ \A m \in List : At(C, F, m) = At(B, F, m)
  BY <1>1, <1>2, SameLinks DEF At
<1>4. ASSUME NEW m \in List, NEW c \in At(B, F, m), c # b \/ m # l PROVE c # b /\ C[c] = B[c]
  BY <1>4, AtBlocks
<1>5. ASSUME NEW m \in List, Alike(l, m), NEW c \in At(B, F, m), c # b PROVE Entries(C[b]) \cap Entries(B[c]) = {}
  <2>1. Entries(B[b]) \cap Entries(B[c]) = {}
    BY <1>5 DEF Good, Once
  <2>2. Entries(B[c]) \subseteq FiledAt(B, F, m)
    BY DEF FiledAt
  <2>. QED  BY <1>5, <2>1, <2>2
<1>6. Good(C, F)
  BY <1>3, <1>4, <1>5, GoodIs
<1>7. ASSUME NEW m \in List \ {l} PROVE FiledAt(C, F, m) = FiledAt(B, F, m)
  BY <1>3, <1>4 DEF FiledAt
<1>8. ASSUME NEW x
      PROVE  x \in FiledAt(C, F, l) <=> x \in Entries(C[b]) \/ \E c \in At(B, F, l) \ {b} : x \in Entries(B[c])
  <2>1. \A c \in At(B, F, l) \ {b} : C[c] = B[c]
    BY <1>4
  <2>2. x \in FiledAt(C, F, l) <=> \E c \in At(B, F, l) : x \in Entries(C[c])
    BY <1>3, FiledIs
  <2>. QED  BY <2>1, <2>2
<1>. QED  BY <1>3, <1>6, <1>7, <1>8

\* An entry is put into a block with room.
Grows(B, F, l, b, x, C) ==
  /\ Good(B, F) /\ l \in List /\ b \in At(B, F, l) /\ B[b].n < BlockSize
  /\ (IF l = -1 THEN x \in Block ELSE x \in Addr)
  /\ \A m \in List : Alike(l, m) => x \notin FiledAt(B, F, m)
  /\ C \in [Block -> Contents] /\ \A m \in List : \A c \in At(B, F, m) : c # b => C[c] = B[c]
  /\ C[b] = Extended(B[b], x)

LEMMA Grown ==
  ASSUME NEW B, NEW F, NEW l, NEW b, NEW x, NEW C, Grows(B, F, l, b, x, C)
  PROVE  /\ Good(C, F)
         /\ \A m \in List : At(C, F, m) = At(B, F, m)
         /\ \A m \in List \ {l} : FiledAt(C, F, m) = FiledAt(B, F, m)
         /\ FiledAt(C, F, l) = FiledAt(B, F, l) \cup {x}
<1>. /\ Good(B, F) /\ l \in List /\ b \in At(B, F, l) /\ B[b].n < BlockSize
     /\ (IF l = -1 THEN x \in Block ELSE x \in Addr)
     /\ \A m \in List : Alike(l, m) => x \notin FiledAt(B, F, m)
     /\ C \in [Block -> Contents] /\ \A m \in List : \A c \in At(B, F, m) : c # b => C[c] = B[c]
     /\ C[b] = Extended(B[b], x)
  BY DEF Grows
<1>1. B[b] \in Contents /\ Proper(l, b, B[b]) /\ Distinct(B[b])
  BY AtBlocks DEF Good, Once
<1>2. x \notin Entries(B[b])
  <2>1. Alike(l, l) /\ Entries(B[b]) \subseteq FiledAt(B, F, l)
    BY DEF Alike, FiledAt
  <2>. QED  BY <2>1
<1>3. PICK r : r = B[b]
  OBVIOUS
<1>4. r \in Contents /\ Proper(l, b, r) /\ r.n < BlockSize /\ C[b] = Extended(r, x) /\ Distinct(r) /\ x \notin Entries(r)
  BY <1>1, <1>2, <1>3
<1>5. C[b].next = r.next /\ Proper(l, b, C[b]) /\ Entries(C[b]) = Entries(r) \cup {x} /\ Distinct(C[b])
  BY <1>4, ExtendedProper
<1>6. /\ C[b].next = B[b].next
      /\ \A y \in Entries(C[b]) : y \in Entries(B[b]) \/ \A m \in List : Alike(l, m) => y \notin FiledAt(B, F, m)
  BY <1>3, <1>5
<1>7. /\ Good(C, F)
      /\ \A m \in List : At(C, F, m) = At(B, F, m)
      /\ \A m \in List \ {l} : FiledAt(C, F, m) = FiledAt(B, F, m)
      /\ \A y : y \in FiledAt(C, F, l) <=> y \in Entries(C[b]) \/ \E c \in At(B, F, l) \ {b} : y \in Entries(B[c])
  BY <1>5, <1>6, Refilled
<1>8. \A y : y \in FiledAt(B, F, l) <=> \E c \in At(B, F, l) : y \in Entries(B[c])
  BY FiledIs
<1>9. \A y : y \in FiledAt(C, F, l) <=> y \in FiledAt(B, F, l) \/ y = x
  BY <1>3, <1>5, <1>7, <1>8
<1>. QED  BY <1>7, <1>9

\* An entry is taken out of a block that has others.
Shrinks(B, F, l, b, j, C) ==
  /\ Good(B, F) /\ l \in List /\ b \in At(B, F, l) /\ B[b].n > 1
  /\ j \in 1 .. B[b].n /\ (l = -1 => j # 1)
  /\ C \in [Block -> Contents] /\ \A m \in List : \A c \in At(B, F, m) : c # b => C[c] = B[c]
  /\ C[b] = Closed(B[b], j)

LEMMA Shrunk ==
  ASSUME NEW B, NEW F, NEW l, NEW b, NEW j, NEW C, Shrinks(B, F, l, b, j, C)
  PROVE  /\ Good(C, F)
         /\ \A m \in List : At(C, F, m) = At(B, F, m)
         /\ \A m \in List \ {l} : FiledAt(C, F, m) = FiledAt(B, F, m)
         /\ FiledAt(C, F, l) = FiledAt(B, F, l) \ {B[b].table[j]}
<1>. /\ Good(B, F) /\ l \in List /\ b \in At(B, F, l) /\ B[b].n > 1
     /\ j \in 1 .. B[b].n /\ (l = -1 => j # 1)
     /\ C \in [Block -> Contents] /\ \A m \in List : \A c \in At(B, F, m) : c # b => C[c] = B[c]
     /\ C[b] = Closed(B[b], j)
  BY DEF Shrinks
<1>1. PICK r : r = B[b]
  OBVIOUS
<1>2. r \in Contents /\ Proper(l, b, r) /\ Distinct(r) /\ r.n > 1 /\ j \in 1 .. r.n /\ C[b] = Closed(r, j)
  BY <1>1, AtBlocks DEF Good, Once
<1>3. C[b].next = r.next /\ Proper(l, b, C[b]) /\ Distinct(C[b]) /\ Entries(C[b]) = Entries(r) \ {r.table[j]}
  BY <1>2, ClosedProper
<1>4. C[b].next = B[b].next /\ \A y \in Entries(C[b]) : y \in Entries(B[b])
  BY <1>1, <1>3
<1>5. /\ Good(C, F)
      /\ \A m \in List : At(C, F, m) = At(B, F, m)
      /\ \A m \in List \ {l} : FiledAt(C, F, m) = FiledAt(B, F, m)
      /\ \A x : x \in FiledAt(C, F, l) <=> x \in Entries(C[b]) \/ \E c \in At(B, F, l) \ {b} : x \in Entries(B[c])
  BY <1>3, <1>4, Refilled
<1>6. \A y : y \in FiledAt(B, F, l) <=> \E c \in At(B, F, l) : y \in Entries(B[c])
  BY FiledIs
<1>7. B[b].table[j] \in Entries(B[b])
  BY DEF Entries
<1>8. \A c \in At(B, F, l) \ {b} : B[b].table[j] \notin Entries(B[c])
  BY <1>7 DEF Good, Once, Alike
<1>9. \A y : y \in FiledAt(C, F, l) <=> y \in FiledAt(B, F, l) /\ y # B[b].table[j]
  BY <1>1, <1>3, <1>5, <1>6, <1>8
<1>. QED  BY <1>5, <1>9

\* Chain l goes on without b.
Unlinks(B, F, l, b, C, G) ==
  \/ /\ b = F[l] /\ G = [F EXCEPT ![l] = B[b].next]
     /\ \A m \in List : \A c \in At(B, F, m) : c # b => C[c] = B[c]
  \/ /\ b # F[l] /\ G = F
     /\ \E e \in At(B, F, l) :
          /\ B[e].next = b
          /\ C[e].next = B[b].next /\ C[e].n = B[e].n /\ C[e].table = B[e].table
          /\ \A m \in List : \A c \in At(B, F, m) : c \notin {b, e} => C[c] = B[c]

LEMMA UnlinksChains ==
  ASSUME NEW B, NEW F, Good(B, F), NEW l \in List, NEW b \in At(B, F, l),
         NEW C \in [Block -> Contents], NEW G, Unlinks(B, F, l, b, C, G)
  PROVE  /\ Apart(LinksOf(C), G)
         /\ At(C, G, l) = At(B, F, l) \ {b}
         /\ \A m \in List \ {l} : G[m] = F[m] /\ At(C, G, m) = At(B, F, m)
         /\ \A m \in List : \A c \in At(B, F, m) : c # b => C[c].n = B[c].n /\ C[c].table = B[c].table
<1>1. /\ B \in [Block -> Contents] /\ Apart(LinksOf(B), F) /\ b \in Block
      /\ Live(LinksOf(B), F) = UNION {At(B, F, m) : m \in List}
      /\ LinksOf(C) \in [Block -> Block \cup {Nil}]
  BY AtBlocks, LinksOfType DEF Good
<1>2. PICK N, M : N = LinksOf(B) /\ M = LinksOf(C)
  OBVIOUS
<1>3. /\ Apart(N, F) /\ M \in [Block -> Block \cup {Nil}] /\ Live(N, F) = UNION {At(B, F, m) : m \in List}
      /\ \A c \in Block : N[c] = B[c].next /\ M[c] = C[c].next
      /\ Live(N, F) \subseteq Block
      /\ \A m \in List : At(B, F, m) = Walk(N, F[m]) /\ At(C, G, m) = Walk(M, G[m]) /\ At(B, F, m) \subseteq Live(N, F)
  BY <1>1, <1>2, LinksOfType, LiveBlocks DEF At
<1>4. CASE /\ b = F[l] /\ G = [F EXCEPT ![l] = B[b].next]
           /\ \A m \in List : \A c \in At(B, F, m) : c # b => C[c] = B[c]
  <2>1. \A c \in Live(N, F) \ {b} : M[c] = N[c]
    BY <1>3, <1>4
  <2>2. G \in [List -> Block \cup {Nil}] /\ G[l] = N[b] /\ \A m \in List \ {l} : G[m] = F[m]
    BY <1>1, <1>3, <1>4 DEF Apart
  <2>3. /\ Apart(M, G) /\ Walk(M, G[l]) = Walk(N, F[l]) \ {b}
        /\ \A m \in List \ {l} : G[m] = F[m] /\ Walk(M, G[m]) = Walk(N, F[m])
    <3>1. Apart(N, F) /\ F[l] = b /\ b \in Block /\ M \in [Block -> Block \cup {Nil}]
      BY <1>1, <1>3, <1>4
    <3>. QED  BY <2>1, <2>2, <3>1, HeadOff
  <2>. QED  BY <1>2, <1>3, <1>4, <2>3
<1>5. CASE /\ b # F[l] /\ G = F
           /\ \E e \in At(B, F, l) :
                /\ B[e].next = b
                /\ C[e].next = B[b].next /\ C[e].n = B[e].n /\ C[e].table = B[e].table
                /\ \A m \in List : \A c \in At(B, F, m) : c \notin {b, e} => C[c] = B[c]
  <2>1. PICK e \in At(B, F, l) :
          /\ B[e].next = b
          /\ C[e].next = B[b].next /\ C[e].n = B[e].n /\ C[e].table = B[e].table
          /\ \A m \in List : \A c \in At(B, F, m) : c \notin {b, e} => C[c] = B[c]
    BY <1>5
  <2>2. e \in Walk(N, F[l]) /\ N[e] = b /\ M[e] = N[b]
    BY <1>1, <1>3, <2>1
  <2>3. \A c \in Live(N, F) \ {b, e} : M[c] = N[c]
    BY <1>3, <2>1
  <2>4. /\ Apart(M, F) /\ Walk(M, F[l]) = Walk(N, F[l]) \ {b}
        /\ \A m \in List \ {l} : Walk(M, F[m]) = Walk(N, F[m])
    <3>1. Apart(N, F) /\ b \in Block /\ M \in [Block -> Block \cup {Nil}]
      BY <1>1, <1>3
    <3>. QED  BY <2>2, <2>3, <3>1, Bypass
  <2>5. \A m \in List : \A c \in At(B, F, m) : c # b => C[c].n = B[c].n /\ C[c].table = B[c].table
    BY <2>1
  <2>. QED  BY <1>2, <1>3, <1>5, <2>4, <2>5
<1>. QED  BY <1>4, <1>5 DEF Unlinks

\* A block leaves its chain, with its entries.
Leaves(B, F, l, b, C, G) ==
  Good(B, F) /\ l \in List /\ b \in At(B, F, l) /\ C \in [Block -> Contents] /\ Unlinks(B, F, l, b, C, G)

LEMMA Removed ==
  ASSUME NEW B, NEW F, NEW l, NEW b, NEW C, NEW G, Leaves(B, F, l, b, C, G)
  PROVE  /\ Good(C, G)
         /\ At(C, G, l) = At(B, F, l) \ {b}
         /\ \A m \in List \ {l} : G[m] = F[m] /\ At(C, G, m) = At(B, F, m) /\ FiledAt(C, G, m) = FiledAt(B, F, m)
         /\ FiledAt(C, G, l) = FiledAt(B, F, l) \ Entries(B[b])
<1>. /\ Good(B, F) /\ l \in List /\ b \in At(B, F, l) /\ C \in [Block -> Contents] /\ Unlinks(B, F, l, b, C, G)
  BY DEF Leaves
<1>1. /\ Apart(LinksOf(C), G)
      /\ At(C, G, l) = At(B, F, l) \ {b}
      /\ \A m \in List \ {l} : G[m] = F[m] /\ At(C, G, m) = At(B, F, m)
      /\ \A m \in List : \A c \in At(B, F, m) : c # b => C[c].n = B[c].n /\ C[c].table = B[c].table
  BY UnlinksChains
<1>2. ASSUME NEW m \in List, NEW c \in At(C, G, m)
      PROVE  /\ c \in At(B, F, m) /\ c # b /\ C[c].n = B[c].n /\ C[c].table = B[c].table
             /\ Entries(C[c]) = Entries(B[c])
  <2>1. c \in At(B, F, m) /\ c # b
    BY <1>1, <1>2, AtBlocks
  <2>. QED  BY <1>1, <2>1 DEF Entries
<1>3. Good(C, G)
  <2>1. b \notin At(C, G, l)
    BY <1>1
  <2>. QED  BY <1>1, <1>2, <2>1, GoodIs
<1>4. ASSUME NEW m \in List \ {l} PROVE FiledAt(C, G, m) = FiledAt(B, F, m)
  <2>1. \A x : x \in FiledAt(C, G, m) <=> x \in FiledAt(B, F, m)
    BY <1>1, <1>2, FiledIs
  <2>. QED  BY <2>1
<1>5. FiledAt(C, G, l) = FiledAt(B, F, l) \ Entries(B[b])
  <2>1. \A c \in At(B, F, l) \ {b} : Entries(B[b]) \cap Entries(B[c]) = {}
    BY DEF Good, Once, Alike
  <2>2. \A x : x \in FiledAt(B, F, l) <=> \E c \in At(B, F, l) : x \in Entries(B[c])
    BY FiledIs
  <2>3. \A x : x \in FiledAt(C, G, l) <=> \E c \in At(B, F, l) \ {b} : x \in Entries(B[c])
    BY <1>1, <1>2, FiledIs
  <2>4. \A x : x \in FiledAt(C, G, l) <=> x \in FiledAt(B, F, l) /\ x \notin Entries(B[b])
    BY <2>1, <2>2, <2>3
  <2>. QED  BY <2>4
<1>. QED  BY <1>1, <1>3, <1>4, <1>5

\* Block b starts chain l, or is put behind its last block.
Joins(B, F, l, b, C, G) ==
  \/ /\ F[l] = Nil /\ G = [F EXCEPT ![l] = b]
     /\ \A m \in List : \A c \in At(B, F, m) : C[c] = B[c]
  \/ /\ G = F
     /\ \E e \in At(B, F, l) :
          /\ B[e].next = Nil
          /\ C[e].next = b /\ C[e].n = B[e].n /\ C[e].table = B[e].table
          /\ \A m \in List : \A c \in At(B, F, m) : c # e => C[c] = B[c]

LEMMA JoinsChains ==
  ASSUME NEW B, NEW F, Good(B, F), NEW l \in List, NEW b \in Block, \A m \in List : b \notin At(B, F, m),
         NEW C \in [Block -> Contents], NEW G, Joins(B, F, l, b, C, G), C[b].next = Nil
  PROVE  /\ Apart(LinksOf(C), G)
         /\ At(C, G, l) = At(B, F, l) \cup {b}
         /\ \A m \in List \ {l} : G[m] = F[m] /\ At(C, G, m) = At(B, F, m)
         /\ \A m \in List : \A c \in At(B, F, m) : C[c].n = B[c].n /\ C[c].table = B[c].table
<1>1. /\ B \in [Block -> Contents] /\ Apart(LinksOf(B), F)
      /\ Live(LinksOf(B), F) = UNION {At(B, F, m) : m \in List}
      /\ LinksOf(C) \in [Block -> Block \cup {Nil}]
  BY AtBlocks, LinksOfType DEF Good
<1>2. PICK N, M : N = LinksOf(B) /\ M = LinksOf(C)
  OBVIOUS
<1>3. /\ Apart(N, F) /\ M \in [Block -> Block \cup {Nil}] /\ Live(N, F) = UNION {At(B, F, m) : m \in List}
      /\ \A c \in Block : N[c] = B[c].next /\ M[c] = C[c].next
      /\ Live(N, F) \subseteq Block
      /\ \A m \in List : At(B, F, m) = Walk(N, F[m]) /\ At(C, G, m) = Walk(M, G[m]) /\ At(B, F, m) \subseteq Live(N, F)
  BY <1>1, <1>2, LinksOfType, LiveBlocks DEF At
<1>4. b \in Block \ Live(N, F) /\ M[b] = Nil
  BY <1>3
<1>5. CASE /\ F[l] = Nil /\ G = [F EXCEPT ![l] = b]
           /\ \A m \in List : \A c \in At(B, F, m) : C[c] = B[c]
  <2>1. \A c \in Live(N, F) : M[c] = N[c]
    BY <1>3, <1>5
  <2>2. /\ Apart(M, G) /\ Walk(M, G[l]) = {b}
        /\ \A m \in List \ {l} : G[m] = F[m] /\ Walk(M, G[m]) = Walk(N, F[m])
    <3>1. Apart(N, F) /\ F[l] = Nil /\ M \in [Block -> Block \cup {Nil}]
      BY <1>3, <1>5
    <3>2. G \in [List -> Block \cup {Nil}] /\ G[l] = b /\ \A m \in List \ {l} : G[m] = F[m]
      BY <1>5, <3>1 DEF Apart
    <3>. QED  BY <1>4, <2>1, <3>1, <3>2, NewStart
  <2>3. At(B, F, l) = {}
    BY <1>3, <1>5, WalkNil
  <2>. QED  BY <1>2, <1>3, <1>5, <2>2, <2>3
<1>6. CASE /\ G = F
           /\ \E e \in At(B, F, l) :
                /\ B[e].next = Nil
                /\ C[e].next = b /\ C[e].n = B[e].n /\ C[e].table = B[e].table
                /\ \A m \in List : \A c \in At(B, F, m) : c # e => C[c] = B[c]
  <2>1. PICK e \in At(B, F, l) :
          /\ B[e].next = Nil
          /\ C[e].next = b /\ C[e].n = B[e].n /\ C[e].table = B[e].table
          /\ \A m \in List : \A c \in At(B, F, m) : c # e => C[c] = B[c]
    BY <1>6
  <2>2. e \in Walk(N, F[l]) /\ N[e] = Nil /\ M[e] = b
    BY <1>3, <2>1
  <2>3. \A c \in Live(N, F) \ {e} : M[c] = N[c]
    BY <1>3, <2>1
  <2>4. /\ Apart(M, F) /\ Walk(M, F[l]) = Walk(N, F[l]) \cup {b}
        /\ \A m \in List \ {l} : Walk(M, F[m]) = Walk(N, F[m])
    <3>1. Apart(N, F) /\ M \in [Block -> Block \cup {Nil}]
      BY <1>3
    <3>. QED  BY <1>4, <2>2, <2>3, <3>1, Behind
  <2>5. \A m \in List : \A c \in At(B, F, m) : C[c].n = B[c].n /\ C[c].table = B[c].table
    BY <2>1
  <2>. QED  BY <1>2, <1>3, <1>6, <2>4, <2>5
<1>. QED  BY <1>5, <1>6 DEF Joins

\* A block with one entry joins a chain.
Enters(B, F, l, b, x, C, G) ==
  /\ Good(B, F) /\ l \in List /\ b \in Block /\ \A m \in List : b \notin At(B, F, m)
  /\ C \in [Block -> Contents] /\ Joins(B, F, l, b, C, G)
  /\ C[b].next = Nil /\ C[b].n = 1 /\ Proper(l, b, C[b])
  /\ x = C[b].table[1] /\ \A m \in List : Alike(l, m) => x \notin FiledAt(B, F, m)

LEMMA Added ==
  ASSUME NEW B, NEW F, NEW l, NEW b, NEW x, NEW C, NEW G, Enters(B, F, l, b, x, C, G)
  PROVE  /\ Good(C, G)
         /\ At(C, G, l) = At(B, F, l) \cup {b}
         /\ \A m \in List \ {l} : G[m] = F[m] /\ At(C, G, m) = At(B, F, m) /\ FiledAt(C, G, m) = FiledAt(B, F, m)
         /\ FiledAt(C, G, l) = FiledAt(B, F, l) \cup {x}
<1>. /\ Good(B, F) /\ l \in List /\ b \in Block /\ \A m \in List : b \notin At(B, F, m)
     /\ C \in [Block -> Contents] /\ Joins(B, F, l, b, C, G)
     /\ C[b].next = Nil /\ C[b].n = 1 /\ Proper(l, b, C[b])
     /\ x = C[b].table[1] /\ \A m \in List : Alike(l, m) => x \notin FiledAt(B, F, m)
  BY DEF Enters
<1>1. /\ Apart(LinksOf(C), G)
      /\ At(C, G, l) = At(B, F, l) \cup {b}
      /\ \A m \in List \ {l} : G[m] = F[m] /\ At(C, G, m) = At(B, F, m)
      /\ \A m \in List : \A c \in At(B, F, m) : C[c].n = B[c].n /\ C[c].table = B[c].table
  BY JoinsChains
<1>2. ASSUME NEW m \in List, NEW c \in At(C, G, m), c # b \/ m # l
      PROVE  /\ c \in At(B, F, m) /\ c # b /\ C[c].n = B[c].n /\ C[c].table = B[c].table
             /\ Entries(C[c]) = Entries(B[c])
  <2>1. c \in At(B, F, m) /\ c # b
    BY <1>1, <1>2
  <2>. QED  BY <1>1, <2>1 DEF Entries
<1>3. Entries(C[b]) = {x}
  <2>1. 1 .. 1 = {1}
    OBVIOUS
  <2>. QED  BY <2>1 DEF Entries
<1>4. Distinct(C[b])
  BY DEF Distinct
<1>5. ASSUME NEW m \in List, Alike(l, m), NEW c \in At(B, F, m) PROVE Entries(C[b]) \cap Entries(B[c]) = {}
  <2>1. x \notin Entries(B[c])
    BY <1>5, FiledIs
  <2>. QED  BY <1>3, <2>1
<1>6. Good(C, G)
  BY <1>1, <1>2, <1>4, <1>5, GoodIs
<1>7. ASSUME NEW m \in List \ {l} PROVE FiledAt(C, G, m) = FiledAt(B, F, m)
  <2>1. \A y : y \in FiledAt(C, G, m) <=> y \in FiledAt(B, F, m)
    BY <1>1, <1>2, FiledIs
  <2>. QED  BY <2>1
<1>8. FiledAt(C, G, l) = FiledAt(B, F, l) \cup {x}
  <2>1. \A y : y \in FiledAt(C, G, l) <=> y = x \/ \E c \in At(B, F, l) : y \in Entries(B[c])
    <3>1. \A y : y \in FiledAt(C, G, l) <=> \E c \in At(B, F, l) \cup {b} : y \in Entries(C[c])
      BY <1>1, FiledIs
    <3>2. \A c \in At(B, F, l) : Entries(C[c]) = Entries(B[c])
      BY <1>1, <1>2
    <3>. QED  BY <1>3, <3>1, <3>2
  <2>2. \A y : y \in FiledAt(B, F, l) <=> \E c \in At(B, F, l) : y \in Entries(B[c])
    BY FiledIs
  <2>3. \A y : y \in FiledAt(C, G, l) <=> y \in FiledAt(B, F, l) \cup {x}
    BY <2>1, <2>2
  <2>. QED  BY <2>3
<1>. QED  BY <1>1, <1>6, <1>7, <1>8

-----------------------------------------------------------------------------
(* The invariant.                                                           *)

Starts == [l \in List |-> IF l = -1 THEN freeHead ELSE dir[l]]

Used(B, F)  == UNION {At(B, F, s) : s \in Size}
Pages(B, F) == FiledAt(B, F, -1)

\* TypeOK, but for the last call.
Shape ==
  /\ dir \in [Size -> Block \cup {Nil}] /\ blk \in [Block -> Contents] /\ freeHead \in Block \cup {Nil}
  /\ length \in First .. MaxPages /\ size \in length .. MaxPages
  /\ pinned \subseteq {First} \cap 1 .. length - 1

\* Nothing is both in a chain and free, and nothing of either is behind the end
\* of the file.
Placed(B, F, end) == Pages(B, F) \cap Used(B, F) = {} /\ Pages(B, F) \cup Used(B, F) \subseteq First .. end - 1

Stored == Shape /\ Good(blk, Starts) /\ Placed(blk, Starts, length)

IInv == TypeOK /\ Stored

LEMMA ListIs == List = Size \cup {-1} /\ -1 \in List /\ -1 \notin Size /\ Size \subseteq List
<1>1. DirPages * Slots \in Nat
  BY SizesAssumption
<1>. QED  BY <1>1 DEF List, Size, Sizes

LEMMA AlikeIs ==
  /\ \A m \in List : Alike(-1, m) => m = -1
  /\ \A l \in Size, m \in List : Alike(l, m) => m \in Size
BY ListIs DEF Alike

LEMMA Names ==
  ASSUME Shape
  PROVE  /\ Starts \in [List -> Block \cup {Nil}]
         /\ Starts[-1] = freeHead /\ \A s \in Size : Starts[s] = dir[s]
         /\ At(blk, Starts, -1) = FreeList /\ \A s \in Size : At(blk, Starts, s) = Chain(dir[s])
         /\ FiledAt(blk, Starts, -1) = FreePages /\ \A s \in Size : FiledAt(blk, Starts, s) = Filed(s)
         /\ Used(blk, Starts) = InUse
<1>1. /\ Starts \in [List -> Block \cup {Nil}]
      /\ Starts[-1] = freeHead /\ \A s \in Size : Starts[s] = dir[s]
  BY ListIs DEF Starts, Shape
<1>2. \A l \in List : At(blk, Starts, l) = Chain(Starts[l])
  BY DEF At, Chain, Links, LinksOf
<1>3. \A b : Listed(b) = Entries(blk[b])
  BY DEF Listed, Entries
<1>4. At(blk, Starts, -1) = FreeList /\ \A s \in Size : At(blk, Starts, s) = Chain(dir[s])
  BY <1>1, <1>2, ListIs DEF FreeList
<1>5. FiledAt(blk, Starts, -1) = FreePages /\ \A s \in Size : FiledAt(blk, Starts, s) = Filed(s)
  BY <1>3, <1>4 DEF FiledAt, FreePages, Filed
<1>. QED  BY <1>1, <1>4, <1>5 DEF Used, InUse

\* The same of the next state.
LEMMA NamesNext ==
  ASSUME Shape'
  PROVE  /\ Starts' \in [List -> Block \cup {Nil}]
         /\ Starts'[-1] = freeHead' /\ \A s \in Size : Starts'[s] = dir'[s]
         /\ FiledAt(blk', Starts', -1) = FreePages' /\ \A s \in Size : FiledAt(blk', Starts', s) = Filed(s)'
         /\ Used(blk', Starts') = InUse'
<1>1. /\ Starts' \in [List -> Block \cup {Nil}]
      /\ Starts'[-1] = freeHead' /\ \A s \in Size : Starts'[s] = dir'[s]
  BY ListIs DEF Starts, Shape
<1>2. \A l \in List : At(blk', Starts', l) = Walk(Links', Starts'[l])
  BY DEF At, Links, LinksOf
<1>3. \A b : Listed(b)' = Entries(blk'[b])
  BY DEF Listed, Entries
<1>4. At(blk', Starts', -1) = FreeList' /\ \A s \in Size : At(blk', Starts', s) = Walk(Links', dir'[s])
  BY <1>1, <1>2, ListIs DEF FreeList, Chain
<1>5. FiledAt(blk', Starts', -1) = FreePages' /\ \A s \in Size : FiledAt(blk', Starts', s) = Filed(s)'
  BY <1>3, <1>4 DEF FiledAt, FreePages, Filed, Chain
<1>. QED  BY <1>1, <1>4, <1>5 DEF Used, InUse, Chain

-----------------------------------------------------------------------------
(* A block is allocated.                                                    *)

LEMMA TakenIsClosed ==
  ASSUME NEW r \in Contents, NEW l, NEW b, Proper(l, b, r), r.n > 1
  PROVE  TakenFrom(r) = Closed(r, r.n)
<1>1. r.n \in 2 .. BlockSize /\ r.n \in Cell /\ r.n # 1
  BY CellIs DEF Proper
<1>2. {k \in r.n + 1 .. BlockSize : r.table[k] # Nil} = {}
  BY <1>1, CellIs DEF Proper
<1>3. PICK a, m, T : a = r.next /\ m = r.n /\ T = r.table
  OBVIOUS
<1>4. r = [next |-> a, n |-> m, table |-> T]
  BY <1>3 DEF Contents
<1>5. Closed(r, r.n) = [r EXCEPT !.n = @ - 1, !.table = [@ EXCEPT ![r.n] = Nil]]
  BY <1>2 DEF Closed
<1>6. Closed(r, r.n) = [next |-> a, n |-> m - 1, table |-> [T EXCEPT ![m] = Nil]]
  BY <1>4, <1>5
<1>7. TakenFrom(r) = [next |-> a, n |-> m - 1, table |-> [T EXCEPT ![m] = Nil]]
  BY <1>1, <1>3 DEF TakenFrom
<1>. QED  BY <1>6, <1>7

\* The free list lists its head's last entry no more, or has lost its head.
Hands(B, F, x, C, G) ==
  /\ F[-1] # Nil /\ x = B[F[-1]].table[B[F[-1]].n]
  /\ C = [B EXCEPT ![F[-1]] = TakenFrom(@)]
  /\ G = [F EXCEPT ![-1] = IF B[F[-1]].n = 1 THEN B[F[-1]].next ELSE F[-1]]

LEMMA TakesFree ==
  ASSUME NEW B, NEW F, Good(B, F), NEW C, NEW G, NEW x, Hands(B, F, x, C, G)
  PROVE  /\ C \in [Block -> Contents] /\ Good(C, G)
         /\ x \in Block /\ x \in Pages(B, F) /\ x \notin At(C, G, -1)
         /\ Pages(C, G) = Pages(B, F) \ {x}
         /\ \A s \in Size : /\ G[s] = F[s] /\ At(C, G, s) = At(B, F, s) /\ FiledAt(C, G, s) = FiledAt(B, F, s)
                            /\ \A b \in At(B, F, s) : C[b] = B[b]
<1>f. PICK f : f = F[-1]
  OBVIOUS
<1>0. /\ f = F[-1] /\ f # Nil /\ x = B[f].table[B[f].n]
      /\ C = [B EXCEPT ![f] = TakenFrom(@)]
      /\ G = [F EXCEPT ![-1] = IF B[f].n = 1 THEN B[f].next ELSE f]
  BY <1>f DEF Hands
<1>1. /\ B \in [Block -> Contents] /\ Apart(LinksOf(B), F) /\ F \in [List -> Block \cup {Nil}]
      /\ -1 \in List /\ -1 \notin Size /\ Size \subseteq List
  BY ListIs DEF Good, Apart
<1>2. f \in Block /\ f \in At(B, F, -1)
  BY <1>0, <1>1, WalkFollows, LinksOfType DEF At
<1>3. PICK r : r = B[f]
  OBVIOUS
<1>4. r \in Contents /\ Proper(-1, f, r) /\ Distinct(r)
  BY <1>1, <1>2, <1>3 DEF Good, Once
<1>5. r.n \in 1 .. BlockSize /\ r.table[1] = f /\ x = r.table[r.n] /\ x \in Block /\ x \in Entries(r)
  BY <1>0, <1>3, <1>4 DEF Proper, Entries
<1>6. x \in Pages(B, F)
  BY <1>2, <1>3, <1>5, FiledIs DEF Pages
<1>7. C[f] = TakenFrom(r) /\ \A c \in Block : c # f => C[c] = B[c]
  BY <1>0, <1>1, <1>2, <1>3
<1>8. \A s \in Size : \A b \in At(B, F, s) : b # f /\ b \in Block
  BY <1>1, <1>2, AtBlocks
<1>9. CASE r.n = 1
  <2>1. TakenFrom(r) \in Contents
    BY <1>4, <1>5, <1>9, CellIs DEF TakenFrom, Contents
  <2>2. C \in [Block -> Contents]
    BY <1>0, <1>1, <1>2, <1>7, <2>1
  <2>3. G = [F EXCEPT ![-1] = B[f].next] /\ x = f
    BY <1>0, <1>3, <1>5, <1>9
  <2>4. Unlinks(B, F, -1, f, C, G)
    BY <1>0, <1>7, <2>3, AtBlocks DEF Unlinks
  <2>5. /\ Good(C, G) /\ At(C, G, -1) = At(B, F, -1) \ {f}
        /\ \A m \in List \ {-1} : G[m] = F[m] /\ At(C, G, m) = At(B, F, m) /\ FiledAt(C, G, m) = FiledAt(B, F, m)
        /\ FiledAt(C, G, -1) = FiledAt(B, F, -1) \ Entries(B[f])
    <3>1. PICK l : l = -1
      OBVIOUS
    <3>2. Leaves(B, F, l, f, C, G)
      BY <1>1, <1>2, <2>2, <2>4, <3>1 DEF Leaves
    <3>3. /\ Good(C, G) /\ At(C, G, l) = At(B, F, l) \ {f}
          /\ \A m \in List \ {l} : G[m] = F[m] /\ At(C, G, m) = At(B, F, m) /\ FiledAt(C, G, m) = FiledAt(B, F, m)
          /\ FiledAt(C, G, l) = FiledAt(B, F, l) \ Entries(B[f])
      BY <3>2, Removed
    <3>. QED  BY <3>1, <3>3
  <2>6. Entries(B[f]) = {f}
    <3>1. 1 .. 1 = {1}
      OBVIOUS
    <3>. QED  BY <1>3, <1>5, <1>9, <3>1 DEF Entries
  <2>. QED  BY <1>1, <1>5, <1>6, <1>7, <1>8, <2>2, <2>3, <2>5, <2>6 DEF Pages
<1>10. CASE r.n # 1
  <2>1. r.n > 1 /\ r.n \in 1 .. r.n /\ r.n # 1
    BY <1>5, <1>10
  <2>2. C[f] = Closed(r, r.n)
    BY <1>4, <1>7, <2>1, TakenIsClosed
  <2>3. C[f] \in Contents
    BY <1>4, <2>1, <2>2, ListIs, ClosedProper
  <2>4. C \in [Block -> Contents]
    BY <1>0, <1>1, <1>2, <1>7, <2>3
  <2>5. G = F
    <3>1. G = [F EXCEPT ![-1] = f]
      BY <1>0, <1>3, <1>10
    <3>. QED  BY <1>0, <1>1, <3>1
  <2>6. PICK l, j : l = -1 /\ j = r.n
    OBVIOUS
  <2>7. /\ Good(C, F)
        /\ \A m \in List : At(C, F, m) = At(B, F, m)
        /\ \A m \in List \ {-1} : FiledAt(C, F, m) = FiledAt(B, F, m)
        /\ FiledAt(C, F, -1) = FiledAt(B, F, -1) \ {B[f].table[B[f].n]}
    <3>1. \A m \in List : \A c \in At(B, F, m) : c # f => C[c] = B[c]
      BY <1>7, AtBlocks
    <3>2. Shrinks(B, F, l, f, j, C)
      BY <1>1, <1>2, <1>3, <2>1, <2>2, <2>4, <2>6, <3>1 DEF Shrinks
    <3>3. /\ Good(C, F)
          /\ \A m \in List : At(C, F, m) = At(B, F, m)
          /\ \A m \in List \ {l} : FiledAt(C, F, m) = FiledAt(B, F, m)
          /\ FiledAt(C, F, l) = FiledAt(B, F, l) \ {B[f].table[j]}
      BY <3>2, Shrunk
    <3>. QED  BY <1>3, <2>6, <3>3
  <2>8. x \notin At(B, F, -1)
    <3>1. ASSUME x \in At(B, F, -1) PROVE FALSE
      <4>1. x \in Entries(B[x])
        BY <1>1, <3>1 DEF Good, Proper, Entries
      <4>2. x = f
        BY <1>1, <1>2, <1>3, <1>5, <3>1, <4>1 DEF Good, Once, Alike
      <4>3. 1 \in 1 .. r.n /\ r.table[1] = r.table[r.n]
        BY <1>5, <2>1, <4>2
      <4>. QED  BY <1>4, <2>1, <4>3 DEF Distinct
    <3>. QED  BY <3>1
  <2>. QED  BY <1>1, <1>3, <1>5, <1>6, <1>7, <1>8, <2>4, <2>5, <2>7, <2>8 DEF Pages
<1>. QED  BY <1>9, <1>10

\* A block is allocated: the last one the free list lists, or a new last page.
Gets(B, F, end, x, C, G, last) ==
  \/ F[-1] = Nil /\ x = end /\ x \in Block /\ C = B /\ G = F /\ last = end + 1
  \/ Hands(B, F, x, C, G) /\ last = end

LEMMA Allocated ==
  ASSUME NEW B, NEW F, NEW end \in First .. MaxPages, Good(B, F), Placed(B, F, end),
         NEW x, NEW C, NEW G, NEW last, Gets(B, F, end, x, C, G, last)
  PROVE  /\ Good(C, G) /\ last \in end .. MaxPages /\ x \in First .. last - 1
         /\ x \in Block /\ \A m \in List : x \notin At(C, G, m)
         /\ x \notin Pages(C, G) /\ Pages(B, F) \subseteq Pages(C, G) \cup {x}
         /\ Pages(C, G) \subseteq Pages(B, F)
         /\ \A y \in end .. last - 1 : y = x
         /\ \A s \in Size : /\ G[s] = F[s] /\ At(C, G, s) = At(B, F, s) /\ FiledAt(C, G, s) = FiledAt(B, F, s)
                            /\ \A b \in At(B, F, s) : C[b] = B[b]
<1>1. First \in Nat /\ MaxPages \in Nat /\ end \in Nat /\ Block = First .. MaxPages - 1
  BY SizesAssumption DEF First, Block
<1>2. ASSUME NEW s \in Size, NEW y \in At(B, F, s) PROVE y \in First .. end - 1 /\ y \notin Pages(B, F)
  <2>1. y \in Used(B, F)
    BY <1>2 DEF Used
  <2>. QED  BY <2>1 DEF Placed
<1>3. Pages(B, F) \subseteq First .. end - 1
  BY DEF Placed
<1>4. CASE F[-1] = Nil /\ x = end /\ x \in Block /\ C = B /\ G = F /\ last = end + 1
  <2>1. x \notin First .. end - 1
    BY <1>1, <1>4
  <2>2. At(B, F, -1) = {}
    BY <1>4, WalkNil DEF At
  <2>3. \A m \in List : x \notin At(B, F, m)
    BY <1>2, <2>1, <2>2, ListIs
  <2>4. last \in end .. MaxPages /\ x \in First .. last - 1 /\ \A y \in end .. last - 1 : y = x
    BY <1>1, <1>4
  <2>5. x \notin Pages(B, F)
    BY <1>3, <2>1
  <2>. QED  BY <1>4, <2>3, <2>4, <2>5
<1>5. CASE Hands(B, F, x, C, G) /\ last = end
  <2>1. /\ C \in [Block -> Contents] /\ Good(C, G)
        /\ x \in Block /\ x \in Pages(B, F) /\ x \notin At(C, G, -1)
        /\ Pages(C, G) = Pages(B, F) \ {x}
        /\ \A s \in Size : /\ G[s] = F[s] /\ At(C, G, s) = At(B, F, s) /\ FiledAt(C, G, s) = FiledAt(B, F, s)
                           /\ \A b \in At(B, F, s) : C[b] = B[b]
    BY <1>5, TakesFree
  <2>2. \A m \in List : x \notin At(C, G, m)
    BY <1>2, <2>1, ListIs
  <2>3. last \in end .. MaxPages /\ x \in First .. last - 1 /\ \A y \in end .. last - 1 : y = x
    BY <1>1, <1>3, <1>5, <2>1
  <2>. QED  BY <2>1, <2>2, <2>3
<1>. QED  BY <1>4, <1>5 DEF Gets

-----------------------------------------------------------------------------
(* The calls, on contents and starts.                                       *)

\* What every call keeps: the chains are good, nothing is both used and free or
\* behind the end of the file, and no page of the file drops out of both.
Kept(B, F, end, C, G, last) ==
  /\ Good(C, G) /\ Placed(C, G, last)
  /\ \A y \in First .. last - 1 : y \in Used(B, F) \cup Pages(B, F) \/ y >= end => y \in Used(C, G) \cup Pages(C, G)

\* Size s has the entry a more or less, the other sizes what they had.
Gains(B, F, C, G, s, a) ==
  /\ FiledAt(C, G, s) = FiledAt(B, F, s) \cup {a}
  /\ \A t \in Size \ {s} : FiledAt(C, G, t) = FiledAt(B, F, t)

Loses(B, F, C, G, s, a) ==
  /\ FiledAt(C, G, s) = FiledAt(B, F, s) \ {a}
  /\ \A t \in Size \ {s} : FiledAt(C, G, t) = FiledAt(B, F, t)

LEMMA FreshProper ==
  ASSUME NEW s \in Size, NEW a \in Addr, NEW b
  PROVE  /\ Fresh(a) \in Contents /\ Fresh(a).next = Nil /\ Fresh(a).n = 1 /\ Fresh(a).table[1] = a
         /\ Proper(s, b, Fresh(a))
<1>1. PICK r, T : r = Fresh(a) /\ T = [i \in Cell |-> IF i = 1 THEN a ELSE Nil]
  OBVIOUS
<1>2. T \in [Cell -> Addr \cup Block \cup {Nil}] /\ T[1] = a /\ \A i \in Cell : T[i] = IF i = 1 THEN a ELSE Nil
  BY <1>1, CellIs
<1>3. r = [next |-> Nil, n |-> 1, table |-> T]
  BY <1>1 DEF Fresh
<1>4. r.next = Nil /\ r.n = 1 /\ r.table = T /\ 1 \in 0 .. BlockSize /\ 1 \in 1 .. BlockSize
  BY <1>3, CellIs
<1>5. r \in Contents
  BY <1>2, <1>3, <1>4 DEF Contents
<1>6. \A i \in Cell : T[i] = Nil <=> i > 1
  BY <1>2, CellIs
<1>7. \A i \in 1 .. 1 : T[i] = a
  BY <1>2
<1>8. Proper(s, b, r)
  BY <1>4, <1>6, <1>7, ListIs DEF Proper
<1>. QED  BY <1>1, <1>2, <1>4, <1>5, <1>8

\* A new block with one entry starts a chain or is put behind one.
LEMMA Begun ==
  ASSUME NEW B, NEW F, NEW end \in First .. MaxPages, Good(B, F), Placed(B, F, end),
         NEW x, NEW D, NEW H, NEW last, Gets(B, F, end, x, D, H, last),
         NEW s \in Size, NEW a \in Addr, \A t \in Size : a \notin FiledAt(B, F, t),
         NEW C \in [Block -> Contents], NEW G, Joins(D, H, s, x, C, G), C[x] = Fresh(a)
  PROVE  Kept(B, F, end, C, G, last) /\ Gains(B, F, C, G, s, a)
<1>1. /\ Good(D, H) /\ last \in end .. MaxPages /\ x \in First .. last - 1
      /\ x \in Block /\ \A m \in List : x \notin At(D, H, m)
      /\ x \notin Pages(D, H) /\ Pages(B, F) \subseteq Pages(D, H) \cup {x}
      /\ Pages(D, H) \subseteq Pages(B, F)
      /\ \A y \in end .. last - 1 : y = x
      /\ \A t \in Size : H[t] = F[t] /\ At(D, H, t) = At(B, F, t) /\ FiledAt(D, H, t) = FiledAt(B, F, t)
  BY Allocated
<1>2. s \in List /\ -1 \in List /\ -1 # s /\ -1 \notin Size /\ Size \subseteq List
  BY ListIs
<1>3. \A m \in List : Alike(s, m) => a \notin FiledAt(D, H, m)
  BY <1>1, AlikeIs
<1>4. Enters(D, H, s, x, a, C, G)
  BY <1>1, <1>2, <1>3, FreshProper DEF Enters
<1>5. /\ Good(C, G)
      /\ At(C, G, s) = At(D, H, s) \cup {x}
      /\ \A m \in List \ {s} : G[m] = H[m] /\ At(C, G, m) = At(D, H, m) /\ FiledAt(C, G, m) = FiledAt(D, H, m)
      /\ FiledAt(C, G, s) = FiledAt(D, H, s) \cup {a}
  BY <1>4, Added
<1>6. Gains(B, F, C, G, s, a)
  BY <1>1, <1>2, <1>5 DEF Gains
<1>7. Pages(C, G) = Pages(D, H)
  BY <1>2, <1>5 DEF Pages
<1>8. Used(C, G) = Used(B, F) \cup {x}
  <2>1. \A t \in Size : At(C, G, t) = IF t = s THEN At(B, F, t) \cup {x} ELSE At(B, F, t)
    BY <1>1, <1>2, <1>5
  <2>. QED  BY <2>1 DEF Used
<1>9. /\ Used(B, F) \cap Pages(B, F) = {}
      /\ \A y \in Used(B, F) \cup Pages(B, F) : y \in First .. last - 1
  <2>1. end \in Int /\ last \in Int /\ end <= last /\ First \in Int
    BY <1>1, SizesAssumption DEF First
  <2>2. First .. end - 1 \subseteq First .. last - 1
    BY <2>1
  <2>. QED  BY <2>2 DEF Placed
<1>10. Placed(C, G, last)
  BY <1>1, <1>7, <1>8, <1>9 DEF Placed
<1>11. ASSUME NEW y \in First .. last - 1, y \in Used(B, F) \cup Pages(B, F) \/ y >= end
       PROVE  y \in Used(C, G) \cup Pages(C, G)
  <2>1. y >= end => y = x
    BY <1>1, <1>11
  <2>. QED  BY <1>1, <1>7, <1>8, <1>11, <2>1
<1>. QED  BY <1>5, <1>6, <1>10, <1>11 DEF Kept

\* When no chain and no free list changes, no page is lost.
LEMMA SamePlaces ==
  ASSUME NEW B, NEW F, NEW end \in First .. MaxPages, Placed(B, F, end), NEW C, Good(C, F),
         \A m \in List : At(C, F, m) = At(B, F, m), FiledAt(C, F, -1) = FiledAt(B, F, -1)
  PROVE  Kept(B, F, end, C, F, end)
<1>1. Used(C, F) = Used(B, F)
  BY ListIs DEF Used
<1>2. Pages(C, F) = Pages(B, F)
  BY DEF Pages
<1>3. end \in Int /\ First \in Int
  BY SizesAssumption DEF First
<1>4. \A y \in First .. end - 1 : ~(y >= end)
  BY <1>3
<1>. QED  BY <1>1, <1>2, <1>4 DEF Kept, Placed

\* An entry more in a block of a chain.
Puts(B, b, a, C) == C = [B EXCEPT ![b] = Extended(@, a)]

LEMMA Filled ==
  ASSUME NEW B, NEW F, NEW end \in First .. MaxPages, Good(B, F), Placed(B, F, end),
         NEW s \in Size, NEW a \in Addr, \A t \in Size : a \notin FiledAt(B, F, t),
         NEW b \in At(B, F, s), B[b].n < BlockSize, NEW C, Puts(B, b, a, C)
  PROVE  Kept(B, F, end, C, F, end) /\ Gains(B, F, C, F, s, a)
<1>1. s \in List /\ -1 \in List /\ s # -1 /\ Size \subseteq List
  BY ListIs
<1>2. B \in [Block -> Contents] /\ b \in Block /\ Proper(s, b, B[b])
  BY <1>1, AtBlocks DEF Good
<1>3. PICK r, q : r = B[b] /\ q = Extended(r, a)
  OBVIOUS
<1>4. r \in Contents /\ Proper(s, b, r) /\ r.n < BlockSize
  BY <1>2, <1>3
<1>5. q \in Contents
  BY <1>1, <1>3, <1>4, ExtendedProper
<1>6. C = [B EXCEPT ![b] = q]
  BY <1>3 DEF Puts
<1>7. C \in [Block -> Contents] /\ C[b] = q /\ \A c \in Block : c # b => C[c] = B[c]
  BY <1>2, <1>5, <1>6
<1>8. \A m \in List : \A c \in At(B, F, m) : c # b => C[c] = B[c]
  BY <1>7, AtBlocks
<1>9. Grows(B, F, s, b, a, C)
  BY <1>1, <1>3, <1>7, <1>8, AlikeIs DEF Grows
<1>10. /\ Good(C, F)
       /\ \A m \in List : At(C, F, m) = At(B, F, m)
       /\ \A m \in List \ {s} : FiledAt(C, F, m) = FiledAt(B, F, m)
       /\ FiledAt(C, F, s) = FiledAt(B, F, s) \cup {a}
  BY <1>9, Grown
<1>. QED  BY <1>1, <1>10, SamePlaces DEF Gains

\* An entry less in a block of a chain that has others.
Cuts(B, b, j, C) == C = [B EXCEPT ![b] = Closed(@, j)]

LEMMA Thinned ==
  ASSUME NEW B, NEW F, NEW end \in First .. MaxPages, Good(B, F), Placed(B, F, end),
         NEW s \in Size, NEW b \in At(B, F, s), B[b].n > 1, NEW j \in 1 .. B[b].n,
         NEW C, Cuts(B, b, j, C)
  PROVE  Kept(B, F, end, C, F, end) /\ Loses(B, F, C, F, s, B[b].table[j])
<1>1. s \in List /\ -1 \in List /\ s # -1 /\ Size \subseteq List
  BY ListIs
<1>2. B \in [Block -> Contents] /\ b \in Block /\ Proper(s, b, B[b]) /\ Distinct(B[b])
  BY <1>1, AtBlocks DEF Good, Once
<1>3. PICK r, q : r = B[b] /\ q = Closed(r, j)
  OBVIOUS
<1>4. r \in Contents /\ Proper(s, b, r) /\ r.n > 1 /\ Distinct(r) /\ j \in 1 .. r.n
  BY <1>2, <1>3
<1>5. q \in Contents
  BY <1>1, <1>3, <1>4, ClosedProper
<1>6. C = [B EXCEPT ![b] = q]
  BY <1>3 DEF Cuts
<1>7. C \in [Block -> Contents] /\ C[b] = q /\ \A c \in Block : c # b => C[c] = B[c]
  BY <1>2, <1>5, <1>6
<1>8. \A m \in List : \A c \in At(B, F, m) : c # b => C[c] = B[c]
  BY <1>7, AtBlocks
<1>9. Shrinks(B, F, s, b, j, C)
  BY <1>1, <1>3, <1>7, <1>8 DEF Shrinks
<1>10. /\ Good(C, F)
       /\ \A m \in List : At(C, F, m) = At(B, F, m)
       /\ \A m \in List \ {s} : FiledAt(C, F, m) = FiledAt(B, F, m)
       /\ FiledAt(C, F, s) = FiledAt(B, F, s) \ {B[b].table[j]}
  BY <1>9, Shrunk
<1>. QED  BY <1>1, <1>10, SamePlaces DEF Loses

\* Unlink, which goes on from the blocks Q, on contents and starts.
Bypasses(B, F, s, b, Q, C, G) ==
  IF b = F[s] THEN G = [F EXCEPT ![s] = B[b].next] /\ C = Q
  ELSE G = F /\ \E c \in At(B, F, s) : B[c].next = b /\ C = [Q EXCEPT ![c].next = B[b].next]

\* Outside b and the free list Q is B.
LEMMA Bypassed ==
  ASSUME NEW B, NEW F, Good(B, F), NEW s \in Size, NEW b \in At(B, F, s),
         NEW Q \in [Block -> Contents], \A c \in Block : c = b \/ c \in At(B, F, -1) \/ Q[c] = B[c],
         NEW C, NEW G, Bypasses(B, F, s, b, Q, C, G)
  PROVE  /\ C \in [Block -> Contents] /\ b \in Block /\ G[-1] = F[-1]
         /\ \A c \in Block : c = b \/ c \in At(B, F, -1) => C[c] = Q[c]
         /\ \A D \in [Block -> Contents] :
              (\A c \in Block : c # b => D[c] = IF c \in At(B, F, -1) THEN B[c] ELSE C[c]) => Leaves(B, F, s, b, D, G)
<1>1. /\ s \in List /\ -1 \in List /\ s # -1 /\ Size \subseteq List
      /\ B \in [Block -> Contents] /\ b \in Block /\ F \in [List -> Block \cup {Nil}]
      /\ \A m \in List : At(B, F, m) \subseteq Block
      /\ \A c \in At(B, F, s) : c \notin At(B, F, -1)
  BY ListIs, AtBlocks DEF Good, Apart
<1>2. B[b].next \in Block \cup {Nil}
  BY <1>1 DEF Contents
<1>3. CASE b = F[s] /\ G = [F EXCEPT ![s] = B[b].next] /\ C = Q
  <2>1. G[-1] = F[-1]
    BY <1>1, <1>3
  <2>2. ASSUME NEW D \in [Block -> Contents],
               \A c \in Block : c # b => D[c] = IF c \in At(B, F, -1) THEN B[c] ELSE C[c]
        PROVE  Leaves(B, F, s, b, D, G)
    <3>1. \A m \in List : \A c \in At(B, F, m) : c # b => D[c] = B[c]
      BY <1>1, <1>3, <2>2
    <3>2. Unlinks(B, F, s, b, D, G)
      BY <1>3, <3>1 DEF Unlinks
    <3>. QED  BY <1>1, <3>2 DEF Leaves
  <2>. QED  BY <1>1, <1>3, <2>1, <2>2
<1>4. CASE /\ b # F[s] /\ G = F
           /\ \E c \in At(B, F, s) : B[c].next = b /\ C = [Q EXCEPT ![c].next = B[b].next]
  <2>1. PICK e \in At(B, F, s) : B[e].next = b /\ C = [Q EXCEPT ![e].next = B[b].next]
    BY <1>4
  <2>2. e \in Block /\ e \notin At(B, F, -1) /\ e # b
    <3>1. PICK N : N = LinksOf(B)
      OBVIOUS
    <3>2. Apart(N, F) /\ e \in Live(N, F) /\ N[e] = B[e].next
      BY <1>1, <3>1, AtBlocks, LinksOfType DEF Good
    <3>3. N[e] # e
      BY <3>2, NoLoop
    <3>. QED  BY <1>1, <2>1, <3>2, <3>3
  <2>3. PICK q : q = [Q[e] EXCEPT !.next = B[b].next]
    OBVIOUS
  <2>4. C = [Q EXCEPT ![e] = q]
    BY <2>1, <2>3
  <2>5. Q[e] \in Contents /\ Q[e] = B[e]
    BY <1>1, <2>2
  <2>6. q \in Contents /\ q.next = B[b].next /\ q.n = B[e].n /\ q.table = B[e].table
    BY <1>2, <2>3, <2>5 DEF Contents
  <2>7. C \in [Block -> Contents] /\ C[e] = q /\ \A c \in Block : c # e => C[c] = Q[c]
    BY <2>2, <2>4, <2>6
  <2>8. ASSUME NEW D \in [Block -> Contents],
               \A c \in Block : c # b => D[c] = IF c \in At(B, F, -1) THEN B[c] ELSE C[c]
        PROVE  Leaves(B, F, s, b, D, G)
    <3>1. D[e] = q
      BY <2>2, <2>7, <2>8
    <3>2. \A m \in List : \A c \in At(B, F, m) : c \notin {b, e} => D[c] = B[c]
      BY <1>1, <2>7, <2>8
    <3>3. Unlinks(B, F, s, b, D, G)
      BY <1>4, <2>1, <2>6, <3>1, <3>2 DEF Unlinks
    <3>. QED  BY <1>1, <3>3 DEF Leaves
  <2>. QED  BY <1>1, <1>4, <2>2, <2>7, <2>8
<1>. QED  BY <1>3, <1>4 DEF Bypasses

\* A block whose last entry is taken out leaves its chain.
LEMMA Vacated ==
  ASSUME NEW B, NEW F, NEW end, Placed(B, F, end), NEW s \in Size, NEW b, B[b].n = 1,
         NEW D, NEW G, Leaves(B, F, s, b, D, G)
  PROVE  /\ Good(D, G) /\ Used(D, G) = Used(B, F) \ {b} /\ Pages(D, G) = Pages(B, F)
         /\ b \in Used(B, F) /\ b \notin Pages(B, F) /\ \A m \in List : b \notin At(D, G, m)
         /\ At(D, G, -1) = At(B, F, -1) /\ G[-1] = F[-1]
         /\ Loses(B, F, D, G, s, B[b].table[1])
<1>1. Good(B, F) /\ s \in List /\ b \in At(B, F, s) /\ D \in [Block -> Contents]
  BY DEF Leaves
<1>2. -1 \in List /\ s # -1 /\ Size \subseteq List
  BY ListIs
<1>3. /\ Good(D, G)
      /\ At(D, G, s) = At(B, F, s) \ {b}
      /\ \A m \in List \ {s} : G[m] = F[m] /\ At(D, G, m) = At(B, F, m) /\ FiledAt(D, G, m) = FiledAt(B, F, m)
      /\ FiledAt(D, G, s) = FiledAt(B, F, s) \ Entries(B[b])
  BY Removed
<1>4. b \in Used(B, F) /\ b \notin Pages(B, F)
  BY <1>1 DEF Used, Placed
<1>5. \A m \in List \ {s} : b \notin At(B, F, m)
  BY <1>1, AtBlocks
<1>6. \A t \in Size : At(D, G, t) = At(B, F, t) \ {b}
  BY <1>2, <1>3, <1>5
<1>7. Used(D, G) = Used(B, F) \ {b}
  BY <1>6 DEF Used
<1>8. Entries(B[b]) = {B[b].table[1]}
  <2>1. 1 .. 1 = {1}
    OBVIOUS
  <2>. QED  BY <2>1 DEF Entries
<1>. QED  BY <1>2, <1>3, <1>4, <1>5, <1>7, <1>8 DEF Pages, Loses

\* The block was the last page of the file.
LEMMA Dropped ==
  ASSUME NEW B, NEW F, NEW end \in First .. MaxPages, Good(B, F), Placed(B, F, end),
         NEW s \in Size, NEW b \in At(B, F, s), B[b].n = 1, b = end - 1,
         NEW Q \in [Block -> Contents], \A c \in Block : c # b => Q[c] = B[c],
         NEW C, NEW G, Bypasses(B, F, s, b, Q, C, G)
  PROVE  end - 1 \in First .. MaxPages /\ Kept(B, F, end, C, G, end - 1) /\ Loses(B, F, C, G, s, B[b].table[1])
<1>1. \A c \in Block : c = b \/ c \in At(B, F, -1) \/ Q[c] = B[c]
  OBVIOUS
<1>2. /\ C \in [Block -> Contents] /\ b \in Block
      /\ \A c \in Block : c = b \/ c \in At(B, F, -1) => C[c] = Q[c]
      /\ \A D \in [Block -> Contents] :
           (\A c \in Block : c # b => D[c] = IF c \in At(B, F, -1) THEN B[c] ELSE C[c]) => Leaves(B, F, s, b, D, G)
  BY <1>1, Bypassed
<1>3. \A c \in Block : c # b => C[c] = IF c \in At(B, F, -1) THEN B[c] ELSE C[c]
  BY <1>2
<1>4. Leaves(B, F, s, b, C, G)
  BY <1>2, <1>3
<1>5. /\ Good(C, G) /\ Used(C, G) = Used(B, F) \ {b} /\ Pages(C, G) = Pages(B, F)
      /\ b \in Used(B, F) /\ b \notin Pages(B, F)
      /\ Loses(B, F, C, G, s, B[b].table[1])
  BY <1>4, Vacated
<1>6. First \in Int /\ MaxPages \in Int /\ end \in Int /\ b >= First
  BY <1>2, SizesAssumption DEF First, Block
<1>7. end - 1 \in First .. MaxPages
  BY <1>6
<1>8. \A y \in First .. end - 1 : y # b => y \in First .. end - 1 - 1
  BY <1>6
<1>9. \A y \in First .. end - 1 - 1 : y # b /\ ~(y >= end)
  BY <1>6
<1>10. Placed(C, G, end - 1)
  BY <1>5, <1>8 DEF Placed
<1>11. \A y \in First .. end - 1 - 1 : y \in Used(B, F) \cup Pages(B, F) \/ y >= end => y \in Used(C, G) \cup Pages(C, G)
  BY <1>5, <1>9
<1>12. ASSUME NEW last, last = end - 1 PROVE Kept(B, F, end, C, G, last)
  BY <1>5, <1>10, <1>11, <1>12 DEF Kept
<1>. QED  BY <1>5, <1>7, <1>12

\* A block that lists itself and nothing else.
LEMMA AloneProper ==
  ASSUME NEW s \in Size, NEW b \in Block, NEW r \in Contents, Proper(s, b, r), r.n = 1
  PROVE  /\ Emptied(r, 1) \in Contents
         /\ Extended(Emptied(r, 1), b) \in Contents
         /\ Extended(Emptied(r, 1), b).next = Nil /\ Extended(Emptied(r, 1), b).n = 1
         /\ Extended(Emptied(r, 1), b).table[1] = b
         /\ Proper(-1, b, Extended(Emptied(r, 1), b))
<1>1. PICK q, T : q = Emptied(r, 1) /\ T = [r.table EXCEPT ![1] = Nil]
  OBVIOUS
<1>2. 1 \in Cell /\ 0 \in 0 .. BlockSize /\ 1 \in 0 .. BlockSize /\ 1 \in 1 .. BlockSize /\ b # Nil /\ \A i \in Cell : i > 1 <=> i # 1
  BY CellIs
<1>3. T \in [Cell -> Addr \cup Block \cup {Nil}] /\ \A i \in Cell : T[i] = Nil
  <2>1. r.table \in [Cell -> Addr \cup Block \cup {Nil}]
    BY DEF Contents
  <2>2. \A i \in Cell : i # 1 => r.table[i] = Nil
    BY <1>2 DEF Proper
  <2>. QED  BY <1>1, <1>2, <2>1, <2>2
<1>4. q = [next |-> Nil, n |-> 0, table |-> T]
  BY <1>1 DEF Emptied
<1>5. q.next = Nil /\ q.n = 0 /\ q.table = T /\ q \in Contents
  BY <1>2, <1>3, <1>4 DEF Contents
<1>6. PICK p, U : p = Extended(q, b) /\ U = [T EXCEPT ![1] = b]
  OBVIOUS
<1>7. U \in [Cell -> Addr \cup Block \cup {Nil}] /\ U[1] = b /\ \A i \in Cell : i # 1 => U[i] = Nil
  BY <1>2, <1>3, <1>6
<1>8. p = [next |-> Nil, n |-> 1, table |-> U]
  BY <1>5, <1>6 DEF Extended
<1>9. p.next = Nil /\ p.n = 1 /\ p.table = U /\ p \in Contents
  BY <1>2, <1>7, <1>8 DEF Contents
<1>10. Proper(-1, b, p)
  <2>1. \A i \in 1 .. 1 : i = 1
    OBVIOUS
  <2>2. \A i \in Cell : U[i] = Nil <=> i > 1
    BY <1>2, <1>7
  <2>. QED  BY <1>2, <1>7, <1>9, <2>1, <2>2 DEF Proper
<1>. QED  BY <1>1, <1>5, <1>6, <1>7, <1>9, <1>10

\* The block that has left its chain is listed by the free list.
LEMMA Freed ==
  ASSUME NEW B, NEW F, NEW end \in First .. MaxPages, Placed(B, F, end), NEW s \in Size, NEW b, B[b].n = 1,
         NEW D, NEW H, Leaves(B, F, s, b, D, H),
         NEW C, NEW G, Good(C, G), FiledAt(C, G, -1) = FiledAt(D, H, -1) \cup {b},
         \A t \in Size : At(C, G, t) = At(D, H, t) /\ FiledAt(C, G, t) = FiledAt(D, H, t)
  PROVE  Kept(B, F, end, C, G, end) /\ Loses(B, F, C, G, s, B[b].table[1])
<1>1. /\ Used(D, H) = Used(B, F) \ {b} /\ Pages(D, H) = Pages(B, F)
      /\ b \in Used(B, F) /\ b \notin Pages(B, F)
      /\ Loses(B, F, D, H, s, B[b].table[1])
  BY Vacated
<1>2. Used(C, G) = Used(B, F) \ {b}
  BY <1>1 DEF Used
<1>3. Pages(C, G) = Pages(B, F) \cup {b}
  BY <1>1 DEF Pages
<1>4. Placed(C, G, end)
  BY <1>1, <1>2, <1>3 DEF Placed
<1>5. \A y \in First .. end - 1 : ~(y >= end)
  BY SizesAssumption DEF First
<1>6. \A y \in First .. end - 1 : y \in Used(B, F) \cup Pages(B, F) \/ y >= end => y \in Used(C, G) \cup Pages(C, G)
  BY <1>2, <1>3, <1>5
<1>7. Loses(B, F, C, G, s, B[b].table[1])
  BY <1>1 DEF Loses
<1>. QED  BY <1>4, <1>6, <1>7 DEF Kept

\* release_new_hash_block: b is the first block of the free list, is listed by a
\* block f with room, or is put behind the last block f.
Releases(B, F, s, b, C, G) ==
  \/ /\ F[-1] = Nil
     /\ \E H : /\ Bypasses(B, F, s, b, [B EXCEPT ![b] = Extended(Emptied(@, 1), b)], C, H)
               /\ G = [H EXCEPT ![-1] = b]
  \/ \E f \in At(B, F, -1) :
       /\ B[f].n < BlockSize
       /\ Bypasses(B, F, s, b, [B EXCEPT ![b] = Emptied(@, 1), ![f] = Extended(@, b)], C, G)
  \/ \E f \in At(B, F, -1) :
       /\ B[f].next = Nil
       /\ Bypasses(B, F, s, b, [B EXCEPT ![b] = Extended(Emptied(@, 1), b), ![f].next = b], C, G)

\* What leads from B to C once Q is known.
LEMMA Middle ==
  ASSUME NEW B, NEW F, NEW end, Good(B, F), Placed(B, F, end), NEW s \in Size, NEW b \in At(B, F, s), B[b].n = 1,
         NEW Q \in [Block -> Contents], \A c \in Block : c = b \/ c \in At(B, F, -1) \/ Q[c] = B[c],
         NEW C, NEW H, Bypasses(B, F, s, b, Q, C, H)
  PROVE  /\ C \in [Block -> Contents] /\ C[b] = Q[b]
         /\ \A c \in At(B, F, -1) : C[c] = Q[c]
         /\ \E D \in [Block -> Contents] :
              /\ Leaves(B, F, s, b, D, H)
              /\ \A c \in Block : c # b => D[c] = IF c \in At(B, F, -1) THEN B[c] ELSE C[c]
<1>1. /\ C \in [Block -> Contents] /\ b \in Block
      /\ \A c \in Block : c = b \/ c \in At(B, F, -1) => C[c] = Q[c]
      /\ \A D \in [Block -> Contents] :
           (\A c \in Block : c # b => D[c] = IF c \in At(B, F, -1) THEN B[c] ELSE C[c]) => Leaves(B, F, s, b, D, H)
  BY Bypassed
<1>2. B \in [Block -> Contents] /\ At(B, F, -1) \subseteq Block
  BY ListIs, AtBlocks DEF Good
<1>3. PICK D : D = [c \in Block |-> IF c \in At(B, F, -1) THEN B[c] ELSE C[c]]
  OBVIOUS
<1>4. D \in [Block -> Contents] /\ \A c \in Block : c # b => D[c] = IF c \in At(B, F, -1) THEN B[c] ELSE C[c]
  BY <1>1, <1>2, <1>3
<1>. QED  BY <1>1, <1>2, <1>4

LEMMA Released ==
  ASSUME NEW B, NEW F, NEW end \in First .. MaxPages, Good(B, F), Placed(B, F, end),
         NEW s \in Size, NEW b \in At(B, F, s), B[b].n = 1,
         NEW C, NEW G, Releases(B, F, s, b, C, G)
  PROVE  Kept(B, F, end, C, G, end) /\ Loses(B, F, C, G, s, B[b].table[1])
<1>1. /\ s \in List /\ -1 \in List /\ s # -1 /\ Size \subseteq List
      /\ B \in [Block -> Contents] /\ b \in Block /\ F \in [List -> Block \cup {Nil}] /\ b \notin At(B, F, -1)
      /\ At(B, F, -1) \subseteq Block
      /\ Proper(s, b, B[b])
  BY ListIs, AtBlocks DEF Good, Apart
<1>2. PICK r : r = Extended(Emptied(B[b], 1), b)
  OBVIOUS
<1>3. /\ Emptied(B[b], 1) \in Contents /\ r \in Contents /\ r.next = Nil /\ r.n = 1 /\ r.table[1] = b
      /\ Proper(-1, b, r)
  <2>1. PICK q : q = B[b]
    OBVIOUS
  <2>2. q \in Contents /\ Proper(s, b, q) /\ q.n = 1
    BY <1>1, <2>1
  <2>. QED  BY <1>1, <1>2, <2>1, <2>2, AloneProper
<1>4. ASSUME NEW D \in [Block -> Contents], NEW H, Leaves(B, F, s, b, D, H)
      PROVE  /\ Good(D, H) /\ At(D, H, -1) = At(B, F, -1) /\ H[-1] = F[-1]
             /\ \A m \in List : b \notin At(D, H, m)
             /\ \A m \in List : Alike(-1, m) => b \notin FiledAt(D, H, m)
  <2>1. /\ Good(D, H) /\ At(D, H, -1) = At(B, F, -1) /\ H[-1] = F[-1]
        /\ \A m \in List : b \notin At(D, H, m)
        /\ Pages(D, H) = Pages(B, F) /\ b \notin Pages(B, F)
    BY <1>4, Vacated
  <2>. QED  BY <2>1, AlikeIs DEF Pages
<1>5. ASSUME F[-1] = Nil, NEW H, Bypasses(B, F, s, b, [B EXCEPT ![b] = Extended(Emptied(@, 1), b)], C, H),
             G = [H EXCEPT ![-1] = b]
      PROVE  Kept(B, F, end, C, G, end) /\ Loses(B, F, C, G, s, B[b].table[1])
  <2>1. PICK Q : Q = [B EXCEPT ![b] = r]
    OBVIOUS
  <2>2. Bypasses(B, F, s, b, Q, C, H)
    BY <1>2, <1>5, <2>1
  <2>3. Q \in [Block -> Contents] /\ Q[b] = r /\ \A c \in Block : c # b => Q[c] = B[c]
    BY <1>1, <1>3, <2>1
  <2>4. \A c \in Block : c = b \/ c \in At(B, F, -1) \/ Q[c] = B[c]
    BY <2>3
  <2>5. /\ C \in [Block -> Contents] /\ C[b] = Q[b]
        /\ \E D \in [Block -> Contents] :
             /\ Leaves(B, F, s, b, D, H)
             /\ \A c \in Block : c # b => D[c] = IF c \in At(B, F, -1) THEN B[c] ELSE C[c]
    BY <2>2, <2>3, <2>4, Middle
  <2>6. PICK D \in [Block -> Contents] :
             /\ Leaves(B, F, s, b, D, H)
             /\ \A c \in Block : c # b => D[c] = IF c \in At(B, F, -1) THEN B[c] ELSE C[c]
    BY <2>5
  <2>7. /\ Good(D, H) /\ At(D, H, -1) = At(B, F, -1) /\ H[-1] = Nil
        /\ \A m \in List : b \notin At(D, H, m)
        /\ \A m \in List : Alike(-1, m) => b \notin FiledAt(D, H, m)
    BY <1>4, <1>5, <2>6
  <2>8. At(B, F, -1) = {}
    BY <1>5, WalkNil DEF At
  <2>9. \A m \in List : \A c \in At(D, H, m) : C[c] = D[c]
    BY <2>6, <2>7, <2>8, AtBlocks
  <2>10. PICK l : l = -1
    OBVIOUS
  <2>11. Joins(D, H, l, b, C, G)
    BY <1>5, <2>7, <2>9, <2>10 DEF Joins
  <2>12. Enters(D, H, l, b, b, C, G)
    BY <1>1, <1>3, <2>3, <2>5, <2>7, <2>10, <2>11 DEF Enters
  <2>13. /\ Good(C, G)
         /\ \A m \in List \ {l} : At(C, G, m) = At(D, H, m) /\ FiledAt(C, G, m) = FiledAt(D, H, m)
         /\ FiledAt(C, G, l) = FiledAt(D, H, l) \cup {b}
    BY <2>12, Added
  <2>14. /\ FiledAt(C, G, -1) = FiledAt(D, H, -1) \cup {b}
         /\ \A t \in Size : At(C, G, t) = At(D, H, t) /\ FiledAt(C, G, t) = FiledAt(D, H, t)
    BY <2>10, <2>13, ListIs
  <2>. QED  BY <2>6, <2>13, <2>14, Freed
<1>6. ASSUME NEW f \in At(B, F, -1), B[f].n < BlockSize,
             Bypasses(B, F, s, b, [B EXCEPT ![b] = Emptied(@, 1), ![f] = Extended(@, b)], C, G)
      PROVE  Kept(B, F, end, C, G, end) /\ Loses(B, F, C, G, s, B[b].table[1])
  <2>1. f \in Block /\ f # b /\ B[f] \in Contents /\ Proper(-1, f, B[f])
    BY <1>1, <1>6 DEF Good
  <2>2. PICK e, g : e = Emptied(B[b], 1) /\ g = Extended(B[f], b)
    OBVIOUS
  <2>3. g \in Contents
    <3>1. PICK q, l : q = B[f] /\ l = -1
      OBVIOUS
    <3>2. l \in List /\ q \in Contents /\ Proper(l, f, q) /\ q.n < BlockSize /\ g = Extended(q, b)
          /\ (IF l = -1 THEN b \in Block ELSE b \in Addr)
      BY <1>1, <1>6, <2>1, <2>2, <3>1
    <3>. QED  BY <3>2, ExtendedProper
  <2>4. PICK Q : Q = [B EXCEPT ![b] = e, ![f] = g]
    OBVIOUS
  <2>5. Bypasses(B, F, s, b, Q, C, G)
    <3>1. [B EXCEPT ![b] = Emptied(@, 1), ![f] = Extended(@, b)] = Q
      BY <1>1, <2>1, <2>2, <2>4
    <3>. QED  BY <1>6, <3>1
  <2>6. Q \in [Block -> Contents] /\ Q[b] = e /\ Q[f] = g /\ \A c \in Block : c \notin {b, f} => Q[c] = B[c]
    BY <1>1, <1>3, <2>1, <2>2, <2>3, <2>4
  <2>7. \A c \in Block : c = b \/ c \in At(B, F, -1) \/ Q[c] = B[c]
    BY <1>6, <2>6
  <2>8. /\ C \in [Block -> Contents] /\ C[b] = Q[b]
        /\ \A c \in At(B, F, -1) : C[c] = Q[c]
        /\ \E D \in [Block -> Contents] :
             /\ Leaves(B, F, s, b, D, G)
             /\ \A c \in Block : c # b => D[c] = IF c \in At(B, F, -1) THEN B[c] ELSE C[c]
    BY <2>5, <2>6, <2>7, Middle
  <2>9. PICK D \in [Block -> Contents] :
             /\ Leaves(B, F, s, b, D, G)
             /\ \A c \in Block : c # b => D[c] = IF c \in At(B, F, -1) THEN B[c] ELSE C[c]
    BY <2>8
  <2>10. /\ Good(D, G) /\ At(D, G, -1) = At(B, F, -1)
         /\ \A m \in List : b \notin At(D, G, m)
         /\ \A m \in List : Alike(-1, m) => b \notin FiledAt(D, G, m)
    BY <1>4, <2>9
  <2>11. D[f] = B[f] /\ C[f] = g
    BY <1>6, <2>1, <2>6, <2>8, <2>9
  <2>12. ASSUME NEW m \in List, NEW c \in At(D, G, m), c # f PROVE C[c] = D[c]
    <3>1. c \in Block /\ c # b
      BY <2>10, <2>12, AtBlocks
    <3>2. CASE c \in At(B, F, -1)
      BY <1>1, <2>6, <2>8, <2>9, <2>12, <3>1, <3>2
    <3>3. CASE c \notin At(B, F, -1)
      BY <2>9, <3>1, <3>3
    <3>. QED  BY <3>2, <3>3
  <2>13. PICK l : l = -1
    OBVIOUS
  <2>14. Grows(D, G, l, f, b, C)
    <3>1. /\ Good(D, G) /\ l \in List /\ f \in At(D, G, l) /\ D[f].n < BlockSize
          /\ (IF l = -1 THEN b \in Block ELSE b \in Addr)
          /\ \A m \in List : Alike(l, m) => b \notin FiledAt(D, G, m)
      BY <1>1, <1>6, <2>10, <2>11, <2>13
    <3>2. C \in [Block -> Contents] /\ \A m \in List : \A c \in At(D, G, m) : c # f => C[c] = D[c]
      BY <2>8, <2>12
    <3>3. C[f] = Extended(D[f], b)
      BY <2>2, <2>11
    <3>. QED  BY <3>1, <3>2, <3>3 DEF Grows
  <2>15. /\ Good(C, G)
         /\ \A m \in List : At(C, G, m) = At(D, G, m)
         /\ \A m \in List \ {l} : FiledAt(C, G, m) = FiledAt(D, G, m)
         /\ FiledAt(C, G, l) = FiledAt(D, G, l) \cup {b}
    BY <2>14, Grown
  <2>16. /\ FiledAt(C, G, -1) = FiledAt(D, G, -1) \cup {b}
         /\ \A t \in Size : At(C, G, t) = At(D, G, t) /\ FiledAt(C, G, t) = FiledAt(D, G, t)
    BY <2>13, <2>15, ListIs
  <2>. QED  BY <2>9, <2>15, <2>16, Freed
<1>7. ASSUME NEW f \in At(B, F, -1), B[f].next = Nil,
             Bypasses(B, F, s, b, [B EXCEPT ![b] = Extended(Emptied(@, 1), b), ![f].next = b], C, G)
      PROVE  Kept(B, F, end, C, G, end) /\ Loses(B, F, C, G, s, B[b].table[1])
  <2>1. f \in Block /\ f # b /\ B[f] \in Contents
    BY <1>1, <1>7
  <2>2. PICK g : g = [B[f] EXCEPT !.next = b]
    OBVIOUS
  <2>3. g \in Contents /\ g.next = b /\ g.n = B[f].n /\ g.table = B[f].table
    BY <1>1, <2>1, <2>2 DEF Contents
  <2>4. PICK Q : Q = [B EXCEPT ![b] = r, ![f] = g]
    OBVIOUS
  <2>5. Bypasses(B, F, s, b, Q, C, G)
    <3>1. [B EXCEPT ![b] = Extended(Emptied(@, 1), b), ![f].next = b] = Q
      BY <1>1, <1>2, <2>1, <2>2, <2>4
    <3>. QED  BY <1>7, <3>1
  <2>6. Q \in [Block -> Contents] /\ Q[b] = r /\ Q[f] = g /\ \A c \in Block : c \notin {b, f} => Q[c] = B[c]
    BY <1>1, <1>3, <2>1, <2>3, <2>4
  <2>7. \A c \in Block : c = b \/ c \in At(B, F, -1) \/ Q[c] = B[c]
    BY <1>7, <2>6
  <2>8. /\ C \in [Block -> Contents] /\ C[b] = Q[b]
        /\ \A c \in At(B, F, -1) : C[c] = Q[c]
        /\ \E D \in [Block -> Contents] :
             /\ Leaves(B, F, s, b, D, G)
             /\ \A c \in Block : c # b => D[c] = IF c \in At(B, F, -1) THEN B[c] ELSE C[c]
    BY <2>5, <2>6, <2>7, Middle
  <2>9. PICK D \in [Block -> Contents] :
             /\ Leaves(B, F, s, b, D, G)
             /\ \A c \in Block : c # b => D[c] = IF c \in At(B, F, -1) THEN B[c] ELSE C[c]
    BY <2>8
  <2>10. /\ Good(D, G) /\ At(D, G, -1) = At(B, F, -1)
         /\ \A m \in List : b \notin At(D, G, m)
         /\ \A m \in List : Alike(-1, m) => b \notin FiledAt(D, G, m)
    BY <1>4, <2>9
  <2>11. D[f] = B[f] /\ C[f] = g
    BY <1>7, <2>1, <2>6, <2>8, <2>9
  <2>12. ASSUME NEW m \in List, NEW c \in At(D, G, m), c # f PROVE C[c] = D[c]
    <3>1. c \in Block /\ c # b
      BY <2>10, <2>12, AtBlocks
    <3>2. CASE c \in At(B, F, -1)
      BY <1>1, <2>6, <2>8, <2>9, <2>12, <3>1, <3>2
    <3>3. CASE c \notin At(B, F, -1)
      BY <2>9, <3>1, <3>3
    <3>. QED  BY <3>2, <3>3
  <2>13. PICK l : l = -1
    OBVIOUS
  <2>14. Joins(D, G, l, b, C, G)
    <3>1. /\ f \in At(D, G, l) /\ D[f].next = Nil
          /\ C[f].next = b /\ C[f].n = D[f].n /\ C[f].table = D[f].table
      BY <1>7, <2>3, <2>10, <2>11, <2>13
    <3>2. \A m \in List : \A c \in At(D, G, m) : c # f => C[c] = D[c]
      BY <2>12
    <3>. QED  BY <3>1, <3>2 DEF Joins
  <2>15. Enters(D, G, l, b, b, C, G)
    BY <1>1, <1>3, <2>6, <2>8, <2>10, <2>13, <2>14 DEF Enters
  <2>16. /\ Good(C, G)
         /\ \A m \in List \ {l} : At(C, G, m) = At(D, G, m) /\ FiledAt(C, G, m) = FiledAt(D, G, m)
         /\ FiledAt(C, G, l) = FiledAt(D, G, l) \cup {b}
    BY <2>15, Added
  <2>17. /\ FiledAt(C, G, -1) = FiledAt(D, G, -1) \cup {b}
         /\ \A t \in Size : At(C, G, t) = At(D, G, t) /\ FiledAt(C, G, t) = FiledAt(D, G, t)
    BY <2>13, <2>16, ListIs
  <2>. QED  BY <2>9, <2>16, <2>17, Freed
<1>. QED  BY <1>5, <1>6, <1>7 DEF Releases

-----------------------------------------------------------------------------
(* The actions.  B, F and end are the contents, the starts and the length   *)
(* before, C, G and last those after.                                       *)

Now(B, F, end) == B = blk /\ F = Starts /\ end = length

LEMMA NowIs ==
  ASSUME IInv, NEW B, NEW F, NEW end, Now(B, F, end)
  PROVE  /\ Good(B, F) /\ Placed(B, F, end) /\ end \in First .. MaxPages /\ Shape
         /\ F \in [List -> Block \cup {Nil}] /\ F[-1] = freeHead /\ \A s \in Size : F[s] = dir[s]
         /\ \A s \in Size : At(B, F, s) = Chain(dir[s]) /\ FiledAt(B, F, s) = Filed(s)
         /\ At(B, F, -1) = FreeList /\ Pages(B, F) = FreePages /\ Used(B, F) = InUse
BY Names DEF IInv, Stored, Shape, Now, Pages

LEMMA ThenIs ==
  ASSUME NEW C, NEW G, NEW last, Now(C, G, last)'
  PROVE  /\ C = blk' /\ last = length' /\ G = [l \in List |-> IF l = -1 THEN freeHead' ELSE dir'[l]]
         /\ G[-1] = freeHead' /\ \A s \in Size : G[s] = dir'[s]
BY ListIs DEF Now, Starts

\* What is left to show of the types.
LEMMA ShapeNext ==
  ASSUME NEW C, NEW G, NEW last, Now(C, G, last)', Good(C, G), dir' = [t \in Size |-> dir'[t]],
         length' \in First .. MaxPages, size' \in length' .. MaxPages, pinned' \subseteq {First} \cap 1 .. length' - 1
  PROVE  Shape'
<1>1. C = blk' /\ G[-1] = freeHead' /\ \A s \in Size : G[s] = dir'[s]
  BY ThenIs
<1>2. C \in [Block -> Contents] /\ G \in [List -> Block \cup {Nil}]
  BY DEF Good, Apart
<1>3. freeHead' \in Block \cup {Nil} /\ \A s \in Size : dir'[s] \in Block \cup {Nil}
  BY <1>1, <1>2, ListIs
<1>4. dir' \in [Size -> Block \cup {Nil}]
  BY <1>3
<1>. QED  BY <1>1, <1>2, <1>3, <1>4 DEF Shape

\* The starts after a block has been allocated for a chain.
Heading(F, H) == H = [F EXCEPT ![-1] = freeHead']

LEMMA Allocation ==
  ASSUME IInv, NEW B, NEW F, NEW end, Now(B, F, end), CanAllocate, Allocate,
         NEW x, x = NewBlock, NEW D, D = AfterAllocate, NEW H, Heading(F, H)
  PROVE  /\ Gets(B, F, end, x, D, H, length') /\ size' \in length' .. MaxPages
         /\ H \in [List -> Block \cup {Nil}] => H[-1] = freeHead' /\ \A s \in Size : H[s] = F[s]
<1>1. /\ F \in [List -> Block \cup {Nil}] /\ F[-1] = freeHead /\ B = blk /\ end = length
      /\ length \in First .. MaxPages /\ size \in length .. MaxPages
      /\ -1 \in List /\ -1 \notin Size /\ Size \subseteq List
  BY NowIs, ListIs DEF Now, Shape
<1>2. First \in Int /\ MaxPages \in Int /\ Block = First .. MaxPages - 1
  BY SizesAssumption DEF First, Block
<1>3. CASE freeHead = Nil
  <2>1. /\ x = length /\ D = blk /\ length' = length + 1 /\ freeHead' = freeHead /\ length < MaxPages
        /\ size' = IF size > length THEN size ELSE length + 1
    BY <1>3 DEF NewBlock, AfterAllocate, Allocate, CanAllocate
  <2>2. size' \in length' .. MaxPages /\ x \in Block
    BY <1>1, <1>2, <2>1
  <2>3. H = F
    <3>1. [F EXCEPT ![-1] = F[-1]] = F
      BY <1>1
    <3>. QED  BY <1>1, <2>1, <3>1 DEF Heading
  <2>4. Gets(B, F, end, x, D, H, length')
    BY <1>1, <1>3, <2>1, <2>2, <2>3 DEF Gets
  <2>. QED  BY <1>1, <2>1, <2>2, <2>3, <2>4
<1>4. CASE freeHead # Nil
  <2>1. /\ x = blk[freeHead].table[blk[freeHead].n] /\ D = [blk EXCEPT ![freeHead] = TakenFrom(@)]
        /\ freeHead' = (IF blk[freeHead].n = 1 THEN blk[freeHead].next ELSE freeHead)
        /\ length' = length /\ size' = size
    BY <1>4 DEF NewBlock, AfterAllocate, Allocate
  <2>2. Hands(B, F, x, D, H)
    BY <1>1, <1>4, <2>1 DEF Hands, Heading
  <2>3. H \in [List -> Block \cup {Nil}] => H[-1] = freeHead' /\ \A s \in Size : H[s] = F[s]
    BY <1>1 DEF Heading
  <2>. QED  BY <1>1, <2>1, <2>2, <2>3 DEF Gets
<1>. QED  BY <1>3, <1>4

LEMMA FirstStep ==
  ASSUME IInv, NEW B, NEW F, NEW end, Now(B, F, end), NEW C, NEW G, NEW last, Now(C, G, last)',
         NEW s \in Size, NEW a \in Addr, \A t \in Size : a \notin Filed(t), InsertFirst(s, a)
  PROVE  Shape' /\ Kept(B, F, end, C, G, last) /\ Gains(B, F, C, G, s, a)
<1>1. PICK x, D, H : x = NewBlock /\ D = AfterAllocate /\ Heading(F, H)
  BY DEF Heading
<1>2. /\ dir[s] = Nil /\ CanAllocate /\ Allocate
      /\ dir' = [dir EXCEPT ![s] = x] /\ C = [D EXCEPT ![x] = Fresh(a)]
      /\ pinned' = pinned \ {freeHead, x}
  BY <1>1, ThenIs DEF InsertFirst
<1>3. /\ Good(B, F) /\ Placed(B, F, end) /\ end \in First .. MaxPages /\ Shape
      /\ F \in [List -> Block \cup {Nil}] /\ F[s] = Nil
      /\ \A t \in Size : F[t] = dir[t] /\ a \notin FiledAt(B, F, t)
  BY <1>2, NowIs
<1>4. /\ Gets(B, F, end, x, D, H, last) /\ size' \in length' .. MaxPages
      /\ H \in [List -> Block \cup {Nil}] => H[-1] = freeHead' /\ \A t \in Size : H[t] = F[t]
  BY <1>1, <1>2, Allocation, ThenIs
<1>5. /\ Good(D, H) /\ last \in end .. MaxPages /\ x \in Block /\ \A m \in List : x \notin At(D, H, m)
  BY <1>3, <1>4, Allocated
<1>6. D \in [Block -> Contents] /\ H \in [List -> Block \cup {Nil}]
  BY <1>5 DEF Good, Apart
<1>7. C \in [Block -> Contents] /\ C[x] = Fresh(a) /\ \A c \in Block : c # x => C[c] = D[c]
  BY <1>2, <1>5, <1>6, FreshProper
<1>8. G = [H EXCEPT ![s] = x]
  <2>1. PICK K : K = [H EXCEPT ![s] = x]
    OBVIOUS
  <2>2. K \in [List -> Block \cup {Nil}] /\ s \in List /\ s # -1
    BY <1>5, <1>6, <2>1, ListIs
  <2>3. dir \in [Size -> Block \cup {Nil}]
    BY <1>3 DEF Shape
  <2>4. \A l \in List : K[l] = IF l = -1 THEN freeHead' ELSE dir'[l]
    BY <1>2, <1>3, <1>4, <1>6, <2>1, <2>2, <2>3, ListIs
  <2>5. K = [l \in List |-> IF l = -1 THEN freeHead' ELSE dir'[l]]
    BY <2>2, <2>4
  <2>. QED  BY <2>1, <2>5, ThenIs
<1>9. \A m \in List : \A c \in At(D, H, m) : C[c] = D[c]
  BY <1>5, <1>7, AtBlocks
<1>10. Joins(D, H, s, x, C, G)
  BY <1>3, <1>4, <1>6, <1>8, <1>9 DEF Joins
<1>11. Kept(B, F, end, C, G, last) /\ Gains(B, F, C, G, s, a)
  <2>1. \A t \in Size : a \notin FiledAt(B, F, t)
    BY <1>3
  <2>. QED  BY <1>3, <1>4, <1>7, <1>10, <2>1, Begun
<1>12. Shape'
  <2>1. dir' = [t \in Size |-> dir'[t]]
    BY <1>2, <1>3 DEF Shape
  <2>2. length' \in First .. MaxPages /\ pinned' \subseteq {First} \cap 1 .. length' - 1
    <3>1. end = length /\ last = length' /\ First \in Int /\ MaxPages \in Int
      BY ThenIs, SizesAssumption DEF Now, First
    <3>2. end \in Int /\ last \in Int /\ end <= last /\ last \in First .. MaxPages
      BY <1>3, <1>5, <3>1
    <3>3. \A y \in 1 .. end - 1 : y \in 1 .. last - 1
      BY <3>2
    <3>. QED  BY <1>2, <1>3, <3>1, <3>2, <3>3 DEF Shape
  <2>3. Good(C, G)
    BY <1>11 DEF Kept
  <2>. QED  BY <1>4, <2>1, <2>2, <2>3, ShapeNext
<1>. QED  BY <1>11, <1>12

\* The chain of s and what a loop along it sees.
LEMMA SeenIs ==
  ASSUME Shape, NEW p \in Block \cup {Nil}, NEW stop
  PROVE  Seen(p, stop) \subseteq Chain(p)
<1>1. PICK N : N = Links
  OBVIOUS
<1>2. N \in [Block -> Block \cup {Nil}] /\ \A c \in Block : N[c] = blk[c].next
  BY <1>1 DEF Links, Shape, Contents
<1>3. PICK M : M = [c \in Block |-> IF c \in stop THEN Nil ELSE N[c]]
  OBVIOUS
<1>4. M = [c \in Block |-> IF c \in stop THEN Nil ELSE blk[c].next]
  BY <1>2, <1>3
<1>5. Walk(M, p) \subseteq Walk(N, p)
  BY <1>2, <1>3, SeesChain
<1>. QED  BY <1>1, <1>4, <1>5 DEF Seen, Chain

LEMMA RoomStep ==
  ASSUME IInv, NEW B, NEW F, NEW end, Now(B, F, end), NEW C, NEW G, NEW last, Now(C, G, last)',
         NEW s \in Size, NEW a \in Addr, \A t \in Size : a \notin Filed(t), InsertIntoRoom(s, a)
  PROVE  Shape' /\ Kept(B, F, end, C, G, last) /\ Gains(B, F, C, G, s, a)
<1>1. PICK b \in Seen(dir[s], Room) \cap Room : blk' = [blk EXCEPT ![b] = Extended(@, a)]
  BY DEF InsertIntoRoom
<1>2. /\ pinned' \subseteq pinned /\ dir' = dir /\ freeHead' = freeHead /\ length' = length /\ size' = size
  BY DEF InsertIntoRoom
<1>3. /\ Good(B, F) /\ Placed(B, F, end) /\ end \in First .. MaxPages /\ Shape
      /\ F \in [List -> Block \cup {Nil}] /\ F[-1] = freeHead
      /\ At(B, F, s) = Chain(dir[s])
      /\ \A t \in Size : F[t] = dir[t] /\ a \notin FiledAt(B, F, t)
  BY NowIs
<1>4. b \in At(B, F, s) /\ b \in Block /\ B[b].n < BlockSize
  <2>1. dir[s] \in Block \cup {Nil}
    BY <1>3 DEF Shape
  <2>2. b \in Chain(dir[s])
    BY <1>1, <1>3, <2>1, SeenIs
  <2>. QED  BY <1>1, <1>3, <2>2 DEF Room, Now
<1>5. C = blk' /\ last = end /\ B = blk /\ end = length
  BY <1>2, ThenIs DEF Now
<1>6. G = F
  BY <1>2, <1>3, ThenIs, ListIs
<1>7. Puts(B, b, a, C)
  BY <1>1, <1>5 DEF Puts
<1>8. Kept(B, F, end, C, G, last) /\ Gains(B, F, C, G, s, a)
  <2>1. \A t \in Size : a \notin FiledAt(B, F, t)
    BY <1>3
  <2>2. Kept(B, F, end, C, F, end) /\ Gains(B, F, C, F, s, a)
    BY <1>3, <1>4, <1>7, <2>1, Filled
  <2>. QED  BY <1>5, <1>6, <2>2
<1>9. Good(C, G)
  BY <1>8 DEF Kept
<1>10. Shape'
  <2>1. dir' = [t \in Size |-> dir'[t]]
    BY <1>2, <1>3 DEF Shape
  <2>2. length' \in First .. MaxPages /\ size' \in length' .. MaxPages /\ pinned' \subseteq {First} \cap 1 .. length' - 1
    BY <1>2, <1>3 DEF Shape
  <2>. QED  BY <1>9, <2>1, <2>2, ShapeNext
<1>. QED  BY <1>8, <1>10

LEMMA BehindStep ==
  ASSUME IInv, NEW B, NEW F, NEW end, Now(B, F, end), NEW C, NEW G, NEW last, Now(C, G, last)',
         NEW s \in Size, NEW a \in Addr, \A t \in Size : a \notin Filed(t), InsertBehind(s, a)
  PROVE  Shape' /\ Kept(B, F, end, C, G, last) /\ Gains(B, F, C, G, s, a)
<1>1. PICK x, D, H : x = NewBlock /\ D = AfterAllocate /\ Heading(F, H)
  BY DEF Heading
<1>2. PICK e \in Seen(dir[s], Room) \ Room :
        blk[e].next = Nil /\ blk' = [AfterAllocate EXCEPT ![e].next = NewBlock, ![NewBlock] = Fresh(a)]
  BY DEF InsertBehind
<1>3. /\ CanAllocate /\ Allocate /\ dir' = dir /\ pinned' \subseteq pinned
      /\ C = [D EXCEPT ![e].next = x, ![x] = Fresh(a)]
  BY <1>1, <1>2, ThenIs DEF InsertBehind
<1>4. /\ Good(B, F) /\ Placed(B, F, end) /\ end \in First .. MaxPages /\ Shape
      /\ F \in [List -> Block \cup {Nil}]
      /\ At(B, F, s) = Chain(dir[s])
      /\ \A t \in Size : F[t] = dir[t] /\ a \notin FiledAt(B, F, t)
  BY NowIs
<1>5. /\ Gets(B, F, end, x, D, H, last) /\ size' \in length' .. MaxPages
      /\ H \in [List -> Block \cup {Nil}] => H[-1] = freeHead' /\ \A t \in Size : H[t] = F[t]
  BY <1>1, <1>3, Allocation, ThenIs
<1>6. /\ Good(D, H) /\ last \in end .. MaxPages /\ x \in Block /\ \A m \in List : x \notin At(D, H, m)
      /\ At(D, H, s) = At(B, F, s) /\ \A b \in At(B, F, s) : D[b] = B[b]
  BY <1>4, <1>5, Allocated
<1>7. D \in [Block -> Contents] /\ H \in [List -> Block \cup {Nil}]
  BY <1>6 DEF Good, Apart
<1>8. e \in At(D, H, s) /\ e \in Block /\ e # x /\ D[e] = B[e] /\ D[e].next = Nil
  <2>1. dir[s] \in Block \cup {Nil} /\ s \in List
    BY <1>4, ListIs DEF Shape
  <2>2. e \in Chain(dir[s])
    BY <1>2, <1>4, <2>1, SeenIs
  <2>3. At(D, H, s) \subseteq Block
    BY <1>6, <2>1, AtBlocks
  <2>4. e \in At(D, H, s) /\ D[e] = B[e]
    BY <1>4, <1>6, <2>2
  <2>5. B = blk
    BY DEF Now
  <2>. QED  BY <1>2, <1>6, <2>1, <2>3, <2>4, <2>5
<1>9. PICK q : q = [D[e] EXCEPT !.next = x]
  OBVIOUS
<1>10. q \in Contents /\ q.next = x /\ q.n = D[e].n /\ q.table = D[e].table
  <2>1. D[e] \in Contents
    BY <1>7, <1>8
  <2>. QED  BY <1>6, <1>9, <2>1 DEF Contents
<1>11. C \in [Block -> Contents] /\ C[x] = Fresh(a) /\ C[e] = q /\ \A c \in Block : c \notin {e, x} => C[c] = D[c]
  <2>1. C = [D EXCEPT ![e] = q, ![x] = Fresh(a)]
    BY <1>3, <1>9
  <2>. QED  BY <1>6, <1>7, <1>8, <1>10, <2>1, FreshProper
<1>12. G = H
  BY <1>3, <1>4, <1>5, <1>7, ThenIs, ListIs
<1>13. Joins(D, H, s, x, C, G)
  <2>1. \A m \in List : \A c \in At(D, H, m) : c # e => C[c] = D[c]
    BY <1>6, <1>11, AtBlocks
  <2>. QED  BY <1>8, <1>10, <1>11, <1>12, <2>1 DEF Joins
<1>14. Kept(B, F, end, C, G, last) /\ Gains(B, F, C, G, s, a)
  <2>1. \A t \in Size : a \notin FiledAt(B, F, t)
    BY <1>4
  <2>. QED  BY <1>4, <1>5, <1>11, <1>13, <2>1, Begun
<1>15. Shape'
  <2>1. dir' = [t \in Size |-> dir'[t]]
    BY <1>3, <1>4 DEF Shape
  <2>2. length' \in First .. MaxPages /\ pinned' \subseteq {First} \cap 1 .. length' - 1
    <3>1. end = length /\ last = length' /\ First \in Int /\ MaxPages \in Int
      BY ThenIs, SizesAssumption DEF Now, First
    <3>2. end \in Int /\ last \in Int /\ end <= last /\ last \in First .. MaxPages
      BY <1>4, <1>6, <3>1
    <3>3. \A y \in 1 .. end - 1 : y \in 1 .. last - 1
      BY <3>2
    <3>. QED  BY <1>3, <1>4, <3>1, <3>2, <3>3 DEF Shape
  <2>3. Good(C, G)
    BY <1>14 DEF Kept
  <2>. QED  BY <1>5, <2>1, <2>2, <2>3, ShapeNext
<1>. QED  BY <1>14, <1>15

LEMMA EntryStep ==
  ASSUME IInv, NEW B, NEW F, NEW end, Now(B, F, end), NEW C, NEW G, NEW last, Now(C, G, last)',
         NEW s \in Size, NEW b \in Chain(dir[s]), NEW j \in 1 .. blk[b].n, TakeEntry(s, b, j)
  PROVE  Shape' /\ Kept(B, F, end, C, G, last) /\ Loses(B, F, C, G, s, B[b].table[j])
<1>1. /\ blk[b].n > 1 /\ blk' = [blk EXCEPT ![b] = Closed(@, j)] /\ pinned' \subseteq pinned
      /\ dir' = dir /\ freeHead' = freeHead /\ length' = length /\ size' = size
  BY DEF TakeEntry
<1>2. /\ Good(B, F) /\ Placed(B, F, end) /\ end \in First .. MaxPages /\ Shape
      /\ F \in [List -> Block \cup {Nil}] /\ F[-1] = freeHead
      /\ At(B, F, s) = Chain(dir[s])
      /\ \A t \in Size : F[t] = dir[t]
  BY NowIs
<1>3. C = blk' /\ last = end /\ B = blk /\ end = length
  BY <1>1, ThenIs DEF Now
<1>4. b \in At(B, F, s) /\ B[b].n > 1 /\ j \in 1 .. B[b].n
  BY <1>1, <1>2, <1>3
<1>5. G = F
  BY <1>1, <1>2, ThenIs, ListIs
<1>6. Cuts(B, b, j, C)
  BY <1>1, <1>3 DEF Cuts
<1>7. Kept(B, F, end, C, G, last) /\ Loses(B, F, C, G, s, B[b].table[j])
  <2>1. Kept(B, F, end, C, F, end) /\ Loses(B, F, C, F, s, B[b].table[j])
    BY <1>2, <1>4, <1>6, Thinned
  <2>. QED  BY <1>3, <1>5, <2>1
<1>8. Good(C, G)
  BY <1>7 DEF Kept
<1>9. Shape'
  <2>1. dir' = [t \in Size |-> dir'[t]]
    BY <1>1, <1>2 DEF Shape
  <2>2. length' \in First .. MaxPages /\ size' \in length' .. MaxPages /\ pinned' \subseteq {First} \cap 1 .. length' - 1
    BY <1>1, <1>2 DEF Shape
  <2>. QED  BY <1>8, <2>1, <2>2, ShapeNext
<1>. QED  BY <1>7, <1>9

\* The starts when a block has been unlinked and the free list is as before.
Turning(H) == H = [l \in List |-> IF l = -1 THEN freeHead ELSE dir'[l]]

LEMMA UnlinkIs ==
  ASSUME IInv, NEW B, NEW F, NEW end, Now(B, F, end), NEW C, C = blk',
         NEW s \in Size, NEW b \in Chain(dir[s]), NEW Q, Unlink(s, b, Q), NEW H, Turning(H)
  PROVE  Bypasses(B, F, s, b, Q, C, H) /\ dir' = [t \in Size |-> dir'[t]]
<1>1. /\ F \in [List -> Block \cup {Nil}] /\ F[-1] = freeHead /\ F[s] = dir[s]
      /\ \A t \in Size : F[t] = dir[t]
      /\ At(B, F, s) = Chain(dir[s]) /\ B = blk /\ dir \in [Size -> Block \cup {Nil}]
      /\ -1 \in List /\ s # -1 /\ s \in List /\ List = Size \cup {-1}
  BY NowIs, ListIs DEF Now, Shape
<1>2. CASE b = dir[s]
  <2>1. dir' = [dir EXCEPT ![s] = blk[b].next] /\ C = Q
    BY <1>2 DEF Unlink
  <2>2. PICK K : K = [F EXCEPT ![s] = B[b].next]
    OBVIOUS
  <2>3. \A l \in List : K[l] = IF l = -1 THEN freeHead ELSE dir'[l]
    BY <1>1, <2>1, <2>2
  <2>4. K = [l \in List |-> IF l = -1 THEN freeHead ELSE dir'[l]]
    <3>1. K = [l \in List |-> K[l]]
      BY <1>1, <2>2
    <3>. QED  BY <2>3, <3>1
  <2>5. H = [F EXCEPT ![s] = B[b].next]
    BY <2>2, <2>4 DEF Turning
  <2>. QED  BY <1>1, <1>2, <2>1, <2>5 DEF Bypasses
<1>3. CASE b # dir[s]
  <2>1. dir' = dir /\ \E c \in Chain(dir[s]) : blk[c].next = b /\ C = [Q EXCEPT ![c].next = blk[b].next]
    BY <1>3 DEF Unlink
  <2>2. H = F
    BY <1>1, <2>1 DEF Turning
  <2>. QED  BY <1>1, <1>3, <2>1, <2>2 DEF Bypasses
<1>. QED  BY <1>2, <1>3

LEMMA LastPageStep ==
  ASSUME IInv, NEW B, NEW F, NEW end, Now(B, F, end), NEW C, NEW G, NEW last, Now(C, G, last)',
         NEW s \in Size, NEW b \in Chain(dir[s]), NEW j \in 1 .. blk[b].n, TakeLastPage(s, b, j)
  PROVE  Shape' /\ Kept(B, F, end, C, G, last) /\ Loses(B, F, C, G, s, B[b].table[j])
<1>1. /\ blk[b].n = 1 /\ b = length - 1 /\ Unlink(s, b, [blk EXCEPT ![b] = Blank])
      /\ length' = length - 1 /\ pinned' = pinned \ Seen(dir[s], {b}) /\ freeHead' = freeHead /\ size' = size
  BY DEF TakeLastPage
<1>2. /\ Good(B, F) /\ Placed(B, F, end) /\ end \in First .. MaxPages /\ Shape
      /\ At(B, F, s) = Chain(dir[s]) /\ s \in List
  BY NowIs, ListIs
<1>3. C = blk' /\ last = end - 1 /\ B = blk /\ end = length
  BY <1>1, ThenIs DEF Now
<1>4. b \in At(B, F, s) /\ b \in Block /\ B[b].n = 1 /\ b = end - 1 /\ j = 1 /\ B \in [Block -> Contents]
  <2>1. b \in Block
    BY <1>2, AtBlocks
  <2>2. j \in 1 .. 1
    BY <1>1
  <2>. QED  BY <1>1, <1>2, <1>3, <2>1, <2>2 DEF Good
<1>5. PICK Q : Q = [B EXCEPT ![b] = Blank]
  OBVIOUS
<1>6. Q \in [Block -> Contents] /\ \A c \in Block : c # b => Q[c] = B[c]
  <2>1. Blank \in Contents
    BY CellIs DEF Blank, Contents
  <2>. QED  BY <1>4, <1>5, <2>1
<1>7. Turning(G)
  BY <1>1, ThenIs DEF Turning
<1>8. Unlink(s, b, Q)
  BY <1>1, <1>3, <1>5
<1>9. Bypasses(B, F, s, b, Q, C, G) /\ dir' = [t \in Size |-> dir'[t]]
  BY <1>3, <1>7, <1>8, UnlinkIs
<1>10. end - 1 \in First .. MaxPages /\ Kept(B, F, end, C, G, end - 1) /\ Loses(B, F, C, G, s, B[b].table[1])
  BY <1>2, <1>4, <1>6, <1>9, Dropped
<1>11. Kept(B, F, end, C, G, last) /\ Loses(B, F, C, G, s, B[b].table[j])
  BY <1>3, <1>4, <1>10
<1>12. Good(C, G)
  BY <1>11 DEF Kept
<1>13. b \in Seen(dir[s], {b})
  <2>1. PICK N : N = Links
    OBVIOUS
  <2>2. N \in [Block -> Block \cup {Nil}] /\ \A c \in Block : N[c] = blk[c].next
    BY <1>2, <2>1 DEF Links, Shape, Contents
  <2>3. PICK h : h = dir[s]
    OBVIOUS
  <2>4. b \in Walk(N, h) /\ h \in Block \cup {Nil}
    BY <1>2, <2>1, <2>3 DEF Chain, Shape
  <2>5. h \in Block
    BY <2>4, WalkNil
  <2>6. b \in Walk([c \in Block |-> IF c \in {b} THEN Nil ELSE N[c]], h)
    BY <2>2, <2>4, <2>5, SeesStop
  <2>7. [c \in Block |-> IF c \in {b} THEN Nil ELSE N[c]] = [c \in Block |-> IF c \in {b} THEN Nil ELSE blk[c].next]
    BY <2>2
  <2>. QED  BY <2>3, <2>6, <2>7 DEF Seen
<1>14. Shape'
  <2>1. First \in Int /\ MaxPages \in Int /\ end \in Int /\ end - 1 \in First .. MaxPages
    BY <1>2, <1>10, SizesAssumption DEF First
  <2>2. length' = last /\ last = end - 1 /\ end = length
    BY <1>1, <1>3
  <2>3. size' \in end .. MaxPages
    BY <1>1, <1>2, <1>3 DEF Shape
  <2>4. size' \in last .. MaxPages
    BY <2>1, <2>2, <2>3
  <2>5. \A y \in 1 .. end - 1 : y = end - 1 \/ y \in 1 .. last - 1
    BY <2>1, <2>2
  <2>6. \A y \in pinned' : y = First /\ y \in 1 .. end - 1 /\ y # end - 1
    BY <1>1, <1>2, <1>3, <1>4, <1>13 DEF Shape
  <2>7. pinned' \subseteq {First} \cap 1 .. last - 1
    BY <2>5, <2>6
  <2>. QED  BY <1>9, <1>12, <2>1, <2>2, <2>4, <2>7, ShapeNext
<1>. QED  BY <1>11, <1>14

LEMMA BlockStep ==
  ASSUME IInv, NEW B, NEW F, NEW end, Now(B, F, end), NEW C, NEW G, NEW last, Now(C, G, last)',
         NEW s \in Size, NEW b \in Chain(dir[s]), NEW j \in 1 .. blk[b].n, TakeBlock(s, b, j)
  PROVE  Shape' /\ Kept(B, F, end, C, G, last) /\ Loses(B, F, C, G, s, B[b].table[j])
<1>1. /\ blk[b].n = 1 /\ pinned' \subseteq pinned /\ length' = length /\ size' = size
      /\ \/ /\ freeHead = Nil
            /\ freeHead' = b
            /\ Unlink(s, b, [blk EXCEPT ![b] = Extended(Emptied(blk[b], j), b)])
         \/ /\ freeHead' = freeHead
            /\ \E f \in Seen(freeHead, Room) \cap Room :
                 Unlink(s, b, [blk EXCEPT ![b] = Emptied(@, j), ![f] = Extended(@, b)])
         \/ /\ freeHead' = freeHead
            /\ \E f \in Seen(freeHead, Room) \ Room :
                 /\ blk[f].next = Nil
                 /\ Unlink(s, b, [blk EXCEPT ![b] = Extended(Emptied(blk[b], j), b), ![f].next = b])
  BY DEF TakeBlock
<1>2. /\ Good(B, F) /\ Placed(B, F, end) /\ end \in First .. MaxPages /\ Shape
      /\ At(B, F, s) = Chain(dir[s]) /\ At(B, F, -1) = Chain(freeHead) /\ s \in List
      /\ F \in [List -> Block \cup {Nil}] /\ F[-1] = freeHead
  BY NowIs, ListIs DEF FreeList
<1>3. C = blk' /\ last = end /\ B = blk /\ end = length
  BY <1>1, ThenIs DEF Now
<1>4. b \in At(B, F, s) /\ b \in Block /\ B[b].n = 1 /\ j = 1 /\ B \in [Block -> Contents]
  <2>1. b \in Block
    BY <1>2, AtBlocks
  <2>2. j \in 1 .. 1
    BY <1>1
  <2>. QED  BY <1>1, <1>2, <1>3, <2>1, <2>2 DEF Good
<1>5. \A f \in Seen(freeHead, Room) : f \in At(B, F, -1) /\ f \in Block
  <2>1. freeHead \in Block \cup {Nil}
    BY <1>2 DEF Shape
  <2>2. Seen(freeHead, Room) \subseteq At(B, F, -1)
    BY <1>2, <2>1, SeenIs
  <2>. QED  BY <1>2, <2>2, AtBlocks, ListIs
<1>6. PICK H : Turning(H)
  BY DEF Turning
<1>7. \A Q : Unlink(s, b, Q) => Bypasses(B, F, s, b, Q, C, H) /\ dir' = [t \in Size |-> dir'[t]]
  BY <1>3, <1>6, UnlinkIs
<1>8. freeHead' = freeHead => G = H
  BY <1>6, ThenIs DEF Turning
<1>9. ASSUME freeHead = Nil, freeHead' = b, Unlink(s, b, [blk EXCEPT ![b] = Extended(Emptied(blk[b], j), b)])
      PROVE  Releases(B, F, s, b, C, G) /\ dir' = [t \in Size |-> dir'[t]]
  <2>1. Bypasses(B, F, s, b, [B EXCEPT ![b] = Extended(Emptied(@, 1), b)], C, H) /\ dir' = [t \in Size |-> dir'[t]]
    <3>1. [blk EXCEPT ![b] = Extended(Emptied(blk[b], j), b)] = [B EXCEPT ![b] = Extended(Emptied(@, 1), b)]
      BY <1>3, <1>4
    <3>. QED  BY <1>7, <1>9, <3>1
  <2>2. G = [H EXCEPT ![-1] = b]
    BY <1>6, <1>9, ThenIs, ListIs DEF Turning
  <2>. QED  BY <1>2, <1>9, <2>1, <2>2 DEF Releases
<1>10. ASSUME freeHead' = freeHead,
              \E f \in Seen(freeHead, Room) \cap Room :
                 Unlink(s, b, [blk EXCEPT ![b] = Emptied(@, j), ![f] = Extended(@, b)])
       PROVE  Releases(B, F, s, b, C, G) /\ dir' = [t \in Size |-> dir'[t]]
  <2>1. PICK f \in Seen(freeHead, Room) \cap Room :
                 Unlink(s, b, [blk EXCEPT ![b] = Emptied(@, j), ![f] = Extended(@, b)])
    BY <1>10
  <2>2. f \in At(B, F, -1) /\ B[f].n < BlockSize
    BY <1>3, <1>5, <2>1 DEF Room
  <2>3. Bypasses(B, F, s, b, [B EXCEPT ![b] = Emptied(@, 1), ![f] = Extended(@, b)], C, G) /\ dir' = [t \in Size |-> dir'[t]]
    BY <1>3, <1>4, <1>7, <1>8, <1>10, <2>1
  <2>. QED  BY <2>2, <2>3 DEF Releases
<1>11. ASSUME freeHead' = freeHead,
              \E f \in Seen(freeHead, Room) \ Room :
                 /\ blk[f].next = Nil
                 /\ Unlink(s, b, [blk EXCEPT ![b] = Extended(Emptied(blk[b], j), b), ![f].next = b])
       PROVE  Releases(B, F, s, b, C, G) /\ dir' = [t \in Size |-> dir'[t]]
  <2>1. PICK f \in Seen(freeHead, Room) \ Room :
                 /\ blk[f].next = Nil
                 /\ Unlink(s, b, [blk EXCEPT ![b] = Extended(Emptied(blk[b], j), b), ![f].next = b])
    BY <1>11
  <2>2. f \in At(B, F, -1) /\ B[f].next = Nil
    BY <1>3, <1>5, <2>1
  <2>3. Bypasses(B, F, s, b, [B EXCEPT ![b] = Extended(Emptied(@, 1), b), ![f].next = b], C, G) /\ dir' = [t \in Size |-> dir'[t]]
    <3>1. [blk EXCEPT ![b] = Extended(Emptied(blk[b], j), b), ![f].next = b] = [B EXCEPT ![b] = Extended(Emptied(@, 1), b), ![f].next = b]
      BY <1>3, <1>4
    <3>. QED  BY <1>7, <1>8, <1>11, <2>1, <3>1
  <2>. QED  BY <2>2, <2>3 DEF Releases
<1>12. Releases(B, F, s, b, C, G) /\ dir' = [t \in Size |-> dir'[t]]
  BY <1>1, <1>9, <1>10, <1>11
<1>13. Kept(B, F, end, C, G, last) /\ Loses(B, F, C, G, s, B[b].table[j])
  <2>1. Kept(B, F, end, C, G, end) /\ Loses(B, F, C, G, s, B[b].table[1])
    BY <1>2, <1>4, <1>12, Released
  <2>. QED  BY <1>3, <1>4, <2>1
<1>14. Good(C, G)
  BY <1>13 DEF Kept
<1>15. Shape'
  <2>1. length' \in First .. MaxPages /\ size' \in length' .. MaxPages /\ pinned' \subseteq {First} \cap 1 .. length' - 1
    BY <1>1, <1>2 DEF Shape
  <2>. QED  BY <1>12, <1>14, <2>1, ShapeNext
<1>. QED  BY <1>13, <1>15

\* What a step that keeps everything leaves.
LEMMA KeptThen ==
  ASSUME IInv, NEW B, NEW F, NEW end, Now(B, F, end), NEW C, NEW G, NEW last, Now(C, G, last)',
         Shape', Kept(B, F, end, C, G, last)
  PROVE  Stored' /\ Lost' \subseteq Lost /\ \A t \in Size : FiledAt(C, G, t) = Filed(t)'
<1>1. /\ end \in First .. MaxPages /\ end = length /\ B = blk /\ F = Starts /\ First \in Int
      /\ Pages(B, F) = FreePages /\ Used(B, F) = InUse
  BY NowIs, SizesAssumption DEF Now, First
<1>2. C = blk' /\ G = Starts' /\ last = length'
  BY DEF Now
<1>3. /\ Pages(C, G) = FreePages' /\ Used(C, G) = InUse' /\ \A t \in Size : FiledAt(C, G, t) = Filed(t)'
  BY <1>2, NamesNext DEF Pages
<1>4. Good(C, G) /\ Placed(C, G, last)
  BY DEF Kept
<1>5. Stored'
  <2>1. Good(blk', Starts') /\ Placed(blk', Starts', length')
    BY <1>2, <1>4
  <2>. QED  BY <2>1 DEF Stored
<1>6. ASSUME NEW y, y \in Lost' PROVE y \in Lost
  <2>1. y \in First .. last - 1 /\ y \notin Used(C, G) /\ y \notin Pages(C, G)
    BY <1>2, <1>3, <1>6 DEF Lost
  <2>2. ~(y >= end) /\ y \notin Used(B, F) /\ y \notin Pages(B, F)
    BY <2>1 DEF Kept
  <2>3. last \in Int
    <3>1. length' \in First .. MaxPages
      BY DEF Shape
    <3>. QED  BY <1>2, <3>1
  <2>4. y \in First .. end - 1
    BY <1>1, <2>1, <2>2, <2>3
  <2>. QED  BY <1>1, <2>2, <2>4 DEF Lost
<1>. QED  BY <1>3, <1>5, <1>6

LEMMA Moments ==
  /\ \E B, F, end : Now(B, F, end)
  /\ \E C, G, last : Now(C, G, last)'
BY DEF Now

LEMMA InsertKeeps ==
  ASSUME IInv, NEW s \in Size, NEW a \in Addr, Insert(s, a)
  PROVE  /\ Stored' /\ Lost' \subseteq Lost
         /\ Filed(s)' = Filed(s) \cup {a} /\ \A t \in Size \ {s} : Filed(t)' = Filed(t)
<1>1. PICK B, F, end, C, G, last : Now(B, F, end) /\ Now(C, G, last)'
  BY Moments
<1>2. /\ \A t \in Size : a \notin Filed(t)
      /\ InsertFirst(s, a) \/ InsertIntoRoom(s, a) \/ InsertBehind(s, a)
  BY DEF Insert
<1>3. Shape' /\ Kept(B, F, end, C, G, last) /\ Gains(B, F, C, G, s, a)
  BY <1>1, <1>2, FirstStep, RoomStep, BehindStep
<1>4. Stored' /\ Lost' \subseteq Lost /\ \A t \in Size : FiledAt(C, G, t) = Filed(t)'
  BY <1>1, <1>3, KeptThen
<1>5. \A t \in Size : FiledAt(B, F, t) = Filed(t)
  BY <1>1, NowIs
<1>. QED  BY <1>3, <1>4, <1>5 DEF Gains

LEMMA TakeKeeps ==
  ASSUME IInv, NEW s \in Size, NEW b \in Chain(dir[s]), NEW j \in 1 .. blk[b].n, Take(s, b, j)
  PROVE  /\ Stored' /\ Lost' \subseteq Lost
         /\ Filed(s)' = Filed(s) \ {blk[b].table[j]} /\ \A t \in Size \ {s} : Filed(t)' = Filed(t)
         /\ blk[b].table[j] \in Filed(s) /\ blk[b].table[j] \in Addr
<1>1. PICK B, F, end, C, G, last : Now(B, F, end) /\ Now(C, G, last)'
  BY Moments
<1>2. Shape' /\ Kept(B, F, end, C, G, last) /\ Loses(B, F, C, G, s, B[b].table[j])
  BY <1>1, EntryStep, LastPageStep, BlockStep DEF Take
<1>3. Stored' /\ Lost' \subseteq Lost /\ \A t \in Size : FiledAt(C, G, t) = Filed(t)'
  BY <1>1, <1>2, KeptThen
<1>4. /\ \A t \in Size : FiledAt(B, F, t) = Filed(t)
      /\ B = blk /\ Good(B, F) /\ At(B, F, s) = Chain(dir[s])
  BY <1>1, NowIs DEF Now
<1>5. Proper(s, b, blk[b])
  BY <1>4, ListIs DEF Good
<1>6. blk[b].table[j] \in Addr /\ blk[b].table[j] \in Filed(s)
  BY <1>5, ListIs DEF Proper, Filed, Listed
<1>. QED  BY <1>2, <1>3, <1>4, <1>6 DEF Loses

\* The first block of a chain and its last entry.
LEMMA HeadIs ==
  ASSUME IInv, NEW t \in Size, dir[t] # Nil
  PROVE  dir[t] \in Chain(dir[t]) /\ blk[dir[t]].n \in 1 .. blk[dir[t]].n
<1>1. PICK B, F, end, h : Now(B, F, end) /\ h = dir[t]
  BY Moments
<1>2. /\ Good(B, F) /\ B = blk /\ F[t] = h /\ h \in Block /\ t \in List /\ At(B, F, t) = Chain(h)
  BY <1>1, NowIs, ListIs DEF Now, Shape
<1>3. LinksOf(B) \in [Block -> Block \cup {Nil}]
  BY <1>2, LinksOfType DEF Good
<1>4. h \in At(B, F, t)
  BY <1>2, <1>3, WalkFollows DEF At
<1>5. B[h].n \in 1 .. BlockSize
  BY <1>2, <1>4 DEF Good, Proper
<1>. QED  BY <1>1, <1>2, <1>4, <1>5, CellIs

LEMMA RemoveKeeps ==
  ASSUME IInv, NEW s \in Size, NEW a \in Addr, Remove(s, a)
  PROVE  /\ Stored' /\ Lost' \subseteq Lost
         /\ a \in Filed(s) /\ Filed(s)' = Filed(s) \ {a} /\ \A t \in Size \ {s} : Filed(t)' = Filed(t)
<1>1. PICK b \in Chain(dir[s]) : \E j \in 1 .. blk[b].n : blk[b].table[j] = a /\ Take(s, b, j)
  BY DEF Remove
<1>2. PICK j \in 1 .. blk[b].n : blk[b].table[j] = a /\ Take(s, b, j)
  BY <1>1
<1>. QED  BY <1>2, TakeKeeps

LEMMA PopKeeps ==
  ASSUME IInv, NEW s \in Size, PopLowerBound(s)
  PROVE  /\ Stored' /\ Lost' \subseteq Lost
         /\ \E t \in Size, a \in Addr :
              /\ t >= s /\ \A u \in Size : u >= s /\ u < t => Filed(u) = {}
              /\ a \in Filed(t) /\ Filed(t)' = Filed(t) \ {a} /\ \A u \in Size \ {t} : Filed(u)' = Filed(u)
              /\ call' = <<s, a>>
<1>1. PICK t \in s .. Sizes - 1 :
        /\ dir[t] # Nil /\ \A u \in s .. t - 1 : dir[u] = Nil
        /\ Take(t, dir[t], blk[dir[t]].n) /\ call' = <<s, blk[dir[t]].table[blk[dir[t]].n]>>
  BY DEF PopLowerBound
<1>2. t \in Size /\ t >= s /\ \A u \in Size : u >= s /\ u < t => u \in s .. t - 1
  <2>1. Sizes \in Int
    BY SizesAssumption DEF Sizes
  <2>. QED  BY <2>1 DEF Size
<1>3. \A u \in Size : u >= s /\ u < t => Filed(u) = {}
  BY <1>1, <1>2, WalkNil DEF Filed, Chain
<1>4. PICK b, j : b = dir[t] /\ j = blk[dir[t]].n
  OBVIOUS
<1>5. b \in Chain(dir[t]) /\ j \in 1 .. blk[b].n /\ Take(t, b, j) /\ call' = <<s, blk[b].table[j]>>
  BY <1>1, <1>2, <1>4, HeadIs
<1>6. /\ Stored' /\ Lost' \subseteq Lost
      /\ Filed(t)' = Filed(t) \ {blk[b].table[j]} /\ \A u \in Size \ {t} : Filed(u)' = Filed(u)
      /\ blk[b].table[j] \in Filed(t) /\ blk[b].table[j] \in Addr
  BY <1>2, <1>5, TakeKeeps
<1>. QED  BY <1>2, <1>3, <1>5, <1>6

\* Nothing is stored, but the file may grow.
LEMMA IdleKeeps ==
  ASSUME IInv, UNCHANGED <<dir, blk, freeHead>>, length' \in length .. MaxPages, size' \in length' .. MaxPages,
         pinned' \subseteq {First} \cap 1 .. length' - 1
  PROVE  /\ Stored' /\ \A t \in Size : Filed(t)' = Filed(t)
         /\ Lost' \subseteq Lost \cup (length .. length' - 1)
<1>1. PICK B, F, end, C, G, last : Now(B, F, end) /\ Now(C, G, last)'
  BY Moments
<1>2. /\ Good(B, F) /\ Placed(B, F, end) /\ end \in First .. MaxPages /\ Shape
      /\ end = length /\ last = length' /\ C = B /\ B = blk /\ First \in Int /\ MaxPages \in Int
  BY <1>1, NowIs, ThenIs, SizesAssumption DEF Now, First
<1>3. G = F
  BY <1>1, ThenIs DEF Now, Starts
<1>4. last \in end .. MaxPages
  BY <1>2
<1>5. end \in Int /\ last \in Int /\ First \in Int /\ end <= last /\ last \in First .. MaxPages
  BY <1>2, <1>4
<1>6. \A y \in First .. end - 1 : y \in First .. last - 1
  BY <1>5
<1>7. Placed(C, G, last)
  BY <1>2, <1>3, <1>6 DEF Placed
<1>8. Shape'
  BY <1>2, <1>5 DEF Shape
<1>9. Good(blk', Starts') /\ Placed(blk', Starts', length')
  <2>1. C = blk' /\ G = Starts' /\ last = length'
    BY <1>1 DEF Now
  <2>. QED  BY <1>2, <1>3, <1>7, <2>1
<1>10. (\A t \in Size : Filed(t)' = Filed(t)) /\ InUse' = InUse /\ FreePages' = FreePages
  BY DEF Filed, Listed, Chain, Links, InUse, FreePages, FreeList
<1>11. \A y \in First .. last - 1 : y \in First .. end - 1 \/ y \in end .. last - 1
  BY <1>5
<1>. QED  BY <1>2, <1>8, <1>9, <1>10, <1>11 DEF Stored, Lost

LEMMA NothingKeeps ==
  ASSUME IInv, NEW s \in Size, PopNothing(s)
  PROVE  /\ Stored' /\ Lost' \subseteq Lost \cup {First} /\ \A t \in Size : Filed(t)' = Filed(t)
         /\ \A t \in Size : t >= s => Filed(t) = {}
<1>1. /\ \A t \in s .. Sizes - 1 : dir[t] = Nil
      /\ First < length \/ length < MaxPages
      /\ length' = IF length = First THEN First + 1 ELSE length
      /\ size' = IF size > length' THEN size ELSE length'
      /\ pinned' = pinned \cup {First}
      /\ UNCHANGED <<dir, blk, freeHead>>
  BY DEF PopNothing
<1>2. /\ First \in Int /\ MaxPages \in Int /\ First >= 1 /\ Sizes \in Int
      /\ length \in First .. MaxPages /\ size \in length .. MaxPages /\ pinned \subseteq {First} \cap 1 .. length - 1
  BY SizesAssumption DEF First, Sizes, IInv, TypeOK
<1>3. length' \in length .. MaxPages /\ size' \in length' .. MaxPages /\ First \in 1 .. length' - 1
  BY <1>1, <1>2
<1>4. pinned' \subseteq {First} \cap 1 .. length' - 1
  BY <1>1, <1>2, <1>3
<1>5. /\ Stored' /\ \A t \in Size : Filed(t)' = Filed(t)
      /\ Lost' \subseteq Lost \cup (length .. length' - 1)
  BY <1>1, <1>3, <1>4, IdleKeeps
<1>6. \A y \in length .. length' - 1 : y = First
  BY <1>1, <1>2
<1>7. \A t \in Size : t >= s => Filed(t) = {}
  <2>1. \A t \in Size : t >= s => t \in s .. Sizes - 1
    BY <1>2 DEF Size
  <2>. QED  BY <1>1, <2>1, WalkNil DEF Filed, Chain
<1>. QED  BY <1>5, <1>6, <1>7

LEMMA ReopenKeeps ==
  ASSUME IInv, Reopen
  PROVE  Stored' /\ Lost' \subseteq Lost \cup (length .. size - 1) /\ \A t \in Size : Filed(t)' = Filed(t)
<1>1. length' = size /\ size' = size /\ pinned' = {} /\ UNCHANGED <<dir, blk, freeHead>>
  BY DEF Reopen
<1>2. First \in Int /\ MaxPages \in Int /\ length \in First .. MaxPages /\ size \in length .. MaxPages
  BY SizesAssumption DEF First, IInv, TypeOK
<1>. QED  BY <1>1, <1>2, IdleKeeps

-----------------------------------------------------------------------------
(* The theorems.                                                            *)

\* hash_table_init on an empty file: every chain is empty.
LEMMA InitIs ==
  ASSUME Init
  PROVE  IInv /\ \A s \in Size : Filed(s) = {}
<1>1. /\ dir = [s \in Size |-> Nil] /\ blk = [b \in Block |-> Blank] /\ freeHead = Nil
      /\ length = First /\ size = First /\ pinned = {} /\ call = Nil
  BY DEF Init
<1>2. Blank \in Contents
  BY CellIs DEF Blank, Contents
<1>3. First \in Int /\ MaxPages \in Int /\ First <= MaxPages
  BY SizesAssumption DEF First
<1>4. Shape /\ TypeOK
  BY <1>1, <1>2, <1>3 DEF Shape, TypeOK, Contents
<1>5. PICK B, F : B = blk /\ F = Starts
  OBVIOUS
<1>6. /\ B \in [Block -> Contents] /\ F \in [List -> Block \cup {Nil}] /\ \A l \in List : F[l] = Nil
  BY <1>1, <1>4, <1>5, ListIs DEF Shape, Starts
<1>7. \A l \in List : At(B, F, l) = {} /\ Walk(LinksOf(B), F[l]) = {}
  BY <1>6, WalkNil DEF At
<1>8. Live(LinksOf(B), F) = {}
  BY <1>7 DEF Live
<1>9. Apart(LinksOf(B), F)
  BY <1>6, <1>8, LinksOfType DEF Apart
<1>10. Good(B, F)
  BY <1>6, <1>7, <1>9 DEF Good, Once
<1>11. Used(B, F) = {} /\ Pages(B, F) = {} /\ \A l \in List : FiledAt(B, F, l) = {}
  BY <1>7, ListIs DEF Used, Pages, FiledAt
<1>12. Placed(blk, Starts, length)
  BY <1>5, <1>11 DEF Placed
<1>13. \A s \in Size : Filed(s) = {}
  BY <1>1, WalkNil DEF Filed, Chain
<1>. QED  BY <1>4, <1>5, <1>10, <1>12, <1>13 DEF IInv, Stored

LEMMA TypeThen ==
  ASSUME Stored', call' \in (Size \X (Addr \cup {Nil})) \cup {Nil}
  PROVE  IInv'
BY DEF IInv, Stored, Shape, TypeOK, Contents

LEMMA Inductive ==
  ASSUME IInv, [Next]_vars
  PROVE  IInv'
<1>1. ASSUME NEW s \in Size, NEW a \in Addr, Insert(s, a) PROVE IInv'
  <2>1. call' = <<s, a>>
    BY <1>1 DEF Insert
  <2>. QED  BY <1>1, <2>1, InsertKeeps, TypeThen
<1>2. ASSUME NEW s \in Size, NEW a \in Addr, Remove(s, a) PROVE IInv'
  <2>1. call' = <<s, a>>
    BY <1>2 DEF Remove
  <2>. QED  BY <1>2, <2>1, RemoveKeeps, TypeThen
<1>3. ASSUME NEW s \in Size, PopLowerBound(s) PROVE IInv'
  <2>1. Stored' /\ \E a \in Addr : call' = <<s, a>>
    BY <1>3, PopKeeps
  <2>. QED  BY <2>1, TypeThen
<1>4. ASSUME NEW s \in Size, PopNothing(s) PROVE IInv'
  <2>1. call' = <<s, Nil>>
    BY <1>4 DEF PopNothing
  <2>. QED  BY <1>4, <2>1, NothingKeeps, TypeThen
<1>5. ASSUME Reopen PROVE IInv'
  <2>1. call' = Nil
    BY <1>5 DEF Reopen
  <2>. QED  BY <1>5, <2>1, ReopenKeeps, TypeThen
<1>6. CASE UNCHANGED vars
  BY <1>6 DEF vars, IInv, Stored, Shape, TypeOK, Starts
<1>. QED  BY <1>1, <1>2, <1>3, <1>4, <1>5, <1>6 DEF Next

\* The inductive invariant: whatever is filed and taken out, all chains end and
\* share no block, every block is packed, nothing is listed twice, and what is
\* free is in no chain and in the file.
THEOREM Invariance == Spec => []IInv
<1>1. Init => IInv
  BY InitIs
<1>2. IInv /\ [Next]_vars => IInv'
  BY Inductive
<1>. QED  BY <1>1, <1>2, PTL DEF Spec

\* The directory, the blocks and the control block keep their types.
THEOREM TypeCorrect == Spec => []TypeOK
<1>1. IInv => TypeOK
  BY DEF IInv
<1>. QED  BY <1>1, Invariance, PTL

\* What IInv says of the chains, by their names.
LEMMA IInvSays ==
  ASSUME IInv
  PROVE  \E B, F : /\ Good(B, F) /\ B = blk /\ F \in [List -> Block \cup {Nil}]
                   /\ F[-1] = freeHead /\ \A s \in Size : F[s] = dir[s]
                   /\ At(B, F, -1) = FreeList /\ \A s \in Size : At(B, F, s) = Chain(dir[s])
                   /\ Pages(B, F) = FreePages /\ Used(B, F) = InUse /\ Placed(B, F, length)
<1>1. PICK B, F, end : Now(B, F, end)
  BY Moments
<1>. QED  BY <1>1, NowIs DEF Now

\* The walks of hash_table_insert, hash_table_pop and release_new_hash_block
\* terminate, and no two chains share a block.
THEOREM WalksEnd == Spec => []ChainsApart
<1>1. ASSUME IInv PROVE ChainsApart
  <2>1. PICK B, F :
          /\ Good(B, F) /\ B = blk /\ F \in [List -> Block \cup {Nil}]
          /\ F[-1] = freeHead /\ \A s \in Size : F[s] = dir[s]
          /\ At(B, F, -1) = FreeList /\ \A s \in Size : At(B, F, s) = Chain(dir[s])
          /\ Used(B, F) = InUse
    BY <1>1, IInvSays
  <2>2. PICK N : N = LinksOf(B)
    OBVIOUS
  <2>3. /\ Apart(N, F) /\ Live(N, F) = UNION {At(B, F, l) : l \in List}
        /\ \A b \in Live(N, F) : b \in Block /\ N[b] = blk[b].next
    BY <2>1, <2>2, AtBlocks, LinksOfType, LiveBlocks DEF Good
  <2>4. \A b \in InUse \cup FreeList : b \in Live(N, F)
    BY <2>1, <2>3, ListIs DEF Used
  <2>5. ASSUME NEW h \in Heads PROVE h # Nil /\ \E l \in List : F[l] = h /\ Walk(N, h) = Chain(h)
    <3>1. h # Nil /\ \E l \in List : F[l] = h
      BY <2>1, <2>5, ListIs DEF Heads
    <3>2. Links = N
      BY <2>1, <2>2 DEF Links, LinksOf
    <3>. QED  BY <3>1, <3>2 DEF Chain
  <2>6. \A h \in Heads : \E b \in Chain(h) : blk[b].next = Nil
    <3>1. \A l \in List : Walk(N, F[l]) \subseteq Live(N, F)
      BY <2>3, LiveBlocks
    <3>2. \A l \in List : F[l] # Nil => \E b \in Walk(N, F[l]) : N[b] = Nil
      BY <2>3 DEF Apart
    <3>. QED  BY <2>3, <2>5, <3>1, <3>2
  <2>7. \A s, t \in Size : dir[s] = dir[t] /\ dir[s] # Nil => s = t
    BY <2>1, <2>3, ListIs DEF Apart
  <2>8. \A b \in InUse \cup FreeList : blk[b].next \notin Heads
    BY <2>3, <2>4, <2>5 DEF Apart
  <2>9. \A b, c \in InUse \cup FreeList : blk[b].next = blk[c].next /\ blk[b].next # Nil => b = c
    BY <2>3, <2>4 DEF Apart
  <2>. QED  BY <2>6, <2>7, <2>8, <2>9 DEF ChainsApart
<1>. QED  BY <1>1, Invariance, PTL

\* The free list lists each free block once, and nothing else.
THEOREM FreeSound == Spec => []FreeListSound
<1>1. ASSUME IInv PROVE FreeListSound
  <2>1. PICK B, F :
          /\ Good(B, F) /\ B = blk
          /\ At(B, F, -1) = FreeList /\ Pages(B, F) = FreePages /\ Used(B, F) = InUse /\ Placed(B, F, length)
    BY <1>1, IInvSays
  <2>2. ASSUME NEW b \in FreeList PROVE b \in FreePages
    <3>1. Proper(-1, b, blk[b])
      BY <2>1, <2>2, ListIs DEF Good
    <3>2. 1 \in 1 .. blk[b].n /\ blk[b].table[1] = b
      BY <3>1 DEF Proper
    <3>. QED  BY <2>2, <3>2 DEF FreePages, Listed
  <2>3. ASSUME NEW b \in FreeList, NEW c \in FreeList, NEW i \in 1 .. blk[b].n, NEW j \in 1 .. blk[c].n,
               blk[b].table[i] = blk[c].table[j]
        PROVE  b = c /\ i = j
    <3>1. b # c => Entries(blk[b]) \cap Entries(blk[c]) = {}
      BY <2>1, <2>3, ListIs DEF Good, Once, Alike
    <3>2. b = c
      BY <2>3, <3>1 DEF Entries
    <3>3. Distinct(blk[b])
      BY <2>1, <2>3, ListIs DEF Good, Once
    <3>. QED  BY <2>3, <3>2, <3>3 DEF Distinct
  <2>4. FreePages \cap InUse = {} /\ FreePages \cup InUse \subseteq First .. length - 1
    BY <2>1 DEF Placed
  <2>. QED  BY <2>2, <2>3, <2>4 DEF FreeListSound
<1>. QED  BY <1>1, Invariance, PTL

\* No block of a chain is empty or has a hole.
THEOREM Packed == Spec => []TablesPacked
<1>1. ASSUME IInv PROVE TablesPacked
  <2>1. PICK B, F :
          /\ Good(B, F) /\ B = blk
          /\ At(B, F, -1) = FreeList /\ \A s \in Size : At(B, F, s) = Chain(dir[s])
    BY <1>1, IInvSays
  <2>2. ASSUME NEW b \in InUse \cup FreeList PROVE \E l \in List : Proper(l, b, blk[b])
    BY <2>1, <2>2, ListIs DEF Good, InUse
  <2>. QED  BY <2>2 DEF TablesPacked, Proper
<1>. QED  BY <1>1, Invariance, PTL

\* No call loses a page, but for a search that finds nothing and a restart.
THEOREM Accounted == Spec => NothingElseLost
<1>. DEFINE Allowed == IF call' = Nil THEN length .. size - 1 ELSE IF call'[2] = Nil THEN {First} ELSE {}
<1>1. ASSUME IInv, Next PROVE Lost' \subseteq Lost \cup Allowed
  <2>1. ASSUME NEW s \in Size, NEW a \in Addr, Insert(s, a) PROVE Lost' \subseteq Lost
    BY <1>1, <2>1, InsertKeeps
  <2>2. ASSUME NEW s \in Size, NEW a \in Addr, Remove(s, a) PROVE Lost' \subseteq Lost
    BY <1>1, <2>2, RemoveKeeps
  <2>3. ASSUME NEW s \in Size, PopLowerBound(s) PROVE Lost' \subseteq Lost
    BY <1>1, <2>3, PopKeeps
  <2>4. ASSUME NEW s \in Size, PopNothing(s) PROVE Lost' \subseteq Lost \cup {First} /\ Allowed = {First}
    <3>1. Lost' \subseteq Lost \cup {First} /\ call' = <<s, Nil>>
      BY <1>1, <2>4, NothingKeeps DEF PopNothing
    <3>2. call' # Nil
      BY <3>1, CallAssumption
    <3>. QED  BY <3>1, <3>2
  <2>5. ASSUME Reopen PROVE Lost' \subseteq Lost \cup Allowed
    BY <1>1, <2>5, ReopenKeeps DEF Reopen
  <2>. QED  BY <1>1, <2>1, <2>2, <2>3, <2>4, <2>5 DEF Next
<1>2. IInv /\ [Next]_vars => [Lost' \subseteq Lost \cup Allowed]_vars
  BY <1>1
<1>. QED  BY <1>2, Invariance, PTL DEF Spec, NothingElseLost

-----------------------------------------------------------------------------
(* The refinement.                                                          *)

Pairs == UNION {{s} \X Filed(s) : s \in Size}

LEMMA PairsIs ==
  /\ \A e : e \in Pairs <=> \E s \in Size : \E a \in Filed(s) : e = <<s, a>>
  /\ \A e : e \in Pairs' <=> \E s \in Size : \E a \in Filed(s)' : e = <<s, a>>
<1>1. \A e : e \in Pairs <=> \E s \in Size : \E a \in Filed(s) : e = <<s, a>>
  BY DEF Pairs
<1>2. \A e : e \in Pairs' <=> \E s \in Size : \E a \in Filed(s)' : e = <<s, a>>
  BY DEF Pairs
<1>. QED  BY <1>1, <1>2

LEMMA PairsKept ==
  ASSUME \A t \in Size : Filed(t)' = Filed(t)
  PROVE  Pairs' = Pairs
<1>1. \A e : e \in Pairs' <=> e \in Pairs
  BY PairsIs
<1>. QED  BY <1>1

LEMMA PairsMore ==
  ASSUME NEW s \in Size, NEW a, Filed(s)' = Filed(s) \cup {a}, \A t \in Size \ {s} : Filed(t)' = Filed(t)
  PROVE  Pairs' = Pairs \cup {<<s, a>>}
<1>1. \A t \in Size : \A x : x \in Filed(t)' <=> x \in Filed(t) \/ (t = s /\ x = a)
  OBVIOUS
<1>2. \A e : e \in Pairs' <=> e \in Pairs \/ e = <<s, a>>
  BY <1>1, PairsIs
<1>. QED  BY <1>2

LEMMA PairsLess ==
  ASSUME NEW s \in Size, NEW a, Filed(s)' = Filed(s) \ {a}, \A t \in Size \ {s} : Filed(t)' = Filed(t)
  PROVE  Pairs' = Pairs \ {<<s, a>>}
<1>1. \A t \in Size : \A x : x \in Filed(t)' <=> x \in Filed(t) /\ ~(t = s /\ x = a)
  OBVIOUS
<1>2. \A e : e \in Pairs' <=> e \in Pairs /\ e # <<s, a>>
  BY <1>1, PairsIs
<1>. QED  BY <1>2

LEMMA Steps ==
  ASSUME IInv, [Next]_vars
  PROVE  [Space!Next]_<<Pairs, call>>
<1>0. Size = 0 .. Sizes - 1 /\ \A s \in Size : s \in Int
  BY SizesAssumption DEF Size, Sizes
<1>1. ASSUME NEW s \in Size, NEW a \in Addr, Insert(s, a) PROVE Space!Insert(s, a)
  <2>1. Pairs' = Pairs \cup {<<s, a>>}
    BY <1>1, InsertKeeps, PairsMore
  <2>2. (\A t \in Size : a \notin Filed(t)) /\ call' = <<s, a>>
    BY <1>1 DEF Insert
  <2>3. ~Space!Filed(a)
    <3>1. \A t \in Size : <<t, a>> \notin Pairs
      BY <2>2, PairsIs
    <3>. QED  BY <1>0, <3>1 DEF Space!Filed, Pairs
  <2>. QED  BY <2>1, <2>2, <2>3 DEF Space!Insert, Pairs
<1>2. ASSUME NEW s \in Size, NEW a \in Addr, Remove(s, a) PROVE Space!Remove(s, a)
  <2>1. a \in Filed(s) /\ Pairs' = Pairs \ {<<s, a>>}
    BY <1>2, RemoveKeeps, PairsLess
  <2>2. call' = <<s, a>> /\ <<s, a>> \in Pairs
    BY <1>2, <2>1, PairsIs DEF Remove
  <2>. QED  BY <2>1, <2>2 DEF Space!Remove, Pairs
<1>3. ASSUME NEW s \in Size, PopLowerBound(s) PROVE Space!PopLowerBound(s)
  <2>1. PICK t \in Size, a \in Addr :
              /\ t >= s /\ \A u \in Size : u >= s /\ u < t => Filed(u) = {}
              /\ a \in Filed(t) /\ Filed(t)' = Filed(t) \ {a} /\ \A u \in Size \ {t} : Filed(u)' = Filed(u)
              /\ call' = <<s, a>>
    BY <1>3, PopKeeps
  <2>2. PICK e : e = <<t, a>>
    OBVIOUS
  <2>3. e \in Pairs /\ e[1] = t /\ e[2] = a /\ Pairs' = Pairs \ {e}
    BY <2>1, <2>2, PairsIs, PairsLess
  <2>4. ASSUME NEW d \in Pairs, d[1] >= s PROVE d[1] >= e[1]
    <3>1. PICK u \in Size : \E x \in Filed(u) : d = <<u, x>>
      BY PairsIs
    <3>2. d[1] = u /\ Filed(u) # {}
      BY <3>1
    <3>. QED  BY <1>0, <2>1, <2>3, <2>4, <3>2
  <2>5. e \in Space!BestFits(s)
    BY <2>1, <2>3, <2>4 DEF Space!BestFits, Pairs
  <2>. QED  BY <2>1, <2>3, <2>5 DEF Space!PopLowerBound, Pairs
<1>4. ASSUME NEW s \in Size, PopNothing(s) PROVE Space!PopNothing(s)
  <2>1. Pairs' = Pairs /\ call' = <<s, Nil>> /\ \A t \in Size : t >= s => Filed(t) = {}
    BY <1>4, NothingKeeps, PairsKept DEF PopNothing
  <2>2. ASSUME NEW d \in Pairs, d[1] >= s PROVE FALSE
    <3>1. PICK u \in Size : \E x \in Filed(u) : d = <<u, x>>
      BY PairsIs
    <3>2. d[1] = u /\ Filed(u) # {}
      BY <3>1
    <3>. QED  BY <2>1, <2>2, <3>2
  <2>3. Space!BestFits(s) = {}
    BY <2>2 DEF Space!BestFits, Pairs
  <2>. QED  BY <2>1, <2>3 DEF Space!PopNothing, Pairs
<1>5. ASSUME Reopen PROVE Space!Reopen
  <2>1. Pairs' = Pairs /\ call' = Nil
    BY <1>5, ReopenKeeps, PairsKept DEF Reopen
  <2>. QED  BY <2>1 DEF Space!Reopen, Pairs
<1>6. CASE UNCHANGED vars
  <2>1. (\A t \in Size : Filed(t)' = Filed(t)) /\ call' = call
    BY <1>6 DEF vars, Filed, Listed, Chain, Links
  <2>. QED  BY <2>1, PairsKept
<1>. QED  BY <1>0, <1>1, <1>2, <1>3, <1>4, <1>5, <1>6 DEF Next, Space!Next

\* The map is a set of entries with best-fit removal: what hash_table_insert,
\* hash_table_pop and hash_table_pop_lower_bound promise table.c.
THEOREM Implementation == Spec => ImplementsFreeSpace
<1>1. Init => Space!Init
  <2>1. ASSUME Init PROVE Pairs = {} /\ call = Nil
    BY <2>1, InitIs, PairsIs DEF Init
  <2>. QED  BY <2>1 DEF Space!Init, Pairs
<1>2. IInv /\ [Next]_vars => [Space!Next]_<<Pairs, call>>
  BY Steps
<1>. QED  BY <1>1, <1>2, Invariance, PTL DEF Spec, ImplementsFreeSpace, Space!Spec, Pairs

=============================================================================
