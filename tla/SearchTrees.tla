---------------------------- MODULE SearchTrees ----------------------------
(***************************************************************************)
(* Search trees, and the nodes of BTree one at a time, for every degree,   *)
(* every set of keys and every set of pages: the lemmas about operators    *)
(* that BTreeProofs rests on.                                              *)
(*                                                                         *)
(* The bisection is correct in every node that is in order, and inserting  *)
(* and deleting a row where it points keeps the node in order.             *)
(*                                                                         *)
(* The larger part is about search trees.  A tree is not walked, since     *)
(* induction over trees is out of reach: it is a set of nodes, each with a *)
(* level, keys, children, a parent and a span (the keys a search for which *)
(* comes by it), and being a search tree is a condition on each node and   *)
(* its children only.  Splitting, merging and borrowing are then two       *)
(* opposite changes of such a tree, Part and Join, the root's growing and  *)
(* shrinking two more, and each is proved to make a search tree of a       *)
(* search tree.                                                            *)
(***************************************************************************)
EXTENDS BTree, SequenceTheorems, WellFoundedInduction, TLAPS

-----------------------------------------------------------------------------
(* Induction: every set of numbers has a least one.                         *)

Less == {p \in Nat \X Nat : p[1] < p[2]}

\* A set of numbers that is not empty has a least one.
LEMMA LeastNumber ==
  ASSUME NEW S \in SUBSET Nat, S # {}
  PROVE  \E n \in S : \A m \in S : n <= m
<1>1. IsWellFoundedOn(Less, Nat)
  <2>1. Less \cap (Nat \X Nat) \subseteq OpToRel(<, Nat)
    BY DEF Less, OpToRel
  <2>. QED  BY <2>1, NatLessThanWellFounded, IsWellFoundedOnSubrelation
<1>2. PICK n \in S : \A m \in S : ~ (<<m, n>> \in Less)
  BY <1>1, WFMin
<1>3. ASSUME NEW m \in S PROVE n <= m
  <2>1. <<m, n>> \notin Less /\ m \in Nat /\ n \in Nat
    BY <1>2
  <2>2. ~ (m < n)
    BY <2>1 DEF Less
  <2>. QED  BY <2>1, <2>2
<1>. QED  BY <1>3

\* What holds of x whenever it holds of all that measure less holds of all.
LEMMA Descent ==
  ASSUME NEW D, NEW size, \A x \in D : size[x] \in Nat, NEW G,
         \A x \in D : (\A y \in D : size[y] < size[x] => y \in G) => x \in G
  PROVE  D \subseteq G
<1>. SUFFICES ASSUME ~ (D \subseteq G) PROVE FALSE
  OBVIOUS
<1>1. PICK S : S = {size[x] : x \in D \ G}
  OBVIOUS
<1>2. S \in SUBSET Nat /\ S # {}
  BY <1>1
<1>3. PICK n \in S : \A m \in S : n <= m
  BY <1>2, LeastNumber
<1>4. PICK x \in D \ G : n = size[x]
  BY <1>1
<1>5. ASSUME NEW y \in D, size[y] < size[x] PROVE y \in G
  <2>. SUFFICES ASSUME y \notin G PROVE FALSE
    OBVIOUS
  <2>1. size[y] \in S
    BY <1>1
  <2>2. size[x] <= size[y] /\ size[x] \in Nat /\ size[y] \in Nat
    BY <1>3, <1>4, <2>1
  <2>. QED  BY <1>5, <2>2
<1>. QED  BY <1>4, <1>5

-----------------------------------------------------------------------------
(* Bisection.                                                               *)

Sorted(ks) == \A i, j \in DOMAIN ks : i < j => ks[i] < ks[j]

\* k belongs behind the first b of the keys ks.
Behind(ks, k, b) == b \in 0 .. Len(ks) /\ \A i \in 1 .. Len(ks) : ks[i] < k <=> i <= b

\* A place among sorted keys exists for every key.
LEMMA BehindExists ==
  ASSUME NEW ks \in Seq(Nat), Sorted(ks), NEW k \in Nat
  PROVE  \E b \in 0 .. Len(ks) : Behind(ks, k, b)
<1>1. PICK S : S = {i \in 0 .. Len(ks) : i = Len(ks) \/ ~ (ks[i + 1] < k)}
  OBVIOUS
<1>2. Len(ks) \in Nat /\ Len(ks) \in S /\ S \in SUBSET Nat
  BY <1>1
<1>3. PICK b \in S : \A i \in S : b <= i
  BY <1>2, LeastNumber
<1>4. b \in 0 .. Len(ks) /\ (b = Len(ks) \/ ~ (ks[b + 1] < k))
  BY <1>1
<1>5. \A i \in 1 .. Len(ks) : ks[i] \in Nat
  OBVIOUS
<1>6. ASSUME NEW i \in 1 .. Len(ks) PROVE ks[i] < k <=> i <= b
  <2>1. ASSUME i <= b PROVE ks[i] < k
    <3>1. i - 1 \in 0 .. Len(ks) /\ ~ (b <= i - 1) /\ i - 1 # Len(ks) /\ (i - 1) + 1 = i
      BY <1>2, <1>4, <2>1
    <3>2. i - 1 \notin S
      BY <1>3, <3>1
    <3>. QED  BY <1>1, <3>1, <3>2
  <2>2. ASSUME b < i PROVE ~ (ks[i] < k)
    <3>1. b + 1 \in 1 .. Len(ks) /\ b # Len(ks) /\ ~ (ks[b + 1] < k) /\ b + 1 <= i
      BY <1>2, <1>4, <2>2
    <3>2. ks[b + 1] <= ks[i]
      <4>1. CASE b + 1 = i
        BY <1>5, <3>1, <4>1
      <4>2. CASE b + 1 < i
        BY <1>5, <3>1, <4>2 DEF Sorted
      <4>. QED  BY <1>4, <3>1, <4>1, <4>2
    <3>. QED  BY <1>5, <3>1, <3>2
  <2>. QED  BY <1>4, <2>1, <2>2
<1>. QED  BY <1>4, <1>6 DEF Behind

\* lower_bound_rr finds that place (b_tree.c's bisection, at every step of it).
LEMMA LowerBoundIs ==
  ASSUME NEW ks \in Seq(Nat), Sorted(ks), NEW k \in Nat,
         NEW rows, Len(rows) = Len(ks), \A i \in 1 .. Len(ks) : rows[i][1] = ks[i]
  PROVE  Behind(ks, k, LowerBound(rows, k))
<1>1. PICK n : n = Len(ks)
  OBVIOUS
<1>2. PICK D : D = (0 .. n) \X (-1 .. n - 1) \X (0 .. n)
  OBVIOUS
<1> DEFINE F(f) == [at \in (0 .. n) \X (-1 .. n - 1) \X (0 .. n) |->
                      IF at[1] > at[2] THEN at[3]
                      ELSE LET mid == (at[1] + at[2]) \div 2
                           IN  IF k > rows[mid + 1][1] THEN f[<<mid + 1, at[2], at[3]>>]
                                                       ELSE f[<<at[1], mid - 1, mid>>]]
<1>3. PICK b \in 0 .. n : Behind(ks, k, b)
  BY <1>1, BehindExists
<1>4. n \in Nat /\ b \in Nat /\ b <= n /\ \A i \in 1 .. n : ks[i] \in Nat /\ (ks[i] < k <=> i <= b)
  BY <1>1, <1>3 DEF Behind
<1>5. PICK L : L = [at \in D |-> IF at[1] > at[2] \/ b > at[2] THEN at[3] ELSE IF b < at[1] THEN at[1] ELSE b]
  OBVIOUS
<1>0. PICK Mid : Mid = [at \in D |-> (at[1] + at[2]) \div 2]
  OBVIOUS
<1>6. PICK size : size = [at \in D |-> IF at[1] > at[2] THEN 0 ELSE at[2] - at[1] + 1]
  OBVIOUS
<1>7. ASSUME NEW at \in D
      PROVE  /\ at[1] \in Int /\ at[2] \in Int /\ size[at] \in Nat
             /\ at[1] > at[2] => L[at] = at[3]
             /\ ~ (at[1] > at[2]) /\ k > rows[Mid[at] + 1][1] =>
                  /\ <<Mid[at] + 1, at[2], at[3]>> \in D
                  /\ L[at] = L[<<Mid[at] + 1, at[2], at[3]>>]
                  /\ size[<<Mid[at] + 1, at[2], at[3]>>] < size[at]
             /\ ~ (at[1] > at[2]) /\ ~ (k > rows[Mid[at] + 1][1]) =>
                  /\ <<at[1], Mid[at] - 1, Mid[at]>> \in D
                  /\ L[at] = L[<<at[1], Mid[at] - 1, Mid[at]>>]
                  /\ size[<<at[1], Mid[at] - 1, Mid[at]>>] < size[at]
  <2>1. PICK l \in 0 .. n, r \in -1 .. n - 1, a \in 0 .. n : at = <<l, r, a>>
    BY <1>2
  <2>2. at[1] = l /\ at[2] = r /\ at[3] = a /\ l \in Nat /\ r \in Int
    BY <1>4, <2>1
  <2>3. size[at] = (IF l > r THEN 0 ELSE r - l + 1) /\ size[at] \in Nat
    BY <1>6, <2>2
  <2>4. L[at] = IF l > r \/ b > r THEN a ELSE IF b < l THEN l ELSE b
    BY <1>5, <2>2
  <2>5. ASSUME ~ (l > r)
        PROVE  /\ k > rows[Mid[at] + 1][1] =>
                    /\ <<Mid[at] + 1, r, a>> \in D
                    /\ L[at] = L[<<Mid[at] + 1, r, a>>]
                    /\ size[<<Mid[at] + 1, r, a>>] < size[at]
               /\ ~ (k > rows[Mid[at] + 1][1]) =>
                    /\ <<l, Mid[at] - 1, Mid[at]>> \in D
                    /\ L[at] = L[<<l, Mid[at] - 1, Mid[at]>>]
                    /\ size[<<l, Mid[at] - 1, Mid[at]>>] < size[at]
    <3>1. PICK mid : mid = (l + r) \div 2 /\ mid = Mid[at]
      BY <1>0, <2>2
    <3>2. l <= r /\ r <= n - 1 /\ r \in Nat
      BY <1>4, <2>2, <2>5
    <3>3. mid \in Nat /\ l <= mid /\ mid <= r
      BY <2>2, <3>1, <3>2
    <3>4. k > rows[mid + 1][1] <=> mid < b
      <4>1. mid + 1 \in 1 .. n
        BY <1>4, <3>2, <3>3
      <4>2. rows[mid + 1][1] = ks[mid + 1] /\ ks[mid + 1] \in Nat /\ (ks[mid + 1] < k <=> mid + 1 <= b)
        BY <1>1, <1>4, <4>1
      <4>. QED  BY <1>4, <3>3, <4>2
    <3>5. ASSUME mid < b
          PROVE  <<mid + 1, r, a>> \in D /\ L[at] = L[<<mid + 1, r, a>>] /\ size[<<mid + 1, r, a>>] < size[at]
      <4>1. mid + 1 \in 0 .. n
        BY <1>4, <3>2, <3>3
      <4>2. PICK m : m = mid + 1
        OBVIOUS
      <4>3. PICK z : z = <<m, r, a>>
        OBVIOUS
      <4>4. z \in D /\ z[1] = m /\ z[2] = r /\ z[3] = a
        BY <1>2, <4>1, <4>2, <4>3
      <4>5. L[z] = IF m > r \/ b > r THEN a ELSE IF b < m THEN m ELSE b
        BY <1>5, <4>4
      <4>6. size[z] = IF m > r THEN 0 ELSE r - m + 1
        BY <1>6, <4>4
      <4>7. L[at] = L[z] /\ size[z] < size[at]
        BY <1>4, <2>3, <2>4, <3>2, <3>3, <3>5, <4>2, <4>5, <4>6
      <4>. QED  BY <4>2, <4>3, <4>4, <4>7
    <3>6. ASSUME ~ (mid < b)
          PROVE  <<l, mid - 1, mid>> \in D /\ L[at] = L[<<l, mid - 1, mid>>] /\ size[<<l, mid - 1, mid>>] < size[at]
      <4>1. mid - 1 \in -1 .. n - 1 /\ mid \in 0 .. n
        BY <1>4, <3>2, <3>3
      <4>2. PICK m : m = mid - 1
        OBVIOUS
      <4>3. PICK z : z = <<l, m, mid>>
        OBVIOUS
      <4>4. z \in D /\ z[1] = l /\ z[2] = m /\ z[3] = mid
        BY <1>2, <4>1, <4>2, <4>3
      <4>5. L[z] = IF l > m \/ b > m THEN mid ELSE IF b < l THEN l ELSE b
        BY <1>5, <4>4
      <4>6. size[z] = IF l > m THEN 0 ELSE m - l + 1
        BY <1>6, <4>4
      <4>7. L[at] = L[z] /\ size[z] < size[at]
        BY <1>4, <2>3, <2>4, <3>2, <3>3, <3>6, <4>2, <4>5, <4>6
      <4>. QED  BY <4>2, <4>3, <4>4, <4>7
    <3>. QED  BY <3>1, <3>4, <3>5, <3>6
  <2>. QED  BY <2>2, <2>3, <2>4, <2>5
<1>8. L = F(L)
  <2>0. ASSUME NEW at \in D
        PROVE  L[at] = IF at[1] > at[2] THEN at[3]
                       ELSE IF k > rows[Mid[at] + 1][1] THEN L[<<Mid[at] + 1, at[2], at[3]>>]
                                                        ELSE L[<<at[1], Mid[at] - 1, Mid[at]>>]
    BY <1>7
  <2>1. ASSUME NEW at \in D
        PROVE  L[at] = IF at[1] > at[2] THEN at[3]
                       ELSE LET mid == (at[1] + at[2]) \div 2
                            IN  IF k > rows[mid + 1][1] THEN L[<<mid + 1, at[2], at[3]>>]
                                                        ELSE L[<<at[1], mid - 1, mid>>]
    <3>1. Mid[at] = (at[1] + at[2]) \div 2
      BY <1>0
    <3>. QED  BY <2>0, <3>1
  <2>2. DOMAIN L = D /\ L = [at \in D |-> L[at]]
    BY <1>5
  <2>. QED  BY <1>2, <2>1, <2>2, Zenon
<1>9. PICK f : f = (CHOOSE g : g = F(g)) /\ LowerBound(rows, k) = f[<<0, n - 1, n>>]
  BY <1>1, Zenon DEF LowerBound
<1>10. f = F(f)
  BY ONLY <1>8, <1>9, Zenon
<1>11. PICK G : G = {at \in D : f[at] = L[at]}
  OBVIOUS
<1>12. ASSUME NEW at \in D, \A y \in D : size[y] < size[at] => y \in G PROVE at \in G
  <2>1. f[at] = IF at[1] > at[2] THEN at[3]
                ELSE LET mid == (at[1] + at[2]) \div 2
                     IN  IF k > rows[mid + 1][1] THEN f[<<mid + 1, at[2], at[3]>>]
                                                 ELSE f[<<at[1], mid - 1, mid>>]
    BY <1>2, <1>10
  <2>3. f[at] = IF at[1] > at[2] THEN at[3]
                ELSE IF k > rows[Mid[at] + 1][1] THEN f[<<Mid[at] + 1, at[2], at[3]>>]
                                                 ELSE f[<<at[1], Mid[at] - 1, Mid[at]>>]
    <3>1. Mid[at] = (at[1] + at[2]) \div 2
      BY <1>0
    <3>. QED  BY <2>1, <3>1
  <2>2. f[at] = L[at]
    BY <1>7, <1>11, <1>12, <2>3
  <2>. QED  BY <1>11, <2>2
<1>13. D \subseteq G
  BY <1>7, <1>12, Descent
<1>14. <<0, n - 1, n>> \in D
  BY <1>2, <1>4
<1>15. L[<<0, n - 1, n>>] = b
  <2>1. PICK m : m = n - 1
    OBVIOUS
  <2>2. PICK z : z = <<0, m, n>>
    OBVIOUS
  <2>3. z \in D /\ z[1] = 0 /\ z[2] = m /\ z[3] = n
    BY <1>14, <2>1, <2>2
  <2>4. L[z] = IF 0 > m \/ b > m THEN n ELSE IF b < 0 THEN 0 ELSE b
    BY <1>5, <2>3
  <2>5. L[z] = b
    BY <1>4, <2>1, <2>4
  <2>. QED  BY <2>1, <2>2, <2>5
<1>16. LowerBound(rows, k) = b
  BY <1>9, <1>11, <1>13, <1>14, <1>15
<1>. QED  BY <1>3, <1>16

-----------------------------------------------------------------------------
(* Sequences, element by element.                                           *)

\* What the operators on arrays return.
LEMMA SubSeqIs ==
  ASSUME NEW S, NEW s \in Seq(S), NEW m \in Nat \ {0}, NEW n \in Nat, m <= n + 1, n <= Len(s)
  PROVE  /\ SubSeq(s, m, n) \in Seq(S) /\ Len(SubSeq(s, m, n)) = n - m + 1
         /\ \A i \in 1 .. n - m + 1 : SubSeq(s, m, n)[i] = s[i + m - 1]
<1>1. \A i \in m .. n : s[i] \in S
  OBVIOUS
<1>2. /\ SubSeq(s, m, n) \in Seq(S)
      /\ Len(SubSeq(s, m, n)) = IF m <= n THEN n - m + 1 ELSE 0
      /\ \A i \in 1 .. n - m + 1 : SubSeq(s, m, n)[i] = s[m + i - 1]
  BY <1>1, SubSeqProperties
<1>3. ~ (m <= n) => n - m + 1 = 0
  OBVIOUS
<1>4. \A i \in 1 .. n - m + 1 : m + i - 1 = i + m - 1
  OBVIOUS
<1>. QED  BY <1>2, <1>3, <1>4

\* What a concatenation holds.
LEMMA ConcatIs ==
  ASSUME NEW S, NEW s \in Seq(S), NEW u \in Seq(S)
  PROVE  /\ s \o u \in Seq(S) /\ Len(s \o u) = Len(s) + Len(u)
         /\ \A i \in 1 .. Len(s) : (s \o u)[i] = s[i]
         /\ \A i \in 1 .. Len(u) : (s \o u)[Len(s) + i] = u[i]
<1>1. /\ s \o u \in Seq(S) /\ Len(s \o u) = Len(s) + Len(u)
      /\ \A i \in 1 .. Len(s) + Len(u) : (s \o u)[i] = IF i <= Len(s) THEN s[i] ELSE u[i - Len(s)]
  BY ConcatProperties
<1>2. Len(s) \in Nat /\ Len(u) \in Nat
  OBVIOUS
<1>3. ASSUME NEW i \in 1 .. Len(u) PROVE (s \o u)[Len(s) + i] = u[i]
  <2>1. Len(s) + i \in 1 .. Len(s) + Len(u) /\ ~ (Len(s) + i <= Len(s)) /\ (Len(s) + i) - Len(s) = i
    BY <1>2
  <2>. QED  BY <1>1, <2>1
<1>4. ASSUME NEW i \in 1 .. Len(s) PROVE (s \o u)[i] = s[i]
  <2>1. i \in 1 .. Len(s) + Len(u) /\ i <= Len(s)
    BY <1>2
  <2>. QED  BY <1>1, <2>1
<1>. QED  BY <1>1, <1>3, <1>4

\* What InsertAt returns: one element more, at place j.
LEMMA InsertAtIs ==
  ASSUME NEW S, NEW s \in Seq(S), NEW e \in S, NEW j \in 1 .. Len(s) + 1
  PROVE  /\ InsertAt(s, j, e) \in Seq(S) /\ Len(InsertAt(s, j, e)) = Len(s) + 1
         /\ \A i \in 1 .. j - 1 : InsertAt(s, j, e)[i] = s[i]
         /\ InsertAt(s, j, e)[j] = e
         /\ \A i \in j + 1 .. Len(s) + 1 : InsertAt(s, j, e)[i] = s[i - 1]
<1>1. Len(s) \in Nat /\ j \in Nat /\ 1 <= j /\ j <= Len(s) + 1
  OBVIOUS
<1>2. PICK x, y, z, w : x = SubSeq(s, 1, j - 1) /\ y = SubSeq(s, j, Len(s)) /\ z = x \o <<e>> /\ w = z \o y
  OBVIOUS
<1>3. w = InsertAt(s, j, e)
  BY <1>2 DEF InsertAt
<1>4. x \in Seq(S) /\ Len(x) = j - 1 /\ \A i \in 1 .. j - 1 : x[i] = s[i]
  <2>1. PICK m : m = j - 1
    OBVIOUS
  <2>2. m \in Nat /\ 1 <= m + 1 /\ m <= Len(s) /\ 1 \in Nat \ {0} /\ m - 1 + 1 = m
    BY <1>1, <2>1
  <2>3. x \in Seq(S) /\ Len(x) = m /\ \A i \in 1 .. m : x[i] = s[i + 1 - 1]
    BY <1>2, <2>1, <2>2, SubSeqIs
  <2>. QED  BY <2>1, <2>3
<1>5. y \in Seq(S) /\ Len(y) = Len(s) - j + 1 /\ \A i \in 1 .. Len(s) - j + 1 : y[i] = s[i + j - 1]
  <2>1. j \in Nat \ {0}
    BY <1>1
  <2>. QED  BY <1>1, <1>2, <2>1, SubSeqIs
<1>6. PICK o \in Seq(S) : o = <<e>> /\ Len(o) = 1 /\ o[1] = e
  <2>1. <<e>> \in Seq(S) /\ Len(<<e>>) = 1 /\ <<e>>[1] = e
    OBVIOUS
  <2>. QED  BY <2>1
<1>7. z \in Seq(S) /\ Len(z) = j /\ (\A i \in 1 .. j - 1 : z[i] = s[i]) /\ z[j] = e
  <2>1. /\ z \in Seq(S) /\ Len(z) = Len(x) + 1
        /\ \A i \in 1 .. Len(x) : z[i] = x[i]
        /\ \A i \in 1 .. Len(o) : z[Len(x) + i] = o[i]
    <3>1. z = x \o o /\ x \in Seq(S)
      BY <1>2, <1>4, <1>6
    <3>2. /\ x \o o \in Seq(S) /\ Len(x \o o) = Len(x) + Len(o)
          /\ \A i \in 1 .. Len(x) : (x \o o)[i] = x[i]
          /\ \A i \in 1 .. Len(o) : (x \o o)[Len(x) + i] = o[i]
      BY <3>1, ConcatIs
    <3>. QED  BY <1>6, <3>1, <3>2
  <2>2. Len(x) + 1 = j /\ 1 \in 1 .. Len(o)
    BY <1>1, <1>4, <1>6
  <2>3. z[j] = e
    <3>1. z[Len(x) + 1] = o[1]
      BY <2>1, <2>2
    <3>. QED  BY <1>6, <2>2, <3>1
  <2>. QED  BY <1>4, <2>1, <2>2, <2>3
<1>8. /\ w \in Seq(S) /\ Len(w) = Len(z) + Len(y)
      /\ \A i \in 1 .. Len(z) : w[i] = z[i]
      /\ \A i \in 1 .. Len(y) : w[Len(z) + i] = y[i]
  <2>1. w = z \o y /\ z \in Seq(S) /\ y \in Seq(S)
    BY <1>2, <1>5, <1>7
  <2>2. /\ z \o y \in Seq(S) /\ Len(z \o y) = Len(z) + Len(y)
        /\ \A i \in 1 .. Len(z) : (z \o y)[i] = z[i]
        /\ \A i \in 1 .. Len(y) : (z \o y)[Len(z) + i] = y[i]
    BY <2>1, ConcatIs
  <2>. QED  BY <2>1, <2>2
<1>9. Len(z) = j /\ Len(y) = Len(s) - j + 1
  BY <1>5, <1>7
<1>10. Len(w) = Len(s) + 1
  BY <1>1, <1>8, <1>9
<1>11. ASSUME NEW i \in j + 1 .. Len(s) + 1 PROVE w[i] = s[i - 1]
  <2>1. i - j \in 1 .. Len(s) - j + 1 /\ j + (i - j) = i /\ (i - j) + j - 1 = i - 1
    BY <1>1
  <2>2. w[j + (i - j)] = y[i - j]
    BY <1>8, <1>9, <2>1
  <2>3. y[i - j] = s[(i - j) + j - 1]
    BY <1>5, <2>1
  <2>. QED  BY <2>1, <2>2, <2>3
<1>12. (\A i \in 1 .. j - 1 : w[i] = s[i]) /\ w[j] = e
  <2>1. \A i \in 1 .. j - 1 : i \in 1 .. j
    BY <1>1
  <2>2. j \in 1 .. j
    BY <1>1
  <2>. QED  BY <1>7, <1>8, <2>1, <2>2
<1>. QED  BY <1>3, <1>8, <1>10, <1>11, <1>12

\* What RemoveAt returns: one element fewer.
LEMMA RemoveAtIs ==
  ASSUME NEW S, NEW s \in Seq(S), NEW j \in 1 .. Len(s)
  PROVE  /\ RemoveAt(s, j) \in Seq(S) /\ Len(RemoveAt(s, j)) = Len(s) - 1
         /\ \A i \in 1 .. j - 1 : RemoveAt(s, j)[i] = s[i]
         /\ \A i \in j .. Len(s) - 1 : RemoveAt(s, j)[i] = s[i + 1]
<1>1. Len(s) \in Nat /\ j \in Nat /\ 1 <= j /\ j <= Len(s)
  OBVIOUS
<1>2. PICK x, y, w : x = SubSeq(s, 1, j - 1) /\ y = SubSeq(s, j + 1, Len(s)) /\ w = x \o y
  OBVIOUS
<1>3. w = RemoveAt(s, j)
  BY <1>2 DEF RemoveAt
<1>4. x \in Seq(S) /\ Len(x) = j - 1 /\ \A i \in 1 .. j - 1 : x[i] = s[i]
  <2>1. PICK m : m = j - 1
    OBVIOUS
  <2>2. m \in Nat /\ 1 <= m + 1 /\ m <= Len(s) /\ 1 \in Nat \ {0} /\ m - 1 + 1 = m
    BY <1>1, <2>1
  <2>3. x \in Seq(S) /\ Len(x) = m /\ \A i \in 1 .. m : x[i] = s[i + 1 - 1]
    BY <1>2, <2>1, <2>2, SubSeqIs
  <2>. QED  BY <2>1, <2>3
<1>5. y \in Seq(S) /\ Len(y) = Len(s) - j /\ \A i \in 1 .. Len(s) - j : y[i] = s[i + j]
  <2>1. PICK m : m = j + 1
    OBVIOUS
  <2>2. m \in Nat \ {0} /\ m <= Len(s) + 1 /\ Len(s) - m + 1 = Len(s) - j
    BY <1>1, <2>1
  <2>3. y = SubSeq(s, m, Len(s)) /\ Len(s) <= Len(s)
    BY <1>1, <1>2, <2>1
  <2>4. y \in Seq(S) /\ Len(y) = Len(s) - m + 1 /\ \A i \in 1 .. Len(s) - m + 1 : y[i] = s[i + m - 1]
    BY <1>1, <2>2, <2>3, SubSeqIs
  <2>5. ASSUME NEW i \in 1 .. Len(s) - j PROVE y[i] = s[i + j]
    <3>1. i + m - 1 = i + j /\ i \in 1 .. Len(s) - m + 1
      BY <1>1, <2>1, <2>2
    <3>. QED  BY <2>4, <3>1
  <2>. QED  BY <2>2, <2>4, <2>5
<1>6. /\ w \in Seq(S) /\ Len(w) = Len(x) + Len(y)
      /\ \A i \in 1 .. Len(x) : w[i] = x[i]
      /\ \A i \in 1 .. Len(y) : w[Len(x) + i] = y[i]
  <2>1. w = x \o y /\ x \in Seq(S) /\ y \in Seq(S)
    BY <1>2, <1>4, <1>5
  <2>2. /\ x \o y \in Seq(S) /\ Len(x \o y) = Len(x) + Len(y)
        /\ \A i \in 1 .. Len(x) : (x \o y)[i] = x[i]
        /\ \A i \in 1 .. Len(y) : (x \o y)[Len(x) + i] = y[i]
    BY <2>1, ConcatIs
  <2>. QED  BY <2>1, <2>2
<1>7. Len(w) = Len(s) - 1
  BY <1>1, <1>4, <1>5, <1>6
<1>8. ASSUME NEW i \in j .. Len(s) - 1 PROVE w[i] = s[i + 1]
  <2>1. i - j + 1 \in 1 .. Len(s) - j /\ (j - 1) + (i - j + 1) = i /\ (i - j + 1) + j = i + 1
    BY <1>1
  <2>2. w[(j - 1) + (i - j + 1)] = y[i - j + 1]
    BY <1>4, <1>5, <1>6, <2>1
  <2>3. y[i - j + 1] = s[(i - j + 1) + j]
    BY <1>5, <2>1
  <2>. QED  BY <2>1, <2>2, <2>3
<1>9. \A i \in 1 .. j - 1 : w[i] = s[i]
  BY <1>4, <1>6
<1>. QED  BY <1>3, <1>6, <1>7, <1>8, <1>9

-----------------------------------------------------------------------------
(* Trees of keys.  Nodes(T) is a set of nodes and Top(T) the root; a node has a  *)
(* level, keys, children, a parent, and a span: the keys a search for which  *)
(* comes by it.  A node of level 0 is a leaf.                               *)

Nodes(T)   == T.set
Top(T)     == T.top
Lev(T, a)  == T.lev[a]
Keys(T, a) == T.keys[a]
Kids(T, a) == T.kids[a]
Up(T, a)   == T.up[a]
Span(T, a) == T.span[a]

Page == Node \cup {Nil}

\* k lies between the keys before and behind place j.
Gap(ks, j, k) == (j > 1 => ks[j - 1] <= k) /\ (j <= Len(ks) => k < ks[j])

\* k is sought in the j-th child of a, if it is sought in a.
Slot(T, a, j, k) == Gap(Keys(T, a), j, k)

NodeOK(T, a) ==
  /\ Lev(T, a) \in Nat /\ Lev(T, a) <= Lev(T, Top(T)) /\ Span(T, a) \subseteq Key
  /\ Keys(T, a) \in Seq(Key) /\ Sorted(Keys(T, a))
  /\ \A i \in 1 .. Len(Keys(T, a)) : Keys(T, a)[i] \in Span(T, a)
  /\ Kids(T, a) \in Seq(Nodes(T))
  /\ Len(Kids(T, a)) = IF Lev(T, a) = 0 THEN 0 ELSE Len(Keys(T, a)) + 1

KidOK(T, a, j) ==
  LET c == Kids(T, a)[j] IN
  /\ c \in Nodes(T) /\ Up(T, c) = a /\ Lev(T, c) + 1 = Lev(T, a)
  /\ \A k \in Key : k \in Span(T, c) <=> k \in Span(T, a) /\ Slot(T, a, j, k)

Hung(T, c) ==
  /\ Up(T, c) \in Nodes(T)
  /\ \E j \in 1 .. Len(Kids(T, Up(T, c))) : Kids(T, Up(T, c))[j] = c
  /\ \E k \in Key : k \in Span(T, c)

Tree(T) ==
  /\ Nodes(T) \subseteq Page /\ Top(T) \in Nodes(T) /\ Up(T, Top(T)) = Nil /\ Span(T, Top(T)) = Key
  /\ \A a \in Nodes(T) : NodeOK(T, a)
  /\ \A a \in Nodes(T) : \A j \in 1 .. Len(Kids(T, a)) : KidOK(T, a, j)
  /\ \A c \in Nodes(T) \ {Top(T)} : Hung(T, c)

\* Keys are compared as numbers.
LEMMA KeysAreNumbers == Key \subseteq Nat /\ \A k \in Key : k \in Nat /\ k > 0
BY SetsAssumption

\* The facts about a node that arithmetic needs.
LEMMA NodeFacts ==
  ASSUME NEW T, Tree(T), NEW a \in Nodes(T)
  PROVE  /\ Lev(T, a) \in Nat /\ Lev(T, Top(T)) \in Nat /\ Lev(T, a) <= Lev(T, Top(T))
         /\ Keys(T, a) \in Seq(Key) /\ Keys(T, a) \in Seq(Nat) /\ Len(Keys(T, a)) \in Nat
         /\ \A i \in 1 .. Len(Keys(T, a)) : /\ Keys(T, a)[i] \in Key /\ Keys(T, a)[i] \in Nat
                                           /\ Keys(T, a)[i] \in Span(T, a)
         /\ \A i, j \in 1 .. Len(Keys(T, a)) : i < j => Keys(T, a)[i] < Keys(T, a)[j]
         /\ Sorted(Keys(T, a))
         /\ Kids(T, a) \in Seq(Nodes(T)) /\ \A j \in 1 .. Len(Kids(T, a)) : Kids(T, a)[j] \in Nodes(T)
         /\ Lev(T, a) = 0 => Len(Kids(T, a)) = 0
         /\ Lev(T, a) # 0 => Len(Kids(T, a)) = Len(Keys(T, a)) + 1
<1>1. NodeOK(T, a) /\ NodeOK(T, Top(T))
  BY DEF Tree
<1>2. Keys(T, a) \in Seq(Key) /\ Sorted(Keys(T, a)) /\ Kids(T, a) \in Seq(Nodes(T))
  BY <1>1 DEF NodeOK
<1>3. Keys(T, a) \in Seq(Nat) /\ Len(Keys(T, a)) \in Nat
  <2>1. Keys(T, a) \in Seq(Nat)
    BY <1>2, KeysAreNumbers, SeqMonotonic, Zenon
  <2>. QED  BY <2>1
<1>4. \A i \in 1 .. Len(Keys(T, a)) : Keys(T, a)[i] \in Key /\ Keys(T, a)[i] \in Nat
  <2>1. \A i \in 1 .. Len(Keys(T, a)) : Keys(T, a)[i] \in Key
    BY <1>2
  <2>. QED  BY <2>1, KeysAreNumbers
<1>5. \A i, j \in 1 .. Len(Keys(T, a)) : i < j => Keys(T, a)[i] < Keys(T, a)[j]
  BY <1>2 DEF Sorted
<1>6. \A j \in 1 .. Len(Kids(T, a)) : Kids(T, a)[j] \in Nodes(T)
  BY <1>2
<1>. QED  BY <1>1, <1>2, <1>3, <1>4, <1>5, <1>6 DEF NodeOK

\* The facts about a node and its j-th child.
LEMMA KidFacts ==
  ASSUME NEW T, Tree(T), NEW a \in Nodes(T), NEW j \in 1 .. Len(Kids(T, a)), NEW c, c = Kids(T, a)[j]
  PROVE  /\ c \in Nodes(T) /\ c # Top(T) /\ Up(T, c) = a /\ Lev(T, c) + 1 = Lev(T, a) /\ Lev(T, a) # 0 /\ c # a
         /\ j \in Nat /\ j >= 1 /\ j <= Len(Keys(T, a)) + 1
         /\ \A k \in Key : k \in Span(T, c) <=> k \in Span(T, a) /\ Slot(T, a, j, k)
<1>1. KidOK(T, a, j)
  BY DEF Tree
<1>2. /\ c \in Nodes(T) /\ Up(T, c) = a /\ Lev(T, c) + 1 = Lev(T, a)
      /\ \A k \in Key : k \in Span(T, c) <=> k \in Span(T, a) /\ Slot(T, a, j, k)
  BY <1>1 DEF KidOK
<1>3. /\ Lev(T, a) \in Nat /\ Lev(T, Top(T)) \in Nat /\ Lev(T, a) <= Lev(T, Top(T)) /\ Lev(T, c) \in Nat
      /\ Len(Keys(T, a)) \in Nat
      /\ Lev(T, a) # 0 => Len(Kids(T, a)) = Len(Keys(T, a)) + 1
  BY <1>2, NodeFacts
<1>4. Lev(T, a) # 0 /\ c # Top(T) /\ c # a
  BY <1>2, <1>3
<1>. QED  BY <1>2, <1>3, <1>4

\* The facts about a node and its parent.
LEMMA HungFacts ==
  ASSUME NEW T, Tree(T), NEW c \in Nodes(T), c # Top(T)
  PROVE  /\ Up(T, c) \in Nodes(T) /\ Lev(T, c) + 1 = Lev(T, Up(T, c)) /\ Lev(T, c) < Lev(T, Top(T))
         /\ \E j \in 1 .. Len(Kids(T, Up(T, c))) : Kids(T, Up(T, c))[j] = c
         /\ \E k \in Key : k \in Span(T, c)
<1>1. Hung(T, c)
  BY DEF Tree
<1>2. Up(T, c) \in Nodes(T)
  BY <1>1 DEF Hung
<1>3. PICK j \in 1 .. Len(Kids(T, Up(T, c))) : Kids(T, Up(T, c))[j] = c
  BY <1>1 DEF Hung
<1>4. Lev(T, c) + 1 = Lev(T, Up(T, c))
  BY <1>2, <1>3, KidFacts
<1>5. Lev(T, c) \in Nat /\ Lev(T, Top(T)) \in Nat /\ Lev(T, Up(T, c)) <= Lev(T, Top(T))
  BY <1>2, NodeFacts
<1>. QED  BY <1>1, <1>2, <1>4, <1>5 DEF Hung

\* A key goes to one child.
LEMMA SlotsApart ==
  ASSUME NEW T, Tree(T), NEW a \in Nodes(T), NEW i \in Nat, NEW j \in Nat,
         1 <= i, i <= Len(Keys(T, a)) + 1, 1 <= j, j <= Len(Keys(T, a)) + 1,
         NEW k \in Key, Slot(T, a, i, k), Slot(T, a, j, k)
  PROVE  i = j
<1>1. /\ Len(Keys(T, a)) \in Nat /\ k \in Nat
      /\ \A x \in 1 .. Len(Keys(T, a)) : Keys(T, a)[x] \in Nat
      /\ \A x, y \in 1 .. Len(Keys(T, a)) : x < y => Keys(T, a)[x] < Keys(T, a)[y]
  BY NodeFacts, KeysAreNumbers
<1>2. ASSUME NEW x \in Nat, NEW y \in Nat, 1 <= x, y <= Len(Keys(T, a)) + 1, x < y,
             Slot(T, a, x, k), Slot(T, a, y, k)
      PROVE  FALSE
  <2>1. x \in 1 .. Len(Keys(T, a)) /\ y - 1 \in 1 .. Len(Keys(T, a)) /\ x <= y - 1
    BY <1>1, <1>2
  <2>2. k < Keys(T, a)[x] /\ Keys(T, a)[y - 1] <= k
    BY <1>1, <1>2, <2>1 DEF Slot, Gap
  <2>3. Keys(T, a)[x] <= Keys(T, a)[y - 1]
    <3>1. CASE x = y - 1
      BY <1>1, <2>1, <3>1
    <3>2. CASE x < y - 1
      <4>1. PICK z \in 1 .. Len(Keys(T, a)) : z = y - 1
        BY <2>1
      <4>2. Keys(T, a)[x] < Keys(T, a)[z] /\ Keys(T, a)[x] \in Nat /\ Keys(T, a)[z] \in Nat
        BY <1>1, <2>1, <3>2, <4>1
      <4>. QED  BY <4>1, <4>2
    <3>. QED  BY <1>1, <2>1, <3>1, <3>2
  <2>4. Keys(T, a)[x] \in Nat /\ Keys(T, a)[y - 1] \in Nat
    BY <1>1, <2>1
  <2>. QED  BY <1>1, <2>2, <2>3, <2>4
<1>. QED  BY <1>2

\* A node is a child once.
LEMMA KidsApart ==
  ASSUME NEW T, Tree(T), NEW a \in Nodes(T), NEW i \in 1 .. Len(Kids(T, a)), NEW j \in 1 .. Len(Kids(T, a)),
         Kids(T, a)[i] = Kids(T, a)[j]
  PROVE  i = j
<1>1. PICK c : c = Kids(T, a)[i] /\ c = Kids(T, a)[j]
  OBVIOUS
<1>2. /\ i \in Nat /\ 1 <= i /\ i <= Len(Keys(T, a)) + 1
      /\ \A k \in Key : k \in Span(T, c) <=> k \in Span(T, a) /\ Slot(T, a, i, k)
      /\ c \in Nodes(T) /\ c # Top(T)
  BY <1>1, KidFacts
<1>3. /\ j \in Nat /\ 1 <= j /\ j <= Len(Keys(T, a)) + 1
      /\ \A k \in Key : k \in Span(T, c) <=> k \in Span(T, a) /\ Slot(T, a, j, k)
  BY <1>1, KidFacts
<1>4. PICK k \in Key : k \in Span(T, c)
  BY <1>2, HungFacts
<1>5. Slot(T, a, i, k) /\ Slot(T, a, j, k)
  BY <1>2, <1>3, <1>4
<1>. QED  BY <1>2, <1>3, <1>5, SlotsApart

\* On one level a key is in one span.
LEMMA Apart ==
  ASSUME NEW T, Tree(T), NEW a \in Nodes(T), NEW b \in Nodes(T), Lev(T, a) = Lev(T, b),
         NEW k \in Key, k \in Span(T, a), k \in Span(T, b)
  PROVE  a = b
<1>1. PICK G : G = {x \in Nodes(T) : \A y \in Nodes(T) : Lev(T, x) = Lev(T, y) /\ k \in Span(T, x) /\ k \in Span(T, y) => x = y}
  OBVIOUS
<1>2. PICK D, size : D = Nodes(T) /\ size = [x \in D |-> Lev(T, Top(T)) - Lev(T, x)]
  OBVIOUS
<1>3. ASSUME NEW x \in D PROVE size[x] \in Nat
  BY <1>2, <1>3, NodeFacts
<1>4. ASSUME NEW x \in D, \A y \in D : size[y] < size[x] => y \in G PROVE x \in G
  <2>1. ASSUME NEW y \in Nodes(T), Lev(T, x) = Lev(T, y), k \in Span(T, x), k \in Span(T, y) PROVE x = y
    <3>1. Lev(T, x) \in Nat /\ Lev(T, Top(T)) \in Nat /\ x \in Nodes(T)
      BY <1>2, NodeFacts
    <3>2. x = Top(T) <=> y = Top(T)
      BY <2>1, <3>1, HungFacts
    <3>3. CASE x # Top(T) /\ y # Top(T)
      <4>1. PICK p, q : p = Up(T, x) /\ q = Up(T, y)
        OBVIOUS
      <4>2. /\ p \in Nodes(T) /\ Lev(T, x) + 1 = Lev(T, p)
            /\ \E j \in 1 .. Len(Kids(T, p)) : Kids(T, p)[j] = x
        BY <3>1, <3>3, <4>1, HungFacts
      <4>3. /\ q \in Nodes(T) /\ Lev(T, y) + 1 = Lev(T, q)
            /\ \E j \in 1 .. Len(Kids(T, q)) : Kids(T, q)[j] = y
        BY <3>3, <4>1, HungFacts
      <4>4. PICK i \in 1 .. Len(Kids(T, p)) : x = Kids(T, p)[i]
        BY <4>2
      <4>5. PICK j \in 1 .. Len(Kids(T, q)) : y = Kids(T, q)[j]
        BY <4>3
      <4>6. k \in Span(T, p) /\ Slot(T, p, i, k) /\ i \in Nat /\ 1 <= i /\ i <= Len(Keys(T, p)) + 1
        BY <2>1, <4>2, <4>4, KidFacts
      <4>7. k \in Span(T, q) /\ Slot(T, q, j, k) /\ j \in Nat /\ 1 <= j /\ j <= Len(Keys(T, q)) + 1
        BY <2>1, <4>3, <4>5, KidFacts
      <4>8. p \in G
        <5>1. Lev(T, p) \in Nat
          BY <4>2, NodeFacts
        <5>2. size[p] < size[x]
          BY <1>2, <3>1, <4>2, <5>1
        <5>. QED  BY <1>2, <1>4, <4>2, <5>2
      <4>9. p = q
        BY <1>1, <2>1, <4>2, <4>3, <4>6, <4>7, <4>8
      <4>10. i = j
        BY <4>2, <4>6, <4>7, <4>9, SlotsApart
      <4>. QED  BY <4>4, <4>5, <4>9, <4>10
    <3>. QED  BY <3>2, <3>3
  <2>. QED  BY <1>1, <1>2, <2>1
<1>5. D \subseteq G
  BY <1>3, <1>4, Descent
<1>. QED  BY <1>1, <1>2, <1>5

\* What is in the span of a child is in that of its parent.
LEMMA SpanUp ==
  ASSUME NEW T, Tree(T), NEW c \in Nodes(T), c # Top(T)
  PROVE  \E p \in Nodes(T) : \E j \in 1 .. Len(Kids(T, p)) :
           /\ c = Kids(T, p)[j] /\ p = Up(T, c) /\ Lev(T, c) + 1 = Lev(T, p)
           /\ \A k \in Key : k \in Span(T, c) => k \in Span(T, p) /\ Slot(T, p, j, k)
<1>1. PICK p : p = Up(T, c)
  OBVIOUS
<1>2. p \in Nodes(T) /\ Lev(T, c) + 1 = Lev(T, p) /\ \E j \in 1 .. Len(Kids(T, p)) : Kids(T, p)[j] = c
  BY <1>1, HungFacts
<1>3. PICK j \in 1 .. Len(Kids(T, p)) : c = Kids(T, p)[j]
  BY <1>2
<1>4. \A k \in Key : k \in Span(T, c) <=> k \in Span(T, p) /\ Slot(T, p, j, k)
  BY <1>2, <1>3, KidFacts
<1>. QED  BY <1>1, <1>2, <1>3, <1>4

\* Below the node that has it as a key, a key is the least in every span.
LEMMA Lowest ==
  ASSUME NEW T, Tree(T), NEW a \in Nodes(T), NEW i \in 1 .. Len(Keys(T, a)), NEW k, k = Keys(T, a)[i],
         NEW b \in Nodes(T), Lev(T, b) < Lev(T, a), k \in Span(T, b)
  PROVE  \A x \in Key : x \in Span(T, b) => k <= x
<1>0. /\ k \in Key /\ k \in Nat /\ k \in Span(T, a) /\ Lev(T, a) \in Nat /\ Lev(T, a) <= Lev(T, Top(T))
      /\ Lev(T, Top(T)) \in Nat /\ Len(Keys(T, a)) \in Nat
  BY NodeFacts
<1>1. PICK G : G = {y \in Nodes(T) : Lev(T, y) < Lev(T, a) /\ k \in Span(T, y) => \A x \in Key : x \in Span(T, y) => k <= x}
  OBVIOUS
<1>2. PICK D, size : D = Nodes(T) /\ size = [x \in D |-> Lev(T, Top(T)) - Lev(T, x)]
  OBVIOUS
<1>3. ASSUME NEW x \in D PROVE size[x] \in Nat
  <2>1. Lev(T, x) \in Nat /\ Lev(T, x) <= Lev(T, Top(T)) /\ Lev(T, Top(T)) \in Nat
    BY <1>0, <1>2, NodeFacts
  <2>2. size[x] = Lev(T, Top(T)) - Lev(T, x)
    BY <1>2
  <2>. QED  BY ONLY <2>1, <2>2
<1>4. ASSUME NEW y \in D, \A z \in D : size[z] < size[y] => z \in G PROVE y \in G
  <2>1. ASSUME Lev(T, y) < Lev(T, a), k \in Span(T, y), NEW x \in Key, x \in Span(T, y) PROVE k <= x
    <3>1. y \in Nodes(T) /\ y # Top(T) /\ Lev(T, y) \in Nat
      BY <1>0, <1>2, <2>1, NodeFacts
    <3>0. PICK p \in Nodes(T) : \E j \in 1 .. Len(Kids(T, p)) :
            /\ y = Kids(T, p)[j] /\ p = Up(T, y) /\ Lev(T, y) + 1 = Lev(T, p)
            /\ \A z \in Key : z \in Span(T, y) => z \in Span(T, p) /\ Slot(T, p, j, z)
      BY <3>1, SpanUp
    <3>2. PICK j \in 1 .. Len(Kids(T, p)) :
            /\ y = Kids(T, p)[j] /\ p = Up(T, y) /\ Lev(T, y) + 1 = Lev(T, p)
            /\ \A z \in Key : z \in Span(T, y) => z \in Span(T, p) /\ Slot(T, p, j, z)
      BY <3>0
    <3>3. Lev(T, p) \in Nat /\ Lev(T, p) <= Lev(T, Top(T)) /\ k \in Span(T, p) /\ x \in Span(T, p) /\ Slot(T, p, j, k) /\ Slot(T, p, j, x)
      BY <1>0, <2>1, <3>2, NodeFacts
    <3>4. CASE Lev(T, p) = Lev(T, a)
      <4>1. p = a
        BY <1>0, <3>3, <3>4, Apart
      <4>2. j \in Nat /\ 1 <= j /\ j <= Len(Keys(T, a)) + 1
        BY <3>2, <4>1, KidFacts
      <4>3. Slot(T, a, i + 1, k)
        <5>1. (i + 1) - 1 = i /\ Keys(T, a)[i] <= k
          BY <1>0
        <5>2. i + 1 <= Len(Keys(T, a)) => Keys(T, a)[i] < Keys(T, a)[i + 1]
          <6>1. \A u, v \in 1 .. Len(Keys(T, a)) : u < v => Keys(T, a)[u] < Keys(T, a)[v]
            BY NodeFacts
          <6>2. PICK w : w = i + 1
            OBVIOUS
          <6>3. w <= Len(Keys(T, a)) => w \in 1 .. Len(Keys(T, a)) /\ i < w
            BY <1>0, <6>2
          <6>. QED  BY <6>1, <6>2, <6>3
        <5>. QED  BY <5>1, <5>2 DEF Slot, Gap
      <4>4. i + 1 \in Nat /\ 1 <= i + 1 /\ i + 1 <= Len(Keys(T, a)) + 1
        BY <1>0
      <4>5. j = i + 1
        BY <1>0, <3>3, <4>1, <4>2, <4>3, <4>4, SlotsApart
      <4>6. Keys(T, a)[j - 1] <= x /\ j - 1 = i
        BY <1>0, <3>3, <4>1, <4>5 DEF Slot, Gap
      <4>. QED  BY <4>6
    <3>5. CASE Lev(T, p) # Lev(T, a)
      <4>1. Lev(T, p) < Lev(T, a) /\ Lev(T, p) <= Lev(T, Top(T))
        <5>1. Lev(T, y) < Lev(T, a) /\ Lev(T, y) + 1 = Lev(T, p)
          BY <2>1, <3>2
        <5>. QED  BY <1>0, <3>1, <3>3, <3>5, <5>1
      <4>2. size[p] < size[y]
        <5>1. Lev(T, y) + 1 = Lev(T, p)
          BY <3>2
        <5>2. size[p] = Lev(T, Top(T)) - Lev(T, p) /\ size[y] = Lev(T, Top(T)) - Lev(T, y)
          BY <1>2, <3>1
        <5>. QED  BY <1>0, <3>1, <3>3, <5>1, <5>2
      <4>3. p \in G
        BY <1>2, <1>4, <4>2
      <4>. QED  BY <1>1, <3>3, <4>1, <4>3
    <3>. QED  BY <3>4, <3>5
  <2>. QED  BY <1>1, <1>2, <2>1
<1>5. D \subseteq G
  BY <1>3, <1>4, Descent
<1>. QED  BY <1>1, <1>2, <1>5

\* There is something in the span of a nonleaf node below its first key.
LEMMA BelowFirst ==
  ASSUME NEW T, Tree(T), NEW a \in Nodes(T), Lev(T, a) # 0, Len(Keys(T, a)) >= 1
  PROVE  \E x \in Key : x \in Span(T, a) /\ x < Keys(T, a)[1] /\ x \in Span(T, Kids(T, a)[1])
<1>1. Len(Keys(T, a)) \in Nat /\ 1 \in 1 .. Len(Kids(T, a)) /\ 1 <= Len(Keys(T, a))
  BY NodeFacts
<1>2. PICK c : c = Kids(T, a)[1]
  OBVIOUS
<1>3. c \in Nodes(T) /\ c # Top(T) /\ \A k \in Key : k \in Span(T, c) <=> k \in Span(T, a) /\ Slot(T, a, 1, k)
  BY <1>1, <1>2, KidFacts
<1>4. PICK x \in Key : x \in Span(T, c)
  BY <1>3, HungFacts
<1>5. x \in Span(T, a) /\ Slot(T, a, 1, x)
  BY <1>3, <1>4
<1>. QED  BY <1>1, <1>2, <1>4, <1>5 DEF Slot, Gap

\* No key is in two nonleaf nodes.
THEOREM Distinct ==
  ASSUME NEW T, Tree(T), NEW a \in Nodes(T), NEW b \in Nodes(T), Lev(T, a) # 0, Lev(T, b) # 0,
         NEW i \in 1 .. Len(Keys(T, a)), NEW j \in 1 .. Len(Keys(T, b)), Keys(T, a)[i] = Keys(T, b)[j]
  PROVE  a = b
<1>1. ASSUME NEW p \in Nodes(T), NEW q \in Nodes(T), Lev(T, p) # 0, Lev(T, q) < Lev(T, p), Lev(T, q) # 0,
             NEW x \in 1 .. Len(Keys(T, p)), NEW y \in 1 .. Len(Keys(T, q)), Keys(T, p)[x] = Keys(T, q)[y]
      PROVE  FALSE
  <2>1. PICK k : k = Keys(T, p)[x]
    OBVIOUS
  <2>2. /\ k \in Span(T, q) /\ k = Keys(T, q)[y] /\ Len(Keys(T, q)) \in Nat /\ k \in Nat
        /\ \A z \in 1 .. Len(Keys(T, q)) : Keys(T, q)[z] \in Nat
        /\ \A z, w \in 1 .. Len(Keys(T, q)) : z < w => Keys(T, q)[z] < Keys(T, q)[w]
    BY <1>1, <2>1, NodeFacts
  <2>3. Len(Keys(T, q)) >= 1 /\ 1 \in 1 .. Len(Keys(T, q)) /\ 1 <= y
    BY <2>2
  <2>4. PICK z \in Key : z \in Span(T, q) /\ z < Keys(T, q)[1]
    BY <1>1, <2>3, BelowFirst
  <2>5. k <= z
    BY <1>1, <2>1, <2>2, <2>4, Lowest
  <2>6. Keys(T, q)[1] <= k /\ Keys(T, q)[1] \in Nat
    <3>1. CASE y = 1
      BY <2>2, <2>3, <3>1
    <3>2. CASE y # 1
      <4>1. 1 < y
        BY <2>3, <3>2
      <4>. QED  BY <2>2, <2>3, <4>1
    <3>. QED  BY <3>1, <3>2
  <2>7. z \in Nat
    BY KeysAreNumbers
  <2>. QED  BY <2>2, <2>4, <2>5, <2>6, <2>7
<1>2. Lev(T, a) \in Nat /\ Lev(T, b) \in Nat
  BY NodeFacts
<1>3. ~ (Lev(T, b) < Lev(T, a)) /\ ~ (Lev(T, a) < Lev(T, b))
  BY <1>1
<1>4. Lev(T, a) = Lev(T, b)
  BY <1>2, <1>3
<1>5. PICK k \in Key : k = Keys(T, a)[i] /\ k \in Span(T, a) /\ k \in Span(T, b)
  BY NodeFacts
<1>. QED  BY <1>4, <1>5, Apart

-----------------------------------------------------------------------------
(* Sorted sequences.                                                        *)

\* Sorting of arrays, as the loops of b_tree.c leave them.
LEMMA SortedIs ==
  ASSUME NEW ks \in Seq(Nat)
  PROVE  Sorted(ks) <=> \A i, j \in 1 .. Len(ks) : i < j => ks[i] < ks[j]
<1>1. DOMAIN ks = 1 .. Len(ks)
  OBVIOUS
<1>. QED  BY <1>1 DEF Sorted

\* It is enough to compare neighbours of the place that changed.
LEMMA SortedInsert ==
  ASSUME NEW ks \in Seq(Nat), Sorted(ks), NEW e \in Nat, NEW j \in 1 .. Len(ks) + 1,
         j > 1 => ks[j - 1] < e, j <= Len(ks) => e < ks[j]
  PROVE  Sorted(InsertAt(ks, j, e))
<1>1. PICK w : w = InsertAt(ks, j, e)
  OBVIOUS
<1>2. /\ w \in Seq(Nat) /\ Len(w) = Len(ks) + 1
      /\ \A i \in 1 .. j - 1 : w[i] = ks[i]
      /\ w[j] = e
      /\ \A i \in j + 1 .. Len(ks) + 1 : w[i] = ks[i - 1]
  <2>1. /\ InsertAt(ks, j, e) \in Seq(Nat) /\ Len(InsertAt(ks, j, e)) = Len(ks) + 1
        /\ \A i \in 1 .. j - 1 : InsertAt(ks, j, e)[i] = ks[i]
        /\ InsertAt(ks, j, e)[j] = e
        /\ \A i \in j + 1 .. Len(ks) + 1 : InsertAt(ks, j, e)[i] = ks[i - 1]
    <3>1. PICK N : N = Nat
      OBVIOUS
    <3>2. ks \in Seq(N) /\ e \in N /\ j \in 1 .. Len(ks) + 1
      BY <3>1
    <3>3. /\ InsertAt(ks, j, e) \in Seq(N) /\ Len(InsertAt(ks, j, e)) = Len(ks) + 1
          /\ \A i \in 1 .. j - 1 : InsertAt(ks, j, e)[i] = ks[i]
          /\ InsertAt(ks, j, e)[j] = e
          /\ \A i \in j + 1 .. Len(ks) + 1 : InsertAt(ks, j, e)[i] = ks[i - 1]
      BY <3>2, InsertAtIs
    <3>. QED  BY <3>1, <3>3
  <2>. QED  BY <1>1, <2>1
<1>3. /\ Len(ks) \in Nat /\ j \in Nat /\ 1 <= j /\ j <= Len(ks) + 1
      /\ \A i \in 1 .. Len(ks) : ks[i] \in Nat
      /\ \A x, y \in 1 .. Len(ks) : x < y => ks[x] < ks[y]
  BY SortedIs
<1>4. ASSUME NEW x \in 1 .. j - 1 PROVE w[x] = ks[x] /\ ks[x] < e /\ ks[x] \in Nat /\ x \in 1 .. Len(ks)
  <2>1. x \in 1 .. Len(ks) /\ w[x] = ks[x] /\ j - 1 \in 1 .. Len(ks) /\ ks[j - 1] < e
    <3>1. x \in 1 .. Len(ks) /\ j - 1 \in 1 .. Len(ks) /\ j > 1
      BY <1>3
    <3>. QED  BY <1>2, <3>1
  <2>2. ks[x] \in Nat /\ ks[j - 1] \in Nat
    BY <1>3, <2>1
  <2>3. CASE x = j - 1
    BY <2>1, <2>2, <2>3
  <2>4. CASE x < j - 1
    <3>1. PICK y \in 1 .. Len(ks) : y = j - 1
      BY <2>1
    <3>2. ks[x] < ks[y] /\ ks[y] < e /\ ks[y] \in Nat
      BY <1>3, <2>1, <2>2, <2>4, <3>1
    <3>. QED  BY <2>1, <2>2, <3>2
  <2>. QED  BY <1>3, <2>3, <2>4
<1>5. ASSUME NEW y \in j + 1 .. Len(ks) + 1
      PROVE  \E z \in 1 .. Len(ks) : z = y - 1 /\ w[y] = ks[z] /\ e < ks[z] /\ ks[z] \in Nat /\ z >= j
  <2>1. PICK z \in 1 .. Len(ks) : z = y - 1 /\ z >= j
    <3>1. y - 1 \in 1 .. Len(ks) /\ y - 1 >= j
      BY <1>3
    <3>. QED  BY <3>1
  <2>2. w[y] = ks[z] /\ j \in 1 .. Len(ks) /\ e < ks[j] /\ ks[j] \in Nat /\ ks[z] \in Nat
    BY <1>2, <1>3, <2>1
  <2>3. CASE z = j
    BY <2>1, <2>2, <2>3
  <2>4. CASE z > j
    <3>1. ks[j] < ks[z]
      BY <1>3, <2>1, <2>2, <2>4
    <3>. QED  BY <2>1, <2>2, <3>1
  <2>. QED  BY <1>3, <2>1, <2>3, <2>4
<1>6. ASSUME NEW x \in 1 .. Len(w), NEW y \in 1 .. Len(w), x < y PROVE w[x] < w[y]
  <2>1. x \in Nat /\ y \in Nat /\ 1 <= x /\ y <= Len(ks) + 1
    BY <1>2, <1>3
  <2>2. CASE y <= j - 1
    <3>1. x \in 1 .. j - 1 /\ y \in 1 .. j - 1
      BY <1>3, <1>6, <2>1, <2>2
    <3>2. w[x] = ks[x] /\ w[y] = ks[y] /\ x \in 1 .. Len(ks) /\ y \in 1 .. Len(ks)
      BY <1>4, <3>1
    <3>. QED  BY <1>3, <1>6, <3>2
  <2>3. CASE y = j
    <3>1. x \in 1 .. j - 1
      BY <1>3, <1>6, <2>1, <2>3
    <3>2. w[x] < e
      BY <1>4, <3>1
    <3>. QED  BY <1>2, <2>3, <3>2
  <2>4. CASE y > j
    <3>1. y \in j + 1 .. Len(ks) + 1
      BY <1>3, <2>1, <2>4
    <3>2. PICK z \in 1 .. Len(ks) : z = y - 1 /\ w[y] = ks[z] /\ e < ks[z] /\ ks[z] \in Nat /\ z >= j
      BY <1>5, <3>1
    <3>3. CASE x = j
      BY <1>2, <3>2, <3>3
    <3>4. CASE x < j
      <4>1. x \in 1 .. j - 1
        BY <1>3, <2>1, <3>4
      <4>2. w[x] < e /\ w[x] \in Nat
        BY <1>4, <4>1
      <4>. QED  BY <3>2, <4>2
    <3>5. CASE x > j
      <4>1. x \in j + 1 .. Len(ks) + 1
        BY <1>3, <1>6, <2>1, <3>5
      <4>2. PICK u \in 1 .. Len(ks) : u = x - 1 /\ w[x] = ks[u]
        BY <1>5, <4>1
      <4>3. u < z
        BY <1>6, <2>1, <3>2, <4>2
      <4>4. ks[u] < ks[z]
        BY <1>3, <4>3
      <4>. QED  BY <3>2, <4>2, <4>4
    <3>. QED  BY <1>3, <2>1, <3>3, <3>4, <3>5
  <2>. QED  BY <1>3, <2>1, <2>2, <2>3, <2>4
<1>. QED  BY <1>1, <1>2, <1>6, SortedIs

\* Removing a key keeps an array sorted.
LEMMA SortedRemove ==
  ASSUME NEW ks \in Seq(Nat), Sorted(ks), NEW j \in 1 .. Len(ks)
  PROVE  Sorted(RemoveAt(ks, j))
<1>1. PICK w : w = RemoveAt(ks, j)
  OBVIOUS
<1>2. /\ w \in Seq(Nat) /\ Len(w) = Len(ks) - 1
      /\ \A i \in 1 .. j - 1 : w[i] = ks[i]
      /\ \A i \in j .. Len(ks) - 1 : w[i] = ks[i + 1]
  BY <1>1, RemoveAtIs
<1>3. /\ Len(ks) \in Nat /\ j \in Nat /\ 1 <= j /\ j <= Len(ks)
      /\ \A x, y \in 1 .. Len(ks) : x < y => ks[x] < ks[y]
  BY SortedIs
<1>4. ASSUME NEW i \in 1 .. Len(w)
      PROVE  \E x \in 1 .. Len(ks) : x = (IF i < j THEN i ELSE i + 1) /\ w[i] = ks[x]
  <2>1. CASE i < j
    <3>1. i \in 1 .. j - 1 /\ i \in 1 .. Len(ks)
      BY <1>2, <1>3, <2>1
    <3>. QED  BY <1>2, <2>1, <3>1
  <2>2. CASE ~ (i < j)
    <3>1. i \in j .. Len(ks) - 1 /\ i + 1 \in 1 .. Len(ks)
      BY <1>2, <1>3, <2>2
    <3>. QED  BY <1>2, <2>2, <3>1
  <2>. QED  BY <2>1, <2>2
<1>5. ASSUME NEW i \in 1 .. Len(w), NEW k \in 1 .. Len(w), i < k PROVE w[i] < w[k]
  <2>1. PICK x \in 1 .. Len(ks) : x = (IF i < j THEN i ELSE i + 1) /\ w[i] = ks[x]
    BY <1>4
  <2>2. PICK y \in 1 .. Len(ks) : y = (IF k < j THEN k ELSE k + 1) /\ w[k] = ks[y]
    BY <1>4
  <2>3. i \in Nat /\ k \in Nat
    BY <1>2, <1>3
  <2>4. x < y
    <3>1. CASE k < j
      BY <1>3, <1>5, <2>1, <2>2, <2>3, <3>1
    <3>2. CASE ~ (k < j) /\ i < j
      BY <1>3, <1>5, <2>1, <2>2, <2>3, <3>2
    <3>3. CASE ~ (k < j) /\ ~ (i < j)
      BY <1>3, <1>5, <2>1, <2>2, <2>3, <3>3
    <3>. QED  BY <3>1, <3>2, <3>3
  <2>. QED  BY <1>3, <2>1, <2>2, <2>4
<1>. QED  BY <1>1, <1>2, <1>5, SortedIs

-----------------------------------------------------------------------------
(* The rows of one node.                                                    *)

KeysOf(rows) == [i \in 1 .. Len(rows) |-> rows[i][1]]

\* Rows in the order of their keys.
Ascending(rows) == \A i, j \in DOMAIN rows : i < j => rows[i][1] < rows[j][1]

\* The keys of the rows of a node.
LEMMA KeysOfIs ==
  ASSUME NEW rows \in Seq(Row)
  PROVE  /\ KeysOf(rows) \in Seq(Nat) /\ Len(KeysOf(rows)) = Len(rows) /\ Len(rows) \in Nat
         /\ \A i \in 1 .. Len(rows) : /\ rows[i] \in Row /\ KeysOf(rows)[i] = rows[i][1]
                                      /\ rows[i][1] \in Key /\ rows[i][1] \in Nat
         /\ Ascending(rows) <=> Sorted(KeysOf(rows))
<1>1. /\ Len(rows) \in Nat /\ DOMAIN rows = 1 .. Len(rows)
      /\ \A i \in 1 .. Len(rows) : rows[i] \in Row
  OBVIOUS
<1>2. \A i \in 1 .. Len(rows) : rows[i][1] \in Key /\ rows[i][1] \in Nat
  BY <1>1, SetsAssumption DEF Row
<1>3. PICK ks, n : ks = KeysOf(rows) /\ n = Len(rows)
  OBVIOUS
<1>4. ks = [i \in 1 .. n |-> rows[i][1]]
  BY <1>3 DEF KeysOf
<1>5. ks \in [1 .. n -> Nat] /\ n \in Nat
  BY <1>1, <1>2, <1>3, <1>4
<1>6. ks \in Seq(Nat) /\ Len(ks) = n /\ DOMAIN ks = 1 .. n
  BY <1>5
<1>7. \A i \in 1 .. n : ks[i] = rows[i][1]
  BY <1>4
<1>8. Ascending(rows) <=> Sorted(ks)
  BY <1>1, <1>3, <1>6, <1>7 DEF Ascending, Sorted
<1>. QED  BY <1>1, <1>2, <1>3, <1>6, <1>7, <1>8

\* lower_bound_rr (b_tree.c:758-789): in a node in order the bisection returns the
\* number of rows below k, for every number of rows, and reads no other place.
THEOREM Bisection ==
  ASSUME NEW rows \in Seq(Row), Ascending(rows), NEW k \in Key
  PROVE  /\ LowerBound(rows, k) \in 0 .. Len(rows)
         /\ \A i \in 1 .. Len(rows) : rows[i][1] < k <=> i <= LowerBound(rows, k)
<1>1. PICK ks : ks = KeysOf(rows)
  OBVIOUS
<1>2. /\ ks \in Seq(Nat) /\ Len(ks) = Len(rows) /\ Sorted(ks)
      /\ \A i \in 1 .. Len(rows) : ks[i] = rows[i][1]
  BY <1>1, KeysOfIs
<1>3. k \in Nat
  BY SetsAssumption
<1>4. Behind(ks, k, LowerBound(rows, k))
  BY <1>2, <1>3, LowerBoundIs
<1>. QED  BY <1>2, <1>4 DEF Behind

\* A node in order has a row with key k exactly when the row at that place has.
THEOREM Membership ==
  ASSUME NEW rows \in Seq(Row), Ascending(rows), NEW k \in Key
  PROVE  HasKey(rows, k) <=> \E i \in 1 .. Len(rows) : rows[i][1] = k
<1>1. PICK b : b = LowerBound(rows, k)
  OBVIOUS
<1>2. b \in 0 .. Len(rows) /\ \A i \in 1 .. Len(rows) : rows[i][1] < k <=> i <= b
  BY <1>1, Bisection
<1>3. /\ Len(rows) \in Nat /\ DOMAIN rows = 1 .. Len(rows) /\ k \in Nat
      /\ \A i \in 1 .. Len(rows) : rows[i][1] \in Nat
  BY KeysOfIs, SetsAssumption
<1>4. HasKey(rows, k) <=> b < Len(rows) /\ rows[b + 1][1] = k
  BY <1>1 DEF HasKey
<1>5. ASSUME NEW i \in 1 .. Len(rows), rows[i][1] = k PROVE b < Len(rows) /\ rows[b + 1][1] = k
  <2>1. ~ (i <= b)
    BY <1>2, <1>3, <1>5
  <2>2. b < Len(rows) /\ b + 1 \in 1 .. Len(rows) /\ b + 1 <= i /\ ~ (b + 1 <= b)
    BY <1>2, <1>3, <2>1
  <2>3. PICK c \in 1 .. Len(rows) : c = b + 1
    BY <2>2
  <2>4. ~ (rows[c][1] < k) /\ rows[c][1] \in Nat
    BY <1>2, <1>3, <2>2, <2>3
  <2>5. c = i \/ rows[c][1] < rows[i][1]
    BY <1>3, <2>2, <2>3 DEF Ascending
  <2>6. rows[c][1] = k
    BY <1>3, <1>5, <2>4, <2>5
  <2>. QED  BY <2>2, <2>3, <2>6
<1>6. ASSUME b < Len(rows), rows[b + 1][1] = k PROVE \E i \in 1 .. Len(rows) : rows[i][1] = k
  <2>1. b + 1 \in 1 .. Len(rows)
    BY <1>2, <1>3, <1>6
  <2>. QED  BY <1>6, <2>1
<1>. QED  BY <1>4, <1>5, <1>6

\* b_tree_search (75-99) goes down behind the rows that are k or below it, and before
\* the others.
THEOREM Descends ==
  ASSUME NEW rows \in Seq(Row), Ascending(rows), NEW k \in Key, NEW c, c = ChildFor(rows, k)
  PROVE  /\ c \in 1 .. Len(rows) + 1
         /\ \A i \in 1 .. Len(rows) : rows[i][1] <= k <=> i < c
<1>1. PICK b : b = LowerBound(rows, k)
  OBVIOUS
<1>2. b \in 0 .. Len(rows) /\ \A i \in 1 .. Len(rows) : rows[i][1] < k <=> i <= b
  BY <1>1, Bisection
<1>3. /\ Len(rows) \in Nat /\ DOMAIN rows = 1 .. Len(rows) /\ k \in Nat
      /\ \A i \in 1 .. Len(rows) : rows[i][1] \in Nat
  BY KeysOfIs, SetsAssumption
<1>4. HasKey(rows, k) <=> b < Len(rows) /\ rows[b + 1][1] = k
  BY <1>1 DEF HasKey
<1>5. CASE HasKey(rows, k)
  <2>1. c = b + 2 /\ b + 1 \in 1 .. Len(rows) /\ rows[b + 1][1] = k
    BY <1>1, <1>2, <1>3, <1>4, <1>5 DEF ChildFor
  <2>2. PICK d \in 1 .. Len(rows) : d = b + 1 /\ rows[d][1] = k
    BY <2>1
  <2>3. ASSUME NEW i \in 1 .. Len(rows) PROVE rows[i][1] <= k <=> i < c
    <3>1. CASE i <= b
      BY <1>2, <1>3, <2>1, <3>1
    <3>2. CASE i = d
      BY <1>2, <1>3, <2>1, <2>2, <3>2
    <3>3. CASE i > d
      <4>1. rows[d][1] < rows[i][1]
        BY <1>3, <3>3 DEF Ascending
      <4>. QED  BY <1>2, <1>3, <2>1, <2>2, <3>3, <4>1
    <3>. QED  BY <1>2, <1>3, <2>2, <3>1, <3>2, <3>3
  <2>. QED  BY <1>2, <1>3, <2>1, <2>3
<1>6. CASE ~ HasKey(rows, k)
  <2>1. c = b + 1
    BY <1>1, <1>6 DEF ChildFor
  <2>2. ASSUME NEW i \in 1 .. Len(rows) PROVE rows[i][1] # k
    BY <1>6, Membership
  <2>3. ASSUME NEW i \in 1 .. Len(rows) PROVE rows[i][1] <= k <=> i < c
    <3>1. rows[i][1] <= k <=> rows[i][1] < k
      BY <1>3, <2>2
    <3>. QED  BY <1>2, <1>3, <2>1, <3>1
  <2>. QED  BY <1>2, <1>3, <2>1, <2>3
<1>. QED  BY <1>5, <1>6

\* Inserting a row at the place the bisection gives (138-230): the rows stay in order, and the
\* new one is all that was added.
THEOREM Insertion ==
  ASSUME NEW rows \in Seq(Row), Ascending(rows), NEW row \in Row,
         \A i \in 1 .. Len(rows) : rows[i][1] # row[1]
  PROVE  /\ WithRow(rows, row) \in Seq(Row) /\ Len(WithRow(rows, row)) = Len(rows) + 1
         /\ Ascending(WithRow(rows, row))
         /\ Range(WithRow(rows, row)) = Range(rows) \cup {row}
<1>0. PICK k \in Key : k = row[1]
  BY DEF Row
<1>1. PICK b : b = LowerBound(rows, k)
  OBVIOUS
<1>2. b \in 0 .. Len(rows) /\ \A i \in 1 .. Len(rows) : rows[i][1] < k <=> i <= b
  BY <1>1, Bisection
<1>3. /\ Len(rows) \in Nat /\ DOMAIN rows = 1 .. Len(rows) /\ k \in Nat
      /\ \A i \in 1 .. Len(rows) : rows[i][1] \in Nat
  BY KeysOfIs, SetsAssumption
<1>4. PICK w, j : w = WithRow(rows, row) /\ j = b + 1
  OBVIOUS
<1>5. j \in 1 .. Len(rows) + 1 /\ w = InsertAt(rows, j, row)
  BY <1>0, <1>1, <1>2, <1>3, <1>4 DEF WithRow
<1>6. /\ w \in Seq(Row) /\ Len(w) = Len(rows) + 1
      /\ \A i \in 1 .. j - 1 : w[i] = rows[i]
      /\ w[j] = row
      /\ \A i \in j + 1 .. Len(rows) + 1 : w[i] = rows[i - 1]
  <2>1. /\ InsertAt(rows, j, row) \in Seq(Row) /\ Len(InsertAt(rows, j, row)) = Len(rows) + 1
        /\ \A i \in 1 .. j - 1 : InsertAt(rows, j, row)[i] = rows[i]
        /\ InsertAt(rows, j, row)[j] = row
        /\ \A i \in j + 1 .. Len(rows) + 1 : InsertAt(rows, j, row)[i] = rows[i - 1]
    <3>1. j \in 1 .. Len(rows) + 1
      BY <1>5
    <3>. QED  BY ONLY <3>1, rows \in Seq(Row), row \in Row, InsertAtIs
  <2>. QED  BY <1>5, <2>1
<1>7. DOMAIN w = 1 .. Len(rows) + 1 /\ j \in Nat /\ 1 <= j /\ j <= Len(rows) + 1
  BY <1>3, <1>5, <1>6
<1>8. ASSUME NEW i \in 1 .. j - 1 PROVE i \in 1 .. Len(rows) /\ w[i] = rows[i] /\ rows[i][1] < k
  BY <1>2, <1>3, <1>4, <1>6, <1>7
<1>9. ASSUME NEW i \in j + 1 .. Len(rows) + 1
      PROVE  \E x \in 1 .. Len(rows) : x = i - 1 /\ w[i] = rows[x] /\ k < rows[x][1]
  <2>1. PICK x \in 1 .. Len(rows) : x = i - 1 /\ ~ (x <= b)
    <3>1. i - 1 \in 1 .. Len(rows) /\ ~ (i - 1 <= b)
      BY <1>2, <1>3, <1>4, <1>7
    <3>. QED  BY <3>1
  <2>2. ~ (rows[x][1] < k) /\ rows[x][1] # k /\ rows[x][1] \in Nat
    BY <1>0, <1>2, <1>3, <2>1
  <2>. QED  BY <1>3, <1>6, <2>1, <2>2
<1>10. ASSUME NEW x \in DOMAIN w, NEW y \in DOMAIN w, x < y PROVE w[x][1] < w[y][1]
  <2>1. x \in Nat /\ y \in Nat /\ 1 <= x /\ y <= Len(rows) + 1
    BY <1>3, <1>7
  <2>2. CASE y < j
    <3>1. x \in 1 .. j - 1 /\ y \in 1 .. j - 1
      BY <1>7, <1>10, <2>1, <2>2
    <3>2. w[x] = rows[x] /\ w[y] = rows[y] /\ x \in DOMAIN rows /\ y \in DOMAIN rows
      BY <1>3, <1>8, <3>1
    <3>. QED  BY <1>10, <3>2 DEF Ascending
  <2>3. CASE y = j
    <3>1. x \in 1 .. j - 1
      BY <1>7, <1>10, <2>1, <2>3
    <3>. QED  BY <1>0, <1>6, <1>8, <2>3, <3>1
  <2>4. CASE y > j
    <3>1. y \in j + 1 .. Len(rows) + 1
      BY <1>7, <2>1, <2>4
    <3>2. PICK v \in 1 .. Len(rows) : v = y - 1 /\ w[y] = rows[v] /\ k < rows[v][1]
      BY <1>9, <3>1
    <3>3. CASE x = j
      BY <1>0, <1>6, <3>2, <3>3
    <3>4. CASE x < j
      <4>1. x \in 1 .. j - 1
        BY <1>7, <2>1, <3>4
      <4>2. w[x][1] < k /\ w[x][1] \in Nat
        BY <1>3, <1>8, <4>1
      <4>. QED  BY <1>3, <3>2, <4>2
    <3>5. CASE x > j
      <4>1. x \in j + 1 .. Len(rows) + 1
        BY <1>7, <1>10, <2>1, <3>5
      <4>2. PICK u \in 1 .. Len(rows) : u = x - 1 /\ w[x] = rows[u]
        BY <1>9, <4>1
      <4>3. u < v
        BY <1>10, <2>1, <3>2, <4>2
      <4>. QED  BY <1>3, <3>2, <4>2, <4>3 DEF Ascending
    <3>. QED  BY <1>7, <2>1, <3>3, <3>4, <3>5
  <2>. QED  BY <1>7, <2>1, <2>2, <2>3, <2>4
<1>11. Range(w) = Range(rows) \cup {row}
  <2>1. ASSUME NEW x \in DOMAIN w PROVE w[x] = row \/ \E y \in DOMAIN rows : w[x] = rows[y]
    <3>1. x \in 1 .. j - 1 \/ x = j \/ x \in j + 1 .. Len(rows) + 1
      BY <1>7
    <3>. QED  BY <1>3, <1>6, <1>8, <1>9, <3>1
  <2>2. ASSUME NEW y \in DOMAIN rows PROVE \E x \in DOMAIN w : w[x] = rows[y]
    <3>1. CASE y < j
      <4>1. y \in 1 .. j - 1 /\ y \in DOMAIN w
        BY <1>3, <1>7, <3>1
      <4>. QED  BY <1>6, <4>1
    <3>2. CASE ~ (y < j)
      <4>1. PICK x \in DOMAIN w : x = y + 1 /\ x \in j + 1 .. Len(rows) + 1
        <5>1. y + 1 \in DOMAIN w /\ y + 1 \in j + 1 .. Len(rows) + 1
          BY <1>3, <1>7, <3>2
        <5>. QED  BY <5>1
      <4>2. PICK v \in 1 .. Len(rows) : v = x - 1 /\ w[x] = rows[v]
        BY <1>9, <4>1
      <4>3. v = y
        BY <1>3, <4>1, <4>2
      <4>. QED  BY <4>2, <4>3
    <3>. QED  BY <3>1, <3>2
  <2>3. j \in DOMAIN w /\ w[j] = row
    BY <1>6, <1>7
  <2>. QED  BY <2>1, <2>2, <2>3 DEF Range
<1>. QED  BY <1>4, <1>6, <1>10, <1>11 DEF Ascending

\* Shifting the rows left over the one that is deleted (421-423): they stay in order, and
\* exactly that one is gone.
THEOREM Removal ==
  ASSUME NEW rows \in Seq(Row), Ascending(rows), NEW k \in Key, HasKey(rows, k),
         NEW w, w = RemoveAt(rows, LowerBound(rows, k) + 1)
  PROVE  /\ w \in Seq(Row) /\ Len(w) = Len(rows) - 1 /\ Ascending(w)
         /\ Range(w) = {row \in Range(rows) : row[1] # k}
<1>1. PICK b, j : b = LowerBound(rows, k) /\ j = b + 1
  OBVIOUS
<1>2. b \in 0 .. Len(rows) /\ b < Len(rows) /\ rows[j][1] = k
  BY <1>1, Bisection DEF HasKey
<1>3. /\ Len(rows) \in Nat /\ DOMAIN rows = 1 .. Len(rows) /\ k \in Nat
      /\ \A i \in 1 .. Len(rows) : rows[i][1] \in Nat
  BY KeysOfIs, SetsAssumption
<1>4. j \in 1 .. Len(rows) /\ w = RemoveAt(rows, j)
  BY <1>1, <1>2, <1>3
<1>5. /\ w \in Seq(Row) /\ Len(w) = Len(rows) - 1
      /\ \A i \in 1 .. j - 1 : w[i] = rows[i]
      /\ \A i \in j .. Len(rows) - 1 : w[i] = rows[i + 1]
  <2>1. /\ RemoveAt(rows, j) \in Seq(Row) /\ Len(RemoveAt(rows, j)) = Len(rows) - 1
        /\ \A i \in 1 .. j - 1 : RemoveAt(rows, j)[i] = rows[i]
        /\ \A i \in j .. Len(rows) - 1 : RemoveAt(rows, j)[i] = rows[i + 1]
    <3>1. j \in 1 .. Len(rows)
      BY <1>4
    <3>. QED  BY <3>1, RemoveAtIs, Zenon
  <2>. QED  BY <1>4, <2>1
<1>6. DOMAIN w = 1 .. Len(rows) - 1 /\ j \in Nat /\ 1 <= j /\ j <= Len(rows)
  BY <1>3, <1>4, <1>5
<1>7. ASSUME NEW x \in DOMAIN w
      PROVE  \E y \in 1 .. Len(rows) : w[x] = rows[y] /\ y # j /\ ((x < j /\ y = x) \/ (~ (x < j) /\ y = x + 1))
  <2>1. CASE x < j
    <3>1. x \in 1 .. j - 1 /\ x \in 1 .. Len(rows) /\ x # j
      BY <1>3, <1>6, <2>1
    <3>2. w[x] = rows[x]
      BY <1>5, <3>1
    <3>3. PICK y \in 1 .. Len(rows) : y = x /\ y # j /\ w[x] = rows[y]
      BY <3>1, <3>2
    <3>. QED  BY <2>1, <3>3
  <2>2. CASE ~ (x < j)
    <3>1. x \in j .. Len(rows) - 1 /\ x + 1 \in 1 .. Len(rows) /\ x + 1 # j
      BY <1>3, <1>6, <2>2
    <3>2. w[x] = rows[x + 1]
      BY <1>5, <3>1
    <3>3. PICK y \in 1 .. Len(rows) : y = x + 1 /\ y # j /\ w[x] = rows[y]
      BY <3>1, <3>2
    <3>. QED  BY <2>2, <3>3
  <2>. QED  BY <2>1, <2>2
<1>8. ASSUME NEW y \in 1 .. Len(rows), y # j PROVE \E x \in DOMAIN w : w[x] = rows[y]
  <2>1. CASE y < j
    <3>1. y \in 1 .. j - 1 /\ y \in DOMAIN w
      BY <1>3, <1>6, <2>1
    <3>. QED  BY <1>5, <3>1
  <2>2. CASE ~ (y < j)
    <3>1. PICK x \in j .. Len(rows) - 1 : x + 1 = y /\ x \in DOMAIN w
      <4>1. y - 1 \in j .. Len(rows) - 1 /\ (y - 1) + 1 = y /\ y - 1 \in DOMAIN w
        BY <1>3, <1>6, <1>8, <2>2
      <4>. QED  BY <4>1
    <3>. QED  BY <1>5, <3>1
  <2>. QED  BY <2>1, <2>2
<1>9. ASSUME NEW y \in 1 .. Len(rows) PROVE rows[y][1] = k <=> y = j
  <2>1. y \in DOMAIN rows /\ j \in DOMAIN rows /\ y \in Nat /\ j \in Nat
    BY <1>3, <1>4
  <2>2. y < j => rows[y][1] < rows[j][1]
    BY <2>1 DEF Ascending
  <2>3. j < y => rows[j][1] < rows[y][1]
    BY <2>1 DEF Ascending
  <2>. QED  BY <1>2, <1>3, <2>1, <2>2, <2>3
<1>10. ASSUME NEW x \in DOMAIN w, NEW y \in DOMAIN w, x < y PROVE w[x][1] < w[y][1]
  <2>1. PICK u \in 1 .. Len(rows) : w[x] = rows[u] /\ ((x < j /\ u = x) \/ (~ (x < j) /\ u = x + 1))
    BY <1>7
  <2>2. PICK v \in 1 .. Len(rows) : w[y] = rows[v] /\ ((y < j /\ v = y) \/ (~ (y < j) /\ v = y + 1))
    BY <1>7
  <2>3. x \in Nat /\ y \in Nat
    BY <1>6
  <2>4. u < v
    BY <1>6, <1>10, <2>1, <2>2, <2>3
  <2>. QED  BY <1>3, <2>1, <2>2, <2>4 DEF Ascending
<1>11. Range(w) = {row \in Range(rows) : row[1] # k}
  <2>1. ASSUME NEW x \in DOMAIN w PROVE w[x] \in Range(rows) /\ w[x][1] # k
    <3>1. PICK y \in 1 .. Len(rows) : w[x] = rows[y] /\ y # j
      BY <1>7
    <3>. QED  BY <1>3, <1>9, <3>1 DEF Range
  <2>2. ASSUME NEW y \in DOMAIN rows, rows[y][1] # k PROVE rows[y] \in Range(w)
    <3>1. y \in 1 .. Len(rows) /\ y # j
      BY <1>3, <1>9, <2>2
    <3>2. PICK x \in DOMAIN w : w[x] = rows[y]
      BY <1>8, <3>1
    <3>. QED  BY <3>2 DEF Range
  <2>. QED  BY <2>1, <2>2 DEF Range
<1>. QED  BY <1>5, <1>10, <1>11 DEF Ascending

-----------------------------------------------------------------------------
(* How sequences are related when one of them gains an element, or two of   *)
(* them become one.                                                         *)

\* q is p with e at place j.
Inserted(q, p, j, e) ==
  /\ Len(q) = Len(p) + 1 /\ j \in 1 .. Len(q) /\ q[j] = e
  /\ \A i \in 1 .. j - 1 : q[i] = p[i]
  /\ \A i \in j .. Len(p) : q[i + 1] = p[i]

\* s is l and then r.
Glued(s, l, r) ==
  /\ Len(s) = Len(l) + Len(r)
  /\ \A i \in 1 .. Len(l) : s[i] = l[i]
  /\ \A i \in 1 .. Len(r) : s[Len(l) + i] = r[i]

\* s is l, e and then r.
Spliced(s, l, e, r) ==
  /\ Len(s) = Len(l) + 1 + Len(r) /\ s[Len(l) + 1] = e
  /\ \A i \in 1 .. Len(l) : s[i] = l[i]
  /\ \A i \in 1 .. Len(r) : s[Len(l) + 1 + i] = r[i]

\* Keys in order, and the places between them.
LEMMA SortedAt ==
  ASSUME NEW ks \in Seq(Nat), Sorted(ks), NEW i \in Nat, NEW j \in Nat, 1 <= i, i < j, j <= Len(ks)
  PROVE  ks[i] < ks[j] /\ ks[i] \in Nat /\ ks[j] \in Nat
<1>1. i \in 1 .. Len(ks) /\ j \in 1 .. Len(ks) /\ Len(ks) \in Nat
  OBVIOUS
<1>. QED  BY <1>1, SortedIs

\* Without e, a sorted array stays sorted.
LEMMA InsertedSorted ==
  ASSUME NEW q \in Seq(Nat), NEW p \in Seq(Nat), NEW j, NEW e, Inserted(q, p, j, e), Sorted(q)
  PROVE  Sorted(p)
<1>1. /\ Len(q) \in Nat /\ Len(p) \in Nat /\ Len(q) = Len(p) + 1 /\ j \in Nat /\ 1 <= j /\ j <= Len(p) + 1
      /\ \A i \in 1 .. j - 1 : q[i] = p[i]
      /\ \A i \in j .. Len(p) : q[i + 1] = p[i]
  BY DEF Inserted
<1>2. ASSUME NEW i \in 1 .. Len(p)
      PROVE  \E x \in 1 .. Len(q) : p[i] = q[x] /\ ((i < j /\ x = i) \/ (j <= i /\ x = i + 1))
  <2>1. CASE i < j
    <3>1. i \in 1 .. j - 1 /\ i \in 1 .. Len(q)
      BY <1>1, <2>1
    <3>2. p[i] = q[i]
      BY <1>1, <3>1
    <3>. QED  BY <2>1, <3>1, <3>2
  <2>2. CASE j <= i
    <3>1. i \in j .. Len(p) /\ i + 1 \in 1 .. Len(q)
      BY <1>1, <2>2
    <3>2. p[i] = q[i + 1]
      BY <1>1, <3>1
    <3>3. PICK x \in 1 .. Len(q) : x = i + 1 /\ p[i] = q[x]
      BY <3>1, <3>2
    <3>. QED  BY <2>2, <3>3
  <2>. QED  BY <1>1, <2>1, <2>2
<1>3. ASSUME NEW a \in 1 .. Len(p), NEW b \in 1 .. Len(p), a < b PROVE p[a] < p[b]
  <2>1. PICK x \in 1 .. Len(q) : p[a] = q[x] /\ ((a < j /\ x = a) \/ (j <= a /\ x = a + 1))
    BY <1>2
  <2>2. PICK y \in 1 .. Len(q) : p[b] = q[y] /\ ((b < j /\ y = b) \/ (j <= b /\ y = b + 1))
    BY <1>2
  <2>0. /\ x \in Nat /\ y \in Nat /\ 1 <= x /\ y <= Len(q) /\ a \in Nat /\ b \in Nat
        /\ (a < j /\ x = a) \/ (j <= a /\ x = a + 1)
        /\ (b < j /\ y = b) \/ (j <= b /\ y = b + 1)
    BY <1>1, <2>1, <2>2
  <2>3. x \in Nat /\ y \in Nat /\ 1 <= x /\ x < y /\ y <= Len(q)
    <3>1. j \in Nat /\ a < b
      BY <1>1, <1>3
    <3>. QED  BY ONLY <2>0, <3>1
  <2>4. q[x] < q[y]
    BY <2>3, SortedAt
  <2>. QED  BY <2>1, <2>2, <2>4
<1>. QED  BY <1>3, SortedIs

\* With e where it belongs, a sorted array stays sorted.
LEMMA SortedInserted ==
  ASSUME NEW q \in Seq(Nat), NEW p \in Seq(Nat), NEW j, NEW e \in Nat, Inserted(q, p, j, e), Sorted(p),
         j > 1 => p[j - 1] < e, j <= Len(p) => e < p[j]
  PROVE  Sorted(q)
<1>1. /\ Len(q) \in Nat /\ Len(p) \in Nat /\ Len(q) = Len(p) + 1 /\ j \in Nat /\ 1 <= j /\ j <= Len(p) + 1
      /\ \A i \in 1 .. j - 1 : q[i] = p[i]
      /\ \A i \in j .. Len(p) : q[i + 1] = p[i]
      /\ q[j] = e
  <2>1. Len(q) \in Nat /\ Len(p) \in Nat
    OBVIOUS
  <2>2. Len(q) = Len(p) + 1 /\ j \in 1 .. Len(q)
    BY DEF Inserted
  <2>3. j \in Nat /\ 1 <= j /\ j <= Len(p) + 1
    BY ONLY <2>1, <2>2
  <2>. QED  BY <2>1, <2>2, <2>3 DEF Inserted
<1>2. PICK w : w = InsertAt(p, j, e)
  OBVIOUS
<1>3. j \in 1 .. Len(p) + 1
  BY <1>1
<1>4. Sorted(w)
  BY <1>2, <1>3, SortedInsert
<1>5. /\ w \in Seq(Nat) /\ Len(w) = Len(p) + 1
      /\ \A i \in 1 .. j - 1 : w[i] = p[i]
      /\ w[j] = e
      /\ \A i \in j + 1 .. Len(p) + 1 : w[i] = p[i - 1]
  <2>1. PICK N : N = Nat
    OBVIOUS
  <2>2. p \in Seq(N) /\ e \in N
    BY <2>1
  <2>3. /\ InsertAt(p, j, e) \in Seq(N) /\ Len(InsertAt(p, j, e)) = Len(p) + 1
        /\ \A i \in 1 .. j - 1 : InsertAt(p, j, e)[i] = p[i]
        /\ InsertAt(p, j, e)[j] = e
        /\ \A i \in j + 1 .. Len(p) + 1 : InsertAt(p, j, e)[i] = p[i - 1]
    BY <1>3, <2>2, InsertAtIs
  <2>. QED  BY <1>2, <2>1, <2>3
<1>6. ASSUME NEW i \in 1 .. Len(q) PROVE q[i] = w[i]
  <2>1. CASE i < j
    <3>1. i \in 1 .. j - 1
      BY <1>1, <2>1
    <3>. QED  BY <1>1, <1>5, <3>1
  <2>2. CASE i = j
    BY <1>1, <1>5, <2>2
  <2>3. CASE i > j
    <3>1. PICK x : x = i - 1
      OBVIOUS
    <3>2. x \in j .. Len(p) /\ i \in j + 1 .. Len(p) + 1 /\ x + 1 = i
      BY <1>1, <2>3, <3>1
    <3>3. q[x + 1] = p[x] /\ w[i] = p[i - 1]
      BY <1>1, <1>5, <3>2
    <3>. QED  BY <3>1, <3>2, <3>3
  <2>. QED  BY <1>1, <2>1, <2>2, <2>3
<1>7. ASSUME NEW a \in 1 .. Len(q), NEW b \in 1 .. Len(q), a < b PROVE q[a] < q[b]
  <2>1. a \in Nat /\ b \in Nat /\ 1 <= a /\ b <= Len(w)
    BY <1>1, <1>5
  <2>2. w[a] < w[b]
    BY <1>4, <1>5, <1>7, <2>1, SortedAt
  <2>. QED  BY <1>6, <2>2
<1>. QED  BY <1>7, SortedIs

\* A new key halves one gap and leaves the others.
LEMMA GapInserted ==
  ASSUME NEW q \in Seq(Nat), NEW p \in Seq(Nat), NEW j, NEW e, Inserted(q, p, j, e), Sorted(q), NEW k \in Nat
  PROVE  /\ \A i \in 1 .. j - 1 : Gap(q, i, k) <=> Gap(p, i, k)
         /\ Gap(q, j, k) <=> Gap(p, j, k) /\ k < e
         /\ Gap(q, j + 1, k) <=> Gap(p, j, k) /\ e <= k
         /\ \A i \in j + 1 .. Len(p) + 1 : Gap(q, i + 1, k) <=> Gap(p, i, k)
<1>0. PICK n, w : n = Len(p) /\ w = Len(q)
  OBVIOUS
<1>1. n \in Nat /\ w \in Nat /\ w = n + 1 /\ j \in Nat /\ 1 <= j /\ j <= n + 1
  BY <1>0 DEF Inserted
<1>11. q[j] = e /\ e \in Nat
  <2>1. j \in 1 .. w /\ q[j] = e
    BY <1>0 DEF Inserted
  <2>. QED  BY <1>0, <2>1
<1>2. \A i \in 1 .. j - 1 : q[i] = p[i]
  BY DEF Inserted
<1>3. \A i \in j .. n : q[i + 1] = p[i]
  BY <1>0 DEF Inserted
<1>4. ASSUME NEW i \in 1 .. j - 1 PROVE Gap(q, i, k) <=> Gap(p, i, k)
  <2>1. i \in Nat /\ i <= w /\ i <= n
    BY ONLY <1>1
  <2>2. i > 1 => q[i - 1] = p[i - 1]
    <3>1. i > 1 => i - 1 \in 1 .. j - 1
      BY ONLY <1>1
    <3>. QED  BY <1>2, <3>1
  <2>. QED  BY <1>0, <1>2, <2>1, <2>2 DEF Gap
<1>5. j > 1 => q[j - 1] = p[j - 1] /\ p[j - 1] < e /\ p[j - 1] \in Nat
  <2>1. ASSUME j > 1 PROVE q[j - 1] = p[j - 1] /\ p[j - 1] < e /\ p[j - 1] \in Nat
    <3>1. j - 1 \in 1 .. j - 1 /\ j - 1 \in Nat /\ 1 <= j - 1 /\ j - 1 < j /\ j <= w
      BY ONLY <1>1, <2>1
    <3>2. q[j - 1] < q[j] /\ q[j - 1] \in Nat
      BY <1>0, <1>1, <3>1, SortedAt
    <3>. QED  BY <1>2, <1>11, <3>1, <3>2
  <2>. QED  BY <2>1
<1>6. j <= n => q[j + 1] = p[j] /\ p[j] \in Nat /\ e < p[j]
  <2>1. ASSUME j <= n PROVE q[j + 1] = p[j] /\ p[j] \in Nat /\ e < p[j]
    <3>1. j \in j .. n /\ j + 1 \in Nat /\ 1 <= j /\ j < j + 1 /\ j + 1 <= w
      BY ONLY <1>1, <2>1
    <3>2. q[j] < q[j + 1] /\ q[j + 1] \in Nat
      BY <1>0, <1>1, <3>1, SortedAt
    <3>. QED  BY <1>3, <1>11, <3>1, <3>2
  <2>. QED  BY <2>1
<1>8. Gap(q, j, k) <=> Gap(p, j, k) /\ k < e
  <2>1. j <= w
    BY ONLY <1>1
  <2>2. j <= n => (k < e => k < p[j])
    BY <1>6, <1>11
  <2>. QED  BY <1>0, <1>5, <1>11, <2>1, <2>2 DEF Gap
<1>9. Gap(q, j + 1, k) <=> Gap(p, j, k) /\ e <= k
  <2>1. j + 1 > 1 /\ (j + 1) - 1 = j /\ (j + 1 <= w <=> j <= n)
    BY ONLY <1>1
  <2>2. j > 1 => (e <= k => p[j - 1] <= k)
    BY <1>5, <1>11
  <2>. QED  BY <1>0, <1>6, <1>11, <2>1, <2>2 DEF Gap
<1>10. ASSUME NEW i \in j + 1 .. n + 1 PROVE Gap(q, i + 1, k) <=> Gap(p, i, k)
  <2>1. i > 1 /\ i + 1 > 1 /\ (i + 1) - 1 = i /\ (i + 1 <= w <=> i <= n)
    BY ONLY <1>1
  <2>2. q[i] = p[i - 1]
    <3>1. PICK x : x = i - 1
      OBVIOUS
    <3>2. x \in j .. n /\ x + 1 = i
      BY ONLY <1>1, <3>1
    <3>. QED  BY <1>3, <3>1, <3>2
  <2>3. i <= n => q[i + 1] = p[i]
    <3>1. i <= n => i \in j .. n
      BY ONLY <1>1
    <3>. QED  BY <1>3, <3>1
  <2>. QED  BY <1>0, <2>1, <2>2, <2>3 DEF Gap
<1>. QED  BY <1>0, <1>4, <1>8, <1>9, <1>10

\* The gaps of two halves are those of the whole, on their side of e.
LEMMA GapSpliced ==
  ASSUME NEW s \in Seq(Nat), NEW l \in Seq(Nat), NEW r \in Seq(Nat), NEW e, Spliced(s, l, e, r), Sorted(s), NEW k \in Nat
  PROVE  /\ \A i \in 1 .. Len(l) + 1 : Gap(s, i, k) <=> Gap(l, i, k) /\ k < e
         /\ \A i \in 1 .. Len(r) + 1, x \in Nat : x = Len(l) + 1 + i => (Gap(s, x, k) <=> Gap(r, i, k) /\ e <= k)
<1>0. PICK n, m, w, h : n = Len(l) /\ m = Len(r) /\ w = Len(s) /\ h = n + 1
  OBVIOUS
<1>1. n \in Nat /\ m \in Nat /\ w \in Nat /\ h \in Nat /\ h = n + 1 /\ w = h + m
  BY <1>0 DEF Spliced
<1>6. s[h] = e /\ e \in Nat
  <2>1. h \in 1 .. w
    BY ONLY <1>1
  <2>2. s[h] = e
    BY <1>0 DEF Spliced
  <2>. QED  BY <1>0, <2>1, <2>2
<1>7. (\A i \in 1 .. n : s[i] = l[i]) /\ (\A i \in 1 .. m : s[h + i] = r[i])
  BY <1>0, <1>1 DEF Spliced
<1>2. ASSUME NEW i \in 1 .. n PROVE s[i] = l[i] /\ l[i] \in Nat /\ l[i] < e
  <2>1. i \in Nat /\ 1 <= i /\ i < h /\ h <= w
    BY ONLY <1>1
  <2>2. s[i] < s[h] /\ s[i] \in Nat
    BY <1>0, <1>1, <2>1, SortedAt
  <2>. QED  BY <1>6, <1>7, <2>2
<1>3. ASSUME NEW i \in 1 .. m PROVE s[h + i] = r[i] /\ r[i] \in Nat /\ e < r[i]
  <2>1. h + i \in Nat /\ 1 <= h /\ h < h + i /\ h + i <= w
    BY ONLY <1>1
  <2>2. s[h] < s[h + i] /\ s[h + i] \in Nat
    BY <1>0, <1>1, <2>1, SortedAt
  <2>. QED  BY <1>6, <1>7, <2>2
<1>4. ASSUME NEW i \in 1 .. h PROVE Gap(s, i, k) <=> Gap(l, i, k) /\ k < e
  <2>1. i \in Nat /\ 1 <= i /\ i <= w
    BY ONLY <1>1
  <2>2. i > 1 => s[i - 1] = l[i - 1]
    <3>1. i > 1 => i - 1 \in 1 .. n
      BY ONLY <1>1
    <3>. QED  BY <1>7, <3>1
  <2>3. CASE i = h
    <3>1. ~ (i <= n)
      BY ONLY <1>1, <2>3
    <3>. QED  BY <1>0, <1>6, <2>1, <2>2, <2>3, <3>1 DEF Gap
  <2>4. CASE i # h
    <3>1. i \in 1 .. n
      BY ONLY <1>1, <2>4
    <3>2. s[i] = l[i] /\ l[i] \in Nat /\ l[i] < e /\ i <= n
      BY <1>2, <3>1
    <3>3. k < l[i] => k < e
      BY <1>6, <3>2
    <3>. QED  BY <1>0, <2>1, <2>2, <3>2, <3>3 DEF Gap
  <2>. QED  BY <2>3, <2>4
<1>5. ASSUME NEW i \in 1 .. m + 1, NEW x \in Nat, x = h + i PROVE Gap(s, x, k) <=> Gap(r, i, k) /\ e <= k
  <2>1. x = h + i
    BY <1>5
  <2>2. x > 1 /\ (x <= w <=> i <= m) /\ x - 1 = n + i
    BY ONLY <1>1, <2>1
  <2>3. i <= m => s[x] = r[i]
    <3>1. i <= m => i \in 1 .. m
      BY ONLY <1>1
    <3>. QED  BY <1>7, <2>1, <3>1
  <2>4. CASE i = 1
    <3>1. x - 1 = h /\ ~ (i > 1)
      BY ONLY <1>1, <2>2, <2>4
    <3>2. s[x - 1] = e
      BY <1>6, <3>1
    <3>. QED  BY <1>0, <2>2, <2>3, <3>1, <3>2 DEF Gap
  <2>5. CASE i # 1
    <3>1. PICK y : y = i - 1
      OBVIOUS
    <3>2. y \in 1 .. m /\ i > 1 /\ x - 1 = h + y
      BY ONLY <1>1, <2>2, <2>5, <3>1
    <3>3. s[x - 1] = r[y] /\ r[y] \in Nat /\ e < r[y]
      BY <1>3, <3>2
    <3>4. r[y] <= k => e <= k
      BY <1>6, <3>3
    <3>. QED  BY <1>0, <2>2, <2>3, <3>1, <3>2, <3>3, <3>4 DEF Gap
  <2>. QED  BY <2>4, <2>5
<1>8. \A i \in 1 .. Len(l) + 1 : Gap(s, i, k) <=> Gap(l, i, k) /\ k < e
  BY <1>0, <1>4
<1>9. \A i \in 1 .. Len(r) + 1, x \in Nat : x = Len(l) + 1 + i => (Gap(s, x, k) <=> Gap(r, i, k) /\ e <= k)
  BY <1>0, <1>5
<1>. QED  BY <1>8, <1>9

\* Sequences with the same elements at the same places in two others are sorted
\* as these are.
LEMMA GluedSorted ==
  ASSUME NEW s \in Seq(Nat), NEW l \in Seq(Nat), NEW r \in Seq(Nat), Glued(s, l, r), Sorted(s)
  PROVE  /\ Sorted(l) /\ Sorted(r)
         /\ \A i \in 1 .. Len(l), x \in 1 .. Len(r) : l[i] < r[x]
<1>0. PICK n, m, w : n = Len(l) /\ m = Len(r) /\ w = Len(s) /\ n \in Nat /\ m \in Nat /\ w \in Nat /\ w = n + m
  <2>1. Len(l) \in Nat /\ Len(r) \in Nat /\ Len(s) \in Nat /\ Len(s) = Len(l) + Len(r)
    BY DEF Glued
  <2>. QED  BY ONLY <2>1
<1>1. (\A i \in 1 .. n : s[i] = l[i]) /\ (\A i \in 1 .. m : s[n + i] = r[i])
  BY <1>0 DEF Glued
<1>2. ASSUME NEW i \in 1 .. n, NEW x \in 1 .. n, i < x PROVE l[i] < l[x]
  <2>1. i \in Nat /\ x \in Nat /\ 1 <= i /\ x <= w
    BY ONLY <1>0
  <2>2. s[i] < s[x]
    BY <1>0, <1>2, <2>1, SortedAt
  <2>. QED  BY <1>1, <2>2
<1>3. ASSUME NEW i \in 1 .. m, NEW x \in 1 .. m, i < x PROVE r[i] < r[x]
  <2>1. n + i \in Nat /\ n + x \in Nat /\ 1 <= n + i /\ n + x <= w /\ n + i < n + x
    BY ONLY <1>0, <1>3
  <2>2. s[n + i] < s[n + x]
    BY <1>0, <2>1, SortedAt
  <2>. QED  BY <1>1, <2>2
<1>4. ASSUME NEW i \in 1 .. n, NEW x \in 1 .. m PROVE l[i] < r[x]
  <2>1. i \in Nat /\ n + x \in Nat /\ 1 <= i /\ n + x <= w /\ i < n + x
    BY ONLY <1>0
  <2>2. s[i] < s[n + x]
    BY <1>0, <2>1, SortedAt
  <2>. QED  BY <1>1, <2>2
<1>. QED  BY <1>0, <1>2, <1>3, <1>4, SortedIs

\* The halves of a sorted array are sorted, below e and above it.
LEMMA SplicedSorted ==
  ASSUME NEW s \in Seq(Nat), NEW l \in Seq(Nat), NEW r \in Seq(Nat), NEW e, Spliced(s, l, e, r), Sorted(s)
  PROVE  /\ Sorted(l) /\ Sorted(r)
         /\ \A i \in 1 .. Len(l) : l[i] < e
         /\ \A i \in 1 .. Len(r) : e < r[i]
<1>0. PICK n, m, w, h : n = Len(l) /\ m = Len(r) /\ w = Len(s) /\ h = n + 1
  OBVIOUS
<1>6. n \in Nat /\ m \in Nat /\ w \in Nat /\ h \in Nat /\ h = n + 1 /\ w = h + m
  BY <1>0 DEF Spliced
<1>1. (\A i \in 1 .. n : s[i] = l[i]) /\ (\A i \in 1 .. m : s[h + i] = r[i]) /\ s[h] = e
  BY <1>0, <1>6 DEF Spliced
<1>2. ASSUME NEW i \in 1 .. n, NEW x \in 1 .. n, i < x PROVE l[i] < l[x]
  <2>1. i \in Nat /\ x \in Nat /\ 1 <= i /\ x <= w
    BY ONLY <1>6
  <2>2. s[i] < s[x]
    BY <1>0, <1>2, <1>6, <2>1, SortedAt
  <2>. QED  BY <1>1, <2>2
<1>3. ASSUME NEW i \in 1 .. m, NEW x \in 1 .. m, i < x PROVE r[i] < r[x]
  <2>1. h + i \in Nat /\ h + x \in Nat /\ 1 <= h + i /\ h + x <= w /\ h + i < h + x
    BY ONLY <1>6, <1>3
  <2>2. s[h + i] < s[h + x]
    BY <1>0, <1>6, <2>1, SortedAt
  <2>. QED  BY <1>1, <2>2
<1>4. ASSUME NEW i \in 1 .. n PROVE l[i] < e
  <2>1. i \in Nat /\ 1 <= i /\ i < h /\ h <= w
    BY ONLY <1>6
  <2>2. s[i] < s[h]
    BY <1>0, <1>6, <2>1, SortedAt
  <2>. QED  BY <1>1, <2>2
<1>5. ASSUME NEW i \in 1 .. m PROVE e < r[i]
  <2>1. h + i \in Nat /\ 1 <= h /\ h < h + i /\ h + i <= w
    BY ONLY <1>6
  <2>2. s[h] < s[h + i]
    BY <1>0, <1>6, <2>1, SortedAt
  <2>. QED  BY <1>1, <2>2
<1>. QED  BY <1>0, <1>2, <1>3, <1>4, <1>5, SortedIs

\* Where an element of a glued or spliced sequence comes from.
LEMMA GluedParts ==
  ASSUME NEW s, NEW l, NEW r, Len(l) \in Nat, Len(r) \in Nat, Glued(s, l, r), NEW i \in 1 .. Len(s)
  PROVE  \/ i \in 1 .. Len(l) /\ s[i] = l[i]
         \/ \E x \in 1 .. Len(r) : i = Len(l) + x /\ s[i] = r[x]
<1>1. CASE i <= Len(l)
  <2>1. i \in 1 .. Len(l)
    BY <1>1
  <2>. QED  BY <2>1 DEF Glued
<1>2. CASE ~ (i <= Len(l))
  <2>1. Len(s) = Len(l) + Len(r)
    BY DEF Glued
  <2>2. PICK x : x = i - Len(l)
    OBVIOUS
  <2>3. x \in 1 .. Len(r) /\ i = Len(l) + x
    BY <1>2, <2>1, <2>2
  <2>4. s[Len(l) + x] = r[x]
    BY <2>3 DEF Glued
  <2>. QED  BY <2>3, <2>4
<1>. QED  BY <1>1, <1>2

\* An element of the whole is of the left part, is e, or is of the right part.
LEMMA SplicedParts ==
  ASSUME NEW s, NEW l, NEW e, NEW r, Len(l) \in Nat, Len(r) \in Nat, Spliced(s, l, e, r), NEW i \in 1 .. Len(s)
  PROVE  \/ i \in 1 .. Len(l) /\ s[i] = l[i]
         \/ i = Len(l) + 1 /\ s[i] = e
         \/ \E x \in 1 .. Len(r) : i = Len(l) + 1 + x /\ s[i] = r[x]
<1>1. CASE i <= Len(l)
  <2>1. i \in 1 .. Len(l)
    BY <1>1
  <2>. QED  BY <2>1 DEF Spliced
<1>2. CASE i = Len(l) + 1
  BY <1>2 DEF Spliced
<1>3. CASE ~ (i <= Len(l)) /\ i # Len(l) + 1
  <2>1. Len(s) = Len(l) + 1 + Len(r)
    BY DEF Spliced
  <2>2. PICK x : x = i - Len(l) - 1
    OBVIOUS
  <2>3. x \in 1 .. Len(r) /\ i = Len(l) + 1 + x
    BY <1>3, <2>1, <2>2
  <2>4. s[Len(l) + 1 + x] = r[x]
    BY <2>3 DEF Spliced
  <2>. QED  BY <2>3, <2>4
<1>. QED  BY <1>1, <1>2, <1>3

\* The left array being below the right one, both together are sorted.
LEMMA SortedGlued ==
  ASSUME NEW s \in Seq(Nat), NEW l \in Seq(Nat), NEW r \in Seq(Nat), Glued(s, l, r), Sorted(l), Sorted(r),
         \A i \in 1 .. Len(l), x \in 1 .. Len(r) : l[i] < r[x]
  PROVE  Sorted(s)
<1>1. Len(s) \in Nat /\ Len(l) \in Nat /\ Len(r) \in Nat
  OBVIOUS
<1>2. ASSUME NEW i \in 1 .. Len(s), NEW x \in 1 .. Len(s), i < x PROVE s[i] < s[x]
  <2>0. i \in Nat /\ x \in Nat /\ 1 <= i
    OBVIOUS
  <2>1. \/ i \in 1 .. Len(l) /\ s[i] = l[i]
        \/ \E u \in 1 .. Len(r) : i = Len(l) + u /\ s[i] = r[u]
    BY <1>1, GluedParts
  <2>2. \/ x \in 1 .. Len(l) /\ s[x] = l[x]
        \/ \E u \in 1 .. Len(r) : x = Len(l) + u /\ s[x] = r[u]
    BY <1>1, GluedParts
  <2>3. CASE x \in 1 .. Len(l) /\ s[x] = l[x]
    <3>1. i \in 1 .. Len(l) /\ s[i] = l[i] /\ x <= Len(l)
      BY <1>1, <1>2, <2>1, <2>3
    <3>2. l[i] < l[x]
      BY <1>2, <2>0, <3>1, SortedAt
    <3>. QED  BY <2>3, <3>1, <3>2
  <2>4. ASSUME NEW u \in 1 .. Len(r), x = Len(l) + u, s[x] = r[u] PROVE s[i] < s[x]
    <3>1. CASE i \in 1 .. Len(l) /\ s[i] = l[i]
      BY <2>4, <3>1
    <3>2. ASSUME NEW v \in 1 .. Len(r), i = Len(l) + v, s[i] = r[v] PROVE s[i] < s[x]
      <4>1. v \in Nat /\ u \in Nat /\ 1 <= v /\ v < u /\ u <= Len(r)
        BY <1>1, <1>2, <2>4, <3>2
      <4>2. r[v] < r[u]
        BY <4>1, SortedAt
      <4>. QED  BY <2>4, <3>2, <4>2
    <3>. QED  BY <2>1, <3>1, <3>2
  <2>. QED  BY <2>2, <2>3, <2>4
<1>. QED  BY <1>2, SortedIs

\* And so they are with a key between them.
LEMMA SortedSpliced ==
  ASSUME NEW s \in Seq(Nat), NEW l \in Seq(Nat), NEW r \in Seq(Nat), NEW e \in Nat, Spliced(s, l, e, r), Sorted(l), Sorted(r),
         \A i \in 1 .. Len(l) : l[i] < e, \A i \in 1 .. Len(r) : e < r[i]
  PROVE  Sorted(s)
<1>1. /\ Len(s) \in Nat /\ Len(l) \in Nat /\ Len(r) \in Nat
      /\ \A i \in 1 .. Len(l) : l[i] \in Nat
      /\ \A i \in 1 .. Len(r) : r[i] \in Nat
  OBVIOUS
<1>2. ASSUME NEW i \in 1 .. Len(s), NEW x \in 1 .. Len(s), i < x PROVE s[i] < s[x]
  <2>0. i \in Nat /\ x \in Nat /\ 1 <= i
    OBVIOUS
  <2>1. \/ i \in 1 .. Len(l) /\ s[i] = l[i]
        \/ i = Len(l) + 1 /\ s[i] = e
        \/ \E u \in 1 .. Len(r) : i = Len(l) + 1 + u /\ s[i] = r[u]
    BY <1>1, SplicedParts
  <2>2. \/ x \in 1 .. Len(l) /\ s[x] = l[x]
        \/ x = Len(l) + 1 /\ s[x] = e
        \/ \E u \in 1 .. Len(r) : x = Len(l) + 1 + u /\ s[x] = r[u]
    BY <1>1, SplicedParts
  <2>3. CASE x \in 1 .. Len(l) /\ s[x] = l[x]
    <3>1. i \in 1 .. Len(l) /\ s[i] = l[i] /\ x <= Len(l)
      BY <1>1, <1>2, <2>1, <2>3
    <3>2. l[i] < l[x]
      BY <1>2, <2>0, <3>1, SortedAt
    <3>. QED  BY <2>3, <3>1, <3>2
  <2>4. CASE x = Len(l) + 1 /\ s[x] = e
    <3>1. i \in 1 .. Len(l) /\ s[i] = l[i]
      BY <1>1, <1>2, <2>1, <2>4
    <3>. QED  BY <2>4, <3>1
  <2>5. ASSUME NEW u \in 1 .. Len(r), x = Len(l) + 1 + u, s[x] = r[u] PROVE s[i] < s[x]
    <3>1. CASE i \in 1 .. Len(l) /\ s[i] = l[i]
      <4>1. l[i] < e /\ e < r[u] /\ l[i] \in Nat /\ r[u] \in Nat
        BY <1>1, <2>5, <3>1
      <4>2. l[i] < r[u]
        BY <4>1
      <4>. QED  BY <2>5, <3>1, <4>2
    <3>2. CASE i = Len(l) + 1 /\ s[i] = e
      BY <2>5, <3>2
    <3>3. ASSUME NEW v \in 1 .. Len(r), i = Len(l) + 1 + v, s[i] = r[v] PROVE s[i] < s[x]
      <4>1. v \in Nat /\ u \in Nat /\ 1 <= v /\ v < u /\ u <= Len(r)
        BY <1>1, <1>2, <2>5, <3>3
      <4>2. r[v] < r[u]
        BY <4>1, SortedAt
      <4>. QED  BY <2>5, <3>3, <4>2
    <3>. QED  BY <2>1, <3>1, <3>2, <3>3
  <2>. QED  BY <2>2, <2>3, <2>4, <2>5
<1>. QED  BY <1>2, SortedIs

\* An element of q is e or one of p's.
LEMMA InsertedParts ==
  ASSUME NEW q, NEW p, NEW j, NEW e, Len(p) \in Nat, Inserted(q, p, j, e), NEW i \in 1 .. Len(q)
  PROVE  \/ i \in 1 .. j - 1 /\ i \in 1 .. Len(p) /\ q[i] = p[i]
         \/ i = j /\ q[i] = e
         \/ \E x \in j .. Len(p) : x \in 1 .. Len(p) /\ i = x + 1 /\ q[i] = p[x]
<1>1. Len(q) = Len(p) + 1 /\ j \in Nat /\ 1 <= j /\ j <= Len(p) + 1
  BY DEF Inserted
<1>2. CASE i < j
  <2>1. i \in 1 .. j - 1 /\ i \in 1 .. Len(p)
    BY <1>1, <1>2
  <2>. QED  BY <2>1 DEF Inserted
<1>3. CASE i = j
  BY <1>3 DEF Inserted
<1>4. CASE i > j
  <2>1. PICK x : x = i - 1
    OBVIOUS
  <2>2. x \in j .. Len(p) /\ x \in 1 .. Len(p) /\ i = x + 1
    BY <1>1, <1>4, <2>1
  <2>3. q[x + 1] = p[x]
    BY <2>2 DEF Inserted
  <2>. QED  BY <2>2, <2>3
<1>. QED  BY <1>1, <1>2, <1>3, <1>4

\* The elements of the whole, place by place.
LEMMA GluedIs ==
  ASSUME NEW s, NEW l, NEW r, Len(l) \in Nat, Len(r) \in Nat, Glued(s, l, r)
  PROVE  /\ Len(s) = Len(l) + Len(r)
         /\ \A i \in 1 .. Len(l) : i \in 1 .. Len(s) /\ s[i] = l[i]
         /\ \A x \in 1 .. Len(r) : \E i \in 1 .. Len(s) : i = Len(l) + x /\ s[i] = r[x]
<1>1. Len(s) = Len(l) + Len(r)
  BY DEF Glued
<1>2. ASSUME NEW i \in 1 .. Len(l) PROVE i \in 1 .. Len(s)
  BY <1>1
<1>3. ASSUME NEW x \in 1 .. Len(r) PROVE \E i \in 1 .. Len(s) : i = Len(l) + x /\ s[i] = r[x]
  <2>1. Len(l) + x \in 1 .. Len(s)
    BY <1>1
  <2>2. s[Len(l) + x] = r[x]
    BY DEF Glued
  <2>. QED  BY <2>1, <2>2
<1>4. \A i \in 1 .. Len(l) : s[i] = l[i]
  BY DEF Glued
<1>. QED  BY <1>1, <1>2, <1>3, <1>4

\* The elements of the whole, place by place.
LEMMA SplicedIs ==
  ASSUME NEW s, NEW l, NEW e, NEW r, Len(l) \in Nat, Len(r) \in Nat, Spliced(s, l, e, r)
  PROVE  /\ Len(s) = Len(l) + 1 + Len(r)
         /\ \A i \in 1 .. Len(l) : i \in 1 .. Len(s) /\ s[i] = l[i]
         /\ Len(l) + 1 \in 1 .. Len(s) /\ s[Len(l) + 1] = e
         /\ \A x \in 1 .. Len(r) : \E i \in 1 .. Len(s) : i = Len(l) + 1 + x /\ s[i] = r[x]
<1>1. Len(s) = Len(l) + 1 + Len(r)
  BY DEF Spliced
<1>2. ASSUME NEW i \in 1 .. Len(l) PROVE i \in 1 .. Len(s)
  BY <1>1
<1>3. ASSUME NEW x \in 1 .. Len(r) PROVE \E i \in 1 .. Len(s) : i = Len(l) + 1 + x /\ s[i] = r[x]
  <2>1. Len(l) + 1 + x \in 1 .. Len(s)
    BY <1>1
  <2>2. s[Len(l) + 1 + x] = r[x]
    BY DEF Spliced
  <2>. QED  BY <2>1, <2>2
<1>4. Len(l) + 1 \in 1 .. Len(s)
  BY <1>1
<1>5. s[Len(l) + 1] = e /\ \A i \in 1 .. Len(l) : s[i] = l[i]
  BY DEF Spliced
<1>. QED  BY <1>1, <1>2, <1>3, <1>4, <1>5

\* The elements of q, place by place.
LEMMA InsertedIs ==
  ASSUME NEW q, NEW p, NEW j, NEW e, Len(p) \in Nat, Inserted(q, p, j, e)
  PROVE  /\ Len(q) = Len(p) + 1 /\ j \in Nat /\ 1 <= j /\ j <= Len(p) + 1
         /\ j \in 1 .. Len(q) /\ q[j] = e
         /\ \A i \in 1 .. j - 1 : i \in 1 .. Len(p) /\ i \in 1 .. Len(q) /\ q[i] = p[i]
         /\ \A i \in j .. Len(p) : i \in 1 .. Len(p) /\ \E x \in 1 .. Len(q) : x = i + 1 /\ q[x] = p[i]
<1>1. Len(q) = Len(p) + 1 /\ j \in 1 .. Len(q) /\ q[j] = e
  BY DEF Inserted
<1>2. j \in Nat /\ 1 <= j /\ j <= Len(p) + 1
  BY <1>1
<1>3. ASSUME NEW i \in 1 .. j - 1 PROVE i \in 1 .. Len(p) /\ i \in 1 .. Len(q)
  BY <1>1, <1>2
<1>4. ASSUME NEW i \in j .. Len(p) PROVE i \in 1 .. Len(p) /\ \E x \in 1 .. Len(q) : x = i + 1 /\ q[x] = p[i]
  <2>1. i \in 1 .. Len(p) /\ i + 1 \in 1 .. Len(q)
    BY <1>1, <1>2
  <2>2. q[i + 1] = p[i]
    BY DEF Inserted
  <2>. QED  BY <2>1, <2>2
<1>5. \A i \in 1 .. j - 1 : q[i] = p[i]
  BY DEF Inserted
<1>. QED  BY <1>1, <1>2, <1>3, <1>4, <1>5

-----------------------------------------------------------------------------
(* One node and two: in W the node l of J is l and, behind it, r; e parts   *)
(* them in p, where l has place j.                                          *)

IsKid(T, a, c) == \E i \in 1 .. Len(Kids(T, a)) : Kids(T, a)[i] = c

Halved(J, W, p, j, l, r, e) ==
  /\ r \in Page \ Nodes(J) /\ Nodes(W) = Nodes(J) \cup {r} /\ Top(W) = Top(J)
  /\ p \in Nodes(J) /\ l \in Nodes(J) /\ p # l
  /\ Inserted(Keys(W, p), Keys(J, p), j, e) /\ Inserted(Kids(W, p), Kids(J, p), j + 1, r)
  /\ Kids(J, p)[j] = l
  /\ Lev(W, r) = Lev(J, l) /\ \A a \in Nodes(J) : Lev(W, a) = Lev(J, a)
  /\ IF Lev(J, l) = 0 THEN Glued(Keys(J, l), Keys(W, l), Keys(W, r))
                     ELSE Spliced(Keys(J, l), Keys(W, l), e, Keys(W, r))
  /\ Glued(Kids(J, l), Kids(W, l), Kids(W, r))
  /\ Lev(J, l) # 0 => Len(Kids(W, l)) = Len(Keys(W, l)) + 1
  /\ \A a \in Nodes(J) \ {p, l} : Keys(W, a) = Keys(J, a) /\ Kids(W, a) = Kids(J, a)
  /\ Up(W, r) = p
  /\ \A c \in Nodes(J) : IF IsKid(W, r, c) THEN Up(J, c) = l /\ Up(W, c) = r ELSE Up(W, c) = Up(J, c)
  /\ \A a \in Nodes(J) \ {l} : Span(W, a) = Span(J, a)
  /\ Span(W, l) = {k \in Span(J, l) : k < e} /\ Span(W, r) = {k \in Span(J, l) : e <= k}

\* Arrays of keys and of nodes.
Arrays(W, a) == Keys(W, a) \in Seq(Key) /\ Kids(W, a) \in Seq(Nodes(W))

\* e parts what is sought in l, and the keys of a leaf.
Parts(J, W, l, r, e) ==
  /\ e \in Span(J, l) /\ \E k \in Span(J, l) : k < e
  /\ Lev(J, l) = 0 => /\ \A i \in 1 .. Len(Keys(W, l)) : Keys(W, l)[i] < e
                     /\ \A i \in 1 .. Len(Keys(W, r)) : e <= Keys(W, r)[i]

\* A split keeps a search tree, if the key that goes up lies between the halves.
THEOREM Halve ==
  ASSUME NEW J, NEW W, NEW p, NEW j, NEW l, NEW r, NEW e, Tree(J), Halved(J, W, p, j, l, r, e),
         Arrays(W, p), Arrays(W, l), Arrays(W, r), Parts(J, W, l, r, e)
  PROVE  Tree(W)
<1>1. /\ r \in Page \ Nodes(J) /\ Nodes(W) = Nodes(J) \cup {r} /\ Top(W) = Top(J)
      /\ p \in Nodes(J) /\ l \in Nodes(J) /\ p # l /\ r # p /\ r # l
      /\ Kids(J, p)[j] = l
      /\ Lev(W, r) = Lev(J, l) /\ \A a \in Nodes(J) : Lev(W, a) = Lev(J, a)
      /\ \A a \in Nodes(J) \ {p, l} : Keys(W, a) = Keys(J, a) /\ Kids(W, a) = Kids(J, a)
      /\ Up(W, r) = p
  BY DEF Halved
<1>2. Inserted(Keys(W, p), Keys(J, p), j, e) /\ Inserted(Kids(W, p), Kids(J, p), j + 1, r)
  BY DEF Halved
<1>3. IF Lev(J, l) = 0 THEN Glued(Keys(J, l), Keys(W, l), Keys(W, r))
                      ELSE Spliced(Keys(J, l), Keys(W, l), e, Keys(W, r))
  BY DEF Halved
<1>4. Glued(Kids(J, l), Kids(W, l), Kids(W, r))
  BY DEF Halved
<1>5. \A c \in Nodes(J) : IF IsKid(W, r, c) THEN Up(J, c) = l /\ Up(W, c) = r ELSE Up(W, c) = Up(J, c)
  BY DEF Halved
<1>6. /\ \A a \in Nodes(J) \ {l} : Span(W, a) = Span(J, a)
      /\ Span(W, l) = {k \in Span(J, l) : k < e} /\ Span(W, r) = {k \in Span(J, l) : e <= k}
  BY DEF Halved
<1>7. Nodes(J) \subseteq Page /\ Top(J) \in Nodes(J) /\ Up(J, Top(J)) = Nil /\ Span(J, Top(J)) = Key
  BY DEF Tree
<1>8. /\ j \in 1 .. Len(Kids(J, p)) /\ Len(Kids(J, p)) \in Nat /\ Len(Kids(W, p)) = Len(Kids(J, p)) + 1
      /\ Kids(J, p) \in Seq(Nodes(J))
      /\ \A a \in Nodes(J) : Kids(J, a) \in Seq(Nodes(J)) /\ Len(Kids(J, a)) \in Nat
  <2>1. Kids(J, p) \in Seq(Nodes(J)) /\ \A a \in Nodes(J) : Kids(J, a) \in Seq(Nodes(J))
    BY <1>1, NodeFacts
  <2>2. Len(Kids(J, p)) \in Nat /\ \A a \in Nodes(J) : Len(Kids(J, a)) \in Nat
    BY <2>1
  <2>3. j \in 1 .. Len(Keys(J, p)) + 1 /\ j + 1 \in 1 .. Len(Kids(J, p)) + 1 /\ Len(Kids(W, p)) = Len(Kids(J, p)) + 1
    BY <1>2 DEF Inserted
  <2>4. Len(Keys(J, p)) \in Nat
    BY <1>1, NodeFacts
  <2>5. j \in Nat /\ 1 <= j
    BY <2>3, <2>4
  <2>6. j \in 1 .. Len(Kids(J, p))
    BY <2>2, <2>3, <2>5
  <2>. QED  BY <2>1, <2>2, <2>3, <2>6
<1>9. /\ l # Top(J) /\ Up(J, l) = p /\ Lev(J, l) + 1 = Lev(J, p) /\ Lev(J, p) # 0
      /\ \A k \in Key : k \in Span(J, l) <=> k \in Span(J, p) /\ Gap(Keys(J, p), j, k)
  <2>1. p \in Nodes(J) /\ j \in 1 .. Len(Kids(J, p)) /\ l = Kids(J, p)[j]
    BY <1>1, <1>8
  <2>. QED  BY <2>1, KidFacts DEF Slot
<1>10. /\ e \in Key /\ e \in Span(J, l) /\ e \in Nat /\ e \in Span(J, p) /\ Gap(Keys(J, p), j, e)
       /\ \E k \in Span(J, l) : k \in Key /\ k \in Nat /\ k < e
  <2>1. Span(J, l) \subseteq Key
    BY <1>1 DEF Tree, NodeOK
  <2>2. e \in Span(J, l) /\ \E k \in Span(J, l) : k < e
    BY DEF Parts
  <2>. QED  BY <1>9, <2>1, <2>2, KeysAreNumbers
<1>11. /\ \A a \in Nodes(J) : /\ Keys(J, a) \in Seq(Nat) /\ Keys(J, a) \in Seq(Key) /\ Sorted(Keys(J, a)) /\ Len(Keys(J, a)) \in Nat
                           /\ Lev(J, a) \in Nat /\ Lev(J, a) <= Lev(J, Top(J))
       /\ Keys(W, p) \in Seq(Nat) /\ Keys(W, l) \in Seq(Nat) /\ Keys(W, r) \in Seq(Nat)
  <2>1. \A a \in Nodes(J) : /\ Keys(J, a) \in Seq(Nat) /\ Keys(J, a) \in Seq(Key) /\ Sorted(Keys(J, a)) /\ Len(Keys(J, a)) \in Nat
                         /\ Lev(J, a) \in Nat /\ Lev(J, a) <= Lev(J, Top(J))
    BY NodeFacts
  <2>2. Keys(W, p) \in Seq(Nat) /\ Keys(W, l) \in Seq(Nat) /\ Keys(W, r) \in Seq(Nat)
    BY KeysAreNumbers, SeqMonotonic, Zenon DEF Arrays
  <2>. QED  BY <2>1, <2>2
<1>12. Sorted(Keys(W, p))
  <2>1. /\ j \in Nat /\ 1 <= j /\ j <= Len(Keys(J, p)) + 1 /\ Len(Keys(J, p)) \in Nat
        /\ \A i \in 1 .. Len(Keys(J, p)) : Keys(J, p)[i] \in Nat
    <3>1. Len(Keys(J, p)) \in Nat /\ \A i \in 1 .. Len(Keys(J, p)) : Keys(J, p)[i] \in Nat
      BY <1>1, NodeFacts
    <3>2. j \in Nat /\ 1 <= j /\ j <= Len(Keys(J, p)) + 1
      BY <1>2, <3>1, InsertedIs
    <3>. QED  BY <3>1, <3>2
  <2>2. j > 1 => Keys(J, p)[j - 1] < e
    <3>1. PICK k \in Span(J, l) : k \in Key /\ k \in Nat /\ k < e
      BY <1>10
    <3>2. Gap(Keys(J, p), j, k)
      BY <1>9, <3>1
    <3>3. j > 1 => j - 1 \in 1 .. Len(Keys(J, p))
      BY <2>1
    <3>4. j > 1 => Keys(J, p)[j - 1] \in Nat
      BY <2>1, <3>3
    <3>5. j > 1 => Keys(J, p)[j - 1] <= k
      BY <3>2 DEF Gap
    <3>. QED  BY <1>10, <3>1, <3>4, <3>5
  <2>3. j <= Len(Keys(J, p)) => e < Keys(J, p)[j]
    BY <1>10 DEF Gap
  <2>. QED  BY <1>1, <1>2, <1>10, <1>11, <2>2, <2>3, SortedInserted
<1>13. /\ Sorted(Keys(W, l)) /\ Sorted(Keys(W, r))
       /\ \A i \in 1 .. Len(Keys(W, l)) : Keys(W, l)[i] < e /\ Keys(W, l)[i] \in Span(J, l)
       /\ \A i \in 1 .. Len(Keys(W, r)) : e <= Keys(W, r)[i] /\ Keys(W, r)[i] \in Span(J, l)
  <2>1. /\ Keys(J, l) \in Seq(Nat) /\ Sorted(Keys(J, l)) /\ \A i \in 1 .. Len(Keys(J, l)) : Keys(J, l)[i] \in Span(J, l)
        /\ Len(Keys(W, l)) \in Nat /\ Len(Keys(W, r)) \in Nat /\ Len(Keys(J, l)) \in Nat
    <3>1. l \in Nodes(J)
      BY <1>1
    <3>2. Len(Keys(W, l)) \in Nat /\ Len(Keys(W, r)) \in Nat
      BY <1>11
    <3>. QED  BY <3>1, <3>2, NodeFacts
  <2>2. CASE Lev(J, l) = 0
    <3>1. Glued(Keys(J, l), Keys(W, l), Keys(W, r))
      BY <1>3, <2>2
    <3>2. Sorted(Keys(W, l)) /\ Sorted(Keys(W, r))
      BY <1>11, <2>1, <3>1, GluedSorted
    <3>3. ASSUME NEW i \in 1 .. Len(Keys(W, l)) PROVE Keys(W, l)[i] \in Span(J, l)
      <4>1. i \in 1 .. Len(Keys(J, l)) /\ Keys(J, l)[i] = Keys(W, l)[i]
        BY <2>1, <3>1, GluedIs
      <4>. QED  BY <2>1, <4>1
    <3>4. ASSUME NEW i \in 1 .. Len(Keys(W, r)) PROVE Keys(W, r)[i] \in Span(J, l)
      <4>1. PICK x \in 1 .. Len(Keys(J, l)) : Keys(J, l)[x] = Keys(W, r)[i]
        BY <2>1, <3>1, GluedIs
      <4>. QED  BY <2>1, <4>1
    <3>. QED  BY <2>2, <3>2, <3>3, <3>4 DEF Parts
  <2>3. CASE Lev(J, l) # 0
    <3>1. Spliced(Keys(J, l), Keys(W, l), e, Keys(W, r))
      BY <1>3, <2>3
    <3>2. /\ Sorted(Keys(W, l)) /\ Sorted(Keys(W, r))
          /\ \A i \in 1 .. Len(Keys(W, l)) : Keys(W, l)[i] < e
          /\ \A i \in 1 .. Len(Keys(W, r)) : e < Keys(W, r)[i]
      BY <1>11, <2>1, <3>1, SplicedSorted
    <3>3. ASSUME NEW i \in 1 .. Len(Keys(W, l)) PROVE Keys(W, l)[i] \in Span(J, l)
      <4>1. i \in 1 .. Len(Keys(J, l)) /\ Keys(J, l)[i] = Keys(W, l)[i]
        BY <2>1, <3>1, SplicedIs
      <4>. QED  BY <2>1, <4>1
    <3>4. ASSUME NEW i \in 1 .. Len(Keys(W, r)) PROVE Keys(W, r)[i] \in Span(J, l)
      <4>1. PICK x \in 1 .. Len(Keys(J, l)) : Keys(J, l)[x] = Keys(W, r)[i]
        BY <2>1, <3>1, SplicedIs
      <4>. QED  BY <2>1, <4>1
    <3>5. \A i \in 1 .. Len(Keys(W, r)) : Keys(W, r)[i] \in Nat
      BY <1>11
    <3>. QED  BY <1>10, <3>2, <3>3, <3>4, <3>5
  <2>. QED  BY <2>2, <2>3
<1>14. /\ Len(Keys(W, l)) \in Nat /\ Len(Keys(W, r)) \in Nat /\ Len(Kids(W, l)) \in Nat /\ Len(Kids(W, r)) \in Nat
       /\ Len(Kids(J, l)) = Len(Kids(W, l)) + Len(Kids(W, r))
       /\ Len(Keys(W, p)) = Len(Keys(J, p)) + 1
  BY <1>2, <1>4, <1>11 DEF Glued, Inserted
<1>15. /\ Lev(J, l) = 0 => Len(Kids(W, l)) = 0 /\ Len(Kids(W, r)) = 0
       /\ Lev(J, l) # 0 => Len(Kids(W, l)) = Len(Keys(W, l)) + 1 /\ Len(Kids(W, r)) = Len(Keys(W, r)) + 1
  <2>1. CASE Lev(J, l) = 0
    <3>1. Len(Kids(J, l)) = 0
      BY <1>1, <2>1, NodeFacts
    <3>2. Len(Kids(W, l)) + Len(Kids(W, r)) = 0 /\ Len(Kids(W, l)) \in Nat /\ Len(Kids(W, r)) \in Nat
      BY <1>14, <3>1
    <3>3. Len(Kids(W, l)) = 0 /\ Len(Kids(W, r)) = 0
      BY <3>2
    <3>. QED  BY <2>1, <3>3
  <2>2. CASE Lev(J, l) # 0
    <3>1. Len(Kids(J, l)) = Len(Keys(J, l)) + 1
      BY <1>1, <2>2, NodeFacts
    <3>2. Len(Keys(J, l)) = Len(Keys(W, l)) + 1 + Len(Keys(W, r))
      BY <1>3, <2>2 DEF Spliced
    <3>3. Len(Kids(W, l)) = Len(Keys(W, l)) + 1
      BY <2>2 DEF Halved
    <3>4. /\ Len(Kids(W, r)) \in Nat /\ Len(Keys(W, l)) \in Nat /\ Len(Keys(W, r)) \in Nat
          /\ Len(Kids(W, l)) + Len(Kids(W, r)) = Len(Keys(W, l)) + 1 + Len(Keys(W, r)) + 1
      BY <1>14, <3>1, <3>2
    <3>5. Len(Kids(W, r)) = Len(Keys(W, r)) + 1
      BY <3>3, <3>4
    <3>. QED  BY <2>2, <3>3, <3>5
  <2>. QED  BY <2>1, <2>2
<1>16. ASSUME NEW a \in Nodes(W) PROVE NodeOK(W, a)
  <2>0. Top(W) \in Nodes(J) /\ Lev(W, Top(W)) = Lev(J, Top(J))
    BY <1>1, <1>7
  <2>1. CASE a \in Nodes(J) \ {p, l}
    <3>1. NodeOK(J, a)
      BY <2>1 DEF Tree
    <3>2. Kids(J, a) \in Seq(Nodes(W))
      BY <1>1, <1>8, <2>1, SeqMonotonic, Zenon
    <3>3. /\ Keys(W, a) = Keys(J, a) /\ Kids(W, a) = Kids(J, a) /\ Lev(W, a) = Lev(J, a) /\ Span(W, a) = Span(J, a)
      BY <1>1, <1>6, <2>1
    <3>. QED  BY <2>0, <3>1, <3>2, <3>3 DEF NodeOK
  <2>2. CASE a = p
    <3>1. NodeOK(J, p)
      BY <1>1 DEF Tree
    <3>2. Lev(W, p) = Lev(J, p) /\ Span(W, p) = Span(J, p)
      BY <1>1, <1>6
    <3>3. Len(Kids(W, p)) = Len(Keys(W, p)) + 1
      BY <1>8, <1>9, <1>14, <3>1 DEF NodeOK
    <3>4. ASSUME NEW i \in 1 .. Len(Keys(W, p)) PROVE Keys(W, p)[i] \in Span(W, p)
      <4>1. \/ i \in 1 .. j - 1 /\ i \in 1 .. Len(Keys(J, p)) /\ Keys(W, p)[i] = Keys(J, p)[i]
            \/ i = j /\ Keys(W, p)[i] = e
            \/ \E x \in j .. Len(Keys(J, p)) : x \in 1 .. Len(Keys(J, p)) /\ i = x + 1 /\ Keys(W, p)[i] = Keys(J, p)[x]
        <5>1. Len(Keys(J, p)) \in Nat
          BY <1>1, <1>11
        <5>. QED  BY <1>2, <5>1, InsertedParts
      <4>. QED  BY <1>10, <3>1, <3>2, <4>1 DEF NodeOK
    <3>. QED  BY <1>9, <1>12, <2>0, <2>2, <3>1, <3>2, <3>3, <3>4 DEF NodeOK, Arrays
  <2>3. CASE a = l
    <3>1. NodeOK(J, l)
      BY <1>1 DEF Tree
    <3>2. Lev(W, l) = Lev(J, l)
      BY <1>1
    <3>3. Span(W, l) \subseteq Key /\ \A i \in 1 .. Len(Keys(W, l)) : Keys(W, l)[i] \in Span(W, l)
      BY <1>6, <1>13, <3>1 DEF NodeOK
    <3>. QED  BY <1>13, <1>15, <2>0, <2>3, <3>1, <3>2, <3>3 DEF NodeOK, Arrays
  <2>4. CASE a = r
    <3>1. NodeOK(J, l)
      BY <1>1 DEF Tree
    <3>2. Lev(W, r) = Lev(J, l)
      BY <1>1
    <3>3. Span(W, r) \subseteq Key /\ \A i \in 1 .. Len(Keys(W, r)) : Keys(W, r)[i] \in Span(W, r)
      BY <1>6, <1>13, <3>1 DEF NodeOK
    <3>. QED  BY <1>13, <1>15, <2>0, <2>4, <3>1, <3>2, <3>3 DEF NodeOK, Arrays
  <2>. QED  BY <1>1, <2>1, <2>2, <2>3, <2>4
<1>17. ASSUME NEW i \in 1 .. Len(Kids(W, l)) PROVE i \in 1 .. Len(Kids(J, l)) /\ Kids(J, l)[i] = Kids(W, l)[i]
  BY <1>4, <1>14, GluedIs
<1>18. ASSUME NEW i \in 1 .. Len(Kids(W, r))
       PROVE  \E y \in 1 .. Len(Kids(J, l)) : y = Len(Kids(W, l)) + i /\ Kids(J, l)[y] = Kids(W, r)[i]
  BY <1>4, <1>14, GluedIs
<1>19. ASSUME NEW c \in Nodes(J), IsKid(W, r, c)
       PROVE  c # l /\ c # Top(J) /\ Up(J, c) = l /\ Up(W, c) = r
  <2>1. PICK i \in 1 .. Len(Kids(W, r)) : Kids(W, r)[i] = c
    BY <1>19 DEF IsKid
  <2>2. PICK x \in 1 .. Len(Kids(J, l)) : Kids(J, l)[x] = c
    BY <1>18, <2>1
  <2>3. c # Top(J) /\ c # l
    <3>1. c = Kids(J, l)[x]
      BY <2>2
    <3>. QED  BY <1>1, <3>1, KidFacts
  <2>. QED  BY <1>5, <1>19, <2>3
\* Children that stay where they are.
<1>20. ASSUME NEW b \in Nodes(J), NEW c \in Nodes(J), c # l, Up(J, c) = b, b # l \/ ~ IsKid(W, r, c)
       PROVE  c \in Nodes(W) /\ Up(W, c) = b /\ Lev(W, c) = Lev(J, c) /\ Span(W, c) = Span(J, c) /\ Lev(W, b) = Lev(J, b)
  BY <1>1, <1>5, <1>6, <1>19, <1>20
<1>21. ASSUME NEW a \in Nodes(W), NEW i \in 1 .. Len(Kids(W, a)) PROVE KidOK(W, a, i)
  <2>0. PICK c : c = Kids(W, a)[i]
    OBVIOUS
  <2>1. CASE a \in Nodes(J) \ {p, l}
    <3>1. i \in 1 .. Len(Kids(J, a)) /\ c = Kids(J, a)[i] /\ Keys(W, a) = Keys(J, a) /\ Span(W, a) = Span(J, a)
      BY <1>1, <1>6, <2>0, <2>1
    <3>2. /\ c \in Nodes(J) /\ Up(J, c) = a /\ Lev(J, c) + 1 = Lev(J, a)
          /\ \A k \in Key : k \in Span(J, c) <=> k \in Span(J, a) /\ Slot(J, a, i, k)
      <4>1. a \in Nodes(J) /\ i \in 1 .. Len(Kids(J, a)) /\ c = Kids(J, a)[i]
        BY <2>1, <3>1
      <4>. QED  BY <4>1, KidFacts
    <3>3. c # l
      BY <1>9, <2>1, <3>2
    <3>4. c \in Nodes(W) /\ Up(W, c) = a /\ Lev(W, c) = Lev(J, c) /\ Span(W, c) = Span(J, c) /\ Lev(W, a) = Lev(J, a)
      BY <1>20, <2>1, <3>2, <3>3
    <3>5. \A k \in Key : Slot(W, a, i, k) <=> Slot(J, a, i, k)
      BY <3>1 DEF Slot
    <3>. QED  BY <2>0, <3>1, <3>2, <3>4, <3>5 DEF KidOK
  <2>2. CASE a = l
    <3>1. i \in 1 .. Len(Kids(J, l)) /\ c = Kids(J, l)[i]
      BY <1>17, <2>0, <2>2
    <3>2. /\ c \in Nodes(J) /\ c # l /\ Up(J, c) = l /\ Lev(J, c) + 1 = Lev(J, l) /\ Lev(J, l) # 0
          /\ \A k \in Key : k \in Span(J, c) <=> k \in Span(J, l) /\ Slot(J, l, i, k)
      BY <1>1, <3>1, KidFacts
    <3>3. ~ IsKid(W, r, c)
      <4>. SUFFICES ASSUME IsKid(W, r, c) PROVE FALSE
        OBVIOUS
      <4>1. PICK x \in 1 .. Len(Kids(W, r)) : Kids(W, r)[x] = c
        BY DEF IsKid
      <4>2. PICK y \in 1 .. Len(Kids(J, l)) : y = Len(Kids(W, l)) + x /\ Kids(J, l)[y] = c
        BY <1>18, <4>1
      <4>3. i = y
        BY <1>1, <3>1, <4>2, KidsApart
      <4>4. i <= Len(Kids(W, l)) /\ x >= 1 /\ i \in Nat /\ x \in Nat
        BY <1>14, <2>2
      <4>. QED  BY <1>14, <4>2, <4>3, <4>4
    <3>4. c \in Nodes(W) /\ Up(W, c) = l /\ Lev(W, c) = Lev(J, c) /\ Span(W, c) = Span(J, c) /\ Lev(W, l) = Lev(J, l)
      BY <1>1, <1>20, <3>2, <3>3
    <3>5. ASSUME NEW k \in Key PROVE Slot(J, l, i, k) /\ k < e <=> Slot(W, l, i, k) /\ k < e
      <4>1. Spliced(Keys(J, l), Keys(W, l), e, Keys(W, r))
        BY <1>3, <3>2
      <4>2. i \in 1 .. Len(Keys(W, l)) + 1 /\ k \in Nat
        BY <1>15, <2>2, <3>2, KeysAreNumbers
      <4>3. Gap(Keys(J, l), i, k) <=> Gap(Keys(W, l), i, k) /\ k < e
        BY <1>1, <1>11, <4>1, <4>2, GapSpliced
      <4>. QED  BY <4>3 DEF Slot
    <3>6. ASSUME NEW k \in Key PROVE k \in Span(J, c) <=> k \in Span(W, l) /\ Slot(W, l, i, k)
      <4>1. Spliced(Keys(J, l), Keys(W, l), e, Keys(W, r))
        BY <1>3, <3>2
      <4>2. i \in 1 .. Len(Keys(W, l)) + 1 /\ k \in Nat
        BY <1>15, <2>2, <3>2, KeysAreNumbers
      <4>3. Gap(Keys(J, l), i, k) <=> Gap(Keys(W, l), i, k) /\ k < e
        BY <1>1, <1>11, <4>1, <4>2, GapSpliced
      <4>. QED  BY <1>6, <3>2, <4>3 DEF Slot
    <3>. QED  BY <2>0, <2>2, <3>2, <3>4, <3>6 DEF KidOK
  <2>3. CASE a = r
    <3>1. PICK y \in 1 .. Len(Kids(J, l)) : y = Len(Kids(W, l)) + i /\ c = Kids(J, l)[y]
      BY <1>18, <2>0, <2>3
    <3>2. /\ c \in Nodes(J) /\ c # l /\ Up(J, c) = l /\ Lev(J, c) + 1 = Lev(J, l) /\ Lev(J, l) # 0
          /\ \A k \in Key : k \in Span(J, c) <=> k \in Span(J, l) /\ Slot(J, l, y, k)
      BY <1>1, <3>1, KidFacts
    <3>3. IsKid(W, r, c)
      BY <2>0, <2>3 DEF IsKid
    <3>4. c \in Nodes(W) /\ Up(W, c) = r /\ Lev(W, c) = Lev(J, c) /\ Span(W, c) = Span(J, c) /\ Lev(W, r) = Lev(J, l)
      BY <1>1, <1>6, <1>19, <3>2, <3>3
    <3>6. ASSUME NEW k \in Key PROVE k \in Span(J, c) <=> k \in Span(W, r) /\ Slot(W, r, i, k)
      <4>1. Spliced(Keys(J, l), Keys(W, l), e, Keys(W, r))
        BY <1>3, <3>2
      <4>2. i \in 1 .. Len(Keys(W, r)) + 1 /\ k \in Nat /\ y = Len(Keys(W, l)) + 1 + i
        BY <1>15, <2>3, <3>1, <3>2, KeysAreNumbers
      <4>4. Gap(Keys(J, l), y, k) <=> Gap(Keys(W, r), i, k) /\ e <= k
        <5>1. Keys(J, l) \in Seq(Nat) /\ Keys(W, l) \in Seq(Nat) /\ Keys(W, r) \in Seq(Nat) /\ Sorted(Keys(J, l))
          BY <1>1, <1>11
        <5>. QED  BY <4>1, <4>2, <5>1, GapSpliced
      <4>. QED  BY <1>6, <3>2, <4>4 DEF Slot
    <3>. QED  BY <2>0, <2>3, <3>2, <3>4, <3>6 DEF KidOK
  <2>4. CASE a = p
    <3>1. /\ \A k \in Nat : /\ \A x \in 1 .. j - 1 : Gap(Keys(W, p), x, k) <=> Gap(Keys(J, p), x, k)
                            /\ Gap(Keys(W, p), j, k) <=> Gap(Keys(J, p), j, k) /\ k < e
                            /\ Gap(Keys(W, p), j + 1, k) <=> Gap(Keys(J, p), j, k) /\ e <= k
                            /\ \A x \in j + 1 .. Len(Keys(J, p)) + 1 : Gap(Keys(W, p), x + 1, k) <=> Gap(Keys(J, p), x, k)
      BY <1>1, <1>2, <1>11, <1>12, GapInserted
    <3>2. Lev(W, p) = Lev(J, p) /\ Span(W, p) = Span(J, p) /\ Lev(J, l) + 1 = Lev(J, p) /\ Lev(W, l) = Lev(J, l) /\ Lev(W, r) = Lev(J, l)
      BY <1>1, <1>6, <1>9
    <3>3. Up(W, l) = p /\ Up(W, r) = p /\ l \in Nodes(W) /\ r \in Nodes(W)
      BY <1>1, <1>5, <1>9, <1>19
    <3>4. \A k \in Key : k \in Nat
      BY KeysAreNumbers
    <3>5. /\ i \in 1 .. Len(Kids(W, p)) /\ j \in Nat /\ 1 <= j /\ Len(Kids(J, p)) = Len(Keys(J, p)) + 1
          /\ i \in Nat /\ j <= Len(Kids(J, p)) /\ Len(Keys(J, p)) \in Nat
      <4>1. Len(Keys(J, p)) \in Nat /\ Len(Kids(J, p)) = Len(Keys(J, p)) + 1
        BY <1>1, <1>9, NodeFacts
      <4>. QED  BY <1>8, <2>4, <4>1
    <3>6. ASSUME NEW x \in 1 .. Len(Kids(J, p)), x # j, c = Kids(J, p)[x],
                 \A k \in Key : Slot(W, p, i, k) <=> Slot(J, p, x, k)
          PROVE  KidOK(W, a, i)
      <4>1. /\ c \in Nodes(J) /\ Up(J, c) = p /\ Lev(J, c) + 1 = Lev(J, p)
            /\ \A k \in Key : k \in Span(J, c) <=> k \in Span(J, p) /\ Slot(J, p, x, k)
        BY <1>1, <3>6, KidFacts
      <4>2. c # l
        BY <1>1, <1>8, <3>6, KidsApart
      <4>3. c \in Nodes(W) /\ Up(W, c) = p /\ Lev(W, c) = Lev(J, c) /\ Span(W, c) = Span(J, c)
        BY <1>1, <1>20, <4>1, <4>2
      <4>. QED  BY <2>0, <2>4, <3>2, <3>6, <4>1, <4>3 DEF KidOK
    <3>7. \/ i \in 1 .. j /\ i \in 1 .. Len(Kids(J, p)) /\ c = Kids(J, p)[i]
          \/ i = j + 1 /\ c = r
          \/ \E x \in j + 1 .. Len(Kids(J, p)) : x \in 1 .. Len(Kids(J, p)) /\ i = x + 1 /\ c = Kids(J, p)[x]
      <4>1. PICK m : m = j + 1
        OBVIOUS
      <4>2. \/ i \in 1 .. m - 1 /\ i \in 1 .. Len(Kids(J, p)) /\ Kids(W, p)[i] = Kids(J, p)[i]
            \/ i = m /\ Kids(W, p)[i] = r
            \/ \E x \in m .. Len(Kids(J, p)) : x \in 1 .. Len(Kids(J, p)) /\ i = x + 1 /\ Kids(W, p)[i] = Kids(J, p)[x]
        <5>1. Inserted(Kids(W, p), Kids(J, p), m, r) /\ Len(Kids(J, p)) \in Nat
          BY <1>2, <1>8, <4>1
        <5>2. i \in 1 .. Len(Kids(W, p))
          BY <3>5
        <5>. QED  BY <5>1, <5>2, InsertedParts
      <4>3. m - 1 = j
        BY <3>5, <4>1
      <4>. QED  BY <2>0, <2>4, <4>1, <4>2, <4>3
    <3>8. CASE i = j
      <4>1. c = l
        BY <1>1, <3>5, <3>7, <3>8
      <4>2. ASSUME NEW k \in Key PROVE k \in Span(W, l) <=> k \in Span(W, p) /\ Slot(W, p, i, k)
        BY <1>6, <1>9, <3>1, <3>2, <3>4, <3>8 DEF Slot
      <4>. QED  BY <2>0, <2>4, <3>2, <3>3, <4>1, <4>2 DEF KidOK
    <3>9. CASE i = j + 1
      <4>1. c = r
        BY <3>5, <3>7, <3>9
      <4>2. ASSUME NEW k \in Key PROVE k \in Span(W, r) <=> k \in Span(W, p) /\ Slot(W, p, i, k)
        BY <1>6, <1>9, <3>1, <3>2, <3>4, <3>9 DEF Slot
      <4>. QED  BY <2>0, <2>4, <3>2, <3>3, <4>1, <4>2 DEF KidOK
    <3>10. CASE i < j
      <4>1. i \in 1 .. j - 1 /\ i \in 1 .. Len(Kids(J, p)) /\ i # j /\ c = Kids(J, p)[i]
        BY <3>5, <3>7, <3>10
      <4>2. \A k \in Key : Slot(W, p, i, k) <=> Slot(J, p, i, k)
        BY <3>1, <3>4, <4>1 DEF Slot
      <4>. QED  BY <3>6, <4>1, <4>2
    <3>11. CASE i > j + 1
      <4>1. PICK x \in j + 1 .. Len(Kids(J, p)) : x \in 1 .. Len(Kids(J, p)) /\ i = x + 1 /\ c = Kids(J, p)[x]
        BY <3>5, <3>7, <3>11
      <4>2. x # j /\ x \in j + 1 .. Len(Keys(J, p)) + 1
        BY <3>5, <4>1
      <4>3. \A k \in Key : Slot(W, p, i, k) <=> Slot(J, p, x, k)
        BY <3>1, <3>4, <4>1, <4>2 DEF Slot
      <4>. QED  BY <3>6, <4>1, <4>2, <4>3
    <3>. QED  BY <3>5, <3>8, <3>9, <3>10, <3>11
  <2>. QED  BY <1>1, <2>1, <2>2, <2>3, <2>4
<1>22. ASSUME NEW c \in Nodes(W) \ {Top(W)} PROVE Hung(W, c)
  <2>1. PICK k \in Span(J, l) : k \in Key /\ k < e
    BY <1>10
  <2>2. CASE c = l
    <3>1. Up(W, l) = p /\ p \in Nodes(W) /\ k \in Span(W, l)
      BY <1>1, <1>5, <1>6, <1>9, <1>19, <2>1
    <3>2. j \in 1 .. Len(Kids(W, p)) /\ Kids(W, p)[j] = l
      <4>1. PICK m : m = j + 1
        OBVIOUS
      <4>2. Inserted(Kids(W, p), Kids(J, p), m, r) /\ Len(Kids(J, p)) \in Nat
        BY <1>2, <1>8, <4>1
      <4>3. j \in 1 .. m - 1
        BY <1>8, <4>1
      <4>4. j \in 1 .. Len(Kids(W, p)) /\ Kids(W, p)[j] = Kids(J, p)[j]
        BY <4>2, <4>3, InsertedIs
      <4>. QED  BY <1>1, <4>4
    <3>. QED  BY <2>1, <2>2, <3>1, <3>2 DEF Hung
  <2>3. CASE c = r
    <3>1. Up(W, r) = p /\ p \in Nodes(W) /\ e \in Span(W, r)
      BY <1>1, <1>6, <1>10
    <3>2. PICK m \in 1 .. Len(Kids(W, p)) : Kids(W, p)[m] = r
      BY <1>2 DEF Inserted
    <3>. QED  BY <1>10, <2>3, <3>1, <3>2 DEF Hung
  <2>4. CASE c # l /\ c # r
    <3>1. c \in Nodes(J) /\ c # Top(J)
      BY <1>1, <2>4
    <3>2. PICK b : b = Up(J, c)
      OBVIOUS
    <3>3. b \in Nodes(J) /\ (\E i \in 1 .. Len(Kids(J, b)) : Kids(J, b)[i] = c) /\ \E x \in Key : x \in Span(J, c)
      BY <3>1, <3>2, HungFacts
    <3>4. PICK i \in 1 .. Len(Kids(J, b)) : Kids(J, b)[i] = c
      BY <3>3
    <3>5. \E x \in Key : x \in Span(W, c)
      BY <1>6, <2>4, <3>1, <3>3
    <3>6. CASE IsKid(W, r, c)
      <4>1. Up(W, c) = r /\ r \in Nodes(W)
        BY <1>1, <1>19, <3>1, <3>6
      <4>. QED  BY <3>5, <3>6, <4>1 DEF Hung, IsKid
    <3>7. CASE ~ IsKid(W, r, c)
      <4>1. Up(W, c) = b /\ b \in Nodes(W)
        BY <1>1, <1>5, <3>1, <3>2, <3>3, <3>7
      <4>2. \E x \in 1 .. Len(Kids(W, b)) : Kids(W, b)[x] = c
        <5>1. CASE b = l
          <6>1. \/ i \in 1 .. Len(Kids(W, l)) /\ Kids(J, l)[i] = Kids(W, l)[i]
                \/ \E x \in 1 .. Len(Kids(W, r)) : i = Len(Kids(W, l)) + x /\ Kids(J, l)[i] = Kids(W, r)[x]
            <7>1. Len(Kids(W, l)) \in Nat /\ Len(Kids(W, r)) \in Nat /\ i \in 1 .. Len(Kids(J, l))
              BY <1>14, <3>4, <5>1
            <7>. QED  BY <1>4, <7>1, GluedParts
          <6>. QED  BY <3>4, <3>7, <5>1, <6>1 DEF IsKid
        <5>2. CASE b = p
          <6>1. PICK m : m = j + 1
            OBVIOUS
          <6>2. Inserted(Kids(W, p), Kids(J, p), m, r) /\ Len(Kids(J, p)) \in Nat /\ m \in Nat
            BY <1>2, <1>8, <6>1
          <6>3. /\ \A x \in 1 .. m - 1 : x \in 1 .. Len(Kids(W, p)) /\ Kids(W, p)[x] = Kids(J, p)[x]
                /\ \A x \in m .. Len(Kids(J, p)) : \E y \in 1 .. Len(Kids(W, p)) : Kids(W, p)[y] = Kids(J, p)[x]
            BY <6>2, InsertedIs
          <6>4. i \in 1 .. m - 1 \/ i \in m .. Len(Kids(J, p))
            BY <3>4, <5>2, <6>2
          <6>. QED  BY <3>4, <5>2, <6>3, <6>4
        <5>3. CASE b # l /\ b # p
          <6>1. Kids(W, b) = Kids(J, b)
            BY <1>1, <3>3, <5>3
          <6>. QED  BY <3>4, <6>1
        <5>. QED  BY <5>1, <5>2, <5>3
      <4>. QED  BY <3>5, <4>1, <4>2 DEF Hung
    <3>. QED  BY <3>6, <3>7
  <2>. QED  BY <2>2, <2>3, <2>4
<1>23. Nodes(W) \subseteq Page /\ Top(W) \in Nodes(W) /\ Up(W, Top(W)) = Nil /\ Span(W, Top(W)) = Key
  <2>1. Top(W) = Top(J) /\ Top(J) \in Nodes(J) /\ Top(J) # l
    BY <1>1, <1>7, <1>9
  <2>2. ~ IsKid(W, r, Top(J))
    BY <1>19, <2>1
  <2>. QED  BY <1>1, <1>5, <1>6, <1>7, <2>1, <2>2
<1>. QED  BY <1>16, <1>21, <1>22, <1>23 DEF Tree

\* A sequence is one of what is in it.
LEMMA SeqOfOthers ==
  ASSUME NEW S, NEW R, NEW s \in Seq(S), \A i \in 1 .. Len(s) : s[i] \in R
  PROVE  s \in Seq(R)
<1>1. Len(s) \in Nat /\ DOMAIN s = 1 .. Len(s) /\ s = [i \in 1 .. Len(s) |-> s[i]]
  OBVIOUS
<1>2. PICK n \in Nat : n = Len(s)
  BY <1>1
<1>3. s \in [1 .. n -> R]
  BY <1>1, <1>2
<1>. QED  BY <1>3

\* The two nodes in W that are one in J.
LEMMA HalvesAre ==
  ASSUME NEW J, NEW W, NEW p, NEW j, NEW l, NEW r, NEW e, Tree(W), Halved(J, W, p, j, l, r, e),
         Len(Keys(J, p)) \in Nat, Len(Kids(J, p)) \in Nat
  PROVE  /\ p \in Nodes(W) /\ l \in Nodes(W) /\ r \in Nodes(W) /\ p # l /\ r # p /\ r # l
         /\ l # Top(W) /\ r # Top(W) /\ Up(W, l) = p /\ Up(W, r) = p
         /\ Lev(W, l) + 1 = Lev(W, p) /\ Lev(W, r) + 1 = Lev(W, p) /\ Lev(W, p) # 0
         /\ j \in Nat /\ 1 <= j /\ j <= Len(Keys(W, p)) /\ j \in 1 .. Len(Keys(W, p)) /\ Keys(W, p)[j] = e
         /\ j \in 1 .. Len(Kids(W, p)) /\ Kids(W, p)[j] = l
         /\ j + 1 \in 1 .. Len(Kids(W, p)) /\ Kids(W, p)[j + 1] = r
         /\ \A k \in Key : k \in Span(W, l) <=> k \in Span(W, p) /\ Gap(Keys(W, p), j, k)
         /\ \A k \in Key : k \in Span(W, r) <=> k \in Span(W, p) /\ Gap(Keys(W, p), j + 1, k)
         /\ e \in Key /\ e \in Nat /\ e \in Span(W, p) /\ e \in Span(W, r)
<1>1. /\ r \notin Nodes(J) /\ Nodes(W) = Nodes(J) \cup {r} /\ p \in Nodes(J) /\ l \in Nodes(J) /\ p # l
      /\ Kids(J, p)[j] = l
  BY DEF Halved
<1>2. Inserted(Keys(W, p), Keys(J, p), j, e) /\ Inserted(Kids(W, p), Kids(J, p), j + 1, r)
  BY DEF Halved
<1>3. /\ Len(Keys(W, p)) = Len(Keys(J, p)) + 1 /\ j \in Nat /\ 1 <= j /\ j <= Len(Keys(J, p)) + 1
      /\ j \in 1 .. Len(Keys(W, p)) /\ Keys(W, p)[j] = e
  BY <1>2, InsertedIs
<1>4. p \in Nodes(W) /\ l \in Nodes(W) /\ r \in Nodes(W) /\ r # p /\ r # l
  BY <1>1
<1>5. PICK m : m = j + 1
  OBVIOUS
<1>6. /\ Len(Kids(W, p)) = Len(Kids(J, p)) + 1 /\ m \in 1 .. Len(Kids(W, p)) /\ Kids(W, p)[m] = r
      /\ \A i \in 1 .. m - 1 : i \in 1 .. Len(Kids(W, p)) /\ Kids(W, p)[i] = Kids(J, p)[i]
  <2>1. Inserted(Kids(W, p), Kids(J, p), m, r)
    BY <1>2, <1>5
  <2>. QED  BY <2>1, InsertedIs
<1>7. j \in 1 .. Len(Kids(W, p)) /\ Kids(W, p)[j] = l
  <2>1. j \in 1 .. m - 1
    BY <1>3, <1>5
  <2>. QED  BY <1>1, <1>6, <2>1
<1>8. /\ l # Top(W) /\ Up(W, l) = p /\ Lev(W, l) + 1 = Lev(W, p) /\ Lev(W, p) # 0
      /\ \A k \in Key : k \in Span(W, l) <=> k \in Span(W, p) /\ Gap(Keys(W, p), j, k)
  BY <1>4, <1>7, KidFacts DEF Slot
<1>9. /\ r # Top(W) /\ Up(W, r) = p /\ Lev(W, r) + 1 = Lev(W, p)
      /\ \A k \in Key : k \in Span(W, r) <=> k \in Span(W, p) /\ Gap(Keys(W, p), m, k)
  BY <1>4, <1>6, KidFacts DEF Slot
<1>10. e \in Key /\ e \in Nat /\ e \in Span(W, p)
  BY <1>3, <1>4, NodeFacts
<1>11. e \in Span(W, r)
  <2>1. /\ Len(Keys(W, p)) \in Nat
        /\ \A x, y \in 1 .. Len(Keys(W, p)) : x < y => Keys(W, p)[x] < Keys(W, p)[y]
    BY <1>4, NodeFacts
  <2>2. m - 1 = j /\ m \in Nat /\ j < m /\ (m <= Len(Keys(W, p)) => m \in 1 .. Len(Keys(W, p)))
    BY <1>3, <1>5, <2>1
  <2>3. Gap(Keys(W, p), m, e)
    BY <1>3, <1>10, <2>1, <2>2 DEF Gap
  <2>. QED  BY <1>9, <1>10, <2>3
<1>12. j + 1 \in 1 .. Len(Kids(W, p)) /\ Kids(W, p)[j + 1] = r /\ j <= Len(Keys(W, p))
  BY <1>3, <1>5, <1>6
<1>13. \A k \in Key : k \in Span(W, r) <=> k \in Span(W, p) /\ Gap(Keys(W, p), j + 1, k)
  BY <1>5, <1>9
<1>. QED  BY <1>1, <1>3, <1>4, <1>7, <1>8, <1>9, <1>10, <1>11, <1>12, <1>13

\* Between the halves.
LEMMA HalvesApart ==
  ASSUME NEW J, NEW W, NEW p, NEW j, NEW l, NEW r, NEW e, Tree(W), Halved(J, W, p, j, l, r, e),
         Len(Keys(J, p)) \in Nat, Len(Kids(J, p)) \in Nat
  PROVE  /\ \A i \in 1 .. Len(Keys(W, l)) : Keys(W, l)[i] < e
         /\ \A i \in 1 .. Len(Keys(W, r)) : e <= Keys(W, r)[i] /\ (Lev(W, r) # 0 => e < Keys(W, r)[i])
<1>1. /\ l \in Nodes(W) /\ r \in Nodes(W) /\ j \in Nat /\ 1 <= j /\ j <= Len(Keys(W, p)) /\ Keys(W, p)[j] = e
      /\ \A k \in Key : k \in Span(W, l) <=> k \in Span(W, p) /\ Gap(Keys(W, p), j, k)
      /\ \A k \in Key : k \in Span(W, r) <=> k \in Span(W, p) /\ Gap(Keys(W, p), j + 1, k)
      /\ e \in Nat
  BY HalvesAre
<1>2. \A k \in Span(W, l) : k \in Key => k < e
  BY <1>1 DEF Gap
<1>3. \A k \in Span(W, r) : k \in Key => e <= k
  <2>1. j + 1 > 1 /\ (j + 1) - 1 = j
    BY <1>1
  <2>. QED  BY <1>1, <2>1 DEF Gap
<1>4. \A i \in 1 .. Len(Keys(W, l)) : Keys(W, l)[i] \in Key /\ Keys(W, l)[i] \in Span(W, l)
  BY <1>1, NodeFacts
<1>5. /\ \A i \in 1 .. Len(Keys(W, r)) : /\ Keys(W, r)[i] \in Key /\ Keys(W, r)[i] \in Span(W, r)
                                         /\ Keys(W, r)[i] \in Nat
      /\ \A x, y \in 1 .. Len(Keys(W, r)) : x < y => Keys(W, r)[x] < Keys(W, r)[y]
      /\ Len(Keys(W, r)) \in Nat
  BY <1>1, NodeFacts
<1>6. ASSUME NEW i \in 1 .. Len(Keys(W, r)), Lev(W, r) # 0 PROVE e < Keys(W, r)[i]
  <2>1. 1 \in 1 .. Len(Keys(W, r)) /\ Len(Keys(W, r)) >= 1
    BY <1>5
  <2>2. PICK x \in Key : x \in Span(W, r) /\ x < Keys(W, r)[1]
    BY <1>1, <1>6, <2>1, BelowFirst
  <2>3. e <= x /\ x \in Nat
    BY <1>3, <2>2, KeysAreNumbers
  <2>4. Keys(W, r)[1] <= Keys(W, r)[i]
    <3>1. CASE i = 1
      BY <1>5, <3>1
    <3>2. CASE i # 1
      <4>1. 1 < i
        BY <3>2
      <4>. QED  BY <1>5, <2>1, <4>1
    <3>. QED  BY <3>1, <3>2
  <2>. QED  BY <1>1, <1>5, <2>1, <2>2, <2>3, <2>4
<1>. QED  BY <1>2, <1>3, <1>4, <1>5, <1>6

\* And so does the opposite, a merge.
THEOREM Unhalve ==
  ASSUME NEW J, NEW W, NEW p, NEW j, NEW l, NEW r, NEW e, Tree(W), Halved(J, W, p, j, l, r, e),
         Arrays(J, p), Arrays(J, l), Span(J, l) \subseteq Key
  PROVE  Tree(J)
<1>1. /\ r \in Page \ Nodes(J) /\ Nodes(W) = Nodes(J) \cup {r} /\ Top(W) = Top(J)
      /\ p \in Nodes(J) /\ l \in Nodes(J) /\ p # l
      /\ Kids(J, p)[j] = l
      /\ Lev(W, r) = Lev(J, l) /\ \A a \in Nodes(J) : Lev(W, a) = Lev(J, a)
      /\ \A a \in Nodes(J) \ {p, l} : Keys(W, a) = Keys(J, a) /\ Kids(W, a) = Kids(J, a)
  BY DEF Halved
<1>2. Inserted(Keys(W, p), Keys(J, p), j, e) /\ Inserted(Kids(W, p), Kids(J, p), j + 1, r)
  BY DEF Halved
<1>3. IF Lev(J, l) = 0 THEN Glued(Keys(J, l), Keys(W, l), Keys(W, r))
                      ELSE Spliced(Keys(J, l), Keys(W, l), e, Keys(W, r))
  BY DEF Halved
<1>4. Glued(Kids(J, l), Kids(W, l), Kids(W, r))
  BY DEF Halved
<1>5. \A c \in Nodes(J) : IF IsKid(W, r, c) THEN Up(J, c) = l /\ Up(W, c) = r ELSE Up(W, c) = Up(J, c)
  BY DEF Halved
<1>6. /\ \A a \in Nodes(J) \ {l} : Span(W, a) = Span(J, a)
      /\ Span(W, l) = {k \in Span(J, l) : k < e} /\ Span(W, r) = {k \in Span(J, l) : e <= k}
  BY DEF Halved
<1>7. Nodes(W) \subseteq Page /\ Top(W) \in Nodes(W) /\ Up(W, Top(W)) = Nil /\ Span(W, Top(W)) = Key
  BY DEF Tree
<1>8. /\ Len(Keys(J, p)) \in Nat /\ Len(Kids(J, p)) \in Nat /\ Len(Keys(J, l)) \in Nat /\ Len(Kids(J, l)) \in Nat
      /\ Keys(J, p) \in Seq(Key) /\ Kids(J, p) \in Seq(Nodes(J))
      /\ Keys(J, l) \in Seq(Key) /\ Kids(J, l) \in Seq(Nodes(J))
  <2>1. /\ Keys(J, p) \in Seq(Key) /\ Kids(J, p) \in Seq(Nodes(J))
        /\ Keys(J, l) \in Seq(Key) /\ Kids(J, l) \in Seq(Nodes(J))
    BY DEF Arrays
  <2>2. Len(Keys(J, p)) \in Nat /\ Len(Kids(J, p)) \in Nat /\ Len(Keys(J, l)) \in Nat /\ Len(Kids(J, l)) \in Nat
    BY <2>1
  <2>. QED  BY <2>1, <2>2
<1>9. /\ p \in Nodes(W) /\ l \in Nodes(W) /\ r \in Nodes(W) /\ p # l /\ r # p /\ r # l
      /\ l # Top(W) /\ r # Top(W) /\ Up(W, l) = p /\ Up(W, r) = p
      /\ Lev(W, l) + 1 = Lev(W, p) /\ Lev(W, r) + 1 = Lev(W, p) /\ Lev(W, p) # 0
      /\ j \in Nat /\ 1 <= j /\ j <= Len(Keys(W, p)) /\ j \in 1 .. Len(Keys(W, p)) /\ Keys(W, p)[j] = e
      /\ j \in 1 .. Len(Kids(W, p)) /\ Kids(W, p)[j] = l
      /\ j + 1 \in 1 .. Len(Kids(W, p)) /\ Kids(W, p)[j + 1] = r
      /\ \A k \in Key : k \in Span(W, l) <=> k \in Span(W, p) /\ Gap(Keys(W, p), j, k)
      /\ \A k \in Key : k \in Span(W, r) <=> k \in Span(W, p) /\ Gap(Keys(W, p), j + 1, k)
      /\ e \in Key /\ e \in Nat /\ e \in Span(W, p) /\ e \in Span(W, r)
  BY <1>8, HalvesAre
<1>10. /\ Keys(J, p) \in Seq(Nat) /\ Keys(J, l) \in Seq(Nat)
       /\ Keys(W, p) \in Seq(Nat) /\ Keys(W, l) \in Seq(Nat) /\ Keys(W, r) \in Seq(Nat)
       /\ Sorted(Keys(W, p)) /\ Sorted(Keys(W, l)) /\ Sorted(Keys(W, r))
  <2>1. Keys(J, p) \in Seq(Nat) /\ Keys(J, l) \in Seq(Nat)
    BY <1>8, KeysAreNumbers, SeqMonotonic, Zenon
  <2>. QED  BY <1>9, <2>1, NodeFacts
<1>11. /\ \A i \in 1 .. Len(Keys(W, l)) : Keys(W, l)[i] < e
       /\ \A i \in 1 .. Len(Keys(W, r)) : e <= Keys(W, r)[i] /\ (Lev(W, r) # 0 => e < Keys(W, r)[i])
  BY <1>8, HalvesApart
<1>12. /\ Len(Keys(W, l)) \in Nat /\ Len(Keys(W, r)) \in Nat /\ Len(Kids(W, l)) \in Nat /\ Len(Kids(W, r)) \in Nat
       /\ \A i \in 1 .. Len(Keys(W, l)) : Keys(W, l)[i] \in Nat
       /\ \A i \in 1 .. Len(Keys(W, r)) : Keys(W, r)[i] \in Nat
       /\ \A i \in 1 .. Len(Kids(W, l)) : Kids(W, l)[i] \in Nodes(W)
       /\ \A i \in 1 .. Len(Kids(W, r)) : Kids(W, r)[i] \in Nodes(W)
  <2>1. Kids(W, l) \in Seq(Nodes(W)) /\ Kids(W, r) \in Seq(Nodes(W))
    BY <1>9, NodeFacts
  <2>2. Len(Kids(W, l)) \in Nat /\ Len(Kids(W, r)) \in Nat
    BY <2>1
  <2>. QED  BY <1>9, <2>2, NodeFacts
<1>13. /\ Sorted(Keys(J, p)) /\ Sorted(Keys(J, l))
  <2>1. Sorted(Keys(J, p))
    BY <1>2, <1>10, InsertedSorted
  <2>2. CASE Lev(J, l) = 0
    <3>1. Glued(Keys(J, l), Keys(W, l), Keys(W, r))
      BY <1>3, <2>2
    <3>2. \A i \in 1 .. Len(Keys(W, l)), x \in 1 .. Len(Keys(W, r)) : Keys(W, l)[i] < Keys(W, r)[x]
      BY <1>9, <1>11, <1>12
    <3>. QED  BY <1>10, <2>1, <3>1, <3>2, SortedGlued
  <2>3. CASE Lev(J, l) # 0
    <3>1. Spliced(Keys(J, l), Keys(W, l), e, Keys(W, r)) /\ Lev(W, r) # 0
      BY <1>1, <1>3, <2>3
    <3>. QED  BY <1>9, <1>10, <1>11, <2>1, <3>1, SortedSpliced
  <2>. QED  BY <2>2, <2>3
<1>14. ASSUME NEW a \in Nodes(J), a # p PROVE Kids(W, a) \in Seq(Nodes(J))
  <2>1. a \in Nodes(W) /\ Kids(W, a) \in Seq(Nodes(W))
    BY <1>1, <1>14, NodeFacts
  <2>2. ASSUME NEW i \in 1 .. Len(Kids(W, a)) PROVE Kids(W, a)[i] \in Nodes(J)
    <3>1. PICK c : c = Kids(W, a)[i]
      OBVIOUS
    <3>2. c \in Nodes(W) /\ Up(W, c) = a
      BY <2>1, <3>1, KidFacts
    <3>. QED  BY <1>1, <1>9, <1>14, <3>1, <3>2
  <2>. QED  BY <2>1, <2>2, SeqOfOthers
<1>15. ASSUME NEW a \in Nodes(J) PROVE NodeOK(J, a)
  <2>0. NodeOK(W, a) /\ Top(J) \in Nodes(J) /\ Lev(W, Top(W)) = Lev(J, Top(J)) /\ Lev(W, a) = Lev(J, a)
    BY <1>1, <1>7, <1>9 DEF Tree
  <2>1. CASE a # p /\ a # l
    <3>1. Keys(W, a) = Keys(J, a) /\ Kids(W, a) = Kids(J, a) /\ Span(W, a) = Span(J, a) /\ Kids(W, a) \in Seq(Nodes(J))
      BY <1>1, <1>6, <1>14, <2>1
    <3>. QED  BY <2>0, <3>1 DEF NodeOK
  <2>2. CASE a = p
    <3>1. Span(W, p) = Span(J, p)
      BY <1>1, <1>6
    <3>2. Len(Kids(J, p)) = Len(Keys(J, p)) + 1
      <4>1. Len(Kids(W, p)) = Len(Keys(W, p)) + 1
        BY <1>9, NodeFacts
      <4>2. Len(Keys(W, p)) = Len(Keys(J, p)) + 1 /\ Len(Kids(W, p)) = Len(Kids(J, p)) + 1
        BY <1>2 DEF Inserted
      <4>. QED  BY <1>8, <4>1, <4>2
    <3>3. ASSUME NEW i \in 1 .. Len(Keys(J, p)) PROVE Keys(J, p)[i] \in Span(J, p)
      <4>1. /\ \A x \in 1 .. j - 1 : x \in 1 .. Len(Keys(W, p)) /\ Keys(W, p)[x] = Keys(J, p)[x]
            /\ \A x \in j .. Len(Keys(J, p)) : \E y \in 1 .. Len(Keys(W, p)) : Keys(W, p)[y] = Keys(J, p)[x]
        BY <1>2, <1>8, InsertedIs
      <4>2. i \in 1 .. j - 1 \/ i \in j .. Len(Keys(J, p))
        BY <1>8, <1>9
      <4>3. PICK y \in 1 .. Len(Keys(W, p)) : Keys(W, p)[y] = Keys(J, p)[i]
        BY <4>1, <4>2
      <4>4. \A x \in 1 .. Len(Keys(W, p)) : Keys(W, p)[x] \in Span(W, p)
        BY <1>9, NodeFacts
      <4>. QED  BY <3>1, <4>3, <4>4
    <3>. QED  BY <1>8, <1>9, <1>13, <2>0, <2>2, <3>1, <3>2, <3>3 DEF NodeOK
  <2>3. CASE a = l
    <3>1. Span(W, l) \subseteq Span(J, l) /\ Span(W, r) \subseteq Span(J, l)
      BY <1>6
    <3>2. Span(J, l) \subseteq Key
      OBVIOUS
    <3>3. /\ Lev(J, l) = 0 => Len(Kids(J, l)) = 0
          /\ Lev(J, l) # 0 => Len(Kids(J, l)) = Len(Keys(J, l)) + 1
      <4>1. Len(Kids(J, l)) = Len(Kids(W, l)) + Len(Kids(W, r))
        BY <1>4 DEF Glued
      <4>2. /\ Lev(W, l) = Lev(J, l) /\ Lev(W, r) = Lev(J, l)
        BY <1>1
      <4>3. /\ Lev(J, l) = 0 => Len(Kids(W, l)) = 0 /\ Len(Kids(W, r)) = 0
            /\ Lev(J, l) # 0 => Len(Kids(W, l)) = Len(Keys(W, l)) + 1 /\ Len(Kids(W, r)) = Len(Keys(W, r)) + 1
        BY <1>9, <4>2, NodeFacts
      <4>4. Lev(J, l) # 0 => Len(Keys(J, l)) = Len(Keys(W, l)) + 1 + Len(Keys(W, r))
        BY <1>3 DEF Spliced
      <4>5. CASE Lev(J, l) = 0
        <5>1. Len(Kids(W, l)) = 0 /\ Len(Kids(W, r)) = 0
          BY <4>3, <4>5
        <5>. QED  BY <4>1, <4>5, <5>1
      <4>6. CASE Lev(J, l) # 0
        <5>1. /\ Len(Kids(W, l)) = Len(Keys(W, l)) + 1 /\ Len(Kids(W, r)) = Len(Keys(W, r)) + 1
              /\ Len(Keys(J, l)) = Len(Keys(W, l)) + 1 + Len(Keys(W, r))
          BY <4>3, <4>4, <4>6
        <5>. QED  BY <1>12, <4>1, <4>6, <5>1
      <4>. QED  BY <4>5, <4>6
    <3>4. ASSUME NEW i \in 1 .. Len(Keys(J, l)) PROVE Keys(J, l)[i] \in Span(J, l)
      <4>1. /\ \A x \in 1 .. Len(Keys(W, l)) : Keys(W, l)[x] \in Span(W, l)
            /\ \A x \in 1 .. Len(Keys(W, r)) : Keys(W, r)[x] \in Span(W, r)
        BY <1>9, NodeFacts
      <4>2. CASE Lev(J, l) = 0
        <5>1. Glued(Keys(J, l), Keys(W, l), Keys(W, r))
          BY <1>3, <4>2
        <5>2. \/ i \in 1 .. Len(Keys(W, l)) /\ Keys(J, l)[i] = Keys(W, l)[i]
              \/ \E x \in 1 .. Len(Keys(W, r)) : i = Len(Keys(W, l)) + x /\ Keys(J, l)[i] = Keys(W, r)[x]
          BY <1>12, <5>1, GluedParts
        <5>. QED  BY <3>1, <4>1, <5>2
      <4>3. CASE Lev(J, l) # 0
        <5>1. Spliced(Keys(J, l), Keys(W, l), e, Keys(W, r))
          BY <1>3, <4>3
        <5>2. \/ i \in 1 .. Len(Keys(W, l)) /\ Keys(J, l)[i] = Keys(W, l)[i]
              \/ i = Len(Keys(W, l)) + 1 /\ Keys(J, l)[i] = e
              \/ \E x \in 1 .. Len(Keys(W, r)) : i = Len(Keys(W, l)) + 1 + x /\ Keys(J, l)[i] = Keys(W, r)[x]
          BY <1>12, <5>1, SplicedParts
        <5>. QED  BY <1>9, <3>1, <4>1, <5>2
      <4>. QED  BY <4>2, <4>3
    <3>. QED  BY <1>8, <1>13, <2>0, <2>3, <3>2, <3>3, <3>4 DEF NodeOK
  <2>. QED  BY <2>1, <2>2, <2>3
\* Children that stay where they are.
<1>16. ASSUME NEW b \in Nodes(J), NEW c \in Nodes(W), Up(W, c) = b, b # p
       PROVE  c \in Nodes(J) /\ c # l /\ Up(J, c) = b /\ Lev(W, c) = Lev(J, c) /\ Span(W, c) = Span(J, c) /\ Lev(W, b) = Lev(J, b)
  <2>1. c # l /\ c # r /\ c \in Nodes(J) /\ b # r
    BY <1>1, <1>9, <1>16
  <2>. QED  BY <1>1, <1>5, <1>6, <1>16, <2>1
<1>17. ASSUME NEW c \in Nodes(W), Up(W, c) = r, IsKid(W, r, c)
       PROVE  c \in Nodes(J) /\ c # l /\ Up(J, c) = l /\ Lev(W, c) = Lev(J, c) /\ Span(W, c) = Span(J, c)
  <2>1. c # l /\ c # r /\ c \in Nodes(J)
    BY <1>1, <1>9, <1>17
  <2>. QED  BY <1>1, <1>5, <1>6, <1>17, <2>1
<1>18. ASSUME NEW a \in Nodes(J), NEW i \in 1 .. Len(Kids(J, a)) PROVE KidOK(J, a, i)
  <2>0. PICK c : c = Kids(J, a)[i]
    OBVIOUS
  <2>1. CASE a # p /\ a # l
    <3>1. i \in 1 .. Len(Kids(W, a)) /\ c = Kids(W, a)[i] /\ Keys(W, a) = Keys(J, a) /\ Span(W, a) = Span(J, a) /\ a \in Nodes(W)
      BY <1>1, <1>6, <2>0, <2>1
    <3>2. /\ c \in Nodes(W) /\ Up(W, c) = a /\ Lev(W, c) + 1 = Lev(W, a)
          /\ \A k \in Key : k \in Span(W, c) <=> k \in Span(W, a) /\ Slot(W, a, i, k)
      BY <3>1, KidFacts
    <3>3. c \in Nodes(J) /\ Up(J, c) = a /\ Lev(W, c) = Lev(J, c) /\ Span(W, c) = Span(J, c) /\ Lev(W, a) = Lev(J, a)
      BY <1>16, <2>1, <3>2
    <3>4. \A k \in Key : Slot(W, a, i, k) <=> Slot(J, a, i, k)
      BY <3>1 DEF Slot
    <3>. QED  BY <2>0, <3>1, <3>2, <3>3, <3>4 DEF KidOK
  <2>2. CASE a = l
    <3>0. i \in 1 .. Len(Kids(J, l)) /\ c = Kids(J, l)[i]
      BY <2>0, <2>2
    <3>1. \/ i \in 1 .. Len(Kids(W, l)) /\ Kids(J, l)[i] = Kids(W, l)[i]
          \/ \E x \in 1 .. Len(Kids(W, r)) : i = Len(Kids(W, l)) + x /\ Kids(J, l)[i] = Kids(W, r)[x]
      BY <1>4, <1>12, <3>0, GluedParts
    <3>2. CASE i \in 1 .. Len(Kids(W, l)) /\ c = Kids(W, l)[i]
      <4>1. /\ c \in Nodes(W) /\ Up(W, c) = l /\ Lev(W, c) + 1 = Lev(W, l) /\ Lev(W, l) # 0 /\ i <= Len(Keys(W, l)) + 1
            /\ \A k \in Key : k \in Span(W, c) <=> k \in Span(W, l) /\ Slot(W, l, i, k)
        BY <1>9, <3>2, KidFacts
      <4>2. c \in Nodes(J) /\ Up(J, c) = l /\ Lev(W, c) = Lev(J, c) /\ Span(W, c) = Span(J, c) /\ Lev(W, l) = Lev(J, l)
        BY <1>1, <1>9, <1>16, <4>1
      <4>3. Spliced(Keys(J, l), Keys(W, l), e, Keys(W, r))
        BY <1>3, <4>1, <4>2
      <4>4. i \in 1 .. Len(Keys(W, l)) + 1
        BY <1>12, <3>2, <4>1
      <4>5. ASSUME NEW k \in Key PROVE k \in Span(J, c) <=> k \in Span(J, l) /\ Slot(J, l, i, k)
        <5>1. k \in Nat
          BY KeysAreNumbers
        <5>2. Gap(Keys(J, l), i, k) <=> Gap(Keys(W, l), i, k) /\ k < e
          BY <1>10, <1>13, <4>3, <4>4, <5>1, GapSpliced
        <5>. QED  BY <1>6, <4>1, <4>2, <5>2 DEF Slot
      <4>. QED  BY <2>0, <2>2, <4>1, <4>2, <4>5 DEF KidOK
    <3>3. ASSUME NEW x \in 1 .. Len(Kids(W, r)), i = Len(Kids(W, l)) + x, c = Kids(W, r)[x] PROVE KidOK(J, a, i)
      <4>1. /\ c \in Nodes(W) /\ Up(W, c) = r /\ Lev(W, c) + 1 = Lev(W, r) /\ Lev(W, r) # 0 /\ x <= Len(Keys(W, r)) + 1
            /\ \A k \in Key : k \in Span(W, c) <=> k \in Span(W, r) /\ Slot(W, r, x, k)
        BY <1>9, <3>3, KidFacts
      <4>2. IsKid(W, r, c)
        BY <3>3 DEF IsKid
      <4>3. c \in Nodes(J) /\ Up(J, c) = l /\ Lev(W, c) = Lev(J, c) /\ Span(W, c) = Span(J, c) /\ Lev(W, r) = Lev(J, l) /\ Lev(W, l) = Lev(J, l)
        BY <1>1, <1>17, <4>1, <4>2
      <4>4. Spliced(Keys(J, l), Keys(W, l), e, Keys(W, r))
        BY <1>3, <4>1, <4>3
      <4>5. x \in 1 .. Len(Keys(W, r)) + 1 /\ i = Len(Keys(W, l)) + 1 + x /\ i \in Nat
        <5>1. Len(Kids(W, l)) = Len(Keys(W, l)) + 1
          BY <1>9, <4>1, <4>3, NodeFacts
        <5>. QED  BY <1>12, <3>3, <4>1, <5>1
      <4>6. ASSUME NEW k \in Key PROVE k \in Span(J, c) <=> k \in Span(J, l) /\ Slot(J, l, i, k)
        <5>1. k \in Nat
          BY KeysAreNumbers
        <5>2. Gap(Keys(J, l), i, k) <=> Gap(Keys(W, r), x, k) /\ e <= k
          BY <1>10, <1>13, <4>4, <4>5, <5>1, GapSpliced
        <5>. QED  BY <1>6, <4>1, <4>3, <5>2 DEF Slot
      <4>. QED  BY <2>0, <2>2, <4>1, <4>3, <4>6 DEF KidOK
    <3>. QED  BY <3>0, <3>1, <3>2, <3>3
  <2>3. CASE a = p
    <3>0. i \in 1 .. Len(Kids(J, p)) /\ c = Kids(J, p)[i] /\ i \in Nat /\ 1 <= i
      BY <1>8, <2>0, <2>3
    <3>1. /\ \A k \in Nat : /\ \A x \in 1 .. j - 1 : Gap(Keys(W, p), x, k) <=> Gap(Keys(J, p), x, k)
                            /\ Gap(Keys(W, p), j, k) <=> Gap(Keys(J, p), j, k) /\ k < e
                            /\ Gap(Keys(W, p), j + 1, k) <=> Gap(Keys(J, p), j, k) /\ e <= k
                            /\ \A x \in j + 1 .. Len(Keys(J, p)) + 1 : Gap(Keys(W, p), x + 1, k) <=> Gap(Keys(J, p), x, k)
      BY <1>2, <1>10, GapInserted
    <3>2. Lev(W, p) = Lev(J, p) /\ Span(W, p) = Span(J, p) /\ Lev(W, l) = Lev(J, l)
      BY <1>1, <1>6
    <3>3. \A k \in Key : k \in Nat
      BY KeysAreNumbers
    <3>4. Len(Kids(J, p)) = Len(Keys(J, p)) + 1
      <4>1. NodeOK(J, p) /\ Lev(J, p) # 0
        BY <1>1, <1>9, <1>15
      <4>. QED  BY <4>1 DEF NodeOK
    <3>5. CASE i = j
      <4>1. c = l
        BY <1>1, <3>0, <3>5
      <4>2. Up(J, l) = p
        BY <1>1, <1>5, <1>9
      <4>3. ASSUME NEW k \in Key PROVE k \in Span(J, l) <=> k \in Span(J, p) /\ Slot(J, p, i, k)
        <5>1. k \in Nat
          BY <3>3
        <5>2. Gap(Keys(J, p), j, k) <=> Gap(Keys(W, p), j, k) \/ Gap(Keys(W, p), j + 1, k)
          BY <1>9, <3>1, <5>1
        <5>3. k \in Span(J, l) <=> k \in Span(W, l) \/ k \in Span(W, r)
          BY <1>6, <1>9, <5>1
        <5>. QED  BY <1>9, <3>2, <3>5, <5>2, <5>3 DEF Slot
      <4>. QED  BY <1>1, <1>9, <2>0, <2>3, <3>2, <4>1, <4>2, <4>3 DEF KidOK
    <3>6. ASSUME NEW y \in 1 .. Len(Kids(W, p)), c = Kids(W, p)[y], y # j, y # j + 1,
                 \A k \in Key : Gap(Keys(W, p), y, k) <=> Gap(Keys(J, p), i, k)
          PROVE  KidOK(J, a, i)
      <4>1. /\ c \in Nodes(W) /\ Up(W, c) = p /\ Lev(W, c) + 1 = Lev(W, p)
            /\ \A k \in Key : k \in Span(W, c) <=> k \in Span(W, p) /\ Slot(W, p, y, k)
        BY <1>9, <3>6, KidFacts
      <4>2. c # l
        BY <1>9, <3>6, KidsApart
      <4>3. c # r
        <5>1. PICK m \in 1 .. Len(Kids(W, p)) : m = j + 1 /\ Kids(W, p)[m] = r
          BY <1>9
        <5>. QED  BY <1>9, <3>6, <5>1, KidsApart
      <4>4. c \in Nodes(J) /\ Up(J, c) = p /\ Lev(W, c) = Lev(J, c) /\ Span(W, c) = Span(J, c)
        BY <1>1, <1>5, <1>6, <1>9, <4>1, <4>2, <4>3
      <4>. QED  BY <2>0, <2>3, <3>2, <3>6, <4>1, <4>4 DEF KidOK, Slot
    <3>7. PICK m : m = j + 1
      OBVIOUS
    <3>8. /\ \A x \in 1 .. m - 1 : x \in 1 .. Len(Kids(W, p)) /\ Kids(W, p)[x] = Kids(J, p)[x]
          /\ \A x \in m .. Len(Kids(J, p)) : \E y \in 1 .. Len(Kids(W, p)) : y = x + 1 /\ Kids(W, p)[y] = Kids(J, p)[x]
      <4>1. Inserted(Kids(W, p), Kids(J, p), m, r)
        BY <1>2, <3>7
      <4>. QED  BY <1>8, <4>1, InsertedIs
    <3>9. CASE i < j
      <4>1. i \in 1 .. m - 1 /\ i \in 1 .. j - 1 /\ i # j /\ i # j + 1
        BY <1>9, <3>0, <3>7, <3>9
      <4>2. i \in 1 .. Len(Kids(W, p)) /\ c = Kids(W, p)[i]
        BY <3>0, <3>8, <4>1
      <4>3. \A k \in Key : Gap(Keys(W, p), i, k) <=> Gap(Keys(J, p), i, k)
        BY <3>1, <3>3, <4>1
      <4>. QED  BY <3>6, <4>1, <4>2, <4>3
    <3>10. CASE i > j
      <4>1. i \in m .. Len(Kids(J, p)) /\ i \in j + 1 .. Len(Keys(J, p)) + 1
        BY <1>8, <1>9, <3>0, <3>4, <3>7, <3>10
      <4>2. PICK y \in 1 .. Len(Kids(W, p)) : y = i + 1 /\ c = Kids(W, p)[y]
        BY <3>0, <3>8, <4>1
      <4>3. y # j /\ y # j + 1
        BY <1>9, <3>0, <3>10, <4>2
      <4>4. \A k \in Key : Gap(Keys(W, p), y, k) <=> Gap(Keys(J, p), i, k)
        BY <3>1, <3>3, <4>1, <4>2
      <4>. QED  BY <3>6, <4>2, <4>3, <4>4
    <3>. QED  BY <1>9, <3>0, <3>5, <3>9, <3>10
  <2>. QED  BY <2>1, <2>2, <2>3
<1>19. ASSUME NEW c \in Nodes(J) \ {Top(J)} PROVE Hung(J, c)
  <2>0. c \in Nodes(W) /\ c # Top(W) /\ c # r
    BY <1>1
  <2>1. PICK b : b = Up(W, c)
    OBVIOUS
  <2>2. /\ b \in Nodes(W) /\ (\E i \in 1 .. Len(Kids(W, b)) : Kids(W, b)[i] = c) /\ \E k \in Key : k \in Span(W, c)
    BY <2>0, <2>1, HungFacts
  <2>3. PICK i \in 1 .. Len(Kids(W, b)) : Kids(W, b)[i] = c
    BY <2>2
  <2>4. \E k \in Key : k \in Span(J, c)
    <3>1. Span(W, c) \subseteq Span(J, c)
      BY <1>6
    <3>. QED  BY <2>2, <3>1
  <2>5. CASE b = r
    <3>1. IsKid(W, r, c)
      BY <2>3, <2>5 DEF IsKid
    <3>2. Up(J, c) = l
      BY <1>5, <3>1
    <3>3. \A x \in 1 .. Len(Kids(W, r)) : \E y \in 1 .. Len(Kids(J, l)) : Kids(J, l)[y] = Kids(W, r)[x]
      BY <1>4, <1>12, GluedIs
    <3>4. \E y \in 1 .. Len(Kids(J, l)) : Kids(J, l)[y] = c
      BY <2>3, <2>5, <3>3
    <3>. QED  BY <1>1, <2>4, <3>2, <3>4 DEF Hung
  <2>6. CASE b # r
    <3>1. Up(J, c) = b /\ b \in Nodes(J)
      BY <1>1, <1>5, <2>1, <2>2, <2>6
    <3>2. \E y \in 1 .. Len(Kids(J, b)) : Kids(J, b)[y] = c
      <4>1. CASE b = l
        <5>1. i \in 1 .. Len(Kids(J, l)) /\ Kids(J, l)[i] = Kids(W, l)[i]
          BY <1>4, <1>12, <2>3, <4>1, GluedIs
        <5>. QED  BY <2>3, <4>1, <5>1
      <4>2. CASE b = p
        <5>1. PICK m : m = j + 1
          OBVIOUS
        <5>2. Inserted(Kids(W, p), Kids(J, p), m, r)
          BY <1>2, <5>1
        <5>3. \/ i \in 1 .. m - 1 /\ i \in 1 .. Len(Kids(J, p)) /\ Kids(W, p)[i] = Kids(J, p)[i]
              \/ i = m /\ Kids(W, p)[i] = r
              \/ \E x \in m .. Len(Kids(J, p)) : x \in 1 .. Len(Kids(J, p)) /\ i = x + 1 /\ Kids(W, p)[i] = Kids(J, p)[x]
          BY <1>8, <2>3, <4>2, <5>2, InsertedParts
        <5>. QED  BY <2>0, <2>3, <4>2, <5>3
      <4>3. CASE b # l /\ b # p
        <5>1. Kids(W, b) = Kids(J, b)
          BY <1>1, <3>1, <4>3
        <5>. QED  BY <2>3, <5>1
      <4>. QED  BY <4>1, <4>2, <4>3
    <3>. QED  BY <2>4, <3>1, <3>2 DEF Hung
  <2>. QED  BY <2>5, <2>6
<1>20. Nodes(J) \subseteq Page /\ Top(J) \in Nodes(J) /\ Up(J, Top(J)) = Nil /\ Span(J, Top(J)) = Key
  <2>1. Top(J) \in Nodes(J) /\ Top(J) # l
    BY <1>1, <1>7, <1>9
  <2>2. ~ IsKid(W, r, Top(J))
    <3>. SUFFICES ASSUME IsKid(W, r, Top(W)) PROVE FALSE
      BY <1>1
    <3>1. PICK x \in 1 .. Len(Kids(W, r)) : Top(W) = Kids(W, r)[x]
      BY DEF IsKid
    <3>. QED  BY <1>9, <3>1, KidFacts
  <2>. QED  BY <1>1, <1>5, <1>6, <1>7, <2>1, <2>2
<1>. QED  BY <1>15, <1>18, <1>19, <1>20 DEF Tree

-----------------------------------------------------------------------------
(* What the code does with arrays, as these relations.                      *)

\* The operators as relations between arrays.
LEMMA InsertAtInserted ==
  ASSUME NEW S, NEW s \in Seq(S), NEW e \in S, NEW j \in 1 .. Len(s) + 1
  PROVE  InsertAt(s, j, e) \in Seq(S) /\ Inserted(InsertAt(s, j, e), s, j, e)
<1>1. PICK w : w = InsertAt(s, j, e)
  OBVIOUS
<1>2. /\ w \in Seq(S) /\ Len(w) = Len(s) + 1
      /\ \A i \in 1 .. j - 1 : w[i] = s[i]
      /\ w[j] = e
      /\ \A i \in j + 1 .. Len(s) + 1 : w[i] = s[i - 1]
  <2>1. /\ InsertAt(s, j, e) \in Seq(S) /\ Len(InsertAt(s, j, e)) = Len(s) + 1
        /\ \A i \in 1 .. j - 1 : InsertAt(s, j, e)[i] = s[i]
        /\ InsertAt(s, j, e)[j] = e
        /\ \A i \in j + 1 .. Len(s) + 1 : InsertAt(s, j, e)[i] = s[i - 1]
    BY InsertAtIs
  <2>. QED  BY <1>1, <2>1
<1>3. Len(s) \in Nat
  OBVIOUS
<1>4. ASSUME NEW i \in j .. Len(s) PROVE w[i + 1] = s[i]
  <2>1. i + 1 \in j + 1 .. Len(s) + 1 /\ (i + 1) - 1 = i
    BY <1>3
  <2>. QED  BY <1>2, <2>1
<1>5. j \in 1 .. Len(w)
  BY <1>2
<1>. QED  BY <1>1, <1>2, <1>4, <1>5 DEF Inserted

\* Removing is the opposite of inserting.
LEMMA RemoveAtInserted ==
  ASSUME NEW S, NEW s \in Seq(S), NEW j \in 1 .. Len(s), NEW e, e = s[j]
  PROVE  RemoveAt(s, j) \in Seq(S) /\ Inserted(s, RemoveAt(s, j), j, e)
<1>1. PICK w : w = RemoveAt(s, j)
  OBVIOUS
<1>2. /\ w \in Seq(S) /\ Len(w) = Len(s) - 1
      /\ \A i \in 1 .. j - 1 : w[i] = s[i]
      /\ \A i \in j .. Len(s) - 1 : w[i] = s[i + 1]
  <2>1. /\ RemoveAt(s, j) \in Seq(S) /\ Len(RemoveAt(s, j)) = Len(s) - 1
        /\ \A i \in 1 .. j - 1 : RemoveAt(s, j)[i] = s[i]
        /\ \A i \in j .. Len(s) - 1 : RemoveAt(s, j)[i] = s[i + 1]
    BY RemoveAtIs
  <2>. QED  BY <1>1, <2>1
<1>3. Len(s) \in Nat
  OBVIOUS
<1>4. Len(s) = Len(w) + 1 /\ \A i \in j .. Len(w) : s[i + 1] = w[i]
  BY <1>2, <1>3
<1>. QED  BY <1>1, <1>2, <1>4 DEF Inserted

\* A concatenation is glued of its parts.
LEMMA ConcatGlued ==
  ASSUME NEW S, NEW l \in Seq(S), NEW r \in Seq(S)
  PROVE  l \o r \in Seq(S) /\ Glued(l \o r, l, r)
BY ConcatIs DEF Glued

\* A concatenation with e between is spliced of its parts.
LEMMA AppendSpliced ==
  ASSUME NEW S, NEW l \in Seq(S), NEW e \in S, NEW r \in Seq(S)
  PROVE  Append(l, e) \o r \in Seq(S) /\ Spliced(Append(l, e) \o r, l, e, r)
<1>1. PICK m, s : m = Append(l, e) /\ s = m \o r
  OBVIOUS
<1>2. m \in Seq(S) /\ Len(m) = Len(l) + 1 /\ m[Len(l) + 1] = e /\ \A i \in 1 .. Len(l) : m[i] = l[i]
  BY <1>1
<1>3. Len(l) \in Nat /\ Len(r) \in Nat
  OBVIOUS
<1>4. /\ s \in Seq(S) /\ Len(s) = Len(m) + Len(r)
      /\ \A i \in 1 .. Len(m) : s[i] = m[i]
      /\ \A i \in 1 .. Len(r) : s[Len(m) + i] = r[i]
  <2>0. m \in Seq(S)
    BY <1>2
  <2>1. /\ m \o r \in Seq(S) /\ Len(m \o r) = Len(m) + Len(r)
        /\ \A i \in 1 .. Len(m) : (m \o r)[i] = m[i]
        /\ \A i \in 1 .. Len(r) : (m \o r)[Len(m) + i] = r[i]
    BY <2>0, ConcatIs
  <2>. QED  BY <1>1, <2>1
<1>5. \A i \in 1 .. Len(l) : i \in 1 .. Len(m)
  BY <1>2, <1>3
<1>6. Len(l) + 1 \in 1 .. Len(m)
  BY <1>2, <1>3
<1>. QED  BY <1>1, <1>2, <1>4, <1>5, <1>6 DEF Spliced

-----------------------------------------------------------------------------
(* Two nodes become one, and one becomes two.                               *)

Join(W, p, j, l, r, e) ==
  [set  |-> Nodes(W) \ {r}, top |-> Top(W),
   lev  |-> [a \in Nodes(W) \ {r} |-> Lev(W, a)],
   keys |-> [a \in Nodes(W) \ {r} |->
               IF a = p THEN RemoveAt(Keys(W, p), j)
               ELSE IF a = l THEN IF Lev(W, l) = 0 THEN Keys(W, l) \o Keys(W, r)
                                                   ELSE Append(Keys(W, l), e) \o Keys(W, r)
               ELSE Keys(W, a)],
   kids |-> [a \in Nodes(W) \ {r} |->
               IF a = p THEN RemoveAt(Kids(W, p), j + 1)
               ELSE IF a = l THEN Kids(W, l) \o Kids(W, r) ELSE Kids(W, a)],
   up   |-> [a \in Nodes(W) \ {r} |-> IF IsKid(W, r, a) THEN l ELSE Up(W, a)],
   span |-> [a \in Nodes(W) \ {r} |-> IF a = l THEN Span(W, l) \cup Span(W, r) ELSE Span(W, a)]]

\* Its parts.
LEMMA JoinIs ==
  ASSUME NEW W, NEW p, NEW j, NEW l, NEW r, NEW e, NEW J, J = Join(W, p, j, l, r, e)
  PROVE  /\ Nodes(J) = Nodes(W) \ {r} /\ Top(J) = Top(W)
         /\ \A a \in Nodes(J) :
              /\ Lev(J, a) = Lev(W, a)
              /\ a \notin {p, l} => Keys(J, a) = Keys(W, a) /\ Kids(J, a) = Kids(W, a)
              /\ a = p => Keys(J, a) = RemoveAt(Keys(W, p), j) /\ Kids(J, a) = RemoveAt(Kids(W, p), j + 1)
              /\ a = l /\ a # p => /\ Kids(J, a) = Kids(W, l) \o Kids(W, r)
                                   /\ Lev(W, l) = 0 => Keys(J, a) = Keys(W, l) \o Keys(W, r)
                                   /\ Lev(W, l) # 0 => Keys(J, a) = Append(Keys(W, l), e) \o Keys(W, r)
              /\ Up(J, a) = IF IsKid(W, r, a) THEN l ELSE Up(W, a)
              /\ Span(J, a) = IF a = l THEN Span(W, l) \cup Span(W, r) ELSE Span(W, a)
BY Zenon DEF Join, Nodes, Top, Lev, Keys, Kids, Up, Span

\* J is W with the j-th and the next child of p joined.
Joining(W, J, p, j, l, r, e) ==
  /\ Tree(W) /\ p \in Nodes(W) /\ Lev(W, p) # 0 /\ j \in 1 .. Len(Keys(W, p))
  /\ l = Kids(W, p)[j] /\ r = Kids(W, p)[j + 1] /\ e = Keys(W, p)[j]
  /\ J = Join(W, p, j, l, r, e)

\* Two neighbours of a search tree can always be joined.
THEOREM JoinTree ==
  ASSUME NEW W, NEW J, NEW p, NEW j, NEW l, NEW r, NEW e, Joining(W, J, p, j, l, r, e)
  PROVE  /\ Tree(J) /\ Halved(J, W, p, j, l, r, e)
         /\ Keys(J, p) = RemoveAt(Keys(W, p), j) /\ Kids(J, p) = RemoveAt(Kids(W, p), j + 1)
         /\ Kids(J, l) = Kids(W, l) \o Kids(W, r)
         /\ Keys(J, l) = IF Lev(W, l) = 0 THEN Keys(W, l) \o Keys(W, r) ELSE Append(Keys(W, l), e) \o Keys(W, r)
<1>. /\ Tree(W) /\ p \in Nodes(W) /\ Lev(W, p) # 0 /\ j \in 1 .. Len(Keys(W, p))
     /\ l = Kids(W, p)[j] /\ r = Kids(W, p)[j + 1] /\ e = Keys(W, p)[j]
     /\ J = Join(W, p, j, l, r, e)
  BY DEF Joining
<1>1. PICK m : m = j + 1
  OBVIOUS
<1>2. /\ Keys(W, p) \in Seq(Key) /\ Kids(W, p) \in Seq(Nodes(W)) /\ Len(Keys(W, p)) \in Nat
      /\ Len(Kids(W, p)) = Len(Keys(W, p)) + 1 /\ e \in Key
  BY NodeFacts
<1>3. j \in 1 .. Len(Kids(W, p)) /\ m \in 1 .. Len(Kids(W, p)) /\ r = Kids(W, p)[m] /\ j # m /\ j \in Nat /\ 1 <= j /\ j <= Len(Keys(W, p))
  BY <1>1, <1>2
<1>4. /\ l \in Nodes(W) /\ l # Top(W) /\ Up(W, l) = p /\ Lev(W, l) + 1 = Lev(W, p) /\ l # p
      /\ \A k \in Key : k \in Span(W, l) <=> k \in Span(W, p) /\ Gap(Keys(W, p), j, k)
  BY <1>3, KidFacts DEF Slot
<1>5. /\ r \in Nodes(W) /\ r # Top(W) /\ Up(W, r) = p /\ Lev(W, r) + 1 = Lev(W, p) /\ r # p
      /\ \A k \in Key : k \in Span(W, r) <=> k \in Span(W, p) /\ Gap(Keys(W, p), m, k)
  BY <1>3, KidFacts DEF Slot
<1>6. l # r
  <2>1. \A x, y \in 1 .. Len(Kids(W, p)) : Kids(W, p)[x] = Kids(W, p)[y] => x = y
    BY KidsApart
  <2>. QED  BY <1>3, <2>1
<1>7. Lev(W, l) = Lev(W, r)
  <2>1. Lev(W, l) \in Nat /\ Lev(W, r) \in Nat
    BY <1>4, <1>5, NodeFacts
  <2>. QED  BY <1>4, <1>5, <2>1
<1>8. /\ Keys(W, l) \in Seq(Key) /\ Keys(W, r) \in Seq(Key) /\ Kids(W, l) \in Seq(Nodes(W)) /\ Kids(W, r) \in Seq(Nodes(W))
      /\ Lev(W, l) # 0 => Len(Kids(W, l)) = Len(Keys(W, l)) + 1
  BY <1>4, <1>5, NodeFacts
<1>9. /\ Nodes(J) = Nodes(W) \ {r} /\ Top(J) = Top(W)
      /\ \A a \in Nodes(J) :
           /\ Lev(J, a) = Lev(W, a)
           /\ a \notin {p, l} => Keys(J, a) = Keys(W, a) /\ Kids(J, a) = Kids(W, a)
           /\ a = p => Keys(J, a) = RemoveAt(Keys(W, p), j) /\ Kids(J, a) = RemoveAt(Kids(W, p), j + 1)
           /\ a = l /\ a # p => /\ Kids(J, a) = Kids(W, l) \o Kids(W, r)
                                /\ Lev(W, l) = 0 => Keys(J, a) = Keys(W, l) \o Keys(W, r)
                                /\ Lev(W, l) # 0 => Keys(J, a) = Append(Keys(W, l), e) \o Keys(W, r)
           /\ Up(J, a) = IF IsKid(W, r, a) THEN l ELSE Up(W, a)
           /\ Span(J, a) = IF a = l THEN Span(W, l) \cup Span(W, r) ELSE Span(W, a)
  BY Zenon DEF Join, Nodes, Top, Lev, Keys, Kids, Up, Span
<1>10. p \in Nodes(J) /\ l \in Nodes(J) /\ r \notin Nodes(J)
  BY <1>4, <1>5, <1>6, <1>9
<1>11. /\ Keys(J, p) = RemoveAt(Keys(W, p), j) /\ Kids(J, p) = RemoveAt(Kids(W, p), m)
       /\ Kids(J, l) = Kids(W, l) \o Kids(W, r)
       /\ Lev(W, l) = 0 => Keys(J, l) = Keys(W, l) \o Keys(W, r)
       /\ Lev(W, l) # 0 => Keys(J, l) = Append(Keys(W, l), e) \o Keys(W, r)
       /\ Span(J, l) = Span(W, l) \cup Span(W, r) /\ Lev(J, l) = Lev(W, l)
  BY <1>1, <1>4, <1>9, <1>10
<1>12. Keys(J, p) \in Seq(Key) /\ Inserted(Keys(W, p), Keys(J, p), j, e)
  <2>1. RemoveAt(Keys(W, p), j) \in Seq(Key) /\ Inserted(Keys(W, p), RemoveAt(Keys(W, p), j), j, e)
    BY <1>2, RemoveAtInserted
  <2>. QED  BY <1>11, <2>1
<1>13. Kids(J, p) \in Seq(Nodes(W)) /\ Inserted(Kids(W, p), Kids(J, p), m, r)
  <2>1. RemoveAt(Kids(W, p), m) \in Seq(Nodes(W)) /\ Inserted(Kids(W, p), RemoveAt(Kids(W, p), m), m, r)
    BY <1>2, <1>3, RemoveAtInserted
  <2>. QED  BY <1>11, <2>1
<1>14. Kids(J, l) \in Seq(Nodes(W)) /\ Glued(Kids(J, l), Kids(W, l), Kids(W, r))
  BY <1>8, <1>11, ConcatGlued
<1>15. /\ Keys(J, l) \in Seq(Key)
       /\ IF Lev(J, l) = 0 THEN Glued(Keys(J, l), Keys(W, l), Keys(W, r))
                          ELSE Spliced(Keys(J, l), Keys(W, l), e, Keys(W, r))
  <2>0. Keys(W, l) \in Seq(Key) /\ Keys(W, r) \in Seq(Key)
    BY <1>8
  <2>1. CASE Lev(W, l) = 0
    <3>1. Keys(W, l) \o Keys(W, r) \in Seq(Key) /\ Glued(Keys(W, l) \o Keys(W, r), Keys(W, l), Keys(W, r))
      BY <2>0, ConcatGlued
    <3>. QED  BY <1>11, <2>1, <3>1
  <2>2. CASE Lev(W, l) # 0
    <3>1. /\ Append(Keys(W, l), e) \o Keys(W, r) \in Seq(Key)
          /\ Spliced(Append(Keys(W, l), e) \o Keys(W, r), Keys(W, l), e, Keys(W, r))
      BY <1>2, <2>0, AppendSpliced
    <3>. QED  BY <1>11, <2>2, <3>1
  <2>. QED  BY <2>1, <2>2
<1>16. Len(Kids(J, p)) \in Nat /\ Len(Kids(J, l)) \in Nat /\ Len(Kids(W, p)) \in Nat
  BY <1>2, <1>13, <1>14
<1>17. /\ \A x \in 1 .. m - 1 : x \in 1 .. Len(Kids(W, p)) /\ Kids(W, p)[x] = Kids(J, p)[x]
       /\ \A x \in m .. Len(Kids(J, p)) : \E y \in 1 .. Len(Kids(W, p)) : y = x + 1 /\ Kids(W, p)[y] = Kids(J, p)[x]
  BY <1>13, <1>16, InsertedIs
<1>18. Kids(J, p)[j] = l
  <2>1. j \in 1 .. m - 1
    BY <1>1, <1>3
  <2>. QED  BY <1>17, <2>1
<1>19. Kids(J, p) \in Seq(Nodes(J))
  <2>1. ASSUME NEW x \in 1 .. Len(Kids(J, p)) PROVE Kids(J, p)[x] \in Nodes(J)
    <3>1. \E y \in 1 .. Len(Kids(W, p)) : y # m /\ Kids(W, p)[y] = Kids(J, p)[x]
      <4>1. CASE x < m
        <5>1. x \in 1 .. m - 1 /\ x # m
          BY <1>1, <1>3, <4>1
        <5>. QED  BY <1>17, <5>1
      <4>2. CASE ~ (x < m)
        <5>1. x \in m .. Len(Kids(J, p))
          BY <1>1, <1>3, <1>16, <4>2
        <5>2. PICK y \in 1 .. Len(Kids(W, p)) : y = x + 1 /\ Kids(W, p)[y] = Kids(J, p)[x]
          BY <1>17, <5>1
        <5>3. y # m
          BY <1>1, <1>3, <4>2, <5>2
        <5>. QED  BY <5>2, <5>3
      <4>. QED  BY <4>1, <4>2
    <3>2. PICK y \in 1 .. Len(Kids(W, p)) : y # m /\ Kids(W, p)[y] = Kids(J, p)[x]
      BY <3>1
    <3>3. Kids(W, p)[y] \in Nodes(W)
      BY NodeFacts
    <3>4. Kids(W, p)[y] # r
      BY <1>3, <3>2, KidsApart
    <3>. QED  BY <1>9, <3>2, <3>3, <3>4
  <2>. QED  BY <1>13, <2>1, SeqOfOthers
<1>20. /\ \A i \in 1 .. Len(Kids(W, l)) : Kids(W, l)[i] \in Nodes(J)
       /\ \A i \in 1 .. Len(Kids(W, r)) : Kids(W, r)[i] \in Nodes(J)
  <2>1. ASSUME NEW a \in Nodes(W), a # p, NEW i \in 1 .. Len(Kids(W, a)) PROVE Kids(W, a)[i] \in Nodes(J)
    <3>1. PICK c : c = Kids(W, a)[i]
      OBVIOUS
    <3>2. c \in Nodes(W) /\ Up(W, c) = a
      BY <3>1, KidFacts
    <3>. QED  BY <1>5, <1>9, <2>1, <3>1, <3>2
  <2>. QED  BY <1>4, <1>5, <2>1
<1>21. Kids(J, l) \in Seq(Nodes(J))
  <2>1. Len(Kids(W, l)) \in Nat /\ Len(Kids(W, r)) \in Nat
    BY <1>8
  <2>2. ASSUME NEW i \in 1 .. Len(Kids(J, l)) PROVE Kids(J, l)[i] \in Nodes(J)
    <3>1. \/ i \in 1 .. Len(Kids(W, l)) /\ Kids(J, l)[i] = Kids(W, l)[i]
          \/ \E x \in 1 .. Len(Kids(W, r)) : i = Len(Kids(W, l)) + x /\ Kids(J, l)[i] = Kids(W, r)[x]
      BY <1>14, <2>1, GluedParts
    <3>. QED  BY <1>20, <3>1
  <2>. QED  BY <1>14, <2>2, SeqOfOthers
<1>22. \A k \in Span(W, l) : k \in Key /\ k \in Nat /\ k < e
  <2>1. Span(W, l) \subseteq Key
    BY <1>4 DEF Tree, NodeOK
  <2>. QED  BY <1>2, <1>3, <1>4, <2>1, KeysAreNumbers DEF Gap
<1>23. \A k \in Span(W, r) : k \in Key /\ k \in Nat /\ e <= k
  <2>1. Span(W, r) \subseteq Key
    BY <1>5 DEF Tree, NodeOK
  <2>2. m > 1 /\ m - 1 = j
    BY <1>1, <1>3
  <2>. QED  BY <1>5, <2>1, <2>2, KeysAreNumbers DEF Gap
<1>24. /\ Span(W, l) = {k \in Span(J, l) : k < e} /\ Span(W, r) = {k \in Span(J, l) : e <= k}
       /\ Span(J, l) \subseteq Key
  <2>1. e \in Nat
    BY <1>2, KeysAreNumbers
  <2>2. \A k \in Span(J, l) : k < e <=> k \in Span(W, l)
    BY <1>11, <1>22, <1>23, <2>1
  <2>3. \A k \in Span(J, l) : e <= k <=> k \in Span(W, r)
    BY <1>11, <1>22, <1>23, <2>1
  <2>. QED  BY <1>11, <1>22, <1>23, <2>2, <2>3
<1>25. \A c \in Nodes(J) : IF IsKid(W, r, c) THEN Up(J, c) = l /\ Up(W, c) = r ELSE Up(W, c) = Up(J, c)
  <2>1. ASSUME NEW c \in Nodes(J), IsKid(W, r, c) PROVE Up(W, c) = r
    <3>1. PICK i \in 1 .. Len(Kids(W, r)) : c = Kids(W, r)[i]
      BY <2>1 DEF IsKid
    <3>. QED  BY <1>5, <3>1, KidFacts
  <2>. QED  BY <1>9, <2>1
<1>26. Nodes(W) = Nodes(J) \cup {r} /\ r \in Page
  BY <1>5, <1>9 DEF Tree
<1>27. Halved(J, W, p, j, l, r, e)
  <2>1. Inserted(Keys(W, p), Keys(J, p), j, e) /\ Inserted(Kids(W, p), Kids(J, p), j + 1, r)
    BY <1>1, <1>12, <1>13
  <2>2. Lev(W, r) = Lev(J, l) /\ \A a \in Nodes(J) : Lev(W, a) = Lev(J, a)
    BY <1>7, <1>9, <1>11
  <2>3. \A a \in Nodes(J) \ {p, l} : Keys(W, a) = Keys(J, a) /\ Kids(W, a) = Kids(J, a)
    BY <1>9
  <2>4. \A a \in Nodes(J) \ {l} : Span(W, a) = Span(J, a)
    BY <1>9
  <2>. QED  BY <1>4, <1>5, <1>8, <1>9, <1>10, <1>11, <1>14, <1>15, <1>18, <1>24, <1>25, <1>26, <2>1, <2>2, <2>3, <2>4 DEF Halved
<1>28. Tree(J)
  <2>1. Arrays(J, p) /\ Arrays(J, l)
    BY <1>12, <1>15, <1>19, <1>21 DEF Arrays
  <2>. QED  BY <1>24, <1>27, <2>1, Unhalve
<1>. QED  BY <1>1, <1>11, <1>27, <1>28

Part(J, p, j, l, r, e, kl, cl, kr, cr) ==
  [set  |-> Nodes(J) \cup {r}, top |-> Top(J),
   lev  |-> [a \in Nodes(J) \cup {r} |-> IF a = r THEN Lev(J, l) ELSE Lev(J, a)],
   keys |-> [a \in Nodes(J) \cup {r} |->
               IF a = r THEN kr ELSE IF a = l THEN kl
               ELSE IF a = p THEN InsertAt(Keys(J, p), j, e) ELSE Keys(J, a)],
   kids |-> [a \in Nodes(J) \cup {r} |->
               IF a = r THEN cr ELSE IF a = l THEN cl
               ELSE IF a = p THEN InsertAt(Kids(J, p), j + 1, r) ELSE Kids(J, a)],
   up   |-> [a \in Nodes(J) \cup {r} |->
               IF a = r THEN p ELSE IF \E i \in 1 .. Len(cr) : cr[i] = a THEN r ELSE Up(J, a)],
   span |-> [a \in Nodes(J) \cup {r} |->
               IF a = r THEN {k \in Span(J, l) : e <= k}
               ELSE IF a = l THEN {k \in Span(J, l) : k < e} ELSE Span(J, a)]]

\* kl and kr are two parts of l's keys, and e parts them; so do cl and cr of its children.
Cut(J, l, e, kl, cl, kr, cr) ==
  /\ kl \in Seq(Key) /\ kr \in Seq(Key) /\ cl \in Seq(Nodes(J)) /\ cr \in Seq(Nodes(J))
  /\ Lev(J, l) = 0 => Glued(Keys(J, l), kl, kr) /\ Len(kl) >= 1 /\ Len(kr) >= 1 /\ e = kr[1]
  /\ Lev(J, l) # 0 => Spliced(Keys(J, l), kl, e, kr) /\ Len(cl) = Len(kl) + 1
  /\ Glued(Kids(J, l), cl, cr)

\* W is J with its node l, the j-th child of p, parted in l and r.
Parting(J, W, p, j, l, r, e, kl, cl, kr, cr) ==
  /\ Tree(J) /\ p \in Nodes(J) /\ j \in 1 .. Len(Kids(J, p)) /\ l = Kids(J, p)[j]
  /\ r \in Page /\ r \notin Nodes(J)
  /\ Cut(J, l, e, kl, cl, kr, cr)
  /\ W = Part(J, p, j, l, r, e, kl, cl, kr, cr)

\* A node of a search tree can be parted at every place but the ends.
THEOREM PartTree ==
  ASSUME NEW J, NEW W, NEW p, NEW j, NEW l, NEW r, NEW e, NEW kl, NEW cl, NEW kr, NEW cr,
         Parting(J, W, p, j, l, r, e, kl, cl, kr, cr)
  PROVE  /\ Tree(W) /\ Halved(J, W, p, j, l, r, e)
         /\ Keys(W, l) = kl /\ Kids(W, l) = cl /\ Keys(W, r) = kr /\ Kids(W, r) = cr
         /\ Keys(W, p) = InsertAt(Keys(J, p), j, e) /\ Kids(W, p) = InsertAt(Kids(J, p), j + 1, r)
<1>. /\ Tree(J) /\ p \in Nodes(J) /\ j \in 1 .. Len(Kids(J, p)) /\ l = Kids(J, p)[j]
     /\ r \in Page /\ r \notin Nodes(J)
     /\ W = Part(J, p, j, l, r, e, kl, cl, kr, cr)
  BY DEF Parting
<1>. Cut(J, l, e, kl, cl, kr, cr)
  BY DEF Parting
<1>. /\ kl \in Seq(Key) /\ kr \in Seq(Key) /\ cl \in Seq(Nodes(J)) /\ cr \in Seq(Nodes(J))
     /\ Lev(J, l) = 0 => Glued(Keys(J, l), kl, kr) /\ Len(kl) >= 1 /\ Len(kr) >= 1 /\ e = kr[1]
     /\ Lev(J, l) # 0 => Spliced(Keys(J, l), kl, e, kr) /\ Len(cl) = Len(kl) + 1
     /\ Glued(Kids(J, l), cl, cr)
  BY DEF Cut
<1>1. /\ Keys(J, p) \in Seq(Key) /\ Kids(J, p) \in Seq(Nodes(J)) /\ Len(Keys(J, p)) \in Nat /\ Len(Kids(J, p)) \in Nat
  <2>1. Keys(J, p) \in Seq(Key) /\ Kids(J, p) \in Seq(Nodes(J))
    BY NodeFacts
  <2>. QED  BY <2>1
<1>2. /\ l \in Nodes(J) /\ l # Top(J) /\ Up(J, l) = p /\ Lev(J, l) + 1 = Lev(J, p) /\ Lev(J, p) # 0 /\ l # p
      /\ j \in Nat /\ j >= 1 /\ j <= Len(Keys(J, p)) + 1 /\ r # l /\ r # p
  BY KidFacts
<1>3. Len(Kids(J, p)) = Len(Keys(J, p)) + 1
  BY <1>2, NodeFacts
<1>4. /\ Nodes(W) = Nodes(J) \cup {r} /\ Top(W) = Top(J)
      /\ \A a \in Nodes(W) :
           /\ Lev(W, a) = IF a = r THEN Lev(J, l) ELSE Lev(J, a)
           /\ a = r => Keys(W, a) = kr /\ Kids(W, a) = cr
           /\ a # r /\ a = l => Keys(W, a) = kl /\ Kids(W, a) = cl
           /\ a # r /\ a # l /\ a = p => /\ Keys(W, a) = InsertAt(Keys(J, p), j, e)
                                         /\ Kids(W, a) = InsertAt(Kids(J, p), j + 1, r)
           /\ a # r /\ a # l /\ a # p => Keys(W, a) = Keys(J, a) /\ Kids(W, a) = Kids(J, a)
           /\ Up(W, a) = IF a = r THEN p ELSE IF \E i \in 1 .. Len(cr) : cr[i] = a THEN r ELSE Up(J, a)
           /\ Span(W, a) = IF a = r THEN {k \in Span(J, l) : e <= k}
                           ELSE IF a = l THEN {k \in Span(J, l) : k < e} ELSE Span(J, a)
  BY Zenon DEF Part, Nodes, Top, Lev, Keys, Kids, Up, Span
<1>5. /\ Keys(W, l) = kl /\ Kids(W, l) = cl /\ Keys(W, r) = kr /\ Kids(W, r) = cr
      /\ Keys(W, p) = InsertAt(Keys(J, p), j, e) /\ Kids(W, p) = InsertAt(Kids(J, p), j + 1, r)
      /\ Lev(W, r) = Lev(J, l) /\ \A a \in Nodes(J) : Lev(W, a) = Lev(J, a)
      /\ \A a \in Nodes(J) \ {p, l} : Keys(W, a) = Keys(J, a) /\ Kids(W, a) = Kids(J, a)
      /\ Up(W, r) = p
      /\ \A a \in Nodes(J) \ {l} : Span(W, a) = Span(J, a)
      /\ Span(W, l) = {k \in Span(J, l) : k < e} /\ Span(W, r) = {k \in Span(J, l) : e <= k}
  BY <1>2, <1>4
<1>6. /\ Len(kl) \in Nat /\ Len(kr) \in Nat /\ Len(cl) \in Nat /\ Len(cr) \in Nat
      /\ \A i \in 1 .. Len(kl) : kl[i] \in Key /\ kl[i] \in Nat
      /\ \A i \in 1 .. Len(kr) : kr[i] \in Key /\ kr[i] \in Nat
  <2>1. /\ \A i \in 1 .. Len(kl) : kl[i] \in Key
        /\ \A i \in 1 .. Len(kr) : kr[i] \in Key
    OBVIOUS
  <2>2. /\ \A i \in 1 .. Len(kl) : kl[i] \in Nat
        /\ \A i \in 1 .. Len(kr) : kr[i] \in Nat
    BY <2>1, KeysAreNumbers
  <2>3. /\ Len(kl) \in Nat /\ Len(kr) \in Nat /\ Len(cl) \in Nat /\ Len(cr) \in Nat
    OBVIOUS
  <2>. QED  BY <2>1, <2>2, <2>3
<1>7. /\ Keys(J, l) \in Seq(Nat) /\ Sorted(Keys(J, l)) /\ Len(Keys(J, l)) \in Nat
      /\ \A i \in 1 .. Len(Keys(J, l)) : Keys(J, l)[i] \in Key /\ Keys(J, l)[i] \in Nat /\ Keys(J, l)[i] \in Span(J, l)
      /\ kl \in Seq(Nat) /\ kr \in Seq(Nat)
  <2>1. kl \in Seq(Nat) /\ kr \in Seq(Nat)
    BY KeysAreNumbers, SeqMonotonic, Zenon
  <2>2. l \in Nodes(J)
    BY <1>2
  <2>. QED  BY <2>1, <2>2, NodeFacts
<1>8. e \in Key /\ e \in Nat /\ Parts(J, W, l, r, e)
  <2>1. CASE Lev(J, l) = 0
    <3>1. Glued(Keys(J, l), kl, kr) /\ Len(kl) >= 1 /\ Len(kr) >= 1 /\ e = kr[1]
      BY <2>1
    <3>2. Sorted(kl) /\ Sorted(kr) /\ \A i \in 1 .. Len(kl), x \in 1 .. Len(kr) : kl[i] < kr[x]
      BY <1>7, <3>1, GluedSorted
    <3>3. 1 \in 1 .. Len(kl) /\ 1 \in 1 .. Len(kr)
      BY <1>6, <3>1
    <3>4. /\ \A i \in 1 .. Len(kl) : i \in 1 .. Len(Keys(J, l)) /\ Keys(J, l)[i] = kl[i]
          /\ \A x \in 1 .. Len(kr) : \E i \in 1 .. Len(Keys(J, l)) : i = Len(kl) + x /\ Keys(J, l)[i] = kr[x]
      BY <1>6, <3>1, GluedIs
    <3>5. e \in Key /\ e \in Nat /\ e \in Span(J, l)
      BY <1>6, <1>7, <3>1, <3>3, <3>4
    <3>6. kl[1] < e /\ kl[1] \in Span(J, l)
      BY <1>7, <3>1, <3>2, <3>3, <3>4
    <3>7. \A i \in 1 .. Len(kl) : kl[i] < e
      BY <3>1, <3>2, <3>3
    <3>8. ASSUME NEW i \in 1 .. Len(kr) PROVE e <= kr[i]
      <4>1. CASE i = 1
        BY <1>6, <3>1, <4>1
      <4>2. CASE i # 1
        <5>1. 1 < i
          BY <4>2
        <5>2. \A x, y \in 1 .. Len(kr) : x < y => kr[x] < kr[y]
          BY <1>7, <3>2, SortedIs
        <5>. QED  BY <1>6, <3>1, <3>3, <5>1, <5>2
      <4>. QED  BY <4>1, <4>2
    <3>. QED  BY <1>5, <3>5, <3>6, <3>7, <3>8 DEF Parts
  <2>2. CASE Lev(J, l) # 0
    <3>1. Spliced(Keys(J, l), kl, e, kr)
      BY <2>2
    <3>2. /\ Len(Keys(J, l)) = Len(kl) + 1 + Len(kr)
          /\ Len(kl) + 1 \in 1 .. Len(Keys(J, l)) /\ Keys(J, l)[Len(kl) + 1] = e
      BY <1>6, <3>1, SplicedIs
    <3>3. e \in Key /\ e \in Nat /\ e \in Span(J, l)
      BY <1>7, <3>2
    <3>4. Len(Keys(J, l)) >= 1 /\ 1 \in 1 .. Len(Keys(J, l))
      BY <1>6, <1>7, <3>2
    <3>5. PICK x \in Key : x \in Span(J, l) /\ x < Keys(J, l)[1]
      BY <1>2, <2>2, <3>4, BelowFirst
    <3>6. x < e
      <4>1. PICK y : y = Len(kl) + 1
        OBVIOUS
      <4>2. y \in 1 .. Len(Keys(J, l)) /\ Keys(J, l)[y] = e
        BY <3>2, <4>1
      <4>3. \A z, w \in 1 .. Len(Keys(J, l)) : z < w => Keys(J, l)[z] < Keys(J, l)[w]
        BY <1>2, NodeFacts
      <4>4. y = 1 \/ 1 < y
        BY <4>2
      <4>5. Keys(J, l)[1] <= e
        <5>1. CASE y = 1
          BY <3>3, <4>2, <5>1
        <5>2. CASE 1 < y
          <6>1. Keys(J, l)[1] < Keys(J, l)[y]
            BY <3>4, <4>2, <4>3, <5>2
          <6>2. Keys(J, l)[1] \in Nat
            BY <1>7, <3>4
          <6>. QED  BY <3>3, <4>2, <6>1, <6>2
        <5>. QED  BY <4>4, <5>1, <5>2
      <4>. QED  BY <1>7, <3>3, <3>4, <3>5, <4>5, KeysAreNumbers
    <3>. QED  BY <2>2, <3>3, <3>5, <3>6 DEF Parts
  <2>. QED  BY <2>1, <2>2
<1>9. Keys(W, p) \in Seq(Key) /\ Inserted(Keys(W, p), Keys(J, p), j, e)
  <2>1. j \in 1 .. Len(Keys(J, p)) + 1
    BY <1>1, <1>2
  <2>2. InsertAt(Keys(J, p), j, e) \in Seq(Key) /\ Inserted(InsertAt(Keys(J, p), j, e), Keys(J, p), j, e)
    BY <1>1, <1>8, <2>1, InsertAtInserted
  <2>. QED  BY <1>5, <2>2
<1>10. Kids(W, p) \in Seq(Nodes(W)) /\ Inserted(Kids(W, p), Kids(J, p), j + 1, r)
  <2>1. PICK m : m = j + 1
    OBVIOUS
  <2>2. m \in 1 .. Len(Kids(J, p)) + 1
    BY <1>1, <1>2, <1>3, <2>1
  <2>3. Kids(J, p) \in Seq(Nodes(W)) /\ r \in Nodes(W)
    BY <1>1, <1>4, SeqMonotonic, Zenon
  <2>4. InsertAt(Kids(J, p), m, r) \in Seq(Nodes(W)) /\ Inserted(InsertAt(Kids(J, p), m, r), Kids(J, p), m, r)
    BY <2>2, <2>3, InsertAtInserted
  <2>. QED  BY <1>5, <2>1, <2>4
<1>11. Arrays(W, p) /\ Arrays(W, l) /\ Arrays(W, r)
  <2>1. cl \in Seq(Nodes(W)) /\ cr \in Seq(Nodes(W))
    BY <1>4, SeqMonotonic, Zenon
  <2>. QED  BY <1>5, <1>9, <1>10, <2>1 DEF Arrays
<1>12. \A c \in Nodes(J) : IF IsKid(W, r, c) THEN Up(J, c) = l /\ Up(W, c) = r ELSE Up(W, c) = Up(J, c)
  <2>1. ASSUME NEW c \in Nodes(J), IsKid(W, r, c) PROVE Up(J, c) = l /\ Up(W, c) = r
    <3>1. PICK x \in 1 .. Len(cr) : cr[x] = c
      BY <1>5, <2>1 DEF IsKid
    <3>2. \A y \in 1 .. Len(cr) : \E i \in 1 .. Len(Kids(J, l)) : i = Len(cl) + y /\ Kids(J, l)[i] = cr[y]
      <4>1. Glued(Kids(J, l), cl, cr)
        OBVIOUS
      <4>. QED  BY ONLY <1>6, <4>1, GluedIs
    <3>3. PICK i \in 1 .. Len(Kids(J, l)) : c = Kids(J, l)[i]
      BY <3>1, <3>2
    <3>4. Up(J, c) = l
      BY <1>2, <3>3, KidFacts
    <3>. QED  BY <1>4, <2>1, <3>1, <3>4
  <2>2. ASSUME NEW c \in Nodes(J), ~ IsKid(W, r, c) PROVE Up(W, c) = Up(J, c)
    BY <1>4, <1>5, <2>2 DEF IsKid
  <2>. QED  BY <2>1, <2>2
<1>13. Halved(J, W, p, j, l, r, e)
  <2>1. IF Lev(J, l) = 0 THEN Glued(Keys(J, l), Keys(W, l), Keys(W, r))
                        ELSE Spliced(Keys(J, l), Keys(W, l), e, Keys(W, r))
    BY <1>5
  <2>2. Glued(Kids(J, l), Kids(W, l), Kids(W, r)) /\ (Lev(J, l) # 0 => Len(Kids(W, l)) = Len(Keys(W, l)) + 1)
    BY <1>5
  <2>3. r \in Page \ Nodes(J) /\ Nodes(W) = Nodes(J) \cup {r} /\ Top(W) = Top(J) /\ p # l /\ Kids(J, p)[j] = l
    BY <1>2, <1>4
  <2>. QED  BY <1>2, <1>5, <1>9, <1>10, <1>12, <2>1, <2>2, <2>3 DEF Halved
<1>14. Tree(W)
  BY <1>8, <1>11, <1>13, Halve
<1>. QED  BY <1>5, <1>13, <1>14

-----------------------------------------------------------------------------
(* The keys of a leaf change, and the tree grows and shrinks at the root.   *)

Write(T, a, ks) ==
  [set |-> Nodes(T), top |-> Top(T), lev |-> [x \in Nodes(T) |-> Lev(T, x)],
   keys |-> [x \in Nodes(T) |-> IF x = a THEN ks ELSE Keys(T, x)],
   kids |-> [x \in Nodes(T) |-> Kids(T, x)],
   up   |-> [x \in Nodes(T) |-> Up(T, x)],
   span |-> [x \in Nodes(T) |-> Span(T, x)]]

\* The rows of a leaf may be any that are sought there.
LEMMA WriteTree ==
  ASSUME NEW T, Tree(T), NEW a \in Nodes(T), Lev(T, a) = 0,
         NEW ks \in Seq(Key), Sorted(ks), \A i \in 1 .. Len(ks) : ks[i] \in Span(T, a),
         NEW W, W = Write(T, a, ks)
  PROVE  /\ Tree(W) /\ Nodes(W) = Nodes(T) /\ Top(W) = Top(T) /\ Keys(W, a) = ks
         /\ \A x \in Nodes(T) : /\ Lev(W, x) = Lev(T, x) /\ Kids(W, x) = Kids(T, x) /\ Up(W, x) = Up(T, x)
                                /\ Span(W, x) = Span(T, x) /\ (x # a => Keys(W, x) = Keys(T, x))
<1>1. /\ Nodes(W) = Nodes(T) /\ Top(W) = Top(T)
      /\ \A x \in Nodes(T) : /\ Lev(W, x) = Lev(T, x) /\ Kids(W, x) = Kids(T, x) /\ Up(W, x) = Up(T, x)
                             /\ Span(W, x) = Span(T, x) /\ Keys(W, x) = IF x = a THEN ks ELSE Keys(T, x)
  BY Zenon DEF Write, Nodes, Top, Lev, Keys, Kids, Up, Span
<1>2. /\ Nodes(T) \subseteq Page /\ Top(T) \in Nodes(T) /\ Up(T, Top(T)) = Nil /\ Span(T, Top(T)) = Key
      /\ \A x \in Nodes(T) : NodeOK(T, x)
      /\ \A x \in Nodes(T) : \A j \in 1 .. Len(Kids(T, x)) : KidOK(T, x, j)
      /\ \A c \in Nodes(T) \ {Top(T)} : Hung(T, c)
  BY DEF Tree
<1>3. ASSUME NEW x \in Nodes(T) PROVE NodeOK(W, x)
  <2>1. NodeOK(T, x)
    BY <1>2
  <2>2. CASE x = a
    BY <1>1, <1>2, <2>1, <2>2 DEF NodeOK
  <2>3. CASE x # a
    BY <1>1, <1>2, <2>1, <2>3 DEF NodeOK
  <2>. QED  BY <2>2, <2>3
<1>4. ASSUME NEW x \in Nodes(T), NEW j \in 1 .. Len(Kids(T, x)) PROVE KidOK(W, x, j)
  <2>1. x # a
    BY <1>4, NodeFacts
  <2>2. KidOK(T, x, j)
    BY <1>2, <1>4
  <2>3. Kids(W, x) = Kids(T, x) /\ Keys(W, x) = Keys(T, x) /\ Span(W, x) = Span(T, x) /\ Lev(W, x) = Lev(T, x)
    BY <1>1, <2>1
  <2>. QED  BY <1>1, <2>2, <2>3 DEF KidOK, Slot
<1>5. ASSUME NEW c \in Nodes(T), c # Top(T) PROVE Hung(W, c)
  <2>1. Hung(T, c)
    BY <1>2, <1>5
  <2>2. Up(T, c) \in Nodes(T)
    BY <2>1 DEF Hung
  <2>3. Up(W, c) = Up(T, c) /\ Kids(W, Up(T, c)) = Kids(T, Up(T, c)) /\ Span(W, c) = Span(T, c)
    BY <1>1, <2>2
  <2>. QED  BY <1>1, <2>1, <2>3 DEF Hung
<1>6. Tree(W)
  BY <1>1, <1>2, <1>3, <1>4, <1>5 DEF Tree
<1>. QED  BY <1>1, <1>6

\* A new root above the old one, which is to be split.
Grow(T, y) ==
  [set |-> Nodes(T) \cup {y}, top |-> y,
   lev  |-> [x \in Nodes(T) \cup {y} |-> IF x = y THEN Lev(T, Top(T)) + 1 ELSE Lev(T, x)],
   keys |-> [x \in Nodes(T) \cup {y} |-> IF x = y THEN << >> ELSE Keys(T, x)],
   kids |-> [x \in Nodes(T) \cup {y} |-> IF x = y THEN <<Top(T)>> ELSE Kids(T, x)],
   up   |-> [x \in Nodes(T) \cup {y} |-> IF x = y THEN Nil ELSE IF x = Top(T) THEN y ELSE Up(T, x)],
   span |-> [x \in Nodes(T) \cup {y} |-> IF x = y THEN Key ELSE Span(T, x)]]

\* A root above the root.
LEMMA GrowTree ==
  ASSUME NEW T, Tree(T), NEW y \in Page, y \notin Nodes(T), NEW k \in Key, NEW W, W = Grow(T, y)
  PROVE  /\ Tree(W) /\ Nodes(W) = Nodes(T) \cup {y} /\ Top(W) = y
         /\ Keys(W, y) = << >> /\ Kids(W, y) = <<Top(T)>> /\ Up(W, Top(T)) = y /\ Lev(W, y) # 0
         /\ \A x \in Nodes(T) : /\ Lev(W, x) = Lev(T, x) /\ Keys(W, x) = Keys(T, x) /\ Kids(W, x) = Kids(T, x)
                                /\ Span(W, x) = Span(T, x) /\ (x # Top(T) => Up(W, x) = Up(T, x))
<1>1. /\ Nodes(W) = Nodes(T) \cup {y} /\ Top(W) = y
      /\ \A x \in Nodes(W) : /\ Lev(W, x) = IF x = y THEN Lev(T, Top(T)) + 1 ELSE Lev(T, x)
                             /\ Keys(W, x) = IF x = y THEN << >> ELSE Keys(T, x)
                             /\ Kids(W, x) = IF x = y THEN <<Top(T)>> ELSE Kids(T, x)
                             /\ Up(W, x) = IF x = y THEN Nil ELSE IF x = Top(T) THEN y ELSE Up(T, x)
                             /\ Span(W, x) = IF x = y THEN Key ELSE Span(T, x)
  BY Zenon DEF Grow, Nodes, Top, Lev, Keys, Kids, Up, Span
<1>2. /\ Nodes(T) \subseteq Page /\ Top(T) \in Nodes(T) /\ Up(T, Top(T)) = Nil /\ Span(T, Top(T)) = Key
      /\ \A x \in Nodes(T) : NodeOK(T, x)
      /\ \A x \in Nodes(T) : \A j \in 1 .. Len(Kids(T, x)) : KidOK(T, x, j)
      /\ \A c \in Nodes(T) \ {Top(T)} : Hung(T, c)
  BY DEF Tree
<1>3. /\ Lev(W, y) = Lev(T, Top(T)) + 1 /\ Keys(W, y) = << >> /\ Kids(W, y) = <<Top(T)>> /\ Up(W, y) = Nil /\ Span(W, y) = Key
      /\ Up(W, Top(T)) = y
  BY <1>1, <1>2
<1>4. \A x \in Nodes(T) : /\ Lev(W, x) = Lev(T, x) /\ Keys(W, x) = Keys(T, x) /\ Kids(W, x) = Kids(T, x)
                          /\ Span(W, x) = Span(T, x) /\ (x # Top(T) => Up(W, x) = Up(T, x))
  BY <1>1
<1>5. Lev(T, Top(T)) \in Nat /\ \A x \in Nodes(T) : Lev(T, x) \in Nat /\ Lev(T, x) <= Lev(T, Top(T))
  BY <1>2, NodeFacts
<1>6. Lev(W, y) \in Nat /\ Lev(W, y) # 0
  BY <1>3, <1>5
<1>7. /\ Len(Keys(W, y)) = 0 /\ Len(Kids(W, y)) = 1 /\ Kids(W, y)[1] = Top(T)
      /\ Keys(W, y) \in Seq(Key) /\ Kids(W, y) \in Seq(Nodes(W)) /\ Sorted(Keys(W, y))
  <2>1. /\ Len(<< >>) = 0 /\ << >> \in Seq(Key) /\ DOMAIN << >> = {}
        /\ Len(<<Top(T)>>) = 1 /\ <<Top(T)>>[1] = Top(T) /\ <<Top(T)>> \in Seq(Nodes(W))
    BY <1>1, <1>2
  <2>. QED  BY <1>3, <2>1 DEF Sorted
<1>8. ASSUME NEW x \in Nodes(W) PROVE NodeOK(W, x)
  <2>1. CASE x = y
    <3>1. \A i \in 1 .. Len(Keys(W, y)) : Keys(W, y)[i] \in Span(W, y)
      BY <1>7
    <3>2. Len(Kids(W, y)) = IF Lev(W, y) = 0 THEN 0 ELSE Len(Keys(W, y)) + 1
      BY <1>6, <1>7
    <3>3. Lev(W, y) <= Lev(W, Top(W)) /\ Span(W, y) \subseteq Key
      BY <1>1, <1>3, <1>6
    <3>. QED  BY <1>6, <1>7, <2>1, <3>1, <3>2, <3>3 DEF NodeOK
  <2>2. CASE x # y
    <3>1. x \in Nodes(T) /\ NodeOK(T, x) /\ Kids(T, x) \in Seq(Nodes(T))
      BY <1>1, <1>2, <2>2 DEF NodeOK
    <3>2. Kids(T, x) \in Seq(Nodes(W))
      BY <1>1, <3>1, SeqMonotonic, Zenon
    <3>3. Lev(W, x) <= Lev(W, Top(W))
      BY <1>1, <1>3, <1>4, <1>5, <3>1
    <3>4. Lev(W, x) = Lev(T, x) /\ Keys(W, x) = Keys(T, x) /\ Kids(W, x) = Kids(T, x) /\ Span(W, x) = Span(T, x)
      BY <1>4, <3>1
    <3>. QED  BY <3>1, <3>2, <3>3, <3>4 DEF NodeOK
  <2>. QED  BY <2>1, <2>2
<1>9. ASSUME NEW x \in Nodes(W), NEW j \in 1 .. Len(Kids(W, x)) PROVE KidOK(W, x, j)
  <2>1. CASE x = y
    <3>1. j = 1
      <4>1. Len(Kids(W, x)) = 1
        BY <1>7, <2>1
      <4>2. \A i \in 1 .. 1 : i = 1
        OBVIOUS
      <4>. QED  BY <1>9, <4>1, <4>2
    <3>2. \A z \in Key : Slot(W, y, 1, z)
      BY <1>7 DEF Slot, Gap
    <3>3. Lev(W, Top(T)) + 1 = Lev(W, y) /\ Span(W, Top(T)) = Key /\ Top(T) \in Nodes(W)
      BY <1>1, <1>2, <1>3, <1>4
    <3>. QED  BY <1>3, <1>7, <2>1, <3>1, <3>2, <3>3 DEF KidOK
  <2>2. CASE x # y
    <3>1. x \in Nodes(T) /\ j \in 1 .. Len(Kids(T, x))
      BY <1>1, <1>4, <1>9, <2>2
    <3>2. PICK c : c = Kids(T, x)[j]
      OBVIOUS
    <3>3. /\ c \in Nodes(T) /\ c # Top(T) /\ Up(T, c) = x /\ Lev(T, c) + 1 = Lev(T, x)
          /\ \A z \in Key : z \in Span(T, c) <=> z \in Span(T, x) /\ Slot(T, x, j, z)
      BY <3>1, <3>2, KidFacts
    <3>4. /\ Kids(W, x)[j] = c /\ Up(W, c) = x /\ Lev(W, c) + 1 = Lev(W, x) /\ c \in Nodes(W)
          /\ Span(W, c) = Span(T, c) /\ Span(W, x) = Span(T, x) /\ Keys(W, x) = Keys(T, x)
      BY <1>1, <1>4, <3>1, <3>2, <3>3
    <3>. QED  BY <3>3, <3>4 DEF KidOK, Slot
  <2>. QED  BY <2>1, <2>2
<1>10. ASSUME NEW c \in Nodes(W), c # Top(W) PROVE Hung(W, c)
  <2>0. c \in Nodes(T)
    BY <1>1, <1>10
  <2>1. CASE c = Top(T)
    <3>1. 1 \in 1 .. Len(Kids(W, y)) /\ Span(W, c) = Key
      BY <1>2, <1>4, <1>7, <2>0, <2>1
    <3>. QED  BY <1>1, <1>3, <1>7, <2>1, <3>1 DEF Hung
  <2>2. CASE c # Top(T)
    <3>1. Hung(T, c)
      BY <1>2, <2>0, <2>2
    <3>2. Up(T, c) \in Nodes(T)
      BY <3>1 DEF Hung
    <3>3. Up(W, c) = Up(T, c) /\ Kids(W, Up(T, c)) = Kids(T, Up(T, c)) /\ Span(W, c) = Span(T, c)
      BY <1>4, <2>0, <2>2, <3>2
    <3>. QED  BY <1>1, <3>1, <3>2, <3>3 DEF Hung
  <2>. QED  BY <2>1, <2>2
<1>11. Tree(W)
  BY <1>1, <1>2, <1>3, <1>8, <1>9, <1>10 DEF Tree
<1>. QED  BY <1>1, <1>3, <1>4, <1>6, <1>11

\* The root moves to another page.
Rename(T, y) ==
  [set |-> (Nodes(T) \ {Top(T)}) \cup {y}, top |-> y,
   lev  |-> [x \in (Nodes(T) \ {Top(T)}) \cup {y} |-> IF x = y THEN Lev(T, Top(T)) ELSE Lev(T, x)],
   keys |-> [x \in (Nodes(T) \ {Top(T)}) \cup {y} |-> IF x = y THEN Keys(T, Top(T)) ELSE Keys(T, x)],
   kids |-> [x \in (Nodes(T) \ {Top(T)}) \cup {y} |-> IF x = y THEN Kids(T, Top(T)) ELSE Kids(T, x)],
   up   |-> [x \in (Nodes(T) \ {Top(T)}) \cup {y} |->
               IF x = y THEN Nil ELSE IF IsKid(T, Top(T), x) THEN y ELSE Up(T, x)],
   span |-> [x \in (Nodes(T) \ {Top(T)}) \cup {y} |-> IF x = y THEN Key ELSE Span(T, x)]]

\* The root on another page.
LEMMA RenameTree ==
  ASSUME NEW T, Tree(T), NEW y \in Page, y \notin Nodes(T), NEW W, W = Rename(T, y)
  PROVE  /\ Tree(W) /\ Nodes(W) = (Nodes(T) \ {Top(T)}) \cup {y} /\ Top(W) = y
         /\ Keys(W, y) = Keys(T, Top(T)) /\ Kids(W, y) = Kids(T, Top(T)) /\ Lev(W, y) = Lev(T, Top(T))
         /\ \A x \in Nodes(T) \ {Top(T)} :
              /\ Lev(W, x) = Lev(T, x) /\ Keys(W, x) = Keys(T, x) /\ Kids(W, x) = Kids(T, x)
              /\ Span(W, x) = Span(T, x) /\ Up(W, x) = IF IsKid(T, Top(T), x) THEN y ELSE Up(T, x)
<1>0. PICK t : t = Top(T)
  OBVIOUS
<1>1. /\ Nodes(W) = (Nodes(T) \ {t}) \cup {y} /\ Top(W) = y
      /\ \A x \in Nodes(W) : /\ Lev(W, x) = IF x = y THEN Lev(T, t) ELSE Lev(T, x)
                             /\ Keys(W, x) = IF x = y THEN Keys(T, t) ELSE Keys(T, x)
                             /\ Kids(W, x) = IF x = y THEN Kids(T, t) ELSE Kids(T, x)
                             /\ Up(W, x) = IF x = y THEN Nil ELSE IF IsKid(T, t, x) THEN y ELSE Up(T, x)
                             /\ Span(W, x) = IF x = y THEN Key ELSE Span(T, x)
  BY <1>0, Zenon DEF Rename, Nodes, Top, Lev, Keys, Kids, Up, Span
<1>2. /\ Nodes(T) \subseteq Page /\ t \in Nodes(T) /\ Up(T, t) = Nil /\ Span(T, t) = Key
      /\ \A x \in Nodes(T) : NodeOK(T, x)
      /\ \A c \in Nodes(T) \ {t} : Hung(T, c)
  BY <1>0 DEF Tree
<1>3. /\ Lev(W, y) = Lev(T, t) /\ Keys(W, y) = Keys(T, t) /\ Kids(W, y) = Kids(T, t) /\ Up(W, y) = Nil /\ Span(W, y) = Key
  BY <1>1
<1>4. \A x \in Nodes(T) \ {t} : /\ Lev(W, x) = Lev(T, x) /\ Keys(W, x) = Keys(T, x) /\ Kids(W, x) = Kids(T, x) /\ x \in Nodes(W)
                                /\ Span(W, x) = Span(T, x) /\ Up(W, x) = IF IsKid(T, t, x) THEN y ELSE Up(T, x)
  BY <1>1
<1>5. ASSUME NEW x \in Nodes(T) PROVE Kids(T, x) \in Seq(Nodes(W))
  <2>1. Kids(T, x) \in Seq(Nodes(T))
    BY NodeFacts
  <2>2. ASSUME NEW i \in 1 .. Len(Kids(T, x)) PROVE Kids(T, x)[i] \in Nodes(W)
    <3>1. PICK c : c = Kids(T, x)[i]
      OBVIOUS
    <3>2. c \in Nodes(T) /\ c # Top(T)
      BY <3>1, KidFacts
    <3>. QED  BY <1>0, <1>1, <3>1, <3>2
  <2>. QED  BY <2>1, <2>2, SeqOfOthers
<1>6. ASSUME NEW x \in Nodes(W) PROVE NodeOK(W, x)
  <2>1. CASE x = y
    <3>1. NodeOK(T, t) /\ Kids(T, t) \in Seq(Nodes(W)) /\ Lev(W, x) <= Lev(W, Top(W))
      <4>1. Lev(T, t) \in Nat /\ NodeOK(T, t)
        BY <1>2, NodeFacts
      <4>. QED  BY <1>1, <1>2, <1>3, <1>5, <2>1, <4>1
    <3>2. Span(W, x) = Span(T, t)
      BY <1>2, <1>3, <2>1
    <3>. QED  BY <1>3, <2>1, <3>1, <3>2 DEF NodeOK
  <2>2. CASE x # y
    <3>1. x \in Nodes(T) \ {t} /\ NodeOK(T, x) /\ Kids(T, x) \in Seq(Nodes(W))
      BY <1>1, <1>2, <1>5, <2>2
    <3>2. Lev(W, x) = Lev(T, x) /\ Keys(W, x) = Keys(T, x) /\ Kids(W, x) = Kids(T, x) /\ Span(W, x) = Span(T, x)
      BY <1>4, <3>1
    <3>3. Lev(W, Top(W)) = Lev(T, Top(T))
      BY <1>0, <1>1, <1>3
    <3>. QED  BY <3>1, <3>2, <3>3 DEF NodeOK
  <2>. QED  BY <2>1, <2>2
<1>7. ASSUME NEW x \in Nodes(W), NEW j \in 1 .. Len(Kids(W, x)) PROVE KidOK(W, x, j)
  <2>1. PICK z \in Nodes(T) : /\ Kids(W, x) = Kids(T, z) /\ Keys(W, x) = Keys(T, z) /\ Lev(W, x) = Lev(T, z) /\ Span(W, x) = Span(T, z)
                              /\ IF z = t THEN x = y ELSE x = z
    <3>1. CASE x = y
      BY <1>2, <1>3, <3>1
    <3>2. CASE x # y
      BY <1>1, <1>4, <3>2
    <3>. QED  BY <3>1, <3>2
  <2>2. PICK c : c = Kids(T, z)[j] /\ j \in 1 .. Len(Kids(T, z))
    BY <2>1
  <2>3. /\ c \in Nodes(T) /\ c # Top(T) /\ Up(T, c) = z /\ Lev(T, c) + 1 = Lev(T, z)
        /\ \A k \in Key : k \in Span(T, c) <=> k \in Span(T, z) /\ Slot(T, z, j, k)
    BY <2>2, KidFacts
  <2>4. c \in Nodes(W) /\ Lev(W, c) = Lev(T, c) /\ Span(W, c) = Span(T, c)
    BY <1>0, <1>4, <2>3
  <2>5. Up(W, c) = x
    <3>1. CASE z = t
      <4>1. IsKid(T, t, c)
        BY <2>2, <3>1 DEF IsKid
      <4>. QED  BY <1>0, <1>4, <2>1, <2>3, <3>1, <4>1
    <3>2. CASE z # t
      <4>1. ~ IsKid(T, t, c)
        <5>. SUFFICES ASSUME IsKid(T, t, c) PROVE FALSE
          OBVIOUS
        <5>1. PICK i \in 1 .. Len(Kids(T, t)) : c = Kids(T, t)[i]
          BY DEF IsKid
        <5>2. Up(T, c) = t
          BY <1>2, <5>1, KidFacts
        <5>. QED  BY <2>3, <3>2, <5>2
      <4>. QED  BY <1>0, <1>4, <2>1, <2>3, <3>2, <4>1
    <3>. QED  BY <3>1, <3>2
  <2>. QED  BY <2>1, <2>2, <2>3, <2>4, <2>5 DEF KidOK, Slot
<1>8. ASSUME NEW c \in Nodes(W), c # Top(W) PROVE Hung(W, c)
  <2>1. c \in Nodes(T) \ {t} /\ Hung(T, c)
    BY <1>1, <1>2, <1>8
  <2>2. Up(T, c) \in Nodes(T) /\ (\E i \in 1 .. Len(Kids(T, Up(T, c))) : Kids(T, Up(T, c))[i] = c) /\ Span(W, c) = Span(T, c)
    BY <1>4, <2>1 DEF Hung
  <2>3. CASE IsKid(T, t, c)
    <3>1. Up(W, c) = y /\ Kids(W, y) = Kids(T, t)
      BY <1>3, <1>4, <2>1, <2>3
    <3>. QED  BY <1>1, <2>1, <2>2, <2>3, <3>1 DEF Hung, IsKid
  <2>4. CASE ~ IsKid(T, t, c)
    <3>1. Up(T, c) # t
      BY <2>2, <2>4 DEF IsKid
    <3>2. Up(W, c) = Up(T, c) /\ Kids(W, Up(T, c)) = Kids(T, Up(T, c)) /\ Up(T, c) \in Nodes(W)
      BY <1>4, <2>1, <2>2, <2>4, <3>1
    <3>. QED  BY <2>1, <2>2, <3>2 DEF Hung
  <2>. QED  BY <2>3, <2>4
<1>9. Tree(W)
  <2>1. Nodes(W) \subseteq Page /\ Top(W) \in Nodes(W) /\ Up(W, Top(W)) = Nil /\ Span(W, Top(W)) = Key
    BY <1>1, <1>2, <1>3
  <2>. QED  BY <1>6, <1>7, <1>8, <2>1 DEF Tree
<1>. QED  BY <1>0, <1>1, <1>3, <1>4, <1>9

\* A root without keys makes way for its only child.
Shrink(T, c) ==
  [set |-> Nodes(T) \ {Top(T)}, top |-> c,
   lev  |-> [x \in Nodes(T) \ {Top(T)} |-> Lev(T, x)],
   keys |-> [x \in Nodes(T) \ {Top(T)} |-> Keys(T, x)],
   kids |-> [x \in Nodes(T) \ {Top(T)} |-> Kids(T, x)],
   up   |-> [x \in Nodes(T) \ {Top(T)} |-> IF x = c THEN Nil ELSE Up(T, x)],
   span |-> [x \in Nodes(T) \ {Top(T)} |-> Span(T, x)]]

\* A root without rows goes.
LEMMA ShrinkTree ==
  ASSUME NEW T, Tree(T), Lev(T, Top(T)) # 0, Len(Keys(T, Top(T))) = 0, NEW c, c = Kids(T, Top(T))[1],
         NEW W, W = Shrink(T, c)
  PROVE  /\ Tree(W) /\ Nodes(W) = Nodes(T) \ {Top(T)} /\ Top(W) = c /\ c \in Nodes(T) /\ c # Top(T)
         /\ Lev(T, c) + 1 = Lev(T, Top(T))
         /\ \A x \in Nodes(W) : /\ Lev(W, x) = Lev(T, x) /\ Keys(W, x) = Keys(T, x) /\ Kids(W, x) = Kids(T, x)
                                /\ Span(W, x) = Span(T, x) /\ Up(W, x) = IF x = c THEN Nil ELSE Up(T, x)
<1>0. PICK t : t = Top(T)
  OBVIOUS
<1>1. /\ Nodes(W) = Nodes(T) \ {t} /\ Top(W) = c
      /\ \A x \in Nodes(W) : /\ Lev(W, x) = Lev(T, x) /\ Keys(W, x) = Keys(T, x) /\ Kids(W, x) = Kids(T, x)
                             /\ Span(W, x) = Span(T, x) /\ Up(W, x) = IF x = c THEN Nil ELSE Up(T, x)
  BY <1>0, Zenon DEF Shrink, Nodes, Top, Lev, Keys, Kids, Up, Span
<1>2. /\ Nodes(T) \subseteq Page /\ t \in Nodes(T) /\ Up(T, t) = Nil /\ Span(T, t) = Key
      /\ \A x \in Nodes(T) : NodeOK(T, x)
      /\ \A x \in Nodes(T) \ {t} : Hung(T, x)
  BY <1>0 DEF Tree
<1>3. Len(Kids(T, t)) = 1
  <2>1. Len(Kids(T, t)) = Len(Keys(T, t)) + 1
    BY <1>0, <1>2, NodeFacts
  <2>. QED  BY <1>0, <2>1
<1>4. \A i \in 1 .. 1 : i = 1
  OBVIOUS
<1>5. 1 \in 1 .. Len(Kids(T, t)) /\ c = Kids(T, t)[1]
  BY <1>0, <1>3
<1>6. /\ c \in Nodes(T) /\ c # t /\ Up(T, c) = t /\ Lev(T, c) + 1 = Lev(T, t)
      /\ \A k \in Key : k \in Span(T, c) <=> k \in Span(T, t) /\ Slot(T, t, 1, k)
  BY <1>0, <1>2, <1>5, KidFacts
<1>7. Span(T, c) = Key
  <2>1. \A k \in Key : Slot(T, t, 1, k)
    BY <1>0 DEF Slot, Gap
  <2>2. NodeOK(T, c)
    BY <1>2, <1>6
  <2>. QED  BY <1>2, <1>6, <2>1, <2>2 DEF NodeOK
<1>8. ASSUME NEW x \in Nodes(T), x # t, x # c PROVE Up(T, x) \in Nodes(T) /\ Up(T, x) # t
  <2>1. Hung(T, x)
    BY <1>2, <1>8
  <2>2. Up(T, x) \in Nodes(T)
    BY <2>1 DEF Hung
  <2>3. ASSUME Up(T, x) = t PROVE FALSE
    <3>1. PICK i \in 1 .. Len(Kids(T, t)) : Kids(T, t)[i] = x
      BY <2>1, <2>3 DEF Hung
    <3>. QED  BY <1>3, <1>4, <1>5, <1>8, <3>1
  <2>. QED  BY <2>2, <2>3
<1>9. ASSUME NEW x \in Nodes(T), x # t, NEW j \in 1 .. Len(Kids(T, x)), NEW d, d = Kids(T, x)[j]
      PROVE  /\ d \in Nodes(W) /\ d # c /\ Up(T, d) = x /\ Lev(T, d) + 1 = Lev(T, x)
             /\ \A k \in Key : k \in Span(T, d) <=> k \in Span(T, x) /\ Slot(T, x, j, k)
  <2>1. /\ d \in Nodes(T) /\ d # Top(T) /\ Up(T, d) = x /\ Lev(T, d) + 1 = Lev(T, x)
        /\ \A k \in Key : k \in Span(T, d) <=> k \in Span(T, x) /\ Slot(T, x, j, k)
    BY <1>9, KidFacts
  <2>2. d # c
    BY <1>6, <1>9, <2>1
  <2>. QED  BY <1>0, <1>1, <2>1, <2>2
<1>10. ASSUME NEW x \in Nodes(W) PROVE NodeOK(W, x)
  <2>1. x \in Nodes(T) /\ x # t /\ NodeOK(T, x)
    BY <1>1, <1>2
  <2>2. Kids(T, x) \in Seq(Nodes(W))
    <3>1. Kids(T, x) \in Seq(Nodes(T))
      BY <2>1, NodeFacts
    <3>2. \A i \in 1 .. Len(Kids(T, x)) : Kids(T, x)[i] \in Nodes(W)
      BY <1>9, <2>1
    <3>. QED  BY <3>1, <3>2, SeqOfOthers
  <2>3. Lev(T, x) <= Lev(T, c)
    <3>1. Lev(T, x) < Lev(T, Top(T)) /\ Lev(T, x) \in Nat /\ Lev(T, Top(T)) \in Nat /\ Lev(T, c) \in Nat
      BY <1>0, <1>6, <2>1, HungFacts, NodeFacts
    <3>. QED  BY <1>0, <1>6, <3>1
  <2>4. Lev(W, Top(W)) = Lev(T, c)
    BY <1>1, <1>6
  <2>5. /\ Lev(W, x) = Lev(T, x) /\ Keys(W, x) = Keys(T, x) /\ Kids(W, x) = Kids(T, x) /\ Span(W, x) = Span(T, x)
    BY <1>1
  <2>. QED  BY <2>1, <2>2, <2>3, <2>4, <2>5 DEF NodeOK
<1>11. ASSUME NEW x \in Nodes(W), NEW j \in 1 .. Len(Kids(W, x)) PROVE KidOK(W, x, j)
  <2>1. x \in Nodes(T) /\ x # t /\ Kids(W, x) = Kids(T, x) /\ Keys(W, x) = Keys(T, x) /\ Span(W, x) = Span(T, x) /\ Lev(W, x) = Lev(T, x)
    BY <1>1
  <2>2. PICK d : d = Kids(T, x)[j] /\ j \in 1 .. Len(Kids(T, x))
    BY <2>1
  <2>3. /\ d \in Nodes(W) /\ d # c /\ Up(T, d) = x /\ Lev(T, d) + 1 = Lev(T, x)
        /\ \A k \in Key : k \in Span(T, d) <=> k \in Span(T, x) /\ Slot(T, x, j, k)
    BY <1>9, <2>1, <2>2
  <2>4. Up(W, d) = x /\ Lev(W, d) = Lev(T, d) /\ Span(W, d) = Span(T, d)
    BY <1>1, <2>3
  <2>. QED  BY <2>1, <2>2, <2>3, <2>4 DEF KidOK, Slot
<1>12. ASSUME NEW x \in Nodes(W), x # Top(W) PROVE Hung(W, x)
  <2>1. x \in Nodes(T) /\ x # t /\ x # c /\ Hung(T, x)
    BY <1>1, <1>2, <1>12
  <2>2. Up(T, x) \in Nodes(W) /\ Up(W, x) = Up(T, x) /\ Span(W, x) = Span(T, x)
    BY <1>1, <1>8, <1>12, <2>1
  <2>3. Kids(W, Up(T, x)) = Kids(T, Up(T, x))
    BY <1>1, <2>2
  <2>. QED  BY <2>1, <2>2, <2>3 DEF Hung
<1>13. Tree(W)
  <2>1. Nodes(W) \subseteq Page /\ Top(W) \in Nodes(W) /\ Up(W, Top(W)) = Nil /\ Span(W, Top(W)) = Key
    BY <1>1, <1>2, <1>6, <1>7
  <2>. QED  BY <1>10, <1>11, <1>12, <2>1 DEF Tree
<1>. QED  BY <1>0, <1>1, <1>6, <1>13

-----------------------------------------------------------------------------
(* The keys of a tree: those stored, in the leaves, and the separators.     *)

Has(T, a, k) == \E i \in 1 .. Len(Keys(T, a)) : Keys(T, a)[i] = k

LeafKeys(T)  == {k \in Key : \E a \in Nodes(T) : Lev(T, a) = 0 /\ Has(T, a, k)}
InnerKeys(T) == {k \in Key : \E a \in Nodes(T) : Lev(T, a) # 0 /\ Has(T, a, k)}

\* A key is in its node once.
LEMMA HasIsKey ==
  ASSUME NEW T, Tree(T), NEW a \in Nodes(T), NEW k, Has(T, a, k)
  PROVE  k \in Key /\ k \in Span(T, a)
BY NodeFacts DEF Has

\* A node has a key once.
LEMMA HasOnce ==
  ASSUME NEW T, Tree(T), NEW a \in Nodes(T), NEW i \in 1 .. Len(Keys(T, a)), NEW j \in 1 .. Len(Keys(T, a)),
         Keys(T, a)[i] = Keys(T, a)[j]
  PROVE  i = j
<1>1. /\ \A x, y \in 1 .. Len(Keys(T, a)) : x < y => Keys(T, a)[x] < Keys(T, a)[y]
      /\ \A x \in 1 .. Len(Keys(T, a)) : Keys(T, a)[x] \in Nat
  BY NodeFacts
<1>2. ~ (i < j) /\ ~ (j < i)
  BY <1>1
<1>. QED  BY <1>2

\* A separator is in one node.
LEMMA DistinctHas ==
  ASSUME NEW T, Tree(T), NEW a \in Nodes(T), NEW b \in Nodes(T), Lev(T, a) # 0, Lev(T, b) # 0,
         NEW k, Has(T, a, k), Has(T, b, k)
  PROVE  a = b
BY Distinct DEF Has

\* A stored key is in the leaf that a search for it leads to.
LEMMA HasInLeaf ==
  ASSUME NEW T, Tree(T), NEW a \in Nodes(T), Lev(T, a) = 0, NEW k \in Key, k \in Span(T, a)
  PROVE  k \in LeafKeys(T) <=> Has(T, a, k)
<1>1. ASSUME NEW b \in Nodes(T), Lev(T, b) = 0, Has(T, b, k) PROVE b = a
  BY <1>1, HasIsKey, Apart
<1>. QED  BY <1>1 DEF LeafKeys

\* Parting a node leaves the stored keys as they are, and adds one separator
\* when the node is a leaf.
LEMMA HalvedKeys ==
  ASSUME NEW J, NEW W, NEW p, NEW j, NEW l, NEW r, NEW e, Tree(J), Tree(W), Halved(J, W, p, j, l, r, e)
  PROVE  /\ LeafKeys(W) = LeafKeys(J) /\ InnerKeys(W) = InnerKeys(J) \cup {e} /\ e \in Key
         /\ Lev(J, l) = 0 => e \notin InnerKeys(J)
         /\ Lev(J, l) # 0 => e \in InnerKeys(J)
<1>1. /\ Nodes(W) = Nodes(J) \cup {r} /\ r \notin Nodes(J)
      /\ p \in Nodes(J) /\ l \in Nodes(J) /\ p # l
      /\ Lev(W, r) = Lev(J, l) /\ \A a \in Nodes(J) : Lev(W, a) = Lev(J, a)
      /\ \A a \in Nodes(J) \ {p, l} : Keys(W, a) = Keys(J, a)
  BY DEF Halved
<1>2. Inserted(Keys(W, p), Keys(J, p), j, e)
  BY DEF Halved
<1>3. IF Lev(J, l) = 0 THEN Glued(Keys(J, l), Keys(W, l), Keys(W, r))
                      ELSE Spliced(Keys(J, l), Keys(W, l), e, Keys(W, r))
  BY DEF Halved
<1>4. /\ Len(Keys(J, p)) \in Nat /\ Len(Kids(J, p)) \in Nat
      /\ Len(Keys(W, l)) \in Nat /\ Len(Keys(W, r)) \in Nat
  <2>1. Kids(J, p) \in Seq(Nodes(J)) /\ Len(Keys(J, p)) \in Nat
    BY <1>1, NodeFacts
  <2>2. Len(Kids(J, p)) \in Nat
    BY <2>1
  <2>3. l \in Nodes(W) /\ r \in Nodes(W)
    BY <1>1
  <2>. QED  BY <2>1, <2>2, <2>3, NodeFacts
<1>5. e \in Key /\ Lev(W, p) # 0 /\ p \in Nodes(W)
  BY <1>4, HalvesAre
<1>6. \A k : Has(W, p, k) <=> Has(J, p, k) \/ k = e
  <2>1. /\ j \in 1 .. Len(Keys(W, p)) /\ Keys(W, p)[j] = e
        /\ \A i \in 1 .. j - 1 : i \in 1 .. Len(Keys(J, p)) /\ i \in 1 .. Len(Keys(W, p)) /\ Keys(W, p)[i] = Keys(J, p)[i]
        /\ \A i \in j .. Len(Keys(J, p)) : \E x \in 1 .. Len(Keys(W, p)) : x = i + 1 /\ Keys(W, p)[x] = Keys(J, p)[i]
        /\ j \in Nat
    BY <1>2, <1>4, InsertedIs
  <2>2. ASSUME NEW k, Has(W, p, k) PROVE Has(J, p, k) \/ k = e
    <3>1. PICK i \in 1 .. Len(Keys(W, p)) : Keys(W, p)[i] = k
      BY <2>2 DEF Has
    <3>2. \/ i \in 1 .. j - 1 /\ i \in 1 .. Len(Keys(J, p)) /\ Keys(W, p)[i] = Keys(J, p)[i]
          \/ i = j /\ Keys(W, p)[i] = e
          \/ \E x \in j .. Len(Keys(J, p)) : x \in 1 .. Len(Keys(J, p)) /\ i = x + 1 /\ Keys(W, p)[i] = Keys(J, p)[x]
      BY <1>2, <1>4, InsertedParts
    <3>. QED  BY <3>1, <3>2 DEF Has
  <2>3. ASSUME NEW k, Has(J, p, k) PROVE Has(W, p, k)
    <3>1. PICK i \in 1 .. Len(Keys(J, p)) : Keys(J, p)[i] = k
      BY <2>3 DEF Has
    <3>2. i \in 1 .. j - 1 \/ i \in j .. Len(Keys(J, p))
      BY <1>4, <2>1
    <3>. QED  BY <2>1, <3>1, <3>2 DEF Has
  <2>. QED  BY <2>1, <2>2, <2>3 DEF Has
<1>7. Lev(J, l) = 0 => \A k : Has(J, l, k) <=> Has(W, l, k) \/ Has(W, r, k)
  <2>1. SUFFICES ASSUME Lev(J, l) = 0, NEW k PROVE Has(J, l, k) <=> Has(W, l, k) \/ Has(W, r, k)
    OBVIOUS
  <2>2. Glued(Keys(J, l), Keys(W, l), Keys(W, r))
    BY <1>3, <2>1
  <2>3. /\ \A i \in 1 .. Len(Keys(W, l)) : i \in 1 .. Len(Keys(J, l)) /\ Keys(J, l)[i] = Keys(W, l)[i]
        /\ \A x \in 1 .. Len(Keys(W, r)) : \E i \in 1 .. Len(Keys(J, l)) : Keys(J, l)[i] = Keys(W, r)[x]
    BY <1>4, <2>2, GluedIs
  <2>4. \A i \in 1 .. Len(Keys(J, l)) :
          \/ i \in 1 .. Len(Keys(W, l)) /\ Keys(J, l)[i] = Keys(W, l)[i]
          \/ \E x \in 1 .. Len(Keys(W, r)) : i = Len(Keys(W, l)) + x /\ Keys(J, l)[i] = Keys(W, r)[x]
    BY <1>4, <2>2, GluedParts
  <2>. QED  BY <2>3, <2>4 DEF Has
<1>8. Lev(J, l) # 0 => \A k : Has(J, l, k) <=> Has(W, l, k) \/ k = e \/ Has(W, r, k)
  <2>1. SUFFICES ASSUME Lev(J, l) # 0, NEW k PROVE Has(J, l, k) <=> Has(W, l, k) \/ k = e \/ Has(W, r, k)
    OBVIOUS
  <2>2. Spliced(Keys(J, l), Keys(W, l), e, Keys(W, r))
    BY <1>3, <2>1
  <2>3. /\ \A i \in 1 .. Len(Keys(W, l)) : i \in 1 .. Len(Keys(J, l)) /\ Keys(J, l)[i] = Keys(W, l)[i]
        /\ \A x \in 1 .. Len(Keys(W, r)) : \E i \in 1 .. Len(Keys(J, l)) : Keys(J, l)[i] = Keys(W, r)[x]
        /\ \E i \in 1 .. Len(Keys(J, l)) : Keys(J, l)[i] = e
    BY <1>4, <2>2, SplicedIs
  <2>4. \A i \in 1 .. Len(Keys(J, l)) :
          \/ i \in 1 .. Len(Keys(W, l)) /\ Keys(J, l)[i] = Keys(W, l)[i]
          \/ i = Len(Keys(W, l)) + 1 /\ Keys(J, l)[i] = e
          \/ \E x \in 1 .. Len(Keys(W, r)) : i = Len(Keys(W, l)) + 1 + x /\ Keys(J, l)[i] = Keys(W, r)[x]
    BY <1>4, <2>2, SplicedParts
  <2>. QED  BY <2>3, <2>4 DEF Has
<1>9. \A a \in Nodes(J) \ {p, l} : \A k : Has(W, a, k) <=> Has(J, a, k)
  BY <1>1 DEF Has
<1>10. Lev(J, p) # 0 /\ Lev(W, l) = Lev(J, l)
  BY <1>1, <1>5
<1>11. LeafKeys(W) = LeafKeys(J)
  <2>1. ASSUME NEW k, NEW a \in Nodes(W), Lev(W, a) = 0, Has(W, a, k)
        PROVE  \E b \in Nodes(J) : Lev(J, b) = 0 /\ Has(J, b, k)
    <3>1. a # p
      BY <1>5, <2>1
    <3>2. CASE a \in {l, r}
      BY <1>1, <1>7, <2>1, <3>2
    <3>3. CASE a \notin {l, r}
      BY <1>1, <1>9, <2>1, <3>1, <3>3
    <3>. QED  BY <3>2, <3>3
  <2>2. ASSUME NEW k, NEW a \in Nodes(J), Lev(J, a) = 0, Has(J, a, k)
        PROVE  \E b \in Nodes(W) : Lev(W, b) = 0 /\ Has(W, b, k)
    <3>1. a # p
      BY <1>10, <2>2
    <3>2. CASE a = l
      BY <1>1, <1>7, <2>2, <3>2
    <3>3. CASE a # l
      BY <1>1, <1>9, <2>2, <3>1, <3>3
    <3>. QED  BY <3>2, <3>3
  <2>. QED  BY <2>1, <2>2 DEF LeafKeys
<1>12. InnerKeys(W) = InnerKeys(J) \cup {e}
  <2>1. ASSUME NEW k, NEW a \in Nodes(W), Lev(W, a) # 0, Has(W, a, k)
        PROVE  k = e \/ \E b \in Nodes(J) : Lev(J, b) # 0 /\ Has(J, b, k)
    <3>1. CASE a = p
      BY <1>1, <1>6, <1>10, <2>1, <3>1
    <3>2. CASE a \in {l, r}
      BY <1>1, <1>8, <2>1, <3>2
    <3>3. CASE a \notin {p, l, r}
      BY <1>1, <1>9, <2>1, <3>3
    <3>. QED  BY <3>1, <3>2, <3>3
  <2>2. ASSUME NEW k, NEW a \in Nodes(J), Lev(J, a) # 0, Has(J, a, k)
        PROVE  \E b \in Nodes(W) : Lev(W, b) # 0 /\ Has(W, b, k)
    <3>1. CASE a = p
      BY <1>5, <1>6, <2>2, <3>1
    <3>2. CASE a = l
      BY <1>1, <1>5, <1>6, <1>8, <2>2, <3>2
    <3>3. CASE a \notin {p, l}
      BY <1>1, <1>9, <2>2, <3>3
    <3>. QED  BY <3>1, <3>2, <3>3
  <2>3. Has(W, p, e)
    BY <1>6
  <2>. QED  BY <1>5, <2>1, <2>2, <2>3 DEF InnerKeys
<1>13. Lev(J, l) # 0 => e \in InnerKeys(J)
  BY <1>1, <1>5, <1>8 DEF InnerKeys
<1>14. Lev(J, l) = 0 => e \notin InnerKeys(J)
  <2>1. SUFFICES ASSUME Lev(J, l) = 0, NEW b \in Nodes(J), Lev(J, b) # 0, Has(J, b, e) PROVE FALSE
    BY DEF InnerKeys
  <2>2. b = p
    <3>. SUFFICES ASSUME b # p PROVE FALSE
      OBVIOUS
    <3>1. b # l
      BY <2>1
    <3>2. Has(W, b, e) /\ Has(W, p, e) /\ b \in Nodes(W) /\ Lev(W, b) # 0
      BY <1>1, <1>6, <1>9, <2>1, <3>1
    <3>. QED  BY <1>5, <3>2, DistinctHas
  <2>3. PICK i \in 1 .. Len(Keys(J, p)) : Keys(J, p)[i] = e
    BY <2>1, <2>2 DEF Has
  <2>4. /\ j \in 1 .. Len(Keys(W, p)) /\ Keys(W, p)[j] = e
        /\ \A x \in 1 .. j - 1 : x \in 1 .. Len(Keys(W, p)) /\ Keys(W, p)[x] = Keys(J, p)[x]
        /\ \A x \in j .. Len(Keys(J, p)) : \E y \in 1 .. Len(Keys(W, p)) : y = x + 1 /\ Keys(W, p)[y] = Keys(J, p)[x]
        /\ j \in Nat
    BY <1>2, <1>4, InsertedIs
  <2>5. \E y \in 1 .. Len(Keys(W, p)) : y # j /\ Keys(W, p)[y] = e
    <3>1. CASE i < j
      <4>1. i \in 1 .. j - 1 /\ i # j
        BY <1>4, <2>4, <3>1
      <4>. QED  BY <2>3, <2>4, <4>1
    <3>2. CASE ~ (i < j)
      <4>1. i \in j .. Len(Keys(J, p))
        BY <1>4, <2>4, <3>2
      <4>2. PICK y \in 1 .. Len(Keys(W, p)) : y = i + 1 /\ Keys(W, p)[y] = Keys(J, p)[i]
        BY <2>4, <4>1
      <4>3. y # j
        BY <1>4, <2>4, <3>2, <4>2
      <4>. QED  BY <2>3, <4>2, <4>3
    <3>. QED  BY <3>1, <3>2
  <2>. QED  BY <1>5, <2>4, <2>5, HasOnce
<1>. QED  BY <1>5, <1>11, <1>12, <1>13, <1>14

In(s, k) == \E i \in 1 .. Len(s) : s[i] = k

\* What is in an array with one more or one less.
LEMMA InsertAtHas ==
  ASSUME NEW S, NEW s \in Seq(S), NEW j \in 1 .. Len(s) + 1, NEW e \in S, NEW q, q = InsertAt(s, j, e), NEW k
  PROVE  In(q, k) <=> k = e \/ In(s, k)
<1>1. Inserted(q, s, j, e) /\ Len(s) \in Nat
  BY InsertAtInserted
<1>2. ASSUME NEW i \in 1 .. Len(q), q[i] = k PROVE k = e \/ \E x \in 1 .. Len(s) : s[x] = k
  BY ONLY <1>1, <1>2, InsertedParts
<1>3. /\ j \in 1 .. Len(q) /\ q[j] = e /\ j \in Nat
      /\ \A i \in 1 .. j - 1 : i \in 1 .. Len(q) /\ q[i] = s[i]
      /\ \A i \in j .. Len(s) : i \in 1 .. Len(s) /\ \E x \in 1 .. Len(q) : x = i + 1 /\ q[x] = s[i]
  <2>1. /\ j \in 1 .. Len(q) /\ q[j] = e /\ j \in Nat
        /\ \A i \in 1 .. j - 1 : i \in 1 .. Len(s) /\ i \in 1 .. Len(q) /\ q[i] = s[i]
        /\ \A i \in j .. Len(s) : i \in 1 .. Len(s) /\ \E x \in 1 .. Len(q) : x = i + 1 /\ q[x] = s[i]
    BY ONLY <1>1, InsertedIs
  <2>. QED  BY ONLY <2>1
<1>4. ASSUME NEW i \in 1 .. Len(s) PROVE i \in 1 .. j - 1 \/ i \in j .. Len(s)
  BY <1>1, <1>3
<1>5. ASSUME NEW i \in 1 .. Len(s), s[i] = k PROVE \E x \in 1 .. Len(q) : q[x] = k
  BY <1>3, <1>4, <1>5
<1>. QED  BY <1>2, <1>3, <1>5 DEF In

\* What is in a sequence is in it without its j-th element, or is that element.
LEMMA RemoveAtHas ==
  ASSUME NEW S, NEW s \in Seq(S), NEW j \in 1 .. Len(s), NEW q, q = RemoveAt(s, j), NEW k
  PROVE  In(s, k) <=> k = s[j] \/ In(q, k)
<1>0. PICK e : e = s[j]
  OBVIOUS
<1>1. Inserted(s, q, j, e) /\ Len(q) \in Nat
  BY <1>0, RemoveAtInserted
<1>2. ASSUME NEW i \in 1 .. Len(s), s[i] = k PROVE k = e \/ \E x \in 1 .. Len(q) : q[x] = k
  BY <1>1, <1>2, InsertedParts
<1>3. /\ j \in Nat
      /\ \A i \in 1 .. j - 1 : i \in 1 .. Len(s) /\ s[i] = q[i]
      /\ \A i \in j .. Len(q) : \E x \in 1 .. Len(s) : x = i + 1 /\ s[x] = q[i]
  <2>1. /\ j \in Nat
        /\ \A i \in 1 .. j - 1 : i \in 1 .. Len(q) /\ i \in 1 .. Len(s) /\ s[i] = q[i]
        /\ \A i \in j .. Len(q) : i \in 1 .. Len(q) /\ \E x \in 1 .. Len(s) : x = i + 1 /\ s[x] = q[i]
    BY ONLY <1>1, InsertedIs
  <2>. QED  BY ONLY <2>1
<1>4. ASSUME NEW i \in 1 .. Len(q) PROVE i \in 1 .. j - 1 \/ i \in j .. Len(q)
  BY <1>1, <1>3
<1>5. ASSUME NEW i \in 1 .. Len(q), q[i] = k PROVE \E x \in 1 .. Len(s) : s[x] = k
  BY <1>3, <1>4, <1>5
<1>. QED  BY <1>0, <1>2, <1>3, <1>5 DEF In

\* A key comes to a leaf.
LEMMA PutTree ==
  ASSUME NEW T, Tree(T), NEW a \in Nodes(T), Lev(T, a) = 0, NEW k \in Key, k \in Span(T, a), ~ Has(T, a, k),
         NEW b, Behind(Keys(T, a), k, b), NEW W, W = Write(T, a, InsertAt(Keys(T, a), b + 1, k))
  PROVE  /\ Tree(W) /\ Nodes(W) = Nodes(T) /\ Top(W) = Top(T) /\ Keys(W, a) = InsertAt(Keys(T, a), b + 1, k)
         /\ \A x \in Nodes(T) : /\ Lev(W, x) = Lev(T, x) /\ Kids(W, x) = Kids(T, x) /\ Up(W, x) = Up(T, x)
                                /\ Span(W, x) = Span(T, x) /\ (x # a => Keys(W, x) = Keys(T, x))
         /\ LeafKeys(W) = LeafKeys(T) \cup {k} /\ InnerKeys(W) = InnerKeys(T)
         /\ k \notin LeafKeys(T)
<1>1. PICK s, j, ks : s = Keys(T, a) /\ j = b + 1 /\ ks = InsertAt(s, j, k)
  OBVIOUS
<1>2. s \in Seq(Key) /\ s \in Seq(Nat) /\ Len(s) \in Nat /\ Sorted(s) /\ k \in Nat
  BY <1>1, NodeFacts, KeysAreNumbers
<1>3. b \in 0 .. Len(s) /\ \A i \in 1 .. Len(s) : s[i] < k <=> i <= b
  BY <1>1 DEF Behind
<1>4. j \in 1 .. Len(s) + 1 /\ j - 1 = b
  BY <1>1, <1>2, <1>3
<1>5. \A i \in 1 .. Len(s) : s[i] # k /\ s[i] \in Nat /\ s[i] \in Span(T, a)
  <2>1. \A i \in 1 .. Len(s) : s[i] # k
    BY <1>1 DEF Has
  <2>2. \A i \in 1 .. Len(s) : s[i] \in Nat /\ s[i] \in Span(T, a)
    BY <1>1, NodeFacts
  <2>. QED  BY <2>1, <2>2
<1>6. j > 1 => s[j - 1] < k
  <2>1. j > 1 => b \in 1 .. Len(s)
    BY <1>2, <1>3, <1>4
  <2>. QED  BY <1>3, <1>4, <2>1
<1>7. j <= Len(s) => k < s[j]
  <2>1. j <= Len(s) => j \in 1 .. Len(s) /\ ~ (j <= b)
    BY <1>2, <1>3, <1>4
  <2>. QED  BY <1>2, <1>3, <1>5, <2>1
<1>8. Sorted(ks)
  BY <1>1, <1>2, <1>4, <1>6, <1>7, SortedInsert
<1>9. ks \in Seq(Key)
  BY <1>1, <1>2, <1>4, InsertAtInserted
<1>10. \A x : (\E i \in 1 .. Len(ks) : ks[i] = x) <=> x = k \/ \E i \in 1 .. Len(s) : s[i] = x
  <2>. SUFFICES ASSUME NEW x PROVE In(ks, x) <=> x = k \/ In(s, x)
    BY DEF In
  <2>1. ks = InsertAt(s, j, k) /\ s \in Seq(Key) /\ j \in 1 .. Len(s) + 1
    BY <1>1, <1>2, <1>4
  <2>. QED  BY <2>1, InsertAtHas
<1>11. ASSUME NEW i \in 1 .. Len(ks) PROVE ks[i] \in Span(T, a)
  <2>1. PICK x : x = ks[i]
    OBVIOUS
  <2>2. x = k \/ \E y \in 1 .. Len(s) : s[y] = x
    BY <1>10, <2>1
  <2>. QED  BY <1>5, <2>1, <2>2
<1>12. W = Write(T, a, ks)
  BY <1>1
<1>13. /\ Tree(W) /\ Nodes(W) = Nodes(T) /\ Top(W) = Top(T) /\ Keys(W, a) = ks
       /\ \A x \in Nodes(T) : /\ Lev(W, x) = Lev(T, x) /\ Kids(W, x) = Kids(T, x) /\ Up(W, x) = Up(T, x)
                              /\ Span(W, x) = Span(T, x) /\ (x # a => Keys(W, x) = Keys(T, x))
  BY <1>8, <1>9, <1>11, <1>12, WriteTree
<1>14. /\ \A x : Has(W, a, x) <=> x = k \/ Has(T, a, x)
       /\ \A x, y : y \in Nodes(T) /\ y # a => (Has(W, y, x) <=> Has(T, y, x))
  <2>1. Keys(W, a) = ks /\ Keys(T, a) = s
    BY <1>1, <1>13
  <2>2. \A x : Has(W, a, x) <=> x = k \/ Has(T, a, x)
    BY ONLY <1>10, <2>1 DEF Has
  <2>3. \A x, y : y \in Nodes(T) /\ y # a => (Has(W, y, x) <=> Has(T, y, x))
    BY ONLY <1>13 DEF Has
  <2>. QED  BY <2>2, <2>3
<1>15. InnerKeys(W) = InnerKeys(T)
  BY <1>13, <1>14 DEF InnerKeys
<1>16. LeafKeys(W) = LeafKeys(T) \cup {k}
  BY <1>13, <1>14 DEF LeafKeys
<1>17. k \notin LeafKeys(T)
  BY HasInLeaf
<1>. QED  BY <1>1, <1>13, <1>15, <1>16, <1>17

\* And goes from it.
LEMMA TakeTree ==
  ASSUME NEW T, Tree(T), NEW a \in Nodes(T), Lev(T, a) = 0, NEW i \in 1 .. Len(Keys(T, a)), NEW k, k = Keys(T, a)[i],
         NEW W, W = Write(T, a, RemoveAt(Keys(T, a), i))
  PROVE  /\ Tree(W) /\ Nodes(W) = Nodes(T) /\ Top(W) = Top(T) /\ Keys(W, a) = RemoveAt(Keys(T, a), i)
         /\ \A x \in Nodes(T) : /\ Lev(W, x) = Lev(T, x) /\ Kids(W, x) = Kids(T, x) /\ Up(W, x) = Up(T, x)
                                /\ Span(W, x) = Span(T, x) /\ (x # a => Keys(W, x) = Keys(T, x))
         /\ k \in LeafKeys(T) /\ LeafKeys(W) = LeafKeys(T) \ {k} /\ InnerKeys(W) = InnerKeys(T)
<1>1. PICK s, ks : s = Keys(T, a) /\ ks = RemoveAt(s, i)
  OBVIOUS
<1>2. s \in Seq(Key) /\ s \in Seq(Nat) /\ Len(s) \in Nat /\ Sorted(s) /\ i \in 1 .. Len(s) /\ s[i] = k
  BY <1>1, NodeFacts
<1>3. Sorted(ks)
  BY <1>1, <1>2, SortedRemove
<1>4. ks \in Seq(Key)
  BY <1>1, <1>2, RemoveAtInserted
<1>5. \A x : (\E y \in 1 .. Len(s) : s[y] = x) <=> x = k \/ \E y \in 1 .. Len(ks) : ks[y] = x
  <2>. SUFFICES ASSUME NEW x PROVE In(s, x) <=> x = k \/ In(ks, x)
    BY DEF In
  <2>1. ks = RemoveAt(s, i) /\ s \in Seq(Key) /\ i \in 1 .. Len(s)
    BY <1>1, <1>2
  <2>2. In(s, x) <=> x = s[i] \/ In(ks, x)
    BY <2>1, RemoveAtHas
  <2>. QED  BY <1>2, <2>2
<1>6. ASSUME NEW y \in 1 .. Len(ks) PROVE ks[y] \in Span(T, a)
  <2>1. PICK x : x = ks[y]
    OBVIOUS
  <2>2. \E z \in 1 .. Len(s) : s[z] = x
    BY <1>5, <2>1
  <2>3. \A z \in 1 .. Len(s) : s[z] \in Span(T, a)
    BY <1>1, NodeFacts
  <2>. QED  BY <2>1, <2>2, <2>3
<1>7. W = Write(T, a, ks)
  BY <1>1
<1>8. /\ Tree(W) /\ Nodes(W) = Nodes(T) /\ Top(W) = Top(T) /\ Keys(W, a) = ks
      /\ \A x \in Nodes(T) : /\ Lev(W, x) = Lev(T, x) /\ Kids(W, x) = Kids(T, x) /\ Up(W, x) = Up(T, x)
                             /\ Span(W, x) = Span(T, x) /\ (x # a => Keys(W, x) = Keys(T, x))
  BY <1>3, <1>4, <1>6, <1>7, WriteTree
<1>9. ASSUME NEW y \in 1 .. Len(ks) PROVE ks[y] # k
  <2>1. Inserted(s, ks, i, k) /\ Len(ks) \in Nat
    <3>1. ks = RemoveAt(s, i) /\ s \in Seq(Key) /\ i \in 1 .. Len(s) /\ k = s[i]
      BY <1>1, <1>2
    <3>2. Inserted(s, ks, i, k)
      BY <3>1, RemoveAtInserted, Zenon
    <3>. QED  BY <1>4, <3>2
  <2>2. /\ i \in Nat
        /\ \A x \in 1 .. i - 1 : x \in 1 .. Len(s) /\ s[x] = ks[x]
        /\ \A x \in i .. Len(ks) : \E z \in 1 .. Len(s) : z = x + 1 /\ s[z] = ks[x]
    BY <2>1, InsertedIs
  <2>3. y \in 1 .. i - 1 \/ y \in i .. Len(ks)
    BY <2>1, <2>2
  <2>4. \E z \in 1 .. Len(s) : z # i /\ s[z] = ks[y]
    <3>1. CASE y \in 1 .. i - 1
      BY <2>2, <3>1
    <3>2. CASE y \in i .. Len(ks)
      <4>1. PICK z \in 1 .. Len(s) : z = y + 1 /\ s[z] = ks[y]
        BY <2>2, <3>2
      <4>2. z # i
        BY <2>1, <2>2, <3>2, <4>1
      <4>. QED  BY <4>1, <4>2
    <3>. QED  BY <2>3, <3>1, <3>2
  <2>. QED  BY <1>1, <1>2, <2>4, HasOnce
<1>10. /\ \A x : Has(T, a, x) <=> x = k \/ Has(W, a, x)
       /\ ~ Has(W, a, k)
       /\ \A x, y : y \in Nodes(T) /\ y # a => (Has(W, y, x) <=> Has(T, y, x))
  <2>1. Keys(W, a) = ks /\ Keys(T, a) = s
    BY <1>1, <1>8
  <2>2. \A x : Has(T, a, x) <=> x = k \/ Has(W, a, x)
    BY ONLY <1>5, <2>1 DEF Has
  <2>3. \A x, y : y \in Nodes(T) /\ y # a => (Has(W, y, x) <=> Has(T, y, x))
    BY ONLY <1>8 DEF Has
  <2>4. ~ Has(W, a, k)
    BY ONLY <1>9, <2>1 DEF Has
  <2>. QED  BY <2>2, <2>3, <2>4
<1>11. InnerKeys(W) = InnerKeys(T)
  BY <1>8, <1>10 DEF InnerKeys
<1>12. Has(T, a, k) /\ k \in Key /\ k \in Span(T, a)
  BY <1>10, HasIsKey
<1>13. k \in LeafKeys(T) /\ k \notin LeafKeys(W)
  BY <1>8, <1>10, <1>12, HasInLeaf
<1>14. LeafKeys(W) = LeafKeys(T) \ {k}
  BY <1>8, <1>10, <1>13 DEF LeafKeys
<1>. QED  BY <1>1, <1>8, <1>11, <1>13, <1>14

\* What happens at the root changes no key.
LEMMA GrowKeys ==
  ASSUME NEW T, Tree(T), NEW y \in Page, y \notin Nodes(T), NEW k \in Key, NEW W, W = Grow(T, y)
  PROVE  LeafKeys(W) = LeafKeys(T) /\ InnerKeys(W) = InnerKeys(T)
<1>1. /\ Nodes(W) = Nodes(T) \cup {y} /\ Keys(W, y) = << >>
      /\ \A x \in Nodes(T) : Lev(W, x) = Lev(T, x) /\ Keys(W, x) = Keys(T, x)
  BY GrowTree
<1>2. \A x : ~ Has(W, y, x)
  BY <1>1 DEF Has
<1>3. \A x : \A a \in Nodes(T) : Has(W, a, x) <=> Has(T, a, x)
  BY <1>1 DEF Has
<1>. QED  BY <1>1, <1>2, <1>3 DEF LeafKeys, InnerKeys

\* Renaming the root moves no key.
LEMMA RenameKeys ==
  ASSUME NEW T, Tree(T), NEW y \in Page, y \notin Nodes(T), NEW W, W = Rename(T, y)
  PROVE  LeafKeys(W) = LeafKeys(T) /\ InnerKeys(W) = InnerKeys(T)
<1>1. /\ Nodes(W) = (Nodes(T) \ {Top(T)}) \cup {y} /\ Keys(W, y) = Keys(T, Top(T)) /\ Lev(W, y) = Lev(T, Top(T))
      /\ \A x \in Nodes(T) \ {Top(T)} : Lev(W, x) = Lev(T, x) /\ Keys(W, x) = Keys(T, x)
  BY RenameTree
<1>2. /\ \A x : Has(W, y, x) <=> Has(T, Top(T), x)
      /\ \A x : \A a \in Nodes(T) \ {Top(T)} : Has(W, a, x) <=> Has(T, a, x)
  BY <1>1 DEF Has
<1>3. Top(T) \in Nodes(T)
  BY DEF Tree
<1>4. LeafKeys(W) = LeafKeys(T)
  BY <1>1, <1>2, <1>3 DEF LeafKeys
<1>5. InnerKeys(W) = InnerKeys(T)
  BY <1>1, <1>2, <1>3 DEF InnerKeys
<1>. QED  BY <1>4, <1>5

\* The root's leaving for its only child moves no key.
LEMMA ShrinkKeys ==
  ASSUME NEW T, Tree(T), Lev(T, Top(T)) # 0, Len(Keys(T, Top(T))) = 0, NEW c, c = Kids(T, Top(T))[1],
         NEW W, W = Shrink(T, c)
  PROVE  LeafKeys(W) = LeafKeys(T) /\ InnerKeys(W) = InnerKeys(T)
<1>1. /\ Nodes(W) = Nodes(T) \ {Top(T)}
      /\ \A x \in Nodes(W) : Lev(W, x) = Lev(T, x) /\ Keys(W, x) = Keys(T, x)
  BY ShrinkTree
<1>2. \A x : ~ Has(T, Top(T), x)
  BY DEF Has
<1>3. \A x : \A a \in Nodes(W) : Has(W, a, x) <=> Has(T, a, x)
  BY <1>1 DEF Has
<1>. QED  BY <1>1, <1>2, <1>3 DEF LeafKeys, InnerKeys

-----------------------------------------------------------------------------
(* A node is split, below its parent or below a root that is new.           *)

\* What W has of T when a of T is a and r in W.
Broken(T, W, a, r, e, kl, cl, kr, cr) ==
  /\ Nodes(W) = Nodes(T) \cup {r, Up(T, a)}
  /\ Top(W) = IF a = Top(T) THEN Nil ELSE Top(T)
  /\ Keys(W, a) = kl /\ Kids(W, a) = cl /\ Keys(W, r) = kr /\ Kids(W, r) = cr
  /\ IF a = Top(T)
     THEN Keys(W, Nil) = <<e>> /\ Kids(W, Nil) = <<a, r>> /\ Lev(W, Nil) # 0
     ELSE \E j \in 1 .. Len(Kids(T, Up(T, a))) :
            /\ Kids(T, Up(T, a))[j] = a
            /\ Keys(W, Up(T, a)) = InsertAt(Keys(T, Up(T, a)), j, e)
            /\ Kids(W, Up(T, a)) = InsertAt(Kids(T, Up(T, a)), j + 1, r)
  /\ \A x \in Nodes(T) \ {a, Up(T, a)} : Keys(W, x) = Keys(T, x) /\ Kids(W, x) = Kids(T, x)
  /\ Lev(W, r) = Lev(T, a) /\ \A x \in Nodes(T) : Lev(W, x) = Lev(T, x)
  /\ Up(W, r) = Up(T, a) /\ \A x \in Nodes(T) : Up(W, x) = IF IsKid(W, r, x) THEN r ELSE Up(T, x)

\* A node below the root can be broken in two.
LEMMA BreakBelow ==
  ASSUME NEW T, Tree(T), NEW a \in Nodes(T), a # Top(T), NEW r \in Page, r \notin Nodes(T),
         NEW kl, NEW kr, NEW cl, NEW cr, NEW e, Cut(T, a, e, kl, cl, kr, cr)
  PROVE  \E W : /\ Tree(W) /\ Broken(T, W, a, r, e, kl, cl, kr, cr)
                /\ LeafKeys(W) = LeafKeys(T) /\ InnerKeys(W) = InnerKeys(T) \cup {e} /\ e \in Key
                /\ Lev(T, a) = 0 => e \notin InnerKeys(T)
                /\ Lev(T, a) # 0 => e \in InnerKeys(T)
<1>1. PICK p : p = Up(T, a)
  OBVIOUS
<1>2. p \in Nodes(T) /\ Lev(T, a) + 1 = Lev(T, p) /\ \E j \in 1 .. Len(Kids(T, p)) : Kids(T, p)[j] = a
  BY <1>1, HungFacts
<1>3. PICK j \in 1 .. Len(Kids(T, p)) : Kids(T, p)[j] = a
  BY <1>2
<1>4. a # p
  BY <1>2, <1>3, KidFacts
<1>5. PICK W : W = Part(T, p, j, a, r, e, kl, cl, kr, cr)
  OBVIOUS
<1>6. /\ Tree(W) /\ Halved(T, W, p, j, a, r, e)
      /\ Keys(W, a) = kl /\ Kids(W, a) = cl /\ Keys(W, r) = kr /\ Kids(W, r) = cr
      /\ Keys(W, p) = InsertAt(Keys(T, p), j, e) /\ Kids(W, p) = InsertAt(Kids(T, p), j + 1, r)
  <2>1. a = Kids(T, p)[j] /\ p \in Nodes(T)
    BY <1>2, <1>3
  <2>2. Parting(T, W, p, j, a, r, e, kl, cl, kr, cr)
    BY <1>3, <1>5, <2>1 DEF Parting
  <2>. QED  BY <2>2, PartTree
<1>7. /\ LeafKeys(W) = LeafKeys(T) /\ InnerKeys(W) = InnerKeys(T) \cup {e} /\ e \in Key
      /\ Lev(T, a) = 0 => e \notin InnerKeys(T)
      /\ Lev(T, a) # 0 => e \in InnerKeys(T)
  BY <1>6, HalvedKeys
<1>8. /\ Nodes(W) = Nodes(T) \cup {r} /\ Top(W) = Top(T)
      /\ Lev(W, r) = Lev(T, a) /\ \A x \in Nodes(T) : Lev(W, x) = Lev(T, x)
      /\ \A x \in Nodes(T) \ {p, a} : Keys(W, x) = Keys(T, x) /\ Kids(W, x) = Kids(T, x)
      /\ Up(W, r) = p
      /\ \A c \in Nodes(T) : IF IsKid(W, r, c) THEN Up(T, c) = a /\ Up(W, c) = r ELSE Up(W, c) = Up(T, c)
  BY <1>6 DEF Halved
<1>9. Nodes(W) = Nodes(T) \cup {r, p}
  BY <1>2, <1>8
<1>10. \A x \in Nodes(T) : Up(W, x) = IF IsKid(W, r, x) THEN r ELSE Up(T, x)
  BY <1>8
<1>11. Broken(T, W, a, r, e, kl, cl, kr, cr)
  BY <1>1, <1>3, <1>6, <1>8, <1>9, <1>10 DEF Broken
<1>. QED  BY <1>6, <1>7, <1>11

\* Insertion into a node without keys.
LEMMA InsertBehindOne ==
  ASSUME NEW S, NEW a \in S, NEW r \in S
  PROVE  InsertAt(<< >>, 1, a) = <<a>> /\ InsertAt(<<a>>, 2, r) = <<a, r>>
<1>1. InsertAt(<< >>, 1, a) = <<a>>
  <2>1. PICK w, o : w = InsertAt(o, 1, a) /\ o = << >>
    OBVIOUS
  <2>2. o \in Seq(S) /\ Len(o) = 0 /\ 1 \in 1 .. Len(o) + 1
    BY <2>1
  <2>3. w \in Seq(S) /\ Inserted(w, o, 1, a)
    BY <2>1, <2>2, InsertAtInserted
  <2>4. w \in Seq(S) /\ Len(w) = 1 /\ w[1] = a
    BY <2>2, <2>3 DEF Inserted
  <2>5. w = <<a>>
    BY ONLY <2>4
  <2>. QED  BY <2>1, <2>5
<1>2. InsertAt(<<a>>, 2, r) = <<a, r>>
  <2>1. PICK w, o : w = InsertAt(o, 2, r) /\ o = <<a>>
    OBVIOUS
  <2>2. o \in Seq(S) /\ Len(o) = 1 /\ o[1] = a /\ 2 \in 1 .. Len(o) + 1
    BY <2>1
  <2>3. w \in Seq(S) /\ Inserted(w, o, 2, r)
    BY <2>1, <2>2, InsertAtInserted
  <2>4. w \in Seq(S) /\ Len(w) = 2 /\ w[1] = a /\ w[2] = r
    BY <2>2, <2>3 DEF Inserted
  <2>5. w = <<a, r>>
    BY ONLY <2>4
  <2>. QED  BY <2>1, <2>5
<1>. QED  BY <1>1, <1>2

\* The root can be broken in two, if it has a parent made for it first.
LEMMA BreakTop ==
  ASSUME NEW T, Tree(T), NEW a, a = Top(T), NEW r \in Page, r \notin Nodes(T), Nil \notin Nodes(T), r # Nil,
         NEW kl, NEW kr, NEW cl, NEW cr, NEW e, Cut(T, a, e, kl, cl, kr, cr), NEW k \in Key
  PROVE  \E W : /\ Tree(W) /\ Broken(T, W, a, r, e, kl, cl, kr, cr)
                /\ LeafKeys(W) = LeafKeys(T) /\ InnerKeys(W) = InnerKeys(T) \cup {e} /\ e \in Key
                /\ Lev(T, a) = 0 => e \notin InnerKeys(T)
                /\ Lev(T, a) # 0 => e \in InnerKeys(T)
<1>1. a \in Nodes(T) /\ Up(T, a) = Nil /\ Nil \in Page
  BY DEF Tree, Page
<1>2. PICK J : J = Grow(T, Nil)
  OBVIOUS
<1>3. /\ Tree(J) /\ Nodes(J) = Nodes(T) \cup {Nil} /\ Top(J) = Nil
      /\ Keys(J, Nil) = << >> /\ Kids(J, Nil) = <<a>> /\ Up(J, a) = Nil /\ Lev(J, Nil) # 0
      /\ \A x \in Nodes(T) : /\ Lev(J, x) = Lev(T, x) /\ Keys(J, x) = Keys(T, x) /\ Kids(J, x) = Kids(T, x)
                             /\ Span(J, x) = Span(T, x) /\ (x # a => Up(J, x) = Up(T, x))
  BY <1>1, <1>2, GrowTree
<1>4. LeafKeys(J) = LeafKeys(T) /\ InnerKeys(J) = InnerKeys(T)
  BY <1>1, <1>2, GrowKeys
<1>5. a \in Nodes(J) /\ a # Top(J) /\ r \notin Nodes(J) /\ Up(J, a) = Nil
  BY <1>1, <1>3
<1>6. Keys(J, a) = Keys(T, a) /\ Kids(J, a) = Kids(T, a) /\ Lev(J, a) = Lev(T, a)
  BY <1>1, <1>3
<1>7. Cut(J, a, e, kl, cl, kr, cr)
  <2>1. /\ kl \in Seq(Key) /\ kr \in Seq(Key) /\ cl \in Seq(Nodes(T)) /\ cr \in Seq(Nodes(T))
        /\ Lev(T, a) = 0 => Glued(Keys(T, a), kl, kr) /\ Len(kl) >= 1 /\ Len(kr) >= 1 /\ e = kr[1]
        /\ Lev(T, a) # 0 => Spliced(Keys(T, a), kl, e, kr) /\ Len(cl) = Len(kl) + 1
        /\ Glued(Kids(T, a), cl, cr)
    BY DEF Cut
  <2>2. Nodes(T) \subseteq Nodes(J)
    BY <1>3
  <2>3. cl \in Seq(Nodes(J)) /\ cr \in Seq(Nodes(J))
    BY <2>1, <2>2, SeqMonotonic, Zenon
  <2>. QED  BY ONLY <1>6, <2>1, <2>3 DEF Cut
<1>8. PICK W : /\ Tree(W) /\ Broken(J, W, a, r, e, kl, cl, kr, cr)
               /\ LeafKeys(W) = LeafKeys(J) /\ InnerKeys(W) = InnerKeys(J) \cup {e} /\ e \in Key
               /\ Lev(J, a) = 0 => e \notin InnerKeys(J)
               /\ Lev(J, a) # 0 => e \in InnerKeys(J)
  BY <1>3, <1>5, <1>7, BreakBelow
<1>9. /\ Nodes(W) = Nodes(J) \cup {r, Nil}
      /\ Top(W) = Top(J)
      /\ Keys(W, a) = kl /\ Kids(W, a) = cl /\ Keys(W, r) = kr /\ Kids(W, r) = cr
      /\ \A x \in Nodes(J) \ {a, Nil} : Keys(W, x) = Keys(J, x) /\ Kids(W, x) = Kids(J, x)
      /\ Lev(W, r) = Lev(J, a) /\ \A x \in Nodes(J) : Lev(W, x) = Lev(J, x)
      /\ Up(W, r) = Nil /\ \A x \in Nodes(J) : Up(W, x) = IF IsKid(W, r, x) THEN r ELSE Up(J, x)
  BY <1>5, <1>8 DEF Broken
<1>10. PICK j \in 1 .. Len(Kids(J, Nil)) : /\ Keys(W, Nil) = InsertAt(Keys(J, Nil), j, e)
                                           /\ Kids(W, Nil) = InsertAt(Kids(J, Nil), j + 1, r)
  BY <1>5, <1>8 DEF Broken
<1>11. j = 1
  <2>1. Len(<<a>>) = 1
    OBVIOUS
  <2>. QED  BY <1>3, <1>10, <2>1
<1>12. Keys(W, Nil) = <<e>> /\ Kids(W, Nil) = <<a, r>> /\ Lev(W, Nil) # 0
  <2>1. Keys(W, Nil) = InsertAt(<< >>, 1, e) /\ Kids(W, Nil) = InsertAt(<<a>>, 2, r)
    BY <1>3, <1>10, <1>11
  <2>2. Keys(W, Nil) = <<e>>
    BY <1>8, <2>1, InsertBehindOne, Zenon
  <2>3. Kids(W, Nil) = <<a, r>>
    <3>1. a \in Page
      BY <1>1 DEF Tree
    <3>. QED  BY <2>1, <3>1, InsertBehindOne, Zenon
  <2>. QED  BY <1>3, <1>9, <2>2, <2>3
<1>13. /\ Nodes(W) = Nodes(T) \cup {r, Nil} /\ Top(W) = Nil
       /\ \A x \in Nodes(T) \ {a, Nil} : Keys(W, x) = Keys(T, x) /\ Kids(W, x) = Kids(T, x)
       /\ Lev(W, r) = Lev(T, a) /\ \A x \in Nodes(T) : Lev(W, x) = Lev(T, x)
       /\ \A x \in Nodes(T) : Up(W, x) = IF IsKid(W, r, x) THEN r ELSE Up(T, x)
  BY <1>1, <1>3, <1>6, <1>9
<1>14. Broken(T, W, a, r, e, kl, cl, kr, cr)
  BY <1>1, <1>9, <1>12, <1>13 DEF Broken
<1>. QED  BY <1>4, <1>6, <1>8, <1>14

\* Any node can be broken in two: the tree stays a search tree, and its leaves
\* keep their keys.
LEMMA BreakTree ==
  ASSUME NEW T, Tree(T), Nodes(T) \subseteq Node, NEW a \in Nodes(T), NEW r \in Node, r \notin Nodes(T),
         NEW kl, NEW kr, NEW cl, NEW cr, NEW e, Cut(T, a, e, kl, cl, kr, cr), NEW k \in Key
  PROVE  \E W : /\ Tree(W) /\ Broken(T, W, a, r, e, kl, cl, kr, cr)
                /\ LeafKeys(W) = LeafKeys(T) /\ InnerKeys(W) = InnerKeys(T) \cup {e} /\ e \in Key
                /\ Lev(T, a) = 0 => e \notin InnerKeys(T)
                /\ Lev(T, a) # 0 => e \in InnerKeys(T)
<1>1. Nil \notin Nodes(T) /\ r # Nil /\ r \in Page
  BY NilAssumption DEF Page
<1>2. CASE a = Top(T)
  BY <1>1, <1>2, BreakTop
<1>3. CASE a # Top(T)
  BY <1>1, <1>3, BreakBelow
<1>. QED  BY <1>2, <1>3

-----------------------------------------------------------------------------
(* The relations between arrays are functions.                              *)

\* q is p with e at place j instead.
Swapped(q, p, j, e) ==
  /\ Len(q) = Len(p) /\ j \in 1 .. Len(p) /\ q[j] = e
  /\ \A i \in 1 .. Len(p) : i # j => q[i] = p[i]

\* Sequences with the same elements are the same.
LEMMA SeqSame ==
  ASSUME NEW S, NEW s \in Seq(S), NEW u \in Seq(S), Len(s) = Len(u), \A i \in 1 .. Len(s) : s[i] = u[i]
  PROVE  s = u
OBVIOUS

\* Inserting has one result.
LEMMA InsertedOnce ==
  ASSUME NEW S, NEW q \in Seq(S), NEW u \in Seq(S), NEW p \in Seq(S), NEW j, NEW e,
         Inserted(q, p, j, e), Inserted(u, p, j, e)
  PROVE  q = u
<1>1. Len(p) \in Nat /\ Len(q) \in Nat
  OBVIOUS
<1>2. Len(u) = Len(p) + 1 /\ Len(q) = Len(p) + 1 /\ q[j] = e /\ u[j] = e /\ j \in 1 .. Len(q)
  BY DEF Inserted
<1>3. ASSUME NEW i \in 1 .. Len(q) PROVE q[i] = u[i]
  <2>1. CASE i < j
    <3>1. i \in 1 .. j - 1
      BY <1>1, <1>2, <2>1
    <3>. QED  BY <3>1 DEF Inserted
  <2>2. CASE i = j
    BY <1>2, <2>2
  <2>3. CASE i > j
    <3>1. PICK x \in j .. Len(p) : x + 1 = i
      <4>1. i - 1 \in j .. Len(p) /\ (i - 1) + 1 = i
        BY <1>1, <1>2, <2>3
      <4>. QED  BY <4>1
    <3>2. q[x + 1] = p[x] /\ u[x + 1] = p[x]
      BY DEF Inserted
    <3>. QED  BY <3>1, <3>2
  <2>. QED  BY <1>1, <1>2, <2>1, <2>2, <2>3
<1>. QED  BY <1>2, <1>3, SeqSame

\* Removing has one result.
LEMMA RemovedOnce ==
  ASSUME NEW S, NEW q \in Seq(S), NEW u \in Seq(S), NEW p \in Seq(S), NEW j, NEW e, NEW f,
         Inserted(q, p, j, e), Inserted(q, u, j, f)
  PROVE  p = u
<1>1. Len(p) \in Nat /\ Len(q) \in Nat /\ Len(u) \in Nat
  OBVIOUS
<1>2. Len(q) = Len(p) + 1 /\ Len(q) = Len(u) + 1 /\ j \in 1 .. Len(q)
  BY DEF Inserted
<1>3. Len(p) = Len(u)
  BY <1>1, <1>2
<1>4. ASSUME NEW i \in 1 .. Len(p) PROVE p[i] = u[i]
  <2>1. CASE i < j
    <3>1. i \in 1 .. j - 1
      BY <1>1, <1>2, <2>1
    <3>. QED  BY <3>1 DEF Inserted
  <2>2. CASE ~ (i < j)
    <3>1. i \in j .. Len(p) /\ i \in j .. Len(u)
      BY <1>1, <1>2, <2>2
    <3>. QED  BY <3>1 DEF Inserted
  <2>. QED  BY <2>1, <2>2
<1>. QED  BY <1>3, <1>4, SeqSame

\* Gluing has one result.
LEMMA GluedOnce ==
  ASSUME NEW S, NEW q \in Seq(S), NEW u \in Seq(S), NEW l \in Seq(S), NEW r \in Seq(S), Glued(q, l, r), Glued(u, l, r)
  PROVE  q = u
<1>1. Len(l) \in Nat /\ Len(r) \in Nat /\ Len(q) \in Nat
  OBVIOUS
<1>2. Len(q) = Len(l) + Len(r) /\ Len(u) = Len(l) + Len(r)
  BY DEF Glued
<1>3. ASSUME NEW i \in 1 .. Len(q) PROVE q[i] = u[i]
  <2>1. CASE i <= Len(l)
    <3>1. i \in 1 .. Len(l)
      BY <1>1, <2>1
    <3>. QED  BY <3>1 DEF Glued
  <2>2. CASE ~ (i <= Len(l))
    <3>1. PICK x \in 1 .. Len(r) : Len(l) + x = i
      <4>1. i - Len(l) \in 1 .. Len(r) /\ Len(l) + (i - Len(l)) = i
        BY <1>1, <1>2, <2>2
      <4>. QED  BY <4>1
    <3>2. q[Len(l) + x] = r[x] /\ u[Len(l) + x] = r[x]
      BY DEF Glued
    <3>. QED  BY <3>1, <3>2
  <2>. QED  BY <2>1, <2>2
<1>. QED  BY <1>2, <1>3, SeqSame

\* Splicing has one result.
LEMMA SplicedOnce ==
  ASSUME NEW S, NEW q \in Seq(S), NEW u \in Seq(S), NEW l \in Seq(S), NEW r \in Seq(S), NEW e,
         Spliced(q, l, e, r), Spliced(u, l, e, r)
  PROVE  q = u
<1>1. Len(l) \in Nat /\ Len(r) \in Nat /\ Len(q) \in Nat
  OBVIOUS
<1>2. /\ Len(q) = Len(l) + 1 + Len(r) /\ Len(u) = Len(l) + 1 + Len(r)
      /\ q[Len(l) + 1] = e /\ u[Len(l) + 1] = e
  BY DEF Spliced
<1>3. ASSUME NEW i \in 1 .. Len(q) PROVE q[i] = u[i]
  <2>1. CASE i <= Len(l)
    <3>1. i \in 1 .. Len(l)
      BY <1>1, <2>1
    <3>. QED  BY <3>1 DEF Spliced
  <2>2. CASE i = Len(l) + 1
    BY <1>2, <2>2
  <2>3. CASE i > Len(l) + 1
    <3>1. PICK x \in 1 .. Len(r) : Len(l) + 1 + x = i
      <4>1. i - (Len(l) + 1) \in 1 .. Len(r) /\ Len(l) + 1 + (i - (Len(l) + 1)) = i
        BY <1>1, <1>2, <2>3
      <4>. QED  BY <4>1
    <3>2. q[Len(l) + 1 + x] = r[x] /\ u[Len(l) + 1 + x] = r[x]
      BY DEF Spliced
    <3>. QED  BY <3>1, <3>2
  <2>. QED  BY <1>1, <2>1, <2>2, <2>3
<1>. QED  BY <1>2, <1>3, SeqSame

\* Replacing an element has one result.
LEMMA SwappedOnce ==
  ASSUME NEW S, NEW q \in Seq(S), NEW u \in Seq(S), NEW p \in Seq(S), NEW j, NEW e, Swapped(q, p, j, e), Swapped(u, p, j, e)
  PROVE  q = u
<1>1. Len(q) = Len(u) /\ \A i \in 1 .. Len(q) : q[i] = u[i]
  BY DEF Swapped
<1>. QED  BY <1>1, SeqSame

\* One element out and another in at the same place.
LEMMA InsertedSwapped ==
  ASSUME NEW q, NEW p, NEW m, NEW j, NEW e, NEW f, Len(m) \in Nat, Inserted(p, m, j, e), Inserted(q, m, j, f)
  PROVE  Swapped(q, p, j, f)
<1>1. Len(p) = Len(m) + 1 /\ Len(q) = Len(m) + 1 /\ q[j] = f /\ j \in 1 .. Len(p)
  BY DEF Inserted
<1>2. ASSUME NEW i \in 1 .. Len(p), i # j PROVE q[i] = p[i]
  <2>1. CASE i < j
    <3>1. i \in 1 .. j - 1
      BY <1>1, <2>1
    <3>. QED  BY <3>1 DEF Inserted
  <2>2. CASE i > j
    <3>1. PICK x \in j .. Len(m) : x + 1 = i
      <4>1. i - 1 \in j .. Len(m) /\ (i - 1) + 1 = i
        BY <1>1, <2>2
      <4>. QED  BY <4>1
    <3>2. q[x + 1] = m[x] /\ p[x + 1] = m[x]
      BY DEF Inserted
    <3>. QED  BY <3>1, <3>2
  <2>. QED  BY <1>1, <1>2, <2>1, <2>2
<1>. QED  BY <1>1, <1>2 DEF Swapped

-----------------------------------------------------------------------------
(* Neighbours share their keys and children anew: join, and part elsewhere. *)

Shifting(T, p, j, l, r, e, f, kl, cl, kr, cr) ==
  /\ Tree(T) /\ p \in Nodes(T) /\ Lev(T, p) # 0 /\ j \in 1 .. Len(Keys(T, p))
  /\ l = Kids(T, p)[j] /\ r = Kids(T, p)[j + 1] /\ e = Keys(T, p)[j]
  /\ kl \in Seq(Key) /\ kr \in Seq(Key) /\ cl \in Seq(Nodes(T)) /\ cr \in Seq(Nodes(T))
  /\ Lev(T, l) = 0 => Glued(Keys(T, l) \o Keys(T, r), kl, kr) /\ Len(kl) >= 1 /\ Len(kr) >= 1 /\ f = kr[1]
  /\ Lev(T, l) # 0 => Spliced(Append(Keys(T, l), e) \o Keys(T, r), kl, f, kr) /\ Len(cl) = Len(kl) + 1
  /\ Glued(Kids(T, l) \o Kids(T, r), cl, cr)

Shifted(T, W, p, j, l, r, f, kl, cl, kr, cr) ==
  /\ Nodes(W) = Nodes(T) /\ Top(W) = Top(T) /\ \A x \in Nodes(T) : Lev(W, x) = Lev(T, x)
  /\ Keys(W, l) = kl /\ Kids(W, l) = cl /\ Keys(W, r) = kr /\ Kids(W, r) = cr
  /\ Swapped(Keys(W, p), Keys(T, p), j, f) /\ Kids(W, p) = Kids(T, p)
  /\ \A x \in Nodes(T) \ {p, l, r} : Keys(W, x) = Keys(T, x) /\ Kids(W, x) = Kids(T, x)
  /\ \A x \in Nodes(T) : Up(W, x) = IF In(cr, x) THEN r ELSE IF IsKid(T, r, x) THEN l ELSE Up(T, x)

\* Between neighbours, keys can move over the separator, which changes with
\* them: the tree stays a search tree, and its leaves keep their keys.
LEMMA ShiftTree ==
  ASSUME NEW T, NEW p, NEW j, NEW l, NEW r, NEW e, NEW f, NEW kl, NEW cl, NEW kr, NEW cr,
         Shifting(T, p, j, l, r, e, f, kl, cl, kr, cr)
  PROVE  \E W : /\ Tree(W) /\ Shifted(T, W, p, j, l, r, f, kl, cl, kr, cr)
                /\ LeafKeys(W) = LeafKeys(T) /\ e \in Key /\ f \in Key
                /\ Lev(T, l) = 0 => /\ e \in InnerKeys(T) /\ f \notin InnerKeys(T) \ {e}
                                    /\ InnerKeys(W) = (InnerKeys(T) \ {e}) \cup {f}
                /\ Lev(T, l) # 0 => InnerKeys(W) = InnerKeys(T)
<1>1. /\ Tree(T) /\ p \in Nodes(T) /\ Lev(T, p) # 0 /\ j \in 1 .. Len(Keys(T, p))
      /\ l = Kids(T, p)[j] /\ r = Kids(T, p)[j + 1] /\ e = Keys(T, p)[j]
  BY DEF Shifting
<1>2. PICK J : J = Join(T, p, j, l, r, e)
  OBVIOUS
<1>3. /\ Tree(J) /\ Halved(J, T, p, j, l, r, e)
      /\ Keys(J, p) = RemoveAt(Keys(T, p), j) /\ Kids(J, p) = RemoveAt(Kids(T, p), j + 1)
      /\ Kids(J, l) = Kids(T, l) \o Kids(T, r)
      /\ Keys(J, l) = IF Lev(T, l) = 0 THEN Keys(T, l) \o Keys(T, r) ELSE Append(Keys(T, l), e) \o Keys(T, r)
  <2>1. Joining(T, J, p, j, l, r, e)
    BY <1>1, <1>2 DEF Joining
  <2>. QED  BY <2>1, JoinTree
<1>4. /\ r \in Page \ Nodes(J) /\ Nodes(T) = Nodes(J) \cup {r} /\ Top(T) = Top(J)
      /\ p \in Nodes(J) /\ l \in Nodes(J) /\ p # l
      /\ Lev(T, r) = Lev(J, l) /\ \A a \in Nodes(J) : Lev(T, a) = Lev(J, a)
      /\ \A a \in Nodes(J) \ {p, l} : Keys(T, a) = Keys(J, a) /\ Kids(T, a) = Kids(J, a)
      /\ Up(T, r) = p /\ Kids(J, p)[j] = l
      /\ \A c \in Nodes(J) : IF IsKid(T, r, c) THEN Up(J, c) = l /\ Up(T, c) = r ELSE Up(T, c) = Up(J, c)
  BY <1>3 DEF Halved
<1>5. Lev(T, l) = Lev(J, l)
  BY <1>4
<1>6. /\ Keys(T, p) \in Seq(Key) /\ Kids(T, p) \in Seq(Nodes(T)) /\ Len(Keys(T, p)) \in Nat
      /\ Len(Kids(T, p)) = Len(Keys(T, p)) + 1
      /\ Keys(J, p) \in Seq(Key) /\ Kids(J, p) \in Seq(Nodes(J)) /\ Len(Keys(J, p)) \in Nat
  BY <1>1, <1>3, <1>4, NodeFacts
<1>7. j \in 1 .. Len(Kids(J, p)) /\ j \in Nat
  <2>1. Inserted(Kids(T, p), Kids(J, p), j + 1, r) /\ Len(Kids(J, p)) \in Nat
    BY <1>3, <1>6 DEF Halved
  <2>2. Len(Kids(T, p)) = Len(Kids(J, p)) + 1
    BY <2>1 DEF Inserted
  <2>. QED  BY <1>1, <1>6, <2>1, <2>2
<1>8. cl \in Seq(Nodes(J)) /\ cr \in Seq(Nodes(J))
  <2>1. Glued(Kids(J, l), cl, cr) /\ cl \in Seq(Nodes(T)) /\ cr \in Seq(Nodes(T))
    BY <1>3 DEF Shifting
  <2>2. Len(cl) \in Nat /\ Len(cr) \in Nat
    BY <2>1
  <2>3. /\ \A i \in 1 .. Len(cl) : i \in 1 .. Len(Kids(J, l)) /\ Kids(J, l)[i] = cl[i]
        /\ \A x \in 1 .. Len(cr) : \E i \in 1 .. Len(Kids(J, l)) : Kids(J, l)[i] = cr[x]
    BY ONLY <2>1, <2>2, GluedIs
  <2>4. \A i \in 1 .. Len(Kids(J, l)) : Kids(J, l)[i] \in Nodes(J)
    BY <1>3, <1>4, NodeFacts
  <2>5. /\ \A i \in 1 .. Len(cl) : cl[i] \in Nodes(J)
        /\ \A i \in 1 .. Len(cr) : cr[i] \in Nodes(J)
    BY <2>3, <2>4
  <2>. QED  BY <2>1, <2>5, SeqOfOthers
<1>9. Cut(J, l, f, kl, cl, kr, cr)
  <2>1. /\ kl \in Seq(Key) /\ kr \in Seq(Key)
        /\ Lev(T, l) = 0 => Glued(Keys(T, l) \o Keys(T, r), kl, kr) /\ Len(kl) >= 1 /\ Len(kr) >= 1 /\ f = kr[1]
        /\ Lev(T, l) # 0 => Spliced(Append(Keys(T, l), e) \o Keys(T, r), kl, f, kr) /\ Len(cl) = Len(kl) + 1
        /\ Glued(Kids(T, l) \o Kids(T, r), cl, cr)
    BY DEF Shifting
  <2>2. Lev(T, l) = 0 => Keys(J, l) = Keys(T, l) \o Keys(T, r)
    BY <1>3
  <2>3. Lev(T, l) # 0 => Keys(J, l) = Append(Keys(T, l), e) \o Keys(T, r)
    BY <1>3
  <2>4. Glued(Kids(J, l), cl, cr)
    BY ONLY <1>3, <2>1
  <2>. QED  BY ONLY <1>5, <1>8, <2>1, <2>2, <2>3, <2>4 DEF Cut
<1>10. PICK W : W = Part(J, p, j, l, r, f, kl, cl, kr, cr)
  OBVIOUS
<1>11. Parting(J, W, p, j, l, r, f, kl, cl, kr, cr)
  BY <1>3, <1>4, <1>7, <1>9, <1>10 DEF Parting
<1>12. /\ Tree(W) /\ Halved(J, W, p, j, l, r, f)
       /\ Keys(W, l) = kl /\ Kids(W, l) = cl /\ Keys(W, r) = kr /\ Kids(W, r) = cr
       /\ Keys(W, p) = InsertAt(Keys(J, p), j, f) /\ Kids(W, p) = InsertAt(Kids(J, p), j + 1, r)
  BY <1>11, PartTree
<1>13. /\ Nodes(W) = Nodes(J) \cup {r} /\ Top(W) = Top(J)
       /\ Lev(W, r) = Lev(J, l) /\ \A a \in Nodes(J) : Lev(W, a) = Lev(J, a)
       /\ \A a \in Nodes(J) \ {p, l} : Keys(W, a) = Keys(J, a) /\ Kids(W, a) = Kids(J, a)
       /\ Up(W, r) = p
       /\ \A c \in Nodes(J) : IF IsKid(W, r, c) THEN Up(J, c) = l /\ Up(W, c) = r ELSE Up(W, c) = Up(J, c)
  BY <1>12 DEF Halved
<1>14. Swapped(Keys(W, p), Keys(T, p), j, f)
  <2>1. Inserted(Keys(T, p), Keys(J, p), j, e) /\ Inserted(Keys(W, p), Keys(J, p), j, f)
    BY <1>3, <1>12 DEF Halved
  <2>. QED  BY <1>6, <2>1, InsertedSwapped
<1>15. Kids(W, p) = Kids(T, p)
  <2>1. Inserted(Kids(T, p), Kids(J, p), j + 1, r) /\ Inserted(Kids(W, p), Kids(J, p), j + 1, r)
    BY <1>3, <1>12 DEF Halved
  <2>2. Kids(W, p) \in Seq(Nodes(T)) /\ Kids(J, p) \in Seq(Nodes(T))
    <3>1. Nodes(W) = Nodes(T) /\ Nodes(J) \subseteq Nodes(T) /\ p \in Nodes(W)
      BY <1>4, <1>13
    <3>2. Kids(W, p) \in Seq(Nodes(W))
      BY <1>12, <3>1, NodeFacts
    <3>3. Kids(J, p) \in Seq(Nodes(T))
      BY <1>6, <3>1, SeqMonotonic, Zenon
    <3>. QED  BY <3>1, <3>2, <3>3
  <2>. QED  BY <1>6, <2>1, <2>2, InsertedOnce
<1>16. ASSUME NEW x \in Nodes(T) PROVE Up(W, x) = IF In(cr, x) THEN r ELSE IF IsKid(T, r, x) THEN l ELSE Up(T, x)
  <2>1. In(cr, x) <=> IsKid(W, r, x)
    BY <1>12 DEF In, IsKid
  <2>2. CASE x = r
    <3>1. ~ In(cr, r)
      BY <1>4, <1>8 DEF In
    <3>2. ~ IsKid(T, r, r)
      BY <1>1, <1>4, KidFacts DEF IsKid
    <3>. QED  BY <1>4, <1>13, <2>2, <3>1, <3>2
  <2>3. CASE x # r
    BY <1>4, <1>13, <2>1, <2>3
  <2>. QED  BY <2>2, <2>3
<1>17. Shifted(T, W, p, j, l, r, f, kl, cl, kr, cr)
  <2>1. Nodes(W) = Nodes(T) /\ Top(W) = Top(T) /\ \A x \in Nodes(T) : Lev(W, x) = Lev(T, x)
    BY <1>4, <1>13
  <2>2. \A x \in Nodes(T) \ {p, l, r} : Keys(W, x) = Keys(T, x) /\ Kids(W, x) = Kids(T, x)
    BY <1>4, <1>13
  <2>. QED  BY <1>12, <1>14, <1>15, <1>16, <2>1, <2>2 DEF Shifted
<1>18. /\ LeafKeys(T) = LeafKeys(J) /\ InnerKeys(T) = InnerKeys(J) \cup {e} /\ e \in Key
       /\ Lev(J, l) = 0 => e \notin InnerKeys(J)
       /\ Lev(J, l) # 0 => e \in InnerKeys(J)
  BY <1>1, <1>3, HalvedKeys
<1>19. /\ LeafKeys(W) = LeafKeys(J) /\ InnerKeys(W) = InnerKeys(J) \cup {f} /\ f \in Key
       /\ Lev(J, l) = 0 => f \notin InnerKeys(J)
       /\ Lev(J, l) # 0 => f \in InnerKeys(J)
  BY <1>3, <1>12, HalvedKeys
<1>. QED  BY <1>5, <1>12, <1>17, <1>18, <1>19

-----------------------------------------------------------------------------
(* Arrays of rows and the arrays of their keys.                             *)

\* The keys of arrays that are so related are so related.
LEMMA KeysInserted ==
  ASSUME NEW q \in Seq(Row), NEW p \in Seq(Row), NEW j, NEW row, Inserted(q, p, j, row)
  PROVE  Inserted(KeysOf(q), KeysOf(p), j, row[1])
<1>1. PICK kq, kp : kq = KeysOf(q) /\ kp = KeysOf(p)
  OBVIOUS
<1>2. /\ Len(kq) = Len(q) /\ Len(q) \in Nat /\ \A i \in 1 .. Len(q) : kq[i] = q[i][1]
      /\ Len(kp) = Len(p) /\ Len(p) \in Nat /\ \A i \in 1 .. Len(p) : kp[i] = p[i][1]
  BY <1>1, KeysOfIs
<1>3. /\ Len(q) = Len(p) + 1 /\ j \in 1 .. Len(q) /\ q[j] = row
      /\ \A i \in 1 .. j - 1 : q[i] = p[i] /\ i \in 1 .. Len(q) /\ i \in 1 .. Len(p)
      /\ \A i \in j .. Len(p) : q[i + 1] = p[i] /\ i + 1 \in 1 .. Len(q) /\ i \in 1 .. Len(p)
  BY <1>2 DEF Inserted
<1>4. /\ Len(kq) = Len(kp) + 1 /\ j \in 1 .. Len(kq) /\ kq[j] = row[1]
  BY <1>2, <1>3
<1>5. \A i \in 1 .. j - 1 : kq[i] = kp[i]
  BY <1>2, <1>3
<1>6. \A i \in j .. Len(kp) : kq[i + 1] = kp[i]
  BY <1>2, <1>3
<1>. QED  BY <1>1, <1>4, <1>5, <1>6 DEF Inserted

\* The keys of glued rows.
LEMMA KeysGlued ==
  ASSUME NEW s \in Seq(Row), NEW l \in Seq(Row), NEW r \in Seq(Row), Glued(s, l, r)
  PROVE  Glued(KeysOf(s), KeysOf(l), KeysOf(r))
<1>1. PICK ks, kl, kr : ks = KeysOf(s) /\ kl = KeysOf(l) /\ kr = KeysOf(r)
  OBVIOUS
<1>2. /\ Len(ks) = Len(s) /\ Len(s) \in Nat /\ \A i \in 1 .. Len(s) : ks[i] = s[i][1]
      /\ Len(kl) = Len(l) /\ Len(l) \in Nat /\ \A i \in 1 .. Len(l) : kl[i] = l[i][1]
      /\ Len(kr) = Len(r) /\ Len(r) \in Nat /\ \A i \in 1 .. Len(r) : kr[i] = r[i][1]
  BY <1>1, KeysOfIs
<1>3. /\ Len(s) = Len(l) + Len(r)
      /\ \A i \in 1 .. Len(l) : s[i] = l[i] /\ i \in 1 .. Len(s)
      /\ \A i \in 1 .. Len(r) : s[Len(l) + i] = r[i] /\ Len(l) + i \in 1 .. Len(s)
  BY <1>2 DEF Glued
<1>4. ASSUME NEW i \in 1 .. Len(kl) PROVE ks[i] = kl[i]
  <2>1. i \in 1 .. Len(s) /\ i \in 1 .. Len(l) /\ s[i] = l[i]
    BY <1>2, <1>3
  <2>2. ks[i] = s[i][1] /\ kl[i] = l[i][1]
    BY <1>2, <2>1
  <2>. QED  BY <2>1, <2>2
<1>5. ASSUME NEW i \in 1 .. Len(kr) PROVE ks[Len(kl) + i] = kr[i]
  <2>1. PICK x : x = Len(l) + i
    OBVIOUS
  <2>2. x \in 1 .. Len(s) /\ s[x] = r[i]
    BY <1>2, <1>3, <2>1
  <2>3. ks[x] = r[i][1] /\ kr[i] = r[i][1]
    BY <1>2, <2>2
  <2>. QED  BY <1>2, <2>1, <2>3
<1>. QED  BY <1>1, <1>2, <1>3, <1>4, <1>5 DEF Glued

\* The keys of spliced rows.
LEMMA KeysSpliced ==
  ASSUME NEW s \in Seq(Row), NEW l \in Seq(Row), NEW row, NEW r \in Seq(Row), Spliced(s, l, row, r)
  PROVE  Spliced(KeysOf(s), KeysOf(l), row[1], KeysOf(r))
<1>1. PICK ks, kl, kr : ks = KeysOf(s) /\ kl = KeysOf(l) /\ kr = KeysOf(r)
  OBVIOUS
<1>2. /\ Len(ks) = Len(s) /\ Len(s) \in Nat /\ \A i \in 1 .. Len(s) : ks[i] = s[i][1]
      /\ Len(kl) = Len(l) /\ Len(l) \in Nat /\ \A i \in 1 .. Len(l) : kl[i] = l[i][1]
      /\ Len(kr) = Len(r) /\ Len(r) \in Nat /\ \A i \in 1 .. Len(r) : kr[i] = r[i][1]
  BY <1>1, KeysOfIs
<1>3. /\ Len(s) = Len(l) + 1 + Len(r) /\ s[Len(l) + 1] = row /\ Len(l) + 1 \in 1 .. Len(s)
      /\ \A i \in 1 .. Len(l) : s[i] = l[i] /\ i \in 1 .. Len(s)
      /\ \A i \in 1 .. Len(r) : s[Len(l) + 1 + i] = r[i] /\ Len(l) + 1 + i \in 1 .. Len(s)
  BY <1>2 DEF Spliced
<1>4. ASSUME NEW i \in 1 .. Len(kl) PROVE ks[i] = kl[i]
  <2>1. i \in 1 .. Len(s) /\ i \in 1 .. Len(l) /\ s[i] = l[i]
    BY <1>2, <1>3
  <2>2. ks[i] = s[i][1] /\ kl[i] = l[i][1]
    BY <1>2, <2>1
  <2>. QED  BY <2>1, <2>2
<1>5. ASSUME NEW i \in 1 .. Len(kr) PROVE ks[Len(kl) + 1 + i] = kr[i]
  <2>1. PICK x : x = Len(l) + 1 + i
    OBVIOUS
  <2>2. x \in 1 .. Len(s) /\ s[x] = r[i]
    BY <1>2, <1>3, <2>1
  <2>3. ks[x] = r[i][1] /\ kr[i] = r[i][1]
    BY <1>2, <2>2
  <2>. QED  BY <1>2, <2>1, <2>3
<1>6. ks[Len(kl) + 1] = row[1]
  BY <1>2, <1>3
<1>. QED  BY <1>1, <1>2, <1>3, <1>4, <1>5, <1>6 DEF Spliced

\* The keys of rows of which one is replaced.
LEMMA KeysSwapped ==
  ASSUME NEW q \in Seq(Row), NEW p \in Seq(Row), NEW j, NEW row, Swapped(q, p, j, row)
  PROVE  Swapped(KeysOf(q), KeysOf(p), j, row[1])
<1>1. PICK kq, kp : kq = KeysOf(q) /\ kp = KeysOf(p)
  OBVIOUS
<1>2. /\ Len(kq) = Len(q) /\ Len(q) \in Nat /\ \A i \in 1 .. Len(q) : kq[i] = q[i][1]
      /\ Len(kp) = Len(p) /\ Len(p) \in Nat /\ \A i \in 1 .. Len(p) : kp[i] = p[i][1]
  BY <1>1, KeysOfIs
<1>. QED  BY <1>1, <1>2 DEF Swapped

\* The same of the operators that b_tree.c's loops come to.
LEMMA KeysAreKeys ==
  ASSUME NEW rows \in Seq(Row)
  PROVE  KeysOf(rows) \in Seq(Key)
<1>1. PICK ks, n : ks = KeysOf(rows) /\ n = Len(rows)
  OBVIOUS
<1>2. n \in Nat /\ \A i \in 1 .. n : rows[i][1] \in Key
  BY <1>1, KeysOfIs
<1>3. ks = [i \in 1 .. n |-> rows[i][1]]
  BY <1>1 DEF KeysOf
<1>4. ks \in [1 .. n -> Key]
  BY <1>2, <1>3
<1>. QED  BY <1>1, <1>2, <1>4

\* The keys of rows that gain one.
LEMMA KeysInsertAt ==
  ASSUME NEW rows \in Seq(Row), NEW j \in 1 .. Len(rows) + 1, NEW row \in Row
  PROVE  /\ InsertAt(rows, j, row) \in Seq(Row)
         /\ KeysOf(InsertAt(rows, j, row)) = InsertAt(KeysOf(rows), j, row[1])
<1>1. PICK q : q = InsertAt(rows, j, row)
  OBVIOUS
<1>2. q \in Seq(Row) /\ Inserted(q, rows, j, row)
  BY <1>1, InsertAtInserted
<1>3. Inserted(KeysOf(q), KeysOf(rows), j, row[1])
  BY <1>2, KeysInserted
<1>4. KeysOf(rows) \in Seq(Key) /\ KeysOf(q) \in Seq(Key) /\ Len(KeysOf(rows)) = Len(rows) /\ row[1] \in Key
  BY <1>2, KeysAreKeys, KeysOfIs DEF Row
<1>5. PICK u : u = InsertAt(KeysOf(rows), j, row[1])
  OBVIOUS
<1>6. u \in Seq(Key) /\ Inserted(u, KeysOf(rows), j, row[1])
  BY <1>4, <1>5, InsertAtInserted
<1>7. KeysOf(q) = u
  BY <1>3, <1>4, <1>6, InsertedOnce
<1>. QED  BY <1>1, <1>2, <1>5, <1>7

\* The keys of rows that lose one.
LEMMA KeysRemoveAt ==
  ASSUME NEW rows \in Seq(Row), NEW j \in 1 .. Len(rows)
  PROVE  /\ RemoveAt(rows, j) \in Seq(Row)
         /\ KeysOf(RemoveAt(rows, j)) = RemoveAt(KeysOf(rows), j)
<1>1. PICK q, row : q = RemoveAt(rows, j) /\ row = rows[j]
  OBVIOUS
<1>2. q \in Seq(Row) /\ Inserted(rows, q, j, row)
  BY <1>1, RemoveAtInserted
<1>3. Inserted(KeysOf(rows), KeysOf(q), j, row[1])
  BY <1>2, KeysInserted
<1>4. KeysOf(rows) \in Seq(Key) /\ KeysOf(q) \in Seq(Key) /\ Len(KeysOf(rows)) = Len(rows)
  BY <1>2, KeysAreKeys, KeysOfIs
<1>5. PICK u, e : u = RemoveAt(KeysOf(rows), j) /\ e = KeysOf(rows)[j]
  OBVIOUS
<1>6. u \in Seq(Key) /\ Inserted(KeysOf(rows), u, j, e)
  BY <1>4, <1>5, RemoveAtInserted
<1>7. KeysOf(q) = u
  BY <1>3, <1>4, <1>6, RemovedOnce
<1>. QED  BY <1>1, <1>2, <1>5, <1>7

\* The keys of concatenated rows.
LEMMA KeysConcat ==
  ASSUME NEW l \in Seq(Row), NEW r \in Seq(Row)
  PROVE  l \o r \in Seq(Row) /\ KeysOf(l \o r) = KeysOf(l) \o KeysOf(r)
<1>1. PICK s : s = l \o r
  OBVIOUS
<1>2. s \in Seq(Row) /\ Glued(s, l, r)
  BY <1>1, ConcatGlued
<1>3. Glued(KeysOf(s), KeysOf(l), KeysOf(r))
  BY <1>2, KeysGlued
<1>4. KeysOf(l) \in Seq(Key) /\ KeysOf(r) \in Seq(Key) /\ KeysOf(s) \in Seq(Key)
  BY <1>2, KeysAreKeys
<1>5. PICK u : u = KeysOf(l) \o KeysOf(r)
  OBVIOUS
<1>6. u \in Seq(Key) /\ Glued(u, KeysOf(l), KeysOf(r))
  BY <1>4, <1>5, ConcatGlued
<1>7. KeysOf(s) = u
  BY <1>3, <1>4, <1>6, GluedOnce
<1>. QED  BY <1>1, <1>2, <1>5, <1>7

\* The keys of rows concatenated with one between.
LEMMA KeysAppend ==
  ASSUME NEW l \in Seq(Row), NEW row \in Row, NEW r \in Seq(Row)
  PROVE  Append(l, row) \o r \in Seq(Row) /\ KeysOf(Append(l, row) \o r) = Append(KeysOf(l), row[1]) \o KeysOf(r)
<1>1. PICK s : s = Append(l, row) \o r
  OBVIOUS
<1>2. s \in Seq(Row) /\ Spliced(s, l, row, r)
  BY <1>1, AppendSpliced
<1>3. Spliced(KeysOf(s), KeysOf(l), row[1], KeysOf(r))
  BY <1>2, KeysSpliced
<1>4. KeysOf(l) \in Seq(Key) /\ KeysOf(r) \in Seq(Key) /\ KeysOf(s) \in Seq(Key) /\ row[1] \in Key
  BY <1>2, KeysAreKeys DEF Row
<1>5. PICK u, e : u = Append(KeysOf(l), row[1]) \o KeysOf(r) /\ e = row[1]
  OBVIOUS
<1>6. u \in Seq(Key) /\ Spliced(u, KeysOf(l), e, KeysOf(r))
  BY <1>4, <1>5, AppendSpliced
<1>7. KeysOf(s) = u
  <2>1. PICK q, a, c : q = KeysOf(s) /\ a = KeysOf(l) /\ c = KeysOf(r)
    OBVIOUS
  <2>2. /\ q \in Seq(Key) /\ u \in Seq(Key) /\ a \in Seq(Key) /\ c \in Seq(Key)
        /\ Spliced(q, a, e, c) /\ Spliced(u, a, e, c)
    BY <1>3, <1>4, <1>5, <1>6, <2>1
  <2>3. q = u
    BY ONLY <2>2, SplicedOnce
  <2>. QED  BY <2>1, <2>3
<1>. QED  BY <1>1, <1>2, <1>5, <1>7

-----------------------------------------------------------------------------
(* How arrays are cut in two, and how an end changes hands.                 *)

\* An array cut in two is glued of its halves.
LEMMA HalvesGlued ==
  ASSUME NEW S, NEW s \in Seq(S), NEW n \in Nat, n <= Len(s), NEW m, m = n + 1, NEW z, z = Len(s)
  PROVE  /\ SubSeq(s, 1, n) \in Seq(S) /\ Len(SubSeq(s, 1, n)) = n
         /\ SubSeq(s, m, z) \in Seq(S) /\ Len(SubSeq(s, m, z)) = z - n
         /\ Glued(s, SubSeq(s, 1, n), SubSeq(s, m, z))
<1>1. z \in Nat /\ m \in Nat \ {0} /\ m <= z + 1
  OBVIOUS
<1>2. /\ SubSeq(s, 1, n) \in Seq(S) /\ Len(SubSeq(s, 1, n)) = n - 1 + 1
      /\ \A i \in 1 .. n - 1 + 1 : SubSeq(s, 1, n)[i] = s[i + 1 - 1]
  BY SubSeqIs
<1>3. /\ SubSeq(s, m, z) \in Seq(S) /\ Len(SubSeq(s, m, z)) = z - m + 1
      /\ \A i \in 1 .. z - m + 1 : SubSeq(s, m, z)[i] = s[i + m - 1]
  BY <1>1, SubSeqIs
<1>4. PICK l, r : l = SubSeq(s, 1, n) /\ r = SubSeq(s, m, z)
  OBVIOUS
<1>5. /\ l \in Seq(S) /\ Len(l) = n /\ \A i \in 1 .. n : l[i] = s[i]
      /\ r \in Seq(S) /\ Len(r) = z - n
  BY <1>1, <1>2, <1>3, <1>4
<1>6. ASSUME NEW i \in 1 .. Len(r) PROVE s[Len(l) + i] = r[i]
  <2>1. r[i] = s[i + m - 1] /\ i + m - 1 = Len(l) + i
    BY <1>1, <1>3, <1>4, <1>5
  <2>. QED  BY <2>1
<1>7. Glued(s, l, r)
  BY <1>1, <1>5, <1>6 DEF Glued
<1>. QED  BY <1>4, <1>5, <1>7

\* An array cut about its n-th element is spliced of its halves.
LEMMA HalvesSpliced ==
  ASSUME NEW S, NEW s \in Seq(S), NEW n \in 1 .. Len(s), NEW h, h = n - 1, NEW m, m = n + 1, NEW z, z = Len(s)
  PROVE  /\ SubSeq(s, 1, h) \in Seq(S) /\ Len(SubSeq(s, 1, h)) = h
         /\ SubSeq(s, m, z) \in Seq(S) /\ Len(SubSeq(s, m, z)) = z - n
         /\ s[n] \in S
         /\ Spliced(s, SubSeq(s, 1, h), s[n], SubSeq(s, m, z))
<1>1. z \in Nat /\ m \in Nat \ {0} /\ m <= z + 1 /\ h \in Nat /\ n \in Nat /\ 1 <= h + 1 /\ h <= z
  OBVIOUS
<1>2. /\ SubSeq(s, 1, h) \in Seq(S) /\ Len(SubSeq(s, 1, h)) = h - 1 + 1
      /\ \A i \in 1 .. h - 1 + 1 : SubSeq(s, 1, h)[i] = s[i + 1 - 1]
  BY <1>1, SubSeqIs
<1>3. /\ SubSeq(s, m, z) \in Seq(S) /\ Len(SubSeq(s, m, z)) = z - m + 1
      /\ \A i \in 1 .. z - m + 1 : SubSeq(s, m, z)[i] = s[i + m - 1]
  BY <1>1, SubSeqIs
<1>4. PICK l, r : l = SubSeq(s, 1, h) /\ r = SubSeq(s, m, z)
  OBVIOUS
<1>5. /\ l \in Seq(S) /\ Len(l) = h /\ \A i \in 1 .. h : l[i] = s[i]
      /\ r \in Seq(S) /\ Len(r) = z - n
  BY <1>1, <1>2, <1>3, <1>4
<1>6. ASSUME NEW i \in 1 .. Len(r) PROVE s[Len(l) + 1 + i] = r[i]
  <2>1. r[i] = s[i + m - 1] /\ i + m - 1 = Len(l) + 1 + i
    BY <1>1, <1>3, <1>4, <1>5
  <2>. QED  BY <2>1
<1>7. s[Len(l) + 1] = s[n]
  BY <1>1, <1>5
<1>8. Spliced(s, l, s[n], r)
  BY <1>1, <1>5, <1>6, <1>7 DEF Spliced
<1>. QED  BY <1>4, <1>5, <1>8

\* What a sequence with e in front holds.
LEMMA ConsIs ==
  ASSUME NEW S, NEW e \in S, NEW u \in Seq(S)
  PROVE  /\ <<e>> \o u \in Seq(S) /\ Len(<<e>> \o u) = Len(u) + 1 /\ (<<e>> \o u)[1] = e
         /\ \A i \in 1 .. Len(u) : (<<e>> \o u)[i + 1] = u[i]
<1>1. PICK c : c = <<e>>
  OBVIOUS
<1>2. c \in Seq(S) /\ Len(c) = 1 /\ c[1] = e
  BY <1>1
<1>3. /\ c \o u \in Seq(S) /\ Len(c \o u) = Len(c) + Len(u)
      /\ \A i \in 1 .. Len(c) : (c \o u)[i] = c[i]
      /\ \A i \in 1 .. Len(u) : (c \o u)[Len(c) + i] = u[i]
  BY <1>2, ConcatIs
<1>4. PICK q : q = c \o u
  OBVIOUS
<1>5. Len(u) \in Nat
  OBVIOUS
<1>6. q \in Seq(S) /\ Len(q) = Len(u) + 1 /\ q[1] = e
  BY <1>2, <1>3, <1>4, <1>5
<1>7. ASSUME NEW i \in 1 .. Len(u) PROVE q[i + 1] = u[i]
  <2>1. q[Len(c) + i] = u[i] /\ Len(c) + i = i + 1
    BY <1>2, <1>3, <1>4
  <2>. QED  BY <2>1
<1>. QED  BY <1>1, <1>4, <1>6, <1>7

\* What a sequence is without its first element, and without its last.
LEMMA EndsAre ==
  ASSUME NEW S, NEW s \in Seq(S), Len(s) >= 1
  PROVE  /\ Front(s) \in Seq(S) /\ Len(Front(s)) = Len(s) - 1
         /\ \A i \in 1 .. Len(s) - 1 : Front(s)[i] = s[i]
         /\ Last(s) \in S /\ Last(s) = s[Len(s)]
         /\ Tail(s) \in Seq(S) /\ Len(Tail(s)) = Len(s) - 1
         /\ \A i \in 1 .. Len(s) - 1 : Tail(s)[i] = s[i + 1]
         /\ Head(s) \in S /\ Head(s) = s[1]
<1>1. PICK n, h : n = Len(s) /\ h = n - 1
  OBVIOUS
<1>2. n \in Nat /\ h \in Nat /\ 1 <= h + 1 /\ h <= n /\ 1 \in Nat \ {0}
  BY <1>1
<1>3. Front(s) = SubSeq(s, 1, h) /\ Last(s) = s[n]
  BY <1>1 DEF Front, Last
<1>4. /\ SubSeq(s, 1, h) \in Seq(S) /\ Len(SubSeq(s, 1, h)) = h - 1 + 1
      /\ \A i \in 1 .. h - 1 + 1 : SubSeq(s, 1, h)[i] = s[i + 1 - 1]
  BY <1>1, <1>2, SubSeqIs
<1>5. \A i \in 1 .. h : Front(s)[i] = s[i]
  BY <1>2, <1>3, <1>4
<1>6. Front(s) \in Seq(S) /\ Len(Front(s)) = h
  BY <1>2, <1>3, <1>4
<1>7. Last(s) \in S /\ Last(s) = s[Len(s)]
  BY <1>1, <1>3
<1>8. s # << >>
  OBVIOUS
<1>9. /\ Tail(s) \in Seq(S) /\ Len(Tail(s)) = Len(s) - 1
      /\ \A i \in 1 .. Len(Tail(s)) : Tail(s)[i] = s[i + 1]
  BY <1>8
<1>10. Head(s) \in S /\ Head(s) = s[1]
  BY <1>8
<1>. QED  BY <1>1, <1>5, <1>6, <1>7, <1>9, <1>10

\* The last of s goes to the front of u.
LEMMA LastMoves ==
  ASSUME NEW S, NEW s \in Seq(S), NEW u \in Seq(S), Len(s) >= 1, NEW f, f = Last(s)
  PROVE  /\ Front(s) \in Seq(S) /\ Len(Front(s)) = Len(s) - 1 /\ f \in S
         /\ <<f>> \o u \in Seq(S) /\ Len(<<f>> \o u) = Len(u) + 1 /\ (<<f>> \o u)[1] = f
         /\ Glued(s \o u, Front(s), <<f>> \o u)
<1>1. PICK z, l, r, n, h : z = s \o u /\ l = Front(s) /\ r = <<f>> \o u /\ n = Len(s) /\ h = n - 1
  OBVIOUS
<1>2. n \in Nat /\ h \in Nat /\ Len(u) \in Nat /\ n = h + 1
  BY <1>1
<1>3. l \in Seq(S) /\ Len(l) = h /\ f \in S /\ f = s[n] /\ \A i \in 1 .. h : l[i] = s[i]
  BY <1>1, <1>2, EndsAre
<1>4. /\ r \in Seq(S) /\ Len(r) = Len(u) + 1 /\ r[1] = f
      /\ \A i \in 1 .. Len(u) : r[i + 1] = u[i]
  BY <1>1, <1>3, ConsIs
<1>5. /\ z \in Seq(S) /\ Len(z) = n + Len(u) /\ \A i \in 1 .. n : z[i] = s[i]
      /\ \A i \in 1 .. Len(u) : z[n + i] = u[i]
  BY <1>1, ConcatIs
<1>6. ASSUME NEW i \in 1 .. Len(l) PROVE z[i] = l[i]
  BY <1>2, <1>3, <1>5
<1>7. ASSUME NEW i \in 1 .. Len(r) PROVE z[Len(l) + i] = r[i]
  <2>1. CASE i = 1
    <3>1. z[n] = f /\ Len(l) + i = n
      BY <1>2, <1>3, <1>5, <2>1
    <3>. QED  BY <1>4, <2>1, <3>1
  <2>2. CASE i # 1
    <3>1. PICK x \in 1 .. Len(u) : i = x + 1
      <4>1. i - 1 \in 1 .. Len(u) /\ i = (i - 1) + 1
        BY <1>2, <1>4, <2>2
      <4>. QED  BY <4>1
    <3>2. r[i] = u[x] /\ z[n + x] = u[x] /\ n + x = Len(l) + i
      BY <1>2, <1>3, <1>4, <1>5, <3>1
    <3>. QED  BY <3>2
  <2>. QED  BY <2>1, <2>2
<1>8. Glued(z, l, r)
  <2>1. Len(z) = Len(l) + Len(r)
    BY <1>2, <1>3, <1>4, <1>5
  <2>. QED  BY <1>6, <1>7, <2>1 DEF Glued
<1>. QED  BY <1>1, <1>3, <1>4, <1>8

\* The first of s goes to the end of u.
LEMMA HeadMoves ==
  ASSUME NEW S, NEW s \in Seq(S), NEW u \in Seq(S), Len(s) >= 1, NEW f, f = Head(s)
  PROVE  /\ Tail(s) \in Seq(S) /\ Len(Tail(s)) = Len(s) - 1 /\ f \in S
         /\ Len(s) >= 2 => Tail(s)[1] = s[2]
         /\ Append(u, f) \in Seq(S) /\ Len(Append(u, f)) = Len(u) + 1
         /\ Glued(u \o s, Append(u, f), Tail(s))
<1>1. PICK z, l, r, n, h : z = u \o s /\ l = Append(u, f) /\ r = Tail(s) /\ n = Len(s) /\ h = n - 1
  OBVIOUS
<1>2. n \in Nat /\ h \in Nat /\ Len(u) \in Nat /\ n = h + 1
  BY <1>1
<1>3. r \in Seq(S) /\ Len(r) = h /\ f \in S /\ f = s[1] /\ \A i \in 1 .. h : r[i] = s[i + 1]
  BY <1>1, <1>2, EndsAre
<1>4. /\ l \in Seq(S) /\ Len(l) = Len(u) + 1 /\ l[Len(u) + 1] = f
      /\ \A i \in 1 .. Len(u) : l[i] = u[i]
  BY <1>1, <1>3
<1>5. /\ z \in Seq(S) /\ Len(z) = Len(u) + n /\ \A i \in 1 .. Len(u) : z[i] = u[i]
      /\ \A i \in 1 .. n : z[Len(u) + i] = s[i]
  BY <1>1, ConcatIs
<1>6. ASSUME NEW i \in 1 .. Len(l) PROVE z[i] = l[i]
  <2>1. CASE i = Len(u) + 1
    <3>1. 1 \in 1 .. n
      BY <1>2
    <3>2. z[Len(u) + 1] = s[1]
      BY <1>5, <3>1
    <3>. QED  BY <1>3, <1>4, <2>1, <3>2
  <2>2. CASE i # Len(u) + 1
    <3>1. i \in 1 .. Len(u)
      BY <1>2, <1>4, <2>2
    <3>. QED  BY <1>4, <1>5, <3>1
  <2>. QED  BY <2>1, <2>2
<1>7. ASSUME NEW i \in 1 .. Len(r) PROVE z[Len(l) + i] = r[i]
  <2>1. PICK x : x = i + 1
    OBVIOUS
  <2>2. x \in 1 .. n /\ Len(l) + i = Len(u) + x /\ r[i] = s[x]
    BY <1>2, <1>3, <1>4, <2>1
  <2>. QED  BY <1>5, <2>2
<1>8. Glued(z, l, r)
  <2>1. Len(z) = Len(l) + Len(r)
    BY <1>2, <1>3, <1>4, <1>5
  <2>. QED  BY <1>6, <1>7, <2>1 DEF Glued
<1>9. n >= 2 => r[1] = s[2]
  <2>1. ASSUME n >= 2 PROVE r[1] = s[2]
    <3>1. 1 \in 1 .. h
      BY <1>2, <2>1
    <3>2. r[1] = s[1 + 1]
      BY <1>3, <3>1
    <3>. QED  BY <3>2
  <2>. QED  BY <2>1
<1>. QED  BY <1>1, <1>3, <1>4, <1>8, <1>9

\* The same by way of an element between s and u.
LastTurning(S, s, u, e, f) ==
  s \in Seq(S) /\ u \in Seq(S) /\ e \in S /\ Len(s) >= 1 /\ f = Last(s)

LEMMA LastTurns ==
  ASSUME NEW S, NEW s, NEW u, NEW e, NEW f, LastTurning(S, s, u, e, f)
  PROVE  /\ Front(s) \in Seq(S) /\ Len(Front(s)) = Len(s) - 1 /\ f \in S
         /\ <<e>> \o u \in Seq(S) /\ Len(<<e>> \o u) = Len(u) + 1
         /\ Spliced(Append(s, e) \o u, Front(s), f, <<e>> \o u)
<1>0. s \in Seq(S) /\ u \in Seq(S) /\ e \in S /\ Len(s) >= 1 /\ f = Last(s)
  BY DEF LastTurning
<1>. USE <1>0
<1>1. PICK z, l, r, n, h : z = Append(s, e) \o u /\ l = Front(s) /\ r = <<e>> \o u /\ n = Len(s) /\ h = n - 1
  OBVIOUS
<1>2. n \in Nat /\ h \in Nat /\ Len(u) \in Nat /\ n = h + 1
  BY <1>1
<1>3. l \in Seq(S) /\ Len(l) = h /\ f \in S /\ f = s[n] /\ \A i \in 1 .. h : l[i] = s[i]
  BY <1>1, <1>2, EndsAre
<1>4. /\ r \in Seq(S) /\ Len(r) = Len(u) + 1 /\ r[1] = e
      /\ \A i \in 1 .. Len(u) : r[i + 1] = u[i]
  BY <1>1, ConsIs
<1>5. z \in Seq(S) /\ Spliced(z, s, e, u)
  BY <1>1, AppendSpliced
<1>6. /\ Len(z) = n + 1 + Len(u) /\ z[n + 1] = e
      /\ \A i \in 1 .. n : z[i] = s[i]
      /\ \A i \in 1 .. Len(u) : z[n + 1 + i] = u[i]
  BY <1>1, <1>5 DEF Spliced
<1>7. ASSUME NEW i \in 1 .. Len(l) PROVE z[i] = l[i]
  BY <1>2, <1>3, <1>6
<1>8. ASSUME NEW i \in 1 .. Len(r) PROVE z[Len(l) + 1 + i] = r[i]
  <2>1. CASE i = 1
    <3>1. Len(l) + 1 + i = n + 1
      BY <1>2, <1>3, <2>1
    <3>. QED  BY <1>4, <1>6, <2>1, <3>1
  <2>2. CASE i # 1
    <3>1. PICK x \in 1 .. Len(u) : i = x + 1
      <4>1. i - 1 \in 1 .. Len(u) /\ i = (i - 1) + 1
        BY <1>2, <1>4, <2>2
      <4>. QED  BY <4>1
    <3>2. n + 1 + x = Len(l) + 1 + i
      BY <1>2, <1>3, <3>1
    <3>3. r[i] = u[x] /\ z[n + 1 + x] = u[x]
      BY <1>4, <1>6, <3>1
    <3>. QED  BY <3>2, <3>3
  <2>. QED  BY <2>1, <2>2
<1>9. z[Len(l) + 1] = f
  <2>1. z[n] = s[n]
    BY <1>2, <1>6
  <2>. QED  BY <1>2, <1>3, <2>1
<1>10. Len(z) = Len(l) + 1 + Len(r)
  BY <1>2, <1>3, <1>4, <1>6
<1>11. Spliced(z, l, f, r)
  BY <1>7, <1>8, <1>9, <1>10 DEF Spliced
<1>. QED  BY <1>1, <1>3, <1>4, <1>11

HeadTurning(S, s, u, e, f) ==
  s \in Seq(S) /\ u \in Seq(S) /\ e \in S /\ Len(s) >= 1 /\ f = Head(s)

\* Moving the separator to the end of u and the head of s to its place.
LEMMA HeadTurns ==
  ASSUME NEW S, NEW s, NEW u, NEW e, NEW f, HeadTurning(S, s, u, e, f)
  PROVE  /\ Tail(s) \in Seq(S) /\ Len(Tail(s)) = Len(s) - 1 /\ f \in S
         /\ Append(u, e) \in Seq(S) /\ Len(Append(u, e)) = Len(u) + 1
         /\ Spliced(Append(u, e) \o s, Append(u, e), f, Tail(s))
<1>0. s \in Seq(S) /\ u \in Seq(S) /\ e \in S /\ Len(s) >= 1 /\ f = Head(s)
  BY DEF HeadTurning
<1>. USE <1>0
<1>1. PICK z, l, r, n, h : z = Append(u, e) \o s /\ l = Append(u, e) /\ r = Tail(s) /\ n = Len(s) /\ h = n - 1
  OBVIOUS
<1>2. n \in Nat /\ h \in Nat /\ Len(u) \in Nat /\ n = h + 1
  BY <1>1
<1>3. r \in Seq(S) /\ Len(r) = h /\ f \in S /\ f = s[1] /\ \A i \in 1 .. h : r[i] = s[i + 1]
  BY <1>1, <1>2, EndsAre
<1>4. l \in Seq(S) /\ Len(l) = Len(u) + 1
  BY <1>1
<1>5. /\ z \in Seq(S) /\ Len(z) = Len(l) + n /\ \A i \in 1 .. Len(l) : z[i] = l[i]
      /\ \A i \in 1 .. n : z[Len(l) + i] = s[i]
  BY <1>1, <1>4, ConcatIs
<1>6. Len(l) \in Nat
  BY <1>4
<1>7. ASSUME NEW i \in 1 .. Len(r) PROVE z[Len(l) + 1 + i] = r[i]
  <2>1. PICK x : x = i + 1
    OBVIOUS
  <2>2. x \in 1 .. n /\ Len(l) + 1 + i = Len(l) + x /\ r[i] = s[x]
    BY <1>2, <1>3, <1>6, <2>1
  <2>. QED  BY <1>5, <2>2
<1>8. z[Len(l) + 1] = f
  <2>1. 1 \in 1 .. n
    BY <1>2
  <2>2. z[Len(l) + 1] = s[1]
    BY <1>5, <2>1
  <2>. QED  BY <1>3, <2>2
<1>9. Len(z) = Len(l) + 1 + Len(r)
  BY <1>2, <1>3, <1>5, <1>6
<1>10. Spliced(z, l, f, r)
  BY <1>5, <1>7, <1>8, <1>9 DEF Spliced
<1>. QED  BY <1>1, <1>3, <1>4, <1>10

=============================================================================
