---------------------------- MODULE MyJQLProofs ----------------------------
(***************************************************************************)
(* Proofs about myjql.c: at every moment of every call the index refers to *)
(* records and strings that are there, nothing is left behind when a call  *)
(* ends, and the store implements KeyValue, for every set of keys, values  *)
(* and RIDs.                                                               *)
(***************************************************************************)
EXTENDS MyJQL, FiniteSetTheorems, WellFoundedInduction, TLAPS

-----------------------------------------------------------------------------
(* The inductive invariant: who holds which record and which string.        *)

Filed == stored \cup copies

\* The record that a call has in hand while the index does not have it.
Taken == IF \/ at \in {"insert", "delete key", "delete value", "delete record"}
            \/ (at = "write value" /\ rid # Nil)
         THEN {rid} ELSE {}

\* The records whose key's string is there, and those whose value's is.
Keyed  == (Filed \cup Taken)
            \ (BeingDropped \cup IF at \in {"delete value", "delete record"} /\ call[1] = "del"
                                 THEN {rid} ELSE {})
Valued == stored \cup IF at \in {"insert", "delete key", "delete value"} THEN {rid} ELSE {}

\* The strings that no record refers to yet.
Loose == IF at = "write value" /\ rid = Nil THEN {re.key}
         ELSE IF at = "write record" THEN {re.key, re.value}
         ELSE IF at = "delete record" /\ call[1] = "set" THEN {re.value}
         ELSE IF todo = "copy" /\ hand # Nil THEN {hand}
         ELSE {}

\* Each string of ss is the key of one record of K, the value of one of V, or
\* one of L, and of one of these only.
Owns(rs, K, V, L, ss) ==
  /\ K \subseteq DOMAIN rs /\ V \subseteq DOMAIN rs
  /\ \A r \in K : rs[r].key \in DOMAIN ss \ L
  /\ \A r \in V : rs[r].value \in DOMAIN ss \ L
  /\ L \subseteq DOMAIN ss
  /\ \A r, q \in K : rs[r].key = rs[q].key => r = q
  /\ \A r, q \in V : rs[r].value = rs[q].value => r = q
  /\ \A r \in K, q \in V : rs[r].key # rs[q].value
  /\ \A s \in DOMAIN ss : \/ s \in L
                          \/ \E r \in K : rs[r].key = s
                          \/ \E r \in V : rs[r].value = s

Calling == at \in Steps \ {"idle", "close rec", "close str", "closed"}

\* Where a call can be, and what its variables hold there.
Shape ==
  /\ Calling \/ todo # "none" =>
       \/ call \in {"set"} \X Key \X Val
       \/ /\ call \in {"del"} \X Key \X {Nil}
          /\ at \in {"delete", "delete key", "delete value", "delete record"}
  /\ at = "delete key" => call[1] = "del"
  /\ todo # "none" => at \in {"idle", "delete key", "delete value"}
  /\ at = "idle" => todo \in {"none", "copy"}
  /\ at = "write key" => rid = Nil
  /\ at \in {"write key", "idle", "close rec", "close str", "closed"} => re = Blank
  /\ at = "write record" => re.key # re.value
  /\ at = "delete" => rid \in stored
  /\ Taken # {} => rid # Nil /\ rid \notin Filed
  /\ at \in {"write value", "delete record"} /\ rid # Nil /\ call[1] = "set" =>
       re.key = recs[rid].key
  /\ todo = "none" => hand = Nil
  /\ todo \in {"drop", "replace"} /\ hand # Nil => hand \in copies
  /\ re \in [key : StrRid \cup {Nil}, value : StrRid \cup {Nil}]
  /\ DOMAIN recs = Filed \cup Taken
  /\ \A r \in DOMAIN recs : recs[r] \in [key : StrRid, value : StrRid \cup {Nil}]
  /\ \A r \in copies : recs[r].value = Nil

KeyText(r) == strs[recs[r].key]
ValueText(r) == strs[recs[r].value]

\* What the strings of the records say.
Spelling ==
  /\ \A r \in Keyed : KeyText(r) \in Key
  /\ \A r \in Valued : ValueText(r) \in Val
  /\ \A r, q \in stored : KeyText(r) = KeyText(q) => r = q

\* And what they have to do with the call: its key is not in the index while
\* the call works on it, and what it has written is its key and its value.
Wording ==
  /\ Calling /\ at # "delete" => \A r \in stored : KeyText(r) # call[2]
  /\ at = "delete" \/ Taken \cap Keyed # {} => KeyText(rid) = call[2]
  /\ (at = "write value" /\ rid = Nil) \/ at = "write record" => strs[re.key] = call[2]
  /\ at = "write record" \/ (at = "delete record" /\ call[1] = "set") => strs[re.value] = call[3]
  /\ at = "insert" => ValueText(rid) = call[3]
  /\ at = "idle" /\ todo # "none" =>
       \E r \in stored : KeyText(r) = call[2] /\ ValueText(r) = call[3]
  /\ todo = "copy" /\ hand # Nil => strs[hand] \in Key

\* What the call in progress may still write fits.
CopyComes == (todo = "replace" /\ hand # Nil) \/ (todo = "copy" /\ hand = Nil)
StrNeed == IF at = "write key" THEN 3
           ELSE IF at = "write value" THEN 2
           ELSE IF at \in {"write record", "insert"} THEN 1
           ELSE IF at \in {"delete", "delete value", "delete record"} /\ call[1] = "set"
             THEN IF CopyComes THEN 2 ELSE 1
             ELSE IF CopyComes THEN 1 ELSE 0
RecNeed == IF \/ at \in {"write key", "write record"} \/ todo = "copy"
              \/ (at = "write value" /\ rid = Nil)
           THEN 1 ELSE 0

Enough ==
  /\ Cardinality(StrRid \ DOMAIN strs) >= StrNeed
  /\ Cardinality(RecRid \ DOMAIN recs) >= RecNeed

\* What is closed is on disk.
Saved ==
  /\ at \in {"close rec", "close str", "closed"} => disk.idx = <<stored, copies>>
  /\ at \in {"close str", "closed"} => disk.rec = recs
  /\ at = "closed" => disk.str = strs
  /\ disk = [idx |-> disk.idx, rec |-> disk.rec, str |-> disk.str]

IInv == /\ TypeOK /\ Shape /\ Owns(recs, Keyed, Valued, Loose, strs)
        /\ Spelling /\ Wording /\ Enough /\ Saved

\* The rows in the index keep their keys and their values in a step.
RowsStay ==
  /\ stored' = stored
  /\ \A r \in stored : KeyText(r)' = KeyText(r) /\ ValueText(r)' = ValueText(r)

-----------------------------------------------------------------------------
(* Free RIDs.                                                               *)

\* A set of natural numbers has a least element.
LEMMA LeastExists ==
  ASSUME NEW S, S \subseteq Nat, S # {}
  PROVE  Least(S) \in S
<1>1. PICK i \in S : \A k \in S : ~ (<<k, i>> \in OpToRel(<, Nat))
  BY NatLessThanWellFounded, WFMin, Zenon
<1>2. \A k \in S : k \in Nat /\ i \in Nat
  OBVIOUS
<1>3. ASSUME NEW k \in S PROVE ~(k < i)
  BY <1>1, <1>2, Zenon DEF OpToRel
<1>4. \A k \in S : i <= k
  BY <1>2, <1>3
<1>. QED  BY <1>4 DEF Least

\* Of a finite set of RIDs a row takes one that is free, if there is any ...
LEMMA FreeTaken ==
  ASSUME NEW S, S \subseteq Nat, IsFiniteSet(S), NEW D
  PROVE  /\ Cardinality(S \ D) \in Nat
         /\ Cardinality(S \ D) >= 1 => Least(S \ D) \in S \ D
<1>1. IsFiniteSet(S \ D)
  BY FS_Difference
<1>2. Cardinality(S \ D) \in Nat
  BY <1>1, FS_CardinalityType
<1>3. ASSUME Cardinality(S \ D) >= 1 PROVE Least(S \ D) \in S \ D
  <2>1. S \ D # {}
    BY <1>1, <1>3, FS_EmptySet
  <2>. QED  BY <2>1, LeastExists
<1>. QED  BY <1>2, <1>3

\* ... which leaves one less ...
LEMMA OneLess ==
  ASSUME NEW S, IsFiniteSet(S), NEW D, NEW s \in S, s \notin D
  PROVE  Cardinality(S \ (D \cup {s})) = Cardinality(S \ D) - 1
<1>1. IsFiniteSet(S \ D) /\ s \in S \ D
  BY FS_Difference
<1>2. S \ (D \cup {s}) = (S \ D) \ {s}
  OBVIOUS
<1>. QED  BY <1>1, <1>2, FS_RemoveElement

\* ... and gives it back.
LEMMA OneMore ==
  ASSUME NEW S, IsFiniteSet(S), NEW D, NEW s \in S, s \in D
  PROVE  Cardinality(S \ (D \ {s})) = Cardinality(S \ D) + 1
<1>1. IsFiniteSet(S \ D) /\ s \notin S \ D
  BY FS_Difference
<1>2. S \ (D \ {s}) = (S \ D) \cup {s}
  OBVIOUS
<1>. QED  BY <1>1, <1>2, FS_AddElement

\* A new string has a RID of its own.
LEMMA NewStrFree ==
  ASSUME Cardinality(StrRid \ DOMAIN strs) >= 1
  PROVE  NewStr \in StrRid \ DOMAIN strs
BY FreeTaken, RidAssumption DEF NewStr

\* So has a new record.
LEMMA NewRecFree ==
  ASSUME Cardinality(RecRid \ DOMAIN recs) >= 1
  PROVE  NewRec \in RecRid \ DOMAIN recs
BY FreeTaken, RidAssumption DEF NewRec

\* Cardinalities are numbers.
LEMMA Counts == /\ Cardinality(StrRid \ DOMAIN strs) \in Nat
                /\ Cardinality(RecRid \ DOMAIN recs) \in Nat
BY FreeTaken, RidAssumption

-----------------------------------------------------------------------------
(* What a write to a table does to who owns which string.                   *)

\* A new string is nobody's yet.
LEMMA OwnsWrite ==
  ASSUME NEW rs, NEW K, NEW V, NEW L, NEW ss, Owns(rs, K, V, L, ss),
         NEW s, s \notin DOMAIN ss, NEW text
  PROVE  Owns(rs, K, V, L \cup {s}, Strs!With(ss, s, text))
BY DEF Owns, Strs!With

\* The key's string of a record is deleted.
LEMMA OwnsDropKey ==
  ASSUME NEW rs, NEW K, NEW V, NEW L, NEW ss, Owns(rs, K, V, L, ss), NEW r \in K
  PROVE  Owns(rs, K \ {r}, V, L, Strs!Without(ss, rs[r].key))
BY DEF Owns, Strs!Without

\* The value's string of a record is deleted.
LEMMA OwnsDropValue ==
  ASSUME NEW rs, NEW K, NEW V, NEW L, NEW ss, Owns(rs, K, V, L, ss), NEW r \in V
  PROVE  Owns(rs, K, V \ {r}, L, Strs!Without(ss, rs[r].value))
BY DEF Owns, Strs!Without

\* A record of two strings of the call, its key and its value, is written.
LEMMA OwnsWriteRecord ==
  ASSUME NEW rs, NEW K, NEW V, NEW ss, NEW r, r \notin DOMAIN rs, NEW row,
         Owns(rs, K, V, {row.key, row.value}, ss), row.key # row.value
  PROVE  Owns(Recs!With(rs, r, row), K \cup {r}, V \cup {r}, {}, ss)
<1>. DEFINE rs2 == Recs!With(rs, r, row)
<1>1. /\ DOMAIN rs2 = DOMAIN rs \cup {r} /\ rs2[r] = row
      /\ \A q \in DOMAIN rs : rs2[q] = rs[q]
  BY DEF Recs!With
<1>. HIDE DEF rs2
<1>2. Owns(rs2, K \cup {r}, V \cup {r}, {}, ss)
  BY <1>1 DEF Owns
<1>. QED  BY <1>2 DEF rs2

\* A record of a key and no value is written.
LEMMA OwnsWriteCopy ==
  ASSUME NEW rs, NEW K, NEW V, NEW ss, NEW r, r \notin DOMAIN rs, NEW row,
         Owns(rs, K, V, {row.key}, ss)
  PROVE  Owns(Recs!With(rs, r, row), K \cup {r}, V, {}, ss)
<1>. DEFINE rs2 == Recs!With(rs, r, row)
<1>1. /\ DOMAIN rs2 = DOMAIN rs \cup {r} /\ rs2[r] = row
      /\ \A q \in DOMAIN rs : rs2[q] = rs[q]
  BY DEF Recs!With
<1>. HIDE DEF rs2
<1>2. Owns(rs2, K \cup {r}, V, {}, ss)
  BY <1>1 DEF Owns
<1>. QED  BY <1>2 DEF rs2

\* A record that has no string left is deleted.
LEMMA OwnsDropRecord ==
  ASSUME NEW rs, NEW K, NEW V, NEW L, NEW ss, Owns(rs, K, V, L, ss), NEW r, r \notin K \cup V
  PROVE  Owns(Recs!Without(rs, r), K, V, L, ss)
BY DEF Owns, Recs!Without

\* A record whose value is gone leaves its key to the call that deletes it.
LEMMA OwnsKeepKey ==
  ASSUME NEW rs, NEW K, NEW V, NEW L, NEW ss, Owns(rs, K, V, L, ss), NEW r \in K, r \notin V
  PROVE  Owns(Recs!Without(rs, r), K \ {r}, V, L \cup {rs[r].key}, ss)
BY DEF Owns, Recs!Without

-----------------------------------------------------------------------------
(* Each step keeps the invariant.                                           *)

LEMMA InitInv == Init => IInv
<1>. SUFFICES ASSUME Init PROVE IInv
  OBVIOUS
<1>. USE DEF Init, Idx!Init, Empty, Blank, NoDisk
<1>1. Keyed = {} /\ Valued = {} /\ Loose = {} /\ Taken = {} /\ Filed = {}
  BY DEF Keyed, Valued, Loose, Taken, Filed
<1>2. Owns(recs, Keyed, Valued, Loose, strs)
  BY <1>1 DEF Owns
<1>3. TypeOK
  BY DEF TypeOK, Idx!TypeOK, Steps
<1>4. Shape
  BY <1>1 DEF Shape, Calling
<1>5. Spelling /\ Wording
  BY <1>1 DEF Spelling, Wording, Calling
<1>6. Enough
  BY Counts DEF Enough, StrNeed, CopyComes, RecNeed
<1>. QED  BY <1>2, <1>3, <1>4, <1>5, <1>6 DEF IInv, Saved

\* Needs are numbers.
LEMMA Needs == StrNeed \in Nat /\ RecNeed \in Nat
BY DEF StrNeed, RecNeed

\* write_string: a string is there that was not, and takes a free RID.
LEMMA Written ==
  ASSUME TypeOK, Cardinality(StrRid \ DOMAIN strs) >= 1, NEW text, WriteStr(text)
  PROVE  /\ NewStr \in StrRid \ DOMAIN strs
         /\ DOMAIN strs' = DOMAIN strs \cup {NewStr}
         /\ strs'[NewStr] = text
         /\ \A s \in DOMAIN strs : strs'[s] = strs[s]
         /\ Cardinality(StrRid \ DOMAIN strs') = Cardinality(StrRid \ DOMAIN strs) - 1
<1>1. NewStr \in StrRid \ DOMAIN strs
  BY NewStrFree
<1>2. /\ DOMAIN strs' = DOMAIN strs \cup {NewStr}
      /\ strs'[NewStr] = text
      /\ \A s \in DOMAIN strs : strs'[s] = strs[s]
  BY <1>1 DEF WriteStr, Strs!With
<1>3. Cardinality(StrRid \ (DOMAIN strs \cup {NewStr})) = Cardinality(StrRid \ DOMAIN strs) - 1
  BY <1>1, OneLess, RidAssumption
<1>. QED  BY <1>1, <1>2, <1>3

\* delete_string: the string is gone and its RID is free.
LEMMA Unwritten ==
  ASSUME TypeOK, NEW s \in DOMAIN strs, strs' = Strs!Without(strs, s)
  PROVE  /\ DOMAIN strs' = DOMAIN strs \ {s}
         /\ \A q \in DOMAIN strs \ {s} : strs'[q] = strs[q]
         /\ Cardinality(StrRid \ DOMAIN strs') = Cardinality(StrRid \ DOMAIN strs) + 1
<1>1. /\ DOMAIN strs' = DOMAIN strs \ {s}
      /\ \A q \in DOMAIN strs \ {s} : strs'[q] = strs[q]
  BY DEF Strs!Without
<1>2. s \in StrRid \cap DOMAIN strs
  BY DEF TypeOK
<1>3. Cardinality(StrRid \ (DOMAIN strs \ {s})) = Cardinality(StrRid \ DOMAIN strs) + 1
  BY <1>1, <1>2, OneMore, RidAssumption
<1>. QED  BY <1>1, <1>2, <1>3

\* write_record.
LEMMA Recorded ==
  ASSUME TypeOK, Cardinality(RecRid \ DOMAIN recs) >= 1, NEW row,
         recs' = Recs!With(recs, NewRec, row)
  PROVE  /\ NewRec \in RecRid \ DOMAIN recs
         /\ DOMAIN recs' = DOMAIN recs \cup {NewRec}
         /\ recs'[NewRec] = row
         /\ \A r \in DOMAIN recs : recs'[r] = recs[r]
         /\ Cardinality(RecRid \ DOMAIN recs') = Cardinality(RecRid \ DOMAIN recs) - 1
<1>1. NewRec \in RecRid \ DOMAIN recs
  BY NewRecFree
<1>2. /\ DOMAIN recs' = DOMAIN recs \cup {NewRec}
      /\ recs'[NewRec] = row
      /\ \A r \in DOMAIN recs : recs'[r] = recs[r]
  BY <1>1 DEF Recs!With
<1>3. Cardinality(RecRid \ (DOMAIN recs \cup {NewRec})) = Cardinality(RecRid \ DOMAIN recs) - 1
  BY <1>1, OneLess, RidAssumption
<1>. QED  BY <1>1, <1>2, <1>3

\* delete_record.
LEMMA Unrecorded ==
  ASSUME TypeOK, NEW r \in DOMAIN recs, recs' = Recs!Without(recs, r)
  PROVE  /\ DOMAIN recs' = DOMAIN recs \ {r}
         /\ \A q \in DOMAIN recs \ {r} : recs'[q] = recs[q]
         /\ Cardinality(RecRid \ DOMAIN recs') = Cardinality(RecRid \ DOMAIN recs) + 1
<1>1. /\ DOMAIN recs' = DOMAIN recs \ {r}
      /\ \A q \in DOMAIN recs \ {r} : recs'[q] = recs[q]
  BY DEF Recs!Without
<1>2. r \in RecRid \cap DOMAIN recs
  BY DEF TypeOK
<1>3. Cardinality(RecRid \ (DOMAIN recs \ {r})) = Cardinality(RecRid \ DOMAIN recs) + 1
  BY <1>1, <1>2, OneMore, RidAssumption
<1>. QED  BY <1>1, <1>2, <1>3

\* A stored row has its key and its value.
LEMMA StoredWhole ==
  ASSUME TypeOK, Shape
  PROVE  stored \subseteq Keyed /\ stored \subseteq Valued
<1>1. stored \subseteq Valued
  BY DEF Valued
<1>2. BeingDropped \subseteq copies /\ stored \cap copies = {}
  BY DEF BeingDropped, Shape, TypeOK, Idx!TypeOK
<1>3. at \in {"delete value", "delete record"} => rid \notin stored
  BY DEF Shape, Taken, Filed
<1>. QED  BY <1>1, <1>2, <1>3 DEF Keyed, Filed

\* What a comparison reads, and what a get returns.
LEMMA Reads ==
  ASSUME Owns(recs, Keyed, Valued, Loose, strs)
  PROVE  /\ \A r \in Keyed : KeyAt(r) = KeyText(r)
         /\ \A r \in Valued : StrAt(recs[r].value) = ValueText(r)
BY DEF Owns, KeyAt, StrAt, KeyText, ValueText

\* The rows b_tree_search finds.
LEMMA Found ==
  ASSUME TypeOK, Shape, Owns(recs, Keyed, Valued, Loose, strs), NEW k
  PROVE  Search(k) = {r \in stored : KeyText(r) = k}
BY Reads, StoredWhole DEF Search

LEMMA WriteKeyStep ==
  ASSUME IInv, WriteKey
  PROVE  IInv' /\ RowsStay
<1>1. TypeOK /\ Shape /\ Owns(recs, Keyed, Valued, Loose, strs) /\ Spelling /\ Wording /\ Enough /\ Saved
  BY DEF IInv
<1>2. /\ at = "write key" /\ at' = "write value" /\ todo = "none"
      /\ re' = [key |-> NewStr, value |-> re.value]
      /\ recs' = recs /\ stored' = stored /\ copies' = copies /\ todo' = todo
      /\ call' = call /\ rid' = rid /\ hand' = hand /\ disk' = disk
  BY DEF WriteKey, Ready, index
<1>3. rid = Nil /\ hand = Nil /\ call \in {"set"} \X Key \X Val /\ re = Blank
  BY <1>1, <1>2 DEF Shape, Calling, Steps
<1>4. WriteStr(call[2]) /\ recs' = recs
  BY DEF WriteKey
<1>5. StrNeed = 3 /\ StrNeed' = 2 /\ RecNeed = 1 /\ RecNeed' = 1
  BY <1>2, <1>3 DEF StrNeed, RecNeed, CopyComes
<1>6. Cardinality(StrRid \ DOMAIN strs) >= 1
  BY <1>1, <1>5, Counts DEF Enough
<1>7. /\ NewStr \in StrRid \ DOMAIN strs
      /\ DOMAIN strs' = DOMAIN strs \cup {NewStr}
      /\ strs'[NewStr] = call[2]
      /\ \A s \in DOMAIN strs : strs'[s] = strs[s]
      /\ Cardinality(StrRid \ DOMAIN strs') = Cardinality(StrRid \ DOMAIN strs) - 1
  BY <1>1, <1>4, <1>6, Written
<1>8. Enough'
  BY <1>1, <1>4, <1>5, <1>7, Counts DEF Enough
<1>9. Taken = {} /\ Taken' = {} /\ Filed' = Filed /\ re'.key = NewStr /\ re'.value = Nil
      /\ re' \in [key : StrRid \cup {Nil}, value : StrRid \cup {Nil}]
  BY <1>2, <1>3, <1>7 DEF Taken, Filed, Blank
<1>10. Keyed' = Keyed /\ Valued' = Valued /\ Loose = {} /\ Loose' = {NewStr}
  BY <1>2, <1>3, <1>9 DEF Keyed, Valued, Loose, BeingDropped
<1>11. Owns(recs, Keyed, Valued, Loose, strs)'
  <2>1. strs' = Strs!With(strs, NewStr, call[2]) /\ Loose' = Loose \cup {NewStr}
    BY <1>4, <1>10 DEF WriteStr
  <2>2. Owns(recs, Keyed, Valued, Loose \cup {NewStr}, Strs!With(strs, NewStr, call[2]))
    BY <1>1, <1>7, OwnsWrite
  <2>. QED  BY <1>4, <1>10, <2>1, <2>2
<1>12. TypeOK'
  BY <1>1, <1>2, <1>3, <1>7, <1>9 DEF TypeOK, Idx!TypeOK, Steps
<1>13. Shape'
  BY <1>1, <1>2, <1>3, <1>7, <1>9 DEF Shape, Calling, Steps
<1>14. /\ \A r \in Keyed : KeyText(r)' = KeyText(r)
       /\ \A r \in Valued : ValueText(r)' = ValueText(r)
       /\ stored \subseteq Keyed /\ stored \subseteq Valued /\ stored' = stored
  BY <1>1, <1>2, <1>4, <1>7, StoredWhole DEF Owns, KeyText, ValueText
<1>15. Spelling'
  BY <1>1, <1>10, <1>14 DEF Spelling
<1>16. Wording'
  <2>1. \A r \in stored' : KeyText(r)' # call'[2]
    BY <1>1, <1>2, <1>14 DEF Wording, Calling, Steps
  <2>2. strs'[re'.key] = call'[2]
    BY <1>2, <1>7, <1>9
  <2>. QED  BY <1>2, <1>9, <2>1, <2>2 DEF Wording
<1>17. Saved'
  BY <1>1, <1>2 DEF Saved
<1>18. RowsStay
  BY <1>2, <1>14 DEF RowsStay
<1>. QED  BY <1>8, <1>11, <1>12, <1>13, <1>15, <1>16, <1>17, <1>18 DEF IInv

LEMMA GetStep ==
  ASSUME IInv, NEW k \in Key, Get(k)
  PROVE  IInv' /\ RowsStay
<1>1. /\ TypeOK /\ Shape /\ Owns(recs, Keyed, Valued, Loose, strs)
      /\ Spelling /\ Wording /\ Enough /\ Saved
  BY DEF IInv
<1>2. /\ at = "idle" /\ at' = at /\ todo = "none"
      /\ strs' = strs /\ recs' = recs /\ re' = re
      /\ stored' = stored /\ copies' = copies /\ todo' = todo
      /\ rid' = rid /\ hand' = hand /\ disk' = disk
  BY DEF Get, Ready, index, tables, local
<1>3. /\ Keyed' = Keyed /\ Valued' = Valued /\ Loose' = Loose
      /\ Taken' = Taken /\ Filed' = Filed /\ Taken = {}
  BY <1>2 DEF Keyed, Valued, Loose, Taken, Filed, BeingDropped
<1>4. \A r : KeyText(r)' = KeyText(r) /\ ValueText(r)' = ValueText(r)
  BY <1>2 DEF KeyText, ValueText
<1>5. TypeOK'
  BY <1>1, <1>2 DEF TypeOK, Idx!TypeOK
<1>6. Shape'
  BY <1>1, <1>2, <1>3 DEF Shape, Calling
<1>7. Owns(recs, Keyed, Valued, Loose, strs)'
  BY <1>1, <1>2, <1>3
<1>8. Spelling'
  BY <1>1, <1>2, <1>3, <1>4 DEF Spelling
<1>9. Wording'
  BY <1>1, <1>2, <1>3, <1>4 DEF Wording, Calling
<1>10. Enough'
  BY <1>1, <1>2 DEF Enough, StrNeed, RecNeed, CopyComes
<1>11. Saved'
  BY <1>1, <1>2 DEF Saved
<1>12. RowsStay
  BY <1>2, <1>4 DEF RowsStay
<1>. QED  BY <1>5, <1>6, <1>7, <1>8, <1>9, <1>10, <1>11, <1>12 DEF IInv

\* myjql_set and myjql_del look the key up before they write anything.
LEMMA SetStep ==
  ASSUME IInv, NEW k \in Key, NEW v \in Val, Set(k, v)
  PROVE  IInv' /\ RowsStay
<1>1. /\ TypeOK /\ Shape /\ Owns(recs, Keyed, Valued, Loose, strs)
      /\ Spelling /\ Wording /\ Enough /\ Saved
  BY DEF IInv
<1>2. /\ at = "idle" /\ todo = "none" /\ call' = <<"set", k, v>>
      /\ strs' = strs /\ recs' = recs /\ re' = re
      /\ stored' = stored /\ copies' = copies /\ todo' = todo
      /\ hand' = hand /\ disk' = disk
      /\ \/ Search(k) = {} /\ at' = "write key" /\ rid' = Nil
         \/ at' = "delete" /\ rid' \in Search(k)
  BY DEF Set, Ready, index, tables
<1>3. /\ Keyed' = Keyed /\ Valued' = Valued /\ Loose' = Loose
      /\ Taken' = {} /\ Filed' = Filed /\ Taken = {} /\ hand = Nil /\ re = Blank
  BY <1>1, <1>2 DEF Keyed, Valued, Loose, Taken, Filed, BeingDropped, Shape
<1>4. \A r : KeyText(r)' = KeyText(r) /\ ValueText(r)' = ValueText(r)
  BY <1>2 DEF KeyText, ValueText
<1>5. Search(k) = {r \in stored : KeyText(r) = k}
  BY <1>1, Found
<1>6. rid' \in RecRid \cup {Nil} /\ (at' = "delete" => rid' \in stored)
  BY <1>1, <1>2, <1>5 DEF TypeOK, Idx!TypeOK
<1>7. TypeOK'
  BY <1>1, <1>2, <1>6 DEF TypeOK, Idx!TypeOK, Steps
<1>8. Shape'
  BY <1>1, <1>2, <1>3, <1>6 DEF Shape, Calling
<1>9. Owns(recs, Keyed, Valued, Loose, strs)'
  BY <1>1, <1>2, <1>3
<1>10. Spelling'
  BY <1>1, <1>2, <1>3, <1>4 DEF Spelling
<1>11. Wording'
  <2>1. at' = "delete" => KeyText(rid)' = call'[2]
    BY <1>2, <1>5, <1>6 DEF KeyText
  <2>2. at' # "delete" => \A r \in stored' : KeyText(r)' # call'[2]
    BY <1>2, <1>4, <1>5
  <2>. QED  BY <1>2, <1>3, <2>1, <2>2 DEF Wording
<1>12. Enough'
  <2>1. StrNeed' \in {1, 3} /\ RecNeed' \in {0, 1}
    BY <1>2, <1>3 DEF StrNeed, RecNeed, CopyComes
  <2>2. /\ Cardinality(StrRid \ DOMAIN strs) >= 3 /\ strs' = strs
        /\ Cardinality(RecRid \ DOMAIN recs) >= 2 /\ recs' = recs
    BY DEF Set, Room, tables
  <2>. QED  BY <2>1, <2>2, Counts DEF Enough
<1>13. Saved'
  BY <1>1, <1>2 DEF Saved
<1>14. RowsStay
  BY <1>2, <1>4 DEF RowsStay
<1>. QED  BY <1>7, <1>8, <1>9, <1>10, <1>11, <1>12, <1>13, <1>14 DEF IInv

LEMMA DelStep ==
  ASSUME IInv, NEW k \in Key, Del(k)
  PROVE  IInv' /\ RowsStay
<1>1. /\ TypeOK /\ Shape /\ Owns(recs, Keyed, Valued, Loose, strs)
      /\ Spelling /\ Wording /\ Enough /\ Saved
  BY DEF IInv
<1>2. /\ at = "idle" /\ todo = "none" /\ call' = <<"del", k, Nil>>
      /\ strs' = strs /\ recs' = recs /\ re' = re
      /\ stored' = stored /\ copies' = copies /\ todo' = todo
      /\ hand' = hand /\ disk' = disk
      /\ \/ Search(k) = {} /\ at' = at /\ rid' = rid
         \/ at' = "delete" /\ rid' \in Search(k)
  BY DEF Del, Ready, index, tables
<1>3. /\ Keyed' = Keyed /\ Valued' = Valued /\ Loose' = Loose
      /\ Taken' = {} /\ Filed' = Filed /\ Taken = {} /\ hand = Nil /\ re = Blank
  BY <1>1, <1>2 DEF Keyed, Valued, Loose, Taken, Filed, BeingDropped, Shape
<1>4. \A r : KeyText(r)' = KeyText(r) /\ ValueText(r)' = ValueText(r)
  BY <1>2 DEF KeyText, ValueText
<1>5. Search(k) = {r \in stored : KeyText(r) = k}
  BY <1>1, Found
<1>6. rid' \in RecRid \cup {Nil} /\ (at' = "delete" => rid' \in stored)
  BY <1>1, <1>2, <1>5 DEF TypeOK, Idx!TypeOK
<1>7. TypeOK'
  BY <1>1, <1>2, <1>6 DEF TypeOK, Idx!TypeOK, Steps
<1>8. Shape'
  BY <1>1, <1>2, <1>3, <1>6 DEF Shape, Calling
<1>9. Owns(recs, Keyed, Valued, Loose, strs)'
  BY <1>1, <1>2, <1>3
<1>10. Spelling'
  BY <1>1, <1>2, <1>3, <1>4 DEF Spelling
<1>11. Wording'
  <2>1. at' = "delete" => KeyText(rid)' = call'[2]
    BY <1>2, <1>5, <1>6 DEF KeyText
  <2>. QED  BY <1>2, <1>3, <2>1 DEF Wording, Calling
<1>12. Enough'
  <2>0. call'[1] = "del" /\ ~CopyComes' /\ at' \in {"idle", "delete"} /\ todo' = "none"
    BY <1>2, <1>3 DEF CopyComes
  <2>1. StrNeed' = 0 /\ RecNeed' = 0
    BY <2>0 DEF StrNeed, RecNeed
  <2>2. strs' = strs /\ recs' = recs
    BY <1>2
  <2>. QED  BY <2>1, <2>2, Counts DEF Enough
<1>13. Saved'
  BY <1>1, <1>2 DEF Saved
<1>14. RowsStay
  BY <1>2, <1>4 DEF RowsStay
<1>. QED  BY <1>7, <1>8, <1>9, <1>10, <1>11, <1>12, <1>13, <1>14 DEF IInv

LEMMA WriteValueStep ==
  ASSUME IInv, WriteValue
  PROVE  IInv' /\ RowsStay
<1>1. /\ TypeOK /\ Shape /\ Owns(recs, Keyed, Valued, Loose, strs)
      /\ Spelling /\ Wording /\ Enough /\ Saved
  BY DEF IInv
<1>2. /\ at = "write value" /\ todo = "none"
      /\ at' = IF rid = Nil THEN "write record" ELSE "delete record"
      /\ re' = [key |-> re.key, value |-> NewStr]
      /\ recs' = recs /\ stored' = stored /\ copies' = copies /\ todo' = todo
      /\ call' = call /\ rid' = rid /\ hand' = hand /\ disk' = disk
  BY DEF WriteValue, Ready, index
<1>3. hand = Nil /\ call \in {"set"} \X Key \X Val
  BY <1>1, <1>2 DEF Shape, Calling, Steps
<1>4. WriteStr(call[3]) /\ recs' = recs
  BY DEF WriteValue
<1>5. StrNeed = 2 /\ StrNeed' = 1 /\ RecNeed' = RecNeed
  BY <1>2, <1>3 DEF StrNeed, RecNeed, CopyComes
<1>6. Cardinality(StrRid \ DOMAIN strs) >= 1
  BY <1>1, <1>5, Counts DEF Enough
<1>7. /\ NewStr \in StrRid \ DOMAIN strs
      /\ DOMAIN strs' = DOMAIN strs \cup {NewStr}
      /\ strs'[NewStr] = call[3]
      /\ \A s \in DOMAIN strs : strs'[s] = strs[s]
      /\ Cardinality(StrRid \ DOMAIN strs') = Cardinality(StrRid \ DOMAIN strs) - 1
  BY <1>1, <1>4, <1>6, Written
<1>8. Enough'
  BY <1>1, <1>4, <1>5, <1>7, Counts DEF Enough
<1>9. /\ Taken' = Taken /\ Filed' = Filed /\ re'.key = re.key /\ re'.value = NewStr
      /\ re' \in [key : StrRid \cup {Nil}, value : StrRid \cup {Nil}]
      /\ Taken = IF rid = Nil THEN {} ELSE {rid}
  BY <1>1, <1>2, <1>3, <1>7 DEF Taken, Filed, Shape
<1>10. /\ Keyed' = Keyed /\ Valued' = Valued /\ Loose' = Loose \cup {NewStr}
       /\ rid = Nil => Loose = {re.key}
  BY <1>2, <1>3, <1>9 DEF Keyed, Valued, Loose, BeingDropped
<1>11. Owns(recs, Keyed, Valued, Loose, strs)'
  <2>1. strs' = Strs!With(strs, NewStr, call[3])
    BY <1>4 DEF WriteStr
  <2>2. Owns(recs, Keyed, Valued, Loose \cup {NewStr}, Strs!With(strs, NewStr, call[3]))
    BY <1>1, <1>7, OwnsWrite
  <2>. QED  BY <1>4, <1>10, <2>1, <2>2
<1>12. TypeOK'
  BY <1>1, <1>2, <1>3, <1>7, <1>9 DEF TypeOK, Idx!TypeOK, Steps
<1>13. Shape'
  <2>1. rid = Nil => re'.key # re'.value
    BY <1>1, <1>7, <1>9, <1>10 DEF Owns
  <2>2. rid # Nil => re'.key = recs'[rid].key
    BY <1>1, <1>2, <1>3, <1>9 DEF Shape
  <2>. QED  BY <1>1, <1>2, <1>3, <1>9, <2>1, <2>2 DEF Shape, Calling, Steps
<1>14. /\ \A r \in Keyed : KeyText(r)' = KeyText(r)
       /\ \A r \in Valued : ValueText(r)' = ValueText(r)
       /\ stored \subseteq Keyed /\ stored \subseteq Valued /\ stored' = stored
       /\ \A s \in Loose : strs'[s] = strs[s]
  BY <1>1, <1>2, <1>4, <1>7, StoredWhole DEF Owns, KeyText, ValueText
<1>15. Spelling'
  BY <1>1, <1>10, <1>14 DEF Spelling
<1>16. Wording'
  <2>1. \A r \in stored' : KeyText(r)' # call'[2]
    BY <1>1, <1>2, <1>14 DEF Wording, Calling, Steps
  <2>2. strs'[re'.value] = call'[3]
    BY <1>2, <1>7, <1>9
  <2>3. rid = Nil => strs'[re'.key] = call'[2]
    BY <1>1, <1>2, <1>9, <1>10, <1>14 DEF Wording
  <2>4. ASSUME rid # Nil PROVE KeyText(rid)' = call'[2]
    <3>1. rid \in Keyed /\ rid \in Taken
      BY <1>2, <1>3, <1>9, <2>4 DEF Keyed, BeingDropped
    <3>2. KeyText(rid) = call[2] /\ recs[rid].key \in DOMAIN strs
      BY <1>1, <3>1 DEF Wording, Owns
    <3>. QED  BY <1>2, <1>7, <3>2 DEF KeyText
  <2>. QED  BY <1>2, <1>3, <1>9, <2>1, <2>2, <2>3, <2>4 DEF Wording
<1>17. Saved'
  BY <1>1, <1>2 DEF Saved
<1>18. RowsStay
  BY <1>2, <1>14 DEF RowsStay
<1>. QED  BY <1>8, <1>11, <1>12, <1>13, <1>15, <1>16, <1>17, <1>18 DEF IInv

LEMMA WriteRecordStep ==
  ASSUME IInv, WriteRecord
  PROVE  IInv' /\ RowsStay
<1>1. /\ TypeOK /\ Shape /\ Owns(recs, Keyed, Valued, Loose, strs)
      /\ Spelling /\ Wording /\ Enough /\ Saved
  BY DEF IInv
<1>2. /\ at = "write record" /\ todo = "none" /\ at' = "insert"
      /\ rid' = NewRec /\ re' = re
      /\ strs' = strs /\ stored' = stored /\ copies' = copies /\ todo' = todo
      /\ call' = call /\ hand' = hand /\ disk' = disk
  BY DEF WriteRecord, Ready, index
<1>3. hand = Nil /\ call \in {"set"} \X Key \X Val /\ re.key # re.value
  BY <1>1, <1>2 DEF Shape, Calling, Steps
<1>4. recs' = Recs!With(recs, NewRec, re) /\ strs' = strs
  BY DEF WriteRecord
<1>5. StrNeed = 1 /\ StrNeed' = 1 /\ RecNeed = 1 /\ RecNeed' = 0
  BY <1>2, <1>3 DEF StrNeed, RecNeed, CopyComes
<1>6. Cardinality(RecRid \ DOMAIN recs) >= 1
  BY <1>1, <1>5, Counts DEF Enough
<1>7. PICK n \in RecRid \ DOMAIN recs :
        /\ n = NewRec
        /\ DOMAIN recs' = DOMAIN recs \cup {n}
        /\ recs'[n] = re
        /\ \A r \in DOMAIN recs : recs'[r] = recs[r]
        /\ Cardinality(RecRid \ DOMAIN recs') = Cardinality(RecRid \ DOMAIN recs) - 1
  BY <1>1, <1>4, <1>6, Recorded
<1>8. Enough'
  BY <1>1, <1>4, <1>5, <1>7, Counts DEF Enough
<1>9. /\ Taken = {} /\ Taken' = {n} /\ rid' = n /\ Filed' = Filed /\ n # Nil
      /\ n \notin Filed /\ DOMAIN recs = Filed
  BY <1>1, <1>2, <1>7, NilAssumption DEF Taken, Filed, Shape
<1>10. /\ Keyed' = Keyed \cup {n} /\ Valued' = Valued \cup {n}
       /\ Loose = {re.key, re.value} /\ Loose' = {}
  BY <1>2, <1>3, <1>9 DEF Keyed, Valued, Loose, BeingDropped
<1>11. Owns(recs, Keyed, Valued, Loose, strs)'
  BY <1>1, <1>3, <1>4, <1>7, <1>10, OwnsWriteRecord
<1>12. re \in [key : StrRid, value : StrRid]
  BY <1>1, <1>10, NilAssumption DEF Owns, Shape, TypeOK
<1>13. TypeOK'
  BY <1>1, <1>2, <1>7, <1>12 DEF TypeOK, Idx!TypeOK, Steps
<1>14. Shape'
  <2>1. \A r \in DOMAIN recs' : recs'[r] \in [key : StrRid, value : StrRid \cup {Nil}]
    BY <1>1, <1>7, <1>12 DEF Shape
  <2>2. \A r \in copies' : recs'[r].value = Nil
    BY <1>1, <1>2, <1>7, <1>9 DEF Shape, Filed
  <2>. QED  BY <1>1, <1>2, <1>3, <1>7, <1>9, <2>1, <2>2 DEF Shape, Calling, Steps
<1>15. /\ \A r \in Keyed : KeyText(r)' = KeyText(r)
       /\ \A r \in Valued : ValueText(r)' = ValueText(r)
       /\ stored \subseteq Keyed /\ stored \subseteq Valued /\ stored' = stored
       /\ KeyText(n)' = strs[re.key] /\ ValueText(n)' = strs[re.value]
  <2>1. Keyed \subseteq DOMAIN recs /\ Valued \subseteq DOMAIN recs
    BY <1>1 DEF Owns
  <2>2. KeyText(n)' = strs[re.key] /\ ValueText(n)' = strs[re.value]
    BY <1>4, <1>7 DEF KeyText, ValueText
  <2>. QED  BY <1>1, <1>2, <1>7, <2>1, <2>2, StoredWhole DEF KeyText, ValueText
<1>16. strs[re.key] = call[2] /\ strs[re.value] = call[3]
  BY <1>1, <1>2 DEF Wording
<1>17. Spelling'
  BY <1>1, <1>3, <1>10, <1>15, <1>16 DEF Spelling
<1>18. Wording'
  <2>1. \A r \in stored' : KeyText(r)' # call'[2]
    BY <1>1, <1>2, <1>15 DEF Wording, Calling, Steps
  <2>2. KeyText(rid)' = call'[2] /\ ValueText(rid)' = call'[3]
    BY <1>2, <1>7, <1>15, <1>16 DEF KeyText, ValueText
  <2>. QED  BY <1>2, <1>3, <2>1, <2>2 DEF Wording
<1>19. Saved'
  BY <1>1, <1>2 DEF Saved
<1>20. RowsStay
  BY <1>2, <1>15 DEF RowsStay
<1>. QED  BY <1>8, <1>11, <1>13, <1>14, <1>17, <1>18, <1>19, <1>20 DEF IInv

LEMMA InsertRowStep ==
  ASSUME IInv, InsertRow
  PROVE  IInv'
<1>1. /\ TypeOK /\ Shape /\ Owns(recs, Keyed, Valued, Loose, strs)
      /\ Spelling /\ Wording /\ Enough /\ Saved
  BY DEF IInv
<1>2. /\ at = "insert" /\ todo = "none" /\ at' = "idle"
      /\ rid' = Nil /\ re' = Blank
      /\ stored' = stored \cup {rid} /\ copies' = copies /\ todo' \in {"none", "copy"}
      /\ rid \notin stored \cup copies
      /\ strs' = strs /\ recs' = recs /\ call' = call /\ hand' = hand /\ disk' = disk
  BY DEF InsertRow, Ready, Idx!Insert, tables
<1>3. hand = Nil /\ call \in {"set"} \X Key \X Val
  BY <1>1, <1>2 DEF Shape, Calling, Steps
<1>4. /\ Taken = {rid} /\ Taken' = {} /\ Filed' = Filed \cup {rid}
      /\ Blank \in [key : StrRid \cup {Nil}, value : StrRid \cup {Nil}]
  BY <1>2 DEF Taken, Filed, Blank
<1>5. Keyed' = Keyed /\ Valued' = Valued /\ Loose = {} /\ Loose' = {}
  BY <1>2, <1>3, <1>4 DEF Keyed, Valued, Loose, BeingDropped
<1>6. rid \in Keyed /\ rid \in Valued /\ rid \in RecRid
  BY <1>1, <1>2, <1>3, <1>4 DEF Keyed, Valued, BeingDropped, Shape, TypeOK
<1>7. \A r : KeyText(r)' = KeyText(r) /\ ValueText(r)' = ValueText(r)
  BY <1>2 DEF KeyText, ValueText
<1>8. /\ KeyText(rid) = call[2] /\ ValueText(rid) = call[3]
      /\ \A r \in stored : KeyText(r) # call[2]
  BY <1>1, <1>2, <1>4, <1>6 DEF Wording, Calling, Steps
<1>9. TypeOK'
  BY <1>1, <1>2, <1>4, <1>6 DEF TypeOK, Idx!TypeOK, Steps, Blank
<1>10. Shape'
  BY <1>1, <1>2, <1>3, <1>4 DEF Shape, Calling
<1>11. Owns(recs, Keyed, Valued, Loose, strs)'
  BY <1>1, <1>2, <1>5
<1>12. Spelling'
  <2>1. \A r, q \in stored \cup {rid} : KeyText(r) = KeyText(q) => r = q
    BY <1>1, <1>8 DEF Spelling
  <2>. QED  BY <1>1, <1>2, <1>5, <1>7, <2>1 DEF Spelling
<1>13. Wording'
  <2>1. \E r \in stored' : KeyText(r)' = call'[2] /\ ValueText(r)' = call'[3]
    BY <1>2, <1>7, <1>8
  <2>. QED  BY <1>2, <1>3, <1>4, <2>1 DEF Wording, Calling
<1>14. Enough'
  <2>1. StrNeed = 1 /\ StrNeed' \in {0, 1}
    BY <1>2, <1>3 DEF StrNeed, CopyComes
  <2>2. RecNeed' = 0 \/ (RecNeed' = 1 /\ Cardinality(RecRid \ DOMAIN recs) >= 2)
    <3>1. CASE todo' = "copy"
      BY <1>2, <3>1 DEF RecNeed, InsertRow
    <3>2. CASE todo' = "none"
      BY <1>2, <3>2 DEF RecNeed
    <3>. QED  BY <1>2, <3>1, <3>2
  <2>3. strs' = strs /\ recs' = recs
    BY <1>2
  <2>. QED  BY <1>1, <2>1, <2>2, <2>3, Counts DEF Enough
<1>15. Saved'
  BY <1>1, <1>2 DEF Saved
<1>. QED  BY <1>9, <1>10, <1>11, <1>12, <1>13, <1>14, <1>15 DEF IInv

LEMMA DeleteRowStep ==
  ASSUME IInv, DeleteRow
  PROVE  IInv'
<1>1. /\ TypeOK /\ Shape /\ Owns(recs, Keyed, Valued, Loose, strs)
      /\ Spelling /\ Wording /\ Enough /\ Saved
  BY DEF IInv
<1>2. /\ at = "delete" /\ todo = "none"
      /\ at' = IF call[1] = "set" THEN "delete value" ELSE "delete key"
      /\ stored' = stored \ {rid} /\ copies' = copies
      /\ todo' \in {"none", "drop", "replace"} /\ rid \in stored
      /\ strs' = strs /\ recs' = recs /\ call' = call /\ rid' = rid /\ re' = re
      /\ hand' = hand /\ disk' = disk
  BY DEF DeleteRow, Ready, Idx!Delete, tables, local
<1>3. /\ hand = Nil /\ rid # Nil /\ rid \notin copies
      /\ call \in {"set"} \X Key \X Val \/ call \in {"del"} \X Key \X {Nil}
  BY <1>1, <1>2, NilAssumption DEF Shape, Calling, Steps, TypeOK, Idx!TypeOK
<1>4. Taken = {} /\ Taken' = {rid} /\ Filed' = Filed \ {rid} /\ rid \in Filed
  BY <1>2, <1>3 DEF Taken, Filed
<1>5. Keyed' = Keyed /\ Valued' = Valued /\ Loose = {} /\ Loose' = {}
  BY <1>2, <1>3, <1>4 DEF Keyed, Valued, Loose, BeingDropped
<1>6. \A r : KeyText(r)' = KeyText(r) /\ ValueText(r)' = ValueText(r)
  BY <1>2 DEF KeyText, ValueText
<1>7. KeyText(rid) = call[2] /\ \A r \in stored : KeyText(r) = KeyText(rid) => r = rid
  BY <1>1, <1>2 DEF Wording, Spelling
<1>8. TypeOK'
  BY <1>1, <1>2 DEF TypeOK, Idx!TypeOK, Steps
<1>9. Shape'
  <2>1. DOMAIN recs' = Filed' \cup Taken'
    BY <1>1, <1>2, <1>4 DEF Shape
  <2>. QED  BY <1>1, <1>2, <1>3, <1>4, <2>1 DEF Shape, Calling, Steps
<1>10. Owns(recs, Keyed, Valued, Loose, strs)'
  BY <1>1, <1>2, <1>5
<1>11. Spelling'
  BY <1>1, <1>2, <1>5, <1>6 DEF Spelling
<1>12. Wording'
  <2>1. \A r \in stored' : KeyText(r)' # call'[2]
    BY <1>2, <1>6, <1>7
  <2>2. KeyText(rid)' = call'[2]
    BY <1>2, <1>7 DEF KeyText
  <2>. QED  BY <1>2, <1>3, <2>1, <2>2 DEF Wording
<1>13. Enough'
  <2>1. StrNeed' = StrNeed /\ RecNeed' = RecNeed
    BY <1>2, <1>3 DEF StrNeed, RecNeed, CopyComes
  <2>. QED  BY <1>1, <1>2, <2>1 DEF Enough
<1>14. Saved'
  BY <1>1, <1>2 DEF Saved
<1>. QED  BY <1>8, <1>9, <1>10, <1>11, <1>12, <1>13, <1>14 DEF IInv

LEMMA DeleteKeyStep ==
  ASSUME IInv, DeleteKey
  PROVE  IInv' /\ RowsStay
<1>1. /\ TypeOK /\ Shape /\ Owns(recs, Keyed, Valued, Loose, strs)
      /\ Spelling /\ Wording /\ Enough /\ Saved
  BY DEF IInv
<1>2. /\ at = "delete key" /\ todo = "none" /\ at' = "delete value"
      /\ re' = recs[rid] /\ recs' = recs
      /\ stored' = stored /\ copies' = copies /\ todo' = todo
      /\ call' = call /\ rid' = rid /\ hand' = hand /\ disk' = disk
  BY DEF DeleteKey, Ready, index
<1>3. hand = Nil /\ call \in {"del"} \X Key \X {Nil}
  BY <1>1, <1>2 DEF Shape, Calling, Steps
<1>4. strs' = Strs!Without(strs, recs[rid].key) /\ recs' = recs
  BY DEF DeleteKey
<1>5. Taken = {rid} /\ Taken' = Taken /\ Filed' = Filed /\ rid \in DOMAIN recs /\ rid \notin Filed
  BY <1>1, <1>2 DEF Taken, Filed, Shape
<1>6. /\ Keyed = Filed \cup {rid} /\ Keyed' = Keyed \ {rid} /\ Valued' = Valued
      /\ Loose = {} /\ Loose' = {}
  BY <1>2, <1>3, <1>5 DEF Keyed, Valued, Loose, BeingDropped
<1>7. recs[rid].key \in DOMAIN strs
  BY <1>1, <1>6 DEF Owns
<1>8. /\ DOMAIN strs' = DOMAIN strs \ {recs[rid].key}
      /\ \A s \in DOMAIN strs \ {recs[rid].key} : strs'[s] = strs[s]
      /\ Cardinality(StrRid \ DOMAIN strs') = Cardinality(StrRid \ DOMAIN strs) + 1
  BY <1>1, <1>4, <1>7, Unwritten
<1>9. Enough'
  <2>1. StrNeed' = StrNeed /\ RecNeed' = RecNeed
    BY <1>2, <1>3 DEF StrNeed, RecNeed, CopyComes
  <2>2. StrNeed \in Nat
    BY DEF StrNeed
  <2>. QED  BY <1>1, <1>4, <1>8, <2>1, <2>2, Counts DEF Enough
<1>10. Owns(recs, Keyed, Valued, Loose, strs)'
  BY <1>1, <1>4, <1>6, OwnsDropKey
<1>11. re' \in [key : StrRid, value : StrRid \cup {Nil}]
  BY <1>1, <1>2, <1>5 DEF Shape
<1>12. TypeOK'
  BY <1>1, <1>2, <1>8, <1>11 DEF TypeOK, Idx!TypeOK, Steps
<1>13. Shape'
  BY <1>1, <1>2, <1>3, <1>5, <1>11 DEF Shape, Calling, Steps
<1>14. /\ \A r \in Keyed' : KeyText(r)' = KeyText(r)
       /\ \A r \in Valued : ValueText(r)' = ValueText(r)
       /\ stored \subseteq Keyed' /\ stored \subseteq Valued /\ stored' = stored
  <2>1. \A r \in Keyed \ {rid} : recs[r].key \in DOMAIN strs \ {recs[rid].key}
    BY <1>1, <1>6 DEF Owns
  <2>2. \A r \in Valued : recs[r].value \in DOMAIN strs \ {recs[rid].key}
    BY <1>1, <1>6 DEF Owns
  <2>3. stored \subseteq Keyed \ {rid} /\ stored \subseteq Valued
    BY <1>1, <1>5, StoredWhole DEF Filed
  <2>. QED  BY <1>2, <1>6, <1>8, <2>1, <2>2, <2>3 DEF KeyText, ValueText
<1>15. Spelling'
  BY <1>1, <1>6, <1>14 DEF Spelling
<1>16. Wording'
  <2>1. \A r \in stored' : KeyText(r)' # call'[2]
    BY <1>1, <1>2, <1>14 DEF Wording, Calling, Steps
  <2>2. Taken' \cap Keyed' = {}
    BY <1>5, <1>6
  <2>. QED  BY <1>2, <1>3, <2>1, <2>2 DEF Wording
<1>17. Saved'
  BY <1>1, <1>2 DEF Saved
<1>18. RowsStay
  BY <1>2, <1>14 DEF RowsStay
<1>. QED  BY <1>9, <1>10, <1>12, <1>13, <1>15, <1>16, <1>17, <1>18 DEF IInv

LEMMA DeleteValueStep ==
  ASSUME IInv, DeleteValue
  PROVE  IInv' /\ RowsStay
<1>1. /\ TypeOK /\ Shape /\ Owns(recs, Keyed, Valued, Loose, strs)
      /\ Spelling /\ Wording /\ Enough /\ Saved
  BY DEF IInv
<1>2. /\ at = "delete value" /\ todo = "none"
      /\ at' = IF call[1] = "set" THEN "write value" ELSE "delete record"
      /\ re' = recs[rid] /\ recs' = recs
      /\ stored' = stored /\ copies' = copies /\ todo' = todo
      /\ call' = call /\ rid' = rid /\ hand' = hand /\ disk' = disk
  BY DEF DeleteValue, Ready, index
<1>3. /\ hand = Nil
      /\ call \in {"set"} \X Key \X Val \/ call \in {"del"} \X Key \X {Nil}
  BY <1>1, <1>2 DEF Shape, Calling, Steps
<1>4. strs' = Strs!Without(strs, recs[rid].value) /\ recs' = recs
  BY DEF DeleteValue
<1>5. /\ Taken = {rid} /\ Taken' = Taken /\ Filed' = Filed
      /\ rid \in DOMAIN recs /\ rid \notin Filed /\ rid # Nil
  BY <1>1, <1>2, <1>3 DEF Taken, Filed, Shape
<1>6. /\ Keyed' = Keyed /\ Valued = stored \cup {rid} /\ Valued' = Valued \ {rid}
      /\ Loose = {} /\ Loose' = {}
  BY <1>2, <1>3, <1>5 DEF Keyed, Valued, Loose, BeingDropped, Filed
<1>7. recs[rid].value \in DOMAIN strs
  BY <1>1, <1>6 DEF Owns
<1>8. /\ DOMAIN strs' = DOMAIN strs \ {recs[rid].value}
      /\ \A s \in DOMAIN strs \ {recs[rid].value} : strs'[s] = strs[s]
      /\ Cardinality(StrRid \ DOMAIN strs') = Cardinality(StrRid \ DOMAIN strs) + 1
  BY <1>1, <1>4, <1>7, Unwritten
<1>9. Enough'
  <2>1. RecNeed' = 0
    BY <1>2, <1>3, <1>5 DEF RecNeed
  <2>2. call[1] = "set" => StrNeed = 1 /\ StrNeed' = 2
    BY <1>2, <1>3 DEF StrNeed, CopyComes
  <2>3. call[1] = "del" => StrNeed = 0 /\ StrNeed' = 0
    BY <1>2, <1>3 DEF StrNeed, CopyComes
  <2>4. StrNeed' = StrNeed \/ (StrNeed = 1 /\ StrNeed' = 2)
    <3>1. call[1] = "set" \/ call[1] = "del"
      BY <1>3
    <3>. QED  BY <2>2, <2>3, <3>1, Zenon
  <2>. QED  BY <1>1, <1>4, <1>8, <2>1, <2>4, Counts, Needs DEF Enough
<1>10. Owns(recs, Keyed, Valued, Loose, strs)'
  BY <1>1, <1>4, <1>6, OwnsDropValue
<1>11. re' \in [key : StrRid, value : StrRid \cup {Nil}]
  BY <1>1, <1>2, <1>5 DEF Shape
<1>12. TypeOK'
  BY <1>1, <1>2, <1>8, <1>11 DEF TypeOK, Idx!TypeOK, Steps
<1>13. Shape'
  BY <1>1, <1>2, <1>3, <1>5, <1>11 DEF Shape, Calling, Steps
<1>14. /\ \A r \in Keyed : KeyText(r)' = KeyText(r)
       /\ \A r \in Valued' : ValueText(r)' = ValueText(r)
       /\ stored \subseteq Keyed /\ stored \subseteq Valued' /\ stored' = stored
  <2>1. \A r \in Keyed : recs[r].key \in DOMAIN strs \ {recs[rid].value}
    BY <1>1, <1>6 DEF Owns
  <2>2. \A r \in Valued \ {rid} : recs[r].value \in DOMAIN strs \ {recs[rid].value}
    BY <1>1, <1>6 DEF Owns
  <2>3. stored \subseteq Keyed /\ stored \subseteq Valued \ {rid}
    BY <1>1, <1>5, StoredWhole DEF Filed
  <2>. QED  BY <1>2, <1>6, <1>8, <2>1, <2>2, <2>3 DEF KeyText, ValueText
<1>15. Spelling'
  BY <1>1, <1>6, <1>14 DEF Spelling
<1>16. Wording'
  <2>1. \A r \in stored' : KeyText(r)' # call'[2]
    BY <1>1, <1>2, <1>14 DEF Wording, Calling, Steps
  <2>2. ASSUME rid \in Keyed PROVE KeyText(rid)' = call'[2]
    <3>1. KeyText(rid) = call[2]
      BY <1>1, <1>5, <2>2 DEF Wording
    <3>2. recs[rid].key \in DOMAIN strs \ {recs[rid].value}
      BY <1>1, <1>6, <2>2 DEF Owns
    <3>. QED  BY <1>2, <1>8, <3>1, <3>2 DEF KeyText
  <2>3. Taken' \cap Keyed' # {} => rid \in Keyed
    BY <1>5, <1>6
  <2>. QED  BY <1>2, <1>3, <1>5, <2>1, <2>2, <2>3 DEF Wording
<1>17. Saved'
  BY <1>1, <1>2 DEF Saved
<1>18. RowsStay
  BY <1>2, <1>14 DEF RowsStay
<1>. QED  BY <1>9, <1>10, <1>12, <1>13, <1>15, <1>16, <1>17, <1>18 DEF IInv

\* myjql_set goes on with the key's string, which no record has now.
LEMMA DeleteRecordStep ==
  ASSUME IInv, DeleteRecord
  PROVE  IInv' /\ RowsStay
<1>1. /\ TypeOK /\ Shape /\ Owns(recs, Keyed, Valued, Loose, strs)
      /\ Spelling /\ Wording /\ Enough /\ Saved
  BY DEF IInv
<1>2. /\ at = "delete record" /\ todo = "none"
      /\ IF call[1] = "set" THEN at' = "write record" /\ rid' = rid /\ re' = re
                            ELSE at' = "idle" /\ rid' = Nil /\ re' = Blank
      /\ strs' = strs /\ stored' = stored /\ copies' = copies /\ todo' = todo
      /\ call' = call /\ hand' = hand /\ disk' = disk
  BY DEF DeleteRecord, Ready, index, local
<1>3. /\ hand = Nil
      /\ call \in {"set"} \X Key \X Val \/ call \in {"del"} \X Key \X {Nil}
  BY <1>1, <1>2 DEF Shape, Calling, Steps
<1>4. recs' = Recs!Without(recs, rid) /\ strs' = strs
  BY DEF DeleteRecord
<1>5. /\ Taken = {rid} /\ Taken' = {} /\ Filed' = Filed
      /\ rid \in DOMAIN recs /\ rid \notin Filed /\ rid # Nil
      /\ DOMAIN recs = Filed \cup {rid}
  BY <1>1, <1>2, <1>3 DEF Taken, Filed, Shape
<1>6. /\ Keyed' = Keyed \ {rid} /\ Valued' = Valued /\ rid \notin Valued
      /\ call[1] = "set" => /\ rid \in Keyed /\ re.key = recs[rid].key
                            /\ Loose = {re.value} /\ Loose' = Loose \cup {re.key}
      /\ call[1] = "del" => /\ rid \notin Keyed
                            /\ Loose = {} /\ Loose' = {}
  <2>1. /\ Keyed' = Keyed \ {rid} /\ Valued' = Valued /\ rid \notin Valued
    BY <1>2, <1>3, <1>5 DEF Keyed, Valued, BeingDropped, Filed
  <2>2. call[1] = "set" => /\ rid \in Keyed
                           /\ Loose = {re.value} /\ Loose' = Loose \cup {re.key}
    BY <1>2, <1>3, <1>5 DEF Keyed, Loose, BeingDropped
  <2>3. call[1] = "set" => re.key = recs[rid].key
    BY <1>1, <1>2, <1>5 DEF Shape
  <2>4. call[1] = "del" => /\ rid \notin Keyed
                           /\ Loose = {} /\ Loose' = {}
    BY <1>2, <1>3, <1>5 DEF Keyed, Loose, BeingDropped
  <2>. QED  BY <2>1, <2>2, <2>3, <2>4
<1>7. /\ DOMAIN recs' = DOMAIN recs \ {rid}
      /\ \A r \in DOMAIN recs \ {rid} : recs'[r] = recs[r]
      /\ Cardinality(RecRid \ DOMAIN recs') = Cardinality(RecRid \ DOMAIN recs) + 1
  BY <1>1, <1>4, <1>5, Unrecorded
<1>8. Enough'
  <2>1. RecNeed' \in {0, 1}
    BY DEF RecNeed
  <2>2. call[1] = "set" => StrNeed = 1 /\ StrNeed' = 1
    BY <1>2, <1>3 DEF StrNeed, CopyComes
  <2>3. call[1] = "del" => StrNeed = 0 /\ StrNeed' = 0
    BY <1>2, <1>3 DEF StrNeed, CopyComes
  <2>4. StrNeed' = StrNeed
    BY <1>3, <2>2, <2>3
  <2>. QED  BY <1>1, <1>4, <1>7, <2>1, <2>4, Counts, Needs DEF Enough
<1>9. Owns(recs, Keyed, Valued, Loose, strs)'
  <2>1. CASE call[1] = "set"
    BY <1>1, <1>4, <1>6, <2>1, OwnsKeepKey
  <2>2. CASE call[1] = "del"
    <3>1. rid \notin Keyed \cup Valued /\ Keyed' = Keyed /\ Valued' = Valued /\ Loose' = Loose
      BY <1>6, <2>2
    <3>. QED  BY <1>1, <1>4, <3>1, OwnsDropRecord
  <2>. QED  BY <1>3, <2>1, <2>2
<1>10. TypeOK'
  <2>1. /\ rid' \in RecRid \cup {Nil} /\ at' \in Steps
        /\ re'.key \in StrRid \cup {Nil} /\ re'.value \in StrRid \cup {Nil}
    <3>1. CASE call[1] = "set"
      BY <1>1, <1>2, <3>1 DEF TypeOK, Steps
    <3>2. CASE call[1] # "set"
      <4>1. at' = "idle" /\ rid' = Nil /\ re' = Blank
        BY <1>2, <3>2
      <4>2. re'.key = Nil /\ re'.value = Nil
        BY <4>1 DEF Blank
      <4>. QED  BY <4>1, <4>2 DEF Steps
    <3>. QED  BY <3>1, <3>2
  <2>2. DOMAIN recs' \subseteq DOMAIN recs /\ \A r \in DOMAIN recs' : recs'[r] = recs[r]
    BY <1>7
  <2>. QED  BY <1>1, <1>2, <2>1, <2>2 DEF TypeOK, Idx!TypeOK
<1>11. Shape'
  <2>1. call[1] = "set" => re.key # re.value
    BY <1>1, <1>6 DEF Owns
  <2>2. Blank \in [key : StrRid \cup {Nil}, value : StrRid \cup {Nil}]
    BY DEF Blank
  <2>3. DOMAIN recs' = Filed' \cup Taken' /\ \A r \in Filed : recs'[r] = recs[r]
    BY <1>5, <1>7
  <2>4. \A r \in copies : recs'[r].value = Nil
    BY <1>1, <2>3 DEF Shape, Filed
  <2>. QED  BY <1>1, <1>2, <1>3, <1>5, <1>7, <2>1, <2>2, <2>3, <2>4 DEF Shape, Calling, Steps
<1>12. /\ \A r \in Keyed' : KeyText(r)' = KeyText(r)
       /\ \A r \in Valued : ValueText(r)' = ValueText(r)
       /\ stored \subseteq Keyed' /\ stored \subseteq Valued /\ stored' = stored
  <2>1. Keyed \subseteq DOMAIN recs /\ Valued \subseteq DOMAIN recs
    BY <1>1 DEF Owns
  <2>2. stored \subseteq Keyed \ {rid} /\ stored \subseteq Valued
    BY <1>1, <1>5, StoredWhole DEF Filed
  <2>. QED  BY <1>2, <1>6, <1>7, <2>1, <2>2 DEF KeyText, ValueText
<1>13. Spelling'
  BY <1>1, <1>6, <1>12 DEF Spelling
<1>14. Wording'
  <2>1. \A r \in stored' : KeyText(r)' # call'[2]
    BY <1>1, <1>2, <1>12 DEF Wording, Calling, Steps
  <2>2. ASSUME call[1] = "set"
        PROVE  strs'[re'.key] = call'[2] /\ strs'[re'.value] = call'[3]
    <3>1. KeyText(rid) = call[2] /\ strs[re.value] = call[3]
      BY <1>1, <1>2, <1>5, <1>6, <2>2 DEF Wording
    <3>. QED  BY <1>2, <1>6, <2>2, <3>1 DEF KeyText
  <2>. QED  BY <1>2, <1>3, <1>5, <2>1, <2>2 DEF Wording, Calling
<1>15. Saved'
  BY <1>1, <1>2 DEF Saved
<1>16. RowsStay
  BY <1>2, <1>12 DEF RowsStay
<1>. QED  BY <1>8, <1>9, <1>10, <1>11, <1>13, <1>14, <1>15, <1>16 DEF IInv

\* Where a call is while the index wants a handler.
LEMMA Waiting ==
  ASSUME TypeOK, Shape, todo # "none"
  PROVE  /\ at \in {"idle", "delete key", "delete value"}
         /\ call \in {"set"} \X Key \X Val \/ call \in {"del"} \X Key \X {Nil}
         /\ at = "idle" => todo = "copy" /\ call[1] = "set"
         /\ Loose = IF todo = "copy" /\ hand # Nil THEN {hand} ELSE {}
         /\ Taken = IF at = "idle" THEN {} ELSE {rid}
         /\ Taken \cap Filed = {}
         /\ DOMAIN recs = Filed \cup Taken
         /\ stored \cap copies = {}
<1>1. /\ at \in {"idle", "delete key", "delete value"}
      /\ call \in {"set"} \X Key \X Val \/ call \in {"del"} \X Key \X {Nil}
  BY DEF Shape
<1>2. at = "idle" => todo = "copy" /\ call[1] = "set"
  BY <1>1 DEF Shape, TypeOK, Idx!TypeOK
<1>3. /\ Loose = IF todo = "copy" /\ hand # Nil THEN {hand} ELSE {}
      /\ Taken = IF at = "idle" THEN {} ELSE {rid}
  BY <1>1 DEF Loose, Taken
<1>4. /\ DOMAIN recs = Filed \cup Taken /\ Taken \cap Filed = {}
      /\ stored \cap copies = {}
  BY <1>1, <1>3 DEF Shape, TypeOK, Idx!TypeOK
<1>. QED  BY <1>1, <1>2, <1>3, <1>4

LEMMA DropKeyStep ==
  ASSUME IInv, DropKey
  PROVE  IInv' /\ RowsStay
<1>1. /\ TypeOK /\ Shape /\ Owns(recs, Keyed, Valued, Loose, strs)
      /\ Spelling /\ Wording /\ Enough /\ Saved
  BY DEF IInv
<1>2. /\ todo \in {"drop", "replace"} /\ hand = Nil
      /\ recs' = recs /\ stored' = stored /\ copies' = copies /\ todo' = todo
      /\ call' = call /\ at' = at /\ rid' = rid /\ re' = re /\ disk' = disk
  BY DEF DropKey, index, local
<1>3. PICK c \in copies : hand' = c /\ strs' = Strs!Without(strs, recs[c].key)
  BY DEF DropKey
<1>4. c # Nil /\ c \in RecRid
  BY <1>1, NilAssumption DEF TypeOK, Idx!TypeOK
<1>5. /\ at \in {"delete key", "delete value"}
      /\ call \in {"set"} \X Key \X Val \/ call \in {"del"} \X Key \X {Nil}
      /\ Taken = {rid} /\ rid \notin Filed /\ DOMAIN recs = Filed \cup Taken
      /\ stored \cap copies = {} /\ Loose = {}
  BY <1>1, <1>2, Waiting
<1>6. /\ c \in Keyed /\ Keyed' = Keyed \ {c} /\ Valued' = Valued
      /\ Loose' = {} /\ Taken' = Taken /\ Filed' = Filed
  BY <1>2, <1>3, <1>4, <1>5 DEF Keyed, Valued, Loose, BeingDropped, Taken, Filed
<1>7. recs[c].key \in DOMAIN strs
  BY <1>1, <1>6 DEF Owns
<1>8. /\ DOMAIN strs' = DOMAIN strs \ {recs[c].key}
      /\ \A s \in DOMAIN strs \ {recs[c].key} : strs'[s] = strs[s]
      /\ Cardinality(StrRid \ DOMAIN strs') = Cardinality(StrRid \ DOMAIN strs) + 1
  BY <1>1, <1>3, <1>7, Unwritten
<1>9. Enough'
  <2>1. RecNeed' = RecNeed
    BY <1>2, <1>5 DEF RecNeed
  <2>2. StrNeed = 0 => StrNeed' \in {0, 1}
    BY <1>2, <1>5 DEF StrNeed, CopyComes
  <2>3. StrNeed # 0 => StrNeed = 1 /\ StrNeed' \in {1, 2}
    BY <1>2, <1>5 DEF StrNeed, CopyComes
  <2>4. StrNeed' <= StrNeed + 1
    BY <2>2, <2>3, Needs
  <2>5. recs' = recs /\ StrNeed' \in Nat
    BY <1>2, <2>2, <2>3
  <2>. QED  BY <1>1, <1>8, <2>1, <2>4, <2>5, Counts, Needs DEF Enough
<1>10. Owns(recs, Keyed, Valued, Loose, strs)'
  BY <1>1, <1>2, <1>3, <1>5, <1>6, OwnsDropKey
<1>11. TypeOK'
  BY <1>1, <1>2, <1>3, <1>4, <1>8 DEF TypeOK, Idx!TypeOK
<1>12. Shape'
  BY <1>1, <1>2, <1>3, <1>4, <1>5, <1>6 DEF Shape, Calling
<1>13. /\ \A r \in Keyed' : KeyText(r)' = KeyText(r)
       /\ \A r \in Valued : ValueText(r)' = ValueText(r)
       /\ stored \subseteq Keyed' /\ stored \subseteq Valued
  <2>1. \A r \in Keyed \ {c} : recs[r].key \in DOMAIN strs \ {recs[c].key}
    BY <1>1, <1>6 DEF Owns
  <2>2. \A r \in Valued : recs[r].value \in DOMAIN strs \ {recs[c].key}
    BY <1>1, <1>6 DEF Owns
  <2>3. stored \subseteq Keyed \ {c} /\ stored \subseteq Valued
    BY <1>1, <1>5, StoredWhole
  <2>. QED  BY <1>2, <1>6, <1>8, <2>1, <2>2, <2>3 DEF KeyText, ValueText
<1>14. Spelling'
  BY <1>1, <1>2, <1>6, <1>13 DEF Spelling
<1>15. Wording'
  <2>1. \A r \in stored' : KeyText(r)' # call'[2]
    BY <1>1, <1>2, <1>5, <1>13 DEF Wording, Calling, Steps
  <2>2. ASSUME rid \in Keyed' PROVE KeyText(rid)' = call'[2]
    <3>1. KeyText(rid) = call[2] /\ rid \in Keyed \ {c}
      BY <1>1, <1>5, <1>6, <2>2 DEF Wording
    <3>2. recs[rid].key \in DOMAIN strs \ {recs[c].key}
      BY <1>1, <1>6, <3>1 DEF Owns
    <3>. QED  BY <1>2, <1>8, <3>1, <3>2 DEF KeyText
  <2>3. Taken' \cap Keyed' # {} => rid \in Keyed'
    BY <1>5, <1>6
  <2>. QED  BY <1>2, <1>5, <2>1, <2>2, <2>3 DEF Wording
<1>16. Saved'
  BY <1>1, <1>2, <1>5 DEF Saved
<1>17. RowsStay
  BY <1>2, <1>13 DEF RowsStay
<1>. QED  BY <1>9, <1>10, <1>11, <1>12, <1>14, <1>15, <1>16, <1>17 DEF IInv

LEMMA DropRecordStep ==
  ASSUME IInv, DropRecord
  PROVE  IInv' /\ RowsStay
<1>1. /\ TypeOK /\ Shape /\ Owns(recs, Keyed, Valued, Loose, strs)
      /\ Spelling /\ Wording /\ Enough /\ Saved
  BY DEF IInv
<1>2. /\ todo \in {"drop", "replace"} /\ hand # Nil /\ hand' = Nil /\ hand \in copies
      /\ strs' = strs /\ stored' = stored /\ copies' = copies \ {hand}
      /\ todo' = IF todo = "replace" THEN "copy" ELSE "none"
      /\ call' = call /\ at' = at /\ rid' = rid /\ re' = re /\ disk' = disk
  BY DEF DropRecord, Idx!Drop, local
<1>3. recs' = Recs!Without(recs, hand) /\ strs' = strs
  BY DEF DropRecord
<1>4. /\ at \in {"delete key", "delete value"}
      /\ call \in {"set"} \X Key \X Val \/ call \in {"del"} \X Key \X {Nil}
      /\ Taken = {rid} /\ rid \notin Filed /\ DOMAIN recs = Filed \cup Taken
      /\ stored \cap copies = {} /\ Loose = {} /\ hand \in Filed
  BY <1>1, <1>2, Waiting DEF Filed
<1>5. /\ hand \notin Keyed /\ hand \notin Valued
      /\ Keyed' = Keyed /\ Valued' = Valued
      /\ Loose' = {} /\ Taken' = Taken /\ Filed' = Filed \ {hand}
  BY <1>2, <1>4 DEF Keyed, Valued, Loose, BeingDropped, Taken, Filed
<1>6. /\ DOMAIN recs' = DOMAIN recs \ {hand}
      /\ \A r \in DOMAIN recs \ {hand} : recs'[r] = recs[r]
      /\ Cardinality(RecRid \ DOMAIN recs') = Cardinality(RecRid \ DOMAIN recs) + 1
  BY <1>1, <1>3, <1>4, Unrecorded
<1>7. Enough'
  <2>1. StrNeed' = StrNeed
    BY <1>2, <1>4 DEF StrNeed, CopyComes
  <2>2. RecNeed' \in {0, 1}
    BY DEF RecNeed
  <2>. QED  BY <1>1, <1>3, <1>6, <2>1, <2>2, Counts DEF Enough
<1>8. Owns(recs, Keyed, Valued, Loose, strs)'
  BY <1>1, <1>3, <1>4, <1>5, OwnsDropRecord
<1>9. TypeOK'
  BY <1>1, <1>2, <1>6 DEF TypeOK, Idx!TypeOK
<1>10. Shape'
  <2>1. DOMAIN recs' = Filed' \cup Taken' /\ \A r \in DOMAIN recs' : recs'[r] = recs[r]
    BY <1>4, <1>5, <1>6
  <2>2. \A r \in copies' : recs'[r].value = Nil
    BY <1>1, <1>2, <1>4, <1>6 DEF Shape, Filed
  <2>. QED  BY <1>1, <1>2, <1>4, <1>5, <1>6, <2>1, <2>2 DEF Shape, Calling
<1>11. /\ \A r \in Keyed : KeyText(r)' = KeyText(r)
       /\ \A r \in Valued : ValueText(r)' = ValueText(r)
       /\ stored \subseteq Keyed /\ stored \subseteq Valued
  <2>1. Keyed \subseteq DOMAIN recs \ {hand} /\ Valued \subseteq DOMAIN recs \ {hand}
    BY <1>1, <1>5 DEF Owns
  <2>. QED  BY <1>1, <1>2, <1>6, <2>1, StoredWhole DEF KeyText, ValueText
<1>12. Spelling'
  BY <1>1, <1>2, <1>5, <1>11 DEF Spelling
<1>13. Wording'
  <2>1. \A r \in stored' : KeyText(r)' # call'[2]
    BY <1>1, <1>2, <1>4, <1>11 DEF Wording, Calling, Steps
  <2>2. ASSUME rid \in Keyed PROVE KeyText(rid)' = call'[2]
    <3>1. KeyText(rid) = call[2] /\ rid \in DOMAIN recs \ {hand}
      BY <1>1, <1>4, <2>2 DEF Wording
    <3>. QED  BY <1>2, <1>6, <3>1 DEF KeyText
  <2>3. Taken' \cap Keyed' # {} => rid \in Keyed
    BY <1>4, <1>5
  <2>. QED  BY <1>2, <1>4, <2>1, <2>2, <2>3 DEF Wording
<1>14. Saved'
  BY <1>1, <1>2, <1>4 DEF Saved
<1>15. RowsStay
  BY <1>2, <1>11 DEF RowsStay
<1>. QED  BY <1>7, <1>8, <1>9, <1>10, <1>12, <1>13, <1>14, <1>15 DEF IInv

LEMMA CopyKeyStep ==
  ASSUME IInv, CopyKey
  PROVE  IInv' /\ RowsStay
<1>1. /\ TypeOK /\ Shape /\ Owns(recs, Keyed, Valued, Loose, strs)
      /\ Spelling /\ Wording /\ Enough /\ Saved
  BY DEF IInv
<1>2. /\ todo = "copy" /\ hand = Nil /\ hand' = NewStr
      /\ recs' = recs /\ stored' = stored /\ copies' = copies /\ todo' = todo
      /\ call' = call /\ at' = at /\ rid' = rid /\ re' = re /\ disk' = disk
  BY DEF CopyKey, index, local
<1>3. PICK r \in stored : WriteStr(KeyAt(r))
  BY DEF CopyKey
<1>4. /\ at \in {"idle", "delete key", "delete value"}
      /\ call \in {"set"} \X Key \X Val \/ call \in {"del"} \X Key \X {Nil}
      /\ at = "idle" => call[1] = "set"
      /\ Taken = IF at = "idle" THEN {} ELSE {rid}
      /\ Taken \cap Filed = {} /\ DOMAIN recs = Filed \cup Taken
      /\ stored \cap copies = {} /\ Loose = {}
  BY <1>1, <1>2, Waiting
<1>5. StrNeed = 1 \/ StrNeed = 2
  BY <1>2, <1>4 DEF StrNeed, CopyComes
<1>6. Cardinality(StrRid \ DOMAIN strs) >= 1
  BY <1>1, <1>5, Counts DEF Enough
<1>7. PICK s \in StrRid \ DOMAIN strs :
        /\ s = NewStr
        /\ DOMAIN strs' = DOMAIN strs \cup {s}
        /\ strs'[s] = KeyAt(r)
        /\ \A q \in DOMAIN strs : strs'[q] = strs[q]
        /\ Cardinality(StrRid \ DOMAIN strs') = Cardinality(StrRid \ DOMAIN strs) - 1
  BY <1>1, <1>3, <1>6, Written
<1>8. hand' = s /\ s # Nil
  BY <1>2, <1>7, NilAssumption
<1>9. Enough'
  <2>1. RecNeed' = RecNeed /\ recs' = recs
    BY <1>2, <1>4 DEF RecNeed
  <2>2. (StrNeed = 2 /\ StrNeed' = 1) \/ (StrNeed = 1 /\ StrNeed' = 0)
    <3>1. CopyComes /\ ~CopyComes'
      BY <1>2, <1>8 DEF CopyComes
    <3>2. CASE at = "delete value" /\ call[1] = "set"
      BY <1>2, <3>1, <3>2 DEF StrNeed
    <3>3. CASE ~(at = "delete value" /\ call[1] = "set")
      BY <1>2, <1>4, <3>1, <3>3 DEF StrNeed
    <3>. QED  BY <3>2, <3>3
  <2>. QED  BY <1>1, <1>7, <2>1, <2>2, Counts DEF Enough
<1>10. /\ Keyed' = Keyed /\ Valued' = Valued /\ Loose' = Loose \cup {s}
       /\ Taken' = Taken /\ Filed' = Filed
  BY <1>2, <1>4, <1>8 DEF Keyed, Valued, Loose, BeingDropped, Taken, Filed
<1>11. Owns(recs, Keyed, Valued, Loose, strs)'
  <2>1. strs' = Strs!With(strs, s, KeyAt(r))
    BY <1>3, <1>7 DEF WriteStr
  <2>. QED  BY <1>1, <1>2, <1>7, <1>10, <2>1, OwnsWrite
<1>12. TypeOK'
  <2>1. KeyAt(r) \in Key
    BY <1>1, Reads, StoredWhole DEF Spelling
  <2>. QED  BY <1>1, <1>2, <1>7, <1>8, <2>1 DEF TypeOK, Idx!TypeOK
<1>13. Shape'
  BY <1>1, <1>2, <1>4, <1>10 DEF Shape, Calling
<1>14. /\ \A q \in Keyed : KeyText(q)' = KeyText(q)
       /\ \A q \in Valued : ValueText(q)' = ValueText(q)
       /\ stored \subseteq Keyed /\ stored \subseteq Valued
       /\ KeyAt(r) \in Key
  BY <1>1, <1>2, <1>7, StoredWhole, Reads DEF Owns, KeyText, ValueText, Spelling
<1>15. Spelling'
  BY <1>1, <1>2, <1>10, <1>14 DEF Spelling
<1>16. Wording'
  <2>1. Calling' => \A q \in stored' : KeyText(q)' # call'[2]
    BY <1>1, <1>2, <1>4, <1>14 DEF Wording, Calling, Steps
  <2>2. ASSUME rid \in Keyed, Taken # {} PROVE KeyText(rid)' = call'[2]
    <3>1. KeyText(rid) = call[2] /\ recs[rid].key \in DOMAIN strs
      BY <1>1, <1>4, <2>2 DEF Wording, Owns
    <3>. QED  BY <1>2, <1>7, <3>1 DEF KeyText
  <2>3. Taken' \cap Keyed' # {} => rid \in Keyed /\ Taken # {}
    BY <1>4, <1>10
  <2>4. at = "idle" => \E q \in stored' : KeyText(q)' = call'[2] /\ ValueText(q)' = call'[3]
    BY <1>1, <1>2, <1>14 DEF Wording
  <2>5. strs'[hand'] \in Key
    BY <1>7, <1>8, <1>14
  <2>. QED  BY <1>2, <1>4, <2>1, <2>2, <2>3, <2>4, <2>5 DEF Wording
<1>17. Saved'
  BY <1>1, <1>2, <1>4 DEF Saved
<1>18. RowsStay
  BY <1>2, <1>14 DEF RowsStay
<1>. QED  BY <1>9, <1>11, <1>12, <1>13, <1>15, <1>16, <1>17, <1>18 DEF IInv

LEMMA CopyRecordStep ==
  ASSUME IInv, CopyRecord
  PROVE  IInv' /\ RowsStay
<1>1. /\ TypeOK /\ Shape /\ Owns(recs, Keyed, Valued, Loose, strs)
      /\ Spelling /\ Wording /\ Enough /\ Saved
  BY DEF IInv
<1>2. /\ todo = "copy" /\ todo' = "none" /\ hand # Nil /\ hand' = Nil
      /\ strs' = strs /\ stored' = stored /\ copies' = copies \cup {NewRec}
      /\ call' = call /\ at' = at /\ rid' = rid /\ re' = re /\ disk' = disk
  BY DEF CopyRecord, Idx!Copy, local
<1>3. recs' = Recs!With(recs, NewRec, [key |-> hand, value |-> Nil]) /\ strs' = strs
  BY DEF CopyRecord
<1>4. /\ at \in {"idle", "delete key", "delete value"}
      /\ call \in {"set"} \X Key \X Val \/ call \in {"del"} \X Key \X {Nil}
      /\ at = "idle" => call[1] = "set"
      /\ Taken = IF at = "idle" THEN {} ELSE {rid}
      /\ Taken \cap Filed = {} /\ DOMAIN recs = Filed \cup Taken
      /\ stored \cap copies = {} /\ Loose = {hand}
  BY <1>1, <1>2, Waiting
<1>5. RecNeed = 1 /\ RecNeed' = 0 /\ StrNeed' = StrNeed
  BY <1>2, <1>4 DEF RecNeed, StrNeed, CopyComes
<1>6. Cardinality(RecRid \ DOMAIN recs) >= 1
  BY <1>1, <1>5, Counts DEF Enough
<1>7. PICK c \in RecRid \ DOMAIN recs :
        /\ c = NewRec
        /\ DOMAIN recs' = DOMAIN recs \cup {c}
        /\ recs'[c] = [key |-> hand, value |-> Nil]
        /\ \A q \in DOMAIN recs : recs'[q] = recs[q]
        /\ Cardinality(RecRid \ DOMAIN recs') = Cardinality(RecRid \ DOMAIN recs) - 1
  BY <1>1, <1>3, <1>6, Recorded
<1>8. Enough'
  BY <1>1, <1>3, <1>5, <1>7, Counts DEF Enough
<1>9. hand \in DOMAIN strs /\ hand \in StrRid
  BY <1>1, <1>4 DEF Owns, TypeOK
<1>10. /\ recs'[c].key = hand /\ recs'[c].value = Nil
       /\ recs'[c] \in [key : StrRid, value : StrRid \cup {Nil}]
       /\ \A q \in DOMAIN recs : recs'[q] = recs[q]
       /\ DOMAIN recs' = DOMAIN recs \cup {c} /\ c \in RecRid \ DOMAIN recs /\ c = NewRec
  BY <1>7, <1>9
<1>11. /\ Keyed' = Keyed \cup {c} /\ Valued' = Valued /\ Loose' = {}
       /\ Taken' = Taken /\ Filed' = Filed \cup {c} /\ c \notin Filed /\ c \notin Taken
  BY <1>2, <1>4, <1>7 DEF Keyed, Valued, Loose, BeingDropped, Taken, Filed
<1>12. Owns(recs, Keyed, Valued, Loose, strs)'
  <2>. DEFINE row == [key |-> hand, value |-> Nil]
  <2>1. row.key = hand /\ recs' = Recs!With(recs, c, row)
    BY <1>3, <1>7
  <2>2. Owns(recs, Keyed, Valued, {row.key}, strs)
    BY <1>1, <1>4, <2>1
  <2>. HIDE DEF row
  <2>. QED  BY <1>3, <1>7, <1>11, <2>1, <2>2, OwnsWriteCopy
<1>13. TypeOK'
  <2>1. \A q \in DOMAIN recs' : recs'[q].key \in StrRid /\ recs'[q].value \in StrRid \cup {Nil}
    BY <1>1, <1>9, <1>10 DEF TypeOK
  <2>2. copies' = copies \cup {c} /\ c \notin stored
    BY <1>2, <1>4, <1>10 DEF Filed
  <2>3. Idx!TypeOK'
    BY <1>1, <1>2, <1>10, <2>2 DEF TypeOK, Idx!TypeOK
  <2>. QED  BY <1>1, <1>2, <1>10, <2>1, <2>3 DEF TypeOK
<1>14. Shape'
  <2>1. DOMAIN recs' = Filed' \cup Taken'
    BY <1>4, <1>10, <1>11
  <2>2. \A q \in DOMAIN recs' : recs'[q] \in [key : StrRid, value : StrRid \cup {Nil}]
    BY <1>1, <1>10, <1>9 DEF Shape
  <2>3. \A q \in copies' : recs'[q].value = Nil
    BY <1>1, <1>2, <1>4, <1>10 DEF Shape, Filed
  <2>4. recs'[rid] = recs[rid] \/ Taken = {}
    BY <1>4, <1>10
  <2>. QED  BY <1>1, <1>2, <1>4, <1>11, <2>1, <2>2, <2>3, <2>4 DEF Shape, Calling
<1>15. /\ \A q \in Keyed : KeyText(q)' = KeyText(q)
       /\ \A q \in Valued : ValueText(q)' = ValueText(q)
       /\ stored \subseteq Keyed /\ stored \subseteq Valued
       /\ KeyText(c)' = strs[hand]
  <2>1. Keyed \subseteq DOMAIN recs /\ Valued \subseteq DOMAIN recs
    BY <1>1 DEF Owns
  <2>2. KeyText(c)' = strs[hand]
    BY <1>2, <1>10 DEF KeyText
  <2>. QED  BY <1>1, <1>2, <1>10, <2>1, <2>2, StoredWhole DEF KeyText, ValueText
<1>16. Spelling'
  <2>1. strs[hand] \in Key
    BY <1>1, <1>2 DEF Wording
  <2>. QED  BY <1>1, <1>2, <1>11, <1>15, <2>1 DEF Spelling
<1>17. Wording'
  <2>1. Calling' => \A q \in stored' : KeyText(q)' # call'[2]
    BY <1>1, <1>2, <1>4, <1>15 DEF Wording, Calling, Steps
  <2>2. ASSUME rid \in Keyed, Taken # {} PROVE KeyText(rid)' = call'[2]
    <3>1. KeyText(rid) = call[2] /\ rid \in DOMAIN recs
      BY <1>1, <1>4, <2>2 DEF Wording, Owns
    <3>. QED  BY <1>2, <1>10, <3>1 DEF KeyText
  <2>3. Taken' \cap Keyed' # {} => rid \in Keyed /\ Taken # {}
    BY <1>4, <1>11
  <2>. QED  BY <1>2, <1>4, <2>1, <2>2, <2>3 DEF Wording
<1>18. Saved'
  BY <1>1, <1>2, <1>4 DEF Saved
<1>19. RowsStay
  BY <1>2, <1>15 DEF RowsStay
<1>. QED  BY <1>8, <1>12, <1>13, <1>14, <1>16, <1>17, <1>18, <1>19 DEF IInv

LEMMA CloseIdxStep ==
  ASSUME IInv, CloseIdx
  PROVE  IInv' /\ RowsStay
<1>1. /\ TypeOK /\ Shape /\ Owns(recs, Keyed, Valued, Loose, strs)
      /\ Spelling /\ Wording /\ Enough /\ Saved
  BY DEF IInv
<1>2. /\ at = "idle" /\ at' = "close rec"
      /\ strs' = strs /\ recs' = recs /\ re' = re
      /\ stored' = stored /\ copies' = copies /\ todo' = todo
      /\ call' = call /\ rid' = rid /\ hand' = hand
  BY DEF CloseIdx, Ready, index, tables, local
<1>3. todo = "none" /\ hand = Nil
  BY <1>1, <1>2 DEF Shape, CloseIdx, Ready
<1>4. disk' = [idx |-> <<stored, copies>>, rec |-> disk.rec, str |-> disk.str]
  BY <1>1 DEF Saved, CloseIdx
<1>5. Saved'
  BY <1>1, <1>2, <1>4 DEF Saved
<1>6. /\ Keyed' = Keyed /\ Valued' = Valued /\ Loose' = Loose
      /\ Taken' = Taken /\ Filed' = Filed /\ Taken = {}
  BY <1>2, <1>3 DEF Keyed, Valued, Loose, Taken, Filed, BeingDropped
<1>7. \A r : KeyText(r)' = KeyText(r) /\ ValueText(r)' = ValueText(r)
  BY <1>2 DEF KeyText, ValueText
<1>8. TypeOK'
  BY <1>1, <1>2 DEF TypeOK, Idx!TypeOK, Steps
<1>9. Shape'
  BY <1>1, <1>2, <1>3, <1>6 DEF Shape, Calling
<1>10. Owns(recs, Keyed, Valued, Loose, strs)'
  BY <1>1, <1>2, <1>6
<1>11. Spelling'
  BY <1>1, <1>2, <1>6, <1>7 DEF Spelling
<1>12. Wording'
  BY <1>2, <1>3, <1>6 DEF Wording, Calling
<1>13. Enough'
  <2>1. StrNeed' = 0 /\ RecNeed' = 0
    BY <1>2, <1>3 DEF StrNeed, RecNeed, CopyComes
  <2>2. strs' = strs /\ recs' = recs
    BY <1>2
  <2>. QED  BY <2>1, <2>2, Counts DEF Enough
<1>14. RowsStay
  BY <1>2, <1>7 DEF RowsStay
<1>. QED  BY <1>5, <1>8, <1>9, <1>10, <1>11, <1>12, <1>13, <1>14 DEF IInv

LEMMA CloseRecStep ==
  ASSUME IInv, CloseRec
  PROVE  IInv' /\ RowsStay
<1>1. /\ TypeOK /\ Shape /\ Owns(recs, Keyed, Valued, Loose, strs)
      /\ Spelling /\ Wording /\ Enough /\ Saved
  BY DEF IInv
<1>2. /\ at = "close rec" /\ at' = "close str"
      /\ strs' = strs /\ recs' = recs /\ re' = re
      /\ stored' = stored /\ copies' = copies /\ todo' = todo
      /\ call' = call /\ rid' = rid /\ hand' = hand
  BY DEF CloseRec, index, tables, local
<1>3. todo = "none" /\ hand = Nil
  BY <1>1, <1>2 DEF Shape
<1>4. disk' = [idx |-> disk.idx, rec |-> recs, str |-> disk.str]
  BY <1>1 DEF Saved, CloseRec
<1>5. Saved'
  BY <1>1, <1>2, <1>4 DEF Saved
<1>6. /\ Keyed' = Keyed /\ Valued' = Valued /\ Loose' = Loose
      /\ Taken' = Taken /\ Filed' = Filed /\ Taken = {}
  BY <1>2, <1>3 DEF Keyed, Valued, Loose, Taken, Filed, BeingDropped
<1>7. \A r : KeyText(r)' = KeyText(r) /\ ValueText(r)' = ValueText(r)
  BY <1>2 DEF KeyText, ValueText
<1>8. TypeOK'
  BY <1>1, <1>2 DEF TypeOK, Idx!TypeOK, Steps
<1>9. Shape'
  BY <1>1, <1>2, <1>3, <1>6 DEF Shape, Calling
<1>10. Owns(recs, Keyed, Valued, Loose, strs)'
  BY <1>1, <1>2, <1>6
<1>11. Spelling'
  BY <1>1, <1>2, <1>6, <1>7 DEF Spelling
<1>12. Wording'
  BY <1>2, <1>3, <1>6 DEF Wording, Calling
<1>13. Enough'
  <2>1. StrNeed' = 0 /\ RecNeed' = 0
    BY <1>2, <1>3 DEF StrNeed, RecNeed, CopyComes
  <2>2. strs' = strs /\ recs' = recs
    BY <1>2
  <2>. QED  BY <2>1, <2>2, Counts DEF Enough
<1>14. RowsStay
  BY <1>2, <1>7 DEF RowsStay
<1>. QED  BY <1>5, <1>8, <1>9, <1>10, <1>11, <1>12, <1>13, <1>14 DEF IInv

LEMMA CloseStrStep ==
  ASSUME IInv, CloseStr
  PROVE  IInv' /\ RowsStay
<1>1. /\ TypeOK /\ Shape /\ Owns(recs, Keyed, Valued, Loose, strs)
      /\ Spelling /\ Wording /\ Enough /\ Saved
  BY DEF IInv
<1>2. /\ at = "close str" /\ at' = "closed"
      /\ strs' = strs /\ recs' = recs /\ re' = re
      /\ stored' = stored /\ copies' = copies /\ todo' = todo
      /\ call' = call /\ rid' = rid /\ hand' = hand
  BY DEF CloseStr, index, tables, local
<1>3. todo = "none" /\ hand = Nil
  BY <1>1, <1>2 DEF Shape
<1>4. disk' = [idx |-> disk.idx, rec |-> disk.rec, str |-> strs]
  BY <1>1 DEF Saved, CloseStr
<1>5. Saved'
  BY <1>1, <1>2, <1>4 DEF Saved
<1>6. /\ Keyed' = Keyed /\ Valued' = Valued /\ Loose' = Loose
      /\ Taken' = Taken /\ Filed' = Filed /\ Taken = {}
  BY <1>2, <1>3 DEF Keyed, Valued, Loose, Taken, Filed, BeingDropped
<1>7. \A r : KeyText(r)' = KeyText(r) /\ ValueText(r)' = ValueText(r)
  BY <1>2 DEF KeyText, ValueText
<1>8. TypeOK'
  BY <1>1, <1>2 DEF TypeOK, Idx!TypeOK, Steps
<1>9. Shape'
  BY <1>1, <1>2, <1>3, <1>6 DEF Shape, Calling
<1>10. Owns(recs, Keyed, Valued, Loose, strs)'
  BY <1>1, <1>2, <1>6
<1>11. Spelling'
  BY <1>1, <1>2, <1>6, <1>7 DEF Spelling
<1>12. Wording'
  BY <1>2, <1>3, <1>6 DEF Wording, Calling
<1>13. Enough'
  <2>1. StrNeed' = 0 /\ RecNeed' = 0
    BY <1>2, <1>3 DEF StrNeed, RecNeed, CopyComes
  <2>2. strs' = strs /\ recs' = recs
    BY <1>2
  <2>. QED  BY <2>1, <2>2, Counts DEF Enough
<1>14. RowsStay
  BY <1>2, <1>7 DEF RowsStay
<1>. QED  BY <1>5, <1>8, <1>9, <1>10, <1>11, <1>12, <1>13, <1>14 DEF IInv

\* A start finds on disk what the stop left in memory.
LEMMA StartRestores ==
  ASSUME IInv, Start
  PROVE  /\ at = "closed" /\ at' = "idle" /\ todo = "none" /\ hand = Nil
         /\ strs' = strs /\ recs' = recs /\ re' = re
         /\ stored' = stored /\ copies' = copies /\ todo' = todo
         /\ rid' = rid /\ hand' = hand /\ call' = Nil /\ disk' = NoDisk
<1>1. /\ disk.idx = <<stored, copies>> /\ disk.rec = recs /\ disk.str = strs
      /\ at = "closed"
  BY DEF Start, IInv, Saved
<1>2. todo = "none" /\ hand = Nil
  BY <1>1 DEF IInv, Shape
<1>. QED  BY <1>1, <1>2 DEF Start, local

LEMMA StartStep ==
  ASSUME IInv, Start
  PROVE  IInv' /\ RowsStay
<1>1. /\ TypeOK /\ Shape /\ Owns(recs, Keyed, Valued, Loose, strs)
      /\ Spelling /\ Wording /\ Enough /\ Saved
  BY DEF IInv
<1>2. /\ at = "closed" /\ at' = "idle" /\ todo = "none" /\ hand = Nil
      /\ strs' = strs /\ recs' = recs /\ re' = re
      /\ stored' = stored /\ copies' = copies /\ todo' = todo
      /\ rid' = rid /\ hand' = hand /\ disk' = NoDisk
  BY StartRestores
<1>3. /\ Keyed' = Keyed /\ Valued' = Valued /\ Loose' = Loose
      /\ Taken' = Taken /\ Filed' = Filed /\ Taken = {}
  BY <1>2 DEF Keyed, Valued, Loose, Taken, Filed, BeingDropped
<1>4. \A r : KeyText(r)' = KeyText(r) /\ ValueText(r)' = ValueText(r)
  BY <1>2 DEF KeyText, ValueText
<1>5. TypeOK'
  BY <1>1, <1>2 DEF TypeOK, Idx!TypeOK, Steps
<1>6. Shape'
  BY <1>1, <1>2, <1>3 DEF Shape, Calling
<1>7. Owns(recs, Keyed, Valued, Loose, strs)'
  BY <1>1, <1>2, <1>3
<1>8. Spelling'
  BY <1>1, <1>2, <1>3, <1>4 DEF Spelling
<1>9. Wording'
  BY <1>2, <1>3 DEF Wording, Calling
<1>10. Enough'
  <2>1. StrNeed' = 0 /\ RecNeed' = 0
    BY <1>2 DEF StrNeed, RecNeed, CopyComes
  <2>2. strs' = strs /\ recs' = recs
    BY <1>2
  <2>. QED  BY <2>1, <2>2, Counts DEF Enough
<1>11. Saved'
  BY <1>2 DEF Saved, NoDisk
<1>12. RowsStay
  BY <1>2, <1>4 DEF RowsStay
<1>. QED  BY <1>5, <1>6, <1>7, <1>8, <1>9, <1>10, <1>11, <1>12 DEF IInv

-----------------------------------------------------------------------------
(* Safety.                                                                  *)

\* What the invariant says of lookups: a key is that of one stored row, whose
\* value is returned, or of none.
Lookup ==
  \A k \in Key :
    /\ Search(k) = {r \in stored : KeyText(r) = k}
    /\ \A r \in stored : KeyText(r) = k => ValueOf(k) = ValueText(r)
    /\ (\A r \in stored : KeyText(r) # k) => ValueOf(k) = Nil

LEMMA LookupRight == IInv => Lookup
<1>. SUFFICES ASSUME IInv, NEW k \in Key
              PROVE  /\ Search(k) = {r \in stored : KeyText(r) = k}
                     /\ \A r \in stored : KeyText(r) = k => ValueOf(k) = ValueText(r)
                     /\ (\A r \in stored : KeyText(r) # k) => ValueOf(k) = Nil
  BY DEF Lookup
<1>1. Search(k) = {r \in stored : KeyText(r) = k}
  BY Found DEF IInv
<1>2. ASSUME NEW r \in stored, KeyText(r) = k PROVE ValueOf(k) = ValueText(r)
  <2>1. Search(k) = {r}
    BY <1>1, <1>2 DEF IInv, Spelling
  <2>2. ValueOf(k) = StrAt(recs[r].value)
    BY <2>1 DEF ValueOf
  <2>. QED  BY <2>2, Reads, StoredWhole DEF IInv
<1>3. (\A r \in stored : KeyText(r) # k) => ValueOf(k) = Nil
  BY <1>1 DEF ValueOf
<1>. QED  BY <1>1, <1>2, <1>3

\* Every step keeps the invariant.
LEMMA NextInv == IInv /\ [Next]_vars => IInv'
<1>. SUFFICES ASSUME IInv, [Next]_vars PROVE IInv'
  OBVIOUS
<1>1. CASE Call
  BY <1>1, GetStep, SetStep, DelStep DEF Call
<1>2. CASE Step
  BY <1>2, WriteKeyStep, WriteValueStep, WriteRecordStep, InsertRowStep,
     DeleteRowStep, DeleteKeyStep, DeleteValueStep, DeleteRecordStep DEF Step
<1>3. CASE Handler
  BY <1>3, DropKeyStep, DropRecordStep, CopyKeyStep, CopyRecordStep DEF Handler
<1>4. CASE Restart
  BY <1>4, CloseIdxStep, CloseRecStep, CloseStrStep, StartStep DEF Restart
<1>5. CASE UNCHANGED vars
  <2>1. /\ strs' = strs /\ recs' = recs /\ re' = re /\ at' = at
        /\ stored' = stored /\ copies' = copies /\ todo' = todo
        /\ call' = call /\ rid' = rid /\ hand' = hand /\ disk' = disk
    BY <1>5 DEF vars, tables, index, local
  <2>2. /\ Keyed' = Keyed /\ Valued' = Valued /\ Loose' = Loose
        /\ Taken' = Taken /\ Filed' = Filed
    BY <2>1 DEF Keyed, Valued, Loose, Taken, Filed, BeingDropped
  <2>3. \A r : KeyText(r)' = KeyText(r) /\ ValueText(r)' = ValueText(r)
    BY <2>1 DEF KeyText, ValueText
  <2>4. TypeOK' /\ Shape'
    BY <2>1, <2>2 DEF IInv, TypeOK, Idx!TypeOK, Shape, Calling
  <2>5. Owns(recs, Keyed, Valued, Loose, strs)'
    BY <2>1, <2>2 DEF IInv
  <2>6. Spelling' /\ Wording'
    <3>1. KeyText(rid)' = KeyText(rid) /\ ValueText(rid)' = ValueText(rid)
      BY <2>1 DEF KeyText, ValueText
    <3>. QED  BY <2>1, <2>2, <2>3, <3>1 DEF IInv, Spelling, Wording, Calling
  <2>7. Enough'
    <3>1. StrNeed' = StrNeed /\ RecNeed' = RecNeed
      BY <2>1 DEF StrNeed, RecNeed, CopyComes
    <3>. QED  BY <2>1, <3>1 DEF IInv, Enough
  <2>8. Saved'
    BY <2>1 DEF IInv, Saved
  <2>. QED  BY <2>4, <2>5, <2>6, <2>7, <2>8 DEF IInv
<1>. QED  BY <1>1, <1>2, <1>3, <1>4, <1>5 DEF Next

\* Who holds which string, at every step of every call of myjql.c.
THEOREM Ownership == Spec => []IInv
<1>. QED  BY InitInv, NextInv, PTL DEF Spec

\* Whatever step of a call of myjql.c b_tree.c compares rows at, the key of
\* each row it may meet is there, and no two stored rows have the same key.
THEOREM Comparable == Spec => []AlwaysComparable
<1>1. IInv => AlwaysComparable
  <2>. SUFFICES ASSUME IInv PROVE AlwaysComparable
    OBVIOUS
  <2>1. Filed \ BeingDropped \subseteq Keyed
    <3>1. at \in {"delete value", "delete record"} => rid \notin Filed
      BY DEF IInv, Shape, Taken
    <3>. QED  BY <3>1 DEF Keyed
  <2>2. \A r \in Keyed : KeyAt(r) = KeyText(r) /\ KeyText(r) # Nil
    BY Reads, NilAssumption DEF IInv, Spelling
  <2>3. \A r, q \in stored : KeyAt(r) = KeyAt(q) => r = q
    BY <2>2, StoredWhole DEF IInv, Spelling
  <2>. QED  BY <2>1, <2>2, <2>3 DEF AlwaysComparable, Filed
<1>. QED  BY <1>1, Ownership, PTL

\* Between the calls of myjql.c the tables hold the records the index refers
\* to, the strings these refer to, each once, and nothing else.
THEOREM NoLeak == Spec => []NothingLeaks
<1>1. IInv => NothingLeaks
  <2>. SUFFICES ASSUME IInv, Ready("idle")
                PROVE  /\ DOMAIN recs = stored \cup copies
                       /\ \A r \in copies : recs[r].value = Nil
                       /\ \A r \in stored : recs[r].value # Nil /\ recs[r].value # recs[r].key
                       /\ \A r, q \in DOMAIN recs : r # q =>
                            {recs[r].key, recs[r].value} \cap {recs[q].key, recs[q].value}
                              \subseteq {Nil}
                       /\ DOMAIN strs = {recs[r].key : r \in DOMAIN recs}
                                          \cup {recs[r].value : r \in stored}
    BY DEF IInv, NothingLeaks
  <2>1. Taken = {} /\ Keyed = Filed /\ Valued = stored /\ Loose = {}
    BY DEF Ready, Taken, Keyed, Valued, Loose, BeingDropped
  <2>2. DOMAIN recs = Filed /\ \A r \in copies : recs[r].value = Nil
    BY <2>1 DEF IInv, Shape
  <2>3. Owns(recs, Filed, stored, {}, strs) /\ DOMAIN strs \subseteq StrRid
    BY <2>1 DEF IInv, TypeOK
  <2>4. \A r \in stored : recs[r].value # Nil /\ recs[r].value # recs[r].key
    BY <2>3, NilAssumption DEF Owns, Filed
  <2>5. ASSUME NEW r \in Filed, NEW q \in Filed, r # q
        PROVE  {recs[r].key, recs[r].value} \cap {recs[q].key, recs[q].value} \subseteq {Nil}
    BY <2>2, <2>3, <2>5 DEF Owns, Filed
  <2>6. DOMAIN strs = {recs[r].key : r \in Filed} \cup {recs[r].value : r \in stored}
    <3>1. \A t \in DOMAIN strs : \/ \E r \in Filed : recs[r].key = t
                                \/ \E r \in stored : recs[r].value = t
      BY <2>3 DEF Owns
    <3>2. /\ \A r \in Filed : recs[r].key \in DOMAIN strs
          /\ \A r \in stored : recs[r].value \in DOMAIN strs
      BY <2>3 DEF Owns
    <3>. QED  BY <3>1, <3>2
  <2>. QED  BY <2>2, <2>4, <2>5, <2>6 DEF Filed
<1>. QED  BY <1>1, Ownership, PTL

-----------------------------------------------------------------------------
(* The store implements KeyValue.                                           *)

\* A call is under way, and its key counts as set, or deleted, already.
Busy == Open /\ ~Ready("idle")

Content == [k \in Key |-> IF Busy /\ call[2] = k THEN call[3] ELSE ValueOf(k)]

\* The rows stay, and so do the values of the keys.
LEMMA ValuesStay ==
  ASSUME Lookup, Lookup', RowsStay
  PROVE  \A k \in Key : ValueOf(k)' = ValueOf(k)
<1>. SUFFICES ASSUME NEW k \in Key PROVE ValueOf(k)' = ValueOf(k)
  OBVIOUS
<1>1. ASSUME NEW r \in stored, KeyText(r) = k PROVE ValueOf(k)' = ValueOf(k)
  <2>1. KeyText(r)' = k /\ r \in stored' /\ ValueText(r)' = ValueText(r)
    BY <1>1 DEF RowsStay
  <2>. QED  BY <1>1, <2>1 DEF Lookup
<1>2. ASSUME \A r \in stored : KeyText(r) # k PROVE ValueOf(k)' = ValueOf(k)
  <2>1. \A r \in stored' : KeyText(r)' # k
    BY <1>2 DEF RowsStay
  <2>. QED  BY <1>2, <2>1 DEF Lookup
<1>. QED  BY <1>1, <1>2

\* The call goes on.
LEMMA Working ==
  ASSUME Lookup, Lookup', RowsStay, Busy, Busy', call' = call
  PROVE  Content' = Content
BY ValuesStay DEF Content

\* No call is under way.
LEMMA Resting ==
  ASSUME Lookup, Lookup', RowsStay, ~Busy, ~Busy'
  PROVE  Content' = Content
BY ValuesStay DEF Content

\* A call ends that has put its value into the index, or has left its key out.
LEMMA Ending ==
  ASSUME Lookup, Lookup', RowsStay, Busy, ~Busy', call[2] \in Key,
         \/ \E r \in stored : KeyText(r) = call[2] /\ ValueText(r) = call[3]
         \/ call[3] = Nil /\ \A r \in stored : KeyText(r) # call[2]
  PROVE  Content' = Content
<1>1. ValueOf(call[2]) = call[3]
  BY DEF Lookup
<1>2. \A k \in Key : ValueOf(k)' = ValueOf(k)
  BY ValuesStay
<1>. QED  BY <1>1, <1>2 DEF Content

LEMMA InitContent == Init => Content = [k \in Key |-> Nil] /\ call = Nil
<1>. SUFFICES ASSUME Init PROVE Content = [k \in Key |-> Nil] /\ call = Nil
  OBVIOUS
<1>1. ~Busy
  BY DEF Init, Idx!Init, Busy, Ready
<1>2. \A k : ValueOf(k) = Nil
  BY DEF Init, Idx!Init, ValueOf, Search
<1>. QED  BY <1>1, <1>2 DEF Init, Content

LEMMA CallContent ==
  ASSUME IInv, Lookup, Lookup', Call
  PROVE  Map!Next
<1>1. ASSUME NEW k \in Key, Get(k) PROVE Map!Next
  <2>1. ~Busy /\ ~Busy' /\ call' = <<"get", k, ValueOf(k)>>
    BY <1>1 DEF Get, Busy, Ready, Open, index
  <2>2. Content' = Content
    BY <1>1, <2>1, GetStep, Resting
  <2>3. Content[k] = ValueOf(k)
    BY <2>1 DEF Content
  <2>. QED  BY <2>1, <2>2, <2>3 DEF Map!Next, Map!Get, Content, Busy
<1>2. ASSUME NEW k \in Key, NEW v \in Val, Set(k, v) PROVE Map!Next
  <2>1. ~Busy /\ Busy' /\ call' = <<"set", k, v>>
    BY <1>2 DEF Set, Busy, Ready, Open, index
  <2>2. \A j \in Key : ValueOf(j)' = ValueOf(j)
    BY <1>2, SetStep, ValuesStay
  <2>3. Content' = [Content EXCEPT ![k] = v]
    BY <2>1, <2>2 DEF Content
  <2>. QED  BY <2>1, <2>3 DEF Map!Next, Map!Set, Content, Busy
<1>3. ASSUME NEW k \in Key, Del(k) PROVE Map!Next
  <2>1. /\ ~Busy /\ call' = <<"del", k, Nil>>
        /\ Busy' \/ Search(k) = {}
    BY <1>3 DEF Del, Busy, Ready, Open, index
  <2>2. \A j \in Key : ValueOf(j)' = ValueOf(j)
    BY <1>3, DelStep, ValuesStay
  <2>3. Busy' \/ ValueOf(k) = Nil
    BY <2>1 DEF ValueOf
  <2>4. Content' = [Content EXCEPT ![k] = Nil]
    BY <2>1, <2>2, <2>3 DEF Content
  <2>. QED  BY <2>1, <2>4 DEF Map!Next, Map!Del, Content, Busy
<1>. QED  BY <1>1, <1>2, <1>3 DEF Call

LEMMA InsertContent ==
  ASSUME IInv, Lookup, Lookup', InsertRow
  PROVE  Content' = Content /\ call' = call
<1>1. /\ stored' = stored \cup {rid} /\ call' = call /\ Busy
      /\ at = "insert" /\ todo = "none" /\ rid \notin stored \cup copies
      /\ strs' = strs /\ recs' = recs
  BY DEF InsertRow, Ready, Idx!Insert, tables, Busy, Open
<1>2. call \in {"set"} \X Key \X Val
  BY <1>1 DEF IInv, Shape, Calling, Steps
<1>3. KeyText(rid) = call[2] /\ ValueText(rid) = call[3]
  <2>1. Taken = {rid} /\ rid \in Keyed
    BY <1>1, <1>2 DEF Taken, Keyed, BeingDropped
  <2>. QED  BY <1>1, <2>1 DEF IInv, Wording
<1>4. \A r : KeyText(r)' = KeyText(r) /\ ValueText(r)' = ValueText(r)
  BY <1>1 DEF KeyText, ValueText
<1>5. ValueOf(call[2])' = call[3] /\ call[2] \in Key
  BY <1>1, <1>2, <1>3, <1>4 DEF Lookup
<1>6. ASSUME NEW k \in Key, k # call[2] PROVE ValueOf(k)' = ValueOf(k)
  <2>1. ASSUME NEW r \in stored, KeyText(r) = k PROVE ValueOf(k)' = ValueOf(k)
    BY <1>1, <1>4, <2>1 DEF Lookup
  <2>2. ASSUME \A r \in stored : KeyText(r) # k PROVE ValueOf(k)' = ValueOf(k)
    <3>1. \A r \in stored' : KeyText(r)' # k
      BY <1>1, <1>3, <1>4, <1>6, <2>2
    <3>. QED  BY <2>2, <3>1 DEF Lookup
  <2>. QED  BY <2>1, <2>2
<1>7. ASSUME NEW k \in Key PROVE Content'[k] = Content[k]
  BY <1>1, <1>5, <1>6 DEF Content
<1>. QED  BY <1>1, <1>7 DEF Content

LEMMA DeleteContent ==
  ASSUME IInv, Lookup, Lookup', DeleteRow
  PROVE  Content' = Content /\ call' = call
<1>1. /\ stored' = stored \ {rid} /\ call' = call /\ rid \in stored /\ at = "delete"
      /\ strs' = strs /\ recs' = recs
  BY DEF DeleteRow, Ready, Idx!Delete, tables
<1>2. Busy /\ Busy'
  BY DEF DeleteRow, Ready, Busy, Open
<1>3. KeyText(rid) = call[2]
  BY <1>1 DEF IInv, Wording
<1>4. \A r : KeyText(r)' = KeyText(r) /\ ValueText(r)' = ValueText(r)
  BY <1>1 DEF KeyText, ValueText
<1>5. ASSUME NEW k \in Key, k # call[2] PROVE ValueOf(k)' = ValueOf(k)
  <2>1. ASSUME NEW r \in stored, KeyText(r) = k PROVE ValueOf(k)' = ValueOf(k)
    BY <1>1, <1>3, <1>4, <1>5, <2>1 DEF Lookup
  <2>2. ASSUME \A r \in stored : KeyText(r) # k PROVE ValueOf(k)' = ValueOf(k)
    BY <1>1, <1>4, <2>2 DEF Lookup
  <2>. QED  BY <2>1, <2>2
<1>6. ASSUME NEW k \in Key PROVE Content'[k] = Content[k]
  BY <1>1, <1>2, <1>5 DEF Content
<1>. QED  BY <1>1, <1>6 DEF Content

\* The end of a deletion.
LEMMA DeleteRecordContent ==
  ASSUME IInv, Lookup, Lookup', DeleteRecord
  PROVE  Content' = Content /\ call' = call
<1>1. /\ at = "delete record" /\ todo = "none" /\ call' = call /\ todo' = todo
      /\ at' = IF call[1] = "set" THEN "write record" ELSE "idle"
  BY DEF DeleteRecord, Ready, index
<1>2. /\ call \in {"set"} \X Key \X Val \/ call \in {"del"} \X Key \X {Nil}
      /\ \A r \in stored : KeyText(r) # call[2]
  BY <1>1 DEF IInv, Shape, Wording, Calling, Steps
<1>3. Busy /\ RowsStay
  BY <1>1, DeleteRecordStep DEF Busy, Open, Ready
<1>4. CASE call[1] = "set"
  <2>1. Busy'
    BY <1>1, <1>4 DEF Busy, Open, Ready
  <2>. QED  BY <1>1, <1>3, <2>1, Working
<1>5. CASE call[1] # "set"
  <2>1. ~Busy' /\ call[3] = Nil /\ call[2] \in Key
    BY <1>1, <1>2, <1>5 DEF Busy, Open, Ready
  <2>. QED  BY <1>1, <1>2, <1>3, <2>1, Ending
<1>. QED  BY <1>4, <1>5

LEMMA StepContent ==
  ASSUME IInv, Lookup, Lookup', Step
  PROVE  Content' = Content /\ call' = call
<1>1. CASE WriteKey
  <2>1. Busy /\ Busy' /\ call' = call
    BY <1>1 DEF WriteKey, Busy, Open, Ready
  <2>. QED  BY <1>1, <2>1, WriteKeyStep, Working
<1>2. CASE WriteValue
  <2>1. Busy /\ Busy' /\ call' = call
    BY <1>2 DEF WriteValue, Busy, Open, Ready
  <2>. QED  BY <1>2, <2>1, WriteValueStep, Working
<1>3. CASE WriteRecord
  <2>1. Busy /\ Busy' /\ call' = call
    BY <1>3 DEF WriteRecord, Busy, Open, Ready
  <2>. QED  BY <1>3, <2>1, WriteRecordStep, Working
<1>4. CASE DeleteKey
  <2>1. Busy /\ Busy' /\ call' = call
    BY <1>4 DEF DeleteKey, Busy, Open, Ready
  <2>. QED  BY <1>4, <2>1, DeleteKeyStep, Working
<1>5. CASE DeleteValue
  <2>1. Busy /\ Busy' /\ call' = call
    BY <1>5 DEF DeleteValue, Busy, Open, Ready
  <2>. QED  BY <1>5, <2>1, DeleteValueStep, Working
<1>. QED  BY <1>1, <1>2, <1>3, <1>4, <1>5, InsertContent, DeleteContent,
             DeleteRecordContent DEF Step

LEMMA HandlerContent ==
  ASSUME IInv, Lookup, Lookup', Handler
  PROVE  Content' = Content /\ call' = call
<1>1. /\ todo # "none" /\ call' = call /\ at' = at /\ RowsStay
  BY DropKeyStep, DropRecordStep, CopyKeyStep, CopyRecordStep
     DEF Handler, DropKey, DropRecord, CopyKey, CopyRecord, Idx!Drop, Idx!Copy
<1>2. /\ at \in {"idle", "delete key", "delete value"}
      /\ call[2] \in Key
  BY <1>1, Waiting DEF IInv
<1>3. Busy
  BY <1>1, <1>2 DEF Busy, Open, Ready
<1>4. CASE Busy'
  BY <1>1, <1>3, <1>4, Working
<1>5. CASE ~Busy'
  <2>1. at = "idle"
    BY <1>1, <1>2, <1>5 DEF Busy, Open, Ready
  <2>2. \E r \in stored : KeyText(r) = call[2] /\ ValueText(r) = call[3]
    BY <1>1, <2>1 DEF IInv, Wording
  <2>. QED  BY <1>1, <1>2, <1>3, <1>5, <2>2, Ending
<1>. QED  BY <1>4, <1>5

LEMMA RestartContent ==
  ASSUME IInv, Lookup, Lookup', Restart
  PROVE  Content' = Content /\ (call' = call \/ call' = Nil)
<1>1. CASE CloseIdx \/ CloseRec \/ CloseStr
  <2>1. ~Busy /\ ~Busy' /\ call' = call
    BY <1>1 DEF CloseIdx, CloseRec, CloseStr, Busy, Open, Ready
  <2>2. RowsStay
    BY <1>1, CloseIdxStep, CloseRecStep, CloseStrStep
  <2>. QED  BY <2>1, <2>2, Resting
<1>2. CASE Start
  <2>1. ~Busy /\ ~Busy' /\ call' = Nil
    BY <1>2, StartRestores DEF Busy, Open, Ready
  <2>2. RowsStay
    BY <1>2, StartStep
  <2>. QED  BY <2>1, <2>2, Resting
<1>. QED  BY <1>1, <1>2 DEF Restart

\* myjql.h: get, set and del of myjql.c work on one map, a step of which is
\* seen at once though each call is many writes, and a stop and a start leave
\* it as it was.
THEOREM Implementation == Spec => ImplementsKeyValue
<1>1. Init => Map!Init
  BY InitContent DEF Map!Init, Content, Busy
<1>2. IInv /\ Lookup /\ Lookup' /\ [Next]_vars => [Map!Next]_<<Content, call>>
  <2>. SUFFICES ASSUME IInv, Lookup, Lookup', [Next]_vars
                PROVE  Map!Next \/ (Content' = Content /\ call' = call)
    OBVIOUS
  <2>1. CASE Call
    BY <2>1, CallContent
  <2>2. CASE Step
    BY <2>2, StepContent
  <2>3. CASE Handler
    BY <2>3, HandlerContent
  <2>4. CASE Restart
    BY <2>4, RestartContent DEF Map!Next, Map!Restart, Content, Busy
  <2>5. CASE UNCHANGED vars
    BY <2>5 DEF vars, tables, index, local, Content, Busy, Open, Ready, ValueOf,
                Search, KeyAt, StrAt
  <2>. QED  BY <2>1, <2>2, <2>3, <2>4, <2>5 DEF Next
<1>. QED  BY <1>1, <1>2, Ownership, LookupRight, PTL
             DEF Spec, ImplementsKeyValue, Map!Spec, Content, Busy
=============================================================================
