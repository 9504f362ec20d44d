-------------------------------- MODULE MyJQL --------------------------------
(***************************************************************************)
(* myjql.c: get, set and del over an index (Index), a table of records and *)
(* a table of strings (Rows).  A record holds the RIDs of a key's and of a *)
(* value's string.  Each write to one of the three, by a call or by a      *)
(* handler the index calls back, is a step.                                *)
(***************************************************************************)
EXTENDS Integers, FiniteSets

CONSTANTS Key, Val,
          StrRid, RecRid,  \* RIDs of the two tables, as numbers
          Nil              \* -1

ASSUME RidAssumption ==
  /\ StrRid \subseteq Nat /\ IsFiniteSet(StrRid)
  /\ RecRid \subseteq Nat /\ IsFiniteSet(RecRid)
ASSUME NilAssumption == Nil \notin StrRid \cup RecRid \cup Key \cup Val

VARIABLES strs, recs,              \* tbl_str, tbl_rec
          stored, copies, todo,    \* bp_idx, and what b_tree.c still wants
          call,                    \* the last call: operation, key, value or answer
          at,                      \* where it is: the step it takes next
          rid, re,                 \* its local variables rid1 and re
          hand,                    \* the handler's: the string or record in hand
          disk                     \* what the files hold, while they are not open

index  == <<stored, copies, todo>>
tables == <<strs, recs>>
local  == <<rid, re>>
vars   == <<tables, index, call, at, local, hand, disk>>

Idx  == INSTANCE Index WITH Row <- RecRid
Strs == INSTANCE Rows WITH rows <- strs, Rid <- StrRid, Row <- Key \cup Val
Recs == INSTANCE Rows WITH rows <- recs, Rid <- RecRid,
          Row <- [key : StrRid, value : StrRid \cup {Nil}]

Blank == [key |-> Nil, value |-> Nil]
Empty == [r \in {} |-> Nil]

Steps == {"idle", "write key", "write value", "write record", "insert", "delete", "delete key",
          "delete value", "delete record", "drop key", "drop record", "copy record",
          "close rec", "close str", "closed"}

TypeOK ==
  /\ DOMAIN strs \subseteq StrRid /\ \A s \in DOMAIN strs : strs[s] \in Key \cup Val
  /\ DOMAIN recs \subseteq RecRid
  /\ \A r \in DOMAIN recs : recs[r].key \in StrRid /\ recs[r].value \in StrRid \cup {Nil}
  /\ Idx!TypeOK
  /\ at \in Steps
  /\ rid \in RecRid \cup {Nil}
  /\ re.key \in StrRid \cup {Nil} /\ re.value \in StrRid \cup {Nil}
  /\ hand \in StrRid \cup RecRid \cup {Nil}

-----------------------------------------------------------------------------
(* Reading and writing the tables.                                          *)

Least(S) == CHOOSE i \in S : \A j \in S : i <= j

\* The RID a table gives a new row.  myjql.c passes RIDs on and never looks into
\* them, so any free one would do; the least is a freed one whenever there is
\* one, so that a reference kept too long is met as soon as possible.
NewStr == Least(StrRid \ DOMAIN strs)
NewRec == Least(RecRid \ DOMAIN recs)

\* The string at s, and the key of record r, if they are there.
StrAt(s) == IF s \in DOMAIN strs THEN strs[s] ELSE Nil
KeyAt(r) == IF r \in DOMAIN recs THEN StrAt(recs[r].key) ELSE Nil

WriteStr(text) == strs' = Strs!With(strs, NewStr, text)

-----------------------------------------------------------------------------
(* Handlers.  While the index wants one of them the call itself waits.      *)

Ready(step) == at = step /\ todo = "none"

\* delete_handler, for any copy: read_record and delete_string(re.key) ...
DropKey ==
  /\ todo \in {"drop", "replace"} /\ hand = Nil
  /\ \E c \in copies : /\ hand' = c
                       /\ strs' = Strs!Without(strs, recs[c].key)
  /\ UNCHANGED <<recs, index, call, at, local, disk>>

\* ... and delete_record.
DropRecord ==
  /\ hand # Nil /\ Idx!Drop(hand)
  /\ recs' = Recs!Without(recs, hand)
  /\ hand' = Nil
  /\ UNCHANGED <<strs, call, at, local, disk>>

\* Mutant of CopyKey: the copy shares the row's key.
CopyKeyShared ==
  /\ todo = "copy" /\ hand = Nil
  /\ \E r \in stored : hand' = recs[r].key
  /\ UNCHANGED <<tables, index, call, at, local, disk>>

\* insert_handler, for any row: its key is written once more ...
CopyKey ==
  /\ todo = "copy" /\ hand = Nil
  /\ \E r \in stored : WriteStr(KeyAt(r))
  /\ hand' = NewStr
  /\ UNCHANGED <<recs, index, call, at, local, disk>>

\* ... and a record with it, and no value.
CopyRecord ==
  /\ hand # Nil /\ Idx!Copy(NewRec)
  /\ recs' = Recs!With(recs, NewRec, [key |-> hand, value |-> Nil])
  /\ hand' = Nil
  /\ UNCHANGED <<strs, call, at, local, disk>>

-----------------------------------------------------------------------------
(* Calls.                                                                   *)

\* b_tree_search: the row of key k, or none.
Search(k) == {r \in stored : KeyAt(r) = k}

\* The value of the row that is found, or Nil.
ValueOf(k) == IF Search(k) = {} THEN Nil ELSE StrAt(recs[CHOOSE r \in Search(k) : TRUE].value)

\* myjql_get.  (get_string_size and load_string read what was written: Strings.)
Get(k) ==
  /\ Ready("idle")
  /\ call' = <<"get", k, ValueOf(k)>>
  /\ UNCHANGED <<tables, index, at, local, hand, disk>>

\* Room for what a call may write: a bound.
Room ==
  /\ Cardinality(StrRid \ DOMAIN strs) >= 3
  /\ Cardinality(RecRid \ DOMAIN recs) >= 2

\* myjql_set: a key that is found is taken out of the index first.
Set(k, v) ==
  /\ Ready("idle") /\ Room
  /\ call' = <<"set", k, v>>
  /\ \/ Search(k) = {} /\ at' = "write key" /\ rid' = Nil
     \/ at' = "delete" /\ rid' \in Search(k)
  /\ UNCHANGED <<tables, index, re, hand, disk>>

\* myjql_del: a key that is not found is not deleted.
Del(k) ==
  /\ Ready("idle")
  /\ call' = <<"del", k, Nil>>
  /\ \/ Search(k) = {} /\ UNCHANGED <<at, rid>>
     \/ at' = "delete" /\ rid' \in Search(k)
  /\ UNCHANGED <<tables, index, re, hand, disk>>

\* write_string of a new key.
WriteKey ==
  /\ Ready("write key")
  /\ WriteStr(call[2]) /\ re' = [key |-> NewStr, value |-> re.value]
  /\ at' = "write value"
  /\ UNCHANGED <<recs, index, call, rid, hand, disk>>

\* Mutant of WriteValue: a record that is written anew keeps its old value.
WriteValueForgets ==
  /\ Ready("write value")
  /\ WriteStr(call[3]) /\ re' = IF rid = Nil THEN [key |-> re.key, value |-> NewStr] ELSE re
  /\ at' = IF rid = Nil THEN "write record" ELSE "delete record"
  /\ UNCHANGED <<recs, index, call, rid, hand, disk>>

\* write_string of the value; the record of a key that was found is deleted next.
WriteValue ==
  /\ Ready("write value")
  /\ WriteStr(call[3]) /\ re' = [key |-> re.key, value |-> NewStr]
  /\ at' = IF rid = Nil THEN "write record" ELSE "delete record"
  /\ UNCHANGED <<recs, index, call, rid, hand, disk>>

WriteRecord ==
  /\ Ready("write record")
  /\ recs' = Recs!With(recs, NewRec, re) /\ rid' = NewRec
  /\ at' = "insert"
  /\ UNCHANGED <<strs, index, call, re, hand, disk>>

\* b_tree_insert.  (It makes no copy that would leave no room for calls: a bound.)
InsertRow ==
  /\ Ready("insert")
  /\ Idx!Insert(rid)
  /\ todo' = "copy" => Cardinality(RecRid \ DOMAIN recs) >= 2
  /\ at' = "idle" /\ rid' = Nil /\ re' = Blank
  /\ UNCHANGED <<tables, call, hand, disk>>

\* b_tree_delete.
DeleteRow ==
  /\ Ready("delete")
  /\ Idx!Delete(rid)
  /\ at' = IF call[1] = "set" THEN "delete value" ELSE "delete key"
  /\ UNCHANGED <<tables, call, local, hand, disk>>

\* read_record(rid1), and delete_string(re.key) in myjql_del ...
DeleteKey ==
  /\ Ready("delete key")
  /\ re' = recs[rid]
  /\ strs' = Strs!Without(strs, recs[rid].key)
  /\ at' = "delete value"
  /\ UNCHANGED <<recs, index, call, rid, hand, disk>>

\* Mutant of DeleteValue: myjql_set leaves the old value's string.
DeleteValueOnDel ==
  /\ Ready("delete value")
  /\ re' = recs[rid]
  /\ strs' = IF call[1] = "set" THEN strs ELSE Strs!Without(strs, recs[rid].value)
  /\ at' = IF call[1] = "set" THEN "write value" ELSE "delete record"
  /\ UNCHANGED <<recs, index, call, rid, hand, disk>>

\* ... and delete_string(re.value) in both.
DeleteValue ==
  /\ Ready("delete value")
  /\ re' = recs[rid]
  /\ strs' = Strs!Without(strs, recs[rid].value)
  /\ at' = IF call[1] = "set" THEN "write value" ELSE "delete record"
  /\ UNCHANGED <<recs, index, call, rid, hand, disk>>

\* delete_record(rid1), after which myjql_set writes the record anew.
DeleteRecord ==
  /\ Ready("delete record")
  /\ recs' = Recs!Without(recs, rid)
  /\ IF call[1] = "set" THEN at' = "write record" /\ UNCHANGED local
                        ELSE at' = "idle" /\ rid' = Nil /\ re' = Blank
  /\ UNCHANGED <<strs, index, call, hand, disk>>

-----------------------------------------------------------------------------
(* myjql_close and myjql_init: the index, the records, the strings.         *)

CloseIdx ==
  /\ Ready("idle")
  /\ disk' = [disk EXCEPT !.idx = <<stored, copies>>]
  /\ at' = "close rec"
  /\ UNCHANGED <<tables, index, call, local, hand>>

CloseRec ==
  /\ at = "close rec"
  /\ disk' = [disk EXCEPT !.rec = recs]
  /\ at' = "close str"
  /\ UNCHANGED <<tables, index, call, local, hand>>

CloseStr ==
  /\ at = "close str"
  /\ disk' = [disk EXCEPT !.str = strs]
  /\ at' = "closed"
  /\ UNCHANGED <<tables, index, call, local, hand>>

NoDisk == [idx |-> Nil, rec |-> Nil, str |-> Nil]

Start ==
  /\ at = "closed" /\ at' = "idle"
  /\ strs' = disk.str /\ recs' = disk.rec
  /\ stored' = disk.idx[1] /\ copies' = disk.idx[2]
  /\ disk' = NoDisk /\ call' = Nil
  /\ UNCHANGED <<todo, local, hand>>

Open == at \notin {"close rec", "close str", "closed"}

-----------------------------------------------------------------------------
\* myjql_init on empty files.
Init ==
  /\ strs = Empty /\ recs = Empty
  /\ Idx!Init
  /\ call = Nil /\ at = "idle" /\ rid = Nil /\ re = Blank
  /\ hand = Nil
  /\ disk = NoDisk

Call    == \E k \in Key : Get(k) \/ Del(k) \/ \E v \in Val : Set(k, v)
Step    == WriteKey \/ WriteValue \/ WriteRecord \/ InsertRow
           \/ DeleteRow \/ DeleteKey \/ DeleteValue \/ DeleteRecord
Handler == DropKey \/ DropRecord \/ CopyKey \/ CopyRecord
Restart == CloseIdx \/ CloseRec \/ CloseStr \/ Start

Next == Call \/ Step \/ Handler \/ Restart

Spec == Init /\ [][Next]_vars

-----------------------------------------------------------------------------
(* Properties.                                                              *)

\* The copy whose key delete_handler has deleted.
BeingDropped == IF todo \in {"drop", "replace"} /\ hand # Nil THEN {hand} ELSE {}

\* At every moment of every call, each row of the index can be compared: its
\* record and its key are there, and no two stored rows have the same key.  The
\* calls delete and write what the index refers to around b_tree_delete and
\* b_tree_insert, and the handlers do so in the middle of them.
AlwaysComparable ==
  /\ \A r \in (stored \cup copies) \ BeingDropped : KeyAt(r) # Nil
  /\ \A r, q \in stored : KeyAt(r) = KeyAt(q) => r = q

\* Between calls the tables hold what the index refers to and no more: one
\* record per row, two strings per stored row and one per copy, none shared.
NothingLeaks ==
  /\ TypeOK
  /\ Ready("idle") =>
       /\ DOMAIN recs = stored \cup copies
       /\ \A r \in copies : recs[r].value = Nil
       /\ \A r \in stored : recs[r].value # Nil /\ recs[r].value # recs[r].key
       /\ \A r, q \in DOMAIN recs : r # q =>
            {recs[r].key, recs[r].value} \cap {recs[q].key, recs[q].value} \subseteq {Nil}
       /\ DOMAIN strs = {recs[r].key : r \in DOMAIN recs} \cup {recs[r].value : r \in stored}

\* The store is a map: a call changes its own key and no other, also while it
\* has taken its key out of the index and not yet put it back; a get returns
\* the value set last; and an orderly restart changes nothing.
Map == INSTANCE KeyValue WITH
         map <- [k \in Key |-> IF Open /\ ~Ready("idle") /\ call[2] = k THEN call[3] ELSE ValueOf(k)]
ImplementsKeyValue == Map!Spec
=============================================================================
