------------------------------ MODULE KVStore ------------------------------
(***************************************************************************)
(* What the database promises its callers: a map from keys to values, one  *)
(* operation at a time, and an answer that tells the truth about the map.  *)
(*                                                                         *)
(* The promise is deliberately weak in one place only: the store is a hash *)
(* table with buckets of a fixed size, so storing a NEW key may be refused *)
(* for want of room, at any time.  A key that is already there can always  *)
(* be overwritten, replaced or deleted, and every answer about the         *)
(* contents is exact.                                                      *)
(***************************************************************************)
EXTENDS Integers, FiniteSets

CONSTANTS Keys, Values, Absent

VARIABLES store,    \* the value of each key, or Absent
          answer    \* the answer to the latest operation

vars == <<store, answer>>

Present == {k \in Keys : store[k] # Absent}

Answers(op, k, res, num) ==
  answer' = [op |-> op, key |-> k, res |-> res, num |-> num]

Init == /\ store = [k \in Keys |-> Absent]
        /\ answer = [op |-> "create", key |-> Absent, res |-> "ok", num |-> 0]

Put(op, k, v) == /\ store' = [store EXCEPT ![k] = v]
                 /\ Answers(op, k, "ok", 0)

Refuse(op, k) == UNCHANGED store /\ Answers(op, k, "refused", 0)

\* SET stores or overwrites.
Set(k, v) == Put("set", k, v) \/ (k \notin Present /\ Refuse("set", k))

\* ADD stores a key that is not there.
Add(k, v) == (k \notin Present /\ Put("add", k, v)) \/ Refuse("add", k)

\* REPLACE overwrites a key that is there.
Replace(k, v) == IF k \in Present THEN Put("replace", k, v) ELSE Refuse("replace", k)

Delete(k) == IF k \in Present THEN Put("delete", k, Absent) ELSE Refuse("delete", k)

Get(k) == UNCHANGED store /\ Answers("get", k, store[k], 0)

Exist(k) == /\ UNCHANGED store
            /\ Answers("exist", k, IF k \in Present THEN "present" ELSE "absent", 0)

Clear == /\ store' = [k \in Keys |-> Absent]
         /\ Answers("clear", Absent, "ok", 0)

\* Changing the number of buckets, whether it works or not, is not visible.
Resize == UNCHANGED store /\ \E res \in {"ok", "refused"} : Answers("resize", Absent, res, 0)

\* Three of the counters tell the number of keys.
CountKeys(op) == /\ op \in {"total_elem", "load_factor", "memory_usage"}
                 /\ UNCHANGED store
                 /\ Answers(op, Absent, "ok", Cardinality(Present))

\* The other two tell the shape of the table, of which nothing is promised.
TellShape(op) == /\ op \in {"capacity", "occupied_bucket"}
                 /\ UNCHANGED store
                 /\ Answers(op, Absent, "ok", 0)

Next ==
  \/ \E k \in Keys, v \in Values : Set(k, v) \/ Add(k, v) \/ Replace(k, v)
  \/ \E k \in Keys : Delete(k) \/ Get(k) \/ Exist(k)
  \/ Clear
  \/ Resize
  \/ \E op \in {"total_elem", "load_factor", "memory_usage",
                "capacity", "occupied_bucket"} : CountKeys(op) \/ TellShape(op)

Spec == Init /\ [][Next]_vars
=============================================================================
