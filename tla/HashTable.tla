----------------------------- MODULE HashTable -----------------------------
(***************************************************************************)
(* The table of src/src/hashtable.c as its one caller, the event loop of   *)
(* src/src/server.c, uses it: every call runs from its first line to its   *)
(* return before the next one starts, so a call is one action.             *)
(*                                                                         *)
(* An array of buckets, each of BUCKET_CAPACITY slots; a key lives in the  *)
(* bucket its hash selects, in any free slot of it.  One lock per bucket   *)
(* is made by table_create and none is made by table_resize, so a call may *)
(* reach for a lock past the end of the array.  What that does is up to    *)
(* the memory found there: the lock call is granted, or it is refused, or  *)
(* the modelled run ends (the three outcomes below).                       *)
(***************************************************************************)
EXTENDS Integers, FiniteSets, FiniteSetsExt

CONSTANTS
  Keys,               \* the keys callers use, LongKeys among them
  LongKeys,           \* keys of KEY_MAX_LEN bytes or more
  Truncated,          \* what ustrncpy keeps of a long key: another key
  hash,               \* the hash of each key
  Values,             \* heap blocks: a value is the block that carries it
  Null,
  SIZE_MAX,
  BUCKET_CAPACITY,
  CreateSizes,        \* sizes table_create may be asked for
  ResizeSizes,        \* sizes table_resize may be asked for
  MaxBuckets,         \* calloc refuses more buckets than this
  MallocMayFail,      \* whether smaller allocations may be refused, too
  BitAnd(_, _),       \* the operator & of C on words
  next_power_of_2(_)

Word == 0 .. SIZE_MAX

\* n - 1 on size_t, which wraps below 0.
Decrement(n) == IF n = 0 THEN SIZE_MAX ELSE n - 1

\* The test of table_create and table_resize for a size that needs no rounding.
IsPowerOf2(n) == n # 0 /\ BitAnd(n, Decrement(n)) = 0

ASSUME ConstantsAssumption ==
  /\ SIZE_MAX \in Nat
  /\ BUCKET_CAPACITY \in Nat \ {0}
  /\ MaxBuckets \in Word
  /\ MallocMayFail \in BOOLEAN
  /\ Null \notin Keys \cup Values
  /\ hash \in [Keys -> Word]
  /\ LongKeys \subseteq Keys
  /\ Truncated \in [LongKeys -> Keys \ LongKeys]
  /\ CreateSizes \subseteq Word \ {0}
  /\ ResizeSizes \subseteq Word

\* What the table relies on of the arithmetic of words; module WordsProofs proves
\* that the code's bit operations have these properties.
ASSUME WordAssumption ==
  /\ \A a, b \in Word : BitAnd(a, b) \in Word
  /\ \A n \in Word : next_power_of_2(n) = 0 \/ IsPowerOf2(next_power_of_2(n))
  /\ \A n \in Word : next_power_of_2(n) \in Word
  /\ \A p \in Word, h \in Word : IsPowerOf2(p) => BitAnd(h, Decrement(p)) = h % p
  /\ \A p, c \in Word : IsPowerOf2(p) /\ IsPowerOf2(c) /\ p <= c => c % p = 0

VARIABLES
  buckets,            \* the bucket array: a slot array for each index
  buckets_count,
  lock_count,
  elem_count,
  owned,              \* blocks passed in by a call that returned 0 and not
                      \* given to the value destroyer since
  ret,                \* the latest call and what it returned
  status              \* "up", or "down" after a wild access: the process has stopped,
                      \* or goes on with memory of which nothing is known

table == <<buckets, buckets_count, lock_count, elem_count, owned>>
vars  == <<table, ret, status>>

Slots == 0 .. BUCKET_CAPACITY - 1

\* A slot fresh from calloc, or vacated: the key bytes that linger in a vacated
\* slot are never read, since every reader tests in_use first.
EmptySlot == [in_use |-> FALSE, hash |-> 0, key |-> Null, value |-> Null]

Slot == [in_use : BOOLEAN, hash : Word, key : Keys \cup {Null},
         value : Values \cup {Null}]

EmptyBuckets(count) == [b \in 0 .. count - 1 |-> [s \in Slots |-> EmptySlot]]

Positions == (0 .. buckets_count - 1) \X Slots
At(p)     == buckets[p[1]][p[2]]
Occupied  == {p \in Positions : At(p).in_use}

-----------------------------------------------------------------------------
(***************************************************************************)
(* Finding the bucket and the slot of a key.                               *)
(***************************************************************************)

\* hash & (buckets_count - 1)
bucket_index(k) == BitAnd(hash[k], Decrement(buckets_count))

\* The lock call can return: it grants a lock, real or wild, whose bucket exists.
LockGranted(k) == status = "up" /\ bucket_index(k) < buckets_count

\* The lock call can fail: only on memory past the end of the lock array.
LockRefused(k) == status = "up" /\ bucket_index(k) >= lock_count

\* The slot holds the key: in use, same full hash, same string.  A long key is
\* stored cut short and compared in full, so it equals no stored key.
Holds(slot, k) == slot.in_use /\ slot.hash = hash[k] /\ slot.key = k

Bucket(k)     == buckets[bucket_index(k)]
SlotsOf(k)    == {s \in Slots : Holds(Bucket(k)[s], k)}
FreeSlots(k)  == {s \in Slots : ~Bucket(k)[s].in_use}

Returns(op, k, rc) ==
  ret' = [op |-> op, key |-> k, rc |-> rc, of |-> 1, val |-> Null]

\* The call returns rc and changes nothing.
ReturnsOnly(op, k, rc) == Returns(op, k, rc) /\ UNCHANGED <<table, status>>

-----------------------------------------------------------------------------
(***************************************************************************)
(* Storing.  The value v is a block its caller has just allocated.         *)
(***************************************************************************)

StoredKey(k) == IF k \in LongKeys THEN Truncated[k] ELSE k

\* Mutation: the hash is not written into the slot.
SlotForWithoutHash(k, v) ==
  [in_use |-> TRUE, hash |-> 0, key |-> StoredKey(k), value |-> v]

SlotFor(k, v) ==
  [in_use |-> TRUE, hash |-> hash[k], key |-> StoredKey(k), value |-> v]

\* The first free slot of the bucket takes the key.
Insert(op, k, v) ==
  /\ FreeSlots(k) # {}
  /\ buckets' = [buckets EXCEPT ![bucket_index(k)][Min(FreeSlots(k))] = SlotFor(k, v)]
  /\ elem_count' = elem_count + 1
  /\ owned' = owned \cup {v}
  /\ Returns(op, k, 0)
  /\ UNCHANGED <<buckets_count, lock_count, status>>

\* Mutation: the old value is not given to the destroyer.
OverwriteWithoutDestroy(op, k, v) ==
  /\ buckets' = [buckets EXCEPT ![bucket_index(k)][Min(SlotsOf(k))].value = v]
  /\ owned' = owned \cup {v}
  /\ Returns(op, k, 0)
  /\ UNCHANGED <<buckets_count, lock_count, elem_count, status>>

\* The first slot that holds the key gets the value, and the old one is freed.
Overwrite(op, k, v) ==
  LET s == Min(SlotsOf(k))
  IN  /\ buckets' = [buckets EXCEPT ![bucket_index(k)][s].value = v]
      /\ owned' = (owned \ {Bucket(k)[s].value}) \cup {v}
      /\ Returns(op, k, 0)
      /\ UNCHANGED <<buckets_count, lock_count, elem_count, status>>

\* Mutation: the scan for the key is skipped when the bucket has a free slot.
SetInFirstFreeSlot(k, v) ==
  /\ k \notin LongKeys
  /\ \/ LockRefused(k) /\ ReturnsOnly("set", k, -1)
     \/ LockGranted(k) /\ Insert("set", k, v)
     \/ LockGranted(k) /\ FreeSlots(k) = {} /\ SlotsOf(k) # {} /\ Overwrite("set", k, v)

table_set(k, v) ==
  \/ status = "up" /\ k \in LongKeys /\ ReturnsOnly("set", k, -3)
  \/ /\ k \notin LongKeys
     /\ \/ LockRefused(k) /\ ReturnsOnly("set", k, -1)
        \/ LockGranted(k) /\ SlotsOf(k) # {} /\ Overwrite("set", k, v)
        \/ LockGranted(k) /\ SlotsOf(k) = {} /\ Insert("set", k, v)
        \/ /\ LockGranted(k)
           /\ SlotsOf(k) = {} /\ FreeSlots(k) = {}
           /\ ReturnsOnly("set", k, -2)

\* Unlike table_set it takes a long key, and files it under its full hash.
table_add(k, v) ==
  \/ LockRefused(k) /\ ReturnsOnly("add", k, -1)
  \/ LockGranted(k) /\ SlotsOf(k) # {} /\ ReturnsOnly("add", k, -3)
  \/ LockGranted(k) /\ SlotsOf(k) = {} /\ Insert("add", k, v)
  \/ /\ LockGranted(k)
     /\ SlotsOf(k) = {} /\ FreeSlots(k) = {}
     /\ ReturnsOnly("add", k, -2)

table_replace(k, v) ==
  \/ LockRefused(k) /\ ReturnsOnly("replace", k, -1)
  \/ LockGranted(k) /\ SlotsOf(k) # {} /\ Overwrite("replace", k, v)
  \/ LockGranted(k) /\ SlotsOf(k) = {} /\ ReturnsOnly("replace", k, -2)

-----------------------------------------------------------------------------
(***************************************************************************)
(* Removing.                                                               *)
(***************************************************************************)

\* Mutation: the counter is not taken down.
VacateWithoutCounting(k) ==
  /\ buckets' = [buckets EXCEPT ![bucket_index(k)][Min(SlotsOf(k))] = EmptySlot]
  /\ owned' = owned \ {Bucket(k)[Min(SlotsOf(k))].value}
  /\ Returns("delete", k, 0)
  /\ UNCHANGED <<buckets_count, lock_count, elem_count, status>>

Vacate(k) ==
  LET s == Min(SlotsOf(k))
  IN  /\ buckets' = [buckets EXCEPT ![bucket_index(k)][s] = EmptySlot]
      /\ elem_count' = elem_count - 1
      /\ owned' = owned \ {Bucket(k)[s].value}
      /\ Returns("delete", k, 0)
      /\ UNCHANGED <<buckets_count, lock_count, status>>

table_delete(k) ==
  \/ LockRefused(k) /\ ReturnsOnly("delete", k, -2)
  \/ LockGranted(k) /\ SlotsOf(k) # {} /\ Vacate(k)
  \/ LockGranted(k) /\ SlotsOf(k) = {} /\ ReturnsOnly("delete", k, -1)

\* Every lock that was ever made is taken, and every bucket is emptied.
table_clear ==
  /\ status = "up"
  /\ buckets' = EmptyBuckets(buckets_count)
  /\ elem_count' = 0
  /\ owned' = owned \ {At(p).value : p \in Occupied}
  /\ Returns("clear", Null, 0)
  /\ UNCHANGED <<buckets_count, lock_count, status>>

-----------------------------------------------------------------------------
(***************************************************************************)
(* Reading.  table_get returns a copy of the value, here the value itself. *)
(***************************************************************************)

ReturnsValue(k, val) ==
  /\ ret' = [op |-> "get", key |-> k, rc |-> 0, of |-> 1, val |-> val]
  /\ UNCHANGED <<table, status>>

table_get(k) ==
  \/ LockRefused(k) /\ ReturnsValue(k, Null)
  \/ /\ LockGranted(k)
     /\ SlotsOf(k) # {}
     /\ \/ ReturnsValue(k, Bucket(k)[Min(SlotsOf(k))].value)
        \/ MallocMayFail /\ ReturnsValue(k, Null)
  \/ LockGranted(k) /\ SlotsOf(k) = {} /\ ReturnsValue(k, Null)

\* The bool it returns is 1 or 0.
table_exist(k) ==
  \/ LockRefused(k) /\ ReturnsOnly("exist", k, 0)
  \/ LockGranted(k) /\ ReturnsOnly("exist", k, IF SlotsOf(k) # {} THEN 1 ELSE 0)

-----------------------------------------------------------------------------
(***************************************************************************)
(* Changing the number of buckets.  The rehash walks the old array in      *)
(* order and puts each entry into the first free slot of its new bucket.   *)
(* Until it is through, both arrays point to the values of the entries     *)
(* moved so far.                                                           *)
(***************************************************************************)

\* Mutation: the size is used as it was asked for.
NotRounded(n) == n

Rounded(n) == IF IsPowerOf2(n) THEN n ELSE next_power_of_2(n)

\* One round of the loop: the new array with the entry of one more slot, if it has one;
\* a full bucket ends the loop.
Moved(so_far, slot, capacity) ==
  LET b    == slot.hash % capacity
      free == {k \in Slots : ~so_far.new_buckets[b][k].in_use}
  IN  IF ~so_far.fits \/ ~slot.in_use THEN so_far
      ELSE IF free = {} THEN [so_far EXCEPT !.fits = FALSE]
      ELSE [so_far EXCEPT !.new_buckets[b][Min(free)] = slot]

\* The slots of the old array in the order of the loop, from 0.
SlotCount  == buckets_count * BUCKET_CAPACITY
Visited(i) == <<i \div BUCKET_CAPACITY, i % BUCKET_CAPACITY>>

\* The new array when the loop ends, and whether every entry found a place in it.
Rehash(capacity) ==
  LET after[i \in 0 .. SlotCount] ==
        IF i = 0 THEN [new_buckets |-> EmptyBuckets(capacity), fits |-> TRUE]
        ELSE Moved(after[i - 1], At(Visited(i - 1)), capacity)
  IN  after[SlotCount]

\* calloc: more than MaxBuckets is always refused, anything else perhaps; a size
\* of 0 may be refused by some libraries whatever the memory left.
CallocGrants(capacity)  == capacity <= MaxBuckets
CallocRefuses(capacity) == capacity > MaxBuckets \/ capacity = 0 \/ MallocMayFail

\* Mutation: the half filled array is dropped with the values in it.
FatalRehashDestroying(new_buckets) ==
  /\ owned' = owned \ {new_buckets[p[1]][p[2]].value : p \in (DOMAIN new_buckets) \X Slots}
  /\ Returns("resize", Null, -1)
  /\ UNCHANGED <<buckets, buckets_count, lock_count, elem_count, status>>

\* The half filled array is freed, and it alone: its values are still those of the old.
FatalRehash(new_buckets) == ReturnsOnly("resize", Null, -1)

\* The new array takes the place of the old.
Install(new_buckets, capacity) ==
  /\ buckets' = new_buckets
  /\ buckets_count' = capacity
  /\ Returns("resize", Null, 0)
  /\ UNCHANGED <<lock_count, elem_count, owned, status>>

table_resize(n) ==
  LET capacity == Rounded(n)
      rehash   == Rehash(capacity)
  IN  /\ status = "up"
      /\ \/ n = 0 /\ ReturnsOnly("resize", Null, -1)
         \/ n # 0 /\ capacity = buckets_count /\ ReturnsOnly("resize", Null, 0)
         \/ /\ n # 0 /\ capacity # buckets_count
            /\ \/ capacity < elem_count /\ ReturnsOnly("resize", Null, -1)
               \/ /\ capacity >= elem_count /\ CallocRefuses(capacity)
                  /\ ReturnsOnly("resize", Null, -1)
               \/ /\ capacity >= elem_count /\ CallocGrants(capacity)
                  /\ ~rehash.fits /\ FatalRehash(rehash.new_buckets)
               \/ /\ capacity >= elem_count /\ CallocGrants(capacity)
                  /\ rehash.fits /\ Install(rehash.new_buckets, capacity)

-----------------------------------------------------------------------------
(***************************************************************************)
(* The counters.  A ratio is returned as the pair rc, of.                  *)
(***************************************************************************)

ReturnsRatio(op, rc, of) ==
  /\ status = "up"
  /\ ret' = [op |-> op, key |-> Null, rc |-> rc, of |-> of, val |-> Null]
  /\ UNCHANGED <<table, status>>

table_total_elem == ReturnsRatio("total_elem", elem_count, 1)

table_capacity == ReturnsRatio("capacity", buckets_count * BUCKET_CAPACITY, 1)

table_load_factor ==
  IF buckets_count = 0
  THEN ReturnsRatio("load_factor", 0, 1)
  ELSE ReturnsRatio("load_factor", elem_count, buckets_count * BUCKET_CAPACITY)

\* Read locks are taken one bucket at a time; a bucket whose lock is refused is
\* not counted.
WildLocks == {b \in 0 .. buckets_count - 1 : b >= lock_count}

table_occupied_bucket_counter ==
  IF buckets_count = 0
  THEN ReturnsRatio("occupied_bucket", 0, 1)
  ELSE \E skipped \in SUBSET WildLocks :
         ReturnsRatio("occupied_bucket",
                      Cardinality({p[1] : p \in Occupied} \ skipped),
                      buckets_count)

\* The values in the table, of whose sizes the sum is taken; (size_t)-1 when a
\* lock is refused, after the locks taken are given back.
table_memory_usage ==
  \/ ReturnsRatio("memory_usage", Cardinality(Occupied), 1)
  \/ WildLocks # {} /\ ReturnsRatio("memory_usage", SIZE_MAX, 1)

-----------------------------------------------------------------------------
\* A call that reaches for a lock or a bucket that is not there ends what the model
\* says: a fault, a wait on memory that only looks like a held lock, or, where there is
\* no bucket, a scan of, and perhaps a store into, what lies behind the empty array.
WildAccess ==
  /\ status = "up"
  /\ \/ WildLocks # {}
     \/ \E k \in Keys : \/ bucket_index(k) >= lock_count
                        \/ bucket_index(k) >= buckets_count
  /\ status' = "down"
  /\ UNCHANGED <<table, ret>>

\* table_create, whose failures end the program before it serves anyone.
Init ==
  /\ \E n \in CreateSizes :
       /\ buckets_count = Rounded(n)
       /\ CallocGrants(buckets_count)
  /\ lock_count = buckets_count
  /\ buckets = EmptyBuckets(buckets_count)
  /\ elem_count = 0
  /\ owned = {}
  /\ ret = [op |-> "create", key |-> Null, rc |-> 0, of |-> 1, val |-> Null]
  /\ status = "up"

Next ==
  \/ \E k \in Keys, v \in Values \ owned :
       table_set(k, v) \/ table_add(k, v) \/ table_replace(k, v)
  \/ \E k \in Keys : table_delete(k) \/ table_get(k) \/ table_exist(k)
  \/ table_clear
  \/ \E n \in ResizeSizes : table_resize(n)
  \/ table_total_elem \/ table_capacity \/ table_load_factor
  \/ table_occupied_bucket_counter \/ table_memory_usage
  \/ WildAccess

Spec == Init /\ [][Next]_vars

-----------------------------------------------------------------------------
(***************************************************************************)
(* Properties.                                                             *)
(***************************************************************************)

\* The shape of the state; a table has as many buckets as a power of two, or none.
TypeOK ==
  /\ buckets_count \in Word
  /\ buckets_count = 0 \/ IsPowerOf2(buckets_count)
  /\ lock_count \in Word
  /\ buckets \in [0 .. buckets_count - 1 -> [Slots -> Slot]]
  /\ elem_count \in Nat
  /\ owned \subseteq Values
  /\ ret.key \in Keys \cup {Null} /\ ret.rc \in Int
  /\ ret.of \in Nat /\ ret.val \in Values \cup {Null}
  /\ status \in {"up", "down"}

\* Every entry lies in the bucket in which the mask of the lookups
\* (src/src/hashtable.c:238) looks for its hash, although the rehash
\* (src/src/hashtable.c:185) places entries with a modulo.
Placement ==
  \A p \in Occupied : BitAnd(At(p).hash, Decrement(buckets_count)) = p[1]

\* Two keys, a long one and what is kept of it, that no lookup can tell apart.
Shadowed(k) == \E l \in LongKeys : Truncated[l] = k /\ hash[l] = hash[k]

\* No key is held by two slots, whatever holes deletions left before the slot of
\* a key that is stored again (src/src/hashtable.c:250-268): a second copy would
\* come back to life when the first is deleted.
UniqueKeys ==
  \A k \in Keys : Shadowed(k) \/
    \A p, q \in Occupied : Holds(At(p), k) /\ Holds(At(q), k) => p = q

\* The counter, kept apart from the buckets and never recomputed
\* (src/src/hashtable.c:124, :279, :369, :455), is the number of slots in use.
CountExact == elem_count = Cardinality(Occupied)

\* Each block the table was given is in exactly one slot until the value
\* destroyer gets it: none is lost on overwriting, deleting, clearing or
\* rehashing, none is freed while a slot still points to it.
OwnershipExact ==
  /\ owned = {At(p).value : p \in Occupied}
  /\ \A p, q \in Occupied : At(p).value = At(q).value => p = q

\* A table that grows never meets the full destination bucket that ends
\* table_resize with FATAL (src/src/hashtable.c:199): twice the buckets split
\* each old one in two.
GrowthFits ==
  \A c \in Word : IsPowerOf2(c) /\ c >= buckets_count => Rehash(c).fits

Entries == {At(p) : p \in Occupied}

\* A resize, granted or given up half-way (src/src/hashtable.c:199), leaves every entry
\* in the table once, none of them only in the array that was dropped, and frees no
\* value that the two arrays shared while it ran.
ResizeKeepsEntries ==
  [][ret'.op = "resize" => /\ Entries' = Entries
                           /\ Cardinality(Occupied') = Cardinality(Occupied)
                           /\ owned' = owned]_vars

-----------------------------------------------------------------------------
(***************************************************************************)
(* The abstract store: what lookups find.                                  *)
(***************************************************************************)

Findable(k) == /\ buckets_count # 0
               /\ SlotsOf(k) # {}

Stored == [k \in Keys |-> IF Findable(k) THEN Bucket(k)[Min(SlotsOf(k))].value
                          ELSE Null]

Answered ==
  [op  |-> ret.op,
   key |-> ret.key,
   res |-> CASE ret.op = "get"   -> ret.val
             [] ret.op = "exist" -> IF ret.rc = 1 THEN "present" ELSE "absent"
             [] OTHER            -> IF ret.rc < 0 THEN "refused" ELSE "ok",
   num |-> IF ret.op \in {"total_elem", "load_factor", "memory_usage"}
           THEN ret.rc ELSE 0]

KV == INSTANCE KVStore WITH Absent <- Null, store <- Stored, answer <- Answered

\* The table keeps the promise of KVStore.
ImplementsKVStore == KV!Spec

\* "resizable table" (src/readme.md:8): table_get returns the value of every key
\* the table holds, whatever sizes it has had.
GetFindsStored ==
  [][\A k \in Keys : ret' # ret /\ ret'.op = "get" /\ ret'.key = k
                       => ret'.val = Stored[k]]_vars

\* "fundamental CRUD operations" (src/readme.md:9): what table_add says it has
\* stored can be found.
AddedIsFound == ret.op = "add" /\ ret.rc = 0 => Stored[ret.key] # Null

\* "Adjusting to %zu" (src/src/hashtable.c:145), a power of two: the table always
\* has a bucket to put a key in.
SizeIsPowerOf2 == IsPowerOf2(buckets_count)
=============================================================================
