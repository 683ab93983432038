---------------------------- MODULE StoreProofs ----------------------------
(***************************************************************************)
(* What a client finds in the table of HashTable: each call that changes   *)
(* the buckets changes Stored as the abstract store of KVStore changes.    *)
(*                                                                         *)
(* What calls store is told for tables without long keys.  table_add files *)
(* a long key under its hash and cuts its name short, so that no lookup    *)
(* finds it: with one such key Stored is not what the calls were told to   *)
(* store.  What lookups read is told for all keys.                         *)
(***************************************************************************)
EXTENDS HashTableProofs

\* No caller uses a key that does not fit into a slot.
ShortKeys == LongKeys = {}

\* The slot at position p holds the key k.
Entry(p, k) == p \in Occupied /\ Holds(At(p), k)

\* Each entry is filed under its key.
KeysFiled == \A p \in Occupied : At(p).key \in Keys /\ Holds(At(p), At(p).key)

-----------------------------------------------------------------------------
(***************************************************************************)
(* Entries, and what is found.                                             *)
(***************************************************************************)

\* Short keys are stored whole, and shadow no other.
LEMMA KeysNotShadowed ==
  ASSUME ShortKeys, NEW k
  PROVE  ~Shadowed(k) /\ StoredKey(k) = k
BY DEF ShortKeys, Shadowed, StoredKey

\* The bucket of a key exists in a table that has any.
LEMMA BucketInRange ==
  ASSUME TypeOK, buckets_count # 0, NEW k \in Keys
  PROVE  bucket_index(k) \in 0 .. buckets_count - 1
BY MaskInRange, ConstantsAssumption DEF TypeOK, bucket_index

\* A key that is found is held by an entry.
LEMMA FoundIsEntry ==
  ASSUME TypeOK, NEW k \in Keys, Findable(k)
  PROVE  /\ Entry(<<bucket_index(k), Min(SlotsOf(k))>>, k)
         /\ Stored[k] = At(<<bucket_index(k), Min(SlotsOf(k))>>).value
<1>1. bucket_index(k) \in 0 .. buckets_count - 1
  BY BucketInRange DEF Findable
<1>2. Min(SlotsOf(k)) \in SlotsOf(k)
  <2>1. SlotsOf(k) \subseteq Nat /\ SlotsOf(k) # {}
    BY SlotsFinite DEF SlotsOf, Findable
  <2> QED
    BY <2>1, MinIsLeast
<1> QED
  BY <1>1, <1>2 DEF Entry, Occupied, Positions, At, SlotsOf, Bucket, Stored, Holds

\* What a lookup finds is the value of the entry that holds the key.
LEMMA EntryIsStored ==
  ASSUME IInv, NEW k \in Keys, ~Shadowed(k), NEW p, Entry(p, k)
  PROVE  Stored[k] = At(p).value
<1>1. p \in Occupied /\ p[1] = bucket_index(k) /\ p[2] \in SlotsOf(k)
  BY HeldInItsBucket DEF IInv, Entry
<1>2. buckets_count # 0
  BY <1>1, ConstantsAssumption DEF Occupied, Positions
<1>3. Findable(k)
  BY <1>1, <1>2 DEF Findable
<1>4. p = <<bucket_index(k), Min(SlotsOf(k))>>
  BY <1>3, FoundIsEntry DEF IInv, UniqueKeys, Entry
<1> QED
  BY <1>3, <1>4, FoundIsEntry DEF IInv

\* A key without an entry is not found.
LEMMA NoEntryIsNull ==
  ASSUME TypeOK, NEW k \in Keys, \A p : ~Entry(p, k)
  PROVE  ~Findable(k) /\ Stored[k] = Null
<1>1. ~Findable(k)
  BY FoundIsEntry
<1> QED
  BY <1>1 DEF Stored

\* The value of an entry is a block.
LEMMA ValueIsBlock ==
  ASSUME IInv, NEW p \in Occupied
  PROVE  At(p).value \in owned /\ At(p).value \in Values /\ At(p).value # Null
BY ConstantsAssumption DEF IInv, OwnershipExact, TypeOK

\* A key is found just when it has an entry, with a block that the table owns.
LEMMA StoredOrNull ==
  ASSUME IInv, NEW k \in Keys, ~Shadowed(k)
  PROVE  /\ Stored[k] = Null <=> \A p : ~Entry(p, k)
         /\ Stored[k] \in owned \cup {Null}
<1>1. ASSUME NEW p, Entry(p, k)
      PROVE  Stored[k] # Null /\ Stored[k] \in owned
  BY <1>1, EntryIsStored, ValueIsBlock DEF Entry
<1> QED
  BY <1>1, NoEntryIsNull DEF IInv

\* What Stored is, in terms of the entries.
StoredIsHeld ==
  \A k \in Keys : ~Shadowed(k) =>
    /\ \A p : Entry(p, k) => Stored[k] = At(p).value
    /\ (\A p : ~Entry(p, k)) <=> Stored[k] = Null
    /\ Stored[k] \in owned \cup {Null}

\* Under the invariant of the table a lookup finds what the entries hold.
LEMMA HeldIsStored == IInv => StoredIsHeld
<1> SUFFICES ASSUME IInv PROVE StoredIsHeld
  OBVIOUS
<1> QED
  BY EntryIsStored, StoredOrNull DEF StoredIsHeld

\* The same after the step, for the proofs about a call.
LEMMA HeldIsStoredAfter == IInv' => StoredIsHeld'
BY HeldIsStored, PTL

\* A key whose entry moves, or that has none before and after, keeps its value.
LEMMA EntryKept ==
  ASSUME IInv, IInv', NEW k \in Keys, ~Shadowed(k),
         \A p : Entry(p, k) => \E q : Entry(q, k)' /\ At(q)'.value = At(p).value,
         \A q : Entry(q, k)' => \E p : Entry(p, k)
  PROVE  Stored'[k] = Stored[k]
<1>1. Shadowed(k)' = Shadowed(k)
  BY DEF Shadowed
<1>2. /\ \A p : Entry(p, k) => Stored[k] = At(p).value
      /\ (\A p : ~Entry(p, k)) <=> Stored[k] = Null
  BY HeldIsStored DEF StoredIsHeld
<1>3. /\ \A q : Entry(q, k)' => Stored'[k] = At(q)'.value
      /\ (\A q : ~Entry(q, k)') <=> Stored'[k] = Null
  BY <1>1, HeldIsStoredAfter DEF StoredIsHeld
<1>4. CASE \E p : Entry(p, k)
  <2>1. PICK p : Entry(p, k)
    BY <1>4
  <2>2. PICK q : Entry(q, k)' /\ At(q)'.value = At(p).value
    BY <2>1
  <2> QED
    BY <1>2, <1>3, <2>1, <2>2
<1>5. CASE \A p : ~Entry(p, k)
  BY <1>2, <1>3, <1>5
<1> QED
  BY <1>4, <1>5

-----------------------------------------------------------------------------
(***************************************************************************)
(* What each change of the buckets does to what is found.                  *)
(***************************************************************************)

\* A call that does not change the table does not change what is found.
LEMMA SameTableSameStore ==
  ASSUME UNCHANGED table
  PROVE  Stored' = Stored /\ (KeysFiled => KeysFiled')
<1>1. Stored' = Stored
  BY DEF table, Stored, Findable, SlotsOf, Bucket, bucket_index, Holds
<1>2. Occupied' = Occupied /\ \A p \in Occupied : At(p)' = At(p)
  BY DEF table, Occupied, Positions, At
<1>3. KeysFiled => KeysFiled'
  BY <1>2 DEF KeysFiled, Holds
<1> QED
  BY <1>1, <1>3

\* Insert makes one key found that was not, and leaves the others alone.
LEMMA InsertStores ==
  ASSUME IInv, ShortKeys, NEW k \in Keys, NEW v \in Values \ owned, NEW op,
         LockGranted(k), SlotsOf(k) = {}, Insert(op, k, v)
  PROVE  /\ Stored[k] = Null /\ Stored' = [Stored EXCEPT ![k] = v]
         /\ KeysFiled => KeysFiled'
<1>1. PICK b \in 0 .. buckets_count - 1, s \in FreeSlots(k) :
        b = bucket_index(k) /\ s = Min(FreeSlots(k)) /\ s \in Slots
  BY FoundSlot DEF IInv, Insert
<1>2. PICK e \in Slot : e = SlotFor(k, v)
  BY KeysNotShadowed, ConstantsAssumption DEF SlotFor, Slot
<1>3. buckets' = [buckets EXCEPT ![b][s] = e] /\ buckets_count' = buckets_count /\ e.in_use
  BY <1>1, <1>2 DEF Insert, SlotFor
<1>4. /\ <<b, s>> \in Positions /\ Positions' = Positions
      /\ \A p \in Positions : At(p)' = IF p = <<b, s>> THEN e ELSE At(p)
      /\ Occupied' = Occupied \cup {<<b, s>>}
  BY <1>1, <1>2, <1>3, OneSlotWritten DEF IInv
<1>5. <<b, s>> \notin Occupied
  BY <1>1 DEF Occupied, FreeSlots, Bucket, At
<1>6. \A p \in Occupied : At(p)' = At(p)
  BY <1>4, <1>5 DEF Occupied
<1>7. At(<<b, s>>)' = e /\ e.hash = hash[k] /\ e.key = k /\ e.value = v
  BY <1>2, <1>4, KeysNotShadowed DEF SlotFor
<1>8. IInv'
  BY InsertPreserves
<1>9. Stored[k] = Null
  BY DEF Stored, Findable
<1>10. Stored'[k] = v
  <2>1. Entry(<<b, s>>, k)'
    BY <1>3, <1>4, <1>7 DEF Entry, Holds
  <2> QED
    BY <1>7, <1>8, <2>1, HeldIsStoredAfter, KeysNotShadowed DEF StoredIsHeld, Shadowed
<1>11. ASSUME NEW j \in Keys, j # k
       PROVE  Stored'[j] = Stored[j]
  <2>1. \A p : Entry(p, j) => Entry(p, j)' /\ At(p)' = At(p)
    BY <1>4, <1>6 DEF Entry, Holds
  <2>2. \A q : Entry(q, j)' => Entry(q, j)
    BY <1>4, <1>6, <1>7, <1>11 DEF Entry, Holds
  <2> QED
    BY <1>8, <2>1, <2>2, EntryKept, KeysNotShadowed
<1>12. KeysFiled => KeysFiled'
  BY <1>3, <1>4, <1>6, <1>7 DEF KeysFiled, Holds
<1> QED
  BY <1>9, <1>10, <1>11, <1>12 DEF Stored

\* Overwrite gives one key that was found another value, and leaves the others alone.
LEMMA OverwriteStores ==
  ASSUME IInv, ShortKeys, NEW k \in Keys, NEW v \in Values \ owned, NEW op,
         LockGranted(k), SlotsOf(k) # {}, Overwrite(op, k, v)
  PROVE  /\ Stored[k] # Null /\ Stored' = [Stored EXCEPT ![k] = v]
         /\ KeysFiled => KeysFiled'
<1>1. PICK b \in 0 .. buckets_count - 1, s \in SlotsOf(k) :
        b = bucket_index(k) /\ s = Min(SlotsOf(k)) /\ s \in Slots
  BY FoundSlot DEF IInv
<1>2. /\ buckets' = [buckets EXCEPT ![b][s].value = v]
      /\ buckets_count' = buckets_count
  BY <1>1 DEF Overwrite
<1>3. <<b, s>> \in Occupied /\ Holds(At(<<b, s>>), k)
  BY <1>1 DEF Occupied, Positions, At, SlotsOf, Bucket, Holds
<1>4. \A p \in Positions : /\ p \in Positions'
                            /\ At(p)' = IF p = <<b, s>> THEN [At(p) EXCEPT !.value = v]
                                                            ELSE At(p)
  BY <1>1, <1>2 DEF IInv, TypeOK, Positions, At
<1>5. \A p \in Positions : /\ At(p)'.hash = At(p).hash /\ At(p)'.key = At(p).key
                           /\ At(p)'.in_use = At(p).in_use
                           /\ At(p)'.value = IF p = <<b, s>> THEN v ELSE At(p).value
  <2>1. \A p \in Positions : At(p) \in Slot
    BY DEF IInv, TypeOK, Positions, At
  <2> QED
    BY <1>4, <2>1 DEF Slot
<1>6. Positions' = Positions
  BY <1>2 DEF Positions
<1>7. \A p, j : Entry(p, j)' <=> Entry(p, j)
  BY <1>5, <1>6 DEF Entry, Occupied, Holds
<1>8. IInv'
  BY OverwritePreserves
<1>9. Entry(<<b, s>>, k)
  BY <1>3 DEF Entry
<1>10. Stored[k] # Null
  BY <1>9, KeysNotShadowed, HeldIsStored DEF StoredIsHeld
<1>11. Stored'[k] = v
  BY <1>3, <1>5, <1>7, <1>8, <1>9, HeldIsStoredAfter, KeysNotShadowed
     DEF StoredIsHeld, Shadowed, Occupied
<1>12. ASSUME NEW j \in Keys, j # k
       PROVE  Stored'[j] = Stored[j]
  <2>1. \A p : Entry(p, j) => At(p)'.value = At(p).value
    BY <1>3, <1>5, <1>12 DEF Entry, Holds, Occupied
  <2> QED
    BY <1>7, <1>8, <2>1, EntryKept, KeysNotShadowed
<1>13. KeysFiled => KeysFiled'
  BY <1>5, <1>6 DEF KeysFiled, Holds, Occupied
<1> QED
  BY <1>10, <1>11, <1>12, <1>13 DEF Stored

\* Vacate makes one key that was found be found no more, and leaves the others alone.
LEMMA VacateForgets ==
  ASSUME IInv, ShortKeys, NEW k \in Keys,
         LockGranted(k), SlotsOf(k) # {}, Vacate(k)
  PROVE  /\ Stored[k] # Null /\ Stored' = [Stored EXCEPT ![k] = Null]
         /\ KeysFiled => KeysFiled'
<1>1. PICK b \in 0 .. buckets_count - 1, s \in SlotsOf(k) :
        b = bucket_index(k) /\ s = Min(SlotsOf(k)) /\ s \in Slots
  BY FoundSlot DEF IInv
<1>2. buckets' = [buckets EXCEPT ![b][s] = EmptySlot] /\ buckets_count' = buckets_count
  BY <1>1 DEF Vacate
<1>3. EmptySlot \in Slot /\ ~EmptySlot.in_use
  BY ConstantsAssumption DEF EmptySlot, Slot, Word
<1>4. /\ <<b, s>> \in Positions /\ Positions' = Positions
      /\ \A p \in Positions : At(p)' = IF p = <<b, s>> THEN EmptySlot ELSE At(p)
      /\ Occupied' = Occupied \ {<<b, s>>}
  BY <1>1, <1>2, <1>3, OneSlotWritten DEF IInv
<1>5. Entry(<<b, s>>, k)
  BY <1>1 DEF Entry, Occupied, Positions, At, SlotsOf, Bucket, Holds
<1>6. \A p, j : Entry(p, j)' <=> Entry(p, j) /\ p # <<b, s>>
  BY <1>4 DEF Entry, Occupied, Holds
<1>7. \A p \in Occupied' : At(p)' = At(p)
  BY <1>4 DEF Occupied
<1>8. IInv'
  BY VacatePreserves
<1>9. Stored[k] # Null
  BY <1>5, KeysNotShadowed, HeldIsStored DEF StoredIsHeld
<1>10. Stored'[k] = Null
  <2>1. \A p : ~Entry(p, k)'
    BY <1>5, <1>6, KeysNotShadowed DEF IInv, UniqueKeys, Entry
  <2> QED
    BY <1>8, <2>1, HeldIsStoredAfter, KeysNotShadowed DEF StoredIsHeld, Shadowed
<1>11. ASSUME NEW j \in Keys, j # k
       PROVE  Stored'[j] = Stored[j]
  <2>1. \A p : Entry(p, j) => Entry(p, j)' /\ At(p)' = At(p)
    BY <1>5, <1>6, <1>7, <1>11 DEF Entry, Holds
  <2>2. \A q : Entry(q, j)' => Entry(q, j)
    BY <1>6
  <2> QED
    BY <1>8, <2>1, <2>2, EntryKept, KeysNotShadowed
<1>12. KeysFiled => KeysFiled'
  BY <1>4, <1>7 DEF KeysFiled
<1> QED
  BY <1>9, <1>10, <1>11, <1>12 DEF Stored

\* After table_clear no key is found.
LEMMA ClearForgets ==
  ASSUME IInv, ShortKeys, table_clear
  PROVE  Stored' = [k \in Keys |-> Null] /\ KeysFiled'
<1>1. (buckets_count \in Word /\ buckets = EmptyBuckets(buckets_count))'
  BY DEF IInv, TypeOK, table_clear, EmptyBuckets
<1>2. (Occupied = {})'
  BY <1>1, EmptyTable, PTL
<1>3. \A p, j : ~Entry(p, j)'
  BY <1>2 DEF Entry
<1>4. IInv'
  BY ClearPreserves
<1>5. \A k \in Keys : Stored'[k] = Null
  BY <1>3, <1>4, HeldIsStoredAfter, KeysNotShadowed DEF StoredIsHeld, Shadowed
<1>6. KeysFiled'
  BY <1>2 DEF KeysFiled
<1> QED
  BY <1>5, <1>6 DEF Stored

\* Of a resize, whatever comes of it.
LEMMA ResizeKeeps ==
  ASSUME IInv, ShortKeys, NEW n \in ResizeSizes, table_resize(n)
  PROVE  Stored' = Stored /\ (KeysFiled => KeysFiled')
<1>1. CASE UNCHANGED table
  BY <1>1, SameTableSameStore
<1>2. CASE /\ Rounded(n) >= elem_count /\ Rehash(Rounded(n)).fits
           /\ Install(Rehash(Rounded(n)).new_buckets, Rounded(n))
  <2>1. Rounded(n) \in Word
    BY RoundedIsSize, ConstantsAssumption
  <2>2. Occupied # {} => Rounded(n) # 0
    <3>1. IsFiniteSet(Occupied)
      BY OccupiedFinite DEF IInv, TypeOK
    <3>2. Occupied # {} => Cardinality(Occupied) # 0
      BY <3>1, FS_EmptySet
    <3>3. Cardinality(Occupied) \in Nat /\ Cardinality(Occupied) <= Rounded(n)
      BY <1>2, <3>1, FS_CardinalityType DEF IInv, CountExact
    <3> QED
      BY <3>2, <3>3
  <2>3. PICK f \in Bijection(Occupied, Occupied') : \A p \in Occupied : At(f[p])' = At(p)
    BY <1>2, <2>1, <2>2, RehashMoves DEF IInv, Install
  <2>4. /\ \A p \in Occupied : f[p] \in Occupied'
        /\ \A r \in Occupied' : \E p \in Occupied : f[p] = r
    BY <2>3 DEF Bijection, Injection, Surjection
  <2>5. IInv'
    BY ResizeCallPreserves
  <2>6. ASSUME NEW k \in Keys
        PROVE  Stored'[k] = Stored[k]
    <3>1. \A p : Entry(p, k) => Entry(f[p], k)' /\ At(f[p])' = At(p)
      BY <2>3, <2>4 DEF Entry, Holds
    <3>2. \A q : Entry(q, k)' => \E p : Entry(p, k)
      BY <2>3, <2>4 DEF Entry, Holds
    <3> QED
      BY <2>5, <3>1, <3>2, EntryKept, KeysNotShadowed
  <2>7. KeysFiled => KeysFiled'
    BY <2>3, <2>4 DEF KeysFiled, Holds
  <2> QED
    BY <2>6, <2>7 DEF Stored
<1> QED
  BY <1>1, <1>2 DEF table_resize, ReturnsOnly, FatalRehash, Install

\* The keys that are found are as many as the entries.
LEMMA KeysFiledKept == ShortKeys /\ IInv /\ KeysFiled /\ [Next]_vars => KeysFiled'
<1> SUFFICES ASSUME ShortKeys, IInv, KeysFiled, [Next]_vars PROVE KeysFiled'
  OBVIOUS
<1>1. CASE UNCHANGED table
  BY <1>1, SameTableSameStore
<1>2. ASSUME NEW k \in Keys, NEW v \in Values \ owned,
             table_set(k, v) \/ table_add(k, v) \/ table_replace(k, v)
      PROVE  KeysFiled'
  <2>1. \/ UNCHANGED table
        \/ \E op \in {"set", "add"} : LockGranted(k) /\ SlotsOf(k) = {} /\ Insert(op, k, v)
        \/ \E op \in {"set", "replace"} : LockGranted(k) /\ SlotsOf(k) # {} /\ Overwrite(op, k, v)
    BY <1>2 DEF table_set, table_add, table_replace, ReturnsOnly
  <2> QED
    BY <2>1, <1>1, InsertStores, OverwriteStores
<1>3. ASSUME NEW k \in Keys, table_delete(k) \/ table_get(k) \/ table_exist(k)
      PROVE  KeysFiled'
  <2>1. UNCHANGED table \/ (LockGranted(k) /\ SlotsOf(k) # {} /\ Vacate(k))
    BY <1>3 DEF table_delete, table_get, table_exist, ReturnsOnly, ReturnsValue
  <2> QED
    BY <2>1, <1>1, VacateForgets
<1>4. CASE \/ table_total_elem \/ table_capacity \/ table_load_factor
           \/ table_occupied_bucket_counter \/ table_memory_usage \/ WildAccess
  BY <1>4, <1>1 DEF table_total_elem, table_capacity, table_load_factor,
     table_occupied_bucket_counter, table_memory_usage, WildAccess, ReturnsRatio
<1> QED
  BY <1>1, <1>2, <1>3, <1>4, ClearForgets, ResizeKeeps DEF Next, vars

\* elem_count, which counts slots, is the number of keys that lookups find: each entry is
\* of a key of its own, and each is found.
LEMMA FoundAreCounted ==
  ASSUME IInv, ShortKeys, KeysFiled
  PROVE  Cardinality({k \in Keys : Stored[k] # Null}) = elem_count
<1> DEFINE P == {k \in Keys : Stored[k] # Null}
           f == [p \in Occupied |-> At(p).key]
<1>1. \A p \in Occupied : At(p).key \in P
  BY KeysNotShadowed, HeldIsStored DEF KeysFiled, StoredIsHeld, Entry
<1>2. \A p, q \in Occupied : At(p).key = At(q).key => p = q
  BY KeysNotShadowed DEF KeysFiled, IInv, UniqueKeys
<1>3. \A k \in P : \E p \in Occupied : At(p).key = k
  BY KeysNotShadowed, HeldIsStored DEF StoredIsHeld, Entry, Holds
<1>4. f \in Bijection(Occupied, P)
  <2>1. f \in [Occupied -> P]
    BY <1>1
  <2> QED
    BY <2>1, <1>2, <1>3 DEF Bijection, Injection, Surjection, IsInjective
<1>5. IsFiniteSet(Occupied)
  BY OccupiedFinite DEF IInv, TypeOK
<1> QED
  BY <1>4, <1>5, FS_Bijection DEF ExistsBijection, IInv, CountExact

-----------------------------------------------------------------------------
-----------------------------------------------------------------------------
(***************************************************************************)
(* Refinement: the table is a store.                                       *)
(***************************************************************************)

\* Memory is granted up to MaxBuckets buckets.
SteadyMalloc == MallocMayFail = FALSE

\* No request of table_resize that calloc grants goes beyond the size of table_create,
\* so that the locks made there are enough.
NeverOutgrown ==
  \A n \in CreateSizes, m \in ResizeSizes :
    CallocGrants(Rounded(n)) /\ CallocGrants(Rounded(m)) => Rounded(m) <= Rounded(n)

\* Each bucket has its lock.
LocksCover ==
  /\ buckets_count <= lock_count
  /\ \E n \in CreateSizes : CallocGrants(Rounded(n)) /\ lock_count = Rounded(n)

\* The inductive invariant of the refinement.
SInv == IInv /\ KeysFiled /\ LocksCover

\* SInv holds of a table that was just created.
LEMMA InitSInv == Init => SInv
<1> SUFFICES ASSUME Init PROVE SInv
  OBVIOUS
<1>1. IInv
  BY InitIInv
<1>2. KeysFiled
  <2>1. Occupied = {}
    BY <1>1, EmptyTable DEF Init, IInv, TypeOK
  <2> QED
    BY <2>1 DEF KeysFiled
<1>3. LocksCover
  BY <1>1, ConstantsAssumption DEF Init, LocksCover, IInv, TypeOK, Word
<1> QED
  BY <1>1, <1>2, <1>3 DEF SInv

\* A table that is never outgrown keeps a lock for each bucket.
LEMMA LocksCoverKept ==
  ASSUME LocksCover, NeverOutgrown, [Next]_vars
  PROVE  LocksCover'
<1>1. lock_count' = lock_count
  BY DEF Next, vars, table, table_set, table_add, table_replace, table_delete, table_get,
     table_exist,
     table_clear, table_resize, table_total_elem, table_capacity, table_load_factor,
     table_occupied_bucket_counter, table_memory_usage, WildAccess, Insert, Overwrite, Vacate,
     ReturnsOnly, ReturnsValue, ReturnsRatio, FatalRehash, Install
<1>2. CASE buckets_count' = buckets_count
  BY <1>1, <1>2 DEF LocksCover
<1>3. CASE \E m \in ResizeSizes : CallocGrants(Rounded(m)) /\ buckets_count' = Rounded(m)
  BY <1>1, <1>3 DEF LocksCover, NeverOutgrown
<1>4. \/ buckets_count' = buckets_count
      \/ \E m \in ResizeSizes : CallocGrants(Rounded(m)) /\ buckets_count' = Rounded(m)
  <2>1. ASSUME NEW m \in ResizeSizes, table_resize(m)
        PROVE  \/ buckets_count' = buckets_count
               \/ CallocGrants(Rounded(m)) /\ buckets_count' = Rounded(m)
    BY <2>1 DEF table_resize, ReturnsOnly, FatalRehash, Install, table
  <2>2. CASE ~\E m \in ResizeSizes : table_resize(m)
    BY <2>2 DEF Next, vars, table, table_set, table_add, table_replace, table_delete, table_get,
       table_exist, table_clear, table_total_elem, table_capacity, table_load_factor,
       table_occupied_bucket_counter, table_memory_usage, WildAccess, Insert, Overwrite, Vacate,
       ReturnsOnly, ReturnsValue, ReturnsRatio
  <2> QED
    BY <2>1, <2>2
<1> QED
  BY <1>2, <1>3, <1>4

\* A lookup tells the truth: the lock is refused only when there is no bucket.
LEMMA LookupTells ==
  ASSUME IInv, LocksCover, NEW k \in Keys
  PROVE  /\ LockRefused(k) => Stored[k] = Null
         /\ LockGranted(k) /\ SlotsOf(k) = {} => Stored[k] = Null
         /\ LockGranted(k) /\ SlotsOf(k) # {} => Stored[k] = Bucket(k)[Min(SlotsOf(k))].value
<1>1. LockRefused(k) => buckets_count = 0
  <2>1. buckets_count # 0 => bucket_index(k) < buckets_count /\ bucket_index(k) \in Nat
    BY BucketInRange, ConstantsAssumption DEF IInv, TypeOK, Word
  <2>2. lock_count \in Nat /\ buckets_count \in Nat /\ buckets_count <= lock_count
    BY ConstantsAssumption DEF LocksCover, IInv, TypeOK, Word
  <2> QED
    BY <2>1, <2>2 DEF LockRefused
<1>2. LockGranted(k) => buckets_count # 0
  BY FoundSlot, ConstantsAssumption DEF IInv, TypeOK, Word
<1> QED
  BY <1>1, <1>2 DEF Stored, Findable

\* The answer as the abstract store has it.
LEMMA AnsweredIs ==
  ASSUME NEW op, NEW k, NEW rc, NEW of, NEW val,
         ret' = [op |-> op, key |-> k, rc |-> rc, of |-> of, val |-> val]
  PROVE  Answered' = [op |-> op, key |-> k,
                      res |-> IF op = "get" THEN val
                              ELSE IF op = "exist" THEN IF rc = 1 THEN "present" ELSE "absent"
                              ELSE IF rc < 0 THEN "refused" ELSE "ok",
                      num |-> IF op \in {"total_elem", "load_factor", "memory_usage"}
                              THEN rc ELSE 0]
BY DEF Answered

\* Storing is Put or Refuse of the abstract store.
LEMMA StoreIsKV ==
  ASSUME SInv, ShortKeys, NEW k \in Keys, NEW v \in Values \ owned,
         table_set(k, v) \/ table_add(k, v) \/ table_replace(k, v)
  PROVE  /\ KV!Next
         /\ KeysFiled'
<1> USE DEF SInv
<1>1. k \notin LongKeys
  BY DEF ShortKeys
<1>2. ASSUME NEW op \in {"set", "add", "replace"}, NEW rc \in {-1, -2, -3}, ReturnsOnly(op, k, rc)
      PROVE  KV!Refuse(op, k) /\ KeysFiled'
  <2>1. Answered' = [op |-> op, key |-> k, res |-> "refused", num |-> 0]
    BY <1>2, AnsweredIs DEF ReturnsOnly, Returns
  <2> QED
    BY <1>2, <2>1, SameTableSameStore DEF ReturnsOnly, KV!Refuse, KV!Answers
<1>3. ASSUME NEW op \in {"set", "add", "replace"}, LockGranted(k), SlotsOf(k) = {}, Insert(op, k, v)
      PROVE  KV!Put(op, k, v) /\ KeysFiled' /\ k \notin KV!Present
  <2>1. Answered' = [op |-> op, key |-> k, res |-> "ok", num |-> 0]
    BY <1>3, AnsweredIs DEF Insert, Returns
  <2> QED
    BY <1>3, <2>1, InsertStores DEF KV!Put, KV!Answers, KV!Present
<1>4. ASSUME NEW op \in {"set", "add", "replace"},
             LockGranted(k), SlotsOf(k) # {}, Overwrite(op, k, v)
      PROVE  KV!Put(op, k, v) /\ KeysFiled' /\ k \in KV!Present
  <2>1. Answered' = [op |-> op, key |-> k, res |-> "ok", num |-> 0]
    BY <1>4, AnsweredIs DEF Overwrite, Returns
  <2> QED
    BY <1>4, <2>1, OverwriteStores DEF KV!Put, KV!Answers, KV!Present
<1>5. LockRefused(k) \/ (LockGranted(k) /\ SlotsOf(k) = {}) => k \notin KV!Present
  BY LookupTells DEF KV!Present
<1>6. CASE table_set(k, v)
  <2>1. KV!Set(k, v) /\ KeysFiled'
    BY <1>1, <1>2, <1>3, <1>4, <1>5, <1>6 DEF table_set, KV!Set
  <2> QED
    BY <2>1 DEF KV!Next
<1>7. CASE table_add(k, v)
  <2>1. KV!Add(k, v) /\ KeysFiled'
    BY <1>1, <1>2, <1>3, <1>4, <1>5, <1>7 DEF table_add, KV!Add
  <2> QED
    BY <2>1 DEF KV!Next
<1>8. CASE table_replace(k, v)
  <2>1. KV!Replace(k, v) /\ KeysFiled'
    BY <1>1, <1>2, <1>3, <1>4, <1>5, <1>8 DEF table_replace, KV!Replace
  <2> QED
    BY <2>1 DEF KV!Next
<1> QED
  BY <1>6, <1>7, <1>8

\* Deleting and reading one key are calls of the abstract store.
LEMMA KeyCallIsKV ==
  ASSUME SInv, ShortKeys, SteadyMalloc, NEW k \in Keys,
         table_delete(k) \/ table_get(k) \/ table_exist(k)
  PROVE  KV!Next /\ KeysFiled'
<1> USE DEF SInv
<1>1. /\ LockRefused(k) \/ (LockGranted(k) /\ SlotsOf(k) = {}) => Stored[k] = Null
      /\ LockGranted(k) /\ SlotsOf(k) # {} => /\ Stored[k] = Bucket(k)[Min(SlotsOf(k))].value
                                            /\ Stored[k] # Null
  <2>1. LockGranted(k) /\ SlotsOf(k) # {} => Findable(k)
    BY FoundSlot, ConstantsAssumption DEF Findable, IInv, TypeOK, Word
  <2>2. Findable(k) => Stored[k] # Null
    BY FoundIsEntry, HeldIsStored, KeysNotShadowed DEF StoredIsHeld, IInv
  <2> QED
    BY <2>1, <2>2, LookupTells
<1>2. CASE table_delete(k)
  <2>1. ASSUME NEW rc \in {-1, -2}, ReturnsOnly("delete", k, rc), Stored[k] = Null
        PROVE  KV!Delete(k) /\ KeysFiled'
    <3>1. Answered' = [op |-> "delete", key |-> k, res |-> "refused", num |-> 0]
      BY <2>1, AnsweredIs DEF ReturnsOnly, Returns
    <3> QED
      BY <2>1, <3>1, SameTableSameStore
         DEF ReturnsOnly, KV!Delete, KV!Refuse, KV!Answers, KV!Present
  <2>2. ASSUME LockGranted(k), SlotsOf(k) # {}, Vacate(k)
        PROVE  KV!Delete(k) /\ KeysFiled'
    <3>1. Answered' = [op |-> "delete", key |-> k, res |-> "ok", num |-> 0]
      BY <2>2, AnsweredIs DEF Vacate, Returns
    <3> QED
      BY <2>2, <3>1, VacateForgets DEF KV!Delete, KV!Put, KV!Answers, KV!Present
  <2>3. KV!Delete(k) /\ KeysFiled'
    BY <1>1, <1>2, <2>1, <2>2 DEF table_delete
  <2> QED
    BY <2>3 DEF KV!Next
<1>3. CASE table_get(k)
  <2>1. ReturnsValue(k, Stored[k])
    BY <1>1, <1>3 DEF table_get, SteadyMalloc
  <2>2. Answered' = [op |-> "get", key |-> k, res |-> Stored[k], num |-> 0]
    BY <2>1, AnsweredIs DEF ReturnsValue
  <2>3. KV!Get(k) /\ KeysFiled'
    BY <2>1, <2>2, SameTableSameStore DEF ReturnsValue, KV!Get, KV!Answers
  <2> QED
    BY <2>3 DEF KV!Next
<1>4. CASE table_exist(k)
  <2>1. PICK rc \in {0, 1} : ReturnsOnly("exist", k, rc) /\ (rc = 1 <=> Stored[k] # Null)
    BY <1>1, <1>4 DEF table_exist
  <2>2. Answered' = [op |-> "exist", key |-> k,
                     res |-> IF rc = 1 THEN "present" ELSE "absent", num |-> 0]
    BY <2>1, AnsweredIs DEF ReturnsOnly, Returns
  <2>3. KV!Exist(k) /\ KeysFiled'
    BY <2>1, <2>2, SameTableSameStore DEF ReturnsOnly, KV!Exist, KV!Answers, KV!Present
  <2> QED
    BY <2>3 DEF KV!Next
<1> QED
  BY <1>2, <1>3, <1>4

\* Clearing is a call of the abstract store, and resizing one that keeps it as it is.
LEMMA TableCallIsKV ==
  ASSUME SInv, ShortKeys, table_clear \/ \E n \in ResizeSizes : table_resize(n)
  PROVE  KV!Next /\ KeysFiled'
<1> USE DEF SInv
<1>1. CASE table_clear
  <2>1. Answered' = [op |-> "clear", key |-> Null, res |-> "ok", num |-> 0]
    BY <1>1, AnsweredIs DEF table_clear, Returns
  <2>2. KV!Clear /\ KeysFiled'
    BY <1>1, <2>1, ClearForgets DEF KV!Clear, KV!Answers
  <2> QED
    BY <2>2 DEF KV!Next
<1>2. ASSUME NEW n \in ResizeSizes, table_resize(n)
      PROVE  KV!Next /\ KeysFiled'
  <2>1. PICK rc \in {0, -1} : Returns("resize", Null, rc)
    BY <1>2 DEF table_resize, ReturnsOnly, FatalRehash, Install
  <2>2. Answered' = [op |-> "resize", key |-> Null, res |-> IF rc < 0 THEN "refused" ELSE "ok",
                     num |-> 0]
    BY <2>1, AnsweredIs DEF Returns
  <2>3. KV!Resize /\ KeysFiled'
    BY <1>2, <2>2, ResizeKeeps DEF KV!Resize, KV!Answers
  <2> QED
    BY <2>3 DEF KV!Next
<1> QED
  BY <1>1, <1>2

\* The cardinality KVStore speaks of is the one of this module.
LEMMA SameCardinality == \A S : KV!Cardinality(S) = Cardinality(S)
BY DEF KV!Cardinality, Cardinality

\* The counters are calls of the abstract store; those that tell a number of keys tell
\* how many it holds.
LEMMA CounterIsKV ==
  ASSUME SInv, ShortKeys,
         \/ table_total_elem \/ table_capacity \/ table_load_factor
         \/ table_occupied_bucket_counter \/ table_memory_usage
  PROVE  KV!Next /\ KeysFiled'
<1> USE DEF SInv
<1>1. /\ Cardinality(KV!Present) = elem_count
      /\ elem_count = Cardinality(Occupied) /\ elem_count \in Nat
  BY FoundAreCounted DEF KV!Present, IInv, CountExact, TypeOK
<1>2. buckets_count = 0 => elem_count = 0
  <2>1. buckets_count = 0 => Occupied = {}
    BY DEF Occupied, Positions
  <2> QED
    BY <1>1, <2>1, FS_EmptySet
<1>3. WildLocks = {}
  BY ConstantsAssumption DEF WildLocks, LocksCover, IInv, TypeOK, Word
<1>4. ASSUME NEW op \in {"total_elem", "load_factor", "memory_usage"}, NEW of,
             ReturnsRatio(op, elem_count, of)
      PROVE  KV!CountKeys(op) /\ KeysFiled'
  <2>1. Answered' = [op |-> op, key |-> Null, res |-> "ok", num |-> elem_count]
    BY <1>1, <1>4, AnsweredIs DEF ReturnsRatio
  <2> QED
    BY <1>1, <1>4, <2>1, SameCardinality, SameTableSameStore
       DEF ReturnsRatio, KV!CountKeys, KV!Answers
<1>5. ASSUME NEW op \in {"capacity", "occupied_bucket"}, NEW rc \in Nat, NEW of,
             ReturnsRatio(op, rc, of)
      PROVE  KV!TellShape(op) /\ KeysFiled'
  <2>1. Answered' = [op |-> op, key |-> Null, res |-> "ok", num |-> 0]
    BY <1>5, AnsweredIs DEF ReturnsRatio
  <2> QED
    BY <1>5, <2>1, SameTableSameStore DEF ReturnsRatio, KV!TellShape, KV!Answers
<1>6. CASE table_total_elem
  BY <1>4, <1>6 DEF table_total_elem, KV!Next
<1>7. CASE table_load_factor
  <2>1. \E of : ReturnsRatio("load_factor", elem_count, of)
    BY <1>2, <1>7 DEF table_load_factor
  <2> QED
    BY <1>4, <2>1 DEF KV!Next
<1>8. CASE table_memory_usage
  <2>1. ReturnsRatio("memory_usage", elem_count, 1)
    BY <1>1, <1>3, <1>8 DEF table_memory_usage
  <2> QED
    BY <1>4, <2>1 DEF KV!Next
<1>9. CASE table_capacity
  <2>1. buckets_count * BUCKET_CAPACITY \in Nat
    BY ConstantsAssumption DEF IInv, TypeOK, Word
  <2> QED
    BY <1>5, <1>9, <2>1 DEF table_capacity, KV!Next
<1>10. CASE table_occupied_bucket_counter
  <2>1. Cardinality({p[1] : p \in Occupied} \ {}) \in Nat
    <3>1. IsFiniteSet(0 .. buckets_count - 1)
      BY FS_Interval, ConstantsAssumption DEF IInv, TypeOK, Word
    <3>2. {p[1] : p \in Occupied} \ {} \in SUBSET (0 .. buckets_count - 1)
      BY DEF Occupied, Positions
    <3> QED
      BY <3>1, <3>2, FS_Subset, FS_CardinalityType
  <2>2. \E rc, of : rc \in Nat /\ ReturnsRatio("occupied_bucket", rc, of)
    <3>1. CASE buckets_count = 0
      BY <1>10, <3>1 DEF table_occupied_bucket_counter
    <3>2. CASE buckets_count # 0
      <4>1. PICK skipped \in SUBSET WildLocks :
              ReturnsRatio("occupied_bucket",
                           Cardinality({p[1] : p \in Occupied} \ skipped), buckets_count)
        BY <1>10, <3>2 DEF table_occupied_bucket_counter
      <4>2. skipped = {}
        BY <1>3
      <4> QED
        BY <2>1, <4>1, <4>2
    <3> QED
      BY <3>1, <3>2
  <2> QED
    BY <1>5, <2>2 DEF KV!Next
<1> QED
  BY <1>6, <1>7, <1>8, <1>9, <1>10

\* A step of the table is a step of the abstract store, or none of it.
LEMMA NextKV ==
  ASSUME ShortKeys, SteadyMalloc, NeverOutgrown, SInv, [Next]_vars
  PROVE  SInv' /\ [KV!Next]_(KV!vars)
<1>1. IInv' /\ LocksCover'
  BY NextIInv, LocksCoverKept DEF SInv
<1>2. ASSUME UNCHANGED <<table, ret>>
      PROVE  KeysFiled' /\ UNCHANGED KV!vars
  BY <1>2, SameTableSameStore DEF SInv, KV!vars, Answered
<1>3. KeysFiled' /\ (KV!Next \/ UNCHANGED KV!vars)
  <2>1. ASSUME NEW k \in Keys, NEW v \in Values \ owned,
               table_set(k, v) \/ table_add(k, v) \/ table_replace(k, v)
        PROVE  KV!Next /\ KeysFiled'
    BY <2>1, StoreIsKV
  <2>2. ASSUME NEW k \in Keys, table_delete(k) \/ table_get(k) \/ table_exist(k)
        PROVE  KV!Next /\ KeysFiled'
    BY <2>2, KeyCallIsKV
  <2>3. CASE WildAccess \/ UNCHANGED vars
    BY <1>2, <2>3 DEF WildAccess, vars
  <2> QED
    BY <2>1, <2>2, <2>3, TableCallIsKV, CounterIsKV DEF Next
<1> QED
  BY <1>1, <1>3 DEF SInv

\* The table just created is the empty store.
LEMMA InitKV == ShortKeys /\ Init => KV!Init
<1> SUFFICES ASSUME ShortKeys, Init PROVE KV!Init
  OBVIOUS
<1>1. IInv
  BY InitIInv
<1>2. Occupied = {}
  BY <1>1, EmptyTable DEF Init, IInv, TypeOK
<1>3. \A k \in Keys : Stored[k] = Null
  BY <1>1, <1>2, HeldIsStored, KeysNotShadowed DEF StoredIsHeld, Entry
<1>4. Stored = [k \in Keys |-> Null]
  BY <1>3 DEF Stored
<1>5. Answered = [op |-> "create", key |-> Null, res |-> "ok", num |-> 0]
  BY DEF Init, Answered
<1> QED
  BY <1>4, <1>5 DEF KV!Init

\* A table that is never asked to outgrow its locks, with short keys and steady memory,
\* is a KVStore: every call of src/src/hashtable.c answers and changes as the abstract
\* store does.  Each of the three hypotheses is needed: table_add files a long key where
\* no lookup finds it (src/src/hashtable.c:452), a refused lock and a failed memdup are
\* answered "not there" (src/src/hashtable.c:304).  A configuration that has all three is
\* MCTableRefines.
THEOREM KVStoreHolds ==
  ASSUME ShortKeys, SteadyMalloc, NeverOutgrown
  PROVE  Spec => ImplementsKVStore
<1>1. SInv /\ [Next]_vars => SInv' /\ [KV!Next]_(KV!vars)
  BY NextKV
<1>2. Init => SInv /\ KV!Init
  BY InitSInv, InitKV
<1> QED
  BY <1>1, <1>2, PTL DEF Spec, ImplementsKVStore, KV!Spec

-----------------------------------------------------------------------------
(***************************************************************************)
(* Three promises that the code does not keep, and what they need: each    *)
(* cause that a run exhibits is the only one.                              *)
(***************************************************************************)

\* A table of which no bucket outgrows the locks stays one.
THEOREM LocksCoverHolds ==
  ASSUME NeverOutgrown
  PROVE  Spec => []LocksCover
<1>1. Init => LocksCover
  BY InitSInv DEF SInv
<1> QED
  BY <1>1, LocksCoverKept, PTL DEF Spec

\* With memory for the copy and a lock for each bucket, table_get reads what is stored.
LEMMA GetReads ==
  ASSUME IInv, LocksCover, SteadyMalloc, NEW k \in Keys, table_get(k)
  PROVE  ReturnsValue(k, Stored[k])
BY LookupTells DEF table_get, SteadyMalloc

\* The result of a call names it, so that a result of table_add or table_get is theirs.
LEMMA OthersAreNamed ==
  ASSUME [Next]_vars
  PROVE  \/ ret'.op = "add" /\ \E k \in Keys, v \in Values \ owned : table_add(k, v)
         \/ ret'.op = "get" /\ \E k \in Keys : table_get(k)
         \/ UNCHANGED <<table, ret>>
         \/ ret'.op \notin {"add", "get"}
<1> USE DEF Returns, ReturnsOnly
<1>1. ASSUME NEW k, NEW v, table_set(k, v) \/ table_replace(k, v)
      PROVE  ret'.op \in {"set", "replace"}
  <2>1. \A op : Insert(op, k, v) \/ Overwrite(op, k, v) => ret'.op = op
    BY DEF Insert, Overwrite
  <2> QED
    BY <1>1, <2>1 DEF table_set, table_replace
<1>2. ASSUME NEW k, table_delete(k) \/ table_exist(k)
      PROVE  ret'.op \in {"delete", "exist"}
  BY <1>2 DEF table_delete, table_exist, Vacate
<1>3. ASSUME NEW n, table_resize(n) PROVE ret'.op = "resize"
  BY <1>3 DEF table_resize, FatalRehash, Install
<1>4. CASE table_clear
  BY <1>4 DEF table_clear
<1>5. CASE \/ table_total_elem \/ table_capacity \/ table_load_factor
           \/ table_occupied_bucket_counter \/ table_memory_usage
  <2>1. \A op, rc, of : ReturnsRatio(op, rc, of) => ret'.op = op
    BY DEF ReturnsRatio
  <2> QED
    BY <1>5, <2>1 DEF table_total_elem, table_capacity, table_load_factor,
       table_occupied_bucket_counter, table_memory_usage
<1>6. CASE WildAccess \/ UNCHANGED vars
  BY <1>6 DEF WildAccess, vars
<1>7. ASSUME NEW k, NEW v, table_add(k, v) PROVE ret'.op = "add"
  BY <1>7 DEF table_add, Insert
<1>8. ASSUME NEW k, table_get(k) PROVE ret'.op = "get"
  BY <1>8 DEF table_get, ReturnsValue
<1> QED
  BY <1>1, <1>2, <1>3, <1>4, <1>5, <1>6, <1>7, <1>8 DEF Next

\* table_get (src/src/hashtable.c:289) returns the value of every key that the table holds,
\* long keys or not, when it never outgrows its locks and the copies have memory.
THEOREM GetFindsStoredHolds ==
  ASSUME SteadyMalloc, NeverOutgrown
  PROVE  Spec => GetFindsStored
<1> DEFINE Found == \A k \in Keys : ret' # ret /\ ret'.op = "get" /\ ret'.key = k
                                     => ret'.val = Stored[k]
<1>1. ASSUME IInv, LocksCover, [Next]_vars PROVE [Found]_vars
  <2>1. ASSUME NEW k \in Keys, table_get(k) PROVE Found
    BY <1>1, <2>1, GetReads DEF ReturnsValue
  <2>2. ASSUME ~\E k \in Keys : table_get(k) PROVE ret' = ret \/ ret'.op # "get"
    BY <1>1, <2>2, OthersAreNamed
  <2> QED
    BY <2>1, <2>2
<1> QED
  BY <1>1, Invariant, LocksCoverHolds, PTL DEF Spec, GetFindsStored

\* What table_add (src/src/hashtable.c:414) says it has stored is found, when its key fits
\* into a slot, in whatever locks and memory.
THEOREM AddedIsFoundHolds ==
  ASSUME ShortKeys
  PROVE  Spec => []AddedIsFound
<1>1. Init => AddedIsFound
  BY DEF Init, AddedIsFound
<1>2. ASSUME IInv, AddedIsFound, [Next]_vars PROVE AddedIsFound'
  <2>1. ASSUME NEW k \in Keys, NEW v \in Values \ owned, table_add(k, v) PROVE AddedIsFound'
    <3>1. CASE ret'.rc # 0
      BY <3>1 DEF AddedIsFound
    <3>2. CASE LockGranted(k) /\ SlotsOf(k) = {} /\ Insert("add", k, v)
      <4>1. Stored' = [Stored EXCEPT ![k] = v] /\ DOMAIN Stored = Keys
        BY <1>2, <3>2, InsertStores DEF Stored
      <4>2. v # Null /\ ret'.key = k
        BY <3>2, ConstantsAssumption DEF Insert, Returns
      <4> QED
        BY <4>1, <4>2 DEF AddedIsFound
    <3> QED
      BY <2>1, <3>1, <3>2 DEF table_add, ReturnsOnly, Returns
  <2>2. ASSUME ~\E k \in Keys, v \in Values \ owned : table_add(k, v)
        PROVE  UNCHANGED <<table, ret>> \/ ret'.op # "add"
    BY <1>2, <2>2, OthersAreNamed
  <2>3. CASE UNCHANGED <<table, ret>>
    BY <1>2, <2>3, SameTableSameStore DEF AddedIsFound
  <2>4. CASE ret'.op # "add"
    BY <2>4 DEF AddedIsFound
  <2> QED
    BY <2>1, <2>2, <2>3, <2>4
<1> QED
  BY <1>1, <1>2, Invariant, PTL DEF Spec

\* No size that is asked for is above the largest power of two.
NeverRoundedAway ==
  /\ \A n \in CreateSizes : Rounded(n) # 0
  /\ \A n \in ResizeSizes \ {0} : Rounded(n) # 0

\* The table (src/src/hashtable.c:145, 213) always has buckets, as many as a power of two,
\* when no size wraps: a resize to 0 is refused.
THEOREM SizeIsPowerOf2Holds ==
  ASSUME NeverRoundedAway
  PROVE  Spec => []SizeIsPowerOf2
<1> DEFINE Sized == buckets_count # 0
<1>1. Init => Sized
  BY DEF Init, NeverRoundedAway
<1>2. ASSUME Sized, [Next]_vars PROVE Sized'
  <2>1. ASSUME NEW n \in ResizeSizes, table_resize(n) PROVE Sized'
    BY <1>2, <2>1 DEF table_resize, ReturnsOnly, FatalRehash, Install, table, NeverRoundedAway
  <2>2. ASSUME ~\E n \in ResizeSizes : table_resize(n) PROVE UNCHANGED buckets_count
    BY <1>2, <2>2 DEF Next, vars, table, table_set, table_add, table_replace, table_delete,
       table_get, table_exist, table_clear, table_total_elem, table_capacity,
       table_load_factor, table_occupied_bucket_counter, table_memory_usage, WildAccess,
       Insert, Overwrite, Vacate, ReturnsOnly, ReturnsValue, ReturnsRatio
  <2> QED
    BY <1>2, <2>1, <2>2
<1>3. IInv /\ Sized => SizeIsPowerOf2
  BY DEF IInv, TypeOK, SizeIsPowerOf2
<1> QED
  BY <1>1, <1>2, <1>3, Invariant, PTL DEF Spec
=============================================================================
