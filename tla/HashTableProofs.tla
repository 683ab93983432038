-------------------------- MODULE HashTableProofs --------------------------
(***************************************************************************)
(* Proofs about HashTable, for every set of keys, every hash function,     *)
(* every bucket capacity and every word size.                              *)
(*                                                                         *)
(* The inductive invariant is IInv.  Its hard case is table_resize, where  *)
(* the whole array changes at once: lemma RehashMoves says that a rehash   *)
(* is a bijection from the occupied slots of the old array onto those of   *)
(* the new one, and every conjunct of IInv follows from that.              *)
(***************************************************************************)
EXTENDS HashTable, Minima, FiniteSetTheorems

\* The inductive invariant.
IInv == TypeOK /\ Placement /\ CountExact /\ OwnershipExact /\ UniqueKeys

-----------------------------------------------------------------------------
(***************************************************************************)
(* Words and positions.                                                    *)
(***************************************************************************)

\* Taking one off stays in a word.
LEMMA DecrementType ==
  ASSUME NEW n \in Word
  PROVE  Decrement(n) \in Word
BY ConstantsAssumption DEF Decrement, Word

\* A number is a multiple of p and a remainder.
LEMMA Division ==
  ASSUME NEW p \in Nat \ {0}, NEW h \in Nat
  PROVE  h = (p * (h \div p)) + (h % p) /\ h % p \in 0 .. p - 1 /\ h \div p \in Nat
BY Z3T(30)

\* The remainder by c, taken by a divisor p of c, is the remainder by p.
LEMMA ModuloNests ==
  ASSUME NEW p \in Nat \ {0}, NEW c \in Nat \ {0}, c % p = 0, NEW h \in Nat
  PROVE  (h % c) % p = h % p
<1> DEFINE k == c \div p
           q == h \div c
           m == h % c
           a == m \div p
           r == m % p
           b == (k * q) + a
<1>1. c = p * k /\ k \in Nat
  BY Division
<1>2. h = (c * q) + m /\ m \in Nat /\ q \in Nat
  BY Division
<1>3. m = (p * a) + r /\ a \in Nat /\ r \in 0 .. p - 1
  BY <1>2, Division
<1> HIDE DEF k, q, m, a, r
<1>4. h = (p * b) + r /\ b \in Int
  <2>1. c * q = p * (k * q)
    BY <1>1, <1>2, Z3T(30)
  <2>2. p * b = (p * (k * q)) + (p * a)
    BY <1>1, <1>2, <1>3, Z3T(30)
  <2> QED
    BY <1>1, <1>2, <1>3, <2>1, <2>2
<1> HIDE DEF b
<1>5. h % p = r
  BY <1>3, <1>4, Z3T(30)
<1> QED
  BY <1>5 DEF r, m

\* The mask of a smaller power of two is a function of the mask of a larger one: entries
\* that meet in a larger table met before.
LEMMA MasksNest ==
  ASSUME NEW p \in Word, IsPowerOf2(p), NEW c \in Word, IsPowerOf2(c), p <= c, NEW h \in Word
  PROVE  BitAnd(BitAnd(h, Decrement(c)), Decrement(p)) = BitAnd(h, Decrement(p))
<1>1. p \in Nat \ {0} /\ c \in Nat \ {0} /\ h \in Nat
  BY ConstantsAssumption DEF Word, IsPowerOf2
<1>2. BitAnd(h, Decrement(c)) = h % c /\ BitAnd(h, Decrement(p)) = h % p
  BY WordAssumption
<1>3. BitAnd(h, Decrement(c)) \in Word
  BY DecrementType, WordAssumption
<1>4. BitAnd(h % c, Decrement(p)) = (h % c) % p
  BY <1>2, <1>3, WordAssumption
<1>5. (h % c) % p = h % p
  BY <1>1, WordAssumption, ModuloNests
<1> QED
  BY <1>2, <1>4, <1>5

\* In a table of p buckets the mask of a hash is an index of a bucket.
LEMMA MaskInRange ==
  ASSUME NEW p \in Word, IsPowerOf2(p), NEW h \in Word
  PROVE  BitAnd(h, Decrement(p)) \in 0 .. p - 1
<1>1. p \in Nat \ {0} /\ h \in Nat
  BY ConstantsAssumption DEF Word, IsPowerOf2
<1>2. h % p \in 0 .. p - 1
  BY <1>1
<1> QED
  BY <1>2, WordAssumption

\* A bucket has finitely many slots, numbered.
LEMMA SlotsFinite == IsFiniteSet(Slots) /\ Slots \subseteq Nat
BY ConstantsAssumption, FS_Interval DEF Slots

\* Without one of them there is one less.
LEMMA OneSlotLess ==
  ASSUME NEW s \in Slots
  PROVE  IsFiniteSet(Slots \ {s}) /\ Cardinality(Slots \ {s}) = Cardinality(Slots) - 1
BY SlotsFinite, FS_RemoveElement

\* A table has finitely many entries.
LEMMA OccupiedFinite ==
  ASSUME buckets_count \in Word
  PROVE  IsFiniteSet(Positions) /\ IsFiniteSet(Occupied)
<1>1. IsFiniteSet(0 .. buckets_count - 1)
  BY FS_Interval, ConstantsAssumption DEF Word
<1>2. IsFiniteSet(Positions)
  BY <1>1, SlotsFinite, FS_Product DEF Positions
<1>3. Occupied \in SUBSET Positions
  BY DEF Occupied
<1> QED
  BY <1>2, <1>3, FS_Subset

\* A call that gets its lock works on a bucket that exists, and a key it finds
\* or stores is in a slot that exists.
LEMMA FoundSlot ==
  ASSUME TypeOK, NEW k \in Keys, LockGranted(k)
  PROVE  /\ bucket_index(k) \in 0 .. buckets_count - 1
         /\ Bucket(k) \in [Slots -> Slot]
         /\ SlotsOf(k) # {} => Min(SlotsOf(k)) \in SlotsOf(k)
         /\ FreeSlots(k) # {} => Min(FreeSlots(k)) \in FreeSlots(k)
         /\ SlotsOf(k) \subseteq Slots /\ FreeSlots(k) \subseteq Slots
<1>1. bucket_index(k) \in Word
  BY DecrementType, WordAssumption, ConstantsAssumption DEF bucket_index, TypeOK
<1>2. bucket_index(k) \in 0 .. buckets_count - 1
  BY <1>1, ConstantsAssumption DEF LockGranted, TypeOK, Word
<1>3. SlotsOf(k) \subseteq Slots /\ FreeSlots(k) \subseteq Slots
  BY DEF SlotsOf, FreeSlots
<1>4. SlotsOf(k) \subseteq Nat /\ FreeSlots(k) \subseteq Nat
  BY <1>3, SlotsFinite
<1>5. Bucket(k) \in [Slots -> Slot]
  BY <1>2 DEF Bucket, TypeOK
<1> QED
  BY <1>2, <1>3, <1>4, <1>5, MinIsLeast
-----------------------------------------------------------------------------
(***************************************************************************)
(* A call that writes one slot.                                            *)
(***************************************************************************)

\* What becomes of the positions and the entries when slot s of bucket b is
\* written with e.
LEMMA OneSlotWritten ==
  ASSUME TypeOK,
         NEW b \in 0 .. buckets_count - 1, NEW s \in Slots, NEW e \in Slot,
         buckets' = [buckets EXCEPT ![b][s] = e],
         buckets_count' = buckets_count
  PROVE  /\ buckets' \in [0 .. buckets_count' - 1 -> [Slots -> Slot]]
         /\ <<b, s>> \in Positions /\ Positions' = Positions
         /\ \A p \in Positions : At(p)' = IF p = <<b, s>> THEN e ELSE At(p)
         /\ Occupied' = IF e.in_use THEN Occupied \cup {<<b, s>>}
                                    ELSE Occupied \ {<<b, s>>}
<1>1. buckets' \in [0 .. buckets_count' - 1 -> [Slots -> Slot]]
  BY DEF TypeOK
<1>2. <<b, s>> \in Positions /\ Positions' = Positions
  BY DEF Positions
<1>3. \A p \in Positions : At(p)' = IF p = <<b, s>> THEN e ELSE At(p)
  BY DEF Positions, At, TypeOK
<1>4. Occupied' = IF e.in_use THEN Occupied \cup {<<b, s>>}
                             ELSE Occupied \ {<<b, s>>}
  BY <1>2, <1>3 DEF Occupied
<1> QED
  BY <1>1, <1>2, <1>3, <1>4

\* A slot that is in use holds a key in the bucket a lookup of the key visits.
LEMMA HeldInItsBucket ==
  ASSUME TypeOK, Placement, NEW k \in Keys, NEW p \in Occupied, Holds(At(p), k)
  PROVE  /\ p[1] = bucket_index(k)
         /\ p[2] \in SlotsOf(k)
         /\ p = <<p[1], p[2]>>
BY DEF Placement, Holds, bucket_index, SlotsOf, Bucket, At, Occupied, Positions

\* A new entry keeps the invariant, provided the key was not found before.
LEMMA InsertPreserves ==
  ASSUME IInv, NEW k \in Keys, NEW v \in Values \ owned, NEW op,
         LockGranted(k), SlotsOf(k) = {}, Insert(op, k, v)
  PROVE  IInv'
<1>1. PICK b \in 0 .. buckets_count - 1, s \in FreeSlots(k) :
        b = bucket_index(k) /\ s = Min(FreeSlots(k)) /\ s \in Slots
  BY FoundSlot DEF IInv, Insert
<1>2. PICK e \in Slot : e = SlotFor(k, v)
  <2>1. StoredKey(k) \in Keys
    BY ConstantsAssumption DEF StoredKey
  <2>2. SlotFor(k, v) \in Slot
    BY <2>1, ConstantsAssumption DEF SlotFor, Slot
  <2> QED
    BY <2>2
<1>3. /\ buckets' = [buckets EXCEPT ![b][s] = e] /\ buckets_count' = buckets_count
      /\ e.in_use /\ e.hash = hash[k] /\ e.value = v
  BY <1>1, <1>2 DEF Insert, SlotFor
<1>4. /\ buckets' \in [0 .. buckets_count' - 1 -> [Slots -> Slot]]
      /\ <<b, s>> \in Positions /\ Positions' = Positions
      /\ \A p \in Positions : At(p)' = IF p = <<b, s>> THEN e ELSE At(p)
      /\ Occupied' = Occupied \cup {<<b, s>>}
  BY <1>1, <1>2, <1>3, OneSlotWritten DEF IInv
<1>5. <<b, s>> \notin Occupied
  BY <1>1 DEF Occupied, FreeSlots, Bucket, At
<1>6. \A p \in Occupied : At(p)' = At(p) /\ p \in Positions
  BY <1>4, <1>5 DEF Occupied
<1>7. At(<<b, s>>)' = e
  BY <1>4
<1>8. TypeOK'
  BY <1>4, ConstantsAssumption DEF IInv, TypeOK, Insert, Returns
<1>9. Placement'
  BY <1>1, <1>3, <1>4, <1>6, <1>7 DEF IInv, Placement, bucket_index
<1>10. CountExact'
  <2>1. Cardinality(Occupied') = Cardinality(Occupied) + 1
    BY <1>4, <1>5, OccupiedFinite, FS_AddElement DEF IInv, TypeOK
  <2> QED
    BY <2>1 DEF IInv, CountExact, Insert
<1>11. OwnershipExact'
  BY <1>3, <1>4, <1>6, <1>7 DEF IInv, OwnershipExact, Insert
<1>12. UniqueKeys'
  <2> SUFFICES ASSUME NEW j \in Keys, ~Shadowed(j),
                      NEW p \in Occupied', NEW q \in Occupied',
                      Holds(At(p)', j), Holds(At(q)', j)
               PROVE  p = q
    BY DEF UniqueKeys, Holds, Shadowed
  <2>1. CASE p \in Occupied /\ q \in Occupied
    BY <2>1, <1>6 DEF IInv, UniqueKeys
  <2>2. ASSUME NEW r \in Occupied, Holds(At(r), j), Holds(e, j)
        PROVE  FALSE
    <3>1. k = j
      BY <1>2, <2>2 DEF SlotFor, StoredKey, Holds, Shadowed
    <3> QED
      BY <3>1, <2>2, HeldInItsBucket DEF IInv
  <2>3. CASE p \notin Occupied /\ q \in Occupied
    BY <2>2, <2>3, <1>4, <1>6, <1>7
  <2>4. CASE p \in Occupied /\ q \notin Occupied
    BY <2>2, <2>4, <1>4, <1>6, <1>7
  <2>5. CASE p \notin Occupied /\ q \notin Occupied
    BY <2>5, <1>4
  <2> QED
    BY <2>1, <2>3, <2>4, <2>5
<1> QED
  BY <1>8, <1>9, <1>10, <1>11, <1>12 DEF IInv

\* A new value for a key that was found keeps the invariant.
LEMMA OverwritePreserves ==
  ASSUME IInv, NEW k \in Keys, NEW v \in Values \ owned, NEW op,
         LockGranted(k), SlotsOf(k) # {}, Overwrite(op, k, v)
  PROVE  IInv'
<1>1. PICK b \in 0 .. buckets_count - 1, s \in SlotsOf(k) :
        b = bucket_index(k) /\ s = Min(SlotsOf(k)) /\ s \in Slots
  BY FoundSlot DEF IInv
<1>2. buckets[b][s] \in Slot /\ Bucket(k)[s] = buckets[b][s]
  BY <1>1 DEF IInv, TypeOK, Bucket
<1>3. PICK e \in Slot : e = [buckets[b][s] EXCEPT !.value = v]
  BY <1>2 DEF Slot
<1>4. e.in_use /\ e.hash = buckets[b][s].hash /\ e.key = buckets[b][s].key /\ e.value = v
  BY <1>1, <1>2, <1>3 DEF SlotsOf, Holds, Bucket, Slot
<1>5. buckets' = [buckets EXCEPT ![b][s] = e] /\ buckets_count' = buckets_count
  BY <1>1, <1>3 DEF Overwrite, IInv, TypeOK
<1>6. <<b, s>> \in Occupied /\ At(<<b, s>>) = buckets[b][s]
  BY <1>1, <1>2 DEF Occupied, Positions, SlotsOf, Holds, Bucket, At
<1>7. /\ buckets' \in [0 .. buckets_count' - 1 -> [Slots -> Slot]]
      /\ Positions' = Positions
      /\ \A p \in Positions : At(p)' = IF p = <<b, s>> THEN e ELSE At(p)
      /\ Occupied' = Occupied
  <2>1. Occupied' = Occupied \cup {<<b, s>>}
    BY <1>1, <1>4, <1>5, OneSlotWritten DEF IInv
  <2>2. Occupied' = Occupied
    BY <2>1, <1>6
  <2> QED
    BY <2>2, <1>1, <1>5, OneSlotWritten DEF IInv
<1>8. \A p \in Occupied : /\ At(p)'.hash = At(p).hash /\ At(p)'.key = At(p).key
                          /\ At(p)'.in_use = At(p).in_use
                          /\ At(p)'.value = IF p = <<b, s>> THEN v ELSE At(p).value
  BY <1>4, <1>6, <1>7 DEF Occupied
<1>9. TypeOK'
  BY <1>7, ConstantsAssumption DEF IInv, TypeOK, Overwrite, Returns
<1>10. Placement'
  BY <1>5, <1>7, <1>8 DEF IInv, Placement
<1>11. CountExact'
  BY <1>7 DEF IInv, CountExact, Overwrite
<1>12. OwnershipExact'
  <2>1. owned' = (owned \ {At(<<b, s>>).value}) \cup {v}
    BY <1>1, <1>2, <1>6 DEF Overwrite
  <2> QED
    BY <2>1, <1>6, <1>7, <1>8 DEF IInv, OwnershipExact
<1>13. UniqueKeys'
  BY <1>7, <1>8 DEF IInv, UniqueKeys, Holds, Shadowed
<1> QED
  BY <1>9, <1>10, <1>11, <1>12, <1>13 DEF IInv

\* Taking an entry out keeps the invariant.
LEMMA VacatePreserves ==
  ASSUME IInv, NEW k \in Keys, LockGranted(k), SlotsOf(k) # {}, Vacate(k)
  PROVE  IInv'
<1>1. PICK b \in 0 .. buckets_count - 1, s \in SlotsOf(k) :
        b = bucket_index(k) /\ s = Min(SlotsOf(k)) /\ s \in Slots
  BY FoundSlot DEF IInv
<1>2. buckets' = [buckets EXCEPT ![b][s] = EmptySlot] /\ buckets_count' = buckets_count
  BY <1>1 DEF Vacate
<1>3. EmptySlot \in Slot /\ ~EmptySlot.in_use
  BY ConstantsAssumption DEF EmptySlot, Slot, Word
<1>4. /\ buckets' \in [0 .. buckets_count' - 1 -> [Slots -> Slot]]
      /\ <<b, s>> \in Positions /\ Positions' = Positions
      /\ \A p \in Positions : At(p)' = IF p = <<b, s>> THEN EmptySlot ELSE At(p)
      /\ Occupied' = Occupied \ {<<b, s>>}
  BY <1>1, <1>2, <1>3, OneSlotWritten DEF IInv
<1>5. <<b, s>> \in Occupied
  BY <1>1, <1>4 DEF Occupied, SlotsOf, Holds, Bucket, At
<1>6. \A p \in Occupied' : At(p)' = At(p) /\ p \in Occupied
  BY <1>4 DEF Occupied
<1>7. Cardinality(Occupied') = Cardinality(Occupied) - 1
  BY <1>4, <1>5, OccupiedFinite, FS_RemoveElement DEF IInv, TypeOK
<1>8. Cardinality(Occupied) \in Nat /\ Cardinality(Occupied') \in Nat
  BY <1>4, OccupiedFinite, FS_RemoveElement, FS_CardinalityType DEF IInv, TypeOK
<1>9. TypeOK'
  BY <1>4, <1>7, <1>8, ConstantsAssumption DEF IInv, TypeOK, CountExact, Vacate, Returns
<1>10. Placement'
  BY <1>2, <1>6 DEF IInv, Placement
<1>11. CountExact'
  BY <1>7 DEF IInv, CountExact, Vacate
<1>12. OwnershipExact'
  <2>1. owned' = owned \ {At(<<b, s>>).value}
    BY <1>1 DEF Vacate, Bucket, At
  <2> QED
    BY <2>1, <1>4, <1>5, <1>6 DEF IInv, OwnershipExact
<1>13. UniqueKeys'
  BY <1>6 DEF IInv, UniqueKeys, Holds, Shadowed
<1> QED
  BY <1>9, <1>10, <1>11, <1>12, <1>13 DEF IInv

-----------------------------------------------------------------------------
(***************************************************************************)
(* The rehash.                                                             *)
(***************************************************************************)

\* A number below n * d has a quotient by d below n, and the number of quotient q and
\* rest r is below n * d when q is below n.
LEMMA ProductBounds ==
  ASSUME NEW d \in Nat \ {0}, NEW n \in Nat, NEW q \in Nat, NEW r \in 0 .. d - 1
  PROVE  /\ (d * q) + r < n * d <=> q < n
         /\ ((d * q) + r) \div d = q /\ ((d * q) + r) % d = r
<1>1. ASSUME q >= n PROVE (d * q) + r >= n * d
  <2>1. PICK k \in Nat : q = n + k
    BY <1>1
  <2>2. d * q = (n * d) + (d * k) /\ d * k >= 0
    BY <2>1, Z3T(30)
  <2> QED
    BY <2>2
<1>2. ASSUME q < n PROVE (d * q) + r < n * d
  <2>1. PICK k \in Nat : n = (q + 1) + k
    <3>1. n - (q + 1) \in Nat /\ n = (q + 1) + (n - (q + 1))
      BY <1>2
    <3> QED
      BY <3>1
  <2>2. n * d = ((d * q) + d) + (d * k) /\ d * k >= 0
    BY <2>1, Z3T(30)
  <2> QED
    BY <2>2
<1>3. ((d * q) + r) \div d = q /\ ((d * q) + r) % d = r
  BY Z3T(30)
<1> QED
  BY <1>1, <1>2, <1>3

\* The loop visits every slot of the old array, each once.
LEMMA VisitedOnce ==
  ASSUME TypeOK
  PROVE  /\ SlotCount \in Nat
         /\ \A i \in 0 .. SlotCount - 1 : Visited(i) \in Positions
         /\ \A i, j \in 0 .. SlotCount - 1 : Visited(i) = Visited(j) => i = j
         /\ \A p \in Positions : \E i \in 0 .. SlotCount - 1 : p = Visited(i)
<1>1. buckets_count \in Nat /\ BUCKET_CAPACITY \in Nat \ {0}
  BY ConstantsAssumption DEF TypeOK, Word
<1>2. SlotCount \in Nat
  BY <1>1 DEF SlotCount
<1>3. ASSUME NEW i \in 0 .. SlotCount - 1
      PROVE  /\ i = (BUCKET_CAPACITY * Visited(i)[1]) + Visited(i)[2]
             /\ Visited(i) \in Positions
  <2>1. i \in Nat /\ i < buckets_count * BUCKET_CAPACITY
    BY <1>2 DEF SlotCount
  <2>2. PICK q \in Nat, r \in 0 .. BUCKET_CAPACITY - 1 :
          /\ q = i \div BUCKET_CAPACITY /\ r = i % BUCKET_CAPACITY
          /\ i = (BUCKET_CAPACITY * q) + r
    BY <1>1, <2>1, Division
  <2>3. q < buckets_count
    BY <1>1, <2>1, <2>2, ProductBounds
  <2>4. Visited(i) = <<q, r>>
    BY <2>2 DEF Visited
  <2>5. q \in 0 .. buckets_count - 1 /\ r \in Slots
    BY <1>1, <2>3 DEF Slots
  <2> QED
    BY <2>2, <2>4, <2>5 DEF Positions
<1>4. ASSUME NEW q \in 0 .. buckets_count - 1, NEW r \in Slots
      PROVE  \E i \in 0 .. SlotCount - 1 : <<q, r>> = Visited(i)
  <2>1. PICK i \in Nat : i = (BUCKET_CAPACITY * q) + r
    BY <1>1 DEF Slots
  <2>2. i < SlotCount /\ i \div BUCKET_CAPACITY = q /\ i % BUCKET_CAPACITY = r
    BY <1>1, <2>1, ProductBounds DEF Slots, SlotCount
  <2> QED
    BY <1>2, <2>2 DEF Visited
<1> QED
  BY <1>2, <1>3, <1>4 DEF Positions

\* What the loop has when it has run a while: a new array, and whether it goes on.
Runs(capacity) ==
  [new_buckets : [0 .. capacity - 1 -> [Slots -> Slot]], fits : BOOLEAN]

\* The slots in use of a new array.
InUse(run, capacity) ==
  {p \in (0 .. capacity - 1) \X Slots : run.new_buckets[p[1]][p[2]].in_use}

\* The entries of the slots visited in i rounds.
Walked(i) == {p \in Occupied : \E j \in 0 .. i - 1 : p = Visited(j)}

\* The new array has each of these entries in one slot, of the bucket its hash selects,
\* and nothing else.
Carries(run, entries, capacity) ==
  \E f \in Bijection(entries, InUse(run, capacity)) :
    \A p \in entries : /\ run.new_buckets[f[p][1]][f[p][2]] = At(p)
                       /\ f[p][1] = At(p).hash % capacity

\* An entry is a slot in use, and its hash has a bucket in any array with buckets.
LEMMA EntryIs ==
  ASSUME TypeOK, NEW p \in Occupied, NEW capacity \in Nat \ {0}
  PROVE  /\ At(p) \in Slot /\ At(p).in_use
         /\ At(p).hash % capacity \in 0 .. capacity - 1
<1>1. At(p) \in Slot /\ At(p).in_use
  BY DEF TypeOK, Occupied, Positions, At
<1>2. At(p).hash \in Nat
  BY <1>1, ConstantsAssumption DEF Slot, Word
<1> QED
  BY <1>1, <1>2

\* A round that moves an entry writes one slot that was free.
LEMMA MovedIs ==
  ASSUME TypeOK, NEW capacity \in Nat \ {0}, NEW run \in Runs(capacity), run.fits,
         NEW p \in Occupied
  PROVE  \/ /\ \A s \in Slots : run.new_buckets[At(p).hash % capacity][s].in_use
            /\ Moved(run, At(p), capacity) = [run EXCEPT !.fits = FALSE]
         \/ \E s \in Slots :
              /\ ~run.new_buckets[At(p).hash % capacity][s].in_use
              /\ Moved(run, At(p), capacity)
                   = [run EXCEPT !.new_buckets[At(p).hash % capacity][s] = At(p)]
<1> DEFINE b    == At(p).hash % capacity
           free == {k \in Slots : ~run.new_buckets[b][k].in_use}
<1>1. At(p).in_use
  BY EntryIs
<1>2. free \subseteq Nat
  BY SlotsFinite
<1>3. free # {} => Min(free) \in free
  BY <1>2, MinIsLeast
<1>4. CASE free = {}
  BY <1>1, <1>4 DEF Moved
<1>5. CASE free # {}
  <2>1. Moved(run, At(p), capacity) = [run EXCEPT !.new_buckets[b][Min(free)] = At(p)]
    BY <1>1, <1>5 DEF Moved
  <2> QED
    BY <1>3, <1>5, <2>1
<1> QED
  BY <1>4, <1>5

\* Every round makes a new array.
LEMMA MovedType ==
  ASSUME TypeOK, NEW capacity \in Nat, Occupied # {} => capacity # 0,
         NEW run \in Runs(capacity), NEW p \in Positions
  PROVE  Moved(run, At(p), capacity) \in Runs(capacity)
<1>1. CASE ~run.fits \/ ~At(p).in_use
  BY <1>1 DEF Moved
<1>2. CASE run.fits /\ At(p).in_use
  <2>1. p \in Occupied /\ capacity \in Nat \ {0}
    BY <1>2 DEF Occupied
  <2> DEFINE b == At(p).hash % capacity
  <2>2. b \in 0 .. capacity - 1 /\ At(p) \in Slot
    BY <2>1, EntryIs
  <2>3. \/ Moved(run, At(p), capacity) = [run EXCEPT !.fits = FALSE]
        \/ \E s \in Slots :
             Moved(run, At(p), capacity) = [run EXCEPT !.new_buckets[b][s] = At(p)]
    BY <1>2, <2>1, MovedIs
  <2> HIDE DEF b
  <2>4. [run EXCEPT !.fits = FALSE] \in Runs(capacity)
    BY DEF Runs
  <2>5. ASSUME NEW s \in Slots
        PROVE  [run EXCEPT !.new_buckets[b][s] = At(p)] \in Runs(capacity)
    BY <2>2 DEF Runs
  <2> QED
    BY <2>3, <2>4, <2>5
<1> QED
  BY <1>1, <1>2

\* A round whose bucket has a free slot lets the loop go on.
LEMMA MovedFits ==
  ASSUME TypeOK, NEW capacity \in Nat \ {0}, NEW run \in Runs(capacity), run.fits,
         NEW p \in Occupied,
         \E s \in Slots : ~run.new_buckets[At(p).hash % capacity][s].in_use
  PROVE  Moved(run, At(p), capacity).fits
<1> DEFINE b == At(p).hash % capacity
<1>1. \E s \in Slots : ~run.new_buckets[b][s].in_use
  OBVIOUS
<1>2. \/ \A s \in Slots : run.new_buckets[b][s].in_use
      \/ \E s \in Slots :
           Moved(run, At(p), capacity) = [run EXCEPT !.new_buckets[b][s] = At(p)]
  BY MovedIs
<1> HIDE DEF b
<1> QED
  BY <1>1, <1>2 DEF Runs

\* A round that finds a free slot adds its entry to what the new array carries.
LEMMA MovedCarries ==
  ASSUME TypeOK, NEW capacity \in Nat \ {0}, NEW run \in Runs(capacity), run.fits,
         NEW entries \in SUBSET Occupied, Carries(run, entries, capacity),
         NEW p \in Occupied \ entries,
         Moved(run, At(p), capacity).fits
  PROVE  Carries(Moved(run, At(p), capacity), entries \cup {p}, capacity)
<1> DEFINE b    == At(p).hash % capacity
           next == Moved(run, At(p), capacity)
<1>1. b \in 0 .. capacity - 1 /\ At(p) \in Slot /\ At(p).in_use
  BY EntryIs
<1>2. PICK s \in Slots : /\ ~run.new_buckets[b][s].in_use
                         /\ next = [run EXCEPT !.new_buckets[b][s] = At(p)]
  <2>1. [run EXCEPT !.fits = FALSE].fits = FALSE
    BY DEF Runs
  <2> QED
    BY <2>1, MovedIs
<1>3. s \in Slots /\ ~run.new_buckets[b][s].in_use
  BY <1>2
<1> HIDE DEF b, next
<1>4. \A x \in 0 .. capacity - 1, y \in Slots :
        next.new_buckets[x][y] = IF x = b /\ y = s THEN At(p) ELSE run.new_buckets[x][y]
  BY <1>1, <1>2, <1>3 DEF Runs
<1>5. InUse(next, capacity) = InUse(run, capacity) \cup {<<b, s>>}
  BY <1>1, <1>3, <1>4 DEF InUse
<1>6. <<b, s>> \notin InUse(run, capacity)
  BY <1>3 DEF InUse
<1>7. PICK f \in Bijection(entries, InUse(run, capacity)) :
        \A q \in entries : /\ run.new_buckets[f[q][1]][f[q][2]] = At(q)
                           /\ f[q][1] = At(q).hash % capacity
  BY DEF Carries
<1>8. /\ \A q \in entries : f[q] \in InUse(run, capacity)
      /\ \A q, r \in entries : f[q] = f[r] => q = r
      /\ \A x \in InUse(run, capacity) : \E q \in entries : f[q] = x
  BY DEF Bijection, Injection, Surjection, IsInjective
<1> DEFINE g == [q \in entries \cup {p} |-> IF q = p THEN <<b, s>> ELSE f[q]]
<1>9. g[p] = <<b, s>> /\ \A q \in entries : g[q] = f[q]
  OBVIOUS
<1>10. g \in Bijection(entries \cup {p}, InUse(next, capacity))
  <2>1. g \in [entries \cup {p} -> InUse(next, capacity)]
    BY <1>5, <1>8
  <2> HIDE DEF g
  <2>2. \A q, r \in entries \cup {p} : g[q] = g[r] => q = r
    BY <1>6, <1>8, <1>9
  <2>3. \A x \in InUse(next, capacity) : \E q \in entries \cup {p} : g[q] = x
    BY <1>5, <1>8, <1>9
  <2> QED
    BY <2>1, <2>2, <2>3 DEF Bijection, Injection, Surjection, IsInjective
<1> HIDE DEF g
<1>11. ASSUME NEW q \in entries \cup {p}
       PROVE  /\ next.new_buckets[g[q][1]][g[q][2]] = At(q)
              /\ g[q][1] = At(q).hash % capacity
  <2>1. CASE q = p
    BY <1>1, <1>3, <1>4, <1>9, <2>1 DEF b
  <2>2. CASE q \in entries
    <3>1. /\ f[q] \in (0 .. capacity - 1) \X Slots /\ f[q] # <<b, s>>
      BY <1>6, <1>8, <2>2 DEF InUse
    <3> QED
      BY <1>4, <1>7, <1>9, <2>2, <3>1
  <2> QED
    BY <2>1, <2>2
<1> QED
  BY <1>10, <1>11 DEF Carries, next

\* The loop as a sequence of runs: it starts with an empty array, each round moves one
\* slot, and as long as it goes on the new array carries what was visited.
LEMMA RehashRuns ==
  ASSUME TypeOK, NEW capacity \in Word, Occupied # {} => capacity # 0
  PROVE  \E after \in [0 .. SlotCount -> Runs(capacity)] :
           /\ Rehash(capacity) = after[SlotCount]
           /\ after[0].fits
           /\ \A i \in 0 .. SlotCount - 1 :
                after[i + 1] = Moved(after[i], At(Visited(i)), capacity)
           /\ \A i \in 0 .. SlotCount :
                after[i].fits => Carries(after[i], Walked(i), capacity)
<1> DEFINE V          == Runs(capacity)
           none       == [new_buckets |-> EmptyBuckets(capacity), fits |-> TRUE]
           next(m, i) == Moved(m, At(Visited(i - 1)), capacity)
           step       == [p \in V \X Nat |-> IF p[2] \in 1 .. SlotCount
                                             THEN next(p[1], p[2]) ELSE p[1]]
<1>1. capacity \in Nat /\ SlotCount \in Nat
  BY VisitedOnce, ConstantsAssumption DEF Word
<1>2. none \in V
  BY ConstantsAssumption DEF EmptyBuckets, EmptySlot, Slot, Word, Runs
<1>3. ASSUME NEW i \in 1 .. SlotCount PROVE i - 1 \in 0 .. SlotCount - 1
  BY <1>1
<1>4. \A m \in V, i \in 1 .. SlotCount : next(m, i) \in V
  BY <1>1, <1>3, MovedType, VisitedOnce
<1>5. step \in [V \X Nat -> V]
  <2> HIDE DEF next, V
  <2> QED
    BY <1>4
<1>6. PICK f \in [0 .. SlotCount -> V] : Follows(f, SlotCount, none, step)
  <2> HIDE DEF step, none, V
  <2> QED
    BY <1>1, <1>2, <1>5, Recursion
<1>7. ASSUME NEW i \in 0 .. SlotCount PROVE f[i] = IF i = 0 THEN none ELSE next(f[i - 1], i)
  <2>1. f[i] = IF i = 0 THEN none ELSE step[<<f[i - 1], i>>]
    BY <1>6 DEF Follows
  <2>2. CASE i = 0
    BY <2>1, <2>2
  <2>3. CASE i # 0
    <3>1. i \in 1 .. SlotCount /\ <<f[i - 1], i>> \in V \X Nat
      <4> HIDE DEF V
      <4> QED
        BY <1>1, <2>3
    <3>2. step[<<f[i - 1], i>>] = next(f[i - 1], i)
      <4> HIDE DEF next, V
      <4> QED
        BY <3>1
    <3> QED
      BY <2>1, <2>3, <3>2
  <2> QED
    BY <2>2, <2>3
<1> DEFINE Loops(g) == g = [i \in 0 .. SlotCount |-> IF i = 0 THEN none ELSE next(g[i - 1], i)]
           after    == CHOOSE g : Loops(g)
<1>8. Loops(f)
  <2> HIDE DEF next, none, V
  <2> QED
    BY <1>7
<1>9. Loops(after)
  <2> HIDE DEF Loops
  <2> QED
    BY <1>8, Zenon
<1>10. Rehash(capacity) = after[SlotCount]
  BY Zenon DEF Rehash
<1> HIDE DEF after, next, none
<1>11. ASSUME NEW i \in 0 .. SlotCount
       PROVE  after[i] = IF i = 0 THEN none ELSE next(after[i - 1], i)
  BY <1>9, Zenon
<1>12. after[0] = none
  BY <1>1, <1>11
<1>13. ASSUME NEW i \in 0 .. SlotCount - 1
       PROVE  after[i + 1] = Moved(after[i], At(Visited(i)), capacity)
  <2>1. i + 1 \in 0 .. SlotCount /\ i + 1 # 0 /\ (i + 1) - 1 = i
    BY <1>1
  <2>2. after[i + 1] = next(after[i], i + 1)
    BY <1>11, <2>1
  <2> QED
    BY <2>1, <2>2 DEF next
<1>14. after \in [0 .. SlotCount -> V]
  <2> DEFINE S == {i \in 0 .. SlotCount : after[i] \in V}
  <2> HIDE DEF V
  <2>1. 0 \in S
    BY <1>1, <1>2, <1>12
  <2>2. ASSUME NEW i \in 0 .. SlotCount - 1, i \in S PROVE i + 1 \in S
    <3>1. i + 1 \in 1 .. SlotCount /\ i + 1 \in 0 .. SlotCount
      BY <1>1
    <3>2. after[i + 1] = next(after[i], i + 1)
      <4>1. i + 1 # 0 /\ (i + 1) - 1 = i
        OBVIOUS
      <4> QED
        BY <1>11, <3>1, <4>1
    <3> QED
      BY <1>4, <2>2, <3>1, <3>2
  <2> HIDE DEF S
  <2>3. \A i \in 0 .. SlotCount : i \in S
    BY <1>1, <2>1, <2>2, Induction
  <2> QED
    BY <1>9, <2>3 DEF S
<1>15. \A i \in 0 .. SlotCount : after[i].fits => Carries(after[i], Walked(i), capacity)
  <2> DEFINE S == {i \in 0 .. SlotCount :
                     after[i].fits => Carries(after[i], Walked(i), capacity)}
  <2>1. 0 \in S
    <3>1. Walked(0) = {} /\ InUse(none, capacity) = {}
      BY DEF Walked, InUse, none, EmptyBuckets, EmptySlot
    <3>2. [p \in {} |-> p] \in Bijection({}, {})
      BY DEF Bijection, Injection, Surjection, IsInjective
    <3>3. \E b \in Bijection({}, {}) : TRUE
      BY <3>2
    <3>4. Carries(none, {}, capacity)
      BY <3>1, <3>3 DEF Carries
    <3>5. Carries(after[0], Walked(0), capacity)
      BY <1>12, <3>1, <3>4
    <3>6. 0 \in 0 .. SlotCount
      BY <1>1
    <3> QED
      BY <3>5, <3>6
  <2>2. ASSUME NEW i \in 0 .. SlotCount - 1, i \in S, after[i + 1].fits
        PROVE  Carries(after[i + 1], Walked(i + 1), capacity)
    <3>1. i \in 0 .. SlotCount /\ after[i] \in Runs(capacity) /\ Visited(i) \in Positions
      BY <1>1, <1>14, VisitedOnce
    <3>2. after[i + 1] = Moved(after[i], At(Visited(i)), capacity)
      BY <1>13
    <3>3. after[i].fits /\ Carries(after[i], Walked(i), capacity)
      BY <2>2, <3>1, <3>2 DEF Moved
    <3>4. Walked(i) \in SUBSET Occupied /\ Visited(i) \notin Walked(i)
      BY <1>1, VisitedOnce DEF Walked
    <3>5. CASE Visited(i) \notin Occupied
      <4>1. after[i + 1] = after[i]
        BY <3>1, <3>2, <3>5 DEF Moved, Occupied
      <4>2. Walked(i + 1) = Walked(i)
        BY <1>1, <3>5 DEF Walked
      <4> QED
        BY <3>3, <4>1, <4>2
    <3>6. CASE Visited(i) \in Occupied
      <4>1. Walked(i + 1) = Walked(i) \cup {Visited(i)}
        BY <1>1, <3>6 DEF Walked
      <4>2. capacity \in Nat \ {0}
        BY <1>1, <3>6
      <4> QED
        BY <2>2, <3>1, <3>2, <3>3, <3>4, <3>6, <4>1, <4>2, MovedCarries
    <3> QED
      BY <3>5, <3>6
  <2>3. ASSUME NEW i \in 0 .. SlotCount - 1, i \in S PROVE i + 1 \in S
    BY <1>1, <2>2, <2>3
  <2> HIDE DEF S
  <2>4. \A i \in 0 .. SlotCount : i \in S
    BY <1>1, <2>1, <2>3, Induction
  <2> QED
    BY <2>4 DEF S
<1>16. after[0].fits
  BY <1>12 DEF none
<1> QED
  BY <1>10, <1>13, <1>14, <1>15, <1>16

\* A rehash that fits is a bijection between the occupied slots of the two
\* arrays, and takes each entry to the bucket its hash selects.
LEMMA RehashMoves ==
  ASSUME TypeOK, NEW capacity \in Word, Occupied # {} => capacity # 0,
         Rehash(capacity).fits,
         buckets' = Rehash(capacity).new_buckets, buckets_count' = capacity
  PROVE  /\ buckets' \in [0 .. buckets_count' - 1 -> [Slots -> Slot]]
         /\ \E f \in Bijection(Occupied, Occupied') :
              \A p \in Occupied : /\ At(f[p])' = At(p)
                                  /\ f[p][1] = At(p).hash % capacity
<1> DEFINE run == Rehash(capacity)
<1>1. run \in Runs(capacity) /\ Carries(run, Walked(SlotCount), capacity)
  <2>1. SlotCount \in 0 .. SlotCount
    BY VisitedOnce
  <2> QED
    BY <2>1, RehashRuns
<1>2. Walked(SlotCount) = Occupied
  BY VisitedOnce DEF Walked, Occupied
<1>3. buckets' = run.new_buckets
  OBVIOUS
<1> HIDE DEF run
<1>4. Occupied' = InUse(run, capacity)
  BY <1>3 DEF Occupied, Positions, At, InUse
<1>5. buckets' \in [0 .. buckets_count' - 1 -> [Slots -> Slot]]
  BY <1>1, <1>3 DEF Runs
<1>6. \A q : At(q)' = run.new_buckets[q[1]][q[2]]
  BY <1>3 DEF At
<1>7. PICK f \in Bijection(Occupied, InUse(run, capacity)) :
        \A p \in Occupied : /\ run.new_buckets[f[p][1]][f[p][2]] = At(p)
                            /\ f[p][1] = At(p).hash % capacity
  BY <1>1, <1>2 DEF Carries
<1> QED
  BY <1>4, <1>5, <1>6, <1>7

\* The size a request is rounded to is a power of two, or 0.
LEMMA RoundedIsSize ==
  ASSUME NEW n \in Word
  PROVE  Rounded(n) \in Word /\ (Rounded(n) = 0 \/ IsPowerOf2(Rounded(n)))
BY WordAssumption DEF Rounded

\* The successful end of table_resize keeps the invariant.
LEMMA ResizePreserves ==
  ASSUME IInv, NEW capacity \in Word, capacity = 0 \/ IsPowerOf2(capacity),
         capacity >= elem_count, Rehash(capacity).fits,
         Install(Rehash(capacity).new_buckets, capacity)
  PROVE  /\ IInv'
         /\ Entries' = Entries
         /\ Cardinality(Occupied') = Cardinality(Occupied)
<1>1. IsFiniteSet(Occupied)
  BY OccupiedFinite DEF IInv, TypeOK
<1>2. Occupied # {} => capacity # 0
  <2>1. Occupied # {} => Cardinality(Occupied) # 0
    BY <1>1, FS_EmptySet
  <2>2. Cardinality(Occupied) \in Nat /\ Cardinality(Occupied) <= capacity
    BY <1>1, FS_CardinalityType DEF IInv, CountExact
  <2> QED
    BY <2>1, <2>2
<1>3. /\ buckets' \in [0 .. buckets_count' - 1 -> [Slots -> Slot]]
      /\ \E f \in Bijection(Occupied, Occupied') :
           \A p \in Occupied : /\ At(f[p])' = At(p)
                               /\ f[p][1] = At(p).hash % capacity
  BY <1>2, RehashMoves DEF IInv, Install
<1>4. PICK f \in Bijection(Occupied, Occupied') :
           \A p \in Occupied : /\ At(f[p])' = At(p)
                               /\ f[p][1] = At(p).hash % capacity
  BY <1>3
<1>5. /\ \A p \in Occupied : f[p] \in Occupied'
      /\ \A r \in Occupied' : \E p \in Occupied : f[p] = r
  BY <1>4 DEF Bijection, Injection, Surjection
<1>6. TypeOK'
  BY <1>3, ConstantsAssumption DEF IInv, TypeOK, Install, Returns
<1>7. Placement'
  <2> SUFFICES ASSUME NEW p \in Occupied
               PROVE  BitAnd(At(p).hash, Decrement(capacity)) = f[p][1]
    BY <1>4, <1>5 DEF Placement, Install
  <2>1. capacity \in Word /\ IsPowerOf2(capacity)
    BY <1>2
  <2>2. At(p).hash \in Word
    BY DEF IInv, TypeOK, Occupied, Positions, At, Slot
  <2> QED
    BY <1>4, <2>1, <2>2, WordAssumption
<1>8. Cardinality(Occupied') = Cardinality(Occupied)
  BY <1>1, <1>4, FS_Bijection DEF ExistsBijection
<1>9. CountExact'
  BY <1>8 DEF IInv, CountExact, Install
<1>10. OwnershipExact'
  BY <1>4, <1>5 DEF IInv, OwnershipExact, Install
<1>11. UniqueKeys'
  BY <1>4, <1>5 DEF IInv, UniqueKeys, Holds, Shadowed
<1>12. Entries' = Entries
  BY <1>4, <1>5 DEF Entries
<1> QED
  BY <1>6, <1>7, <1>8, <1>9, <1>10, <1>11, <1>12 DEF IInv

\* A table of empty slots.
LEMMA EmptyTable ==
  buckets_count \in Word /\ buckets = EmptyBuckets(buckets_count)
    => /\ buckets \in [0 .. buckets_count - 1 -> [Slots -> Slot]]
       /\ Occupied = {}
<1> SUFFICES ASSUME buckets_count \in Word, buckets = EmptyBuckets(buckets_count)
             PROVE  /\ buckets \in [0 .. buckets_count - 1 -> [Slots -> Slot]]
                    /\ Occupied = {}
  OBVIOUS
<1>1. EmptySlot \in Slot /\ ~EmptySlot.in_use
  BY ConstantsAssumption DEF EmptySlot, Slot, Word
<1>2. buckets \in [0 .. buckets_count - 1 -> [Slots -> Slot]]
  BY <1>1 DEF EmptyBuckets
<1>3. \A p \in Positions : ~At(p).in_use
  BY <1>1 DEF EmptyBuckets, At, Positions
<1> QED
  BY <1>2, <1>3 DEF Occupied

\* A table without entries has the conjuncts of IInv that speak of entries.
LEMMA EmptyTableInvariant ==
  Occupied = {} /\ elem_count = 0 /\ owned = {}
    => Placement /\ CountExact /\ OwnershipExact /\ UniqueKeys
BY FS_EmptySet DEF Placement, CountExact, OwnershipExact, UniqueKeys

\* IInv holds of a table that was just created.
LEMMA InitIInv == Init => IInv
<1> SUFFICES ASSUME Init PROVE IInv
  OBVIOUS
<1>1. PICK n \in CreateSizes : buckets_count = Rounded(n) /\ CallocGrants(buckets_count)
  BY DEF Init
<1>2. buckets_count \in Word /\ (buckets_count = 0 \/ IsPowerOf2(buckets_count))
  BY <1>1, RoundedIsSize, ConstantsAssumption
<1>3. /\ buckets \in [0 .. buckets_count - 1 -> [Slots -> Slot]]
      /\ Occupied = {}
  BY <1>2, EmptyTable DEF Init
<1>4. TypeOK
  BY <1>2, <1>3 DEF Init, TypeOK
<1> QED
  BY <1>3, <1>4, EmptyTableInvariant DEF Init, IInv

\* table_clear keeps the invariant.
LEMMA ClearPreserves ==
  ASSUME IInv, table_clear
  PROVE  IInv'
<1>1. (buckets_count \in Word /\ buckets = EmptyBuckets(buckets_count))'
  BY DEF IInv, TypeOK, table_clear, EmptyBuckets
<1>2. (/\ buckets \in [0 .. buckets_count - 1 -> [Slots -> Slot]]
       /\ Occupied = {})'
  BY <1>1, EmptyTable, PTL
<1>3. elem_count' = 0 /\ owned' = {}
  BY DEF table_clear, IInv, OwnershipExact
<1>4. TypeOK'
  BY <1>2, <1>3, ConstantsAssumption DEF IInv, TypeOK, table_clear, Returns
<1>5. (Occupied = {} /\ elem_count = 0 /\ owned = {})'
  BY <1>2, <1>3
<1>6. (Placement /\ CountExact /\ OwnershipExact /\ UniqueKeys)'
  BY <1>5, EmptyTableInvariant, PTL
<1> QED
  BY <1>4, <1>6 DEF IInv

-----------------------------------------------------------------------------
(***************************************************************************)
(* Every step, and the theorems.                                           *)
(***************************************************************************)

\* A call that changes nothing but its answer.
LEMMA AnswerPreserves ==
  ASSUME IInv, UNCHANGED <<table, status>>,
         ret'.key \in Keys \cup {Null}, ret'.rc \in Int, ret'.of \in Nat,
         ret'.val \in Values \cup {Null}
  PROVE  IInv'
<1>1. TypeOK'
  BY DEF IInv, TypeOK, table
<1>2. Occupied' = Occupied /\ \A p \in Occupied : At(p)' = At(p)
  BY DEF table, Occupied, Positions, At
<1>3. Placement' /\ CountExact'
  BY <1>2 DEF IInv, Placement, CountExact, table
<1>4. OwnershipExact'
  BY <1>2 DEF IInv, OwnershipExact, table
<1>5. UniqueKeys'
  BY <1>2 DEF IInv, UniqueKeys, Holds, Shadowed
<1> QED
  BY <1>1, <1>3, <1>4, <1>5 DEF IInv

\* The same of a call that returns a number only,
LEMMA ReturnsOnlyPreserves ==
  ASSUME IInv, NEW op, NEW k \in Keys \cup {Null}, NEW rc \in Int,
         ReturnsOnly(op, k, rc)
  PROVE  IInv'
BY AnswerPreserves, ConstantsAssumption DEF ReturnsOnly, Returns

\* of a call that returns a value,
LEMMA ReturnsValuePreserves ==
  ASSUME IInv, NEW k \in Keys, NEW v \in Values \cup {Null}, ReturnsValue(k, v)
  PROVE  IInv'
BY AnswerPreserves DEF ReturnsValue

\* and of a counter.
LEMMA ReturnsRatioPreserves ==
  ASSUME IInv, NEW op, NEW rc \in Int, NEW of \in Nat, ReturnsRatio(op, rc, of)
  PROVE  IInv'
BY AnswerPreserves, ConstantsAssumption DEF ReturnsRatio

\* The calls that store keep the invariant.
LEMMA StorePreserves ==
  ASSUME IInv, NEW k \in Keys, NEW v \in Values \ owned,
         table_set(k, v) \/ table_add(k, v) \/ table_replace(k, v)
  PROVE  IInv'
<1>1. CASE table_set(k, v)
  BY <1>1, ReturnsOnlyPreserves, OverwritePreserves, InsertPreserves DEF table_set
<1>2. CASE table_add(k, v)
  BY <1>2, ReturnsOnlyPreserves, InsertPreserves DEF table_add
<1>3. CASE table_replace(k, v)
  BY <1>3, ReturnsOnlyPreserves, OverwritePreserves DEF table_replace
<1> QED
  BY <1>1, <1>2, <1>3

\* So do the calls that remove or read a key,
LEMMA KeyCallPreserves ==
  ASSUME IInv, NEW k \in Keys, table_delete(k) \/ table_get(k) \/ table_exist(k)
  PROVE  IInv'
<1>1. CASE table_delete(k)
  BY <1>1, ReturnsOnlyPreserves, VacatePreserves DEF table_delete
<1>2. CASE table_get(k)
  <2>1. ASSUME LockGranted(k), SlotsOf(k) # {}
        PROVE  Bucket(k)[Min(SlotsOf(k))].value \in Values \cup {Null}
    BY <2>1, FoundSlot DEF IInv, Slot
  <2> QED
    BY <1>2, <2>1, ReturnsValuePreserves DEF table_get
<1>3. CASE table_exist(k)
  BY <1>3, ReturnsOnlyPreserves DEF table_exist
<1> QED
  BY <1>1, <1>2, <1>3

\* table_resize in each of its outcomes,
LEMMA ResizeCallPreserves ==
  ASSUME IInv, NEW n \in ResizeSizes, table_resize(n)
  PROVE  IInv'
<1>1. /\ Rounded(n) \in Word
      /\ Rounded(n) = 0 \/ IsPowerOf2(Rounded(n))
  BY RoundedIsSize, ConstantsAssumption
<1>2. ASSUME NEW rc \in {0, -1}, ReturnsOnly("resize", Null, rc)
      PROVE  IInv'
  BY <1>2, ReturnsOnlyPreserves
<1>3. CASE FatalRehash(Rehash(Rounded(n)).new_buckets)
  BY <1>2, <1>3 DEF FatalRehash
<1>4. CASE /\ Rounded(n) >= elem_count /\ Rehash(Rounded(n)).fits
           /\ Install(Rehash(Rounded(n)).new_buckets, Rounded(n))
  BY <1>1, <1>4, ResizePreserves
<1> QED
  BY <1>2, <1>3, <1>4 DEF table_resize

\* The buckets that table_occupied_bucket_counter counts are finitely many.
LEMMA BucketsAreCounted ==
  ASSUME TypeOK, NEW skipped
  PROVE  Cardinality({p[1] : p \in Occupied} \ skipped) \in Nat
<1>1. IsFiniteSet(0 .. buckets_count - 1)
  BY FS_Interval, ConstantsAssumption DEF TypeOK, Word
<1>2. {p[1] : p \in Occupied} \ skipped \in SUBSET (0 .. buckets_count - 1)
  BY DEF Occupied, Positions
<1> QED
  BY <1>1, <1>2, FS_Subset, FS_CardinalityType

\* and the counters, whose numbers are typed.
LEMMA CountersPreserve ==
  ASSUME IInv,
         \/ table_total_elem \/ table_capacity \/ table_load_factor
         \/ table_occupied_bucket_counter \/ table_memory_usage
  PROVE  IInv'
<1>1. /\ elem_count \in Nat /\ buckets_count \in Nat /\ SIZE_MAX \in Nat
      /\ BUCKET_CAPACITY \in Nat /\ IsFiniteSet(Occupied)
  BY ConstantsAssumption, OccupiedFinite DEF IInv, TypeOK, Word
<1>2. buckets_count * BUCKET_CAPACITY \in Nat
  BY <1>1
<1>3. CASE table_total_elem
  BY <1>1, <1>3, ReturnsRatioPreserves DEF table_total_elem
<1>4. CASE table_capacity
  BY <1>2, <1>4, ReturnsRatioPreserves DEF table_capacity
<1>5. CASE table_load_factor
  BY <1>1, <1>2, <1>5, ReturnsRatioPreserves DEF table_load_factor
<1>6. CASE table_occupied_bucket_counter
  <2>1. \A skipped : Cardinality({p[1] : p \in Occupied} \ skipped) \in Nat
    BY BucketsAreCounted DEF IInv
  <2>2. CASE buckets_count = 0
    BY <1>6, <2>2, ReturnsRatioPreserves DEF table_occupied_bucket_counter
  <2>3. CASE buckets_count # 0
    <3>1. PICK skipped \in SUBSET WildLocks :
            ReturnsRatio("occupied_bucket",
                         Cardinality({p[1] : p \in Occupied} \ skipped), buckets_count)
      BY <1>6, <2>3 DEF table_occupied_bucket_counter
    <3>2. PICK rc \in Nat : rc = Cardinality({p[1] : p \in Occupied} \ skipped)
      BY <2>1
    <3>3. ReturnsRatio("occupied_bucket", rc, buckets_count)
      BY <3>1, <3>2
    <3> QED
      BY <1>1, <3>3, ReturnsRatioPreserves
  <2> QED
    BY <2>2, <2>3
<1>7. CASE table_memory_usage
  BY <1>1, <1>7, FS_CardinalityType, ReturnsRatioPreserves DEF table_memory_usage
<1> QED
  BY <1>3, <1>4, <1>5, <1>6, <1>7

\* WildAccess and stuttering leave the table and the answer alone.
LEMMA QuietPreserves ==
  ASSUME IInv, UNCHANGED <<table, ret>>, status' \in {"up", "down"}
  PROVE  IInv'
<1>1. TypeOK'
  BY DEF IInv, TypeOK, table
<1>2. Occupied' = Occupied /\ \A p \in Occupied : At(p)' = At(p)
  BY DEF table, Occupied, Positions, At
<1>3. Placement' /\ CountExact'
  BY <1>2 DEF IInv, Placement, CountExact, table
<1>4. OwnershipExact'
  BY <1>2 DEF IInv, OwnershipExact, table
<1>5. UniqueKeys'
  BY <1>2 DEF IInv, UniqueKeys, Holds, Shadowed
<1> QED
  BY <1>1, <1>3, <1>4, <1>5 DEF IInv

\* IInv is inductive.
LEMMA NextIInv == IInv /\ [Next]_vars => IInv'
<1> SUFFICES ASSUME IInv, [Next]_vars PROVE IInv'
  OBVIOUS
<1>1. ASSUME NEW k \in Keys, NEW v \in Values \ owned,
             table_set(k, v) \/ table_add(k, v) \/ table_replace(k, v)
      PROVE  IInv'
  BY <1>1, StorePreserves
<1>2. ASSUME NEW k \in Keys, table_delete(k) \/ table_get(k) \/ table_exist(k)
      PROVE  IInv'
  BY <1>2, KeyCallPreserves
<1>3. CASE table_clear
  BY <1>3, ClearPreserves
<1>4. ASSUME NEW n \in ResizeSizes, table_resize(n)
      PROVE  IInv'
  BY <1>4, ResizeCallPreserves
<1>5. CASE \/ table_total_elem \/ table_capacity \/ table_load_factor
           \/ table_occupied_bucket_counter \/ table_memory_usage
  BY <1>5, CountersPreserve
<1>6. CASE WildAccess
  BY <1>6, QuietPreserves DEF WildAccess
<1>7. CASE UNCHANGED vars
  BY <1>7, QuietPreserves DEF vars, IInv, TypeOK
<1> QED
  BY <1>1, <1>2, <1>3, <1>4, <1>5, <1>6, <1>7 DEF Next

\* The inductive invariant holds of every behaviour of the table.
THEOREM Invariant == Spec => []IInv
BY InitIInv, NextIInv, PTL DEF Spec

-----------------------------------------------------------------------------
(***************************************************************************)
(* What follows from the invariant.                                        *)
(***************************************************************************)

\* A new array at least as large has a free slot for the next entry: the entries already
\* in its bucket come from the one old bucket that entry is in, which has no more slots.
LEMMA GrowthHasRoom ==
  ASSUME IInv, NEW c \in Word, IsPowerOf2(c), c >= buckets_count,
         NEW run \in Runs(c), NEW entries \in SUBSET Occupied, Carries(run, entries, c),
         NEW p \in Occupied \ entries
  PROVE  \E s \in Slots : ~run.new_buckets[At(p).hash % c][s].in_use
<1> DEFINE b == At(p).hash % c
<1> SUFFICES ASSUME \A s \in Slots : run.new_buckets[b][s].in_use PROVE FALSE
  OBVIOUS
<1>1. \A q \in Occupied : /\ q = <<q[1], q[2]>> /\ q[1] \in 0 .. buckets_count - 1
                          /\ q[2] \in Slots /\ At(q).hash \in Word
                          /\ BitAnd(At(q).hash, Decrement(buckets_count)) = q[1]
  BY DEF IInv, TypeOK, Placement, Occupied, Positions, At, Slot
<1>2. buckets_count \in Word /\ IsPowerOf2(buckets_count) /\ buckets_count <= c
  BY <1>1, ConstantsAssumption DEF IInv, TypeOK, Word
<1>3. c \in Nat \ {0}
  BY ConstantsAssumption DEF Word, IsPowerOf2
<1>4. b \in 0 .. c - 1
  BY <1>3, EntryIs DEF IInv
<1>5. \A q \in Occupied : At(q).hash % c = BitAnd(At(q).hash, Decrement(c))
  BY <1>1, WordAssumption
<1>6. \A q \in Occupied : BitAnd(At(q).hash % c, Decrement(buckets_count)) = q[1]
  BY <1>1, <1>2, <1>5, MasksNest
<1>7. PICK f \in Bijection(entries, InUse(run, c)) :
        \A q \in entries : f[q][1] = At(q).hash % c
  BY DEF Carries
<1>8. \A x \in InUse(run, c) : \E q \in entries : f[q] = x
  BY <1>7 DEF Bijection, Surjection
<1> HIDE DEF b
<1>9. ASSUME NEW s \in Slots
      PROVE  \E r \in Slots \ {p[2]} : <<p[1], r>> \in entries /\ f[<<p[1], r>>] = <<b, s>>
  <2>1. <<b, s>> \in InUse(run, c)
    BY <1>4 DEF InUse
  <2>2. PICK q \in entries : f[q] = <<b, s>>
    BY <1>8, <2>1
  <2>3. q[1] = p[1]
    <3>1. At(q).hash % c = At(p).hash % c
      BY <1>7, <2>2 DEF b
    <3> QED
      BY <1>6, <3>1
  <2>4. q = <<p[1], q[2]>> /\ q[2] \in Slots /\ q[2] # p[2]
    BY <1>1, <2>3
  <2> QED
    BY <2>2, <2>4
<1> DEFINE from(s) == CHOOSE r \in Slots \ {p[2]} :
                        <<p[1], r>> \in entries /\ f[<<p[1], r>>] = <<b, s>>
           g       == [s \in Slots |-> from(s)]
<1>10. \A s \in Slots : from(s) \in Slots \ {p[2]} /\ f[<<p[1], from(s)>>] = <<b, s>>
  BY <1>9
<1> HIDE DEF from
<1>11. \A s, t \in Slots : from(s) = from(t) => s = t
  <2> SUFFICES ASSUME NEW s \in Slots, NEW t \in Slots, from(s) = from(t) PROVE s = t
    OBVIOUS
  <2>1. <<b, s>> = <<b, t>>
    BY <1>10
  <2> QED
    BY <2>1
<1>12. g \in Injection(Slots, Slots \ {p[2]})
  BY <1>10, <1>11 DEF Injection, IsInjective
<1>13. p[2] \in Slots
  BY <1>1
<1>14. IsFiniteSet(Slots \ {p[2]}) /\ Cardinality(Slots \ {p[2]}) = Cardinality(Slots) - 1
  BY <1>13, OneSlotLess
<1> HIDE DEF g
<1>15. Cardinality(Slots) <= Cardinality(Slots \ {p[2]})
  BY <1>12, <1>14, FS_Injection
<1>16. Cardinality(Slots) \in Nat
  BY SlotsFinite, FS_CardinalityType
<1> QED
  BY <1>14, <1>15, <1>16

\* So the loop of a table that grows runs to its end.
LEMMA GrowthFitsAlways == IInv => GrowthFits
<1> SUFFICES ASSUME IInv, NEW c \in Word, IsPowerOf2(c), c >= buckets_count
             PROVE  Rehash(c).fits
  BY DEF GrowthFits
<1>1. c \in Nat \ {0} /\ TypeOK
  BY ConstantsAssumption DEF Word, IsPowerOf2, IInv
<1>2. PICK after \in [0 .. SlotCount -> Runs(c)] :
        /\ Rehash(c) = after[SlotCount]
        /\ after[0].fits
        /\ \A i \in 0 .. SlotCount - 1 : after[i + 1] = Moved(after[i], At(Visited(i)), c)
        /\ \A i \in 0 .. SlotCount : after[i].fits => Carries(after[i], Walked(i), c)
  BY <1>1, RehashRuns
<1>3. SlotCount \in Nat
  BY <1>1, VisitedOnce
<1> DEFINE S == {i \in 0 .. SlotCount : after[i].fits}
<1>4. 0 \in S
  BY <1>2, <1>3
<1>5. ASSUME NEW i \in 0 .. SlotCount - 1, i \in S PROVE i + 1 \in S
  <2>1. /\ i \in 0 .. SlotCount /\ i + 1 \in 0 .. SlotCount
        /\ after[i] \in Runs(c) /\ after[i].fits
        /\ Carries(after[i], Walked(i), c)
    BY <1>2, <1>3, <1>5
  <2>2. after[i + 1] = Moved(after[i], At(Visited(i)), c)
    BY <1>2
  <2>3. Walked(i) \in SUBSET Occupied /\ Visited(i) \notin Walked(i)
        /\ Visited(i) \in Positions
    BY <1>1, <1>3, VisitedOnce DEF Walked
  <2>4. CASE Visited(i) \notin Occupied
    BY <2>1, <2>2, <2>3, <2>4 DEF Moved, Occupied
  <2>5. CASE Visited(i) \in Occupied
    <3>1. \E s \in Slots : ~after[i].new_buckets[At(Visited(i)).hash % c][s].in_use
      BY <2>1, <2>3, <2>5, GrowthHasRoom
    <3> QED
      BY <1>1, <2>1, <2>2, <2>5, <3>1, MovedFits
  <2> QED
    BY <2>4, <2>5
<1> HIDE DEF S
<1>6. SlotCount \in 0 .. SlotCount /\ \A i \in 0 .. SlotCount : i \in S
  BY <1>3, <1>4, <1>5, Induction
<1> QED
  BY <1>2, <1>6 DEF S

\* Every state of the table has its type, and a power of two of buckets or none.
THEOREM TypeCorrect == Spec => []TypeOK
BY Invariant, PTL DEF IInv

\* The masks of the lookups and the modulo of the rehash agree, always.
THEOREM PlacementHolds == Spec => []Placement
BY Invariant, PTL DEF IInv

\* The counter is the number of entries, always.
THEOREM CountHolds == Spec => []CountExact
BY Invariant, PTL DEF IInv

\* No block is lost, none is kept after it was destroyed, none is shared.
THEOREM OwnershipHolds == Spec => []OwnershipExact
BY Invariant, PTL DEF IInv

\* No key is ever in two slots, unless a long key is filed under its name with
\* the same hash.
THEOREM UniqueKeysHolds == Spec => []UniqueKeys
BY Invariant, PTL DEF IInv

\* Growing never ends in FATAL.
THEOREM GrowthHolds == Spec => []GrowthFits
BY Invariant, GrowthFitsAlways, PTL

\* A resize, granted or not, loses no entry and frees no value.
THEOREM ResizeKeepsEntriesHolds == Spec => ResizeKeepsEntries
<1> DEFINE Kept == /\ Entries' = Entries
                   /\ Cardinality(Occupied') = Cardinality(Occupied)
                   /\ owned' = owned
<1>1. IInv /\ [Next]_vars => [ret'.op = "resize" => Kept]_vars
  <2> SUFFICES ASSUME IInv, Next, ret'.op = "resize" PROVE Kept
    OBVIOUS
  <2>1. UNCHANGED table => Kept
    BY DEF table, Entries, Occupied, Positions, At
  <2> HIDE DEF Kept
  <2>2. \A op, k, rc : ReturnsOnly(op, k, rc) => UNCHANGED table
    BY DEF ReturnsOnly
  <2>3. ASSUME NEW k \in Keys, NEW v \in Values \ owned,
               table_set(k, v) \/ table_add(k, v) \/ table_replace(k, v)
        PROVE  Kept
    BY <2>1, <2>2, <2>3 DEF table_set, table_add, table_replace, Insert, Overwrite, Returns
  <2>4. ASSUME NEW k \in Keys, table_delete(k) \/ table_get(k) \/ table_exist(k)
        PROVE  Kept
    BY <2>1, <2>2, <2>4 DEF table_delete, table_get, table_exist, Vacate, ReturnsValue, Returns
  <2>5. CASE table_clear
    BY <2>5 DEF table_clear, Returns
  <2>6. ASSUME NEW n \in ResizeSizes, table_resize(n)
        PROVE  Kept
    <3>1. CASE FatalRehash(Rehash(Rounded(n)).new_buckets)
      BY <2>1, <2>2, <3>1 DEF FatalRehash
    <3>2. CASE /\ Rounded(n) >= elem_count /\ Rehash(Rounded(n)).fits
               /\ Install(Rehash(Rounded(n)).new_buckets, Rounded(n))
      <4>1. /\ Rounded(n) \in Word
            /\ Rounded(n) = 0 \/ IsPowerOf2(Rounded(n))
        BY RoundedIsSize, ConstantsAssumption
      <4>2. owned' = owned
        BY <3>2 DEF Install
      <4> QED
        BY <3>2, <4>1, <4>2, ResizePreserves DEF Kept
    <3> QED
      BY <2>1, <2>2, <2>6, <3>1, <3>2 DEF table_resize
  <2>7. CASE \/ table_total_elem \/ table_capacity \/ table_load_factor
             \/ table_occupied_bucket_counter \/ table_memory_usage
    BY <2>1, <2>7 DEF table_total_elem, table_capacity, table_load_factor, ReturnsRatio,
                      table_occupied_bucket_counter, table_memory_usage
  <2>8. CASE WildAccess
    BY <2>1, <2>8 DEF WildAccess
  <2> QED
    BY <2>3, <2>4, <2>5, <2>6, <2>7, <2>8 DEF Next
<1>2. IInv /\ [Next]_vars
        => [ret'.op = "resize" => /\ Entries' = Entries
                                  /\ Cardinality(Occupied') = Cardinality(Occupied)
                                  /\ owned' = owned]_vars
  BY <1>1
<1> QED
  BY <1>2, Invariant, PTL DEF Spec, ResizeKeepsEntries
=============================================================================
