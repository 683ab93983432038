------------------------------ MODULE MCWords ------------------------------
(***************************************************************************)
(* The operators of Words and Strings on all small arguments, against what *)
(* they are for: every pair of words in turn, then a slot of a bucket that *)
(* is taken by one key after another.                                      *)
(***************************************************************************)
EXTENDS Words, Strings

CONSTANTS Chars,      \* bytes of a key
          LenMax      \* of a key

\* The bytes of a string of C: none of them is the 0 that ends it.
ASSUME CharsAssumption == Chars \subseteq Nat \ {0} /\ LenMax \in Nat

VARIABLES size, key_hash,     \* the pair of words
          slot,               \* the bytes of keys[i] in the slot
          slot_hash,          \* hashes[i]
          stored              \* the key the slot was last given; empty before

words == <<size, key_hash>>
bytes == <<slot, slot_hash, stored>>

KeyStrings == UNION {[1 .. n -> Chars] : n \in 0 .. LenMax}

Init == /\ size = 0 /\ key_hash = 0
        /\ slot = [i \in 1 .. KEY_MAX_LEN |-> 0] /\ slot_hash = 0 /\ stored = <<>>

NextWord ==
  /\ stored = <<>>
  /\ \/ /\ size < Modulus - 1
        /\ size' = size + 1
        /\ key_hash' = key_hash
     \/ /\ size = Modulus - 1
        /\ key_hash < Modulus - 1
        /\ size' = 0
        /\ key_hash' = key_hash + 1
  /\ UNCHANGED bytes

\* A free slot is filled with the key k; its last key lingers there.
Fill(k) ==
  /\ words = <<0, 0>> /\ is_key_valid(Terminated(k))
  /\ slot' = ustrncpy(slot, Terminated(k), KEY_MAX_LEN)
  /\ slot_hash' = hash(Terminated(k))
  /\ stored' = k
  /\ UNCHANGED words

Next == NextWord \/ \E k \in KeyStrings : Fill(k)

Spec == Init /\ [][Next]_<<words, bytes>>

\* The code's shifts 1, 2, 4, 8, 16, 32, as many as a word of W bits needs.
MCShifts == <<1, 2, 4>>

\* next_power_of_2 answers the least power of two that is not below its
\* argument, and 0 exactly when no word is such a power.
RoundsUp ==
  LET above == {p \in PowersOf2 : p >= size}
  IN  IF above = {} THEN NextPowerOf2(size) = 0
      ELSE /\ NextPowerOf2(size) \in above
           /\ \A p \in above : NextPowerOf2(size) <= p

\* The test the rounding is guarded with (src/src/hashtable.c:26 and :142) is
\* passed by 0 and by the powers of two, and by no other word.
TestIsExact == PassesPowerTest(size) <=> size \in PowersOf2 \cup {0}

\* In a table whose size is a power of two, the mask of the lookups
\* (src/src/hashtable.c:238) and the modulo of the rehash
\* (src/src/hashtable.c:185) name the same bucket.
MaskIsModulo == size \in PowersOf2 => Masked(key_hash, size) = key_hash % size

\* What a lookup asks of a slot (src/src/hashtable.c:251-253).
Matches(k) == slot_hash = hash(Terminated(k)) /\ ustrncmp(slot, Terminated(k), KEY_MAX_LEN) = 0

\* A comparison with a stored key never looks behind the bytes of the slot, nor of
\* the key that is sought (src/src/string_functionality.c:158), however long it is.
ComparesWithinBlocks ==
  \A k \in KeyStrings : LET sought == Terminated(k)
                       IN  ComparedTo(slot, sought, KEY_MAX_LEN) <= Min({Len(slot), Len(sought)})

\* Whatever lingers in the slot (src/src/hashtable.c:277, :452), a lookup takes it for
\* the key k just when k is the kept part of the key it was given and has its hash:
\* the meaning module HashTable gives to a slot, with Truncated for the kept part.
MatchIsExact ==
  stored # <<>> =>
    \A k \in KeyStrings :
      Matches(k) <=> /\ k = SubSeq(stored, 1, Kept(Len(stored), KEY_MAX_LEN))
                     /\ hash(Terminated(k)) = hash(Terminated(stored))
=============================================================================
