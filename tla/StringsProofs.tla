---------------------------- MODULE StringsProofs ----------------------------
(***************************************************************************)
(* The slot of a bucket as bytes, for keys over any characters, of any     *)
(* lengths, in slots of any size: what a copy leaves in it and what a      *)
(* comparison finds there.                                                 *)
(***************************************************************************)
EXTENDS MCWords, Minima, SequenceTheorems

-----------------------------------------------------------------------------
(***************************************************************************)
(* Strings.                                                                *)
(***************************************************************************)

\* A key is a sequence of characters, none of them 0.
LEMMA KeyIsSeq ==
  ASSUME NEW k \in KeyStrings
  PROVE  /\ k \in Seq(Chars) /\ Len(k) \in Nat /\ DOMAIN k = 1 .. Len(k)
         /\ \A i \in 1 .. Len(k) : k[i] \in Nat \ {0}
<1>1. PICK n \in 0 .. LenMax : k \in [1 .. n -> Chars]
  BY DEF KeyStrings
<1>2. n \in Nat
  BY CharsAssumption
<1>3. k \in Seq(Chars) /\ Len(k) = n
  BY <1>1, <1>2
<1> QED
  BY <1>1, <1>2, <1>3, CharsAssumption

\* A string ends with its 0, and has no other.
LEMMA TerminatedIs ==
  ASSUME NEW k \in KeyStrings
  PROVE  /\ Len(Terminated(k)) = Len(k) + 1
         /\ \A i \in 1 .. Len(k) : Terminated(k)[i] = k[i] /\ k[i] # 0
         /\ Terminated(k)[Len(k) + 1] = 0
BY KeyIsSeq DEF Terminated

\* ustrlen finds the end of a string.
LEMMA LengthIs ==
  ASSUME NEW k \in KeyStrings
  PROVE  ustrlen(Terminated(k)) = Len(k)
<1> DEFINE m    == Terminated(k)
           ends == {i \in 1 .. Len(m) : m[i] = 0}
<1>1. Len(m) = Len(k) + 1 /\ Len(k) \in Nat
  BY TerminatedIs, KeyIsSeq
<1>2. ends = {Len(k) + 1}
  BY TerminatedIs, <1>1
<1>3. SelectInSeq(m, LAMBDA c : c = 0) = IF ends # {} THEN Min(ends) ELSE 0
  BY DEF SelectInSeq
<1> HIDE DEF ends
<1>4. Min(ends) = Len(k) + 1
  BY <1>1, <1>2, MinIsLeast
<1> QED
  BY <1>1, <1>2, <1>3, <1>4 DEF ustrlen

-----------------------------------------------------------------------------
(***************************************************************************)
(* The slot.                                                               *)
(***************************************************************************)

\* The bytes of the slot begin with what is kept of the key, and a 0; what lies
\* behind that may be anything.
SlotHolds(m, k) ==
  LET kept == Kept(Len(k), KEY_MAX_LEN)
  IN  /\ m \in Seq(Nat) /\ Len(m) = KEY_MAX_LEN
      /\ \A i \in 1 .. kept : m[i] = k[i]
      /\ m[kept + 1] = 0

\* What is kept leaves room for the 0.
LEMMA KeptFits ==
  ASSUME NEW len \in Nat
  PROVE  /\ Kept(len, KEY_MAX_LEN) \in 0 .. KEY_MAX_LEN - 1
         /\ Kept(len, KEY_MAX_LEN) <= len
BY StringsAssumption DEF Kept

\* What SlotHolds says of the bytes: the first 0 is behind what is kept.
LEMMA SlotTells ==
  ASSUME NEW m, NEW k \in KeyStrings, SlotHolds(m, k),
         NEW kept, kept = Kept(Len(k), KEY_MAX_LEN)
  PROVE  /\ KEY_MAX_LEN \in Nat \ {0} /\ Len(m) = KEY_MAX_LEN
         /\ Len(k) \in Nat /\ kept \in 0 .. KEY_MAX_LEN - 1 /\ kept <= Len(k)
         /\ \A j \in 1 .. KEY_MAX_LEN : m[j] \in Nat
         /\ \A j \in 1 .. kept : m[j] = k[j] /\ m[j] # 0
         /\ m[kept + 1] = 0
<1>1. /\ KEY_MAX_LEN \in Nat \ {0} /\ Len(m) = KEY_MAX_LEN /\ m \in Seq(Nat)
      /\ Len(k) \in Nat /\ kept \in 0 .. KEY_MAX_LEN - 1 /\ kept <= Len(k)
  BY KeyIsSeq, KeptFits, StringsAssumption DEF SlotHolds
<1>2. (\A j \in 1 .. kept : m[j] = k[j]) /\ m[kept + 1] = 0
  BY DEF SlotHolds
<1>3. \A j \in 1 .. Len(k) : k[j] # 0
  BY KeyIsSeq
<1>4. \A j \in 1 .. KEY_MAX_LEN : m[j] \in Nat
  BY <1>1
<1>5. \A j \in 1 .. kept : m[j] = k[j] /\ m[j] # 0
  <2> TAKE j \in 1 .. kept
  <2>1. j \in 1 .. Len(k)
    BY <1>1
  <2> QED
    BY <1>2, <1>3, <2>1
<1> QED
  BY <1>1, <1>2, <1>4, <1>5

\* ustrncpy leaves in the slot what it keeps of the key, whatever was there.
LEMMA CopyHolds ==
  ASSUME NEW m \in Seq(Nat), Len(m) = KEY_MAX_LEN, NEW k \in KeyStrings
  PROVE  SlotHolds(ustrncpy(m, Terminated(k), KEY_MAX_LEN), k)
<1> DEFINE t    == Terminated(k)
           kept == Kept(Len(k), KEY_MAX_LEN)
           copy == ustrncpy(m, t, KEY_MAX_LEN)
<1>1. /\ KEY_MAX_LEN \in Nat \ {0} /\ DOMAIN m = 1 .. KEY_MAX_LEN
      /\ \A i \in 1 .. KEY_MAX_LEN : m[i] \in Nat
  BY StringsAssumption
<1>2. /\ kept \in 0 .. KEY_MAX_LEN - 1 /\ kept <= Len(k) /\ Len(k) \in Nat
      /\ \A i \in 1 .. kept : t[i] = k[i] /\ t[i] \in Nat
  <2>1. /\ kept \in 0 .. KEY_MAX_LEN - 1 /\ kept <= Len(k) /\ Len(k) \in Nat
    BY KeyIsSeq, KeptFits
  <2> QED
    BY <2>1, KeyIsSeq, TerminatedIs
<1>3. copy = [i \in 1 .. KEY_MAX_LEN |->
                IF i <= kept THEN t[i] ELSE IF i = kept + 1 THEN 0 ELSE m[i]]
  BY <1>1, LengthIs DEF ustrncpy
<1> HIDE DEF kept, t, copy
<1>4. copy \in [1 .. KEY_MAX_LEN -> Nat]
  BY <1>1, <1>2, <1>3
<1>5. copy \in Seq(Nat) /\ Len(copy) = KEY_MAX_LEN
  BY <1>1, <1>4
<1>6. (\A i \in 1 .. kept : copy[i] = k[i]) /\ copy[kept + 1] = 0
  BY <1>1, <1>2, <1>3
<1> QED
  BY <1>5, <1>6 DEF SlotHolds, kept, copy, t

\* The comparison of a slot with a string ends in both of them, at the first
\* difference or at their common end.
LEMMA ComparisonEnds ==
  ASSUME NEW m, NEW k \in KeyStrings, SlotHolds(m, k), NEW sought \in KeyStrings
  PROVE  LET t == Terminated(sought)
             i == ComparedTo(m, t, KEY_MAX_LEN)
         IN  /\ i \in 1 .. KEY_MAX_LEN /\ i <= Len(sought) + 1
             /\ m[i] # t[i] \/ m[i] = 0
             /\ \A j \in 1 .. i - 1 : m[j] = t[j] /\ m[j] # 0
<1> DEFINE t     == Terminated(sought)
           lens  == {KEY_MAX_LEN, Len(m), Len(t)}
           upto  == Min(lens)
           stops == {i \in 1 .. upto : m[i] # t[i] \/ m[i] = 0}
           z     == Kept(Len(k), KEY_MAX_LEN) + 1
<1>1. /\ Len(m) = KEY_MAX_LEN /\ KEY_MAX_LEN \in Nat \ {0}
      /\ Len(t) = Len(sought) + 1 /\ Len(sought) \in Nat /\ t[Len(sought) + 1] = 0
      /\ z \in 1 .. KEY_MAX_LEN /\ m[z] = 0
  <2>1. Len(sought) \in Nat /\ Len(t) = Len(sought) + 1 /\ t[Len(sought) + 1] = 0
    BY KeyIsSeq, TerminatedIs
  <2> QED
    BY <2>1, SlotTells
<1>2. upto \in lens /\ \A n \in lens : upto <= n
  <2>1. lens \subseteq Nat /\ lens # {}
    BY <1>1
  <2> HIDE DEF lens
  <2> QED
    BY <2>1, MinIsLeast
<1>3. ComparedTo(m, t, KEY_MAX_LEN) = IF stops = {} THEN upto + 1 ELSE Min(stops)
  BY DEF ComparedTo
<1> HIDE DEF upto, t, z
<1>4. stops # {}
  <2>1. CASE z <= Len(sought) + 1
    BY <1>1, <1>2, <2>1
  <2>2. CASE z > Len(sought) + 1
    BY <1>1, <1>2, <2>2
  <2> QED
    BY <1>1, <2>1, <2>2
<1>5. stops \subseteq Nat /\ upto \in Nat /\ upto <= KEY_MAX_LEN /\ upto <= Len(sought) + 1
  BY <1>1, <1>2
<1> DEFINE i == ComparedTo(m, t, KEY_MAX_LEN)
<1>6. i \in stops /\ \A j \in stops : i <= j
  <2> HIDE DEF stops
  <2> QED
    BY <1>3, <1>4, <1>5, MinIsLeast
<1> HIDE DEF i
<1>7. \A j \in 1 .. i - 1 : j \notin stops /\ j \in 1 .. upto
  BY <1>5, <1>6
<1>8. /\ i \in 1 .. KEY_MAX_LEN /\ i <= Len(sought) + 1
      /\ m[i] # t[i] \/ m[i] = 0
      /\ \A j \in 1 .. i - 1 : m[j] = t[j] /\ m[j] # 0
  BY <1>1, <1>5, <1>6, <1>7
<1> QED
  BY <1>8 DEF i, t

\* The slot compares equal just with what is kept of its key.
LEMMA EqualIsKept ==
  ASSUME NEW m, NEW k \in KeyStrings, SlotHolds(m, k), NEW sought \in KeyStrings
  PROVE  ustrncmp(m, Terminated(sought), KEY_MAX_LEN) = 0
           <=> sought = SubSeq(k, 1, Kept(Len(k), KEY_MAX_LEN))
<1> DEFINE t    == Terminated(sought)
           i    == ComparedTo(m, t, KEY_MAX_LEN)
           kept == Kept(Len(k), KEY_MAX_LEN)
<1>1. /\ i \in 1 .. KEY_MAX_LEN /\ i <= Len(sought) + 1
      /\ m[i] # t[i] \/ m[i] = 0
      /\ \A j \in 1 .. i - 1 : m[j] = t[j] /\ m[j] # 0
  BY ComparisonEnds
<1>2. /\ Len(sought) \in Nat /\ sought \in Seq(Chars) /\ k \in Seq(Chars)
      /\ DOMAIN sought = 1 .. Len(sought)
      /\ t[Len(sought) + 1] = 0
      /\ \A j \in 1 .. Len(sought) : t[j] = sought[j] /\ t[j] # 0 /\ t[j] \in Nat
  BY KeyIsSeq, TerminatedIs
<1>3. /\ KEY_MAX_LEN \in Nat \ {0} /\ kept \in 0 .. KEY_MAX_LEN - 1
      /\ kept <= Len(k) /\ Len(k) \in Nat
  BY SlotTells
<1>4. /\ \A j \in 1 .. KEY_MAX_LEN : m[j] \in Nat
      /\ \A j \in 1 .. kept : m[j] = k[j] /\ m[j] # 0
      /\ m[kept + 1] = 0
  BY SlotTells
<1>5. /\ SubSeq(k, 1, kept) \in Seq(Chars) /\ Len(SubSeq(k, 1, kept)) = kept
      /\ \A j \in 1 .. kept : SubSeq(k, 1, kept)[j] = k[j]
  BY <1>2, <1>3
<1>6. ustrncmp(m, t, KEY_MAX_LEN) = m[i] - t[i]
  BY <1>3 DEF ustrncmp
<1> HIDE DEF t, i, kept
<1>7. t[i] \in Nat /\ m[i] \in Nat
  BY <1>1, <1>2, <1>4
<1>8. ASSUME m[i] - t[i] = 0 PROVE sought = SubSeq(k, 1, kept)
  <2>1. m[i] = 0 /\ t[i] = 0
    BY <1>1, <1>7, <1>8
  <2>2. i = Len(sought) + 1
    BY <1>1, <1>2, <2>1
  <2>3. i = kept + 1
    <3>1. ~(i <= kept)
      BY <1>1, <1>3, <1>4, <2>1
    <3>2. ~(i > kept + 1)
      BY <1>1, <1>3, <1>4
    <3> QED
      BY <1>1, <1>3, <3>1, <3>2
  <2>4. Len(sought) = kept
    <3>1. kept \in Nat /\ Len(sought) \in Nat /\ Len(sought) + 1 = kept + 1
      BY <1>2, <1>3, <2>2, <2>3
    <3> QED
      BY <3>1
  <2>5. \A j \in 1 .. kept : sought[j] = SubSeq(k, 1, kept)[j]
    <3> TAKE j \in 1 .. kept
    <3>1. j \in 1 .. i - 1 /\ j \in 1 .. Len(sought)
      BY <1>3, <2>3, <2>4
    <3>2. m[j] = t[j] /\ t[j] = sought[j] /\ m[j] = k[j]
      BY <1>1, <1>2, <1>4, <3>1
    <3> QED
      BY <1>5, <3>2
  <2> QED
    BY <1>2, <1>5, <2>4, <2>5, SeqEqual
<1>9. ASSUME sought = SubSeq(k, 1, kept) PROVE m[i] - t[i] = 0
  <2>1. Len(sought) = kept /\ \A j \in 1 .. kept : sought[j] = k[j]
    BY <1>5, <1>9
  <2>2. \A j \in 1 .. kept : m[j] = t[j] /\ m[j] # 0
    BY <1>2, <1>4, <2>1
  <2>3. i = kept + 1
    BY <1>1, <1>3, <2>1, <2>2
  <2> QED
    BY <1>2, <1>4, <2>1, <2>3
<1> QED
  BY <1>6, <1>8, <1>9 DEF t, i, kept

-----------------------------------------------------------------------------
(***************************************************************************)
(* The slot that one key after the other is stored in.                     *)
(***************************************************************************)

\* The slot holds the key it was last given, and its hash.
SlotInv ==
  /\ stored \in KeyStrings /\ SlotHolds(slot, stored)
  /\ stored # <<>> => slot_hash = hash(Terminated(stored))

\* A slot fresh from calloc holds the empty key.
LEMMA InitSlotInv == Init => SlotInv
<1> SUFFICES ASSUME Init PROVE SlotInv
  OBVIOUS
<1>1. stored = <<>> /\ slot = [i \in 1 .. KEY_MAX_LEN |-> 0]
  BY DEF Init
<1>2. <<>> \in KeyStrings
  <2>1. <<>> \in [1 .. 0 -> Chars]
    OBVIOUS
  <2> QED
    BY <2>1, CharsAssumption DEF KeyStrings
<1>3. slot \in Seq(Nat) /\ Len(slot) = KEY_MAX_LEN
  BY <1>1, StringsAssumption
<1>4. Len(<<>>) = 0 /\ Kept(0, KEY_MAX_LEN) = 0
  BY StringsAssumption DEF Kept
<1>5. slot[1] = 0
  BY <1>1, StringsAssumption
<1>6. SlotHolds(slot, <<>>)
  BY <1>3, <1>4, <1>5 DEF SlotHolds
<1> QED
  BY <1>1, <1>2, <1>6 DEF SlotInv

\* SlotInv is inductive.
LEMMA NextSlotInv == SlotInv /\ [Next]_<<words, bytes>> => SlotInv'
<1> SUFFICES ASSUME SlotInv, [Next]_<<words, bytes>> PROVE SlotInv'
  OBVIOUS
<1>1. CASE UNCHANGED bytes
  BY <1>1 DEF SlotInv, bytes
<1>2. ASSUME NEW k \in KeyStrings, Fill(k) PROVE SlotInv'
  <2>1. /\ slot' = ustrncpy(slot, Terminated(k), KEY_MAX_LEN)
        /\ slot_hash' = hash(Terminated(k)) /\ stored' = k
    BY <1>2 DEF Fill
  <2>2. slot \in Seq(Nat) /\ Len(slot) = KEY_MAX_LEN
    BY DEF SlotInv, SlotHolds
  <2>3. SlotHolds(slot', k)
    BY <2>1, <2>2, CopyHolds
  <2> QED
    BY <2>1, <2>3 DEF SlotInv
<1> QED
  BY <1>1, <1>2 DEF Next, NextWord

\* The slot holds the key it was last given, after any number of others.
THEOREM SlotInvariant == Spec => []SlotInv
BY InitSlotInv, NextSlotInv, PTL DEF Spec

\* ustrncmp (src/src/string_functionality.c:158) reads no byte behind a slot, nor behind
\* the key that is sought, for every KEY_MAX_LEN and keys of every length.
THEOREM ComparesWithinBlocksHolds == Spec => []ComparesWithinBlocks
<1>1. SlotInv => ComparesWithinBlocks
  <2> SUFFICES ASSUME SlotInv, NEW k \in KeyStrings
               PROVE  ComparedTo(slot, Terminated(k), KEY_MAX_LEN)
                        <= Min({Len(slot), Len(Terminated(k))})
    BY DEF ComparesWithinBlocks
  <2> DEFINE i    == ComparedTo(slot, Terminated(k), KEY_MAX_LEN)
             lens == {Len(slot), Len(Terminated(k))}
  <2>1. i \in 1 .. KEY_MAX_LEN /\ i <= Len(k) + 1
    BY ComparisonEnds DEF SlotInv
  <2>2. Len(slot) = KEY_MAX_LEN /\ Len(Terminated(k)) = Len(k) + 1 /\ Len(k) \in Nat
    BY KeyIsSeq, TerminatedIs DEF SlotInv, SlotHolds
  <2>3. lens \subseteq Nat /\ lens # {}
    BY <2>2, StringsAssumption
  <2>4. \A n \in lens : i <= n
    BY <2>1, <2>2
  <2> HIDE DEF lens, i
  <2>5. i <= Min(lens)
    BY <2>3, <2>4, MinIsLeast
  <2> QED
    BY <2>5 DEF lens, i
<1> QED
  BY <1>1, SlotInvariant, PTL

\* A lookup takes the slot for the key k just when k is the kept part of the key that was
\* stored (src/src/hashtable.c:277, :452) and has its hash: what HashTable takes a slot
\* to mean.
THEOREM MatchIsExactHolds == Spec => []MatchIsExact
<1>1. SlotInv => MatchIsExact
  <2> SUFFICES ASSUME SlotInv, stored # <<>>, NEW k \in KeyStrings
               PROVE  Matches(k) <=>
                        /\ k = SubSeq(stored, 1, Kept(Len(stored), KEY_MAX_LEN))
                        /\ hash(Terminated(k)) = hash(Terminated(stored))
    BY DEF MatchIsExact
  <2>1. ustrncmp(slot, Terminated(k), KEY_MAX_LEN) = 0
          <=> k = SubSeq(stored, 1, Kept(Len(stored), KEY_MAX_LEN))
    BY EqualIsKept DEF SlotInv
  <2> QED
    BY <2>1 DEF Matches, SlotInv
<1> QED
  BY <1>1, SlotInvariant, PTL
=============================================================================
