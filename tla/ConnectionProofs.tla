-------------------------- MODULE ConnectionProofs --------------------------
(***************************************************************************)
(* Proofs about Connection, for whatever clients send in whatever pieces,  *)
(* and for every limit on the arguments.                                   *)
(*                                                                         *)
(* The inductive invariant is CInv.  Its hard part is ParserStarved: when  *)
(* append_to_buffer fails the stream is closed and parse_buffer runs all   *)
(* the same, and nothing is closed twice or executed only because what was *)
(* in the buffer before could not move the parser then and cannot now.     *)
(* The rest says which handle can be in which state, that the blocks of    *)
(* the arguments are those the context knows of, and when the one command  *)
(* of the connection has been executed.                                    *)
(*                                                                         *)
(* FInv follows the first command of a script: what is on its way is the   *)
(* rest of the script, the buffer is the last of what was delivered, and   *)
(* the parser stands in the command where its state says.  For this it is  *)
(* proved first where in a script the headers of that command are, and     *)
(* what the parser makes of them.  Answered adds what becomes of a single  *)
(* command when memory is granted.                                         *)
(*                                                                         *)
(* That Connection implements Lifecycle, and that Server has every step of *)
(* it, is shown step by step at the end.                                   *)
(***************************************************************************)
EXTENDS OneClient, Minima, SequenceTheorems, FiniteSetTheorems

-----------------------------------------------------------------------------
(***************************************************************************)
(* Sequences of characters.                                                *)
(***************************************************************************)

\* What is left of a sequence when its first n characters are dropped.
LEMMA AfterIsRest ==
  ASSUME NEW b \in Seq(Chars), NEW n \in 0 .. Len(b)
  PROVE  /\ After(b, n) \in Seq(Chars)
         /\ Len(After(b, n)) = Len(b) - n
         /\ \A i \in 1 .. Len(b) - n : After(b, n)[i] = b[n + i]
<1>1. \A i \in n + 1 .. Len(b) : b[i] \in Chars
  OBVIOUS
<1> QED
  BY <1>1, SubSeqProperties DEF After

\* The first CR is at a position of the buffer, or at none.
LEMMA FirstCRIsPosition ==
  ASSUME NEW b \in Seq(Chars)
  PROVE  FirstCR(b) \in 0 .. Len(b)
<1> DEFINE I == { i \in 1 .. Len(b) : b[i] = CR }
<1>1. FirstCR(b) = IF I # {} THEN Min(I) ELSE 0
  BY DEF FirstCR, SelectInSeq
<1>2. I \subseteq 1 .. Len(b) /\ I \subseteq Nat
  OBVIOUS
<1> HIDE DEF I
<1>3. I # {} => Min(I) \in I
  BY <1>2, MinIsLeast
<1>4. CASE I = {}
  BY <1>1, <1>4
<1>5. CASE I # {}
  <2>1. FirstCR(b) = Min(I)
    BY <1>1, <1>5
  <2>2. Min(I) \in 1 .. Len(b)
    BY <1>2, <1>3, <1>5
  <2> QED
    BY <2>1, <2>2
<1> QED
  BY <1>4, <1>5

\* Once the line ends at the head of the buffer are gone, nothing more is stripped: the
\* parser finds the same buffer when it looks again.
LEMMA StrippedTwice ==
  ASSUME NEW b \in Seq(Chars)
  PROVE  Stripped(b) \in Seq(Chars) /\ Stripped(Stripped(b)) = Stripped(b)
<1> DEFINE Ends(q) == { i \in 1 .. Len(q) : q[i] \notin {CR, LF} }
           First(q) == IF Ends(q) # {} THEN Min(Ends(q)) ELSE 0
<1>1. \A q : Stripped(q) = IF First(q) = 0 THEN <<>> ELSE After(q, First(q) - 1)
  BY DEF Stripped, SelectInSeq
<1>2. \A q \in Seq(Chars) : Ends(q) \subseteq 1 .. Len(q) /\ Ends(q) \subseteq Nat
  OBVIOUS
<1>3. CASE Ends(b) = {}
  <2>1. Stripped(b) = <<>>
    BY <1>1, <1>3
  <2>2. Ends(<<>>) = {}
    OBVIOUS
  <2>3. Stripped(<<>>) = <<>>
    <3> HIDE DEF Ends
    <3> QED BY <1>1, <2>2
  <2> QED
    BY <2>1, <2>3
<1>4. CASE Ends(b) # {}
  <2> DEFINE m == Min(Ends(b))
             a == After(b, m - 1)
  <2>1. m \in Ends(b)
    <3> HIDE DEF Ends
    <3> QED BY <1>2, <1>4, MinIsLeast
  <2>2. m \in 1 .. Len(b) /\ b[m] \notin {CR, LF}
    BY <2>1
  <2>3. Stripped(b) = a
    <3> HIDE DEF Ends
    <3> QED BY <1>1, <1>4, <2>2
  <2>4. a \in Seq(Chars) /\ Len(a) = Len(b) - (m - 1) /\ a[1] = b[m]
    <3> HIDE DEF m
    <3>1. m - 1 \in 0 .. Len(b) /\ 1 \in 1 .. Len(b) - (m - 1) /\ (m - 1) + 1 = m
      BY <2>2
    <3>2. a[1] = b[(m - 1) + 1]
      BY <3>1, AfterIsRest
    <3> QED BY <3>1, <3>2, AfterIsRest
  <2> HIDE DEF m, a
  <2>5. 1 \in Ends(a)
    BY <2>2, <2>4
  <2>6. Min(Ends(a)) = 1
    <3> HIDE DEF Ends
    <3>1. Min(Ends(a)) \in Ends(a) /\ Min(Ends(a)) <= 1
      BY <1>2, <2>4, <2>5, MinIsLeast
    <3> QED BY <1>2, <2>4, <3>1
  <2>7. Stripped(a) = After(a, 0)
    <3> HIDE DEF Ends
    <3> QED BY <1>1, <2>5, <2>6
  <2>8. After(a, 0) = a
    BY <2>4, AfterIsRest, SeqEqual
  <2> QED
    BY <2>3, <2>4, <2>7, <2>8
<1> QED
  BY <1>3, <1>4

-----------------------------------------------------------------------------
(***************************************************************************)
(* The characters of a script.                                             *)
(***************************************************************************)

\* The characters of a header; none before its end is a CR or an LF.
LEMMA HeaderIs ==
  ASSUME NEW mark \in {"*", "$"}, NEW n \in Nat
  PROVE  /\ Header(mark, n) \in Seq(Chars) /\ Len(Header(mark, n)) = 4
         /\ Header(mark, n)[1].char = mark /\ Header(mark, n)[1] \notin {CR, LF}
         /\ Header(mark, n)[2].num = n /\ Header(mark, n)[2] \notin {CR, LF}
         /\ Header(mark, n)[3] = CR /\ Header(mark, n)[4] = LF
<1> DEFINE m == Character(mark)
           d == [char |-> "0", num |-> n]
<1>1. m \in Chars /\ d \in Chars /\ CR \in Chars /\ LF \in Chars
  BY DEF Character, CR, LF, Chars
<1>2. m \notin {CR, LF} /\ d \notin {CR, LF}
  BY DEF Character, CR, LF
<1>3. m.char = mark /\ d.num = n
  BY DEF Character
<1>4. Header(mark, n) = <<m, d>> \o <<CR, LF>>
  BY DEF Header, CRLF
<1> DEFINE h == Header(mark, n)
<1> HIDE DEF m, d, h
<1>5. h = <<m, d>> \o <<CR, LF>>
  BY <1>4 DEF h
<1>6. h \in Seq(Chars) /\ Len(h) = 4 /\ h[1] = m /\ h[2] = d /\ h[3] = CR /\ h[4] = LF
  BY <1>1, <1>5
<1> QED
  BY <1>2, <1>3, <1>6 DEF h

\* An argument in the format: its header, its bytes and its end.
Argument(len, end) == Header("$", len) \o [j \in 1 .. len |-> Byte] \o end

\* What is put behind a sequence leaves its characters where they were.
LEMMA BehindIs ==
  ASSUME NEW q \in Seq(Chars), NEW r \in Seq(Chars)
  PROVE  /\ q \o r \in Seq(Chars) /\ Len(q \o r) = Len(q) + Len(r)
         /\ Len(q) \in Nat /\ Len(r) \in Nat
         /\ \A i \in 1 .. Len(q) : (q \o r)[i] = q[i]
         /\ \A i \in 1 .. Len(r) : (q \o r)[Len(q) + i] = r[i]
OBVIOUS

\* An argument is six characters longer than its data, and begins with its header.
LEMMA ArgumentIs ==
  ASSUME NEW len \in Nat, NEW end \in Seq(Chars), Len(end) = 2
  PROVE  /\ Argument(len, end) \in Seq(Chars) /\ Len(Argument(len, end)) = len + 6
         /\ \A i \in 1 .. 4 : Argument(len, end)[i] = Header("$", len)[i]
<1> DEFINE h == Header("$", len)
           d == [j \in 1 .. len |-> Byte]
           hd == h \o d
<1>1. h \in Seq(Chars) /\ Len(h) = 4
  BY HeaderIs
<1>2. d \in Seq(Chars) /\ Len(d) = len
  <2>1. Byte \in Chars
    BY DEF Byte, Character, Chars
  <2> QED
    BY <2>1
<1>3. Argument(len, end) = hd \o end
  BY DEF Argument
<1> HIDE DEF h, d
<1>4. hd \in Seq(Chars) /\ Len(hd) = 4 + len /\ \A i \in 1 .. 4 : hd[i] = h[i]
  <2>1. h \o d \in Seq(Chars) /\ Len(h \o d) = Len(h) + Len(d)
    BY <1>1, <1>2, BehindIs
  <2>2. \A i \in 1 .. Len(h) : (h \o d)[i] = h[i]
    BY <1>1, <1>2, BehindIs
  <2> HIDE DEF hd
  <2>3. hd = h \o d
    BY DEF hd
  <2> QED
    BY <1>1, <1>2, <2>1, <2>2, <2>3
<1> HIDE DEF hd
<1>5. /\ hd \o end \in Seq(Chars) /\ Len(hd \o end) = len + 6
      /\ \A i \in 1 .. 4 : (hd \o end)[i] = hd[i]
  <2>1. hd \o end \in Seq(Chars) /\ Len(hd \o end) = Len(hd) + Len(end)
    BY <1>4, BehindIs
  <2>2. \A i \in 1 .. Len(hd) : (hd \o end)[i] = hd[i]
    BY <1>4, BehindIs
  <2>3. \A i \in 1 .. 4 : i \in 1 .. Len(hd)
    BY <1>4
  <2> QED
    BY <1>4, <2>1, <2>2, <2>3
<1> QED
  BY <1>3, <1>4, <1>5 DEF h

\* FormattedUpTo has the values its recursion says.
LEMMA FormattedIs ==
  ASSUME NEW lens \in Seq(0 .. LEN_MAX), NEW end \in Seq(Chars), Len(end) = 2
  PROVE  /\ FormattedUpTo(lens, end) \in [0 .. Len(lens) -> Seq(Chars)]
         /\ FormattedUpTo(lens, end)[0] = Header("*", Len(lens))
         /\ \A i \in 0 .. Len(lens) - 1 :
              FormattedUpTo(lens, end)[i + 1] =
                FormattedUpTo(lens, end)[i] \o Argument(lens[i + 1], end)
<1> DEFINE V    == Seq(Chars)
           last == Len(lens)
           next(q, i) == q \o Argument(lens[i], end)
           step == [p \in V \X Nat |-> IF p[2] \in 1 .. last THEN next(p[1], p[2]) ELSE p[1]]
           first == Header("*", last)
<1>1. last \in Nat /\ first \in V /\ \A i \in 1 .. last : lens[i] \in Nat
  BY HeaderIs, ConnectionAssumption
<1>2. ASSUME NEW q \in V, NEW i \in 1 .. last PROVE next(q, i) \in V
  BY <1>1, ArgumentIs, ConcatProperties
<1>3. step \in [V \X Nat -> V]
  <2> HIDE DEF next, V
  <2> QED
    BY <1>2
<1>4. PICK f \in [0 .. last -> V] : Follows(f, last, first, step)
  <2> HIDE DEF V, step, first, last
  <2> QED
    BY <1>1, <1>3, Recursion
<1> HIDE DEF next, first
<1>5. ASSUME NEW i \in 0 .. last PROVE f[i] = IF i = 0 THEN first ELSE next(f[i - 1], i)
  <2>1. f[i] = IF i = 0 THEN first ELSE step[<<f[i - 1], i>>]
    BY <1>4 DEF Follows
  <2>2. CASE i = 0
    BY <2>1, <2>2
  <2>3. CASE i # 0
    <3> HIDE DEF V
    <3>1. <<f[i - 1], i>> \in V \X Nat /\ i \in 1 .. last
      BY <1>1, <2>3
    <3>2. step[<<f[i - 1], i>>] = next(f[i - 1], i)
      BY <3>1
    <3> QED
      BY <2>1, <2>3, <3>2
  <2> QED
    BY <2>2, <2>3
<1> DEFINE Solves(g) == g = [i \in 0 .. last |-> IF i = 0 THEN first ELSE next(g[i - 1], i)]
           upto == CHOOSE g : Solves(g)
<1>6. Solves(f)
  BY <1>5
<1>7. Solves(upto)
  <2> HIDE DEF Solves
  <2> QED
    BY <1>6, Zenon
<1>8. FormattedUpTo(lens, end) = upto
  BY Zenon DEF FormattedUpTo, next, first, Argument
<1> HIDE DEF upto
<1>9. ASSUME NEW i \in 0 .. last
      PROVE  upto[i] = IF i = 0 THEN first ELSE next(upto[i - 1], i)
  BY <1>7, Zenon
<1>10. upto[0] = first
  BY <1>1, <1>9
<1>11. ASSUME NEW i \in 0 .. last - 1 PROVE upto[i + 1] = next(upto[i], i + 1)
  <2>1. i + 1 \in 0 .. last /\ i + 1 # 0 /\ (i + 1) - 1 = i
    BY <1>1
  <2> QED
    BY <1>9, <2>1
<1>12. \A i \in 0 .. last : upto[i] \in V
  <2> DEFINE T == {i \in 0 .. last : upto[i] \in V}
  <2> HIDE DEF V
  <2>1. 0 \in T
    BY <1>1, <1>10
  <2>2. ASSUME NEW i \in 0 .. last - 1, i \in T PROVE i + 1 \in T
    <3>1. i + 1 \in 1 .. last /\ i + 1 \in 0 .. last
      BY <1>1
    <3> QED
      BY <1>2, <1>11, <2>2, <3>1
  <2> HIDE DEF T, last
  <2>3. \A i \in 0 .. last : i \in T
    BY <1>1, <2>1, <2>2, Induction
  <2> QED
    BY <2>3 DEF T
<1>13. upto \in [0 .. last -> V]
  BY <1>7, <1>12
<1> QED
  BY <1>8, <1>10, <1>11, <1>13 DEF first, next

\* A command in the format is a sequence of characters.
LEMMA CommandIsChars ==
  ASSUME NEW lens \in Seq(0 .. LEN_MAX), NEW end \in Seq(Chars), Len(end) = 2
  PROVE  format_resp_command(lens, end) \in Seq(Chars)
<1>1. Len(lens) \in 0 .. Len(lens)
  OBVIOUS
<1> QED
  BY <1>1, FormattedIs, Zenon DEF format_resp_command

\* Through has the values its recursion says.
LEMMA ThroughIs ==
  ASSUME NEW s \in Scripts
  PROVE  /\ Through(s, 0) = s.lead
         /\ \A i \in 0 .. Len(s.commands) : Through(s, i) \in Seq(Chars)
         /\ \A i \in 0 .. Len(s.commands) - 1 :
              Through(s, i + 1) =
                Through(s, i) \o format_resp_command(s.commands[i + 1], s.end)
<1> DEFINE V    == Seq(Chars)
           last == Len(s.commands)
           next(q, i) == q \o format_resp_command(s.commands[i], s.end)
           step == [p \in V \X Nat |-> IF p[2] \in 1 .. last THEN next(p[1], p[2]) ELSE p[1]]
           first == s.lead
<1>1. last \in Nat /\ first \in V
  <2>1. CR \in Chars /\ LF \in Chars
    BY DEF CR, LF, Character, Chars
  <2>2. s.lead \in Seq({CR, LF}) /\ s.commands \in Seq(Seq(0 .. LEN_MAX))
    BY ScriptsAssumption, Zenon
  <2>3. {CR, LF} \subseteq Chars
    BY <2>1
  <2>4. s.lead \in Seq(Chars)
    BY <2>2, <2>3, SeqMonotonic, Zenon
  <2>5. Len(s.commands) \in Nat
    BY <2>2, LenProperties, Zenon
  <2> QED
    BY <2>4, <2>5
<1>2. ASSUME NEW q \in V, NEW i \in 1 .. last PROVE next(q, i) \in V
  <2>1. s.commands \in Seq(Seq(0 .. LEN_MAX)) /\ s.end \in Seq(Chars) /\ Len(s.end) = 2
    BY ScriptsAssumption, Zenon
  <2>2. s.commands[i] \in Seq(0 .. LEN_MAX)
    BY <2>1
  <2>3. format_resp_command(s.commands[i], s.end) \in Seq(Chars)
    BY <2>1, <2>2, CommandIsChars
  <2> QED
    BY <2>3, BehindIs
<1>3. step \in [V \X Nat -> V]
  <2> HIDE DEF next, V
  <2> QED
    BY <1>2
<1>4. PICK f \in [0 .. last -> V] : Follows(f, last, first, step)
  <2> HIDE DEF V, step, first, last
  <2> QED
    BY <1>1, <1>3, Recursion
<1> HIDE DEF next, first
<1>5. ASSUME NEW i \in 0 .. last PROVE f[i] = IF i = 0 THEN first ELSE next(f[i - 1], i)
  <2>1. f[i] = IF i = 0 THEN first ELSE step[<<f[i - 1], i>>]
    BY <1>4 DEF Follows
  <2>2. CASE i = 0
    BY <2>1, <2>2
  <2>3. CASE i # 0
    <3> HIDE DEF V
    <3>1. <<f[i - 1], i>> \in V \X Nat /\ i \in 1 .. last
      BY <1>1, <2>3
    <3>2. step[<<f[i - 1], i>>] = next(f[i - 1], i)
      BY <3>1
    <3> QED
      BY <2>1, <2>3, <3>2
  <2> QED
    BY <2>2, <2>3
<1> DEFINE Solves(g) == g = [i \in 0 .. last |-> IF i = 0 THEN first ELSE next(g[i - 1], i)]
           upto == CHOOSE g : Solves(g)
<1>6. Solves(f)
  BY <1>5
<1>7. Solves(upto)
  <2> HIDE DEF Solves
  <2> QED
    BY <1>6, Zenon
<1>8. \A n : Through(s, n) = upto[n]
  BY Zenon DEF Through, next, first
<1> HIDE DEF upto
<1>9. ASSUME NEW i \in 0 .. last
      PROVE  upto[i] = IF i = 0 THEN first ELSE next(upto[i - 1], i)
  BY <1>7, Zenon
<1>10. upto[0] = first
  BY <1>1, <1>9
<1>11. ASSUME NEW i \in 0 .. last - 1 PROVE upto[i + 1] = next(upto[i], i + 1)
  <2>1. i + 1 \in 0 .. last /\ i + 1 # 0 /\ (i + 1) - 1 = i
    BY <1>1
  <2> QED
    BY <1>9, <2>1
<1>12. \A i \in 0 .. last : upto[i] \in V
  <2> DEFINE T == {i \in 0 .. last : upto[i] \in V}
  <2> HIDE DEF V
  <2>1. 0 \in T
    BY <1>1, <1>10
  <2>2. ASSUME NEW i \in 0 .. last - 1, i \in T PROVE i + 1 \in T
    <3>1. i + 1 \in 1 .. last /\ i + 1 \in 0 .. last
      BY <1>1
    <3> QED
      BY <1>2, <1>11, <2>2, <3>1
  <2> HIDE DEF T, last
  <2>3. \A i \in 0 .. last : i \in T
    BY <1>1, <2>1, <2>2, Induction
  <2> QED
    BY <2>3 DEF T
<1>13. \A i \in 0 .. last - 1 : Through(s, i + 1) = next(Through(s, i), i + 1)
  BY <1>8, <1>11
<1> QED
  BY <1>8, <1>10, <1>12, <1>13 DEF first, next

\* What a client sends is a sequence of characters.
LEMMA BytesAreChars ==
  ASSUME NEW s \in Scripts
  PROVE  Bytes(s) \in Seq(Chars)
<1>1. Len(s.commands) \in 0 .. Len(s.commands)
  <2>1. s.commands \in Seq(Seq(0 .. LEN_MAX))
    BY ScriptsAssumption, Zenon
  <2> QED
    BY <2>1
<1>2. Through(s, Len(s.commands)) \in Seq(Chars)
  BY <1>1, ThroughIs
<1>3. s.rest \in Seq(Chars)
  BY ScriptsAssumption, Zenon
<1> QED
  BY <1>2, <1>3, BehindIs DEF Bytes

\* The characters of p are the first of q.
Begins(p, q) == Len(p) <= Len(q) /\ \A x \in 1 .. Len(p) : q[x] = p[x]

\* A sequence begins what it is put in front of.
LEMMA BeginsConcat ==
  ASSUME NEW p \in Seq(Chars), NEW t \in Seq(Chars)
  PROVE  Begins(p, p \o t)
<1>1. Len(p \o t) = Len(p) + Len(t) /\ Len(p) \in Nat /\ Len(t) \in Nat
  BY BehindIs
<1>2. \A x \in 1 .. Len(p) : (p \o t)[x] = p[x]
  BY BehindIs
<1> QED
  BY <1>1, <1>2 DEF Begins

\* What begins a beginning begins the whole.
LEMMA BeginsThrough ==
  ASSUME NEW p \in Seq(Chars), NEW q \in Seq(Chars), NEW r \in Seq(Chars),
         Begins(p, q), Begins(q, r)
  PROVE  Begins(p, r)
<1>1. Len(p) \in Nat /\ Len(q) \in Nat /\ Len(r) \in Nat
  OBVIOUS
<1>2. \A x \in 1 .. Len(p) : x \in 1 .. Len(q)
  BY <1>1 DEF Begins
<1> QED
  BY <1>1, <1>2 DEF Begins

\* Where each sequence is the one before with something behind, the earlier ones begin the last.
LEMMA ChainBegins ==
  ASSUME NEW n \in Nat, NEW f \in [0 .. n -> Seq(Chars)],
         \A i \in 0 .. n - 1 : \E t \in Seq(Chars) : f[i + 1] = f[i] \o t
  PROVE  \A j \in 0 .. n : \A i \in 0 .. j : Begins(f[i], f[j])
<1> DEFINE T == {j \in 0 .. n : \A i \in 0 .. j : Begins(f[i], f[j])}
<1>1. \A j \in 0 .. n : f[j] \in Seq(Chars)
  OBVIOUS
<1>2. \A j \in 0 .. n : Begins(f[j], f[j])
  BY <1>1 DEF Begins
<1>3. 0 \in T
  BY <1>2
<1>4. ASSUME NEW j \in 0 .. n - 1, j \in T PROVE j + 1 \in T
  <2>1. j \in 0 .. n /\ j + 1 \in 0 .. n
    OBVIOUS
  <2>2. Begins(f[j], f[j + 1])
    <3>1. PICK t \in Seq(Chars) : f[j + 1] = f[j] \o t
      OBVIOUS
    <3> QED
      BY <1>1, <2>1, <3>1, BeginsConcat
  <2>3. ASSUME NEW i \in 0 .. j + 1 PROVE Begins(f[i], f[j + 1])
    <3>1. CASE i = j + 1
      BY <1>2, <2>1, <3>1
    <3>2. CASE i # j + 1
      <4>1. i \in 0 .. j /\ i \in 0 .. n
        BY <2>1, <3>2
      <4>2. Begins(f[i], f[j])
        BY <1>4, <4>1
      <4> QED
        BY <1>1, <2>1, <2>2, <4>1, <4>2, BeginsThrough
    <3> QED
      BY <3>1, <3>2
  <2> QED
    BY <2>1, <2>3
<1> HIDE DEF T
<1>5. \A j \in 0 .. n : j \in T
  BY <1>3, <1>4, Induction
<1> QED
  BY <1>5 DEF T

\* Where the headers are in the format f of a command of k arguments, and how far apart.
HeadersIn(f, lens, k) ==
  /\ \A i \in 0 .. k : f[i] \in Seq(Chars) /\ Begins(f[i], f[k])
  /\ Len(f[0]) = 4
  /\ \A i \in 0 .. k - 1 : Len(f[i + 1]) = Len(f[i]) + (lens[i + 1] + 6)
  /\ \A x \in 1 .. 4 : f[k][x] = Header("*", k)[x]
  /\ \A i \in 0 .. k - 1 : \A x \in 1 .. 4 :
       f[k][Len(f[i]) + x] = Header("$", lens[i + 1])[x]

\* The headers are where HeadersIn says.
LEMMA FormatLayout ==
  ASSUME NEW lens \in Seq(0 .. LEN_MAX), NEW end \in Seq(Chars), Len(end) = 2
  PROVE  HeadersIn(FormattedUpTo(lens, end), lens, Len(lens))
<1> DEFINE f == FormattedUpTo(lens, end)
           k == Len(lens)
<1>1. k \in Nat /\ \A i \in 1 .. k : lens[i] \in Nat
  BY ConnectionAssumption
<1>2. f \in [0 .. k -> Seq(Chars)] /\ f[0] = Header("*", k)
  BY FormattedIs
<1>3. \A i \in 0 .. k - 1 : f[i + 1] = f[i] \o Argument(lens[i + 1], end)
  BY FormattedIs
<1> HIDE DEF f, k
<1>4. ASSUME NEW i \in 0 .. k - 1
      PROVE  /\ Argument(lens[i + 1], end) \in Seq(Chars)
             /\ Len(Argument(lens[i + 1], end)) = lens[i + 1] + 6
             /\ \A x \in 1 .. 4 :
                  Argument(lens[i + 1], end)[x] = Header("$", lens[i + 1])[x]
  <2>1. lens[i + 1] \in Nat
    BY <1>1
  <2> QED
    BY <2>1, ArgumentIs
<1>5. \A i \in 0 .. k : f[i] \in Seq(Chars) /\ Len(f[i]) \in Nat
  BY <1>2
<1>6. \A j \in 0 .. k : \A i \in 0 .. j : Begins(f[i], f[j])
  BY <1>1, <1>2, <1>3, <1>4, ChainBegins
<1>7. Len(f[0]) = 4 /\ \A x \in 1 .. 4 : f[0][x] = Header("*", k)[x]
  BY <1>1, <1>2, HeaderIs
<1>8. \A x \in 1 .. 4 : f[k][x] = Header("*", k)[x]
  <2>1. 0 \in 0 .. k /\ k \in 0 .. k
    BY <1>1
  <2>2. Begins(f[0], f[k])
    BY <1>6, <2>1
  <2> QED
    BY <1>7, <2>2 DEF Begins
<1>9. ASSUME NEW i \in 0 .. k - 1
      PROVE  /\ Len(f[i + 1]) = Len(f[i]) + (lens[i + 1] + 6)
             /\ \A x \in 1 .. 4 : f[k][Len(f[i]) + x] = Header("$", lens[i + 1])[x]
  <2> DEFINE a == Argument(lens[i + 1], end)
  <2>1. i \in 0 .. k /\ i + 1 \in 0 .. k /\ k \in 0 .. k /\ lens[i + 1] \in Nat
    BY <1>1
  <2>2. /\ a \in Seq(Chars) /\ Len(a) = lens[i + 1] + 6
        /\ \A x \in 1 .. 4 : a[x] = Header("$", lens[i + 1])[x]
    BY <1>4
  <2>3. f[i + 1] = f[i] \o a
    BY <1>3
  <2> HIDE DEF a
  <2>4. f[i] \in Seq(Chars) /\ Len(f[i]) \in Nat /\ a \in Seq(Chars)
    BY <1>5, <2>1, <2>2
  <2>5. Len(f[i] \o a) = Len(f[i]) + Len(a)
    BY <2>4, BehindIs
  <2>6. \A x \in 1 .. Len(a) : (f[i] \o a)[Len(f[i]) + x] = a[x]
    BY <2>4, BehindIs
  <2>7. Len(f[i + 1]) = Len(f[i]) + (lens[i + 1] + 6)
    BY <2>2, <2>3, <2>5, Zenon
  <2>8. Begins(f[i + 1], f[k])
    BY <1>6, <2>1
  <2>9. ASSUME NEW x \in 1 .. 4 PROVE f[k][Len(f[i]) + x] = Header("$", lens[i + 1])[x]
    <3>1. x \in 1 .. Len(a)
      BY <2>1, <2>2
    <3>2. Len(f[i]) + x \in 1 .. Len(f[i + 1])
      <4>1. Len(f[i + 1]) = Len(f[i]) + Len(a)
        BY <2>3, <2>5, Zenon
      <4>2. Len(a) \in Nat
        BY <2>4
      <4> QED
        BY <2>4, <3>1, <4>1, <4>2
    <3>3. f[k][Len(f[i]) + x] = f[i + 1][Len(f[i]) + x]
      BY <2>8, <3>2 DEF Begins
    <3>4. f[i + 1][Len(f[i]) + x] = a[x]
      BY <2>3, <2>6, <3>1
    <3> QED
      BY <2>2, <3>3, <3>4
  <2> QED
    BY <2>7, <2>9
<1>10. \A i \in 0 .. k : Begins(f[i], f[k])
  BY <1>1, <1>6
<1> QED
  BY <1>5, <1>7, <1>8, <1>9, <1>10, Zenon DEF HeadersIn, f, k

\* Where, in what a client sends, the first i arguments of its first command end.
ArgEnd(s, i) == Len(s.lead) + Len(FormattedUpTo(s.commands[1], s.end)[i])

\* What ScriptsAssumption says of one script.
LEMMA ScriptIs ==
  ASSUME NEW s \in Scripts
  PROVE  /\ s.lead \in Seq(Chars) /\ Len(s.lead) \in Nat
         /\ \A x \in 1 .. Len(s.lead) : s.lead[x] \in {CR, LF}
         /\ s.end \in Seq(Chars) /\ Len(s.end) = 2 /\ s.rest \in Seq(Chars)
         /\ Len(s.commands) \in Nat
         /\ \A n \in 1 .. Len(s.commands) :
              s.commands[n] \in Seq(0 .. LEN_MAX) /\ Len(s.commands[n]) \in 1 .. ARGS_MAX
<1>1. /\ s.lead \in Seq({CR, LF}) /\ s.end \in Seq(Chars) /\ Len(s.end) = 2
      /\ s.rest \in Seq(Chars)
  BY ScriptsAssumption, Zenon
<1>2. /\ s.commands \in Seq(Seq(0 .. LEN_MAX))
      /\ \A n \in 1 .. Len(s.commands) : Len(s.commands[n]) \in 1 .. ARGS_MAX
  BY ScriptsAssumption, Zenon
<1>3. CR \in Chars /\ LF \in Chars
  BY DEF CR, LF, Character, Chars
<1>4. s.lead \in Seq(Chars) /\ Len(s.lead) \in Nat
  BY <1>1, <1>3
<1>5. \A x \in 1 .. Len(s.lead) : s.lead[x] \in {CR, LF}
  BY <1>1
<1>6. Len(s.commands) \in Nat /\ \A n \in 1 .. Len(s.commands) : s.commands[n] \in Seq(0 .. LEN_MAX)
  BY <1>2
<1> QED
  BY <1>1, <1>2, <1>4, <1>5, <1>6

\* What the first n commands of a script take begins the script.
LEMMA ThroughBegins ==
  ASSUME NEW s \in Scripts, NEW m \in 0 .. Len(s.commands), NEW n \in 0 .. m
  PROVE  Begins(Through(s, n), Through(s, m)) /\ Begins(Through(s, n), Bytes(s))
<1> DEFINE last == Len(s.commands)
           f == [i \in 0 .. last |-> Through(s, i)]
           cmd(i) == format_resp_command(s.commands[i], s.end)
<1>1. last \in Nat
  BY ScriptIs
<1>2. f \in [0 .. last -> Seq(Chars)]
  BY ThroughIs
<1>3. ASSUME NEW i \in 0 .. last - 1 PROVE \E t \in Seq(Chars) : f[i + 1] = f[i] \o t
  <2>1. i + 1 \in 1 .. last /\ i \in 0 .. last /\ i + 1 \in 0 .. last
    BY <1>1
  <2>2. cmd(i + 1) \in Seq(Chars)
    BY <2>1, ScriptIs, CommandIsChars
  <2>3. f[i + 1] = f[i] \o cmd(i + 1)
    BY <2>1, ThroughIs
  <2> HIDE DEF f, cmd
  <2> QED
    BY <2>2, <2>3
<1>4. f[n] = Through(s, n) /\ f[m] = Through(s, m) /\ f[last] = Through(s, last)
  BY <1>1
<1> HIDE DEF f
<1>5. \A j \in 0 .. last : \A i \in 0 .. j : Begins(f[i], f[j])
  BY <1>1, <1>2, <1>3, ChainBegins
<1>6. Begins(Through(s, n), Through(s, m))
  <2>1. m \in 0 .. last /\ n \in 0 .. m
    OBVIOUS
  <2>2. Begins(f[n], f[m])
    BY <1>5, <2>1
  <2> QED
    BY <1>4, <2>2
<1>7. Begins(Through(s, n), Through(s, last))
  <2>1. last \in 0 .. last /\ n \in 0 .. last
    BY <1>1
  <2>2. Begins(f[n], f[last])
    BY <1>5, <2>1
  <2> QED
    BY <1>4, <2>2
<1>8. Begins(Through(s, last), Bytes(s))
  <2>1. Through(s, last) \in Seq(Chars) /\ s.rest \in Seq(Chars)
    <3>1. last \in 0 .. last
      BY <1>1
    <3> QED
      BY <3>1, ThroughIs, ScriptIs
  <2> QED
    BY <2>1, BeginsConcat DEF Bytes
<1>9. Through(s, n) \in Seq(Chars) /\ Through(s, last) \in Seq(Chars)
  <2>1. last \in 0 .. last /\ n \in 0 .. last
    BY <1>1
  <2> QED
    BY <2>1, ThroughIs
<1> QED
  BY <1>6, <1>7, <1>8, <1>9, BytesAreChars, BeginsThrough

\* Where the line ends and the headers of the first command, of k arguments of the lengths
\* lens, are in what a client sends.
LaidOut(s, lens, k) ==
  /\ k \in 1 .. ARGS_MAX /\ lens \in Seq(0 .. LEN_MAX)
  /\ ArgEnd(s, 0) = Len(s.lead) + 4
  /\ \A i \in 0 .. k : ArgEnd(s, i) \in Nat /\ ArgEnd(s, i) <= ArgEnd(s, k)
  /\ \A i \in 0 .. k - 1 : ArgEnd(s, i + 1) = ArgEnd(s, i) + (lens[i + 1] + 6)
  /\ 1 \in 1 .. Len(s.commands) /\ Len(Through(s, 1)) = ArgEnd(s, k)
  /\ \A n \in 1 .. Len(s.commands) : ArgEnd(s, k) <= Len(Through(s, n))
  /\ \A x \in 1 .. Len(s.lead) : Bytes(s)[x] \in {CR, LF}
  /\ \A x \in 1 .. 4 : Bytes(s)[Len(s.lead) + x] = Header("*", k)[x]
  /\ \A i \in 0 .. k - 1 : \A x \in 1 .. 4 :
       Bytes(s)[ArgEnd(s, i) + x] = Header("$", lens[i + 1])[x]

\* They are where LaidOut says.
LEMMA Layout ==
  ASSUME NEW s \in Scripts, s.commands # <<>>,
         NEW lens, lens = s.commands[1], NEW k, k = Len(lens)
  PROVE  LaidOut(s, lens, k)
<1> DEFINE l == Len(s.lead)
           f == FormattedUpTo(lens, s.end)
           B == Bytes(s)
           T == Through(s, 1)
<1>1. /\ l \in Nat /\ s.lead \in Seq(Chars) /\ s.end \in Seq(Chars) /\ Len(s.end) = 2
      /\ \A x \in 1 .. l : s.lead[x] \in {CR, LF}
  BY ScriptIs
<1>2. Len(s.commands) \in Nat \ {0}
  <2>1. s.commands \in Seq(Seq(0 .. LEN_MAX))
    BY ScriptsAssumption, Zenon
  <2> QED
    BY <2>1
<1>3. 1 \in 1 .. Len(s.commands) /\ 0 \in 0 .. Len(s.commands) - 1
  BY <1>2
<1>4. lens \in Seq(0 .. LEN_MAX) /\ k \in 1 .. ARGS_MAX
  BY <1>3, ScriptIs
<1>5. \A i \in 0 .. k : ArgEnd(s, i) = l + Len(f[i])
  BY DEF ArgEnd
<1>6. /\ \A i \in 0 .. k : f[i] \in Seq(Chars) /\ Begins(f[i], f[k])
      /\ Len(f[0]) = 4
      /\ \A i \in 0 .. k - 1 : Len(f[i + 1]) = Len(f[i]) + (lens[i + 1] + 6)
      /\ \A x \in 1 .. 4 : f[k][x] = Header("*", k)[x]
      /\ \A i \in 0 .. k - 1 : \A x \in 1 .. 4 :
           f[k][Len(f[i]) + x] = Header("$", lens[i + 1])[x]
  <2>1. f = FormattedUpTo(lens, s.end) /\ k = Len(lens)
    OBVIOUS
  <2>2. lens \in Seq(0 .. LEN_MAX) /\ s.end \in Seq(Chars) /\ Len(s.end) = 2
    BY <1>1, <1>4
  <2> HIDE DEF f
  <2>3. HeadersIn(f, lens, k)
    BY <2>1, <2>2, FormatLayout
  <2> QED
    BY <2>1, <2>3, Zenon DEF HeadersIn
<1>7. T = s.lead \o f[k]
  <2>1. Through(s, 0 + 1) = Through(s, 0) \o format_resp_command(s.commands[0 + 1], s.end)
    BY <1>3, ThroughIs, Zenon
  <2>2. Through(s, 0) = s.lead
    BY ThroughIs, Zenon
  <2>3. format_resp_command(lens, s.end) = f[k]
    BY DEF format_resp_command
  <2>4. 0 + 1 = 1
    OBVIOUS
  <2> HIDE DEF f
  <2> QED
    BY <2>1, <2>2, <2>3, <2>4, Zenon
<1>8. Begins(T, B) /\ \A n \in 1 .. Len(s.commands) : Begins(T, Through(s, n))
  <2>1. \A n \in 1 .. Len(s.commands) : n \in 0 .. Len(s.commands) /\ 1 \in 0 .. n
    BY <1>2
  <2> QED
    BY <1>3, <2>1, ThroughBegins
<1> HIDE DEF l, f, B, T
<1>9. \A i \in 0 .. k : Len(f[i]) \in Nat /\ Len(f[i]) <= Len(f[k])
  BY <1>6 DEF Begins
<1>10. f[k] \in Seq(Chars) /\ s.lead \in Seq(Chars) /\ k \in Nat /\ Len(f[k]) \in Nat
  BY <1>1, <1>4, <1>6
<1>11. Len(T) = l + Len(f[k])
  BY <1>7, <1>10, BehindIs DEF l
<1>12. \A x \in 1 .. l : T[x] = s.lead[x]
  BY <1>7, <1>10, BehindIs DEF l
<1>13. \A x \in 1 .. Len(f[k]) : T[l + x] = f[k][x]
  BY <1>7, <1>10, BehindIs DEF l
<1>14. \A x \in 1 .. l + Len(f[k]) : B[x] = T[x]
  BY <1>8, <1>11 DEF Begins
<1>15. \A x \in 1 .. l : B[x] \in {CR, LF}
  <2>1. \A x \in 1 .. l : x \in 1 .. l + Len(f[k])
    BY <1>1, <1>10
  <2> QED
    BY <1>1, <1>12, <1>14, <2>1
<1>16. \A x \in 1 .. Len(f[k]) : B[l + x] = f[k][x]
  <2>1. \A x \in 1 .. Len(f[k]) : l + x \in 1 .. l + Len(f[k])
    BY <1>1, <1>10
  <2> QED
    BY <1>13, <1>14, <2>1
<1>17. Len(f[0]) = 4 /\ Len(f[k]) >= 4
  <2>1. Len(f[0]) = 4
    BY <1>6, Zenon
  <2>2. Len(f[0]) <= Len(f[k]) /\ Len(f[k]) \in Nat
    <3>1. 0 \in 0 .. k
      BY <1>10
    <3> QED
      BY <1>9, <1>10, <3>1
  <2> QED
    BY <2>1, <2>2
<1>18. \A x \in 1 .. 4 : B[l + x] = Header("*", k)[x]
  <2>1. \A x \in 1 .. 4 : x \in 1 .. Len(f[k])
    BY <1>10, <1>17
  <2> QED
    BY <1>6, <1>16, <2>1, Zenon
<1>19. ArgEnd(s, 0) = l + 4 /\ ArgEnd(s, k) = Len(T)
  <2>1. 0 \in 0 .. k /\ k \in 0 .. k
    BY <1>10
  <2>2. ArgEnd(s, 0) = l + Len(f[0]) /\ ArgEnd(s, k) = l + Len(f[k])
    BY <1>5, <2>1, Zenon
  <2> QED
    BY <1>11, <1>17, <2>2
<1>20. ASSUME NEW i \in 0 .. k PROVE ArgEnd(s, i) \in Nat /\ ArgEnd(s, i) <= ArgEnd(s, k)
  <2>1. k \in 0 .. k
    BY <1>10
  <2>2. ArgEnd(s, i) = l + Len(f[i]) /\ ArgEnd(s, k) = l + Len(f[k])
    BY <1>5, <2>1, Zenon
  <2>3. Len(f[i]) \in Nat /\ Len(f[i]) <= Len(f[k])
    BY <1>9
  <2>4. l \in Nat /\ Len(f[k]) \in Nat
    BY <1>1, <1>10
  <2> QED
    BY <2>2, <2>3, <2>4
<1>21. ASSUME NEW i \in 0 .. k - 1
       PROVE  /\ ArgEnd(s, i + 1) = ArgEnd(s, i) + (lens[i + 1] + 6)
              /\ \A x \in 1 .. 4 : B[ArgEnd(s, i) + x] = Header("$", lens[i + 1])[x]
  <2> DEFINE here == Len(f[i])
             then == Len(f[i + 1])
             all  == Len(f[k])
             len  == lens[i + 1]
  <2>1. i \in 0 .. k /\ i + 1 \in 0 .. k /\ len \in Nat
    BY <1>4, <1>10, ConnectionAssumption
  <2>2. ArgEnd(s, i) = l + here /\ ArgEnd(s, i + 1) = l + then
    BY <1>5, <2>1, Zenon
  <2>3. here \in Nat /\ then <= all /\ all \in Nat
    BY <1>9, <1>10, <2>1
  <2>4. then = here + (len + 6)
    BY <1>6, Zenon
  <2>5. l \in Nat
    BY <1>1
  <2>6. ASSUME NEW x \in 1 .. 4 PROVE B[ArgEnd(s, i) + x] = Header("$", lens[i + 1])[x]
    <3> HIDE DEF here, then, all, len
    <3>1. here + x \in 1 .. all
      BY <2>1, <2>3, <2>4
    <3>2. B[l + (here + x)] = f[k][here + x]
      BY <1>16, <3>1 DEF all
    <3>3. ArgEnd(s, i) + x = l + (here + x)
      BY <2>2, <2>3, <2>5
    <3>4. f[k][here + x] = Header("$", lens[i + 1])[x]
      BY <1>6, Zenon DEF here
    <3> QED
      BY <3>2, <3>3, <3>4
  <2> HIDE DEF here, then, all, len
  <2>7. ArgEnd(s, i + 1) = ArgEnd(s, i) + (len + 6)
    BY <2>1, <2>2, <2>3, <2>4, <2>5
  <2> QED
    BY <2>6, <2>7 DEF len
<1>22. \A n \in 1 .. Len(s.commands) : ArgEnd(s, k) <= Len(Through(s, n))
  BY <1>8, <1>19 DEF Begins
<1> QED
  BY <1>3, <1>4, <1>15, <1>18, <1>19, <1>20, <1>21, <1>22 DEF l, B, T, LaidOut

\* What the parser makes of a buffer that begins with a header, or with a part of one: the
\* line is complete when the header is, and then the number is that of the header.
LEMMA HeaderParsed ==
  ASSUME NEW b \in Seq(Chars), NEW mark \in {"*", "$"}, NEW n \in Nat,
         \A x \in 1 .. 4 : x <= Len(b) => b[x] = Header(mark, n)[x]
  PROVE  /\ b # <<>> => b[1].char = mark
         /\ Len(b) >= 4 => HasLine(b)
         /\ HasLine(b) => Len(b) >= 4 /\ FirstCR(b) = 3 /\ Numbers(b) = {n}
<1> DEFINE I == { i \in 1 .. Len(b) : b[i] = CR }
<1> DEFINE h == Header(mark, n)
<1>1. /\ h[1].char = mark /\ h[1] # CR
      /\ h[2].num = n /\ h[2] \notin {CR, LF}
      /\ h[3] = CR /\ h[4] = LF
  <2>1. /\ h \in Seq(Chars) /\ Len(h) = 4
        /\ h[1].char = mark /\ h[1] \notin {CR, LF}
        /\ h[2].num = n /\ h[2] \notin {CR, LF}
        /\ h[3] = CR /\ h[4] = LF
    BY HeaderIs, Zenon
  <2> HIDE DEF h
  <2> QED
    BY <2>1
<1>2. Len(b) \in Nat /\ (b # <<>> => Len(b) >= 1)
  OBVIOUS
<1>3. /\ Len(b) >= 1 => b[1].char = mark /\ b[1] # CR
      /\ Len(b) >= 2 => b[2].num = n /\ b[2] \notin {CR, LF}
      /\ Len(b) >= 3 => b[3] = CR
      /\ Len(b) >= 4 => b[4] = LF
  <2>1. \A x \in 1 .. 4 : x <= Len(b) => b[x] = h[x]
    OBVIOUS
  <2> HIDE DEF h
  <2> QED
    BY <1>1, <2>1
<1>4. FirstCR(b) = IF I # {} THEN Min(I) ELSE 0
  BY DEF FirstCR, SelectInSeq
<1>5. I \subseteq 1 .. Len(b) /\ I \subseteq Nat
  OBVIOUS
<1>6. Len(b) >= 3 => 3 \in I
  BY <1>2, <1>3
<1>7. \A i \in I : i >= 3 /\ i <= Len(b)
  BY <1>2, <1>3
<1> HIDE DEF I
<1>8. I # {} => Min(I) \in I /\ \A i \in I : Min(I) <= i
  BY <1>5, MinIsLeast
<1>9. ASSUME Len(b) >= 3 PROVE FirstCR(b) = 3
  <2>1. 3 \in I /\ I # {} /\ \A i \in I : 3 <= i
    BY <1>5, <1>6, <1>7, <1>9
  <2>2. Min(I) = 3
    BY <1>5, <2>1, LeastIsMin
  <2> QED
    BY <1>4, <2>1, <2>2, Zenon
<1>10. FirstCR(b) # 0 => Len(b) >= 3
  <2>1. CASE I = {}
    BY <1>4, <2>1, Zenon
  <2>2. CASE I # {}
    <3>1. PICK i \in I : TRUE
      BY <2>2
    <3>2. i >= 3 /\ i <= Len(b) /\ i \in Nat
      BY <1>5, <1>7
    <3> QED
      BY <1>2, <3>2
  <2> QED
    BY <2>1, <2>2
<1>11. HasLine(b) => Len(b) >= 4
  BY <1>2, <1>9, <1>10 DEF HasLine
<1>12. Len(b) >= 4 => HasLine(b)
  BY <1>2, <1>3, <1>9 DEF HasLine
<1>13. ASSUME Len(b) >= 4 PROVE Numbers(b) = {n}
  <2> DEFINE t == Tail(b)
             E == { i \in 1 .. Len(t) : t[i] \notin {CR, LF} }
  <2>1. t \in Seq(Chars) /\ Len(t) >= 1 /\ t[1] = b[2]
    BY <1>13
  <2>2. Numbers(b) = IF (IF E # {} THEN Min(E) ELSE 0) = 0 THEN 0 .. LEN_MAX + 1
                     ELSE {t[IF E # {} THEN Min(E) ELSE 0].num}
    BY DEF Numbers, SelectInSeq
  <2> HIDE DEF t
  <2>3. 1 \in E /\ E \subseteq Nat /\ \A i \in E : i >= 1
    BY <1>2, <1>3, <1>13, <2>1
  <2> HIDE DEF E
  <2>4. Min(E) = 1
    <3>1. \A i \in E : 1 <= i
      BY <2>3
    <3> QED
      BY <2>3, <3>1, LeastIsMin
  <2>5. Numbers(b) = {t[1].num}
    BY <2>2, <2>3, <2>4
  <2> QED
    BY <1>2, <1>3, <1>13, <2>1, <2>5
<1> QED
  BY <1>2, <1>3, <1>9, <1>11, <1>12, <1>13

\* Exactly the line ends at the head of a buffer are stripped.
LEMMA StrippedLead ==
  ASSUME NEW b \in Seq(Chars), NEW n \in Nat,
         \A x \in 1 .. Len(b) : x <= n => b[x] \in {CR, LF},
         n < Len(b) => b[n + 1] \notin {CR, LF}
  PROVE  /\ Len(b) <= n => Stripped(b) = <<>>
         /\ n < Len(b) => Stripped(b) = After(b, n)
<1> DEFINE E == { i \in 1 .. Len(b) : b[i] \notin {CR, LF} }
           first == IF E # {} THEN Min(E) ELSE 0
<1>1. Stripped(b) = IF first = 0 THEN <<>> ELSE After(b, first - 1)
  BY DEF Stripped, SelectInSeq
<1>2. Len(b) \in Nat /\ E \subseteq Nat
  OBVIOUS
<1>3. Len(b) <= n => E = {}
  BY <1>2
<1>4. n < Len(b) => n + 1 \in E /\ \A i \in E : i >= n + 1
  BY <1>2
<1> HIDE DEF E
<1>5. ASSUME n < Len(b) PROVE Min(E) = n + 1
  <2>1. n + 1 \in E /\ \A i \in E : n + 1 <= i
    BY <1>2, <1>4, <1>5
  <2> QED
    BY <1>2, <2>1, LeastIsMin
<1>6. ASSUME n < Len(b) PROVE Stripped(b) = After(b, n)
  <2>1. first = n + 1
    BY <1>4, <1>5, <1>6
  <2>2. n + 1 # 0 /\ (n + 1) - 1 = n
    OBVIOUS
  <2> HIDE DEF first
  <2> QED
    BY <1>1, <2>1, <2>2
<1>7. ASSUME Len(b) <= n PROVE Stripped(b) = <<>>
  BY <1>1, <1>3, <1>7
<1> QED
  BY <1>6, <1>7

-----------------------------------------------------------------------------
(***************************************************************************)
(* The inductive invariant.                                                *)
(***************************************************************************)

\* The line of a header is not complete.
BreaksOn(b, mark) == ~HasLine(b) /\ (b # <<>> => b[1].char = mark)

\* In the state it is in, and with what is in the buffer, all that the parser can do is wait.
Starved ==
  /\ state = "EXPECT_TYPE"   => BreaksOn(Stripped(buffer), "*")
  /\ state = "EXPECT_LENGTH" => BreaksOn(buffer, "$")
  /\ state = "EXPECT_DATA"   => Len(buffer) < DataAndEnd

\* The parser is starved between callbacks, and when it runs for a stream that closes.
ParserStarved == stream # "closed" /\ (parsing <=> stream = "closing") => Starved

\* What is on its way to the parser.
StreamsOfChars == buffer \in Seq(Chars) /\ inbox \in Seq(Chars) /\ unsent \in Seq(Chars)

\* Nothing has been done for the connection yet.
Blank ==
  /\ timer = "none" /\ writes = <<>> /\ buffer = <<>> /\ state = "EXPECT_TYPE"
  /\ ~parsing /\ ~temp_argv /\ args_parsed = 0 /\ executed = 0

\* The states of the two handles, of the context, of the parser and of the loop that go
\* together.
HandlesFit ==
  /\ stream = "none" <=> ctx \in {"none", "refused"}
  /\ stream = "none" => Blank
  /\ stream = "open" => timer = "running"
  /\ stream = "closing" => timer \in {"none", "running", "stopped"}
  /\ stream = "closing" /\ timer = "none" => writes = <<>> /\ ~parsing /\ executed = 0
  /\ stream = "closed" => timer \in {"closing", "closed"} /\ writes = <<>> /\ ~parsing /\ ~temp_argv
  /\ ctx = "freed" <=> timer = "closed"
  /\ parsing => phase = "poll" /\ timer = "running"
  /\ phase = "timers" /\ timer = "running" => stream = "open"

\* One command, one reply.
OneReply ==
  /\ executed \in {0, 1}
  /\ writes = <<>> \/ (executed = 1 /\ \E w \in {"sent", "queued", "failed"} : writes = <<w>>)

\* The blocks allocated for arguments are those the context points to.
BlocksCounted ==
  /\ blocks = IF temp_argv THEN 1 + args_parsed ELSE 0
  /\ stream = "open" => (temp_argv <=> args_parsed # 0)
  /\ state = "EXPECT_TYPE" => ~temp_argv /\ args_parsed = 0

\* While the stream is open the command was executed when all its arguments are there; the
\* parser is then in the middle of the next, which it takes for more arguments.
OneCommand ==
  stream = "open" =>
    IF state = "EXPECT_TYPE" THEN executed = 0
    ELSE args_total >= 1 /\ (executed = 1 <=> args_parsed >= args_total)

\* The inductive invariant.
CInv ==
  /\ TypeOK /\ StreamsOfChars /\ AbortsAreExplained
  /\ ParserStarved /\ HandlesFit /\ OneReply /\ BlocksCounted /\ OneCommand

\* The outcomes in the sequences of writes that occur.
LEMMA OutcomeSets ==
  /\ ToSet(<<>>) = {}
  /\ \A w : ToSet(<<w>>) = {w}
BY DEF ToSet

\* A sequence of at most one write is typed.
LEMMA RepliesTyped ==
  ASSUME NEW q, q = <<>> \/ \E w \in {"sent", "queued", "failed"} : q = <<w>>
  PROVE  ToSet(q) \subseteq {"sent", "queued", "failed"}
BY DEF ToSet

\* On an empty buffer the parser waits.
LEMMA EmptyBreaks == Stripped(<<>>) = <<>> /\ BreaksOn(<<>>, "*")
<1>1. FirstCR(<<>>) = 0
  <2>1. <<>> \in Seq(Chars) /\ Len(<<>>) = 0
    OBVIOUS
  <2>2. FirstCR(<<>>) \in 0 .. 0
    BY <2>1, FirstCRIsPosition
  <2> QED
    BY <2>2
<1>2. Stripped(<<>>) = <<>>
  <2> DEFINE I == { i \in 1 .. Len(<<>>) : <<>>[i] \notin {CR, LF} }
  <2>1. Stripped(<<>>) = IF (IF I # {} THEN Min(I) ELSE 0) = 0 THEN <<>>
                         ELSE After(<<>>, (IF I # {} THEN Min(I) ELSE 0) - 1)
    BY DEF Stripped, SelectInSeq
  <2>2. I = {}
    OBVIOUS
  <2> HIDE DEF I
  <2> QED
    BY <2>1, <2>2
<1> QED
  BY <1>1, <1>2 DEF BreaksOn, HasLine

\* CInv holds at the start.
LEMMA InitCInv == Init => CInv
<1> SUFFICES ASSUME Init PROVE CInv
  OBVIOUS
<1>1. TypeOK
  <2>1. ToSet(writes) \subseteq {"sent", "queued", "failed"}
    BY RepliesTyped DEF Init
  <2>2. temp_argv \in BOOLEAN /\ parsing \in BOOLEAN
    BY DEF Init
  <2>3. args_total \in 0 .. ARGS_MAX /\ args_parsed \in Nat /\ data_to_read \in 0 .. LEN_MAX
    BY ConnectionAssumption DEF Init
  <2>4. executed \in Nat /\ blocks \in Int
    BY DEF Init
  <2> QED
    BY <2>1, <2>2, <2>3, <2>4 DEF Init, TypeOK
<1>2. StreamsOfChars
  <2>1. unsent \in Seq(Chars)
    BY BytesAreChars DEF Init
  <2>2. buffer \in Seq(Chars) /\ inbox \in Seq(Chars)
    BY DEF Init
  <2> QED
    BY <2>1, <2>2 DEF StreamsOfChars
<1>3. ParserStarved
  BY EmptyBreaks DEF Init, ParserStarved, Starved
<1> QED
  BY <1>1, <1>2, <1>3 DEF Init, CInv, AbortsAreExplained, HandlesFit, Blank, OneReply,
     BlocksCounted, OneCommand

-----------------------------------------------------------------------------
(***************************************************************************)
(* The steps of the client, of the loop and of its callbacks.              *)
(***************************************************************************)

\* What the client does reaches the inbox only.
LEMMA ClientPreserves ==
  ASSUME CInv, ClientSends \/ ClientLeaves
  PROVE  CInv'
<1> USE DEF Unseen, handles, parser, counts, memory
<1>1. StreamsOfChars'
  <2>1. CASE ClientSends
    BY <2>1 DEF ClientSends, CInv, StreamsOfChars
  <2>2. CASE ClientLeaves
    BY <2>2 DEF ClientLeaves, CInv, StreamsOfChars
  <2> QED
    BY <2>1, <2>2
<1>2. TypeOK'
  BY DEF CInv, TypeOK, ClientSends, ClientLeaves
<1>3. UNCHANGED <<phase, handles, ctx, parser, status>>
  BY DEF ClientSends, ClientLeaves
<1>4. (AbortsAreExplained /\ ParserStarved /\ HandlesFit)'
  BY <1>3 DEF CInv, AbortsAreExplained, ParserStarved, Starved, DataAndEnd, HandlesFit, Blank
<1>5. (OneReply /\ BlocksCounted /\ OneCommand)'
  BY <1>3 DEF CInv, OneReply, BlocksCounted, OneCommand
<1> QED
  BY <1>1, <1>2, <1>4, <1>5 DEF CInv

\* on_new_connection sets the context up; its stream is closing when uv_accept failed.
LEMMA NewConnectionPreserves ==
  ASSUME CInv, on_new_connection
  PROVE  CInv'
<1> USE DEF client, memory, reset_parser, In
<1>1. ctx = "none" /\ stream = "none" /\ Blank
  BY DEF CInv, HandlesFit, on_new_connection
<1>2. TypeOK'
  <2>1. args_total' \in 0 .. ARGS_MAX /\ args_parsed' \in Nat /\ data_to_read' \in 0 .. LEN_MAX
    BY ConnectionAssumption DEF on_new_connection
  <2> QED
    BY <1>1, <2>1 DEF on_new_connection, CInv, TypeOK, Blank
<1>3. StreamsOfChars'
  BY DEF on_new_connection, CInv, StreamsOfChars
<1>4. AbortsAreExplained'
  BY DEF on_new_connection, AbortsAreExplained
<1>5. ParserStarved'
  BY <1>1, EmptyBreaks DEF on_new_connection, ParserStarved, Starved, Blank
<1>6. HandlesFit'
  BY <1>1 DEF on_new_connection, HandlesFit, Blank
<1>7. OneReply' /\ BlocksCounted' /\ OneCommand'
  BY <1>1 DEF on_new_connection, CInv, OneReply, BlocksCounted, OneCommand, Blank
<1> QED
  BY <1>2, <1>3, <1>4, <1>5, <1>6, <1>7 DEF CInv

\* on_read keeps the stream, or closes it once.
LEMMA ReadPreserves ==
  ASSUME CInv, on_read
  PROVE  CInv'
<1> USE DEF memory, counts, In
<1>1. status = "up" /\ phase = "poll" /\ ~parsing /\ stream = "open" /\ ctx = "live"
  BY DEF CInv, TypeOK, HandlesFit, on_read
<1>2. \/ /\ timer' = "running" /\ parsing' = TRUE /\ inbox' = <<>>
         /\ buffer' = buffer \o inbox /\ stream' = "open" /\ status' = "up"
      \/ /\ timer' = "running" /\ parsing' = TRUE /\ inbox' = <<>>
         /\ buffer' = buffer /\ stream' = "closing" /\ status' = "up"
      \/ /\ timer' = "stopped" /\ parsing' = FALSE /\ inbox' = inbox
         /\ buffer' = buffer /\ stream' = "closing" /\ status' = "up"
  BY <1>1 DEF CInv, TypeOK, on_read, ReadData, ReadError, CloseStream
<1>3. UNCHANGED <<unsent, peer, phase, writes, ctx, state, args_total, args_parsed,
                  data_to_read, temp_argv, blocks, executed>>
  BY DEF on_read
<1>4. TypeOK'
  BY <1>2, <1>3 DEF CInv, TypeOK
<1>5. StreamsOfChars'
  <2>1. buffer \o inbox \in Seq(Chars) /\ <<>> \in Seq(Chars)
    BY ConcatProperties DEF CInv, StreamsOfChars
  <2> QED
    BY <1>2, <1>3, <2>1 DEF CInv, StreamsOfChars
<1>6. AbortsAreExplained'
  BY <1>2 DEF AbortsAreExplained
<1>7. ParserStarved'
  BY <1>1, <1>2, <1>3 DEF CInv, ParserStarved, Starved, DataAndEnd
<1>8. HandlesFit'
  BY <1>1, <1>2, <1>3 DEF CInv, HandlesFit
<1>9. OneReply' /\ BlocksCounted' /\ OneCommand'
  BY <1>1, <1>2, <1>3 DEF CInv, OneReply, BlocksCounted, OneCommand
<1> QED
  BY <1>4, <1>5, <1>6, <1>7, <1>8, <1>9 DEF CInv

\* on_write_complete, for the only write there is, closes the stream at most once.
LEMMA WriteEndsPreserves ==
  ASSUME CInv, WriteEnds
  PROVE  CInv'
<1> USE DEF client, parser, memory, counts, In
<1>1. /\ status = "up" /\ phase # "timers" /\ ~parsing /\ stream = "open"
      /\ \E w \in {"sent", "queued", "failed"} : writes = <<w>>
  BY DEF CInv, OneReply, WriteEnds
<1>2. /\ status' \in {"up", "corrupt"} /\ stream' \in {"open", "closing"} /\ writes' = <<>>
      /\ UNCHANGED <<inbox, unsent, peer, phase, timer, ctx, buffer, state, args_total,
                     args_parsed, data_to_read, temp_argv, blocks, parsing, executed>>
  BY <1>1 DEF WriteEnds, on_write_complete, CloseStream, WildHandle
<1>3. TypeOK'
  <2>1. ToSet(writes') \subseteq {"sent", "queued", "failed"}
    BY <1>2, RepliesTyped
  <2> QED
    BY <1>2, <2>1 DEF CInv, TypeOK
<1>4. StreamsOfChars' /\ AbortsAreExplained'
  BY <1>2 DEF CInv, StreamsOfChars, AbortsAreExplained
<1>5. ParserStarved'
  BY <1>1, <1>2 DEF CInv, ParserStarved, Starved, DataAndEnd
<1>6. HandlesFit'
  BY <1>1, <1>2 DEF CInv, HandlesFit
<1>7. OneReply' /\ BlocksCounted' /\ OneCommand'
  BY <1>1, <1>2 DEF CInv, OneReply, BlocksCounted, OneCommand
<1> QED
  BY <1>3, <1>4, <1>5, <1>6, <1>7 DEF CInv

\* on_client_timeout finds the stream open, since its timer runs.
LEMMA TimeoutPreserves ==
  ASSUME CInv, on_client_timeout
  PROVE  CInv'
<1> USE DEF client, parser, memory, counts, In
<1>1. status = "up" /\ phase = "timers" /\ ~parsing /\ stream = "open" /\ timer = "running"
  BY DEF CInv, HandlesFit, on_client_timeout
<1>2. /\ status' = "up" /\ stream' = "closing" /\ timer' = "stopped"
      /\ UNCHANGED <<inbox, unsent, peer, phase, writes, ctx, buffer, state, args_total,
                     args_parsed, data_to_read, temp_argv, blocks, parsing, executed>>
  BY <1>1 DEF on_client_timeout, CloseStream
<1>3. TypeOK' /\ StreamsOfChars' /\ AbortsAreExplained'
  BY <1>2 DEF CInv, TypeOK, StreamsOfChars, AbortsAreExplained
<1>4. ParserStarved' /\ HandlesFit'
  BY <1>1, <1>2 DEF CInv, ParserStarved, HandlesFit
<1>5. OneReply' /\ BlocksCounted' /\ OneCommand'
  BY <1>1, <1>2 DEF CInv, OneReply, BlocksCounted, OneCommand
<1> QED
  BY <1>3, <1>4, <1>5 DEF CInv

\* libuv finishes the stream and on_client_close frees the arguments, or the process is
\* aborted as AbortsAreExplained says.
LEMMA FinishPreserves ==
  ASSUME CInv, FinishStream
  PROVE  CInv'
<1> USE DEF client, memory, counts, In
<1>1. status = "up" /\ phase = "closing" /\ ~parsing /\ stream = "closing" /\ ctx = "live"
  BY DEF CInv, TypeOK, HandlesFit, FinishStream
<1>2. UNCHANGED <<inbox, unsent, peer, phase, buffer, parsing, executed, ctx>>
  BY DEF FinishStream, on_client_close
<1>3. CASE /\ ToSet(writes) \subseteq {"sent"} /\ timer # "none"
           /\ stream' = "closed" /\ writes' = <<>> /\ on_client_close /\ status' = status
  <2>1. timer' = "closing"
    BY <1>1, <1>3 DEF CInv, HandlesFit, on_client_close
  <2>2. temp_argv' = FALSE /\ blocks' = 0 /\ state' = "EXPECT_TYPE"
    <3>1. /\ temp_argv' = FALSE /\ state' = "EXPECT_TYPE"
          /\ blocks' = blocks - IF temp_argv THEN 1 + args_parsed ELSE 0
      BY <1>3 DEF on_client_close, free_parser_resources, reset_parser
    <3>2. blocks = IF temp_argv THEN 1 + args_parsed ELSE 0
      BY DEF CInv, BlocksCounted
    <3>3. args_parsed \in Nat
      BY DEF CInv, TypeOK
    <3> QED
      BY <3>1, <3>2, <3>3
  <2>3. args_total' = 0 /\ args_parsed' = 0 /\ data_to_read' = 0
    BY <1>3 DEF on_client_close, reset_parser
  <2>4. TypeOK'
    <3>1. args_total' \in 0 .. ARGS_MAX /\ args_parsed' \in Nat /\ data_to_read' \in 0 .. LEN_MAX
      BY <2>3, ConnectionAssumption
    <3>2. ToSet(writes') \subseteq {"sent", "queued", "failed"}
      BY <1>3, RepliesTyped
    <3>3. temp_argv' \in BOOLEAN
      BY <2>2
    <3>4. blocks' \in Int
      BY <2>2
    <3> QED
      BY <1>1, <1>2, <1>3, <2>1, <2>2, <3>1, <3>2, <3>3, <3>4 DEF CInv, TypeOK
  <2>5. StreamsOfChars' /\ AbortsAreExplained'
    BY <1>1, <1>2, <1>3 DEF CInv, StreamsOfChars, AbortsAreExplained
  <2>6. ParserStarved' /\ HandlesFit'
    BY <1>1, <1>2, <1>3, <2>1, <2>2 DEF CInv, ParserStarved, HandlesFit
  <2>7. OneReply' /\ BlocksCounted' /\ OneCommand'
    BY <1>2, <1>3, <2>2, <2>3 DEF CInv, OneReply, BlocksCounted, OneCommand
  <2> QED
    BY <2>4, <2>5, <2>6, <2>7 DEF CInv
<1>4. CASE /\ ~(ToSet(writes) \subseteq {"sent"}) \/ timer = "none"
           /\ status' \in {"aborted", "corrupt"}
           /\ UNCHANGED <<stream, writes, timer, state, counts, memory>>
  <2>1. TypeOK' /\ StreamsOfChars' /\ AbortsAreExplained'
    BY <1>2, <1>4 DEF CInv, TypeOK, StreamsOfChars, AbortsAreExplained
  <2>2. ParserStarved' /\ HandlesFit'
    BY <1>1, <1>2, <1>4 DEF CInv, ParserStarved, HandlesFit
  <2>3. OneReply' /\ BlocksCounted' /\ OneCommand'
    BY <1>2, <1>4 DEF CInv, OneReply, BlocksCounted, OneCommand
  <2> QED
    BY <2>1, <2>2, <2>3 DEF CInv
<1> QED
  BY <1>3, <1>4 DEF FinishStream, Abort, WildHandle

\* on_timer_close frees the context when nothing of it is left in use.
LEMMA TimerClosePreserves ==
  ASSUME CInv, on_timer_close
  PROVE  CInv'
<1> USE DEF client, memory, counts, In
<1>1. status = "up" /\ ~parsing /\ timer = "closing" /\ stream = "closed" /\ ctx = "live"
  BY DEF CInv, TypeOK, HandlesFit, Blank, on_timer_close
<1>2. /\ timer' = "closed" /\ ctx' = "freed" /\ buffer' = <<>>
      /\ UNCHANGED <<inbox, unsent, peer, phase, stream, writes, state, args_total, args_parsed,
                     data_to_read, temp_argv, blocks, parsing, executed, status>>
  BY DEF on_timer_close
<1>3. TypeOK' /\ StreamsOfChars' /\ AbortsAreExplained'
  BY <1>1, <1>2 DEF CInv, TypeOK, StreamsOfChars, AbortsAreExplained
<1>4. ParserStarved' /\ HandlesFit'
  BY <1>1, <1>2 DEF CInv, ParserStarved, HandlesFit
<1>5. OneReply' /\ BlocksCounted' /\ OneCommand'
  BY <1>2 DEF CInv, OneReply, BlocksCounted, OneCommand
<1> QED
  BY <1>3, <1>4, <1>5 DEF CInv

\* The loop leaves the closing phase with no handle closing.
LEMMA NextPhasePreserves ==
  ASSUME CInv, NextPhase
  PROVE  CInv'
<1> USE DEF client, handles, parser, memory, counts, In
<1>1. /\ status = "up" /\ ~parsing /\ phase' \in {"timers", "pending", "poll", "closing"}
      /\ phase' = "timers" => "closing" \notin {stream, timer}
      /\ UNCHANGED <<client, handles, ctx, parser, status>>
  BY DEF NextPhase
<1>2. TypeOK' /\ StreamsOfChars' /\ AbortsAreExplained'
  BY <1>1 DEF CInv, TypeOK, StreamsOfChars, AbortsAreExplained
<1>3. ParserStarved'
  BY <1>1 DEF CInv, ParserStarved, Starved, DataAndEnd
<1>4. HandlesFit'
  BY <1>1 DEF CInv, TypeOK, HandlesFit, Blank
<1>5. OneReply' /\ BlocksCounted' /\ OneCommand'
  BY <1>1 DEF CInv, OneReply, BlocksCounted, OneCommand
<1> QED
  BY <1>2, <1>3, <1>4, <1>5 DEF CInv

-----------------------------------------------------------------------------
(***************************************************************************)
(* parse_buffer.                                                           *)
(***************************************************************************)

\* Where parse_buffer runs.
LEMMA ParserReached ==
  ASSUME CInv, parse_buffer
  PROVE  /\ status = "up" /\ parsing /\ phase = "poll" /\ timer = "running" /\ ctx = "live"
         /\ stream \in {"open", "closing"}
         /\ stream = "closing" => Starved
BY DEF CInv, TypeOK, HandlesFit, Blank, ParserStarved, parse_buffer

\* The parser waits for more: what is left in the buffer starves it.
LEMMA BreakPreserves ==
  ASSUME CInv, parse_buffer,
         NEW b \in Seq(Chars), Break(b),
         Starved'
  PROVE  CInv'
<1> USE DEF client, memory, counts
<1>1. /\ parsing' = FALSE /\ buffer' = b
      /\ UNCHANGED <<inbox, unsent, peer, phase, timer, ctx, stream, writes, state, args_total,
                     args_parsed, data_to_read, temp_argv, blocks, executed, status>>
  BY DEF Break, parse_buffer
<1>2. TypeOK' /\ StreamsOfChars' /\ AbortsAreExplained'
  <2>1. parsing' \in BOOLEAN
    BY <1>1
  <2> QED
    BY <1>1, <2>1 DEF CInv, TypeOK, StreamsOfChars, AbortsAreExplained
<1>3. ParserStarved'
  BY DEF ParserStarved
<1>4. HandlesFit'
  BY <1>1, ParserReached DEF CInv, HandlesFit
<1>5. OneReply' /\ BlocksCounted' /\ OneCommand'
  BY <1>1 DEF CInv, OneReply, BlocksCounted, OneCommand
<1> QED
  BY <1>2, <1>3, <1>4, <1>5 DEF CInv

\* The parser closes the stream, which was open.
LEMMA RejectPreserves ==
  ASSUME CInv, parse_buffer, stream = "open", Reject, executed' = executed
  PROVE  CInv'
<1> USE DEF client, memory, counts
<1>1. /\ parsing' = FALSE /\ stream' = "closing"
      /\ UNCHANGED <<inbox, unsent, peer, phase, timer, ctx, buffer, writes, state, args_total,
                     args_parsed, data_to_read, temp_argv, blocks, executed, status>>
  BY DEF Reject, CloseStream, parse_buffer
<1>2. TypeOK' /\ StreamsOfChars' /\ AbortsAreExplained'
  <2>1. parsing' \in BOOLEAN
    BY <1>1
  <2> QED
    BY <1>1, <2>1 DEF CInv, TypeOK, StreamsOfChars, AbortsAreExplained
<1>3. ParserStarved' /\ HandlesFit'
  BY <1>1, ParserReached DEF CInv, ParserStarved, HandlesFit
<1>4. OneReply' /\ BlocksCounted' /\ OneCommand'
  BY <1>1 DEF CInv, OneReply, BlocksCounted, OneCommand
<1> QED
  BY <1>2, <1>3, <1>4 DEF CInv

\* A header that is not taken; b is what the parser looks at.
LEMMA BadHeaderPreserves ==
  ASSUME CInv, parse_buffer,
         NEW mark, NEW b \in Seq(Chars), BadHeader(b, mark),
         \/ state = "EXPECT_TYPE" /\ mark = "*" /\ b = Stripped(buffer)
         \/ state = "EXPECT_LENGTH" /\ mark = "$" /\ b = buffer
  PROVE  CInv'
<1>1. CASE b # <<>> /\ b[1].char # mark /\ Reject /\ UNCHANGED executed
  <2>1. stream = "open"
    BY <1>1, ParserReached DEF Starved, BreaksOn
  <2> QED
    BY <1>1, <2>1, RejectPreserves
<1>2. CASE HasLine(b) /\ Reject /\ UNCHANGED executed
  <2>1. stream = "open"
    BY <1>2, ParserReached DEF Starved, BreaksOn
  <2> QED
    BY <1>2, <2>1, RejectPreserves
<1>3. CASE ~HasLine(b) /\ (b # <<>> => b[1].char = mark) /\ Break(b)
  <2>1. state' = state /\ buffer' = b
    BY <1>3 DEF Break
  <2>2. state = "EXPECT_TYPE" => Stripped(b) = b
    BY StrippedTwice DEF CInv, StreamsOfChars
  <2>3. BreaksOn(b, mark)
    BY <1>3 DEF BreaksOn
  <2>4. Starved'
    BY <2>1, <2>2, <2>3 DEF Starved
  <2> QED
    BY <1>3, <2>4, BreakPreserves
<1> QED
  BY <1>1, <1>2, <1>3 DEF BadHeader

\* A header is taken from an open stream only.
LEMMA GoodHeaderReached ==
  ASSUME CInv, parse_buffer,
         NEW mark, NEW n, NEW b \in Seq(Chars), GoodHeader(b, mark, n),
         \/ state = "EXPECT_TYPE" /\ mark = "*" /\ b = Stripped(buffer)
         \/ state = "EXPECT_LENGTH" /\ mark = "$" /\ b = buffer
  PROVE  /\ stream = "open" /\ buffer' \in Seq(Chars) /\ parsing' \in BOOLEAN
         /\ UNCHANGED <<inbox, unsent, peer, phase, timer, ctx, stream, writes, temp_argv, blocks,
                        parsing, executed, status>>
<1>1. stream = "open"
  BY ParserReached DEF GoodHeader, Starved, BreaksOn
<1>2. FirstCR(b) + 1 \in 0 .. Len(b)
  <2>1. FirstCR(b) \in 1 .. Len(b) - 1
    BY DEF GoodHeader, HasLine
  <2> QED
    BY <2>1
<1>3. buffer' \in Seq(Chars)
  BY <1>2, AfterIsRest DEF GoodHeader
<1> QED
  BY <1>1, <1>3 DEF GoodHeader, parse_buffer, client, memory, CInv, TypeOK

\* The number of arguments is read and the parser starts anew.
LEMMA ParseTypePreserves ==
  ASSUME CInv, parse_buffer, ParseType
  PROVE  CInv'
<1> DEFINE b == Stripped(buffer)
<1>1. b \in Seq(Chars) /\ state = "EXPECT_TYPE"
  BY StrippedTwice DEF CInv, StreamsOfChars, ParseType
<1>2. CASE BadHeader(b, "*")
  BY <1>1, <1>2, BadHeaderPreserves
<1>3. ASSUME NEW n \in Allowed("*"),
             GoodHeader(b, "*", n), state' = "EXPECT_LENGTH", args_total' = n, args_parsed' = 0,
             UNCHANGED data_to_read
      PROVE  CInv'
  <2> HIDE DEF b
  <2>1. /\ stream = "open" /\ buffer' \in Seq(Chars) /\ parsing' \in BOOLEAN
        /\ UNCHANGED <<inbox, unsent, peer, phase, timer, ctx, stream, writes, temp_argv, blocks,
                       parsing, executed, status>>
    BY <1>1, <1>3, GoodHeaderReached DEF b
  <2>2. n \in 1 .. ARGS_MAX
    BY DEF Allowed
  <2>3. TypeOK'
    <3>1. args_total' \in 0 .. ARGS_MAX /\ args_parsed' \in Nat
      BY <1>3, <2>2, ConnectionAssumption
    <3> QED
      BY <1>3, <2>1, <3>1 DEF CInv, TypeOK
  <2>4. StreamsOfChars' /\ AbortsAreExplained' /\ ParserStarved' /\ HandlesFit'
    BY <2>1, ParserReached DEF CInv, StreamsOfChars, AbortsAreExplained, ParserStarved, HandlesFit
  <2>5. OneReply' /\ BlocksCounted' /\ OneCommand'
    BY <1>1, <1>3, <2>1, <2>2, ConnectionAssumption DEF CInv, OneReply, BlocksCounted, OneCommand
  <2> QED
    BY <2>3, <2>4, <2>5 DEF CInv
<1> QED
  BY <1>2, <1>3 DEF ParseType

\* The length of an argument is read.
LEMMA ParseLengthPreserves ==
  ASSUME CInv, parse_buffer, ParseLength
  PROVE  CInv'
<1>1. buffer \in Seq(Chars) /\ state = "EXPECT_LENGTH"
  BY DEF CInv, StreamsOfChars, ParseLength
<1>2. CASE BadHeader(buffer, "$")
  BY <1>1, <1>2, BadHeaderPreserves
<1>3. ASSUME NEW n \in Allowed("$"),
             GoodHeader(buffer, "$", n), state' = "EXPECT_DATA", data_to_read' = n,
             UNCHANGED <<args_total, args_parsed>>
      PROVE  CInv'
  <2>1. /\ stream = "open" /\ buffer' \in Seq(Chars) /\ parsing' \in BOOLEAN
        /\ UNCHANGED <<inbox, unsent, peer, phase, timer, ctx, stream, writes, temp_argv, blocks,
                       parsing, executed, status>>
    BY <1>1, <1>3, GoodHeaderReached
  <2>2. data_to_read' \in 0 .. LEN_MAX
    BY <1>3 DEF Allowed
  <2>3. TypeOK'
    BY <1>3, <2>1, <2>2 DEF CInv, TypeOK
  <2>4. StreamsOfChars' /\ AbortsAreExplained' /\ ParserStarved' /\ HandlesFit'
    BY <2>1, ParserReached DEF CInv, StreamsOfChars, AbortsAreExplained, ParserStarved, HandlesFit
  <2>5. OneReply' /\ BlocksCounted' /\ OneCommand'
    BY <1>1, <1>3, <2>1 DEF CInv, OneReply, BlocksCounted, OneCommand
  <2> QED
    BY <2>3, <2>4, <2>5 DEF CInv
<1> QED
  BY <1>2, <1>3 DEF ParseLength

\* A malloc fails: the stream is closed and the arguments are freed and forgotten.
LEMMA NoMemoryPreserves ==
  ASSUME CInv, parse_buffer, stream = "open", state = "EXPECT_DATA", NoMemory
  PROVE  CInv'
<1> USE DEF client, memory, counts
<1>1. /\ parsing' = FALSE /\ stream' = "closing" /\ temp_argv' = FALSE
      /\ blocks' = blocks - IF temp_argv THEN 1 + args_parsed ELSE 0
      /\ UNCHANGED <<inbox, unsent, peer, phase, timer, ctx, buffer, writes, state, args_total,
                     args_parsed, data_to_read, status>>
  BY DEF NoMemory, CloseStream, free_parser_resources, parse_buffer
<1>2. blocks' = 0
  <2>1. blocks = IF temp_argv THEN 1 + args_parsed ELSE 0
    BY DEF CInv, BlocksCounted
  <2>2. args_parsed \in Nat
    BY DEF CInv, TypeOK
  <2> QED
    BY <1>1, <2>1, <2>2
<1>3. executed' \in {0, 1} /\ (executed = 1 => executed' = 1)
  <2>1. CASE executed' = executed
    BY <2>1 DEF CInv, OneReply
  <2>2. CASE args_parsed + 1 = args_total /\ executed' = executed + 1
    <3>1. executed = 0
      BY <2>2 DEF CInv, TypeOK, OneReply, OneCommand
    <3> QED
      BY <2>2, <3>1
  <2> QED
    BY <2>1, <2>2 DEF NoMemory
<1>4. TypeOK' /\ StreamsOfChars' /\ AbortsAreExplained'
  <2>1. parsing' \in BOOLEAN /\ temp_argv' \in BOOLEAN
    BY <1>1
  <2>2. executed' \in Nat /\ blocks' \in Int
    BY <1>2, <1>3
  <2> QED
    BY <1>1, <2>1, <2>2 DEF CInv, TypeOK, StreamsOfChars, AbortsAreExplained
<1>5. ParserStarved' /\ HandlesFit'
  BY <1>1, ParserReached DEF CInv, ParserStarved, HandlesFit
<1>6. OneReply'
  BY <1>1, <1>3 DEF CInv, OneReply
<1>7. BlocksCounted' /\ OneCommand'
  BY <1>1, <1>2 DEF CInv, BlocksCounted, OneCommand
<1> QED
  BY <1>4, <1>5, <1>6, <1>7 DEF CInv

\* An argument is stored, and the command is executed when it is the last.
LEMMA ArgumentPreserves ==
  ASSUME CInv, parse_buffer, stream = "open", state = "EXPECT_DATA",
         Len(buffer) >= DataAndEnd, buffer' = After(buffer, DataAndEnd),
         args_parsed' = args_parsed + 1, AllocateArgument, Execute \/ StoreArgument,
         UNCHANGED <<stream, args_total, data_to_read, parsing>>
  PROVE  CInv'
<1> USE DEF client, memory, counts
<1>1. UNCHANGED <<inbox, unsent, peer, phase, timer, ctx, stream, args_total,
                  data_to_read, parsing>>
  BY DEF parse_buffer
<1>2. buffer' \in Seq(Chars)
  <2>1. DataAndEnd \in 0 .. Len(buffer)
    BY DEF CInv, TypeOK, StreamsOfChars, DataAndEnd
  <2> QED
    BY <2>1, AfterIsRest DEF CInv, StreamsOfChars
<1>3. temp_argv' = TRUE /\ args_parsed' \in Nat \ {0} /\ blocks' = 1 + args_parsed'
  <2>1. /\ args_parsed \in Nat
        /\ temp_argv <=> args_parsed # 0
        /\ blocks = IF temp_argv THEN 1 + args_parsed ELSE 0
    BY DEF CInv, TypeOK, BlocksCounted
  <2>2. temp_argv' = TRUE /\ blocks' = blocks + (IF args_parsed = 0 THEN 2 ELSE 1)
    BY DEF AllocateArgument
  <2> QED
    BY <2>1, <2>2
<1>4. /\ executed' \in {0, 1}
      /\ executed' = 1 <=> args_parsed' >= args_total'
      /\ \/ writes' = <<>>
         \/ executed' = 1 /\ \E w \in {"sent", "queued", "failed"} : writes' = <<w>>
      /\ state' \in {"EXPECT_LENGTH", "EXPECT_DATA"}
      /\ status' \in {"up", "corrupt"}
  <2>1. /\ args_total \in Nat \ {0} /\ args_parsed \in Nat
        /\ executed \in {0, 1} /\ (executed = 1 <=> args_parsed >= args_total)
        /\ status = "up"
    BY ConnectionAssumption, ParserReached DEF CInv, TypeOK, OneReply, OneCommand
  <2>2. CASE Execute
    <3>1. executed = 0 /\ executed' = 1 /\ writes = <<>>
      BY <2>1, <2>2 DEF Execute, CInv, OneReply
    <3>2. PICK w \in {"sent", "queued", "failed"} : writes' = <<w>>
      BY <2>2, <3>1, OutcomeSets, ConnectionAssumption DEF Execute, uv_write
    <3> QED
      BY <2>1, <2>2, <3>1, <3>2 DEF Execute, Overrun
  <2>3. CASE StoreArgument
    <3>1. executed' = executed /\ writes' = writes /\ state' = "EXPECT_LENGTH"
          /\ status' \in {"up", "corrupt"} /\ args_parsed + 1 # args_total
      BY <2>1, <2>3 DEF StoreArgument, Overrun
    <3> QED
      BY <2>1, <3>1 DEF CInv, OneReply
  <2> QED
    BY <2>2, <2>3
<1>5. TypeOK'
  <2>1. ToSet(writes') \subseteq {"sent", "queued", "failed"}
    BY <1>4, RepliesTyped
  <2>2. temp_argv' \in BOOLEAN
    BY <1>3
  <2>3. executed' \in Nat /\ blocks' \in Int
    BY <1>3, <1>4
  <2> QED
    BY <1>1, <1>3, <1>4, <2>1, <2>2, <2>3 DEF CInv, TypeOK
<1>6. StreamsOfChars' /\ AbortsAreExplained'
  BY <1>1, <1>2, <1>4 DEF CInv, StreamsOfChars, AbortsAreExplained
<1>7. ParserStarved' /\ HandlesFit'
  BY <1>1, ParserReached DEF CInv, ParserStarved, HandlesFit
<1>8. OneReply' /\ BlocksCounted'
  BY <1>3, <1>4 DEF OneReply, BlocksCounted
<1>9. OneCommand'
  BY <1>1, <1>4 DEF CInv, OneCommand
<1> QED
  BY <1>5, <1>6, <1>7, <1>8, <1>9 DEF CInv

\* The data of an argument: waited for, refused memory or stored.
LEMMA ParseDataPreserves ==
  ASSUME CInv, parse_buffer, ParseData
  PROVE  CInv'
<1>1. buffer \in Seq(Chars) /\ state = "EXPECT_DATA" /\ Len(buffer) \in Nat /\ DataAndEnd \in Nat
  BY DEF CInv, TypeOK, StreamsOfChars, ParseData, DataAndEnd
<1>2. CASE Len(buffer) < DataAndEnd /\ Break(buffer)
  <2>1. Starved'
    BY <1>1, <1>2 DEF Break, Starved, DataAndEnd, counts
  <2> QED
    BY <1>1, <1>2, <2>1, BreakPreserves
<1>3. CASE Len(buffer) >= DataAndEnd
  <2>1. stream = "open"
    BY <1>1, <1>3, ParserReached DEF Starved
  <2> QED
    BY <1>1, <1>3, <2>1, NoMemoryPreserves, ArgumentPreserves DEF ParseData
<1> QED
  BY <1>2, <1>3 DEF ParseData

\* A round of the loop of parse_buffer.
LEMMA ParsePreserves ==
  ASSUME CInv, parse_buffer
  PROVE  CInv'
BY ParseTypePreserves, ParseLengthPreserves, ParseDataPreserves DEF parse_buffer

-----------------------------------------------------------------------------
(***************************************************************************)
(* The invariant, and what the runs check.                                 *)
(***************************************************************************)

\* Every step preserves CInv.
LEMMA NextCInv == CInv /\ [Next]_vars => CInv'
<1> SUFFICES ASSUME CInv, [Next]_vars PROVE CInv'
  OBVIOUS
<1>1. CASE ClientSends \/ ClientLeaves
  BY <1>1, ClientPreserves
<1>2. CASE on_new_connection
  BY <1>2, NewConnectionPreserves
<1>3. CASE on_read
  BY <1>3, ReadPreserves
<1>4. CASE WriteEnds
  BY <1>4, WriteEndsPreserves
<1>5. CASE on_client_timeout
  BY <1>5, TimeoutPreserves
<1>6. CASE NextPhase
  BY <1>6, NextPhasePreserves
<1>7. CASE parse_buffer
  BY <1>7, ParsePreserves
<1>8. CASE FinishStream
  BY <1>8, FinishPreserves
<1>9. CASE on_timer_close
  BY <1>9, TimerClosePreserves
<1>10. CASE UNCHANGED vars
  <2> USE <1>10 DEF vars, client, handles, counts, memory, parser
  <2>1. TypeOK' /\ StreamsOfChars' /\ AbortsAreExplained'
    BY DEF CInv, TypeOK, StreamsOfChars, AbortsAreExplained
  <2>2. ParserStarved' /\ HandlesFit'
    BY DEF CInv, ParserStarved, Starved, DataAndEnd, HandlesFit, Blank
  <2>3. OneReply' /\ BlocksCounted' /\ OneCommand'
    BY DEF CInv, OneReply, BlocksCounted, OneCommand
  <2> QED
    BY <2>1, <2>2, <2>3 DEF CInv
<1> QED
  BY <1>1, <1>2, <1>3, <1>4, <1>5, <1>6, <1>7, <1>8, <1>9, <1>10 DEF Next, Loop

\* CInv is an invariant of the connection (server.c:15-356), whatever the client sends and
\* whatever fails.
THEOREM Invariant == Spec => []CInv
BY InitCInv, NextCInv, PTL DEF Spec

\* CInv implies the properties the runs check.
LEMMA CInvProperties ==
  ASSUME CInv
  PROVE  TypeOK /\ AbortsAreExplained /\ OpenIsTimed /\ NoUseAfterFree /\ ArgumentsFreedOnce
<1>1. OpenIsTimed /\ NoUseAfterFree
  BY DEF CInv, TypeOK, HandlesFit, Blank, OpenIsTimed, NoUseAfterFree
<1>2. ArgumentsFreedOnce
  <2>1. args_parsed \in Nat /\ blocks = IF temp_argv THEN 1 + args_parsed ELSE 0
    BY DEF CInv, TypeOK, BlocksCounted
  <2>2. ctx = "freed" => ~temp_argv
    BY DEF CInv, TypeOK, HandlesFit, Blank
  <2> QED
    BY <2>1, <2>2 DEF ArgumentsFreedOnce
<1> QED
  BY <1>1, <1>2 DEF CInv

\* Every variable stays in its range, the length of the argument waited for within its
\* limit (server.c:173-178).
THEOREM TypeCorrect == Spec => []TypeOK
BY Invariant, CInvProperties, PTL

\* No two of the many places that close the stream close it twice: the process is aborted
\* only by a write that did not succeed or by a connection not accepted (server.c:62-310).
THEOREM AbortsAreExplainedHolds == Spec => []AbortsAreExplained
BY Invariant, CInvProperties, PTL

\* An open connection has its inactivity timer running (server.c:299, 306, 343).
THEOREM OpenIsTimedHolds == Spec => []OpenIsTimed
BY Invariant, CInvProperties, PTL

\* on_timer_close (server.c:15) frees a context of which nothing is in use.
THEOREM NoUseAfterFreeHolds == Spec => []NoUseAfterFree
BY Invariant, CInvProperties, PTL

\* The arguments are freed exactly once, by an error of the parser or with the connection
\* (server.c:55, 199-264).
THEOREM ArgumentsFreedOnceHolds == Spec => []ArgumentsFreedOnce
BY Invariant, CInvProperties, PTL

\* Every write succeeds at once and every accept succeeds.
Undisturbed == WriteOutcomes = {"sent"} /\ ~AcceptMayFail

\* What AbortsAreExplained blames does not happen.
NothingToBlame ==
  /\ ToSet(writes) \subseteq {"sent"}
  /\ timer = "none" => stream = "none" /\ NeverAborts

\* An undisturbed connection stays so.
LEMMA NothingToBlameKept ==
  ASSUME Undisturbed, CInv, CInv', NothingToBlame, [Next]_vars
  PROVE  NothingToBlame'
<1> USE DEF client, handles, counts, memory, parser, In
<1>1. ToSet(writes') \subseteq {"sent"}
  <2>1. ASSUME NEW w \in {"sent", "queued", "failed"}, writes = <<w>>
        PROVE  w = "sent" /\ Tail(writes) = <<>> /\ ToSet(writes) = {"sent"}
    BY <2>1, OutcomeSets DEF NothingToBlame
  <2>2. CASE writes' = writes \/ writes' = <<>>
    BY <2>2, OutcomeSets DEF NothingToBlame
  <2>3. CASE uv_write
    <3>1. writes' = Append(writes, "sent")
      BY <2>3 DEF uv_write, NothingToBlame, Undisturbed
    <3>2. PICK w \in {"sent", "queued", "failed"} : writes' = <<w>>
      <4>1. writes' # <<>>
        BY <3>1, <2>1, OutcomeSets DEF CInv, OneReply
      <4> QED
        BY <4>1 DEF CInv, OneReply
    <3>3. writes'[Len(writes')] = "sent"
      BY <3>1, <3>2, <2>1 DEF CInv, OneReply
    <3> QED
      BY <3>2, <3>3, OutcomeSets
  <2>4. CASE WriteEnds
    BY <2>1, <2>2, <2>4 DEF WriteEnds, CInv, OneReply
  <2>5. writes' = writes \/ writes' = <<>> \/ uv_write \/ WriteEnds
    <3>1. ASSUME parse_buffer PROVE writes' = writes \/ uv_write
      BY <3>1 DEF parse_buffer, ParseType, ParseLength, ParseData, BadHeader, GoodHeader,
         Break, Reject, NoMemory, Execute, StoreArgument
    <3> QED
      BY <3>1 DEF Next, Loop, vars, ClientSends, ClientLeaves, Unseen, on_new_connection,
         on_read, on_client_timeout, NextPhase, FinishStream, on_timer_close
  <2> QED
    BY <2>2, <2>3, <2>4, <2>5
<1>2. ASSUME timer' = "none" PROVE stream' = "none" /\ status' # "aborted"
  <2>1. ASSUME timer # "none" PROVE FALSE
    BY <1>2, <2>1 DEF Next, Loop, vars, ClientSends, ClientLeaves, Unseen, on_new_connection,
       on_read, ReadData, ReadError, WriteEnds, on_client_timeout, NextPhase, parse_buffer,
       FinishStream, on_client_close, on_timer_close
  <2>2. timer = "none" /\ stream = "none" /\ status # "aborted" /\ ~parsing
    BY <2>1 DEF NothingToBlame, NeverAborts, CInv, HandlesFit
  <2>3. UNCHANGED <<stream, status>>
    BY <1>2, <2>2 DEF Next, Loop, vars, ClientSends, ClientLeaves, Unseen, on_new_connection,
       Undisturbed, on_read, WriteEnds, on_client_timeout, NextPhase, parse_buffer,
       FinishStream, on_timer_close
  <2> QED
    BY <2>2, <2>3
<1> QED
  BY <1>1, <1>2 DEF NothingToBlame, NeverAborts

\* The server is not aborted (src/src/server.c:72) by a connection whose writes succeed at
\* once and whose accept succeeds: nothing else that a client does can bring it down.
THEOREM NeverAbortsHolds ==
  ASSUME Undisturbed
  PROVE  Spec => []NeverAborts
<1>1. Init => NothingToBlame
  BY OutcomeSets DEF Init, NothingToBlame, NeverAborts
<1>2. CInv /\ CInv' /\ NothingToBlame /\ [Next]_vars => NothingToBlame'
  BY NothingToBlameKept
<1>3. CInv /\ NothingToBlame => NeverAborts
  BY DEF CInv, AbortsAreExplained, NothingToBlame, NeverAborts
<1> QED
  BY <1>1, <1>2, <1>3, Invariant, PTL DEF Spec

-----------------------------------------------------------------------------
(***************************************************************************)
(* The first command.                                                      *)
(***************************************************************************)

\* The script has a command.
Started == script.commands # <<>>
First   == script.commands[1]

\* Where in the script the buffer begins.
Position == Delivered - Len(buffer)

\* The inbox and what is unsent are the next characters of the script, in this order.
OnTheWay ==
  /\ script \in Scripts
  /\ Len(unsent) + Len(inbox) <= Len(Bytes(script))
  /\ \A i \in 1 .. Len(inbox) : inbox[i] = Bytes(script)[Delivered + i]
  /\ \A i \in 1 .. Len(unsent) : unsent[i] = Bytes(script)[Delivered + Len(inbox) + i]

\* While the stream is open the buffer is what was delivered last.
InBuffer ==
  /\ stream = "none" => Delivered = 0
  /\ stream = "open" =>
       /\ Len(buffer) <= Delivered
       /\ \A i \in 1 .. Len(buffer) : buffer[i] = Bytes(script)[Position + i]

\* Until the first command is executed the parser is at the place in it that its state says.
InFirst ==
  stream = "open" /\ executed = 0 /\ Started =>
    /\ state = "EXPECT_TYPE" => Position <= Len(script.lead)
    /\ state # "EXPECT_TYPE" => args_total = Len(First) /\ args_parsed < Len(First)
    /\ state = "EXPECT_LENGTH" => Position = ArgEnd(script, args_parsed)
    /\ state = "EXPECT_DATA" =>
         Position = ArgEnd(script, args_parsed) + 4 /\ data_to_read = First[args_parsed + 1]

\* Once a command was executed, the whole of the first was delivered.
FirstDone == executed = 1 /\ Started => ArgEnd(script, Len(First)) <= Delivered

\* The inductive invariant, relative to CInv.
FInv == OnTheWay /\ InBuffer /\ InFirst /\ FirstDone

\* The first command is where it is said to be.
LEMMA FirstLaidOut ==
  ASSUME script \in Scripts, Started
  PROVE  LaidOut(script, First, Len(First))
BY Layout DEF Started, First

\* The lengths are numbers, and no more is delivered than the script has.
LEMMA LengthsAreNumbers ==
  ASSUME CInv, OnTheWay
  PROVE  /\ Len(buffer) \in Nat /\ Len(inbox) \in Nat /\ Len(unsent) \in Nat
         /\ Len(Bytes(script)) \in Nat /\ Delivered \in Nat
         /\ Delivered + Len(inbox) + Len(unsent) = Len(Bytes(script))
<1>1. Len(buffer) \in Nat /\ Len(inbox) \in Nat /\ Len(unsent) \in Nat
  BY DEF CInv, StreamsOfChars
<1>2. Len(Bytes(script)) \in Nat
  <2>1. Bytes(script) \in Seq(Chars)
    BY BytesAreChars DEF OnTheWay
  <2> QED
    BY <2>1
<1> QED
  BY <1>1, <1>2 DEF OnTheWay, Delivered

\* Nothing is sent or read.
LEMMA StillOnTheWay ==
  ASSUME OnTheWay, UNCHANGED <<script, unsent, inbox>>
  PROVE  OnTheWay' /\ Delivered' = Delivered
BY DEF OnTheWay, Delivered

\* A step of none of what FInv speaks of.
LEMMA FirstUntouched ==
  ASSUME FInv, UNCHANGED <<script, unsent, inbox, stream, buffer, state, counts, executed>>
  PROVE  FInv'
<1>1. OnTheWay' /\ Delivered' = Delivered /\ Position' = Position
  BY StillOnTheWay DEF FInv, Position
<1>2. InBuffer'
  BY <1>1 DEF FInv, InBuffer
<1>3. InFirst' /\ FirstDone'
  BY <1>1 DEF FInv, InFirst, FirstDone, counts, Started, First, ArgEnd
<1> QED
  BY <1>1, <1>2, <1>3 DEF FInv

\* A step to a stream that is not open, or no longer.
LEMMA FirstGivenUp ==
  ASSUME FInv, UNCHANGED <<script, unsent, inbox, executed>>, stream' \notin {"none", "open"}
  PROVE  FInv'
<1>1. OnTheWay' /\ Delivered' = Delivered
  BY StillOnTheWay DEF FInv
<1>2. InBuffer' /\ InFirst'
  BY DEF InBuffer, InFirst
<1>3. FirstDone'
  BY <1>1 DEF FInv, FirstDone, Started, First, ArgEnd
<1> QED
  BY <1>1, <1>2, <1>3 DEF FInv

\* FInv holds at the start.
LEMMA InitFInv == Init => FInv
<1> SUFFICES ASSUME Init PROVE FInv
  OBVIOUS
<1> DEFINE B == Bytes(script)
<1>1. script \in Scripts /\ unsent = B /\ inbox = <<>> /\ buffer = <<>> /\ stream = "none"
      /\ executed = 0
  BY DEF Init
<1>2. B \in Seq(Chars)
  BY <1>1, BytesAreChars
<1> HIDE DEF B
<1>3. Len(B) \in Nat /\ Len(inbox) = 0
  BY <1>1, <1>2
<1>4. Delivered = 0
  <2>1. Delivered = Len(B) - Len(unsent) - Len(inbox)
    BY DEF Delivered, B
  <2> QED
    BY <1>1, <1>3, <2>1
<1>5. OnTheWay
  BY <1>1, <1>3, <1>4 DEF OnTheWay, B
<1>6. InBuffer /\ InFirst /\ FirstDone
  BY <1>1, <1>4 DEF InBuffer, InFirst, FirstDone
<1> QED
  BY <1>5, <1>6 DEF FInv

\* What the client sends moves from what is unsent to the inbox, and is not delivered by it.
LEMMA ClientMoves ==
  ASSUME CInv, FInv, ClientSends
  PROVE  FInv' /\ Delivered' = Delivered
<1> DEFINE B == Bytes(script)
           u == Len(unsent)
           x == Len(inbox)
<1>1. UNCHANGED <<script, stream, buffer, state, counts, executed>>
  BY DEF ClientSends, Unseen, handles, parser
<1>2. PICK n \in 1 .. u : /\ inbox' = inbox \o SubSeq(unsent, 1, n)
                          /\ unsent' = SubSeq(unsent, n + 1, u)
  BY DEF ClientSends
<1>3. u \in Nat /\ x \in Nat /\ Delivered \in Nat /\ Len(B) \in Nat /\ Delivered + x + u = Len(B)
  BY LengthsAreNumbers DEF FInv
<1>4. /\ Len(SubSeq(unsent, 1, n)) = n /\ SubSeq(unsent, 1, n) \in Seq(Chars)
      /\ \A i \in 1 .. n : SubSeq(unsent, 1, n)[i] = unsent[i]
  BY <1>3 DEF CInv, StreamsOfChars
<1>5. inbox \in Seq(Chars) /\ unsent \in Seq(Chars)
  BY DEF CInv, StreamsOfChars
<1>6. Len(inbox') = x + n
  BY <1>2, <1>4, <1>5, BehindIs
<1>7. \A i \in 1 .. x : inbox'[i] = inbox[i]
  BY <1>2, <1>4, <1>5, BehindIs
<1>8. \A i \in 1 .. n : inbox'[x + i] = unsent[i]
  BY <1>2, <1>4, <1>5, BehindIs
<1>9. Len(unsent') = u - n /\ \A i \in 1 .. u - n : unsent'[i] = unsent[n + i]
  <2>1. n \in 0 .. Len(unsent) /\ unsent' = After(unsent, n)
    BY <1>2, <1>3 DEF After
  <2> QED
    BY <1>5, <2>1, AfterIsRest
<1>10. Delivered' = Delivered
  BY <1>1, <1>3, <1>6, <1>9 DEF Delivered
<1>11. /\ \A i \in 1 .. x : inbox[i] = B[Delivered + i]
       /\ \A i \in 1 .. u : unsent[i] = B[Delivered + x + i]
  BY DEF FInv, OnTheWay
<1>12. script' = script /\ script \in Scripts /\ B' = B
  BY <1>1 DEF FInv, OnTheWay
<1>13. n \in Nat /\ n <= u
  BY <1>3
<1> HIDE DEF B, u, x
<1>14. ASSUME NEW i \in 1 .. x + n PROVE inbox'[i] = B[Delivered + i]
  <2>1. CASE i <= x
    <3>1. i \in 1 .. x
      BY <1>3, <2>1
    <3> QED
      BY <1>7, <1>11, <3>1
  <2>2. CASE ~(i <= x)
    <3> DEFINE j == i - x
    <3>1. j \in 1 .. n /\ j \in 1 .. u /\ x + j = i /\ Delivered + x + j = Delivered + i
      BY <1>3, <1>13, <2>2
    <3> HIDE DEF j
    <3>2. inbox'[i] = unsent[j]
      BY <1>8, <3>1
    <3>3. unsent[j] = B[Delivered + x + j]
      BY <1>11, <3>1
    <3> QED
      BY <3>1, <3>2, <3>3
  <2> QED
    BY <2>1, <2>2
<1>15. ASSUME NEW i \in 1 .. u - n PROVE unsent'[i] = B[Delivered + (x + n) + i]
  <2> DEFINE j == n + i
  <2>1. j \in 1 .. u /\ Delivered + x + j = Delivered + (x + n) + i
    BY <1>3, <1>13
  <2>2. unsent'[i] = unsent[j]
    BY <1>9
  <2> HIDE DEF j
  <2>3. unsent[j] = B[Delivered + x + j]
    BY <1>11, <2>1
  <2> QED
    BY <2>1, <2>2, <2>3
<1>16. (u - n) + (x + n) <= Len(B)
  BY <1>3, <1>13
<1>17. OnTheWay'
  BY <1>6, <1>9, <1>10, <1>12, <1>14, <1>15, <1>16 DEF OnTheWay, B
<1>18. Position' = Position
  BY <1>1, <1>10 DEF Position
<1>19. InBuffer' /\ InFirst' /\ FirstDone'
  BY <1>1, <1>10, <1>18 DEF FInv, InBuffer, InFirst, FirstDone, counts, Started, First, ArgEnd
<1> QED
  BY <1>10, <1>17, <1>19 DEF FInv

\* A new connection has delivered nothing.
LEMMA NewConnectionStarts ==
  ASSUME CInv, FInv, on_new_connection
  PROVE  FInv'
<1>1. UNCHANGED <<script, unsent, inbox, buffer, executed>> /\ state' = "EXPECT_TYPE"
  BY DEF on_new_connection, client, reset_parser
<1>2. stream = "none" /\ buffer = <<>> /\ executed = 0
  BY DEF on_new_connection, CInv, HandlesFit, Blank
<1>3. OnTheWay' /\ Delivered' = Delivered /\ Delivered = 0
  BY <1>1, <1>2, StillOnTheWay DEF FInv, InBuffer
<1>4. Len(buffer') = 0
  BY <1>1, <1>2
<1>5. InBuffer'
  BY <1>3, <1>4 DEF InBuffer
<1>6. InFirst'
  <2>1. Position' = 0
    BY <1>3, <1>4 DEF Position
  <2>2. Len(script.lead) \in Nat
    BY ScriptIs DEF FInv, OnTheWay
  <2>3. 0 <= Len(script.lead)
    BY <2>2
  <2> QED
    BY <1>1, <2>1, <2>3 DEF InFirst
<1>7. FirstDone'
  BY <1>1, <1>2 DEF FirstDone
<1> QED
  BY <1>3, <1>5, <1>6, <1>7 DEF FInv

\* What is read moves from the inbox to the end of the buffer.
LEMMA ReadKeepsFirst ==
  ASSUME CInv, FInv, on_read
  PROVE  FInv'
<1> DEFINE B == Bytes(script)
           x == Len(inbox)
           y == Len(buffer)
<1>1. UNCHANGED <<script, unsent, state, counts, executed>> /\ stream = "open"
  BY DEF on_read
<1>2. /\ y \in Nat /\ x \in Nat /\ Delivered \in Nat /\ Len(unsent) \in Nat /\ Len(B) \in Nat
      /\ Delivered + x + Len(unsent) = Len(B)
  BY LengthsAreNumbers DEF FInv
<1>3. CASE ReadError
  BY <1>1, <1>3, FirstGivenUp DEF ReadError, CloseStream
<1>4. CASE ReadData
  <2>1. inbox' = <<>> /\ Len(inbox') = 0
    BY <1>4 DEF ReadData
  <2>2. Delivered' = Delivered + x
    BY <1>1, <1>2, <2>1 DEF Delivered
  <2>3. script \in Scripts /\ \A i \in 1 .. Len(unsent) : unsent[i] = B[Delivered + x + i]
    BY DEF FInv, OnTheWay
  <2>4. OnTheWay'
    <3>1. \A i \in 1 .. Len(unsent) : Delivered + x + i = Delivered' + 0 + i
      BY <1>2, <2>2
    <3>2. \A i \in 1 .. Len(unsent)' : unsent'[i] = Bytes(script')[Delivered' + Len(inbox)' + i]
      BY <1>1, <2>1, <2>3, <3>1
    <3>3. (Len(unsent) + Len(inbox) <= Len(Bytes(script)))'
      BY <1>1, <1>2, <2>1
    <3>4. (\A i \in 1 .. Len(inbox) : inbox[i] = Bytes(script)[Delivered + i])'
      BY <2>1
    <3> QED
      BY <1>1, <2>3, <3>2, <3>3, <3>4 DEF OnTheWay
  <2>5. FirstDone'
    <3>1. ASSUME executed = 1, Started PROVE ArgEnd(script, Len(First)) <= Delivered'
      <4>1. ArgEnd(script, Len(First)) <= Delivered
        BY <3>1 DEF FInv, FirstDone
      <4>2. ArgEnd(script, Len(First)) \in Nat
        <5>1. Len(First) \in 1 .. ARGS_MAX
          BY <2>3, <3>1, FirstLaidOut, Zenon DEF LaidOut
        <5>2. Len(First) \in 0 .. Len(First)
          BY <5>1
        <5> QED
          BY <2>3, <3>1, <5>2, FirstLaidOut, Zenon DEF LaidOut
      <4> QED
        BY <1>2, <2>2, <4>1, <4>2
    <3> QED
      BY <1>1, <3>1 DEF FirstDone, Started, First, ArgEnd
  <2>6. CASE buffer' = buffer \o inbox /\ UNCHANGED stream
    <3>1. buffer \in Seq(Chars) /\ inbox \in Seq(Chars)
      BY DEF CInv, StreamsOfChars
    <3>2. Len(buffer') = y + x
      BY <2>6, <3>1, BehindIs
    <3>3. \A i \in 1 .. y : buffer'[i] = buffer[i]
      BY <2>6, <3>1, BehindIs
    <3>4. \A i \in 1 .. x : buffer'[y + i] = inbox[i]
      BY <2>6, <3>1, BehindIs
    <3>5. y <= Delivered /\ \A i \in 1 .. y : buffer[i] = B[Position + i]
      BY <1>1 DEF FInv, InBuffer
    <3>6. \A i \in 1 .. x : inbox[i] = B[Delivered + i]
      BY DEF FInv, OnTheWay
    <3>7. Position = Delivered - y
      BY DEF Position
    <3> HIDE DEF B, x, y
    <3>8. Position' = Position
      BY <1>2, <2>2, <3>2, <3>7 DEF Position
    <3>9. ASSUME NEW i \in 1 .. y + x PROVE buffer'[i] = B[Position + i]
      <4>1. CASE i <= y
        <5>1. i \in 1 .. y
          BY <1>2, <4>1
        <5> QED
          BY <3>3, <3>5, <5>1
      <4>2. CASE ~(i <= y)
        <5> DEFINE j == i - y
        <5>1. j \in 1 .. x /\ y + j = i /\ Delivered + j = Position + i
          BY <1>2, <3>7, <4>2
        <5> HIDE DEF j
        <5>2. buffer'[i] = inbox[j] /\ inbox[j] = B[Delivered + j]
          BY <3>4, <3>6, <5>1
        <5> QED
          BY <5>1, <5>2
      <4> QED
        BY <4>1, <4>2
    <3>10. InBuffer'
      <4>1. y + x <= Delivered + x
        BY <1>2, <3>5
      <4> QED
        BY <1>1, <2>2, <2>6, <3>2, <3>8, <3>9, <4>1 DEF InBuffer, B
    <3>11. InFirst'
      BY <1>1, <2>6, <3>8 DEF FInv, InFirst, counts, Started, First, ArgEnd
    <3> QED
      BY <2>4, <2>5, <3>10, <3>11 DEF FInv
  <2>7. CASE CloseStream
    <3>1. stream' = "closing"
      BY <1>1, <2>7 DEF CloseStream
    <3> QED
      BY <2>4, <2>5, <3>1 DEF FInv, InBuffer, InFirst
  <2> QED
    BY <1>4, <2>6, <2>7 DEF ReadData
<1> QED
  BY <1>3, <1>4 DEF on_read

\* p is the end of q.
EndOf(p, q) ==
  Len(p) \in 0 .. Len(q) /\ \A i \in 1 .. Len(p) : p[i] = q[Len(q) - Len(p) + i]

\* What is left of a buffer is its end.
LEMMA AfterIsEnd ==
  ASSUME NEW q \in Seq(Chars), NEW n \in 0 .. Len(q)
  PROVE  EndOf(After(q, n), q)
<1> DEFINE a == After(q, n)
           y == Len(q)
<1>1. y \in Nat /\ n \in 0 .. y /\ Len(a) = y - n /\ \A i \in 1 .. y - n : a[i] = q[n + i]
  BY AfterIsRest
<1> HIDE DEF a, y
<1>2. Len(a) \in 0 .. y /\ y - Len(a) = n
  BY <1>1
<1>3. \A i \in 1 .. Len(a) : a[i] = q[y - Len(a) + i]
  BY <1>1, <1>2
<1> QED
  BY <1>2, <1>3 DEF EndOf, a, y

\* The end of an end.
LEMMA EndOfEnd ==
  ASSUME NEW p \in Seq(Chars), NEW q \in Seq(Chars), NEW r \in Seq(Chars),
         EndOf(p, q), EndOf(q, r)
  PROVE  EndOf(p, r)
<1> DEFINE x == Len(p)
           y == Len(q)
           z == Len(r)
<1>1. x \in Nat /\ y \in Nat /\ z \in Nat
  OBVIOUS
<1>2. /\ x <= y /\ \A i \in 1 .. x : p[i] = q[y - x + i]
      /\ y <= z /\ \A i \in 1 .. y : q[i] = r[z - y + i]
  BY DEF EndOf
<1> HIDE DEF x, y, z
<1>3. ASSUME NEW i \in 1 .. x PROVE p[i] = r[z - x + i]
  <2> DEFINE j == y - x + i
  <2>1. j \in 1 .. y /\ z - y + j = z - x + i
    BY <1>1, <1>2
  <2>2. p[i] = q[j]
    BY <1>2
  <2> HIDE DEF j
  <2> QED
    BY <1>2, <2>1, <2>2
<1>4. x \in 0 .. z
  BY <1>1, <1>2
<1> QED
  BY <1>3, <1>4 DEF EndOf, x, y, z

\* Stripping takes nothing but a beginning.
LEMMA StrippedIsEnd ==
  ASSUME NEW q \in Seq(Chars)
  PROVE  EndOf(Stripped(q), q)
<1> DEFINE E == { i \in 1 .. Len(q) : q[i] \notin {CR, LF} }
           first == IF E # {} THEN Min(E) ELSE 0
<1>1. Stripped(q) = IF first = 0 THEN <<>> ELSE After(q, first - 1)
  BY DEF Stripped, SelectInSeq
<1>2. Len(q) \in Nat /\ E \subseteq Nat /\ \A i \in E : i \in 1 .. Len(q)
  OBVIOUS
<1> HIDE DEF E
<1>3. first \in 0 .. Len(q)
  <2>1. E # {} => Min(E) \in E
    BY <1>2, MinIsLeast
  <2>2. CASE E = {}
    BY <1>2, <2>2
  <2>3. CASE E # {}
    <3>1. Min(E) \in 1 .. Len(q)
      BY <1>2, <2>1, <2>3
    <3>2. first = Min(E)
      BY <2>3
    <3> QED
      BY <1>2, <3>1, <3>2
  <2> QED
    BY <2>2, <2>3
<1> HIDE DEF first
<1>4. CASE first = 0
  <2>1. Stripped(q) = <<>> /\ Len(<<>>) = 0
    BY <1>1, <1>4
  <2> QED
    BY <1>2, <2>1 DEF EndOf
<1>5. CASE first # 0
  <2>1. first - 1 \in 0 .. Len(q)
    BY <1>2, <1>3, <1>5
  <2> QED
    BY <1>1, <1>5, <2>1, AfterIsEnd
<1> QED
  BY <1>4, <1>5

\* The parser takes a beginning of the buffer.
LEMMA BufferConsumed ==
  ASSUME CInv, FInv, stream = "open", UNCHANGED <<script, unsent, inbox, stream>>,
         EndOf(buffer', buffer)
  PROVE  OnTheWay' /\ InBuffer' /\ Delivered' = Delivered
<1> DEFINE B == Bytes(script)
           y == Len(buffer)
           z == Len(buffer')
<1>1. OnTheWay' /\ Delivered' = Delivered
  BY StillOnTheWay DEF FInv
<1>2. y \in Nat /\ Delivered \in Nat
  BY LengthsAreNumbers DEF FInv
<1>3. z \in 0 .. y /\ \A i \in 1 .. z : buffer'[i] = buffer[y - z + i]
  BY DEF EndOf
<1>4. y <= Delivered /\ \A i \in 1 .. y : buffer[i] = B[Position + i]
  BY DEF FInv, InBuffer
<1>5. Position = Delivered - y /\ Position' = Delivered - z
  BY <1>1 DEF Position
<1> HIDE DEF B, y, z
<1>6. z <= Delivered
  BY <1>2, <1>3, <1>4
<1>7. ASSUME NEW i \in 1 .. z PROVE buffer'[i] = B[Position' + i]
  <2> DEFINE j == y - z + i
  <2>1. j \in 1 .. y /\ Position + j = Position' + i
    BY <1>2, <1>3, <1>5
  <2>2. buffer'[i] = buffer[j]
    BY <1>3
  <2> HIDE DEF j
  <2> QED
    BY <1>4, <2>1, <2>2
<1>8. InBuffer'
  BY <1>1, <1>6, <1>7 DEF InBuffer, B, z
<1> QED
  BY <1>1, <1>8

\* What the parser looks at before the first command: the header of the command is next,
\* or line ends are all there is.
LEMMA HeaderIsNext ==
  ASSUME CInv, FInv, stream = "open", executed = 0, Started, state = "EXPECT_TYPE",
         NEW b, b = Stripped(buffer)
  PROVE  /\ b \in Seq(Chars)
         /\ \A x \in 1 .. 4 : x <= Len(b) => b[x] = Header("*", Len(First))[x]
         /\ Delivered - Len(b) <= Len(script.lead)
         /\ b # <<>> => Delivered - Len(b) = Len(script.lead)
<1> DEFINE B == Bytes(script)
           y == Len(buffer)
           l == Len(script.lead)
           d == l - Position
<1>1. buffer \in Seq(Chars) /\ b \in Seq(Chars)
  BY StrippedTwice DEF CInv, StreamsOfChars
<1>2. y \in Nat /\ Delivered \in Nat
  BY LengthsAreNumbers DEF FInv
<1>3. script \in Scripts /\ y <= Delivered /\ \A i \in 1 .. y : buffer[i] = B[Position + i]
  BY DEF FInv, OnTheWay, InBuffer
<1>4. l \in Nat
  BY <1>3, ScriptIs
<1>5. \A x \in 1 .. l : B[x] \in {CR, LF}
  BY <1>3, FirstLaidOut, Zenon DEF LaidOut
<1>6. \A x \in 1 .. 4 : B[l + x] = Header("*", Len(First))[x]
  BY <1>3, FirstLaidOut, Zenon DEF LaidOut
<1>7. Position <= l /\ Position = Delivered - y
  BY DEF FInv, InFirst, Position
<1>8. Header("*", Len(First))[1] \notin {CR, LF}
  <2>1. Len(First) \in 1 .. ARGS_MAX
    BY <1>3, FirstLaidOut, Zenon DEF LaidOut
  <2>2. Len(First) \in Nat
    BY <2>1
  <2> QED
    BY <2>2, HeaderIs
<1> HIDE DEF B, y, l
<1>9. d \in Nat /\ Position + d = l /\ Position \in Nat
  BY <1>2, <1>3, <1>4, <1>7
<1> HIDE DEF d
<1>10. ASSUME NEW x \in 1 .. y, x <= d PROVE buffer[x] \in {CR, LF}
  <2>1. Position + x \in 1 .. l
    BY <1>2, <1>4, <1>9, <1>10
  <2> QED
    BY <1>3, <1>5, <2>1
<1>11. ASSUME NEW x \in 1 .. 4, d + x <= y
       PROVE  buffer[d + x] = Header("*", Len(First))[x]
  <2>1. d + x \in 1 .. y /\ Position + (d + x) = l + x
    BY <1>2, <1>4, <1>9, <1>11
  <2>2. buffer[d + x] = B[Position + (d + x)]
    BY <1>3, <2>1
  <2> QED
    BY <1>6, <2>1, <2>2
<1>12. d < y => buffer[d + 1] \notin {CR, LF}
  <2>1. d < y => d + 1 <= y /\ 1 \in 1 .. 4
    BY <1>2, <1>9
  <2> QED
    BY <1>8, <1>11, <2>1
<1>13. y <= d => b = <<>>
  BY <1>1, <1>9, <1>10, <1>12, StrippedLead DEF y
<1>14. d < y => b = After(buffer, d)
  BY <1>1, <1>9, <1>10, <1>12, StrippedLead DEF y
<1>15. CASE y <= d
  <2>1. b = <<>> /\ Len(b) = 0
    BY <1>13, <1>15
  <2>2. \A x \in 1 .. 4 : ~(x <= 0)
    OBVIOUS
  <2>3. Delivered - 0 <= l
    BY <1>2, <1>4, <1>7, <1>9, <1>15
  <2> QED
    BY <1>1, <2>1, <2>2, <2>3 DEF l
<1>16. CASE d < y
  <2>1. d \in 0 .. y
    BY <1>2, <1>9, <1>16
  <2>2. Len(b) = y - d /\ \A i \in 1 .. y - d : b[i] = buffer[d + i]
    BY <1>1, <1>14, <1>16, <2>1, AfterIsRest DEF y
  <2>3. ASSUME NEW x \in 1 .. 4, x <= Len(b) PROVE b[x] = Header("*", Len(First))[x]
    <3>1. x \in 1 .. y - d /\ d + x <= y
      BY <1>2, <1>9, <2>2, <2>3
    <3> QED
      BY <1>11, <2>2, <3>1
  <2>4. Delivered - Len(b) = l
    BY <1>2, <1>4, <1>7, <1>9, <2>2
  <2>5. l <= l
    BY <1>4
  <2> QED
    BY <1>1, <2>3, <2>4, <2>5 DEF l
<1> QED
  BY <1>2, <1>9, <1>15, <1>16

\* Before an argument of the first command the header of the argument is next.
LEMMA LengthIsNext ==
  ASSUME CInv, FInv, stream = "open", executed = 0, Started, state = "EXPECT_LENGTH"
  PROVE  /\ First[args_parsed + 1] \in Nat
         /\ \A x \in 1 .. 4 :
              x <= Len(buffer) => buffer[x] = Header("$", First[args_parsed + 1])[x]
<1> DEFINE y == Len(buffer)
           B == Bytes(script)
           n == First[args_parsed + 1]
<1>1. script \in Scripts /\ \A i \in 1 .. y : buffer[i] = B[Position + i]
  BY DEF FInv, OnTheWay, InBuffer
<1>2. /\ Position = ArgEnd(script, args_parsed)
      /\ args_parsed < Len(First)
  BY DEF FInv, InFirst
<1>3. First \in Seq(0 .. LEN_MAX)
  BY <1>1, FirstLaidOut, Zenon DEF LaidOut
<1>4. args_parsed \in 0 .. Len(First) - 1 /\ args_parsed + 1 \in 1 .. Len(First)
  BY <1>2, <1>3 DEF CInv, TypeOK
<1>5. \A x \in 1 .. 4 : B[ArgEnd(script, args_parsed) + x] = Header("$", n)[x]
  BY <1>1, <1>4, FirstLaidOut, Zenon DEF LaidOut
<1>6. n \in Nat
  BY <1>3, <1>4, ConnectionAssumption
<1>7. y \in Nat
  BY LengthsAreNumbers DEF FInv
<1> HIDE DEF y, B, n
<1>8. \A x \in 1 .. 4 : x <= y => x \in 1 .. y
  BY <1>7
<1>9. \A x \in 1 .. 4 : x <= y => buffer[x] = Header("$", n)[x]
  BY <1>1, <1>2, <1>5, <1>8
<1> QED
  BY <1>6, <1>9 DEF y, n

\* When the data of the last argument is there, the first command has been delivered.
LEMMA LastArgumentIsThere ==
  ASSUME CInv, FInv, stream = "open", state = "EXPECT_DATA", Len(buffer) >= DataAndEnd,
         args_parsed + 1 = args_total
  PROVE  executed = 0 /\ (Started => ArgEnd(script, Len(First)) <= Delivered)
<1>1. executed = 0
  <2>1. args_parsed \in Nat /\ args_total \in Nat /\ executed \in {0, 1}
    BY ConnectionAssumption DEF CInv, TypeOK, OneReply
  <2>2. ~(args_parsed >= args_total)
    BY <2>1
  <2> QED
    BY <2>1, <2>2 DEF CInv, OneCommand
<1>2. ASSUME Started PROVE ArgEnd(script, Len(First)) <= Delivered
  <2> DEFINE k == Len(First)
             p == args_parsed
             here == ArgEnd(script, p)
             there == ArgEnd(script, p + 1)
             y == Len(buffer)
  <2>1. script \in Scripts
    BY DEF FInv, OnTheWay
  <2>2. /\ Position = here + 4 /\ data_to_read = First[p + 1]
        /\ args_total = k
    BY <1>1, <1>2 DEF FInv, InFirst
  <2>3. k \in Nat /\ p \in Nat /\ p + 1 = k
    <3>1. k \in 1 .. ARGS_MAX
      BY <1>2, <2>1, FirstLaidOut, Zenon DEF LaidOut
    <3> QED
      BY <2>2, <3>1, ConnectionAssumption DEF CInv, TypeOK
  <2>4. p \in 0 .. k - 1 /\ p \in 0 .. k
    BY <2>3
  <2>5. there = here + (First[p + 1] + 6)
    BY <1>2, <2>1, <2>4, FirstLaidOut, Zenon DEF LaidOut
  <2>6. here \in Nat
    BY <1>2, <2>1, <2>4, FirstLaidOut, Zenon DEF LaidOut
  <2>7. y \in Nat /\ Delivered \in Nat /\ Position = Delivered - y
    BY LengthsAreNumbers DEF FInv, Position
  <2>8. y >= data_to_read + 2 /\ data_to_read \in Nat
    BY ConnectionAssumption DEF DataAndEnd, CInv, TypeOK
  <2> HIDE DEF here, there, y, p
  <2>9. there <= Delivered
    BY <2>2, <2>5, <2>6, <2>7, <2>8
  <2> QED
    BY <2>3, <2>9 DEF there, p
<1> QED
  BY <1>1, <1>2

\* The parser refuses a header, or waits for the rest of it.
LEMMA BadHeaderKeepsFirst ==
  ASSUME CInv, FInv, parse_buffer,
         NEW mark, NEW b \in Seq(Chars), BadHeader(b, mark),
         \/ state = "EXPECT_TYPE" /\ mark = "*" /\ b = Stripped(buffer)
         \/ state = "EXPECT_LENGTH" /\ mark = "$" /\ b = buffer
  PROVE  FInv'
<1>1. UNCHANGED <<script, unsent, inbox>> /\ stream \in {"open", "closing"}
  BY ParserReached DEF parse_buffer, client
<1>2. CASE Reject /\ UNCHANGED executed
  <2>1. stream' = "closing"
    BY <1>1, <1>2 DEF Reject, CloseStream, Abort
  <2> QED
    BY <1>1, <1>2, <2>1, FirstGivenUp
<1>3. CASE Break(b)
  <2>1. buffer' = b /\ UNCHANGED <<stream, state, counts, executed>>
    BY <1>3 DEF Break
  <2>2. CASE stream = "closing"
    BY <1>1, <2>1, <2>2, FirstGivenUp
  <2>3. CASE state = "EXPECT_LENGTH" /\ b = buffer
    BY <1>1, <2>1, <2>3, FirstUntouched
  <2>4. CASE stream = "open" /\ state = "EXPECT_TYPE" /\ b = Stripped(buffer)
    <3>1. EndOf(b, buffer)
      BY <2>4, StrippedIsEnd DEF CInv, StreamsOfChars
    <3>2. OnTheWay' /\ InBuffer' /\ Delivered' = Delivered
      BY <1>1, <2>1, <2>4, <3>1, BufferConsumed
    <3>3. InFirst'
      <4>1. ASSUME executed = 0, Started PROVE Position' <= Len(script.lead)
        BY <2>1, <2>4, <3>2, <4>1, HeaderIsNext DEF Position
      <4> QED
        BY <1>1, <2>1, <2>4, <4>1 DEF InFirst, Started
    <3>4. FirstDone'
      BY <1>1, <2>1, <3>2 DEF FInv, FirstDone, Started, First, ArgEnd
    <3> QED
      BY <3>2, <3>3, <3>4 DEF FInv
  <2> QED
    BY <1>1, <2>2, <2>3, <2>4
<1> QED
  BY <1>2, <1>3 DEF BadHeader

\* The number of arguments of the first command is read where it is.
LEMMA ParseTypeKeepsFirst ==
  ASSUME CInv, FInv, parse_buffer, ParseType
  PROVE  FInv'
<1> DEFINE b == Stripped(buffer)
<1>1. /\ b \in Seq(Chars) /\ EndOf(b, buffer) /\ state = "EXPECT_TYPE"
      /\ buffer \in Seq(Chars)
  BY StrippedTwice, StrippedIsEnd DEF CInv, StreamsOfChars, ParseType
<1>2. CASE BadHeader(b, "*")
  BY <1>1, <1>2, BadHeaderKeepsFirst
<1>3. ASSUME NEW n \in Allowed("*"),
             GoodHeader(b, "*", n), state' = "EXPECT_LENGTH", args_total' = n, args_parsed' = 0
      PROVE  FInv'
  <2>1. stream = "open" /\ UNCHANGED <<inbox, unsent, stream, executed>>
    BY <1>1, <1>3, GoodHeaderReached
  <2>2. UNCHANGED script
    BY DEF parse_buffer, client
  <2>3. b = Stripped(buffer)
    OBVIOUS
  <2> HIDE DEF b
  <2>4. buffer' = After(b, FirstCR(b) + 1) /\ HasLine(b) /\ n \in Numbers(b)
    BY <1>3 DEF GoodHeader
  <2>5. FirstCR(b) + 1 \in 0 .. Len(b)
    <3>1. FirstCR(b) \in 1 .. Len(b) - 1
      BY <2>4 DEF HasLine
    <3> QED
      BY <3>1
  <2>6. buffer' \in Seq(Chars) /\ Len(buffer') = Len(b) - (FirstCR(b) + 1) /\ EndOf(buffer', b)
    BY <1>1, <2>4, <2>5, AfterIsRest, AfterIsEnd
  <2>7. EndOf(buffer', buffer)
    BY <1>1, <2>6, EndOfEnd
  <2>8. OnTheWay' /\ InBuffer' /\ Delivered' = Delivered
    BY <2>1, <2>2, <2>7, BufferConsumed
  <2>9. InFirst'
    <3> SUFFICES ASSUME executed = 0, Started
                 PROVE  /\ n = Len(First) /\ 0 < Len(First)
                        /\ Position' = ArgEnd(script, 0)
      BY <1>3, <2>1, <2>2 DEF InFirst, Started, First, ArgEnd
    <3>1. script \in Scripts
      BY DEF FInv, OnTheWay
    <3>2. Len(First) \in 1 .. ARGS_MAX
      BY <3>1, FirstLaidOut, Zenon DEF LaidOut
    <3>3. Len(First) \in Nat /\ 0 < Len(First)
      BY <3>2
    <3>4. /\ \A x \in 1 .. 4 : x <= Len(b) => b[x] = Header("*", Len(First))[x]
          /\ b # <<>> => Delivered - Len(b) = Len(script.lead)
      BY <1>1, <2>1, <2>3, HeaderIsNext
    <3>5. Len(b) >= 4 /\ FirstCR(b) = 3 /\ Numbers(b) = {Len(First)}
      BY <1>1, <2>4, <3>3, <3>4, HeaderParsed
    <3>6. n = Len(First)
      BY <2>4, <3>5
    <3>7. ArgEnd(script, 0) = Len(script.lead) + 4
      BY <3>1, FirstLaidOut, Zenon DEF LaidOut
    <3>8. Len(buffer') = Len(b) - 4
      BY <2>6, <3>5
    <3>9. Len(b) \in Nat /\ Delivered \in Nat /\ Len(script.lead) \in Nat /\ b # <<>>
      BY <1>1, <3>1, <3>5, LengthsAreNumbers, ScriptIs DEF FInv
    <3>10. Position' = Delivered - Len(buffer')
      BY <2>8 DEF Position
    <3>11. Position' = ArgEnd(script, 0)
      BY <3>4, <3>7, <3>8, <3>9, <3>10
    <3> QED
      BY <3>3, <3>6, <3>11
  <2>10. FirstDone'
    BY <2>1, <2>2, <2>8 DEF FInv, FirstDone, Started, First, ArgEnd
  <2> QED
    BY <2>8, <2>9, <2>10 DEF FInv
<1> QED
  BY <1>2, <1>3 DEF ParseType

\* The length of an argument of the first command is read where it is.
LEMMA ParseLengthKeepsFirst ==
  ASSUME CInv, FInv, parse_buffer, ParseLength
  PROVE  FInv'
<1> DEFINE b == buffer
<1>1. b \in Seq(Chars) /\ state = "EXPECT_LENGTH"
  BY DEF CInv, StreamsOfChars, ParseLength
<1>2. CASE BadHeader(b, "$")
  BY <1>1, <1>2, BadHeaderKeepsFirst
<1>3. ASSUME NEW n \in Allowed("$"),
             GoodHeader(b, "$", n), state' = "EXPECT_DATA", data_to_read' = n,
             UNCHANGED <<args_total, args_parsed>>
      PROVE  FInv'
  <2>1. stream = "open" /\ UNCHANGED <<inbox, unsent, stream, executed>>
    BY <1>1, <1>3, GoodHeaderReached
  <2>2. UNCHANGED script
    BY DEF parse_buffer, client
  <2>3. buffer' = After(b, FirstCR(b) + 1) /\ HasLine(b) /\ n \in Numbers(b)
    BY <1>3 DEF GoodHeader
  <2>4. FirstCR(b) + 1 \in 0 .. Len(b)
    <3>1. FirstCR(b) \in 1 .. Len(b) - 1
      BY <2>3 DEF HasLine
    <3> QED
      BY <3>1
  <2>5. Len(buffer') = Len(b) - (FirstCR(b) + 1) /\ EndOf(buffer', buffer)
    BY <1>1, <2>3, <2>4, AfterIsRest, AfterIsEnd
  <2>6. OnTheWay' /\ InBuffer' /\ Delivered' = Delivered
    BY <2>1, <2>2, <2>5, BufferConsumed
  <2>7. InFirst'
    <3> SUFFICES ASSUME executed = 0, Started
                 PROVE  /\ n = First[args_parsed + 1]
                        /\ Position' = ArgEnd(script, args_parsed) + 4
                        /\ args_total = Len(First) /\ args_parsed < Len(First)
      BY <1>3, <2>1, <2>2 DEF InFirst, Started, First, ArgEnd
    <3>1. /\ Position = ArgEnd(script, args_parsed)
          /\ args_total = Len(First) /\ args_parsed < Len(First)
      BY <1>1, <2>1 DEF FInv, InFirst
    <3>2. /\ First[args_parsed + 1] \in Nat
          /\ \A x \in 1 .. 4 : x <= Len(b) => b[x] = Header("$", First[args_parsed + 1])[x]
      BY <1>1, <2>1, LengthIsNext
    <3>3. Len(b) >= 4 /\ FirstCR(b) = 3 /\ Numbers(b) = {First[args_parsed + 1]}
      BY <1>1, <2>3, <3>2, HeaderParsed
    <3>4. Len(buffer') = Len(b) - 4
      BY <2>5, <3>3
    <3>5. Len(b) \in Nat /\ Delivered \in Nat
      BY LengthsAreNumbers DEF FInv
    <3>6. Position' = Delivered - Len(buffer') /\ Position = Delivered - Len(b)
      BY <2>6 DEF Position
    <3>7. Position' = Position + 4
      BY <3>4, <3>5, <3>6
    <3> QED
      BY <2>3, <3>1, <3>3, <3>7
  <2>8. FirstDone'
    BY <2>1, <2>2, <2>6 DEF FInv, FirstDone, Started, First, ArgEnd
  <2> QED
    BY <2>6, <2>7, <2>8 DEF FInv
<1> QED
  BY <1>2, <1>3 DEF ParseLength

\* The data of an argument of the first command is taken when it is all there, and with the
\* last of them the command is executed.
LEMMA ParseDataKeepsFirst ==
  ASSUME CInv, FInv, parse_buffer, ParseData
  PROVE  FInv'
<1> DEFINE y == Len(buffer)
<1>1. /\ state = "EXPECT_DATA" /\ stream \in {"open", "closing"} /\ buffer \in Seq(Chars)
      /\ UNCHANGED <<script, unsent, inbox>>
  BY ParserReached DEF ParseData, parse_buffer, client, CInv, StreamsOfChars
<1>2. y \in Nat /\ DataAndEnd \in Nat /\ Delivered \in Nat /\ data_to_read \in Nat
  <2>1. y \in Nat /\ Delivered \in Nat
    BY LengthsAreNumbers DEF FInv
  <2>2. DataAndEnd \in Nat /\ data_to_read \in Nat
    BY ConnectionAssumption DEF CInv, TypeOK, DataAndEnd
  <2> QED
    BY <2>1, <2>2
<1>3. CASE Break(buffer)
  BY <1>1, <1>3, FirstUntouched DEF Break
<1>4. CASE y >= DataAndEnd
  <2>1. stream = "open"
    BY <1>1, <1>2, <1>4, ParserReached DEF Starved
  <2>2. ASSUME args_parsed + 1 = args_total, executed' = executed + 1, Delivered' = Delivered
        PROVE  FirstDone' /\ executed' = 1
    <3>1. executed' = 1 /\ (Started => ArgEnd(script, Len(First)) <= Delivered)
      BY <1>1, <1>4, <2>1, <2>2, LastArgumentIsThere
    <3> QED
      BY <1>1, <2>2, <3>1 DEF FirstDone, Started, First, ArgEnd
  <2>3. ASSUME executed' = executed, Delivered' = Delivered PROVE FirstDone'
    BY <1>1, <2>3 DEF FInv, FirstDone, Started, First, ArgEnd
  <2>4. CASE NoMemory
    <3>1. stream' = "closing"
      BY <2>1, <2>4 DEF NoMemory, CloseStream
    <3>2. OnTheWay' /\ Delivered' = Delivered
      BY <1>1, StillOnTheWay DEF FInv
    <3>3. FirstDone'
      BY <2>2, <2>3, <2>4, <3>2 DEF NoMemory
    <3> QED
      BY <3>1, <3>2, <3>3 DEF FInv, InBuffer, InFirst
  <2>5. CASE /\ buffer' = After(buffer, DataAndEnd) /\ args_parsed' = args_parsed + 1
             /\ Execute \/ StoreArgument
             /\ UNCHANGED <<stream, args_total, data_to_read>>
    <3>1. DataAndEnd \in 0 .. y
      BY <1>2, <1>4
    <3>2. Len(buffer') = y - DataAndEnd /\ EndOf(buffer', buffer)
      BY <1>1, <2>5, <3>1, AfterIsRest, AfterIsEnd
    <3>3. OnTheWay' /\ InBuffer' /\ Delivered' = Delivered
      BY <1>1, <2>1, <2>5, <3>2, BufferConsumed
    <3>4. CASE Execute
      <4>1. FirstDone' /\ executed' = 1
        BY <2>2, <3>3, <3>4 DEF Execute
      <4>2. InFirst'
        BY <4>1 DEF InFirst
      <4> QED
        BY <3>3, <4>1, <4>2 DEF FInv
    <3>5. CASE StoreArgument
      <4>1. FirstDone' /\ executed' = executed /\ state' = "EXPECT_LENGTH"
        BY <2>3, <3>3, <3>5 DEF StoreArgument
      <4>2. InFirst'
        <5> SUFFICES ASSUME executed = 0, Started
                     PROVE  /\ args_total = Len(First) /\ args_parsed + 1 < Len(First)
                            /\ Position' = ArgEnd(script, args_parsed + 1)
          BY <1>1, <2>1, <2>5, <4>1 DEF InFirst, Started, First, ArgEnd
        <5> DEFINE k == Len(First)
                   p == args_parsed
                   here == ArgEnd(script, p)
                   there == ArgEnd(script, p + 1)
        <5>1. script \in Scripts
          BY DEF FInv, OnTheWay
        <5>2. /\ Position = here + 4 /\ data_to_read = First[p + 1]
              /\ args_total = k /\ p < k
          BY <1>1, <2>1 DEF FInv, InFirst
        <5>3. k \in 1 .. ARGS_MAX
          BY <5>1, FirstLaidOut, Zenon DEF LaidOut
        <5>4. k \in Nat /\ p \in Nat /\ p + 1 < k /\ p \in 0 .. k - 1 /\ p \in 0 .. k
          <6>1. k \in Nat /\ p \in Nat
            BY <5>3 DEF CInv, TypeOK
          <6>2. p + 1 # k
            BY <3>5, <5>2 DEF StoreArgument
          <6> QED
            BY <5>2, <6>1, <6>2
        <5>5. there = here + (First[p + 1] + 6)
          BY <5>1, <5>4, FirstLaidOut, Zenon DEF LaidOut
        <5>6. here \in Nat
          BY <5>1, <5>4, FirstLaidOut, Zenon DEF LaidOut
        <5>7. Position' = Delivered - Len(buffer') /\ Position = Delivered - y
          BY <3>3 DEF Position
        <5>8. DataAndEnd = data_to_read + 2
          BY DEF DataAndEnd
        <5> HIDE DEF here, there, y, k, p
        <5>9. there = here + (data_to_read + 6)
          BY <5>2, <5>5
        <5>10. Position' = Position + DataAndEnd
          BY <1>2, <3>2, <5>7
        <5>11. Position' = there
          BY <1>2, <5>2, <5>6, <5>8, <5>9, <5>10
        <5> QED
          BY <5>2, <5>4, <5>11 DEF there, k, p
      <4> QED
        BY <3>3, <4>1, <4>2 DEF FInv
    <3> QED
      BY <2>5, <3>4, <3>5
  <2> QED
    BY <1>3, <2>4, <2>5 DEF ParseData
<1> QED
  BY <1>3, <1>4 DEF ParseData

\* Every step preserves FInv.
LEMMA NextFInv == CInv /\ FInv /\ [Next]_vars => FInv'
<1> SUFFICES ASSUME CInv, FInv, [Next]_vars PROVE FInv'
  OBVIOUS
<1>1. CASE ClientSends
  BY <1>1, ClientMoves
<1>2. CASE ClientLeaves \/ NextPhase \/ UNCHANGED vars
  <2>1. UNCHANGED <<script, unsent, inbox, stream, buffer, state, counts, executed>>
    BY <1>2 DEF ClientLeaves, Unseen, NextPhase, vars, client, handles, parser
  <2> QED
    BY <2>1, FirstUntouched
<1>3. CASE on_new_connection
  BY <1>3, NewConnectionStarts
<1>4. CASE on_read
  BY <1>4, ReadKeepsFirst
<1>5. CASE WriteEnds \/ on_client_timeout
  <2>1. UNCHANGED <<script, unsent, inbox, buffer, state, counts, executed>>
    BY <1>5 DEF WriteEnds, on_client_timeout, client, parser
  <2>2. stream' = stream \/ stream' = "closing"
    BY <1>5 DEF WriteEnds, on_client_timeout, on_write_complete, CloseStream, Abort,
             WildHandle
  <2>3. CASE stream' = stream
    BY <2>1, <2>3, FirstUntouched
  <2>4. CASE stream' = "closing"
    BY <2>1, <2>4, FirstGivenUp
  <2> QED
    BY <2>2, <2>3, <2>4
<1>6. CASE FinishStream
  <2>1. UNCHANGED <<script, unsent, inbox, executed>>
    BY <1>6 DEF FinishStream, client
  <2>2. stream' \in {"closing", "closed"}
    BY <1>6 DEF FinishStream, Abort, WildHandle
  <2> QED
    BY <2>1, <2>2, FirstGivenUp
<1>7. CASE on_timer_close
  <2>1. UNCHANGED <<script, unsent, inbox, stream, executed>>
    BY <1>7 DEF on_timer_close, client
  <2>2. stream \notin {"none", "open"}
    BY <1>7 DEF on_timer_close, CInv, HandlesFit, Blank
  <2> QED
    BY <2>1, <2>2, FirstGivenUp
<1>8. CASE parse_buffer
  BY <1>8, ParseTypeKeepsFirst, ParseLengthKeepsFirst, ParseDataKeepsFirst DEF parse_buffer
<1> QED
  BY <1>1, <1>2, <1>3, <1>4, <1>5, <1>6, <1>7, <1>8 DEF Next, Loop

\* Where the parser is in the first command is invariant, whatever the split into reads.
THEOREM FirstFollowed == Spec => []FInv
<1>1. Init => CInv /\ FInv
  BY InitCInv, InitFInv
<1>2. CInv /\ FInv /\ [Next]_vars => CInv' /\ FInv'
  BY NextCInv, NextFInv
<1> QED
  BY <1>1, <1>2, PTL DEF Spec

\* Complete counts the first command when it was delivered, and no command before.
LEMMA CompleteIs ==
  ASSUME CInv, FInv
  PROVE  /\ Complete \in Nat
         /\ Started /\ ArgEnd(script, Len(First)) <= Delivered => Complete >= 1
         /\ Complete > 0 => Started /\ ArgEnd(script, Len(First)) <= Delivered
         /\ Len(script.commands) = 1 => Complete <= 1
<1> DEFINE m == Len(script.commands)
           Got == {n \in 1 .. m : Len(Through(script, n)) <= Delivered}
<1>1. Complete = Cardinality(Got)
  BY DEF Complete
<1>2. script \in Scripts /\ Delivered \in Nat
  BY LengthsAreNumbers DEF FInv, OnTheWay
<1>3. m \in Nat /\ (m > 0 => Started)
  <2>1. m \in Nat
    BY <1>2, ScriptIs
  <2>2. Len(<<>>) = 0
    OBVIOUS
  <2> QED
    BY <2>1, <2>2 DEF Started
<1>4. IsFiniteSet(Got)
  <2>1. IsFiniteSet(1 .. m)
    BY <1>3, FS_Interval
  <2> QED
    BY <2>1, FS_Subset
<1>5. Cardinality(Got) \in Nat /\ (Cardinality(Got) = 0 <=> Got = {})
  BY <1>4, FS_CardinalityType, FS_EmptySet
<1>6. ASSUME Started, ArgEnd(script, Len(First)) <= Delivered PROVE Got # {}
  <2>1. 1 \in 1 .. m /\ Len(Through(script, 1)) = ArgEnd(script, Len(First))
    BY <1>2, <1>6, FirstLaidOut, Zenon DEF LaidOut
  <2>2. 1 \in Got
    BY <1>6, <2>1
  <2> QED
    BY <2>2
<1>7. ASSUME NEW n \in Got PROVE Started /\ ArgEnd(script, Len(First)) <= Delivered
  <2>1. n \in 1 .. m /\ Len(Through(script, n)) <= Delivered
    OBVIOUS
  <2>2. Started
    BY <1>3, <2>1
  <2>3. ArgEnd(script, Len(First)) <= Len(Through(script, n))
    BY <1>2, <2>1, <2>2, FirstLaidOut, Zenon DEF LaidOut
  <2>4. ArgEnd(script, Len(First)) \in Nat /\ Len(Through(script, n)) \in Nat
    <3>1. Len(First) \in 1 .. ARGS_MAX
      BY <1>2, <2>2, FirstLaidOut, Zenon DEF LaidOut
    <3>2. Len(First) \in 0 .. Len(First)
      BY <3>1
    <3>3. ArgEnd(script, Len(First)) \in Nat
      BY <1>2, <2>2, <3>2, FirstLaidOut, Zenon DEF LaidOut
    <3>4. n \in 0 .. m
      BY <1>3, <2>1
    <3>5. Through(script, n) \in Seq(Chars)
      BY <1>2, <3>4, ThroughIs
    <3> QED
      BY <3>3, <3>5
  <2> QED
    BY <1>2, <2>1, <2>2, <2>3, <2>4
<1>8. m = 1 => Cardinality(Got) <= 1
  <2>1. IsFiniteSet({1}) /\ Cardinality({1}) = 1
    BY FS_Singleton
  <2>2. m = 1 => Got \subseteq {1}
    OBVIOUS
  <2> HIDE DEF Got
  <2> QED
    BY <2>1, <2>2, FS_Subset
<1> HIDE DEF Got
<1>9. Complete > 0 => Got # {}
  BY <1>1, <1>5
<1>10. Got # {} => Complete >= 1
  BY <1>1, <1>5
<1> QED
  BY <1>1, <1>5, <1>6, <1>7, <1>8, <1>9, <1>10

\* Between callbacks the parser is starved, and it is not where all of the first command is
\* in the buffer.
LEMMA FirstInTime ==
  ASSUME CInv, FInv
  PROVE  FirstCommandExecuted
<1> SUFFICES ASSUME Quiet, stream = "open", Complete > 0, executed = 0 PROVE FALSE
  BY DEF FirstCommandExecuted, CInv, OneReply
<1>1. Starved
  BY DEF Quiet, CInv, ParserStarved
<1>2. script \in Scripts /\ Started /\ ArgEnd(script, Len(First)) <= Delivered
  BY CompleteIs DEF FInv, OnTheWay
<1> DEFINE k == Len(First)
           whole == ArgEnd(script, k)
           l == Len(script.lead)
           y == Len(buffer)
           p == args_parsed
           here == ArgEnd(script, p)
           there == ArgEnd(script, p + 1)
<1>3. k \in 1 .. ARGS_MAX
  BY <1>2, FirstLaidOut, Zenon DEF LaidOut
<1>4. k \in Nat /\ 0 \in 0 .. k - 1 /\ 0 \in 0 .. k /\ k \in 0 .. k
  BY <1>3
<1>5. ArgEnd(script, 0) = l + 4 /\ ArgEnd(script, 0) <= whole /\ whole \in Nat
  BY <1>2, <1>4, FirstLaidOut, Zenon DEF LaidOut
<1>6. y \in Nat /\ Delivered \in Nat /\ l \in Nat /\ Position = Delivered - y
  BY <1>2, LengthsAreNumbers, ScriptIs DEF FInv, Position
<1>7. buffer \in Seq(Chars) /\ state \in {"EXPECT_TYPE", "EXPECT_LENGTH", "EXPECT_DATA"}
  BY DEF CInv, StreamsOfChars, TypeOK
<1>8. CASE state = "EXPECT_TYPE"
  <2> DEFINE b == Stripped(buffer)
  <2>1. /\ b \in Seq(Chars)
        /\ \A x \in 1 .. 4 : x <= Len(b) => b[x] = Header("*", k)[x]
        /\ Delivered - Len(b) <= l
    BY <1>2, <1>8, HeaderIsNext
  <2>2. ~HasLine(b)
    BY <1>1, <1>8 DEF Starved, BreaksOn
  <2> HIDE DEF b, k, whole, l
  <2>3. Len(b) \in Nat /\ Len(b) >= 4
    BY <1>2, <1>5, <1>6, <2>1 DEF whole, k
  <2> QED
    BY <1>4, <2>1, <2>2, <2>3, HeaderParsed
<1>9. ASSUME state # "EXPECT_TYPE"
      PROVE  /\ p \in 0 .. k - 1 /\ p + 1 \in 0 .. k
             /\ here \in Nat /\ there = here + (First[p + 1] + 6) /\ there <= whole
             /\ First[p + 1] \in Nat
  <2>1. p < k
    BY <1>2, <1>9 DEF FInv, InFirst
  <2>2. p \in 0 .. k - 1 /\ p \in 0 .. k /\ p + 1 \in 0 .. k /\ p + 1 \in 1 .. k
    BY <1>4, <2>1 DEF CInv, TypeOK
  <2>3. First \in Seq(0 .. LEN_MAX)
    BY <1>2, FirstLaidOut, Zenon DEF LaidOut
  <2>4. First[p + 1] \in Nat
    BY <2>2, <2>3, ConnectionAssumption
  <2>5. here \in Nat /\ there = here + (First[p + 1] + 6) /\ there <= whole
    BY <1>2, <2>2, FirstLaidOut, Zenon DEF LaidOut
  <2> QED
    BY <2>2, <2>4, <2>5
<1>10. CASE state = "EXPECT_LENGTH"
  <2>1. Position = here
    BY <1>2, <1>10 DEF FInv, InFirst
  <2>2. /\ First[p + 1] \in Nat
        /\ \A x \in 1 .. 4 : x <= y => buffer[x] = Header("$", First[p + 1])[x]
    BY <1>2, <1>10, LengthIsNext
  <2>3. ~HasLine(buffer)
    BY <1>1, <1>10 DEF Starved, BreaksOn
  <2>4. y >= 4
    <3> HIDE DEF here, there, y, whole
    <3>1. there <= Delivered /\ there = here + (First[p + 1] + 6) /\ here \in Nat
      BY <1>2, <1>5, <1>6, <1>9, <1>10, <2>2 DEF whole
    <3> QED
      BY <1>6, <2>1, <2>2, <3>1
  <2> QED
    BY <1>7, <2>2, <2>3, <2>4, HeaderParsed
<1>11. CASE state = "EXPECT_DATA"
  <2>1. Position = here + 4 /\ data_to_read = First[p + 1]
    BY <1>2, <1>11 DEF FInv, InFirst
  <2>2. y < First[p + 1] + 2
    BY <1>1, <1>11, <2>1 DEF Starved, DataAndEnd
  <2> HIDE DEF here, there, y, whole
  <2>3. /\ there <= Delivered /\ there = here + (First[p + 1] + 6) /\ here \in Nat
        /\ First[p + 1] \in Nat
    BY <1>2, <1>5, <1>6, <1>9, <1>11 DEF whole
  <2> QED
    BY <1>6, <2>1, <2>2, <2>3
<1> QED
  BY <1>7, <1>8, <1>10, <1>11

\* However the bytes are split over reads, the first command of a connection is executed as
\* soon as on_read (server.c:295) returns from reading its last character.
THEOREM FirstCommandExecutedHolds == Spec => []FirstCommandExecuted
BY Invariant, FirstFollowed, FirstInTime, PTL

\* However the bytes are split over reads, and whatever comes behind, the first command is
\* not executed before its last character was read (server.c:194, 226).
THEOREM OnlyCompleteCommandsHolds == Spec => [](Started => OnlyCompleteCommands)
<1>1. ASSUME CInv, FInv PROVE Started => OnlyCompleteCommands
  <2> SUFFICES ASSUME Started PROVE executed <= Complete
    BY DEF OnlyCompleteCommands
  <2>1. Complete \in Nat /\ executed \in {0, 1}
    BY <1>1, CompleteIs DEF CInv, OneReply
  <2>2. executed = 1 => Complete >= 1
    BY <1>1, CompleteIs DEF FInv, FirstDone
  <2> QED
    BY <2>1, <2>2
<1> QED
  BY <1>1, Invariant, FirstFollowed, PTL

-----------------------------------------------------------------------------
(***************************************************************************)
(* A single command, with memory enough.                                   *)
(***************************************************************************)

\* A stream that is not open any more has answered its first command, if that was delivered.
Answered ==
  stream \in {"closing", "closed"} /\ Started /\ ArgEnd(script, Len(First)) <= Delivered
    => executed = 1

\* The first command is not empty.
LEMMA FirstIsLonger ==
  ASSUME script \in Scripts, Started
  PROVE  ~(ArgEnd(script, Len(First)) <= 0)
<1>1. Len(First) \in 1 .. ARGS_MAX
  BY FirstLaidOut, Zenon DEF LaidOut
<1>2. 0 \in 0 .. Len(First) /\ Len(First) \in 0 .. Len(First)
  BY <1>1
<1>3. /\ ArgEnd(script, 0) = Len(script.lead) + 4
      /\ ArgEnd(script, 0) <= ArgEnd(script, Len(First)) /\ ArgEnd(script, Len(First)) \in Nat
  BY <1>2, FirstLaidOut, Zenon DEF LaidOut
<1>4. Len(script.lead) \in Nat
  BY ScriptIs
<1> QED
  BY <1>3, <1>4

\* The parser refuses nothing of the first command.
LEMMA FirstNotRefused ==
  ASSUME CInv, FInv, stream = "open", executed = 0, Started, NEW mark, NEW b,
         \/ state = "EXPECT_TYPE" /\ mark = "*" /\ b = Stripped(buffer)
         \/ state = "EXPECT_LENGTH" /\ mark = "$" /\ b = buffer
  PROVE  (b # <<>> => b[1].char = mark) /\ (HasLine(b) => Numbers(b) \subseteq Allowed(mark))
<1>1. script \in Scripts
  BY DEF FInv, OnTheWay
<1>2. Len(First) \in 1 .. ARGS_MAX /\ First \in Seq(0 .. LEN_MAX)
  BY <1>1, FirstLaidOut, Zenon DEF LaidOut
<1>3. Len(First) \in Nat
  BY <1>2
<1>4. CASE state = "EXPECT_TYPE" /\ mark = "*" /\ b = Stripped(buffer)
  <2>1. /\ b \in Seq(Chars)
        /\ \A x \in 1 .. 4 : x <= Len(b) => b[x] = Header("*", Len(First))[x]
    BY <1>4, HeaderIsNext
  <2>2. (b # <<>> => b[1].char = "*") /\ (HasLine(b) => Numbers(b) = {Len(First)})
    BY <1>3, <2>1, HeaderParsed
  <2> QED
    BY <1>2, <1>4, <2>2 DEF Allowed
<1>5. CASE state = "EXPECT_LENGTH" /\ mark = "$" /\ b = buffer
  <2> DEFINE n == First[args_parsed + 1]
  <2>1. n \in Nat /\ \A x \in 1 .. 4 : x <= Len(b) => b[x] = Header("$", n)[x]
    BY <1>5, LengthIsNext
  <2>2. n \in 0 .. LEN_MAX
    <3>1. args_parsed < Len(First) /\ args_parsed \in Nat
      BY <1>5 DEF FInv, InFirst, CInv, TypeOK
    <3>2. args_parsed + 1 \in 1 .. Len(First)
      BY <1>3, <3>1
    <3> QED
      BY <1>2, <3>2, ConnectionAssumption
  <2>3. b \in Seq(Chars)
    BY <1>5 DEF CInv, StreamsOfChars
  <2> HIDE DEF n
  <2>4. (b # <<>> => b[1].char = "$") /\ (HasLine(b) => Numbers(b) = {n})
    BY <2>1, <2>3, HeaderParsed
  <2> QED
    BY <1>5, <2>2, <2>4 DEF Allowed
<1> QED
  BY <1>4, <1>5

\* An open stream is not closed by the parser before the first command is executed.
LEMMA ParserKeepsOpen ==
  ASSUME ~MallocMayFail, CInv, FInv, parse_buffer, stream = "open", executed = 0, Started
  PROVE  stream' = "open"
<1>1. ASSUME NEW mark, NEW b, BadHeader(b, mark),
             \/ state = "EXPECT_TYPE" /\ mark = "*" /\ b = Stripped(buffer)
             \/ state = "EXPECT_LENGTH" /\ mark = "$" /\ b = buffer
      PROVE  stream' = "open"
  <2>1. (b # <<>> => b[1].char = mark) /\ (HasLine(b) => Numbers(b) \subseteq Allowed(mark))
    BY <1>1, FirstNotRefused
  <2>2. Break(b)
    BY <1>1, <2>1 DEF BadHeader
  <2> QED
    BY <2>2 DEF Break
<1>2. CASE ParseType
  BY <1>1, <1>2 DEF ParseType, GoodHeader
<1>3. CASE ParseLength
  BY <1>1, <1>3 DEF ParseLength, GoodHeader
<1>4. CASE ParseData
  BY <1>4 DEF ParseData, Break, NoMemory
<1> QED
  BY <1>2, <1>3, <1>4 DEF parse_buffer

\* No step closes a stream whose first command was delivered and is not answered.
LEMMA NextAnswered ==
  ASSUME ~MallocMayFail, CInv, FInv, Answered, [Next]_vars
  PROVE  Answered'
<1> SUFFICES ASSUME stream' \in {"closing", "closed"}, Started',
                    ArgEnd(script', Len(First')) <= Delivered'
             PROVE  executed' = 1
  BY DEF Answered, ArgEnd, First
<1>1. UNCHANGED script /\ Started /\ ArgEnd(script, Len(First)) <= Delivered'
  <2>1. script' = script
    BY DEF Next, Loop, vars, client, ClientSends, ClientLeaves, on_new_connection, on_read,
           WriteEnds, on_client_timeout, NextPhase, parse_buffer, FinishStream, on_timer_close
  <2> QED
    BY <2>1 DEF Started, First
<1>2. executed \in {0, 1} /\ CInv' /\ executed' \in {0, 1}
  <2>1. CInv'
    BY NextCInv
  <2> QED
    BY <2>1 DEF CInv, OneReply
<1>3. script \in Scripts
  BY DEF FInv, OnTheWay
<1>4. CASE parse_buffer
  <2>1. Delivered' = Delivered
    BY <1>4 DEF parse_buffer, client, Delivered
  <2>2. executed' = executed \/ executed' = executed + 1
    BY <1>4 DEF parse_buffer, ParseType, ParseLength, ParseData, BadHeader, GoodHeader, Break,
                NoMemory, Execute, StoreArgument
  <2>3. CASE stream = "open"
    BY <1>1, <1>2, <1>4, <2>2, <2>3, ParserKeepsOpen
  <2>4. CASE stream = "closing"
    BY <1>1, <1>2, <2>1, <2>2, <2>4 DEF Answered
  <2> QED
    BY <1>4, <2>3, <2>4, ParserReached
<1>5. CASE on_new_connection
  <2>1. Delivered' = Delivered /\ Delivered = 0
    BY <1>5 DEF on_new_connection, client, Delivered, CInv, HandlesFit, FInv, InBuffer
  <2>2. ~(ArgEnd(script, Len(First)) <= 0)
    BY <1>1, <1>3, FirstIsLonger
  <2> QED
    BY <1>1, <2>1, <2>2
<1>6. CASE ~parse_buffer /\ ~on_new_connection
  <2>1. executed' = executed
    BY <1>6 DEF Next, Loop, vars, handles, parser, Unseen, ClientSends, ClientLeaves, on_read,
           WriteEnds, on_client_timeout, NextPhase, FinishStream, on_timer_close
  <2>2. CASE stream \in {"closing", "closed"}
    <3>1. CASE ClientSends
      <4>1. Delivered' = Delivered
        BY <3>1, ClientMoves
      <4> QED
        BY <1>1, <2>1, <2>2, <4>1 DEF Answered
    <3>2. CASE ~ClientSends
      <4>1. UNCHANGED <<unsent, inbox>>
        BY <1>6, <2>2, <3>2 DEF Next, Loop, vars, client, ClientLeaves, on_read,
           WriteEnds, on_client_timeout, NextPhase, FinishStream, on_timer_close
      <4>2. Delivered' = Delivered
        BY <1>1, <4>1 DEF Delivered
      <4> QED
        BY <1>1, <2>1, <2>2, <4>2 DEF Answered
    <3> QED
      BY <3>1, <3>2
  <2>3. CASE stream \notin {"closing", "closed"}
    <3>1. \/ on_read /\ ReadError
          \/ WriteEnds
          \/ on_client_timeout
      BY <1>6, <2>3 DEF Next, Loop, vars, handles, Unseen, ClientSends, ClientLeaves, on_read,
         ReadData, NextPhase, FinishStream, on_timer_close
    <3>2. Quiet /\ stream = "open" /\ UNCHANGED <<unsent, inbox>>
      BY <2>3, <3>1 DEF on_read, ReadError, WriteEnds, on_client_timeout, In, Quiet, client,
         CloseStream, Abort, CInv, TypeOK
    <3>3. Delivered' = Delivered
      BY <1>1, <3>2 DEF Delivered
    <3>4. Complete >= 1 /\ Complete \in Nat
      BY <1>1, <3>3, CompleteIs
    <3>5. executed > 0
      BY <3>2, <3>4, FirstInTime DEF FirstCommandExecuted
    <3> QED
      BY <1>2, <2>1, <3>5
  <2> QED
    BY <2>2, <2>3
<1> QED
  BY <1>4, <1>5, <1>6

\* A client that sends one command has it executed as soon as the last of it was read, and
\* never again (server.c:193-286), if memory is granted: that a second command is sent and
\* that memory fails are the only causes for which a complete command is not executed.
THEOREM EveryCommandExecutedHolds ==
  ASSUME ~MallocMayFail
  PROVE  Spec => [](Len(script.commands) = 1 => EveryCommandExecuted)
<1>1. Init => Answered
  BY DEF Init, Answered
<1>2. CInv /\ FInv /\ Answered /\ [Next]_vars => Answered'
  BY NextAnswered
<1>3. Spec => []Answered
  BY <1>1, <1>2, Invariant, FirstFollowed, PTL DEF Spec
<1>4. ASSUME CInv, FInv, Answered
      PROVE  Len(script.commands) = 1 => EveryCommandExecuted
  <2> SUFFICES ASSUME Len(script.commands) = 1, Quiet PROVE executed = Complete
    BY DEF EveryCommandExecuted
  <2>1. executed \in {0, 1} /\ Complete \in Nat /\ Complete <= 1
    BY <1>4, CompleteIs DEF CInv, OneReply
  <2>2. Started
    <3>1. Len(<<>>) = 0
      OBVIOUS
    <3> QED
      BY <3>1 DEF Started
  <2>3. executed = 1 => Complete >= 1
    BY <1>4, <2>2, CompleteIs DEF FInv, FirstDone
  <2>4. ASSUME Complete >= 1 PROVE executed = 1
    <3>1. ArgEnd(script, Len(First)) <= Delivered
      BY <1>4, <2>1, <2>4, CompleteIs
    <3>2. CASE stream \in {"closing", "closed"}
      BY <1>4, <2>2, <3>1, <3>2 DEF Answered
    <3>3. CASE stream = "open"
      BY <1>4, <2>1, <2>4, <3>3, FirstInTime DEF FirstCommandExecuted
    <3>4. CASE stream = "none"
      BY <1>4, <2>2, <3>1, <3>4, FirstIsLonger DEF FInv, InBuffer, OnTheWay
    <3> QED
      BY <1>4, <3>2, <3>3, <3>4 DEF CInv, TypeOK
  <2> QED
    BY <2>1, <2>3, <2>4
<1> QED
  BY <1>3, <1>4, Invariant, FirstFollowed, PTL

-----------------------------------------------------------------------------
(***************************************************************************)
(* The refinement of Lifecycle.                                            *)
(***************************************************************************)

\* The initial states map to the initial state of Lifecycle.
LEMMA InitLifecycle == Init => L!Init
BY DEF Init, L!Init, LifeOf

\* A step that Lifecycle does not see.
LEMMA SeenAsNothing ==
  ASSUME UNCHANGED <<stream, timer, writes, ctx, executed, status>>
  PROVE  UNCHANGED L!vars
BY DEF L!vars, LifeOf

\* on_new_connection is Arrive.
LEMMA NewConnectionIsArrive ==
  ASSUME CInv, on_new_connection
  PROVE  L!Next
<1>1. /\ ctx = "none" /\ status = "up" /\ writes = <<>> /\ timer = "none"
  BY DEF CInv, HandlesFit, Blank, on_new_connection, In
<1>2. LifeOf = "none" /\ LifeOf' \in {"open", "refused", "unaccepted"}
  BY <1>1 DEF LifeOf, on_new_connection
<1>3. UNCHANGED <<executed, writes, status>>
  BY DEF on_new_connection
<1> QED
  BY <1>1, <1>2, <1>3 DEF L!Next, L!Arrive

\* A connection whose stream is open is an open one.
LEMMA OpenSeen ==
  ASSUME CInv, stream = "open"
  PROVE  LifeOf = "open"
BY DEF CInv, TypeOK, HandlesFit, Blank, LifeOf

\* A step that closes the stream and leaves the rest is Close.
LEMMA ClosingIsClose ==
  ASSUME CInv, status = "up", stream = "open", stream' = "closing", ctx' = ctx, timer' # "none",
         UNCHANGED <<writes, executed, status>>
  PROVE  L!Next
<1>1. LifeOf = "open" /\ LifeOf' = "closing"
  BY OpenSeen DEF CInv, TypeOK, HandlesFit, Blank, LifeOf
<1> QED
  BY <1>1 DEF L!Next, L!Close

\* on_read is Close or is not seen.
LEMMA ReadSeen ==
  ASSUME CInv, on_read
  PROVE  L!Next \/ UNCHANGED L!vars
<1> USE DEF memory, counts, In
<1>1. /\ status = "up" /\ stream = "open" /\ timer = "running"
      /\ UNCHANGED <<writes, ctx, executed>>
  BY DEF CInv, HandlesFit, on_read
<1>2. \/ timer' = "running" /\ stream' = "open" /\ status' = "up"
      \/ timer' \in {"running", "stopped"} /\ stream' = "closing" /\ status' = "up"
  BY <1>1 DEF on_read, ReadData, ReadError, CloseStream
<1> QED
  BY <1>1, <1>2, SeenAsNothing, ClosingIsClose

\* on_write_complete is ReplyEnds.
LEMMA WriteEndsSeen ==
  ASSUME CInv, WriteEnds
  PROVE  L!Next
<1>1. status = "up" /\ stream = "open" /\ LifeOf = "open"
  BY OpenSeen DEF WriteEnds, In
<1>2. PICK w \in {"sent", "queued", "failed"} : writes = <<w>>
  BY DEF CInv, OneReply, WriteEnds
<1>3. Head(writes) = w /\ writes[1] = w /\ writes # <<>> /\ writes' = <<>>
  BY <1>2 DEF WriteEnds
<1>4. UNCHANGED <<timer, ctx, executed>>
  BY DEF WriteEnds, parser
<1>5. \/ w # "failed" /\ status' = "up" /\ stream' = "open"
      \/ w # "sent" /\ status' = "up" /\ stream' = "closing"
      \/ w # "sent" /\ status' = "corrupt" /\ stream' = "open"
  BY <1>1, <1>3, ConnectionAssumption
     DEF WriteEnds, on_write_complete, CloseStream, WildHandle, In
<1>6. /\ stream' = "open" => LifeOf' = "open"
      /\ stream' = "closing" => LifeOf' = "closing"
  BY <1>1, <1>4 DEF LifeOf, CInv, TypeOK, HandlesFit, Blank
<1>7. L!ReplyEnds
  BY <1>1, <1>2, <1>3, <1>4, <1>5, <1>6 DEF L!ReplyEnds
<1> QED
  BY <1>1, <1>7 DEF L!Next

\* on_client_timeout is Close.
LEMMA TimeoutSeen ==
  ASSUME CInv, on_client_timeout
  PROVE  L!Next
<1>1. status = "up" /\ stream = "open"
  BY DEF CInv, HandlesFit, on_client_timeout, In
<1> QED
  BY <1>1, ClosingIsClose DEF on_client_timeout, CloseStream, parser

\* on_client_close is Finish, a close too many is Abort.
LEMMA FinishSeen ==
  ASSUME CInv, FinishStream
  PROVE  L!Next
<1>1. /\ status = "up" /\ stream = "closing" /\ ctx = "live"
      /\ timer \in {"none", "running", "stopped"}
      /\ UNCHANGED <<ctx, executed>>
  BY DEF CInv, TypeOK, HandlesFit, FinishStream, In, on_client_close
<1>2. LifeOf = IF timer = "none" THEN "unaccepted" ELSE "closing"
  BY <1>1 DEF LifeOf
<1>3. CASE /\ ToSet(writes) \subseteq {"sent"} /\ timer # "none"
           /\ stream' = "closed" /\ writes' = <<>>
           /\ on_client_close /\ UNCHANGED status
  <2>1. writes = <<>> \/ writes = <<"sent">>
    BY <1>3, OutcomeSets DEF CInv, OneReply
  <2>2. timer' = "closing"
    BY <1>1, <1>3 DEF on_client_close
  <2>3. LifeOf' = "closing"
    BY <1>1, <1>3, <2>2 DEF LifeOf
  <2>4. L!Finish
    BY <1>1, <1>2, <1>3, <2>1, <2>3 DEF L!Finish
  <2> QED
    BY <1>1, <2>4 DEF L!Next
<1>4. CASE /\ \/ ~(ToSet(writes) \subseteq {"sent"}) /\ status' \in {"aborted", "corrupt"}
              \/ timer = "none" /\ status' = "aborted"
           /\ UNCHANGED <<stream, writes, timer>>
  <2>1. timer = "none" => status' = "aborted"
    BY <1>1, <1>4, OutcomeSets DEF CInv, HandlesFit
  <2>2. timer # "none" => writes = <<"queued">> \/ writes = <<"failed">>
    BY <1>4, OutcomeSets DEF CInv, OneReply
  <2>3. LifeOf' = LifeOf
    BY <1>1, <1>4 DEF LifeOf
  <2>4. L!Abort
    BY <1>1, <1>2, <1>4, <2>1, <2>2, <2>3 DEF L!Abort
  <2> QED
    BY <1>1, <2>4 DEF L!Next
<1> QED
  BY <1>3, <1>4 DEF FinishStream, Abort, WildHandle

\* on_timer_close is Finish.
LEMMA TimerCloseSeen ==
  ASSUME CInv, on_timer_close
  PROVE  L!Next
<1>1. /\ status = "up" /\ ctx = "live" /\ stream = "closed" /\ timer = "closing" /\ writes = <<>>
      /\ ctx' = "freed" /\ UNCHANGED <<writes, executed, status>>
  BY DEF CInv, TypeOK, HandlesFit, Blank, on_timer_close, In
<1>2. LifeOf = "closing" /\ LifeOf' = "freed"
  BY <1>1 DEF LifeOf
<1> QED
  BY <1>1, <1>2 DEF L!Next, L!Finish

\* A header, taken or not.
LEMMA HeaderSeen ==
  ASSUME CInv, parse_buffer,
         NEW mark, NEW b \in Seq(Chars),
         \/ state = "EXPECT_TYPE" /\ mark = "*" /\ b = Stripped(buffer)
         \/ state = "EXPECT_LENGTH" /\ mark = "$" /\ b = buffer,
         BadHeader(b, mark) \/ \E n : GoodHeader(b, mark, n)
  PROVE  L!Next \/ UNCHANGED L!vars
<1>1. /\ status = "up" /\ timer = "running" /\ UNCHANGED <<timer, ctx>>
      /\ stream = "closing" => BreaksOn(b, mark)
  BY ParserReached DEF parse_buffer, Starved
<1>2. CASE \/ b # <<>> /\ b[1].char # mark /\ Reject /\ UNCHANGED executed
           \/ HasLine(b) /\ Reject /\ UNCHANGED executed
  <2>1. stream = "open"
    BY <1>1, <1>2, ParserReached DEF BreaksOn
  <2>2. stream' = "closing" /\ UNCHANGED <<writes, executed, status>>
    BY <1>2, <2>1 DEF Reject, CloseStream
  <2> QED
    BY <1>1, <2>1, <2>2, ClosingIsClose
<1>3. CASE Break(b) \/ \E n : GoodHeader(b, mark, n)
  <2>1. UNCHANGED <<stream, writes, executed, status>>
    BY <1>3 DEF Break, GoodHeader
  <2> QED
    BY <1>1, <2>1, SeenAsNothing
<1> QED
  BY <1>2, <1>3 DEF BadHeader

\* The data of an argument, and in the last argument the command.
LEMMA DataSeen ==
  ASSUME CInv, parse_buffer, ParseData
  PROVE  L!Next \/ UNCHANGED L!vars
<1>1. /\ status = "up" /\ timer = "running" /\ UNCHANGED <<timer, ctx>>
      /\ stream \in {"open", "closing"} /\ state = "EXPECT_DATA"
  BY ParserReached DEF parse_buffer, ParseData
<1>2. CASE Break(buffer)
  BY <1>1, <1>2, SeenAsNothing DEF Break
<1>3. CASE Len(buffer) >= DataAndEnd
  <2>1. stream = "open"
    <3>1. Len(buffer) \in Nat /\ DataAndEnd \in Nat
      BY DEF CInv, TypeOK, StreamsOfChars, DataAndEnd
    <3> QED
      BY <1>1, <1>3, <3>1, ParserReached DEF Starved
  <2>2. LifeOf = "open"
    BY <2>1, OpenSeen
  <2>3. /\ args_total \in Nat \ {0} /\ args_parsed \in Nat /\ executed \in {0, 1}
        /\ executed = 1 <=> args_parsed >= args_total
    BY <1>1, <2>1, ConnectionAssumption DEF CInv, TypeOK, OneReply, OneCommand
  <2>4. CASE NoMemory
    <3>1. stream' = "closing" /\ UNCHANGED <<writes, status>>
      BY <2>1, <2>4 DEF NoMemory, CloseStream
    <3>2. CASE UNCHANGED executed
      BY <1>1, <2>1, <3>1, <3>2, ClosingIsClose
    <3>3. CASE args_parsed + 1 = args_total /\ executed' = executed + 1
      <4>1. executed = 0 /\ executed' = 1
        BY <2>3, <3>3
      <4>2. LifeOf' = "closing"
        BY <1>1, <3>1, <2>1, ParserReached DEF LifeOf
      <4>3. L!Execute
        BY <2>2, <3>1, <4>1, <4>2 DEF L!Execute
      <4> QED
        BY <1>1, <4>3 DEF L!Next
    <3> QED
      BY <2>4, <3>2, <3>3 DEF NoMemory
  <2>5. CASE Execute /\ UNCHANGED stream
    <3>1. executed = 0 /\ executed' = 1 /\ writes = <<>> /\ status' \in {"up", "corrupt"}
      BY <2>3, <2>5 DEF Execute, Overrun, CInv, OneReply
    <3>2. PICK w \in {"sent", "queued", "failed"} : writes' = <<w>>
      BY <2>5, <3>1, OutcomeSets, ConnectionAssumption DEF Execute, uv_write
    <3>3. LifeOf' = LifeOf
      BY <1>1, <2>5 DEF LifeOf
    <3>4. L!Execute
      BY <2>2, <3>1, <3>2, <3>3 DEF L!Execute
    <3> QED
      BY <1>1, <3>4 DEF L!Next
  <2>6. CASE StoreArgument /\ UNCHANGED stream
    <3>1. LifeOf' = LifeOf /\ UNCHANGED <<writes, executed>>
      BY <1>1, <2>6 DEF LifeOf, StoreArgument
    <3>2. CASE args_parsed < args_total
      BY <1>1, <2>6, <3>1, <3>2, SeenAsNothing DEF StoreArgument
    <3>3. CASE ~(args_parsed < args_total)
      <4>1. executed = 1 /\ status' \in {"up", "corrupt"}
        BY <2>3, <2>6, <3>3 DEF StoreArgument, Overrun
      <4>2. L!GoOnParsing
        BY <2>2, <3>1, <4>1 DEF L!GoOnParsing
      <4> QED
        BY <1>1, <4>2 DEF L!Next
    <3> QED
      BY <3>2, <3>3
  <2> QED
    BY <1>2, <2>4, <2>5, <2>6 DEF ParseData
<1> QED
  BY <1>2, <1>3 DEF ParseData

\* A round of parse_buffer is Close, Execute, GoOnParsing or is not seen.
LEMMA ParseSeen ==
  ASSUME CInv, parse_buffer
  PROVE  L!Next \/ UNCHANGED L!vars
<1>1. CASE ParseType
  <2>1. Stripped(buffer) \in Seq(Chars)
    BY StrippedTwice DEF CInv, StreamsOfChars
  <2> QED
    BY <1>1, <2>1, HeaderSeen DEF ParseType
<1>2. CASE ParseLength
  <2>1. buffer \in Seq(Chars)
    BY DEF CInv, StreamsOfChars
  <2> QED
    BY <1>2, <2>1, HeaderSeen DEF ParseLength
<1>3. CASE ParseData
  BY <1>3, DataSeen
<1> QED
  BY <1>1, <1>2, <1>3 DEF parse_buffer

\* Every step of the connection is a step of Lifecycle or is not seen there.
LEMMA NextLifecycle == CInv /\ [Next]_vars => [L!Next]_(L!vars)
<1> SUFFICES ASSUME CInv, [Next]_vars PROVE L!Next \/ UNCHANGED L!vars
  OBVIOUS
<1>1. CASE ClientSends \/ ClientLeaves \/ NextPhase \/ UNCHANGED vars
  <2>1. UNCHANGED <<stream, timer, writes, ctx, executed, status>>
    BY <1>1 DEF ClientSends, ClientLeaves, Unseen, NextPhase, vars, handles, parser
  <2> QED
    BY <2>1, SeenAsNothing
<1>2. CASE on_new_connection
  BY <1>2, NewConnectionIsArrive
<1>3. CASE on_read
  BY <1>3, ReadSeen
<1>4. CASE WriteEnds
  BY <1>4, WriteEndsSeen
<1>5. CASE on_client_timeout
  BY <1>5, TimeoutSeen
<1>6. CASE parse_buffer
  BY <1>6, ParseSeen
<1>7. CASE FinishStream
  BY <1>7, FinishSeen
<1>8. CASE on_timer_close
  BY <1>8, TimerCloseSeen
<1> QED
  BY <1>1, <1>2, <1>3, <1>4, <1>5, <1>6, <1>7, <1>8 DEF Next, Loop

\* A connection (server.c:15-356) is no more than Lifecycle says: in particular it never
\* executes a second command and never owes two replies.
THEOREM LifecycleHolds == Spec => ImplementsLifecycle
<1>1. CInv /\ [Next]_vars => [L!Next]_(L!vars)
  BY NextLifecycle
<1> QED
  BY InitLifecycle, Invariant, <1>1, PTL DEF Spec, ImplementsLifecycle, L!Spec
-----------------------------------------------------------------------------
(***************************************************************************)
(* What Server makes of a step of Lifecycle, when the step does to the     *)
(* arguments what Server's does.                                           *)
(***************************************************************************)

\* The reply whose callback has not run, as Server has it.
Owed == IF writes = <<>> THEN "no" ELSE writes[1]

\* A step in which nothing changes that Server has.
LEMMA CoveredAsNothing ==
  ASSUME UNCHANGED L!vars, UNCHANGED HeldArgument
  PROVE  UNCHANGED S!svars
BY DEF L!vars, S!svars, S!cvars, S!vars, S!table, S!connections

\* The stream is closed, and a parser without memory frees the arguments.
LEMMA CloseCovered ==
  ASSUME status = "up", LifeOf = "open", LifeOf' = "closing",
         UNCHANGED <<executed, Owed, status>>,
         HeldArgument' = HeldArgument \/ (MallocMayFail /\ HeldArgument' = NoBlock)
  PROVE  S!ServerNext
<1>1. S!Close(TheClient)
  BY DEF S!Close, S!Up, S!cvars, S!vars, S!table, Owed
<1> QED
  BY <1>1 DEF S!ServerNext, S!Ends

\* The connection is accepted, or not.
LEMMA ArriveCovered ==
  ASSUME status = "up", L!Arrive, HeldArgument' = HeldArgument,
         LifeOf' = "refused" => MallocMayFail
  PROVE  S!ServerNext
<1>1. Head(<<TheClient>>) = TheClient /\ Tail(<<TheClient>>) = <<>> /\ <<TheClient>> # <<>>
  OBVIOUS
<1>2. S!on_new_connection
  BY <1>1 DEF S!on_new_connection, S!Up, S!cvars, S!vars, S!table, L!Arrive
<1> QED
  BY <1>2 DEF S!ServerNext

\* A reply has come to its end.
LEMMA ReplyEndsCovered ==
  ASSUME status = "up", L!ReplyEnds, HeldArgument' = HeldArgument
  PROVE  S!ServerNext
<1>1. S!on_write_complete(TheClient)
  BY DEF S!on_write_complete, S!Up, S!cvars, S!vars, S!table, L!ReplyEnds
<1> QED
  BY <1>1 DEF S!ServerNext

\* The parser goes on behind the command.
LEMMA GoOnParsingCovered ==
  ASSUME status = "up", L!GoOnParsing, HeldArgument' = HeldArgument
  PROVE  S!ServerNext \/ UNCHANGED S!svars
<1>1. CASE status' = "up"
  BY <1>1, CoveredAsNothing DEF L!GoOnParsing, L!vars
<1>2. CASE status' = "corrupt"
  <2>1. S!GoOnParsing(TheClient)
    BY <1>2 DEF S!GoOnParsing, S!Up, S!cvars, S!vars, S!table, L!GoOnParsing
  <2> QED
    BY <2>1 DEF S!ServerNext
<1> QED
  BY <1>1, <1>2 DEF L!GoOnParsing

\* A handle is closed that may not be.
LEMMA AbortCovered ==
  ASSUME status = "up", L!Abort, HeldArgument' = HeldArgument
  PROVE  S!ServerNext
<1>1. S!Abort(TheClient)
  BY DEF S!Abort, S!Up, S!cvars, S!vars, S!table, L!Abort
<1> QED
  BY <1>1 DEF S!ServerNext, S!Ends

\* The stream is closed, and the arguments are freed.
LEMMA StreamClosedCovered ==
  ASSUME status = "up", L!Finish, LifeOf' = "closing", HeldArgument' = NoBlock
  PROVE  S!ServerNext
<1>1. S!on_client_close(TheClient)
  BY DEF S!on_client_close, S!Up, S!cvars, S!vars, S!table, L!Finish
<1> QED
  BY <1>1 DEF S!ServerNext, S!Ends

\* The timer is closed, and the context is freed.
LEMMA TimerClosedCovered ==
  ASSUME status = "up", L!Finish, LifeOf' = "freed", Owed = "no",
         HeldArgument = NoBlock, HeldArgument' = NoBlock
  PROVE  S!ServerNext
<1>1. S!on_timer_close(TheClient)
  BY DEF S!on_timer_close, S!Up, S!cvars, S!vars, S!table, L!Finish, Owed
<1> QED
  BY <1>1 DEF S!ServerNext, S!Ends

\* The command is executed.
LEMMA ExecuteCovered ==
  ASSUME status = "up", L!Execute, HeldArgument = NoBlock,
         \/ LifeOf' = LifeOf /\ HeldArgument' = TheArgument
         \/ LifeOf' = "closing" /\ MallocMayFail /\ HeldArgument' = NoBlock
  PROVE  S!ServerNext
<1>1. S!malloc({}) = {TheArgument}
  <2>1. S!FreeBlocks = {TheArgument}
    BY DEF S!FreeBlocks, S!Held
  <2>2. S!Min({TheArgument}) = TheArgument
    BY DEF S!Min, TheArgument
  <2> QED
    BY <2>1, <2>2 DEF S!malloc
<1>2. S!Dispatch(S!ValueBlocks(TheArgument))
  <2>1. S!Answer(400, S!Text("InvalidDispatch")) \in S!ErrorAnswers(400, "InvalidDispatch")
    BY DEF S!ErrorAnswers
  <2>2. S!Replies("other", NoBlock, S!ErrorAnswers(400, "InvalidDispatch"))
    BY <2>1 DEF S!Replies, S!Answer, S!Text, TurnedAway
  <2> QED
    BY <2>2 DEF S!Dispatch, S!Reject, S!vars, S!table
<1>3. UNCHANGED <<FALSE, LifeOf # "refused", IF LifeOf = "none" THEN <<TheClient>> ELSE <<>> >>
  BY DEF L!Execute
<1>4. [c \in {TheClient} |-> executed]'
        = [[c \in {TheClient} |-> executed] EXCEPT ![TheClient] = @ + 1]
  BY DEF L!Execute
<1>5. S!Execute(TheClient)
  BY <1>1, <1>2, <1>3, <1>4 DEF S!Execute, S!Up, S!FirstCommand, L!Execute
<1> QED
  BY <1>5 DEF S!ServerNext

\* A step of Lifecycle that leaves the arguments alone.
LEMMA KeptCovered ==
  ASSUME status = "up", L!Next \/ UNCHANGED L!vars, UNCHANGED <<executed, HeldArgument>>,
         LifeOf = "closing" => UNCHANGED <<LifeOf, Owed>>,
         LifeOf' = "refused" => MallocMayFail
  PROVE  S!ServerNext \/ UNCHANGED S!svars
<1>1. CASE L!Arrive
  BY <1>1, ArriveCovered
<1>2. CASE L!GoOnParsing
  BY <1>2, GoOnParsingCovered
<1>3. CASE L!ReplyEnds
  BY <1>3, ReplyEndsCovered
<1>4. CASE L!Close
  BY <1>4, CloseCovered DEF L!Close, Owed
<1>5. CASE L!Abort
  BY <1>5, AbortCovered
<1>6. CASE L!Finish
  BY <1>6, CoveredAsNothing DEF L!Finish, L!vars, Owed
<1>7. ~L!Execute
  BY DEF L!Execute
<1> QED
  BY <1>1, <1>2, <1>3, <1>4, <1>5, <1>6, <1>7, CoveredAsNothing DEF L!Next

\* A connection of which the client, the loop or libuv is at work.
LEMMA CallbacksCovered ==
  ASSUME CInv, on_new_connection \/ on_read \/ WriteEnds \/ on_client_timeout
  PROVE  S!ServerNext \/ UNCHANGED S!svars
<1> USE DEF memory, parser, counts
<1>1. status = "up" /\ UNCHANGED <<executed, HeldArgument>>
  BY DEF on_new_connection, on_read, WriteEnds, on_client_timeout, In, HeldArgument
<1>2. L!Next \/ UNCHANGED L!vars
  BY NewConnectionIsArrive, ReadSeen, WriteEndsSeen, TimeoutSeen
<1>3. LifeOf # "closing"
  <2>1. CASE on_new_connection
    BY <2>1 DEF on_new_connection, LifeOf
  <2>2. CASE on_read \/ WriteEnds \/ on_client_timeout
    <3>1. stream = "open"
      BY <2>2 DEF CInv, HandlesFit, on_read, WriteEnds, on_client_timeout, In
    <3> QED
      BY <3>1, OpenSeen
  <2> QED
    BY <2>1, <2>2
<1>4. LifeOf' = "refused" => MallocMayFail
  <2>1. LifeOf' = "refused" => ctx' = "refused"
    BY DEF LifeOf
  <2>2. CASE on_new_connection
    BY <2>1, <2>2 DEF on_new_connection
  <2>3. CASE on_read \/ WriteEnds \/ on_client_timeout
    <3>1. stream = "open" /\ ctx' = ctx
      BY <2>3 DEF CInv, HandlesFit, on_read, WriteEnds, on_client_timeout, In
    <3> QED
      BY <2>1, <3>1 DEF CInv, HandlesFit
  <2> QED
    BY <2>2, <2>3
<1> QED
  BY <1>1, <1>2, <1>3, <1>4, KeptCovered

\* libuv finishes the stream.
LEMMA FinishCovered ==
  ASSUME CInv, FinishStream
  PROVE  S!ServerNext \/ UNCHANGED S!svars
<1>1. status = "up" /\ stream = "closing" /\ ctx = "live" /\ UNCHANGED <<ctx, executed>>
  BY DEF CInv, TypeOK, HandlesFit, FinishStream, In, on_client_close
<1>2. L!Next
  BY FinishSeen
<1>3. CASE /\ ToSet(writes) \subseteq {"sent"} /\ timer # "none"
           /\ stream' = "closed" /\ writes' = <<>>
           /\ on_client_close /\ UNCHANGED status
  <2>1. HeldArgument' = NoBlock
    BY <1>3 DEF on_client_close, free_parser_resources, HeldArgument
  <2>2. timer' = "closing" /\ LifeOf = "closing" /\ LifeOf' = "closing"
    BY <1>1, <1>3 DEF on_client_close, LifeOf, CInv, HandlesFit, TypeOK
  <2>3. L!Finish
    BY <1>1, <1>2, <1>3, <2>2 DEF L!Next, L!Finish, L!Arrive, L!Execute, L!GoOnParsing,
       L!ReplyEnds, L!Close, L!Abort
  <2> QED
    BY <1>1, <2>1, <2>2, <2>3, StreamClosedCovered
<1>4. CASE UNCHANGED <<stream, writes, timer, temp_argv>>
  <2>1. UNCHANGED <<LifeOf, Owed, HeldArgument>>
    BY <1>1, <1>4 DEF LifeOf, Owed, HeldArgument
  <2>2. LifeOf' # "refused"
    BY <1>1 DEF LifeOf
  <2> QED
    BY <1>1, <1>2, <2>1, <2>2, KeptCovered
<1> QED
  BY <1>3, <1>4 DEF FinishStream, Abort, WildHandle, memory

\* libuv finishes the timer.
LEMMA TimerCloseCovered ==
  ASSUME CInv, on_timer_close
  PROVE  S!ServerNext \/ UNCHANGED S!svars
<1>1. /\ status = "up" /\ ctx = "live" /\ stream = "closed" /\ timer = "closing" /\ writes = <<>>
      /\ ~temp_argv /\ ctx' = "freed" /\ UNCHANGED <<writes, executed, status, temp_argv>>
  BY DEF CInv, TypeOK, HandlesFit, Blank, on_timer_close, In, memory
<1>2. LifeOf = "closing" /\ LifeOf' = "freed" /\ Owed = "no"
  BY <1>1 DEF LifeOf, Owed
<1>3. HeldArgument = NoBlock /\ HeldArgument' = NoBlock
  BY <1>1 DEF HeldArgument
<1>4. L!Finish
  BY <1>1, <1>2 DEF L!Finish
<1> QED
  BY <1>1, <1>2, <1>3, <1>4, TimerClosedCovered

\* A round of the parser that is no more than a header, or that waits.
LEMMA RoundCovered ==
  ASSUME CInv, parse_buffer, UNCHANGED <<executed, writes, temp_argv>>
  PROVE  S!ServerNext \/ UNCHANGED S!svars
<1>1. status = "up" /\ timer = "running" /\ ctx = "live" /\ UNCHANGED <<timer, ctx>>
      /\ stream \in {"open", "closing"}
  BY ParserReached DEF parse_buffer
<1>2. stream = "closing" => stream' = "closing"
  BY DEF parse_buffer, ParseType, ParseLength, ParseData, BadHeader, GoodHeader, Break, Reject,
     NoMemory, CloseStream, Abort
<1>3. L!Next \/ UNCHANGED L!vars
  BY ParseSeen
<1>4. UNCHANGED <<HeldArgument, Owed>>
  BY DEF HeldArgument, Owed
<1>5. LifeOf = "closing" => UNCHANGED LifeOf
  BY <1>1, <1>2 DEF LifeOf
<1>6. LifeOf' # "refused"
  BY <1>1 DEF LifeOf
<1> QED
  BY <1>1, <1>3, <1>4, <1>5, <1>6, KeptCovered

\* A round in which the parser is out of memory: whatever it holds is freed.
LEMMA NoMemoryCovered ==
  ASSUME CInv, parse_buffer, ParseData, NoMemory, Len(buffer) >= DataAndEnd
  PROVE  S!ServerNext \/ UNCHANGED S!svars
<1>1. status = "up" /\ timer = "running" /\ ctx = "live" /\ UNCHANGED <<timer, ctx>>
  BY ParserReached DEF parse_buffer
<1>2. stream = "open"
  <2>1. Len(buffer) \in Nat /\ DataAndEnd \in Nat
    BY DEF CInv, TypeOK, StreamsOfChars, DataAndEnd
  <2> QED
    BY <2>1, ParserReached DEF Starved, ParseData
<1>3. /\ stream' = "closing" /\ UNCHANGED <<writes, status>>
      /\ MallocMayFail /\ HeldArgument' = NoBlock
  BY <1>2 DEF NoMemory, CloseStream, free_parser_resources, HeldArgument
<1>4. LifeOf = "open" /\ LifeOf' = "closing" /\ UNCHANGED Owed
  BY <1>1, <1>2, <1>3 DEF LifeOf, Owed
<1>5. CASE UNCHANGED executed
  BY <1>1, <1>3, <1>4, <1>5, CloseCovered
<1>6. CASE executed' # executed
  <2>1. L!Execute
    BY <1>4, <1>6, ParseSeen DEF L!Next, L!vars, L!Arrive, L!Execute, L!GoOnParsing,
       L!ReplyEnds, L!Close, L!Finish, L!Abort
  <2>2. HeldArgument = NoBlock
    BY <2>1 DEF L!Execute, HeldArgument
  <2> QED
    BY <1>1, <1>3, <1>4, <2>1, <2>2, ExecuteCovered
<1> QED
  BY <1>5, <1>6

\* A round in which an argument is stored, and the command executed if it is the last.
LEMMA ArgumentCovered ==
  ASSUME CInv, parse_buffer, ParseData, AllocateArgument, Execute \/ StoreArgument,
         stream' = stream, Len(buffer) >= DataAndEnd
  PROVE  S!ServerNext \/ UNCHANGED S!svars
<1>1. status = "up" /\ timer = "running" /\ ctx = "live" /\ UNCHANGED <<timer, ctx>>
      /\ state = "EXPECT_DATA"
  BY ParserReached DEF parse_buffer, ParseData
<1>2. stream = "open"
  <2>1. Len(buffer) \in Nat /\ DataAndEnd \in Nat
    BY DEF CInv, TypeOK, StreamsOfChars, DataAndEnd
  <2> QED
    BY <2>1, ParserReached DEF Starved, ParseData
<1>3. LifeOf = "open" /\ LifeOf' = "open"
  BY <1>1, <1>2 DEF LifeOf
<1>4. L!Next \/ UNCHANGED L!vars
  BY ParseSeen
<1>5. /\ executed \in {0, 1} /\ temp_argv' = TRUE
      /\ executed = 1 => temp_argv
  <2>1. /\ args_total \in Nat \ {0} /\ args_parsed \in Nat /\ executed \in {0, 1}
        /\ executed = 1 <=> args_parsed >= args_total
        /\ temp_argv <=> args_parsed # 0
    BY <1>1, <1>2, ConnectionAssumption DEF CInv, TypeOK, OneReply, OneCommand, BlocksCounted
  <2> QED
    BY <2>1 DEF AllocateArgument
<1>6. CASE Execute
  <2>1. executed' = executed + 1
    BY <1>6 DEF Execute
  <2>2. L!Execute
    BY <1>3, <1>4, <1>5, <2>1 DEF L!Next, L!vars, L!Arrive, L!Execute, L!GoOnParsing,
       L!ReplyEnds, L!Close, L!Finish, L!Abort
  <2>3. HeldArgument = NoBlock /\ HeldArgument' = TheArgument
    BY <1>5, <2>2 DEF L!Execute, HeldArgument
  <2> QED
    BY <1>1, <1>3, <2>2, <2>3, ExecuteCovered
<1>7. CASE StoreArgument
  <2>1. UNCHANGED <<executed, HeldArgument>>
    BY <1>5, <1>7 DEF StoreArgument, HeldArgument
  <2> QED
    BY <1>1, <1>3, <1>4, <2>1, KeptCovered
<1> QED
  BY <1>6, <1>7

\* A round of the parser.
LEMMA ParseCovered ==
  ASSUME CInv, parse_buffer
  PROVE  S!ServerNext \/ UNCHANGED S!svars
<1>1. CASE ParseType \/ ParseLength
  <2>1. UNCHANGED <<executed, writes, temp_argv>>
    BY <1>1 DEF ParseType, ParseLength, BadHeader, GoodHeader, Break, Reject, memory
  <2> QED
    BY <2>1, RoundCovered
<1>2. CASE ParseData
  <2>1. CASE Break(buffer)
    BY <2>1, RoundCovered DEF Break, memory
  <2> QED
    BY <1>2, <2>1, NoMemoryCovered, ArgumentCovered DEF ParseData
<1> QED
  BY <1>1, <1>2 DEF parse_buffer

\* Every step of the connection is one of Server or is not seen there.
LEMMA NextCovered == CInv /\ [Next]_vars => [S!ServerNext]_(S!svars)
<1> SUFFICES ASSUME CInv, [Next]_vars PROVE S!ServerNext \/ UNCHANGED S!svars
  OBVIOUS
<1>1. CASE ClientSends \/ ClientLeaves \/ NextPhase \/ UNCHANGED vars
  <2>1. UNCHANGED <<stream, timer, writes, ctx, executed, status, temp_argv>>
    BY <1>1 DEF ClientSends, ClientLeaves, Unseen, NextPhase, vars, handles, parser, memory
  <2>2. UNCHANGED HeldArgument
    BY <2>1 DEF HeldArgument
  <2> QED
    BY <2>1, <2>2, SeenAsNothing, CoveredAsNothing
<1>2. CASE on_new_connection \/ on_read \/ WriteEnds \/ on_client_timeout
  BY <1>2, CallbacksCovered
<1>3. CASE parse_buffer
  BY <1>3, ParseCovered
<1>4. CASE FinishStream
  BY <1>4, FinishCovered
<1>5. CASE on_timer_close
  BY <1>5, TimerCloseCovered
<1> QED
  BY <1>1, <1>2, <1>3, <1>4, <1>5 DEF Next, Loop

\* Server leaves nothing out of what the callbacks of a connection (server.c:48-347) do to
\* the process and to the blocks of its arguments.
THEOREM ServerCoversHolds == Spec => ServerCovers
<1>1. CInv /\ [Next]_vars => [S!ServerNext]_(S!svars)
  BY NextCovered
<1> QED
  BY Invariant, <1>1, PTL DEF Spec, ServerCovers
=============================================================================
