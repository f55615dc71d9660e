-------------------------- MODULE FrameCodecProofs --------------------------
(***************************************************************************)
(* The messages survive the wire, for every base of the bytes, every set   *)
(* of messages that fit their fields, and every cutting of the stream: the *)
(* readers undo the builders, the parser finds the frames that were built, *)
(* and so the codec implements FrameFifo.                                  *)
(***************************************************************************)
EXTENDS FrameCodec, SequenceTheorems, WellFoundedInduction, TLAPS

-----------------------------------------------------------------------------
(* Least elements, and what follows from them: recursion. *)

(* A set of naturals that is not empty has a least element. *)
LEMMA MinExists ==
  ASSUME NEW T, T \subseteq Nat, T # {}
  PROVE  \E x \in T : \A y \in T : x <= y
<1> DEFINE R == {ss \in Nat \X Nat : ss[1] < ss[2]}
<1>1. IsWellFoundedOn(R, Nat)
  BY NatLessThanWellFounded DEF OpToRel
<1>2. PICK x \in T : \A y \in T : <<y, x>> \notin R
  <2> HIDE DEF R
  <2> QED BY <1>1, WFMin
<1>3. ASSUME NEW y \in T PROVE x <= y
  <2>1. ~(<<y, x>>[1] < <<y, x>>[2])
    BY <1>2
  <2> QED BY <2>1
<1> QED BY <1>3

(* What is right at every number when it is right at all the lower ones is right
   everywhere. *)
LEMMA Counting ==
  ASSUME NEW n \in Nat, NEW Right,
         \A k \in 0..n : (\A j \in 0..k-1 : j \in Right) => k \in Right
  PROVE  \A k \in 0..n : k \in Right
<1> DEFINE Wrong == {k \in 0..n : k \notin Right}
<1>1. ASSUME Wrong # {} PROVE FALSE
  <2>1. PICK k \in Wrong : \A j \in Wrong : k <= j
    <3>1. Wrong \subseteq Nat
      OBVIOUS
    <3> HIDE DEF Wrong
    <3> QED BY <1>1, <3>1, MinExists
  <2>2. \A j \in 0..k-1 : j \in Right
    BY <2>1
  <2> QED BY <2>1, <2>2
<1> QED BY <1>1

(* Recursion from each number to a lower one, and to the one before. *)
Recurses(f, n, start, down, step) ==
  f[0] = start /\ \A k \in 1..n : f[k] = step[k][f[down[k]]]

Iterates(f, n, start, step) ==
  f[0] = start /\ \A k \in 1..n : f[k] = step[k][f[k-1]]

LEMMA Recursion ==
  ASSUME NEW n \in Nat, NEW V, NEW start \in V,
         NEW down \in [1..n -> Nat], \A k \in 1..n : down[k] < k,
         NEW step \in [1..n -> [V -> V]]
  PROVE  \E f \in [0..n -> V] : Recurses(f, n, start, down, step)
<1> DEFINE Solves(f, m) == f[0] = start /\ \A k \in 1..m : f[k] = step[k][f[down[k]]]
           Right == {m \in 0..n : \E f \in [0..m -> V] : Solves(f, m)}
<1>1. 0 \in Right
  <2> DEFINE f == [k \in 0..0 |-> start]
  <2>1. f \in [0..0 -> V] /\ Solves(f, 0)
    OBVIOUS
  <2> HIDE DEF f
  <2> QED BY <2>1
<1>2. ASSUME NEW m \in 1..n, m - 1 \in Right PROVE m \in Right
  <2>1. PICK f \in [0..m-1 -> V] : Solves(f, m - 1)
    BY <1>2
  <2> DEFINE g == [k \in 0..m |-> IF k = m THEN step[m][f[down[m]]] ELSE f[k]]
  <2>2. f[down[m]] \in V
    OBVIOUS
  <2>3. g \in [0..m -> V]
    BY <2>2
  <2>4. g[0] = start
    BY <2>1
  <2>5. ASSUME NEW k \in 1..m PROVE g[k] = step[k][g[down[k]]]
    <3>1. down[k] \in 0..m-1 /\ g[down[k]] = f[down[k]]
      OBVIOUS
    <3> QED BY <2>1, <3>1
  <2>6. Solves(g, m)
    BY <2>4, <2>5
  <2>7. \E h \in [0..m -> V] : Solves(h, m)
    <3> HIDE DEF g, Solves
    <3> QED BY <2>3, <2>6
  <2> HIDE DEF g, Solves
  <2> QED BY <2>7
<1>3. \E f \in [0..n -> V] : Solves(f, n)
  <2> HIDE DEF Right
  <2>1. \A k \in 0..n : (\A j \in 0..k-1 : j \in Right) => k \in Right
    BY <1>1, <1>2
  <2>2. \A k \in 0..n : k \in Right
    BY <2>1, Counting
  <2>3. n \in Right
    BY <2>2
  <2> HIDE DEF Solves
  <2> QED BY <2>3 DEF Right
<1> QED BY <1>3 DEF Recurses

LEMMA Iteration ==
  ASSUME NEW n \in Nat, NEW V, NEW start \in V, NEW step \in [1..n -> [V -> V]]
  PROVE  \E f \in [0..n -> V] : Iterates(f, n, start, step)
<1> DEFINE down == [k \in 1..n |-> k - 1]
<1>1. down \in [1..n -> Nat] /\ \A k \in 1..n : down[k] < k
  OBVIOUS
<1>2. \A k \in 1..n : down[k] = k - 1
  OBVIOUS
<1> HIDE DEF down
<1>3. PICK f \in [0..n -> V] : Recurses(f, n, start, down, step)
  BY <1>1, Recursion
<1>4. Iterates(f, n, start, step)
  BY <1>2, <1>3 DEF Recurses, Iterates
<1> QED BY <1>4

-----------------------------------------------------------------------------
(* Sequences. *)

LEMMA ConcatFacts ==
  ASSUME NEW S, NEW s \in Seq(S), NEW t \in Seq(S)
  PROVE  /\ s \o t \in Seq(S) /\ Len(s \o t) = Len(s) + Len(t)
         /\ \A i \in 1..Len(s) : (s \o t)[i] = s[i]
         /\ \A i \in 1..Len(t) : (s \o t)[Len(s) + i] = t[i]
         /\ Rest(s \o t, Len(s)) = t /\ SubSeq(s \o t, 1, Len(s)) = s
<1>1. s \o t \in Seq(S) /\ Len(s \o t) = Len(s) + Len(t)
  OBVIOUS
<1>2. \A i \in 1..Len(s) : (s \o t)[i] = s[i]
  OBVIOUS
<1>3. \A i \in 1..Len(t) : (s \o t)[Len(s) + i] = t[i]
  OBVIOUS
<1>4. Rest(s \o t, Len(s)) = t
  <2>1. Rest(s \o t, Len(s)) \in Seq(S) /\ Len(Rest(s \o t, Len(s))) = Len(t)
    BY <1>1 DEF Rest
  <2>2. ASSUME NEW i \in 1..Len(t) PROVE Rest(s \o t, Len(s))[i] = t[i]
    BY <1>1, <1>3 DEF Rest
  <2> QED BY <2>1, <2>2, SeqEqual
<1>5. SubSeq(s \o t, 1, Len(s)) = s
  <2>1. SubSeq(s \o t, 1, Len(s)) \in Seq(S) /\ Len(SubSeq(s \o t, 1, Len(s))) = Len(s)
    BY <1>1
  <2>2. ASSUME NEW i \in 1..Len(s) PROVE SubSeq(s \o t, 1, Len(s))[i] = s[i]
    BY <1>1, <1>2
  <2> QED BY <2>1, <2>2, SeqEqual
<1> QED BY <1>1, <1>2, <1>3, <1>4, <1>5

LEMMA Join ==
  ASSUME NEW S, NEW s \in Seq(S), NEW t \in Seq(S)
  PROVE  s \o t \in Seq(S) /\ Len(s \o t) = Len(s) + Len(t)
OBVIOUS

(* What is left after the first part. *)
LEMMA RestOf ==
  ASSUME NEW S, NEW s \in Seq(S), NEW t \in Seq(S), NEW n, n = Len(s)
  PROVE  Rest(s \o t, n) = t
BY ConcatFacts

(* The elements of the first part. *)
LEMMA At ==
  ASSUME NEW S, NEW s \in Seq(S), NEW t \in Seq(S), NEW i \in 1..Len(s)
  PROVE  (s \o t)[i] = s[i]
BY ConcatFacts

(* And of the second. *)
LEMMA AtSecond ==
  ASSUME NEW S, NEW s \in Seq(S), NEW t \in Seq(S), NEW i \in 1..Len(t)
  PROVE  (s \o t)[Len(s) + i] = t[i]
BY ConcatFacts

(* Kept folded, so that the lemma is applied to the three sequences of a goal only. *)
Regroups(s, t, u) == (s \o t) \o u = s \o (t \o u)

LEMMA Associative ==
  ASSUME NEW S, NEW s \in Seq(S), NEW t \in Seq(S), NEW u \in Seq(S)
  PROVE  Regroups(s, t, u)
BY ConcatAssociative DEF Regroups

LEMMA RestFacts ==
  ASSUME NEW S, NEW s \in Seq(S), NEW n \in 0..Len(s)
  PROVE  /\ Rest(s, n) \in Seq(S) /\ Len(Rest(s, n)) = Len(s) - n
         /\ SubSeq(s, 1, n) \in Seq(S) /\ Len(SubSeq(s, 1, n)) = n
         /\ \A i \in 1..Len(s)-n : Rest(s, n)[i] = s[n + i]
         /\ SubSeq(s, 1, n) \o Rest(s, n) = s
<1>1. Rest(s, n) \in Seq(S) /\ Len(Rest(s, n)) = Len(s) - n
  BY DEF Rest
<1>2. SubSeq(s, 1, n) \in Seq(S) /\ Len(SubSeq(s, 1, n)) = n
  OBVIOUS
<1>3. \A i \in 1..Len(s)-n : Rest(s, n)[i] = s[n + i]
  BY DEF Rest
<1>4. SubSeq(s, 1, n) \o Rest(s, n) = s
  <2> DEFINE w == SubSeq(s, 1, n) \o Rest(s, n)
  <2>1. w \in Seq(S) /\ Len(w) = Len(s)
    BY <1>1, <1>2
  <2>2. ASSUME NEW i \in 1..Len(s) PROVE w[i] = s[i]
    <3>1. CASE i <= n
      BY <1>1, <1>2, <3>1
    <3>2. CASE ~(i <= n)
      <4>1. i - n \in 1..Len(Rest(s, n)) /\ Len(SubSeq(s, 1, n)) + (i - n) = i
        BY <1>1, <1>2, <3>2
      <4>2. w[i] = Rest(s, n)[i - n]
        BY <1>1, <1>2, <4>1
      <4> QED BY <1>3, <4>1, <4>2, <1>1
    <3> QED BY <3>1, <3>2
  <2> QED BY <2>1, <2>2, SeqEqual
<1> QED BY <1>1, <1>2, <1>3, <1>4

(* Cutting a concatenation inside its first part. *)
LEMMA RestConcat ==
  ASSUME NEW S, NEW s \in Seq(S), NEW t \in Seq(S), NEW n \in 0..Len(s)
  PROVE  Rest(s \o t, n) = Rest(s, n) \o t
<1> DEFINE head == SubSeq(s, 1, n)
           tail == Rest(s, n)
<1>1. head \in Seq(S) /\ tail \in Seq(S) /\ Len(head) = n /\ head \o tail = s
  BY RestFacts
<1>2. tail \o t \in Seq(S)
  BY <1>1
<1> HIDE DEF head, tail
<1>3. s \o t = head \o (tail \o t)
  <2>1. head \in Seq(S) /\ tail \in Seq(S) /\ t \in Seq(S)
    BY <1>1
  <2>2. (head \o tail) \o t = head \o (tail \o t)
    <3>1. Regroups(head, tail, t)
      BY <2>1, Associative
    <3> QED BY <3>1 DEF Regroups
  <2> QED BY <1>1, <2>2
<1>4. Rest(head \o (tail \o t), Len(head)) = tail \o t
  BY <1>1, <1>2, ConcatFacts
<1>5. Rest(s \o t, n) = tail \o t
  BY <1>1, <1>3, <1>4
<1> QED BY <1>5 DEF tail

(* Two ways to cut one sequence. *)
LEMMA RestCut ==
  ASSUME NEW S, NEW s \in Seq(S), NEW t \in Seq(S), NEW u \in Seq(S), NEW v \in Seq(S),
         NEW whole, whole = s \o t, whole = u \o v, Len(u) <= Len(s)
  PROVE  Rest(s, Len(u)) \o t = v
<1>1. Len(u) \in 0..Len(s)
  OBVIOUS
<1>2. Rest(u \o v, Len(u)) = v
  BY ConcatFacts
<1>3. Rest(s \o t, Len(u)) = Rest(s, Len(u)) \o t
  BY <1>1, RestConcat
<1> QED BY <1>2, <1>3

LEMMA HeadCut ==
  ASSUME NEW S, NEW s \in Seq(S), NEW t \in Seq(S), NEW u \in Seq(S), NEW v \in Seq(S),
         s \o t = u \o v, Len(u) <= Len(s)
  PROVE  SubSeq(s, 1, Len(u)) = u /\ \A i \in 1..Len(u) : s[i] = u[i]
<1>1. ASSUME NEW i \in 1..Len(u) PROVE s[i] = u[i]
  <2>1. (s \o t)[i] = s[i]
    OBVIOUS
  <2>2. (u \o v)[i] = u[i]
    OBVIOUS
  <2> QED BY <2>1, <2>2
<1>2. SubSeq(s, 1, Len(u)) = u
  <2>1. SubSeq(s, 1, Len(u)) \in Seq(S) /\ Len(SubSeq(s, 1, Len(u))) = Len(u)
    OBVIOUS
  <2>2. ASSUME NEW i \in 1..Len(u) PROVE SubSeq(s, 1, Len(u))[i] = u[i]
    BY <1>1
  <2> QED BY <2>1, <2>2, SeqEqual
<1> QED BY <1>1, <1>2

-----------------------------------------------------------------------------
(* Numbers. *)

LEMMA DivMod ==
  ASSUME NEW a \in Nat, NEW b \in Nat \ {0}
  PROVE  a \div b \in Nat /\ a % b \in 0..b-1 /\ a = (a \div b) * b + (a % b)
BY SMT

(* There is only one quotient and one remainder. *)
LEMMA DivModUnique ==
  ASSUME NEW q \in Nat, NEW b \in Nat \ {0}, NEW r \in 0..b-1
  PROVE  (q * b + r) \div b = q /\ (q * b + r) % b = r
<1> DEFINE a == q * b + r
           qq == a \div b
           rr == a % b
<1>1. a \in Nat /\ q * b \in Nat
  OBVIOUS
<1>2. qq \in Nat /\ rr \in 0..b-1 /\ a = qq * b + rr
  BY <1>1, DivMod
<1> HIDE DEF qq, rr
<1>3. ASSUME NEW x \in Nat, NEW y \in Nat, NEW xr \in 0..b-1, NEW yr \in 0..b-1,
             x * b + xr = y * b + yr, x < y
      PROVE  FALSE
  <2>1. PICK d \in Nat : y = x + 1 + d
    <3>1. y - x - 1 \in Nat /\ y = x + 1 + (y - x - 1)
      BY <1>3
    <3> QED BY <3>1
  <2>2. y * b = x * b + b + d * b /\ d * b \in Nat /\ x * b \in Nat
    BY <2>1
  <2> QED BY <1>3, <2>2
<1>4. q * b + r = qq * b + rr
  BY <1>2
<1>5. ~(q < qq) /\ ~(qq < q)
  BY <1>2, <1>3, <1>4
<1>6. q = qq
  BY <1>2, <1>5
<1>7. r = rr
  BY <1>1, <1>2, <1>4, <1>6
<1> QED BY <1>6, <1>7 DEF qq, rr

(* Two digits of a number. *)
LEMMA TwoDigits ==
  ASSUME NEW n \in Nat, NEW b \in Nat \ {0}
  PROVE  /\ n \div b \in Nat /\ (n \div b) % b \in 0..b-1 /\ n % b \in 0..b-1
         /\ n % (b * b) = ((n \div b) % b) * b + (n % b)
<1> DEFINE q == n \div b
           lo == n % b
           top == q \div b
           hi == q % b
<1>1. q \in Nat /\ lo \in 0..b-1 /\ n = q * b + lo
  BY DivMod
<1>2. top \in Nat /\ hi \in 0..b-1 /\ q = top * b + hi
  BY <1>1, DivMod
<1> HIDE DEF q, lo, top, hi
<1>3. n = top * (b * b) + (hi * b + lo)
  BY <1>1, <1>2
<1>4. hi * b + lo \in 0..(b * b)-1 /\ b * b \in Nat \ {0}
  <2>1. PICK d \in Nat : b = hi + 1 + d
    <3>1. b - hi - 1 \in Nat /\ b = hi + 1 + (b - hi - 1)
      BY <1>2
    <3> QED BY <3>1
  <2>2. b * b = hi * b + b + d * b /\ d * b \in Nat /\ hi * b \in Nat
    BY <1>2, <2>1
  <2> QED BY <1>1, <2>2
<1>5. (top * (b * b) + (hi * b + lo)) % (b * b) = hi * b + lo
  BY <1>2, <1>4, DivModUnique
<1>6. n % (b * b) = hi * b + lo
  BY <1>3, <1>5
<1> QED BY <1>1, <1>2, <1>6 DEF q, lo, hi

LEMMA Sizes ==
  /\ Base \in Nat \ {0, 1} /\ Half \in Nat \ {0} /\ Word \in Nat \ {0}
  /\ Half = Base * Base /\ Word = Half * Half /\ 0 \in Byte
<1>1. Base \in Nat \ {0, 1}
  BY CodecAssumption
<1>2. Half \in Nat \ {0}
  BY <1>1 DEF Half
<1>3. Word \in Nat \ {0}
  BY <1>2 DEF Word
<1> QED BY <1>1, <1>2, <1>3 DEF Half, Word, Byte

(* What the readers find where a number was written: all of it that fits. *)
LEMMA U16 ==
  ASSUME NEW n \in Nat, NEW r \in Seq(Byte)
  PROVE  /\ WriteU16(n) \in Seq(Byte) /\ Len(WriteU16(n)) = 2
         /\ ReadU16(WriteU16(n) \o r) = n % Half
<1> DEFINE hi == (n \div Base) % Base
           lo == n % Base
           w == WriteU16(n)
<1>1. hi \in 0..Base-1 /\ lo \in 0..Base-1 /\ n % Half = hi * Base + lo
  BY TwoDigits, Sizes
<1>2. w \in Seq(Byte) /\ Len(w) = 2 /\ w[1] = hi /\ w[2] = lo
  BY <1>1 DEF WriteU16, Byte
<1> HIDE DEF w, hi, lo
<1>3. (w \o r)[1] = w[1] /\ (w \o r)[2] = w[2]
  <2>1. \A i \in 1..Len(w) : (w \o r)[i] = w[i]
    BY <1>2, At
  <2>2. 1 \in 1..Len(w) /\ 2 \in 1..Len(w)
    BY <1>2
  <2> QED BY <2>1, <2>2
<1>4. ReadU16(w \o r) = hi * Base + lo
  BY <1>2, <1>3 DEF ReadU16
<1> QED BY <1>1, <1>2, <1>4 DEF w

LEMMA U32 ==
  ASSUME NEW n \in Nat, NEW r \in Seq(Byte)
  PROVE  /\ WriteU32(n) \in Seq(Byte) /\ Len(WriteU32(n)) = 4
         /\ ReadU32(WriteU32(n) \o r) = n % Word
<1> DEFINE a == WriteU16(n \div Half)
           b == WriteU16(n)
<1>1. n \div Half \in Nat /\ n % Word = ((n \div Half) % Half) * Half + (n % Half)
  BY TwoDigits, Sizes
<1>2. a \in Seq(Byte) /\ Len(a) = 2 /\ b \in Seq(Byte) /\ Len(b) = 2
  BY <1>1, U16
<1>3. ReadU16(b \o r) = n % Half
  BY U16
<1>4. ASSUME NEW t \in Seq(Byte) PROVE ReadU16(a \o t) = (n \div Half) % Half
  BY <1>1, U16
<1>5. WriteU32(n) = a \o b
  BY DEF WriteU32
<1> HIDE DEF a, b
<1>6. b \o r \in Seq(Byte)
  BY <1>2
<1>7. (a \o b) \o r = a \o (b \o r)
  <2>1. Regroups(a, b, r)
    BY <1>2, Associative
  <2> QED BY <2>1 DEF Regroups
<1>8. Rest(a \o (b \o r), 2) = b \o r
  <2>1. a \in Seq(Byte) /\ b \o r \in Seq(Byte) /\ 2 = Len(a)
    BY <1>2, <1>6
  <2> QED BY <2>1, RestOf
<1>9. ReadU32(a \o (b \o r)) = ((n \div Half) % Half) * Half + (n % Half)
  BY <1>3, <1>4, <1>6, <1>8 DEF ReadU32
<1>10. ReadU32((a \o b) \o r) = ((n \div Half) % Half) * Half + (n % Half)
  BY <1>7, <1>9
<1>11. a \o b \in Seq(Byte) /\ Len(a \o b) = 4
  <2>1. a \in Seq(Byte) /\ b \in Seq(Byte)
    BY <1>2
  <2>2. a \o b \in Seq(Byte) /\ Len(a \o b) = Len(a) + Len(b)
    BY <2>1, Join
  <2> QED BY <1>2, <2>2
<1> QED BY <1>1, <1>5, <1>10, <1>11

LEMMA U64 ==
  ASSUME NEW n \in Nat, NEW r \in Seq(Byte)
  PROVE  /\ WriteU64(n) \in Seq(Byte) /\ Len(WriteU64(n)) = 8
         /\ ReadU64(WriteU64(n) \o r) = n % (Word * Word)
<1> DEFINE a == WriteU32(n \div Word)
           b == WriteU32(n)
<1>1. n \div Word \in Nat /\ n % (Word * Word) = ((n \div Word) % Word) * Word + (n % Word)
  BY TwoDigits, Sizes
<1>2. a \in Seq(Byte) /\ Len(a) = 4 /\ b \in Seq(Byte) /\ Len(b) = 4
  BY <1>1, U32
<1>3. ReadU32(b \o r) = n % Word
  BY U32
<1>4. ASSUME NEW t \in Seq(Byte) PROVE ReadU32(a \o t) = (n \div Word) % Word
  BY <1>1, U32
<1>5. WriteU64(n) = a \o b
  BY DEF WriteU64
<1> HIDE DEF a, b
<1>6. b \o r \in Seq(Byte)
  BY <1>2
<1>7. (a \o b) \o r = a \o (b \o r)
  <2>1. Regroups(a, b, r)
    BY <1>2, Associative
  <2> QED BY <2>1 DEF Regroups
<1>8. Rest(a \o (b \o r), 4) = b \o r
  <2>1. a \in Seq(Byte) /\ b \o r \in Seq(Byte) /\ 4 = Len(a)
    BY <1>2, <1>6
  <2> QED BY <2>1, RestOf
<1>9. ReadU64(a \o (b \o r)) = ((n \div Word) % Word) * Word + (n % Word)
  BY <1>3, <1>4, <1>6, <1>8 DEF ReadU64
<1>10. ReadU64((a \o b) \o r) = ((n \div Word) % Word) * Word + (n % Word)
  BY <1>7, <1>9
<1>11. a \o b \in Seq(Byte) /\ Len(a \o b) = 8
  <2>1. a \in Seq(Byte) /\ b \in Seq(Byte)
    BY <1>2
  <2>2. a \o b \in Seq(Byte) /\ Len(a \o b) = Len(a) + Len(b)
    BY <2>1, Join
  <2> QED BY <1>2, <2>2
<1> QED BY <1>1, <1>5, <1>10, <1>11

LEMMA SmallMod ==
  ASSUME NEW n \in Nat, NEW b \in Nat, n < b
  PROVE  n % b = n
BY SMT

-----------------------------------------------------------------------------
(* Texts. *)

LEMMA CharFacts == Char \subseteq Byte /\ 0 \in Byte /\ 0 \notin Char /\ Seq(Char) \subseteq Seq(Byte)
<1>1. Char \subseteq Byte /\ 0 \in Byte /\ 0 \notin Char
  BY Sizes DEF Char
<1>2. ASSUME NEW s \in Seq(Char) PROVE s \in Seq(Byte)
  BY <1>1
<1> QED BY <1>1, <1>2

LEMMA TextFacts ==
  ASSUME NEW s \in Seq(Char)
  PROVE  /\ s \in Seq(Byte) /\ Text(s) \in Seq(Byte) /\ Len(Text(s)) = Len(s) + 1
         /\ \A i \in 1..Len(s) : Text(s)[i] = s[i] /\ Text(s)[i] # 0
         /\ Text(s)[Len(s) + 1] = 0 /\ SubSeq(Text(s), 1, Len(s)) = s
<1>1. s \in Seq(Byte)
  BY CharFacts
<1>2. Text(s) \in Seq(Byte) /\ Len(Text(s)) = Len(s) + 1
  BY <1>1, CharFacts DEF Text
<1>3. ASSUME NEW i \in 1..Len(s) PROVE Text(s)[i] = s[i] /\ Text(s)[i] # 0
  <2>1. s[i] \in Char
    OBVIOUS
  <2>2. Text(s)[i] = s[i]
    BY DEF Text
  <2> QED BY <2>1, <2>2, CharFacts
<1>4. Text(s)[Len(s) + 1] = 0
  BY DEF Text
<1>5. SubSeq(Text(s), 1, Len(s)) = s
  <2>1. SubSeq(Text(s), 1, Len(s)) \in Seq(Byte) /\ Len(SubSeq(Text(s), 1, Len(s))) = Len(s)
    BY <1>2
  <2>2. ASSUME NEW i \in 1..Len(s) PROVE SubSeq(Text(s), 1, Len(s))[i] = s[i]
    BY <1>2, <1>3
  <2> QED BY <1>1, <2>1, <2>2, SeqEqual
<1> QED BY <1>1, <1>2, <1>3, <1>4, <1>5

(* The reader of a text stops at its NUL, whatever follows it. *)
LEMMA ReadText ==
  ASSUME NEW s \in Seq(Char), NEW r \in Seq(Byte)
  PROVE  /\ Nuls(Text(s) \o r) # {}
         /\ CString(Text(s) \o r) = s /\ AfterString(Text(s) \o r) = r
<1> DEFINE t == Text(s)
           b == t \o r
<1>1. t \in Seq(Byte) /\ Len(t) = Len(s) + 1 /\ t[Len(s) + 1] = 0 /\ SubSeq(t, 1, Len(s)) = s
  BY TextFacts
<1>2. b \in Seq(Byte) /\ Len(b) = Len(t) + Len(r)
  BY <1>1, Join
<1>3. \A i \in 1..Len(t) : b[i] = t[i]
  BY <1>1, ConcatFacts
<1>4. \A i \in 1..Len(s) : t[i] # 0
  BY TextFacts
<1>5. Rest(b, Len(s) + 1) = r
  BY <1>1, RestOf
<1>6. SubSeq(b, 1, Len(s)) = s
  <2>1. Len(s) \in 0..Len(t)
    BY <1>1
  <2>2. SubSeq(b, 1, Len(s)) \in Seq(Byte) /\ Len(SubSeq(b, 1, Len(s))) = Len(s) /\ s \in Seq(Byte)
    BY <1>1, <1>2, RestFacts, TextFacts
  <2>3. ASSUME NEW i \in 1..Len(s) PROVE SubSeq(b, 1, Len(s))[i] = s[i]
    <3>1. SubSeq(b, 1, Len(s))[i] = b[i]
      BY <1>1, <1>2
    <3>2. b[i] = t[i]
      BY <1>1, <1>3
    <3>3. t[i] = s[i]
      BY TextFacts
    <3> QED BY <3>1, <3>2, <3>3
  <2> QED BY <2>2, <2>3, SeqEqual
<1> HIDE DEF t, b
<1>7. Len(s) + 1 \in Nuls(b) /\ \A j \in Nuls(b) : Len(s) + 1 <= j
  <2>1. Len(s) + 1 \in 1..Len(b) /\ b[Len(s) + 1] = 0
    BY <1>1, <1>2, <1>3
  <2>2. ASSUME NEW j \in Nuls(b), j < Len(s) + 1 PROVE FALSE
    <3>1. j \in 1..Len(s) /\ j \in 1..Len(t) /\ b[j] = 0
      BY <1>1, <2>2 DEF Nuls
    <3> QED BY <3>1, <1>3, <1>4
  <2>3. Nuls(b) \subseteq Nat
    BY DEF Nuls
  <2> QED BY <2>1, <2>2, <2>3 DEF Nuls
<1> DEFINE c == CHOOSE i \in Nuls(b) : \A j \in Nuls(b) : i <= j
<1>8. c = Len(s) + 1
  <2>1. c \in Nuls(b) /\ \A j \in Nuls(b) : c <= j
    BY <1>7
  <2>2. c \in Nat
    BY <2>1 DEF Nuls
  <2> HIDE DEF c
  <2>3. c <= Len(s) + 1 /\ Len(s) + 1 <= c
    BY <1>7, <2>1
  <2> QED BY <2>2, <2>3
<1>9. CString(b) = s
  <2>1. CString(b) = SubSeq(b, 1, c - 1)
    BY <1>7, Zenon DEF CString
  <2>2. c - 1 = Len(s)
    <3> HIDE DEF c
    <3> QED BY <1>8
  <2> QED BY <1>6, <2>1, <2>2
<1>10. AfterString(b) = r
  BY <1>5, <1>9 DEF AfterString
<1> QED BY <1>7, <1>9, <1>10 DEF b, t

(* The same for a text that ends its payload. *)
LEMMA ReadLast ==
  ASSUME NEW s \in Seq(Char)
  PROVE  Nuls(Text(s)) # {} /\ CString(Text(s)) = s
<1>1. Text(s) \in Seq(Byte)
  BY TextFacts
<1>2. Text(s) \o <<>> = Text(s)
  BY <1>1
<1>3. <<>> \in Seq(Byte)
  OBVIOUS
<1>4. Nuls(Text(s) \o <<>>) # {} /\ CString(Text(s) \o <<>>) = s
  BY <1>3, ReadText
<1> QED BY <1>2, <1>4

-----------------------------------------------------------------------------
(* Concatenations of many. *)

(* What FlattenSeq computes on the way. *)
Flattens(f, ss) ==
  /\ f[0] = <<>> /\ \A k \in 1..Len(ss) : f[k] = f[k-1] \o ss[k]
  /\ FlattenSeq(ss) = f[Len(ss)]

LEMMA Flattening ==
  ASSUME NEW S, NEW ss \in Seq(Seq(S))
  PROVE  \E f \in [0..Len(ss) -> Seq(S)] : Flattens(f, ss)
<1> DEFINE n == Len(ss)
           V == Seq(S)
           step == [k \in 1..n |-> [v \in V |-> v \o ss[k]]]
<1>1. n \in Nat /\ <<>> \in V /\ \A k \in 1..n : ss[k] \in V
  OBVIOUS
<1>2. step \in [1..n -> [V -> V]]
  <2>1. ASSUME NEW k \in 1..n, NEW v \in V PROVE v \o ss[k] \in V
    BY <1>1
  <2> HIDE DEF V, n
  <2> QED BY <2>1
<1>3. \A k \in 1..n : \A v \in V : step[k][v] = v \o ss[k]
  OBVIOUS
<1>4. PICK f \in [0..n -> V] : f[0] = <<>> /\ \A k \in 1..n : f[k] = step[k][f[k-1]]
  <2> HIDE DEF n, V, step
  <2>1. PICK f \in [0..n -> V] : Iterates(f, n, <<>>, step)
    BY <1>1, <1>2, Iteration
  <2> QED BY <2>1 DEF Iterates
<1>5. \A k \in 1..n : f[k-1] \in V /\ f[k] = f[k-1] \o ss[k]
  <2> SUFFICES ASSUME NEW k \in 1..n PROVE f[k-1] \in V /\ f[k] = f[k-1] \o ss[k]
    OBVIOUS
  <2> HIDE DEF V, step
  <2>1. k - 1 \in 0..n /\ f[k] = step[k][f[k-1]]
    BY <1>4
  <2>2. f[k-1] \in V
    BY <2>1
  <2> QED BY <1>3, <2>1, <2>2
<1>7. ASSUME n # 0 PROVE f[1] = ss[1]
  <2> HIDE DEF step
  <2>1. 1 \in 1..n /\ 1 - 1 = 0
    BY <1>7, <1>1
  <2>2. f[1] = f[1-1] \o ss[1]
    BY <2>1, <1>5
  <2>3. f[1-1] = <<>>
    BY <2>1, <1>4
  <2>4. \A v \in V : <<>> \o v = v
    OBVIOUS
  <2>5. ss[1] \in V
    BY <2>1, <1>1
  <2> QED BY <2>2, <2>3, <2>4, <2>5
<1>6. FlattenSeq(ss) = f[n]
  <2>1. CASE n = 0
    <3>1. ss = <<>>
      BY <2>1
    <3> QED BY <3>1, <2>1, <1>4 DEF FlattenSeq
  <2>2. CASE n # 0
    <3> DEFINE Eq(h) == h = [i \in 1..n |-> IF i = 1 THEN ss[i] ELSE h[i-1] \o ss[i]]
               g == CHOOSE h : Eq(h)
               f1 == [i \in 1..n |-> f[i]]
    <3> HIDE DEF n, V, step
    <3>1. Eq(f1)
      <4>1. ASSUME NEW i \in 1..n PROVE f1[i] = IF i = 1 THEN ss[i] ELSE f1[i-1] \o ss[i]
        <5>1. CASE i = 1
          BY <1>7, <2>2, <5>1
        <5>2. CASE i # 1
          <6>1. i - 1 \in 1..n
            BY <5>2, <1>1
          <6>2. f[i] = f[i-1] \o ss[i]
            BY <1>5
          <6> QED BY <6>1, <6>2, <5>2
        <5> QED BY <5>1, <5>2
      <4> QED BY <4>1
    <3>2. Eq(g)
      <4> HIDE DEF Eq, f1
      <4> QED BY <3>1
    <3>3. g = [i \in 1..n |-> IF i = 1 THEN ss[i] ELSE g[i-1] \o ss[i]]
      <4> HIDE DEF g
      <4> QED BY <3>2
    <3>4. \A i \in 1..n : g[i] = IF i = 1 THEN ss[i] ELSE g[i-1] \o ss[i]
      <4> HIDE DEF g
      <4> QED BY <3>3
    <3> HIDE DEF g
    <3> DEFINE Same == {k \in 0..n : k = 0 \/ g[k] = f[k]}
    <3>5. ASSUME NEW k \in 0..n, \A j \in 0..k-1 : j \in Same PROVE k \in Same
      <4>1. CASE k = 0
        BY <4>1
      <4>2. CASE k = 1
        <5>1. 1 \in 1..n /\ 0 \in 0..n
          BY <2>2, <1>1
        <5>2. g[1] = ss[1]
          BY <5>1, <3>4
        <5> QED BY <4>2, <5>2, <1>7, <2>2
      <4>3. CASE k # 0 /\ k # 1
        <5>1. k \in 1..n /\ k - 1 \in Same /\ k - 1 # 0
          BY <3>5, <4>3, <1>1
        <5>2. g[k-1] = f[k-1]
          BY <5>1
        <5>3. g[k] = g[k-1] \o ss[k] /\ f[k] = f[k-1] \o ss[k]
          BY <5>1, <4>3, <3>4, <1>5
        <5> QED BY <5>2, <5>3
      <4> QED BY <4>1, <4>2, <4>3
    <3>6. n \in Same
      <4> HIDE DEF Same
      <4>1. \A k \in 0..n : (\A j \in 0..k-1 : j \in Same) => k \in Same
        BY <3>5
      <4>2. \A k \in 0..n : k \in Same
        BY <4>1, <1>1, Counting
      <4> QED BY <4>2, <1>1
    <3>7. FlattenSeq(ss) = g[n]
      BY <2>2 DEF FlattenSeq, g, n
    <3> QED BY <3>6, <3>7, <2>2
  <2> QED BY <2>1, <2>2
<1> HIDE DEF step
<1>8. Flattens(f, ss)
  BY <1>4, <1>5, <1>6 DEF Flattens
<1> QED BY <1>8

LEMMA FlatType ==
  ASSUME NEW S, NEW ss \in Seq(Seq(S))
  PROVE  FlattenSeq(ss) \in Seq(S)
<1>1. PICK f \in [0..Len(ss) -> Seq(S)] : FlattenSeq(ss) = f[Len(ss)]
  <2>1. PICK f \in [0..Len(ss) -> Seq(S)] : Flattens(f, ss)
    BY Flattening
  <2> QED BY <2>1 DEF Flattens
<1>2. Len(ss) \in 0..Len(ss)
  OBVIOUS
<1> HIDE DEF FlattenSeq
<1>3. f[Len(ss)] \in Seq(S)
  BY <1>2
<1> QED BY <1>1, <1>3

(* Flattening nothing. *)
LEMMA FlatNone == FlattenSeq(<<>>) = <<>>
BY DEF FlattenSeq

(* The last one of many. *)
LEMMA FlatAppend ==
  ASSUME NEW S, NEW ss \in Seq(Seq(S)), NEW x \in Seq(S)
  PROVE  FlattenSeq(Append(ss, x)) = FlattenSeq(ss) \o x
<1> DEFINE n == Len(ss)
           tt == Append(ss, x)
<1>1. tt \in Seq(Seq(S)) /\ Len(tt) = n + 1 /\ n \in Nat
  OBVIOUS
<1>2. \A k \in 1..n : tt[k] = ss[k]
  OBVIOUS
<1>3. tt[n+1] = x
  OBVIOUS
<1>9. PICK f \in [0..Len(ss) -> Seq(S)] : Flattens(f, ss)
  BY Flattening
<1>4. f[0] = <<>> /\ (\A k \in 1..n : f[k] = f[k-1] \o ss[k]) /\ FlattenSeq(ss) = f[n]
  BY <1>9 DEF Flattens
<1> HIDE DEF tt
<1>10. PICK g \in [0..Len(tt) -> Seq(S)] : Flattens(g, tt)
  BY <1>1, Flattening
<1>5. g[0] = <<>> /\ (\A k \in 1..n+1 : g[k] = g[k-1] \o tt[k]) /\ FlattenSeq(tt) = g[n+1]
  BY <1>1, <1>10 DEF Flattens
<1> HIDE DEF n
<1> DEFINE Same == {k \in 0..n : g[k] = f[k]}
<1>6. ASSUME NEW k \in 0..n, \A j \in 0..k-1 : j \in Same PROVE k \in Same
  <2>1. CASE k = 0
    BY <2>1, <1>1, <1>4, <1>5
  <2>2. CASE k # 0
    <3>0. k \in 1..n /\ k \in 1..n+1 /\ k - 1 \in 0..k-1
      BY <2>2, <1>1
    <3>1. k \in 1..n /\ k \in 1..n+1 /\ k - 1 \in Same
      <4> HIDE DEF Same
      <4> QED BY <3>0, <1>6
    <3>2. g[k] = g[k-1] \o tt[k]
      BY <3>1, <1>5
    <3>3. f[k] = f[k-1] \o ss[k]
      BY <3>1, <1>4
    <3>4. g[k-1] = f[k-1] /\ tt[k] = ss[k]
      BY <3>1, <1>2
    <3> QED BY <3>2, <3>3, <3>4
  <2> QED BY <2>1, <2>2
<1>7. g[n] = f[n]
  <2> HIDE DEF Same
  <2>1. \A k \in 0..n : (\A j \in 0..k-1 : j \in Same) => k \in Same
    BY <1>6
  <2>2. \A k \in 0..n : k \in Same
    BY <2>1, <1>1, Counting
  <2>3. n \in Same
    BY <2>2, <1>1
  <2> QED BY <2>3 DEF Same
<1>8. g[n+1] = g[n] \o x
  <2>1. n + 1 \in 1..n+1 /\ (n + 1) - 1 = n
    BY <1>1
  <2> QED BY <2>1, <1>3, <1>5
<1> QED BY <1>4, <1>5, <1>7, <1>8 DEF tt

(* The first one of many. *)
LEMMA FlatCons ==
  ASSUME NEW S, NEW ss \in Seq(Seq(S)), ss # <<>>
  PROVE  FlattenSeq(ss) = ss[1] \o FlattenSeq([i \in 1..Len(ss)-1 |-> ss[1 + i]])
<1> DEFINE n == Len(ss) - 1
           tt == [i \in 1..n |-> ss[1 + i]]
           x == ss[1]
<1>1. n \in Nat /\ Len(ss) = n + 1 /\ x \in Seq(S)
  OBVIOUS
<1>2. tt \in Seq(Seq(S)) /\ Len(tt) = n /\ \A k \in 1..n : tt[k] = ss[k + 1]
  <2>1. \A i \in 1..n : ss[1 + i] \in Seq(S) /\ 1 + i = i + 1
    BY <1>1
  <2> HIDE DEF n
  <2>2. tt \in [1..n -> Seq(S)]
    BY <2>1
  <2> QED BY <1>1, <2>1, <2>2
<1>8. PICK f \in [0..Len(ss) -> Seq(S)] : Flattens(f, ss)
  BY Flattening
<1>3. f[0] = <<>> /\ (\A k \in 1..n+1 : f[k] = f[k-1] \o ss[k]) /\ FlattenSeq(ss) = f[n+1]
  BY <1>1, <1>8 DEF Flattens
<1> HIDE DEF tt
<1>9. PICK g \in [0..Len(tt) -> Seq(S)] : Flattens(g, tt)
  BY <1>2, Flattening
<1>4. g[0] = <<>> /\ (\A k \in 1..n : g[k] = g[k-1] \o tt[k]) /\ FlattenSeq(tt) = g[n]
  BY <1>2, <1>9 DEF Flattens
<1> DEFINE Same == {k \in 0..n : f[k+1] = x \o g[k]}
<1> HIDE DEF n
<1>5. ASSUME NEW k \in 0..n, \A j \in 0..k-1 : j \in Same PROVE k \in Same
  <2>1. CASE k = 0
    <3>1. 1 \in 1..n+1 /\ 1 - 1 = 0
      BY <1>1
    <3>2. f[1] = f[0] \o x
      BY <3>1, <1>3
    <3>3. \A s \in Seq(S) : <<>> \o s = s /\ s \o <<>> = s
      OBVIOUS
    <3>4. f[0 + 1] = x \o g[0]
      <4> HIDE DEF x
      <4> QED BY <3>2, <3>3, <1>1, <1>3, <1>4
    <3> QED BY <2>1, <3>4
  <2>2. CASE k # 0
    <3>0. k \in 1..n /\ k + 1 \in 1..n+1 /\ k - 1 \in 0..k-1 /\ (k - 1) + 1 = k /\ (k + 1) - 1 = k
      BY <2>2, <1>1
    <3>1. k \in 1..n /\ k + 1 \in 1..n+1 /\ k - 1 \in Same /\ (k - 1) + 1 = k /\ (k + 1) - 1 = k
      <4> HIDE DEF Same
      <4> QED BY <3>0, <1>5
    <3>2. f[k+1] = f[k] \o tt[k]
      BY <3>1, <1>2, <1>3
    <3>3. f[k] = x \o g[k-1]
      BY <3>1
    <3>4. g[k] = g[k-1] \o tt[k]
      BY <3>1, <1>4
    <3>5. g[k-1] \in Seq(S) /\ tt[k] \in Seq(S)
      <4>1. k - 1 \in 0..Len(tt) /\ k \in 1..Len(tt)
        BY <3>1, <1>1, <1>2
      <4>2. tt[k] \in Seq(S)
        BY <4>1, <1>2
      <4>3. g[k-1] \in Seq(S)
        BY <4>1
      <4> QED BY <4>2, <4>3
    <3>6. (x \o g[k-1]) \o tt[k] = x \o (g[k-1] \o tt[k])
      <4> DEFINE gg == g[k-1]
                 t == tt[k]
      <4> HIDE DEF x, gg, t
      <4>1. gg \in Seq(S) /\ t \in Seq(S) /\ x \in Seq(S)
        BY <3>5, <1>1 DEF gg, t
      <4>2. (x \o gg) \o t = x \o (gg \o t)
        <5>1. Regroups(x, gg, t)
          BY <4>1, Associative
        <5> QED BY <5>1 DEF Regroups
      <4> QED BY <4>2 DEF gg, t
    <3> QED BY <3>2, <3>3, <3>4, <3>6
  <2> QED BY <2>1, <2>2
<1>6. f[n+1] = x \o g[n]
  <2> HIDE DEF Same
  <2>1. \A k \in 0..n : (\A j \in 0..k-1 : j \in Same) => k \in Same
    BY <1>5
  <2>2. \A k \in 0..n : k \in Same
    BY <2>1, <1>1, Counting
  <2>3. n \in Same
    BY <2>2, <1>1
  <2> QED BY <2>3 DEF Same
<1>7. FlattenSeq(ss) = x \o FlattenSeq(tt)
  BY <1>3, <1>4, <1>6
<1> QED BY <1>7 DEF x, tt, n

(* The concatenation of all but the first k. *)
After(ss, k) == FlattenSeq([i \in 1..Len(ss)-k |-> ss[k + i]])

(* The frames after the first k: none, or one and the frames after k+1. *)
LEMMA AfterFacts ==
  ASSUME NEW S, NEW ss \in Seq(Seq(S))
  PROVE  /\ \A k \in 0..Len(ss) : After(ss, k) \in Seq(S)
         /\ After(ss, Len(ss)) = <<>>
         /\ \A k \in 0..Len(ss)-1 : After(ss, k) = ss[k+1] \o After(ss, k+1)
<1> DEFINE cut(k) == [i \in 1..Len(ss)-k |-> ss[k + i]]
<1>1. ASSUME NEW k \in 0..Len(ss)
      PROVE  cut(k) \in Seq(Seq(S)) /\ Len(cut(k)) = Len(ss) - k
  <2>1. \A i \in 1..Len(ss)-k : ss[k + i] \in Seq(S)
    OBVIOUS
  <2>2. cut(k) \in [1..Len(ss)-k -> Seq(S)] /\ Len(ss) - k \in Nat
    BY <2>1
  <2> QED BY <2>2
<1>2. ASSUME NEW k \in 0..Len(ss) PROVE After(ss, k) \in Seq(S)
  <2> HIDE DEF cut
  <2>1. FlattenSeq(cut(k)) \in Seq(S)
    BY <1>1, FlatType
  <2> QED BY <2>1 DEF cut, After
<1>3. After(ss, Len(ss)) = <<>>
  <2>1. Len(ss) \in 0..Len(ss) /\ Len(ss) - Len(ss) = 0
    OBVIOUS
  <2>2. cut(Len(ss)) \in Seq(Seq(S)) /\ Len(cut(Len(ss))) = 0
    BY <2>1, <1>1
  <2>3. cut(Len(ss)) = <<>>
    <3> HIDE DEF cut
    <3> QED BY <2>2
  <2> QED BY <2>3, FlatNone DEF After
<1>4. ASSUME NEW k \in 0..Len(ss)-1 PROVE After(ss, k) = ss[k+1] \o After(ss, k+1)
  <2> DEFINE tt == cut(k)
             n == Len(ss) - k - 1
  <2>1. k \in 0..Len(ss) /\ k + 1 \in 0..Len(ss) /\ n \in Nat
    OBVIOUS
  <2>2. tt \in Seq(Seq(S)) /\ Len(tt) = Len(ss) - k
    BY <2>1, <1>1
  <2>3. tt # <<>>
    <3> HIDE DEF tt
    <3>1. Len(tt) # 0
      BY <2>2, <2>1
    <3> QED BY <3>1
  <2>4. tt[1] = ss[k+1]
    BY <2>1
  <2>5. [i \in 1..Len(tt)-1 |-> tt[1 + i]] = cut(k+1)
    <3>1. Len(tt) - 1 = n /\ Len(ss) - (k+1) = n
      BY <2>1, <2>2
    <3>2. ASSUME NEW i \in 1..n PROVE tt[1 + i] = ss[(k + 1) + i]
      <4>1. 1 + i \in 1..Len(ss)-k /\ k + (1 + i) = (k + 1) + i
        BY <2>1
      <4> QED BY <4>1
    <3> HIDE DEF tt, n
    <3> QED BY <3>1, <3>2
  <2>6. FlattenSeq(tt) = tt[1] \o FlattenSeq([i \in 1..Len(tt)-1 |-> tt[1 + i]])
    <3> HIDE DEF tt
    <3> QED BY <2>2, <2>3, FlatCons
  <2>7. FlattenSeq(tt) = ss[k+1] \o FlattenSeq(cut(k+1))
    BY <2>4, <2>5, <2>6
  <2> QED BY <2>7 DEF After
<1> QED BY <1>2, <1>3, <1>4

(* A new frame joins the end. *)
LEMMA AfterAppend ==
  ASSUME NEW S, NEW ss \in Seq(Seq(S)), NEW x \in Seq(S), NEW k \in 0..Len(ss)
  PROVE  After(Append(ss, x), k) = After(ss, k) \o x
<1> DEFINE tt == [i \in 1..Len(ss)-k |-> ss[k + i]]
           uu == [i \in 1..Len(Append(ss, x))-k |-> Append(ss, x)[k + i]]
           n == Len(ss) - k
<1>1. n \in Nat /\ Len(Append(ss, x)) - k = n + 1
  OBVIOUS
<1>2. \A i \in 1..n : ss[k + i] \in Seq(S) /\ Append(ss, x)[k + i] = ss[k + i]
  BY <1>1
<1>3. Append(ss, x)[k + (n + 1)] = x
  BY <1>1
<1>4. tt \in Seq(Seq(S)) /\ Len(tt) = n /\ \A i \in 1..n : tt[i] = ss[k + i]
  <2>1. tt \in [1..n -> Seq(S)]
    BY <1>2
  <2> QED BY <1>1, <2>1
<1>5. uu \in Seq(Seq(S)) /\ Len(uu) = n + 1
  <2>1. \A i \in 1..n+1 : Append(ss, x)[k + i] \in Seq(S)
    <3>1. ASSUME NEW i \in 1..n+1 PROVE Append(ss, x)[k + i] \in Seq(S)
      <4> HIDE DEF n
      <4>1. i \in 1..n \/ i = n + 1
        BY <1>1
      <4> QED BY <4>1, <1>2, <1>3
    <3> QED BY <3>1
  <2>2. uu \in [1..n+1 -> Seq(S)]
    BY <1>1, <2>1
  <2> QED BY <1>1, <2>2
<1>6. uu = Append(tt, x)
  <2>1. Append(tt, x) \in Seq(Seq(S)) /\ Len(Append(tt, x)) = n + 1
    BY <1>4
  <2>2. ASSUME NEW i \in 1..n+1 PROVE uu[i] = Append(tt, x)[i]
    <3>1. uu[i] = Append(ss, x)[k + i]
      BY <1>1
    <3> HIDE DEF uu, tt
    <3>2. CASE i \in 1..n
      BY <3>1, <3>2, <1>2, <1>4
    <3>3. CASE i = n + 1
      <4>1. Append(tt, x)[n + 1] = x
        BY <1>4
      <4> QED BY <3>1, <3>3, <1>3, <4>1
    <3>4. i \in 1..n \/ i = n + 1
      <4> HIDE DEF n
      <4> QED BY <1>1
    <3> QED BY <3>2, <3>3, <3>4
  <2> HIDE DEF uu, tt
  <2> QED BY <1>5, <2>1, <2>2, SeqEqual
<1>7. FlattenSeq(Append(tt, x)) = FlattenSeq(tt) \o x
  <2> HIDE DEF tt
  <2> QED BY <1>4, FlatAppend
<1> HIDE DEF n
<1> QED BY <1>6, <1>7 DEF After

-----------------------------------------------------------------------------
(* Decimal numbers. *)

LEMMA DecimalConstants ==
  /\ Radix \in Nat \ {0, 1} /\ ZeroChar \in Nat \ {0} /\ MaxSize \in Nat
  /\ \A d \in 0..Radix-1 : ZeroChar + d \in Char /\ (ZeroChar + d) - ZeroChar = d
<1>1. Radix \in Nat \ {0, 1} /\ ZeroChar \in Nat \ {0} /\ MaxSize \in Nat
      /\ ZeroChar + Radix <= Base /\ Base \in Nat
  BY CodecAssumption
<1> QED BY <1>1 DEF Char, Byte

(* What Decimal computes on the way. *)
LEMMA Writing ==
  ASSUME NEW n \in Nat
  PROVE  \E f \in [0..n -> Seq(Char)] :
            /\ \A m \in 0..n : f[m] = IF m < Radix THEN <<ZeroChar + m>>
                                      ELSE Append(f[m \div Radix], ZeroChar + (m % Radix))
            /\ Decimal(n) = f[n]
<1> DEFINE V == Seq(Char)
           start == <<ZeroChar + 0>>
           down == [k \in 1..n |-> k \div Radix]
           digit(k) == ZeroChar + (k % Radix)
           step == [k \in 1..n |-> [v \in V |->
                      IF k < Radix THEN <<ZeroChar + k>> ELSE Append(v, digit(k))]]
           Eq(f) == f = [m \in 0..n |-> IF m < Radix THEN <<ZeroChar + m>>
                                        ELSE Append(f[m \div Radix], ZeroChar + (m % Radix))]
<1>1. start \in V /\ 0 < Radix
  BY DecimalConstants
<1>2. ASSUME NEW k \in Nat PROVE k \div Radix \in Nat /\ digit(k) \in Char /\ (0 < k => k \div Radix < k)
  <2>1. k \div Radix \in Nat /\ k % Radix \in 0..Radix-1
    BY DivMod, DecimalConstants
  <2>2. ASSUME 0 < k PROVE k \div Radix < k
    <3> DEFINE q == k \div Radix
    <3>1. q \in Nat /\ k % Radix \in Nat /\ k = q * Radix + (k % Radix)
      BY DivMod, DecimalConstants
    <3>2. PICK d \in Nat : Radix = 2 + d
      <4>1. Radix - 2 \in Nat /\ Radix = 2 + (Radix - 2)
        BY DecimalConstants
      <4> QED BY <4>1
    <3> HIDE DEF q
    <3>3. q * Radix = q + q + q * d /\ q * d \in Nat
      BY <3>1, <3>2
    <3>4. q < k
      BY <2>2, <3>1, <3>3
    <3> QED BY <3>4 DEF q
  <2> QED BY <2>1, <2>2, DecimalConstants
<1>3. down \in [1..n -> Nat] /\ \A k \in 1..n : down[k] < k
  BY <1>2
<1>4. step \in [1..n -> [V -> V]]
  <2>1. ASSUME NEW k \in 1..n, NEW v \in V
        PROVE  (IF k < Radix THEN <<ZeroChar + k>> ELSE Append(v, digit(k))) \in V
    <3>1. digit(k) \in Char /\ (k < Radix => ZeroChar + k \in Char)
      <4> HIDE DEF digit
      <4>1. k \in Nat
        OBVIOUS
      <4>2. digit(k) \in Char
        BY <4>1, <1>2
      <4>3. k < Radix => k \in 0..Radix-1
        BY <4>1, DecimalConstants
      <4> QED BY <4>2, <4>3, DecimalConstants
    <3> HIDE DEF digit
    <3> QED BY <3>1
  <2> HIDE DEF V, digit
  <2> QED BY <2>1
<1>5. PICK f \in [0..n -> V] : Recurses(f, n, start, down, step)
  <2> HIDE DEF V, start, down, step
  <2> QED BY <1>1, <1>3, <1>4, Recursion
<1>6. ASSUME NEW m \in 0..n
      PROVE  f[m] = IF m < Radix THEN <<ZeroChar + m>> ELSE Append(f[m \div Radix], digit(m))
  <2>1. CASE m = 0
    BY <1>1, <1>5, <2>1 DEF Recurses
  <2>2. CASE m # 0
    <3>1. m \in 1..n /\ m \div Radix \in 0..n
      <4> HIDE DEF digit
      <4>1. m \in Nat /\ 0 < m
        BY <2>2
      <4>2. m \div Radix \in Nat /\ m \div Radix < m
        BY <4>1, <1>2
      <4> QED BY <4>1, <4>2
    <3>2. f[m] = step[m][f[m \div Radix]]
      BY <1>5, <3>1 DEF Recurses
    <3>3. f[m \div Radix] \in V
      BY <3>1
    <3>4. \A v \in V : step[m][v] = IF m < Radix THEN <<ZeroChar + m>> ELSE Append(v, digit(m))
      BY <3>1
    <3> HIDE DEF step, digit, V
    <3> QED BY <3>2, <3>3, <3>4
  <2> QED BY <2>1, <2>2
<1>7. Eq(f)
  BY <1>6
<1> DEFINE g == CHOOSE f1 : Eq(f1)
<1>8. Eq(g)
  <2> HIDE DEF Eq
  <2> QED BY <1>7
<1>9. \A m \in 0..n : g[m] = IF m < Radix THEN <<ZeroChar + m>> ELSE Append(g[m \div Radix], digit(m))
  <2> HIDE DEF g
  <2> QED BY <1>8
<1>10. Decimal(n) = g[n]
  BY DEF Decimal
<1> HIDE DEF g, step, down, start
<1> DEFINE Same == {m \in 0..n : g[m] = f[m]}
<1>11. ASSUME NEW k \in 0..n, \A j \in 0..k-1 : j \in Same PROVE k \in Same
  <2>1. CASE k < Radix
    BY <2>1, <1>6, <1>9
  <2>2. CASE ~(k < Radix)
    <3>1. k \div Radix \in 0..k-1
      <4>1. k \in Nat /\ Radix \in Nat /\ 0 < Radix
        BY DecimalConstants
      <4>2. 0 < k
        BY <4>1, <2>2
      <4>3. k \div Radix \in Nat /\ k \div Radix < k
        BY <4>1, <4>2, <1>2
      <4> QED BY <4>1, <4>3
    <3>2. k \div Radix \in Same
      <4> HIDE DEF Same
      <4> QED BY <3>1, <1>11
    <3>3. g[k \div Radix] = f[k \div Radix]
      BY <3>2
    <3> HIDE DEF digit
    <3> QED BY <3>3, <2>2, <1>6, <1>9
  <2> QED BY <2>1, <2>2
<1>12. g[n] = f[n]
  <2> HIDE DEF Same
  <2>1. \A k \in 0..n : (\A j \in 0..k-1 : j \in Same) => k \in Same
    BY <1>11
  <2>2. \A k \in 0..n : k \in Same
    BY <2>1, Counting
  <2>3. n \in Same
    BY <2>2
  <2> QED BY <2>3 DEF Same
<1> QED BY <1>6, <1>10, <1>12

LEMMA Longer ==
  ASSUME NEW S, NEW s \in Seq(S), NEW x \in S
  PROVE  Append(s, x) \in Seq(S) /\ Len(Append(s, x)) = Len(s) + 1 /\ Append(s, x) # <<>> /\ <<x>> # <<>>
<1>1. Append(s, x) \in Seq(S) /\ Len(Append(s, x)) = Len(s) + 1 /\ Len(s) + 1 # 0
  OBVIOUS
<1>2. Len(<<x>>) = 1
  OBVIOUS
<1> QED BY <1>1, <1>2

(* What ParseNumber computes on the way: a digit more is one round more. *)
LEMMA DigitType ==
  ASSUME NEW n \in Nat \cup {NaN}, NEW char \in Int
  PROVE  DigitAppended(n, char) \in Nat \cup {NaN}
<1> DEFINE d == char - ZeroChar
<1>1. CASE n = NaN \/ d \notin 0..Radix-1 \/ n > (MaxSize - d) \div Radix
  BY <1>1 DEF DigitAppended
<1>2. CASE ~(n = NaN \/ d \notin 0..Radix-1 \/ n > (MaxSize - d) \div Radix)
  <2>1. n \in Nat /\ d \in 0..Radix-1
    BY <1>2
  <2>2. DigitAppended(n, char) = n * Radix + d
    BY <1>2 DEF DigitAppended
  <2> HIDE DEF d
  <2>3. n * Radix \in Nat /\ d \in Nat
    BY <2>1, DecimalConstants
  <2> QED BY <2>2, <2>3
<1> QED BY <1>1, <1>2

Parses(f, chars) ==
  /\ f[0] = 0 /\ \A k \in 1..Len(chars) : f[k] = DigitAppended(f[k-1], chars[k])
  /\ chars # <<>> => ParseNumber(chars) = f[Len(chars)]

LEMMA Parsing ==
  ASSUME NEW chars \in Seq(Byte)
  PROVE  \E f \in [0..Len(chars) -> Nat \cup {NaN}] : Parses(f, chars)
<1> DEFINE n == Len(chars)
           V == Nat \cup {NaN}
           step == [k \in 1..n |-> [v \in V |-> DigitAppended(v, chars[k])]]
           Eq(f) == f = [k \in 0..n |-> IF k = 0 THEN 0 ELSE DigitAppended(f[k-1], chars[k])]
<1>1. n \in Nat /\ 0 \in V /\ \A k \in 1..n : chars[k] \in Int
  <2>1. \A k \in 1..n : chars[k] \in Byte
    OBVIOUS
  <2> QED BY <2>1, Sizes DEF Byte
<1>2. step \in [1..n -> [V -> V]]
  <2>1. ASSUME NEW k \in 1..n, NEW v \in V PROVE DigitAppended(v, chars[k]) \in V
    BY <1>1, DigitType
  <2> HIDE DEF V, n
  <2> QED BY <2>1
<1>3. PICK f \in [0..n -> V] : Iterates(f, n, 0, step)
  <2> HIDE DEF n, V, step
  <2> QED BY <1>1, <1>2, Iteration
<1>4. f[0] = 0 /\ \A k \in 1..n : f[k] = DigitAppended(f[k-1], chars[k])
  <2>1. ASSUME NEW k \in 1..n PROVE f[k] = DigitAppended(f[k-1], chars[k])
    <3>1. f[k] = step[k][f[k-1]]
      BY <1>3 DEF Iterates
    <3>2. f[k-1] \in V
      <4> HIDE DEF V
      <4> QED BY <1>1
    <3>3. \A v \in V : step[k][v] = DigitAppended(v, chars[k])
      <4> HIDE DEF V
      <4> QED OBVIOUS
    <3> HIDE DEF V, step
    <3> QED BY <3>1, <3>2, <3>3
  <2> QED BY <2>1, <1>3 DEF Iterates
<1>5. Eq(f)
  <2> HIDE DEF V, n
  <2>1. \A k \in 0..n : f[k] = IF k = 0 THEN 0 ELSE DigitAppended(f[k-1], chars[k])
    BY <1>1, <1>4
  <2> QED BY <2>1
<1> DEFINE g == CHOOSE f1 : Eq(f1)
<1>6. Eq(g)
  <2> HIDE DEF Eq
  <2> QED BY <1>5
<1>7. \A k \in 0..n : g[k] = IF k = 0 THEN 0 ELSE DigitAppended(g[k-1], chars[k])
  <2> HIDE DEF g
  <2> QED BY <1>6
<1>8. chars # <<>> => ParseNumber(chars) = g[n]
  BY DEF ParseNumber
<1> HIDE DEF g, step, n, V
<1> DEFINE Same == {k \in 0..n : g[k] = f[k]}
<1>9. ASSUME NEW k \in 0..n, \A j \in 0..k-1 : j \in Same PROVE k \in Same
  <2>1. CASE k = 0
    BY <2>1, <1>4, <1>7
  <2>2. CASE k # 0
    <3>1. k \in 1..n /\ k - 1 \in 0..k-1
      BY <2>2, <1>1
    <3>2. k - 1 \in Same
      <4> HIDE DEF Same
      <4> QED BY <3>1, <1>9
    <3> QED BY <3>1, <3>2, <2>2, <1>4, <1>7
  <2> QED BY <2>1, <2>2
<1>10. g[n] = f[n]
  <2> HIDE DEF Same
  <2>1. \A k \in 0..n : (\A j \in 0..k-1 : j \in Same) => k \in Same
    BY <1>9
  <2>2. \A k \in 0..n : k \in Same
    BY <2>1, <1>1, Counting
  <2>3. n \in Same
    BY <2>2, <1>1
  <2> QED BY <2>3 DEF Same
<1>11. Parses(f, chars)
  BY <1>4, <1>8, <1>10 DEF Parses, n
<1> QED BY <1>11 DEF n, V

(* Parsing one more digit goes on from the value of the digits before it. *)
LEMMA ParseDigit ==
  ASSUME NEW chars \in Seq(Byte), NEW char \in Byte
  PROVE  /\ ParseNumber(<<char>>) = DigitAppended(0, char)
         /\ chars # <<>> => ParseNumber(Append(chars, char)) = DigitAppended(ParseNumber(chars), char)
<1>1. ParseNumber(<<char>>) = DigitAppended(0, char)
  <2> DEFINE one == <<char>>
  <2>1. one \in Seq(Byte) /\ Len(one) = 1 /\ one[1] = char /\ one # <<>>
    OBVIOUS
  <2> HIDE DEF one
  <2>2. PICK f \in [0..Len(one) -> Nat \cup {NaN}] : Parses(f, one)
    BY <2>1, Parsing
  <2>3. f[0] = 0 /\ f[1] = DigitAppended(f[1-1], one[1]) /\ ParseNumber(one) = f[1]
    BY <2>1, <2>2 DEF Parses
  <2> QED BY <2>1, <2>3 DEF one
<1>2. ASSUME chars # <<>>
      PROVE  ParseNumber(Append(chars, char)) = DigitAppended(ParseNumber(chars), char)
  <2> DEFINE n == Len(chars)
             more == Append(chars, char)
  <2>1. /\ more \in Seq(Byte) /\ Len(more) = n + 1 /\ more # <<>> /\ n \in Nat
        /\ more[n+1] = char /\ \A k \in 1..n : more[k] = chars[k]
    OBVIOUS
  <2> HIDE DEF more
  <2>2. PICK f \in [0..Len(chars) -> Nat \cup {NaN}] : Parses(f, chars)
    BY Parsing
  <2>3. PICK g \in [0..Len(more) -> Nat \cup {NaN}] : Parses(g, more)
    BY <2>1, Parsing
  <2>4. /\ f[0] = 0 /\ \A k \in 1..n : f[k] = DigitAppended(f[k-1], chars[k])
        /\ ParseNumber(chars) = f[n]
    BY <2>2, <1>2 DEF Parses
  <2>5. /\ g[0] = 0 /\ \A k \in 1..n+1 : g[k] = DigitAppended(g[k-1], more[k])
        /\ ParseNumber(more) = g[n+1]
    BY <2>1, <2>3 DEF Parses
  <2> HIDE DEF n
  <2> DEFINE Same == {k \in 0..n : g[k] = f[k]}
  <2>6. ASSUME NEW k \in 0..n, \A j \in 0..k-1 : j \in Same PROVE k \in Same
    <3>1. CASE k = 0
      BY <3>1, <2>4, <2>5
    <3>2. CASE k # 0
      <4>1. k \in 1..n /\ k \in 1..n+1 /\ k - 1 \in 0..k-1
        BY <3>2, <2>1
      <4>2. k - 1 \in Same
        <5> HIDE DEF Same
        <5> QED BY <4>1, <2>6
      <4>3. g[k-1] = f[k-1] /\ more[k] = chars[k]
        BY <4>1, <4>2, <2>1
      <4> QED BY <4>1, <4>3, <2>4, <2>5
    <3> QED BY <3>1, <3>2
  <2>7. g[n] = f[n]
    <3> HIDE DEF Same
    <3>1. \A k \in 0..n : (\A j \in 0..k-1 : j \in Same) => k \in Same
      BY <2>6
    <3>2. \A k \in 0..n : k \in Same
      BY <3>1, <2>1, Counting
    <3>3. n \in Same
      BY <3>2, <2>1
    <3> QED BY <3>3 DEF Same
  <2>8. g[n+1] = DigitAppended(g[n], char)
    <3>1. n + 1 \in 1..n+1 /\ (n + 1) - 1 = n
      BY <2>1
    <3> QED BY <3>1, <2>1, <2>5
  <2> QED BY <2>4, <2>5, <2>7, <2>8 DEF more
<1> QED BY <1>1, <1>2

(* The parser reads back what %llu wrote: every number that fits. *)
LEMMA DecimalReads ==
  ASSUME NEW n \in 0..MaxSize
  PROVE  Decimal(n) \in Seq(Char) /\ Decimal(n) # <<>> /\ ParseNumber(Decimal(n)) = n
<1>0. n \in Nat /\ n <= MaxSize /\ MaxSize \in Nat
  BY DecimalConstants
<1>1. PICK f \in [0..n -> Seq(Char)] :
         /\ \A m \in 0..n : f[m] = IF m < Radix THEN <<ZeroChar + m>>
                                   ELSE Append(f[m \div Radix], ZeroChar + (m % Radix))
         /\ Decimal(n) = f[n]
  BY <1>0, Writing
<1> DEFINE Right == {m \in 0..n : f[m] # <<>> /\ ParseNumber(f[m]) = m}
<1>2. ASSUME NEW m \in 0..n, \A j \in 0..m-1 : j \in Right PROVE m \in Right
  <2>1. CASE m < Radix
    <3>1. m \in 0..Radix-1 /\ m \in Nat
      BY <2>1, <1>0, DecimalConstants
    <3>2. f[m] = <<ZeroChar + m>> /\ ZeroChar + m \in Byte /\ (ZeroChar + m) - ZeroChar = m
      BY <3>1, <2>1, <1>1, DecimalConstants, CharFacts
    <3>3. DigitAppended(0, ZeroChar + m) = m
      <4>1. ~(0 > (MaxSize - m) \div Radix)
        <5>1. MaxSize - m \in Nat
          BY <1>0
        <5>2. (MaxSize - m) \div Radix \in Nat
          BY <5>1, DivMod, DecimalConstants
        <5> QED BY <5>2
      <4>2. 0 # NaN /\ 0 * Radix + m = m
        BY <3>1, DecimalConstants DEF NaN
      <4> QED BY <3>1, <3>2, <4>1, <4>2 DEF DigitAppended
    <3>4. ParseNumber(<<ZeroChar + m>>) = DigitAppended(0, ZeroChar + m)
      <4>1. <<>> \in Seq(Byte)
        OBVIOUS
      <4> QED BY <3>2, <4>1, ParseDigit
    <3>5. <<ZeroChar + m>> # <<>>
      <4>1. <<>> \in Seq(Byte)
        OBVIOUS
      <4> QED BY <3>2, <4>1, Longer
    <3>6. f[m] # <<>> /\ ParseNumber(f[m]) = m
      BY <3>2, <3>3, <3>4, <3>5
    <3> QED BY <3>6
  <2>2. CASE ~(m < Radix)
    <3> DEFINE q == m \div Radix
               d == m % Radix
    <3>1. q \in Nat /\ d \in 0..Radix-1 /\ m = q * Radix + d /\ m \in Nat
      <4>1. m \in Nat
        BY <1>0
      <4>2. Radix \in Nat \ {0}
        BY DecimalConstants
      <4> QED BY <4>1, <4>2, DivMod
    <3> HIDE DEF q, d
    <3>2. q < m
      <4>1. PICK e \in Nat : Radix = 2 + e
        <5>1. Radix - 2 \in Nat /\ Radix = 2 + (Radix - 2)
          BY DecimalConstants
        <5> QED BY <5>1
      <4>2. q * Radix = q + q + q * e /\ q * e \in Nat
        BY <3>1, <4>1
      <4>3. q # 0
        <5>1. Radix \in Nat /\ 0 * Radix = 0
          BY DecimalConstants
        <5> QED BY <5>1, <3>1, <2>2
      <4> DEFINE qe == q * e
      <4>4. m = q + q + qe + d /\ qe \in Nat /\ d \in Nat
        BY <3>1, <4>2, DecimalConstants
      <4> HIDE DEF qe
      <4> QED BY <3>1, <4>3, <4>4
    <3>3. q \in Right
      <4> HIDE DEF Right
      <4>1. q \in 0..m-1
        BY <3>1, <3>2
      <4> QED BY <4>1, <1>2
    <3>4. f[q] \in Seq(Char) /\ f[q] # <<>> /\ ParseNumber(f[q]) = q
      BY <3>3
    <3>5. f[m] = Append(f[q], ZeroChar + d)
      BY <2>2, <1>1 DEF q, d
    <3>6. ZeroChar + d \in Byte /\ (ZeroChar + d) - ZeroChar = d /\ f[q] \in Seq(Byte)
      BY <3>1, <3>4, DecimalConstants, CharFacts
    <3>7. ParseNumber(f[m]) = DigitAppended(q, ZeroChar + d)
      BY <3>4, <3>5, <3>6, ParseDigit
    <3>8. ~(q > (MaxSize - d) \div Radix)
      <4> DEFINE x == MaxSize - d
      <4>1. x \in Nat /\ q * Radix <= x /\ q * Radix \in Nat
        <5> DEFINE qR == q * Radix
        <5>1. Radix \in Nat /\ qR \in Nat
          BY <3>1, DecimalConstants
        <5>2. m = qR + d /\ d \in Nat /\ m \in 0..n
          BY <3>1, <5>1
        <5> HIDE DEF qR
        <5>3. x \in Nat /\ qR <= x
          BY <1>0, <5>1, <5>2
        <5> QED BY <5>1, <5>3 DEF qR
      <4> DEFINE p == x \div Radix
      <4>2. p \in Nat /\ x % Radix \in 0..Radix-1 /\ x = p * Radix + (x % Radix)
        BY <4>1, DivMod, DecimalConstants
      <4> HIDE DEF p, x
      <4>3. ASSUME p < q PROVE FALSE
        <5>1. PICK e \in Nat : q = p + 1 + e
          <6>1. q - p - 1 \in Nat /\ q = p + 1 + (q - p - 1)
            BY <3>1, <4>2, <4>3
          <6> QED BY <6>1
        <5>2. q * Radix = p * Radix + Radix + e * Radix /\ e * Radix \in Nat /\ p * Radix \in Nat
          BY <4>2, <5>1, DecimalConstants
        <5>3. Radix \in Nat
          BY DecimalConstants
        <5> DEFINE r == x % Radix
                   pR == p * Radix
                   qR == q * Radix
                   eR == e * Radix
        <5>4. /\ r \in 0..Radix-1 /\ x = pR + r /\ x \in Nat /\ qR <= x
              /\ qR = pR + Radix + eR /\ eR \in Nat /\ pR \in Nat
          BY <4>1, <4>2, <5>2
        <5> HIDE DEF r, pR, qR, eR
        <5> QED BY <5>3, <5>4
      <4>4. ~(q > p)
        BY <4>2, <4>3, <3>1
      <4> QED BY <4>4 DEF p, x
    <3>9. q # NaN
      BY <3>1 DEF NaN
    <3>10. DigitAppended(q, ZeroChar + d) = q * Radix + d
      BY <3>1, <3>6, <3>8, <3>9 DEF DigitAppended
    <3>11. f[m] # <<>>
      <4>1. Append(f[q], ZeroChar + d) # <<>>
        BY <3>4, <3>6, Longer
      <4> QED BY <3>5, <4>1
    <3> QED BY <3>1, <3>7, <3>10, <3>11
  <2> QED BY <2>1, <2>2
<1>3. n \in Right
  <2> HIDE DEF Right
  <2>1. \A k \in 0..n : (\A j \in 0..k-1 : j \in Right) => k \in Right
    BY <1>2
  <2>2. \A k \in 0..n : k \in Right
    BY <2>1, <1>0, Counting
  <2> QED BY <2>2, <1>0
<1>4. f[n] \in Seq(Char)
  BY <1>0
<1> QED BY <1>1, <1>3, <1>4

-----------------------------------------------------------------------------
(* The list of users. *)

Terminated(names) == [i \in 1..Len(names) |-> Text(names[i])]

(* A list of names begins with its first name. *)
LEMMA TextsFacts ==
  ASSUME NEW names \in Seq(Seq(Char) \ {<<>>})
  PROVE  /\ Terminated(names) \in Seq(Seq(Byte)) /\ Len(Terminated(names)) = Len(names)
         /\ \A i \in 1..Len(names) : names[i] \in Seq(Char) \ {<<>>} /\ Terminated(names)[i] = Text(names[i])
         /\ Texts(names) = After(Terminated(names), 0) /\ Texts(names) \in Seq(Byte)
<1> DEFINE ss == Terminated(names)
           n == Len(names)
<1>1. n \in Nat /\ \A i \in 1..n : names[i] \in Seq(Char) \ {<<>>} /\ Text(names[i]) \in Seq(Byte)
  <2>1. \A i \in 1..n : names[i] \in Seq(Char) \ {<<>>}
    OBVIOUS
  <2> HIDE DEF n
  <2>2. \A i \in 1..n : Text(names[i]) \in Seq(Byte)
    BY <2>1, TextFacts
  <2> QED BY <2>1, <2>2 DEF n
<1>2. ss \in Seq(Seq(Byte)) /\ Len(ss) = n /\ \A i \in 1..n : ss[i] = Text(names[i])
  <2> HIDE DEF n
  <2>1. ss \in [1..n -> Seq(Byte)]
    BY <1>1 DEF Terminated, n
  <2> QED BY <1>1, <2>1 DEF Terminated, n
<1>3. Texts(names) = After(ss, 0)
  <2>1. [i \in 1..Len(ss)-0 |-> ss[0 + i]] = ss
    <3>1. \A i \in 1..n : 0 + i = i
      OBVIOUS
    <3>2. Len(ss) - 0 = n
      BY <1>1, <1>2
    <3>3. ss = [i \in 1..n |-> ss[i]]
      BY DEF Terminated
    <3> HIDE DEF n, ss
    <3> QED BY <3>1, <3>2, <3>3
  <2> QED BY <2>1 DEF After, Texts, Terminated
<1>4. After(ss, 0) \in Seq(Byte)
  <2> HIDE DEF ss
  <2>1. 0 \in 0..Len(ss)
    BY <1>1, <1>2
  <2> QED BY <1>2, <2>1, AfterFacts
<1> QED BY <1>1, <1>2, <1>3, <1>4

(* Every name takes a byte. *)
LEMMA TextsLength ==
  ASSUME NEW names \in Seq(Seq(Char) \ {<<>>})
  PROVE  Len(names) <= Len(Texts(names))
<1> DEFINE ss == Terminated(names)
           n == Len(names)
           Right == {k \in 0..n : k <= Len(After(ss, n - k))}
<1>1. n \in Nat /\ Len(ss) = n /\ ss \in Seq(Seq(Byte)) /\ Texts(names) = After(ss, 0)
  BY TextsFacts
<1>2. \A i \in 1..n : names[i] \in Seq(Char) /\ ss[i] = Text(names[i])
  BY TextsFacts
<1> HIDE DEF ss, n
<1>3. ASSUME NEW k \in 0..n, \A j \in 0..k-1 : j \in Right PROVE k \in Right
  <2>1. CASE k = 0
    <3>1. n - 0 \in 0..Len(ss)
      BY <1>1
    <3>2. After(ss, n - 0) \in Seq(Byte)
      BY <3>1, <1>1, AfterFacts
    <3>3. Len(After(ss, n - 0)) >= 0
      BY <3>2
    <3> QED BY <2>1, <3>3
  <2>2. CASE k # 0
    <3> DEFINE i == n - k
    <3>1. i \in 0..n-1 /\ i + 1 = n - (k - 1) /\ i + 1 \in 1..n /\ k - 1 \in 0..k-1 /\ k \in Nat
      BY <2>2, <1>1
    <3>2. k - 1 \in Right
      <4> HIDE DEF Right
      <4> QED BY <3>1, <1>3
    <3>3. k - 1 <= Len(After(ss, i + 1))
      BY <3>1, <3>2
    <3> HIDE DEF i
    <3>4. After(ss, i) = ss[i+1] \o After(ss, i + 1) /\ After(ss, i + 1) \in Seq(Byte)
      <4>1. i \in 0..Len(ss)-1 /\ i + 1 \in 0..Len(ss)
        BY <3>1, <1>1
      <4> QED BY <4>1, <1>1, AfterFacts
    <3>5. ss[i+1] \in Seq(Byte) /\ Len(ss[i+1]) = Len(names[i+1]) + 1 /\ Len(names[i+1]) \in Nat
      <4>1. names[i+1] \in Seq(Char) /\ ss[i+1] = Text(names[i+1])
        BY <3>1, <1>2
      <4> QED BY <4>1, TextFacts
    <3>6. Len(After(ss, i)) = Len(ss[i+1]) + Len(After(ss, i + 1)) /\ Len(After(ss, i + 1)) \in Nat
      <4> DEFINE x == ss[i+1]
                 y == After(ss, i + 1)
      <4>1. x \in Seq(Byte) /\ y \in Seq(Byte) /\ After(ss, i) = x \o y
        BY <3>4, <3>5
      <4> HIDE DEF x, y
      <4>2. Len(x \o y) = Len(x) + Len(y) /\ Len(y) \in Nat
        BY <4>1, Join
      <4> QED BY <4>1, <4>2 DEF x, y
    <3>7. k <= Len(After(ss, i))
      <4> DEFINE a == Len(After(ss, i))
                 b == Len(ss[i+1])
                 c == Len(After(ss, i + 1))
                 d == Len(names[i+1])
      <4>1. k \in Nat /\ k - 1 <= c /\ b = d + 1 /\ d \in Nat /\ a = b + c /\ c \in Nat
        BY <3>1, <3>3, <3>5, <3>6
      <4> HIDE DEF a, b, c, d
      <4>2. k <= a
        BY <4>1
      <4> QED BY <4>2 DEF a
    <3> QED BY <3>7 DEF i
  <2> QED BY <2>1, <2>2
<1>4. n \in Right
  <2> HIDE DEF Right
  <2>1. \A k \in 0..n : (\A j \in 0..k-1 : j \in Right) => k \in Right
    BY <1>3
  <2>2. \A k \in 0..n : k \in Right
    BY <2>1, <1>1, Counting
  <2> QED BY <2>2, <1>1
<1>5. n - n = 0
  BY <1>1
<1> QED BY <1>1, <1>4, <1>5 DEF n

(* The names are read back, when they fit the buffer they are displayed from. *)
LEMMA UsersRead ==
  ASSUME NEW names \in Seq(Seq(Char) \ {<<>>}),
         Len(names) < Half, Len(Texts(names)) + 1 < UsersMax
  PROVE  ReadUsers(WriteU16(Len(names)) \o <<0, 0>> \o Texts(names))
           = [shape |-> "users", names |-> names]
<1> DEFINE ss == Terminated(names)
           n == Len(names)
           all == Texts(names)
           payload == WriteU16(n) \o <<0, 0>> \o all
<1>1. /\ n \in Nat /\ Len(ss) = n /\ ss \in Seq(Seq(Byte)) /\ all = After(ss, 0)
      /\ all \in Seq(Byte) /\ n % Half = n
  BY TextsFacts, SmallMod, Sizes
<1>2. \A i \in 1..n : names[i] \in Seq(Char) \ {<<>>} /\ ss[i] = Text(names[i])
  BY TextsFacts
<1>3. ReadU16(payload) = n /\ Rest(payload, 4) = all
  <2> DEFINE w == WriteU16(n)
             z == <<0, 0>>
  <2>1. w \in Seq(Byte) /\ Len(w) = 2 /\ \A t \in Seq(Byte) : ReadU16(w \o t) = n % Half
    BY <1>1, U16
  <2>2. z \in Seq(Byte) /\ Len(z) = 2
    BY Sizes
  <2> HIDE DEF w, z, n, all
  <2>3. w \o z \in Seq(Byte) /\ Len(w \o z) = 4
    <3>1. w \in Seq(Byte) /\ z \in Seq(Byte)
      BY <2>1, <2>2
    <3>2. w \o z \in Seq(Byte) /\ Len(w \o z) = Len(w) + Len(z)
      BY <3>1, Join
    <3> QED BY <2>1, <2>2, <3>2
  <2>4. Rest((w \o z) \o all, 4) = all
    <3>1. w \o z \in Seq(Byte) /\ all \in Seq(Byte) /\ 4 = Len(w \o z)
      BY <1>1, <2>3
    <3> QED BY <3>1, RestOf
  <2>5. (w \o z) \o all = w \o (z \o all) /\ z \o all \in Seq(Byte)
    <3>1. w \in Seq(Byte) /\ z \in Seq(Byte) /\ all \in Seq(Byte)
      BY <1>1, <2>1, <2>2
    <3>2. Regroups(w, z, all)
      BY <3>1, Associative
    <3> QED BY <3>2, <3>1, Join DEF Regroups
  <2> QED BY <2>1, <2>4, <2>5, <1>1 DEF w, z
<1> DEFINE used(k) == IF k = 0 THEN 0 ELSE Len(all) - Len(After(ss, k)) - 1
           f == [k \in 0..n |-> [names |-> SubSeq(names, 1, k), used |-> used(k), rest |-> After(ss, k)]]
           Next1(was, k) ==
             LET name == CString(was.rest)
                 use == was.used + (IF k > 1 THEN 1 ELSE 0) + Len(name)
             IN  IF name = <<>> THEN was
                 ELSE IF was.used + Len(name) + 2 >= UsersMax
                 THEN [was EXCEPT !.rest = AfterString(was.rest)]
                 ELSE [names |-> Append(was.names, name), used |-> use,
                       rest |-> AfterString(was.rest)]
           first == [names |-> <<>>, used |-> 0, rest |-> all]
           Eq(h) == h = [k \in 0..ReadU16(payload) |->
                          IF k = 0 THEN [names |-> <<>>, used |-> 0, rest |-> Rest(payload, 4)]
                          ELSE Next1(h[k-1], k)]
<1> HIDE DEF n, all, ss
<1>4. ASSUME NEW k \in 0..n PROVE After(ss, k) \in Seq(Byte) /\ Len(After(ss, k)) \in Nat
  <2>1. After(ss, k) \in Seq(Byte)
    BY <1>1, AfterFacts
  <2> QED BY <2>1
<1>5. f[0] = first
  <2>1. 0 \in 0..n /\ SubSeq(names, 1, 0) = <<>>
    BY <1>1
  <2> QED BY <2>1, <1>1
<1>6. ASSUME NEW k \in 1..n PROVE f[k] = Next1(f[k-1], k)
  <2> DEFINE was == f[k-1]
             name == names[k]
  <2>1. k - 1 \in 0..n /\ (k - 1) + 1 = k /\ k \in Nat /\ k - 1 \in 0..Len(ss)-1 /\ k \in 0..n
    BY <1>1
  <2>2. was.names = SubSeq(names, 1, k - 1) /\ was.used = used(k - 1) /\ was.rest = After(ss, k - 1)
    BY <2>1
  <2>3. After(ss, k - 1) = Text(name) \o After(ss, k)
    <3>1. After(ss, k - 1) = ss[(k - 1) + 1] \o After(ss, (k - 1) + 1)
      BY <1>1, <2>1, AfterFacts
    <3> QED BY <3>1, <2>1, <1>2
  <2>4. name \in Seq(Char) /\ name # <<>> /\ Len(name) \in Nat
    BY <1>2
  <2>5. CString(was.rest) = name /\ AfterString(was.rest) = After(ss, k)
    <3>1. After(ss, k) \in Seq(Byte)
      BY <1>4
    <3>2. was.rest = Text(name) \o After(ss, k)
      BY <2>2, <2>3
    <3> HIDE DEF f, name, was
    <3>3. /\ CString(Text(name) \o After(ss, k)) = name
          /\ AfterString(Text(name) \o After(ss, k)) = After(ss, k)
      BY <3>1, <2>4, ReadText
    <3> QED BY <3>2, <3>3
  <2>6. Len(After(ss, k - 1)) = Len(name) + 1 + Len(After(ss, k))
    <3>1. Text(name) \in Seq(Byte) /\ Len(Text(name)) = Len(name) + 1
      BY <2>4, TextFacts
    <3>2. After(ss, k) \in Seq(Byte)
      BY <1>4
    <3> HIDE DEF name
    <3>3. Len(Text(name) \o After(ss, k)) = Len(Text(name)) + Len(After(ss, k))
      BY <3>1, <3>2, Join
    <3> QED BY <3>1, <3>3, <2>3
  <2>7. k = 1 => After(ss, k - 1) = all
    BY <1>1
  <2>8. /\ was.used + (IF k > 1 THEN 1 ELSE 0) + Len(name) = used(k)
        /\ ~(was.used + Len(name) + 2 >= UsersMax)
    <3> DEFINE A == Len(all)
               B == Len(After(ss, k - 1))
               C == Len(After(ss, k))
               L == Len(name)
    <3>1. A \in Nat /\ B \in Nat /\ C \in Nat /\ L \in Nat /\ B = L + 1 + C /\ UsersMax \in Nat
          /\ A + 1 < UsersMax /\ (k = 1 => B = A)
      <4>1. A \in Nat /\ UsersMax \in Nat /\ A + 1 < UsersMax
        BY <1>1, CodecAssumption DEF all
      <4> QED BY <4>1, <1>4, <2>1, <2>4, <2>6, <2>7
    <3>2. was.used = (IF k = 1 THEN 0 ELSE A - B - 1) /\ used(k) = A - C - 1
      BY <2>1, <2>2
    <3> HIDE DEF A, B, C, L, was, used
    <3>3. was.used + (IF k > 1 THEN 1 ELSE 0) + L = used(k)
      BY <3>1, <3>2
    <3>4. ~(was.used + L + 2 >= UsersMax)
      BY <3>1, <3>2
    <3> QED BY <3>3, <3>4 DEF L
  <2>9. Append(SubSeq(names, 1, k - 1), name) = SubSeq(names, 1, k)
    <3> DEFINE T == Seq(Char) \ {<<>>}
    <3>1. SubSeq(names, 1, k - 1) \in Seq(T) /\ Len(SubSeq(names, 1, k - 1)) = k - 1
      BY <2>1 DEF n
    <3>2. SubSeq(names, 1, k) \in Seq(T) /\ Len(SubSeq(names, 1, k)) = k
      BY <2>1 DEF n
    <3>3. \A i \in 1..k-1 : SubSeq(names, 1, k - 1)[i] = names[i]
      BY <2>1 DEF n
    <3>4. \A i \in 1..k : SubSeq(names, 1, k)[i] = names[i]
      BY <2>1 DEF n
    <3> DEFINE s == SubSeq(names, 1, k - 1)
               t == SubSeq(names, 1, k)
               u == Append(s, name)
    <3>5. name \in T
      BY <1>2
    <3> HIDE DEF s, t, T, name
    <3>6. u \in Seq(T) /\ Len(u) = k
      BY <3>1, <3>5, <2>1, Longer DEF s
    <3>7. ASSUME NEW i \in 1..k PROVE u[i] = t[i]
      <4>1. CASE i \in 1..k-1
        BY <4>1, <3>1, <3>3, <3>4 DEF s, t
      <4>2. CASE i = k
        BY <4>2, <3>1, <3>4, <2>1 DEF s, t, name
      <4>3. i \in 1..k-1 \/ i = k
        BY <2>1
      <4> QED BY <4>1, <4>2, <4>3
    <3>8. t \in Seq(T) /\ Len(t) = k
      BY <3>2 DEF t
    <3> HIDE DEF u
    <3>9. u = t
      BY <3>6, <3>7, <3>8, SeqEqual
    <3> QED BY <3>9 DEF u, s, t
  <2>10. Next1(was, k) = [names |-> Append(was.names, name), used |-> used(k), rest |-> After(ss, k)]
    <3> HIDE DEF f, used, name
    <3> QED BY <2>4, <2>5, <2>8
  <2>11. f[k] = [names |-> SubSeq(names, 1, k), used |-> used(k), rest |-> After(ss, k)]
    BY <2>1
  <2> HIDE DEF f, used, Next1, name
  <2> QED BY <2>2, <2>9, <2>10, <2>11
<1>7. Eq(f)
  <2> DEFINE g1 == [k \in 0..n |-> IF k = 0 THEN first ELSE Next1(f[k-1], k)]
  <2>1. \A k \in 0..n : f[k] = IF k = 0 THEN first ELSE Next1(f[k-1], k)
    <3> HIDE DEF f, Next1, first
    <3> QED BY <1>1, <1>5, <1>6
  <2>2. f = [k \in 0..n |-> f[k]]
    OBVIOUS
  <2>3. f = [k \in 0..n |-> IF k = 0 THEN first ELSE Next1(f[k-1], k)]
    <3> HIDE DEF f, Next1, first
    <3> QED BY <2>1, <2>2
  <2> HIDE DEF f, Next1, payload
  <2> QED BY <2>3, <1>3
<1> DEFINE g == CHOOSE h : Eq(h)
<1>8. Eq(g)
  <2> HIDE DEF Eq
  <2> QED BY <1>7
<1>9. \A k \in 0..n : g[k] = IF k = 0 THEN first ELSE Next1(g[k-1], k)
  <2>1. g = [k \in 0..n |-> IF k = 0 THEN first ELSE Next1(g[k-1], k)]
    <3> HIDE DEF g, Next1, payload
    <3> QED BY <1>3, <1>8
  <2> HIDE DEF g, Next1, first
  <2> QED BY <2>1
<1>10. ReadUsers(payload) = [shape |-> "users", names |-> g[n].names]
  <2>1. ReadUsers(payload) = [shape |-> "users", names |-> g[ReadU16(payload)].names]
    <3> HIDE DEF payload
    <3> QED BY DEF ReadUsers
  <2> HIDE DEF payload, g
  <2> QED BY <2>1, <1>3
<1>11. f[n].names = names
  <2>1. n \in 0..n /\ SubSeq(names, 1, n) = names
    BY <1>1 DEF n
  <2> QED BY <2>1
<1> DEFINE Same == {k \in 0..n : g[k] = f[k]}
<1> HIDE DEF g, f, Next1, first, payload
<1>12. ASSUME NEW k \in 0..n, \A j \in 0..k-1 : j \in Same PROVE k \in Same
  <2>1. CASE k = 0
    BY <2>1, <1>5, <1>9
  <2>2. CASE k # 0
    <3>1. k \in 1..n /\ k - 1 \in 0..k-1
      BY <2>2, <1>1
    <3>2. k - 1 \in Same
      <4> HIDE DEF Same
      <4> QED BY <3>1, <1>12
    <3>3. g[k] = Next1(g[k-1], k) /\ f[k] = Next1(f[k-1], k)
      BY <3>1, <2>2, <1>6, <1>9
    <3> QED BY <3>2, <3>3
  <2> QED BY <2>1, <2>2
<1>13. g[n] = f[n]
  <2> HIDE DEF Same
  <2>1. \A k \in 0..n : (\A j \in 0..k-1 : j \in Same) => k \in Same
    BY <1>12
  <2>2. \A k \in 0..n : k \in Same
    BY <2>1, <1>1, Counting
  <2>3. n \in Same
    BY <2>2, <1>1
  <2> QED BY <2>3 DEF Same
<1> QED BY <1>10, <1>11, <1>13 DEF payload, n, all

-----------------------------------------------------------------------------
(* Reading what was built, shape by shape. *)

NoBytes == <<>>

LEMMA ReadEmpty ==
  ASSUME NEW m, Fits(m), m.shape = "empty"
  PROVE  Payload(m) \in Seq(Byte) /\ Read(TypeByte(m.shape), Payload(m)) = m
<1>1. m = [shape |-> "empty"]
  BY DEF Fits
<1>2. Payload(m) = <<>>
  BY <1>1 DEF Payload
<1> QED BY <1>1, <1>2 DEF Read, TypeByte

LEMMA ReadTextMessage ==
  ASSUME NEW m, Fits(m), m.shape = "text"
  PROVE  Payload(m) \in Seq(Byte) /\ Read(TypeByte(m.shape), Payload(m)) = m
<1>1. m = [shape |-> "text", text |-> m.text] /\ m.text \in Seq(Char)
  BY DEF Fits
<1>2. Payload(m) = Text(m.text)
  BY <1>1 DEF Payload
<1>3. Text(m.text) \in Seq(Byte) /\ CString(Text(m.text)) = m.text
  BY <1>1, TextFacts, ReadLast
<1>4. \A p : Read(1, p) = [shape |-> "text", text |-> CString(p)]
  BY DEF Read, TypeByte
<1>5. TypeByte("text") = 1
  BY DEF TypeByte
<1> QED BY <1>1, <1>2, <1>3, <1>4, <1>5

LEMMA ReadPairMessage ==
  ASSUME NEW m, Fits(m), m.shape = "pair"
  PROVE  Payload(m) \in Seq(Byte) /\ Read(TypeByte(m.shape), Payload(m)) = m
<1>1. /\ m = [shape |-> "pair", first |-> m.first, second |-> m.second]
      /\ m.first \in Seq(Char) /\ m.second \in Seq(Char)
  BY DEF Fits
<1>2. Payload(m) = Text(m.first) \o Text(m.second)
  BY <1>1 DEF Payload
<1>3. Text(m.first) \in Seq(Byte) /\ Text(m.second) \in Seq(Byte)
  BY <1>1, TextFacts
<1>4. /\ CString(Text(m.first) \o Text(m.second)) = m.first
      /\ AfterString(Text(m.first) \o Text(m.second)) = Text(m.second)
      /\ CString(Text(m.second)) = m.second
  BY <1>1, <1>3, ReadText, ReadLast
<1>5. \A p : Read(2, p) = ReadPair(p)
  BY DEF Read, TypeByte
<1>6. TypeByte("pair") = 2
  BY DEF TypeByte
<1>7. Payload(m) \in Seq(Byte)
  BY <1>2, <1>3, Join
<1> QED BY <1>1, <1>2, <1>4, <1>5, <1>6, <1>7 DEF ReadPair

(* The INIT frame: two names and a number in digits. *)
LEMMA ReadInitMessage ==
  ASSUME NEW m, Fits(m), m.shape = "init"
  PROVE  Payload(m) \in Seq(Byte) /\ Read(TypeByte(m.shape), Payload(m)) = m
<1> DEFINE a == m.sender
           b == m.file
           d == Decimal(m.size)
           second == Text(b) \o Text(d)
           all == Text(a) \o second
<1>1. /\ m = [shape |-> "init", sender |-> a, file |-> b, size |-> m.size]
      /\ a \in Seq(Char) /\ b \in Seq(Char) /\ m.size \in 0..MaxSize
      /\ Len(a) \in 1..NameMax /\ Len(b) \in 1..NameMax
  BY DEF Fits
<1>2. d \in Seq(Char) /\ d # <<>> /\ ParseNumber(d) = m.size
  BY <1>1, DecimalReads
<1>3. /\ Text(a) \in Seq(Byte) /\ Text(b) \in Seq(Byte) /\ Text(d) \in Seq(Byte)
      /\ Len(Text(a)) = Len(a) + 1 /\ Len(Text(b)) = Len(b) + 1 /\ Len(Text(d)) = Len(d) + 1
  BY <1>1, <1>2, TextFacts
<1>4. Payload(m) = all
  <2>1. Payload(m) = Text(a) \o Text(b) \o Text(d)
    BY <1>1 DEF Payload
  <2>2. (Text(a) \o Text(b)) \o Text(d) = Text(a) \o (Text(b) \o Text(d))
    <3>1. Regroups(Text(a), Text(b), Text(d))
      BY <1>3, Associative
    <3> QED BY <3>1 DEF Regroups
  <2> QED BY <2>1, <2>2
<1>5. second \in Seq(Byte) /\ Len(second) = Len(Text(b)) + Len(Text(d))
  <2>1. Text(b) \in Seq(Byte) /\ Text(d) \in Seq(Byte)
    BY <1>3
  <2> QED BY <2>1, Join
<1>6. all \in Seq(Byte) /\ Len(all) = Len(Text(a)) + Len(second)
  <2>1. Text(a) \in Seq(Byte) /\ second \in Seq(Byte)
    BY <1>3, <1>5
  <2> HIDE DEF second
  <2> QED BY <2>1, Join
<1>7. Len(all) # 4
  <2>1. Len(d) \in Nat /\ Len(d) # 0
    BY <1>2
  <2> DEFINE x == Len(a)
             y == Len(b)
             z == Len(d)
  <2>2. x \in Nat /\ y \in Nat /\ z \in Nat /\ x >= 1 /\ y >= 1 /\ z >= 1
        /\ Len(all) = x + 1 + (y + 1 + (z + 1))
    <3>1. x \in 1..NameMax /\ y \in 1..NameMax /\ NameMax \in Nat
      BY <1>1, CodecAssumption
    <3>2. Len(Text(a)) = x + 1 /\ Len(Text(b)) = y + 1 /\ Len(Text(d)) = z + 1
      BY <1>3
    <3>3. Len(second) = Len(Text(b)) + Len(Text(d)) /\ Len(all) = Len(Text(a)) + Len(second)
      BY <1>5, <1>6
    <3>4. z \in Nat /\ z # 0
      BY <2>1
    <3> HIDE DEF x, y, z, second, all
    <3> QED BY <3>1, <3>2, <3>3, <3>4
  <2> HIDE DEF x, y, z, all
  <2> QED BY <2>2
<1>8. Nuls(all) # {} /\ CString(all) = a /\ AfterString(all) = second
  <2> HIDE DEF second, a
  <2> QED BY <1>1, <1>5, ReadText
<1>9. Nuls(second) # {} /\ CString(second) = b /\ AfterString(second) = Text(d)
  <2> HIDE DEF b, d
  <2> QED BY <1>1, <1>3, ReadText
<1>10. Nuls(Text(d)) # {} /\ CString(Text(d)) = d
  BY <1>2, ReadLast
<1> HIDE DEF all, second, d, a, b
<1>11. m.size # NaN
  BY <1>1, DecimalConstants DEF NaN
<1>12. ReadInit(all) = [shape |-> "init", sender |-> a, file |-> b, size |-> m.size]
  BY <1>1, <1>2, <1>8, <1>9, <1>10, <1>11 DEF ReadInit
<1>13. \A p : Read(3, p) = IF Len(p) = 4 THEN Ignored ELSE ReadInit(p)
  BY DEF Read, TypeByte
<1>14. TypeByte(m.shape) = 3
  BY DEF TypeByte
<1> QED BY <1>1, <1>4, <1>6, <1>7, <1>12, <1>13, <1>14

LEMMA WordReads ==
  ASSUME NEW n \in 0..Word-1
  PROVE  /\ n \in Nat /\ n % Word = n
         /\ WriteU32(n) \in Seq(Byte) /\ Len(WriteU32(n)) = 4 /\ ReadU32(WriteU32(n)) = n
<1>1. n \in Nat /\ n < Word /\ Word \in Nat
  BY Sizes
<1>2. n % Word = n
  BY <1>1, SmallMod
<1> DEFINE w == WriteU32(n)
<1>3. NoBytes \in Seq(Byte)
  BY DEF NoBytes
<1>4. w \in Seq(Byte) /\ Len(w) = 4 /\ ReadU32(w \o NoBytes) = n
  BY <1>1, <1>2, <1>3, U32
<1>5. w \o NoBytes = w
  <2> HIDE DEF w
  <2> QED BY <1>4 DEF NoBytes
<1> QED BY <1>1, <1>2, <1>4, <1>5

LEMMA ReadTidMessage ==
  ASSUME NEW m, Fits(m), m.shape = "tid"
  PROVE  Payload(m) \in Seq(Byte) /\ Read(TypeByte(m.shape), Payload(m)) = m
<1>1. m = [shape |-> "tid", tid |-> m.tid] /\ m.tid \in 0..Word-1
  BY DEF Fits
<1>2. Payload(m) = WriteU32(m.tid)
  BY <1>1 DEF Payload
<1>3. /\ WriteU32(m.tid) \in Seq(Byte) /\ Len(WriteU32(m.tid)) = 4
      /\ ReadU32(WriteU32(m.tid)) = m.tid
  BY <1>1, WordReads
<1>4. \A p : Read(4, p) = ReadTid(p)
  BY DEF Read, TypeByte
<1>5. TypeByte(m.shape) = 4
  BY DEF TypeByte
<1>6. ReadTid(Payload(m)) = [shape |-> "tid", tid |-> m.tid]
  BY <1>2, <1>3 DEF ReadTid
<1> QED BY <1>1, <1>2, <1>3, <1>4, <1>5, <1>6

(* The chunk: the head is numbers, all the rest is data. *)
LEMMA ReadChunkMessage ==
  ASSUME NEW m, Fits(m), m.shape = "chunk"
  PROVE  Payload(m) \in Seq(Byte) /\ Read(TypeByte(m.shape), Payload(m)) = m
<1> DEFINE a == WriteU32(m.tid)
           b == WriteU64(m.offset)
           c == m.data
<1>1. /\ m = [shape |-> "chunk", tid |-> m.tid, offset |-> m.offset, data |-> c]
      /\ m.tid \in 0..Word-1 /\ m.offset \in 0..Word*Word-1 /\ c \in Seq(Byte)
  BY DEF Fits
<1>2. Payload(m) = a \o b \o c
  BY <1>1 DEF Payload
<1>3. m.tid \in Nat /\ m.tid % Word = m.tid
  BY <1>1, WordReads
<1>4. m.offset \in Nat /\ m.offset % (Word * Word) = m.offset
  <2>1. Word * Word \in Nat
    BY Sizes
  <2>2. m.offset \in Nat /\ m.offset < Word * Word
    BY <1>1, <2>1
  <2> HIDE DEF c
  <2> QED BY <2>1, <2>2, SmallMod
<1>5. a \in Seq(Byte) /\ Len(a) = 4 /\ \A r \in Seq(Byte) : ReadU32(a \o r) = m.tid
  <2>1. NoBytes \in Seq(Byte)
    BY DEF NoBytes
  <2>2. a \in Seq(Byte) /\ Len(a) = 4
    BY <2>1, <1>3, U32
  <2>3. ASSUME NEW r \in Seq(Byte) PROVE ReadU32(a \o r) = m.tid
    BY <1>3, U32
  <2> QED BY <2>2, <2>3
<1>6. b \in Seq(Byte) /\ Len(b) = 8 /\ \A r \in Seq(Byte) : ReadU64(b \o r) = m.offset
  <2>1. NoBytes \in Seq(Byte)
    BY DEF NoBytes
  <2>2. b \in Seq(Byte) /\ Len(b) = 8
    BY <2>1, <1>4, U64
  <2>3. ASSUME NEW r \in Seq(Byte) PROVE ReadU64(b \o r) = m.offset
    BY <1>4, U64
  <2> QED BY <2>2, <2>3
<1> HIDE DEF a, b, c
<1>7. b \o c \in Seq(Byte) /\ Len(b \o c) = Len(b) + Len(c) /\ a \o b \in Seq(Byte)
      /\ Len(a \o b) = Len(a) + Len(b)
  <2>1. a \in Seq(Byte) /\ b \in Seq(Byte) /\ c \in Seq(Byte)
    BY <1>1, <1>5, <1>6
  <2> QED BY <2>1, Join
<1>8. (a \o b) \o c = a \o (b \o c)
  <2>1. a \in Seq(Byte) /\ b \in Seq(Byte) /\ c \in Seq(Byte)
    BY <1>1, <1>5, <1>6
  <2>2. Regroups(a, b, c)
    BY <2>1, Associative
  <2> QED BY <2>2 DEF Regroups
<1> DEFINE p == (a \o b) \o c
<1>9. p \in Seq(Byte) /\ Len(p) = Len(a \o b) + Len(c)
  <2>1. a \o b \in Seq(Byte) /\ c \in Seq(Byte)
    BY <1>1, <1>7
  <2> DEFINE ab == a \o b
  <2> HIDE DEF ab
  <2>2. ab \o c \in Seq(Byte) /\ Len(ab \o c) = Len(ab) + Len(c)
    BY <2>1, Join DEF ab
  <2> QED BY <2>2 DEF ab
<1>10. ~(Len(p) < 12)
  <2> DEFINE x == Len(c)
             y == Len(p)
  <2>1. x \in Nat
    BY <1>1
  <2>2. y = 12 + x
    BY <1>5, <1>6, <1>7, <1>9, <2>1
  <2> HIDE DEF x, y
  <2>3. ~(y < 12)
    BY <2>1, <2>2
  <2> QED BY <2>3 DEF y
<1>11. ReadU32(p) = m.tid
  BY <1>5, <1>7, <1>8
<1>12. Rest(p, 4) = b \o c
  <2>1. a \in Seq(Byte) /\ b \o c \in Seq(Byte) /\ 4 = Len(a)
    BY <1>5, <1>7
  <2>2. Rest(a \o (b \o c), 4) = b \o c
    BY <2>1, RestOf
  <2> QED BY <2>2, <1>8
<1>13. ReadU64(Rest(p, 4)) = m.offset
  BY <1>1, <1>6, <1>12
<1>14. Rest(p, 12) = c
  <2> DEFINE ab == a \o b
  <2>1. ab \in Seq(Byte) /\ c \in Seq(Byte) /\ 12 = Len(ab)
    BY <1>1, <1>5, <1>6, <1>7
  <2> HIDE DEF ab
  <2>2. Rest(ab \o c, 12) = c
    <3> DEFINE n == Len(ab)
    <3>1. n = Len(ab)
      OBVIOUS
    <3> HIDE DEF n
    <3>2. Rest(ab \o c, n) = c
      BY <2>1, <3>1, RestOf
    <3> QED BY <2>1, <3>1, <3>2
  <2> QED BY <2>2 DEF ab
<1> HIDE DEF p
<1>15. ReadChunk(p) = [shape |-> "chunk", tid |-> m.tid, offset |-> m.offset, data |-> c]
  BY <1>10, <1>11, <1>13, <1>14 DEF ReadChunk
<1>16. \A q : Read(5, q) = ReadChunk(q)
  BY DEF Read, TypeByte
<1>17. TypeByte(m.shape) = 5
  BY DEF TypeByte
<1>18. Payload(m) = p
  BY <1>2 DEF p
<1> QED BY <1>1, <1>9, <1>15, <1>16, <1>17, <1>18

LEMMA ReadErrorMessage ==
  ASSUME NEW m, Fits(m), m.shape = "error"
  PROVE  Payload(m) \in Seq(Byte) /\ Read(TypeByte(m.shape), Payload(m)) = m
<1> DEFINE a == WriteU16(m.code)
           z == <<0>>
           t == Text(m.text)
           az == a \o z
           p == az \o t
<1>1. /\ m = [shape |-> "error", code |-> m.code, text |-> m.text]
      /\ m.code \in 0..Half-1 /\ m.text \in Seq(Char)
  BY DEF Fits
<1>2. Payload(m) = p
  BY <1>1 DEF Payload
<1>3. m.code \in Nat /\ m.code % Half = m.code
  <2>1. m.code \in Nat /\ m.code < Half /\ Half \in Nat
    BY <1>1, Sizes
  <2> QED BY <2>1, SmallMod
<1>4. a \in Seq(Byte) /\ Len(a) = 2 /\ \A r \in Seq(Byte) : ReadU16(a \o r) = m.code
  <2>1. NoBytes \in Seq(Byte)
    BY DEF NoBytes
  <2>2. a \in Seq(Byte) /\ Len(a) = 2
    BY <2>1, <1>3, U16
  <2>3. ASSUME NEW r \in Seq(Byte) PROVE ReadU16(a \o r) = m.code
    BY <1>3, U16
  <2> QED BY <2>2, <2>3
<1>5. z \in Seq(Byte) /\ Len(z) = 1
  BY Sizes
<1>6. t \in Seq(Byte) /\ CString(t) = m.text
  BY <1>1, TextFacts, ReadLast
<1> HIDE DEF a, z, t
<1>7. az \in Seq(Byte) /\ Len(az) = 3
  <2>1. a \in Seq(Byte) /\ z \in Seq(Byte)
    BY <1>4, <1>5
  <2>2. az \in Seq(Byte) /\ Len(az) = Len(a) + Len(z)
    BY <2>1, Join
  <2> QED BY <2>2, <1>4, <1>5
<1>8. p = a \o (z \o t) /\ z \o t \in Seq(Byte)
  <2>1. a \in Seq(Byte) /\ z \in Seq(Byte) /\ t \in Seq(Byte)
    BY <1>4, <1>5, <1>6
  <2>3. Regroups(a, z, t)
    BY <2>1, Associative
  <2> QED BY <2>3, <2>1, Join DEF Regroups
<1>9. ReadU16(p) = m.code
  BY <1>4, <1>8
<1> HIDE DEF az
<1>10. p \in Seq(Byte) /\ Len(p) = 3 + Len(t) /\ Len(t) \in Nat
  <2>1. az \in Seq(Byte) /\ t \in Seq(Byte)
    BY <1>6, <1>7
  <2>2. p \in Seq(Byte) /\ Len(p) = Len(az) + Len(t) /\ Len(t) \in Nat
    BY <2>1, Join
  <2> QED BY <2>2, <1>7
<1>11. Rest(p, 3) = t
  <2>1. az \in Seq(Byte) /\ t \in Seq(Byte) /\ 3 = Len(az)
    BY <1>6, <1>7
  <2> DEFINE n == Len(az)
  <2>2. n = Len(az)
    OBVIOUS
  <2> HIDE DEF n
  <2>3. Rest(az \o t, n) = t
    BY <2>1, <2>2, RestOf
  <2> QED BY <2>1, <2>2, <2>3
<1> HIDE DEF p
<1>12. ReadError(p) = [shape |-> "error", code |-> m.code, text |-> m.text]
  <2>1. ~(Len(p) < 3)
    BY <1>10
  <2> QED BY <2>1, <1>6, <1>9, <1>11 DEF ReadError
<1>13. \A q : Read(6, q) = ReadError(q)
  BY DEF Read, TypeByte
<1>14. TypeByte(m.shape) = 6
  BY DEF TypeByte
<1> QED BY <1>1, <1>2, <1>10, <1>12, <1>13, <1>14

(* The list of users: the loop of ui_display_online_users. *)
LEMMA ReadUsersMessage ==
  ASSUME NEW m, Fits(m), m.shape = "users"
  PROVE  Payload(m) \in Seq(Byte) /\ Read(TypeByte(m.shape), Payload(m)) = m
<1> DEFINE names == m.names
           w == WriteU16(Len(names))
           z == <<0, 0>>
           t == Texts(names)
           wz == w \o z
           p == wz \o t
<1>1. /\ m = [shape |-> "users", names |-> names]
      /\ names \in Seq(Seq(Char) \ {<<>>}) /\ Len(t) + 1 < UsersMax /\ Len(Payload(m)) < Half
  BY DEF Fits
<1>2. Payload(m) = p
  BY <1>1 DEF Payload
<1>3. t \in Seq(Byte) /\ Len(names) <= Len(t) /\ Len(names) \in Nat /\ Len(t) \in Nat
  BY <1>1, TextsFacts, TextsLength
<1>4. wz \in Seq(Byte) /\ Len(wz) = 4
  <2>1. w \in Seq(Byte) /\ Len(w) = 2 /\ z \in Seq(Byte) /\ Len(z) = 2
    BY <1>3, U16, Sizes
  <2>2. w \in Seq(Byte) /\ z \in Seq(Byte)
    BY <2>1
  <2> HIDE DEF w, z
  <2>3. wz \in Seq(Byte) /\ Len(wz) = Len(w) + Len(z)
    BY <2>2, Join
  <2> QED BY <2>1, <2>3
<1>5. p \in Seq(Byte) /\ Len(p) = 4 + Len(t)
  <2>1. wz \in Seq(Byte) /\ t \in Seq(Byte)
    BY <1>3, <1>4
  <2> HIDE DEF wz, t
  <2>2. p \in Seq(Byte) /\ Len(p) = Len(wz) + Len(t)
    BY <2>1, Join
  <2> QED BY <2>2, <1>4
<1>6. Len(names) < Half
  <2> DEFINE x == Len(names)
             y == Len(t)
             q == Len(p)
  <2>1. x \in Nat /\ y \in Nat /\ x <= y /\ q = 4 + y /\ q < Half /\ Half \in Nat
    BY <1>1, <1>2, <1>3, <1>5, Sizes
  <2> HIDE DEF x, y, q
  <2>2. x < Half
    BY <2>1
  <2> QED BY <2>2 DEF x
<1>7. ReadUsers(p) = [shape |-> "users", names |-> names]
  <2> HIDE DEF names
  <2> QED BY <1>1, <1>6, UsersRead
<1> HIDE DEF p
<1>8. \A q : Read(7, q) = ReadUsers(q)
  BY DEF Read, TypeByte
<1>9. TypeByte(m.shape) = 7
  BY DEF TypeByte
<1> QED BY <1>1, <1>2, <1>5, <1>7, <1>8, <1>9

(* The handlers read exactly the message the peer meant. *)
THEOREM ReadersUndoBuilders ==
  ASSUME NEW m, Fits(m)
  PROVE  Payload(m) \in Seq(Byte) /\ Read(TypeByte(m.shape), Payload(m)) = m
<1>1. m.shape \in Shape
  BY DEF Fits, Shape
<1> QED BY <1>1, ReadEmpty, ReadTextMessage, ReadPairMessage, ReadInitMessage, ReadTidMessage,
           ReadChunkMessage, ReadErrorMessage, ReadUsersMessage DEF Shape

-----------------------------------------------------------------------------
(* Frames in the stream. *)

FrameHead(m) == Magic \o <<TypeByte(m.shape)>> \o WriteU16(Len(Payload(m)))

(* A frame that fits its fields is a header and its payload. *)
LEMMA HeadFacts ==
  ASSUME NEW m, Fits(m)
  PROVE  /\ Payload(m) \in Seq(Byte) /\ Len(Payload(m)) \in Nat /\ Len(Payload(m)) < Half
         /\ Magic \in Seq(Byte) /\ Len(Magic) = 2
         /\ <<TypeByte(m.shape)>> \in Seq(Byte) /\ Len(<<TypeByte(m.shape)>>) = 1
         /\ WriteU16(Len(Payload(m))) \in Seq(Byte) /\ Len(WriteU16(Len(Payload(m)))) = 2
         /\ FrameHead(m) \in Seq(Byte) /\ Len(FrameHead(m)) = HeaderSize
         /\ Build(m) = FrameHead(m) \o Payload(m)
         /\ Build(m) \in Seq(Byte) /\ Len(Build(m)) = HeaderSize + Len(Payload(m))
<1> DEFINE p == Payload(m)
           L == Len(p)
           z == <<TypeByte(m.shape)>>
           w == WriteU16(L)
<1>1. p \in Seq(Byte) /\ L \in Nat /\ L < Half
  <2>1. p \in Seq(Byte) /\ L < Half
    BY ReadersUndoBuilders DEF Fits
  <2> QED BY <2>1
<1>2. Magic \in Seq(Byte) /\ Len(Magic) = 2
  <2>1. PICK a \in Byte, b \in Byte : Magic = <<a, b>>
    BY CodecAssumption
  <2> QED BY <2>1
<1>3. z \in Seq(Byte) /\ Len(z) = 1
  <2>1. m.shape \in Shape
    BY DEF Fits, Shape
  <2>2. TypeByte(m.shape) \in 0..7
    BY <2>1 DEF TypeByte, Shape
  <2>3. TypeByte(m.shape) \in Byte
    BY <2>2, CodecAssumption DEF Byte
  <2> QED BY <2>3
<1>4. w \in Seq(Byte) /\ Len(w) = 2
  <2>1. NoBytes \in Seq(Byte)
    BY DEF NoBytes
  <2> HIDE DEF L
  <2> QED BY <1>1, <2>1, U16
<1>5. FrameHead(m) = (Magic \o z) \o w
  BY DEF FrameHead
<1> DEFINE mz == Magic \o z
<1>6. mz \in Seq(Byte) /\ Len(mz) = 3
  <2>1. Magic \in Seq(Byte) /\ z \in Seq(Byte)
    BY <1>2, <1>3
  <2> HIDE DEF z
  <2>2. mz \in Seq(Byte) /\ Len(mz) = Len(Magic) + Len(z)
    BY <2>1, Join
  <2> QED BY <2>2, <1>2, <1>3
<1>7. FrameHead(m) \in Seq(Byte) /\ Len(FrameHead(m)) = HeaderSize
  <2>1. mz \in Seq(Byte) /\ w \in Seq(Byte)
    BY <1>4, <1>6
  <2> HIDE DEF mz, w
  <2>2. mz \o w \in Seq(Byte) /\ Len(mz \o w) = Len(mz) + Len(w)
    BY <2>1, Join
  <2> QED BY <2>2, <1>4, <1>5, <1>6 DEF mz, HeaderSize
<1>8. Build(m) = FrameHead(m) \o p
  <2>1. L % Half = L
    <3> HIDE DEF L
    <3> QED BY <1>1, SmallMod, Sizes
  <2>2. SubSeq(p, 1, L) = p
    <3> HIDE DEF p
    <3> QED BY <1>1
  <2>3. Build(m) = Magic \o z \o WriteU16(L % Half)
                   \o (IF m.shape \in {"empty", "text", "tid"} THEN SubSeq(p, 1, L % Half) ELSE p)
    BY DEF Build
  <2> HIDE DEF p, z
  <2> QED BY <2>1, <2>2, <2>3, <1>5
<1>9. Build(m) \in Seq(Byte) /\ Len(Build(m)) = HeaderSize + L
  <2> DEFINE f == FrameHead(m)
  <2>1. f \in Seq(Byte) /\ p \in Seq(Byte)
    BY <1>1, <1>7
  <2> HIDE DEF f, p
  <2>2. f \o p \in Seq(Byte) /\ Len(f \o p) = Len(f) + Len(p)
    BY <2>1, Join
  <2> QED BY <2>2, <1>7, <1>8 DEF f
<1> QED BY <1>1, <1>2, <1>3, <1>4, <1>7, <1>8, <1>9

(* What the parser finds at the head of a buffer that starts with a frame. *)
LEMMA ParseHead ==
  ASSUME NEW m, Fits(m), NEW r \in Seq(Byte)
  PROVE  /\ Len(FrameHead(m) \o r) = HeaderSize + Len(r)
         /\ SubSeq(FrameHead(m) \o r, 1, 2) = Magic
         /\ (FrameHead(m) \o r)[3] = TypeByte(m.shape)
         /\ ReadU16(Rest(FrameHead(m) \o r, 3)) = Len(Payload(m))
<1> DEFINE L == Len(Payload(m))
           z == <<TypeByte(m.shape)>>
           w == WriteU16(L)
           mz == Magic \o z
           b == FrameHead(m) \o r
<1>1. /\ L \in Nat /\ L < Half /\ Magic \in Seq(Byte) /\ Len(Magic) = 2
      /\ z \in Seq(Byte) /\ Len(z) = 1 /\ w \in Seq(Byte) /\ Len(w) = 2
      /\ FrameHead(m) \in Seq(Byte) /\ Len(FrameHead(m)) = HeaderSize
  BY HeadFacts
<1>2. z[1] = TypeByte(m.shape)
  OBVIOUS
<1>3. b = (mz \o w) \o r
  BY DEF FrameHead
<1>4. Len(b) = HeaderSize + Len(r)
  <2> DEFINE f == FrameHead(m)
  <2>1. f \in Seq(Byte)
    BY <1>1
  <2> HIDE DEF f
  <2>2. Len(f \o r) = Len(f) + Len(r)
    BY <2>1, Join
  <2> QED BY <2>2, <1>1 DEF f
<1>5. ReadU16(w \o r) = L
  <2>1. L % Half = L
    <3> HIDE DEF L
    <3> QED BY <1>1, SmallMod, Sizes
  <2> HIDE DEF L
  <2> QED BY <1>1, <2>1, U16
<1> HIDE DEF L, z, w, b
<1>6. mz \in Seq(Byte) /\ Len(mz) = 3
  <2>1. Magic \in Seq(Byte) /\ z \in Seq(Byte)
    BY <1>1
  <2>2. mz \in Seq(Byte) /\ Len(mz) = Len(Magic) + Len(z)
    BY <2>1, Join
  <2> QED BY <2>2, <1>1
<1>7. w \o r \in Seq(Byte) /\ z \o (w \o r) \in Seq(Byte)
  <2>1. w \in Seq(Byte) /\ z \in Seq(Byte)
    BY <1>1
  <2>2. w \o r \in Seq(Byte)
    BY <2>1, Join
  <2> QED BY <2>1, <2>2, Join
<1>8. b = mz \o (w \o r)
  <2>1. mz \in Seq(Byte) /\ w \in Seq(Byte)
    BY <1>1, <1>6
  <2> HIDE DEF mz
  <2>2. (mz \o w) \o r = mz \o (w \o r)
    <3>1. Regroups(mz, w, r)
      BY <2>1, Associative
    <3> QED BY <3>1 DEF Regroups
  <2> QED BY <2>2, <1>3
<1>9. b = Magic \o (z \o (w \o r))
  <2> DEFINE v == w \o r
  <2>1. Magic \in Seq(Byte) /\ z \in Seq(Byte) /\ v \in Seq(Byte)
    BY <1>1, <1>7
  <2> HIDE DEF v
  <2>2. (Magic \o z) \o v = Magic \o (z \o v)
    <3>1. Regroups(Magic, z, v)
      BY <2>1, Associative
    <3> QED BY <3>1 DEF Regroups
  <2> QED BY <2>2, <1>8 DEF v
<1>10. Rest(b, 3) = w \o r
  <2>1. mz \in Seq(Byte) /\ w \o r \in Seq(Byte) /\ 3 = Len(mz)
    BY <1>6, <1>7
  <2> HIDE DEF mz
  <2>2. Rest(mz \o (w \o r), 3) = w \o r
    BY <2>1, RestOf
  <2> QED BY <2>2, <1>8
<1>11. SubSeq(b, 1, 2) = Magic
  <2> DEFINE v == z \o (w \o r)
  <2>1. Magic \in Seq(Byte) /\ v \in Seq(Byte)
    BY <1>1, <1>7
  <2> HIDE DEF v
  <2>2. SubSeq(Magic \o v, 1, Len(Magic)) = Magic
    BY <2>1, ConcatFacts
  <2> QED BY <2>2, <1>1, <1>9 DEF v
<1>12. b[3] = z[1]
  <2>1. b[3] = mz[3]
    <3>1. mz \in Seq(Byte) /\ w \o r \in Seq(Byte) /\ 3 \in 1..Len(mz)
      BY <1>6, <1>7
    <3> HIDE DEF mz
    <3>2. (mz \o (w \o r))[3] = mz[3]
      BY <3>1, At
    <3> QED BY <3>2, <1>8
  <2>2. mz[Len(Magic) + 1] = z[1]
    <3>1. Magic \in Seq(Byte) /\ z \in Seq(Byte) /\ 1 \in 1..Len(z)
      BY <1>1
    <3> QED BY <3>1, AtSecond
  <2>3. Len(Magic) + 1 = 3
    BY <1>1
  <2> QED BY <2>1, <2>2, <2>3
<1> QED BY <1>2, <1>4, <1>5, <1>10, <1>11, <1>12 DEF b, L

(* A buffer that continues a frame: incomplete, or the frame is found, read as the
   message it was built for, and cut off. *)
LEMMA Cut ==
  ASSUME NEW m, Fits(m), NEW bytes \in Seq(Byte), NEW future \in Seq(Byte), NEW more \in Seq(Byte),
         bytes \o future = Build(m) \o more
  PROVE  /\ Len(bytes) < Len(Build(m)) => Parse(bytes) = 0
         /\ Len(bytes) >= Len(Build(m)) =>
              /\ Parse(bytes) = Len(Build(m)) /\ Len(Build(m)) >= HeaderSize
              /\ Read(bytes[3], SubSeq(bytes, HeaderSize + 1, Len(Build(m)))) = m
              /\ Rest(bytes, Len(Build(m))) \in Seq(Byte)
              /\ Len(Rest(bytes, Len(Build(m)))) = Len(bytes) - Len(Build(m))
              /\ Rest(bytes, Len(Build(m))) \o future = more
<1> DEFINE h == FrameHead(m)
           p == Payload(m)
           B == Build(m)
           N == Len(bytes)
<1>1. /\ p \in Seq(Byte) /\ Len(p) \in Nat /\ h \in Seq(Byte) /\ Len(h) = HeaderSize
      /\ B = h \o p /\ B \in Seq(Byte) /\ Len(B) = HeaderSize + Len(p)
  BY HeadFacts
<1>2. N \in Nat
  OBVIOUS
<1>3. ASSUME N < HeaderSize PROVE Parse(bytes) = 0 /\ N < Len(B)
  BY <1>1, <1>2, <1>3 DEF Parse, HeaderSize
<1>4. ASSUME ~(N < HeaderSize)
      PROVE  Parse(bytes) = (IF N < Len(B) THEN 0 ELSE Len(B)) /\ bytes[3] = TypeByte(m.shape)
  <2> HIDE DEF h, p, B
  <2>1. p \o more \in Seq(Byte) /\ B \o more = h \o (p \o more)
    <3>1. h \in Seq(Byte) /\ p \in Seq(Byte) /\ more \in Seq(Byte)
      BY <1>1
    <3>2. (h \o p) \o more = h \o (p \o more) /\ p \o more \in Seq(Byte)
      <4>1. Regroups(h, p, more)
        BY <3>1, Associative
      <4> QED BY <4>1, <3>1, Join DEF Regroups
    <3> QED BY <3>2, <1>1
  <2>2. SubSeq(bytes, 1, Len(h)) = h
    <3> DEFINE v == p \o more
    <3>1. h \in Seq(Byte) /\ v \in Seq(Byte) /\ Len(h) <= Len(bytes) /\ bytes \o future = h \o v
      BY <1>1, <1>2, <1>4, <2>1 DEF B, HeaderSize
    <3> HIDE DEF v
    <3> QED BY <3>1, HeadCut
  <2> DEFINE r == Rest(bytes, HeaderSize)
  <2>3. r \in Seq(Byte) /\ bytes = h \o r
    <3>1. HeaderSize \in 0..Len(bytes)
      BY <1>2, <1>4 DEF HeaderSize
    <3>2. r \in Seq(Byte) /\ SubSeq(bytes, 1, HeaderSize) \o r = bytes
      BY <3>1, RestFacts
    <3> HIDE DEF r
    <3> QED BY <3>2, <2>2, <1>1
  <2> HIDE DEF r
  <2>4. SubSeq(bytes, 1, 2) = Magic /\ bytes[3] = TypeByte(m.shape) /\ ReadU16(Rest(bytes, 3)) = Len(p)
    BY <2>3, ParseHead DEF h, p
  <2>5. Parse(bytes) = IF N < HeaderSize + Len(p) THEN 0 ELSE HeaderSize + Len(p)
    BY <2>4, <1>4 DEF Parse
  <2> HIDE DEF N
  <2> QED BY <2>4, <2>5, <1>1
<1>5. N < Len(B) => Parse(bytes) = 0
  BY <1>3, <1>4
<1>6. ASSUME N >= Len(B)
      PROVE  /\ Parse(bytes) = Len(B) /\ Len(B) >= HeaderSize
             /\ Read(bytes[3], SubSeq(bytes, HeaderSize + 1, Len(B))) = m
             /\ Rest(bytes, Len(B)) \in Seq(Byte)
             /\ Len(Rest(bytes, Len(B))) = Len(bytes) - Len(B)
             /\ Rest(bytes, Len(B)) \o future = more
  <2>1. Len(B) >= HeaderSize /\ Len(B) \in 0..N /\ ~(N < HeaderSize) /\ ~(N < Len(B))
    <3> DEFINE x == Len(p)
               y == Len(B)
    <3>1. x \in Nat /\ y = 5 + x /\ N >= y
      BY <1>1, <1>6 DEF HeaderSize
    <3> HIDE DEF x, y, N
    <3>2. y >= 5 /\ y \in 0..N /\ ~(N < 5) /\ ~(N < y)
      BY <1>2, <3>1
    <3> QED BY <3>2 DEF y, HeaderSize
  <2>2. Parse(bytes) = Len(B) /\ bytes[3] = TypeByte(m.shape)
    BY <1>4, <2>1
  <2> HIDE DEF B, h, p
  <2>3. /\ \A i \in 1..Len(B) : bytes[i] = B[i]
        /\ Rest(bytes, Len(B)) \o future = more
    <3>1. B \in Seq(Byte) /\ Len(B) <= Len(bytes) /\ bytes \o future = B \o more
      BY <1>1, <2>1 DEF B
    <3>2. \A i \in 1..Len(B) : bytes[i] = B[i]
      BY <3>1, HeadCut
    <3>3. Rest(bytes, Len(B)) \o future = more
      <4> DEFINE whole == bytes \o future
      <4>1. whole = bytes \o future /\ whole = B \o more
        BY <3>1
      <4> HIDE DEF whole
      <4> QED BY <3>1, <4>1, RestCut
    <3> QED BY <3>2, <3>3
  <2>4. SubSeq(bytes, HeaderSize + 1, Len(B)) = p
    <3> DEFINE q == SubSeq(bytes, HeaderSize + 1, Len(B))
    <3>1. q \in Seq(Byte) /\ Len(q) = Len(p) /\ \A i \in 1..Len(p) : q[i] = bytes[HeaderSize + i]
      <4> DEFINE x == Len(p)
      <4>1. x \in Nat /\ Len(B) = HeaderSize + x /\ HeaderSize + x \in 0..Len(bytes)
        BY <1>1, <2>1
      <4> HIDE DEF x
      <4>2. q = SubSeq(bytes, HeaderSize + 1, HeaderSize + x)
        BY <4>1
      <4>3. q \in Seq(Byte) /\ Len(q) = x /\ \A i \in 1..x : q[i] = bytes[HeaderSize + i]
        BY <4>1, <4>2 DEF HeaderSize
      <4> QED BY <4>3 DEF x
    <3>2. ASSUME NEW i \in 1..Len(p) PROVE q[i] = p[i]
      <4>1. HeaderSize + i \in 1..Len(B)
        BY <1>1 DEF HeaderSize
      <4>2. bytes[HeaderSize + i] = B[HeaderSize + i]
        BY <2>3, <4>1
      <4>3. B[HeaderSize + i] = p[i]
        <5>1. h \in Seq(Byte) /\ p \in Seq(Byte)
          BY <1>1
        <5>2. (h \o p)[Len(h) + i] = p[i]
          BY <5>1, AtSecond
        <5> QED BY <5>2, <1>1
      <4> HIDE DEF q
      <4> QED BY <3>1, <4>2, <4>3
    <3> HIDE DEF q
    <3>3. q = p
      BY <1>1, <3>1, <3>2, SeqEqual
    <3> QED BY <3>3 DEF q
  <2>5. Read(bytes[3], p) = m
    BY <2>2, ReadersUndoBuilders DEF p
  <2>6. Rest(bytes, Len(B)) \in Seq(Byte) /\ Len(Rest(bytes, Len(B))) = Len(bytes) - Len(B)
    BY <2>1, RestFacts
  <2> QED BY <2>1, <2>2, <2>3, <2>4, <2>5, <2>6
<1> QED BY <1>5, <1>6

-----------------------------------------------------------------------------
(* The rounds of app_dispatch. *)

Built(s) == [i \in 1..Len(s) |-> Build(s[i])]

(* The frames of a sequence of messages. *)
LEMMA BuiltFacts ==
  ASSUME NEW s \in Seq(Message)
  PROVE  /\ Built(s) \in Seq(Seq(Byte)) /\ Len(Built(s)) = Len(s)
         /\ \A i \in 1..Len(s) : Built(s)[i] = Build(s[i]) /\ Fits(s[i]) /\ s[i] \in Message
<1>1. \A i \in 1..Len(s) : s[i] \in Message /\ Fits(s[i])
  BY MessageAssumption
<1>2. \A i \in 1..Len(s) : Build(s[i]) \in Seq(Byte)
  BY <1>1, HeadFacts
<1>3. Built(s) \in [1..Len(s) -> Seq(Byte)]
  BY <1>2 DEF Built
<1>4. Built(s) \in Seq(Seq(Byte)) /\ Len(Built(s)) = Len(s)
  BY <1>3
<1>5. \A i \in 1..Len(s) : Built(s)[i] = Build(s[i])
  BY DEF Built
<1> QED BY <1>1, <1>4, <1>5

(* Where the loop is after the messages up to j: r is left of the buffer. *)
Handling(s, h, j, r) == [msgs |-> SubSeq(s, h + 1, j), rest |-> r, ok |-> TRUE]

Round(was, buf) ==
  LET n == Parse(was.rest)
  IN  IF n = 0 \/ ~was.ok THEN was
      ELSE IF n < 0 THEN [was EXCEPT !.rest = buf, !.ok = FALSE]
      ELSE [was EXCEPT !.msgs = Append(@, Read(was.rest[3],
                                  SubSeq(was.rest, HeaderSize + 1, n))),
                       !.rest = Rest(@, n)]

(* Less than a header is an incomplete frame. *)
LEMMA ParseShort ==
  ASSUME NEW r, Len(r) < HeaderSize
  PROVE  Parse(r) = 0
BY DEF Parse

LEMMA SliceAppend ==
  ASSUME NEW S, NEW s \in Seq(S), NEW h \in Nat, NEW j \in Nat, h <= j, j + 1 <= Len(s)
  PROVE  Append(SubSeq(s, h + 1, j), s[j + 1]) = SubSeq(s, h + 1, j + 1)
<1> DEFINE a == SubSeq(s, h + 1, j)
           b == SubSeq(s, h + 1, j + 1)
           x == s[j + 1]
           c == Append(a, x)
<1>1. a \in Seq(S) /\ Len(a) = j - h /\ \A i \in 1..j-h : a[i] = s[h + i]
  OBVIOUS
<1>2. b \in Seq(S) /\ Len(b) = j - h + 1 /\ \A i \in 1..j-h+1 : b[i] = s[h + i]
  OBVIOUS
<1>3. x \in S /\ x = s[h + (j - h + 1)] /\ j - h \in Nat
  OBVIOUS
<1> HIDE DEF a, b, x
<1>4. c \in Seq(S) /\ Len(c) = j - h + 1
  BY <1>1, <1>3
<1>5. ASSUME NEW i \in 1..j-h+1 PROVE c[i] = b[i]
  <2>1. CASE i \in 1..j-h
    BY <2>1, <1>1, <1>2
  <2>2. CASE i = j - h + 1
    BY <2>2, <1>1, <1>2, <1>3
  <2>3. i \in 1..j-h \/ i = j - h + 1
    BY <1>3
  <2> QED BY <2>1, <2>2, <2>3
<1> HIDE DEF c
<1>6. c = b
  BY <1>2, <1>4, <1>5, SeqEqual
<1> QED BY <1>6 DEF a, b, c, x

Advances(s, h, j, r, future, buf) ==
  /\ Parse(r) = 0 => /\ Round(Handling(s, h, j, r), buf) = Handling(s, h, j, r)
                     /\ j < Len(s) => Len(r) < Len(Build(s[j+1]))
  /\ Parse(r) # 0 => /\ j < Len(s)
                     /\ \E q \in Seq(Byte) :
                          /\ Len(q) <= Len(r) - HeaderSize
                          /\ q \o future = After(Built(s), j + 1)
                          /\ Round(Handling(s, h, j, r), buf) = Handling(s, h, j + 1, q)

(* One round: nothing when no whole frame is left, else the next message. *)
LEMMA RoundStep ==
  ASSUME NEW s \in Seq(Message), NEW h \in 0..Len(s), NEW j \in h..Len(s),
         NEW r \in Seq(Byte), NEW future \in Seq(Byte), NEW buf,
         r \o future = After(Built(s), j)
  PROVE  Advances(s, h, j, r, future, buf)
<1> DEFINE ss == Built(s)
           was == Handling(s, h, j, r)
<1>1. ss \in Seq(Seq(Byte)) /\ Len(ss) = Len(s) /\ j \in Nat /\ j \in 0..Len(ss) /\ Len(s) \in Nat
  BY BuiltFacts
<1>2. was.rest = r /\ was.ok /\ was.msgs = SubSeq(s, h + 1, j)
  BY DEF Handling
<1>3. Parse(r) = 0 => Round(was, buf) = was
  <2> HIDE DEF was
  <2> QED BY <1>2 DEF Round
<1>4. CASE j = Len(s)
  <2>1. r \o future = <<>>
    BY <1>1, <1>4, AfterFacts
  <2>2. Len(r \o future) = Len(r) + Len(future) /\ Len(r) \in Nat /\ Len(future) \in Nat
    OBVIOUS
  <2>3. Len(r) < HeaderSize
    BY <2>1, <2>2 DEF HeaderSize
  <2> QED BY <1>3, <1>4, <2>3, ParseShort DEF Advances
<1>5. CASE j # Len(s)
  <2> DEFINE m == s[j+1]
             B == Build(m)
             more == After(ss, j + 1)
  <2>1. j < Len(s) /\ j + 1 \in 1..Len(s) /\ j \in 0..Len(ss)-1 /\ j + 1 \in 0..Len(ss)
    BY <1>1, <1>5
  <2>2. Fits(m) /\ ss[j+1] = B /\ m \in Message
    BY <2>1, BuiltFacts
  <2>3. After(ss, j) = B \o more /\ more \in Seq(Byte)
    <3> HIDE DEF ss
    <3> QED BY <1>1, <2>1, <2>2, AfterFacts
  <2> HIDE DEF m, B, more
  <2>4. r \o future = Build(m) \o more
    BY <2>3 DEF B
  <2>5. /\ Len(r) < Len(B) => Parse(r) = 0
        /\ Len(r) >= Len(B) =>
              /\ Parse(r) = Len(B) /\ Len(B) >= HeaderSize
              /\ Read(r[3], SubSeq(r, HeaderSize + 1, Len(B))) = m
              /\ Rest(r, Len(B)) \in Seq(Byte)
              /\ Len(Rest(r, Len(B))) = Len(r) - Len(B)
              /\ Rest(r, Len(B)) \o future = more
    <3>1. /\ Len(r) < Len(Build(m)) => Parse(r) = 0
          /\ Len(r) >= Len(Build(m)) =>
              /\ Parse(r) = Len(Build(m)) /\ Len(Build(m)) >= HeaderSize
              /\ Read(r[3], SubSeq(r, HeaderSize + 1, Len(Build(m)))) = m
              /\ Rest(r, Len(Build(m))) \in Seq(Byte)
              /\ Len(Rest(r, Len(Build(m)))) = Len(r) - Len(Build(m))
              /\ Rest(r, Len(Build(m))) \o future = more
      BY <2>2, <2>3, <2>4, Cut
    <3> QED BY <3>1 DEF B
  <2>6. Len(B) \in Nat /\ Len(r) \in Nat
    <3>1. B \in Seq(Byte)
      BY <2>2, HeadFacts DEF B
    <3> QED BY <3>1
  <2>7. CASE Len(r) < Len(B)
    BY <2>5, <2>7, <1>3 DEF B, m, Advances
  <2>8. CASE ~(Len(r) < Len(B))
    <3> DEFINE q == Rest(r, Len(B))
    <3>1. /\ Parse(r) = Len(B) /\ Len(B) >= HeaderSize /\ q \in Seq(Byte)
          /\ Len(q) = Len(r) - Len(B) /\ q \o future = more
          /\ Read(r[3], SubSeq(r, HeaderSize + 1, Len(B))) = m
      BY <2>5, <2>6, <2>8
    <3>2. Parse(r) # 0 /\ ~(Parse(r) < 0)
      BY <2>6, <3>1 DEF HeaderSize
    <3>3. Len(q) <= Len(r) - HeaderSize
      <4> DEFINE x == Len(q)
                 y == Len(B)
                 z == Len(r)
      <4>1. y \in Nat /\ z \in Nat /\ x = z - y /\ y >= 5
        BY <2>6, <3>1 DEF HeaderSize
      <4> HIDE DEF x, y, z
      <4>2. x <= z - 5
        BY <4>1
      <4> QED BY <4>2 DEF x, z, HeaderSize
    <3>4. Append(SubSeq(s, h + 1, j), m) = SubSeq(s, h + 1, j + 1)
      <4>1. h \in Nat /\ h <= j /\ j + 1 <= Len(s)
        BY <2>1
      <4>2. Append(SubSeq(s, h + 1, j), s[j + 1]) = SubSeq(s, h + 1, j + 1)
        BY <4>1, <1>1, SliceAppend
      <4> QED BY <4>2 DEF m
    <3>5. Round(was, buf) = [was EXCEPT !.msgs = Append(@, Read(was.rest[3],
                                           SubSeq(was.rest, HeaderSize + 1, Parse(was.rest)))),
                                        !.rest = Rest(@, Parse(was.rest))]
      <4> HIDE DEF was
      <4> QED BY <1>2, <3>2 DEF Round
    <3>6. Round(was, buf) = [msgs |-> Append(SubSeq(s, h + 1, j), m), rest |-> q, ok |-> TRUE]
      <4> HIDE DEF q
      <4>1. /\ Read(was.rest[3], SubSeq(was.rest, HeaderSize + 1, Parse(was.rest))) = m
            /\ Rest(was.rest, Parse(was.rest)) = q
        <5> HIDE DEF was
        <5> QED BY <1>2, <3>1 DEF q
      <4>2. was = [msgs |-> SubSeq(s, h + 1, j), rest |-> r, ok |-> TRUE]
        BY DEF Handling
      <4> HIDE DEF was
      <4> QED BY <3>5, <4>1, <4>2
    <3>7. Round(was, buf) = Handling(s, h, j + 1, q)
      BY <3>4, <3>6 DEF Handling
    <3> HIDE DEF q, was
    <3>8. \E q1 \in Seq(Byte) :
            /\ Len(q1) <= Len(r) - HeaderSize
            /\ q1 \o future = After(ss, j + 1)
            /\ Round(was, buf) = Handling(s, h, j + 1, q1)
      BY <3>1, <3>3, <3>7 DEF more
    <3> QED BY <3>2, <3>8, <2>1 DEF was, Advances
  <2> QED BY <2>7, <2>8
<1> QED BY <1>4, <1>5

Dispatches(s, h, bytes, future, j, r) ==
  /\ Dispatched(bytes) = Handling(s, h, j, r)
  /\ r \o future = After(Built(s), j)
  /\ j < Len(s) => Len(r) < Len(Build(s[j+1]))

(* The whole loop: no more messages are handled than were whole in the buffer, and
   none of these is left. *)
LEMMA Dispatching ==
  ASSUME NEW s \in Seq(Message), NEW h \in 0..Len(s),
         NEW bytes \in Seq(Byte), NEW future \in Seq(Byte),
         bytes \o future = After(Built(s), h)
  PROVE  \E j \in h..Len(s), r \in Seq(Byte) : Dispatches(s, h, bytes, future, j, r)
<1> DEFINE N == Len(bytes) \div HeaderSize
           Good(v, j) == v = Handling(s, h, j, v.rest) /\ v.rest \o future = After(Built(s), j)
           V == {v \in [msgs : Seq(Message), rest : Seq(Byte), ok : BOOLEAN] :
                   \E j \in h..Len(s) : Good(v, j)}
           start == [msgs |-> <<>>, rest |-> bytes, ok |-> TRUE]
           step == [k \in 1..N |-> [v \in V |-> Round(v, bytes)]]
           Eq(f) == f = [k \in 0..N |-> IF k = 0 THEN start ELSE Round(f[k-1], bytes)]
<1>1. N \in Nat /\ Len(bytes) \in Nat /\ Len(bytes) < HeaderSize * N + HeaderSize
  <2> DEFINE x == Len(bytes)
  <2>1. x \in Nat
    OBVIOUS
  <2> HIDE DEF x
  <2>2. x \div HeaderSize \in Nat /\ x < HeaderSize * (x \div HeaderSize) + HeaderSize
    BY <2>1 DEF HeaderSize
  <2> QED BY <2>1, <2>2 DEF x
<1>2. h \in h..Len(s) /\ h \in Nat /\ Len(s) \in Nat
  OBVIOUS
<1>3. ASSUME NEW j \in h..Len(s), NEW r \in Seq(Byte), r \o future = After(Built(s), j)
      PROVE  Handling(s, h, j, r) \in V
  <2>1. SubSeq(s, h + 1, j) \in Seq(Message)
    OBVIOUS
  <2>2. Handling(s, h, j, r) \in [msgs : Seq(Message), rest : Seq(Byte), ok : BOOLEAN]
        /\ Handling(s, h, j, r).rest = r
    BY <2>1 DEF Handling
  <2>3. Good(Handling(s, h, j, r), j)
    BY <2>2, <1>3
  <2> HIDE DEF Good
  <2> QED BY <2>2, <2>3
<1>4. start \in V
  <2>1. SubSeq(s, h + 1, h) = <<>>
    BY <1>2
  <2>2. start = Handling(s, h, h, bytes)
    BY <2>1 DEF Handling
  <2> HIDE DEF V, start
  <2> QED BY <1>2, <1>3, <2>2
<1>5. ASSUME NEW v \in V
      PROVE  /\ v.rest \in Seq(Byte) /\ Round(v, bytes) \in V
             /\ Parse(v.rest) = 0 => Round(v, bytes) = v
             /\ Parse(v.rest) # 0 => Len(Round(v, bytes).rest) <= Len(v.rest) - HeaderSize
             /\ \E j \in h..Len(s) : /\ Good(v, j)
                                     /\ Parse(v.rest) = 0 /\ j < Len(s)
                                          => Len(v.rest) < Len(Build(s[j+1]))
  <2>1. PICK j \in h..Len(s) : Good(v, j)
    OBVIOUS
  <2> DEFINE r == v.rest
  <2>2. r \in Seq(Byte) /\ v = Handling(s, h, j, r) /\ r \o future = After(Built(s), j)
    BY <2>1
  <2> HIDE DEF r, V
  <2>3. /\ Parse(r) = 0 => /\ Round(v, bytes) = v
                           /\ j < Len(s) => Len(r) < Len(Build(s[j+1]))
        /\ Parse(r) # 0 => /\ j < Len(s)
                           /\ \E q \in Seq(Byte) :
                                 /\ Len(q) <= Len(r) - HeaderSize
                                 /\ q \o future = After(Built(s), j + 1)
                                 /\ Round(v, bytes) = Handling(s, h, j + 1, q)
    <3>1. Advances(s, h, j, r, future, bytes)
      BY <2>2, RoundStep
    <3> QED BY <2>2, <3>1 DEF Advances
  <2>4. CASE Parse(r) = 0
    BY <2>1, <2>2, <2>3, <2>4 DEF r
  <2>5. CASE Parse(r) # 0
    <3>1. PICK q \in Seq(Byte) : /\ Len(q) <= Len(r) - HeaderSize
                                 /\ q \o future = After(Built(s), j + 1)
                                 /\ Round(v, bytes) = Handling(s, h, j + 1, q)
      BY <2>3, <2>5
    <3>2. j + 1 \in h..Len(s)
      BY <1>2, <2>3, <2>5
    <3>3. Round(v, bytes) \in V
      BY <1>3, <3>1, <3>2
    <3>4. Round(v, bytes).rest = q
      BY <3>1 DEF Handling
    <3> HIDE DEF Good
    <3> QED BY <2>1, <2>2, <2>5, <3>1, <3>3, <3>4 DEF r
  <2> QED BY <2>4, <2>5
<1>6. step \in [1..N -> [V -> V]]
  <2>1. \A v \in V : Round(v, bytes) \in V
    BY <1>5
  <2> HIDE DEF V, N
  <2> QED BY <2>1
<1>7. PICK f \in [0..N -> V] : Iterates(f, N, start, step)
  <2> HIDE DEF N, V, step, start
  <2> QED BY <1>1, <1>4, <1>6, Iteration
<1> HIDE DEF V, start, N
<1>8. f[0] = start /\ \A k \in 1..N : f[k] = Round(f[k-1], bytes) /\ f[k-1] \in V
  <2>1. ASSUME NEW k \in 1..N PROVE f[k] = Round(f[k-1], bytes) /\ f[k-1] \in V
    <3>1. k - 1 \in 0..N
      BY <1>1
    <3>2. f[k-1] \in V
      BY <3>1
    <3>3. f[k] = step[k][f[k-1]]
      BY <1>7 DEF Iterates
    <3> QED BY <3>2, <3>3
  <2> QED BY <2>1, <1>7 DEF Iterates
<1>9. Eq(f)
  <2>1. \A k \in 0..N : f[k] = IF k = 0 THEN start ELSE Round(f[k-1], bytes)
    BY <1>1, <1>8
  <2> QED BY <2>1
<1> DEFINE g == CHOOSE f1 : Eq(f1)
<1>10. Eq(g)
  <2> HIDE DEF Eq
  <2> QED BY <1>9
<1>11. \A k \in 0..N : g[k] = IF k = 0 THEN start ELSE Round(g[k-1], bytes)
  <2> HIDE DEF g
  <2> QED BY <1>10
<1>12. Dispatched(bytes) = g[N]
  BY DEF Dispatched, Round, N, start
<1> HIDE DEF g, step
<1> DEFINE Same == {k \in 0..N : g[k] = f[k]}
           Spent == {k \in 0..N : \/ Parse(f[k].rest) = 0
                                  \/ HeaderSize * k + Len(f[k].rest) <= Len(bytes)}
<1>13. ASSUME NEW k \in 0..N, \A j \in 0..k-1 : j \in Same PROVE k \in Same
  <2>1. CASE k = 0
    BY <2>1, <1>8, <1>11
  <2>2. CASE k # 0
    <3>1. k \in 1..N /\ k - 1 \in 0..k-1
      BY <2>2, <1>1
    <3>2. k - 1 \in Same
      <4> HIDE DEF Same
      <4> QED BY <3>1, <1>13
    <3>3. g[k] = Round(g[k-1], bytes) /\ f[k] = Round(f[k-1], bytes)
      BY <3>1, <2>2, <1>8, <1>11
    <3> QED BY <3>2, <3>3
  <2> QED BY <2>1, <2>2
<1>14. ASSUME NEW k \in 0..N, \A j \in 0..k-1 : j \in Spent PROVE k \in Spent
  <2>1. CASE k = 0
    <3>1. f[0].rest = bytes
      BY <1>8 DEF start
    <3> QED BY <2>1, <3>1, <1>1 DEF HeaderSize
  <2>2. CASE k # 0
    <3>1. k \in 1..N /\ k - 1 \in 0..k-1 /\ k \in Nat
      BY <2>2, <1>1
    <3>2. k - 1 \in Spent
      <4> HIDE DEF Spent
      <4> QED BY <3>1, <1>14
    <3> DEFINE v == f[k-1]
    <3>3. f[k] = Round(v, bytes) /\ v \in V
      BY <3>1, <1>8
    <3> HIDE DEF v
    <3>4. v.rest \in Seq(Byte) /\ Round(v, bytes) \in V
          /\ (Parse(v.rest) = 0 => Round(v, bytes) = v)
          /\ (Parse(v.rest) # 0 => Len(Round(v, bytes).rest) <= Len(v.rest) - HeaderSize)
      <4> HIDE DEF Good
      <4> QED BY <3>3, <1>5
    <3>5. Round(v, bytes).rest \in Seq(Byte)
      <4> HIDE DEF Good
      <4> QED BY <3>4, <1>5
    <3>6. CASE Parse(v.rest) = 0
      BY <3>3, <3>4, <3>6
    <3>7. CASE Parse(v.rest) # 0
      <4> DEFINE x == Len(f[k].rest)
                 y == Len(v.rest)
                 z == Len(bytes)
      <4>1. x \in Nat /\ y \in Nat /\ z \in Nat /\ x <= y - 5 /\ 5 * (k - 1) + y <= z
        <5>1. x \in Nat /\ y \in Nat /\ z \in Nat
          BY <1>1, <3>3, <3>4, <3>5
        <5>2. x <= y - 5
          BY <3>3, <3>4, <3>7 DEF HeaderSize
        <5>3. 5 * (k - 1) + y <= z
          BY <3>2, <3>7 DEF v, HeaderSize
        <5> QED BY <5>1, <5>2, <5>3
      <4> HIDE DEF x, y, z
      <4>2. 5 * k + x <= z
        BY <3>1, <4>1
      <4> QED BY <4>2 DEF x, z, HeaderSize
    <3> QED BY <3>6, <3>7
  <2> QED BY <2>1, <2>2
<1>15. g[N] = f[N] /\ N \in Spent
  <2> HIDE DEF Same, Spent
  <2>1. \A k \in 0..N : (\A j \in 0..k-1 : j \in Same) => k \in Same
    BY <1>13
  <2>2. \A k \in 0..N : (\A j \in 0..k-1 : j \in Spent) => k \in Spent
    BY <1>14
  <2>3. \A k \in 0..N : k \in Same
    BY <2>1, <1>1, Counting
  <2>4. \A k \in 0..N : k \in Spent
    BY <2>2, <1>1, Counting
  <2>5. N \in Same /\ N \in Spent
    BY <2>3, <2>4, <1>1
  <2> QED BY <2>5 DEF Same
<1> DEFINE w == f[N]
<1>16. w \in V
  BY <1>1
<1>17. w.rest \in Seq(Byte) /\ \E j \in h..Len(s) :
         Good(w, j) /\ (Parse(w.rest) = 0 /\ j < Len(s) => Len(w.rest) < Len(Build(s[j+1])))
  <2> HIDE DEF Good, w
  <2> QED BY <1>16, <1>5
<1>18. Parse(w.rest) = 0
  <2>1. CASE HeaderSize * N + Len(w.rest) <= Len(bytes)
    <3> DEFINE x == Len(w.rest)
               z == Len(bytes)
    <3>1. x \in Nat /\ z \in Nat /\ 5 * N + x <= z /\ z < 5 * N + 5
      <4>1. w.rest \in Seq(Byte)
        BY <1>17
      <4> HIDE DEF w
      <4>2. x \in Nat
        BY <4>1
      <4> HIDE DEF x
      <4> QED BY <1>1, <2>1, <4>2 DEF HeaderSize, x
    <3> HIDE DEF x, z
    <3>2. x < 5
      BY <1>1, <3>1
    <3> QED BY <3>2, ParseShort DEF x, HeaderSize
  <2> QED BY <2>1, <1>15
<1>19. PICK j \in h..Len(s) :
         Good(w, j) /\ (Parse(w.rest) = 0 /\ j < Len(s) => Len(w.rest) < Len(Build(s[j+1])))
  <2> HIDE DEF Good, w
  <2> QED BY <1>17
<1>20. Dispatched(bytes) = w
  BY <1>12, <1>15
<1> HIDE DEF w
<1>21. Dispatches(s, h, bytes, future, j, w.rest)
  BY <1>18, <1>19, <1>20 DEF Dispatches
<1> QED BY <1>17, <1>21

-----------------------------------------------------------------------------
(* The inductive invariant: what was handled is the head of what was sent, and the
   bytes on their way are the frames of the rest. *)

InOrder == Len(handled) <= Len(sent) /\ handled = SubSeq(sent, 1, Len(handled))

CodecInv == TypeOK /\ BufferAligned /\ InOrder

(* The same, in terms of the lemmas. *)
Stream ==
  /\ sent \in Seq(Message) /\ Len(handled) \in 0..Len(sent)
  /\ handled = SubSeq(sent, 1, Len(handled))
  /\ unsent \in Seq(Byte) /\ wire \in Seq(Byte) /\ rbuf \in Seq(Byte) /\ running = TRUE
  /\ (rbuf \o wire) \o unsent = After(Built(sent), Len(handled))
  /\ Len(handled) < Len(sent) => Len(rbuf) < Len(Build(sent[Len(handled)+1]))

LEMMA AfterBuilt ==
  ASSUME NEW s \in Seq(Message), NEW h \in 0..Len(s)
  PROVE  FlattenSeq([i \in 1..Len(s)-h |-> Build(s[h+i])]) = After(Built(s), h)
<1>1. \A i \in 1..Len(s)-h : h + i \in 1..Len(s)
  OBVIOUS
<1>2. \A i \in 1..Len(s)-h : Build(s[h+i]) = Built(s)[h + i]
  BY <1>1 DEF Built
<1>3. Len(Built(s)) = Len(s)
  BY BuiltFacts
<1>4. [i \in 1..Len(s)-h |-> Build(s[h+i])] = [i \in 1..Len(Built(s))-h |-> Built(s)[h + i]]
  BY <1>2, <1>3
<1> QED BY <1>4 DEF After

(* Stream restates the invariant with the operators of the lemmas. *)
LEMMA StreamIsInvariant == CodecInv <=> Stream
<1>1. ASSUME CodecInv PROVE Stream
  <2>1. sent \in Seq(Message) /\ Len(handled) \in 0..Len(sent) /\ running = TRUE
    <3>1. handled \in Seq(Message \cup {Ignored}) /\ sent \in Seq(Message)
      BY <1>1 DEF CodecInv, TypeOK
    <3>2. Len(handled) \in Nat /\ Len(sent) \in Nat
      BY <3>1
    <3> QED BY <1>1, <3>1, <3>2 DEF CodecInv, InOrder, BufferAligned, TypeOK
  <2>2. FlattenSeq([i \in 1..Len(sent)-Len(handled) |-> Build(sent[Len(handled)+i])])
          = After(Built(sent), Len(handled))
    BY <2>1, AfterBuilt
  <2> QED BY <1>1, <2>1, <2>2 DEF CodecInv, InOrder, BufferAligned, TypeOK, Stream
<1>2. ASSUME Stream PROVE CodecInv
  <2>1. FlattenSeq([i \in 1..Len(sent)-Len(handled) |-> Build(sent[Len(handled)+i])])
          = After(Built(sent), Len(handled))
    BY <1>2, AfterBuilt DEF Stream
  <2>2. handled \in Seq(Message \cup {Ignored})
    <3> DEFINE h == Len(handled)
    <3>1. sent \in Seq(Message) /\ h \in 0..Len(sent) /\ handled = SubSeq(sent, 1, h)
      BY <1>2 DEF Stream
    <3> HIDE DEF h
    <3>2. SubSeq(sent, 1, h) \in Seq(Message \cup {Ignored})
      BY <3>1
    <3> QED BY <3>1, <3>2
  <2>3. TypeOK
    BY <1>2, <2>2 DEF TypeOK, Stream
  <2>4. BufferAligned
    BY <1>2, <2>1 DEF BufferAligned, Stream
  <2>5. InOrder
    BY <1>2 DEF InOrder, Stream
  <2> QED BY <2>3, <2>4, <2>5 DEF CodecInv
<1> QED BY <1>1, <1>2

LEMMA BuiltAppend ==
  ASSUME NEW s \in Seq(Message), NEW m \in Message
  PROVE  Built(Append(s, m)) = Append(Built(s), Build(m))
<1> DEFINE t == Append(s, m)
<1>1. t \in Seq(Message) /\ Len(t) = Len(s) + 1 /\ t[Len(s) + 1] = m
      /\ \A i \in 1..Len(s) : t[i] = s[i]
  OBVIOUS
<1>2. Build(m) \in Seq(Byte)
  BY MessageAssumption, HeadFacts
<1> HIDE DEF t
<1>3. Built(t) \in Seq(Seq(Byte)) /\ Len(Built(t)) = Len(s) + 1
      /\ \A i \in 1..Len(s)+1 : Built(t)[i] = Build(t[i])
  BY <1>1, BuiltFacts
<1>4. Built(s) \in Seq(Seq(Byte)) /\ Len(Built(s)) = Len(s)
      /\ \A i \in 1..Len(s) : Built(s)[i] = Build(s[i])
  BY BuiltFacts
<1> DEFINE a == Built(t)
           b == Built(s)
           x == Build(m)
           c == Append(b, x)
           n == Len(s)
<1>5. n \in Nat
  OBVIOUS
<1>6. c \in Seq(Seq(Byte)) /\ Len(c) = n + 1 /\ c[n + 1] = x /\ \A i \in 1..n : c[i] = b[i]
  <2> HIDE DEF b, x
  <2>1. b \in Seq(Seq(Byte)) /\ x \in Seq(Byte) /\ Len(b) = n
    BY <1>2, <1>4 DEF b, x
  <2> HIDE DEF n
  <2> QED BY <2>1
<1>7. ASSUME NEW i \in 1..n+1 PROVE a[i] = c[i]
  <2>1. CASE i \in 1..n
    <3>1. a[i] = Build(t[i]) /\ t[i] = s[i] /\ b[i] = Build(s[i]) /\ c[i] = b[i]
      BY <2>1, <1>1, <1>3, <1>4, <1>6
    <3> QED BY <3>1
  <2>2. CASE i = n + 1
    <3>1. a[i] = Build(t[i])
      BY <1>3
    <3>2. t[i] = m
      BY <2>2, <1>1
    <3>3. c[i] = x
      BY <2>2, <1>6
    <3> QED BY <3>1, <3>2, <3>3
  <2>3. i \in 1..n \/ i = n + 1
    BY <1>5
  <2> QED BY <2>1, <2>2, <2>3
<1> HIDE DEF a, c
<1>8. a = c
  BY <1>3, <1>6, <1>7, SeqEqual DEF a, n
<1> QED BY <1>8 DEF a, c, t

SentOn(a, b, u, n) ==
  /\ (a \o (b \o SubSeq(u, 1, n))) \o Rest(u, n) = (a \o b) \o u
  /\ b \o SubSeq(u, 1, n) \in Seq(Byte) /\ Rest(u, n) \in Seq(Byte)

ReceivedOn(a, b, u, n) ==
  /\ (a \o SubSeq(b, 1, n)) \o (Rest(b, n) \o u) = (a \o b) \o u
  /\ a \o SubSeq(b, 1, n) \in Seq(Byte) /\ Rest(b, n) \o u \in Seq(Byte)
  /\ Rest(b, n) \in Seq(Byte)

(* Bytes that move on stay in line. *)
LEMMA MoveSent ==
  ASSUME NEW a \in Seq(Byte), NEW b \in Seq(Byte), NEW u \in Seq(Byte), NEW n \in 0..Len(u)
  PROVE  SentOn(a, b, u, n)
<1> DEFINE p == SubSeq(u, 1, n)
           q == Rest(u, n)
<1>1. p \in Seq(Byte) /\ q \in Seq(Byte) /\ p \o q = u
  BY RestFacts
<1> HIDE DEF p, q
<1>2. b \o p \in Seq(Byte) /\ a \o b \in Seq(Byte)
  BY <1>1
<1>3. a \o (b \o p) = (a \o b) \o p
  <2>1. a \in Seq(Byte) /\ b \in Seq(Byte) /\ p \in Seq(Byte)
    BY <1>1
  <2>2. Regroups(a, b, p)
    BY <2>1, Associative
  <2> QED BY <2>2 DEF Regroups
<1> DEFINE ab == a \o b
<1>4. (ab \o p) \o q = ab \o (p \o q)
  <2> HIDE DEF ab
  <2>1. ab \in Seq(Byte) /\ p \in Seq(Byte) /\ q \in Seq(Byte)
    BY <1>1, <1>2 DEF ab
  <2>2. Regroups(ab, p, q)
    BY <2>1, Associative
  <2> QED BY <2>2 DEF Regroups
<1>5. (a \o (b \o p)) \o q = ab \o u
  BY <1>1, <1>3, <1>4
<1> QED BY <1>1, <1>2, <1>5 DEF p, q, SentOn

(* The same for bytes that recv moves into the buffer. *)
LEMMA MoveReceived ==
  ASSUME NEW a \in Seq(Byte), NEW b \in Seq(Byte), NEW u \in Seq(Byte), NEW n \in 0..Len(b)
  PROVE  ReceivedOn(a, b, u, n)
<1> DEFINE p == SubSeq(b, 1, n)
           q == Rest(b, n)
<1>1. p \in Seq(Byte) /\ q \in Seq(Byte) /\ p \o q = b
  BY RestFacts
<1> HIDE DEF p, q
<1>2. a \o p \in Seq(Byte) /\ q \o u \in Seq(Byte)
  BY <1>1
<1> DEFINE ap == a \o p
<1>3. (ap \o q) \o u = ap \o (q \o u)
  <2> HIDE DEF ap
  <2>1. ap \in Seq(Byte) /\ q \in Seq(Byte) /\ u \in Seq(Byte)
    BY <1>1, <1>2 DEF ap
  <2>2. Regroups(ap, q, u)
    BY <2>1, Associative
  <2> QED BY <2>2 DEF Regroups
<1>4. (a \o p) \o q = a \o (p \o q)
  <2>1. a \in Seq(Byte) /\ p \in Seq(Byte) /\ q \in Seq(Byte)
    BY <1>1
  <2>2. Regroups(a, p, q)
    BY <2>1, Associative
  <2> QED BY <2>2 DEF Regroups
<1>5. (a \o p) \o (q \o u) = (a \o b) \o u
  BY <1>1, <1>3, <1>4
<1> QED BY <1>1, <1>2, <1>5 DEF p, q, ReceivedOn

(* PeerSends: a frame joins the end of the stream. *)
LEMMA SendsKeeps ==
  ASSUME Stream, NEW m \in Message, PeerSends(m)
  PROVE  Stream'
<1> DEFINE B == Build(m)
           h == Len(handled)
<1>1. /\ sent \in Seq(Message) /\ h \in 0..Len(sent) /\ handled = SubSeq(sent, 1, h)
      /\ wire \in Seq(Byte) /\ rbuf \in Seq(Byte) /\ running = TRUE
      /\ (rbuf \o wire) \o unsent = After(Built(sent), h)
      /\ h < Len(sent) => Len(rbuf) < Len(Build(sent[h+1]))
  BY DEF Stream
<1>2. /\ unsent = <<>> /\ sent' = Append(sent, m) /\ unsent' = B
      /\ wire' = wire /\ rbuf' = rbuf /\ handled' = handled /\ running' = running
  BY DEF PeerSends
<1>3. B \in Seq(Byte) /\ Len(B) >= HeaderSize
  <2>1. Fits(m)
    BY MessageAssumption
  <2>2. B \in Seq(Byte) /\ Len(B) = HeaderSize + Len(Payload(m)) /\ Len(Payload(m)) \in Nat
    BY <2>1, HeadFacts
  <2> QED BY <2>2 DEF HeaderSize
<1> HIDE DEF B
<1>4. rbuf \o wire = After(Built(sent), h) /\ rbuf \o wire \in Seq(Byte)
  <2>1. rbuf \o wire \in Seq(Byte)
    BY <1>1
  <2> DEFINE rw == rbuf \o wire
  <2> HIDE DEF rw
  <2>2. rw \o <<>> = rw
    BY <2>1 DEF rw
  <2> QED BY <1>1, <1>2, <2>1, <2>2 DEF rw
<1>5. After(Built(Append(sent, m)), h) = After(Built(sent), h) \o B
  <2>1. Built(sent) \in Seq(Seq(Byte)) /\ h \in 0..Len(Built(sent))
    BY <1>1, BuiltFacts
  <2> HIDE DEF h
  <2>2. After(Append(Built(sent), B), h) = After(Built(sent), h) \o B
    BY <2>1, <1>3, AfterAppend
  <2>3. Built(Append(sent, m)) = Append(Built(sent), B)
    BY <1>1, BuiltAppend DEF B
  <2> QED BY <2>2, <2>3
<1>6. (rbuf' \o wire') \o unsent' = After(Built(sent'), Len(handled'))
  BY <1>2, <1>4, <1>5
<1>7. /\ Append(sent, m) \in Seq(Message) /\ h \in 0..Len(Append(sent, m))
      /\ SubSeq(Append(sent, m), 1, h) = SubSeq(sent, 1, h)
  <2>1. Append(sent, m) \in Seq(Message) /\ Len(Append(sent, m)) = Len(sent) + 1 /\ Len(sent) \in Nat
    BY <1>1
  <2> HIDE DEF h
  <2>2. h \in 0..Len(Append(sent, m))
    BY <1>1, <2>1
  <2> DEFINE a == SubSeq(Append(sent, m), 1, h)
             b == SubSeq(sent, 1, h)
  <2>3. a \in Seq(Message) /\ Len(a) = h
    BY <2>1, <2>2
  <2>4. b \in Seq(Message) /\ Len(b) = h
    BY <1>1
  <2>5. ASSUME NEW i \in 1..h PROVE a[i] = b[i]
    <3>1. a[i] = Append(sent, m)[i]
      BY <2>1, <2>2
    <3>2. Append(sent, m)[i] = sent[i] /\ b[i] = sent[i]
      BY <1>1
    <3> QED BY <3>1, <3>2
  <2>6. a = b
    <3> HIDE DEF a, b
    <3> QED BY <2>3, <2>4, <2>5, SeqEqual
  <2> QED BY <2>1, <2>2, <2>6
<1>8. h < Len(sent') => Len(rbuf) < Len(Build(sent'[h+1]))
  <2>1. Len(sent) \in Nat /\ Len(Append(sent, m)) = Len(sent) + 1 /\ h \in 0..Len(sent)
    BY <1>1
  <2>2. CASE h < Len(sent)
    <3>1. Append(sent, m)[h+1] = sent[h+1]
      BY <2>1, <2>2, <1>1
    <3> QED BY <3>1, <2>2, <1>1, <1>2
  <2>3. CASE h = Len(sent)
    <3>1. After(Built(sent), h) = <<>>
      <4>1. Built(sent) \in Seq(Seq(Byte)) /\ Len(Built(sent)) = Len(sent)
        BY <1>1, BuiltFacts
      <4>2. After(Built(sent), Len(Built(sent))) = <<>>
        BY <4>1, AfterFacts
      <4> QED BY <2>3, <4>1, <4>2
    <3>2. Len(rbuf \o wire) = Len(rbuf) + Len(wire) /\ Len(rbuf) \in Nat /\ Len(wire) \in Nat
      BY <1>1
    <3>3. Len(rbuf) = 0
      BY <1>4, <3>1, <3>2
    <3>4. Append(sent, m)[h+1] = m
      BY <2>3, <1>1
    <3>5. Len(B) \in Nat /\ Len(rbuf) < Len(B)
      BY <1>3, <3>3 DEF HeaderSize
    <3> QED BY <3>4, <3>5, <1>2 DEF B
  <2> QED BY <2>1, <2>2, <2>3
<1> QED BY <1>1, <1>2, <1>3, <1>6, <1>7, <1>8 DEF Stream

(* SendSome: bytes of the peer reach the wire. *)
LEMMA SomeKeeps ==
  ASSUME Stream, NEW n \in 1..Len(unsent), SendSome(n)
  PROVE  Stream'
<1>1. unsent \in Seq(Byte) /\ wire \in Seq(Byte) /\ rbuf \in Seq(Byte) /\ n \in 0..Len(unsent)
  BY DEF Stream
<1>2. /\ wire' = wire \o SubSeq(unsent, 1, n) /\ unsent' = Rest(unsent, n)
      /\ sent' = sent /\ rbuf' = rbuf /\ handled' = handled /\ running' = running
  BY DEF SendSome, LeftAfter
<1>3. /\ (rbuf \o (wire \o SubSeq(unsent, 1, n))) \o Rest(unsent, n) = (rbuf \o wire) \o unsent
      /\ wire \o SubSeq(unsent, 1, n) \in Seq(Byte) /\ Rest(unsent, n) \in Seq(Byte)
  <2>1. SentOn(rbuf, wire, unsent, n)
    BY <1>1, MoveSent
  <2> QED BY <2>1 DEF SentOn
<1>4. (rbuf' \o wire') \o unsent' = (rbuf \o wire) \o unsent /\ wire' \in Seq(Byte) /\ unsent' \in Seq(Byte)
  BY <1>2, <1>3
<1> QED BY <1>2, <1>4 DEF Stream

(* What a call of recv that returns bytes does. *)
LEMMA ReceiveFacts ==
  ASSUME Stream, NEW n \in 1..Len(wire), Receive(n)
  PROVE  /\ Stream' /\ sent' = sent
         /\ \E j \in Len(handled)..Len(sent) : handled' = SubSeq(sent, 1, j)
<1> DEFINE h == Len(handled)
           bytes == rbuf \o SubSeq(wire, 1, n)
           left == Rest(wire, n)
           future == left \o unsent
<1>1. /\ sent \in Seq(Message) /\ h \in 0..Len(sent) /\ handled = SubSeq(sent, 1, h)
      /\ wire \in Seq(Byte) /\ rbuf \in Seq(Byte) /\ unsent \in Seq(Byte)
      /\ (rbuf \o wire) \o unsent = After(Built(sent), h) /\ n \in 0..Len(wire)
  BY DEF Stream
<1>2. bytes \o future = (rbuf \o wire) \o unsent /\ bytes \in Seq(Byte) /\ future \in Seq(Byte)
      /\ left \in Seq(Byte)
  <2>1. wire \in Seq(Byte) /\ rbuf \in Seq(Byte) /\ unsent \in Seq(Byte) /\ n \in 0..Len(wire)
    BY <1>1
  <2>2. ReceivedOn(rbuf, wire, unsent, n)
    BY <2>1, MoveReceived
  <2> QED BY <2>2 DEF ReceivedOn
<1>3. /\ wire' = left /\ rbuf' = Dispatched(bytes).rest /\ handled' = handled \o Dispatched(bytes).msgs
      /\ running' = Dispatched(bytes).ok /\ sent' = sent /\ unsent' = unsent
  BY DEF Receive
<1>4. future = left \o unsent
  OBVIOUS
<1> HIDE DEF bytes, future, left, h
<1>14. PICK j \in h..Len(sent), r \in Seq(Byte) : Dispatches(sent, h, bytes, future, j, r)
  <2>1. bytes \o future = After(Built(sent), h)
    BY <1>1, <1>2
  <2> QED BY <1>1, <1>2, <2>1, Dispatching
<1>5. /\ Dispatched(bytes) = Handling(sent, h, j, r)
      /\ r \o future = After(Built(sent), j)
      /\ j < Len(sent) => Len(r) < Len(Build(sent[j+1]))
  BY <1>14 DEF Dispatches
<1>6. rbuf' = r /\ handled' = handled \o SubSeq(sent, h + 1, j) /\ running' = TRUE
  <2> DEFINE d == Dispatched(bytes)
             ms == SubSeq(sent, h + 1, j)
  <2>1. d = Handling(sent, h, j, r)
    BY <1>5
  <2>2. d = [msgs |-> ms, rest |-> r, ok |-> TRUE]
    BY <2>1 DEF Handling
  <2>3. rbuf' = d.rest /\ handled' = handled \o d.msgs /\ running' = d.ok
    BY <1>3
  <2> HIDE DEF d, ms
  <2>4. d.rest = r /\ d.msgs = ms /\ d.ok = TRUE
    BY <2>2
  <2> QED BY <2>3, <2>4 DEF ms
<1>7. j \in 0..Len(sent) /\ j \in Nat /\ h \in Nat /\ h <= j /\ Len(sent) \in Nat
  BY <1>1
<1>8. handled' = SubSeq(sent, 1, j)
  <2> DEFINE a == SubSeq(sent, 1, h)
             b == SubSeq(sent, h + 1, j)
             c == SubSeq(sent, 1, j)
             d == a \o b
  <2>1. a \in Seq(Message) /\ Len(a) = h /\ \A i \in 1..h : a[i] = sent[i]
    BY <1>1, <1>7
  <2>2. b \in Seq(Message) /\ Len(b) = j - h /\ \A i \in 1..j-h : b[i] = sent[h + i]
    BY <1>1, <1>7
  <2>3. c \in Seq(Message) /\ Len(c) = j /\ \A i \in 1..j : c[i] = sent[i]
    BY <1>1, <1>7
  <2> HIDE DEF a, b, c
  <2>4. d \in Seq(Message) /\ Len(d) = j
    <3>1. a \in Seq(Message) /\ b \in Seq(Message)
      BY <2>1, <2>2
    <3>2. d \in Seq(Message) /\ Len(d) = Len(a) + Len(b)
      BY <3>1, Join
    <3> HIDE DEF d
    <3> QED BY <3>2, <2>1, <2>2, <1>7
  <2>5. ASSUME NEW i \in 1..j PROVE d[i] = c[i]
    <3>1. CASE i \in 1..h
      <4>1. a \in Seq(Message) /\ b \in Seq(Message) /\ i \in 1..Len(a)
        BY <2>1, <2>2, <3>1
      <4>2. d[i] = a[i]
        BY <4>1, At
      <4> QED BY <4>2, <3>1, <2>1, <2>3
    <3>2. CASE i \notin 1..h
      <4> DEFINE k == i - h
      <4>1. k \in 1..j-h /\ h + k = i
        BY <1>7, <3>2
      <4>2. a \in Seq(Message) /\ b \in Seq(Message) /\ k \in 1..Len(b)
        BY <2>1, <2>2, <4>1
      <4> HIDE DEF k
      <4>3. d[Len(a) + k] = b[k]
        BY <4>2, AtSecond
      <4>4. b[k] = sent[h + k]
        BY <2>2, <4>1
      <4> QED BY <4>1, <4>3, <4>4, <2>1, <2>3
    <3> QED BY <3>1, <3>2
  <2> HIDE DEF d
  <2>6. d = c
    BY <2>3, <2>4, <2>5, SeqEqual
  <2> QED BY <2>6, <1>1, <1>6 DEF a, b, c, d
<1>9. Len(handled') = j
  BY <1>1, <1>7, <1>8
<1>10. (rbuf' \o wire') \o unsent' = After(Built(sent'), Len(handled'))
  <2>1. r \in Seq(Byte) /\ left \in Seq(Byte) /\ unsent \in Seq(Byte)
    BY <1>1, <1>2
  <2>2. (r \o left) \o unsent = r \o (left \o unsent)
    <3>1. Regroups(r, left, unsent)
      BY <2>1, Associative
    <3> QED BY <3>1 DEF Regroups
  <2> QED BY <2>2, <1>3, <1>4, <1>5, <1>6, <1>9
<1>11. Stream'
  <2>1. /\ sent' \in Seq(Message) /\ Len(handled') \in 0..Len(sent')
        /\ handled' = SubSeq(sent', 1, Len(handled'))
    BY <1>1, <1>3, <1>7, <1>8, <1>9
  <2>2. unsent' \in Seq(Byte) /\ wire' \in Seq(Byte) /\ rbuf' \in Seq(Byte) /\ running' = TRUE
    BY <1>1, <1>2, <1>3, <1>6
  <2>3. Len(handled') < Len(sent') => Len(rbuf') < Len(Build(sent'[Len(handled')+1]))
    BY <1>3, <1>5, <1>6, <1>9
  <2> QED BY <2>1, <2>2, <2>3, <1>10 DEF Stream
<1> QED BY <1>3, <1>8, <1>11 DEF h

(* The invariant holds at first and is kept by every step. *)
LEMMA InitEstablishes == Init => CodecInv
<1> SUFFICES ASSUME Init PROVE Stream
  BY StreamIsInvariant
<1>1. <<>> \in Seq(Message) /\ <<>> \in Seq(Byte) /\ Len(<<>>) = 0
  OBVIOUS
<1>2. Built(<<>>) \in Seq(Seq(Byte)) /\ Len(Built(<<>>)) = 0
  BY <1>1, BuiltFacts
<1>3. After(Built(<<>>), 0) = <<>>
  BY <1>2, AfterFacts
<1>4. sent = <<>> /\ unsent = <<>> /\ wire = <<>> /\ rbuf = <<>> /\ handled = <<>> /\ running = TRUE
  BY DEF Init
<1>5. (rbuf \o wire) \o unsent = <<>>
  BY <1>4
<1>6. SubSeq(sent, 1, 0) = <<>>
  BY <1>1, <1>4
<1> QED BY <1>1, <1>3, <1>4, <1>5, <1>6 DEF Stream

LEMMA NextKeeps == CodecInv /\ [Next]_vars => CodecInv'
<1> SUFFICES ASSUME Stream, [Next]_vars PROVE Stream'
  <2>1. CodecInv' <=> Stream'
    BY StreamIsInvariant, PTL
  <2> QED BY <2>1, StreamIsInvariant
<1>1. ASSUME NEW m \in Message, PeerSends(m) PROVE Stream'
  BY <1>1, SendsKeeps
<1>2. ASSUME NEW n \in 1..Len(unsent), SendSome(n) PROVE Stream'
  BY <1>2, SomeKeeps
<1>3. ASSUME NEW n \in 1..Len(wire), Receive(n) PROVE Stream'
  BY <1>3, ReceiveFacts
<1>4. CASE UNCHANGED vars
  BY <1>4 DEF Stream, vars
<1> QED BY <1>1, <1>2, <1>3, <1>4 DEF Next

(* The invariant holds: what is handled is the head of what was sent, and buffer, wire
   and peer hold the frames of the rest, the buffer less than one. *)
THEOREM CodecInvariant == Spec => []CodecInv
BY InitEstablishes, NextKeeps, PTL DEF Spec

(* Every reachable state is typed: the stream is a sequence of bytes, and what the
   handlers get are messages. *)
THEOREM CodecTypeCorrect == Spec => []TypeOK
<1>1. CodecInv => TypeOK
  BY DEF CodecInv
<1> QED BY <1>1, CodecInvariant, PTL

(* Between two calls of recv, app->rbuf holds the head of the next frame, less than
   one whole frame and nothing of an old one, however recv cuts the stream. *)
THEOREM BufferStaysAligned == Spec => []BufferAligned
<1>1. CodecInv => BufferAligned
  BY DEF CodecInv
<1> QED BY <1>1, CodecInvariant, PTL

(* The codec implements FrameFifo: what conn_send_all, recv, protocol_parse and
   app_dispatch make of the bytes hands every message to its handler once, in the
   order of sending, with the numbers and the texts it was built from. *)
THEOREM MessagesSurviveTheWire == Spec => MessagesSurvive
<1>1. Init => Channel!Init
  BY DEF Init, Channel!Init
<1>2. CodecInv /\ [Next]_vars => [Channel!Next]_<<sent, handled>>
  <2> SUFFICES ASSUME Stream, [Next]_vars PROVE Channel!Next \/ UNCHANGED <<sent, handled>>
    BY StreamIsInvariant
  <2>1. ASSUME NEW m \in Message, PeerSends(m) PROVE Channel!Next
    BY <2>1 DEF PeerSends, Channel!Next, Channel!Send
  <2>2. ASSUME NEW n \in 1..Len(unsent), SendSome(n) PROVE UNCHANGED <<sent, handled>>
    BY <2>2 DEF SendSome
  <2>3. ASSUME NEW n \in 1..Len(wire), Receive(n)
        PROVE  Channel!Next \/ UNCHANGED <<sent, handled>>
    <3>1. PICK j \in Len(handled)..Len(sent) : handled' = SubSeq(sent, 1, j) /\ sent' = sent
      BY <2>3, ReceiveFacts
    <3>2. handled = SubSeq(sent, 1, Len(handled)) /\ Len(handled) \in 0..Len(sent)
          /\ sent \in Seq(Message)
      BY DEF Stream
    <3>3. CASE j = Len(handled)
      BY <3>1, <3>2, <3>3
    <3>4. CASE j # Len(handled)
      <4>1. j \in Len(handled)+1..Len(sent)
        <5> DEFINE h == Len(handled)
                   n1 == Len(sent)
        <5>1. h \in 0..n1 /\ n1 \in Nat
          BY <3>2
        <5>2. j \in h..n1 /\ j # h
          BY <3>4
        <5> HIDE DEF h, n1
        <5>3. j \in h+1..n1
          BY <5>1, <5>2
        <5> QED BY <5>3 DEF h, n1
      <4> QED BY <3>1, <4>1 DEF Channel!Next, Channel!HandleUpTo
    <3> QED BY <3>3, <3>4
  <2>4. CASE UNCHANGED vars
    BY <2>4 DEF vars
  <2> QED BY <2>1, <2>2, <2>3, <2>4 DEF Next
<1> QED BY <1>1, <1>2, CodecInvariant, PTL DEF Spec, MessagesSurvive, Channel!Spec

=============================================================================
