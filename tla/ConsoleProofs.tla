--------------------------- MODULE ConsoleProofs ---------------------------
(***************************************************************************)
(* Theorems about Console, for every alphabet, every limit of a line and   *)
(* of its arguments, and any number of lines.                              *)
(***************************************************************************)
EXTENDS Console, FiniteSetTheorems, WellFoundedInduction, SequenceTheorems, TLAPS

-----------------------------------------------------------------------------
(* Numbers, sets and sequences. *)

(* A set of numbers has a first one. *)
LEMMA FirstOf ==
  ASSUME NEW T, T \subseteq Nat, T # {}
  PROVE  \E x \in T : \A y \in T : x <= y
<1> DEFINE R == {ss \in Nat \X Nat : ss[1] < ss[2]}
<1>1. IsWellFoundedOn(R, Nat)
  BY NatLessThanWellFounded DEF OpToRel
<1>2. PICK x \in T : \A y \in T : <<y, x>> \notin R
  <2> HIDE DEF R
  <2> QED BY <1>1, WFMin
<1>3. ASSUME NEW y \in T PROVE x <= y
  <2>1. ~(<<y, x>>[1] < <<y, x>>[2])
    BY <1>2
  <2> QED BY <2>1
<1> QED BY <1>3

(* The elements of a part, place by place. *)
LEMMA PartFacts ==
  ASSUME NEW S, NEW s \in Seq(S), NEW i \in Nat \ {0}, NEW j \in Nat, i <= j + 1, j <= Len(s)
  PROVE  /\ SubSeq(s, i, j) \in Seq(S) /\ Len(SubSeq(s, i, j)) = j - i + 1
         /\ \A k \in 1..j-i+1 : SubSeq(s, i, j)[k] = s[i + k - 1]
<1>1. \A k \in i..j : s[k] \in S
  BY ElementOfSeq
<1> QED BY <1>1, SubSeqProperties

(* What is left of a sequence from a place on. *)
LEMMA AfterFacts ==
  ASSUME NEW S, NEW s \in Seq(S), NEW i \in 1..Len(s)+1
  PROVE  /\ After(s, i) \in Seq(S) /\ Len(After(s, i)) = Len(s) - i + 1
         /\ \A k \in 1..Len(s)-i+1 : After(s, i)[k] = s[i + k - 1]
<1>1. Len(s) \in Nat /\ i \in Nat \ {0} /\ i <= Len(s) + 1
  OBVIOUS
<1> QED BY <1>1, PartFacts DEF After

-----------------------------------------------------------------------------
(* Reading a line. *)

LEMMA SkipBlanksFacts ==
  ASSUME NEW s \in Line, NEW i \in 1..Len(s)+1
  PROVE  /\ SkipBlanks(s, i) \in i..Len(s)+1
         /\ \A j \in i..SkipBlanks(s, i)-1 : s[j] \in Blank
         /\ SkipBlanks(s, i) <= Len(s) => s[SkipBlanks(s, i)] \notin Blank
<1> DEFINE Is(k) == (\A j \in i..k-1 : s[j] \in Blank) /\ (k <= Len(s) => s[k] \notin Blank)
<1>1. Len(s) \in Nat
  BY DEF Line
<1>2. \E k \in i..Len(s)+1 : Is(k)
  <2> DEFINE T == {k \in i..Len(s)+1 : k <= Len(s) => s[k] \notin Blank}
  <2>1. T \subseteq Nat /\ Len(s) + 1 \in T
    BY <1>1
  <2>2. PICK k \in T : \A y \in T : k <= y
    <3> HIDE DEF T
    <3> QED BY <2>1, FirstOf
  <2>3. \A j \in i..k-1 : j \in i..Len(s)+1 /\ j \notin T
    BY <1>1, <2>2
  <2> QED BY <2>2, <2>3
<1>3. SkipBlanks(s, i) \in i..Len(s)+1 /\ Is(SkipBlanks(s, i))
  BY <1>2 DEF SkipBlanks
<1> QED BY <1>3

LEMMA SkipWordFacts ==
  ASSUME NEW s \in Line, NEW i \in 1..Len(s)+1
  PROVE  /\ SkipWord(s, i) \in i..Len(s)+1
         /\ \A j \in i..SkipWord(s, i)-1 : s[j] \notin Blank
         /\ SkipWord(s, i) <= Len(s) => s[SkipWord(s, i)] \in Blank
<1> DEFINE Is(k) == (\A j \in i..k-1 : s[j] \notin Blank) /\ (k <= Len(s) => s[k] \in Blank)
<1>1. Len(s) \in Nat
  BY DEF Line
<1>2. \E k \in i..Len(s)+1 : Is(k)
  <2> DEFINE T == {k \in i..Len(s)+1 : k <= Len(s) => s[k] \in Blank}
  <2>1. T \subseteq Nat /\ Len(s) + 1 \in T
    BY <1>1
  <2>2. PICK k \in T : \A y \in T : k <= y
    <3> HIDE DEF T
    <3> QED BY <2>1, FirstOf
  <2>3. \A j \in i..k-1 : j \in i..Len(s)+1 /\ j \notin T
    BY <1>1, <2>2
  <2> QED BY <2>2, <2>3
<1>3. SkipWord(s, i) \in i..Len(s)+1 /\ Is(SkipWord(s, i))
  BY <1>2 DEF SkipWord
<1> QED BY <1>3

(* Where the name of a command begins and ends, and where its rest begins. *)
NameAt(s) == SkipBlanks(s, 1)
NameEnd(s) == SkipWord(s, NameAt(s))
RestAt(s) == SkipBlanks(s, NameEnd(s))

LEMMA ArgumentFacts ==
  ASSUME NEW s \in Line
  PROVE  /\ NameAt(s) \in 1..Len(s)+1 /\ NameEnd(s) \in NameAt(s)..Len(s)+1
         /\ RestAt(s) \in NameEnd(s)..Len(s)+1
         /\ \A j \in 1..NameAt(s)-1 : s[j] \in Blank
         /\ \A j \in NameAt(s)..NameEnd(s)-1 : s[j] \notin Blank
         /\ \A j \in NameEnd(s)..RestAt(s)-1 : s[j] \in Blank
         /\ NameAt(s) <= Len(s) => s[NameAt(s)] \notin Blank
         /\ NameEnd(s) <= Len(s) => s[NameEnd(s)] \in Blank
         /\ RestAt(s) <= Len(s) => s[RestAt(s)] \notin Blank
<1>1. Len(s) \in Nat /\ 1 \in 1..Len(s)+1
  BY DEF Line
<1>2. /\ NameAt(s) \in 1..Len(s)+1 /\ \A j \in 1..NameAt(s)-1 : s[j] \in Blank
      /\ NameAt(s) <= Len(s) => s[NameAt(s)] \notin Blank
  BY <1>1, SkipBlanksFacts DEF NameAt
<1>3. /\ NameEnd(s) \in NameAt(s)..Len(s)+1
      /\ \A j \in NameAt(s)..NameEnd(s)-1 : s[j] \notin Blank
      /\ NameEnd(s) <= Len(s) => s[NameEnd(s)] \in Blank
  BY <1>2, SkipWordFacts DEF NameEnd
<1>4. NameEnd(s) \in 1..Len(s)+1
  BY <1>1, <1>2, <1>3
<1>5. /\ RestAt(s) \in NameEnd(s)..Len(s)+1
      /\ \A j \in NameEnd(s)..RestAt(s)-1 : s[j] \in Blank
      /\ RestAt(s) <= Len(s) => s[RestAt(s)] \notin Blank
  BY <1>4, SkipBlanksFacts DEF RestAt
<1> QED BY <1>2, <1>3, <1>5

LEMMA SplitIs ==
  ASSUME NEW type, NEW s
  PROVE  Split(type, s) =
           IF \/ NameAt(s) > Len(s) \/ NameEnd(s) - NameAt(s) >= NameMax
              \/ After(s, RestAt(s)) = <<>>
              \/ type = "/sendfile" /\ Len(After(s, RestAt(s))) >= FileMax
           THEN Usage
           ELSE [type |-> type, name |-> SubSeq(s, NameAt(s), NameEnd(s) - 1),
                 rest |-> After(s, RestAt(s))]
BY DEF Split, NameAt, NameEnd, RestAt

(* What follows the first symbol of a line, place by place. *)
LEMMA ArgsFacts ==
  ASSUME NEW line \in Line, line # <<>>
  PROVE  /\ After(line, 2) \in Line /\ Len(After(line, 2)) = Len(line) - 1
         /\ \A j \in 1..Len(line)-1 : After(line, 2)[j] = line[j + 1]
<1>1. 2 \in 1..Len(line)+1 /\ Len(line) \in Nat \ {0} /\ line \in Seq(Symbol)
  BY EmptySeq DEF Line
<1>2. /\ After(line, 2) \in Seq(Symbol) /\ Len(After(line, 2)) = Len(line) - 2 + 1
      /\ \A k \in 1..Len(line)-2+1 : After(line, 2)[k] = line[2 + k - 1]
  BY <1>1, AfterFacts
<1>3. \A j \in 1..Len(line)-1 : 2 + j - 1 = j + 1
  BY <1>1
<1> QED BY <1>1, <1>2, <1>3 DEF Line

(* The places of the arguments as places of the line. *)
Places(line) ==
  LET s == After(line, 2) IN <<NameAt(s) + 1, NameEnd(s) + 1, RestAt(s) + 1>>

(* Reads(t) of Readings: the line read with its arguments at t. *)
ReadsAt(line, t) ==
  /\ t[1] < t[2] /\ t[2] < t[3]
  /\ \A m \in 2..t[1]-1 : line[m] \in Blank
  /\ \A m \in t[1]..t[2]-1 : line[m] \notin Blank
  /\ \A m \in t[2]..t[3]-1 : line[m] \in Blank
  /\ line[t[3]] \notin Blank

Triple(line) == (3..Len(line)) \X (3..Len(line)) \X (3..Len(line))

LEMMA ReadingsAre ==
  ASSUME NEW line
  PROVE  Readings(line) = {<<SubSeq(line, t[1], t[2] - 1), After(line, t[3])>> :
                             t \in {u \in Triple(line) : ReadsAt(line, u)}}
BY DEF Readings, ReadsAt, Triple

(* There is no other way to read a line than the one the code takes. *)
LEMMA OneWay ==
  ASSUME NEW line \in Line, Len(line) > 1, NEW t \in Triple(line), ReadsAt(line, t)
  PROVE  t = Places(line)
<1> DEFINE s == After(line, 2)
           n == Len(line)
           a == NameAt(s)
           e == NameEnd(s)
           k == RestAt(s)
<1>1. s \in Line /\ Len(s) = n - 1 /\ \A j \in 1..n-1 : s[j] = line[j + 1]
  BY ArgsFacts, EmptySeq
<1>2. /\ a \in 1..Len(s)+1 /\ e \in a..Len(s)+1 /\ k \in e..Len(s)+1
      /\ \A j \in 1..a-1 : s[j] \in Blank
      /\ \A j \in a..e-1 : s[j] \notin Blank
      /\ \A j \in e..k-1 : s[j] \in Blank
      /\ a <= Len(s) => s[a] \notin Blank
      /\ e <= Len(s) => s[e] \in Blank
      /\ k <= Len(s) => s[k] \notin Blank
  BY <1>1, ArgumentFacts
<1>3. n \in Nat /\ n > 1
  BY DEF Line
<1>4. PICK x \in 3..n, y \in 3..n, z \in 3..n : t = <<x, y, z>>
  BY DEF Triple
<1>5. /\ x < y /\ y < z
      /\ \A m \in 2..x-1 : line[m] \in Blank
      /\ \A m \in x..y-1 : line[m] \notin Blank
      /\ \A m \in y..z-1 : line[m] \in Blank
      /\ line[z] \notin Blank
  BY <1>4 DEF ReadsAt
<1> HIDE DEF s, n, a, e, k
<1>6. \A m \in 2..n : m - 1 \in 1..n-1 /\ s[m - 1] = line[m]
  <2> TAKE m \in 2..n
  <2>1. m - 1 \in 1..n-1 /\ (m - 1) + 1 = m
    BY <1>3
  <2> QED BY <1>1, <2>1
<1>7. x = a + 1
  <2>1. ~(x - 1 < a)
    <3> SUFFICES ASSUME x - 1 < a PROVE FALSE
      OBVIOUS
    <3>1. x - 1 \in 1..a-1 /\ x \in 2..n /\ x \in x..y-1
      BY <1>1, <1>2, <1>3, <1>5
    <3> QED BY <1>2, <1>5, <1>6, <3>1
  <2>2. ~(x - 1 > a)
    <3> SUFFICES ASSUME x - 1 > a PROVE FALSE
      OBVIOUS
    <3>1. a + 1 \in 2..x-1 /\ a \in 1..n-1 /\ a <= Len(s)
      BY <1>1, <1>2, <1>3, <1>5
    <3> QED BY <1>1, <1>2, <1>5, <3>1
  <2> QED BY <1>1, <1>2, <1>3, <2>1, <2>2
<1>8. y = e + 1
  <2>1. ~(y - 1 < e)
    <3> SUFFICES ASSUME y - 1 < e PROVE FALSE
      OBVIOUS
    <3>1. y - 1 \in a..e-1 /\ y \in 2..n /\ y \in y..z-1
      BY <1>1, <1>2, <1>3, <1>5, <1>7
    <3> QED BY <1>2, <1>5, <1>6, <3>1
  <2>2. ~(y - 1 > e)
    <3> SUFFICES ASSUME y - 1 > e PROVE FALSE
      OBVIOUS
    <3>1. e + 1 \in x..y-1 /\ e \in 1..n-1 /\ e <= Len(s)
      BY <1>1, <1>2, <1>3, <1>5, <1>7
    <3> QED BY <1>1, <1>2, <1>5, <3>1
  <2> QED BY <1>1, <1>2, <1>3, <2>1, <2>2
<1>9. z = k + 1
  <2>1. ~(z - 1 < k)
    <3> SUFFICES ASSUME z - 1 < k PROVE FALSE
      OBVIOUS
    <3>1. z - 1 \in e..k-1 /\ z \in 2..n
      BY <1>1, <1>2, <1>3, <1>5, <1>8
    <3> QED BY <1>2, <1>5, <1>6, <3>1
  <2>2. ~(z - 1 > k)
    <3> SUFFICES ASSUME z - 1 > k PROVE FALSE
      OBVIOUS
    <3>1. k + 1 \in y..z-1 /\ k \in 1..n-1 /\ k <= Len(s)
      BY <1>1, <1>2, <1>3, <1>5, <1>8
    <3> QED BY <1>1, <1>2, <1>5, <3>1
  <2> QED BY <1>1, <1>2, <1>3, <2>1, <2>2
<1> QED BY <1>4, <1>7, <1>8, <1>9 DEF Places, s, a, e, k

(* And the code finds it when there is one. *)
LEMMA WayThere ==
  ASSUME NEW line \in Line, Len(line) > 1, line[2] \in Blank,
         RestAt(After(line, 2)) <= Len(After(line, 2))
  PROVE  Places(line) \in Triple(line) /\ ReadsAt(line, Places(line))
<1> DEFINE s == After(line, 2)
           n == Len(line)
           a == NameAt(s)
           e == NameEnd(s)
           k == RestAt(s)
<1>1. s \in Line /\ Len(s) = n - 1 /\ \A j \in 1..n-1 : s[j] = line[j + 1]
  BY ArgsFacts, EmptySeq
<1>2. /\ a \in 1..Len(s)+1 /\ e \in a..Len(s)+1 /\ k \in e..Len(s)+1
      /\ \A j \in 1..a-1 : s[j] \in Blank
      /\ \A j \in a..e-1 : s[j] \notin Blank
      /\ \A j \in e..k-1 : s[j] \in Blank
      /\ a <= Len(s) => s[a] \notin Blank
      /\ e <= Len(s) => s[e] \in Blank
      /\ k <= Len(s) => s[k] \notin Blank
  BY <1>1, ArgumentFacts
<1>3. n \in Nat /\ n > 1 /\ k <= Len(s) /\ line[2] \in Blank
  BY DEF Line
<1>4. Places(line) = <<a + 1, e + 1, k + 1>>
  BY DEF Places
<1> HIDE DEF s, n, a, e, k
<1>5. s[1] = line[2]
  BY <1>1, <1>3
<1>6. a \in 2..n-1 /\ e \in a..n-1 /\ k \in e..n-1
  BY <1>1, <1>2, <1>3, <1>5
<1>7. a < e /\ e < k
  <2>1. a # e
    BY <1>1, <1>2, <1>3, <1>6
  <2>2. e # k
    BY <1>1, <1>2, <1>3, <1>6
  <2> QED BY <1>6, <2>1, <2>2
<1>8. \A m \in 2..n : m - 1 \in 1..n-1 /\ s[m - 1] = line[m]
  <2> TAKE m \in 2..n
  <2>1. m - 1 \in 1..n-1 /\ (m - 1) + 1 = m
    BY <1>3
  <2> QED BY <1>1, <2>1
<1>9. <<a + 1, e + 1, k + 1>> \in Triple(line)
  <2>1. a + 1 \in 3..n /\ e + 1 \in 3..n /\ k + 1 \in 3..n
    BY <1>3, <1>6, <1>7
  <2> QED BY <2>1 DEF Triple, n
<1>10. \A m \in 2..(a+1)-1 : line[m] \in Blank
  <2> TAKE m \in 2..(a+1)-1
  <2>1. m \in 2..n /\ m - 1 \in 1..a-1
    BY <1>3, <1>6
  <2> QED BY <1>2, <1>8, <2>1
<1>11. \A m \in a+1..(e+1)-1 : line[m] \notin Blank
  <2> TAKE m \in a+1..(e+1)-1
  <2>1. m \in 2..n /\ m - 1 \in a..e-1
    BY <1>3, <1>6
  <2> QED BY <1>2, <1>8, <2>1
<1>12. \A m \in e+1..(k+1)-1 : line[m] \in Blank
  <2> TAKE m \in e+1..(k+1)-1
  <2>1. m \in 2..n /\ m - 1 \in e..k-1
    BY <1>3, <1>6
  <2> QED BY <1>2, <1>8, <2>1
<1>13. line[k + 1] \notin Blank
  <2>1. k \in 1..n-1 /\ s[k] \notin Blank
    BY <1>2, <1>3, <1>6
  <2> QED BY <1>1, <2>1
<1>14. a + 1 < e + 1 /\ e + 1 < k + 1
  BY <1>6, <1>7
<1> QED BY <1>4, <1>9, <1>10, <1>11, <1>12, <1>13, <1>14 DEF ReadsAt

(* The arguments are the same whether they are cut out of the line or of what
   follows its first symbol. *)
LEMMA SameParts ==
  ASSUME NEW line \in Line, line # <<>>, NEW i \in 1..Len(line), NEW j \in Nat,
         i <= j + 1, j < Len(line)
  PROVE  SubSeq(line, i + 1, j + 1) = SubSeq(After(line, 2), i, j)
<1> DEFINE s == After(line, 2)
           p == SubSeq(line, i + 1, j + 1)
           q == SubSeq(s, i, j)
<1>1. s \in Line /\ Len(s) = Len(line) - 1 /\ \A m \in 1..Len(line)-1 : s[m] = line[m + 1]
  BY ArgsFacts
<1>2. Len(line) \in Nat /\ line \in Seq(Symbol) /\ s \in Seq(Symbol)
  BY <1>1 DEF Line
<1>3. /\ p \in Seq(Symbol) /\ Len(p) = (j + 1) - (i + 1) + 1
      /\ \A m \in 1..(j+1)-(i+1)+1 : p[m] = line[(i + 1) + m - 1]
  <2>1. i + 1 \in Nat \ {0} /\ j + 1 \in Nat /\ i + 1 <= (j + 1) + 1 /\ j + 1 <= Len(line)
    BY <1>2
  <2> QED BY <1>2, <2>1, PartFacts
<1>4. /\ q \in Seq(Symbol) /\ Len(q) = j - i + 1
      /\ \A m \in 1..j-i+1 : q[m] = s[i + m - 1]
  <2> HIDE DEF s
  <2>1. i \in Nat \ {0} /\ j <= Len(s)
    BY <1>1, <1>2
  <2> QED BY <1>2, <2>1, PartFacts
<1> HIDE DEF s, p, q
<1>5. Len(p) = j - i + 1
  BY <1>2, <1>3
<1>6. ASSUME NEW m \in 1..Len(p) PROVE p[m] = q[m]
  <2>1. m \in 1..j-i+1 /\ m \in 1..(j+1)-(i+1)+1
    BY <1>2, <1>5
  <2>2. i + m - 1 \in 1..Len(line)-1 /\ (i + 1) + m - 1 = (i + m - 1) + 1
    BY <1>2, <2>1
  <2>3. p[m] = line[(i + 1) + m - 1] /\ q[m] = s[i + m - 1]
    BY <1>3, <1>4, <2>1
  <2> QED BY <1>1, <2>2, <2>3
<1>7. p = q
  BY <1>3, <1>4, <1>5, <1>6, SeqEqual
<1> QED BY <1>7 DEF p, q, s

(* What a line can be read as, in terms of the places the code finds. *)
LEMMA ReadingsFound ==
  ASSUME NEW line \in Line, Len(line) > 1, line[2] \in Blank, NEW s, s = After(line, 2)
  PROVE  /\ RestAt(s) <= Len(s) =>
              Readings(line) = {<<SubSeq(s, NameAt(s), NameEnd(s) - 1), After(s, RestAt(s))>>}
         /\ RestAt(s) > Len(s) => Readings(line) = {}
<1> DEFINE n == Len(line)
           a == NameAt(s)
           e == NameEnd(s)
           k == RestAt(s)
           R(t) == <<SubSeq(line, t[1], t[2] - 1), After(line, t[3])>>
<1>1. n \in Nat /\ n > 1 /\ line # <<>>
  BY EmptySeq DEF Line
<1>2. s \in Line /\ Len(s) = n - 1
  BY <1>1, ArgsFacts
<1>3. a \in 1..n /\ e \in a..n /\ k \in e..n
  BY <1>1, <1>2, ArgumentFacts
<1>4. Places(line) = <<a + 1, e + 1, k + 1>>
  BY DEF Places
<1>5. Readings(line) = {R(t) : t \in {u \in Triple(line) : ReadsAt(line, u)}}
  BY ReadingsAre
<1>6. ASSUME k <= Len(s) PROVE Readings(line) = {<<SubSeq(s, a, e - 1), After(s, k)>>}
  <2>1. {u \in Triple(line) : ReadsAt(line, u)} = {Places(line)}
    BY <1>1, <1>6, OneWay, WayThere
  <2>2. Readings(line) = {R(Places(line))}
    BY <1>5, <2>1
  <2>3. R(Places(line)) = <<SubSeq(line, a + 1, (e + 1) - 1), After(line, k + 1)>>
    <3> DEFINE p == Places(line)
    <3>1. p[1] = a + 1 /\ p[2] = e + 1 /\ p[3] = k + 1
      <4> HIDE DEF a, e, k
      <4> QED BY <1>4
    <3> HIDE DEF p, a, e, k
    <3>2. R(p) = <<SubSeq(line, a + 1, (e + 1) - 1), After(line, k + 1)>>
      BY <3>1
    <3> QED BY <3>2 DEF p
  <2>4. SubSeq(line, a + 1, (e + 1) - 1) = SubSeq(s, a, e - 1)
    <3> HIDE DEF a, e, k, n
    <3> DEFINE j == e - 1
    <3>1. a \in 1..Len(line) /\ j \in Nat /\ a <= j + 1 /\ j < Len(line)
      BY <1>1, <1>3 DEF n
    <3>2. (e + 1) - 1 = j + 1
      BY <1>1, <1>3
    <3> HIDE DEF j
    <3>3. SubSeq(line, a + 1, j + 1) = SubSeq(After(line, 2), a, j)
      BY <1>1, <3>1, SameParts
    <3> QED BY <3>2, <3>3 DEF j
  <2>5. After(line, k + 1) = After(s, k)
    <3> HIDE DEF a, e, k, n
    <3> DEFINE j == n - 1
    <3>1. k \in 1..Len(line) /\ j \in Nat /\ k <= j + 1 /\ j < Len(line) /\ j + 1 = n /\ Len(s) = j
      BY <1>1, <1>2, <1>3 DEF n
    <3> HIDE DEF j
    <3>2. SubSeq(line, k + 1, j + 1) = SubSeq(After(line, 2), k, j)
      BY <1>1, <3>1, SameParts
    <3> QED BY <3>1, <3>2 DEF After, n
  <2> QED BY <2>2, <2>3, <2>4, <2>5
<1>7. ASSUME k > Len(s) PROVE Readings(line) = {}
  <2> SUFFICES ASSUME NEW t \in Triple(line), ReadsAt(line, t) PROVE FALSE
    BY <1>5
  <2>1. t = <<a + 1, e + 1, k + 1>>
    BY <1>1, <1>4, OneWay
  <2>2. k + 1 \in 3..n
    BY <2>1 DEF Triple
  <2> HIDE DEF a, e, k, n
  <2> QED BY <1>1, <1>2, <1>3, <1>7, <2>2
<1> QED BY <1>6, <1>7

(* Split promises its caller what MeansWhatWasTyped says of a line. *)
Means(line, r) ==
  line # <<>> /\ line[1] \in TwoNames =>
    /\ r.type = line[1] => Readings(line) = {<<r.name, r.rest>>}
    /\ r.type = "usage" => \A p \in Readings(line) :
         \/ Len(p[1]) >= NameMax
         \/ line[1] = "/sendfile" /\ Len(p[2]) >= FileMax

LEMMA SplitMeans ==
  ASSUME NEW line \in Line, Len(line) > 1, line[2] \in Blank, line[1] \in TwoNames
  PROVE  Means(line, Split(line[1], After(line, 2)))
<1> DEFINE s == After(line, 2)
           type == line[1]
           r == Split(type, s)
           name == SubSeq(s, NameAt(s), NameEnd(s) - 1)
           rest == After(s, RestAt(s))
<1>1. Len(line) \in Nat /\ line # <<>>
  BY EmptySeq DEF Line
<1>2. s \in Line /\ Len(s) \in Nat
  BY <1>1, ArgsFacts DEF Line
<1>3. /\ NameAt(s) \in 1..Len(s)+1 /\ NameEnd(s) \in NameAt(s)..Len(s)+1
      /\ RestAt(s) \in NameEnd(s)..Len(s)+1
  BY <1>2, ArgumentFacts
<1>4. /\ RestAt(s) <= Len(s) => Readings(line) = {<<name, rest>>}
      /\ RestAt(s) > Len(s) => Readings(line) = {}
  BY ReadingsFound
<1>5. rest = <<>> <=> RestAt(s) > Len(s)
  <2> DEFINE k == RestAt(s)
  <2>1. k \in 1..Len(s)+1 /\ s \in Seq(Symbol)
    BY <1>2, <1>3 DEF Line
  <2> HIDE DEF k, s
  <2>2. After(s, k) \in Seq(Symbol) /\ Len(After(s, k)) = Len(s) - k + 1
    BY <2>1, AfterFacts
  <2>3. After(s, k) = <<>> <=> Len(After(s, k)) = 0
    BY <2>2, EmptySeq
  <2>4. After(s, k) = <<>> <=> k > Len(s)
    BY <1>2, <2>1, <2>2, <2>3
  <2> QED BY <2>4 DEF k, s
<1>6. Len(name) = NameEnd(s) - NameAt(s)
  <2> DEFINE a == NameAt(s)
             j == NameEnd(s) - 1
  <2>1. a \in Nat \ {0} /\ j \in Nat /\ a <= j + 1 /\ j <= Len(s) /\ s \in Seq(Symbol)
        /\ j - a + 1 = NameEnd(s) - a
    BY <1>2, <1>3 DEF Line
  <2> HIDE DEF a, j, s
  <2>2. Len(SubSeq(s, a, j)) = j - a + 1
    BY <2>1, PartFacts
  <2> QED BY <2>1, <2>2 DEF a, j, s
<1>7. type # "usage"
  BY DEF TwoNames
<1>8. r = IF \/ NameAt(s) > Len(s) \/ NameEnd(s) - NameAt(s) >= NameMax
             \/ rest = <<>>
             \/ type = "/sendfile" /\ Len(rest) >= FileMax
          THEN Usage ELSE [type |-> type, name |-> name, rest |-> rest]
  BY SplitIs
<1>9. NameAt(s) > Len(s) => RestAt(s) > Len(s)
  BY <1>2, <1>3
<1> HIDE DEF s, type, r, name, rest
<1>10. CASE \/ NameAt(s) > Len(s) \/ NameEnd(s) - NameAt(s) >= NameMax
            \/ rest = <<>>
            \/ type = "/sendfile" /\ Len(rest) >= FileMax
  <2>1. r.type = "usage"
    BY <1>8, <1>10 DEF Usage
  <2>2. r.type # type
    BY <1>7, <2>1
  <2>3. ASSUME NEW p \in Readings(line)
        PROVE  \/ Len(p[1]) >= NameMax
               \/ type = "/sendfile" /\ Len(p[2]) >= FileMax
    <3>1. RestAt(s) <= Len(s) /\ p = <<name, rest>>
      BY <1>2, <1>3, <1>4
    <3>2. ~(NameAt(s) > Len(s)) /\ rest # <<>>
      BY <1>2, <1>3, <1>5, <1>9, <3>1
    <3> QED BY <1>6, <1>10, <3>1, <3>2
  <2> QED BY <2>1, <2>2, <2>3 DEF Means, type, r, s
<1>11. CASE ~(\/ NameAt(s) > Len(s) \/ NameEnd(s) - NameAt(s) >= NameMax
              \/ rest = <<>>
              \/ type = "/sendfile" /\ Len(rest) >= FileMax)
  <2>1. r.type = type /\ r.name = name /\ r.rest = rest
    BY <1>8, <1>11
  <2>2. RestAt(s) <= Len(s)
    BY <1>2, <1>3, <1>5, <1>11
  <2>3. r.type # "usage"
    BY <1>7, <2>1
  <2> QED BY <1>4, <2>1, <2>2, <2>3 DEF Means, type, r, s
<1> QED BY <1>10, <1>11

(* What a line becomes, one case after the other. *)
LEMMA InterpretCases ==
  ASSUME NEW line \in Line
  PROVE  LET word == line[1]
             own  == Len(line) = 1 \/ (Len(line) > 1 /\ line[2] \in Blank)
             r    == Interpret(line)
         IN  /\ line = <<>> => r = [type |-> "nothing"]
             /\ line # <<>> =>
                  \/ Len(line) = 1 /\ word \in Alone /\ r = [type |-> word]
                  \/ own /\ word \in TwoNames /\ r = Split(word, After(line, 2))
                  \/ own /\ word \in OneName /\ r = SingleName(word, After(line, 2))
                  \/ own /\ word \in OneTid /\ r = TidArgument(word, After(line, 2))
                  \/ word \in Command /\ (word \in TwoNames => ~own) /\ r = [type |-> "unknown"]
                  \/ word \notin Command /\ r = [type |-> "chat", text |-> line]
<1> DEFINE word == line[1]
           bare == Len(line) = 1
           args == After(line, 2)
           own  == bare \/ (Len(line) > 1 /\ line[2] \in Blank)
           r    == Interpret(line)
<1>1. Len(line) \in Nat /\ (line = <<>> <=> Len(line) = 0)
  BY EmptySeq DEF Line
<1>2. r = CASE line = <<>>               -> [type |-> "nothing"]
            [] bare /\ word \in Alone    -> [type |-> word]
            [] own /\ word \in TwoNames  -> Split(word, args)
            [] own /\ word \in OneName   -> SingleName(word, args)
            [] own /\ word \in OneTid    -> TidArgument(word, args)
            [] OTHER -> IF word \in Command
                        THEN [type |-> "unknown"] ELSE [type |-> "chat", text |-> line]
  BY DEF Interpret
<1>3. /\ Alone \cap (TwoNames \cup OneName \cup OneTid) = {}
      /\ TwoNames \cap (OneName \cup OneTid) = {} /\ OneName \cap OneTid = {}
      /\ Command = TwoNames \cup OneName \cup OneTid \cup Alone
  BY DEF Alone, TwoNames, OneName, OneTid, Command
<1> HIDE DEF r, word, args
<1>4. CASE line = <<>>
  <2>1. ~bare /\ ~own
    BY <1>1, <1>4
  <2> HIDE DEF bare, own
  <2>2. r = [type |-> "nothing"]
    BY <1>2, <1>4, <2>1
  <2> QED BY <1>4, <2>2 DEF r
<1>5. CASE line # <<>>
  <2> HIDE DEF bare, own
  <2>1. \/ bare /\ word \in Alone /\ r = [type |-> word]
        \/ own /\ word \in TwoNames /\ r = Split(word, args)
        \/ own /\ word \in OneName /\ r = SingleName(word, args)
        \/ own /\ word \in OneTid /\ r = TidArgument(word, args)
        \/ word \in Command /\ (word \in TwoNames => ~own) /\ r = [type |-> "unknown"]
        \/ word \notin Command /\ r = [type |-> "chat", text |-> line]
    BY <1>2, <1>3, <1>5
  <2> QED BY <1>5, <2>1 DEF r, word, args, own, bare
<1> QED BY <1>4, <1>5

(* No argument, no reading: the code says so as well. *)
LEMMA BareMeans ==
  ASSUME NEW line \in Line, Len(line) = 1, line[1] \in TwoNames
  PROVE  Means(line, Split(line[1], After(line, 2)))
<1> DEFINE s == After(line, 2)
           r == Split(line[1], s)
<1>1. line # <<>>
  BY EmptySeq
<1>2. s \in Line /\ Len(s) = 0
  BY <1>1, ArgsFacts
<1>3. NameAt(s) > Len(s)
  <2> HIDE DEF s
  <2> QED BY <1>2, ArgumentFacts
<1>4. r = Usage
  <2> HIDE DEF s
  <2> QED BY <1>3, SplitIs
<1>5. Readings(line) = {}
  <2>1. Triple(line) = {}
    BY DEF Triple
  <2> QED BY <2>1, ReadingsAre
<1>6. line[1] # "usage"
  BY DEF TwoNames
<1> HIDE DEF s, r
<1> QED BY <1>4, <1>5, <1>6 DEF Means, Usage, r, s

LEMMA InterpretMeans ==
  ASSUME NEW line \in Line
  PROVE  Means(line, Interpret(line))
<1> SUFFICES ASSUME line # <<>>, line[1] \in TwoNames
             PROVE  Means(line, Interpret(line))
  BY DEF Means
<1> DEFINE word == line[1]
           own  == Len(line) = 1 \/ (Len(line) > 1 /\ line[2] \in Blank)
           r    == Interpret(line)
<1>1. word \notin Alone /\ word \notin OneName /\ word \notin OneTid /\ word \in Command
      /\ word # "unknown"
  BY DEF TwoNames, Alone, OneName, OneTid, Command
<1>2. \/ own /\ r = Split(word, After(line, 2))
      \/ r = [type |-> "unknown"]
  <2>1. \/ Len(line) = 1 /\ word \in Alone /\ r = [type |-> word]
        \/ own /\ word \in TwoNames /\ r = Split(word, After(line, 2))
        \/ own /\ word \in OneName /\ r = SingleName(word, After(line, 2))
        \/ own /\ word \in OneTid /\ r = TidArgument(word, After(line, 2))
        \/ word \in Command /\ (word \in TwoNames => ~own) /\ r = [type |-> "unknown"]
        \/ word \notin Command /\ r = [type |-> "chat", text |-> line]
    BY InterpretCases
  <2> HIDE DEF word, own, r
  <2> QED BY <1>1, <2>1
<1>3. CASE own /\ r = Split(word, After(line, 2))
  BY <1>3, BareMeans, SplitMeans
<1>4. CASE r = [type |-> "unknown"]
  <2>1. r.type = "unknown"
    BY <1>4
  <2> HIDE DEF r
  <2> QED BY <1>1, <2>1 DEF Means, r
<1> QED BY <1>2, <1>3, <1>4

-----------------------------------------------------------------------------
(* The types of requests: a name always fits the buffer it is copied into. *)

LEMMA NameInIs ==
  ASSUME NEW limit, NEW s \in Line, s # <<>>, Len(s) < limit
  PROVE  s \in NameIn(limit)
BY DEF NameIn

LEMMA SplitType ==
  ASSUME NEW type \in TwoNames, NEW s \in Line
  PROVE  Split(type, s) \in Request
<1> DEFINE a == NameAt(s)
           j == NameEnd(s) - 1
           k == RestAt(s)
           name == SubSeq(s, a, j)
           rest == After(s, k)
           r == Split(type, s)
<1>1. Len(s) \in Nat /\ s \in Seq(Symbol)
  BY DEF Line
<1>2. a \in 1..Len(s)+1 /\ NameEnd(s) \in a..Len(s)+1 /\ k \in 1..Len(s)+1
  BY <1>1, ArgumentFacts
<1>3. a <= Len(s) => a <= j
  <2>1. /\ NameAt(s) <= Len(s) => s[NameAt(s)] \notin Blank
        /\ NameEnd(s) <= Len(s) => s[NameEnd(s)] \in Blank
    BY ArgumentFacts
  <2>2. a <= Len(s) => a # NameEnd(s)
    BY <2>1
  <2> QED BY <1>1, <1>2, <2>2
<1>4. name \in Line /\ Len(name) = j - a + 1
  <2>1. a \in Nat \ {0} /\ j \in Nat /\ a <= j + 1 /\ j <= Len(s)
    BY <1>1, <1>2
  <2> HIDE DEF a, j
  <2>2. SubSeq(s, a, j) \in Seq(Symbol) /\ Len(SubSeq(s, a, j)) = j - a + 1
    BY <1>1, <2>1, PartFacts
  <2> QED BY <2>2 DEF Line
<1>5. rest \in Line
  <2> HIDE DEF k
  <2> QED BY <1>1, <1>2, AfterFacts DEF Line
<1>6. r = IF \/ a > Len(s) \/ NameEnd(s) - a >= NameMax
             \/ rest = <<>>
             \/ type = "/sendfile" /\ Len(rest) >= FileMax
          THEN Usage ELSE [type |-> type, name |-> name, rest |-> rest]
  BY SplitIs
<1>7. Usage \in Request
  BY DEF Usage, Request
<1>8. ASSUME ~(\/ a > Len(s) \/ NameEnd(s) - a >= NameMax
               \/ rest = <<>>
               \/ type = "/sendfile" /\ Len(rest) >= FileMax)
      PROVE  [type |-> type, name |-> name, rest |-> rest] \in Request
  <2>1. Len(name) > 0 /\ Len(name) < NameMax
    BY <1>1, <1>2, <1>3, <1>4, <1>8, ConsoleAssumption
  <2>2. name \in NameIn(NameMax)
    <3> HIDE DEF name
    <3>1. name # <<>>
      BY <2>1, EmptySeq
    <3> QED BY <1>4, <2>1, <3>1, NameInIs
  <2>3. type = "/sendfile" => rest \in NameIn(FileMax)
    <3>1. type = "/sendfile" => rest # <<>> /\ Len(rest) < FileMax
      <4>1. Len(rest) \in Nat
        BY <1>5 DEF Line
      <4> HIDE DEF rest
      <4> QED BY <1>8, <4>1, ConsoleAssumption
    <3> HIDE DEF rest
    <3> QED BY <1>5, <3>1, NameInIs
  <2> HIDE DEF name, rest
  <2>4. type \in {"/priv", "/gmsg"} \/ type = "/sendfile"
    BY DEF TwoNames
  <2> QED BY <1>5, <2>2, <2>3, <2>4 DEF Request
<1> HIDE DEF r, name, rest, a
<1> QED BY <1>6, <1>7, <1>8 DEF r

LEMMA SingleNameType ==
  ASSUME NEW type \in OneName, NEW s \in Line
  PROVE  SingleName(type, s) \in Request
<1> DEFINE name == After(s, SkipBlanks(s, 1))
<1>1. name \in Line
  <2>1. Len(s) \in Nat /\ s \in Seq(Symbol) /\ 1 \in 1..Len(s)+1
    BY DEF Line
  <2>2. SkipBlanks(s, 1) \in 1..Len(s)+1
    BY <2>1, SkipBlanksFacts
  <2> QED BY <2>1, <2>2, AfterFacts DEF Line
<1>2. SingleName(type, s) = IF name = <<>> \/ Len(name) >= NameMax THEN Usage
                            ELSE [type |-> type, name |-> name]
  BY DEF SingleName
<1> HIDE DEF name
<1>3. ~(name = <<>> \/ Len(name) >= NameMax) => name \in NameIn(NameMax)
  <2>1. Len(name) \in Nat
    BY <1>1 DEF Line
  <2> QED BY <1>1, <2>1, NameInIs, ConsoleAssumption
<1> QED BY <1>2, <1>3 DEF Request, Usage

LEMMA TidArgumentType ==
  ASSUME NEW type \in OneTid, NEW s \in Line
  PROVE  TidArgument(type, s) \in Request
<1> DEFINE arg == After(s, SkipBlanks(s, 1))
<1> DEFINE number == Number(arg)
<1>2. TidArgument(type, s) =
        IF arg = <<>> \/ ~(ToSet(arg) \subseteq Digit) \/ number \notin 0..TidMax THEN Usage
        ELSE [type |-> type, tid |-> number]
  BY DEF TidArgument
<1> HIDE DEF arg, number
<1> QED BY <1>2 DEF Request, Usage

LEMMA InterpretType ==
  ASSUME NEW line \in Line
  PROVE  Interpret(line) \in Request
<1> DEFINE word == line[1]
           r    == Interpret(line)
           args == After(line, 2)
<1>1. CASE line = <<>>
  <2>1. r = [type |-> "nothing"]
    BY <1>1, InterpretCases
  <2> QED BY <2>1 DEF Request
<1>2. CASE line # <<>>
  <2>1. args \in Line
    BY <1>2, ArgsFacts
  <2>2. \/ word \in Alone /\ r = [type |-> word]
        \/ word \in TwoNames /\ r = Split(word, args)
        \/ word \in OneName /\ r = SingleName(word, args)
        \/ word \in OneTid /\ r = TidArgument(word, args)
        \/ r = [type |-> "unknown"]
        \/ r = [type |-> "chat", text |-> line]
    BY <1>2, InterpretCases
  <2> HIDE DEF word, r, args
  <2>3. CASE word \in Alone /\ r = [type |-> word]
    BY <2>3 DEF Request, r
  <2>4. CASE r = [type |-> "unknown"]
    BY <2>4 DEF Request, r
  <2>5. CASE r = [type |-> "chat", text |-> line]
    BY <2>5 DEF Request, r
  <2> QED BY <2>1, <2>2, <2>3, <2>4, <2>5, SplitType, SingleNameType, TidArgumentType DEF r
<1> QED BY <1>1, <1>2

-----------------------------------------------------------------------------
(* Texts with line ends in them, and the lines they hold. *)

Char == Symbol \cup {NewLine}

Ends(s) == {k \in 1..Len(s) : s[k] = NewLine}

Later(s, p) == {q \in Ends(s) : q > p}

LineAt(s, lines, p) == lines[Len(lines) - Cardinality(Later(s, p))]

(* The line before place p of the text s. *)
StandsAt(s, line, p) ==
  /\ p - Len(line) - 1 \in Ends(s) \cup {0}
  /\ \A j \in 1..Len(line) : s[p - Len(line) - 1 + j] = line[j]

(* InputIsTyped, of any text and any lines. *)
Holds(s, lines, over) ==
  /\ Cardinality(Ends(s)) <= Len(lines)
  /\ \A p \in Ends(s) : StandsAt(s, LineAt(s, lines, p), p)
  /\ ~over => Len(s) \in Ends(s) \cup {0}

LEMMA EndsFinite ==
  ASSUME NEW s \in Seq(Char)
  PROVE  /\ Ends(s) \subseteq 1..Len(s) /\ Len(s) \in Nat
         /\ IsFiniteSet(Ends(s)) /\ Cardinality(Ends(s)) \in Nat
         /\ \A p : IsFiniteSet(Later(s, p)) /\ Cardinality(Later(s, p)) \in Nat
<1>1. Ends(s) \subseteq 1..Len(s) /\ Len(s) \in Nat
  BY DEF Ends
<1>2. IsFiniteSet(1..Len(s))
  BY <1>1, FS_Interval
<1>3. IsFiniteSet(Ends(s))
  BY <1>1, <1>2, FS_Subset
<1>4. ASSUME NEW p PROVE IsFiniteSet(Later(s, p)) /\ Cardinality(Later(s, p)) \in Nat
  <2>1. Later(s, p) \in SUBSET Ends(s)
    BY DEF Later
  <2> QED BY <1>3, <2>1, FS_Subset, FS_CardinalityType
<1> QED BY <1>1, <1>3, <1>4, FS_CardinalityType

(* The lines that stand in a text are lines that were entered. *)
LEMMA LaterFewer ==
  ASSUME NEW s \in Seq(Char), NEW p \in Ends(s)
  PROVE  Cardinality(Later(s, p)) < Cardinality(Ends(s))
<1>1. Later(s, p) \in SUBSET (Ends(s) \ {p})
  BY EndsFinite DEF Later
<1>2. IsFiniteSet(Ends(s) \ {p}) /\ Cardinality(Ends(s) \ {p}) = Cardinality(Ends(s)) - 1
  BY EndsFinite, FS_RemoveElement
<1>3. Cardinality(Later(s, p)) <= Cardinality(Ends(s) \ {p})
  BY <1>1, <1>2, FS_Subset
<1> QED BY <1>2, <1>3, EndsFinite

LEMMA LineAtType ==
  ASSUME NEW s \in Seq(Char), NEW lines \in Seq(Line), NEW p \in Ends(s),
         Cardinality(Ends(s)) <= Len(lines)
  PROVE  /\ LineAt(s, lines, p) \in Line
         /\ Len(lines) - Cardinality(Later(s, p)) \in 1..Len(lines)
<1> DEFINE n == Len(lines) - Cardinality(Later(s, p))
<1>1. n \in 1..Len(lines)
  BY LaterFewer, EndsFinite
<1> HIDE DEF n
<1>2. lines[n] \in Line
  BY <1>1, ElementOfSeq
<1> QED BY <1>1, <1>2 DEF n, LineAt

(* Counting is the same for two sets that differ by a shift. *)
LEMMA ShiftedCount ==
  ASSUME NEW T, T \subseteq Int, IsFiniteSet(T), NEW d \in Int, NEW U, U \subseteq Int,
         \A x \in Int : x \in U <=> x + d \in T
  PROVE  IsFiniteSet(U) /\ Cardinality(U) = Cardinality(T)
<1> DEFINE f == [x \in T |-> x - d]
<1>1. f \in [T -> U]
  <2>1. \A x \in T : x - d \in Int /\ (x - d) + d = x
    OBVIOUS
  <2> QED BY <2>1
<1>2. \A x, y \in T : f[x] = f[y] => x = y
  OBVIOUS
<1>3. \A u \in U : \E x \in T : f[x] = u
  <2> TAKE u \in U
  <2>1. u + d \in T /\ (u + d) - d = u
    OBVIOUS
  <2> QED BY <2>1
<1> HIDE DEF f
<1>4. f \in Bijection(T, U)
  BY <1>1, <1>2, <1>3 DEF Bijection, Injection, Surjection, IsInjective
<1> QED BY <1>4, FS_Bijection DEF ExistsBijection

-----------------------------------------------------------------------------
(* Entering a line. *)

LEMMA EnterHolds ==
  ASSUME NEW s \in Seq(Char), NEW lines \in Seq(Line), NEW line \in Line,
         Holds(s, lines, FALSE)
  PROVE  /\ s \o line \o <<NewLine>> \in Seq(Char)
         /\ Holds(s \o line \o <<NewLine>>, Append(lines, line), FALSE)
         /\ Cardinality(Ends(s \o line \o <<NewLine>>)) = Cardinality(Ends(s)) + 1
<1> DEFINE n == Len(s)
           h == Len(line)
           m == n + h
           r == s \o line \o <<NewLine>>
           more == Append(lines, line)
<1>1. n \in Nat /\ h \in Nat /\ line \in Seq(Char) /\ <<NewLine>> \in Seq(Char)
  BY SeqMonotonic DEF Line, Char
<1>2. \A j \in 1..h : line[j] # NewLine
  BY ElementOfSeq, ConsoleAssumption DEF Line, NewLine
<1>3. /\ s \o line \in Seq(Char) /\ Len(s \o line) = m
      /\ \A i \in 1..m : (s \o line)[i] = IF i <= n THEN s[i] ELSE line[i - n]
  BY <1>1, ConcatProperties
<1>4. /\ r \in Seq(Char) /\ Len(r) = m + 1
      /\ \A i \in 1..m+1 : r[i] = IF i <= m THEN (s \o line)[i] ELSE NewLine
  <2> DEFINE a == s \o line
             b == <<NewLine>>
  <2>1. b \in Seq(Char) /\ Len(b) = 1 /\ b[1] = NewLine
    BY <1>1
  <2>2. a \in Seq(Char) /\ Len(a) = m
    BY <1>3
  <2> HIDE DEF a, b, m
  <2>3. /\ a \o b \in Seq(Char) /\ Len(a \o b) = m + 1
        /\ \A i \in 1..m+1 : (a \o b)[i] = IF i <= m THEN a[i] ELSE b[i - m]
    <3>1. /\ a \o b \in Seq(Char) /\ Len(a \o b) = Len(a) + Len(b)
          /\ \A i \in 1..Len(a)+Len(b) : (a \o b)[i] = IF i <= Len(a) THEN a[i] ELSE b[i - Len(a)]
      BY <2>1, <2>2, ConcatProperties
    <3> HIDE DEF m
    <3> QED BY <2>1, <2>2, <3>1
  <2>4. m \in Nat
    BY <2>2
  <2>5. \A i \in 1..m+1 : ~(i <= m) => i - m = 1
    BY <2>4
  <2>6. \A i \in 1..m+1 : (a \o b)[i] = IF i <= m THEN a[i] ELSE NewLine
    BY <2>1, <2>3, <2>5
  <2> QED BY <2>3, <2>6 DEF a, b
<1>5. /\ \A i \in 1..n : r[i] = s[i]
      /\ \A j \in 1..h : r[n + j] = line[j]
      /\ r[m + 1] = NewLine
  <2> HIDE DEF r
  <2>1. \A i \in 1..n : i \in 1..m /\ i \in 1..m+1 /\ i <= m /\ i <= n
    BY <1>1
  <2>2. \A j \in 1..h : n + j \in 1..m /\ n + j \in 1..m+1 /\ n + j <= m /\ ~(n + j <= n)
                        /\ (n + j) - n = j
    BY <1>1
  <2>3. m + 1 \in 1..m+1 /\ ~(m + 1 <= m)
    BY <1>1
  <2> QED BY <1>3, <1>4, <2>1, <2>2, <2>3
<1> HIDE DEF r
<1>6. Ends(r) = Ends(s) \cup {m + 1}
  <2>1. \A i \in 1..m+1 : i \in 1..n \/ i - n \in 1..h \/ i = m + 1
    BY <1>1
  <2>2. \A i \in n+1..m : r[i] # NewLine
    <3> TAKE i \in n+1..m
    <3>1. n \in Nat /\ h \in Nat
      BY <1>1
    <3>2. i \in n+1..n+h
      OBVIOUS
    <3> HIDE DEF n, h
    <3>3. i - n \in 1..h /\ n + (i - n) = i
      BY <3>1, <3>2
    <3> QED BY <1>2, <1>5, <3>3
  <2>3. \A i \in 1..m+1 : i \in Ends(r) <=> i \in Ends(s) \/ i = m + 1
    <3> TAKE i \in 1..m+1
    <3>1. CASE i \in 1..n
      BY <1>1, <1>4, <1>5, <3>1 DEF Ends
    <3>2. CASE i \in n+1..m
      BY <1>1, <2>2, <3>2 DEF Ends
    <3>3. CASE i = m + 1
      BY <1>1, <1>4, <1>5, <3>3 DEF Ends
    <3> QED BY <1>1, <3>1, <3>2, <3>3
  <2>4. Ends(r) \subseteq 1..m+1 /\ Ends(s) \subseteq 1..m+1 /\ m + 1 \in 1..m+1
    BY <1>1, <1>4 DEF Ends
  <2> QED BY <2>3, <2>4
<1>7. m + 1 \notin Ends(s)
  BY <1>1 DEF Ends
<1>8. Cardinality(Ends(r)) = Cardinality(Ends(s)) + 1
  BY <1>6, <1>7, EndsFinite, FS_AddElement
<1>9. /\ more \in Seq(Line) /\ Len(more) = Len(lines) + 1 /\ more[Len(lines) + 1] = line
      /\ \A i \in 1..Len(lines) : more[i] = lines[i]
  OBVIOUS
<1> HIDE DEF more
<1>10. Cardinality(Ends(r)) <= Len(more)
  BY <1>8, <1>9, EndsFinite DEF Holds
<1>11. ASSUME NEW p \in Ends(s) PROVE StandsAt(r, LineAt(r, more, p), p)
  <2>1. p \in 1..n
    BY DEF Ends
  <2>2. Later(r, p) = Later(s, p) \cup {m + 1} /\ m + 1 \notin Later(s, p)
    BY <1>1, <1>6, <1>7, <2>1 DEF Later
  <2>3. Cardinality(Later(r, p)) = Cardinality(Later(s, p)) + 1
    BY <2>2, EndsFinite, FS_AddElement
  <2>4. LineAt(r, more, p) = LineAt(s, lines, p)
    <3> DEFINE c == Cardinality(Later(s, p))
    <3>1. Len(lines) - c \in 1..Len(lines) /\ c \in Nat
      BY LineAtType, EndsFinite DEF Holds
    <3>2. Len(more) - (c + 1) = Len(lines) - c
      BY <1>9, <3>1
    <3> QED BY <1>9, <2>3, <3>1, <3>2 DEF LineAt
  <2>5. PICK l \in Line : l = LineAt(s, lines, p)
    BY LineAtType DEF Holds
  <2>6. /\ p - Len(l) - 1 \in Ends(s) \cup {0}
        /\ \A j \in 1..Len(l) : s[p - Len(l) - 1 + j] = l[j]
    BY <2>5 DEF Holds, StandsAt
  <2>7. Len(l) \in Nat
    BY DEF Line
  <2>8. p - Len(l) - 1 \in 0..n
    BY <2>6, EndsFinite
  <2>9. \A j \in 1..Len(l) : p - Len(l) - 1 + j \in 1..n
    BY <1>1, <2>1, <2>7, <2>8
  <2> QED BY <1>5, <1>6, <2>4, <2>5, <2>6, <2>9 DEF StandsAt
<1>12. StandsAt(r, LineAt(r, more, m + 1), m + 1)
  <2>1. Later(r, m + 1) = {}
    BY <1>1, <1>4 DEF Later, Ends
  <2>2. LineAt(r, more, m + 1) = line
    <3>1. Cardinality(Later(r, m + 1)) = 0
      BY <2>1, FS_EmptySet
    <3>2. Len(more) - 0 = Len(lines) + 1
      BY <1>9
    <3> QED BY <1>9, <3>1, <3>2 DEF LineAt
  <2>3. (m + 1) - Len(line) - 1 = n
    BY <1>1
  <2>4. n \in Ends(s) \cup {0}
    BY DEF Holds
  <2> QED BY <1>5, <1>6, <2>2, <2>3, <2>4 DEF StandsAt
<1>13. Len(r) \in Ends(r)
  BY <1>4, <1>6
<1>14. Holds(r, more, FALSE)
  BY <1>6, <1>10, <1>11, <1>12, <1>13 DEF Holds
<1> QED BY <1>4, <1>8, <1>14 DEF r, more

(* The end of the input, behind a line without its end. *)
LEMMA EndHolds ==
  ASSUME NEW s \in Seq(Char), NEW lines \in Seq(Line), NEW line \in Line,
         Holds(s, lines, FALSE)
  PROVE  s \o line \in Seq(Char) /\ Holds(s \o line, lines, TRUE) /\ Ends(s \o line) = Ends(s)
<1> DEFINE n == Len(s)
           m == n + Len(line)
           r == s \o line
<1>1. n \in Nat /\ Len(line) \in Nat /\ line \in Seq(Char)
  BY SeqMonotonic DEF Line, Char
<1>2. \A j \in 1..Len(line) : line[j] # NewLine
  BY ElementOfSeq, ConsoleAssumption DEF Line, NewLine
<1>3. /\ r \in Seq(Char) /\ Len(r) = m
      /\ \A i \in 1..m : r[i] = IF i <= n THEN s[i] ELSE line[i - n]
  BY <1>1, ConcatProperties
<1> HIDE DEF r
<1>4. Ends(r) = Ends(s)
  <2>1. ASSUME NEW i \in 1..m PROVE i \in Ends(r) <=> i \in Ends(s)
    <3>1. CASE i <= n
      BY <1>1, <1>3, <3>1 DEF Ends
    <3>2. CASE i > n
      <4>1. i - n \in 1..Len(line)
        <5>1. i \in 1..n+Len(line) /\ n \in Nat /\ Len(line) \in Nat
          BY <1>1
        <5> HIDE DEF n
        <5> QED BY <3>2, <5>1, SMTT(30)
      <4>2. r[i] # NewLine
        BY <1>1, <1>2, <1>3, <3>2, <4>1
      <4> QED BY <1>1, <3>2, <4>2 DEF Ends
    <3> QED BY <1>1, <3>1, <3>2
  <2>2. Ends(r) \subseteq 1..m /\ Ends(s) \subseteq 1..m
    BY <1>1, <1>3 DEF Ends
  <2> QED BY <2>1, <2>2
<1>5. ASSUME NEW p \in Ends(s) PROVE StandsAt(r, LineAt(r, lines, p), p)
  <2>1. p \in 1..n /\ Later(r, p) = Later(s, p)
    BY <1>4 DEF Ends, Later
  <2>2. PICK l \in Line : l = LineAt(s, lines, p)
    BY LineAtType DEF Holds
  <2>3. l = LineAt(r, lines, p)
    BY <2>1, <2>2 DEF LineAt
  <2>4. /\ p - Len(l) - 1 \in Ends(s) \cup {0}
        /\ \A j \in 1..Len(l) : s[p - Len(l) - 1 + j] = l[j]
    BY <2>2 DEF Holds, StandsAt
  <2>5. Len(l) \in Nat
    BY DEF Line
  <2>6. p - Len(l) - 1 \in 0..n
    BY <2>4, EndsFinite
  <2>7. \A j \in 1..Len(l) : p - Len(l) - 1 + j \in 1..n
    BY <1>1, <2>1, <2>5, <2>6
  <2>8. \A i \in 1..n : i \in 1..m /\ r[i] = s[i]
    BY <1>1, <1>3
  <2> QED BY <1>4, <2>3, <2>4, <2>7, <2>8 DEF StandsAt
<1>6. Cardinality(Ends(r)) <= Len(lines)
  BY <1>4 DEF Holds
<1>7. Holds(r, lines, TRUE)
  BY <1>4, <1>5, <1>6 DEF Holds
<1> QED BY <1>3, <1>4, <1>7 DEF r

-----------------------------------------------------------------------------
(* Reading a line. *)

(* What is before the first line end is the first of the lines that wait. *)
LEMMA FirstLine ==
  ASSUME NEW s \in Seq(Char), NEW lines \in Seq(Line), NEW over, Holds(s, lines, over),
         NEW p \in Ends(s), \A q \in Ends(s) : p <= q,
         NEW n, n = Len(lines) - Cardinality(Ends(s)) + 1
  PROVE  /\ n \in 1..Len(lines) /\ lines[n] \in Line /\ Len(lines[n]) = p - 1
         /\ \A j \in 1..p-1 : s[j] = lines[n][j]
<1>1. Ends(s) \subseteq 1..Len(s) /\ Len(s) \in Nat /\ Cardinality(Ends(s)) \in Nat
      /\ Cardinality(Ends(s)) <= Len(lines) /\ p \in 1..Len(s)
  BY EndsFinite DEF Holds
<1>2. Later(s, p) = Ends(s) \ {p}
  BY <1>1 DEF Later
<1>3. Cardinality(Later(s, p)) = Cardinality(Ends(s)) - 1
  BY <1>2, EndsFinite, FS_RemoveElement
<1>4. Len(lines) - Cardinality(Later(s, p)) = n
  BY <1>1, <1>3
<1>5. n \in 1..Len(lines) /\ lines[n] \in Line
  BY <1>1, <1>4, LineAtType, ElementOfSeq
<1>6. PICK l \in Line : l = lines[n]
  BY <1>5
<1>7. StandsAt(s, l, p)
  BY <1>4, <1>6 DEF Holds, LineAt
<1>8. Len(l) \in Nat
  BY DEF Line
<1>9. p - Len(l) - 1 = 0
  <2>1. p - Len(l) - 1 < p
    BY <1>1, <1>8
  <2> QED BY <1>1, <1>7, <1>8, <2>1 DEF StandsAt
<1>10. \A j \in 1..Len(l) : s[j] = l[j]
  <2>1. \A j \in 1..Len(l) : p - Len(l) - 1 + j = j
    BY <1>9
  <2> QED BY <1>7, <2>1 DEF StandsAt
<1>11. Len(l) = p - 1
  BY <1>1, <1>8, <1>9
<1> QED BY <1>5, <1>6, <1>10, <1>11

(* The lines after it wait behind it. *)
LEMMA RestHolds ==
  ASSUME NEW s \in Seq(Char), NEW lines \in Seq(Line), NEW over, Holds(s, lines, over),
         NEW p \in Ends(s), \A q \in Ends(s) : p <= q
  PROVE  /\ After(s, p + 1) \in Seq(Char) /\ Holds(After(s, p + 1), lines, over)
         /\ Cardinality(Ends(After(s, p + 1))) = Cardinality(Ends(s)) - 1
<1> DEFINE n == Len(s)
           r == After(s, p + 1)
<1>1. n \in Nat /\ p \in 1..n /\ Ends(s) \subseteq 1..n
      /\ Cardinality(Ends(s)) \in Nat /\ Cardinality(Ends(s)) <= Len(lines)
  BY EndsFinite DEF Holds
<1>2. r \in Seq(Char) /\ Len(r) = n - p /\ \A i \in 1..n-p : r[i] = s[i + p]
  <2>1. p + 1 \in 1..Len(s)+1
    BY <1>1
  <2>2. /\ r \in Seq(Char) /\ Len(r) = Len(s) - (p + 1) + 1
        /\ \A i \in 1..Len(s)-(p+1)+1 : r[i] = s[(p + 1) + i - 1]
    BY <2>1, AfterFacts
  <2>3. \A i \in 1..n-p : i \in 1..Len(s)-(p+1)+1 /\ (p + 1) + i - 1 = i + p
    BY <1>1
  <2>4. Len(s) - (p + 1) + 1 = n - p
    BY <1>1
  <2> QED BY <2>2, <2>3, <2>4
<1> HIDE DEF r
<1>3. \A k \in Int : k \in Ends(r) <=> k + p \in Ends(s) \ {p}
  <2> TAKE k \in Int
  <2>1. CASE k \in 1..n-p
    BY <1>1, <1>2, <2>1 DEF Ends
  <2>2. CASE k \notin 1..n-p
    <3>1. k \notin Ends(r)
      BY <1>2, <2>2 DEF Ends
    <3>2. k + p \in Ends(s) => k + p \in 1..n /\ p <= k + p
      BY <1>1
    <3>3. k + p \in Ends(s) => k + p = p
      BY <1>1, <2>2, <3>2
    <3> QED BY <3>1, <3>3
  <2> QED BY <2>1, <2>2
<1>4. Ends(r) \subseteq 1..n-p
  BY <1>2 DEF Ends
<1>5. Cardinality(Ends(r)) = Cardinality(Ends(s)) - 1
  <2> DEFINE T == Ends(s) \ {p}
             U == Ends(r)
  <2>1. IsFiniteSet(T) /\ Cardinality(T) = Cardinality(Ends(s)) - 1
    BY EndsFinite, FS_RemoveElement
  <2>2. T \subseteq Int /\ U \subseteq Int /\ p \in Int
    BY <1>1, <1>4
  <2>3. \A x \in Int : x \in U <=> x + p \in T
    BY <1>3
  <2> HIDE DEF T, U
  <2>4. Cardinality(U) = Cardinality(T)
    BY <2>1, <2>2, <2>3, ShiftedCount
  <2> QED BY <2>1, <2>4 DEF U
<1>6. ASSUME NEW k \in Ends(r) PROVE StandsAt(r, LineAt(r, lines, k), k)
  <2>1. k \in 1..n-p /\ k + p \in Ends(s) /\ k + p \in Int
    BY <1>1, <1>3, <1>4
  <2>2. Cardinality(Later(r, k)) = Cardinality(Later(s, k + p))
    <3> DEFINE T == Later(s, k + p)
               U == Later(r, k)
    <3>1. IsFiniteSet(T) /\ T \subseteq Int /\ U \subseteq Int /\ p \in Int
      <4>1. IsFiniteSet(T)
        BY EndsFinite
      <4>2. T \subseteq Int /\ U \subseteq Int /\ p \in Int
        BY <1>1, <1>4 DEF Later
      <4> QED BY <4>1, <4>2
    <3>2. ASSUME NEW x \in Int PROVE x \in U <=> x + p \in T
      <4>1. x > k <=> x + p > k + p
        BY <1>1, <2>1
      <4>2. x + p > k + p => x + p # p
        BY <1>1, <2>1
      <4> QED BY <1>3, <4>1, <4>2 DEF Later
    <3> HIDE DEF T, U
    <3>3. Cardinality(U) = Cardinality(T)
      BY <3>1, <3>2, ShiftedCount
    <3> QED BY <3>3 DEF T, U
  <2>3. LineAt(r, lines, k) = LineAt(s, lines, k + p)
    BY <2>2 DEF LineAt
  <2>4. PICK l \in Line : l = LineAt(s, lines, k + p)
    BY <1>1, <2>1, LineAtType
  <2> DEFINE b == (k + p) - Len(l) - 1
  <2>5. b \in Ends(s) \cup {0} /\ \A j \in 1..Len(l) : s[b + j] = l[j]
    BY <2>1, <2>4 DEF Holds, StandsAt
  <2>6. Len(l) \in Nat /\ b \in 0..n
    BY <1>1, <2>5 DEF Line
  <2>7. \A j \in 1..Len(l) : l[j] # NewLine
    BY <2>4, ElementOfSeq, ConsoleAssumption DEF Line, NewLine
  <2> HIDE DEF b
  <2>8. b >= p
    <3> SUFFICES ASSUME b < p PROVE FALSE
      BY <1>1, <2>6
    <3>1. b = 0
      BY <1>1, <2>5, <2>6
    <3>2. p \in 1..Len(l) /\ b + p = p
      BY <1>1, <2>1, <2>6, <3>1 DEF b
    <3>3. s[p] = NewLine
      BY DEF Ends
    <3> QED BY <2>5, <2>7, <3>2, <3>3
  <2>9. k - Len(l) - 1 = b - p /\ b - p \in Int /\ (b - p) + p = b
    BY <1>1, <2>1, <2>6 DEF b
  <2>10. b - p \in Ends(r) \cup {0}
    <3>1. b # p => b \in Ends(s) \ {p}
      BY <1>1, <2>5, <2>8
    <3>2. b = p => b - p = 0
      BY <1>1
    <3> QED BY <1>3, <2>9, <3>1, <3>2
  <2>11. ASSUME NEW j \in 1..Len(l) PROVE r[(b - p) + j] = l[j]
    <3>1. (b - p) + j \in 1..n-p /\ ((b - p) + j) + p = b + j
      BY <1>1, <2>1, <2>6, <2>8 DEF b
    <3> QED BY <1>2, <2>5, <3>1
  <2> QED BY <2>3, <2>4, <2>9, <2>10, <2>11 DEF StandsAt
<1>7. ~over => Len(r) \in Ends(r) \cup {0}
  <2> SUFFICES ASSUME ~over PROVE Len(r) \in Ends(r) \cup {0}
    OBVIOUS
  <2>1. n \in Ends(s) \cup {0}
    BY DEF Holds
  <2>2. n - p \in Int /\ (n - p) + p = n
    BY <1>1
  <2>3. CASE n = p
    BY <1>1, <1>2, <2>3
  <2>4. CASE n # p
    BY <1>1, <1>2, <1>3, <2>1, <2>2, <2>4
  <2> QED BY <2>3, <2>4
<1>8. Cardinality(Ends(r)) <= Len(lines)
  BY <1>1, <1>5
<1>9. Holds(r, lines, over)
  BY <1>6, <1>7, <1>8 DEF Holds
<1> QED BY <1>2, <1>5, <1>9 DEF r

(* What fgets returns, and what the drain of an overlong line leaves. *)
LEMMA NothingWhole ==
  ASSUME input \in Seq(Char), LineEnds = {}
  PROVE  ~Contains(Got, NewLine) /\ Drained = <<>>
<1> DEFINE most == IF Len(input) < LineMax - 1 THEN Len(input) ELSE LineMax - 1
<1>1. Len(input) \in Nat /\ most \in 0..Len(input)
  BY ConsoleAssumption
<1>2. FirstEnd = {}
  BY DEF FirstEnd
<1>3. Got = SubSeq(input, 1, most)
  BY <1>2 DEF Got
<1> HIDE DEF most
<1>4. Len(Got) = most /\ \A k \in 1..most : Got[k] = input[k]
  <2>1. 1 \in Nat \ {0} /\ most \in Nat /\ 1 <= most + 1 /\ most <= Len(input)
    BY <1>1
  <2>2. /\ Len(SubSeq(input, 1, most)) = most - 1 + 1
        /\ \A k \in 1..most-1+1 : SubSeq(input, 1, most)[k] = input[1 + k - 1]
    BY <2>1, PartFacts
  <2>3. most - 1 + 1 = most /\ \A k \in 1..most : 1 + k - 1 = k
    BY <1>1
  <2> QED BY <1>3, <2>2, <2>3
<1>5. \A k \in 1..most : input[k] # NewLine
  BY <1>1 DEF LineEnds
<1>6. ~Contains(Got, NewLine)
  BY <1>4, <1>5 DEF Contains
<1> QED BY <1>6 DEF Drained

LEMMA OneWhole ==
  ASSUME input \in Seq(Char), LineEnds # {}
  PROVE  \E p \in LineEnds :
           /\ \A q \in LineEnds : p <= q
           /\ Drained = After(input, p + 1)
           /\ p <= LineMax - 1 => /\ Contains(Got, NewLine) /\ Len(Got) = p
                                  /\ Front(Got) \in Line /\ Len(Front(Got)) = p - 1
                                  /\ \A j \in 1..p-1 : Front(Got)[j] = input[j]
           /\ p > LineMax - 1 => ~Contains(Got, NewLine)
<1> DEFINE most == IF Len(input) < LineMax - 1 THEN Len(input) ELSE LineMax - 1
<1>1. Len(input) \in Nat /\ most \in 0..Len(input) /\ LineEnds \subseteq 1..Len(input)
  BY ConsoleAssumption DEF LineEnds
<1>2. PICK p \in LineEnds : \A q \in LineEnds : p <= q
  <2>1. LineEnds \subseteq Nat
    BY <1>1
  <2> QED BY <2>1, FirstOf
<1>3. p \in 1..Len(input) /\ input[p] = NewLine
  BY <1>1 DEF LineEnds
<1>4. FirstEnd = {p}
  <2>1. p \in FirstEnd
    BY <1>2 DEF FirstEnd
  <2>2. ASSUME NEW k \in FirstEnd PROVE k = p
    <3>1. k \in 1..Len(input) /\ p \in 1..Len(input) /\ k <= p /\ p <= k
      BY <1>1, <1>2 DEF FirstEnd
    <3> QED BY <1>1, <3>1
  <2> QED BY <2>1, <2>2
<1>5. Drained = After(input, p + 1)
  <2>1. (CHOOSE k \in FirstEnd : TRUE) = p
    BY <1>4
  <2> QED BY <2>1 DEF Drained
<1>6. \A j \in 1..p-1 : input[j] \in Symbol
  <2> TAKE j \in 1..p-1
  <2>1. j \in 1..Len(input) /\ j \notin LineEnds
    BY <1>2, <1>3
  <2>2. input[j] \in Char
    BY <2>1, ElementOfSeq
  <2> QED BY <2>1, <2>2 DEF LineEnds, Char
<1>7. p <= LineMax - 1 <=> p <= most
  BY <1>1, <1>3, ConsoleAssumption
<1>8. Got = SubSeq(input, 1, IF p <= most THEN p ELSE most)
  <2> DEFINE ends == {k \in FirstEnd : k <= most}
  <2>1. Got = SubSeq(input, 1, IF ends = {} THEN most ELSE CHOOSE k \in ends : TRUE)
    BY DEF Got
  <2>2. ends = IF p <= most THEN {p} ELSE {}
    BY <1>4
  <2> HIDE DEF ends
  <2>3. CASE p <= most
    <3>1. ends = {p}
      BY <2>2, <2>3
    <3>2. ends # {} /\ (CHOOSE k \in ends : TRUE) = p
      BY <3>1
    <3> QED BY <2>1, <2>3, <3>2
  <2>4. CASE ~(p <= most)
    <3>1. ends = {}
      BY <2>2, <2>4
    <3> QED BY <2>1, <2>4, <3>1
  <2> QED BY <2>3, <2>4
<1> HIDE DEF most
<1> DEFINE upto == IF p <= most THEN p ELSE most
<1>9. upto \in 0..Len(input)
  BY <1>1, <1>3
<1>10. Got \in Seq(Char) /\ Len(Got) = upto /\ \A k \in 1..upto : Got[k] = input[k]
  <2> HIDE DEF upto
  <2>1. 1 \in Nat \ {0} /\ upto \in Nat /\ 1 <= upto + 1 /\ upto <= Len(input)
    BY <1>1, <1>9
  <2>2. /\ SubSeq(input, 1, upto) \in Seq(Char) /\ Len(SubSeq(input, 1, upto)) = upto - 1 + 1
        /\ \A k \in 1..upto-1+1 : SubSeq(input, 1, upto)[k] = input[1 + k - 1]
    BY <2>1, PartFacts
  <2>3. upto - 1 + 1 = upto /\ \A k \in 1..upto : 1 + k - 1 = k
    BY <2>1
  <2>4. Got = SubSeq(input, 1, upto)
    BY <1>8 DEF upto
  <2> QED BY <2>2, <2>3, <2>4
<1>11. ASSUME p <= LineMax - 1
       PROVE  /\ Contains(Got, NewLine) /\ Len(Got) = p
              /\ Front(Got) \in Line /\ Len(Front(Got)) = p - 1
              /\ \A j \in 1..p-1 : Front(Got)[j] = input[j]
  <2>1. upto = p
    BY <1>7, <1>11
  <2>2. Len(Got) = p /\ \A k \in 1..p : Got[k] = input[k]
    BY <1>10, <2>1
  <2>3. Contains(Got, NewLine)
    BY <1>3, <2>2 DEF Contains
  <2>4. Front(Got) = SubSeq(Got, 1, p - 1)
    BY <2>2 DEF Front
  <2>5. \A j \in 1..p-1 : Got[j] \in Symbol /\ Got[j] = input[j]
    BY <1>3, <1>6, <2>2
  <2>6. 1 \in Int /\ p - 1 \in Int /\ (1 <= p - 1 => (p - 1) - 1 + 1 = p - 1)
    BY <1>3
  <2>7. /\ SubSeq(Got, 1, p - 1) \in Seq(Symbol)
        /\ Len(SubSeq(Got, 1, p - 1)) = IF 1 <= p - 1 THEN (p - 1) - 1 + 1 ELSE 0
        /\ \A i \in 1..(p-1)-1+1 : SubSeq(Got, 1, p - 1)[i] = Got[1 + i - 1]
    BY <2>5, <2>6, SubSeqProperties
  <2>8. Len(SubSeq(Got, 1, p - 1)) = p - 1
    BY <1>3, <2>7
  <2>9. \A i \in 1..p-1 : i \in 1..(p-1)-1+1 /\ 1 + i - 1 = i
    BY <1>3
  <2> QED BY <2>2, <2>3, <2>4, <2>5, <2>7, <2>8, <2>9 DEF Line
<1>12. ASSUME p > LineMax - 1 PROVE ~Contains(Got, NewLine)
  <2>1. ~(p <= most) /\ upto = most
    BY <1>1, <1>3, <1>7, <1>12, ConsoleAssumption
  <2>2. Len(Got) = most /\ \A k \in 1..most : Got[k] = input[k]
    BY <1>10, <2>1
  <2>3. \A k \in 1..most : k \in 1..p-1
    BY <1>1, <1>3, <2>1
  <2>4. \A k \in 1..most : Got[k] \in Symbol
    BY <1>6, <2>2, <2>3
  <2> QED BY <2>2, <2>4, ConsoleAssumption DEF Contains, NewLine
<1> QED BY <1>2, <1>5, <1>11, <1>12

(* A line is taken exactly when it is not too long, and taken as it was entered;
   in both cases nothing of it is left. *)
LEMMA ReadIs ==
  ASSUME input \in Seq(Char), typed \in Seq(Line), Holds(input, typed, ended), LineEnds # {},
         NEW n, n = Len(typed) - Cardinality(LineEnds) + 1
  PROVE  \E p \in LineEnds :
           /\ \A q \in LineEnds : p <= q
           /\ n \in 1..Len(typed) /\ typed[n] \in Line
           /\ Drained = After(input, p + 1)
           /\ Contains(Got, NewLine) <=> Fits(typed[n])
           /\ Contains(Got, NewLine) => Len(Got) = p /\ Front(Got) = typed[n]
<1>1. PICK p \in LineEnds :
        /\ \A q \in LineEnds : p <= q
        /\ Drained = After(input, p + 1)
        /\ p <= LineMax - 1 => /\ Contains(Got, NewLine) /\ Len(Got) = p
                               /\ Front(Got) \in Line /\ Len(Front(Got)) = p - 1
                               /\ \A j \in 1..p-1 : Front(Got)[j] = input[j]
        /\ p > LineMax - 1 => ~Contains(Got, NewLine)
  BY OneWhole
<1>2. LineEnds = Ends(input)
  BY DEF LineEnds, Ends
<1>3. /\ n \in 1..Len(typed) /\ typed[n] \in Line /\ Len(typed[n]) = p - 1
      /\ \A j \in 1..p-1 : input[j] = typed[n][j]
  BY <1>1, <1>2, FirstLine
<1>4. p \in Nat
  BY <1>1 DEF LineEnds
<1>5. p <= LineMax - 1 <=> Fits(typed[n])
  BY <1>3, <1>4, ConsoleAssumption DEF Fits
<1>6. ASSUME p <= LineMax - 1 PROVE Front(Got) = typed[n]
  <2> DEFINE f == Front(Got)
             l == typed[n]
  <2>1. f \in Seq(Symbol) /\ l \in Seq(Symbol) /\ Len(f) = Len(l)
        /\ \A j \in 1..Len(f) : f[j] = l[j]
    BY <1>1, <1>3, <1>6 DEF Line
  <2> HIDE DEF f, l
  <2>2. f = l
    BY <2>1, SeqEqual
  <2> QED BY <2>2 DEF f, l
<1>7. p > LineMax - 1 <=> ~(p <= LineMax - 1)
  BY <1>4, ConsoleAssumption
<1> QED BY <1>1, <1>3, <1>5, <1>6, <1>7

-----------------------------------------------------------------------------
(* The lines that were interpreted. *)

Fitting(lines, n) == {k \in 1..n : Fits(lines[k])}

Upto(set, k) == {j \in set : j <= k}

(* LinesSurvive, of the first n of any lines. *)
Survive(lines, n, out) ==
  /\ Len(out) = Cardinality(Fitting(lines, n))
  /\ \A k \in Fitting(lines, n) : out[Cardinality(Upto(Fitting(lines, n), k))] = lines[k]

LEMMA FittingFinite ==
  ASSUME NEW lines, NEW n \in Nat
  PROVE  /\ Fitting(lines, n) \subseteq 1..n
         /\ IsFiniteSet(Fitting(lines, n)) /\ Cardinality(Fitting(lines, n)) \in Nat
<1>1. Fitting(lines, n) \in SUBSET (1..n) /\ IsFiniteSet(1..n)
  BY FS_Interval DEF Fitting
<1> QED BY <1>1, FS_Subset, FS_CardinalityType

(* The place of a line that fits is a place among the interpreted ones. *)
LEMMA UptoType ==
  ASSUME NEW lines, NEW n \in Nat, NEW k \in Fitting(lines, n)
  PROVE  Cardinality(Upto(Fitting(lines, n), k)) \in 1..Cardinality(Fitting(lines, n))
<1> DEFINE F == Fitting(lines, n)
           U == Upto(F, k)
<1>1. IsFiniteSet(F) /\ U \in SUBSET F
  BY FittingFinite DEF Upto
<1>2. k \in U
  BY FittingFinite DEF Upto
<1> HIDE DEF U, F
<1>3. IsFiniteSet(U) /\ Cardinality(U) <= Cardinality(F)
      /\ Cardinality(U) \in Nat /\ Cardinality(F) \in Nat
  BY <1>1, FS_Subset, FS_CardinalityType
<1>4. Cardinality(U) # 0
  BY <1>2, <1>3, FS_EmptySet
<1> QED BY <1>3, <1>4 DEF U, F

LEMMA MoreLines ==
  ASSUME NEW lines \in Seq(Line), NEW line \in Line, NEW n \in 0..Len(lines), NEW out,
         Survive(lines, n, out)
  PROVE  Survive(Append(lines, line), n, out)
<1>1. \A k \in 1..n : Append(lines, line)[k] = lines[k]
  OBVIOUS
<1> DEFINE more == Append(lines, line)
<1> HIDE DEF more
<1>2. \A k \in 1..n : more[k] = lines[k]
  BY <1>1 DEF more
<1>3. Fitting(more, n) = Fitting(lines, n) /\ Fitting(lines, n) \subseteq 1..n
  BY <1>2 DEF Fitting
<1>4. Survive(more, n, out)
  BY <1>2, <1>3 DEF Survive
<1> QED BY <1>4 DEF more

LEMMA NextLine ==
  ASSUME NEW lines \in Seq(Line), NEW n \in Nat, n + 1 <= Len(lines), NEW out \in Seq(Line),
         Survive(lines, n, out)
  PROVE  /\ Fits(lines[n + 1]) => Survive(lines, n + 1, Append(out, lines[n + 1]))
         /\ ~Fits(lines[n + 1]) => Survive(lines, n + 1, out)
<1> DEFINE F == Fitting(lines, n)
           G == Fitting(lines, n + 1)
<1>1. F \subseteq 1..n /\ IsFiniteSet(F) /\ Cardinality(F) \in Nat /\ n + 1 \notin F
  BY FittingFinite
<1>2. \A k \in 1..n+1 : k \in 1..n \/ k = n + 1
  OBVIOUS
<1>3. G = IF Fits(lines[n + 1]) THEN F \cup {n + 1} ELSE F
  <2>1. ASSUME NEW k \in 1..n+1
        PROVE  k \in G <=> k \in F \/ (k = n + 1 /\ Fits(lines[n + 1]))
    BY <1>2 DEF Fitting
  <2>2. G \subseteq 1..n+1 /\ F \subseteq 1..n+1
    BY <1>1 DEF Fitting
  <2>3. n + 1 \in 1..n+1 /\ n + 1 \notin F
    BY <1>1
  <2> HIDE DEF F, G
  <2>4. CASE Fits(lines[n + 1])
    BY <2>1, <2>2, <2>3, <2>4
  <2>5. CASE ~Fits(lines[n + 1])
    BY <2>1, <2>2, <2>5
  <2> QED BY <2>4, <2>5
<1>4. /\ Len(out) = Cardinality(F)
      /\ \A k \in F : out[Cardinality(Upto(F, k))] = lines[k]
      /\ \A k \in F : Cardinality(Upto(F, k)) \in 1..Cardinality(F)
  BY UptoType DEF Survive
<1>5. Survive(lines, n + 1, out) <=>
        /\ Len(out) = Cardinality(G)
        /\ \A k \in G : out[Cardinality(Upto(G, k))] = lines[k]
  BY DEF Survive
<1>6. lines[n + 1] \in Line
  <2>1. n + 1 \in 1..Len(lines)
    OBVIOUS
  <2> QED BY <2>1, ElementOfSeq
<1>7. PICK line \in Line : line = lines[n + 1]
  BY <1>6
<1> DEFINE next == Append(out, line)
<1>8. Survive(lines, n + 1, next) <=>
        /\ Len(next) = Cardinality(G)
        /\ \A k \in G : next[Cardinality(Upto(G, k))] = lines[k]
  BY DEF Survive
<1> HIDE DEF F, G
<1>9. CASE ~Fits(lines[n + 1])
  <2>1. G = F
    BY <1>3, <1>9
  <2> QED BY <1>4, <1>5, <1>9, <2>1
<1>10. CASE Fits(lines[n + 1])
  <2>1. G = F \cup {n + 1} /\ Cardinality(G) = Cardinality(F) + 1
    BY <1>1, <1>3, <1>10, FS_AddElement
  <2>2. /\ Len(next) = Len(out) + 1 /\ next[Len(out) + 1] = line
        /\ \A i \in 1..Len(out) : next[i] = out[i]
    OBVIOUS
  <2> HIDE DEF next
  <2>3. ASSUME NEW k \in F PROVE next[Cardinality(Upto(G, k))] = lines[k]
    <3>1. Upto(G, k) = Upto(F, k)
      <4>1. ~(n + 1 <= k)
        BY <1>1
      <4> QED BY <2>1, <4>1 DEF Upto
    <3> QED BY <1>4, <2>2, <3>1
  <2>4. next[Cardinality(Upto(G, n + 1))] = lines[n + 1]
    <3>1. Upto(G, n + 1) = G
      <4>1. \A j \in G : j <= n + 1
        BY <1>1, <2>1
      <4> QED BY <4>1 DEF Upto
    <3> QED BY <1>4, <1>7, <2>1, <2>2, <3>1
  <2>5. Survive(lines, n + 1, next)
    BY <1>4, <1>8, <2>1, <2>2, <2>3, <2>4
  <2> QED BY <1>7, <1>10, <2>5 DEF next
<1> QED BY <1>9, <1>10

-----------------------------------------------------------------------------
(* The invariants, step by step. *)

(* InputIsTyped and LinesSurvive in the terms of the lemmas. *)
LEMMA TheLines ==
  /\ InputIsTyped <=> Holds(input, typed, ended)
  /\ LinesSurvive <=> Survive(typed, Len(typed) - Cardinality(Ends(input)), handled)
  /\ LineEnds = Ends(input)
BY DEF InputIsTyped, LinesSurvive, Holds, StandsAt, LineAt, Later, Ends, LineEnds,
       Survive, Fitting, Upto

LEMMA TheLinesAfter ==
  /\ InputIsTyped' <=> Holds(input', typed', ended')
  /\ LinesSurvive' <=> Survive(typed', Len(typed') - Cardinality(Ends(input')), handled')
BY DEF InputIsTyped, LinesSurvive, Holds, StandsAt, LineAt, Later, Ends, LineEnds,
       Survive, Fitting, Upto

(* What a line became is what its interpretation says. *)
RequestIs == handled # <<>> => request = Interpret(Last(handled))

(* The inductive invariant of the lines. *)
LinesInv == TypeOK /\ InputIsTyped /\ LinesSurvive /\ RequestIs

LEMMA InitLines == Init => LinesInv
<1> SUFFICES ASSUME Init PROVE LinesInv
  OBVIOUS
<1>1. TypeOK
  <2>1. /\ half \in Line /\ input \in Seq(Symbol \cup {NewLine}) /\ typed \in Seq(Line)
        /\ handled \in Seq(Line) /\ row \in Seq({"prompt", "typed"})
    BY DEF Init, Line
  <2>2. request \in Request
    BY DEF Init, Request
  <2> QED BY <2>1, <2>2 DEF Init, TypeOK
<1>2. Ends(input) = {} /\ Cardinality(Ends(input)) = 0 /\ Len(typed) = 0 /\ Len(input) = 0
      /\ Len(handled) = 0
  <2>1. Len(typed) = 0 /\ Len(input) = 0 /\ Len(handled) = 0
    BY DEF Init
  <2>2. Ends(input) = {}
    BY <2>1 DEF Ends
  <2> QED BY <2>1, <2>2, FS_EmptySet
<1>3. Holds(input, typed, ended)
  BY <1>2 DEF Holds
<1>4. Survive(typed, Len(typed) - Cardinality(Ends(input)), handled)
  <2>1. Survive(typed, 0, handled)
    <3>1. Fitting(typed, 0) = {}
      BY DEF Fitting
    <3> QED BY <1>2, <3>1, FS_EmptySet DEF Survive
  <2> QED BY <1>2, <2>1
<1>5. RequestIs
  BY DEF Init, RequestIs
<1> QED BY <1>1, <1>3, <1>4, <1>5, TheLines DEF LinesInv

LEMMA RowType ==
  ASSUME NEW shown \in Seq({"prompt", "typed"})
  PROVE  /\ Append(shown, "prompt") \in Seq({"prompt", "typed"})
         /\ Append(shown, "typed") \in Seq({"prompt", "typed"})
         /\ <<>> \in Seq({"prompt", "typed"})
OBVIOUS

(* A step of the lines keeps the invariant whatever it does to the screen. *)
ScreenType == row' \in Seq({"prompt", "typed"}) /\ torn' \in BOOLEAN /\ prompt_shown' \in BOOLEAN

LEMMA ScreenTyped == TypeOK /\ [Next]_vars => ScreenType
<1> SUFFICES ASSUME TypeOK, [Next]_vars PROVE ScreenType
  OBVIOUS
<1> DEFINE Row == Seq({"prompt", "typed"})
<1>1. row \in Row /\ torn \in BOOLEAN /\ prompt_shown \in BOOLEAN /\ <<>> \in Row
  BY RowType DEF TypeOK
<1>2. \A shown \in Row : Append(shown, "prompt") \in Row /\ Append(shown, "typed") \in Row
  BY RowType
<1> HIDE DEF Row
<1>3. ASSUME NEW shown \in Row, NEW flag, Prompt(shown, flag)
      PROVE  row' \in Row /\ prompt_shown' \in BOOLEAN
  BY <1>2, <1>3 DEF Prompt
<1>4. CASE Incoming
  BY <1>1, <1>3, <1>4 DEF Incoming, EmitIncoming, ScreenType, Row
<1>5. CASE Notice
  BY <1>1, <1>5 DEF Notice, ScreenType, Row
<1>6. CASE Type
  BY <1>1, <1>2, <1>6 DEF Type, ScreenType, Row
<1>7. CASE Enter
  BY <1>1, <1>7 DEF Enter, ScreenType, Row
<1>8. CASE EndInput
  BY <1>1, <1>8 DEF EndInput, screenVars, ScreenType, Row
<1>9. CASE ReadLine
  <2>1. torn' = torn
    BY <1>9 DEF ReadLine
  <2>2. UNCHANGED <<row, prompt_shown>> \/ \E shown \in Row : Prompt(shown, prompt_shown)
    BY <1>1, <1>9 DEF ReadLine
  <2> QED BY <1>1, <1>3, <2>1, <2>2 DEF ScreenType, Row
<1>10. CASE ReadOverlong
  BY <1>1, <1>10 DEF ReadOverlong, ScreenType, Row
<1>11. CASE EndOfInput
  BY <1>1, <1>11 DEF EndOfInput, ScreenType, Row
<1>12. CASE UNCHANGED vars
  BY <1>1, <1>12 DEF vars, screenVars, ScreenType, Row
<1> QED BY <1>4, <1>5, <1>6, <1>7, <1>8, <1>9, <1>10, <1>11, <1>12 DEF Next

(* Nothing but the line being typed changes. *)
LEMMA LinesStand ==
  ASSUME LinesInv, ScreenType, half' \in Line, running' \in BOOLEAN,
         UNCHANGED <<input, ended, request, typed, handled>>
  PROVE  LinesInv'
<1>1. TypeOK'
  BY DEF LinesInv, TypeOK, ScreenType
<1>2. InputIsTyped' /\ LinesSurvive'
  <2>1. Holds(input, typed, ended) /\ Survive(typed, Len(typed) - Cardinality(Ends(input)), handled)
    BY TheLines DEF LinesInv
  <2>2. /\ Holds(input', typed', ended')
        /\ Survive(typed', Len(typed') - Cardinality(Ends(input')), handled')
    BY <2>1
  <2> QED BY <2>2, TheLinesAfter
<1>3. RequestIs'
  BY DEF LinesInv, RequestIs
<1> QED BY <1>1, <1>2, <1>3 DEF LinesInv

LEMMA EnterLines ==
  ASSUME LinesInv, ScreenType, Enter
  PROVE  LinesInv'
<1>1. /\ half \in Line /\ input \in Seq(Char) /\ typed \in Seq(Line) /\ handled \in Seq(Line)
      /\ ended = FALSE /\ running = TRUE /\ request \in Request
  BY DEF LinesInv, TypeOK, Enter, Char
<1>2. /\ input' = input \o half \o <<NewLine>> /\ half' = <<>> /\ typed' = Append(typed, half)
      /\ UNCHANGED <<ended, running, request, handled>>
  BY DEF Enter
<1>3. /\ Holds(input, typed, FALSE)
      /\ Survive(typed, Len(typed) - Cardinality(Ends(input)), handled)
  BY <1>1, TheLines DEF LinesInv
<1>4. /\ input' \in Seq(Char) /\ Holds(input', typed', FALSE)
      /\ Cardinality(Ends(input')) = Cardinality(Ends(input)) + 1
  BY <1>1, <1>2, <1>3, EnterHolds
<1>5. Len(typed) \in Nat /\ Cardinality(Ends(input)) \in Nat
      /\ Cardinality(Ends(input)) <= Len(typed) /\ Len(typed') = Len(typed) + 1
      /\ typed' \in Seq(Line)
  BY <1>1, <1>2, <1>3, EndsFinite DEF Holds
<1>6. Survive(typed', Len(typed') - Cardinality(Ends(input')), handled')
  <2> DEFINE n == Len(typed) - Cardinality(Ends(input))
  <2>1. n \in 0..Len(typed) /\ Len(typed') - Cardinality(Ends(input')) = n
    BY <1>4, <1>5
  <2> HIDE DEF n
  <2>2. Survive(typed, n, handled)
    BY <1>3 DEF n
  <2>3. Survive(Append(typed, half), n, handled)
    BY <1>1, <2>1, <2>2, MoreLines
  <2> QED BY <1>2, <2>1, <2>3
<1>7. RequestIs'
  BY <1>2 DEF LinesInv, RequestIs
<1>8. TypeOK'
  <2>1. half' \in Line
    BY <1>2 DEF Line
  <2> QED BY <1>1, <1>2, <1>4, <1>5, <2>1 DEF TypeOK, ScreenType, Char
<1> QED BY <1>1, <1>2, <1>4, <1>6, <1>7, <1>8, TheLinesAfter DEF LinesInv

LEMMA EndLines ==
  ASSUME LinesInv, ScreenType, EndInput
  PROVE  LinesInv'
<1>1. /\ half \in Line /\ input \in Seq(Char) /\ typed \in Seq(Line) /\ handled \in Seq(Line)
      /\ ended = FALSE /\ running = TRUE /\ request \in Request
  BY DEF LinesInv, TypeOK, EndInput, Char
<1>2. /\ ended' = TRUE /\ input' = input \o half /\ half' = <<>>
      /\ UNCHANGED <<running, request, typed, handled>>
  BY DEF EndInput
<1>3. /\ Holds(input, typed, FALSE)
      /\ Survive(typed, Len(typed) - Cardinality(Ends(input)), handled)
  BY <1>1, TheLines DEF LinesInv
<1>4. input' \in Seq(Char) /\ Holds(input', typed', TRUE) /\ Ends(input') = Ends(input)
  BY <1>1, <1>2, <1>3, EndHolds
<1>5. Survive(typed', Len(typed') - Cardinality(Ends(input')), handled')
  BY <1>2, <1>3, <1>4
<1>6. RequestIs'
  BY <1>2 DEF LinesInv, RequestIs
<1>7. TypeOK'
  <2>1. half' \in Line
    BY <1>2 DEF Line
  <2> QED BY <1>1, <1>2, <1>4, <2>1 DEF TypeOK, ScreenType, Char
<1> QED BY <1>2, <1>4, <1>5, <1>6, <1>7, TheLinesAfter DEF LinesInv

LEMMA ReadLines ==
  ASSUME LinesInv, ScreenType, ReadLine \/ ReadOverlong
  PROVE  LinesInv'
<1> DEFINE n == Len(typed) - Cardinality(Ends(input))
<1>1. /\ half \in Line /\ input \in Seq(Char) /\ typed \in Seq(Line) /\ handled \in Seq(Line)
      /\ ended \in BOOLEAN /\ running = TRUE /\ request \in Request
  BY DEF LinesInv, TypeOK, ReadLine, ReadOverlong, Char
<1>2. Holds(input, typed, ended) /\ Survive(typed, n, handled) /\ LineEnds = Ends(input)
  BY TheLines DEF LinesInv
<1>3. UNCHANGED <<half, ended, typed>>
  BY DEF ReadLine, ReadOverlong
<1>4. Len(typed) \in Nat /\ Cardinality(Ends(input)) \in Nat /\ n \in 0..Len(typed)
  BY <1>1, <1>2, EndsFinite DEF Holds
<1> HIDE DEF n
<1>5. CASE LineEnds = {}
  <2>1. ~Contains(Got, NewLine) /\ Drained = <<>>
    BY <1>1, <1>5, NothingWhole
  <2>2. input' = <<>> /\ UNCHANGED <<running, request, handled>>
    BY <2>1 DEF ReadLine, ReadOverlong
  <2>3. Len(input') = 0 /\ Ends(input') = {} /\ input' \in Seq(Char)
    <3>1. Len(input') = 0 /\ input' \in Seq(Char)
      BY <2>2
    <3> QED BY <3>1 DEF Ends
  <2>4. Ends(input') = Ends(input) /\ Cardinality(Ends(input')) = 0
    BY <1>2, <1>5, <2>3, FS_EmptySet
  <2>5. Holds(input', typed', ended')
    BY <1>1, <1>3, <1>4, <2>3, <2>4 DEF Holds
  <2>6. Survive(typed', Len(typed') - Cardinality(Ends(input')), handled')
    BY <1>2, <1>3, <2>2, <2>4 DEF n
  <2>7. RequestIs'
    BY <2>2 DEF LinesInv, RequestIs
  <2>8. TypeOK'
    BY <1>1, <1>3, <2>2, <2>3 DEF TypeOK, ScreenType, Char
  <2> QED BY <2>5, <2>6, <2>7, <2>8, TheLinesAfter DEF LinesInv
<1>6. CASE LineEnds # {}
  <2>1. PICK p \in LineEnds :
          /\ \A q \in LineEnds : p <= q
          /\ n + 1 \in 1..Len(typed) /\ typed[n + 1] \in Line
          /\ Drained = After(input, p + 1)
          /\ Contains(Got, NewLine) <=> Fits(typed[n + 1])
          /\ Contains(Got, NewLine) => Len(Got) = p /\ Front(Got) = typed[n + 1]
    <3> DEFINE k == n + 1
    <3>1. k = Len(typed) - Cardinality(LineEnds) + 1
      BY <1>2 DEF n
    <3> HIDE DEF k
    <3>2. \E p \in LineEnds :
          /\ \A q \in LineEnds : p <= q
          /\ k \in 1..Len(typed) /\ typed[k] \in Line
          /\ Drained = After(input, p + 1)
          /\ Contains(Got, NewLine) <=> Fits(typed[k])
          /\ Contains(Got, NewLine) => Len(Got) = p /\ Front(Got) = typed[k]
      BY <1>1, <1>2, <1>6, <3>1, ReadIs
    <3> QED BY <3>2 DEF k
  <2>2. input' = After(input, p + 1)
    BY <2>1 DEF ReadLine, ReadOverlong
  <2>3. /\ After(input, p + 1) \in Seq(Char) /\ Holds(After(input, p + 1), typed, ended)
        /\ Cardinality(Ends(After(input, p + 1))) = Cardinality(Ends(input)) - 1
    BY <1>1, <1>2, <2>1, RestHolds
  <2>4. /\ input' \in Seq(Char) /\ Holds(input', typed', ended')
        /\ Len(typed') - Cardinality(Ends(input')) = n + 1
    <3>1. Len(typed) - Cardinality(Ends(input')) = n + 1
      BY <1>4, <2>2, <2>3 DEF n
    <3> QED BY <1>3, <2>2, <2>3, <3>1
  <2>5. /\ Fits(typed[n + 1]) => Survive(typed, n + 1, Append(handled, typed[n + 1]))
        /\ ~Fits(typed[n + 1]) => Survive(typed, n + 1, handled)
    <3>1. n \in Nat /\ n + 1 <= Len(typed)
      BY <1>4, <2>1
    <3> QED BY <1>1, <1>2, <3>1, NextLine
  <2>6. CASE ReadLine
    <3>1. Fits(typed[n + 1]) /\ Front(Got) = typed[n + 1]
      BY <2>1, <2>6 DEF ReadLine
    <3>2. /\ handled' = Append(handled, typed[n + 1])
          /\ request' = Interpret(typed[n + 1])
          /\ running' = (Interpret(typed[n + 1]).type # "/quit")
      BY <2>6, <3>1 DEF ReadLine
    <3>3. Survive(typed', Len(typed') - Cardinality(Ends(input')), handled')
      BY <1>3, <2>4, <2>5, <3>1, <3>2
    <3>4. handled' \in Seq(Line) /\ Last(handled') = typed[n + 1]
      <4> DEFINE l == typed[n + 1]
      <4>1. l \in Line
        BY <2>1
      <4> HIDE DEF l
      <4>2. Append(handled, l) \in Seq(Line) /\ Len(Append(handled, l)) = Len(handled) + 1
            /\ Append(handled, l)[Len(handled) + 1] = l
        BY <1>1, <4>1
      <4> QED BY <3>2, <4>2 DEF l, Last
    <3>5. request' \in Request
      BY <2>1, <3>2, InterpretType
    <3>6. RequestIs'
      BY <3>2, <3>4 DEF RequestIs
    <3>7. TypeOK'
      BY <1>1, <1>3, <2>4, <3>2, <3>4, <3>5 DEF TypeOK, ScreenType, Char
    <3> QED BY <2>4, <3>3, <3>6, <3>7, TheLinesAfter DEF LinesInv
  <2>7. CASE ReadOverlong
    <3>1. ~Fits(typed[n + 1]) /\ UNCHANGED <<running, request, handled>>
      BY <2>1, <2>7 DEF ReadOverlong
    <3>2. Survive(typed', Len(typed') - Cardinality(Ends(input')), handled')
      BY <1>3, <2>4, <2>5, <3>1
    <3>3. RequestIs'
      BY <3>1 DEF LinesInv, RequestIs
    <3>4. TypeOK'
      BY <1>1, <1>3, <2>4, <3>1 DEF TypeOK, ScreenType, Char
    <3> QED BY <2>4, <3>2, <3>3, <3>4, TheLinesAfter DEF LinesInv
  <2> QED BY <2>6, <2>7
<1> QED BY <1>5, <1>6

LEMMA NextLines == LinesInv /\ [Next]_vars => LinesInv'
<1> SUFFICES ASSUME LinesInv, [Next]_vars PROVE LinesInv'
  OBVIOUS
<1>1. ScreenType
  BY ScreenTyped DEF LinesInv
<1>2. half \in Line /\ running \in BOOLEAN
  BY DEF LinesInv, TypeOK
<1>3. CASE Incoming \/ Notice \/ UNCHANGED vars
  <2>1. UNCHANGED lineVars
    BY <1>3 DEF Incoming, Notice, vars
  <2> QED BY <1>1, <1>2, <2>1, LinesStand DEF lineVars
<1>4. CASE Type
  <2>1. half' \in Line
    BY <1>2, <1>4 DEF Type, Line
  <2> QED BY <1>1, <1>2, <1>4, <2>1, LinesStand DEF Type
<1>5. CASE Enter
  BY <1>1, <1>5, EnterLines
<1>6. CASE EndInput
  BY <1>1, <1>6, EndLines
<1>7. CASE ReadLine \/ ReadOverlong
  BY <1>1, <1>7, ReadLines
<1>8. CASE EndOfInput
  BY <1>1, <1>2, <1>8, LinesStand DEF EndOfInput
<1> QED BY <1>3, <1>4, <1>5, <1>6, <1>7, <1>8 DEF Next

LEMMA LinesInvariant == Spec => []LinesInv
BY InitLines, NextLines, PTL DEF Spec

(* The variables of the console keep their types; in particular the names of a
   request are never empty and fit the buffers they are copied into. *)
THEOREM ConsoleTypeCorrect == Spec => []TypeOK
<1>1. LinesInv => TypeOK
  BY DEF LinesInv
<1> QED BY <1>1, LinesInvariant, PTL

(* app_handle_stdin: what waits to be read is the lines entered last, whole and
   in their order, however many are too long and whatever is typed ahead. *)
THEOREM InputKept == Spec => []InputIsTyped
<1>1. LinesInv => InputIsTyped
  BY DEF LinesInv
<1> QED BY <1>1, LinesInvariant, PTL

(* app_handle_stdin: the lines interpreted are the entered lines that fit. *)
THEOREM LinesKept == Spec => []LinesSurvive
<1>1. LinesInv => LinesSurvive
  BY DEF LinesInv
<1> QED BY <1>1, LinesInvariant, PTL

(* commands.c: a command with a name and a rest is sent as the only way to read
   it, and refused only if there is none or a part of it is too long. *)
THEOREM MeaningKept == Spec => []MeansWhatWasTyped
<1>1. LinesInv => MeansWhatWasTyped
  <2> SUFFICES ASSUME LinesInv, handled # <<>> PROVE Means(Last(handled), request)
    BY DEF MeansWhatWasTyped, Means
  <2>1. handled \in Seq(Line) /\ Len(handled) \in 1..Len(handled)
    BY EmptySeq DEF LinesInv, TypeOK
  <2>2. Last(handled) \in Line
    BY <2>1, ElementOfSeq DEF Last
  <2> QED BY <2>2, InterpretMeans DEF LinesInv, RequestIs
<1> QED BY <1>1, LinesInvariant, PTL

-----------------------------------------------------------------------------
(* The row of the cursor. *)

ScreenInv == TypeOK /\ prompt_shown /\ ~torn /\ PromptOnce

LEMMA InitScreen == Init => ScreenInv
<1> SUFFICES ASSUME Init PROVE ScreenInv
  OBVIOUS
<1>1. TypeOK
  BY InitLines DEF LinesInv
<1>2. Len(row) = 1
  BY DEF Init
<1>3. PromptOnce
  BY <1>2 DEF Init, PromptOnce
<1> QED BY <1>1, <1>3 DEF Init, ScreenInv

(* Rows with at most one prompt. *)
OnePrompt(shown) == \A i, j \in 1..Len(shown) : shown[i] = "prompt" /\ shown[j] = "prompt" => i = j

LEMMA NextScreen == TypeOK' /\ ScreenInv /\ [Next]_vars => ScreenInv'
<1> SUFFICES ASSUME TypeOK', ScreenInv, [Next]_vars PROVE ScreenInv'
  OBVIOUS
<1>1. row \in Seq({"prompt", "typed"}) /\ prompt_shown = TRUE /\ torn = FALSE /\ OnePrompt(row)
  BY DEF ScreenInv, TypeOK, PromptOnce, OnePrompt
<1>2. SUFFICES prompt_shown' = TRUE /\ torn' = FALSE /\ OnePrompt(row')
  BY DEF ScreenInv, PromptOnce, OnePrompt
<1>3. /\ OnePrompt(<<>>) /\ OnePrompt(<<"prompt">>)
      /\ OnePrompt(Append(row, "typed"))
  <2>1. Len(<<>>) = 0 /\ Len(<<"prompt">>) = 1
    OBVIOUS
  <2>2. OnePrompt(Append(row, "typed"))
    <3>1. /\ Len(Append(row, "typed")) = Len(row) + 1
          /\ Append(row, "typed")[Len(row) + 1] = "typed"
          /\ \A i \in 1..Len(row) : Append(row, "typed")[i] = row[i]
          /\ Len(row) \in Nat
      BY <1>1
    <3> DEFINE r == Append(row, "typed")
    <3> HIDE DEF r
    <3>2. \A i \in 1..Len(r) : i \in 1..Len(row) \/ i = Len(row) + 1
      BY <3>1 DEF r
    <3>3. \A i \in 1..Len(r) : r[i] = "prompt" => i \in 1..Len(row) /\ row[i] = "prompt"
      BY <3>1, <3>2 DEF r
    <3> QED BY <1>1, <3>3 DEF OnePrompt, r
  <2> QED BY <2>1, <2>2 DEF OnePrompt
<1>4. CASE Incoming
  <2>1. row' = Append(<<>>, "prompt")
    BY <1>4 DEF Incoming, EmitIncoming, Prompt
  <2>2. row' = <<"prompt">>
    BY <2>1
  <2> QED BY <1>1, <1>3, <1>4, <2>2 DEF Incoming, EmitIncoming, Prompt
<1>5. CASE Notice
  BY <1>1, <1>3, <1>5 DEF Notice
<1>6. CASE Type
  BY <1>1, <1>3, <1>6 DEF Type
<1>7. CASE Enter
  BY <1>1, <1>3, <1>7 DEF Enter
<1>8. CASE EndInput
  BY <1>1, <1>8 DEF EndInput, screenVars
<1>9. CASE ReadLine
  <2>1. torn' = torn /\ prompt_shown' = TRUE /\ row' \in {<<>>, row}
    BY <1>1, <1>9 DEF ReadLine, Prompt
  <2> QED BY <1>1, <1>3, <2>1
<1>10. CASE ReadOverlong
  BY <1>1, <1>3, <1>10 DEF ReadOverlong
<1>11. CASE EndOfInput
  BY <1>1, <1>3, <1>11 DEF EndOfInput
<1>12. CASE UNCHANGED vars
  BY <1>1, <1>12 DEF vars, screenVars
<1> QED BY <1>4, <1>5, <1>6, <1>7, <1>8, <1>9, <1>10, <1>11, <1>12 DEF Next

LEMMA ScreenInvariant == Spec => []ScreenInv
BY InitScreen, NextScreen, ConsoleTypeCorrect, PTL DEF Spec

(* ui_emit_incoming: a message is never printed into a row with something on it. *)
THEOREM NeverTorn == Spec => []IncomingOnOwnRow
<1>1. ScreenInv => IncomingOnOwnRow
  BY DEF ScreenInv, IncomingOnOwnRow
<1> QED BY <1>1, ScreenInvariant, PTL

(* ui_prompt: the prompt is at most once on the row, and not without its flag. *)
THEOREM PromptIsOnce == Spec => []PromptOnce
<1>1. ScreenInv => PromptOnce
  BY DEF ScreenInv
<1> QED BY <1>1, ScreenInvariant, PTL
=============================================================================
