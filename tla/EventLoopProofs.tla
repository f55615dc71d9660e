-------------------------- MODULE EventLoopProofs --------------------------
(***************************************************************************)
(* Theorems about EventLoop, for every length of the frames, every initial  *)
(* capacity that half a frame fits into, every cutting of the stream and    *)
(* any number of frames and lines.                                          *)
(***************************************************************************)
EXTENDS EventLoopInv, FiniteSetTheorems, WellFoundedInduction, SequenceTheorems, TLAPS

-----------------------------------------------------------------------------
(* Numbers and sequences. *)

LEMMA MinExists ==
  ASSUME NEW T, T \subseteq Nat, T # {}
  PROVE  \E x \in T : \A y \in T : x <= y
<1> DEFINE R == {ss \in Nat \X Nat : ss[1] < ss[2]}
<1>1. IsWellFoundedOn(R, Nat)
  BY NatLessThanWellFounded DEF OpToRel
<1>2. PICK x \in T : \A y \in T : <<y, x>> \notin R
  <2> HIDE DEF R
  <2> QED BY <1>1, WFMin
<1>3. ASSUME NEW y \in T PROVE x <= y
  <2>1. ~(<<y, x>>[1] < <<y, x>>[2])
    BY <1>2
  <2> QED BY <2>1
<1> QED BY <1>3

LEMMA MaxExists ==
  ASSUME NEW n \in Nat, NEW T, T \subseteq 0..n, T # {}
  PROVE  \E x \in T : \A y \in T : y <= x
<1> DEFINE U == {n - t : t \in T}
<1>1. U \subseteq Nat /\ U # {}
  <2>1. \A t \in T : n - t \in Nat
    OBVIOUS
  <2> QED BY <2>1
<1>2. PICK u \in U : \A v \in U : u <= v
  <2> HIDE DEF U
  <2> QED BY <1>1, MinExists
<1>3. PICK x \in T : u = n - x
  OBVIOUS
<1>4. ASSUME NEW y \in T PROVE y <= x
  <2>1. u <= n - y
    BY <1>2
  <2> QED BY <1>3, <2>1
<1> QED BY <1>4

LEMMA OneTo ==
  ASSUME NEW m \in Nat
  PROVE  IsFiniteSet(1..m) /\ Cardinality(1..m) = m
<1>1. 1 \in Int /\ m \in Int /\ m - 1 + 1 = m
  OBVIOUS
<1>2. IsFiniteSet(1..m) /\ Cardinality(1..m) = IF 1 > m THEN 0 ELSE m - 1 + 1
  BY <1>1, FS_Interval
<1> QED BY <1>2

LEMMA ConcatFacts ==
  ASSUME NEW S, NEW s \in Seq(S), NEW t \in Seq(S)
  PROVE  /\ s \o t \in Seq(S) /\ Len(s \o t) = Len(s) + Len(t)
         /\ Len(s) \in Nat /\ Len(t) \in Nat
         /\ \A i \in 1..Len(s) + Len(t) : (s \o t)[i] = IF i <= Len(s) THEN s[i] ELSE t[i - Len(s)]
BY ConcatProperties

LEMMA RestFacts ==
  ASSUME NEW S, NEW s \in Seq(S), NEW n \in 0..Len(s)
  PROVE  /\ Rest(s, n) \in Seq(S) /\ Len(Rest(s, n)) = Len(s) - n
         /\ \A i \in 1..Len(s) - n : Rest(s, n)[i] = s[n + i]
BY DEF Rest

LEMMA PrefixFacts ==
  ASSUME NEW S, NEW s \in Seq(S), NEW n \in 0..Len(s)
  PROVE  /\ SubSeq(s, 1, n) \in Seq(S) /\ Len(SubSeq(s, 1, n)) = n
         /\ \A i \in 1..n : SubSeq(s, 1, n)[i] = s[i]
OBVIOUS

LEMMA RestConcat ==
  ASSUME NEW S, NEW s \in Seq(S), NEW t \in Seq(S), NEW n \in 0..Len(s)
  PROVE  Rest(s \o t, n) = Rest(s, n) \o t
<1> DEFINE a == Rest(s \o t, n)
           b == Rest(s, n) \o t
<1>1. s \o t \in Seq(S) /\ Len(s \o t) = Len(s) + Len(t)
  BY ConcatProperties
<1>2. Rest(s, n) \in Seq(S) /\ Len(Rest(s, n)) = Len(s) - n
  BY RestFacts
<1>3. a \in Seq(S) /\ b \in Seq(S) /\ Len(a) = Len(s) + Len(t) - n /\ Len(b) = Len(a)
  <2>1. n \in 0..Len(s \o t)
    BY <1>1
  <2>2. a \in Seq(S) /\ Len(a) = Len(s \o t) - n
    BY <1>1, <2>1, RestFacts
  <2>3. b \in Seq(S) /\ Len(b) = Len(Rest(s, n)) + Len(t)
    BY <1>2, ConcatProperties
  <2> QED BY <1>1, <1>2, <2>2, <2>3
<1>4. ASSUME NEW i \in 1..Len(a) PROVE a[i] = b[i]
  <2>1. a[i] = (s \o t)[n + i]
    <3>1. n \in 0..Len(s \o t) /\ i \in 1..Len(s \o t) - n
      BY <1>1, <1>3
    <3> QED BY <1>1, <3>1, RestFacts
  <2>2. b[i] = IF i <= Len(s) - n THEN s[n + i] ELSE t[i - (Len(s) - n)]
    <3> DEFINE r == Rest(s, n)
    <3>1. \A j \in 1..Len(s) - n : r[j] = s[n + j]
      BY RestFacts
    <3>2. i \in 1..Len(r) + Len(t) /\ Len(r) = Len(s) - n
      BY <1>2, <1>3
    <3>3. b[i] = IF i <= Len(r) THEN r[i] ELSE t[i - Len(r)]
      <4> HIDE DEF r
      <4>1. r \in Seq(S)
        BY <1>2 DEF r
      <4>2. (r \o t)[i] = IF i <= Len(r) THEN r[i] ELSE t[i - Len(r)]
        BY <3>2, <4>1, ConcatProperties
      <4> QED BY <4>2 DEF r
    <3> QED BY <1>3, <3>1, <3>2, <3>3
  <2>3. (s \o t)[n + i] = IF n + i <= Len(s) THEN s[n + i] ELSE t[n + i - Len(s)]
    <3>1. n + i \in 1..Len(s) + Len(t)
      BY <1>3, ConcatFacts
    <3> DEFINE k == n + i
    <3> HIDE DEF k
    <3>2. (s \o t)[k] = IF k <= Len(s) THEN s[k] ELSE t[k - Len(s)]
      BY <3>1, ConcatFacts DEF k
    <3> QED BY <3>2 DEF k
  <2> QED BY <1>3, <2>1, <2>2, <2>3
<1> QED
  <2> HIDE DEF a, b
  <2>1. a = b
    BY <1>3, <1>4, SeqEqual
  <2> QED BY <2>1 DEF a, b

(* What recv moves out of the socket follows what the buffer holds. *)
LEMMA MoveBatch ==
  ASSUME NEW S, NEW s \in Seq(S), NEW t \in Seq(S), NEW n \in 0..Len(t)
  PROVE  (s \o SubSeq(t, 1, n)) \o Rest(t, n) = s \o t
<1> DEFINE a == SubSeq(t, 1, n)
           b == Rest(t, n)
           c == s \o a
           l == c \o b
           r == s \o t
<1>1. /\ a \in Seq(S) /\ Len(a) = n /\ \A i \in 1..n : a[i] = t[i]
      /\ b \in Seq(S) /\ Len(b) = Len(t) - n /\ \A i \in 1..Len(t) - n : b[i] = t[n + i]
  BY PrefixFacts, RestFacts
<1> HIDE DEF a, b
<1>2. /\ c \in Seq(S) /\ Len(c) = Len(s) + n
      /\ \A i \in 1..Len(s) + n : c[i] = IF i <= Len(s) THEN s[i] ELSE a[i - Len(s)]
  <2>1. /\ c \in Seq(S) /\ Len(c) = Len(s) + Len(a)
        /\ \A i \in 1..Len(s) + Len(a) : c[i] = IF i <= Len(s) THEN s[i] ELSE a[i - Len(s)]
    <3>1. a \in Seq(S)
      BY <1>1
    <3> QED BY <3>1, ConcatFacts
  <2> HIDE DEF c
  <2> QED BY <1>1, <2>1
<1> HIDE DEF c
<1>3. l \in Seq(S) /\ r \in Seq(S) /\ Len(l) = Len(s) + Len(t) /\ Len(r) = Len(l)
  <2>1. l \in Seq(S) /\ Len(l) = Len(c) + Len(b)
    BY <1>1, <1>2, ConcatProperties
  <2>2. r \in Seq(S) /\ Len(r) = Len(s) + Len(t)
    BY ConcatProperties
  <2> QED BY <1>1, <1>2, <2>1, <2>2
<1>4. ASSUME NEW i \in 1..Len(l) PROVE l[i] = r[i]
  <2>1. i \in 1..Len(s) + Len(t)
    BY <1>3
  <2>2. l[i] = IF i <= Len(s) + n THEN c[i] ELSE b[i - (Len(s) + n)]
    BY <1>1, <1>2, <2>1, ConcatProperties
  <2>3. r[i] = IF i <= Len(s) THEN s[i] ELSE t[i - Len(s)]
    BY <2>1, ConcatProperties
  <2> HIDE DEF l, r
  <2>4. CASE i <= Len(s) + n
    BY <1>1, <1>2, <2>1, <2>2, <2>3, <2>4
  <2>5. CASE i > Len(s) + n
    BY <1>1, <2>1, <2>2, <2>3, <2>5, SMTT(30)
  <2> QED BY <2>1, <2>4, <2>5
<1>5. l = r
  <2> HIDE DEF l, r
  <2> QED BY <1>3, <1>4, SeqEqual
<1> QED BY <1>5 DEF a, b, c
LEMMA JoinThree ==
  ASSUME NEW S, NEW s \in Seq(S), NEW t \in Seq(S), NEW u \in Seq(S)
  PROVE  s \o (t \o u) = (s \o t) \o u
<1> DEFINE all == t \o u
           n == Len(t)
<1>1. /\ all \in Seq(S) /\ Len(all) = Len(t) + Len(u) /\ Len(t) \in Nat /\ Len(u) \in Nat
      /\ \A i \in 1..Len(t) + Len(u) : all[i] = IF i <= Len(t) THEN t[i] ELSE u[i - Len(t)]
  BY ConcatProperties
<1> HIDE DEF all
<1>2. n \in 0..Len(all)
  BY <1>1
<1>3. SubSeq(all, 1, n) = t
  <2>1. /\ SubSeq(all, 1, n) \in Seq(S) /\ Len(SubSeq(all, 1, n)) = n
        /\ \A i \in 1..n : SubSeq(all, 1, n)[i] = all[i]
    BY <1>1, <1>2, PrefixFacts
  <2>2. \A i \in 1..n : all[i] = t[i]
    BY <1>1
  <2> DEFINE p == SubSeq(all, 1, n)
  <2> HIDE DEF p
  <2>3. p \in Seq(S) /\ Len(p) = Len(t) /\ \A i \in 1..Len(p) : p[i] = t[i]
    BY <2>1, <2>2 DEF p
  <2>4. p = t
    BY <2>3, SeqEqual
  <2> QED BY <2>4 DEF p
<1>4. Rest(all, n) = u
  <2> DEFINE r == Rest(all, n)
  <2>1. r \in Seq(S) /\ Len(r) = Len(all) - n /\ \A i \in 1..Len(all)-n : r[i] = all[n + i]
    BY <1>1, <1>2, RestFacts
  <2> HIDE DEF r
  <2>2. Len(r) = Len(u)
    BY <1>1, <2>1
  <2>3. ASSUME NEW i \in 1..Len(r) PROVE r[i] = u[i]
    <3>1. n + i \in 1..Len(t) + Len(u) /\ n + i > Len(t) /\ (n + i) - Len(t) = i
      BY <1>1, <2>2
    <3>2. all[n + i] = u[(n + i) - Len(t)]
      BY <1>1, <3>1
    <3>3. r[i] = all[n + i]
      BY <1>1, <2>1, <2>2
    <3> QED BY <3>1, <3>2, <3>3
  <2>4. r = u
    BY <2>1, <2>2, <2>3, SeqEqual
  <2> QED BY <2>4 DEF r
<1>5. (s \o SubSeq(all, 1, n)) \o Rest(all, n) = s \o all
  BY <1>1, <1>2, MoveBatch
<1> QED BY <1>3, <1>4, <1>5 DEF all

-----------------------------------------------------------------------------
(* Runs of whole frames. *)

Stream == Seq(Unit)

LEMMA LenType == \A k \in FrameKind : FrameLen[k] \in Nat \ {0}
BY LoopAssumption

LEMMA UnitFacts ==
  ASSUME NEW s \in Stream, NEW i \in 1..Len(s)
  PROVE  s[i] \in Unit /\ s[i].frame \in 1..MaxFrames /\ s[i].part \in Nat \ {0}
<1>1. s[i] \in Unit
  BY ElementOfSeq DEF Stream
<1> QED BY <1>1 DEF Unit

(* A run begins with the first unit of its first frame; only a run of no frames
   has no units. *)
LEMMA WholeHead ==
  ASSUME NEW s \in Stream, NEW first \in Nat \ {0}, NEW frames \in Seq(FrameKind),
         Whole(s, first, frames), s # <<>>
  PROVE  first <= Len(frames) /\ s[1].frame = first /\ s[1].part = 1
<1>1. 1 \in 1..Len(s)
  BY DEF Stream
<1>2. s[1].frame \in first..Len(frames) /\ s[1].part \in 1..FrameLen[frames[s[1].frame]]
  BY <1>1 DEF Whole, Within
<1>3. first \in 1..Len(frames) /\ first \in first..Len(frames)
  BY <1>2
<1>4. 1 \in 1..FrameLen[frames[first]]
  BY <1>3, LenType
<1>5. PICK i \in 1..Len(s) : s[i].frame = first /\ s[i].part = 1
  BY <1>3, <1>4 DEF Whole, Covering
<1>6. CASE i = 1
  BY <1>3, <1>5, <1>6
<1>7. CASE 1 < i
  <2>1. Before(s[1], s[i])
    BY <1>1, <1>7 DEF Whole, Ascending
  <2> QED BY <1>1, <1>2, <1>5, <2>1, UnitFacts DEF Before
<1> QED BY <1>6, <1>7

LEMMA WholeEmpty ==
  ASSUME NEW first \in Nat \ {0}, NEW frames \in Seq(FrameKind), Whole(<<>>, first, frames)
  PROVE  Len(frames) < first
<1> SUFFICES ASSUME first <= Len(frames) PROVE FALSE
  OBVIOUS
<1>1. first \in first..Len(frames) /\ 1 \in 1..FrameLen[frames[first]]
  BY LenType
<1> QED BY <1>1 DEF Whole, Covering

(* What follows the end of a frame is a run again. *)
LEMMA WholeCut ==
  ASSUME NEW s \in Stream, NEW first \in Nat \ {0}, NEW frames \in Seq(FrameKind),
         Whole(s, first, frames), NEW n \in 1..Len(s),
         s[n].part = FrameLen[frames[s[n].frame]]
  PROVE  Whole(Rest(s, n), s[n].frame + 1, frames)
<1> DEFINE r == Rest(s, n)
           m == s[n].frame
<1>1. r \in Stream /\ Len(r) = Len(s) - n /\ \A i \in 1..Len(r) : r[i] = s[n + i]
  <2>1. n \in 0..Len(s) /\ s \in Seq(Unit)
    BY DEF Stream
  <2> QED BY <2>1, RestFacts DEF Stream
<1> HIDE DEF r
<1>2. Len(s) \in Nat /\ Len(r) \in Nat
  BY <1>1 DEF Stream
<1>3. m \in 1..MaxFrames /\ m \in first..Len(frames) /\ MaxFrames \in Nat
  BY UnitFacts, LoopAssumption DEF Whole, Within
<1>4. \A i \in 1..Len(r) : n + i \in 1..Len(s) /\ n < n + i /\ r[i] = s[n + i]
  BY <1>1, <1>2
<1>5. Within(r, m + 1, frames)
  <2> SUFFICES ASSUME NEW i \in 1..Len(r)
               PROVE  /\ r[i].frame \in m+1..Len(frames)
                      /\ r[i].part \in 1..FrameLen[frames[r[i].frame]]
    BY DEF Within
  <2>1. n + i \in 1..Len(s) /\ n < n + i /\ r[i] = s[n + i]
    BY <1>4
  <2>2. r[i].frame \in first..Len(frames) /\ r[i].part \in 1..FrameLen[frames[r[i].frame]]
    BY <2>1 DEF Whole, Within
  <2>3. Before(s[n], r[i])
    BY <2>1 DEF Whole, Ascending
  <2>4. m # r[i].frame
    <3> SUFFICES ASSUME m = r[i].frame PROVE FALSE
      OBVIOUS
    <3>1. s[n].part = FrameLen[frames[m]] /\ FrameLen[frames[m]] \in Nat
      BY LenType, <1>3
    <3>2. r[i].part \in Nat /\ r[i].part <= s[n].part
      BY <2>2, <3>1
    <3> QED BY <1>3, <2>3, <3>1, <3>2 DEF Before
  <2> QED BY <1>3, <2>2, <2>3, <2>4 DEF Before
<1>6. Ascending(r)
  <2> SUFFICES ASSUME NEW i \in 1..Len(r), NEW j \in 1..Len(r), i < j
               PROVE  Before(r[i], r[j])
    BY DEF Ascending
  <2>1. n + i \in 1..Len(s) /\ n + j \in 1..Len(s)
    BY <1>4
  <2>2. n + i < n + j
    BY <1>2
  <2>3. r[i] = s[n + i] /\ r[j] = s[n + j]
    BY <1>4
  <2> QED BY <2>1, <2>2, <2>3 DEF Whole, Ascending
<1>7. Covering(r, m + 1, frames)
  <2> SUFFICES ASSUME NEW k \in m+1..Len(frames), NEW p \in 1..FrameLen[frames[k]]
               PROVE  \E i \in 1..Len(r) : r[i].frame = k /\ r[i].part = p
    BY DEF Covering
  <2>1. k \in first..Len(frames) /\ m < k
    BY <1>3
  <2>2. PICK i \in 1..Len(s) : s[i].frame = k /\ s[i].part = p
    BY <2>1 DEF Whole, Covering
  <2>3. i > n
    <3> SUFFICES ASSUME i < n PROVE FALSE
      BY <1>2, <2>1, <2>2
    <3>1. Before(s[i], s[n])
      BY DEF Whole, Ascending
    <3> QED BY <1>3, <2>1, <2>2, <3>1 DEF Before
  <2>4. i - n \in 1..Len(r)
    BY <1>1, <1>2, <2>3
  <2>5. r[i - n] = s[i]
    BY <1>1, <2>4
  <2> QED BY <2>2, <2>4, <2>5
<1>8. Whole(r, m + 1, frames)
  BY <1>5, <1>6, <1>7 DEF Whole
<1> QED BY <1>8 DEF r

(* A frame that is sent makes the run longer. *)
LEMMA WholeAppend ==
  ASSUME NEW s \in Stream, NEW first \in Nat \ {0}, NEW frames \in Seq(FrameKind),
         Whole(s, first, frames), NEW kind \in FrameKind,
         first <= Len(frames) + 1, Len(frames) < MaxFrames
  PROVE  /\ Units(Len(frames) + 1, kind) \in Stream
         /\ s \o Units(Len(frames) + 1, kind) \in Stream
         /\ Whole(s \o Units(Len(frames) + 1, kind), first, Append(frames, kind))
<1> DEFINE new == Len(frames) + 1
           u == Units(new, kind)
           t == s \o u
           all == Append(frames, kind)
<1>1. /\ u \in Stream /\ Len(u) = FrameLen[kind]
      /\ \A i \in 1..FrameLen[kind] : u[i].frame = new /\ u[i].part = i
  <2>1. new \in 1..MaxFrames /\ FrameLen[kind] \in Nat
    BY LenType, LoopAssumption
  <2>2. \A p \in 1..FrameLen[kind] : [frame |-> new, part |-> p] \in Unit
    BY <2>1 DEF Unit
  <2> HIDE DEF new
  <2> QED BY <2>1, <2>2 DEF Units, Stream
<1>2. Len(s) \in Nat /\ Len(u) \in Nat /\ s \in Seq(Unit) /\ u \in Seq(Unit)
  BY <1>1, LenType DEF Stream
<1>3. /\ all \in Seq(FrameKind) /\ Len(all) = new /\ all[new] = kind
      /\ \A n \in 1..Len(frames) : all[n] = frames[n]
  OBVIOUS
<1> HIDE DEF u, all
<1>4. /\ t \in Seq(Unit) /\ Len(t) = Len(s) + Len(u)
      /\ \A i \in 1..Len(s) : t[i] = s[i]
      /\ \A i \in 1..Len(t) : i > Len(s) => i - Len(s) \in 1..Len(u) /\ t[i] = u[i - Len(s)]
  <2>1. t \in Seq(Unit) /\ Len(t) = Len(s) + Len(u)
    BY <1>2, ConcatProperties
  <2>2. \A i \in 1..Len(s) + Len(u) : t[i] = IF i <= Len(s) THEN s[i] ELSE u[i - Len(s)]
    BY <1>2, ConcatProperties
  <2> HIDE DEF t
  <2> QED BY <1>2, <2>1, <2>2
<1> HIDE DEF t
<1>5. \A i \in 1..Len(s) : s[i].frame \in first..Len(frames)
  BY DEF Whole, Within
<1>6. Within(t, first, all)
  <2> SUFFICES ASSUME NEW i \in 1..Len(t)
               PROVE  t[i].frame \in first..new /\ t[i].part \in 1..FrameLen[all[t[i].frame]]
    BY <1>3 DEF Within
  <2>1. CASE i <= Len(s)
    <3>1. i \in 1..Len(s) /\ t[i] = s[i]
      BY <1>4, <2>1
    <3>2. s[i].frame \in first..Len(frames) /\ s[i].part \in 1..FrameLen[frames[s[i].frame]]
      BY <3>1 DEF Whole, Within
    <3> QED BY <1>3, <3>1, <3>2
  <2>2. CASE i > Len(s)
    <3>1. i - Len(s) \in 1..FrameLen[kind] /\ t[i] = u[i - Len(s)]
      BY <1>1, <1>4, <2>2
    <3>2. t[i].frame = new /\ t[i].part = i - Len(s)
      BY <1>1, <3>1
    <3> QED BY <1>3, <3>1, <3>2
  <2> QED BY <1>2, <2>1, <2>2
<1>7. Ascending(t)
  <2> SUFFICES ASSUME NEW i \in 1..Len(t), NEW j \in 1..Len(t), i < j
               PROVE  Before(t[i], t[j])
    BY DEF Ascending
  <2>1. CASE j <= Len(s)
    <3>1. i \in 1..Len(s) /\ j \in 1..Len(s)
      BY <1>2, <2>1
    <3> QED BY <1>4, <3>1 DEF Whole, Ascending
  <2>2. CASE i <= Len(s) /\ j > Len(s)
    <3>1. i \in 1..Len(s) /\ t[i] = s[i] /\ j - Len(s) \in 1..Len(u) /\ t[j] = u[j - Len(s)]
      BY <1>4, <2>2
    <3>2. t[i].frame \in first..Len(frames) /\ t[j].frame = new
      BY <1>1, <1>5, <3>1
    <3> QED BY <3>2 DEF Before
  <2>3. CASE i > Len(s)
    <3>1. /\ i - Len(s) \in 1..Len(u) /\ t[i] = u[i - Len(s)]
          /\ j - Len(s) \in 1..Len(u) /\ t[j] = u[j - Len(s)]
      BY <1>2, <1>4, <2>3
    <3>2. /\ t[i].frame = new /\ t[i].part = i - Len(s)
          /\ t[j].frame = new /\ t[j].part = j - Len(s)
      BY <1>1, <3>1
    <3> QED BY <1>2, <3>2 DEF Before
  <2> QED BY <1>2, <2>1, <2>2, <2>3
<1>8. Covering(t, first, all)
  <2> SUFFICES ASSUME NEW n \in first..new, NEW p \in 1..FrameLen[all[n]]
               PROVE  \E i \in 1..Len(t) : t[i].frame = n /\ t[i].part = p
    BY <1>3 DEF Covering
  <2>1. CASE n # new
    <3>1. n \in first..Len(frames) /\ all[n] = frames[n]
      BY <1>3, <2>1
    <3>2. PICK i \in 1..Len(s) : s[i].frame = n /\ s[i].part = p
      BY <3>1 DEF Whole, Covering
    <3>3. i \in 1..Len(t) /\ t[i] = s[i]
      BY <1>2, <1>4
    <3> QED BY <3>2, <3>3
  <2>2. CASE n = new
    <3>1. p \in 1..FrameLen[kind]
      BY <1>3, <2>2
    <3>2. Len(s) + p \in 1..Len(t) /\ Len(s) + p > Len(s) /\ (Len(s) + p) - Len(s) = p
      <4>1. p \in 1..Len(u) /\ Len(t) = Len(s) + Len(u)
        BY <1>1, <1>4, <3>1
      <4> QED BY <1>2, <4>1
    <3>3. t[Len(s) + p] = u[p]
      BY <1>4, <3>2
    <3> QED BY <1>1, <2>2, <3>1, <3>2, <3>3
  <2> QED BY <2>1, <2>2
<1>9. Whole(t, first, all)
  BY <1>6, <1>7, <1>8 DEF Whole
<1> QED BY <1>1, <1>4, <1>9 DEF t, u, all, Stream

(* As long as no frame is complete, what has arrived belongs to the first frame
   and is shorter than it. *)
LEMMA HalfFrame ==
  ASSUME NEW s \in Stream, NEW first \in Nat \ {0}, NEW frames \in Seq(FrameKind),
         Whole(s, first, frames), NEW n \in 1..Len(s),
         \A i \in 1..n : s[i].part # FrameLen[frames[s[i].frame]]
  PROVE  first \in 1..Len(frames) /\ n < FrameLen[frames[first]]
<1>1. Len(s) \in Nat /\ s # <<>>
  BY DEF Stream
<1>2. first \in 1..Len(frames) /\ first \in first..Len(frames)
  BY <1>1, WholeHead
<1> DEFINE len == FrameLen[frames[first]]
<1>3. len \in Nat \ {0}
  BY <1>2, LenType
<1>4. PICK e \in 1..Len(s) : s[e].frame = first /\ s[e].part = len
  <2>1. len \in 1..FrameLen[frames[first]]
    BY <1>3
  <2> HIDE DEF len
  <2> QED BY <1>2, <2>1 DEF Whole, Covering
<1>5. n < e
  BY <1>1, <1>4
<1>6. ASSUME NEW i \in 1..n PROVE s[i].frame = first /\ s[i].part \in 1..len-1
  <2>1. i \in 1..Len(s) /\ i < e
    BY <1>1, <1>5
  <2>2. Before(s[i], s[e])
    BY <2>1 DEF Whole, Ascending
  <2>3. s[i].frame \in first..Len(frames) /\ s[i].part \in 1..FrameLen[frames[s[i].frame]]
    BY <2>1 DEF Whole, Within
  <2>4. s[i].frame \in Nat /\ s[i].part \in Nat \ {0} /\ first <= s[i].frame
    BY <2>1, <2>3, UnitFacts
  <2>5. s[i].frame = first /\ s[i].part < len
    <3> HIDE DEF len
    <3> QED BY <1>3, <1>4, <2>2, <2>4 DEF Before
  <2> QED BY <1>3, <2>4, <2>5
<1> DEFINE f == [i \in 1..n |-> s[i].part]
<1>7. f \in Injection(1..n, 1..len-1)
  <2>1. f \in [1..n -> 1..len-1]
    BY <1>6
  <2>2. ASSUME NEW i \in 1..n, NEW j \in 1..n, i < j PROVE f[i] # f[j]
    <3>1. i \in 1..Len(s) /\ j \in 1..Len(s)
      BY <1>1
    <3>2. Before(s[i], s[j])
      BY <2>2, <3>1 DEF Whole, Ascending
    <3> QED BY <1>6, <3>2 DEF Before
  <2>3. ASSUME NEW i \in 1..n, NEW j \in 1..n, f[i] = f[j] PROVE i = j
    BY <2>2, <2>3
  <2> HIDE DEF f
  <2> QED BY <2>1, <2>3 DEF Injection, IsInjective
<1>8. Cardinality(1..n) = n /\ IsFiniteSet(1..len-1) /\ Cardinality(1..len-1) = len - 1
  <2>1. n \in Nat /\ len - 1 \in Nat
    BY <1>1, <1>3
  <2> HIDE DEF len, f
  <2> QED BY <2>1, OneTo
<1>9. Cardinality(1..n) <= Cardinality(1..len-1)
  <2> HIDE DEF f, len
  <2> QED BY <1>7, <1>8, FS_Injection
<1> QED BY <1>1, <1>2, <1>3, <1>8, <1>9

-----------------------------------------------------------------------------
(* The frames of a run.  Heads, the first units of its frames, are counted off. *)

LEMMA HeadsCount ==
  ASSUME NEW s \in Stream, NEW first \in Nat \ {0}, NEW frames \in Seq(FrameKind),
         Whole(s, first, frames), NEW n \in 1..Len(s)
  PROVE  /\ IsFiniteSet(Heads(s, n))
         /\ Cardinality(Heads(s, n)) = s[n].frame - first + 1
         /\ s[n].frame \in first..Len(frames)
<1> DEFINE H == Heads(s, n)
           m == s[n].frame
           f == [h \in H |-> s[h].frame]
<1>1. Len(s) \in Nat
  BY DEF Stream
<1>2. m \in first..Len(frames)
  BY DEF Whole, Within
<1>3. \A i \in 1..Len(s) : s[i].frame \in first..Len(frames) /\ s[i].part \in Nat \ {0}
  BY UnitFacts DEF Whole, Within
<1>4. \A i, j \in 1..Len(s) : i < j => Before(s[i], s[j])
  BY DEF Whole, Ascending
<1>5. H \subseteq 1..Len(s) /\ \A h \in H : h <= n /\ s[h].part = 1
  BY <1>1 DEF Heads
<1>6. ASSUME NEW h \in H PROVE f[h] \in first..m
  <2>1. h \in 1..Len(s) /\ h <= n /\ f[h] = s[h].frame
    BY <1>5
  <2>2. h < n => Before(s[h], s[n])
    BY <1>4, <2>1
  <2> QED BY <1>1, <1>2, <1>3, <2>1, <2>2 DEF Before
<1>7. ASSUME NEW g \in H, NEW h \in H, f[g] = f[h] PROVE g = h
  <2>1. ASSUME NEW i \in H, NEW j \in H, i < j PROVE f[i] # f[j]
    <3>1. Before(s[i], s[j]) /\ s[i].part = 1 /\ s[j].part = 1
      BY <1>4, <1>5, <2>1
    <3>2. s[i].frame < s[j].frame
      BY <3>1 DEF Before
    <3>3. s[i].frame \in first..Len(frames) /\ s[j].frame \in first..Len(frames)
      BY <1>3, <1>5
    <3> QED BY <3>2, <3>3
  <2>2. g \in 1..Len(s) /\ h \in 1..Len(s)
    BY <1>5
  <2>3. ~(g < h) /\ ~(h < g)
    BY <1>7, <2>1
  <2> QED BY <1>1, <2>2, <2>3
<1>8. ASSUME NEW k \in first..m PROVE \E h \in H : f[h] = k
  <2>1. k \in first..Len(frames) /\ k \in 1..Len(frames)
    BY <1>2
  <2>2. 1 \in 1..FrameLen[frames[k]]
    BY <2>1, LenType
  <2>3. PICK i \in 1..Len(s) : s[i].frame = k /\ s[i].part = 1
    BY <2>1, <2>2 DEF Whole, Covering
  <2>4. ~(n < i)
    <3> SUFFICES ASSUME n < i PROVE FALSE
      OBVIOUS
    <3>1. Before(s[n], s[i])
      BY <1>4
    <3> QED BY <1>2, <1>3, <2>3, <3>1 DEF Before
  <2>5. i \in H
    BY <1>1, <2>3, <2>4 DEF Heads
  <2> QED BY <2>3, <2>5
<1>9. f \in Bijection(H, first..m)
  <2>1. f \in [H -> first..m]
    BY <1>6
  <2> HIDE DEF f, H, m
  <2> QED BY <2>1, <1>7, <1>8 DEF Bijection, Injection, Surjection, IsInjective
<1>10. IsFiniteSet(first..m) /\ Cardinality(first..m) = m - first + 1
  <2>1. first \in Int /\ m \in Int /\ first <= m
    BY <1>2
  <2> HIDE DEF m
  <2> QED BY <2>1, FS_Interval
<1>11. IsFiniteSet(H)
  <2>1. H \subseteq 1..n /\ IsFiniteSet(1..n)
    BY <1>1, FS_Interval DEF Heads
  <2> QED BY <2>1, FS_Subset
<1>12. Cardinality(first..m) = Cardinality(H)
  <2> HIDE DEF f, H, m
  <2>1. ExistsBijection(H, first..m)
    BY <1>9 DEF ExistsBijection
  <2> QED BY <1>11, <2>1, FS_Bijection
<1> QED BY <1>2, <1>10, <1>11, <1>12

LEMMA FramesOfRun ==
  ASSUME sent \in Seq(FrameKind), NEW s \in Stream, NEW first \in Nat \ {0},
         Whole(s, first, sent), NEW n \in 1..Len(s),
         NEW p \in Stream, Len(p) = n, \A i \in 1..n : p[i] = s[i]
  PROVE  FramesOf(p) = SubSeq(sent, first, s[n].frame)
<1> DEFINE m == s[n].frame
           H == Heads(p, Len(p))
<1>1. Len(s) \in Nat /\ Len(sent) \in Nat
  BY DEF Stream
<1>2. ASSUME NEW i \in 1..n PROVE Heads(p, i) = Heads(s, i)
  BY <1>1 DEF Heads
<1>3. ASSUME NEW i \in 1..n
      PROVE  /\ IsFiniteSet(Heads(p, i)) /\ s[i].frame \in first..Len(sent)
             /\ Cardinality(Heads(p, i)) = s[i].frame - first + 1
  <2>1. i \in 1..Len(s)
    BY <1>1
  <2> QED BY <1>2, <2>1, HeadsCount
<1>4. m \in first..Len(sent) /\ Cardinality(H) = m - first + 1
  BY <1>1, <1>3
<1>5. H \subseteq 1..n
  BY DEF Heads
<1>6. ASSUME NEW k \in 1..m-first+1
      PROVE  NthHead(p, k) \in H /\ s[NthHead(p, k)].frame = first + k - 1
  <2>1. first + k - 1 \in first..Len(sent) /\ first + k - 1 \in 1..Len(sent)
    BY <1>4
  <2>2. 1 \in 1..FrameLen[sent[first + k - 1]]
    BY <2>1, LenType
  <2>3. PICK i \in 1..Len(s) : s[i].frame = first + k - 1 /\ s[i].part = 1
    <3> DEFINE q == first + k - 1
    <3>1. q \in first..Len(sent) /\ 1 \in 1..FrameLen[sent[q]]
      BY <2>1, <2>2
    <3> HIDE DEF q, m, H
    <3>2. \E i \in 1..Len(s) : s[i].frame = q /\ s[i].part = 1
      BY <3>1 DEF Whole, Covering
    <3> QED BY <3>2 DEF q
  <2>4. ~(n < i)
    <3> SUFFICES ASSUME n < i PROVE FALSE
      OBVIOUS
    <3>1. Before(s[n], s[i])
      BY DEF Whole, Ascending
    <3>2. s[n].part \in Nat \ {0}
      BY UnitFacts
    <3> QED BY <1>4, <2>1, <2>3, <3>1, <3>2, SMTT(30) DEF Before
  <2>5. i \in 1..n /\ i \in H
    BY <1>1, <2>3, <2>4 DEF Heads
  <2>6. Cardinality(Heads(p, i)) = k
    BY <1>3, <1>4, <2>3, <2>5
  <2>7. NthHead(p, k) \in H /\ Cardinality(Heads(p, NthHead(p, k))) = k
    BY <2>5, <2>6 DEF NthHead
  <2> DEFINE h == NthHead(p, k)
  <2> HIDE DEF h
  <2>8. h \in 1..n /\ Cardinality(Heads(p, h)) = k
    BY <1>5, <2>7 DEF h
  <2>9. s[h].frame \in first..Len(sent) /\ k = s[h].frame - first + 1
    BY <1>3, <2>8
  <2>10. s[h].frame = first + k - 1
    BY <2>9
  <2> QED BY <2>7, <2>10 DEF h
<1> DEFINE a == FramesOf(p)
           b == SubSeq(sent, first, m)
           len == m - first + 1
<1>7. a = [k \in 1..len |-> sent[p[NthHead(p, k)].frame]]
  BY <1>4 DEF FramesOf
<1>8. ASSUME NEW k \in 1..len PROVE a[k] = sent[first + k - 1] /\ first + k - 1 \in 1..Len(sent)
  <2>1. NthHead(p, k) \in 1..n /\ s[NthHead(p, k)].frame = first + k - 1
    BY <1>5, <1>6
  <2>2. a[k] = sent[p[NthHead(p, k)].frame]
    BY <1>7
  <2> DEFINE h == NthHead(p, k)
  <2> HIDE DEF h, a
  <2>3. p[h] = s[h] /\ s[h].frame = first + k - 1 /\ a[k] = sent[p[h].frame]
    BY <2>1, <2>2 DEF h
  <2>4. first + k - 1 \in 1..Len(sent)
    BY <1>4
  <2> QED BY <2>3, <2>4
<1>9. len \in Nat
  BY <1>4
<1>10. a \in Seq(FrameKind) /\ Len(a) = len
  <2>1. ASSUME NEW k \in 1..len PROVE a[k] \in FrameKind
    <3>1. a[k] = sent[first + k - 1] /\ first + k - 1 \in 1..Len(sent)
      BY <1>8
    <3> HIDE DEF a, len
    <3> QED BY <3>1, ElementOfSeq
  <2>2. a \in [1..len -> FrameKind]
    <3> HIDE DEF a, len
    <3> QED BY <1>7, <2>1
  <2> HIDE DEF a, len
  <2> QED BY <1>9, <2>2
<1>11. /\ b \in Seq(FrameKind) /\ Len(b) = len
       /\ \A k \in 1..len : b[k] = sent[first + k - 1]
  <2>1. \A i \in first..m : sent[i] \in FrameKind
    BY <1>1, <1>4
  <2>2. first \in Int /\ m \in Int /\ first <= m
    BY <1>1, <1>4
  <2> HIDE DEF m
  <2> QED BY <2>1, <2>2, SubSeqProperties
<1>12. a = b
  <2> HIDE DEF a, b, len
  <2> QED BY <1>8, <1>10, <1>11, SeqEqual
<1> QED BY <1>12

LEMMA NoFrames == FramesOf(<<>>) = <<>>
<1>1. Heads(<<>>, 0) = {}
  BY DEF Heads
<1>2. Cardinality(Heads(<<>>, 0)) = 0
  BY <1>1, FS_EmptySet
<1> QED BY <1>2 DEF FramesOf

-----------------------------------------------------------------------------
(* protocol_parse. *)

LEMMA ConsumedFacts ==
  ASSUME NEW buf \in Stream
  PROVE  /\ Consumed(buf) \in 0..Len(buf)
         /\ Consumed(buf) # 0 => EndsFrame(buf[Consumed(buf)])
         /\ \A i \in 1..Len(buf) : EndsFrame(buf[i]) => i <= Consumed(buf)
<1> DEFINE ends == {0} \cup {i \in 1..Len(buf) : EndsFrame(buf[i])}
<1>1. Len(buf) \in Nat
  BY DEF Stream
<1>2. ends \subseteq 0..Len(buf) /\ ends # {}
  BY <1>1
<1>3. \E x \in ends : \A y \in ends : y <= x
  <2> HIDE DEF ends
  <2> QED BY <1>1, <1>2, MaxExists
<1>4. Consumed(buf) \in ends /\ \A y \in ends : y <= Consumed(buf)
  BY <1>3 DEF Consumed
<1> QED BY <1>2, <1>4

LEMMA LoginBound ==
  ASSUME NEW buf \in Stream
  PROVE  /\ LoginConsumed(buf) \in 0..Len(buf)
         /\ LoginConsumed(buf) # 0 => EndsFrame(buf[LoginConsumed(buf)])
<1> DEFINE n == LoginConsumed(buf)
           ends == {i \in 1..Len(buf) : EndsFrame(buf[i]) /\ sent[buf[i].frame] # "TEXT"}
<1>1. CASE ends = {}
  <2>1. n = Consumed(buf)
    BY <1>1 DEF LoginConsumed
  <2> QED BY <2>1, ConsumedFacts
<1>2. CASE ends # {}
  <2>1. n = CHOOSE k \in ends : \A j \in ends : k <= j
    BY <1>2 DEF LoginConsumed
  <2>2. ends \subseteq Nat /\ Len(buf) \in Nat
    BY DEF Stream
  <2> HIDE DEF n
  <2>3. n \in ends
    <3> HIDE DEF ends
    <3>1. \E k \in ends : \A j \in ends : k <= j
      BY <1>2, <2>2, MinExists
    <3> QED BY <2>1, <3>1
  <2>4. n \in 0..Len(buf) /\ EndsFrame(buf[n])
    BY <2>2, <2>3
  <2> QED BY <2>4 DEF n
<1> QED BY <1>1, <1>2

LEMMA ConsumedNone ==
  ASSUME NEW buf \in Stream, NoEnd(sent, buf)
  PROVE  Consumed(buf) = 0 /\ LoginConsumed(buf) = 0
<1>1. \A i \in 1..Len(buf) : ~EndsFrame(buf[i])
  BY DEF NoEnd, EndsFrame
<1>2. Consumed(buf) = 0
  BY <1>1, ConsumedFacts DEF Stream
<1>3. {i \in 1..Len(buf) : EndsFrame(buf[i]) /\ sent[buf[i].frame] # "TEXT"} = {}
  BY <1>1
<1> QED BY <1>2, <1>3 DEF LoginConsumed

(* Nothing complete is left behind. *)
LEMMA DrainedAfter ==
  ASSUME NEW buf \in Stream
  PROVE  NoEnd(sent, Rest(buf, Consumed(buf)))
<1> DEFINE n == Consumed(buf)
           r == Rest(buf, n)
<1>1. n \in 0..Len(buf) /\ Len(buf) \in Nat /\ \A i \in 1..Len(buf) : EndsFrame(buf[i]) => i <= n
  BY ConsumedFacts DEF Stream
<1> HIDE DEF n
<1>2. Len(r) = Len(buf) - n /\ \A i \in 1..Len(buf)-n : r[i] = buf[n + i]
  BY <1>1, RestFacts DEF Stream
<1> HIDE DEF r
<1>3. ASSUME NEW i \in 1..Len(r) PROVE ~EndsFrame(r[i])
  <2>1. n + i \in 1..Len(buf) /\ n + i > n /\ r[i] = buf[n + i]
    BY <1>1, <1>2
  <2> QED BY <1>1, <2>1
<1>4. NoEnd(sent, r)
  BY <1>3 DEF NoEnd, EndsFrame
<1> QED BY <1>4 DEF r, n

-----------------------------------------------------------------------------
(* The buffer between two calls. *)

LEMMA Joined ==
  ASSUME NEW buf \in Stream, NEW w \in Stream
  PROVE  /\ buf \o w \in Stream /\ Len(buf \o w) = Len(buf) + Len(w)
         /\ Len(buf) \in Nat /\ Len(w) \in Nat
         /\ \A i \in 1..Len(buf) : i \in 1..Len(buf \o w) /\ (buf \o w)[i] = buf[i]
<1>1. buf \o w \in Seq(Unit) /\ Len(buf \o w) = Len(buf) + Len(w)
  BY ConcatProperties DEF Stream
<1>2. \A i \in 1..Len(buf) + Len(w) : (buf \o w)[i] = IF i <= Len(buf) THEN buf[i] ELSE w[i - Len(buf)]
  BY ConcatProperties DEF Stream
<1>3. Len(buf) \in Nat /\ Len(w) \in Nat
  BY DEF Stream
<1> DEFINE s == buf \o w
<1> HIDE DEF s
<1>4. \A i \in 1..Len(buf) : i \in 1..Len(s) /\ s[i] = buf[i]
  BY <1>1, <1>2, <1>3 DEF s
<1> QED BY <1>1, <1>3, <1>4 DEF Stream, s

LEMMA Synced ==
  ASSUME sent \in Seq(FrameKind), NEW hd \in Seq(FrameKind), NEW buf \in Stream,
         NEW w \in Stream, Aligned(sent, hd, buf, w)
  PROVE  Synchronised(buf)
<1> SUFFICES ASSUME buf # <<>> PROVE buf[1].part = 1
  BY DEF Synchronised
<1>1. 1 \in 1..Len(buf)
  BY DEF Stream
<1> DEFINE s == buf \o w
<1>2. s \in Stream /\ s[1] = buf[1] /\ 1 \in 1..Len(s)
  BY <1>1, Joined
<1>3. s # <<>>
  BY <1>2
<1>4. Len(hd) + 1 \in Nat \ {0} /\ Whole(s, Len(hd) + 1, sent)
  BY DEF Aligned
<1> HIDE DEF s
<1>5. s[1].part = 1
  BY <1>2, <1>3, <1>4, WholeHead
<1> QED BY <1>2, <1>5

LEMMA SmallBuffer ==
  ASSUME sent \in Seq(FrameKind), NEW hd \in Seq(FrameKind), NEW buf \in Stream,
         NEW w \in Stream, Aligned(sent, hd, buf, w), NoEnd(sent, buf)
  PROVE  Len(buf) < 2 * CapInit
<1>1. Len(buf) \in Nat /\ CapInit \in Nat \ {0}
  BY LoopAssumption DEF Stream
<1>2. CASE Len(buf) = 0
  BY <1>1, <1>2
<1>3. CASE Len(buf) > 0
  <2> DEFINE s == buf \o w
             first == Len(hd) + 1
             n == Len(buf)
  <2>1. s \in Stream /\ n \in 1..Len(s) /\ \A i \in 1..n : s[i] = buf[i]
    <3>1. /\ s \in Stream /\ Len(s) = n + Len(w) /\ Len(w) \in Nat
          /\ \A i \in 1..n : s[i] = buf[i]
      BY Joined
    <3> HIDE DEF s, n
    <3>2. n \in Nat /\ n > 0
      BY <1>1, <1>3 DEF n
    <3> QED BY <3>1, <3>2
  <2>2. first \in Nat \ {0} /\ Whole(s, first, sent)
    BY DEF Aligned
  <2> HIDE DEF s, first
  <2>3. \A i \in 1..n : s[i].part # FrameLen[sent[s[i].frame]]
    BY <2>1 DEF NoEnd
  <2>4. first \in 1..Len(sent) /\ n < FrameLen[sent[first]]
    <3> HIDE DEF n
    <3> QED BY <2>1, <2>2, <2>3, HalfFrame
  <2>5. FrameLen[sent[first]] \in Nat /\ FrameLen[sent[first]] <= 2 * CapInit
    BY <2>4, LenType, CapacityAssumption
  <2> QED BY <1>1, <2>4, <2>5
<1> QED BY <1>1, <1>2, <1>3

(* Handling the frames that end at position n keeps the three in step. *)
LEMMA HandleRun ==
  ASSUME sent \in Seq(FrameKind), NEW hd \in Seq(FrameKind), NEW buf \in Stream,
         NEW w \in Stream, Aligned(sent, hd, buf, w),
         NEW n \in 0..Len(buf), n # 0 => EndsFrame(buf[n])
  PROVE  LET done == SubSeq(buf, 1, n)
         IN  /\ FramesOf(done) \in Seq(FrameKind) /\ Rest(buf, n) \in Stream
             /\ hd \o FramesOf(done) \in Seq(FrameKind)
             /\ Aligned(sent, hd \o FramesOf(done), Rest(buf, n), w)
             /\ n = 0 => FramesOf(done) = <<>>
             /\ n # 0 => FramesOf(done) = SubSeq(sent, Len(hd) + 1, buf[n].frame)
<1> DEFINE done == SubSeq(buf, 1, n)
           first == Len(hd) + 1
           s == buf \o w
           more == FramesOf(done)
<1>1. /\ Len(buf) \in Nat /\ Len(sent) \in Nat /\ Len(hd) \in Nat
      /\ buf \in Seq(Unit) /\ w \in Seq(Unit)
  BY DEF Stream
<1>2. /\ first \in Nat \ {0} /\ Len(hd) <= Len(sent) /\ hd = SubSeq(sent, 1, Len(hd))
      /\ Whole(s, first, sent)
  BY DEF Aligned
<1>3. done \in Stream /\ Len(done) = n /\ \A i \in 1..n : done[i] = buf[i]
  BY <1>1, PrefixFacts DEF Stream
<1>4. CASE n = 0
  <2>1. done = <<>>
    BY <1>3, <1>4 DEF Stream
  <2> HIDE DEF done
  <2>2. more = <<>> /\ hd \o more = hd
    <3>1. more = <<>>
      BY <2>1, NoFrames
    <3>2. hd \o <<>> = hd
      BY ConcatEmptySeq
    <3> QED BY <3>1, <3>2
  <2>3. Rest(buf, n) = buf
    BY <1>1, <1>4 DEF Rest
  <2> HIDE DEF more
  <2>4. more \in Seq(FrameKind) /\ hd \o more \in Seq(FrameKind)
    BY <2>2
  <2> QED BY <1>4, <2>2, <2>3, <2>4 DEF more, done
<1>5. CASE n # 0
  <2> DEFINE m == s[n].frame
             grown == hd \o more
  <2>1. /\ s \in Stream /\ n \in 1..Len(s) /\ s[n] = buf[n]
        /\ \A i \in 1..n : done[i] = s[i]
    <3>1. n \in 1..Len(buf)
      BY <1>1, <1>5
    <3>2. /\ s \in Stream /\ \A i \in 1..Len(buf) : i \in 1..Len(s) /\ s[i] = buf[i]
      BY Joined
    <3> HIDE DEF s, done
    <3>3. ASSUME NEW i \in 1..n PROVE done[i] = s[i]
      BY <1>1, <1>3, <3>2
    <3> QED BY <3>1, <3>2, <3>3
  <2> HIDE DEF s, done, first
  <2>2. m \in first..Len(sent)
    BY <1>2, <2>1 DEF Whole, Within
  <2>3. more = SubSeq(sent, first, m)
    BY <1>2, <1>3, <2>1, FramesOfRun
  <2>4. Whole(Rest(s, n), m + 1, sent)
    <3>1. s[n].part = FrameLen[sent[m]]
      BY <1>5, <2>1 DEF EndsFrame
    <3> QED BY <1>2, <2>1, <3>1, WholeCut
  <2>5. Rest(s, n) = Rest(buf, n) \o w
    BY <1>1, RestConcat DEF s
  <2>6. /\ more \in Seq(FrameKind) /\ Len(more) = m - first + 1
        /\ \A k \in 1..m-first+1 : more[k] = sent[first + k - 1]
    <3>1. \A i \in first..m : sent[i] \in FrameKind
      BY <1>2, <2>2
    <3>2. first \in Int /\ m \in Int /\ first <= m
      BY <1>2, <2>2
    <3> HIDE DEF m, more
    <3> QED BY <2>3, <3>1, <3>2, SubSeqProperties
  <2> HIDE DEF m, more
  <2>7. /\ grown \in Seq(FrameKind) /\ Len(grown) = m
        /\ \A k \in 1..m : grown[k] = sent[k]
    <3>1. grown \in Seq(FrameKind) /\ Len(grown) = Len(hd) + Len(more)
      BY <2>6, ConcatProperties
    <3>2. Len(grown) = m /\ m \in Nat
      BY <1>1, <1>2, <2>2, <2>6, <3>1 DEF first
    <3>3. ASSUME NEW k \in 1..m PROVE grown[k] = sent[k]
      <4>1. k \in 1..Len(hd) + Len(more)
        BY <3>1, <3>2, <3>3
      <4>2. grown[k] = IF k <= Len(hd) THEN hd[k] ELSE more[k - Len(hd)]
        BY <2>6, <4>1, ConcatProperties
      <4>3. CASE k <= Len(hd)
        <5>1. k \in 1..Len(hd)
          BY <3>2, <4>3
        <5>2. SubSeq(sent, 1, Len(hd))[k] = sent[k]
          BY <1>1, <1>2, <5>1
        <5> QED BY <1>2, <4>2, <4>3, <5>2
      <4>4. CASE k > Len(hd)
        <5>1. k - Len(hd) \in 1..m-first+1 /\ first + (k - Len(hd)) - 1 = k
          BY <1>1, <3>2, <4>4 DEF first
        <5> QED BY <1>1, <2>6, <4>2, <4>4, <5>1
      <4> QED BY <1>1, <3>2, <4>3, <4>4
    <3> QED BY <3>1, <3>2, <3>3
  <2> HIDE DEF grown
  <2>8. m \in 0..Len(sent) /\ grown = SubSeq(sent, 1, Len(grown))
    <3>1. m \in 0..Len(sent)
      BY <1>1, <1>2, <2>2
    <3>2. /\ SubSeq(sent, 1, m) \in Seq(FrameKind) /\ Len(SubSeq(sent, 1, m)) = m
          /\ \A k \in 1..m : SubSeq(sent, 1, m)[k] = sent[k]
      BY <3>1, PrefixFacts
    <3>3. grown = SubSeq(sent, 1, m)
      BY <2>7, <3>2, SeqEqual
    <3> QED BY <2>7, <3>1, <3>3
  <2>9. Aligned(sent, grown, Rest(buf, n), w)
    <3>1. Len(grown) <= Len(sent)
      BY <2>7, <2>8
    <3>2. Whole(Rest(buf, n) \o w, Len(grown) + 1, sent)
      BY <2>4, <2>5, <2>7
    <3> QED BY <2>8, <3>1, <3>2 DEF Aligned
  <2>10. Rest(buf, n) \in Stream
    BY <1>1, RestFacts DEF Stream
  <2>11. m = buf[n].frame
    BY <2>1 DEF m
  <2> QED BY <1>5, <2>3, <2>6, <2>7, <2>9, <2>10, <2>11 DEF grown, more, done, first
<1> QED BY <1>4, <1>5

(* The login loop takes the answer to AUTH, and it alone, once it is complete. *)
LEMMA LoginTakes ==
  ASSUME sent \in Seq(FrameKind), NEW hd \in Seq(FrameKind), NEW buf \in Stream,
         NEW w \in Stream, Aligned(sent, hd, buf, w),
         sent[Len(hd) + 1] \in {"ERROR", "WELCOME"}
  PROVE  LET n == LoginConsumed(buf)
         IN  \/ /\ n = 0 /\ NoEnd(sent, buf) /\ Kinds(SubSeq(buf, 1, n)) = {}
             \/ /\ n \in 1..Len(buf) /\ EndsFrame(buf[n])
                /\ buf[n].frame = Len(hd) + 1 /\ Len(hd) + 1 <= Len(sent)
                /\ Kinds(SubSeq(buf, 1, n)) = {sent[Len(hd) + 1]}
<1> DEFINE n == LoginConsumed(buf)
           first == Len(hd) + 1
           s == buf \o w
           ends == {i \in 1..Len(buf) : EndsFrame(buf[i]) /\ sent[buf[i].frame] # "TEXT"}
<1>1. /\ Len(buf) \in Nat /\ Len(sent) \in Nat /\ first \in Nat \ {0}
      /\ s \in Stream /\ Whole(s, first, sent)
      /\ \A i \in 1..Len(buf) : i \in 1..Len(s) /\ s[i] = buf[i]
  <2>1. Len(buf) \in Nat /\ Len(sent) \in Nat /\ first \in Nat \ {0} /\ Whole(s, first, sent)
    BY DEF Aligned, Stream
  <2>2. s \in Stream /\ \A i \in 1..Len(buf) : i \in 1..Len(s) /\ s[i] = buf[i]
    BY Joined
  <2> HIDE DEF s
  <2> QED BY <2>1, <2>2
<1> HIDE DEF s
<1>2. CASE \A i \in 1..Len(buf) : ~EndsFrame(buf[i])
  <2>1. NoEnd(sent, buf)
    BY <1>2 DEF NoEnd, EndsFrame
  <2>2. n = 0
    BY <2>1, ConsumedNone
  <2>3. SubSeq(buf, 1, n) = <<>>
    BY <2>2 DEF Stream
  <2>4. Kinds(<<>>) = {}
    BY NoFrames DEF Kinds
  <2> QED BY <2>1, <2>2, <2>3, <2>4
<1>3. CASE \E i \in 1..Len(buf) : EndsFrame(buf[i])
  <2>1. PICK i \in 1..Len(buf) : EndsFrame(buf[i])
    BY <1>3
  <2>2. /\ i \in 1..Len(s) /\ s[i].frame \in first..Len(sent)
        /\ s[i].part = FrameLen[sent[s[i].frame]] /\ s[i] = buf[i]
    BY <1>1, <2>1 DEF EndsFrame, Whole, Within
  <2>3. first \in 1..Len(sent) /\ FrameLen[sent[first]] \in Nat \ {0}
    BY <1>1, <2>2, LenType
  <2> DEFINE len == FrameLen[sent[first]]
  <2>4. PICK e \in 1..Len(s) : s[e].frame = first /\ s[e].part = len
    <3>1. first \in first..Len(sent) /\ len \in 1..FrameLen[sent[first]]
      BY <2>3
    <3> HIDE DEF len, first
    <3> QED BY <1>1, <3>1 DEF Whole, Covering
  <2>5. ASSUME NEW k \in 1..Len(buf), EndsFrame(buf[k]) PROVE e <= k
    <3>1. /\ k \in 1..Len(s) /\ s[k].frame \in first..Len(sent)
          /\ s[k].part = FrameLen[sent[s[k].frame]]
      BY <1>1, <2>5 DEF EndsFrame, Whole, Within
    <3>2. k < e => Before(s[k], s[e])
      BY <1>1, <3>1 DEF Whole, Ascending
    <3>3. ~(k < e)
      BY <1>1, <2>3, <2>4, <3>1, <3>2 DEF Before
    <3> QED BY <1>1, <3>1, <3>3
  <2>6. e \in 1..Len(buf) /\ s[e] = buf[e]
    <3>1. e <= i
      BY <2>1, <2>5
    <3>2. e \in 1..Len(buf)
      BY <1>1, <3>1
    <3> QED BY <1>1, <3>2
  <2>7. e \in ends /\ \A k \in ends : e <= k
    <3>1. EndsFrame(buf[e]) /\ sent[buf[e].frame] # "TEXT"
      BY <2>4, <2>6 DEF EndsFrame
    <3> QED BY <2>5, <2>6, <3>1
  <2>8. n = e
    <3>1. n = CHOOSE k \in ends : \A j \in ends : k <= j
      BY <2>7 DEF LoginConsumed
    <3>2. n \in ends /\ \A j \in ends : n <= j
      <4> HIDE DEF ends, n
      <4> QED BY <2>7, <3>1
    <3>3. n \in 1..Len(buf) /\ n <= e /\ e <= n
      <4> HIDE DEF n
      <4> QED BY <2>7, <3>2
    <3> QED BY <1>1, <3>3
  <2> HIDE DEF n
  <2>9. EndsFrame(buf[n]) /\ buf[n].frame = first /\ n \in 1..Len(buf) /\ n \in 0..Len(buf) /\ n # 0
    BY <1>1, <2>4, <2>6, <2>7, <2>8
  <2> DEFINE done == SubSeq(buf, 1, n)
  <2>10. FramesOf(done) = SubSeq(sent, first, first)
    <3>1. e \in 0..Len(buf) /\ e # 0 /\ EndsFrame(buf[e]) /\ buf[e].frame = first
      BY <2>8, <2>9
    <3>2. FramesOf(SubSeq(buf, 1, e)) = SubSeq(sent, Len(hd) + 1, buf[e].frame)
      BY <3>1, HandleRun
    <3> QED BY <2>8, <3>1, <3>2
  <2>11. Kinds(done) = {sent[first]}
    <3> DEFINE q == SubSeq(sent, first, first)
    <3>1. Len(q) = 1 /\ q[1] = sent[first]
      BY <2>3
    <3> HIDE DEF done, first, q
    <3>2. FramesOf(done) = q
      BY <2>10 DEF q
    <3>3. 1..Len(q) = {1}
      BY <3>1
    <3> QED BY <3>1, <3>2, <3>3 DEF Kinds
  <2> QED BY <2>3, <2>9, <2>11 DEF n
<1> QED BY <1>2, <1>3

-----------------------------------------------------------------------------
(* What the steps are made of. *)

LEMMA InvFacts ==
  ASSUME LoopInv
  PROVE  /\ TypeOK /\ Flow /\ Drained /\ Room /\ NeverGivesUp /\ LoginOrder /\ Counts
         /\ rbuf \in Stream /\ wire \in Stream
         /\ sent \in Seq(FrameKind) /\ handled \in Seq(FrameKind)
         /\ Aligned(sent, handled, rbuf, wire)
BY DEF LoopInv, TypeOK, Stream, Flow

(* recv moves the bytes and grows the buffer, at most once. *)
LEMMA RecvFacts ==
  ASSUME LoopInv, pc # "closed", NEW batch \in Batches, Recv(batch)
  PROVE  /\ rbuf \o batch \in Stream /\ wire' \in Stream /\ rbuf \o batch # <<>>
         /\ Aligned(sent, handled, rbuf \o batch, wire')
         /\ Len(rbuf \o batch) <= cap' /\ cap' \in {CapInit, 2 * CapInit} /\ cap' \in Nat
<1>1. /\ rbuf \in Stream /\ wire \in Stream /\ Aligned(sent, handled, rbuf, wire)
      /\ sent \in Seq(FrameKind) /\ handled \in Seq(FrameKind)
      /\ NoEnd(sent, rbuf) /\ cap \in {CapInit, 2 * CapInit} /\ Len(rbuf) <= cap
  BY InvFacts DEF Drained, Room
<1>2. PICK n \in 1..Len(wire) : batch = SubSeq(wire, 1, n)
  BY DEF Batches
<1>3. /\ rbuf \in Seq(Unit) /\ wire \in Seq(Unit) /\ n \in 0..Len(wire)
      /\ Len(rbuf) \in Nat /\ Len(wire) \in Nat
  BY <1>1 DEF Stream
<1>4. batch \in Seq(Unit) /\ Len(batch) = n
  BY <1>2, <1>3, PrefixFacts
<1>5. wire' = Rest(wire, n) /\ wire' \in Seq(Unit)
  <2>1. wire' = Rest(wire, n)
    BY <1>4 DEF Recv
  <2>2. Rest(wire, n) \in Seq(Unit)
    BY <1>3, RestFacts
  <2> QED BY <2>1, <2>2
<1>6. rbuf \o batch \in Seq(Unit) /\ Len(rbuf \o batch) = Len(rbuf) + n
  BY <1>3, <1>4, ConcatProperties
<1>7. (rbuf \o batch) \o wire' = rbuf \o wire
  BY <1>2, <1>3, <1>5, MoveBatch
<1>8. Aligned(sent, handled, rbuf \o batch, wire')
  BY <1>1, <1>7 DEF Aligned
<1>9. Len(rbuf) < 2 * CapInit /\ CapInit \in Nat \ {0}
  BY <1>1, SmallBuffer, LoopAssumption
<1>10. /\ cap' \in {CapInit, 2 * CapInit} /\ cap' \in Nat
       /\ Len(rbuf) + n <= cap'
  BY <1>1, <1>3, <1>4, <1>9 DEF Recv, CapacityNow
<1>11. rbuf \o batch # <<>>
  BY <1>3, <1>6
<1> QED BY <1>5, <1>6, <1>8, <1>10, <1>11 DEF Stream

(* The buffer never fails for want of a larger limit. *)
LEMMA CapacityFacts ==
  ASSUME LoopInv, pc # "closed", CapacityFails
  PROVE  why' = "memory"
<1>1. /\ rbuf \in Stream /\ wire \in Stream /\ Aligned(sent, handled, rbuf, wire)
      /\ sent \in Seq(FrameKind) /\ handled \in Seq(FrameKind)
      /\ NoEnd(sent, rbuf) /\ cap \in {CapInit, 2 * CapInit}
  BY InvFacts DEF Drained, Room
<1>2. Len(rbuf) < 2 * CapInit /\ CapInit \in Nat \ {0} /\ 2 * CapInit <= CapMax /\ CapMax \in Nat
  BY <1>1, SmallBuffer, LoopAssumption, CapacityAssumption
<1> QED BY <1>1, <1>2 DEF CapacityFails, Exit

LEMMA TakeLineFacts ==
  ASSUME TypeOK, Counts, TakeLine
  PROVE  /\ lines' = lines + 1 /\ lines' \in 0..MaxLines
         /\ stdio' \in Seq(LineKinds) /\ tty' \in Seq(LineKinds)
         /\ lines' + Len(stdio') + Len(tty') = typed
<1>1. /\ stdio \in Seq(LineKinds) /\ tty \in Seq(LineKinds) /\ lines \in Nat
      /\ typed \in 0..MaxLines /\ MaxLines \in Nat
      /\ lines + Len(stdio) + Len(tty) = typed /\ lines' = lines + 1
  BY LoopAssumption DEF TypeOK, Counts, TakeLine
<1>2. ASSUME NEW q \in Seq(LineKinds), q # <<>>
      PROVE  Tail(q) \in Seq(LineKinds) /\ Len(Tail(q)) = Len(q) - 1
  BY <1>2
<1>3. Len(<<>>) = 0 /\ <<>> \in Seq(LineKinds)
  OBVIOUS
<1>4. CASE stdio # <<>>
  <2>1. stdio' = Tail(stdio) /\ tty' = tty
    BY <1>4 DEF TakeLine
  <2> QED BY <1>1, <1>2, <1>4, <2>1
<1>5. CASE stdio = <<>>
  <2>1. tty # <<>>
    BY <1>5 DEF TakeLine, HasLine
  <2>2. \/ tty' = Tail(tty) /\ stdio' = <<>>
        \/ tty' = <<>> /\ stdio' = Tail(tty)
    BY <1>5 DEF TakeLine
  <2>3. Tail(tty) \in Seq(LineKinds) /\ Len(Tail(tty)) = Len(tty) - 1 /\ Len(tty) \in Nat \ {0}
    BY <1>1, <1>2, <2>1
  <2>4. Len(stdio) = 0 /\ Len(stdio') + Len(tty') = Len(tty) - 1
    <3>1. Len(stdio) = 0
      BY <1>5
    <3>2. \/ Len(tty') = Len(tty) - 1 /\ Len(stdio') = 0
          \/ Len(tty') = 0 /\ Len(stdio') = Len(tty) - 1
      BY <1>3, <2>2, <2>3
    <3>3. CASE Len(tty') = Len(tty) - 1 /\ Len(stdio') = 0
      BY <2>3, <3>1, <3>3
    <3>4. CASE Len(tty') = 0 /\ Len(stdio') = Len(tty) - 1
      BY <2>3, <3>1, <3>4
    <3> QED BY <3>2, <3>3, <3>4
  <2>5. stdio' \in Seq(LineKinds) /\ tty' \in Seq(LineKinds)
    BY <1>3, <2>2, <2>3
  <2>6. lines + Len(tty) = typed
    BY <1>1, <2>4
  <2>7. Len(stdio') \in Nat /\ Len(tty') \in Nat
    BY <2>5
  <2> QED BY <1>1, <2>3, <2>4, <2>5, <2>6, <2>7
<1> QED BY <1>4, <1>5

-----------------------------------------------------------------------------
(* The stream through the steps. *)

StreamTypes ==
  /\ rbuf \in Seq(Unit) /\ wire \in Seq(Unit) /\ cap \in Nat
  /\ sent \in Seq(FrameKind) /\ handled \in Seq(FrameKind)

StreamInv == StreamTypes /\ Flow /\ Drained /\ Room /\ NeverGivesUp

(* A step that moves no byte. *)
StreamRests == UNCHANGED <<rbuf, cap, handled, wire, sent>>

LEMMA RestingStep ==
  ASSUME LoopInv, StreamRests, pc # "closed", why' \notin {"limit", "magic"}
  PROVE  StreamInv'
<1>1. StreamTypes /\ Flow /\ Room /\ NoEnd(sent, rbuf)
  BY DEF LoopInv, TypeOK, StreamTypes, Drained
<1>2. /\ rbuf' = rbuf /\ cap' = cap /\ handled' = handled /\ wire' = wire /\ sent' = sent
  BY DEF StreamRests
<1>3. StreamTypes'
  BY <1>1, <1>2 DEF StreamTypes
<1>4. Flow'
  BY <1>1, <1>2 DEF Flow
<1>5. Drained'
  BY <1>1, <1>2 DEF Drained
<1>6. Room'
  BY <1>1, <1>2 DEF Room
<1>7. NeverGivesUp'
  BY DEF NeverGivesUp
<1> QED BY <1>3, <1>4, <1>5, <1>6, <1>7 DEF StreamInv

(* A step that moves a batch into the buffer and handles what "hd" adds. *)
LEMMA MovingStep ==
  ASSUME LoopInv, NEW hd \in Seq(FrameKind), NEW buf \in Stream,
         sent' = sent, handled' = hd, rbuf' = buf, wire' \in Stream,
         Aligned(sent, hd, buf, wire'), NoEnd(sent, buf),
         Len(buf) <= cap', cap' \in {CapInit, 2 * CapInit}, cap' \in Nat,
         why' \notin {"limit", "magic"}
  PROVE  StreamInv'
<1>1. StreamTypes /\ Flow
  BY DEF LoopInv, TypeOK, StreamTypes
<1>2. StreamTypes'
  BY <1>1 DEF StreamTypes, Stream
<1>3. Flow'
  BY <1>1 DEF Flow
<1>4. Drained' /\ Room' /\ NeverGivesUp'
  BY DEF Drained, Room, NeverGivesUp
<1> QED BY <1>2, <1>3, <1>4 DEF StreamInv

LEMMA Longer ==
  ASSUME NEW hd \in Seq(FrameKind), NEW more \in Seq(FrameKind)
  PROVE  Len(hd \o more) = Len(hd) + Len(more) /\ Len(hd) <= Len(hd \o more)
<1>1. Len(hd \o more) = Len(hd) + Len(more) /\ Len(hd) \in Nat /\ Len(more) \in Nat
  BY ConcatProperties
<1> QED BY <1>1

LEMMA RecvStream ==
  ASSUME LoopInv, NEW batch \in Batches, SocketRecv(batch)
  PROVE  StreamInv' /\ sent' = sent /\ Len(handled) <= Len(handled')
<1> DEFINE buf == rbuf \o batch
           n == Consumed(buf)
           done == SubSeq(buf, 1, n)
<1>1. pc = "socket" /\ Recv(batch) /\ Dispatch(buf) /\ sent' = sent
  BY DEF SocketRecv, SocketUnchanged, EnvSame
<1>2. /\ buf \in Stream /\ wire' \in Stream /\ Aligned(sent, handled, buf, wire')
      /\ Len(buf) <= cap' /\ cap' \in {CapInit, 2 * CapInit} /\ cap' \in Nat
  BY <1>1, RecvFacts
<1>3. sent \in Seq(FrameKind) /\ handled \in Seq(FrameKind) /\ NeverGivesUp
  BY InvFacts
<1> HIDE DEF buf
<1>4. Synchronised(buf)
  BY <1>2, <1>3, Synced
<1>5. n \in 0..Len(buf) /\ (n # 0 => EndsFrame(buf[n]))
  BY <1>2, ConsumedFacts
<1>6. /\ FramesOf(done) \in Seq(FrameKind) /\ Rest(buf, n) \in Stream
      /\ handled \o FramesOf(done) \in Seq(FrameKind)
      /\ Aligned(sent, handled \o FramesOf(done), Rest(buf, n), wire')
  <2> HIDE DEF n
  <2> QED BY <1>2, <1>3, <1>5, HandleRun
<1>7. /\ handled' = handled \o FramesOf(done) /\ why' = why
      /\ rbuf' = Rest(buf, Len(done))
  BY <1>1, <1>4 DEF Dispatch
<1>8. Len(done) = n /\ Len(Rest(buf, n)) <= Len(buf)
  <2> HIDE DEF n
  <2> QED BY <1>2, <1>5, PrefixFacts, RestFacts DEF Stream
<1>9. NoEnd(sent, Rest(buf, n))
  BY <1>2, DrainedAfter
<1>10. Len(Rest(buf, n)) <= cap'
  BY <1>2, <1>6, <1>8 DEF Stream
<1>11. why' \notin {"limit", "magic"}
  BY <1>3, <1>7 DEF NeverGivesUp
<1> HIDE DEF done, n
<1>12. StreamInv'
  BY <1>1, <1>2, <1>6, <1>7, <1>8, <1>9, <1>10, <1>11, MovingStep
<1>13. Len(handled) <= Len(handled')
  BY <1>3, <1>6, <1>7, Longer
<1> QED BY <1>1, <1>12, <1>13

(* The answer is an error: the user is asked again.  Or it is not there yet. *)
LEMMA MoreStream ==
  ASSUME LoopInv, NEW batch \in Batches, AwaitMore(batch)
  PROVE  /\ StreamInv' /\ sent' = sent /\ Len(handled) <= Len(handled')
         /\ \/ pc' = "await" /\ handled' = handled
            \/ /\ pc' = "prompt" /\ Len(handled') = Len(handled) + 1
               /\ Len(sent) = Len(handled') /\ sent[Len(handled')] = "ERROR"
<1> DEFINE buf == rbuf \o batch
           n == LoginConsumed(buf)
           done == SubSeq(buf, 1, n)
           next == Len(handled) + 1
<1>1. pc = "await" /\ Recv(batch) /\ sent' = sent
  BY DEF AwaitMore, AwaitUnchanged, EnvSame
<1>2. /\ buf \in Stream /\ wire' \in Stream /\ Aligned(sent, handled, buf, wire')
      /\ Len(buf) <= cap' /\ cap' \in {CapInit, 2 * CapInit} /\ cap' \in Nat /\ buf # <<>>
  BY <1>1, RecvFacts
<1>3. /\ sent \in Seq(FrameKind) /\ handled \in Seq(FrameKind) /\ NeverGivesUp
      /\ LoginOrder /\ Len(handled) \in Nat /\ Len(sent) \in Nat
  BY InvFacts
<1> HIDE DEF buf
<1>4. next <= Len(sent)
  <2> DEFINE s == buf \o wire'
  <2>1. s \in Stream /\ Len(s) = Len(buf) + Len(wire') /\ Len(buf) \in Nat \ {0} /\ Len(wire') \in Nat
    BY <1>2, Joined DEF Stream
  <2>2. Whole(s, next, sent) /\ next \in Nat \ {0}
    BY <1>2, <1>3 DEF Aligned
  <2> HIDE DEF s, next
  <2>3. s # <<>>
    BY <2>1
  <2> QED BY <1>3, <2>1, <2>2, <2>3, WholeHead
<1>5. \/ sent[next] = "WELCOME"
      \/ sent[next] = "ERROR" /\ Len(sent) = next
  BY <1>1, <1>3, <1>4 DEF LoginOrder, Answer
<1>6. \/ n = 0 /\ NoEnd(sent, buf) /\ Kinds(done) = {}
      \/ /\ n \in 1..Len(buf) /\ EndsFrame(buf[n]) /\ buf[n].frame = next
         /\ Kinds(done) = {sent[next]}
  <2>1. sent[Len(handled) + 1] \in {"ERROR", "WELCOME"}
    BY <1>5
  <2> QED BY <1>2, <1>3, <2>1, LoginTakes
<1>7. Synchronised(buf)
  BY <1>2, <1>3, Synced
<1>8. /\ Kinds(done) \subseteq {"TEXT", "ERROR"}
      /\ rbuf' = Rest(buf, Len(done)) /\ handled' = handled \o FramesOf(done)
      /\ pc' = (IF "ERROR" \in Kinds(done) THEN "prompt" ELSE "await") /\ why' = why
  BY <1>7 DEF AwaitMore, buf
<1>9. n \in 0..Len(buf) /\ (n # 0 => EndsFrame(buf[n])) /\ Len(buf) \in Nat
  BY <1>2, <1>6 DEF Stream
<1>10. /\ FramesOf(done) \in Seq(FrameKind) /\ Rest(buf, n) \in Stream
       /\ handled \o FramesOf(done) \in Seq(FrameKind)
       /\ Aligned(sent, handled \o FramesOf(done), Rest(buf, n), wire')
       /\ n = 0 => FramesOf(done) = <<>>
       /\ n # 0 => FramesOf(done) = SubSeq(sent, next, buf[n].frame)
  <2> HIDE DEF n
  <2> QED BY <1>2, <1>3, <1>9, HandleRun
<1>11. Len(done) = n /\ Len(Rest(buf, n)) <= Len(buf)
  <2> HIDE DEF n
  <2>1. buf \in Seq(Unit) /\ n \in 0..Len(buf)
    BY <1>2, <1>9 DEF Stream
  <2>2. Len(done) = n
    BY <2>1, PrefixFacts
  <2>3. Len(Rest(buf, n)) = Len(buf) - n
    BY <2>1, RestFacts
  <2> QED BY <1>9, <2>1, <2>2, <2>3
<1>12. why' \notin {"limit", "magic"}
  BY <1>3, <1>8 DEF NeverGivesUp
<1>13. rbuf' = Rest(buf, n) /\ Len(Rest(buf, n)) <= cap'
  BY <1>2, <1>8, <1>9, <1>10, <1>11 DEF Stream
<1>14. CASE n = 0
  <2>1. NoEnd(sent, buf) /\ Kinds(done) = {} /\ Rest(buf, n) = buf
    BY <1>2, <1>6, <1>14 DEF Rest, Stream
  <2>2. handled' = handled /\ pc' = "await"
    <3> HIDE DEF n, done
    <3>1. handled' = handled \o <<>> /\ handled \o <<>> = handled
      BY <1>3, <1>8, <1>10, <1>14, ConcatEmptySeq
    <3> QED BY <1>8, <2>1, <3>1
  <2> HIDE DEF done, n
  <2>3. StreamInv'
    BY <1>1, <1>2, <1>8, <1>10, <1>12, <1>13, <2>1, MovingStep
  <2> QED BY <1>1, <1>3, <2>2, <2>3
<1>15. CASE n # 0
  <2>1. buf[n].frame = next /\ Kinds(done) = {sent[next]}
    BY <1>6, <1>15
  <2>2. sent[next] = "ERROR" /\ Len(sent) = next /\ pc' = "prompt"
    BY <1>5, <1>8, <2>1
  <2>3. Len(FramesOf(done)) = 1
    <3> HIDE DEF done, n
    <3>1. FramesOf(done) = SubSeq(sent, next, next)
      BY <1>10, <1>15, <2>1
    <3> QED BY <1>3, <1>4, <3>1
  <2> HIDE DEF done, n, next
  <2>4. Len(handled \o FramesOf(done)) = Len(handled) + 1
    <3> SUFFICES ASSUME NEW more \in Seq(FrameKind), Len(more) = 1
                 PROVE  Len(handled \o more) = Len(handled) + 1
      BY <1>10, <2>3
    <3>1. Len(handled \o more) = Len(handled) + Len(more)
      BY <1>3, Longer
    <3> QED BY <3>1
  <2>5. Len(handled') = next
    BY <1>8, <2>4 DEF next
  <2>6. Whole(rbuf' \o wire', next + 1, sent)
    BY <1>8, <1>10, <1>13, <2>5 DEF Aligned
  <2>7. rbuf' \o wire' = <<>>
    <3>1. rbuf' \o wire' \in Stream
      BY <1>2, <1>10, <1>13, Joined
    <3>2. next + 1 \in Nat \ {0} /\ next \in Nat
      BY <1>3 DEF next
    <3> DEFINE s == rbuf' \o wire'
    <3> HIDE DEF s
    <3>3. s \in Stream /\ Whole(s, next + 1, sent)
      BY <2>6, <3>1 DEF s
    <3>4. s # <<>> => next + 1 <= Len(sent)
      BY <1>3, <3>2, <3>3, WholeHead
    <3> QED BY <2>2, <3>2, <3>4 DEF s
  <2>8. NoEnd(sent, Rest(buf, n))
    <3>1. Len(rbuf') + Len(wire') = 0 /\ Len(rbuf') \in Nat /\ Len(wire') \in Nat
      BY <1>2, <1>10, <1>13, <2>7, Joined
    <3>2. 1..Len(rbuf') = {}
      BY <3>1
    <3> QED BY <1>13, <3>2 DEF NoEnd
  <2>9. StreamInv'
    BY <1>1, <1>2, <1>8, <1>10, <1>12, <1>13, <2>8, MovingStep
  <2>10. Len(handled) <= Len(handled')
    BY <1>3, <2>5 DEF next
  <2>11. Len(handled') = Len(handled) + 1 /\ sent[Len(handled')] = "ERROR" /\ Len(sent) = Len(handled')
    BY <2>2, <2>5 DEF next
  <2> QED BY <1>1, <2>2, <2>9, <2>10, <2>11
<1> QED BY <1>14, <1>15

(* The answer is the Welcome, and what came with it is handled at once. *)
LEMMA WelcomeStream ==
  ASSUME LoopInv, NEW batch \in Batches, AwaitWelcome(batch)
  PROVE  StreamInv' /\ sent' = sent /\ Len(handled) <= Len(handled')
<1> DEFINE buf  == rbuf \o batch
           n    == LoginConsumed(buf)
           done == SubSeq(buf, 1, n)
           rest == Rest(buf, Len(done))
           k    == Consumed(rest)
           more == SubSeq(rest, 1, k)
           hd   == handled \o FramesOf(done)
<1>1. pc = "await" /\ Recv(batch) /\ sent' = sent /\ why' = why
  BY DEF AwaitWelcome, AwaitUnchanged, EnvSame
<1>2. /\ buf \in Stream /\ wire' \in Stream /\ Aligned(sent, handled, buf, wire')
      /\ Len(buf) <= cap' /\ cap' \in {CapInit, 2 * CapInit} /\ cap' \in Nat
      /\ buf # <<>>
  BY <1>1, RecvFacts
<1>3. /\ sent \in Seq(FrameKind) /\ handled \in Seq(FrameKind) /\ NeverGivesUp
      /\ LoginOrder
  BY InvFacts
<1>4. /\ rbuf' = Rest(rest, Len(more))
      /\ handled' = handled \o FramesOf(done) \o FramesOf(more)
  BY DEF AwaitWelcome
<1> HIDE DEF buf
<1>5. n \in 0..Len(buf) /\ (n # 0 => EndsFrame(buf[n]))
  BY <1>2, <1>3, LoginBound
<1>6. Len(done) = n /\ Len(Rest(buf, n)) <= Len(buf)
  <2> HIDE DEF n
  <2> QED BY <1>2, <1>5, PrefixFacts, RestFacts DEF Stream
<1>7. /\ FramesOf(done) \in Seq(FrameKind) /\ rest \in Stream /\ hd \in Seq(FrameKind)
      /\ Aligned(sent, hd, rest, wire')
  <2>1. /\ FramesOf(SubSeq(buf, 1, n)) \in Seq(FrameKind) /\ Rest(buf, n) \in Stream
        /\ handled \o FramesOf(SubSeq(buf, 1, n)) \in Seq(FrameKind)
        /\ Aligned(sent, handled \o FramesOf(SubSeq(buf, 1, n)), Rest(buf, n), wire')
    <3> HIDE DEF n
    <3> QED BY <1>2, <1>3, <1>5, HandleRun
  <2> HIDE DEF n
  <2> QED BY <1>6, <2>1
<1> HIDE DEF rest
<1>8. k \in 0..Len(rest) /\ (k # 0 => EndsFrame(rest[k])) /\ NoEnd(sent, Rest(rest, k))
  BY <1>7, ConsumedFacts, DrainedAfter
<1>9. Len(more) = k /\ Len(Rest(rest, k)) <= Len(rest)
  <2> HIDE DEF k
  <2> QED BY <1>7, <1>8, PrefixFacts, RestFacts DEF Stream
<1> HIDE DEF hd
<1>10. /\ FramesOf(more) \in Seq(FrameKind) /\ Rest(rest, k) \in Stream
       /\ hd \o FramesOf(more) \in Seq(FrameKind)
       /\ Aligned(sent, hd \o FramesOf(more), Rest(rest, k), wire')
  <2> HIDE DEF k
  <2> QED BY <1>2, <1>3, <1>7, <1>8, HandleRun
<1>11. rbuf' = Rest(rest, k) /\ handled' = hd \o FramesOf(more)
  BY <1>4, <1>9 DEF hd
<1>12. Len(Rest(rest, k)) <= cap'
  <2>1. Len(rest) <= Len(buf)
    BY <1>6 DEF rest
  <2> QED BY <1>2, <1>7, <1>9, <1>10, <2>1 DEF Stream
<1>13. why' \notin {"limit", "magic"}
  BY <1>1, <1>3 DEF NeverGivesUp
<1>14. StreamInv'
  <2> HIDE DEF k, more
  <2> QED BY <1>1, <1>2, <1>8, <1>10, <1>11, <1>12, <1>13, MovingStep
<1>15. Len(handled) <= Len(hd) /\ Len(hd) <= Len(hd \o FramesOf(more))
  BY <1>3, <1>7, <1>10, Longer DEF hd
<1>16. Len(handled) <= Len(handled')
  BY <1>3, <1>7, <1>10, <1>11, <1>15
<1> QED BY <1>1, <1>14, <1>16

LEMMA ServerStream ==
  ASSUME LoopInv, NEW kind \in FrameKind, ServerSends(kind)
  PROVE  StreamInv' /\ handled' = handled
<1> DEFINE all == Append(sent, kind)
           new == Units(Len(sent) + 1, kind)
           s == rbuf \o wire
           first == Len(handled) + 1
<1>1. /\ sent' = all /\ wire' = wire \o new /\ Len(sent) < MaxFrames
      /\ rbuf' = rbuf /\ cap' = cap /\ handled' = handled /\ why' = why /\ pc' = pc
  BY DEF ServerSends, procVars
<1>2. /\ rbuf \in Stream /\ wire \in Stream /\ sent \in Seq(FrameKind)
      /\ handled \in Seq(FrameKind) /\ Aligned(sent, handled, rbuf, wire)
      /\ Room /\ NeverGivesUp /\ Drained
  BY InvFacts
<1>3. /\ Whole(s, first, sent) /\ first \in Nat \ {0} /\ first <= Len(sent) + 1
      /\ Len(handled) <= Len(sent) /\ handled = SubSeq(sent, 1, Len(handled))
      /\ Len(handled) \in Nat /\ Len(sent) \in Nat
  BY <1>2 DEF Aligned
<1>4. s \in Stream
  BY <1>2, Joined
<1> HIDE DEF s, first
<1>5. new \in Stream /\ Whole(s \o new, first, all)
  BY <1>1, <1>2, <1>3, <1>4, WholeAppend
<1> HIDE DEF new
<1>6. rbuf \o (wire \o new) = s \o new
  BY <1>2, <1>5, JoinThree, SMTT(30) DEF s, Stream
<1>7. /\ all \in Seq(FrameKind) /\ Len(all) = Len(sent) + 1
      /\ \A i \in 1..Len(sent) : all[i] = sent[i]
  BY <1>2
<1> HIDE DEF all
<1>8. SubSeq(all, 1, Len(handled)) = handled
  <2> DEFINE p == SubSeq(all, 1, Len(handled))
             q == SubSeq(sent, 1, Len(handled))
  <2>1. /\ p \in Seq(FrameKind) /\ Len(p) = Len(handled)
        /\ \A i \in 1..Len(handled) : p[i] = all[i]
    BY <1>3, <1>7, PrefixFacts
  <2>2. /\ q \in Seq(FrameKind) /\ Len(q) = Len(handled)
        /\ \A i \in 1..Len(handled) : q[i] = sent[i]
    BY <1>2, <1>3, PrefixFacts
  <2> HIDE DEF p, q
  <2>3. \A i \in 1..Len(p) : p[i] = q[i]
    BY <1>3, <1>7, <2>1, <2>2
  <2>4. p = q
    BY <2>1, <2>2, <2>3, SeqEqual
  <2> QED BY <1>3, <2>4 DEF p, q
<1>9. Flow'
  <2>1. Len(sent') <= MaxFrames
    BY <1>1, <1>3, <1>7, LoopAssumption
  <2>2. Aligned(all, handled, rbuf, wire \o new)
    BY <1>3, <1>5, <1>6, <1>7, <1>8 DEF Aligned, first
  <2> QED BY <1>1, <2>1, <2>2 DEF Flow
<1>10. Drained'
  <2> SUFFICES ASSUME pc # "closed", NEW i \in 1..Len(rbuf)
               PROVE  rbuf[i].part # FrameLen[all[rbuf[i].frame]]
    BY <1>1 DEF Drained, NoEnd
  <2>1. i \in 1..Len(s) /\ s[i] = rbuf[i]
    BY <1>2, Joined DEF s
  <2>2. rbuf[i].frame \in 1..Len(sent)
    BY <1>3, <2>1 DEF Whole, Within
  <2> QED BY <1>2, <1>7, <2>2 DEF Drained, NoEnd
<1>11. StreamTypes'
  <2>1. wire \o new \in Seq(Unit)
    BY <1>2, <1>5 DEF Stream
  <2>2. cap \in Nat
    BY InvFacts DEF TypeOK
  <2> QED BY <1>1, <1>2, <1>7, <2>1, <2>2 DEF StreamTypes, Stream
<1>12. Room' /\ NeverGivesUp'
  BY <1>1, <1>2 DEF Room, NeverGivesUp
<1> QED BY <1>1, <1>9, <1>10, <1>11, <1>12 DEF StreamInv

(* Every step: the process moves the stream on, the others only add to it. *)
Onward == sent' = sent /\ Len(handled) <= Len(handled')

LEMMA RestingOnward ==
  ASSUME LoopInv, StreamRests PROVE Onward
BY InvFacts DEF StreamRests, Onward

LEMMA LoginStream == LoopInv /\ Login => StreamInv' /\ Onward
<1> SUFFICES ASSUME LoopInv, Login PROVE StreamInv' /\ Onward
  OBVIOUS
<1> USE DEF EnvSame, StreamRests, Exit
<1>1. NeverGivesUp /\ why \notin {"limit", "magic"}
  BY InvFacts DEF NeverGivesUp
<1>2. CASE PromptAgain
  <2>1. StreamRests /\ pc # "closed" /\ why' = why
    BY <1>2 DEF PromptAgain
  <2> QED BY <1>1, <2>1, RestingStep, RestingOnward
<1>3. CASE PromptAuth
  <2>1. StreamRests /\ pc # "closed" /\ why' \in {why, "send"}
    BY <1>3 DEF PromptAuth
  <2> QED BY <1>1, <2>1, RestingStep, RestingOnward
<1>4. CASE PromptEof
  <2>1. StreamRests /\ pc # "closed" /\ why' = "eof"
    BY <1>4 DEF PromptEof
  <2> QED BY <2>1, RestingStep, RestingOnward
<1>5. CASE AwaitSignal
  <2>1. StreamRests /\ pc # "closed" /\ why' = "signal"
    BY <1>5 DEF AwaitSignal, AwaitUnchanged
  <2> QED BY <2>1, RestingStep, RestingOnward
<1>6. CASE AwaitClosed
  <2>1. StreamRests /\ pc # "closed" /\ (why' = "peer" \/ CapacityFails)
    BY <1>6 DEF AwaitClosed, AwaitUnchanged, CapacityFails
  <2>2. why' \in {"peer", "memory"}
    BY <2>1, CapacityFacts
  <2> QED BY <2>1, <2>2, RestingStep, RestingOnward
<1>7. CASE AwaitFull
  <2>1. StreamRests /\ pc # "closed" /\ CapacityFails
    BY <1>7 DEF AwaitFull, AwaitUnchanged, CapacityFails
  <2>2. why' = "memory"
    BY <2>1, CapacityFacts
  <2> QED BY <2>1, <2>2, RestingStep, RestingOnward
<1>8. CASE \E batch \in Batches : AwaitMore(batch) \/ AwaitWelcome(batch)
  BY <1>8, MoreStream, WelcomeStream DEF Onward
<1> QED BY <1>2, <1>3, <1>4, <1>5, <1>6, <1>7, <1>8 DEF Login

LEMMA LoopStream == LoopInv /\ Loop => StreamInv' /\ Onward
<1> SUFFICES ASSUME LoopInv, Loop PROVE StreamInv' /\ Onward
  OBVIOUS
<1> USE DEF EnvSame, StreamRests, Exit
<1>1. why \notin {"limit", "magic"}
  BY InvFacts DEF NeverGivesUp
<1>2. CASE LoopEnds \/ PollEvents \/ PollTimeout
  <2>1. StreamRests /\ pc # "closed" /\ why' \in {why, "signal"}
    BY <1>2 DEF LoopEnds, PollEvents, PollTimeout, PollUnchanged
  <2> QED BY <1>1, <2>1, RestingStep, RestingOnward
<1>3. CASE SocketFails
  <2>1. StreamRests /\ pc # "closed" /\ (why' = "peer" \/ CapacityFails)
    BY <1>3 DEF SocketFails, SocketUnchanged, CapacityFails
  <2>2. why' \in {"peer", "memory"}
    BY <2>1, CapacityFacts
  <2> QED BY <2>1, <2>2, RestingStep, RestingOnward
<1>4. CASE \E batch \in Batches : SocketRecv(batch)
  BY <1>4, RecvStream DEF Onward
<1>5. CASE StdinEof \/ StdinQuit \/ StdinLogin \/ StdinPrints \/ StdinSends
  <2>1. StreamRests /\ pc # "closed" /\ why' \in {why, "eof", "quit", "send"}
    BY <1>5 DEF StdinEof, StdinQuit, StdinLogin, StdinPrints, StdinSends, StdinUnchanged
  <2> QED BY <1>1, <2>1, RestingStep, RestingOnward
<1>6. CASE Tick
  <2>1. StreamRests /\ pc # "closed" /\ why' \in {why, "send"}
    BY <1>6 DEF Tick, PollUnchanged
  <2> QED BY <1>1, <2>1, RestingStep, RestingOnward
<1> QED BY <1>2, <1>3, <1>4, <1>5, <1>6 DEF Loop

(* The others leave what the process holds alone. *)
LEMMA EnvironmentStream ==
  LoopInv /\ Environment =>
    /\ StreamInv' /\ handled' = handled
    /\ sent' = sent \/ \E kind \in FrameKind : sent' = Append(sent, kind)
<1> SUFFICES ASSUME LoopInv, Environment
             PROVE  /\ StreamInv' /\ handled' = handled
                    /\ sent' = sent \/ \E kind \in FrameKind : sent' = Append(sent, kind)
  OBVIOUS
<1>1. CASE \E kind \in FrameKind : ServerSends(kind)
  BY <1>1, ServerStream DEF ServerSends
<1>2. CASE UNCHANGED <<procVars, sent, wire>>
  <2>1. StreamInv
    BY DEF LoopInv, TypeOK, StreamInv, StreamTypes
  <2> QED BY <1>2, <2>1 DEF procVars, StreamInv, StreamTypes, Flow, Drained, Room, NeverGivesUp
<1> QED BY <1>1, <1>2
        DEF Environment, PeerChanges, PeerResumes, UserTypes, UserEnds, Signal, procVars

-----------------------------------------------------------------------------
(* The other variables. *)

Flags ==
  /\ session \in BOOLEAN /\ running \in BOOLEAN /\ signal \in BOOLEAN
  /\ eof \in BOOLEAN

TaskOK(state, rounds) ==
  /\ state \in {"NONE", "PENDING", "ACTIVE", "WAIT_COMPLETE"} /\ rounds \in 0..Rounds
  /\ state = "ACTIVE" <=> rounds > 0

Control ==
  /\ pc \in {"prompt", "await", "poll", "socket", "stdin", "tick", "closed"}
  /\ why \in {"none", "send", "eof", "signal", "peer", "limit", "memory", "magic", "quit"}
  /\ ready \subseteq {"stdin"} /\ TaskOK(task, left)
  /\ peer \in {"reading", "stalled", "gone"} /\ input \in Stdin
  /\ pc = "tick" => task = "ACTIVE"

Lines ==
  /\ stdio \in Seq(LineKinds) /\ tty \in Seq(LineKinds)
  /\ lines \in 0..MaxLines /\ typed \in 0..MaxLines /\ owed \in 0..MaxLines
  /\ lines + Len(stdio) + Len(tty) = typed /\ owed <= lines

LEMMA InvParts == LoopInv <=> StreamInv /\ Flags /\ Control /\ Lines /\ LoginOrder
BY DEF LoopInv, TypeOK, Counts, StreamInv, StreamTypes, Flags, Control, TaskOK, Lines

LEMMA FlagStep == Flags /\ Next => Flags'
<1> SUFFICES ASSUME Flags, Next PROVE Flags'
  OBVIOUS
<1> USE DEF EnvSame, Exit
<1>1. CASE Login
  BY <1>1, ZenonT(60) DEF Flags, Login, PromptAgain, PromptAuth, PromptEof, AwaitSignal, AwaitClosed, AwaitFull,
     AwaitMore, AwaitWelcome, AwaitUnchanged, CapacityFails
<1>2. CASE Loop
  BY <1>2, ZenonT(60) DEF Flags, Loop, LoopEnds, PollEvents, PollTimeout, PollUnchanged, SocketFails, SocketRecv,
     SocketUnchanged, Dispatch, CapacityFails, StdinEof, StdinQuit, StdinLogin, StdinPrints,
     StdinSends, StdinUnchanged, Tick
<1>3. CASE Environment
  BY <1>3, ZenonT(60) DEF Flags, Environment, ServerSends, PeerChanges, PeerResumes, UserTypes, UserEnds, Signal,
         procVars
<1> QED BY <1>1, <1>2, <1>3 DEF Next, Process

LEMMA ControlStep == LoopInv /\ Next => Control'
<1> SUFFICES ASSUME LoopInv, Next PROVE Control'
  OBVIOUS
<1>1. Control /\ Rounds \in Nat \ {0} /\ TaskOK(task, left)
  BY InvParts, LoopAssumption DEF Control
<1> DEFINE Same == UNCHANGED <<task, left>>
<1>11. Same \/ SendClear => TaskOK(task', left')
  BY <1>1 DEF TaskOK, SendClear
<1> HIDE DEF Same
<1> USE DEF EnvSame, Exit
<1>2. CASE PromptAgain \/ PromptAuth \/ PromptEof
  <2>1. /\ pc' \in {pc, "poll", "await", "closed"} /\ why' \in {why, "send", "eof"}
        /\ (Same \/ SendClear) /\ UNCHANGED <<ready, peer, input>> /\ pc' # "tick"
    BY <1>2 DEF Same, PromptAgain, PromptAuth, PromptEof
  <2> QED BY <1>1, <1>11, <2>1 DEF Control
<1>3. CASE AwaitSignal \/ AwaitClosed \/ AwaitFull
  <2>1. /\ pc' = "closed" /\ why' \in {"signal", "peer", "limit", "memory"}
        /\ SendClear /\ UNCHANGED <<ready, peer, input>>
    BY <1>3 DEF AwaitSignal, AwaitClosed, AwaitFull, AwaitUnchanged, CapacityFails
  <2> QED BY <1>1, <1>11, <2>1 DEF Control
<1>4. CASE \E batch \in Batches : AwaitMore(batch) \/ AwaitWelcome(batch)
  <2>1. /\ pc' \in {"prompt", "await", "closed", "poll"}
        /\ why' \in {why, "magic"} /\ (Same \/ SendClear)
        /\ UNCHANGED <<ready, peer, input>>
    BY <1>4 DEF Same, AwaitMore, AwaitWelcome, AwaitUnchanged
  <2> QED BY <1>1, <1>11, <2>1 DEF Control
<1>5. CASE LoopEnds \/ PollEvents \/ PollTimeout
  <2>1. CASE LoopEnds \/ PollEvents
    <3>1. /\ pc' \in {"socket", "stdin", "closed"} /\ why' \in {why, "signal"}
          /\ (Same \/ SendClear) /\ ready' \subseteq ready \cup {"stdin"} /\ UNCHANGED <<peer, input>>
      BY <2>1 DEF Same, LoopEnds, PollEvents, PollUnchanged
    <3> QED BY <1>1, <1>11, <3>1 DEF Control
  <2>2. CASE PollTimeout
    <3>1. pc' = "tick" /\ task' = "ACTIVE" /\ Same /\ UNCHANGED <<why, ready, peer, input>>
      BY <2>2 DEF Same, PollTimeout, PollUnchanged, SendActive
    <3> QED BY <1>1, <1>11, <3>1 DEF Control
  <2> QED BY <1>5, <2>1, <2>2
<1>6. CASE SocketFails
  <2>1. /\ pc' = "closed" /\ why' \in {"peer", "limit", "memory"}
        /\ SendClear /\ UNCHANGED <<ready, peer, input>>
    BY <1>6 DEF SocketFails, SocketUnchanged, CapacityFails
  <2> QED BY <1>1, <1>11, <2>1 DEF Control
<1>7. CASE \E batch \in Batches : SocketRecv(batch)
  <2>1. /\ pc' \in {"stdin", "poll"} /\ why' \in {why, "magic"} /\ UNCHANGED <<ready, peer, input>>
    BY <1>7 DEF SocketRecv, SocketUnchanged, Dispatch
  <2>2. TaskOK(task', left')
    <3>1. Same \/ SendClear \/ (task' = "ACTIVE" /\ left' = Rounds)
      BY <1>7 DEF SocketRecv, SendHears, Same
    <3> QED BY <1>1, <1>11, <3>1 DEF TaskOK
  <2> QED BY <1>1, <2>1, <2>2 DEF Control
<1>8. CASE StdinEof \/ StdinQuit \/ StdinLogin \/ StdinPrints \/ StdinSends
  <2>1. /\ pc' \in {"prompt", "poll", "closed"} /\ why' \in {why, "eof", "quit", "send"}
        /\ UNCHANGED <<ready, peer, input>>
    BY <1>8 DEF StdinEof, StdinQuit, StdinLogin, StdinPrints, StdinSends, StdinUnchanged
  <2>2. \/ Same \/ SendClear
        \/ task = "NONE" /\ task' = "PENDING" /\ left' = left
    BY <1>8 DEF Same, StdinEof, StdinQuit, StdinLogin, StdinPrints, StdinSends, Sends, Busy
  <2>3. TaskOK(task', left')
    BY <1>1, <1>11, <2>2 DEF TaskOK
  <2> QED BY <1>1, <2>1, <2>3 DEF Control
<1>9. CASE Tick
  <2>1. /\ pc' \in {"poll", "closed"} /\ why' \in {why, "send"} /\ UNCHANGED <<peer, ready, input>>
    BY <1>9 DEF Tick, PollUnchanged
  <2>2. task = "ACTIVE" /\ left \in 1..Rounds
    BY <1>1, <1>9 DEF Control, TaskOK, Tick
  <2>3. TaskOK(task', left')
    <3>1. SendClear \/ (left' = left - 1 /\ task' = IF left = 1 THEN "WAIT_COMPLETE" ELSE task)
      BY <1>9 DEF Tick
    <3> QED BY <1>1, <1>11, <2>2, <3>1 DEF TaskOK
  <2> QED BY <1>1, <2>1, <2>3 DEF Control
<1>10. CASE Environment
  <2>1. Same /\ UNCHANGED <<pc, why, ready, input>> /\ task' = task /\ peer' \in {peer, "reading", "stalled", "gone"}
    BY <1>10 DEF Environment, ServerSends, PeerChanges, PeerResumes, UserTypes, UserEnds, Signal,
                 procVars, Same
  <2> QED BY <1>1, <1>11, <2>1 DEF Control
<1> QED BY <1>2, <1>3, <1>4, <1>5, <1>6, <1>7, <1>8, <1>9, <1>10 DEF Next, Process, Login, Loop

LEMMA LineStep == LoopInv /\ Next => Lines'
<1> SUFFICES ASSUME LoopInv, Next PROVE Lines'
  OBVIOUS
<1>1. Lines /\ TypeOK /\ Counts /\ MaxLines \in Nat
  BY InvParts, InvFacts, LoopAssumption
<1> USE DEF EnvSame
<1>2. CASE TakeLine /\ typed' = typed /\ owed' \in {owed, owed + 1}
  <2>1. /\ lines' = lines + 1 /\ lines' \in 0..MaxLines
        /\ stdio' \in Seq(LineKinds) /\ tty' \in Seq(LineKinds)
        /\ lines' + Len(stdio') + Len(tty') = typed
    BY <1>1, <1>2, TakeLineFacts
  <2> QED BY <1>1, <1>2, <2>1 DEF Lines
<1>3. CASE UNCHANGED <<lines, stdio, tty, typed>> /\ owed' \in {owed, owed - 1} /\ owed' >= 0
  BY <1>1, <1>3 DEF Lines
<1>4. CASE Login
  <2>1. CASE PromptAgain \/ PromptAuth
    BY <1>2, <2>1 DEF PromptAgain, PromptAuth
  <2>2. CASE PromptEof \/ AwaitSignal \/ AwaitClosed \/ AwaitFull
    <3>1. UNCHANGED <<lines, stdio, tty, typed, owed>>
      BY <2>2 DEF PromptEof, AwaitSignal, AwaitClosed, AwaitFull, AwaitUnchanged
    <3> QED BY <1>1, <3>1 DEF Lines
  <2>3. CASE \E batch \in Batches : AwaitMore(batch) \/ AwaitWelcome(batch)
    <3>1. UNCHANGED <<lines, stdio, tty, typed, owed>>
      BY <2>3 DEF AwaitMore, AwaitWelcome, AwaitUnchanged
    <3> QED BY <1>1, <3>1 DEF Lines
  <2> QED BY <1>4, <2>1, <2>2, <2>3 DEF Login
<1>5. CASE Loop
  <2>1. CASE StdinQuit \/ StdinLogin \/ StdinPrints \/ StdinSends
    BY <1>2, <2>1 DEF StdinQuit, StdinLogin, StdinPrints, StdinSends, StdinUnchanged
  <2>2. CASE StdinEof \/ LoopEnds \/ PollEvents \/ PollTimeout \/ Tick \/ SocketFails
    <3>1. UNCHANGED <<lines, stdio, tty, typed, owed>>
      BY <2>2 DEF StdinEof, StdinUnchanged, LoopEnds, PollEvents, PollTimeout, Tick, PollUnchanged,
                  SocketFails, SocketUnchanged
    <3> QED BY <1>1, <3>1 DEF Lines
  <2>3. CASE \E batch \in Batches : SocketRecv(batch)
    <3>1. UNCHANGED <<lines, stdio, tty, typed, owed>>
      BY <2>3 DEF SocketRecv, SocketUnchanged
    <3> QED BY <1>1, <3>1 DEF Lines
  <2> QED BY <1>5, <2>1, <2>2, <2>3 DEF Loop
<1>6. CASE Environment
  <2>1. CASE \E kind \in FrameKind : ServerSends(kind)
    BY <1>1, <1>3, <2>1 DEF ServerSends, procVars, Lines
  <2>2. CASE \E line \in LineKinds : UserTypes(line)
    <3>1. PICK line \in LineKinds : UserTypes(line)
      BY <2>2
    <3>2. /\ tty' = Append(tty, line) /\ typed' = typed + 1 /\ typed < MaxLines
          /\ UNCHANGED <<lines, stdio, owed>>
      BY <3>1 DEF UserTypes, procVars
    <3>3. tty' \in Seq(LineKinds) /\ Len(tty') = Len(tty) + 1 /\ Len(tty) \in Nat /\ Len(stdio) \in Nat
      BY <1>1, <3>2 DEF Lines
    <3> QED BY <1>1, <3>2, <3>3 DEF Lines
  <2>3. CASE PeerChanges("stalled") \/ PeerChanges("gone") \/ PeerResumes \/ UserEnds \/ Signal
    <3>1. UNCHANGED <<lines, stdio, tty, typed, owed>>
      BY <2>3 DEF PeerChanges, PeerResumes, UserEnds, Signal, procVars
    <3> QED BY <1>1, <3>1 DEF Lines
  <2> QED BY <1>6, <2>1, <2>2, <2>3 DEF Environment
<1> QED BY <1>4, <1>5, <1>6 DEF Next, Process

(* What the handshake relies on is kept by every step. *)
LEMMA OrderStep == LoopInv /\ Next => LoginOrder'
<1> SUFFICES ASSUME LoopInv, Next PROVE LoginOrder'
  OBVIOUS
<1>1. /\ LoginOrder /\ session \in BOOLEAN /\ owed \in Nat /\ Len(sent) \in Nat /\ Len(handled) \in Nat
      /\ sent \in Seq(FrameKind) /\ Len(handled) <= Len(sent)
  BY InvFacts, LoopAssumption DEF TypeOK, Aligned
<1> USE DEF EnvSame, Exit
<1>2. CASE pc' = "closed"
  BY <1>2 DEF LoginOrder
<1>3. CASE pc' # "prompt" /\ pc' # "await" /\ session'
  BY <1>3 DEF LoginOrder
<1>4. CASE UNCHANGED <<pc, session, owed, sent, handled>>
  <2>1. Welcomed' = Welcomed /\ Answer' = Answer
    BY <1>4 DEF Welcomed, Answer
  <2> QED BY <1>1, <1>4, <2>1 DEF LoginOrder
<1>5. CASE Login
  <2>1. CASE PromptAgain
    BY <1>4, <2>1 DEF PromptAgain
  <2>2. CASE PromptAuth
    <3>1. CASE session
      <4>1. pc' \in {"poll", "closed"} /\ session'
        BY <2>2, <3>1 DEF PromptAuth
      <4> QED BY <1>2, <1>3, <4>1
    <3>2. CASE ~session /\ pc' = "await"
      <4>1. /\ pc = "prompt" /\ ~session' /\ owed' = owed + 1 /\ sent' = sent /\ handled' = handled
        BY <2>2, <3>2 DEF PromptAuth
      <4>2. owed = 0 /\ Len(handled) = Len(sent) /\ ~Welcomed
        BY <1>1, <3>2, <4>1 DEF LoginOrder
      <4>3. ~Welcomed'
        BY <4>1, <4>2 DEF Welcomed
      <4>4. Answer'
        BY <1>1, <4>1, <4>2, <4>3 DEF Answer
      <4> QED BY <3>2, <4>1, <4>4 DEF LoginOrder
    <3> QED BY <1>1, <1>2, <2>2, <3>1, <3>2 DEF PromptAuth
  <2>3. CASE PromptEof \/ AwaitSignal \/ AwaitClosed \/ AwaitFull
    BY <1>2, <2>3 DEF PromptEof, AwaitSignal, AwaitClosed, AwaitFull, CapacityFails
  <2>4. CASE \E batch \in Batches : AwaitMore(batch)
    <3>1. /\ pc = "await" /\ session' = session /\ owed' = owed /\ sent' = sent
          /\ \/ pc' = "await" /\ handled' = handled
             \/ /\ pc' = "prompt" /\ Len(handled') = Len(handled) + 1
                /\ Len(sent) = Len(handled') /\ sent[Len(handled')] = "ERROR"
      BY <2>4, MoreStream DEF AwaitMore, AwaitUnchanged
    <3>2. CASE pc' = "await" /\ handled' = handled
      BY <1>4, <3>1, <3>2
    <3>3. CASE pc' # "await"
      <4>1. /\ pc' = "prompt" /\ Len(handled') = Len(handled) + 1
            /\ Len(sent) = Len(handled') /\ sent[Len(handled')] = "ERROR"
        BY <3>1, <3>3
      <4>2. Answer
        BY <1>1, <3>1 DEF LoginOrder
      <4>3. owed = 0 /\ ~Welcomed
        BY <1>1, <4>1, <4>2 DEF Answer
      <4>4. ~Welcomed'
        BY <3>1, <4>3 DEF Welcomed
      <4> QED BY <3>1, <4>1, <4>3, <4>4 DEF LoginOrder
    <3> QED BY <3>1, <3>2, <3>3
  <2>5. CASE \E batch \in Batches : AwaitWelcome(batch)
    BY <1>3, <2>5 DEF AwaitWelcome
  <2> QED BY <1>5, <2>1, <2>2, <2>3, <2>4, <2>5 DEF Login
<1>6. CASE Loop
  <2>1. pc \in {"poll", "socket", "stdin", "tick"} /\ session' = session
    BY <1>6 DEF Loop, LoopEnds, PollEvents, PollTimeout, PollUnchanged, SocketFails, SocketRecv,
       SocketUnchanged, CapacityFails, StdinEof, StdinQuit, StdinLogin, StdinPrints, StdinSends,
       StdinUnchanged, Tick
  <2>2. session'
    BY <1>1, <2>1 DEF LoginOrder
  <2>3. pc' # "await"
    BY <1>6 DEF Loop, LoopEnds, PollEvents, PollTimeout, SocketFails, SocketRecv, CapacityFails,
       StdinEof, StdinQuit, StdinLogin, StdinPrints, StdinSends, Tick
  <2> QED BY <2>2, <2>3 DEF LoginOrder
<1>7. CASE Environment
  <2>1. CASE \E kind \in FrameKind : ServerSends(kind)
    <3>1. PICK kind \in FrameKind : ServerSends(kind)
      BY <2>1
    <3>2. /\ \/ kind \in {"WELCOME", "ERROR"} /\ owed > 0 /\ owed' = owed - 1
             \/ kind \notin {"WELCOME", "ERROR"} /\ Welcomed /\ owed' = owed
          /\ sent' = Append(sent, kind) /\ UNCHANGED <<pc, session, handled>>
      BY <3>1 DEF ServerSends, procVars
    <3>3. /\ Len(sent') = Len(sent) + 1 /\ sent'[Len(sent) + 1] = kind
          /\ \A n \in 1..Len(sent) : sent'[n] = sent[n]
      BY <1>1, <3>2
    <3>4. kind # "WELCOME" /\ ~Welcomed => ~Welcomed'
      BY <1>1, <3>3 DEF Welcomed
    <3>5. CASE pc = "prompt" /\ ~session
      BY <1>1, <3>2, <3>5 DEF LoginOrder
    <3>6. CASE pc = "await"
      <4>1. Answer /\ ~session
        BY <1>1, <3>6 DEF LoginOrder
      <4>2. Answer'
        BY <1>1, <3>2, <3>3, <3>4, <4>1 DEF Answer
      <4> QED BY <3>2, <3>6, <4>1, <4>2 DEF LoginOrder
    <3>7. CASE pc \notin {"prompt", "await"} \/ (pc = "prompt" /\ session)
      BY <1>1, <3>2, <3>7 DEF LoginOrder
    <3> QED BY <3>5, <3>6, <3>7
  <2>2. CASE UNCHANGED <<procVars, sent, owed>>
    BY <1>4, <2>2 DEF procVars
  <2> QED BY <1>7, <2>1, <2>2
          DEF Environment, PeerChanges, PeerResumes, UserTypes, UserEnds, Signal
<1> QED BY <1>5, <1>6, <1>7 DEF Next, Process

-----------------------------------------------------------------------------
(* The invariant. *)

LEMMA InitInv == Init => LoopInv
<1> SUFFICES ASSUME Init PROVE LoopInv
  OBVIOUS
<1>1. /\ rbuf = <<>> /\ wire = <<>> /\ sent = <<>> /\ handled = <<>> /\ cap = CapInit
      /\ CapInit \in Nat /\ MaxFrames \in Nat /\ MaxLines \in Nat /\ Rounds \in Nat \ {0}
  BY LoopAssumption DEF Init
<1>2. StreamTypes
  BY <1>1 DEF StreamTypes
<1>3. Whole(<<>>, 1, <<>>)
  BY DEF Whole, Within, Ascending, Covering
<1>4. Flow
  <2>1. Len(handled) = 0 /\ Len(sent) = 0 /\ rbuf \o wire = <<>> /\ handled = SubSeq(sent, 1, Len(handled))
    BY <1>1
  <2> QED BY <1>1, <1>3, <2>1 DEF Flow, Aligned
<1>5. Drained /\ Room /\ NeverGivesUp
  BY <1>1 DEF Init, Drained, NoEnd, Room, NeverGivesUp
<1>6. Flags
  BY Zenon DEF Init, Flags
<1>7. Control
  BY <1>1 DEF Init, Control, TaskOK
<1>8. Lines
  BY <1>1 DEF Init, Lines
<1>9. LoginOrder
  BY <1>1 DEF Init, LoginOrder, Welcomed
<1> QED BY <1>2, <1>4, <1>5, <1>6, <1>7, <1>8, <1>9, InvParts DEF StreamInv

LEMMA StreamStep == LoopInv /\ Next => StreamInv'
BY LoginStream, LoopStream, EnvironmentStream DEF Next, Process

LEMMA NextInv == LoopInv /\ [Next]_vars => LoopInv'
<1> SUFFICES ASSUME LoopInv, [Next]_vars PROVE LoopInv'
  OBVIOUS
<1>1. CASE Next
  <2>1. Flags
    BY InvParts
  <2>2. StreamInv' /\ Flags' /\ Control' /\ Lines' /\ LoginOrder'
    BY <1>1, <2>1, StreamStep, FlagStep, ControlStep, LineStep, OrderStep
  <2> QED BY <2>2 DEF LoopInv, TypeOK, Counts, StreamInv, StreamTypes, Flags, Control, TaskOK, Lines
<1>2. CASE UNCHANGED vars
  BY <1>2 DEF vars, procVars, LoopInv, TypeOK, Flow, Drained, Room, NeverGivesUp, LoginOrder, Answer,
              Welcomed, Counts
<1> QED BY <1>1, <1>2

(* The inductive invariant holds in every reachable state. *)
THEOREM LoopCorrect == Spec => []LoopInv
BY InitInv, NextInv, PTL DEF Spec

-----------------------------------------------------------------------------
(* What the invariant gives. *)

(* Nothing lies between two neighbours of a run. *)
LEMMA RunGapless ==
  ASSUME NEW s \in Stream, NEW first \in Nat \ {0}, NEW frames \in Seq(FrameKind),
         Whole(s, first, frames), NEW i \in 1..Len(s)-1,
         NEW n \in first..Len(frames), NEW p \in 1..FrameLen[frames[n]]
  PROVE  ~(Before(s[i], [frame |-> n, part |-> p]) /\ Before([frame |-> n, part |-> p], s[i + 1]))
<1>1. PICK k \in 1..Len(s) : s[k].frame = n /\ s[k].part = p
  BY DEF Whole, Covering
<1>2. Len(s) \in Nat /\ i \in 1..Len(s) /\ i + 1 \in 1..Len(s)
  BY DEF Stream
<1>3. /\ s[k].frame \in Nat /\ s[k].part \in Nat /\ s[i].frame \in Nat /\ s[i].part \in Nat
      /\ s[i + 1].frame \in Nat /\ s[i + 1].part \in Nat
  <2>1. \A j \in 1..Len(s) : s[j].frame \in Nat /\ s[j].part \in Nat
    BY UnitFacts, LoopAssumption, SMTT(30)
  <2> QED BY <1>2, <2>1
<1>4. CASE k <= i
  <2>1. k = i \/ Before(s[k], s[i])
    BY <1>2, <1>4 DEF Whole, Ascending
  <2> QED BY <1>1, <1>3, <2>1 DEF Before
<1>5. CASE k > i
  <2>1. k = i + 1 \/ Before(s[i + 1], s[k])
    BY <1>2, <1>5 DEF Whole, Ascending
  <2> QED BY <1>1, <1>3, <2>1 DEF Before
<1> QED BY <1>2, <1>4, <1>5

(* Neighbours are consecutive units of a frame, or end one and begin the next. *)
LEMMA RunNeighbours ==
  ASSUME NEW s \in Stream, NEW first \in Nat \ {0}, NEW frames \in Seq(FrameKind),
         Whole(s, first, frames), NEW i \in 1..Len(s)-1
  PROVE  LET u == s[i]
             v == s[i + 1]
         IN  \/ /\ v.frame = u.frame /\ v.part = u.part + 1
                /\ u.part # FrameLen[frames[u.frame]]
             \/ /\ v.frame = u.frame + 1 /\ v.part = 1
                /\ u.part = FrameLen[frames[u.frame]]
<1> DEFINE u == s[i]
           v == s[i + 1]
<1>1. Len(s) \in Nat /\ i \in 1..Len(s) /\ i + 1 \in 1..Len(s) /\ i < i + 1
  BY DEF Stream
<1>2. /\ u.frame \in first..Len(frames) /\ u.part \in 1..FrameLen[frames[u.frame]]
      /\ v.frame \in first..Len(frames) /\ v.part \in 1..FrameLen[frames[v.frame]]
      /\ Before(u, v)
  BY <1>1 DEF Whole, Within, Ascending
<1>3. \A n \in first..Len(frames) : n \in Nat /\ FrameLen[frames[n]] \in Nat \ {0}
  BY LenType
<1>4. \A n \in first..Len(frames) : \A p \in 1..FrameLen[frames[n]] :
        ~(Before(u, [frame |-> n, part |-> p]) /\ Before([frame |-> n, part |-> p], v))
  BY RunGapless
<1> HIDE DEF u, v
<1>5. CASE u.part # FrameLen[frames[u.frame]]
  <2>1. u.part + 1 \in 1..FrameLen[frames[u.frame]]
    <3>1. FrameLen[frames[u.frame]] \in Nat
      BY <1>2, <1>3
    <3> QED BY <1>2, <1>5, <3>1
  <2>2. ~(/\ Before(u, [frame |-> u.frame, part |-> u.part + 1])
          /\ Before([frame |-> u.frame, part |-> u.part + 1], v))
    BY <1>2, <1>4, <2>1
  <2>3. v.frame = u.frame /\ v.part = u.part + 1
    BY <1>2, <1>3, <2>2 DEF Before
  <2> QED BY <1>5, <2>3 DEF u, v
<1>6. CASE u.part = FrameLen[frames[u.frame]]
  <2>1. u.frame < v.frame
    BY <1>2, <1>3, <1>6 DEF Before
  <2>2. u.frame + 1 \in first..Len(frames)
    <3>1. /\ u.frame \in Nat /\ v.frame \in Nat /\ Len(frames) \in Nat
          /\ first <= u.frame /\ v.frame <= Len(frames)
      BY <1>2
    <3> QED BY <2>1, <3>1
  <2>3. 1 \in 1..FrameLen[frames[u.frame + 1]]
    BY <1>3, <2>2
  <2>4. ~(/\ Before(u, [frame |-> u.frame + 1, part |-> 1])
          /\ Before([frame |-> u.frame + 1, part |-> 1], v))
    BY <1>4, <2>2, <2>3
  <2>5. v.frame = u.frame + 1 /\ v.part = 1
    <3>1. u.frame \in Nat /\ v.frame \in Nat /\ v.part \in Nat \ {0}
      BY <1>2, <1>3
    <3> QED BY <2>1, <2>4, <3>1 DEF Before
  <2> QED BY <1>6, <2>5 DEF u, v
<1> QED BY <1>5, <1>6

(* A run ends with the last unit of the last frame. *)
LEMMA RunLast ==
  ASSUME NEW s \in Stream, NEW first \in Nat \ {0}, NEW frames \in Seq(FrameKind),
         Whole(s, first, frames), s # <<>>
  PROVE  s[Len(s)].frame = Len(frames) /\ s[Len(s)].part = FrameLen[frames[Len(frames)]]
<1>1. Len(s) \in Nat /\ Len(s) \in 1..Len(s) /\ Len(frames) \in Nat
  BY DEF Stream
<1>2. /\ s[Len(s)].frame \in first..Len(frames)
      /\ s[Len(s)].part \in 1..FrameLen[frames[s[Len(s)].frame]]
  BY <1>1 DEF Whole, Within
<1>3. first <= Len(frames) /\ Len(frames) \in first..Len(frames)
  BY <1>1, <1>2
<1>4. FrameLen[frames[Len(frames)]] \in Nat \ {0}
  BY <1>1, <1>3, LenType
<1>5. PICK k \in 1..Len(s) :
        s[k].frame = Len(frames) /\ s[k].part = FrameLen[frames[Len(frames)]]
  <2>1. FrameLen[frames[Len(frames)]] \in 1..FrameLen[frames[Len(frames)]]
    BY <1>4
  <2> QED BY <1>3, <2>1 DEF Whole, Covering
<1>6. k = Len(s) \/ Before(s[k], s[Len(s)])
  BY <1>1 DEF Whole, Ascending
<1> QED BY <1>1, <1>2, <1>3, <1>4, <1>5, <1>6 DEF Before

LEMMA InvStream == LoopInv => StreamIntact
<1> SUFFICES ASSUME LoopInv PROVE StreamIntact
  OBVIOUS
<1> DEFINE open == rbuf \o wire
           next == Len(handled) + 1
<1>1. /\ open \in Stream /\ Whole(open, next, sent) /\ next \in Nat \ {0}
      /\ sent \in Seq(FrameKind) /\ Len(handled) <= Len(sent)
      /\ Len(handled) \in Nat /\ Len(sent) \in Nat
      /\ handled = SubSeq(sent, 1, Len(handled))
  <2>1. open \in Stream
    BY InvFacts, Joined
  <2>2. /\ Whole(open, next, sent) /\ Len(handled) <= Len(sent)
        /\ handled = SubSeq(sent, 1, Len(handled))
    BY InvFacts DEF Aligned
  <2>3. sent \in Seq(FrameKind) /\ Len(handled) \in Nat /\ Len(sent) \in Nat
    BY InvFacts
  <2> QED BY <2>1, <2>2, <2>3
<1> HIDE DEF open, next
<1>2. ASSUME NEW i \in 1..Len(open)-1
      PROVE  \/ open[i+1] = [open[i] EXCEPT !.part = @ + 1] /\ ~EndsFrame(open[i])
             \/ open[i+1] = [frame |-> open[i].frame + 1, part |-> 1] /\ EndsFrame(open[i])
  <2>1. i \in 1..Len(open) /\ i + 1 \in 1..Len(open)
    BY <1>1 DEF Stream
  <2>2. open[i] \in Unit /\ open[i+1] \in Unit
    BY <1>1, <2>1, UnitFacts
  <2>3. \/ /\ open[i+1].frame = open[i].frame /\ open[i+1].part = open[i].part + 1
           /\ open[i].part # FrameLen[sent[open[i].frame]]
        \/ /\ open[i+1].frame = open[i].frame + 1 /\ open[i+1].part = 1
           /\ open[i].part = FrameLen[sent[open[i].frame]]
    BY <1>1, RunNeighbours
  <2> QED BY <2>2, <2>3 DEF Unit, EndsFrame
<1>3. CASE open = <<>>
  <2>1. Len(sent) < next
    BY <1>1, <1>3, WholeEmpty
  <2>2. Len(handled) = Len(sent)
    BY <1>1, <2>1 DEF next
  <2> QED BY <1>1, <1>2, <1>3, <2>2 DEF StreamIntact, open
<1>4. CASE open # <<>>
  <2>1. 1 \in 1..Len(open)
    BY <1>1, <1>4 DEF Stream
  <2>2. open[1] \in Unit /\ open[1].frame = next /\ open[1].part = 1
    BY <1>1, <1>4, <2>1, UnitFacts, WholeHead
  <2>3. open[1] = [frame |-> Len(handled) + 1, part |-> 1]
    BY <2>2 DEF Unit, next
  <2>4. open[Len(open)].frame = Len(sent) /\ EndsFrame(open[Len(open)])
    BY <1>1, <1>4, RunLast DEF EndsFrame
  <2> QED BY <1>1, <1>2, <1>4, <2>3, <2>4 DEF StreamIntact, open
<1> QED BY <1>3, <1>4

LEMMA InvDrained == LoopInv => NothingLeftBehind
<1> SUFFICES ASSUME LoopInv, pc \in {"await", "poll", "tick"} PROVE Consumed(rbuf) = 0
  BY DEF NothingLeftBehind
<1> QED BY InvFacts, ConsumedNone DEF Drained

(* A step of the process handles the next frames or none, one of the server sends. *)
LEMMA FifoStep == LoopInv /\ [Next]_vars => [Connection!Next]_<<sent, handled>>
<1> SUFFICES ASSUME LoopInv, [Next]_vars PROVE [Connection!Next]_<<sent, handled>>
  OBVIOUS
<1>1. /\ handled = SubSeq(sent, 1, Len(handled)) /\ Len(handled) \in Nat /\ Len(sent) \in Nat
  BY InvFacts DEF Aligned
<1>2. CASE Process
  <2>1. StreamInv' /\ sent' = sent /\ Len(handled) <= Len(handled')
    BY <1>2, LoginStream, LoopStream DEF Process, Onward
  <2>2. /\ handled' = SubSeq(sent, 1, Len(handled')) /\ Len(handled') <= Len(sent)
        /\ Len(handled') \in Nat
    BY <2>1 DEF StreamInv, StreamTypes, Flow, Aligned
  <2>3. CASE Len(handled') = Len(handled)
    BY <1>1, <2>1, <2>2, <2>3
  <2>4. CASE Len(handled') # Len(handled)
    <3> DEFINE before == Len(handled)
               after == Len(handled')
    <3>1. after \in before+1..Len(sent)
      <4>1. before \in Nat /\ after \in Nat /\ before <= after /\ before # after /\ after <= Len(sent)
        BY <1>1, <2>1, <2>2, <2>4
      <4> HIDE DEF before, after
      <4> QED BY <1>1, <4>1
    <3>2. Connection!HandleUpTo(Len(handled'))
      BY <2>1, <2>2 DEF Connection!HandleUpTo
    <3> QED BY <3>1, <3>2 DEF Connection!Next
  <2> QED BY <2>3, <2>4
<1>3. CASE Environment
  <2>1. /\ handled' = handled
        /\ sent' = sent \/ \E kind \in FrameKind : sent' = Append(sent, kind)
    BY <1>3, EnvironmentStream
  <2> QED BY <2>1 DEF Connection!Next, Connection!Send
<1>4. CASE UNCHANGED vars
  BY <1>4 DEF vars, procVars
<1> QED BY <1>2, <1>3, <1>4 DEF Next

(* Every variable keeps its type, and the counters their bounds. *)
THEOREM LoopTypeCorrect == Spec => []TypeOK
<1>1. LoopInv => TypeOK
  BY DEF LoopInv
<1> QED BY <1>1, LoopCorrect, PTL

(* Whatever recv returns, the byte stream is handled exactly once and in order:
   the copying of the login loop and of app_dispatch loses and repeats nothing. *)
THEOREM StreamIntactHolds == Spec => []StreamIntact
BY InvStream, LoopCorrect, PTL

(* When the thread waits in poll or recv, its buffer holds no complete frame. *)
THEOREM NothingLeftBehindHolds == Spec => []NothingLeftBehind
BY InvDrained, LoopCorrect, PTL

(* APP_RBUF_MAX is never reached and no frame boundary is ever lost, for every
   length of the frames that fits twice the initial buffer. *)
THEOREM NeverGivesUpHolds == Spec => []NeverGivesUp
<1>1. LoopInv => NeverGivesUp
  BY DEF LoopInv
<1> QED BY <1>1, LoopCorrect, PTL

(* The loop with its login and its buffer implements the FIFO of frames. *)
THEOREM FramesInOrderHolds == Spec => FramesInOrder
<1>1. Init => Connection!Init
  BY DEF Init, Connection!Init
<1> QED BY <1>1, FifoStep, LoopCorrect, PTL DEF Spec, FramesInOrder, Connection!Spec
=============================================================================
