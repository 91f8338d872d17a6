---------------------------- MODULE SequenceLemmas ----------------------------
(***************************************************************************)
(* Facts about sequences and functions defined by recursion that several   *)
(* proofs use.  None is about a variable: where a textbook would use       *)
(* induction, the proof takes the least number at which a fact fails.      *)
(***************************************************************************)
EXTENDS Integers, Sequences, FiniteSetsExt, SequencesExt,
        SequenceTheorems, WellFoundedInduction, TLAPS

(* A set of natural numbers has a least element. *)
LEMMA MinIsLeast ==
  ASSUME NEW S \in SUBSET Nat, S # {}
  PROVE  Min(S) \in S /\ \A y \in S : Min(S) <= y
<1> DEFINE R == {pair \in Nat \X Nat : pair[1] < pair[2]}
<1>1. \A x, y \in Nat : <<x, y>> \in R <=> x < y
  OBVIOUS
<1>2. IsWellFoundedOn(R, Nat)
  BY NatLessThanWellFounded DEF OpToRel
<1> HIDE DEF R
<1>3. PICK x \in S : \A y \in S : ~(<<y, x>> \in R)
  BY <1>2, WFMin
<1>4. ASSUME NEW y \in S PROVE x <= y
  <2>1. x \in Nat /\ y \in Nat
    OBVIOUS
  <2>2. ~(y < x)
    BY <1>1, <1>3, <2>1, Zenon
  <2> QED
    BY <2>1, <2>2
<1> QED
  BY <1>3, <1>4 DEF Min

(* Induction, with the set of the numbers the fact holds of. *)
LEMMA AllNumbers ==
  ASSUME NEW P, 0 \in P, \A n \in Nat : n \in P => n + 1 \in P
  PROVE  \A n \in Nat : n \in P
<1> DEFINE Bad == {n \in Nat : n \notin P}
<1> SUFFICES ASSUME Bad # {} PROVE FALSE
  OBVIOUS
<1>1. PICK n \in Bad : \A m \in Bad : n <= m
  BY MinIsLeast
<1>2. n \in Nat /\ n # 0
  BY <1>1
<1>3. n - 1 \in Nat /\ n - 1 \notin Bad /\ n - 1 + 1 = n
  BY <1>1, <1>2
<1>4. n - 1 \in P
  BY <1>3
<1>5. n \in P
  BY <1>3, <1>4
<1> QED
  BY <1>1, <1>5

(* A finite set of numbers has a greatest element. *)
LEMMA MaxIsGreatest ==
  ASSUME NEW n \in Nat, NEW S \in SUBSET (0..n), S # {}
  PROVE  Max(S) \in S /\ \A y \in S : y <= Max(S)
<1> DEFINE D == {k \in Nat : n - k \in S}
<1>1. PICK x \in S : TRUE
  OBVIOUS
<1>2. n - x \in D
  BY <1>1
<1>3. PICK d \in D : \A e \in D : d <= e
  BY <1>2, MinIsLeast
<1>4. n - d \in S /\ \A y \in S : n - d >= y
  <2>1. \A y \in S : y \in 0..n /\ n - y \in D
    OBVIOUS
  <2> QED
    BY <1>3, <2>1
<1>5. \E x0 \in S : \A y \in S : x0 >= y
  BY <1>4
<1>6. Max(S) \in S /\ \A y \in S : Max(S) >= y
  BY <1>5 DEF Max
<1>7. \A y \in S : y \in Int
  OBVIOUS
<1> QED
  BY <1>6, <1>7

(* The elements of a queue that lost its head or got a new last element. *)
LEMMA TailElements ==
  ASSUME NEW S, NEW q \in Seq(S), q # <<>>
  PROVE  /\ Head(q) = q[1] /\ 1 \in DOMAIN q
         /\ \A k \in DOMAIN Tail(q) :
              k \in Nat /\ k > 0 /\ k + 1 \in DOMAIN q /\ Tail(q)[k] = q[k + 1]
         /\ \A k \in DOMAIN q : k # 1 => k - 1 \in DOMAIN Tail(q) /\ Tail(q)[k - 1] = q[k]
<1>1. Len(q) \in Nat \ {0} /\ DOMAIN q = 1..Len(q)
  BY EmptySeq, LenProperties
<1>2. /\ Tail(q) \in Seq(S) /\ Len(Tail(q)) = Len(q) - 1
      /\ \A k \in 1..Len(Tail(q)) : Tail(q)[k] = q[k + 1]
      /\ Head(q) = q[1]
  BY HeadTailProperties
<1>3. DOMAIN Tail(q) = 1..(Len(q) - 1)
  BY <1>2, LenProperties
<1>4. \A k \in 1..(Len(q) - 1) : k \in Nat /\ k > 0 /\ k + 1 \in 1..Len(q)
  BY <1>1
<1>5. ASSUME NEW k \in 1..Len(q), k # 1
      PROVE  k - 1 \in 1..(Len(q) - 1) /\ Tail(q)[k - 1] = q[k]
  <2>1. k - 1 \in 1..(Len(q) - 1) /\ k - 1 + 1 = k
    BY <1>1, <1>5
  <2> QED
    BY <1>2, <2>1
<1> QED
  BY <1>1, <1>2, <1>3, <1>4, <1>5

LEMMA AppendElements ==
  ASSUME NEW S, NEW q \in Seq(S), NEW e \in S
  PROVE  /\ \A k \in DOMAIN Append(q, e) :
              \/ k \in DOMAIN q /\ Append(q, e)[k] = q[k]
              \/ k = Len(q) + 1 /\ Append(q, e)[k] = e
         /\ \A k \in DOMAIN q : k \in DOMAIN Append(q, e) /\ Append(q, e)[k] = q[k]
         /\ Len(q) + 1 \in DOMAIN Append(q, e) /\ Append(q, e)[Len(q) + 1] = e
<1>1. /\ Append(q, e) \in Seq(S)
      /\ Len(Append(q, e)) = Len(q) + 1
      /\ \A i \in 1..Len(q) : Append(q, e)[i] = q[i]
      /\ Append(q, e)[Len(q) + 1] = e
  BY AppendProperties
<1>2. /\ Len(q) \in Nat /\ DOMAIN q = 1..Len(q)
      /\ DOMAIN Append(q, e) = 1..(Len(q) + 1)
  BY <1>1, LenProperties
<1>3. /\ \A k \in 1..(Len(q) + 1) : k \in 1..Len(q) \/ k = Len(q) + 1
      /\ \A k \in 1..Len(q) : k \in 1..(Len(q) + 1)
      /\ Len(q) + 1 \in 1..(Len(q) + 1)
  BY <1>2
<1> QED
  BY <1>1, <1>2, <1>3

(* The elements of a sequence that was put together from two. *)
LEMMA ConcatElements ==
  ASSUME NEW S, NEW s \in Seq(S), NEW t \in Seq(S)
  PROVE  /\ s \o t \in Seq(S) /\ Len(s) \in Nat /\ Len(t) \in Nat
         /\ Len(s \o t) = Len(s) + Len(t)
         /\ \A i \in 1..Len(s) : (s \o t)[i] = s[i]
         /\ \A i \in 1..Len(t) : (s \o t)[Len(s) + i] = t[i]
<1>1. Len(s) \in Nat /\ Len(t) \in Nat
  BY LenProperties
<1>2. /\ s \o t \in Seq(S) /\ Len(s \o t) = Len(s) + Len(t)
      /\ \A i \in 1..(Len(s) + Len(t)) :
           (s \o t)[i] = IF i <= Len(s) THEN s[i] ELSE t[i - Len(s)]
  BY ConcatProperties
<1>3. ASSUME NEW i \in 1..Len(s) PROVE (s \o t)[i] = s[i]
  <2>1. i \in 1..(Len(s) + Len(t)) /\ i <= Len(s)
    BY <1>1
  <2> QED
    BY <1>2, <2>1
<1>4. ASSUME NEW i \in 1..Len(t) PROVE (s \o t)[Len(s) + i] = t[i]
  <2>1. /\ Len(s) + i \in 1..(Len(s) + Len(t)) /\ ~(Len(s) + i <= Len(s))
        /\ Len(s) + i - Len(s) = i
    BY <1>1
  <2> QED
    BY <1>2, <2>1
<1> QED
  BY <1>1, <1>2, <1>3, <1>4

(* A part of a text. *)
LEMMA PartOfText ==
  ASSUME NEW s \in Seq(Int), NEW a \in Nat, NEW b \in Nat, a # 0, a <= b + 1, b <= Len(s)
  PROVE  /\ SubSeq(s, a, b) \in Seq(Int) /\ Len(SubSeq(s, a, b)) = b - a + 1
         /\ \A k \in 1..(b - a + 1) : SubSeq(s, a, b)[k] = s[a + k - 1]
<1>1. Len(s) \in Nat
  BY LenProperties
<1>2. \A k \in a..b : k \in 1..Len(s)
  BY <1>1
<1>3. \A k \in a..b : s[k] \in Int
  BY <1>2, ElementOfSeq
<1>4. /\ SubSeq(s, a, b) \in Seq(Int)
      /\ Len(SubSeq(s, a, b)) = IF a <= b THEN b - a + 1 ELSE 0
      /\ \A k \in 1..(b - a + 1) : SubSeq(s, a, b)[k] = s[a + k - 1]
  BY <1>3, SubSeqProperties
<1>5. (IF a <= b THEN b - a + 1 ELSE 0) = b - a + 1
  OBVIOUS
<1> QED
  BY <1>4, <1>5

(* One element in front of a sequence, or behind it. *)
LEMMA OneMore ==
  ASSUME NEW S, NEW s \in Seq(S), NEW e \in S
  PROVE  /\ <<e>> \o s \in Seq(S) /\ Len(<<e>> \o s) = Len(s) + 1
         /\ (<<e>> \o s)[1] = e /\ \A k \in 1..Len(s) : (<<e>> \o s)[k + 1] = s[k]
         /\ s \o <<e>> \in Seq(S) /\ Len(s \o <<e>>) = Len(s) + 1
         /\ (s \o <<e>>)[Len(s) + 1] = e /\ \A k \in 1..Len(s) : (s \o <<e>>)[k] = s[k]
<1>1. PICK one \in Seq(S) : one = <<e>>
  <2>1. <<e>> \in Seq(S)
    OBVIOUS
  <2> QED
    BY <2>1, Zenon
<1>2. Len(s) \in Nat /\ Len(one) = 1 /\ one[1] = e
  BY <1>1, LenProperties
<1>3. /\ one \o s \in Seq(S) /\ Len(one \o s) = Len(one) + Len(s)
      /\ \A i \in 1..(Len(one) + Len(s)) :
           (one \o s)[i] = IF i <= Len(one) THEN one[i] ELSE s[i - Len(one)]
  BY ConcatProperties
<1>4. /\ s \o one \in Seq(S) /\ Len(s \o one) = Len(s) + Len(one)
      /\ \A i \in 1..(Len(s) + Len(one)) :
           (s \o one)[i] = IF i <= Len(s) THEN s[i] ELSE one[i - Len(s)]
  BY ConcatProperties
<1>5. /\ Len(one \o s) = Len(s) + 1 /\ Len(s \o one) = Len(s) + 1
      /\ (one \o s)[1] = e /\ (s \o one)[Len(s) + 1] = e
  BY <1>2, <1>3, <1>4
<1>6. ASSUME NEW k \in 1..Len(s)
      PROVE  (one \o s)[k + 1] = s[k] /\ (s \o one)[k] = s[k]
  BY <1>2, <1>3, <1>4
<1> QED
  BY <1>1, <1>3, <1>4, <1>5, <1>6

-----------------------------------------------------------------------------
(* FlattenSeq *)

(* The function inside FlattenSeq. *)
Accumulates(g, s, n) ==
  g = [i \in 1..n |-> IF i = 1 THEN s[i] ELSE g[i - 1] \o s[i]]

LEMMA AccumulatorExists == \A s : \A n \in Nat : \E g : Accumulates(g, s, n)
<1> SUFFICES ASSUME NEW s PROVE \A n \in Nat : \E g : Accumulates(g, s, n)
  OBVIOUS
<1> DEFINE Bad == {n \in Nat : ~ \E g : Accumulates(g, s, n)}
<1> SUFFICES ASSUME Bad # {} PROVE FALSE
  OBVIOUS
<1>1. PICK n \in Bad : \A m \in Bad : n <= m
  BY MinIsLeast
<1>2. n \in Nat /\ n # 0
  <2>1. Accumulates([i \in 1..0 |-> s[i]], s, 0)
    BY DEF Accumulates
  <2> QED
    BY <2>1
<1>3. n - 1 \in Nat /\ n - 1 \notin Bad
  BY <1>1, <1>2
<1>4. PICK h : Accumulates(h, s, n - 1)
  BY <1>3
<1> DEFINE g == [i \in 1..n |-> IF i = n THEN IF n = 1 THEN s[n] ELSE h[n - 1] \o s[n] ELSE h[i]]
<1>5. ASSUME NEW i \in 1..n PROVE g[i] = IF i = 1 THEN s[i] ELSE g[i - 1] \o s[i]
  <2>1. CASE i = n
    BY <2>1, <1>2
  <2>2. CASE i # n
    <3>1. i \in 1..(n - 1) /\ (i # 1 => i - 1 \in 1..n /\ i - 1 # n)
      BY <2>2, <1>2
    <3>2. h[i] = IF i = 1 THEN s[i] ELSE h[i - 1] \o s[i]
      BY <3>1, <1>4 DEF Accumulates
    <3> QED
      BY <3>1, <3>2, <2>2
  <2> QED
    BY <2>1, <2>2
<1>6. g = [i \in 1..n |-> IF i = 1 THEN s[i] ELSE g[i - 1] \o s[i]]
  <2>1. g = [i \in 1..n |-> g[i]]
    OBVIOUS
  <2> HIDE DEF g
  <2> QED
    BY <1>5, <2>1
<1> HIDE DEF g
<1> QED
  BY <1>1, <1>6 DEF Accumulates

LEMMA AccumulatorUnique ==
  ASSUME NEW s, NEW m \in Nat, NEW n \in Nat, NEW g, NEW h,
         Accumulates(g, s, m), Accumulates(h, s, n), NEW k \in 1..m, k <= n
  PROVE  g[k] = h[k]
<1> DEFINE Diff == {i \in Nat : i \in 1..m /\ i \in 1..n /\ g[i] # h[i]}
<1> SUFFICES ASSUME Diff # {} PROVE FALSE
  OBVIOUS
<1>1. PICK i \in Diff : \A j \in Diff : i <= j
  BY MinIsLeast
<1>2. i # 1 => i - 1 \in Nat /\ i - 1 \in 1..m /\ i - 1 \in 1..n /\ i - 1 \notin Diff
  BY <1>1
<1>3. i # 1 => g[i - 1] = h[i - 1]
  BY <1>2
<1>4. /\ g[i] = IF i = 1 THEN s[i] ELSE g[i - 1] \o s[i]
      /\ h[i] = IF i = 1 THEN s[i] ELSE h[i - 1] \o s[i]
  BY <1>1 DEF Accumulates
<1> QED
  BY <1>1, <1>3, <1>4

LEMMA FlattenIsLast ==
  ASSUME NEW s, Len(s) \in Nat, Len(s) # 0, NEW g, Accumulates(g, s, Len(s))
  PROVE  FlattenSeq(s) = g[Len(s)]
<1>1. ASSUME NEW h, h = [i \in 1..Len(s) |-> IF i = 1 THEN s[i] ELSE h[i - 1] \o s[i]]
      PROVE  h[Len(s)] = g[Len(s)]
  <2>1. Accumulates(h, s, Len(s))
    BY <1>1, Zenon DEF Accumulates
  <2>2. Len(s) \in 1..Len(s) /\ Len(s) <= Len(s)
    OBVIOUS
  <2> QED
    BY <2>1, <2>2, AccumulatorUnique
<1>2. \E h : h = [i \in 1..Len(s) |-> IF i = 1 THEN s[i] ELSE h[i - 1] \o s[i]]
  BY Zenon DEF Accumulates
<1> QED
  BY <1>1, <1>2, Zenon DEF FlattenSeq

(* What FlattenSeq makes of the first n sequences grows by the next one. *)
LEMMA FlattenGrows ==
  ASSUME NEW S, NEW s \in Seq(Seq(S)), NEW n \in Nat, n < Len(s)
  PROVE  /\ FlattenSeq(SubSeq(s, 1, 0)) = <<>>
         /\ n # 0 => FlattenSeq(SubSeq(s, 1, n + 1)) = FlattenSeq(SubSeq(s, 1, n)) \o s[n + 1]
         /\ n = 0 => FlattenSeq(SubSeq(s, 1, n + 1)) = s[1]
<1>0. Len(s) \in Nat /\ \A i \in 1..Len(s) : s[i] \in Seq(S)
  BY LenProperties, ElementOfSeq
<1>1. ASSUME NEW m \in 0..Len(s)
      PROVE  /\ Len(SubSeq(s, 1, m)) = m
             /\ \A i \in 1..m : SubSeq(s, 1, m)[i] = s[i]
  <2>1. 1 \in Int /\ m \in Int /\ \A i \in 1..m : s[i] \in Seq(S)
    BY <1>0
  <2>2. /\ Len(SubSeq(s, 1, m)) = IF 1 <= m THEN m - 1 + 1 ELSE 0
        /\ \A i \in 1..(m - 1 + 1) : SubSeq(s, 1, m)[i] = s[1 + i - 1]
    BY <2>1, SubSeqProperties
  <2>3. m \in Nat /\ m - 1 + 1 = m /\ \A i \in 1..m : 1 + i - 1 = i
    BY <1>0
  <2> HIDE <1>0
  <2> QED
    BY <2>2, <2>3
<1>2. PICK g : Accumulates(g, s, n + 1)
  <2>1. n + 1 \in Nat
    OBVIOUS
  <2> QED
    BY <2>1, AccumulatorExists
<1>3. ASSUME NEW m \in 1..(n + 1) PROVE FlattenSeq(SubSeq(s, 1, m)) = g[m]
  <2> DEFINE t == SubSeq(s, 1, m)
  <2>1. Len(t) = m /\ m \in Nat /\ m # 0 /\ \A i \in 1..m : t[i] = s[i]
    BY <1>0, <1>1
  <2> HIDE DEF t
  <2>2. PICK h : Accumulates(h, t, m)
    BY <2>1, AccumulatorExists
  <2>3. Accumulates(h, s, m)
    BY <2>1, <2>2 DEF Accumulates
  <2>4. h[m] = g[m]
    <3>1. m \in 1..m /\ m <= n + 1 /\ n + 1 \in Nat
      BY <2>1
    <3> QED
      BY <1>2, <2>1, <2>3, <3>1, AccumulatorUnique
  <2>5. FlattenSeq(t) = h[m]
    <3>1. Len(t) \in Nat /\ Len(t) # 0 /\ Accumulates(h, t, Len(t))
      BY <2>1, <2>2
    <3>2. FlattenSeq(t) = h[Len(t)]
      BY <3>1, FlattenIsLast
    <3> QED
      BY <2>1, <3>2
  <2> QED
    BY <2>4, <2>5 DEF t
<1>4. g[n + 1] = IF n + 1 = 1 THEN s[n + 1] ELSE g[n] \o s[n + 1]
  <2>1. \A k \in 1..(n + 1) : g[k] = IF k = 1 THEN s[k] ELSE g[k - 1] \o s[k]
    BY <1>2 DEF Accumulates
  <2>2. n + 1 \in 1..(n + 1) /\ n + 1 - 1 = n
    OBVIOUS
  <2> QED
    BY <2>1, <2>2
<1>5. FlattenSeq(SubSeq(s, 1, 0)) = <<>>
  <2>1. SubSeq(s, 1, 0) = <<>>
    BY SubSeqEmpty
  <2>2. Len(<<>>) = 0
    OBVIOUS
  <2> QED
    BY <2>1, <2>2 DEF FlattenSeq
<1>6. n + 1 \in 1..(n + 1) /\ (n # 0 => n \in 1..(n + 1)) /\ (n + 1 = 1 <=> n = 0)
  OBVIOUS
<1>7. FlattenSeq(SubSeq(s, 1, n + 1)) = g[n + 1]
  BY <1>3, <1>6
<1>8. n # 0 => FlattenSeq(SubSeq(s, 1, n)) = g[n]
  BY <1>3, <1>6
<1> QED
  BY <1>4, <1>5, <1>6, <1>7, <1>8

(* The same, and what comes out is a sequence. *)
LEMMA FlattenStep ==
  ASSUME NEW S, NEW s \in Seq(Seq(S))
  PROVE  /\ FlattenSeq(SubSeq(s, 1, 0)) = <<>>
         /\ \A n \in 0..Len(s) : FlattenSeq(SubSeq(s, 1, n)) \in Seq(S)
         /\ \A n \in Nat : n < Len(s) =>
              FlattenSeq(SubSeq(s, 1, n + 1)) = FlattenSeq(SubSeq(s, 1, n)) \o s[n + 1]
<1> DEFINE F(n) == FlattenSeq(SubSeq(s, 1, n))
<1>0. Len(s) \in Nat /\ \A k \in 1..Len(s) : s[k] \in Seq(S)
  BY LenProperties, ElementOfSeq
<1>1. F(0) = <<>>
  BY SubSeqEmpty DEF FlattenSeq
<1>2. ASSUME NEW n \in Nat, n < Len(s)
      PROVE  F(n + 1) = F(n) \o s[n + 1]
  <2>1. CASE n # 0
    BY <1>2, <2>1, FlattenGrows
  <2>2. CASE n = 0
    <3>1. F(n + 1) = s[1]
      BY <1>2, <2>2, FlattenGrows
    <3>2. n + 1 = 1 /\ s[1] \in Seq(S)
      BY <1>0, <1>2, <2>2
    <3>3. <<>> \o s[1] = s[1]
      BY <3>2, ConcatEmptySeq
    <3>4. F(n) = <<>>
      BY <1>1, <2>2
    <3> HIDE DEF F
    <3> QED
      BY <3>1, <3>2, <3>3, <3>4
  <2> QED
    BY <2>1, <2>2
<1> HIDE DEF F
<1> DEFINE Bad == {n \in Nat : n <= Len(s) /\ F(n) \notin Seq(S)}
<1>3. Bad = {}
  <2> SUFFICES ASSUME Bad # {} PROVE FALSE
    OBVIOUS
  <2>1. PICK n \in Bad : \A k \in Bad : n <= k
    BY MinIsLeast
  <2>2. n # 0
    BY <1>1, <2>1, EmptySeq
  <2>3. PICK m \in Nat : n = m + 1
    BY <2>1, <2>2
  <2>4. m \notin Bad /\ m < Len(s) /\ m + 1 \in 1..Len(s)
    BY <1>0, <2>1, <2>3
  <2>5. F(m) \in Seq(S) /\ s[m + 1] \in Seq(S)
    BY <1>0, <2>4
  <2>6. F(n) = F(m) \o s[m + 1]
    BY <1>2, <2>3, <2>4
  <2>7. F(n) \in Seq(S)
    BY <2>5, <2>6, ConcatProperties
  <2> QED
    BY <2>1, <2>7
<1>4. \A n \in 0..Len(s) : F(n) \in Seq(S)
  BY <1>0, <1>3
<1> QED
  BY <1>1, <1>2, <1>4 DEF F

-----------------------------------------------------------------------------
(* Prefixes *)

LEMMA PrefixElements ==
  ASSUME NEW S, NEW s \in Seq(S), NEW t \in Seq(S)
  PROVE  IsPrefix(s, t) <=> Len(s) <= Len(t) /\ \A k \in 1..Len(s) : s[k] = t[k]
<1>1. Len(s) \in Nat /\ Len(t) \in Nat
  BY LenProperties
<1>2. /\ \A k \in 1..Len(s) : s[k] \in S
      /\ \A k \in 1..Len(t) : t[k] \in S
  BY ElementOfSeq
<1> SUFFICES ASSUME Len(s) <= Len(t)
             PROVE  SubSeq(s, 1, Len(s)) = SubSeq(t, 1, Len(s)) <=> \A k \in 1..Len(s) : s[k] = t[k]
  BY DEF IsPrefix
<1>3. PICK n \in Nat : n = Len(s)
  BY <1>1
<1>4. n <= Len(t)
  BY <1>3
<1>5. /\ SubSeq(s, 1, n) = [k \in 1..n |-> s[k]]
      /\ SubSeq(t, 1, n) = [k \in 1..n |-> t[k]]
  BY <1>1, <1>3, <1>4
<1>6. SubSeq(s, 1, n) = SubSeq(t, 1, n) <=> \A k \in 1..n : s[k] = t[k]
  BY <1>5, Zenon
<1> QED
  BY <1>3, <1>6, Zenon

LEMMA PrefixOfConcat ==
  ASSUME NEW S, NEW s \in Seq(S), NEW t \in Seq(S), NEW u \in Seq(S), IsPrefix(s, t)
  PROVE  IsPrefix(s, t \o u)
<1>1. Len(s) <= Len(t) /\ \A k \in 1..Len(s) : s[k] = t[k]
  BY PrefixElements
<1>2. /\ t \o u \in Seq(S) /\ Len(t) \in Nat /\ Len(u) \in Nat
      /\ Len(t \o u) = Len(t) + Len(u)
      /\ \A i \in 1..Len(t) : (t \o u)[i] = t[i]
  BY ConcatElements
<1>3. Len(s) \in Nat
  BY LenProperties
<1>4. Len(s) <= Len(t \o u) /\ \A k \in 1..Len(s) : s[k] = (t \o u)[k]
  BY <1>1, <1>2, <1>3
<1> QED
  BY <1>2, <1>4, PrefixElements

(* What FlattenSeq makes of the first sequences is the beginning of what it *)
(* makes of more of them.                                                   *)
LEMMA FlattenBegins ==
  ASSUME NEW S, NEW s \in Seq(Seq(S)), NEW n \in 0..Len(s), NEW m \in n..Len(s)
  PROVE  IsPrefix(FlattenSeq(SubSeq(s, 1, n)), FlattenSeq(SubSeq(s, 1, m)))
<1> DEFINE F(k) == FlattenSeq(SubSeq(s, 1, k))
<1>0. Len(s) \in Nat /\ n \in Nat /\ m \in Nat /\ n <= m /\ m <= Len(s)
  BY LenProperties
<1>1. \A k \in 1..Len(s) : s[k] \in Seq(S)
  BY ElementOfSeq
<1>2. \A k \in 0..Len(s) : F(k) \in Seq(S)
  BY FlattenStep
<1>3. \A k \in Nat : k < Len(s) => F(k + 1) = F(k) \o s[k + 1]
  BY FlattenStep
<1> HIDE DEF F
<1> DEFINE Bad == {k \in Nat : n <= k /\ k <= Len(s) /\ ~IsPrefix(F(n), F(k))}
<1>4. Bad = {}
  <2> SUFFICES ASSUME Bad # {} PROVE FALSE
    OBVIOUS
  <2>1. PICK k \in Bad : \A j \in Bad : k <= j
    BY MinIsLeast
  <2>2. IsPrefix(F(n), F(n))
    <3>1. F(n) \in Seq(S) /\ Len(F(n)) \in Nat
      BY <1>2, LenProperties
    <3> QED
      BY <3>1, PrefixElements
  <2>3. k # n
    BY <2>1, <2>2
  <2>4. PICK j \in Nat : k = j + 1
    BY <1>0, <2>1, <2>3
  <2>5. j \notin Bad /\ n <= j /\ j < Len(s) /\ j + 1 \in 1..Len(s) /\ j \in 0..Len(s)
    BY <1>0, <2>1, <2>3, <2>4
  <2>6. IsPrefix(F(n), F(j))
    BY <2>5
  <2>7. F(n) \in Seq(S) /\ F(j) \in Seq(S) /\ s[j + 1] \in Seq(S)
    BY <1>1, <1>2, <2>5
  <2>8. IsPrefix(F(n), F(j) \o s[j + 1])
    BY <2>6, <2>7, PrefixOfConcat
  <2> QED
    BY <1>3, <2>1, <2>4, <2>5, <2>8
<1>5. IsPrefix(F(n), F(m))
  BY <1>0, <1>4
<1> QED
  BY <1>5 DEF F
=============================================================================
