------------------------------ MODULE StoresProofs ------------------------------
(***************************************************************************)
(* What holds of the stores and of the scans, for every value of the       *)
(* constants, after what the proofs need to know of the data.              *)
(*                                                                         *)
(* The data: a sequence used as a stack, its top last (Append, Front and   *)
(* Last); sequences one after another, two of them or, with FlattenSeq,    *)
(* any number; division; sums over a stack; induction, as the least number *)
(* of a set of naturals; the greatest of a few numbers; lists without      *)
(* duplicates; runs of numbers; and functions that go on step by step.     *)
(*                                                                         *)
(* ImportCache: a thread only imports what it has seen to be missing after *)
(* it got the lock, and what is missing stays so until it is done.         *)
(* FrameScan: the rows drawn are those put out and those in a thread's     *)
(* hand, and no two of these have a row in common.                         *)
(* GraphStore: the batches exported so far list the rels whose             *)
(* destination is a node before some number, each once.                    *)
(* FeatureStore: the tensor of a request is what its index means to the    *)
(* number of nodes at its time, by either path.                            *)
(***************************************************************************)
EXTENDS Integers, ImportCache, FrameScan, GraphStore, FeatureStore, SequenceTheorems,
        FiniteSetTheorems, WellFoundedInduction, TLAPS

\* Append keeps every entry in its place and puts the new one on top.
LEMMA AppendEntries ==
    ASSUME NEW S, NEW s \in Seq(S), NEW x \in S
    PROVE  /\ Append(s, x) \in Seq(S)
           /\ Len(Append(s, x)) = Len(s) + 1
           /\ Last(Append(s, x)) = x
           /\ Append(s, x)[Len(s) + 1] = x
           /\ \A i \in 1..Len(s) : Append(s, x)[i] = s[i]
BY DEF Last

\* Front drops the top and keeps every other entry in its place.
LEMMA FrontEntries ==
    ASSUME NEW S, NEW s \in Seq(S), s # <<>>
    PROVE  /\ Len(s) \in Nat \ {0}
           /\ Front(s) \in Seq(S)
           /\ Len(Front(s)) = Len(s) - 1
           /\ \A i \in 1..(Len(s) - 1) : Front(s)[i] = s[i]
           /\ Front(s) # <<>> => Last(Front(s)) = s[Len(s) - 1]
<1>1. Len(s) \in Nat \ {0}
  BY EmptySeq
<1>2. Front(s) \in Seq(S)
  BY <1>1 DEF Front
<1>3. Len(Front(s)) = Len(s) - 1
  <2>1. PICK n \in Nat : n = Len(s) - 1
    BY <1>1
  <2>2. CASE n = 0
    BY <2>1, <2>2, SubSeqEmpty, EmptySeq DEF Front
  <2>3. CASE n > 0
    BY <2>1, <2>3 DEF Front
  <2> QED
    BY <2>2, <2>3
<1>4. \A i \in 1..(Len(s) - 1) : Front(s)[i] = s[i]
  BY <1>1 DEF Front
<1>5. Front(s) # <<>> => Len(s) - 1 \in 1..(Len(s) - 1)
  BY <1>1, <1>2, <1>3, EmptySeq
<1> QED
  BY <1>1, <1>2, <1>3, <1>4, <1>5 DEF Last

\* Front takes an entry away, so it leaves none of an empty stack.
LEMMA FrontNonEmpty ==
    ASSUME NEW s, Front(s) # <<>>
    PROVE  s # <<>>
BY SubSeqEmpty DEF Front

\* What is left of a stack of two or more.
LEMMA FrontOfLonger ==
    ASSUME NEW S, NEW s \in Seq(S), s # <<>>, Len(s) # 1
    PROVE  /\ Front(s) # <<>> /\ Len(s) - 1 \in 1..(Len(s) - 1)
           /\ Len(s) - 1 + 1 = Len(s)
<1>1. Len(s) \in Nat \ {0} /\ Len(Front(s)) = Len(s) - 1
  BY FrontEntries
<1>2. PICK n \in Nat : n = Len(s)
  BY <1>1
<1>3. n > 1 /\ Len(Front(s)) = n - 1
  BY <1>1, <1>2
<1>4. Front(s) # <<>>
  BY <1>3, EmptySeq
<1> QED
  BY <1>2, <1>3, <1>4

LEMMA MinOfNaturals ==
    ASSUME NEW S \in SUBSET Nat, S # {}
    PROVE  Min(S) \in S /\ \A y \in S : Min(S) <= y
<1> DEFINE less == {p \in Nat \X Nat : p[1] < p[2]}
<1>1. IsWellFoundedOn(less, Nat)
  BY NatLessThanWellFounded DEF OpToRel
<1>2. PICK n \in S : \A m \in S : ~(<<m, n>> \in less)
  BY <1>1, WFMin
<1>3. ASSUME NEW m \in S
      PROVE  n <= m
  <2>1. <<m, n>> \notin less
    BY <1>2
  <2>2. ~(m < n)
    BY <2>1
  <2> QED
    BY <2>2
<1> QED
  BY <1>3 DEF Min

\* Induction up to n.
LEMMA CountUp ==
    ASSUME NEW n \in Nat, NEW S, 0 \in S,
           \A k \in 0..n, m \in 1..n : k \in S /\ m = k + 1 => m \in S
    PROVE  \A k \in 0..n : k \in S
<1> DEFINE out == {k \in 0..n : k \notin S}
<1>1. ASSUME out # {}
      PROVE  FALSE
  <2>1. PICK m \in out : \A k \in out : m <= k
    <3>1. out \in SUBSET Nat
      OBVIOUS
    <3> HIDE DEF out
    <3> QED
      BY <1>1, <3>1, MinOfNaturals
  <2>2. m # 0 /\ m \in 0..n /\ m \notin S
    BY <2>1
  <2>3. PICK k \in 0..n : m = k + 1
    BY <2>2
  <2>4. ~(m <= k) /\ m \in 1..n
    BY <2>2, <2>3
  <2>5. k \in S
    BY <2>1, <2>4
  <2> QED
    BY <2>2, <2>3, <2>4, <2>5
<1> QED
  BY <1>1

LEMMA MinOfTwo ==
    ASSUME NEW a \in Nat, NEW b \in Nat
    PROVE  /\ Min({a, b}) \in Nat /\ Min({a, b}) <= a /\ Min({a, b}) <= b
           /\ Min({a, b}) \in {a, b}
BY DEF Min

LEMMA IntervalSize ==
    ASSUME NEW n \in Nat
    PROVE  IsFiniteSet(1..n) /\ Cardinality(1..n) = n
<1>1. IsFiniteSet(1..n) /\ Cardinality(1..n) = IF 1 > n THEN 0 ELSE n - 1 + 1
  BY FS_Interval
<1> QED
  BY <1>1

\* One sequence after another, with nothing in both.
LEMMA ConcatOfInjective ==
    ASSUME NEW S, NEW s \in Seq(S), NEW t \in Seq(S),
           IsInjective(s), IsInjective(t), ToSet(s) \cap ToSet(t) = {}
    PROVE  /\ s \o t \in Seq(S) /\ IsInjective(s \o t)
           /\ ToSet(s \o t) = ToSet(s) \cup ToSet(t)
<1>1. PICK m \in Nat, n \in Nat : m = Len(s) /\ n = Len(t)
  OBVIOUS
<1>2. /\ DOMAIN s = 1..m /\ DOMAIN t = 1..n
      /\ s \o t \in Seq(S) /\ DOMAIN (s \o t) = 1..(m + n)
      /\ \A i \in 1..(m + n) : (s \o t)[i] = IF i <= m THEN s[i] ELSE t[i - m]
  BY <1>1, ConcatProperties
<1>3. \A i \in 1..m : i \in 1..(m + n) /\ (s \o t)[i] = s[i] /\ s[i] \in ToSet(s)
  BY <1>2 DEF ToSet
<1>4. \A i \in 1..n : m + i \in 1..(m + n) /\ (s \o t)[m + i] = t[i] /\ t[i] \in ToSet(t)
  <2>1. \A i \in 1..n : m + i \in 1..(m + n) /\ ~(m + i <= m) /\ m + i - m = i
    OBVIOUS
  <2> QED
    BY <1>2, <2>1 DEF ToSet
<1>5. \A i \in 1..(m + n) :
        i \in 1..m \/ (i - m \in 1..n /\ (s \o t)[i] = t[i - m] /\ t[i - m] \in ToSet(t))
  <2>1. \A i \in 1..(m + n) : i \in 1..m \/ (i - m \in 1..n /\ ~(i <= m))
    OBVIOUS
  <2> QED
    BY <1>2, <2>1 DEF ToSet
<1>6. ToSet(s \o t) = ToSet(s) \cup ToSet(t)
  <2>1. \A x : x \in ToSet(s \o t) <=> \E i \in 1..(m + n) : x = (s \o t)[i]
    BY <1>2 DEF ToSet
  <2>2. \A x : x \in ToSet(s) <=> \E i \in 1..m : x = s[i]
    BY <1>2 DEF ToSet
  <2>3. \A x : x \in ToSet(t) <=> \E i \in 1..n : x = t[i]
    BY <1>2 DEF ToSet
  <2>4. ASSUME NEW x \in ToSet(s \o t)
        PROVE  x \in ToSet(s) \cup ToSet(t)
    <3>1. PICK i \in 1..(m + n) : x = (s \o t)[i]
      BY <2>1
    <3> QED
      BY <3>1, <1>3, <1>4, <1>5
  <2>5. ASSUME NEW x \in ToSet(s) \cup ToSet(t)
        PROVE  x \in ToSet(s \o t)
    <3>1. CASE x \in ToSet(s)
      <4>1. PICK i \in 1..m : x = s[i]
        BY <2>2, <3>1
      <4> QED
        BY <2>1, <4>1, <1>3
    <3>2. CASE x \in ToSet(t)
      <4>1. PICK i \in 1..n : x = t[i]
        BY <2>3, <3>2
      <4> QED
        BY <2>1, <4>1, <1>4
    <3> QED
      BY <3>1, <3>2
  <2> QED
    BY <2>4, <2>5
<1>7. ASSUME NEW i \in 1..(m + n), NEW j \in 1..(m + n), (s \o t)[i] = (s \o t)[j]
      PROVE  i = j
  <2>1. CASE i \in 1..m /\ j \in 1..m
    BY <1>2, <1>3, <1>7, <2>1 DEF IsInjective
  <2>2. CASE i \notin 1..m /\ j \notin 1..m
    <3>1. t[i - m] = t[j - m] /\ i - m \in 1..n /\ j - m \in 1..n
      BY <1>5, <1>7, <2>2
    <3>2. i - m = j - m
      BY <1>2, <3>1 DEF IsInjective
    <3> QED
      BY <3>2
  <2>3. CASE i \in 1..m /\ j \notin 1..m
    BY <1>3, <1>5, <1>7, <2>3
  <2>4. CASE i \notin 1..m /\ j \in 1..m
    BY <1>3, <1>5, <1>7, <2>4
  <2> QED
    BY <2>1, <2>2, <2>3, <2>4
<1> QED
  BY <1>2, <1>6, <1>7 DEF IsInjective

-----------------------------------------------------------------------------
(* Division.                                                               *)

LEMMA DivBounds ==
    ASSUME NEW x \in Nat, NEW b \in Nat, NEW c \in Nat \ {0}
    PROVE  /\ x \div c \in Nat
           /\ x < b * c => x \div c + 1 <= b
           /\ b * c <= x => b <= x \div c
           /\ x < (b + 1) * c => x \div c <= b
<1>1. PICK q \in Int : q = x \div c
  OBVIOUS
<1>2. PICK r \in Int : r = x % c
  OBVIOUS
<1>3. x = c * q + r /\ 0 <= r /\ r < c
  BY <1>1, <1>2
<1>4. q \in Nat
  BY <1>3
<1>5. \A e \in Int : e <= 0 => c * e <= 0
  OBVIOUS
<1>6. ASSUME x < b * c
      PROVE  q + 1 <= b
  <2>1. SUFFICES ASSUME b - q <= 0
                 PROVE  FALSE
    BY <1>4
  <2>2. c * (b - q) <= 0
    BY <1>5, <2>1
  <2>3. c * (b - q) = c * b - c * q
    OBVIOUS
  <2> QED
    BY <1>3, <1>6, <2>2, <2>3
<1>7. ASSUME b * c <= x
      PROVE  b <= q
  <2>1. SUFFICES ASSUME q + 1 - b <= 0
                 PROVE  FALSE
    BY <1>4
  <2>2. c * (q + 1 - b) <= 0
    BY <1>5, <2>1
  <2>3. c * (q + 1 - b) = c * q + c - c * b
    OBVIOUS
  <2> QED
    BY <1>3, <1>7, <2>2, <2>3
<1>8. ASSUME x < (b + 1) * c
      PROVE  q <= b
  <2>1. SUFFICES ASSUME b + 1 - q <= 0
                 PROVE  FALSE
    BY <1>4
  <2>2. c * (b + 1 - q) <= 0
    BY <1>5, <2>1
  <2>3. c * (b + 1 - q) = (b + 1) * c - c * q
    OBVIOUS
  <2> QED
    BY <1>3, <1>8, <2>2, <2>3
<1> QED
  BY <1>1, <1>4, <1>6, <1>7, <1>8

LEMMA DivExact ==
    ASSUME NEW x \in Nat, NEW c \in Nat \ {0}
    PROVE  /\ x % c = 0 => x = (x \div c) * c
           /\ \A k \in Nat : x = k * c => x % c = 0
<1>1. PICK q \in Int, r \in Int : q = x \div c /\ r = x % c
  OBVIOUS
<1>2. x = c * q + r /\ 0 <= r /\ r < c
  BY <1>1
<1>3. r = 0 => x = q * c
  BY <1>2
<1>4. ASSUME NEW k \in Nat, x = k * c
      PROVE  r = 0
  <2>1. PICK e \in Int : e = k - q /\ c * e = r
    BY <1>2, <1>4
  <2>2. \A f \in Int : (f <= -1 => c * f <= -c) /\ (f >= 1 => c * f >= c)
    OBVIOUS
  <2>3. e = 0
    BY <1>2, <2>1, <2>2
  <2> QED
    BY <2>1, <2>3
<1> QED
  BY <1>1, <1>3, <1>4

\* A set's elements in some order.
LEMMA SeqsOfSet ==
    ASSUME NEW S, IsFiniteSet(S), NEW s \in SetToSeqs(S)
    PROVE  /\ s \in Bijection(1..Cardinality(S), S) /\ Cardinality(S) \in Nat
           /\ s \in Seq(S) /\ Len(s) = Cardinality(S) /\ DOMAIN s = 1..Cardinality(S)
<1>1. PICK n \in Nat : n = Cardinality(S)
  BY FS_CardinalityType
<1>2. s \in [1..n -> S] /\ \A i, j \in 1..n : i # j => s[i] # s[j]
  BY <1>1 DEF SetToSeqs
<1>3. s \in Injection(1..n, S)
  BY <1>2 DEF Injection, IsInjective
<1>4. Cardinality(1..n) = n
  BY IntervalSize
<1>5. s \in Surjection(1..n, S)
  BY <1>1, <1>3, <1>4, FS_Injection
<1> QED
  BY <1>1, <1>2, <1>3, <1>5 DEF Bijection

-----------------------------------------------------------------------------
(* What the entries of a sequence of naturals add up to: the last one of   *)
(* its running totals.                                                     *)

Totals(s, p) ==
    /\ p \in [0..Len(s) -> Nat] /\ p[0] = 0
    /\ \A i \in 1..Len(s) : p[i] = p[i - 1] + s[i]

SumIs(s, total) == \E p : Totals(s, p) /\ total = p[Len(s)]

LEMMA EmptySum ==
    ASSUME NEW total
    PROVE  SumIs(<<>>, total) <=> total = 0
<1>1. Len(<<>>) = 0 /\ 1..0 = {}
  OBVIOUS
<1>2. Totals(<<>>, [i \in {0} |-> 0])
  BY <1>1 DEF Totals
<1>3. SumIs(<<>>, 0)
  <2>1. [i \in {0} |-> 0][Len(<<>>)] = 0
    BY <1>1
  <2> QED
    BY <1>2, <2>1 DEF SumIs
<1>4. ASSUME SumIs(<<>>, total)
      PROVE  total = 0
  BY <1>1, <1>4 DEF SumIs, Totals
<1> QED
  BY <1>3, <1>4

LEMMA SumPushed ==
    ASSUME NEW s \in Seq(Nat), NEW total, SumIs(s, total), NEW x \in Nat
    PROVE  total \in Nat /\ SumIs(Append(s, x), total + x)
<1>1. PICK p : Totals(s, p) /\ total = p[Len(s)]
  BY DEF SumIs
<1>2. PICK n \in Nat : n = Len(s)
  OBVIOUS
<1>3. /\ Append(s, x) \in Seq(Nat) /\ Len(Append(s, x)) = n + 1
      /\ Append(s, x)[n + 1] = x /\ \A i \in 1..n : Append(s, x)[i] = s[i]
  BY <1>2, AppendEntries
<1>4. total \in Nat
  BY <1>1, <1>2 DEF Totals
<1> DEFINE q == [i \in 0..(n + 1) |-> IF i <= n THEN p[i] ELSE total + x]
<1>5. q \in [0..(n + 1) -> Nat] /\ q[0] = 0 /\ q[n + 1] = total + x
  BY <1>1, <1>2, <1>4 DEF Totals
<1>6. \A i \in 1..(n + 1) : q[i] = q[i - 1] + Append(s, x)[i]
  <2>1. ASSUME NEW i \in 1..n
        PROVE  q[i] = q[i - 1] + Append(s, x)[i]
    <3>1. q[i] = p[i] /\ q[i - 1] = p[i - 1]
      OBVIOUS
    <3>2. p[i] = p[i - 1] + s[i]
      BY <1>1, <1>2 DEF Totals
    <3>3. Append(s, x)[i] = s[i]
      BY <1>3
    <3> HIDE DEF q
    <3> QED
      BY <3>1, <3>2, <3>3
  <2>2. ASSUME NEW i \in {n + 1}
        PROVE  q[i] = q[i - 1] + Append(s, x)[i]
    <3>1. q[i - 1] = p[n] /\ q[i] = total + x /\ Append(s, x)[i] = x
      BY <1>3, <1>5
    <3> HIDE DEF q
    <3> QED
      BY <1>1, <1>2, <3>1
  <2>3. \A i \in 1..(n + 1) : i \in 1..n \/ i \in {n + 1}
    OBVIOUS
  <2> HIDE DEF q
  <2> QED
    BY <2>1, <2>2, <2>3
<1>7. Totals(Append(s, x), q)
  <2> HIDE DEF q
  <2> QED
    BY <1>3, <1>5, <1>6 DEF Totals
<1>8. total + x = q[Len(Append(s, x))]
  BY <1>3, <1>5
<1> QED
  BY <1>4, <1>7, <1>8 DEF SumIs

LEMMA SumPopped ==
    ASSUME NEW s \in Seq(Nat), NEW total, SumIs(s, total), s # <<>>
    PROVE  /\ Last(s) \in Nat /\ total \in Nat
           /\ total - Last(s) \in Nat /\ SumIs(Front(s), total - Last(s))
<1>1. PICK p : Totals(s, p) /\ total = p[Len(s)]
  BY DEF SumIs
<1>2. /\ Len(s) \in Nat \ {0} /\ Front(s) \in Seq(Nat) /\ Len(Front(s)) = Len(s) - 1
      /\ \A i \in 1..(Len(s) - 1) : Front(s)[i] = s[i]
  BY FrontEntries
<1>3. PICK n \in Nat : Len(s) = n + 1 /\ Len(Front(s)) = n
  BY <1>2
<1>4. Last(s) = s[n + 1] /\ s[n + 1] \in Nat
  BY <1>3 DEF Last
<1>5. total = p[n] + Last(s) /\ p[n] \in Nat
  <2>1. n + 1 \in 1..(n + 1) /\ n + 1 - 1 = n
    OBVIOUS
  <2> QED
    BY <1>1, <1>3, <1>4, <2>1 DEF Totals
<1> DEFINE q == [i \in 0..n |-> p[i]]
<1>6. q \in [0..n -> Nat] /\ q[0] = 0 /\ q[n] = p[n]
  BY <1>1, <1>3 DEF Totals
<1>7. \A i \in 1..n : q[i] = q[i - 1] + Front(s)[i]
  <2>1. ASSUME NEW i \in 1..n
        PROVE  q[i] = q[i - 1] + Front(s)[i]
    <3>1. q[i] = p[i] /\ q[i - 1] = p[i - 1]
      OBVIOUS
    <3>2. i \in 1..Len(s)
      BY <1>3
    <3> HIDE DEF q
    <3> QED
      BY <1>1, <1>2, <1>3, <3>1, <3>2 DEF Totals
  <2> QED
    BY <2>1
<1>8. Totals(Front(s), q)
  <2> HIDE DEF q
  <2> QED
    BY <1>3, <1>6, <1>7, SMTT(30) DEF Totals
<1>9. total - Last(s) = q[Len(Front(s))]
  BY <1>3, <1>4, <1>5, <1>6, SMTT(30)
<1> QED
  BY <1>4, <1>5, <1>8, <1>9 DEF SumIs

-----------------------------------------------------------------------------
(* FlattenSeq, by induction on the number of sequences.                    *)

\* The first n of the sequences of s, one after another.
FlatOf(g, s, n) == g = [i \in 1..n |-> IF i = 1 THEN s[i] ELSE g[i - 1] \o s[i]]

LEMMA FlatEntries ==
    ASSUME NEW g, NEW s, NEW n \in Nat, FlatOf(g, s, n)
    PROVE  /\ DOMAIN g = 1..n
           /\ n # 0 => g[1] = s[1]
           /\ \A i \in 1..n : i # 1 => g[i] = g[i - 1] \o s[i]
<1> DEFINE body(i) == IF i = 1 THEN s[i] ELSE g[i - 1] \o s[i]
<1>1. g = [i \in 1..n |-> body(i)]
  BY DEF FlatOf
<1> HIDE DEF body
<1>2. DOMAIN g = 1..n /\ \A i \in 1..n : g[i] = body(i)
  BY <1>1
<1>3. ASSUME NEW i \in 1..n, i # 1
      PROVE  g[i] = g[i - 1] \o s[i]
  <2>1. body(i) = g[i - 1] \o s[i]
    BY <1>3, Zenon DEF body
  <2>2. g[i] = body(i)
    BY <1>2
  <2> QED
    BY <2>1, <2>2
<1>4. n # 0 => g[1] = s[1]
  <2>1. body(1) = s[1]
    BY Zenon DEF body
  <2>2. n # 0 => 1 \in 1..n
    OBVIOUS
  <2> QED
    BY <1>2, <2>1, <2>2
<1> QED
  BY <1>2, <1>3, <1>4

LEMMA FlatUnique ==
    ASSUME NEW s, NEW n \in Nat, NEW g, FlatOf(g, s, n), NEW h, FlatOf(h, s, n)
    PROVE  g = h
<1>1. /\ DOMAIN g = 1..n /\ DOMAIN h = 1..n
      /\ n # 0 => g[1] = h[1]
      /\ \A i \in 1..n : i # 1 => g[i] = g[i - 1] \o s[i] /\ h[i] = h[i - 1] \o s[i]
  <2>1. /\ DOMAIN g = 1..n
        /\ n # 0 => g[1] = s[1]
        /\ \A i \in 1..n : i # 1 => g[i] = g[i - 1] \o s[i]
    BY FlatEntries
  <2>2. /\ DOMAIN h = 1..n
        /\ n # 0 => h[1] = s[1]
        /\ \A i \in 1..n : i # 1 => h[i] = h[i - 1] \o s[i]
    BY FlatEntries
  <2> QED
    BY <2>1, <2>2
<1> DEFINE differ == {i \in 1..n : g[i] # h[i]}
<1>2. ASSUME differ # {}
      PROVE  FALSE
  <2>1. PICK m \in differ : \A i \in differ : m <= i
    <3>1. differ \in SUBSET Nat
      OBVIOUS
    <3> HIDE DEF differ
    <3> QED
      BY <1>2, <3>1, MinOfNaturals
  <2>2. m # 1 /\ m \in 1..n
    BY <1>1
  <2>3. m - 1 \in 1..n /\ m - 1 \notin differ
    BY <2>1, <2>2
  <2>4. g[m - 1] = h[m - 1]
    BY <2>3
  <2>5. g[m] = h[m]
    BY <1>1, <2>2, <2>4
  <2> QED
    BY <2>5
<1>3. \A i \in 1..n : g[i] = h[i]
  BY <1>2
<1>4. g = [i \in 1..n |-> g[i]] /\ h = [i \in 1..n |-> h[i]]
  <2>1. g = [i \in 1..n |-> IF i = 1 THEN s[i] ELSE g[i - 1] \o s[i]]
    BY DEF FlatOf
  <2>2. h = [i \in 1..n |-> IF i = 1 THEN s[i] ELSE h[i - 1] \o s[i]]
    BY DEF FlatOf
  <2> QED
    BY <1>1, <2>1, <2>2
<1> QED
  BY <1>3, <1>4

LEMMA FlattenIs ==
    ASSUME NEW s, NEW n \in Nat \ {0}, n = Len(s), NEW g, FlatOf(g, s, n)
    PROVE  FlattenSeq(s) = g[n]
<1> DEFINE f == CHOOSE f : f = [i \in 1..Len(s) |-> IF i = 1 THEN s[i] ELSE f[i - 1] \o s[i]]
<1>1. FlattenSeq(s) = f[n]
  BY Zenon DEF FlattenSeq
<1>2. FlatOf(f, s, n)
  <2>1. \E h : h = [i \in 1..Len(s) |-> IF i = 1 THEN s[i] ELSE h[i - 1] \o s[i]]
    BY DEF FlatOf
  <2>2. f = [i \in 1..Len(s) |-> IF i = 1 THEN s[i] ELSE f[i - 1] \o s[i]]
    BY <2>1, Zenon
  <2> HIDE DEF f
  <2> QED
    BY <2>2 DEF FlatOf
<1> HIDE DEF f
<1>3. f = g
  BY <1>2, FlatUnique
<1> QED
  BY <1>1, <1>3

\* One sequence more.
FlatGoesOn(h, g, s, n, m) == FlatOf(h, s, m) /\ (\A i \in 1..n : h[i] = g[i]) /\ h[m] = g[n] \o s[m]

LEMMA FlatNext ==
    ASSUME NEW s, NEW n \in Nat, n # 0, NEW m \in Nat, m = n + 1, NEW g, FlatOf(g, s, n)
    PROVE  \E h : FlatGoesOn(h, g, s, n, m)
<1> DEFINE h == [i \in 1..m |-> IF i <= n THEN g[i] ELSE g[n] \o s[m]]
<1>1. /\ \A i \in 1..n : h[i] = g[i]
      /\ h[m] = g[n] \o s[m] /\ DOMAIN h = 1..m
  <2>1. PICK x : x = g[n] \o s[m]
    OBVIOUS
  <2>2. h = [i \in 1..m |-> IF i <= n THEN g[i] ELSE x]
    BY <2>1
  <2>3. m \in 1..m /\ ~(m <= n) /\ \A i \in 1..n : i \in 1..m /\ i <= n
    OBVIOUS
  <2> HIDE DEF h
  <2>4. /\ DOMAIN h = 1..m
        /\ \A i \in 1..m : h[i] = IF i <= n THEN g[i] ELSE x
    BY <2>2
  <2> QED
    BY <2>1, <2>3, <2>4
<1>2. /\ g[1] = s[1]
      /\ \A i \in 1..n : i # 1 => g[i] = g[i - 1] \o s[i]
  BY FlatEntries
<1>3. \A i \in 1..m : h[i] = IF i = 1 THEN s[i] ELSE h[i - 1] \o s[i]
  <2>1. ASSUME NEW i \in 1..n
        PROVE  h[i] = IF i = 1 THEN s[i] ELSE h[i - 1] \o s[i]
    <3>1. CASE i = 1
      BY <1>1, <1>2, <3>1
    <3>2. CASE i # 1
      <4>1. i - 1 \in 1..n
        BY <3>2
      <4>2. h[i] = g[i] /\ h[i - 1] = g[i - 1]
        BY <1>1, <4>1
      <4> QED
        BY <1>2, <3>2, <4>2
    <3> QED
      BY <3>1, <3>2
  <2>2. ASSUME NEW i, i = m
        PROVE  h[i] = IF i = 1 THEN s[i] ELSE h[i - 1] \o s[i]
    <3>1. i # 1 /\ i - 1 = n /\ n \in 1..n
      BY <2>2
    <3>2. h[i] = g[n] \o s[i] /\ h[i - 1] = g[n]
      BY <1>1, <2>2, <3>1
    <3> HIDE DEF h
    <3> QED
      BY <3>1, <3>2, Zenon
  <2>3. TAKE i \in 1..m
  <2>4. i \in 1..n \/ i = m
    OBVIOUS
  <2> HIDE DEF h
  <2> QED
    BY <2>1, <2>2, <2>4
<1>4. h = [i \in 1..m |-> h[i]]
  OBVIOUS
<1> HIDE DEF h
<1>5. FlatOf(h, s, m)
  BY <1>3, <1>4 DEF FlatOf
<1> QED
  BY <1>1, <1>5 DEF FlatGoesOn

LEMMA Flattens ==
    ASSUME NEW S, NEW s \in Seq(Seq(S)), NEW n, n \in 1..Len(s)
    PROVE  \E g : FlatOf(g, s, n) /\ g[n] \in Seq(S)
<1> DEFINE Does(m) == \E g : FlatOf(g, s, m) /\ g[m] \in Seq(S)
           fails == {m \in 1..Len(s) : ~Does(m)}
<1>1. Len(s) \in Nat /\ \A i \in 1..Len(s) : s[i] \in Seq(S)
  OBVIOUS
<1>2. Does(1)
  <2> DEFINE g == [i \in 1..1 |-> s[i]]
  <2>1. g = [i \in 1..1 |-> IF i = 1 THEN s[i] ELSE g[i - 1] \o s[i]]
    <3>1. \A i \in 1..1 : i = 1
      OBVIOUS
    <3> QED
      BY <3>1, Zenon
  <2>2. g[1] \in Seq(S)
    BY <1>1
  <2> HIDE DEF g
  <2> QED
    BY <2>1, <2>2 DEF FlatOf
<1>3. ASSUME NEW m \in Nat \ {0}, NEW next \in 1..Len(s), next = m + 1, Does(m)
      PROVE  Does(next)
  <2>1. PICK g : FlatOf(g, s, m) /\ g[m] \in Seq(S)
    BY <1>3
  <2>2. PICK h : FlatOf(h, s, next) /\ h[next] = g[m] \o s[next]
    <3>1. next \in Nat /\ m \in Nat /\ m # 0
      BY <1>3
    <3>2. \E h : FlatGoesOn(h, g, s, m, next)
      BY <1>3, <2>1, <3>1, FlatNext
    <3> QED
      BY <3>2 DEF FlatGoesOn
  <2>3. h[next] \in Seq(S)
    BY <1>1, <1>3, <2>1, <2>2, ConcatProperties
  <2> QED
    BY <2>2, <2>3
<1> HIDE DEF Does
<1>4. ASSUME fails # {}
      PROVE  FALSE
  <2>1. PICK m \in fails : \A i \in fails : m <= i
    <3>1. fails \in SUBSET Nat
      OBVIOUS
    <3> HIDE DEF fails
    <3> QED
      BY <1>4, <3>1, MinOfNaturals
  <2>2. m # 1 /\ m \in 1..Len(s) /\ ~Does(m)
    BY <1>2, <2>1
  <2>3. PICK k : k = m - 1
    OBVIOUS
  <2>4. k \in Nat \ {0} /\ k + 1 = m /\ k \in 1..Len(s) /\ ~(m <= k)
    BY <1>1, <2>2, <2>3
  <2>5. Does(k)
    BY <2>1, <2>4
  <2> QED
    BY <1>3, <2>2, <2>4, <2>5
<1> QED
  BY <1>4 DEF Does

\* FlattenSeq has the last of the sequences last.
LEMMA FlattenAppended ==
    ASSUME NEW S, NEW s \in Seq(Seq(S)), NEW c \in Seq(S)
    PROVE  /\ FlattenSeq(s) \in Seq(S)
           /\ FlattenSeq(Append(s, c)) = FlattenSeq(s) \o c
<1>1. PICK n \in Nat : n = Len(s)
  OBVIOUS
<1>2. PICK t \in Seq(Seq(S)) : t = Append(s, c)
  BY AppendEntries
<1>0. PICK m \in Nat \ {0} : m = n + 1
  BY <1>1
<1>3. m \in Nat \ {0} /\ m = n + 1 /\ m = Len(t) /\ t[m] = c /\ \A i \in 1..n : t[i] = s[i]
  BY <1>1, <1>2, <1>0, AppendEntries
<1>4. CASE n = 0
  <2>1. s = <<>> /\ FlattenSeq(s) = <<>>
    <3>1. s = <<>>
      BY <1>1, <1>4, EmptySeq
    <3> QED
      BY <1>1, <1>4, <3>1, Zenon DEF FlattenSeq
  <2>2. m \in 1..Len(t) /\ m = 1
    <3>1. m = 1
      BY <1>0, <1>4
    <3>2. Len(t) = 1
      BY <1>3, <3>1
    <3> QED
      BY <3>1, <3>2
  <2>3. PICK g : FlatOf(g, t, m)
    BY <2>2, Flattens
  <2>4. FlattenSeq(t) = g[m]
    BY <1>3, <2>3, FlattenIs
  <2>5. g[m] = t[m]
    BY <2>2, <2>3, FlatEntries
  <2>6. c = <<>> \o c
    BY ConcatEmptySeq
  <2>7. FlattenSeq(t) = FlattenSeq(s) \o c /\ FlattenSeq(s) \in Seq(S)
    <3>1. FlattenSeq(s) \in Seq(S)
      <4>1. <<>> \in Seq(S)
        BY EmptySeq
      <4> QED
        BY <2>1, <4>1, Zenon
    <3>2. FlattenSeq(s) \o c = c
      BY <2>1, <2>6, Zenon
    <3> QED
      BY <1>3, <2>4, <2>5, <3>1, <3>2
  <2> QED
    BY <1>2, <2>7
<1>5. CASE n # 0
  <2>1. PICK g : FlatOf(g, s, n) /\ g[n] \in Seq(S)
    <3>1. n \in 1..Len(s)
      BY <1>1, <1>5
    <3> QED
      BY <3>1, Flattens
  <2>2. FlatOf(g, t, n)
    <3>1. g = [i \in 1..n |-> IF i = 1 THEN s[i] ELSE g[i - 1] \o s[i]]
      BY <2>1 DEF FlatOf
    <3>2. g = [i \in 1..n |-> IF i = 1 THEN t[i] ELSE g[i - 1] \o t[i]]
      BY <1>3, <3>1, Zenon
    <3> QED
      BY <3>2 DEF FlatOf
  <2>3. PICK h : FlatOf(h, t, m) /\ h[m] = g[n] \o t[m]
    <3>1. \E h : FlatGoesOn(h, g, t, n, m)
      BY <1>0, <1>1, <1>5, <2>2, FlatNext
    <3> QED
      BY <3>1 DEF FlatGoesOn
  <2>4. FlattenSeq(s) = g[n]
    BY <1>1, <1>5, <2>1, FlattenIs
  <2>5. FlattenSeq(t) = h[m]
    BY <1>3, <2>3, FlattenIs
  <2> QED
    BY <1>2, <1>3, <2>1, <2>3, <2>4, <2>5
<1> QED
  BY <1>4, <1>5

-----------------------------------------------------------------------------
\* The greatest of two numbers, and of numbers below some other.
LEMMA MaxOfTwo ==
    ASSUME NEW a \in Int, NEW b \in Int
    PROVE  /\ Max({a, b}) \in Int /\ a <= Max({a, b}) /\ b <= Max({a, b})
           /\ Max({a, b}) \in {a, b}
BY DEF Max

LEMMA MaxOfPlaces ==
    ASSUME NEW n \in Nat, NEW places \in SUBSET (1..n), places # {}
    PROVE  Max(places) \in places
<1> DEFINE S == {n - i : i \in places}
<1>1. S \in SUBSET Nat /\ S # {}
  <2>1. \A i \in 1..n : n - i \in Nat
    OBVIOUS
  <2>2. S # {}
    OBVIOUS
  <2>3. \A i \in places : n - i \in Nat
    BY <2>1
  <2> QED
    BY <2>2, <2>3
<1>2. Min(S) \in S /\ \A y \in S : Min(S) <= y
  <2> HIDE DEF S
  <2> QED
    BY <1>1, MinOfNaturals
<1>3. PICK m \in places : Min(S) = n - m
  BY <1>2
<1>4. \A i \in places : m >= i
  <2>1. ASSUME NEW i \in places PROVE m >= i
    <3>1. n - m <= n - i
      BY <1>2, <1>3
    <3> QED
      BY <3>1
  <2> QED
    BY <2>1
<1> QED
  BY <1>4 DEF Max

-----------------------------------------------------------------------------
\* One list after another, of other things.
Joined(s, n, t, m) == [p \in 1..(n + m) |-> IF p <= n THEN s[p] ELSE t[p - n]]

LEMMA JoinedLists ==
    ASSUME NEW n \in Nat, NEW m \in Nat, NEW S, NEW T, S \cap T = {},
           NEW s \in Bijection(1..n, S), NEW t \in Bijection(1..m, T)
    PROVE  Joined(s, n, t, m) \in Bijection(1..(n + m), S \cup T)
<1> DEFINE f == Joined(s, n, t, m)
<1>1. /\ s \in [1..n -> S] /\ \A i, j \in 1..n : s[i] = s[j] => i = j
      /\ \A x \in S : \E i \in 1..n : s[i] = x
  BY DEF Bijection, Injection, Surjection, IsInjective
<1>2. /\ t \in [1..m -> T] /\ \A i, j \in 1..m : t[i] = t[j] => i = j
      /\ \A x \in T : \E i \in 1..m : t[i] = x
  BY DEF Bijection, Injection, Surjection, IsInjective
<1>3. \A i \in 1..n : i \in 1..(n + m) /\ f[i] = s[i] /\ f[i] \in S
  BY <1>1 DEF Joined
<1>4. \A i \in 1..(n + m) : i \in 1..n \/ (i - n \in 1..m /\ f[i] = t[i - n] /\ f[i] \in T)
  <2>1. \A i \in 1..(n + m) : i \in 1..n \/ (i - n \in 1..m /\ ~(i <= n))
    OBVIOUS
  <2> QED
    BY <1>2, <2>1 DEF Joined
<1>5. \A i \in 1..m : n + i \in 1..(n + m) /\ f[n + i] = t[i]
  <2>1. \A i \in 1..m : n + i \in 1..(n + m) /\ ~(n + i <= n) /\ n + i - n = i
    OBVIOUS
  <2> QED
    BY <2>1 DEF Joined
<1>6. f \in [1..(n + m) -> S \cup T]
  <2>1. \A i \in 1..(n + m) : f[i] \in S \cup T
    BY <1>3, <1>4
  <2> QED
    BY <2>1 DEF Joined
<1>7. ASSUME NEW i \in 1..(n + m), NEW j \in 1..(n + m), f[i] = f[j]
      PROVE  i = j
  <2>1. CASE i \in 1..n /\ j \in 1..n
    BY <1>1, <1>3, <1>7, <2>1
  <2>2. CASE i \notin 1..n /\ j \notin 1..n
    <3>1. /\ i - n \in 1..m /\ f[i] = t[i - n]
          /\ j - n \in 1..m /\ f[j] = t[j - n]
      BY <1>4, <2>2
    <3>2. PICK a \in 1..m, b \in 1..m : a = i - n /\ b = j - n
      BY <3>1
    <3>3. a = b
      BY <1>2, <1>7, <3>1, <3>2
    <3> QED
      BY <3>2, <3>3
  <2>3. CASE i \in 1..n /\ j \notin 1..n
    BY <1>3, <1>4, <1>7, <2>3
  <2>4. CASE i \notin 1..n /\ j \in 1..n
    BY <1>3, <1>4, <1>7, <2>4
  <2> QED
    BY <2>1, <2>2, <2>3, <2>4
<1>8. ASSUME NEW x \in S \cup T
      PROVE  \E i \in 1..(n + m) : f[i] = x
  <2>1. CASE x \in S
    BY <1>1, <1>3, <2>1
  <2>2. CASE x \in T
    <3>1. PICK i \in 1..m : t[i] = x
      BY <1>2, <2>2
    <3>2. n + i \in 1..(n + m) /\ f[n + i] = x
      BY <1>5, <3>1
    <3> QED
      BY <3>2
  <2> QED
    BY <2>1, <2>2
<1> HIDE DEF f
<1>9. f \in Bijection(1..(n + m), S \cup T)
  BY <1>6, <1>7, <1>8 DEF Bijection, Injection, Surjection, IsInjective
<1> QED
  BY <1>9 DEF f

\* A list is as long as what it lists, or shorter than what that is part of.
LEMMA ListLength ==
    ASSUME NEW n \in Nat, NEW m \in Nat, NEW S \in SUBSET (1..m), NEW s \in Bijection(1..n, S)
    PROVE  n <= m /\ (S = 1..m => n = m)
<1>1. IsFiniteSet(1..m) /\ Cardinality(1..m) = m /\ IsFiniteSet(1..n) /\ Cardinality(1..n) = n
  BY IntervalSize
<1>2. ExistsBijection(1..n, S)
  BY DEF ExistsBijection
<1>3. IsFiniteSet(S) /\ Cardinality(S) = n
  BY <1>1, <1>2, FS_Bijection
<1>4. Cardinality(S) <= Cardinality(1..m)
  BY <1>1, FS_Subset
<1> QED
  BY <1>1, <1>3, <1>4

-----------------------------------------------------------------------------
\* The first numbers, and those after a up to b.
Ids(n) == [i \in 1..n |-> i]
Run(n, a, b) == SubSeq(Ids(n), a + 1, b)

IsRun(s, a, b) == s \in Seq(Nat) /\ Len(s) = b - a /\ \A i \in 1..(b - a) : s[i] = a + i

LEMMA RunEntries ==
    ASSUME NEW n \in Nat, NEW a \in Nat, NEW b \in Nat, a <= b, b <= n
    PROVE  IsRun(Run(n, a, b), a, b)
<1>1. \A i \in (a + 1)..b : i \in 1..n /\ Ids(n)[i] \in Nat
  BY DEF Ids
<1>2. PICK x \in Int : x = a + 1
  OBVIOUS
<1>4. PICK s \in Seq(Nat) :
        /\ s = Run(n, a, b) /\ Len(s) = IF x <= b THEN b - x + 1 ELSE 0
        /\ \A i \in 1..(b - x + 1) : s[i] = Ids(n)[x + i - 1]
  <2>1. \A i \in x..b : Ids(n)[i] \in Nat
    BY <1>1, <1>2
  <2>2. /\ SubSeq(Ids(n), x, b) \in Seq(Nat)
        /\ Len(SubSeq(Ids(n), x, b)) = IF x <= b THEN b - x + 1 ELSE 0
        /\ \A i \in 1..(b - x + 1) : SubSeq(Ids(n), x, b)[i] = Ids(n)[x + i - 1]
    BY <1>2, <2>1, SubSeqProperties
  <2>3. Run(n, a, b) = SubSeq(Ids(n), x, b)
    BY <1>2, Zenon DEF Run
  <2> QED
    BY <2>2, <2>3
<1>5. Len(s) = b - a
  BY <1>2, <1>4
<1>6. ASSUME NEW i \in 1..(b - a)
      PROVE  s[i] = a + i
  <2>1. s[i] = Ids(n)[a + i]
    <3>1. i \in 1..(b - x + 1) /\ x + i - 1 = a + i
      BY <1>2
    <3> QED
      BY <1>4, <3>1
  <2>2. Ids(n)[a + i] = a + i
    BY DEF Ids
  <2> QED
    BY <2>1, <2>2
<1> QED
  BY <1>4, <1>5, <1>6 DEF IsRun

LEMMA RunGrows ==
    ASSUME NEW n \in Nat, NEW a \in Nat, NEW b \in Nat, NEW c \in Nat, a <= b, b <= c, c <= n
    PROVE  Run(n, a, b) \o Run(n, b, c) = Run(n, a, c)
<1>1. PICK s, t, u : s = Run(n, a, b) /\ t = Run(n, b, c) /\ u = Run(n, a, c)
  OBVIOUS
<1>2. IsRun(s, a, b) /\ IsRun(t, b, c) /\ IsRun(u, a, c)
  <2>1. IsRun(Run(n, a, b), a, b)
    BY RunEntries
  <2>2. IsRun(Run(n, b, c), b, c)
    BY RunEntries
  <2>3. IsRun(Run(n, a, c), a, c)
    BY RunEntries
  <2> QED
    BY <1>1, <2>1, <2>2, <2>3
<1>3. s \in Seq(Nat) /\ t \in Seq(Nat) /\ u \in Seq(Nat)
  BY <1>2 DEF IsRun
<1>4. /\ s \o t \in Seq(Nat) /\ Len(s \o t) = Len(s) + Len(t)
      /\ \A i \in 1..(Len(s) + Len(t)) : (s \o t)[i] = IF i <= Len(s) THEN s[i] ELSE t[i - Len(s)]
  BY <1>3, ConcatProperties
<1>5. /\ Len(s) = b - a /\ \A i \in 1..(b - a) : s[i] = a + i
      /\ Len(t) = c - b /\ \A i \in 1..(c - b) : t[i] = b + i
      /\ Len(u) = c - a /\ \A i \in 1..(c - a) : u[i] = a + i
  BY <1>2 DEF IsRun
<1>6. \A i \in 1..(c - a) : (s \o t)[i] = u[i]
  <2> TAKE i \in 1..(c - a)
  <2>1. CASE i <= b - a
    <3>1. i \in 1..(b - a) /\ i \in 1..(Len(s) + Len(t)) /\ i <= Len(s)
      BY <1>5, <2>1
    <3>2. (s \o t)[i] = s[i]
      BY <1>4, <3>1
    <3> QED
      BY <1>5, <3>1, <3>2
  <2>2. CASE ~(i <= b - a)
    <3>1. i - (b - a) \in 1..(c - b) /\ i \in 1..(Len(s) + Len(t)) /\ ~(i <= Len(s))
      BY <1>5, <2>2
    <3>2. (s \o t)[i] = t[i - (b - a)]
      BY <1>4, <1>5, <3>1
    <3> QED
      BY <1>5, <3>1, <3>2
  <2> QED
    BY <2>1, <2>2
<1>7. s \o t = u
  <2>1. Len(s \o t) = c - a
    BY <1>4, <1>5
  <2> QED
    BY <1>3, <1>4, <1>5, <1>6, <2>1, SeqEqual
<1> QED
  BY <1>1, <1>7

LEMMA RunEmpty ==
    ASSUME NEW n \in Nat, NEW a \in Nat
    PROVE  Run(n, a, a) = <<>>
<1>1. SubSeq(Ids(n), a + 1, a) = <<>>
  BY SubSeqEmpty
<1> QED
  BY <1>1 DEF Run

LEMMA RunOfOne ==
    ASSUME NEW n \in Nat, NEW a \in Nat, NEW b \in Nat, b = a + 1, b <= n
    PROVE  Run(n, a, b) = <<b>>
<1>1. /\ Run(n, a, b) \in Seq(Nat) /\ Len(Run(n, a, b)) = 1
      /\ \A i \in 1..1 : Run(n, a, b)[i] = a + i
  <2>1. IsRun(Run(n, a, b), a, b)
    BY RunEntries
  <2>2. b - a = 1
    OBVIOUS
  <2> QED
    BY <2>1, <2>2 DEF IsRun
<1>2. PICK s : s = Run(n, a, b)
  OBVIOUS
<1>3. s[1] = b
  BY <1>1, <1>2
<1>4. <<b>> \in Seq(Nat) /\ Len(<<b>>) = 1 /\ <<b>>[1] = b
  OBVIOUS
<1>5. s = <<b>>
  BY <1>1, <1>2, <1>3, <1>4, SeqEqual
<1> QED
  BY <1>2, <1>5

-----------------------------------------------------------------------------
\* f goes from a step by step.
Iterates(f, n, a, step) == f[0] = a /\ \A k \in 1..n : f[k] = step[<<k, f[k - 1]>>]

\* There are as many steps as one likes.
LEMMA Iterated ==
    ASSUME NEW n \in Nat, NEW S, NEW a \in S, NEW step \in [(1..n) \X S -> S]
    PROVE  \E f \in [0..n -> S] : Iterates(f, n, a, step)
<1> DEFINE T == {m \in 0..n : \E f \in [0..m -> S] : Iterates(f, m, a, step)}
<1>1. 0 \in T
  <2> DEFINE f == [k \in 0..0 |-> a]
  <2>1. f \in [0..0 -> S] /\ f[0] = a
    OBVIOUS
  <2> HIDE DEF f
  <2>2. Iterates(f, 0, a, step)
    BY <2>1 DEF Iterates
  <2> QED
    BY <2>1, <2>2
<1>2. ASSUME NEW k \in 0..n, NEW m \in 1..n, k \in T, m = k + 1
      PROVE  m \in T
  <2>1. PICK f \in [0..k -> S] : Iterates(f, k, a, step)
    BY <1>2
  <2>2. PICK new \in S : new = step[<<m, f[k]>>]
    <3>1. f[k] \in S
      OBVIOUS
    <3> QED
      BY <3>1
  <2> DEFINE h == [i \in 0..m |-> IF i <= k THEN f[i] ELSE new]
  <2>3. h \in [0..m -> S]
    BY <1>2
  <2>4. h[m] = new /\ \A i \in 0..k : h[i] = f[i]
    BY <1>2
  <2> HIDE DEF h
  <2>5. ASSUME NEW i \in 1..m
        PROVE  h[i] = step[<<i, h[i - 1]>>]
    <3>1. CASE i = m
      <4>1. i - 1 = k /\ h[i - 1] = f[k]
        BY <1>2, <2>4, <3>1
      <4> QED
        BY <2>2, <2>4, <3>1, <4>1
    <3>2. CASE i # m
      <4>1. i \in 1..k /\ i \in 0..k /\ i - 1 \in 0..k
        BY <1>2, <3>2
      <4>2. h[i] = f[i] /\ h[i - 1] = f[i - 1]
        BY <2>4, <4>1
      <4> QED
        BY <2>1, <4>1, <4>2 DEF Iterates
    <3> QED
      BY <3>1, <3>2
  <2>6. h[0] = a
    <3>1. 0 \in 0..k
      OBVIOUS
    <3> QED
      BY <2>1, <2>4, <3>1 DEF Iterates
  <2>7. Iterates(h, m, a, step)
    BY <2>5, <2>6 DEF Iterates
  <2> QED
    BY <2>3, <2>7
<1> HIDE DEF T
<1>3. \A k \in 0..n : k \in T
  BY <1>1, <1>2, CountUp
<1>4. n \in T
  BY <1>3
<1> QED
  BY <1>4 DEF T

-----------------------------------------------------------------------------
(* ImportCache: objects are loaded once, and lookups get on.               *)

CachedItems == DOMAIN Parents
UnderLock == {"locked", "import", "loaded"}
PastParent == {"lock", "wait"} \cup UnderLock

\* A lookup goes from an item to its parent, and ends with the first item.
ChainOf(items) ==
    \A k \in 1..(Len(items) - 1) : items[k + 1] = Parents[items[k]]

\* ImportTypeOK, and the kinds of what it does not mention.
ImportTyped ==
    /\ ImportTypeOK
    /\ allObjects \in Seq(CachedItems)
    /\ found \in [Threads -> (CachedItems \cup {TopLevel}) \X Nat]

\* Thread t's lookup: what it is looking up, whether it has the lock, that a parent is
\* there when its child is imported ("load it before locking"), and that nothing is
\* imported which is there already.
LookupInOrder(t) ==
    /\ Looking(t, "idle") <=> lookup[t].items = <<>>
    /\ ChainOf(lookup[t].items)
    /\ lookup[t].at \in UnderLock <=> loadMutex = t
    /\ lookup[t].at \in PastParent => Parents[Item(t)] \in loaded \cup {TopLevel}
    /\ lookup[t].at \in {"import", "loaded"} => Item(t) \notin loaded

LookupsInOrder == \A t \in Threads : LookupInOrder(t)

\* Item i refers to the object that was made for it.
RefersToOwn(i) == object[i] \in 1..Len(allObjects) /\ allObjects[object[i]] = i

\* That is so once its flag is set, or about to be.
ObjectsInPlace ==
    /\ \A i \in loaded : RefersToOwn(i)
    /\ \A t \in Threads : Looking(t, "loaded") => RefersToOwn(Item(t))

\* An object is that of a loaded item, or of the one whose flag is about to be set.
ObjectsHaveItems ==
    \A n \in 1..Len(allObjects) :
        \/ allObjects[n] \in loaded
        \/ \E t \in Threads : Looking(t, "loaded") /\ Item(t) = allObjects[n]

MadeOnce == \A m, n \in 1..Len(allObjects) : allObjects[m] = allObjects[n] => m = n

FoundOwn ==
    \A t \in Threads : found[t][1] # TopLevel =>
        found[t][2] \in 1..Len(allObjects) /\ allObjects[found[t][2]] = found[t][1]

\* Nobody waits for the lock with the GIL in hand.
WaitsWithoutGil == \A t \in Threads : Looking(t, "wait") => gil # t

ImportInv ==
    /\ ImportTyped
    /\ WaitsWithoutGil
    /\ LookupsInOrder
    /\ ObjectsInPlace
    /\ ObjectsHaveItems
    /\ MadeOnce
    /\ FoundOwn

-----------------------------------------------------------------------------
(* What steps change.                                                      *)

LookupPlaces == {"idle", "find"} \cup PastParent
AllLookupPlaces == {"idle", "find", "lock", "wait", "locked", "import", "loaded"}
LookupRecords == [at : LookupPlaces, items : Seq(CachedItems)]

LEMMA RecordsAre == LookupRecords = [at : AllLookupPlaces, items : Seq(DOMAIN Parents)]
BY DEF LookupRecords, AllLookupPlaces, LookupPlaces, PastParent, UnderLock, CachedItems

\* Where a thread is, and what it is looking up.
LEMMA LookupsAre ==
    ASSUME ImportTyped
    PROVE  lookup \in [Threads -> LookupRecords]
BY RecordsAre DEF ImportTyped, ImportTypeOK, AllLookupPlaces

\* The item that a thread is looking up.
LEMMA ItemIsThere ==
    ASSUME ImportTyped, NEW t \in Threads, LookupInOrder(t), ~Looking(t, "idle")
    PROVE  /\ lookup[t].items # <<>> /\ lookup[t].items \in Seq(CachedItems)
           /\ Len(lookup[t].items) \in Nat \ {0}
           /\ Item(t) = lookup[t].items[Len(lookup[t].items)]
           /\ Item(t) \in CachedItems /\ Item(t) # TopLevel
<1>1. lookup[t].items # <<>> /\ lookup[t].items \in Seq(CachedItems)
  BY LookupsAre DEF LookupInOrder, LookupRecords
<1>2. Len(lookup[t].items) \in Nat \ {0}
  BY <1>1, EmptySeq
<1>3. Item(t) \in CachedItems
  BY <1>1, <1>2 DEF Item, Last
<1> QED
  BY <1>1, <1>2, <1>3, ImportCacheAssumption DEF Item, Last, CachedItems

OthersStay(t) == \A u \in Threads \ {t} : lookup'[u] = lookup[u]

\* A step of t disturbs no other lookup: the lock is t's own or free, and a flag is set
\* under the lock.
LEMMA OthersKeep ==
    ASSUME ImportTyped, LookupsInOrder, NEW t \in Threads, OthersStay(t),
           loadMutex' = loadMutex \/ {loadMutex, loadMutex'} \subseteq {t, Nobody},
           loaded \subseteq loaded',
           loaded' = loaded \/ loadMutex = t
    PROVE  \A u \in Threads \ {t} : LookupInOrder(u)'
<1> SUFFICES ASSUME NEW u \in Threads \ {t}
             PROVE  LookupInOrder(u)'
  OBVIOUS
<1>1. lookup'[u] = lookup[u] /\ LookupInOrder(u)
  BY DEF OthersStay, LookupsInOrder
<1>2. u # Nobody
  BY ImportCacheAssumption DEF Nobody
<1>3. loadMutex' = u <=> loadMutex = u
  BY <1>2
<1>4. lookup[u].at \in {"import", "loaded"} => loaded' = loaded
  BY <1>1 DEF LookupInOrder, UnderLock
<1> QED
  BY <1>1, <1>3, <1>4 DEF LookupInOrder, Looking, Item

\* What is there stays in place while no object is added and no flag is set.
LEMMA ObjectsStay ==
    ASSUME ObjectsInPlace, ObjectsHaveItems, MadeOnce, NEW t \in Threads, OthersStay(t),
           ~Looking(t, "loaded"), lookup'[t].at # "loaded",
           UNCHANGED <<loaded, object, allObjects>>
    PROVE  ObjectsInPlace' /\ ObjectsHaveItems' /\ MadeOnce'
<1>1. \A u \in Threads : /\ Looking(u, "loaded")' <=> Looking(u, "loaded")
                         /\ Looking(u, "loaded") => Item(u)' = Item(u)
  BY DEF OthersStay, Looking, Item
<1>2. ObjectsInPlace'
  BY <1>1 DEF ObjectsInPlace, RefersToOwn
<1>3. ObjectsHaveItems'
  BY <1>1 DEF ObjectsHaveItems
<1> QED
  BY <1>2, <1>3 DEF MadeOnce

\* Nothing but t's place changes.
LEMMA MoveChanges ==
    ASSUME ImportTyped, NEW t \in Threads, NEW place \in LookupPlaces, Move(t, place)
    PROVE  /\ lookup' \in [Threads -> LookupRecords] /\ OthersStay(t)
           /\ lookup'[t].at = place /\ lookup'[t].items = lookup[t].items
           /\ Item(t)' = Item(t)
<1>1. lookup \in [Threads -> LookupRecords]
  BY LookupsAre
<1>2. lookup'[t].at = place /\ lookup'[t].items = lookup[t].items
  BY <1>1 DEF Move, LookupRecords
<1>3. lookup' \in [Threads -> LookupRecords] /\ OthersStay(t)
  BY <1>1 DEF Move, LookupRecords, OthersStay
<1> QED
  BY <1>2, <1>3 DEF Item

\* The lookup that ends was the only one, or that of the parent of the one before it.
LEMMA AnswerChanges ==
    ASSUME ImportTyped, NEW t \in Threads, LookupInOrder(t), ~Looking(t, "idle"), Answered(t)
    PROVE  /\ lookup' \in [Threads -> LookupRecords] /\ OthersStay(t)
           /\ \/ lookup'[t].at = "idle" /\ lookup'[t].items = <<>>
              \/ /\ lookup'[t].at = "lock" /\ lookup'[t].items # <<>>
                 /\ Parents[Item(t)'] = Item(t)
           /\ ChainOf(lookup'[t].items)
<1>1. lookup \in [Threads -> LookupRecords]
  BY LookupsAre
<1> DEFINE items == lookup[t].items
<1>2. items # <<>> /\ items \in Seq(CachedItems) /\ Len(items) \in Nat \ {0} /\ Item(t) = items[Len(items)]
  BY ItemIsThere
<1>3. /\ Front(items) \in Seq(CachedItems) /\ Len(Front(items)) = Len(items) - 1
      /\ \A k \in 1..(Len(items) - 1) : Front(items)[k] = items[k]
      /\ Front(items) # <<>> => Last(Front(items)) = items[Len(items) - 1]
  BY <1>2, FrontEntries
<1>4. CASE Len(items) = 1
  <2>1. lookup' = [lookup EXCEPT ![t] = AtRest]
    BY <1>4 DEF Answered
  <2>2. lookup'[t] = AtRest /\ OthersStay(t)
    BY <1>1, <2>1 DEF OthersStay
  <2>3. AtRest \in LookupRecords /\ AtRest.items = <<>> /\ AtRest.at = "idle"
    BY DEF AtRest, LookupRecords, LookupPlaces
  <2>4. ChainOf(lookup'[t].items)
    BY <2>2, <2>3 DEF ChainOf
  <2> QED
    BY <1>1, <2>1, <2>2, <2>3, <2>4
<1>5. CASE Len(items) # 1
  <2> DEFINE next == [at |-> "lock", items |-> Front(items)]
  <2>1. lookup' = [lookup EXCEPT ![t] = next]
    BY <1>5 DEF Answered
  <2>2. lookup'[t] = next /\ OthersStay(t)
    BY <1>1, <2>1 DEF OthersStay
  <2>3. next \in LookupRecords
    BY <1>3 DEF LookupRecords, LookupPlaces, PastParent
  <2>4. /\ Front(items) # <<>> /\ Len(items) - 1 \in 1..(Len(items) - 1)
        /\ Len(items) - 1 + 1 = Len(items)
    BY <1>2, <1>5, FrontOfLonger
  <2>5. ChainOf(Front(items))
    <3>1. ChainOf(items)
      BY DEF LookupInOrder
    <3>2. \A k \in 1..(Len(Front(items)) - 1) :
            /\ k \in 1..(Len(items) - 1)
            /\ Front(items)[k] = items[k] /\ Front(items)[k + 1] = items[k + 1]
      BY <1>2, <1>3
    <3> QED
      BY <3>1, <3>2 DEF ChainOf
  <2>6. Item(t)' = items[Len(items) - 1]
    BY <1>3, <2>2, <2>4 DEF Item
  <2>7. items[Len(items) - 1 + 1] = Parents[items[Len(items) - 1]]
    BY <2>4 DEF LookupInOrder, ChainOf
  <2>8. Parents[Item(t)'] = Item(t)
    BY <1>2, <2>4, <2>6, <2>7
  <2> QED
    BY <1>1, <2>1, <2>2, <2>3, <2>4, <2>5, <2>8
<1> QED
  BY <1>4, <1>5

\* What a lookup returns is the object made for the item.
LEMMA AnswerFinds ==
    ASSUME ImportTyped, NEW t \in Threads, LookupInOrder(t), ~Looking(t, "idle"), Answered(t),
           RefersToOwn(Item(t)), FoundOwn, UNCHANGED <<object, allObjects>>
    PROVE  FoundOwn' /\ found' \in [Threads -> (CachedItems \cup {TopLevel}) \X Nat]
<1>1. Item(t) \in CachedItems
  BY ItemIsThere
<1>2. object[Item(t)] \in 1..Len(allObjects) /\ allObjects[object[Item(t)]] = Item(t)
  BY DEF RefersToOwn
<1>3. Len(allObjects) \in Nat /\ object[Item(t)] \in Nat
  BY <1>2 DEF ImportTyped
<1>4. /\ found'[t] = <<Item(t), object[Item(t)]>>
      /\ \A u \in Threads \ {t} : found'[u] = found[u]
      /\ found' \in [Threads -> (CachedItems \cup {TopLevel}) \X Nat]
  BY <1>1, <1>3 DEF Answered, ImportTyped
<1> QED
  BY <1>2, <1>4 DEF FoundOwn

\* Who waits for the lock has let go of the GIL, and nobody gives it back.
LEMMA GilKept ==
    ASSUME WaitsWithoutGil, NEW t \in Threads, OthersStay(t), gil' \in {gil, Nobody},
           lookup'[t].at = "wait" => gil' # t
    PROVE  WaitsWithoutGil'
<1> SUFFICES ASSUME NEW u \in Threads, lookup'[u].at = "wait"
             PROVE  gil' # u
  BY DEF WaitsWithoutGil, Looking
<1>1. u # Nobody
  BY ImportCacheAssumption DEF Nobody
<1>2. CASE u = t
  BY <1>2
<1>3. CASE u # t
  BY <1>1, <1>3 DEF WaitsWithoutGil, Looking, OthersStay
<1> QED
  BY <1>2, <1>3

-----------------------------------------------------------------------------
(* The invariant.                                                          *)

\* It holds before the first lookup.
LEMMA InitImportInv == ImportInit => ImportInv
<1> SUFFICES ASSUME ImportInit
             PROVE  ImportInv
  OBVIOUS
<1>1. /\ allObjects = <<>> /\ <<>> \in Seq(CachedItems) /\ Len(allObjects) = 0 /\ loaded = {}
      /\ object = [i \in CachedItems |-> 0] /\ gil = Nobody /\ loadMutex = Nobody
      /\ \A t \in Threads : /\ lookup[t] = AtRest
                            /\ found[t] = <<TopLevel, 0>> /\ found[t][1] = TopLevel
  BY DEF ImportInit, NoObject, CachedItems
<1>2. AtRest.at = "idle" /\ AtRest.items = <<>> /\ <<>> \in Seq(CachedItems) /\ Len(AtRest.items) = 0
      /\ AtRest \in [at : {"idle", "find", "lock", "wait", "locked", "import", "loaded"},
                     items : Seq(CachedItems)]
  BY DEF AtRest
<1>3. ImportTyped
  BY <1>1, <1>2 DEF ImportInit, ImportTyped, ImportTypeOK, NoObject, CachedItems
<1>4. ASSUME NEW t \in Threads
      PROVE  LookupInOrder(t)
  <2>1. lookup[t].at = "idle" /\ lookup[t].items = <<>> /\ loadMutex # t
    BY <1>1, <1>2, ImportCacheAssumption DEF Nobody
  <2>2. ChainOf(lookup[t].items)
    BY <1>1, <1>2 DEF ChainOf
  <2> QED
    BY <2>1, <2>2 DEF LookupInOrder, Looking, UnderLock, PastParent
<1>5. ObjectsInPlace /\ ObjectsHaveItems /\ MadeOnce /\ FoundOwn /\ WaitsWithoutGil
  BY <1>1, <1>2 DEF ObjectsInPlace, ObjectsHaveItems, MadeOnce, FoundOwn, Looking, WaitsWithoutGil
<1> QED
  BY <1>3, <1>4, <1>5 DEF ImportInv, LookupsInOrder

\* What the lookup of t has to satisfy after a step that adds no object and sets no flag.
LEMMA LookupStep ==
    ASSUME ImportInv, NEW t \in Threads, OthersStay(t), lookup' \in [Threads -> LookupRecords],
           ~Looking(t, "loaded"), lookup'[t].at # "loaded",
           UNCHANGED <<loaded, object, allObjects, found>>,
           loadMutex' = loadMutex \/ {loadMutex, loadMutex'} \subseteq {t, Nobody},
           gil' \in {gil, Nobody}, lookup'[t].at = "wait" => gil' # t,
           LookupInOrder(t)'
    PROVE  ImportInv'
<1>1. ImportTyped'
  <2>1. lookup' \in [Threads -> [at : AllLookupPlaces, items : Seq(DOMAIN Parents)]]
    BY RecordsAre
  <2> QED
    BY <2>1 DEF AllLookupPlaces, ImportInv, ImportTyped, ImportTypeOK
<1>2. LookupsInOrder'
  BY OthersKeep DEF ImportInv, LookupsInOrder
<1>3. ObjectsInPlace' /\ ObjectsHaveItems' /\ MadeOnce'
  BY ObjectsStay DEF ImportInv
<1>4. FoundOwn'
  BY DEF ImportInv, FoundOwn
<1>5. WaitsWithoutGil'
  BY GilKept DEF ImportInv
<1> QED
  BY <1>1, <1>2, <1>3, <1>4, <1>5 DEF ImportInv

\* An answer from the cache or after the wait for the lock.
LEMMA AnswerStep ==
    ASSUME ImportInv, NEW t \in Threads, Answered(t), Item(t) \in loaded,
           Looking(t, "find") \/ Looking(t, "locked"),
           UNCHANGED <<loaded, object, allObjects>>,
           IF Looking(t, "locked") THEN loadMutex' = Nobody ELSE loadMutex' = loadMutex,
           UNCHANGED gil
    PROVE  ImportInv'
<1>0. /\ ~Looking(t, "loaded") /\ ~Looking(t, "idle") /\ LookupInOrder(t) /\ t # Nobody
      /\ ImportTyped /\ RefersToOwn(Item(t)) /\ FoundOwn
      /\ Looking(t, "locked") => loadMutex = t
      /\ Looking(t, "find") => loadMutex # t
  BY ImportCacheAssumption
     DEF ImportInv, LookupsInOrder, LookupInOrder, ObjectsInPlace, Looking, Nobody, UnderLock
<1>1. /\ lookup' \in [Threads -> LookupRecords] /\ OthersStay(t)
      /\ \/ lookup'[t].at = "idle" /\ lookup'[t].items = <<>>
         \/ /\ lookup'[t].at = "lock" /\ lookup'[t].items # <<>>
            /\ Parents[Item(t)'] = Item(t)
      /\ ChainOf(lookup'[t].items)
  BY <1>0, AnswerChanges
<1>2. FoundOwn' /\ found' \in [Threads -> (CachedItems \cup {TopLevel}) \X Nat]
  BY <1>0, AnswerFinds
<1>3. ImportTyped'
  <2>1. lookup' \in [Threads -> [at : AllLookupPlaces, items : Seq(DOMAIN Parents)]]
    BY <1>1, RecordsAre
  <2>2. loadMutex' \in Threads \cup {Nobody} /\ gil' \in Threads \cup {Nobody}
    BY DEF ImportInv, ImportTyped, ImportTypeOK
  <2> QED
    BY <1>2, <2>1, <2>2 DEF AllLookupPlaces, ImportInv, ImportTyped, ImportTypeOK
<1>4. loadMutex' # t /\ (loadMutex' = loadMutex \/ {loadMutex, loadMutex'} \subseteq {t, Nobody})
  BY <1>0
<1>5. LookupInOrder(t)'
  BY <1>1, <1>4 DEF LookupInOrder, Looking, UnderLock, PastParent
<1>6. LookupsInOrder'
  BY <1>1, <1>4, <1>5, OthersKeep DEF ImportInv, LookupsInOrder
<1>7. ObjectsInPlace' /\ ObjectsHaveItems' /\ MadeOnce'
  <2>1. lookup'[t].at # "loaded"
    BY <1>1
  <2> QED
    BY <1>0, <1>1, <2>1, ObjectsStay DEF ImportInv
<1>8. WaitsWithoutGil'
  BY <1>1, GilKept DEF ImportInv
<1> QED
  BY <1>2, <1>3, <1>6, <1>7, <1>8 DEF ImportInv

\* The object of an import is the first of its item: nobody else has had the lock since
\* the item was seen to be missing.
LEMMA AddToCacheStep ==
    ASSUME ImportInv, NEW t \in Threads, AddToCache(t)
    PROVE  ImportInv'
<1>0. /\ lookup[t].at = "import" /\ LookupInOrder(t) /\ ~Looking(t, "idle") /\ ImportTyped
      /\ loadMutex = t /\ Item(t) \notin loaded /\ Move(t, "loaded")
      /\ UNCHANGED <<freeThreaded, gil, loadMutex, loaded, found, failures>>
  BY DEF AddToCache, ImportInv, LookupsInOrder, LookupInOrder, Looking, UnderLock
<1>1. Item(t) \in CachedItems /\ lookup[t].items # <<>>
  BY <1>0, ItemIsThere
<1>2. /\ lookup' \in [Threads -> LookupRecords] /\ OthersStay(t)
      /\ lookup'[t].at = "loaded" /\ lookup'[t].items = lookup[t].items
      /\ Item(t)' = Item(t)
  BY <1>0, MoveChanges DEF LookupPlaces, PastParent, UnderLock
<1>3. PICK n \in Nat : n = Len(allObjects)
  BY <1>0 DEF ImportTyped
<1>4. /\ allObjects' \in Seq(CachedItems) /\ Len(allObjects') = n + 1 /\ allObjects'[n + 1] = Item(t)
      /\ \A k \in 1..n : allObjects'[k] = allObjects[k]
      /\ object' = [object EXCEPT ![Item(t)] = n + 1]
  <2>1. allObjects \in Seq(CachedItems) /\ allObjects' = Append(allObjects, Item(t))
        /\ object' = [object EXCEPT ![Item(t)] = Len(allObjects')]
    BY <1>0 DEF AddToCache, ImportTyped
  <2> QED
    BY <1>1, <1>3, <2>1, AppendEntries
<1>5. /\ object'[Item(t)] = n + 1 /\ \A i \in CachedItems \ {Item(t)} : object'[i] = object[i]
      /\ object \in [CachedItems -> 0..n] /\ object' \in [CachedItems -> 0..(n + 1)]
  <2>1. object \in [CachedItems -> 0..n]
    BY <1>0, <1>3 DEF ImportTyped, ImportTypeOK, CachedItems
  <2>2. 0..n \subseteq 0..(n + 1) /\ n + 1 \in 0..(n + 1)
    BY <1>3
  <2> QED
    BY <1>1, <1>4, <2>1, <2>2
<1>6. ImportTyped'
  <2>1. lookup' \in [Threads -> [at : AllLookupPlaces, items : Seq(DOMAIN Parents)]]
    BY <1>2, RecordsAre
  <2> QED
    BY <1>0, <1>4, <1>5, <2>1 DEF AllLookupPlaces, ImportTyped, ImportTypeOK, CachedItems
<1>7. LookupsInOrder'
  <2>1. LookupInOrder(t)'
    BY <1>0, <1>1, <1>2 DEF LookupInOrder, Looking, UnderLock, PastParent
  <2> QED
    BY <1>0, <1>2, <2>1, OthersKeep DEF ImportInv, LookupsInOrder
<1>8. \A u \in Threads : Looking(u, "loaded")' => u = t
  <2>1. \A u \in Threads \ {t} : ~Looking(u, "loaded")
    BY <1>0 DEF ImportInv, LookupsInOrder, LookupInOrder, Looking, UnderLock
  <2> QED
    BY <1>2, <2>1 DEF OthersStay, Looking
<1>9. \A u \in Threads : ~Looking(u, "loaded")
  BY <1>0, <1>2, <1>8 DEF OthersStay, Looking
<1>10. \A k \in 1..n : allObjects[k] \in loaded /\ allObjects[k] # Item(t)
  BY <1>0, <1>3, <1>9 DEF ImportInv, ObjectsHaveItems
<1>11. 1..Len(allObjects') = 1..n \cup {n + 1}
  BY <1>3, <1>4
<1>12. ObjectsInPlace'
  <2>1. ASSUME NEW i \in loaded
        PROVE  RefersToOwn(i)'
    <3>1. object[i] \in 1..n /\ allObjects[object[i]] = i
      BY <1>3 DEF ImportInv, ObjectsInPlace, RefersToOwn
    <3>2. object'[i] = object[i]
      BY <1>0, <1>5 DEF ImportTyped, ImportTypeOK, CachedItems
    <3> QED
      BY <1>4, <1>11, <3>1, <3>2 DEF RefersToOwn
  <2>2. RefersToOwn(Item(t))'
    BY <1>2, <1>4, <1>5, <1>11 DEF RefersToOwn
  <2> QED
    BY <1>0, <1>2, <1>8, <2>1, <2>2 DEF ObjectsInPlace, RefersToOwn
<1>13. ObjectsHaveItems'
  BY <1>0, <1>2, <1>4, <1>10, <1>11 DEF ObjectsHaveItems, Looking
<1>14. MadeOnce'
  BY <1>3, <1>4, <1>10, <1>11 DEF ImportInv, MadeOnce
<1>15. FoundOwn'
  BY <1>0, <1>3, <1>4, <1>11 DEF ImportInv, FoundOwn
<1>16. WaitsWithoutGil'
  BY <1>0, <1>2, GilKept DEF ImportInv
<1> QED
  BY <1>6, <1>7, <1>12, <1>13, <1>14, <1>15, <1>16 DEF ImportInv

\* The flag is set under the lock, when the item refers to its object.
LEMMA SetLoadedStep ==
    ASSUME ImportInv, NEW t \in Threads, SetLoaded(t)
    PROVE  ImportInv'
<1>0. /\ lookup[t].at = "loaded" /\ LookupInOrder(t) /\ ~Looking(t, "idle") /\ ImportTyped
      /\ loadMutex = t /\ t # Nobody /\ loadMutex' = Nobody /\ RefersToOwn(Item(t))
      /\ Answered(t) /\ loaded' = loaded \cup {Item(t)}
      /\ UNCHANGED <<freeThreaded, gil, object, allObjects, failures>>
  BY ImportCacheAssumption
     DEF SetLoaded, ImportInv, LookupsInOrder, LookupInOrder, Looking, UnderLock, ObjectsInPlace, Nobody
<1>1. Item(t) \in CachedItems
  BY <1>0, ItemIsThere
<1>2. /\ lookup' \in [Threads -> LookupRecords] /\ OthersStay(t)
      /\ \/ lookup'[t].at = "idle" /\ lookup'[t].items = <<>>
         \/ /\ lookup'[t].at = "lock" /\ lookup'[t].items # <<>>
            /\ Parents[Item(t)'] = Item(t)
      /\ ChainOf(lookup'[t].items)
  BY <1>0, AnswerChanges
<1>3. FoundOwn' /\ found' \in [Threads -> (CachedItems \cup {TopLevel}) \X Nat]
  BY <1>0, AnswerFinds DEF ImportInv
<1>4. ImportTyped'
  <2>1. lookup' \in [Threads -> [at : AllLookupPlaces, items : Seq(DOMAIN Parents)]]
    BY <1>2, RecordsAre
  <2> QED
    BY <1>0, <1>1, <1>3, <2>1 DEF AllLookupPlaces, ImportTyped, ImportTypeOK, CachedItems
<1>5. LookupsInOrder'
  <2>1. LookupInOrder(t)'
    BY <1>0, <1>2 DEF LookupInOrder, Looking, UnderLock, PastParent
  <2>2. \A u \in Threads \ {t} : LookupInOrder(u)'
    BY <1>0, <1>2, OthersKeep DEF ImportInv
  <2> QED
    BY <2>1, <2>2 DEF LookupsInOrder
<1>6. \A u \in Threads : ~Looking(u, "loaded")'
  <2>1. \A u \in Threads \ {t} : ~Looking(u, "loaded")
    BY <1>0 DEF ImportInv, LookupsInOrder, LookupInOrder, Looking, UnderLock
  <2> QED
    BY <1>2, <2>1 DEF OthersStay, Looking
<1>7. ObjectsInPlace'
  BY <1>0, <1>6 DEF ImportInv, ObjectsInPlace, RefersToOwn
<1>8. ObjectsHaveItems'
  <2>1. \A u \in Threads : Looking(u, "loaded") => u = t
    BY <1>0 DEF ImportInv, LookupsInOrder, LookupInOrder, Looking, UnderLock
  <2> QED
    BY <1>0, <2>1 DEF ImportInv, ObjectsHaveItems
<1>9. MadeOnce'
  BY <1>0 DEF ImportInv, MadeOnce
<1>10. WaitsWithoutGil'
  BY <1>0, <1>2, GilKept DEF ImportInv
<1> QED
  BY <1>3, <1>4, <1>5, <1>7, <1>8, <1>9, <1>10 DEF ImportInv

\* The next item to look up is the parent of the last one.
LEMMA FindParentStep ==
    ASSUME ImportInv, NEW t \in Threads, FindParent(t)
    PROVE  ImportInv'
<1>0. /\ lookup[t].at = "find" /\ ~Looking(t, "idle") /\ ~Looking(t, "loaded")
      /\ ImportTyped /\ LookupInOrder(t) /\ loadMutex # t
      /\ UNCHANGED <<freeThreaded, gil, loadMutex, loaded, object, allObjects, found, failures>>
  BY DEF FindParent, ImportInv, LookupsInOrder, LookupInOrder, Looking, UnderLock
<1> DEFINE items == lookup[t].items
<1>1. /\ items # <<>> /\ items \in Seq(CachedItems) /\ Len(items) \in Nat \ {0}
      /\ Item(t) = items[Len(items)] /\ Item(t) \in CachedItems
  BY <1>0, ItemIsThere
<1>2. lookup \in [Threads -> LookupRecords]
  BY <1>0, LookupsAre
<1>3. CASE Parents[Item(t)] = TopLevel
  <2>1. lookup' = [lookup EXCEPT ![t] = [at |-> "lock", items |-> items]]
    BY <1>3 DEF FindParent
  <2>2. /\ lookup' \in [Threads -> LookupRecords] /\ OthersStay(t)
        /\ lookup'[t].at = "lock" /\ lookup'[t].items = lookup[t].items
        /\ Item(t)' = Item(t)
    BY <1>1, <1>2, <2>1 DEF LookupRecords, OthersStay, LookupPlaces, PastParent, Item
  <2>3. LookupInOrder(t)'
    BY <1>0, <1>1, <1>3, <2>2 DEF LookupInOrder, Looking, UnderLock, PastParent
  <2> QED
    BY <1>0, <2>2, <2>3, LookupStep DEF ImportInv, ImportTyped, ImportTypeOK
<1>4. CASE Parents[Item(t)] # TopLevel
  <2>1. Parents[Item(t)] \in CachedItems
    BY <1>1, <1>4, ImportCacheAssumption DEF CachedItems
  <2> DEFINE longer == Append(items, Parents[Item(t)])
  <2>2. /\ longer \in Seq(CachedItems) /\ Len(longer) = Len(items) + 1
        /\ longer[Len(items) + 1] = Parents[Item(t)]
        /\ \A k \in 1..Len(items) : longer[k] = items[k]
    BY <1>1, <2>1, AppendEntries
  <2>3. lookup' = [lookup EXCEPT ![t] = [at |-> "find", items |-> longer]]
    BY <1>4 DEF FindParent
  <2>4. /\ lookup'[t].at = "find" /\ lookup'[t].items = longer
        /\ lookup' \in [Threads -> LookupRecords] /\ OthersStay(t)
    BY <1>0, <1>2, <2>2, <2>3 DEF LookupRecords, OthersStay
  <2>5. longer # <<>>
    BY <1>1, <2>1
  <2>6. ChainOf(longer)
    <3>1. PICK n \in Nat : n = Len(items) /\ n # 0
      BY <1>1
    <3>2. ASSUME NEW k \in 1..n
          PROVE  longer[k + 1] = Parents[longer[k]]
      <4>1. CASE k = n
        BY <1>1, <2>2, <3>1, <4>1
      <4>2. CASE k # n
        <5>1. k \in 1..(n - 1) /\ k + 1 \in 1..n
          BY <3>1, <4>2
        <5>2. items[k + 1] = Parents[items[k]]
          BY <1>0, <3>1, <5>1 DEF LookupInOrder, ChainOf
        <5> QED
          BY <2>2, <3>1, <5>1, <5>2
      <4> QED
        BY <4>1, <4>2
    <3>3. Len(longer) - 1 = n
      BY <2>2, <3>1
    <3> QED
      BY <3>2, <3>3 DEF ChainOf
  <2>7. LookupInOrder(t)'
    BY <1>0, <2>4, <2>5, <2>6 DEF LookupInOrder, Looking, UnderLock, PastParent
  <2> QED
    BY <1>0, <2>4, <2>7, LookupStep DEF ImportInv, ImportTyped, ImportTypeOK
<1> QED
  BY <1>3, <1>4

\* Every step of the specification preserves it.
LEMMA StepImportInv == ImportInv /\ [ImportNext]_importVars => ImportInv'
<1> SUFFICES ASSUME ImportInv, [ImportNext]_importVars
             PROVE  ImportInv'
  OBVIOUS
<1>0. /\ ImportTyped /\ \A t \in Threads : LookupInOrder(t) /\ t # Nobody
      /\ gil \in Threads \cup {Nobody} /\ loadMutex \in Threads \cup {Nobody}
      /\ lookup \in [Threads -> LookupRecords]
  BY LookupsAre, ImportCacheAssumption DEF ImportInv, ImportTyped, ImportTypeOK, LookupsInOrder, Nobody
<1>1. ASSUME NEW t \in Threads, TakeGil(t) \/ PassGil(t)
      PROVE  ImportInv'
  <2>1. /\ UNCHANGED <<loadMutex, loaded, object, allObjects, lookup, found>>
        /\ gil' \in Threads \cup {Nobody}
    BY <1>1 DEF TakeGil, PassGil
  <2>2. ImportTyped'
    BY <1>0, <2>1 DEF ImportTyped, ImportTypeOK
  <2>3. WaitsWithoutGil'
    BY <1>0, <1>1, <2>1 DEF TakeGil, PassGil, ImportInv, WaitsWithoutGil, Looking
  <2> QED
    BY <2>1, <2>2, <2>3 DEF ImportInv, LookupsInOrder, LookupInOrder, ObjectsInPlace, RefersToOwn,
       ObjectsHaveItems, MadeOnce, FoundOwn, Looking, Item
<1>2. ASSUME NEW t \in Threads, NEW i \in CachedItems, LookUpItem(t, i)
      PROVE  ImportInv'
  <2> DEFINE first == [at |-> "find", items |-> <<i>>]
  <2>1. /\ lookup[t].at = "idle" /\ lookup' = [lookup EXCEPT ![t] = first]
        /\ UNCHANGED <<gil, loadMutex, loaded, object, allObjects, found>>
    BY <1>2 DEF LookUpItem, Looking
  <2>2. first \in LookupRecords /\ <<i>> # <<>>
    BY DEF LookupRecords, LookupPlaces
  <2>3. /\ lookup' \in [Threads -> LookupRecords] /\ OthersStay(t)
        /\ lookup'[t].at = "find" /\ lookup'[t].items = <<i>>
    BY <1>0, <2>1, <2>2 DEF OthersStay
  <2>4. ChainOf(<<i>>)
    BY DEF ChainOf
  <2>5. LookupInOrder(t)'
    BY <1>0, <2>1, <2>2, <2>3, <2>4 DEF LookupInOrder, Looking, UnderLock, PastParent
  <2> QED
    BY <1>0, <2>1, <2>3, <2>5, LookupStep DEF Looking
<1>3. ASSUME NEW t \in Threads, FindLoaded(t)
      PROVE  ImportInv'
  BY <1>3, AnswerStep DEF FindLoaded, Looking
<1>4. ASSUME NEW t \in Threads, FindParent(t)
      PROVE  ImportInv'
  BY <1>4, FindParentStep
<1>5. ASSUME NEW t \in Threads, ReleaseGil(t)
      PROVE  ImportInv'
  <2>1. /\ lookup[t].at = "lock" /\ Move(t, "wait") /\ gil' \in {gil, Nobody} /\ gil' # t
        /\ UNCHANGED <<loadMutex, loaded, object, allObjects, found>>
    BY <1>0, <1>5 DEF ReleaseGil, Looking
  <2>2. /\ lookup' \in [Threads -> LookupRecords] /\ OthersStay(t)
        /\ lookup'[t].at = "wait" /\ lookup'[t].items = lookup[t].items
        /\ Item(t)' = Item(t)
    BY <1>0, <2>1, MoveChanges DEF LookupPlaces, PastParent
  <2>3. LookupInOrder(t)'
    BY <1>0, <2>1, <2>2 DEF LookupInOrder, Looking, UnderLock, PastParent
  <2> QED
    BY <2>1, <2>2, <2>3, LookupStep DEF Looking
<1>6. ASSUME NEW t \in Threads, TakeLoadMutex(t)
      PROVE  ImportInv'
  <2>1. /\ lookup[t].at = "wait" /\ Move(t, "locked") /\ gil' = gil
        /\ loadMutex = Nobody /\ loadMutex' = t
        /\ UNCHANGED <<loaded, object, allObjects, found>>
    BY <1>6 DEF TakeLoadMutex, Looking
  <2>2. /\ lookup' \in [Threads -> LookupRecords] /\ OthersStay(t)
        /\ lookup'[t].at = "locked" /\ lookup'[t].items = lookup[t].items
        /\ Item(t)' = Item(t)
    BY <1>0, <2>1, MoveChanges DEF LookupPlaces, PastParent, UnderLock
  <2>3. LookupInOrder(t)'
    BY <1>0, <2>1, <2>2 DEF LookupInOrder, Looking, UnderLock, PastParent
  <2> QED
    BY <1>0, <2>1, <2>2, <2>3, LookupStep DEF Looking
<1>7. ASSUME NEW t \in Threads, CheckLoaded(t)
      PROVE  ImportInv'
  <2>1. CASE Item(t) \in loaded
    BY <1>7, <2>1, AnswerStep DEF CheckLoaded
  <2>2. CASE Item(t) \notin loaded
    <3>1. /\ lookup[t].at = "locked" /\ Move(t, "import") /\ gil' = gil
          /\ UNCHANGED <<loadMutex, loaded, object, allObjects, found>>
      BY <1>7, <2>2 DEF CheckLoaded, Looking
    <3>2. /\ lookup' \in [Threads -> LookupRecords] /\ OthersStay(t)
          /\ lookup'[t].at = "import" /\ lookup'[t].items = lookup[t].items
          /\ Item(t)' = Item(t)
      BY <1>0, <3>1, MoveChanges DEF LookupPlaces, PastParent, UnderLock
    <3>3. LookupInOrder(t)'
      BY <1>0, <2>2, <3>1, <3>2 DEF LookupInOrder, Looking, UnderLock, PastParent
    <3> QED
      BY <1>0, <3>1, <3>2, <3>3, LookupStep DEF Looking
  <2> QED
    BY <2>1, <2>2
<1>8. ASSUME NEW t \in Threads, AddToCache(t)
      PROVE  ImportInv'
  BY <1>8, AddToCacheStep
<1>9. ASSUME NEW t \in Threads, SetLoaded(t)
      PROVE  ImportInv'
  BY <1>9, SetLoadedStep
<1>10. ASSUME NEW t \in Threads, ImportFails(t)
       PROVE  ImportInv'
  <2>1. /\ lookup[t].at = "import" /\ lookup' = [lookup EXCEPT ![t] = AtRest] /\ gil' = gil
        /\ loadMutex' = Nobody /\ UNCHANGED <<loaded, object, allObjects, found>>
    BY <1>10 DEF ImportFails, Looking
  <2>2. AtRest \in LookupRecords /\ AtRest.at = "idle" /\ AtRest.items = <<>>
    BY DEF AtRest, LookupRecords, LookupPlaces
  <2>3. /\ lookup' \in [Threads -> LookupRecords] /\ OthersStay(t)
        /\ lookup'[t].at = "idle" /\ lookup'[t].items = <<>>
    BY <1>0, <2>1, <2>2 DEF OthersStay
  <2>4. ChainOf(<<>>) /\ loadMutex = t
    BY <1>0, <2>1 DEF ChainOf, LookupInOrder, UnderLock
  <2>5. LookupInOrder(t)'
    BY <1>0, <2>1, <2>3, <2>4 DEF LookupInOrder, Looking, UnderLock, PastParent
  <2> QED
    BY <1>0, <2>1, <2>3, <2>4, <2>5, LookupStep DEF Looking
<1>11. CASE UNCHANGED importVars
  BY <1>0, <1>11 DEF importVars, ImportInv, ImportTyped, ImportTypeOK, LookupsInOrder, LookupInOrder, WaitsWithoutGil,
     ObjectsInPlace, RefersToOwn, ObjectsHaveItems, MadeOnce, FoundOwn, Looking, Item
<1> QED
  BY <1>1, <1>2, <1>3, <1>4, <1>5, <1>6, <1>7, <1>8, <1>9, <1>10, <1>11
     DEF ImportNext, StepOf, CachedItems

LEMMA ImportInvTyped ==
    ASSUME ImportInv
    PROVE  ImportTypeOK
BY DEF ImportInv, ImportTyped

LEMMA ImportInvOwns ==
    ASSUME ImportInv
    PROVE  LoadedOnce
<1>0. /\ Len(allObjects) \in Nat /\ DOMAIN allObjects = 1..Len(allObjects)
      /\ 0 \notin 1..Len(allObjects)
  BY DEF ImportInv, ImportTyped
<1>1. IsInjective(allObjects)
  BY <1>0 DEF ImportInv, MadeOnce, IsInjective
<1>2. \A i \in loaded : object[i] # NoObject /\ allObjects[object[i]] = i
  BY <1>0 DEF ImportInv, ObjectsInPlace, RefersToOwn, NoObject
<1>3. \A t \in Threads : found[t][1] # TopLevel =>
        found[t][2] # NoObject /\ allObjects[found[t][2]] = found[t][1]
  BY <1>0 DEF ImportInv, FoundOwn, NoObject
<1>4. ASSUME NEW t \in Threads, Looking(t, "import"), Parents[Item(t)] # TopLevel
      PROVE  Parents[Item(t)] \in loaded
  BY <1>4 DEF ImportInv, LookupsInOrder, LookupInOrder, Looking, PastParent, UnderLock
<1> QED
  BY <1>1, <1>2, <1>3, <1>4 DEF LoadedOnce

LEMMA ImportInvProceeds ==
    ASSUME ImportInv
    PROVE  LookupsProceed
<1> SUFFICES ASSUME ImportInv, NEW t \in Threads, ~Looking(t, "idle")
             PROVE  \E u \in Threads : Unblocked(u)
  BY DEF LookupsProceed
<1>1. gil \in Threads \cup {Nobody} /\ loadMutex \in Threads \cup {Nobody}
  BY DEF ImportInv, ImportTyped, ImportTypeOK
<1>2. CASE gil \in Threads
  <2>1. ~Looking(gil, "wait")
    BY <1>2 DEF ImportInv, WaitsWithoutGil
  <2> QED
    BY <1>2, <2>1 DEF Unblocked
<1>3. CASE gil = Nobody /\ loadMutex \in Threads
  <2>1. lookup[loadMutex].at # "wait"
    BY <1>3 DEF ImportInv, LookupsInOrder, LookupInOrder, UnderLock
  <2> QED
    BY <1>3, <2>1 DEF Unblocked, Looking
<1>4. CASE gil = Nobody /\ loadMutex = Nobody
  BY <1>4 DEF Unblocked
<1> QED
  BY <1>1, <1>2, <1>3, <1>4

\* Threads that hold the GIL, the cache's mutex or neither: the proof's invariant holds.
THEOREM ImportInvariance == ImportSpec => []ImportInv
BY InitImportInv, StepImportInv, PTL DEF ImportSpec

\* The cache's variables always hold values of their kind.
THEOREM ImportTypeCorrect == ImportSpec => []ImportTypeOK
BY ImportInvariance, ImportInvTyped, PTL

\* Threads that look up the same names at the same time, with imports that fail or pass
\* the GIL on, load each object once and all get it (cached_import/).
THEOREM ObjectsLoadedOnce == ImportSpec => []LoadedOnce
BY ImportInvariance, ImportInvOwns, PTL

\* No thread waits for the lock while its holder waits for the GIL of the first.
THEOREM LookupsGoOn == ImportSpec => []LookupsProceed
BY ImportInvariance, ImportInvProceeds, PTL

-----------------------------------------------------------------------------
(* FrameScan: the rows of a frame are shared among threads.                *)

\* The rows that SKIP and LIMIT leave, of which the first have been drawn.
SelectedRows == SkipNum..(SkipNum + BoundRows - 1)
DrawnRows == SkipNum..(SkipNum + drawn - 1)

\* Rows that thread w has drawn and not put out, or not yet.
InHand(w) == IF local[w].at # "new" THEN local[w].start..(local[w].end - 1) ELSE {}

BoundScans == [kind : {"numpy", "arrow"}, ends : Frames, skip : Skips, limit : Limits]
LocalStates == [at : {"new", "scan", "end", "stopped"}, start : 0..NumRows, end : 0..NumRows]

ScanTyped ==
    /\ scan \in BoundScans
    /\ drawn \in 0..BoundRows /\ empties \in Nat /\ runs \in 1..MaxRuns
    /\ local \in [Workers -> LocalStates]
    /\ emitted \in Seq(DrawnRows)

\* A row that was drawn has been put out once, or is in the hand of one thread.
HandsApart ==
    \A v, w \in Workers : v # w => InHand(v) \cap InHand(w) = {}
PutOutOrInHand ==
    /\ IsInjective(emitted)
    /\ \A w \in Workers : InHand(w) \subseteq DrawnRows \ ToSet(emitted)
    /\ DrawnRows \subseteq ToSet(emitted) \cup UNION {InHand(w) : w \in Workers}

\* Unless a batch has no rows a thread comes to its end when everything is drawn, with
\* nothing in hand, and has rows of an Arrow table while it scans it.
EndsWhenDrawn ==
    BatchesHaveRows => \A w \in Workers : local[w].at = "end" => drawn = BoundRows /\ InHand(w) = {}
HasRows ==
    BatchesHaveRows /\ ~IsNumpy =>
        \A w \in Workers : local[w].at = "scan" => local[w].start < local[w].end
NewHasNothing == \A w \in Workers : local[w].at = "new" => local[w] = NotStarted

ScanInv == ScanTyped /\ HandsApart /\ PutOutOrInHand /\ EndsWhenDrawn /\ HasRows /\ NewHasNothing

-----------------------------------------------------------------------------
\* SKIP and LIMIT leave rows of the frame; those that were asked for.
LEMMA Bounds ==
    ASSUME scan \in BoundScans
    PROVE  /\ NumRows \in Nat /\ SkipNum \in Nat /\ BoundRows \in Nat /\ LastRow \in Nat
           /\ SkipNum + BoundRows = LastRow /\ LastRow <= NumRows
           /\ Selected = SelectedRows
<1>1. NumRows \in Nat
  <2>1. scan.ends \in Seq(0..Maximum) /\ Maximum \in Nat
    BY FrameScanAssumption DEF BoundScans
  <2>2. CASE scan.ends # <<>>
    <3>1. Len(scan.ends) \in 1..Len(scan.ends)
      BY <2>1, <2>2, EmptySeq
    <3> QED
      BY <2>1, <2>2, <3>1 DEF NumRows, Last
  <2> QED
    BY <2>2 DEF NumRows
<1>2. scan.skip \in Nat /\ scan.limit \in Nat
  <2>1. scan.skip \in Skips /\ scan.limit \in Limits
    BY DEF BoundScans
  <2>2. Skips \subseteq Nat /\ Limits \subseteq 0..Maximum /\ Maximum \in Nat
    BY FrameScanAssumption
  <2>3. scan.limit \in 0..Maximum
    BY <2>1, <2>2
  <2>4. \A x \in 0..Maximum : x \in Nat
    BY <2>2
  <2> QED
    BY <2>1, <2>2, <2>3, <2>4
<1>3. SkipNum \in Nat /\ SkipNum <= NumRows /\ SkipNum <= scan.skip /\ SkipNum \in {NumRows, scan.skip}
  BY <1>1, <1>2, MinOfTwo DEF SkipNum
<1>4. NumRows - SkipNum \in Nat /\ SkipNum + scan.limit \in Nat
  BY <1>1, <1>2, <1>3
<1>5. /\ BoundRows \in Nat /\ BoundRows <= NumRows - SkipNum /\ BoundRows <= scan.limit
      /\ BoundRows \in {NumRows - SkipNum, scan.limit}
  BY <1>2, <1>4, MinOfTwo DEF BoundRows
<1>6. /\ LastRow \in Nat /\ LastRow <= NumRows /\ LastRow <= SkipNum + scan.limit
      /\ LastRow \in {NumRows, SkipNum + scan.limit}
  BY <1>1, <1>4, MinOfTwo DEF LastRow
<1>7. SkipNum + BoundRows = LastRow
  BY <1>1, <1>2, <1>3, <1>5, <1>6
<1>8. ASSUME NEW r
      PROVE  r \in Selected <=> r \in SelectedRows
  BY <1>1, <1>2, <1>3, <1>5, <1>6, <1>7 DEF Selected, SelectedRows
<1> QED
  BY <1>1, <1>3, <1>5, <1>6, <1>7, <1>8

-----------------------------------------------------------------------------
\* Thread w puts out rows that it has in hand and takes the next ones that are there to
\* be drawn; it does one of them, both or neither.
LEMMA ThreadStep ==
    ASSUME ScanInv, NEW w \in Workers, NEW st \in LocalStates,
           local' = [local EXCEPT ![w] = st],
           NEW out \in Seq(InHand(w)), IsInjective(out),
           emitted' = emitted \o out,
           drawn' \in drawn..BoundRows,
           InHand(w)' = (InHand(w) \ ToSet(out)) \cup (SkipNum + drawn)..(SkipNum + drawn' - 1),
           BatchesHaveRows /\ st.at = "end" => drawn' = BoundRows /\ InHand(w)' = {},
           BatchesHaveRows /\ ~IsNumpy /\ st.at = "scan" => st.start < st.end,
           st.at = "new" => st = NotStarted,
           empties' \in Nat, UNCHANGED <<scan, runs>>
    PROVE  ScanInv'
<1>1. /\ scan \in BoundScans /\ drawn \in 0..BoundRows /\ local \in [Workers -> LocalStates]
      /\ emitted \in Seq(DrawnRows) /\ runs \in 1..MaxRuns
  BY DEF ScanInv, ScanTyped
<1>2. NumRows \in Nat /\ SkipNum \in Nat /\ BoundRows \in Nat
  BY <1>1, Bounds
<1>3. /\ NumRows' = NumRows /\ SkipNum' = SkipNum /\ BoundRows' = BoundRows
      /\ LocalStates' = LocalStates /\ BatchesHaveRows' = BatchesHaveRows /\ IsNumpy' = IsNumpy
  BY DEF NumRows, SkipNum, BoundRows, LocalStates, BatchesHaveRows, IsNumpy, EmptyChunks, ChunkStart
<1> DEFINE new == (SkipNum + drawn)..(SkipNum + drawn' - 1)
<1>4. drawn \in Nat /\ drawn' \in Nat /\ drawn <= drawn' /\ drawn' <= BoundRows
  BY <1>1, <1>2
<1>5. DrawnRows' = DrawnRows \cup new /\ DrawnRows \cap new = {}
  <2>1. DrawnRows' = SkipNum..(SkipNum + drawn' - 1)
    BY <1>3 DEF DrawnRows
  <2>2. DrawnRows = SkipNum..(SkipNum + drawn - 1)
    BY DEF DrawnRows
  <2>3. PICK a \in Nat, d \in Nat, e \in Nat : a = SkipNum /\ d = drawn /\ e = drawn' /\ d <= e
    BY <1>2, <1>4
  <2>4. /\ a..(a + e - 1) = (a..(a + d - 1)) \cup (a + d)..(a + e - 1)
        /\ (a..(a + d - 1)) \cap ((a + d)..(a + e - 1)) = {}
    <3>1. \A r : r \in a..(a + e - 1) <=> r \in a..(a + d - 1) \/ r \in (a + d)..(a + e - 1)
      BY <2>3
    <3>2. \A r : ~(r \in a..(a + d - 1) /\ r \in (a + d)..(a + e - 1))
      BY <2>3
    <3> QED
      BY <3>1, <3>2
  <2> QED
    BY <2>1, <2>2, <2>3, <2>4
<1>6. local' \in [Workers -> LocalStates] /\ local'[w] = st /\ \A v \in Workers \ {w} : local'[v] = local[v]
  BY <1>1
<1>7. \A v \in Workers \ {w} : InHand(v)' = InHand(v)
  BY <1>6 DEF InHand
<1>8. InHand(w) \subseteq DrawnRows \ ToSet(emitted) /\ IsInjective(emitted)
  BY DEF ScanInv, PutOutOrInHand
<1>9. ToSet(out) \subseteq InHand(w)
  <2>1. \A i \in DOMAIN out : out[i] \in InHand(w)
    OBVIOUS
  <2> QED
    BY <2>1 DEF ToSet
<1>10. /\ emitted \o out \in Seq(DrawnRows) /\ IsInjective(emitted \o out)
       /\ ToSet(emitted \o out) = ToSet(emitted) \cup ToSet(out)
  <2>1. out \in Seq(DrawnRows)
    BY <1>8, SeqMonotonic
  <2>2. ToSet(emitted) \cap ToSet(out) = {}
    BY <1>8, <1>9
  <2> QED
    BY <1>1, <1>8, <2>1, <2>2, ConcatOfInjective
<1>11. ScanTyped'
  <2>1. emitted' \in Seq(DrawnRows')
    BY <1>5, <1>10, SeqMonotonic
  <2>2. (emitted \in Seq(DrawnRows))'
    BY <2>1
  <2>3. scan' \in BoundScans /\ runs' \in 1..MaxRuns
    BY <1>1
  <2>4. drawn' \in 0..BoundRows' /\ empties' \in Nat
    BY <1>2, <1>3, <1>4
  <2>5. (local \in [Workers -> LocalStates])'
    BY <1>3, <1>6
  <2>6. (scan \in BoundScans)'
    BY <2>3 DEF BoundScans
  <2> QED
    BY <2>2, <2>3, <2>4, <2>5, <2>6 DEF ScanTyped
<1>12. HandsApart'
  <2>1. ASSUME NEW v \in Workers, NEW u \in Workers, v # u
        PROVE  InHand(v)' \cap InHand(u)' = {}
    <3>1. InHand(v) \cap InHand(u) = {}
      BY <2>1 DEF ScanInv, HandsApart
    <3>2. InHand(v) \subseteq DrawnRows /\ InHand(u) \subseteq DrawnRows
      BY DEF ScanInv, PutOutOrInHand
    <3> QED
      BY <1>5, <1>7, <2>1, <3>1, <3>2
  <2> QED
    BY <2>1 DEF HandsApart
<1>13. PutOutOrInHand'
  <2>1. ToSet(emitted)' = ToSet(emitted) \cup ToSet(out)
    BY <1>10
  <2>2. IsInjective(emitted)'
    BY <1>10
  <2>3. ASSUME NEW v \in Workers
        PROVE  InHand(v)' \subseteq DrawnRows' \ ToSet(emitted)'
    <3>1. InHand(v) \subseteq DrawnRows \ ToSet(emitted)
      BY DEF ScanInv, PutOutOrInHand
    <3>2. \A r \in ToSet(emitted) : r \in DrawnRows
      BY <1>1 DEF ToSet
    <3>3. CASE v = w
      BY <1>5, <1>8, <1>9, <2>1, <3>1, <3>2, <3>3
    <3>4. CASE v # w
      <4>1. InHand(v) \cap InHand(w) = {}
        BY <3>4 DEF ScanInv, HandsApart
      <4> QED
        BY <1>5, <1>7, <1>9, <2>1, <3>1, <3>4, <4>1
    <3> QED
      BY <3>3, <3>4
  <2>4. ASSUME NEW r \in DrawnRows'
        PROVE  r \in ToSet(emitted)' \/ \E v \in Workers : r \in InHand(v)'
    <3>1. CASE r \in new
      BY <3>1
    <3>2. CASE r \in DrawnRows
      <4>1. r \in ToSet(emitted) \/ \E v \in Workers : r \in InHand(v)
        BY <3>2 DEF ScanInv, PutOutOrInHand
      <4>2. ASSUME NEW v \in Workers, r \in InHand(v)
            PROVE  r \in ToSet(emitted)' \/ \E u \in Workers : r \in InHand(u)'
        BY <1>7, <2>1, <4>2
      <4> QED
        BY <2>1, <4>1, <4>2
    <3> QED
      BY <1>5, <3>1, <3>2
  <2> QED
    BY <2>2, <2>3, <2>4 DEF PutOutOrInHand
<1>14. EndsWhenDrawn'
  <2>1. ASSUME BatchesHaveRows, NEW v \in Workers, local'[v].at = "end"
        PROVE  drawn' = BoundRows /\ InHand(v)' = {}
    <3>1. CASE v = w
      BY <1>6, <2>1, <3>1
    <3>2. CASE v # w
      <4>1. drawn = BoundRows /\ InHand(v) = {}
        BY <1>6, <2>1, <3>2 DEF ScanInv, EndsWhenDrawn
      <4> QED
        BY <1>2, <1>4, <1>7, <3>2, <4>1
    <3> QED
      BY <3>1, <3>2
  <2> QED
    BY <1>3, <2>1 DEF EndsWhenDrawn
<1>15. NewHasNothing'
  BY <1>6 DEF ScanInv, NewHasNothing, NotStarted
<1>16. HasRows'
  <2>1. ASSUME BatchesHaveRows, ~IsNumpy, NEW v \in Workers, local'[v].at = "scan"
        PROVE  local'[v].start < local'[v].end
    BY <1>6, <2>1 DEF ScanInv, HasRows
  <2> QED
    BY <1>3, <2>1 DEF HasRows
<1> QED
  BY <1>11, <1>12, <1>13, <1>14, <1>15, <1>16 DEF ScanInv

-----------------------------------------------------------------------------
(* The steps.                                                              *)

LEMMA RowRangeIs ==
    ASSUME NEW from \in Nat, NEW to \in Nat, from <= to
    PROVE  /\ RowRange(from, to) \in Seq(from..(to - 1)) /\ IsInjective(RowRange(from, to))
           /\ ToSet(RowRange(from, to)) = from..(to - 1)
<1>1. PICK n \in Nat : n = to - from /\ to = from + n
  OBVIOUS
<1>2. \A k \in 1..n : from + k - 1 \in from..(to - 1)
  BY <1>1
<1>3. RowRange(from, to) = [k \in 1..n |-> from + k - 1]
  BY <1>1 DEF RowRange
<1>4. RowRange(from, to) \in Seq(from..(to - 1))
  BY <1>2, <1>3
<1>5. IsInjective(RowRange(from, to))
  <2>1. \A i, j \in 1..n : from + i - 1 = from + j - 1 => i = j
    OBVIOUS
  <2> QED
    BY <1>3, <2>1 DEF IsInjective
<1>6. ASSUME NEW r \in from..(to - 1)
      PROVE  \E k \in 1..n : r = from + k - 1
  <2>1. r - from + 1 \in 1..n /\ r = from + (r - from + 1) - 1
    BY <1>1
  <2> QED
    BY <2>1
<1>7. ToSet(RowRange(from, to)) = from..(to - 1)
  <2>1. ToSet(RowRange(from, to)) = {from + k - 1 : k \in 1..n}
    BY <1>3 DEF ToSet
  <2> QED
    BY <1>2, <1>6, <2>1
<1> QED
  BY <1>4, <1>5, <1>7

\* What ThreadStep asks of a step that puts nothing out.
LEMMA NothingPutOut ==
    ASSUME ScanInv, NEW w \in Workers
    PROVE  /\ <<>> \in Seq(InHand(w)) /\ IsInjective(<<>>) /\ ToSet(<<>>) = {}
           /\ emitted = emitted \o <<>>
<1>1. emitted \in Seq(DrawnRows)
  BY DEF ScanInv, ScanTyped
<1> QED
  BY <1>1, ConcatEmptySeq DEF IsInjective, ToSet

\* And of one that draws nothing.
LEMMA NothingDrawn ==
    ASSUME ScanInv
    PROVE  /\ drawn \in Nat /\ BoundRows \in Nat /\ drawn \in drawn..BoundRows
           /\ (SkipNum + drawn)..(SkipNum + drawn - 1) = {}
<1>1. drawn \in 0..BoundRows /\ SkipNum \in Nat /\ BoundRows \in Nat
  BY Bounds DEF ScanInv, ScanTyped
<1> QED
  BY <1>1

\* Rows that have been drawn are rows of the frame.
LEMMA RowsOfFrame ==
    ASSUME ScanInv, NEW n \in drawn..BoundRows
    PROVE  /\ n \in Nat /\ SkipNum + n \in 0..NumRows /\ SkipNum + drawn \in 0..NumRows
           /\ 0 \in 0..NumRows
<1>1. /\ drawn \in 0..BoundRows /\ SkipNum \in Nat /\ BoundRows \in Nat /\ NumRows \in Nat
      /\ SkipNum + BoundRows <= NumRows
  BY Bounds DEF ScanInv, ScanTyped
<1> QED
  BY <1>1

\* A thread keeps or forgets what it has in hand.
LEMMA PlaceStep ==
    ASSUME ScanInv, NEW w \in Workers, NEW at \in {"scan", "end", "stopped"},
           local' = [local EXCEPT ![w].at = at],
           UNCHANGED <<scan, drawn, empties, emitted, runs>>,
           at = "end" => InHand(w) = {} /\ drawn = BoundRows,
           at = "scan" => IsNumpy,
           local[w].at \in {"new", "scan"}
    PROVE  ScanInv'
<1> DEFINE st == [local[w] EXCEPT !.at = at]
<1>1. local \in [Workers -> LocalStates] /\ local[w] \in LocalStates
  BY DEF ScanInv, ScanTyped
<1>2. local' = [local EXCEPT ![w] = st]
  BY <1>1
<1>3. st \in LocalStates /\ st.at = at /\ st.start = local[w].start /\ st.end = local[w].end
  BY <1>1 DEF LocalStates
<1>4. local'[w] = st
  BY <1>1, <1>2
<1>5. InHand(w)' = InHand(w)
  <2>1. CASE local[w].at = "new"
    <3>1. local[w] = NotStarted
      BY <2>1 DEF ScanInv, NewHasNothing
    <3>2. st.start = 0 /\ st.end = 0
      BY <1>3, <3>1 DEF NotStarted
    <3>3. InHand(w) = {}
      BY <2>1 DEF InHand
    <3>4. 0..(0 - 1) = {}
      OBVIOUS
    <3> QED
      BY <1>4, <3>2, <3>3, <3>4 DEF InHand
  <2>2. CASE local[w].at = "scan"
    BY <1>3, <1>4, <2>2 DEF InHand
  <2> QED
    BY <2>1, <2>2
<1>6. InHand(w)' = (InHand(w) \ ToSet(<<>>)) \cup (SkipNum + drawn)..(SkipNum + drawn' - 1)
  BY <1>5, NothingPutOut, NothingDrawn
<1>7. /\ drawn' \in drawn..BoundRows /\ st.at # "new" /\ empties' \in Nat
      /\ st.at = "end" => drawn' = BoundRows /\ InHand(w)' = {}
  BY <1>3, <1>5, NothingDrawn DEF ScanInv, ScanTyped
<1> QED
  BY <1>2, <1>3, <1>6, <1>7, NothingPutOut, ThreadStep

LEMMA DrawMorselStep ==
    ASSUME ScanInv, NEW w \in Workers, DrawMorsel(w)
    PROVE  ScanInv'
<1> DEFINE to == Min({drawn + MorselSize, BoundRows})
<1>1. /\ local \in [Workers -> LocalStates] /\ local[w] \in LocalStates /\ drawn \in Nat
      /\ SkipNum \in Nat /\ BoundRows \in Nat /\ NumRows \in Nat /\ SkipNum + BoundRows <= NumRows
  BY NothingDrawn, Bounds DEF ScanInv, ScanTyped
<1>2. /\ to \in Nat /\ to <= BoundRows /\ to \in {drawn + MorselSize, BoundRows}
  BY <1>1, MinOfTwo, FrameScanAssumption
<1>3. InHand(w) = {} /\ local[w].at = "scan" /\ IsNumpy /\ empties \in Nat
  BY <1>1 DEF DrawMorsel, InHand, LocalStates, ScanInv, ScanTyped
<1>4. CASE drawn < to
  <2> DEFINE st == [at |-> "scan", start |-> SkipNum + drawn, end |-> SkipNum + to]
  <2>1. /\ local' = [local EXCEPT ![w].start = SkipNum + drawn, ![w].end = SkipNum + to]
        /\ drawn' = to /\ UNCHANGED <<scan, empties, emitted, runs>>
    BY <1>4 DEF DrawMorsel, Morsel
  <2>2. local' = [local EXCEPT ![w] = st]
    <3>1. SkipNum + drawn \in Nat /\ SkipNum + to \in Nat
      BY <1>1, <1>2
    <3> HIDE DEF to
    <3>2. [local EXCEPT ![w].start = SkipNum + drawn, ![w].end = SkipNum + to]
            = [local EXCEPT ![w] = [at |-> local[w].at, start |-> SkipNum + drawn, end |-> SkipNum + to]]
      <4> DEFINE a == SkipNum + drawn
                 b == SkipNum + to
      <4> HIDE DEF a, b
      <4>1. a \in Nat /\ b \in Nat
        BY <3>1 DEF a, b
      <4>2. [local[w] EXCEPT !.start = a] = [at |-> local[w].at, start |-> a, end |-> local[w].end]
        BY <1>1, <4>1 DEF LocalStates
      <4>3. [[at |-> local[w].at, start |-> a, end |-> local[w].end] EXCEPT !.end = b]
              = [at |-> local[w].at, start |-> a, end |-> b]
        OBVIOUS
      <4>4. [local EXCEPT ![w].start = a, ![w].end = b]
              = [local EXCEPT ![w] = [[local[w] EXCEPT !.start = a] EXCEPT !.end = b]]
        BY <1>1
      <4>5. [local EXCEPT ![w].start = a, ![w].end = b]
              = [local EXCEPT ![w] = [at |-> local[w].at, start |-> a, end |-> b]]
        BY <4>2, <4>3, <4>4
      <4> QED
        BY <4>5 DEF a, b
    <3> QED
      BY <1>3, <2>1, <3>2
  <2>3. st \in LocalStates /\ drawn' \in drawn..BoundRows
    BY <1>1, <1>2, <1>4, <2>1 DEF LocalStates
  <2>4. local'[w] = st
    BY <1>1, <2>2
  <2>5. InHand(w)' = (SkipNum + drawn)..(SkipNum + drawn' - 1)
    <3>1. st.at = "scan" /\ st.start = SkipNum + drawn /\ st.end = SkipNum + to
      OBVIOUS
    <3>2. drawn' = to /\ local'[w].at = "scan" /\ local'[w].start = SkipNum + drawn /\ local'[w].end = SkipNum + to
      BY <2>1, <2>4, <3>1
    <3> HIDE DEF st, to
    <3> QED
      BY <1>1, <1>2, <3>2 DEF InHand
  <2>6. InHand(w)' = (InHand(w) \ ToSet(<<>>)) \cup (SkipNum + drawn)..(SkipNum + drawn' - 1)
    BY <1>3, <2>5
  <2> QED
    BY <1>3, <2>1, <2>2, <2>3, <2>6, NothingPutOut, ThreadStep
<1>5. CASE ~(drawn < to)
  <2>1. /\ local' = [local EXCEPT ![w].at = "end"]
        /\ UNCHANGED <<scan, drawn, empties, emitted, runs>>
    BY <1>5 DEF DrawMorsel, Morsel
  <2>2. MorselSize \in Nat \ {0} /\ drawn <= BoundRows
    BY FrameScanAssumption DEF ScanInv, ScanTyped
  <2>3. drawn = BoundRows
    BY <1>1, <1>2, <1>5, <2>2
  <2> QED
    BY <1>3, <2>1, <2>3, PlaceStep
<1> QED
  BY <1>4, <1>5

LEMMA EmitVectorStep ==
    ASSUME ScanInv, NEW w \in Workers, EmitVector(w)
    PROVE  ScanInv'
<1> DEFINE from == local[w].start
           to == Min({from + VectorSize, local[w].end})
           st == [at |-> "scan", start |-> to, end |-> local[w].end]
<1>1. /\ local \in [Workers -> LocalStates] /\ local[w] \in LocalStates /\ NumRows \in Nat
      /\ from \in Nat /\ local[w].end \in Nat /\ local[w].end \in 0..NumRows
  BY Bounds DEF ScanInv, ScanTyped, LocalStates
<1>2. /\ local[w].at = "scan" /\ from < local[w].end
      /\ emitted' = emitted \o RowRange(from, to)
      /\ local' = [local EXCEPT ![w].start = to]
      /\ IsNumpy /\ UNCHANGED <<scan, drawn, empties, runs>>
  BY DEF EmitVector
<1>3. VectorSize \in Nat \ {0}
  BY FrameScanAssumption
<1>4. /\ to \in Nat /\ to <= local[w].end /\ to <= from + VectorSize
      /\ to \in {from + VectorSize, local[w].end}
  BY <1>1, <1>3, MinOfTwo
<1>5. from <= to /\ to \in 0..NumRows
  <2> HIDE DEF from, to
  <2>1. from <= to
    BY <1>1, <1>2, <1>3, <1>4
  <2> QED
    BY <1>1, <1>4, <2>1
<1>6. local' = [local EXCEPT ![w] = st] /\ st \in LocalStates
  <2>1. local' = [local EXCEPT ![w] = st]
    <3> HIDE DEF to
    <3>1. [local EXCEPT ![w].start = to]
            = [local EXCEPT ![w] = [at |-> local[w].at, start |-> to, end |-> local[w].end]]
      <4>1. [local[w] EXCEPT !.start = to] = [at |-> local[w].at, start |-> to, end |-> local[w].end]
        BY <1>1, <1>4 DEF LocalStates
      <4>2. [local EXCEPT ![w].start = to] = [local EXCEPT ![w] = [local[w] EXCEPT !.start = to]]
        OBVIOUS
      <4> QED
        BY <4>1, <4>2
    <3> QED
      BY <1>2, <3>1
  <2>3. st \in LocalStates
    BY <1>1, <1>5 DEF LocalStates
  <2> QED
    BY <2>1, <2>3
<1>7. /\ RowRange(from, to) \in Seq(from..(to - 1)) /\ IsInjective(RowRange(from, to))
      /\ ToSet(RowRange(from, to)) = from..(to - 1)
  BY <1>1, <1>4, <1>5, RowRangeIs
<1>8. InHand(w) = from..(local[w].end - 1) /\ InHand(w)' = to..(local[w].end - 1)
  <2>1. local'[w] = st
    BY <1>1, <1>6
  <2> QED
    BY <1>2, <2>1 DEF InHand
<1>9. /\ from..(to - 1) \subseteq from..(local[w].end - 1)
      /\ (from..(local[w].end - 1)) \ (from..(to - 1)) = to..(local[w].end - 1)
  <2>1. \A r : r \in from..(to - 1) => r \in from..(local[w].end - 1)
    BY <1>1, <1>4, <1>5
  <2>2. \A r : r \in from..(local[w].end - 1) /\ r \notin from..(to - 1) <=> r \in to..(local[w].end - 1)
    BY <1>1, <1>4, <1>5
  <2> QED
    BY <2>1, <2>2
<1>10. RowRange(from, to) \in Seq(InHand(w))
  BY <1>7, <1>8, <1>9, SeqMonotonic
<1>11. InHand(w)' = (InHand(w) \ ToSet(RowRange(from, to))) \cup (SkipNum + drawn)..(SkipNum + drawn' - 1)
  BY <1>2, <1>7, <1>8, <1>9, NothingDrawn
<1>12. drawn' \in drawn..BoundRows /\ empties' \in Nat
  BY <1>2, NothingDrawn DEF ScanInv, ScanTyped
<1> HIDE DEF from, to, st
<1>13. st.at = "scan"
  BY DEF st
<1> QED
  BY <1>2, <1>6, <1>7, <1>10, <1>11, <1>12, <1>13, ThreadStep

\* A batch ends after it starts, and not after the last row.
LEMMA BatchEnds ==
    ASSUME scan \in BoundScans, NEW start \in Nat, start < LastRow
    PROVE  BatchEnd(start) \in Nat /\ start < BatchEnd(start) /\ BatchEnd(start) <= LastRow
<1>1. VectorSize \in Nat \ {0} /\ LastRow \in Nat
  BY Bounds, FrameScanAssumption
<1> DEFINE S == {start + VectorSize, LastRow} \cup {e \in ToSet(scan.ends) : e > start}
<1>2. scan.ends \in Seq(0..Maximum) /\ Maximum \in Nat
  BY FrameScanAssumption DEF BoundScans
<1>3. ToSet(scan.ends) \subseteq Nat
  <2>1. \A i \in DOMAIN scan.ends : scan.ends[i] \in 0..Maximum
    BY <1>2
  <2> QED
    BY <1>2, <2>1 DEF ToSet
<1>4. S \in SUBSET Nat /\ S # {} /\ LastRow \in S /\ \A e \in S : start < e
  BY <1>1, <1>3
<1>5. Min(S) \in S /\ Min(S) <= LastRow
  <2> HIDE DEF S
  <2> QED
    BY <1>4, MinOfNaturals
<1> QED
  BY <1>4, <1>5 DEF BatchEnd

\* Batches: a thread that has put out what it had in hand draws the next one.
LEMMA NextChunkStep ==
    ASSUME ScanInv, ~IsNumpy, NEW w \in Workers, NEW after \in {"scan", "end"}, NextChunk(w, after),
           BatchesHaveRows => after = "scan",
           NEW out \in Seq(InHand(w)), IsInjective(out), ToSet(out) = InHand(w),
           emitted' = emitted \o out, UNCHANGED <<scan, runs>>
    PROVE  ScanInv'
<1> DEFINE start == SkipNum + drawn
<1>1. /\ local \in [Workers -> LocalStates] /\ local[w] \in LocalStates /\ drawn \in 0..BoundRows
      /\ SkipNum \in Nat /\ BoundRows \in Nat /\ NumRows \in Nat /\ LastRow \in Nat
      /\ SkipNum + BoundRows = LastRow /\ LastRow <= NumRows /\ scan \in BoundScans /\ empties \in Nat
  BY Bounds DEF ScanInv, ScanTyped
<1>2. ASSUME NEW at \in {"scan", "end"}, NEW end \in Nat, start <= end, end <= LastRow,
             local' = [local EXCEPT ![w] = [at |-> at, start |-> start, end |-> end]],
             drawn' = end - SkipNum, empties' \in Nat,
             BatchesHaveRows /\ at = "end" => start = LastRow,
             BatchesHaveRows /\ at = "scan" => start < end
      PROVE  ScanInv'
  <2> DEFINE st == [at |-> at, start |-> start, end |-> end]
  <2>1. /\ drawn' \in drawn..BoundRows /\ end = SkipNum + drawn' /\ start \in Nat
        /\ drawn \in Nat /\ drawn' \in Nat /\ SkipNum \in Nat
    BY <1>1, <1>2
  <2>2. st \in LocalStates /\ st.at = at /\ st.start = start /\ st.end = end
    BY <1>1, <1>2, <2>1 DEF LocalStates
  <2>3. local' = [local EXCEPT ![w] = st] /\ local'[w] = st
    BY <1>1, <1>2
  <2> HIDE DEF st
  <2>4. InHand(w)' = start..(end - 1)
    BY <2>2, <2>3 DEF InHand
  <2>5. InHand(w)' = (SkipNum + drawn)..(SkipNum + drawn' - 1)
    BY <2>1, <2>4
  <2>6. InHand(w) \ ToSet(out) = {}
    OBVIOUS
  <2>7. InHand(w)' = (InHand(w) \ ToSet(out)) \cup (SkipNum + drawn)..(SkipNum + drawn' - 1)
    BY <2>5, <2>6
  <2>8. BatchesHaveRows /\ st.at = "end" => drawn' = BoundRows /\ InHand(w)' = {}
    <3>1. ASSUME start = LastRow
          PROVE  drawn' = BoundRows /\ start..(end - 1) = {}
      BY <1>1, <1>2, <2>1, <3>1
    <3> QED
      BY <1>2, <2>2, <2>4, <3>1
  <2>9. BatchesHaveRows /\ st.at = "scan" => st.start < st.end
    BY <1>2, <2>2
  <2>10. st.at # "new"
    BY <2>2
  <2> QED
    BY <1>2, <2>1, <2>2, <2>3, <2>7, <2>8, <2>9, <2>10, ThreadStep
<1>3. start \in Nat /\ start <= LastRow /\ drawn = start - SkipNum
  BY <1>1
<1>4. CASE empties < EmptyAt(start) /\ empties' = empties + 1 /\ UNCHANGED drawn
           /\ local' = [local EXCEPT ![w] = [at |-> after, start |-> start, end |-> start]]
  <2>1. ~BatchesHaveRows
    <3>1. SUFFICES ASSUME BatchesHaveRows
                   PROVE  FALSE
      OBVIOUS
    <3>2. {i \in EmptyChunks : scan.ends[i] = start} = {}
      BY <3>1 DEF BatchesHaveRows
    <3>3. EmptyAt(start) = 0
      BY <3>2, FS_EmptySet DEF EmptyAt
    <3> QED
      BY <1>1, <1>4, <3>3
  <2>2. empties' \in Nat /\ start <= start
    BY <1>1, <1>3, <1>4
  <2> HIDE DEF start
  <2> QED
    BY <1>2, <1>3, <1>4, <2>1, <2>2
<1>5. CASE start = LastRow /\ UNCHANGED <<drawn, empties>>
           /\ local' = [local EXCEPT ![w] = [at |-> "end", start |-> start, end |-> start]]
  <2>1. start <= start
    BY <1>3
  <2> HIDE DEF start
  <2> QED
    BY <1>1, <1>2, <1>3, <1>5, <2>1
<1>6. CASE start # LastRow /\ drawn' = BatchEnd(start) - SkipNum /\ empties' = 0
           /\ local' = [local EXCEPT ![w] = [at |-> after, start |-> start, end |-> BatchEnd(start)]]
  <2>1. start < LastRow
    BY <1>1, <1>3, <1>6
  <2>2. PICK end \in Nat : end = BatchEnd(start) /\ start < end /\ end <= LastRow
    BY <1>1, <1>3, <2>1, BatchEnds
  <2>3. start <= end /\ empties' \in Nat
    BY <1>3, <1>6, <2>2
  <2> HIDE DEF start
  <2> QED
    BY <1>2, <1>6, <2>2, <2>3
<1> QED
  BY <1>4, <1>5, <1>6 DEF NextChunk

LEMMA StartArrowStep ==
    ASSUME ScanInv, NEW w \in Workers, StartArrow(w)
    PROVE  ScanInv'
<1>1. InHand(w) = {}
  BY DEF StartArrow, InHand
<1>2. /\ ~IsNumpy /\ NextChunk(w, "scan") /\ emitted' = emitted \o <<>>
      /\ UNCHANGED <<scan, runs>>
  BY NothingPutOut DEF StartArrow
<1> QED
  BY <1>1, <1>2, NothingPutOut, NextChunkStep

LEMMA EmitBatchStep ==
    ASSUME ScanInv, NEW w \in Workers, EmitBatch(w)
    PROVE  ScanInv'
<1> DEFINE from == local[w].start
           to == local[w].end
<1>1. local[w] \in LocalStates /\ NumRows \in Nat
  BY Bounds DEF ScanInv, ScanTyped
<1>2. from \in Nat /\ to \in Nat
  BY <1>1 DEF LocalStates
<1>3. InHand(w) = from..(to - 1) /\ from <= to
  BY <1>2 DEF EmitBatch, InHand
<1>4. /\ ~IsNumpy /\ NextChunk(w, "scan") /\ emitted' = emitted \o RowRange(from, to)
      /\ UNCHANGED <<scan, runs>>
  BY DEF EmitBatch
<1>5. /\ RowRange(from, to) \in Seq(InHand(w)) /\ IsInjective(RowRange(from, to))
      /\ ToSet(RowRange(from, to)) = InHand(w)
  BY <1>2, <1>3, RowRangeIs
<1> QED
  BY <1>4, <1>5, NextChunkStep

LEMMA EmitNothingStep ==
    ASSUME ScanInv, NEW w \in Workers, EmitNothing(w)
    PROVE  ScanInv'
<1>1. local[w] \in LocalStates /\ NumRows \in Nat
  BY Bounds DEF ScanInv, ScanTyped
<1>2. /\ ~IsNumpy /\ local[w].at = "scan" /\ local[w].start = local[w].end
      /\ NextChunk(w, "end") /\ emitted' = emitted \o <<>> /\ UNCHANGED <<scan, runs>>
  BY NothingPutOut DEF EmitNothing
<1>3. local[w].start \in Nat
  BY <1>1 DEF LocalStates
<1>4. InHand(w) = {}
  BY <1>2, <1>3 DEF InHand
<1>5. ~BatchesHaveRows
  BY <1>2, <1>3 DEF ScanInv, HasRows
<1> QED
  BY <1>2, <1>4, <1>5, NothingPutOut, NextChunkStep

\* A statement that is executed again starts with all of the rows to be drawn.
LEMMA BeginsAfresh ==
    ASSUME scan \in BoundScans, runs \in 1..MaxRuns,
           drawn = 0, empties = 0, local = Fresh, emitted = <<>>
    PROVE  ScanInv
<1>1. SkipNum \in Nat /\ BoundRows \in Nat /\ NumRows \in Nat
  BY Bounds
<1>2. DrawnRows = {}
  BY <1>1 DEF DrawnRows
<1>3. NotStarted \in LocalStates /\ NotStarted.at = "new"
  BY <1>1 DEF NotStarted, LocalStates
<1>4. \A w \in Workers : local[w] = NotStarted
  BY DEF Fresh
<1>5. \A w \in Workers : InHand(w) = {}
  BY <1>3, <1>4 DEF InHand
<1>6. ScanTyped
  BY <1>1, <1>3 DEF ScanTyped, Fresh
<1>7. PutOutOrInHand
  BY <1>2, <1>5 DEF PutOutOrInHand, IsInjective, ToSet
<1> QED
  BY <1>3, <1>4, <1>5, <1>6, <1>7 DEF ScanInv, HandsApart, EndsWhenDrawn, HasRows, NewHasNothing

LEMMA InitScanInv == ScanInit => ScanInv
<1> SUFFICES ASSUME ScanInit
             PROVE  ScanInv
  OBVIOUS
<1>1. scan \in BoundScans /\ runs \in 1..MaxRuns
  BY FrameScanAssumption DEF ScanInit, BoundScans
<1> QED
  BY <1>1, BeginsAfresh DEF ScanInit

LEMMA StepScanInv == ScanInv /\ [ScanNext]_scanVars => ScanInv'
<1> SUFFICES ASSUME ScanInv, [ScanNext]_scanVars
             PROVE  ScanInv'
  OBVIOUS
<1>1. ASSUME NEW w \in Workers, StartNumpy(w)
      PROVE  ScanInv'
  BY <1>1, PlaceStep DEF StartNumpy
<1>2. ASSUME NEW w \in Workers, DrawMorsel(w)
      PROVE  ScanInv'
  BY <1>2, DrawMorselStep
<1>3. ASSUME NEW w \in Workers, EmitVector(w)
      PROVE  ScanInv'
  BY <1>3, EmitVectorStep
<1>4. ASSUME NEW w \in Workers, StartArrow(w)
      PROVE  ScanInv'
  BY <1>4, StartArrowStep
<1>5. ASSUME NEW w \in Workers, EmitBatch(w)
      PROVE  ScanInv'
  BY <1>5, EmitBatchStep
<1>9. ASSUME NEW w \in Workers, EmitNothing(w)
      PROVE  ScanInv'
  BY <1>9, EmitNothingStep
<1>6. ASSUME NEW w \in Workers, StopScan(w)
      PROVE  ScanInv'
  <2>1. local[w].at \in {"new", "scan"}
    <3>1. local[w] \in LocalStates
      BY DEF ScanInv, ScanTyped
    <3> QED
      BY <1>6, <3>1 DEF StopScan, Finished, LocalStates
  <2> QED
    BY <1>6, <2>1, PlaceStep DEF StopScan
<1>7. CASE ExecuteAgain
  <2>1. scan' \in BoundScans /\ runs' \in 1..MaxRuns
    BY <1>7, FrameScanAssumption DEF ExecuteAgain, ScanInv, ScanTyped
  <2>2. drawn' = 0 /\ empties' = 0 /\ local' = Fresh /\ emitted' = <<>>
    BY <1>7 DEF ExecuteAgain
  <2>3. /\ (scan \in BoundScans)' /\ (runs \in 1..MaxRuns)' /\ (drawn = 0)' /\ (empties = 0)'
        /\ (local = Fresh)' /\ (emitted = <<>>)'
    BY <2>1, <2>2 DEF BoundScans, Fresh
  <2> QED
    BY <2>3, BeginsAfresh, PTL
<1>8. CASE UNCHANGED scanVars
  <2>1. UNCHANGED <<scan, drawn, empties, local, emitted, runs>>
    BY <1>8 DEF scanVars
  <2>2. UNCHANGED <<NumRows, SkipNum, BoundRows, LocalStates, DrawnRows, BatchesHaveRows, IsNumpy>>
    BY <2>1 DEF NumRows, SkipNum, BoundRows, LocalStates, DrawnRows, BatchesHaveRows, IsNumpy,
                EmptyChunks, ChunkStart
  <2>3. \A w : InHand(w)' = InHand(w)
    BY <2>1 DEF InHand
  <2>4. ScanTyped'
    BY <2>1, <2>2 DEF ScanInv, ScanTyped, BoundScans
  <2>5. HandsApart' /\ PutOutOrInHand'
    BY <2>1, <2>2, <2>3 DEF ScanInv, HandsApart, PutOutOrInHand
  <2>6. EndsWhenDrawn' /\ HasRows' /\ NewHasNothing'
    BY <2>1, <2>2, <2>3 DEF ScanInv, EndsWhenDrawn, HasRows, NewHasNothing, NotStarted
  <2> QED
    BY <2>4, <2>5, <2>6 DEF ScanInv
<1> QED
  BY <1>1, <1>2, <1>3, <1>4, <1>5, <1>6, <1>7, <1>8, <1>9 DEF ScanNext

LEMMA ScanInvTyped ==
    ASSUME ScanInv
    PROVE  ScanTypeOK
<1>1. drawn \in Nat /\ SkipNum \in Nat /\ NumRows \in Nat /\ SkipNum + drawn \in 0..NumRows
  BY NothingDrawn, RowsOfFrame, Bounds DEF ScanInv, ScanTyped
<1>2. DrawnRows \subseteq 0..(NumRows - 1)
  BY <1>1 DEF DrawnRows
<1>3. emitted \in Seq(0..(NumRows - 1))
  BY <1>2, SeqMonotonic DEF ScanInv, ScanTyped
<1> QED
  BY <1>1, <1>3 DEF ScanInv, ScanTyped, ScanTypeOK, LocalStates

LEMMA ScanInvImplies ==
    ASSUME ScanInv
    PROVE  RowsScannedOnce
<1>1. /\ drawn \in 0..BoundRows /\ SkipNum \in Nat /\ BoundRows \in Nat
      /\ Selected = SelectedRows
  BY Bounds DEF ScanInv, ScanTyped
<1>2. DrawnRows \subseteq SelectedRows /\ (drawn = BoundRows => DrawnRows = SelectedRows)
  BY <1>1 DEF DrawnRows, SelectedRows
<1>3. ToSet(emitted) \subseteq DrawnRows
  <2>1. emitted \in Seq(DrawnRows)
    BY DEF ScanInv, ScanTyped
  <2> QED
    BY <2>1 DEF ToSet
<1>4. ASSUME BatchesHaveRows, \A w \in Workers : local[w].at = "end"
      PROVE  ToSet(emitted) = Selected
  <2>1. PICK w \in Workers : TRUE
    BY FrameScanAssumption
  <2>2. drawn = BoundRows
    BY <1>4, <2>1 DEF ScanInv, EndsWhenDrawn
  <2>3. \A v \in Workers : InHand(v) = {}
    BY <1>4 DEF ScanInv, EndsWhenDrawn
  <2>4. DrawnRows \subseteq ToSet(emitted)
    BY <2>3 DEF ScanInv, PutOutOrInHand
  <2> QED
    BY <1>1, <1>2, <1>3, <2>2, <2>4
<1> QED
  BY <1>1, <1>2, <1>3, <1>4 DEF ScanInv, PutOutOrInHand, RowsScannedOnce

\* Drawn rows are put out or were in a thread's hand last: the proof's invariant holds.
THEOREM ScanInvariance == ScanSpec => []ScanInv
BY InitScanInv, StepScanInv, PTL DEF ScanSpec

\* The threads' ranges lie within the frame.
THEOREM ScanTypeCorrect == ScanSpec => []ScanTypeOK
BY ScanInvariance, ScanInvTyped, PTL

\* Threads that draw morsels or batches of one frame put out no row twice and none that is
\* not selected, for any frame, and every selected row of a frame whose batches have rows
\* (pandas_scan.cpp, pyarrow_scan.cpp); where one has none its thread may end too early.
THEOREM RowsAreScannedOnce == ScanSpec => []RowsScannedOnce
BY ScanInvariance, ScanInvImplies, PTL

-----------------------------------------------------------------------------
(* GraphStore: edge indexes, put and exported.                             *)

\* The nodes there are, and the keys of edge indexes.
Ends == 0..(numNodes - 1)
EdgeKeys == {Key(a) : a \in Attrs}
SortedCoo(type) == <<type, "coo", TRUE>>

\* Those of the rels whose destination is a node before the nth.
Before(edgesOf, n) == {i \in DOMAIN edgesOf : edgesOf[i][2] < n}

\* s lists the chosen ones of some rels, each once, those of earlier batches first.
OrderedRels(s, n, edgesOf, chosen) ==
    /\ s \in Bijection(1..n, chosen)
    /\ \A p, q \in 1..n : p < q =>
         edgesOf[s[p]][2] \div BatchSize <= edgesOf[s[q]][2] \div BatchSize

EdgesTyped ==
    /\ numNodes \in 1..MaxNodes /\ storeCalls \in 0..MaxStoreCalls /\ disturbed \subseteq EdgeTypes
    /\ goneNodes \subseteq Ends /\ goneRels \in [EdgeTypes -> Nat] /\ threads \in {"one", "all"}
    /\ stored \in [EdgeTypes -> Seq(Ends \X Ends)]
    /\ attr \in Attrs /\ DOMAIN store \subseteq EdgeKeys
    /\ store = [k \in DOMAIN store |-> Rel(store[k].materialized, store[k].index)]
    /\ \A k \in DOMAIN store : store[k].materialized \in BOOLEAN

\* Only what was there from the start comes from the database: a sorted COO index.
IndexInPlace(k) ==
    /\ store[k].index[1] = "put" => store[k].materialized /\ store[k].index[2] = k
    /\ store[k].index[1] # "put" => k = SortedCoo(k[1])
    /\ store[k].materialized <=> store[k].index # NoIndex

\* An index of all the rels.
HasAll(index, edgesOf) ==
    \E s \in Bijection(DOMAIN edgesOf, DOMAIN edgesOf) :
        /\ OrderedRels(s, Len(edgesOf), edgesOf, DOMAIN edgesOf)
        /\ index = [p \in 1..Len(edgesOf) |-> edgesOf[s[p]]]

\* Nothing was inserted since the count, and nothing was ever deleted.
Undisturbed(type) == type \notin disturbed /\ goneNodes = {} /\ goneRels[type] = 0

\* It lists the rels of the table, unless it was disturbed.
IndexComplete(k) ==
    store[k].index[1] = "database" /\ Undisturbed(k[1]) => HasAll(store[k].index[2], stored[k[1]])

IndexesInPlace == \A k \in DOMAIN store : IndexInPlace(k) /\ IndexComplete(k)

\* The indexes that the client put are the ones in the store.
PutsInPlace ==
    /\ \A k \in DOMAIN latest :
         /\ k \in DOMAIN store /\ store[k] = Rel(TRUE, latest[k])
         /\ latest[k][1] = "put" /\ latest[k][2] = k
    /\ \A k \in DOMAIN store : store[k].index[1] = "put" => k \in DOMAIN latest

\* What the last get returned is what it asked for, or the sorted index instead.
IsUnsortedCoo(k) == k[2] = "coo" /\ ~k[3]
AnswerInPlace ==
    /\ asked \in DOMAIN latest => got = latest[asked] \/ IsUnsortedCoo(asked)
    /\ got[1] = "put" =>
         /\ got[2] \in DOMAIN latest /\ got = latest[got[2]]
         /\ got[2] = asked \/ got[2] = SortedCoo(asked[1])

\* What an export is for: a sorted COO index that is not there yet.
ForMissing ==
    /\ Key(attr) = SortedCoo(export.type) /\ export.type \in EdgeTypes
    /\ Key(attr) \in DOMAIN store /\ store[Key(attr)].index = NoIndex
    /\ asked \in {Key(attr), <<export.type, "coo", FALSE>>} /\ got = NoIndex

CountIs(n) == n \in Nat /\ (Undisturbed(export.type) => n = Len(stored[export.type]))

\* The rels to nodes before the nth are in both halves of the array.
HasBefore(array, half, filled, edgesOf, n) ==
    \E s \in Bijection(1..filled, Before(edgesOf, n)) :
        /\ OrderedRels(s, filled, edgesOf, Before(edgesOf, n))
        /\ \A p \in 1..filled :
             /\ p \in DOMAIN array /\ array[p] = edgesOf[s[p]][1]
             /\ half + p \in DOMAIN array /\ array[half + p] = edgesOf[s[p]][2]

ArrayHolds ==
    /\ Before(stored[export.type], export.nodes) = DOMAIN stored[export.type]
    /\ HasBefore(export.array, export.half, export.filled, stored[export.type],
                 export.batch * BatchSize)

InCount == export = [step |-> "count", type |-> export.type]
Counted ==
    /\ export = [step |-> "counted", type |-> export.type, num |-> export.num]
    /\ CountIs(export.num)
InBatches ==
    /\ export = [step |-> "batches", type |-> export.type, num |-> export.num,
                 nodes |-> export.nodes, half |-> export.half, batch |-> export.batch,
                 filled |-> export.filled, array |-> export.array, before |-> export.before]
    /\ CountIs(export.num) /\ CountIs(export.half) /\ export.before \in {"one", "all"}
    /\ export.nodes \in Nat /\ export.batch \in Nat /\ export.filled \in Nat
    /\ export.batch <= Batches
    /\ Undisturbed(export.type) => ArrayHolds

ExportInOrder == export = NoExport \/ (ForMissing /\ (InCount \/ Counted \/ InBatches))

EdgesInv == EdgesTyped /\ IndexesInPlace /\ PutsInPlace /\ AnswerInPlace /\ ExportInOrder

-----------------------------------------------------------------------------
(* The steps.                                                              *)

LEMMA StoredRels ==
    ASSUME EdgesTyped, NEW type \in EdgeTypes
    PROVE  /\ stored[type] \in Seq(Ends \X Ends) /\ Len(stored[type]) \in Nat
           /\ DOMAIN stored[type] = 1..Len(stored[type])
           /\ \A i \in DOMAIN stored[type] :
                /\ stored[type][i][1] \in Nat /\ stored[type][i][2] \in Nat
                /\ stored[type][i][2] < numNodes
                /\ stored[type][i] = <<stored[type][i][1], stored[type][i][2]>>
<1>1. stored[type] \in Seq(Ends \X Ends)
  BY DEF EdgesTyped
<1>2. numNodes \in Nat
  BY GraphStoreAssumption DEF EdgesTyped
<1>3. \A i \in DOMAIN stored[type] : stored[type][i] \in Ends \X Ends
  BY <1>1
<1>4. \A e \in Ends : e \in Nat /\ e < numNodes
  BY <1>2 DEF Ends
<1> QED
  BY <1>1, <1>3, <1>4

\* What the client has is as it was, and so are the rels: what an index or an export has is
\* in place.
LEMMA EdgesStay ==
    ASSUME EdgesInv, UNCHANGED <<goneNodes, stored, goneRels, store, disturbed>>
    PROVE  IndexesInPlace'
<1>1. /\ stored' = stored /\ store' = store /\ disturbed' = disturbed
      /\ goneNodes' = goneNodes /\ goneRels' = goneRels
  OBVIOUS
<1>2. ASSUME NEW k \in DOMAIN store
      PROVE  IndexInPlace(k)' /\ IndexComplete(k)'
  <2>1. IndexInPlace(k) /\ IndexComplete(k)
    BY DEF EdgesInv, IndexesInPlace
  <2>2. IndexInPlace(k)'
    BY <1>1, <2>1 DEF IndexInPlace
  <2>3. IndexComplete(k)'
    BY <1>1, <2>1 DEF IndexComplete, Undisturbed
  <2> QED
    BY <2>2, <2>3
<1> QED
  BY <1>1, <1>2 DEF IndexesInPlace

LEMMA PutIndexFound ==
    ASSUME EdgesInv, NEW k \in DOMAIN latest
    PROVE  /\ k \in DOMAIN store /\ store[k] = Rel(TRUE, latest[k])
           /\ store[k].materialized = TRUE /\ store[k].index = latest[k]
           /\ latest[k][1] = "put" /\ latest[k][2] = k
<1>1. /\ k \in DOMAIN store /\ store[k] = Rel(TRUE, latest[k])
      /\ latest[k][1] = "put" /\ latest[k][2] = k
  BY DEF EdgesInv, PutsInPlace
<1>2. store[k].materialized = TRUE /\ store[k].index = latest[k]
  BY <1>1 DEF Rel
<1> QED
  BY <1>1, <1>2

LEMMA NoKeyIsNone ==
    ASSUME NEW k \in EdgeKeys
    PROVE  k # NoKey
<1>1. PICK a \in Attrs : k = <<a.type, a.layout, a.sorted>>
  BY DEF EdgeKeys, Key
<1>2. Len(k) = 3 /\ Len(NoKey) = 0
  BY <1>1 DEF NoKey
<1> QED
  BY <1>2

LEMMA PutsStay ==
    ASSUME EdgesInv, UNCHANGED <<store, latest>>
    PROVE  PutsInPlace'
BY DEF EdgesInv, PutsInPlace

LEMMA AnswerStays ==
    ASSUME EdgesInv, UNCHANGED <<latest, asked, got>>
    PROVE  AnswerInPlace'
BY DEF EdgesInv, AnswerInPlace

\* Another connection's change to the rels of some types: their indexes and exports
\* promise nothing any more.
LEMMA OthersStep ==
    ASSUME EdgesInv, EdgesTyped', NEW touched \in SUBSET EdgeTypes,
           \A t \in touched : goneNodes' # {} \/ t \in disturbed',
           \A t \in EdgeTypes \ touched :
              /\ stored'[t] = stored[t] /\ goneRels'[t] = goneRels[t]
              /\ t \in disturbed => t \in disturbed',
           goneNodes \subseteq goneNodes',
           UNCHANGED <<store, attr, export, got, asked, latest>>
    PROVE  EdgesInv'
<1>1. UNCHANGED <<store, attr, export, got, asked, latest>>
  OBVIOUS
<1>2. ASSUME NEW k \in DOMAIN store
      PROVE  IndexInPlace(k)' /\ IndexComplete(k)'
  <2>1. IndexInPlace(k) /\ IndexComplete(k)
    BY DEF EdgesInv, IndexesInPlace
  <2>2. IndexInPlace(k)'
    BY <1>1, <2>1 DEF IndexInPlace
  <2>3. k[1] \in EdgeTypes
    BY DEF EdgesInv, EdgesTyped, EdgeKeys, Key, Attrs
  <2>4. CASE k[1] \in touched
    <3>1. goneNodes' # {} \/ k[1] \in disturbed'
      BY <2>4
    <3> QED
      BY <1>1, <2>2, <3>1 DEF IndexComplete, Undisturbed
  <2>5. CASE k[1] \notin touched
    <3>1. /\ stored'[k[1]] = stored[k[1]] /\ goneRels'[k[1]] = goneRels[k[1]]
          /\ k[1] \in disturbed => k[1] \in disturbed'
          /\ goneNodes' = {} => goneNodes = {}
      BY <2>3, <2>5
    <3>2. IndexComplete(k)'
      BY <1>1, <2>1, <3>1 DEF IndexComplete, Undisturbed
    <3> QED
      BY <2>2, <3>2
  <2> QED
    BY <2>2, <2>4, <2>5
<1>3. IndexesInPlace'
  BY <1>1, <1>2 DEF IndexesInPlace
<1>4. ExportInOrder'
  <2>1. CASE export = NoExport
    BY <1>1, <2>1 DEF ExportInOrder
  <2>2. CASE export # NoExport
    <3>1. ForMissing /\ (InCount \/ Counted \/ InBatches) /\ export.type \in EdgeTypes
      BY <2>2 DEF EdgesInv, ExportInOrder, ForMissing
    <3>2. ForMissing'
      BY <1>1, <3>1 DEF ForMissing
    <3>3. export.type \in touched => goneNodes' # {} \/ export.type \in disturbed'
      OBVIOUS
    <3>4. export.type \notin touched =>
            /\ stored'[export.type] = stored[export.type] /\ goneRels'[export.type] = goneRels[export.type]
            /\ export.type \in disturbed => export.type \in disturbed'
            /\ goneNodes' = {} => goneNodes = {}
      BY <3>1
    <3>5. Undisturbed(export.type)' => Undisturbed(export.type) /\ stored'[export.type] = stored[export.type]
      BY <1>1, <3>3, <3>4 DEF Undisturbed
    <3>6. InCount => InCount'
      BY <1>1 DEF InCount
    <3>7. Counted => Counted'
      BY <1>1, <3>5 DEF Counted, CountIs
    <3>8. InBatches => InBatches'
      BY <1>1, <3>5 DEF InBatches, CountIs, Batches, ArrayHolds
    <3> QED
      BY <3>1, <3>2, <3>6, <3>7, <3>8 DEF ExportInOrder
  <2> QED
    BY <2>1, <2>2
<1> QED
  BY <1>1, <1>3, <1>4, PutsStay, AnswerStays DEF EdgesInv

LEMMA InsertRelStep ==
    ASSUME EdgesInv, NEW type \in EdgeTypes, NEW a \in 0..(MaxNodes - 1),
           NEW b \in 0..(MaxNodes - 1), InsertRel(type, a, b)
    PROVE  EdgesInv'
<1>1. /\ stored' = [stored EXCEPT ![type] = Append(stored[type], <<a, b>>)]
      /\ disturbed' = disturbed \cup {type} /\ <<a, b>> \in Ends \X Ends
      /\ UNCHANGED <<numNodes, goneNodes, goneRels, threads, store, attr, export, got, asked,
                     latest, storeCalls>>
  BY DEF InsertRel, Ends, Present, auxiliaryVars
<1>2. stored \in [EdgeTypes -> Seq(Ends \X Ends)] /\ Ends' = Ends
  BY <1>1 DEF EdgesInv, EdgesTyped, Ends
<1>3. Append(stored[type], <<a, b>>) \in Seq(Ends \X Ends)
  BY <1>1, <1>2
<1>4. stored' \in [EdgeTypes -> Seq(Ends \X Ends)] /\ \A t \in EdgeTypes \ {type} : stored'[t] = stored[t]
  BY <1>1, <1>2, <1>3
<1>5. EdgesTyped'
  BY <1>1, <1>2, <1>4 DEF EdgesInv, EdgesTyped
<1> QED
  BY <1>1, <1>4, <1>5, OthersStep

LEMMA DeleteRelStep ==
    ASSUME EdgesInv, NEW type \in EdgeTypes, NEW place \in 1..MaxRels, DeleteRel(type, place)
    PROVE  EdgesInv'
<1>1. /\ stored' = [stored EXCEPT ![type] = RemoveAt(stored[type], place)]
      /\ goneRels' = [goneRels EXCEPT ![type] = goneRels[type] + 1]
      /\ disturbed' = disturbed \cup {type} /\ place \in DOMAIN stored[type]
      /\ UNCHANGED <<numNodes, goneNodes, threads, store, attr, export, got, asked, latest, storeCalls>>
  BY DEF DeleteRel, auxiliaryVars
<1>2. /\ stored \in [EdgeTypes -> Seq(Ends \X Ends)] /\ Ends' = Ends
      /\ goneRels \in [EdgeTypes -> Nat]
  BY <1>1 DEF EdgesInv, EdgesTyped, Ends
<1>3. RemoveAt(stored[type], place) \in Seq(Ends \X Ends)
  <2>1. stored[type] \in Seq(Ends \X Ends) /\ place \in 1..Len(stored[type])
    BY <1>1, <1>2
  <2> QED
    BY <2>1 DEF RemoveAt
<1>4. stored' \in [EdgeTypes -> Seq(Ends \X Ends)] /\ \A t \in EdgeTypes \ {type} : stored'[t] = stored[t]
  BY <1>1, <1>2, <1>3
<1>5. goneRels' \in [EdgeTypes -> Nat] /\ \A t \in EdgeTypes \ {type} : goneRels'[t] = goneRels[t]
  BY <1>1, <1>2
<1>6. EdgesTyped'
  BY <1>1, <1>2, <1>4, <1>5 DEF EdgesInv, EdgesTyped
<1>7. /\ type \in disturbed' /\ {type} \in SUBSET EdgeTypes /\ goneNodes \subseteq goneNodes'
      /\ \A t \in disturbed : t \in disturbed'
  BY <1>1
<1> QED
  BY <1>1, <1>4, <1>5, <1>6, <1>7, OthersStep

LEMMA DeleteLoneNodeStep ==
    ASSUME EdgesInv, NEW offset, DeleteLoneNode(offset)
    PROVE  EdgesInv'
<1>1. /\ goneNodes' = goneNodes \cup {offset} /\ offset \in Ends
      /\ UNCHANGED <<numNodes, stored, goneRels, threads, store, attr, export, got, asked, latest,
                     disturbed, storeCalls>>
  BY DEF DeleteLoneNode, Present, Ends, auxiliaryVars
<1>2. Ends' = Ends
  BY <1>1 DEF Ends
<1>3. EdgesTyped'
  BY <1>1, <1>2 DEF EdgesInv, EdgesTyped
<1> QED
  BY <1>1, <1>3, OthersStep

LEMMA InsertNodeStep ==
    ASSUME EdgesInv, InsertNode
    PROVE  EdgesInv'
<1>1. /\ numNodes' = numNodes + 1 /\ numNodes < MaxNodes
      /\ UNCHANGED <<goneNodes, stored, goneRels, threads, store, attr, export, got, asked, latest,
                     disturbed, storeCalls>>
  BY DEF InsertNode, auxiliaryVars
<1>2. numNodes \in 1..MaxNodes /\ MaxNodes \in Nat
  BY GraphStoreAssumption DEF EdgesInv, EdgesTyped
<1>3. numNodes' \in 1..MaxNodes /\ Ends \subseteq Ends'
  BY <1>1, <1>2 DEF Ends
<1>4. EdgesTyped'
  <2>1. Seq(Ends \X Ends) \subseteq Seq(Ends' \X Ends')
    <3>1. Ends \X Ends \subseteq Ends' \X Ends'
      BY <1>3
    <3> QED
      BY <3>1, SeqMonotonic
  <2>2. stored' \in [EdgeTypes -> Seq(Ends' \X Ends')]
    BY <1>1, <2>1 DEF EdgesInv, EdgesTyped
  <2> QED
    BY <1>1, <1>3, <2>2 DEF EdgesInv, EdgesTyped
<1> QED
  BY <1>1, <1>4, OthersStep

-----------------------------------------------------------------------------
(* The client's steps.                                                     *)

LEMMA CallCounted ==
    ASSUME EdgesInv, Unoccupied, Called
    PROVE  storeCalls' \in 0..MaxStoreCalls
BY GraphStoreAssumption DEF EdgesInv, EdgesTyped, Unoccupied, Called

LEMMA KeysOfAttrs ==
    ASSUME NEW a \in Attrs
    PROVE  /\ Key(a) = <<a.type, a.layout, a.sorted>> /\ Key(a) \in EdgeKeys
           /\ a.type \in EdgeTypes /\ a.layout \in {"coo", "csr"} /\ a.sorted \in BOOLEAN
BY DEF Attrs, Key, EdgeKeys

LEMMA MakeAttrStep ==
    ASSUME EdgesInv, NEW a \in Attrs, MakeAttr(a)
    PROVE  EdgesInv'
<1>1. /\ attr' = a /\ export = NoExport
      /\ UNCHANGED <<numNodes, goneNodes, stored, goneRels, threads, store, export, got, asked,
                     latest, disturbed>>
  BY DEF MakeAttr, Unoccupied, externalVars, auxiliaryVars
<1>2. storeCalls' \in 0..MaxStoreCalls
  BY CallCounted DEF MakeAttr
<1>3. EdgesTyped'
  <2>1. Ends' = Ends /\ EdgeKeys' = EdgeKeys
    BY <1>1 DEF Ends, EdgeKeys
  <2> QED
    BY <1>1, <1>2, <2>1 DEF EdgesInv, EdgesTyped
<1>4. IndexesInPlace'
  BY <1>1, EdgesStay
<1>5. ExportInOrder'
  BY <1>1 DEF ExportInOrder
<1> QED
  BY <1>1, <1>3, <1>4, <1>5, PutsStay, AnswerStays DEF EdgesInv

LEMMA PutStep ==
    ASSUME EdgesInv, PutEdgeIndex
    PROVE  EdgesInv'
<1>1. /\ export = NoExport /\ PutIndex(TRUE) /\ got' = NoIndex /\ asked' = NoKey
      /\ UNCHANGED <<numNodes, goneNodes, stored, goneRels, threads, attr, export, disturbed>>
  BY DEF PutEdgeIndex, PutIndex, Unoccupied, externalVars
<1>2. storeCalls' \in 0..MaxStoreCalls
  BY CallCounted DEF PutEdgeIndex
<1>3. attr \in Attrs /\ Key(attr) \in EdgeKeys
  BY KeysOfAttrs DEF EdgesInv, EdgesTyped
<1> DEFINE put == <<"put", Key(attr), storeCalls>>
<1>4. /\ DOMAIN store' = DOMAIN store \cup {Key(attr)}
      /\ store'[Key(attr)] = Rel(TRUE, put)
      /\ \A k \in DOMAIN store : k # Key(attr) => store'[k] = store[k]
      /\ store' = [k \in DOMAIN store' |-> store'[k]]
      /\ DOMAIN latest' = DOMAIN latest \cup {Key(attr)}
      /\ latest'[Key(attr)] = put
      /\ \A k \in DOMAIN latest : k # Key(attr) => latest'[k] = latest[k]
  <2> DEFINE here == Key(attr)
  <2>1. /\ store' = [k \in DOMAIN store \cup {here} |-> IF k = here THEN Rel(TRUE, put) ELSE store[k]]
        /\ latest' = [k \in DOMAIN latest \cup {here} |-> IF k = here THEN put ELSE latest[k]]
    BY <1>1 DEF PutIndex
  <2> HIDE DEF here, put
  <2>2. /\ DOMAIN store' = DOMAIN store \cup {here}
        /\ store'[here] = Rel(TRUE, put)
        /\ \A k \in DOMAIN store : k # here => store'[k] = store[k]
    BY <2>1
  <2>3. store' = [k \in DOMAIN store' |-> store'[k]]
    BY <2>1
  <2>4. /\ DOMAIN latest' = DOMAIN latest \cup {here} /\ latest'[here] = put
        /\ \A k \in DOMAIN latest : k # here => latest'[k] = latest[k]
    BY <2>1
  <2> QED
    BY <2>2, <2>3, <2>4 DEF here
<1>10. put[1] = "put" /\ put[2] = Key(attr)
  OBVIOUS
<1> HIDE DEF put
<1>5. \A k \in DOMAIN store' :
        /\ store'[k] = Rel(store'[k].materialized, store'[k].index)
        /\ store'[k].materialized \in BOOLEAN
  <2>1. ASSUME NEW k \in DOMAIN store', k = Key(attr)
        PROVE  /\ store'[k] = Rel(store'[k].materialized, store'[k].index)
               /\ store'[k].materialized \in BOOLEAN
    <3>1. store'[k] = [materialized |-> TRUE, index |-> put]
      BY <1>4, <2>1 DEF Rel
    <3>2. store'[k].materialized = TRUE /\ store'[k].index = put
      BY <3>1
    <3> QED
      BY <3>1, <3>2 DEF Rel
  <2>2. ASSUME NEW k \in DOMAIN store', k # Key(attr)
        PROVE  /\ store'[k] = Rel(store'[k].materialized, store'[k].index)
               /\ store'[k].materialized \in BOOLEAN
    <3>1. k \in DOMAIN store /\ store'[k] = store[k]
      BY <1>4, <2>2
    <3>2. store[k] = Rel(store[k].materialized, store[k].index) /\ store[k].materialized \in BOOLEAN
      BY <3>1 DEF EdgesInv, EdgesTyped
    <3> QED
      BY <3>1, <3>2
  <2> QED
    BY <2>1, <2>2
<1>6. EdgesTyped'
  <2>1. Ends' = Ends /\ EdgeKeys' = EdgeKeys
    BY <1>1 DEF Ends, EdgeKeys
  <2>2. store' = [k \in DOMAIN store' |-> Rel(store'[k].materialized, store'[k].index)]
    BY <1>4, <1>5
  <2>3. DOMAIN store' \subseteq EdgeKeys
    BY <1>3, <1>4 DEF EdgesInv, EdgesTyped
  <2> QED
    BY <1>1, <1>2, <1>5, <2>1, <2>2, <2>3 DEF EdgesInv, EdgesTyped
<1>7. ASSUME NEW k \in DOMAIN store'
      PROVE  IndexInPlace(k)' /\ IndexComplete(k)'
  <2>1. CASE k = Key(attr)
    <3>1. store'[k].materialized = TRUE /\ store'[k].index = put
      BY <1>4, <2>1 DEF Rel
    <3> QED
      BY <1>10, <2>1, <3>1 DEF IndexInPlace, IndexComplete, NoIndex
  <2>2. CASE k # Key(attr)
    <3>1. k \in DOMAIN store /\ store'[k] = store[k]
      BY <1>4, <2>2
    <3>2. IndexInPlace(k) /\ IndexComplete(k)
      BY <3>1 DEF EdgesInv, IndexesInPlace
    <3>3. IndexInPlace(k)'
      BY <3>1, <3>2 DEF IndexInPlace
    <3>4. IndexComplete(k)'
      BY <1>1, <3>1, <3>2 DEF IndexComplete, Undisturbed
    <3> QED
      BY <3>3, <3>4
  <2> QED
    BY <2>1, <2>2
<1>8. IndexesInPlace'
  BY <1>7 DEF IndexesInPlace
<1>9. ExportInOrder'
  BY <1>1 DEF ExportInOrder
<1>11. PutsInPlace'
  <2>1. ASSUME NEW k \in DOMAIN latest'
        PROVE  /\ k \in DOMAIN store' /\ store'[k] = Rel(TRUE, latest'[k])
               /\ latest'[k][1] = "put" /\ latest'[k][2] = k
    BY <1>4, <1>10 DEF EdgesInv, PutsInPlace
  <2>2. ASSUME NEW k \in DOMAIN store', store'[k].index[1] = "put"
        PROVE  k \in DOMAIN latest'
    BY <1>4, <2>2 DEF EdgesInv, PutsInPlace
  <2> QED
    BY <2>1, <2>2 DEF PutsInPlace
<1>12. AnswerInPlace'
  <2>1. NoKey \notin DOMAIN latest'
    <3>1. \A k \in DOMAIN store' : k # NoKey
      <4>1. EdgeKeys' = EdgeKeys /\ DOMAIN store' \subseteq EdgeKeys'
        BY <1>6 DEF EdgesTyped, EdgeKeys
      <4> QED
        BY <4>1, NoKeyIsNone
    <3> QED
      BY <1>11, <3>1 DEF PutsInPlace
  <2> QED
    BY <1>1, <2>1 DEF AnswerInPlace, NoIndex
<1> QED
  BY <1>6, <1>8, <1>9, <1>11, <1>12 DEF EdgesInv

LEMMA RemoveStep ==
    ASSUME EdgesInv, RemoveEdgeIndex
    PROVE  EdgesInv'
<1>1. /\ export = NoExport /\ store' = [k \in DOMAIN store \ {Key(attr)} |-> store[k]]
      /\ latest' = [k \in DOMAIN latest \ {Key(attr)} |-> latest[k]]
      /\ got' = NoIndex /\ asked' = NoKey
      /\ UNCHANGED <<numNodes, goneNodes, stored, goneRels, threads, attr, export, disturbed>>
  BY DEF RemoveEdgeIndex, Unoccupied, externalVars
<1>2. storeCalls' \in 0..MaxStoreCalls
  BY CallCounted DEF RemoveEdgeIndex
<1>3. /\ DOMAIN store' \subseteq DOMAIN store
      /\ \A k \in DOMAIN store' : store'[k] = store[k]
      /\ store' = [k \in DOMAIN store' |-> store'[k]]
  BY <1>1
<1>4. EdgesTyped'
  <2>1. Ends' = Ends /\ EdgeKeys' = EdgeKeys
    BY <1>1 DEF Ends, EdgeKeys
  <2>2. \A k \in DOMAIN store' :
          /\ store'[k] = Rel(store'[k].materialized, store'[k].index)
          /\ store'[k].materialized \in BOOLEAN
    BY <1>3 DEF EdgesInv, EdgesTyped, Rel
  <2>3. store' = [k \in DOMAIN store' |-> Rel(store'[k].materialized, store'[k].index)]
    BY <1>3, <2>2
  <2>4. DOMAIN store' \subseteq EdgeKeys
    BY <1>3 DEF EdgesInv, EdgesTyped
  <2> QED
    BY <1>1, <1>2, <2>1, <2>2, <2>3, <2>4 DEF EdgesInv, EdgesTyped
<1>5. ASSUME NEW k \in DOMAIN store'
      PROVE  IndexInPlace(k)' /\ IndexComplete(k)'
  <2>1. k \in DOMAIN store /\ store'[k] = store[k]
    BY <1>3
  <2>2. IndexInPlace(k) /\ IndexComplete(k)
    BY <2>1 DEF EdgesInv, IndexesInPlace
  <2>3. IndexInPlace(k)'
    BY <2>1, <2>2 DEF IndexInPlace
  <2>4. IndexComplete(k)'
    BY <1>1, <2>1, <2>2 DEF IndexComplete, Undisturbed
  <2> QED
    BY <2>3, <2>4
<1>6. IndexesInPlace'
  BY <1>5 DEF IndexesInPlace
<1>7. ExportInOrder'
  BY <1>1 DEF ExportInOrder
<1>8. PutsInPlace'
  BY <1>1, <1>3 DEF EdgesInv, PutsInPlace
<1>9. AnswerInPlace'
  <2>1. \A k \in DOMAIN store' : k # NoKey
    <3>1. EdgeKeys' = EdgeKeys /\ DOMAIN store' \subseteq EdgeKeys'
      BY <1>4 DEF EdgesTyped, EdgeKeys
    <3> QED
      BY <3>1, NoKeyIsNone
  <2>2. NoKey \notin DOMAIN latest'
    BY <1>8, <2>1 DEF PutsInPlace
  <2> QED
    BY <1>1, <2>2 DEF AnswerInPlace, NoIndex
<1> QED
  BY <1>4, <1>6, <1>7, <1>8, <1>9 DEF EdgesInv

\* Only the sorted COO index of a table can be missing.
LEMMA GetStep ==
    ASSUME EdgesInv, GetEdgeIndex
    PROVE  EdgesInv'
<1>1. /\ export = NoExport /\ attr' = Wanted
      /\ UNCHANGED <<numNodes, goneNodes, stored, goneRels, threads, store, latest, disturbed>>
      /\ IF Key(Wanted) \in DOMAIN store /\ ~store[Key(Wanted)].materialized
         THEN export' = [step |-> "count", type |-> attr.type] /\ got' = NoIndex
         ELSE /\ UNCHANGED export
              /\ got' = IF Key(Wanted) \in DOMAIN store THEN store[Key(Wanted)].index ELSE <<"KeyError">>
      /\ asked' = Key(attr)
  BY DEF GetEdgeIndex, Unoccupied, externalVars
<1>2. storeCalls' \in 0..MaxStoreCalls
  BY CallCounted DEF GetEdgeIndex
<1>3. attr \in Attrs
  BY DEF EdgesInv, EdgesTyped
<1>4. Wanted \in Attrs /\ Wanted.type = attr.type
  BY <1>3 DEF Wanted, Attrs
<1>8. Key(Wanted) = Key(attr) \/ (IsUnsortedCoo(Key(attr)) /\ Key(Wanted) = SortedCoo(Key(attr)[1]))
  <2>1. attr.layout \in {"coo", "csr"} /\ attr.sorted \in BOOLEAN /\ Key(attr) = <<attr.type, attr.layout, attr.sorted>>
    BY <1>3, KeysOfAttrs
  <2>2. Wanted.layout = attr.layout /\ Wanted.sorted = (attr.sorted \/ attr.layout = "coo")
    BY <1>3 DEF Wanted, Attrs
  <2>3. Key(Wanted) = <<attr.type, attr.layout, attr.sorted \/ attr.layout = "coo">>
    BY <1>4, <2>2 DEF Key
  <2>4. Key(attr)[1] = attr.type /\ Key(attr)[2] = attr.layout /\ Key(attr)[3] = attr.sorted
    BY <2>1
  <2>5. CASE attr.layout = "coo" /\ ~attr.sorted
    BY <2>3, <2>4, <2>5 DEF IsUnsortedCoo, SortedCoo
  <2>6. CASE ~(attr.layout = "coo" /\ ~attr.sorted)
    <3>1. (attr.sorted \/ attr.layout = "coo") = attr.sorted
      BY <2>1, <2>6
    <3> QED
      BY <2>1, <2>3, <3>1
  <2> QED
    BY <2>5, <2>6
<1>5. EdgesTyped'
  <2>1. Ends' = Ends /\ EdgeKeys' = EdgeKeys
    BY <1>1 DEF Ends, EdgeKeys
  <2> QED
    BY <1>1, <1>2, <1>4, <2>1 DEF EdgesInv, EdgesTyped
<1>6. IndexesInPlace'
  BY <1>1, EdgesStay
<1>7. ExportInOrder'
  <2>1. CASE Key(Wanted) \in DOMAIN store /\ ~store[Key(Wanted)].materialized
    <3> DEFINE k == Key(Wanted)
    <3>1. k = <<attr.type, Wanted.layout, Wanted.sorted>> /\ attr.type \in EdgeTypes
      BY <1>4, KeysOfAttrs
    <3>2. k[1] = attr.type
      BY <3>1
    <3> HIDE DEF k
    <3>3. IndexInPlace(k) /\ ~store[k].materialized
      BY <2>1 DEF k, EdgesInv, IndexesInPlace
    <3>4. store[k].index = NoIndex
      BY <3>3 DEF IndexInPlace
    <3>5. k = SortedCoo(attr.type)
      BY <3>2, <3>3, <3>4 DEF IndexInPlace, NoIndex
    <3>6. export' = [step |-> "count", type |-> attr.type] /\ Key(attr') = k
      BY <1>1, <2>1 DEF k
    <3>7. export'.type = attr.type
      BY <3>6
    <3>10. got' = NoIndex /\ asked' \in {Key(attr'), <<export'.type, "coo", FALSE>>}
      <4>1. got' = NoIndex /\ asked' = Key(attr) /\ Key(attr') = Key(Wanted)
        BY <1>1, <2>1
      <4>2. CASE Key(Wanted) = Key(attr)
        BY <4>1, <4>2
      <4>3. CASE Key(Wanted) # Key(attr)
        <5>1. IsUnsortedCoo(Key(attr)) /\ attr.sorted \in BOOLEAN /\ Key(attr) = <<attr.type, attr.layout, attr.sorted>>
          BY <1>3, <1>8, <4>3, KeysOfAttrs
        <5>2. attr.layout = "coo" /\ attr.sorted = FALSE
          BY <5>1 DEF IsUnsortedCoo
        <5> QED
          BY <3>7, <4>1, <5>1, <5>2
      <4> QED
        BY <4>2, <4>3
    <3>8. ForMissing'
      BY <1>1, <2>1, <3>1, <3>4, <3>5, <3>6, <3>7, <3>10 DEF ForMissing, k
    <3>9. InCount'
      BY <3>6, <3>7 DEF InCount
    <3> QED
      BY <3>8, <3>9 DEF ExportInOrder
  <2>2. CASE ~(Key(Wanted) \in DOMAIN store /\ ~store[Key(Wanted)].materialized)
    BY <1>1, <2>2 DEF ExportInOrder
  <2> QED
    BY <2>1, <2>2
<1>9. AnswerInPlace'
  <2>1. CASE Key(Wanted) \in DOMAIN store /\ ~store[Key(Wanted)].materialized
    <3>1. got' = NoIndex /\ asked' = Key(attr) /\ latest' = latest
      BY <1>1, <2>1
    <3>2. Key(Wanted) \notin DOMAIN latest
      BY <2>1, PutIndexFound
    <3>3. asked' \in DOMAIN latest' => IsUnsortedCoo(asked')
      BY <1>8, <3>1, <3>2
    <3> QED
      BY <3>1, <3>3 DEF AnswerInPlace, NoIndex
  <2>2. CASE Key(Wanted) \in DOMAIN store /\ store[Key(Wanted)].materialized
    <3>1. got' = store[Key(Wanted)].index /\ asked' = Key(attr) /\ latest' = latest
      BY <1>1, <2>2
    <3>2. Key(Wanted) \in DOMAIN latest => got' = latest[Key(Wanted)] /\ got'[2] = Key(Wanted)
      BY <3>1, PutIndexFound
    <3>3. got'[1] = "put" => Key(Wanted) \in DOMAIN latest
      BY <2>2, <3>1 DEF EdgesInv, PutsInPlace
    <3> QED
      BY <1>8, <3>1, <3>2, <3>3 DEF AnswerInPlace
  <2>3. CASE Key(Wanted) \notin DOMAIN store
    <3>1. got' = <<"KeyError">> /\ asked' = Key(attr) /\ latest' = latest
      BY <1>1, <2>3
    <3>2. Key(Wanted) \notin DOMAIN latest
      BY <2>3 DEF EdgesInv, PutsInPlace
    <3> QED
      BY <1>8, <3>1, <3>2 DEF AnswerInPlace
  <2> QED
    BY <2>1, <2>2, <2>3
<1> QED
  BY <1>1, <1>5, <1>6, <1>7, <1>9, PutsStay DEF EdgesInv

-----------------------------------------------------------------------------
(* The export's steps.                                                     *)

\* While nothing was deleted, what the engine counts is what there is.
LEMMA RelsCounted ==
    ASSUME EdgesTyped, NEW type \in EdgeTypes, NEW count \in RelCounts(type)
    PROVE  count \in Nat /\ (goneRels[type] = 0 => count = Len(stored[type]))
<1>1. Len(stored[type]) \in Nat /\ goneRels[type] \in Nat
  BY StoredRels DEF EdgesTyped
<1> QED
  BY <1>1 DEF RelCounts

LEMMA NodesCounted ==
    ASSUME EdgesTyped, NEW count \in NodeCounts
    PROVE  count \in Nat /\ (goneNodes = {} => count = numNodes)
<1>1. numNodes \in Nat \ {0} /\ goneNodes \subseteq 0..(numNodes - 1)
  BY GraphStoreAssumption DEF EdgesTyped, Ends
<1>2. IsFiniteSet(0..(numNodes - 1)) /\ Cardinality(0..(numNodes - 1)) = numNodes
  BY <1>1, FS_Interval
<1>3. /\ Cardinality(goneNodes) \in Nat /\ Cardinality(goneNodes) <= numNodes
  BY <1>1, <1>2, FS_Subset, FS_CardinalityType
<1>4. goneNodes = {} => Cardinality(goneNodes) = 0
  BY FS_EmptySet
<1>5. PICK c \in Nat : c = Cardinality(goneNodes) /\ c <= numNodes
  BY <1>3
<1>6. count = numNodes \/ count = numNodes - c
  BY <1>5 DEF NodeCounts
<1> QED
  BY <1>1, <1>4, <1>5, <1>6

\* What an export in progress is at.
LEMMA ExportAt ==
    ASSUME EdgesInv, export.step \in {"count", "counted", "batches"}
    PROVE  /\ ForMissing /\ export.type \in EdgeTypes
           /\ Key(attr) \notin DOMAIN latest
           /\ asked \in DOMAIN latest => IsUnsortedCoo(asked)
           /\ export.step = "counted" => Counted
           /\ export.step = "batches" => InBatches
<1>1. export # NoExport
  BY DEF NoExport
<1>2. ForMissing /\ (InCount \/ Counted \/ InBatches)
  BY <1>1 DEF EdgesInv, ExportInOrder
<1>3. /\ InCount => export.step = "count"
      /\ Counted => export.step = "counted"
      /\ InBatches => export.step = "batches"
  BY DEF InCount, Counted, InBatches
<1>4. store[Key(attr)].index = NoIndex /\ asked \in {Key(attr), <<export.type, "coo", FALSE>>}
  BY <1>2 DEF ForMissing
<1>5. Key(attr) \notin DOMAIN latest
  <2>1. NoIndex[1] # "put"
    BY DEF NoIndex
  <2>2. ASSUME NEW k \in DOMAIN latest
        PROVE  store[k].index[1] = "put"
    <3>1. store[k].index = latest[k] /\ latest[k][1] = "put"
      BY PutIndexFound
    <3> QED
      BY <3>1
  <2> HIDE DEF NoIndex
  <2> QED
    BY <1>4, <2>1, <2>2, Zenon
<1>6. IsUnsortedCoo(<<export.type, "coo", FALSE>>)
  BY DEF IsUnsortedCoo
<1>7. asked \in DOMAIN latest => IsUnsortedCoo(asked)
  BY <1>4, <1>5, <1>6, Zenon
<1>8. export.type \in EdgeTypes
  BY <1>2 DEF ForMissing
<1> QED
  BY <1>2, <1>3, <1>5, <1>7, <1>8

\* From the count on, the type's rels are undisturbed, until one is inserted: no index has
\* them yet.
LEMMA CountRelsStep ==
    ASSUME EdgesInv, CountRels
    PROVE  EdgesInv'
<1>0. PICK count \in RelCounts(export.type) :
        export' = [step |-> "counted", type |-> export.type, num |-> count]
  BY DEF CountRels
<1>1. /\ export.step = "count"
      /\ export' = [step |-> "counted", type |-> export.type, num |-> count]
      /\ disturbed' = disturbed \ {export.type}
      /\ UNCHANGED <<numNodes, goneNodes, stored, goneRels, threads, store, attr, got, asked, latest,
                     storeCalls>>
  BY <1>0 DEF CountRels, externalVars, auxiliaryVars
<1>2. ForMissing /\ export.type \in EdgeTypes
  BY <1>1, ExportAt
<1>3. export'.type = export.type /\ export'.num = count
  BY <1>1
<1>4. EdgesTyped'
  <2>1. Ends' = Ends /\ EdgeKeys' = EdgeKeys
    BY <1>1 DEF Ends, EdgeKeys
  <2> QED
    BY <1>1, <2>1 DEF EdgesInv, EdgesTyped
<1>5. ASSUME NEW k \in DOMAIN store
      PROVE  IndexInPlace(k)' /\ IndexComplete(k)'
  <2>1. IndexInPlace(k) /\ IndexComplete(k)
    BY DEF EdgesInv, IndexesInPlace
  <2>2. IndexInPlace(k)'
    BY <1>1, <2>1 DEF IndexInPlace
  <2>3. CASE store[k].index[1] = "database"
    <3>1. k = SortedCoo(k[1])
      BY <2>1, <2>3 DEF IndexInPlace
    <3>2. k[1] # export.type
      BY <1>2, <2>3, <3>1 DEF ForMissing, NoIndex
    <3> QED
      BY <1>1, <2>1, <2>2, <3>2 DEF IndexComplete, Undisturbed
  <2>4. CASE store[k].index[1] # "database"
    BY <1>1, <2>2, <2>4 DEF IndexComplete
  <2> QED
    BY <2>3, <2>4
<1>6. IndexesInPlace'
  BY <1>1, <1>5 DEF IndexesInPlace
<1>7. ExportInOrder'
  <2>1. ForMissing'
    BY <1>1, <1>2, <1>3 DEF ForMissing
  <2>2. count \in Nat /\ (goneRels[export.type] = 0 => count = Len(stored[export.type]))
    BY <1>2, RelsCounted DEF EdgesInv
  <2>3. Counted'
    BY <1>1, <1>3, <2>2 DEF Counted, CountIs, Undisturbed
  <2> QED
    BY <2>1, <2>3 DEF ExportInOrder
<1> QED
  BY <1>1, <1>4, <1>6, <1>7, PutsStay, AnswerStays DEF EdgesInv

LEMMA NothingYet ==
    ASSUME NEW array, NEW half, NEW edgesOf, \A i \in DOMAIN edgesOf : edgesOf[i][2] \in Nat
    PROVE  HasBefore(array, half, 0, edgesOf, 0)
<1> DEFINE none == [p \in 1..0 |-> 0]
<1>1. Before(edgesOf, 0) = {}
  BY DEF Before
<1>2. 1..0 = {}
  OBVIOUS
<1>3. none \in Bijection(1..0, Before(edgesOf, 0))
  BY <1>1, <1>2 DEF Bijection, Injection, Surjection, IsInjective
<1> QED
  BY <1>2, <1>3 DEF HasBefore, OrderedRels

LEMMA BeginExportStep ==
    ASSUME EdgesInv, BeginExport
    PROVE  EdgesInv'
<1>0. PICK nodes \in NodeCounts, half \in RelCounts(export.type) :
        export' = [step |-> "batches", type |-> export.type, num |-> export.num,
                   nodes |-> nodes, half |-> half, batch |-> 0,
                   filled |-> 0, array |-> [x \in {} |-> 0], before |-> threads]
  BY DEF BeginExport
<1> DEFINE new == [step |-> "batches", type |-> export.type, num |-> export.num,
                   nodes |-> nodes, half |-> half, batch |-> 0,
                   filled |-> 0, array |-> [x \in {} |-> 0], before |-> threads]
<1>1. /\ export.step = "counted" /\ export' = new
      /\ threads' = "one"
      /\ UNCHANGED <<numNodes, goneNodes, stored, goneRels, store, attr, got, asked, latest,
                     disturbed, storeCalls>>
  BY <1>0 DEF BeginExport, externalVars, auxiliaryVars
<1>2. ForMissing /\ export.type \in EdgeTypes /\ CountIs(export.num)
  BY <1>1, ExportAt DEF Counted
<1>3. /\ export'.type = export.type /\ export'.num = export.num /\ export'.nodes = nodes
      /\ export'.half = half /\ export'.before = threads /\ export'.batch = 0 /\ export'.filled = 0
      /\ export'.array = [x \in {} |-> 0] /\ export' = new
  BY <1>1
<1>4. /\ Len(stored[export.type]) \in Nat
      /\ \A i \in DOMAIN stored[export.type] : stored[export.type][i][2] \in Nat
      /\ \A i \in DOMAIN stored[export.type] : stored[export.type][i][2] < numNodes
  BY <1>2, StoredRels DEF EdgesInv
<1>5. /\ nodes \in Nat /\ (goneNodes = {} => nodes = numNodes)
      /\ BatchSize \in Nat \ {0} /\ threads \in {"one", "all"}
  BY GraphStoreAssumption, NodesCounted DEF EdgesInv, EdgesTyped
<1>10. half \in Nat /\ (goneRels[export.type] = 0 => half = Len(stored[export.type]))
  BY <1>2, RelsCounted DEF EdgesInv
<1> HIDE DEF new
<1>6. EdgesTyped'
  <2>1. Ends' = Ends /\ EdgeKeys' = EdgeKeys
    BY <1>1 DEF Ends, EdgeKeys
  <2> QED
    BY <1>1, <2>1 DEF EdgesInv, EdgesTyped
<1>7. IndexesInPlace'
  BY <1>1, EdgesStay
<1>8. ForMissing'
  BY <1>1, <1>2, <1>3 DEF ForMissing
<1>9. InBatches'
  <2>1. export' = [step |-> "batches", type |-> export'.type, num |-> export'.num,
                   nodes |-> export'.nodes, half |-> export'.half, batch |-> export'.batch,
                   filled |-> export'.filled, array |-> export'.array, before |-> export'.before]
    BY <1>3 DEF new
  <2>2. CountIs(export.num)' /\ CountIs(export.half)'
    BY <1>1, <1>2, <1>3, <1>10 DEF CountIs, Undisturbed
  <2>3. 0 <= (nodes + BatchSize - 1) \div BatchSize
    BY <1>5, DivBounds
  <2>4. export'.batch <= Batches'
    BY <1>3, <2>3 DEF Batches
  <2>5. Undisturbed(export.type) => ArrayHolds'
    <3> SUFFICES ASSUME Undisturbed(export.type)
                 PROVE  ArrayHolds'
      OBVIOUS
    <3>4. nodes = numNodes /\ half = Len(stored[export.type])
      BY <1>5, <1>10 DEF Undisturbed
    <3>1. Before(stored[export.type], numNodes) = DOMAIN stored[export.type]
      BY <1>4 DEF Before
    <3>2. HasBefore([x \in {} |-> 0], Len(stored[export.type]), 0, stored[export.type], 0)
      BY <1>4, NothingYet
    <3>3. 0 * BatchSize = 0
      BY <1>5
    <3> QED
      BY <1>1, <1>3, <3>1, <3>2, <3>3, <3>4 DEF ArrayHolds
  <2>6. Undisturbed(export.type)' => Undisturbed(export.type)
    BY <1>1, <1>3 DEF Undisturbed
  <2> QED
    BY <1>3, <1>5, <2>1, <2>2, <2>4, <2>5, <2>6 DEF InBatches
<1> QED
  BY <1>1, <1>6, <1>7, <1>8, <1>9, PutsStay, AnswerStays DEF EdgesInv, ExportInOrder

\* What is written is there, and what is before and after it is as it was.
IsWritten(new, array, at, values, m) ==
    /\ \A i \in 1..m : at + i \in DOMAIN new /\ new[at + i] = values[i]
    /\ \A p \in Nat : p \in DOMAIN array /\ ~(at < p /\ p <= at + m) =>
         p \in DOMAIN new /\ new[p] = array[p]

LEMMA Written ==
    ASSUME NEW array, NEW at \in Nat, NEW m \in Nat, NEW values, Len(values) = m
    PROVE  IsWritten(WrittenAt(array, at, values), array, at, values, m)
<1> DEFINE places == (at + 1)..(at + m)
           new == WrittenAt(array, at, values)
<1>1. new = [p \in DOMAIN array \cup places |-> IF p \in places THEN values[p - at] ELSE array[p]]
  BY DEF WrittenAt
<1> HIDE DEF new
<1>2. ASSUME NEW i \in 1..m
      PROVE  at + i \in DOMAIN new /\ new[at + i] = values[i]
  <2>1. at + i \in places /\ at + i - at = i
    OBVIOUS
  <2> HIDE DEF places
  <2> QED
    BY <1>1, <2>1
<1>3. ASSUME NEW p \in Nat, p \in DOMAIN array, ~(at < p /\ p <= at + m)
      PROVE  p \in DOMAIN new /\ new[p] = array[p]
  <2>1. p \notin places
    BY <1>3
  <2> HIDE DEF places
  <2> QED
    BY <1>1, <1>3, <2>1
<1>4. IsWritten(new, array, at, values, m)
  BY <1>2, <1>3 DEF IsWritten
<1> QED
  BY <1>4 DEF new

\* One batch more, after the rels to the nodes before its first one.
LEMMA BatchAdds ==
    ASSUME NEW edgesOf, NEW half \in Nat, DOMAIN edgesOf = 1..half,
           \A i \in 1..half : edgesOf[i][2] \in Nat,
           NEW count \in Nat, Before(edgesOf, count) = 1..half,
           NEW array, NEW filled \in Nat, NEW b \in Nat,
           HasBefore(array, half, filled, edgesOf, b * BatchSize),
           NEW into, NEW order, NEW m \in Nat,
           into = {i \in DOMAIN edgesOf :
                      edgesOf[i][2] \in (b * BatchSize)..(Min({b * BatchSize + BatchSize, count}) - 1)},
           order \in Bijection(1..m, into), NEW sources, NEW targets,
           sources = [i \in 1..m |-> edgesOf[order[i]][1]],
           targets = [i \in 1..m |-> edgesOf[order[i]][2]]
    PROVE  HasBefore(WrittenAt(WrittenAt(array, half + filled, targets), filled, sources),
                     half, filled + m, edgesOf, (b + 1) * BatchSize)
<1>1. BatchSize \in Nat \ {0}
  BY GraphStoreAssumption
<1>2. PICK first \in Nat : first = b * BatchSize /\ (b + 1) * BatchSize = first + BatchSize
  BY <1>1
<1>3. \A i \in 1..half : edgesOf[i][2] < count
  BY DEF Before
<1>4. \A i \in 1..half : i \in into <=> first <= edgesOf[i][2] /\ edgesOf[i][2] < first + BatchSize
  <2>1. PICK end \in Nat : /\ end = Min({first + BatchSize, count})
                           /\ end \in {first + BatchSize, count}
                           /\ end <= first + BatchSize /\ end <= count
    <3>1. PICK top \in Nat : top = first + BatchSize
      BY <1>1
    <3> QED
      BY <3>1, MinOfTwo
  <2>2. into = {i \in 1..half : edgesOf[i][2] \in first..(end - 1)}
    BY <1>2, <2>1
  <2>3. ASSUME NEW i \in 1..half
        PROVE  i \in into <=> first <= edgesOf[i][2] /\ edgesOf[i][2] < first + BatchSize
    <3>1. PICK e \in Nat : e = edgesOf[i][2]
      OBVIOUS
    <3>2. i \in into <=> e \in first..(end - 1)
      BY <2>2, <3>1
    <3>3. e < count
      BY <1>3, <3>1
    <3> QED
      BY <1>1, <2>1, <3>1, <3>2, <3>3
  <2> QED
    BY <2>3
<1> DEFINE old == Before(edgesOf, first)
           now == Before(edgesOf, first + BatchSize)
<1>5. into \subseteq 1..half /\ old \subseteq 1..half /\ now \subseteq 1..half
  BY DEF Before
<1>6. now = old \cup into /\ old \cap into = {}
  <2>1. ASSUME NEW i \in 1..half
        PROVE  /\ i \in now <=> i \in old \/ i \in into
               /\ ~(i \in old /\ i \in into)
    <3>1. PICK e \in Nat : e = edgesOf[i][2]
      OBVIOUS
    <3>2. (i \in old <=> e < first) /\ (i \in now <=> e < first + BatchSize)
      BY <3>1 DEF Before
    <3>3. i \in into <=> first <= e /\ e < first + BatchSize
      BY <1>4, <3>1
    <3> QED
      BY <1>1, <3>2, <3>3
  <2> QED
    BY <1>5, <2>1
<1> HIDE DEF old, now
<1>7. PICK s \in Bijection(1..filled, old) :
        /\ OrderedRels(s, filled, edgesOf, old)
        /\ \A p \in 1..filled :
             /\ p \in DOMAIN array /\ array[p] = edgesOf[s[p]][1]
             /\ half + p \in DOMAIN array /\ array[half + p] = edgesOf[s[p]][2]
  BY <1>2 DEF HasBefore, old
<1> DEFINE all == Joined(s, filled, order, m)
<1>8. all \in Bijection(1..(filled + m), now)
  BY <1>6, JoinedLists
<1>9. filled + m <= half
  <2>1. PICK n \in Nat : n = filled + m
    OBVIOUS
  <2>2. n <= half
    BY <1>5, <1>8, <2>1, ListLength
  <2> QED
    BY <2>1, <2>2
<1>10. /\ \A p \in 1..filled : all[p] = s[p] /\ s[p] \in old
       /\ \A i \in 1..m : all[filled + i] = order[i] /\ order[i] \in into
  <2>1. /\ \A p \in 1..filled : s[p] \in old
        /\ \A i \in 1..m : order[i] \in into
    BY <1>7 DEF Bijection, Injection
  <2>2. \A p \in 1..filled : p \in 1..(filled + m) /\ p <= filled
    OBVIOUS
  <2>3. \A i \in 1..m : filled + i \in 1..(filled + m) /\ ~(filled + i <= filled) /\ filled + i - filled = i
    OBVIOUS
  <2>4. all = [p \in 1..(filled + m) |-> IF p <= filled THEN s[p] ELSE order[p - filled]]
    BY DEF Joined
  <2> HIDE DEF all
  <2>5. \A p \in 1..filled : all[p] = s[p]
    BY <2>2, <2>4
  <2>6. ASSUME NEW i \in 1..m
        PROVE  all[filled + i] = order[i]
    BY <2>3, <2>4
  <2> QED
    BY <2>1, <2>5, <2>6
<1> HIDE DEF all
<1>11. \A p \in 1..(filled + m) : p \in 1..filled \/ \E i \in 1..m : p = filled + i
  <2>1. \A p \in 1..(filled + m) : p \in 1..filled \/ (p - filled \in 1..m /\ p = filled + (p - filled))
    OBVIOUS
  <2> QED
    BY <2>1
<1>12. /\ \A p \in 1..filled : edgesOf[s[p]][2] \div BatchSize + 1 <= b
       /\ \A i \in 1..m : edgesOf[order[i]][2] \div BatchSize = b
       /\ \A p \in 1..filled : edgesOf[s[p]][2] \div BatchSize \in Nat
  <2>1. ASSUME NEW p \in 1..filled
        PROVE  edgesOf[s[p]][2] \div BatchSize + 1 <= b /\ edgesOf[s[p]][2] \div BatchSize \in Nat
    <3>1. PICK e \in Nat : e = edgesOf[s[p]][2] /\ e < b * BatchSize
      BY <1>2, <1>5, <1>10 DEF old, Before
    <3> QED
      BY <1>1, <3>1, DivBounds
  <2>2. ASSUME NEW i \in 1..m
        PROVE  edgesOf[order[i]][2] \div BatchSize = b
    <3>1. order[i] \in 1..half /\ order[i] \in into
      BY <1>5, <1>10
    <3>2. PICK e \in Nat : e = edgesOf[order[i]][2] /\ b * BatchSize <= e /\ e < (b + 1) * BatchSize
      BY <1>2, <1>4, <3>1
    <3>3. e \div BatchSize \in Nat /\ b <= e \div BatchSize /\ e \div BatchSize <= b
      BY <1>1, <3>2, DivBounds
    <3> QED
      BY <3>2, <3>3
  <2> QED
    BY <2>1, <2>2
<1>13. OrderedRels(all, filled + m, edgesOf, now)
  <2>1. ASSUME NEW p \in 1..(filled + m), NEW q \in 1..(filled + m), p < q
        PROVE  edgesOf[all[p]][2] \div BatchSize <= edgesOf[all[q]][2] \div BatchSize
    <3>1. CASE q \in 1..filled
      <4>1. p \in 1..filled
        BY <2>1, <3>1
      <4> QED
        BY <1>7, <1>10, <2>1, <3>1, <4>1 DEF OrderedRels
    <3>2. CASE q \notin 1..filled
      <4>1. edgesOf[all[q]][2] \div BatchSize = b
        <5>1. PICK i \in 1..m : q = filled + i
          BY <1>11, <3>2
        <5>2. all[q] = order[i]
          BY <1>10, <5>1
        <5> QED
          BY <1>12, <5>2
      <4>2. PICK e \in Nat : e = edgesOf[all[p]][2] \div BatchSize /\ e <= b
        <5>1. CASE p \in 1..filled
          <6>1. all[p] = s[p]
            BY <1>10, <5>1
          <6>2. PICK e \in Nat : e = edgesOf[s[p]][2] \div BatchSize /\ e + 1 <= b
            BY <1>12, <5>1
          <6> QED
            BY <6>1, <6>2
        <5>2. CASE p \notin 1..filled
          <6>1. PICK i \in 1..m : p = filled + i
            BY <1>11, <5>2
          <6>2. all[p] = order[i]
            BY <1>10, <6>1
          <6> QED
            BY <1>12, <6>2
        <5> QED
          BY <5>1, <5>2
      <4> QED
        BY <4>1, <4>2
    <3> QED
      BY <3>1, <3>2
  <2> QED
    BY <1>8, <2>1 DEF OrderedRels
<1> DEFINE second == WrittenAt(array, half + filled, targets)
           both == WrittenAt(second, filled, sources)
<1>14. /\ \A i \in 1..m : half + filled + i \in DOMAIN second /\ second[half + filled + i] = targets[i]
       /\ \A p \in Nat : p \in DOMAIN array /\ ~(half + filled < p /\ p <= half + filled + m) =>
            p \in DOMAIN second /\ second[p] = array[p]
  <2>1. Len(targets) = m
    OBVIOUS
  <2>2. half + filled \in Nat
    OBVIOUS
  <2>3. IsWritten(second, array, half + filled, targets, m)
    BY <2>1, <2>2, Written
  <2> HIDE DEF second
  <2> QED
    BY <2>3 DEF IsWritten
<1> HIDE DEF second
<1>15. /\ \A i \in 1..m : filled + i \in DOMAIN both /\ both[filled + i] = sources[i]
       /\ \A p \in Nat : p \in DOMAIN second /\ ~(filled < p /\ p <= filled + m) =>
            p \in DOMAIN both /\ both[p] = second[p]
  <2>1. Len(sources) = m
    OBVIOUS
  <2>2. IsWritten(both, second, filled, sources, m)
    BY <2>1, Written
  <2> HIDE DEF both
  <2> QED
    BY <2>2 DEF IsWritten
<1> HIDE DEF both
<1>16. ASSUME NEW p \in 1..filled
       PROVE  /\ p \in DOMAIN both /\ both[p] = edgesOf[all[p]][1]
              /\ half + p \in DOMAIN both /\ both[half + p] = edgesOf[all[p]][2]
  <2>1. /\ p \in Nat /\ ~(half + filled < p /\ p <= half + filled + m) /\ ~(filled < p /\ p <= filled + m)
        /\ half + p \in Nat /\ ~(half + filled < half + p /\ half + p <= half + filled + m)
        /\ ~(filled < half + p /\ half + p <= filled + m)
    BY <1>9
  <2>2. /\ p \in DOMAIN second /\ second[p] = array[p]
        /\ half + p \in DOMAIN second /\ second[half + p] = array[half + p]
    BY <1>7, <1>14, <2>1
  <2>3. /\ p \in DOMAIN both /\ both[p] = array[p]
        /\ half + p \in DOMAIN both /\ both[half + p] = array[half + p]
    BY <1>15, <2>1, <2>2
  <2> QED
    BY <1>7, <1>10, <2>3
<1>17. ASSUME NEW i \in 1..m
       PROVE  /\ filled + i \in DOMAIN both /\ both[filled + i] = edgesOf[all[filled + i]][1]
              /\ half + (filled + i) \in DOMAIN both
              /\ both[half + (filled + i)] = edgesOf[all[filled + i]][2]
  <2>1. /\ half + (filled + i) \in Nat /\ half + (filled + i) = half + filled + i
        /\ ~(filled < half + (filled + i) /\ half + (filled + i) <= filled + m)
    BY <1>9
  <2>2. half + (filled + i) \in DOMAIN second /\ second[half + (filled + i)] = targets[i]
    BY <1>14, <2>1
  <2>3. half + (filled + i) \in DOMAIN both /\ both[half + (filled + i)] = targets[i]
    BY <1>15, <2>1, <2>2
  <2>4. filled + i \in DOMAIN both /\ both[filled + i] = sources[i]
    BY <1>15
  <2> QED
    BY <1>10, <2>3, <2>4
<1>18. HasBefore(both, half, filled + m, edgesOf, first + BatchSize)
  <2>1. ASSUME NEW p \in 1..(filled + m)
        PROVE  /\ p \in DOMAIN both /\ both[p] = edgesOf[all[p]][1]
               /\ half + p \in DOMAIN both /\ both[half + p] = edgesOf[all[p]][2]
    <3>1. CASE p \in 1..filled
      BY <1>16, <3>1
    <3>2. CASE p \notin 1..filled
      <4>1. PICK i \in 1..m : p = filled + i
        BY <1>11, <3>2
      <4> QED
        BY <1>17, <4>1
    <3> QED
      BY <3>1, <3>2
  <2> QED
    BY <1>8, <1>13, <2>1 DEF HasBefore, now
<1> QED
  BY <1>2, <1>18 DEF both, second

LEMMA BatchStep ==
    ASSUME EdgesInv, Batch
    PROVE  EdgesInv'
<1> DEFINE edgesOf == stored[export.type]
           first == export.batch * BatchSize
           end == Min({first + BatchSize, export.nodes})
           into == {i \in DOMAIN edgesOf : edgesOf[i][2] \in first..(end - 1)}
           EndsOf(order, side) == [i \in DOMAIN order |-> edgesOf[order[i]][side]]
           written(order) == WrittenAt(WrittenAt(export.array, export.half + export.filled,
                                                 EndsOf(order, 2)), export.filled, EndsOf(order, 1))
<1>1. /\ export.step = "batches" /\ export.batch < Batches
      /\ UNCHANGED <<numNodes, goneNodes, stored, goneRels, threads, store, attr, got, asked, latest,
                     disturbed, storeCalls>>
  BY SMTT(30) DEF Batch, externalVars, auxiliaryVars
<1>2. PICK order \in SetToSeqs(into) :
        export' = [export EXCEPT !.batch = export.batch + 1, !.filled = export.filled + Len(order),
                                 !.array = written(order)]
  BY ZenonT(30) DEF Batch
<1>3. ForMissing /\ InBatches /\ export.type \in EdgeTypes
  BY <1>1, ExportAt
<1>4. /\ DOMAIN edgesOf = 1..Len(edgesOf) /\ Len(edgesOf) \in Nat
      /\ \A i \in 1..Len(edgesOf) : edgesOf[i][2] \in Nat
  BY <1>3, StoredRels DEF EdgesInv
<1>5. /\ order \in Bijection(1..Len(order), into) /\ Len(order) \in Nat
      /\ DOMAIN order = 1..Len(order)
  <2>1. into \in SUBSET (1..Len(edgesOf)) /\ IsFiniteSet(1..Len(edgesOf))
    BY <1>4, IntervalSize
  <2>2. IsFiniteSet(into)
    BY <2>1, FS_Subset
  <2> HIDE DEF into
  <2> QED
    BY <2>2, SeqsOfSet
<1> DEFINE array2 == written(order)
<1> HIDE DEF into, written, array2
<1>6. export' = [step |-> "batches", type |-> export.type, num |-> export.num,
                 nodes |-> export.nodes, half |-> export.half, batch |-> export.batch + 1,
                 filled |-> export.filled + Len(order), array |-> array2,
                 before |-> export.before]
  <2>1. export = [step |-> "batches", type |-> export.type, num |-> export.num,
                  nodes |-> export.nodes, half |-> export.half, batch |-> export.batch,
                  filled |-> export.filled, array |-> export.array, before |-> export.before]
    BY <1>3 DEF InBatches
  <2>2. PICK a : a = array2
    OBVIOUS
  <2>3. PICK n : n = export.batch + 1
    OBVIOUS
  <2>4. PICK f : f = export.filled + Len(order)
    OBVIOUS
  <2>5. export' = [export EXCEPT !.batch = n, !.filled = f, !.array = a]
    BY <1>2, <2>2, <2>3, <2>4 DEF array2
  <2>6. export' = [step |-> "batches", type |-> export.type, num |-> export.num,
                   nodes |-> export.nodes, half |-> export.half, batch |-> n,
                   filled |-> f, array |-> a, before |-> export.before]
    <3>1. PICK e1 : e1 = [export EXCEPT !.batch = n]
      OBVIOUS
    <3>2. PICK e2 : e2 = [e1 EXCEPT !.filled = f]
      OBVIOUS
    <3>3. export' = [e2 EXCEPT !.array = a]
      BY <2>5, <3>1, <3>2, Zenon
    <3>4. e1 = [step |-> "batches", type |-> export.type, num |-> export.num,
                nodes |-> export.nodes, half |-> export.half, batch |-> n,
                filled |-> export.filled, array |-> export.array, before |-> export.before]
      BY <2>1, <3>1
    <3>5. e2 = [step |-> "batches", type |-> export.type, num |-> export.num,
                nodes |-> export.nodes, half |-> export.half, batch |-> n,
                filled |-> f, array |-> export.array, before |-> export.before]
      BY <3>2, <3>4
    <3> QED
      BY <3>3, <3>5
  <2> QED
    BY <2>2, <2>3, <2>4, <2>6
<1>7. /\ export'.type = export.type /\ export'.num = export.num /\ export'.nodes = export.nodes
      /\ export'.half = export.half /\ export'.batch = export.batch + 1
      /\ export'.filled = export.filled + Len(order) /\ export'.array = array2
      /\ export'.before = export.before
  BY <1>6
<1>8. BatchSize \in Nat \ {0}
  BY GraphStoreAssumption
<1>9. EdgesTyped'
  <2>1. Ends' = Ends /\ EdgeKeys' = EdgeKeys
    BY <1>1 DEF Ends, EdgeKeys
  <2> QED
    BY <1>1, <2>1 DEF EdgesInv, EdgesTyped
<1>10. IndexesInPlace'
  BY <1>1, EdgesStay
<1>11. ForMissing'
  BY <1>1, <1>3, <1>7 DEF ForMissing
<1>12. Undisturbed(export.type) => ArrayHolds'
  <2> SUFFICES ASSUME Undisturbed(export.type)
               PROVE  ArrayHolds'
    OBVIOUS
  <2>1. export.half = Len(edgesOf) /\ export.nodes \in Nat /\ export.batch \in Nat /\ export.filled \in Nat
    BY <1>3 DEF InBatches, CountIs
  <2>2. /\ Before(edgesOf, export.nodes) = 1..Len(edgesOf)
        /\ HasBefore(export.array, Len(edgesOf), export.filled, edgesOf, export.batch * BatchSize)
    BY <1>3, <1>4, <2>1 DEF InBatches, ArrayHolds
  <2> DEFINE sources == [i \in 1..Len(order) |-> edgesOf[order[i]][1]]
             targets == [i \in 1..Len(order) |-> edgesOf[order[i]][2]]
  <2>3. into = {i \in DOMAIN edgesOf :
                   edgesOf[i][2] \in (export.batch * BatchSize)..(Min({export.batch * BatchSize + BatchSize, export.nodes}) - 1)}
    BY DEF into
  <2>4. array2 = WrittenAt(WrittenAt(export.array, Len(edgesOf) + export.filled, targets),
                           export.filled, sources)
    <3>1. EndsOf(order, 1) = sources /\ EndsOf(order, 2) = targets
      BY <1>5
    <3>2. written(order) = WrittenAt(WrittenAt(export.array, export.half + export.filled,
                                               EndsOf(order, 2)), export.filled, EndsOf(order, 1))
      BY Zenon DEF written
    <3> HIDE DEF sources, targets, EndsOf, edgesOf
    <3>3. array2 = written(order)
      BY DEF array2
    <3>4. export.half = Len(edgesOf)
      BY <2>1
    <3> QED
      BY <3>1, <3>2, <3>3, <3>4, Zenon
  <2>5. PICK m \in Nat : m = Len(order)
    BY <1>5, ZenonT(30)
  <2>6. PICK h \in Nat : h = Len(edgesOf)
    BY <1>4, ZenonT(30)
  <2>7. sources = [i \in 1..m |-> edgesOf[order[i]][1]] /\ targets = [i \in 1..m |-> edgesOf[order[i]][2]]
    BY <2>5
  <2> HIDE DEF sources, targets, edgesOf
  <2>8. /\ DOMAIN edgesOf = 1..h /\ \A i \in 1..h : edgesOf[i][2] \in Nat
        /\ Before(edgesOf, export.nodes) = 1..h
        /\ HasBefore(export.array, h, export.filled, edgesOf, export.batch * BatchSize)
        /\ order \in Bijection(1..m, into)
        /\ array2 = WrittenAt(WrittenAt(export.array, h + export.filled, targets),
                              export.filled, sources)
    BY <1>4, <1>5, <2>2, <2>4, <2>5, <2>6 DEF edgesOf
  <2>9. HasBefore(array2, h, export.filled + m, edgesOf, (export.batch + 1) * BatchSize)
    BY <2>1, <2>3, <2>7, <2>8, BatchAdds, ZenonT(30)
  <2> QED
    BY <1>1, <1>4, <1>7, <2>1, <2>2, <2>5, <2>6, <2>9 DEF ArrayHolds, edgesOf
<1>13. InBatches'
  <2>1. export' = [step |-> "batches", type |-> export'.type, num |-> export'.num,
                   nodes |-> export'.nodes, half |-> export'.half, batch |-> export'.batch,
                   filled |-> export'.filled, array |-> export'.array, before |-> export'.before]
    BY <1>6, <1>7
  <2>2. CountIs(export.num)' /\ CountIs(export.half)'
    BY <1>1, <1>3, <1>7 DEF InBatches, CountIs, Undisturbed
  <2>3. /\ export.nodes \in Nat /\ export.batch \in Nat /\ export.filled \in Nat
        /\ export.before \in {"one", "all"}
    BY <1>3 DEF InBatches
  <2>4. Batches' = Batches /\ Batches \in Nat
    <3>1. (export.nodes + BatchSize - 1) \in Nat
      BY <1>8, <2>3
    <3> QED
      BY <1>7, <1>8, <3>1, DivBounds DEF Batches
  <2>5. export'.batch <= Batches'
    BY <1>1, <1>7, <2>3, <2>4
  <2>6. Undisturbed(export.type)' => Undisturbed(export.type)
    BY <1>1, <1>7 DEF Undisturbed
  <2> QED
    BY <1>1, <1>5, <1>7, <1>12, <2>1, <2>2, <2>3, <2>5, <2>6 DEF InBatches
<1> QED
  BY <1>1, <1>9, <1>10, <1>11, <1>13, PutsStay, AnswerStays DEF EdgesInv, ExportInOrder

\* After the last batch every rel of the table is in the array.
LEMMA AllBatchesDone ==
    ASSUME EdgesInv, ForMissing, InBatches, export.batch = Batches, Undisturbed(export.type)
    PROVE  LET edgesOf == stored[export.type]
           IN  \E s \in Bijection(1..Len(edgesOf), 1..Len(edgesOf)) :
                 /\ OrderedRels(s, Len(edgesOf), edgesOf, 1..Len(edgesOf))
                 /\ \A p \in 1..Len(edgesOf) :
                      /\ p \in DOMAIN export.array /\ export.array[p] = edgesOf[s[p]][1]
                      /\ Len(edgesOf) + p \in DOMAIN export.array
                      /\ export.array[Len(edgesOf) + p] = edgesOf[s[p]][2]
<1> DEFINE edgesOf == stored[export.type]
<1>1. /\ DOMAIN edgesOf = 1..Len(edgesOf) /\ Len(edgesOf) \in Nat
      /\ \A i \in 1..Len(edgesOf) : edgesOf[i][2] \in Nat
  BY StoredRels DEF EdgesInv, ForMissing
<1>2. /\ export.half = Len(edgesOf) /\ export.nodes \in Nat /\ export.batch \in Nat
      /\ export.filled \in Nat /\ BatchSize \in Nat \ {0}
  BY GraphStoreAssumption DEF InBatches, CountIs
<1>3. /\ Before(edgesOf, export.nodes) = DOMAIN edgesOf
      /\ HasBefore(export.array, export.half, export.filled, edgesOf, export.batch * BatchSize)
  BY DEF InBatches, ArrayHolds
<1>4. export.nodes <= export.batch * BatchSize
  <2>1. PICK b \in Nat, n \in Nat, x \in Nat, f \in Nat :
          /\ b = export.batch /\ n = export.nodes /\ x = n + BatchSize - 1 /\ f = b * BatchSize
    BY <1>2
  <2>2. b = x \div BatchSize
    BY <2>1 DEF Batches
  <2>3. (b + 1) * BatchSize = f + BatchSize
    BY <1>2, <2>1
  <2>4. (b + 1) * BatchSize <= x => b + 1 <= x \div BatchSize
    BY <1>2, <2>1, DivBounds
  <2>5. ~(f + BatchSize <= x)
    BY <2>1, <2>2, <2>3, <2>4
  <2> QED
    BY <1>2, <2>1, <2>5
<1>5. Before(edgesOf, export.batch * BatchSize) = 1..Len(edgesOf)
  <2>1. PICK f \in Nat : f = export.batch * BatchSize
    BY <1>2
  <2>2. \A i \in 1..Len(edgesOf) : edgesOf[i][2] < export.nodes
    BY <1>1, <1>3 DEF Before
  <2>3. \A i \in 1..Len(edgesOf) : edgesOf[i][2] < f
    BY <1>1, <1>2, <1>4, <2>1, <2>2, SMTT(30)
  <2> QED
    BY <1>1, <2>1, <2>3 DEF Before
<1> HIDE DEF edgesOf
<1>6. PICK s \in Bijection(1..export.filled, 1..Len(edgesOf)) :
        /\ OrderedRels(s, export.filled, edgesOf, 1..Len(edgesOf))
        /\ \A p \in 1..export.filled :
             /\ p \in DOMAIN export.array /\ export.array[p] = edgesOf[s[p]][1]
             /\ export.half + p \in DOMAIN export.array
             /\ export.array[export.half + p] = edgesOf[s[p]][2]
  BY <1>3, <1>5 DEF HasBefore
<1>7. export.filled = Len(edgesOf)
  <2>1. PICK n \in Nat : n = export.filled
    BY <1>2, ZenonT(30)
  <2>2. PICK m \in Nat : m = Len(edgesOf)
    BY <1>1, ZenonT(30)
  <2>3. n = m
    BY <1>6, <2>1, <2>2, ListLength
  <2> QED
    BY <2>1, <2>2, <2>3
<1> QED
  BY <1>2, <1>6, <1>7 DEF edgesOf

LEMMA EndExportStep ==
    ASSUME EdgesInv, EndExport
    PROVE  EdgesInv'
<1> DEFINE At(p) == IF p \in DOMAIN export.array THEN export.array[p] ELSE -1
           index == <<"database", [k \in 1..export.num |-> <<At(k), At(export.num + k)>>]>>
           here == Key(attr)
<1>1. /\ export.step = "batches" /\ export.batch = Batches
      /\ store' = [store EXCEPT ![here] = Rel(TRUE, index)]
      /\ export' = NoExport /\ got' = index /\ threads' = export.before
      /\ UNCHANGED <<numNodes, goneNodes, stored, goneRels, attr, asked, latest, disturbed, storeCalls>>
  BY DEF EndExport, externalVars, auxiliaryVars
<1>2. ForMissing /\ InBatches /\ export.type \in EdgeTypes
  BY <1>1, ExportAt
<1>11. threads' \in {"one", "all"}
  BY <1>1, <1>2 DEF InBatches
<1>3. here \in DOMAIN store /\ here = SortedCoo(export.type) /\ here[1] = export.type
  BY <1>2 DEF ForMissing, SortedCoo
<1>4. index[1] = "database" /\ index[2] = [k \in 1..export.num |-> <<At(k), At(export.num + k)>>]
  OBVIOUS
<1> HIDE DEF here, index, At
<1>5. /\ DOMAIN store' = DOMAIN store /\ store'[here] = [materialized |-> TRUE, index |-> index]
      /\ \A k \in DOMAIN store : k # here => store'[k] = store[k]
      /\ store' = [k \in DOMAIN store' |-> store'[k]]
  <2>1. store = [k \in DOMAIN store |-> Rel(store[k].materialized, store[k].index)]
    BY DEF EdgesInv, EdgesTyped
  <2> QED
    BY <1>1, <1>3, <2>1 DEF Rel
<1>6. EdgesTyped'
  <2>1. Ends' = Ends /\ EdgeKeys' = EdgeKeys
    BY <1>1 DEF Ends, EdgeKeys
  <2>2. ASSUME NEW k \in DOMAIN store
        PROVE  /\ store'[k] = Rel(store'[k].materialized, store'[k].index)
               /\ store'[k].materialized \in BOOLEAN
    <3>1. CASE k = here
      <4>1. store'[k] = [materialized |-> TRUE, index |-> index]
        BY <1>5, <3>1
      <4>2. store'[k].materialized = TRUE /\ store'[k].index = index
        BY <4>1
      <4> QED
        BY <4>1, <4>2 DEF Rel
    <3>2. CASE k # here
      <4>1. /\ store[k] = Rel(store[k].materialized, store[k].index)
            /\ store[k].materialized \in BOOLEAN
        BY DEF EdgesInv, EdgesTyped
      <4> QED
        BY <1>5, <3>2, <4>1
    <3> QED
      BY <3>1, <3>2
  <2>3. store' = [k \in DOMAIN store' |-> Rel(store'[k].materialized, store'[k].index)]
    BY <1>5, <2>2
  <2>4. DOMAIN store' \subseteq EdgeKeys
    BY <1>5 DEF EdgesInv, EdgesTyped
  <2> QED
    BY <1>1, <1>5, <1>11, <2>1, <2>2, <2>3, <2>4 DEF EdgesInv, EdgesTyped
<1>7. Undisturbed(export.type) => HasAll(index[2], stored[export.type])
  <2> SUFFICES ASSUME Undisturbed(export.type)
               PROVE  HasAll(index[2], stored[export.type])
    OBVIOUS
  <2> DEFINE edgesOf == stored[export.type]
  <2>1. /\ DOMAIN edgesOf = 1..Len(edgesOf) /\ Len(edgesOf) \in Nat
        /\ \A i \in DOMAIN edgesOf : edgesOf[i] = <<edgesOf[i][1], edgesOf[i][2]>>
    BY <1>2, StoredRels DEF EdgesInv
  <2>2. export.num = Len(edgesOf)
    BY <1>2 DEF InBatches, CountIs
  <2>3. PICK s \in Bijection(1..Len(edgesOf), 1..Len(edgesOf)) :
          /\ OrderedRels(s, Len(edgesOf), edgesOf, 1..Len(edgesOf))
          /\ \A p \in 1..Len(edgesOf) :
               /\ p \in DOMAIN export.array /\ export.array[p] = edgesOf[s[p]][1]
               /\ Len(edgesOf) + p \in DOMAIN export.array
               /\ export.array[Len(edgesOf) + p] = edgesOf[s[p]][2]
    BY <1>1, <1>2, AllBatchesDone
  <2> HIDE DEF edgesOf
  <2>4. ASSUME NEW p \in 1..Len(edgesOf)
        PROVE  <<At(p), At(Len(edgesOf) + p)>> = edgesOf[s[p]]
    <3>1. s[p] \in DOMAIN edgesOf
      BY <2>1 DEF Bijection, Injection
    <3>2. At(p) = edgesOf[s[p]][1] /\ At(Len(edgesOf) + p) = edgesOf[s[p]][2]
      BY <2>3 DEF At
    <3> QED
      BY <2>1, <3>1, <3>2
  <2>5. index[2] = [p \in 1..Len(edgesOf) |-> edgesOf[s[p]]]
    <3>1. index[2] = [p \in 1..Len(edgesOf) |-> <<At(p), At(Len(edgesOf) + p)>>]
      BY <1>4, <2>2
    <3> DEFINE values == [p \in 1..Len(edgesOf) |-> <<At(p), At(Len(edgesOf) + p)>>]
               values2 == [p \in 1..Len(edgesOf) |-> edgesOf[s[p]]]
    <3>2. ASSUME NEW p \in 1..Len(edgesOf)
          PROVE  values[p] = values2[p]
      BY <2>4
    <3>3. values = values2
      BY <3>2
    <3> QED
      BY <3>1, <3>3
  <2>6. HasAll(index[2], edgesOf)
    BY <2>1, <2>3, <2>5 DEF HasAll
  <2> QED
    BY <2>6 DEF edgesOf
<1>8. ASSUME NEW k \in DOMAIN store
      PROVE  IndexInPlace(k)' /\ IndexComplete(k)'
  <2>1. CASE k = here
    <3>1. store'[k] = [materialized |-> TRUE, index |-> index] /\ k[1] = export.type
      BY <1>3, <1>5, <2>1
    <3>2. store'[k].materialized = TRUE /\ store'[k].index = index
      BY <3>1
    <3>3. IndexInPlace(k)'
      BY <1>3, <1>4, <2>1, <3>2 DEF IndexInPlace, NoIndex
    <3>4. IndexComplete(k)'
      <4>1. store'[k].index[1] = "database" /\ Undisturbed(k[1]) => HasAll(store'[k].index[2], stored[k[1]])
        BY <1>7, <3>1, <3>2
      <4> QED
        BY <1>1, <4>1 DEF IndexComplete, Undisturbed
    <3> QED
      BY <3>3, <3>4
  <2>2. CASE k # here
    <3>1. store'[k] = store[k]
      BY <1>5, <2>2
    <3>2. IndexInPlace(k) /\ IndexComplete(k)
      BY DEF EdgesInv, IndexesInPlace
    <3>3. IndexInPlace(k)'
      BY <3>1, <3>2 DEF IndexInPlace
    <3>4. IndexComplete(k)'
      BY <1>1, <3>1, <3>2 DEF IndexComplete, Undisturbed
    <3> QED
      BY <3>3, <3>4
  <2> QED
    BY <2>1, <2>2
<1>9. IndexesInPlace'
  BY <1>5, <1>8 DEF IndexesInPlace
<1>10. ExportInOrder'
  BY <1>1 DEF ExportInOrder
<1>12. here \notin DOMAIN latest
  BY <1>1, ExportAt DEF here
<1>13. PutsInPlace'
  <2>1. ASSUME NEW k \in DOMAIN latest
        PROVE  /\ k \in DOMAIN store' /\ store'[k] = Rel(TRUE, latest[k])
               /\ latest[k][1] = "put" /\ latest[k][2] = k
    <3>1. k # here /\ k \in DOMAIN store
      BY <1>12, PutIndexFound
    <3>2. store'[k] = store[k] /\ DOMAIN store' = DOMAIN store
      BY <1>5, <3>1
    <3> QED
      BY <3>1, <3>2, PutIndexFound
  <2>2. ASSUME NEW k \in DOMAIN store, store'[k].index[1] = "put"
        PROVE  k \in DOMAIN latest
    <3>1. store'[here].index[1] = "database"
      BY <1>4, <1>5
    <3>2. k # here
      BY <2>2, <3>1
    <3> QED
      BY <1>5, <2>2, <3>2 DEF EdgesInv, PutsInPlace
  <2> QED
    BY <1>1, <1>5, <2>1, <2>2 DEF PutsInPlace
<1>14. AnswerInPlace'
  <2>1. asked \in DOMAIN latest => IsUnsortedCoo(asked)
    BY <1>1, ExportAt
  <2> QED
    BY <1>1, <1>4, <2>1 DEF AnswerInPlace
<1> QED
  BY <1>6, <1>9, <1>10, <1>13, <1>14 DEF EdgesInv

\* The entry of an export that fails stays missing.
LEMMA ExportFailsStep ==
    ASSUME EdgesInv, ExportFails
    PROVE  EdgesInv'
<1>1. /\ export.step \in {"count", "counted", "batches"} /\ export' = NoExport
      /\ got' = <<"RuntimeError">>
      /\ UNCHANGED <<numNodes, goneNodes, stored, goneRels, threads, store, attr, asked, latest,
                     disturbed, storeCalls>>
  BY DEF ExportFails, externalVars, auxiliaryVars
<1>3. EdgesTyped'
  <2>1. Ends' = Ends /\ EdgeKeys' = EdgeKeys
    BY <1>1 DEF Ends, EdgeKeys
  <2> QED
    BY <1>1, <2>1 DEF EdgesInv, EdgesTyped
<1>5. AnswerInPlace'
  <2>1. asked \in DOMAIN latest => IsUnsortedCoo(asked)
    BY <1>1, ExportAt
  <2> QED
    BY <1>1, <2>1 DEF AnswerInPlace
<1> QED
  BY <1>1, <1>3, <1>5, EdgesStay, PutsStay DEF EdgesInv, ExportInOrder

LEMMA EdgesBegin ==
    ASSUME GraphStoreInit
    PROVE  EdgesInv
<1>1. /\ numNodes \in 1..MaxNodes /\ storeCalls = 0 /\ disturbed = EdgeTypes /\ export = NoExport
      /\ stored \in [EdgeTypes -> {<<>>} \cup {<<e>> : e \in (0..(numNodes - 1)) \X (0..(numNodes - 1))}]
      /\ store = [k \in {<<t, "coo", TRUE>> : t \in EdgeTypes} |-> Rel(FALSE, NoIndex)]
      /\ attr \in [type : EdgeTypes, layout : {"coo"}, sorted : BOOLEAN]
      /\ goneNodes = {} /\ goneRels = [t \in EdgeTypes |-> 0] /\ threads = "all"
      /\ got = NoIndex /\ latest = [k \in {} |-> NoIndex]
  BY DEF GraphStoreInit
<1>2. EdgesTyped
  <2>1. stored \in [EdgeTypes -> Seq(Ends \X Ends)]
    <3>1. <<>> \in Seq(Ends \X Ends) /\ \A e \in Ends \X Ends : <<e>> \in Seq(Ends \X Ends)
      OBVIOUS
    <3>2. stored \in [EdgeTypes -> {<<>>} \cup {<<e>> : e \in Ends \X Ends}]
      BY <1>1 DEF Ends
    <3>3. ASSUME NEW t \in EdgeTypes
          PROVE  stored[t] \in Seq(Ends \X Ends)
      <4>1. stored[t] \in {<<>>} \cup {<<e>> : e \in Ends \X Ends}
        BY <3>2
      <4> QED
        BY <3>1, <4>1
    <3>4. stored = [t \in EdgeTypes |-> stored[t]]
      BY <3>2
    <3> QED
      BY <3>3, <3>4
  <2>2. attr \in Attrs
    BY <1>1 DEF Attrs
  <2>3. DOMAIN store \subseteq EdgeKeys
    <3>1. ASSUME NEW t \in EdgeTypes
          PROVE  <<t, "coo", TRUE>> \in EdgeKeys
      <4>1. [type |-> t, layout |-> "coo", sorted |-> TRUE] \in Attrs
        BY DEF Attrs
      <4>2. Key([type |-> t, layout |-> "coo", sorted |-> TRUE]) = <<t, "coo", TRUE>>
        BY DEF Key
      <4> QED
        BY <4>1, <4>2 DEF EdgeKeys
    <3> QED
      BY <1>1, <3>1
  <2>4. store = [k \in DOMAIN store |-> Rel(store[k].materialized, store[k].index)]
    BY <1>1 DEF Rel
  <2>5. \A k \in DOMAIN store : store[k].materialized \in BOOLEAN
    BY <1>1 DEF Rel
  <2> QED
    <3>1. numNodes \in 1..MaxNodes /\ storeCalls \in 0..MaxStoreCalls /\ disturbed \subseteq EdgeTypes
      BY <1>1, GraphStoreAssumption
    <3> QED
      BY <1>1, <2>1, <2>2, <2>3, <2>4, <2>5, <3>1 DEF EdgesTyped
<1>3. ASSUME NEW k \in DOMAIN store
      PROVE  IndexInPlace(k) /\ IndexComplete(k)
  <2>1. store[k].materialized = FALSE /\ store[k].index = NoIndex
    BY <1>1 DEF Rel
  <2>2. k = SortedCoo(k[1])
    <3>1. DOMAIN store = {<<t, "coo", TRUE>> : t \in EdgeTypes}
      BY <1>1
    <3>2. PICK t \in EdgeTypes : k = <<t, "coo", TRUE>>
      BY <3>1
    <3> QED
      BY <3>2 DEF SortedCoo
  <2> QED
    BY <2>1, <2>2 DEF IndexInPlace, IndexComplete, NoIndex
<1>4. PutsInPlace
  <2>1. \A k \in DOMAIN store : store[k].index = NoIndex
    BY <1>1 DEF Rel
  <2>2. NoIndex[1] # "put" /\ DOMAIN latest = {}
    BY <1>1 DEF NoIndex
  <2> HIDE DEF NoIndex
  <2> QED
    BY <2>1, <2>2 DEF PutsInPlace
<1>5. AnswerInPlace
  BY <1>1 DEF AnswerInPlace, NoIndex
<1> QED
  BY <1>1, <1>2, <1>3, <1>4, <1>5 DEF EdgesInv, IndexesInPlace, ExportInOrder

LEMMA EdgesStep ==
    ASSUME EdgesInv, [GraphStoreNext]_graphStoreVars
    PROVE  EdgesInv'
<1>1. CASE InsertNode
  BY <1>1, InsertNodeStep
<1>2. CASE \E type \in EdgeTypes, a, b \in 0..(MaxNodes - 1) : InsertRel(type, a, b)
  BY <1>2, InsertRelStep
<1>3. CASE \E a \in Attrs : MakeAttr(a)
  BY <1>3, MakeAttrStep
<1>4. CASE PutEdgeIndex
  BY <1>4, PutStep
<1>5. CASE RemoveEdgeIndex
  BY <1>5, RemoveStep
<1>6. CASE GetEdgeIndex
  BY <1>6, GetStep
<1>7. CASE CountRels
  BY <1>7, CountRelsStep
<1>8. CASE BeginExport
  BY <1>8, BeginExportStep
<1>9. CASE Batch
  BY <1>9, BatchStep
<1>10. CASE EndExport
  BY <1>10, EndExportStep
<1>12. CASE \E offset \in 0..(MaxNodes - 1) : DeleteLoneNode(offset)
  BY <1>12, DeleteLoneNodeStep
<1>13. CASE \E type \in EdgeTypes, place \in 1..MaxRels : DeleteRel(type, place)
  BY <1>13, DeleteRelStep
<1>14. CASE ExportFails
  BY <1>14, ExportFailsStep
<1>11. CASE UNCHANGED graphStoreVars
  <2>1. UNCHANGED <<numNodes, goneNodes, stored, goneRels, threads, store, attr, export, got, asked,
                    latest, disturbed, storeCalls>>
    BY <1>11 DEF graphStoreVars, externalVars, auxiliaryVars
  <2>2. EdgesTyped'
    <3>1. Ends' = Ends /\ EdgeKeys' = EdgeKeys
      BY <2>1 DEF Ends, EdgeKeys
    <3> QED
      BY <2>1, <3>1 DEF EdgesInv, EdgesTyped
  <2>3. IndexesInPlace'
    BY <2>1, EdgesStay
  <2>4. ExportInOrder'
    BY <2>1 DEF EdgesInv, ExportInOrder, ForMissing, InCount, Counted, InBatches, CountIs,
       Batches, ArrayHolds, Undisturbed
  <2> QED
    BY <2>1, <2>2, <2>3, <2>4, PutsStay, AnswerStays DEF EdgesInv
<1> QED
  BY <1>1, <1>2, <1>3, <1>4, <1>5, <1>6, <1>7, <1>8, <1>9, <1>10, <1>11, <1>12, <1>13, <1>14
  DEF GraphStoreNext

\* As often in what is listed as in the list.
Where(list, n, e) == {i \in 1..n : list[i] = e}

LEMMA SameOccurrences ==
    ASSUME NEW n \in Nat, NEW s \in Bijection(1..n, 1..n), NEW edgesOf, NEW index,
           index = [p \in 1..n |-> edgesOf[s[p]]], NEW e
    PROVE  Cardinality(Where(index, n, e)) = Cardinality(Where(edgesOf, n, e))
<1> DEFINE P == {p \in 1..n : edgesOf[s[p]] = e}
           I == {i \in 1..n : edgesOf[i] = e}
           f == [p \in P |-> s[p]]
<1>1. /\ s \in [1..n -> 1..n] /\ \A i, j \in 1..n : s[i] = s[j] => i = j
      /\ \A x \in 1..n : \E i \in 1..n : s[i] = x
  BY DEF Bijection, Injection, Surjection, IsInjective
<1>2. \A p \in P : p \in 1..n /\ s[p] \in I
  BY <1>1
<1>3. \A i \in I : \E p \in P : s[p] = i
  BY <1>1
<1>4. IsFiniteSet(P)
  BY IntervalSize, FS_Subset
<1> HIDE DEF P, I
<1>5. f \in Bijection(P, I)
  BY <1>1, <1>2, <1>3 DEF Bijection, Injection, Surjection, IsInjective
<1>6. ExistsBijection(P, I)
  BY <1>5 DEF ExistsBijection
<1>7. Cardinality(I) = Cardinality(P)
  BY <1>4, <1>6, FS_Bijection
<1>8. Where(index, n, e) = P /\ Where(edgesOf, n, e) = I
  BY DEF Where, P, I
<1> QED
  BY <1>7, <1>8

LEMMA EdgesInvImplies ==
    ASSUME EdgesInv
    PROVE  GraphStoreTypeOK /\ PutIndexStays /\ EdgesComplete
<1>1. GraphStoreTypeOK
  BY DEF EdgesInv, EdgesTyped, EdgeKeys, Ends, GraphStoreTypeOK
<1>2. PutIndexStays
  BY DEF EdgesInv, IndexesInPlace, IndexInPlace, PutsInPlace, AnswerInPlace, IsUnsortedCoo, SortedCoo,
     PutIndexStays
<1>3. ASSUME NEW k \in DOMAIN store, store[k].index[1] = "database", Undisturbed(k[1])
      PROVE  LET index == store[k].index[2]  kept == stored[k[1]]
             IN  /\ Len(index) = Len(kept)
                 /\ \A e \in ToSet(index) \cup ToSet(kept) :
                      Cardinality({i \in DOMAIN index : index[i] = e})
                        = Cardinality({i \in DOMAIN kept : kept[i] = e})
                 /\ \A i, j \in DOMAIN index : i < j =>
                      index[i][2] \div BatchSize <= index[j][2] \div BatchSize
  <2> DEFINE edgesOf == stored[k[1]]
             index == store[k].index[2]
  <2>1. k[1] \in EdgeTypes
    BY DEF EdgesInv, EdgesTyped, EdgeKeys, Key, Attrs
  <2>2. Len(edgesOf) \in Nat /\ DOMAIN edgesOf = 1..Len(edgesOf)
    BY <2>1, StoredRels DEF EdgesInv
  <2>3. HasAll(index, edgesOf)
    BY <1>3, SMTT(30) DEF EdgesInv, IndexesInPlace, IndexComplete
  <2> HIDE DEF edgesOf, index
  <2>4. PICK n \in Nat : n = Len(edgesOf) /\ DOMAIN edgesOf = 1..n
    BY <2>2, ZenonT(30)
  <2>5. PICK s \in Bijection(1..n, 1..n) :
          OrderedRels(s, n, edgesOf, 1..n) /\ index = [p \in 1..n |-> edgesOf[s[p]]]
    BY <2>3, <2>4 DEF HasAll
  <2>6. Len(index) = n /\ DOMAIN index = 1..n
    BY <2>5
  <2>7. ASSUME NEW e
        PROVE  Cardinality({i \in DOMAIN index : index[i] = e})
                 = Cardinality({i \in DOMAIN edgesOf : edgesOf[i] = e})
    <3>1. /\ {i \in DOMAIN index : index[i] = e} = Where(index, n, e)
          /\ {i \in DOMAIN edgesOf : edgesOf[i] = e} = Where(edgesOf, n, e)
      BY <2>4, <2>6 DEF Where
    <3>2. Cardinality(Where(index, n, e)) = Cardinality(Where(edgesOf, n, e))
      BY <2>5, SameOccurrences
    <3> QED
      BY <3>1, <3>2
  <2>8. \A i, j \in DOMAIN index : i < j =>
          index[i][2] \div BatchSize <= index[j][2] \div BatchSize
    BY <2>5, <2>6 DEF OrderedRels
  <2> QED
    BY <2>4, <2>6, <2>7, <2>8 DEF edgesOf, index
<1>4. EdgesComplete
  BY <1>3 DEF EdgesComplete, Undisturbed
<1> QED
  BY <1>1, <1>2, <1>4

\* What the client put stays put and is what a get returns, and an index from the database
\* has what the table has while nobody inserts or deletes: the proof's invariant holds in
\* every state.
THEOREM EdgesInvariance == GraphStoreSpec => []EdgesInv
<1>1. GraphStoreInit => EdgesInv
  BY EdgesBegin
<1>2. EdgesInv /\ [GraphStoreNext]_graphStoreVars => EdgesInv'
  BY EdgesStep
<1> QED
  BY <1>1, <1>2, PTL DEF GraphStoreSpec

\* The store's keys are of edge attributes.
THEOREM EdgesTypeCorrect == GraphStoreSpec => []GraphStoreTypeOK
BY EdgesInvariance, EdgesInvImplies, PTL

\* A get returns the index put last, unless it asks for an unsorted COO one, which is
\* answered with the sorted one (_put_edge_index, _get_edge_index).
THEOREM PutIndexesStay == GraphStoreSpec => []PutIndexStays
BY EdgesInvariance, EdgesInvImplies, PTL

\* The batches of an export join to all the rels, each once, in both halves of the array
\* (getAllEdgesForTorchGeometric).
THEOREM ExportedEdgesComplete == GraphStoreSpec => []EdgesComplete
BY EdgesInvariance, EdgesInvImplies, PTL

-----------------------------------------------------------------------------
(* FeatureStore: an index, scanned and queried.                            *)

\* What IndexPathsAgree asks of a tensor.
Agrees(tensor) ==
    LET index == tensor.of.index  items == tensor.items
        n == Cardinality(tensor.of.before)
    IN  Meant(index, n) \subseteq tensor.of.before =>
        /\ Meant(index, n) \subseteq ToSet(items)
        /\ ToSet(items) \subseteq Meant(index, Cardinality(tensor.after))
        /\ tensor.how = "query" => IsInjective(items)
        /\ tensor.how = "scan" =>
             IF index.kind = "items" THEN items = index.items
             ELSE \A k \in 1..(Len(items) - 1) : items[k] < items[k + 1]

Everything == [kind |-> "none"]

\* The first n offsets.
Offset(n) == 0..(n - 1)

FeatureTyped ==
    /\ highest \in 0..MaxOffset /\ present \subseteq Offset(highest) /\ schema \in Schemas
    /\ cache \in Schemas \cup {Unknown} /\ requests \in 0..MaxRequests
    /\ answer.kind \in {"none", "error", "size", "tensor", "attrs"}

\* While no node is deleted, the nodes are those that were given out.
Dense == intact => present = Offset(highest)

\* The nodes at its start were the first ones, and so were those that it has counted.
Request ==
    /\ request = [step |-> request.step, attr |-> request.attr, index |-> request.index,
                  size |-> request.size, before |-> request.before]
    /\ request.index \in Indexes \cup {Everything}
    /\ intact => \E b \in 0..highest :
         /\ request.before = Offset(b)
         /\ request.step = "scan" /\ request.index.kind = "none" => request.size \in b..highest

RequestInOrder == request = NoRequest \/ Request
AnswerAgrees == intact /\ answer.kind = "tensor" => Agrees(answer)

FeatureInv == FeatureTyped /\ Dense /\ RequestInOrder /\ AnswerAgrees

-----------------------------------------------------------------------------
LEMMA OffsetsSize ==
    ASSUME NEW n \in Nat
    PROVE  IsFiniteSet(Offset(n)) /\ Cardinality(Offset(n)) = n
<1>1. /\ IsFiniteSet(0..(n - 1))
      /\ Cardinality(0..(n - 1)) = IF 0 > n - 1 THEN 0 ELSE (n - 1) - 0 + 1
  BY FS_Interval
<1> QED
  BY <1>1 DEF Offset

LEMMA IndexKinds ==
    ASSUME NEW index \in Indexes \cup {Everything}
    PROVE  \/ index.kind \in {"none", "open"}
           \/ index.kind = "slice" /\ index.start \in Nat /\ index.stop \in Nat /\ index.step \in Nat \ {0}
           \/ index.kind = "items" /\ index.items \in Seq(Int)
BY FeatureStoreAssumption DEF Everything

\* numpy.arange() counts up to the stop and not beyond.
LEMMA ArangeCounts ==
    ASSUME NEW start \in Nat, NEW stop \in Nat, NEW step \in Nat \ {0}
    PROVE  \E n \in Nat :
             /\ Arange(start, stop, step) = [k \in 1..n |-> start + (k - 1) * step]
             /\ \A j \in Nat : j < n <=> start + j * step < stop
<1>1. CASE stop > start
  <2> DEFINE d == stop - start + step - 1
             n == d \div step
  <2>1. PICK x \in Nat : x = d
    BY <1>1
  <2>2. n \in Nat /\ x \div step = n
    BY <2>1, DivBounds
  <2>3. Arange(start, stop, step) = [k \in 1..n |-> start + (k - 1) * step]
    BY <1>1 DEF Arange
  <2> HIDE DEF n
  <2>4. ASSUME NEW j \in Nat
        PROVE  j < n <=> start + j * step < stop
    <3>1. PICK m \in Nat : m = j * step /\ (j + 1) * step = m + step
      OBVIOUS
    <3>2. j + 1 \in Nat
      OBVIOUS
    <3>3. /\ x < (j + 1) * step => n + 1 <= j + 1
          /\ (j + 1) * step <= x => j + 1 <= n
      BY <2>1, <2>2, <3>2, DivBounds
    <3>4. (j + 1) * step <= x <=> start + m < stop
      BY <2>1, <3>1
    <3> QED
      BY <2>1, <2>2, <3>1, <3>3, <3>4
  <2>5. PICK c \in Nat : c = n
    BY <2>2
  <2>6. /\ Arange(start, stop, step) = [k \in 1..c |-> start + (k - 1) * step]
        /\ \A j \in Nat : j < c <=> start + j * step < stop
    BY <2>3, <2>4, <2>5
  <2> QED
    BY <2>6
<1>2. CASE ~(stop > start)
  <2>1. Arange(start, stop, step) = [k \in 1..0 |-> start + (k - 1) * step]
    BY <1>2 DEF Arange
  <2>2. \A j \in Nat : ~(start + j * step < stop)
    <3>1. ASSUME NEW j \in Nat
          PROVE  ~(start + j * step < stop)
      <4>1. PICK m \in Nat : m = j * step
        OBVIOUS
      <4> QED
        BY <1>2, <4>1
    <3> QED
      BY <3>1
  <2>3. PICK n \in Nat : n = 0
    OBVIOUS
  <2>4. /\ Arange(start, stop, step) = [k \in 1..n |-> start + (k - 1) * step]
        /\ \A j \in Nat : j < n <=> start + j * step < stop
    BY <2>1, <2>2, <2>3
  <2> QED
    BY <2>4
<1> QED
  BY <1>1, <1>2

\* The offsets of a slice, if all that it means are of the first b nodes.
LEMMA SliceOffsets ==
    ASSUME NEW index, index.kind = "slice", NEW b \in Nat, Meant(index, b) \subseteq Offset(b),
           index.start \in Nat, index.stop \in Nat, index.step \in Nat \ {0}
    PROVE  /\ \A j \in Nat : index.start + j * index.step < index.stop =>
                j <= b /\ index.start + j * index.step \in Offset(b)
           /\ \A o \in Meant(index, b) : \E j \in Nat :
                o = index.start + j * index.step /\ o < index.stop
<1> DEFINE start == index.start
           stop == index.stop
           step == index.step
<1>1. Meant(index, b) = {start + k * step : k \in 0..b} \cap 0..(stop - 1)
  BY DEF Meant
<1> HIDE DEF start, stop, step
<1>2. start \in Nat /\ stop \in Nat /\ step \in Nat \ {0}
  BY DEF start, stop, step
<1>3. ASSUME NEW j \in Nat, start + j * step < stop, j <= b
      PROVE  start + j * step \in Offset(b)
  <2>1. PICK m \in Nat : m = start + j * step
    BY <1>2
  <2>2. m \in 0..(stop - 1) /\ j \in 0..b
    BY <1>2, <1>3, <2>1
  <2>3. m \in {start + k * step : k \in 0..b}
    BY <2>1, <2>2
  <2>4. m \in Meant(index, b)
    BY <1>1, <2>2, <2>3
  <2> QED
    BY <2>1, <2>4
<1>4. ASSUME NEW j \in Nat, start + j * step < stop
      PROVE  j <= b
  <2>1. SUFFICES ASSUME j > b
                 PROVE  FALSE
    OBVIOUS
  <2>2. PICK m \in Nat, n \in Nat, e \in Nat : m = j * step /\ n = b * step /\ e = j - b
    BY <1>2, <2>1
  <2>3. n <= m /\ b <= n
    <3>1. \A x, y \in Nat : 0 <= x * y
      OBVIOUS
    <3>2. PICK f \in Nat : f = e * step /\ m = n + f
      BY <1>2, <2>2, <3>1
    <3>3. PICK g \in Nat : g = b * (step - 1) /\ n = b + g
      BY <1>2, <2>2, <3>1
    <3> QED
      BY <2>2, <3>2, <3>3
  <2>4. start + b * step < stop
    BY <1>2, <1>4, <2>2, <2>3
  <2>5. start + b * step \in Offset(b)
    BY <1>3, <2>4
  <2> QED
    BY <1>2, <2>2, <2>3, <2>5 DEF Offset
<1>5. ASSUME NEW o \in Meant(index, b)
      PROVE  \E j \in Nat : o = start + j * step /\ o < stop
  <2>1. PICK k \in 0..b : o = start + k * step
    BY <1>1
  <2>2. o \in 0..(stop - 1)
    BY <1>1
  <2> QED
    BY <1>2, <2>1, <2>2
<1> QED
  BY <1>3, <1>4, <1>5 DEF start, stop, step

\* What is read at the offsets a, of what is held.
ReadAt(a, held) == [k \in DOMAIN a |-> IF a[k] \in held THEN a[k] ELSE -1]

Increasing(s) == \A k \in 1..(Len(s) - 1) : s[k] < s[k + 1]
InSteps(s, start, stop, step) ==
    \A o : o \in ToSet(s) <=> \E j \in Nat : o = start + j * step /\ o < stop

\* A scan of all nodes or of a slice reads the offsets of the index in their order.
LEMMA ArangeAgrees ==
    ASSUME NEW start \in Nat, NEW stop \in Nat, NEW step \in Nat \ {0}, NEW s, NEW held,
           s = ReadAt(Arange(start, stop, step), held),
           \A j \in Nat : start + j * step < stop => start + j * step \in held
    PROVE  Increasing(s) /\ InSteps(s, start, stop, step)
<1>1. PICK n \in Nat : /\ Arange(start, stop, step) = [k \in 1..n |-> start + (k - 1) * step]
                       /\ \A j \in Nat : j < n <=> start + j * step < stop
  BY ArangeCounts
<1>2. ASSUME NEW k \in 1..n
      PROVE  /\ start + (k - 1) * step \in held
             /\ start + (k - 1) * step < stop
  <2>1. PICK j \in Nat : j = k - 1 /\ j < n
    OBVIOUS
  <2> QED
    BY <1>1, <2>1
<1>3. s = [k \in 1..n |-> start + (k - 1) * step]
  BY <1>1, <1>2 DEF ReadAt
<1>4. Len(s) = n /\ DOMAIN s = 1..n
  BY <1>3
<1>5. ASSUME NEW k \in 1..(Len(s) - 1)
      PROVE  s[k] < s[k + 1]
  <2>1. PICK j \in Nat : j = k - 1 /\ k + 1 - 1 = j + 1 /\ k \in 1..n /\ k + 1 \in 1..n
    BY <1>4
  <2>2. s[k] = start + j * step /\ s[k + 1] = start + (j + 1) * step
    BY <1>3, <2>1
  <2>3. PICK m \in Nat : m = j * step /\ (j + 1) * step = m + step
    BY <2>1
  <2> QED
    BY <2>2, <2>3
<1>6. ASSUME NEW o
      PROVE  o \in ToSet(s) <=> \E j \in Nat : o = start + j * step /\ o < stop
  <2>1. ASSUME o \in ToSet(s)
        PROVE  \E j \in Nat : o = start + j * step /\ o < stop
    <3>1. PICK k \in 1..n : o = s[k]
      BY <1>4, <2>1 DEF ToSet
    <3>2. PICK j \in Nat : j = k - 1
      OBVIOUS
    <3> QED
      BY <1>2, <1>3, <3>1, <3>2
  <2>2. ASSUME NEW j \in Nat, o = start + j * step, o < stop
        PROVE  o \in ToSet(s)
    <3>1. j + 1 \in 1..n /\ j + 1 - 1 = j
      BY <1>1, <2>2
    <3>2. s[j + 1] = o
      BY <1>3, <2>2, <3>1
    <3> QED
      BY <1>4, <3>1, <3>2 DEF ToSet
  <2> QED
    BY <2>1, <2>2
<1> QED
  BY <1>5, <1>6 DEF Increasing, InSteps

LEMMA ScanAgrees ==
    ASSUME NEW h \in Nat, present = Offset(h), NEW b \in 0..h, request.before = Offset(b),
           request.index \in Indexes \cup {Everything}, request.index.kind # "open",
           request.index.kind = "none" => request.size \in b..h, NEW tensor,
           tensor.how = "scan", tensor.of = request, tensor.after = present,
           tensor.items = ReadAt(Offsets, present)
    PROVE  Agrees(tensor)
<1> DEFINE index == request.index
           s == tensor.items
<1>1. Cardinality(tensor.of.before) = b /\ Cardinality(tensor.after) = h /\ b \in Nat
  BY OffsetsSize
<1>2. Offset(b) \subseteq Offset(h) /\ Offset(h) = 0..(h - 1) /\ Offset(b) = 0..(b - 1)
  BY DEF Offset
<1> SUFFICES ASSUME Meant(index, b) \subseteq Offset(b)
             PROVE  /\ Meant(index, b) \subseteq ToSet(s) /\ ToSet(s) \subseteq Meant(index, h)
                    /\ IF index.kind = "items" THEN s = index.items
                       ELSE Increasing(s)
  BY <1>1 DEF Agrees, Increasing
<1>3. CASE index.kind = "none"
  <2>1. PICK n \in b..h : n = request.size
    BY <1>3
  <2>2. Offsets = Arange(0, n, 1) /\ n \in Nat
    BY <1>3, <2>1 DEF Offsets
  <2>3. \A j \in Nat : 0 + j * 1 < n => 0 + j * 1 \in present
    BY <1>2, <2>1
  <2>4. Increasing(s) /\ InSteps(s, 0, n, 1)
    BY <2>2, <2>3, ArangeAgrees
  <2>5. Meant(index, b) = 0..(b - 1) /\ Meant(index, h) = 0..(h - 1)
    BY <1>3 DEF Meant
  <2> HIDE DEF s, index
  <2>6. \A o : o \in ToSet(s) <=> o \in 0..(n - 1)
    <3>1. ASSUME NEW o
          PROVE  (\E j \in Nat : o = 0 + j * 1 /\ o < n) <=> o \in 0..(n - 1)
      BY <2>2
    <3> QED
      BY <2>4, <3>1 DEF InSteps
  <2> QED
    BY <1>3, <2>1, <2>4, <2>5, <2>6
<1>4. CASE index.kind = "slice"
  <2>1. index.start \in Nat /\ index.stop \in Nat /\ index.step \in Nat \ {0}
    BY <1>4, IndexKinds
  <2>2. Offsets = Arange(index.start, index.stop, index.step)
    BY <1>4 DEF Offsets
  <2>3. /\ \A j \in Nat : index.start + j * index.step < index.stop =>
             j <= b /\ index.start + j * index.step \in Offset(b)
        /\ \A o \in Meant(index, b) : \E j \in Nat :
             o = index.start + j * index.step /\ o < index.stop
    BY <1>1, <1>4, <2>1, SliceOffsets
  <2>4. \A j \in Nat : index.start + j * index.step < index.stop => index.start + j * index.step \in present
    BY <1>2, <2>3
  <2>5. Increasing(s) /\ InSteps(s, index.start, index.stop, index.step)
    BY <2>1, <2>2, <2>4, ArangeAgrees
  <2>6. Meant(index, h) = {index.start + k * index.step : k \in 0..h} \cap 0..(index.stop - 1)
    BY <1>4 DEF Meant
  <2> HIDE DEF s, index
  <2>7. ASSUME NEW o \in ToSet(s)
        PROVE  o \in Meant(index, h)
    <3>1. PICK j \in Nat : o = index.start + j * index.step /\ o < index.stop
      BY <2>5 DEF InSteps
    <3>2. j <= b /\ o \in Offset(b)
      BY <2>3, <3>1
    <3>3. j \in 0..h /\ o \in 0..(index.stop - 1)
      BY <1>1, <1>2, <2>1, <3>1, <3>2
    <3> QED
      BY <2>6, <3>1, <3>3
  <2>8. Meant(index, b) \subseteq ToSet(s)
    BY <2>3, <2>5 DEF InSteps
  <2> QED
    BY <1>4, <2>5, <2>7, <2>8
<1>5. CASE index.kind = "items"
  <2>1. index.items \in Seq(Int)
    BY <1>5, IndexKinds
  <2>2. Offsets = index.items
    BY <1>5 DEF Offsets
  <2>3. Meant(index, b) = ToSet(index.items) /\ Meant(index, h) = ToSet(index.items)
    BY <1>5 DEF Meant
  <2>4. \A k \in DOMAIN index.items : index.items[k] \in present
    BY <1>2, <2>1, <2>3 DEF ToSet
  <2>5. s = index.items
    BY <2>1, <2>2, <2>4 DEF ReadAt
  <2> QED
    BY <1>5, <2>3, <2>5
<1> QED
  BY <1>3, <1>4, <1>5, IndexKinds

LEMMA QueryAgrees ==
    ASSUME NEW h \in Nat, present = Offset(h), NEW b \in 0..h, request.before = Offset(b),
           request.index \in Indexes \cup {Everything}, request.index.kind # "open",
           NEW matched, matched = {o \in present : Matches(o, request.index)},
           NEW tensor, tensor.how = "query", tensor.of = request, tensor.after = present,
           tensor.items \in SetToSeqs(matched)
    PROVE  Agrees(tensor)
<1> DEFINE index == request.index
           s == tensor.items
<1>1. Cardinality(tensor.of.before) = b /\ Cardinality(tensor.after) = h /\ b \in Nat
  BY OffsetsSize
<1>2. Offset(b) \subseteq Offset(h) /\ Offset(h) = 0..(h - 1) /\ Offset(b) = 0..(b - 1)
  BY DEF Offset
<1>3. IsInjective(s) /\ ToSet(s) = matched
  <2>1. IsFiniteSet(matched)
    <3>1. IsFiniteSet(present) /\ matched \in SUBSET present
      BY OffsetsSize
    <3> QED
      BY <3>1, FS_Subset
  <2>2. s \in Bijection(1..Cardinality(matched), matched) /\ DOMAIN s = 1..Cardinality(matched)
    BY <2>1, SeqsOfSet
  <2> HIDE DEF s
  <2> QED
    BY <2>2 DEF Bijection, Injection, Surjection, ToSet
<1> SUFFICES ASSUME Meant(index, b) \subseteq Offset(b)
             PROVE  Meant(index, b) \subseteq matched /\ matched \subseteq Meant(index, h)
  BY <1>1, <1>3 DEF Agrees
<1>4. CASE index.kind = "none"
  BY <1>2, <1>4 DEF Meant, Matches
<1>5. CASE index.kind = "slice"
  <2>1. index.start \in Nat /\ index.stop \in Nat /\ index.step \in Nat \ {0}
    BY <1>5, IndexKinds
  <2>2. \A o \in Meant(index, b) : \E j \in Nat : o = index.start + j * index.step /\ o < index.stop
    BY <1>1, <1>5, <2>1, SliceOffsets
  <2>3. Meant(index, h) = {index.start + k * index.step : k \in 0..h} \cap 0..(index.stop - 1)
    BY <1>5 DEF Meant
  <2>4. \A o \in present : o \in matched <=>
          o >= index.start /\ o < index.stop /\ (o - index.start) % index.step = 0
    BY <1>5 DEF Matches
  <2> HIDE DEF index
  <2>5. ASSUME NEW o \in Meant(index, b)
        PROVE  o \in matched
    <3>1. PICK j \in Nat : o = index.start + j * index.step /\ o < index.stop
      BY <2>2
    <3>2. PICK m \in Nat : m = j * index.step /\ o = index.start + m /\ o - index.start = m
      BY <2>1, <3>1
    <3>3. m % index.step = 0
      BY <2>1, <3>2, DivExact
    <3>4. o \in present /\ o >= index.start
      BY <1>2, <2>1, <3>2
    <3> QED
      BY <2>4, <3>1, <3>2, <3>3, <3>4
  <2>6. ASSUME NEW o \in matched
        PROVE  o \in Meant(index, h)
    <3>1. o \in 0..(h - 1) /\ o >= index.start /\ o < index.stop /\ (o - index.start) % index.step = 0
      BY <1>2, <2>4
    <3>2. PICK m \in Nat : m = o - index.start /\ m < h
      BY <2>1, <3>1
    <3>3. PICK q \in Nat : q = m \div index.step
      BY <2>1, <3>2, DivBounds
    <3>4. m = q * index.step
      BY <2>1, <3>1, <3>2, <3>3, DivExact
    <3>5. q <= m
      <4>1. \A x \in Nat, y \in Nat \ {0} : x <= x * y
        <5>1. ASSUME NEW x \in Nat, NEW y \in Nat \ {0}
              PROVE  x <= x * y
          <6>1. PICK z \in Nat : z = y - 1 /\ x * y = x * z + x
            OBVIOUS
          <6>2. 0 <= x * z
            OBVIOUS
          <6> QED
            BY <6>1, <6>2
        <5> QED
          BY <5>1
      <4> QED
        BY <2>1, <3>4, <4>1
    <3>6. q \in 0..h /\ o = index.start + q * index.step /\ o \in 0..(index.stop - 1)
      BY <2>1, <3>1, <3>2, <3>4, <3>5
    <3> QED
      BY <2>3, <3>6
  <2> QED
    BY <2>5, <2>6
<1>6. CASE index.kind = "items"
  BY <1>2, <1>6 DEF Meant, Matches
<1> QED
  BY <1>4, <1>5, <1>6, IndexKinds

-----------------------------------------------------------------------------
(* The steps.                                                              *)

LEMMA AddNodeStep ==
    ASSUME FeatureInv, AddNode
    PROVE  FeatureInv'
<1>1. /\ highest < MaxOffset /\ present' = present \cup {highest} /\ highest' = highest + 1
      /\ UNCHANGED <<schema, intact, cache, request, answer, requests>>
  BY DEF AddNode
<1>2. highest \in Nat /\ highest' \in 0..MaxOffset /\ MaxOffset \in Nat
  BY <1>1, FeatureStoreAssumption DEF FeatureInv, FeatureTyped
<1>3. Offset(highest') = Offset(highest) \cup {highest} /\ 0..highest \subseteq 0..highest'
  BY <1>1, <1>2 DEF Offset
<1>4. FeatureTyped'
  <2>1. present' \subseteq Offset(highest)'
    BY <1>1, <1>3 DEF FeatureInv, FeatureTyped
  <2> QED
    BY <1>1, <1>2, <2>1 DEF FeatureInv, FeatureTyped
<1>5. Dense'
  BY <1>1, <1>3 DEF FeatureInv, Dense
<1>6. RequestInOrder'
  <2>1. CASE request = NoRequest
    BY <1>1, <2>1 DEF RequestInOrder
  <2>2. CASE Request
    <3>1. ASSUME intact
          PROVE  \E b \in 0..highest' :
                   /\ request.before = Offset(b)
                   /\ request.step = "scan" /\ request.index.kind = "none" => request.size \in b..highest'
      <4>1. PICK b \in 0..highest :
              /\ request.before = Offset(b)
              /\ request.step = "scan" /\ request.index.kind = "none" => request.size \in b..highest
        BY <2>2, <3>1 DEF Request
      <4>2. b \in 0..highest' /\ b..highest \subseteq b..highest'
        BY <1>1, <1>2
      <4> QED
        BY <4>1, <4>2
    <3>2. Request'
      BY <1>1, <2>2, <3>1 DEF Request
    <3> QED
      BY <3>2 DEF RequestInOrder
  <2> QED
    BY <2>1, <2>2 DEF FeatureInv, RequestInOrder
<1>7. AnswerAgrees'
  BY <1>1 DEF FeatureInv, AnswerAgrees
<1> QED
  BY <1>4, <1>5, <1>6, <1>7 DEF FeatureInv

\* A node is deleted, or the table is dropped: nothing is promised any more.
LEMMA NotIntact ==
    ASSUME FeatureInv, intact' = FALSE, highest' \in 0..MaxOffset, present' \subseteq Offset(highest'),
           schema' \in Schemas, UNCHANGED <<cache, request, answer, requests>>
    PROVE  FeatureInv'
<1>1. cache' = cache /\ request' = request /\ answer' = answer /\ requests' = requests /\ ~intact'
  OBVIOUS
<1>2. FeatureTyped'
  BY <1>1 DEF FeatureInv, FeatureTyped
<1>3. Dense' /\ AnswerAgrees'
  BY <1>1 DEF Dense, AnswerAgrees
<1>4. RequestInOrder'
  BY <1>1 DEF FeatureInv, RequestInOrder, Request
<1> QED
  BY <1>2, <1>3, <1>4 DEF FeatureInv

LEMMA DeleteNodeStep ==
    ASSUME FeatureInv, NEW offset, DeleteNode(offset)
    PROVE  FeatureInv'
<1>1. /\ present' = present \ {offset} /\ intact' = FALSE
      /\ UNCHANGED <<schema, highest, cache, request, answer, requests>>
  BY DEF DeleteNode
<1>2. highest' \in 0..MaxOffset /\ present' \subseteq Offset(highest') /\ schema' \in Schemas
  BY <1>1 DEF FeatureInv, FeatureTyped
<1> QED
  BY <1>1, <1>2, NotIntact

LEMMA DropAndCreateStep ==
    ASSUME FeatureInv, NEW other \in Schemas, DropAndCreate(other)
    PROVE  FeatureInv'
<1>1. /\ schema' = other /\ present' = {} /\ highest' = 0 /\ intact' = FALSE
      /\ UNCHANGED <<cache, request, answer, requests>>
  BY DEF DropAndCreate
<1>2. highest' \in 0..MaxOffset /\ present' \subseteq Offset(highest')
  BY <1>1, FeatureStoreAssumption
<1> QED
  BY <1>1, <1>2, NotIntact

\* The client's steps leave the nodes alone.
LEMMA NodesStay ==
    ASSUME FeatureInv, UNCHANGED <<schema, present, highest, intact>>
    PROVE  /\ highest' \in 0..MaxOffset /\ present' \subseteq Offset(highest)' /\ Dense'
           /\ highest \in Nat /\ schema' \in Schemas
BY FeatureStoreAssumption DEF FeatureInv, FeatureTyped, Dense

LEMMA BeginStep ==
    ASSUME FeatureInv, NEW name, NEW index \in Indexes \cup {Everything}, NEW step,
           step # "scan", Begin(name, index, step)
    PROVE  FeatureInv'
<1> DEFINE new == [step |-> step, attr |-> name, index |-> index, size |-> -1, before |-> present]
<1>1. /\ request' = new /\ requests < MaxRequests /\ requests' = requests + 1 /\ answer' = NoAnswer
      /\ UNCHANGED <<schema, present, highest, intact, cache>>
  BY DEF Begin, databaseVars
<1>2. /\ highest' \in 0..MaxOffset /\ present' \subseteq Offset(highest)' /\ Dense'
      /\ highest \in Nat /\ schema' \in Schemas
  BY <1>1, NodesStay
<1>3. FeatureTyped'
  BY <1>1, <1>2, FeatureStoreAssumption DEF FeatureInv, FeatureTyped, NoAnswer
<1>4. Request'
  <2>1. /\ request' = [step |-> request'.step, attr |-> request'.attr, index |-> request'.index,
                       size |-> request'.size, before |-> request'.before]
        /\ request'.index = index /\ request'.step = step /\ request'.before = present
    BY <1>1
  <2>2. intact' => request'.before = Offset(highest)
    BY <1>1, <2>1 DEF FeatureInv, Dense
  <2>3. intact' => \E b \in 0..highest' :
          /\ request'.before = Offset(b)
          /\ request'.step = "scan" /\ request'.index.kind = "none" => request'.size \in b..highest'
    <3>1. highest \in 0..highest'
      BY <1>1, <1>2
    <3> QED
      BY <2>1, <2>2, <3>1
  <2> QED
    BY <2>1, <2>3 DEF Request
<1>5. AnswerAgrees'
  BY <1>1 DEF AnswerAgrees, NoAnswer
<1> QED
  BY <1>2, <1>3, <1>4, <1>5 DEF FeatureInv, RequestInOrder

\* A request ends with an answer that holds what it promises.
LEMMA TensorAnswerStep ==
    ASSUME FeatureInv, NEW a, Answer(a), a.kind \in {"error", "size", "tensor"},
           a.kind = "tensor" /\ intact => Agrees(a),
           cache' \in Schemas \cup {Unknown}, UNCHANGED <<schema, present, highest, intact, requests>>
    PROVE  FeatureInv'
<1>1. request' = NoRequest /\ answer' = a /\ requests' = requests
  BY DEF Answer
<1>2. /\ highest' \in 0..MaxOffset /\ present' \subseteq Offset(highest)' /\ Dense'
      /\ schema' \in Schemas
  BY NodesStay
<1>3. FeatureTyped'
  BY <1>1, <1>2 DEF FeatureInv, FeatureTyped
<1>4. AnswerAgrees'
  BY <1>1 DEF AnswerAgrees
<1>5. RequestInOrder'
  BY <1>1 DEF RequestInOrder
<1> QED
  BY <1>2, <1>3, <1>4, <1>5 DEF FeatureInv

LEMMA ErrorStep ==
    ASSUME FeatureInv, NEW what, Error(what), cache' \in Schemas \cup {Unknown},
           UNCHANGED <<schema, present, highest, intact, requests>>
    PROVE  FeatureInv'
<1> DEFINE a == [kind |-> "error", what |-> what]
<1>1. Answer(a)
  BY DEF Error
<1>2. a.kind \in {"error", "size", "tensor"} /\ ~(a.kind = "tensor")
  OBVIOUS
<1> QED
  BY <1>1, <1>2, TensorAnswerStep

\* A request goes on to its next step.
LEMMA RequestGoesOn ==
    ASSUME FeatureInv, Request, NEW step,
           request' = [step |-> step, attr |-> request.attr, index |-> request.index,
                       size |-> request'.size, before |-> request.before],
           step = "scan" /\ request.index.kind = "none" /\ intact => request'.size = Cardinality(present),
           answer' = answer, cache' \in Schemas \cup {Unknown},
           UNCHANGED <<schema, present, highest, intact, requests>>
    PROVE  FeatureInv'
<1>1. /\ highest' \in 0..MaxOffset /\ present' \subseteq Offset(highest)' /\ Dense'
      /\ highest \in Nat /\ schema' \in Schemas
  BY NodesStay
<1>2. FeatureTyped'
  BY <1>1 DEF FeatureInv, FeatureTyped
<1>3. AnswerAgrees'
  BY DEF FeatureInv, AnswerAgrees
<1>4. /\ request'.step = step /\ request'.index = request.index /\ request'.before = request.before
      /\ request'.attr = request.attr
  OBVIOUS
<1>5. ASSUME intact
      PROVE  \E b \in 0..highest :
               /\ request'.before = Offset(b)
               /\ request'.step = "scan" /\ request'.index.kind = "none" => request'.size \in b..highest
  <2>1. PICK b \in 0..highest : request.before = Offset(b)
    BY <1>5 DEF Request
  <2>2. Cardinality(present) = highest
    BY <1>1, <1>5, OffsetsSize DEF FeatureInv, Dense
  <2>3. highest \in b..highest
    BY <1>1
  <2> QED
    BY <1>4, <1>5, <2>1, <2>2, <2>3
<1>6. Request'
  BY <1>4, <1>5 DEF Request
<1> QED
  BY <1>1, <1>2, <1>3, <1>6 DEF FeatureInv, RequestInOrder

LEMMA CacheKnown ==
    ASSUME FeatureInv, cache' = IF cache = Unknown THEN schema ELSE cache
    PROVE  cache' \in Schemas \cup {Unknown}
BY DEF FeatureInv, FeatureTyped

LEMMA LookUpStep ==
    ASSUME FeatureInv, LookUp
    PROVE  FeatureInv'
<1> DEFINE name == request.attr
           info == cache'[name]
           next == IF ~Scannable(info) THEN "query"
                   ELSE IF request.index.kind = "none" THEN "countScan" ELSE "scan"
<1>0. Request
  <2>1. request.step \in {"lookup", "shape"}
    BY DEF LookUp
  <2> QED
    BY <2>1 DEF FeatureInv, RequestInOrder, NoRequest
<1>1. /\ request.step \in {"lookup", "shape"}
      /\ cache' = IF cache = Unknown THEN schema ELSE cache
      /\ UNCHANGED <<schema, present, highest, intact, requests>>
      /\ \/ Error("not found") \/ Error("KeyError")
         \/ \E shape : Answer([kind |-> "size", length |-> request.size, shape |-> shape])
         \/ request' = [request EXCEPT !.step = next] /\ UNCHANGED answer
  BY DEF LookUp, databaseVars
<1>2. cache' \in Schemas \cup {Unknown}
  BY <1>1, CacheKnown
<1>3. CASE \E what : Error(what)
  BY <1>1, <1>2, <1>3, ErrorStep
<1>4. CASE \E shape : Answer([kind |-> "size", length |-> request.size, shape |-> shape])
  <2>0. PICK shape : Answer([kind |-> "size", length |-> request.size, shape |-> shape])
    BY <1>4
  <2>1. PICK a : a = [kind |-> "size", length |-> request.size, shape |-> shape] /\ Answer(a)
    BY <2>0
  <2>2. a.kind = "size"
    BY <2>1
  <2>3. UNCHANGED <<schema, present, highest, intact, requests>>
    BY <1>1
  <2> QED
    BY <1>2, <2>1, <2>2, <2>3, TensorAnswerStep
<1>5. CASE request' = [request EXCEPT !.step = next] /\ UNCHANGED answer
  <2>1. Request
    BY <1>0
  <2>2. PICK step : step = next /\ (step = "scan" => request.index.kind # "none")
    OBVIOUS
  <2> HIDE DEF next
  <2>3. request' = [step |-> step, attr |-> request.attr, index |-> request.index,
                    size |-> request.size, before |-> request.before]
    BY <1>5, <2>1, <2>2 DEF Request
  <2>4. request'.size = request.size
    BY <2>3
  <2> QED
    BY <1>1, <1>2, <1>5, <2>1, <2>2, <2>3, <2>4, RequestGoesOn
<1> QED
  BY <1>1, <1>3, <1>4, <1>5

LEMMA CountNodesStep ==
    ASSUME FeatureInv, CountNodes
    PROVE  FeatureInv'
<1> DEFINE next == IF request.step = "count" THEN "shape" ELSE "scan"
<1>1. /\ request.step \in {"count", "countScan"}
      /\ UNCHANGED <<schema, present, highest, intact, cache, answer, requests>>
  BY DEF CountNodes, databaseVars
<1>2. request' = [request EXCEPT !.size = Cardinality(present), !.step = next]
  BY DEF CountNodes
<1>3. Request
  BY <1>1 DEF FeatureInv, RequestInOrder, NoRequest
<1>4. PICK step, size : step = next /\ size = Cardinality(present)
  OBVIOUS
<1> HIDE DEF next
<1>5. request' = [step |-> step, attr |-> request.attr, index |-> request.index,
                  size |-> size, before |-> request.before]
  <2>1. PICK sized : sized = [request EXCEPT !.size = size]
    OBVIOUS
  <2>2. request' = [sized EXCEPT !.step = step]
    BY <1>2, <1>4, <2>1, Zenon
  <2>3. sized = [step |-> request.step, attr |-> request.attr, index |-> request.index,
                 size |-> size, before |-> request.before]
    BY <1>3, <2>1 DEF Request
  <2> QED
    BY <2>2, <2>3
<1>6. request'.size = size /\ cache' \in Schemas \cup {Unknown}
  BY <1>1, <1>5 DEF FeatureInv, FeatureTyped
<1> QED
  BY <1>1, <1>3, <1>4, <1>5, <1>6, RequestGoesOn

LEMMA FailStep ==
    ASSUME FeatureInv, FailScan \/ FailQuery
    PROVE  FeatureInv'
<1>1. /\ \E what : Error(what)
      /\ UNCHANGED <<schema, present, highest, intact, cache, requests>>
  BY DEF FailScan, FailQuery, databaseVars
<1>2. cache' \in Schemas \cup {Unknown}
  BY <1>1 DEF FeatureInv, FeatureTyped
<1> QED
  BY <1>1, <1>2, ErrorStep

\* What the nodes were when the request began, and are now.
LEMMA NodesSince ==
    ASSUME FeatureInv, Request, intact
    PROVE  /\ highest \in Nat /\ present = Offset(highest)
           /\ request.index \in Indexes \cup {Everything}
           /\ \E b \in 0..highest :
                /\ request.before = Offset(b)
                /\ request.step = "scan" /\ request.index.kind = "none" => request.size \in b..highest
BY FeatureStoreAssumption DEF FeatureInv, FeatureTyped, Dense, Request

LEMMA ScanTableStep ==
    ASSUME FeatureInv, ScanTable
    PROVE  FeatureInv'
<1> DEFINE info == cache[request.attr]
           a == [kind |-> "tensor", how |-> "scan", of |-> request, after |-> present,
                 items |-> [k \in DOMAIN Offsets |-> IF Offsets[k] \in present THEN Offsets[k] ELSE -1],
                 shape |-> info.shape]
<1>1. /\ request.step = "scan" /\ request.index.kind # "open" /\ Answer(a)
      /\ UNCHANGED <<schema, present, highest, intact, cache, requests>>
  BY DEF ScanTable, databaseVars
<1>2. Request
  BY <1>1 DEF FeatureInv, RequestInOrder, NoRequest
<1>3. /\ a.kind = "tensor" /\ a.how = "scan" /\ a.of = request /\ a.after = present
      /\ a.items = ReadAt(Offsets, present)
  BY DEF ReadAt
<1> HIDE DEF a
<1>4. ASSUME intact
      PROVE  Agrees(a)
  BY <1>1, <1>2, <1>3, <1>4, NodesSince, ScanAgrees
<1>5. cache' \in Schemas \cup {Unknown}
  BY <1>1 DEF FeatureInv, FeatureTyped
<1> QED
  BY <1>1, <1>3, <1>4, <1>5, TensorAnswerStep

LEMMA QueryStep ==
    ASSUME FeatureInv, Query
    PROVE  FeatureInv'
<1> DEFINE matched == {o \in present : Matches(o, request.index)}
           a(read) == [kind |-> "tensor", how |-> "query", of |-> request, after |-> present,
                       items |-> read, shape |-> <<>>]
<1>1. /\ request.step = "query" /\ request.index.kind # "open"
      /\ (\E read \in SetToSeqs(matched) : Answer(a(read))) \/ Error("query")
      /\ UNCHANGED <<schema, present, highest, intact, cache, requests>>
  BY DEF Query, databaseVars
<1>2. Request
  BY <1>1 DEF FeatureInv, RequestInOrder, NoRequest
<1>3. cache' \in Schemas \cup {Unknown}
  BY <1>1 DEF FeatureInv, FeatureTyped
<1>4. CASE Error("query")
  BY <1>1, <1>3, <1>4, ErrorStep
<1>5. ASSUME NEW read \in SetToSeqs(matched), Answer(a(read))
      PROVE  FeatureInv'
  <2> DEFINE tensor == a(read)
  <2>1. /\ tensor.kind = "tensor" /\ tensor.how = "query" /\ tensor.of = request
        /\ tensor.after = present /\ tensor.items = read
    OBVIOUS
  <2>2. matched = {o \in present : Matches(o, request.index)}
    OBVIOUS
  <2>3. Answer(tensor)
    BY <1>5
  <2> HIDE DEF tensor, matched, a
  <2>4. tensor.items \in SetToSeqs(matched)
    BY <1>5, <2>1
  <2>5. ASSUME intact
        PROVE  Agrees(tensor)
    BY <1>1, <1>2, <2>1, <2>2, <2>4, <2>5, NodesSince, QueryAgrees
  <2> QED
    BY <1>1, <1>3, <2>1, <2>3, <2>5, TensorAnswerStep
<1> QED
  BY <1>1, <1>4, <1>5

LEMMA AllTensorAttrsStep ==
    ASSUME FeatureInv, AllTensorAttrs
    PROVE  FeatureInv'
<1>1. /\ request = NoRequest /\ requests < MaxRequests /\ requests' = requests + 1
      /\ cache' = IF cache = Unknown THEN schema ELSE cache
      /\ answer' = [kind |-> "attrs", attrs |-> {a \in DOMAIN cache' : Scannable(cache'[a])}]
      /\ UNCHANGED <<schema, present, highest, intact, request>>
  BY DEF AllTensorAttrs, databaseVars
<1>2. /\ highest' \in 0..MaxOffset /\ present' \subseteq Offset(highest)' /\ Dense'
      /\ schema' \in Schemas
  BY <1>1, NodesStay
<1>3. cache' \in Schemas \cup {Unknown} /\ answer'.kind = "attrs"
  BY <1>1, CacheKnown
<1>4. FeatureTyped'
  BY <1>1, <1>2, <1>3, FeatureStoreAssumption DEF FeatureInv, FeatureTyped
<1>5. RequestInOrder' /\ AnswerAgrees'
  BY <1>1, <1>3 DEF RequestInOrder, AnswerAgrees
<1> QED
  BY <1>2, <1>4, <1>5 DEF FeatureInv

LEMMA FeaturesBegin ==
    ASSUME FeatureInit
    PROVE  FeatureInv
BY FeatureStoreAssumption DEF FeatureInit, FeatureInv, FeatureTyped, Dense, RequestInOrder, AnswerAgrees,
   NoAnswer, Offset

LEMMA FeaturesStep ==
    ASSUME FeatureInv, [FeatureNext]_featureVars
    PROVE  FeatureInv'
<1>1. CASE AddNode
  BY <1>1, AddNodeStep
<1>2. CASE \E offset \in 0..(MaxOffset - 1) : DeleteNode(offset)
  BY <1>2, DeleteNodeStep
<1>3. CASE \E other \in Schemas : DropAndCreate(other)
  BY <1>3, DropAndCreateStep
<1>4. CASE \E name \in AttrNames : GetTensorSize(name)
  <2>1. PICK name : Begin(name, Everything, "count")
    BY <1>4 DEF GetTensorSize, Everything
  <2>2. Everything \in Indexes \cup {Everything} /\ "count" # "scan"
    OBVIOUS
  <2> QED
    BY <2>1, <2>2, BeginStep
<1>5. CASE \E name \in AttrNames, index \in Indexes : GetTensor(name, index)
  <2>1. PICK name \in AttrNames, index \in Indexes : GetTensor(name, index)
    BY <1>5
  <2>2. Begin(name, index, "lookup") /\ index \in Indexes \cup {Everything} /\ "lookup" # "scan"
    BY <2>1 DEF GetTensor
  <2> QED
    BY <2>2, BeginStep
<1>6. CASE LookUp
  BY <1>6, LookUpStep
<1>7. CASE CountNodes
  BY <1>7, CountNodesStep
<1>8. CASE FailScan \/ FailQuery
  BY <1>8, FailStep
<1>9. CASE ScanTable
  BY <1>9, ScanTableStep
<1>10. CASE Query
  BY <1>10, QueryStep
<1>11. CASE AllTensorAttrs
  BY <1>11, AllTensorAttrsStep
<1>12. CASE UNCHANGED featureVars
  <2>1. UNCHANGED <<schema, present, highest, intact, cache, request, answer, requests>>
    BY <1>12 DEF featureVars, databaseVars
  <2>2. FeatureTyped' /\ Dense' /\ AnswerAgrees'
    BY <2>1 DEF FeatureInv, FeatureTyped, Dense, AnswerAgrees
  <2>3. RequestInOrder'
    BY <2>1 DEF FeatureInv, RequestInOrder, Request
  <2> QED
    BY <2>2, <2>3 DEF FeatureInv
<1> QED
  BY <1>1, <1>2, <1>3, <1>4, <1>5, <1>6, <1>7, <1>8, <1>9, <1>10, <1>11, <1>12 DEF FeatureNext

LEMMA FeatureInvImplies ==
    ASSUME FeatureInv
    PROVE  FeatureTypeOK /\ IndexPathsAgree
<1>1. FeatureTypeOK
  BY DEF FeatureInv, FeatureTyped, FeatureTypeOK, Offset
<1>2. IndexPathsAgree
  BY DEF FeatureInv, AnswerAgrees, Agrees, IndexPathsAgree
<1> QED
  BY <1>1, <1>2

\* Whatever other connections do to the table, the proof's invariant holds.
THEOREM FeaturesInvariance == FeatureSpec => []FeatureInv
<1>1. FeatureInit => FeatureInv
  BY FeaturesBegin
<1>2. FeatureInv /\ [FeatureNext]_featureVars => FeatureInv'
  BY FeaturesStep
<1> QED
  BY <1>1, <1>2, PTL DEF FeatureSpec

\* The store's state is what its calls may make of it.
THEOREM FeaturesTypeCorrect == FeatureSpec => []FeatureTypeOK
BY FeaturesInvariance, FeatureInvImplies, PTL

\* An index means the same nodes whether the storage is scanned (__get_tensor_by_scan) or
\* a query is asked (__get_tensor_by_query).
THEOREM IndexPathsMeet == FeatureSpec => []IndexPathsAgree
BY FeaturesInvariance, FeatureInvImplies, PTL
=============================================================================
