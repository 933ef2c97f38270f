--------------------------- MODULE OversizeProofs ---------------------------
(***************************************************************************)
(* Proofs about Oversize, for batches and key plans of any size and all    *)
(* limits.                                                                 *)
(***************************************************************************)
EXTENDS Oversize, Extrema, SequenceTheorems, TLAPS

-----------------------------------------------------------------------------
(***************************************************************************)
(* Sequences.                                                              *)
(***************************************************************************)
LEMMA SeqFacts ==
  ASSUME NEW s, IsSeq(s)
  PROVE  /\ Len(s) \in Nat /\ DOMAIN s = 1..Len(s)
         /\ \A S : (\A i \in 1..Len(s) : s[i] \in S) => s \in Seq(S)
<1>1. Len(s) \in Nat /\ DOMAIN s = 1..Len(s)
  BY LenProperties DEF IsSeq
<1>2. ASSUME NEW S, \A i \in 1..Len(s) : s[i] \in S
      PROVE  s \in Seq(S)
  <2>1. ToSet(s) \subseteq S
    BY <1>1, <1>2 DEF ToSet
  <2>2. QED
    BY <2>1, SeqMonotonic DEF IsSeq
<1>3. QED
  BY <1>1, <1>2

\* A sequence over any set is one over its own elements.
LEMMA SeqOver ==
  ASSUME NEW S, NEW s \in Seq(S)
  PROVE  IsSeq(s)
<1>1. Len(s) \in Nat /\ DOMAIN s = 1..Len(s) /\ s \in [1..Len(s) -> S]
  BY LenProperties
<1>2. s \in [1..Len(s) -> ToSet(s)]
  BY <1>1 DEF ToSet
<1>3. QED
  BY <1>1, <1>2, SeqDef DEF IsSeq

-----------------------------------------------------------------------------
(***************************************************************************)
(* Flattening of sequences of sequences.                                   *)
(***************************************************************************)
\* f flattens longer and longer prefixes of ss.
Flattening(f, ss, m) ==
  /\ f = [i \in 1..m |-> f[i]]
  /\ \A i \in 1..m : f[i] = IF i = 1 THEN ss[i] ELSE f[i - 1] \o ss[i]

LEMMA FlatteningExists ==
  ASSUME NEW ss, NEW m \in Nat
  PROVE  \E f : Flattening(f, ss, m)
<1> DEFINE Bad == {k \in 0..m : ~\E f : Flattening(f, ss, k)}
<1>1. SUFFICES ASSUME Bad # {} PROVE FALSE
  <2>1. m \in 0..m
    OBVIOUS
  <2>2. QED
    BY <2>1
<1>2. PICK k \in Bad : \A j \in Bad : k <= j
  <2>1. Bad \in SUBSET Nat
    OBVIOUS
  <2> HIDE DEF Bad
  <2>2. QED
    BY <1>1, <2>1, LeastNatural
<1>3. k \in 0..m /\ ~\E f : Flattening(f, ss, k)
  OBVIOUS
<1>4. CASE k = 0
  <2> DEFINE f == [i \in 1..k |-> 0]
  <2>1. Flattening(f, ss, k)
    BY <1>4 DEF Flattening
  <2>2. QED
    BY <1>3, <2>1
<1>5. CASE k # 0
  <2>1. k - 1 \in 0..m /\ k - 1 \notin Bad
    BY <1>2, <1>3, <1>5
  <2>2. PICK g : Flattening(g, ss, k - 1)
    BY <2>1
  <2> DEFINE f == [i \in 1..k |->
                     IF i < k THEN g[i]
                     ELSE IF i = 1 THEN ss[i] ELSE g[i - 1] \o ss[i]]
  <2>3. ASSUME NEW i \in 1..k
        PROVE  f[i] = IF i = 1 THEN ss[i] ELSE f[i - 1] \o ss[i]
    <3>1. CASE i < k
      <4>1. i \in 1..(k - 1) /\ (i # 1 => i - 1 \in 1..(k - 1) /\ i - 1 \in 1..k)
        BY <1>3, <3>1
      <4>2. QED
        BY <2>2, <3>1, <4>1, Zenon DEF Flattening
    <3>2. CASE i = k
      <4>1. i # 1 => i - 1 \in 1..k /\ i - 1 < k
        BY <1>3, <3>2
      <4>2. QED
        BY <1>3, <3>2, <4>1
    <3>3. QED
      BY <1>3, <3>1, <3>2
  <2>4. f = [i \in 1..k |-> f[i]]
    OBVIOUS
  <2> HIDE DEF f
  <2>5. Flattening(f, ss, k)
    BY <2>3, <2>4, Zenon DEF Flattening
  <2>6. QED
    BY <1>3, <2>5
<1>6. QED
  BY <1>4, <1>5

LEMMA FlatteningUnique ==
  ASSUME NEW ss, NEW m \in Nat, NEW f, NEW g,
         Flattening(f, ss, m), Flattening(g, ss, m)
  PROVE  \A i \in 1..m : f[i] = g[i]
<1> DEFINE Bad == {i \in 1..m : f[i] # g[i]}
<1>1. SUFFICES ASSUME Bad # {} PROVE FALSE
  OBVIOUS
<1>2. PICK i \in Bad : \A j \in Bad : i <= j
  <2>1. Bad \in SUBSET Nat
    OBVIOUS
  <2> HIDE DEF Bad
  <2>2. QED
    BY <1>1, <2>1, LeastNatural
<1>3. i \in 1..m /\ f[i] # g[i]
  OBVIOUS
<1>4. i # 1 => f[i - 1] = g[i - 1]
  <2>1. i # 1 => i - 1 \in 1..m /\ i - 1 \notin Bad
    BY <1>2, <1>3
  <2>2. QED
    BY <2>1
<1>5. /\ f[i] = IF i = 1 THEN ss[i] ELSE f[i - 1] \o ss[i]
      /\ g[i] = IF i = 1 THEN ss[i] ELSE g[i - 1] \o ss[i]
  BY <1>3, Zenon DEF Flattening
<1>6. QED
  BY <1>3, <1>4, <1>5

\* What FlattenSeq returns.
LEMMA FlattenSeqRuns ==
  ASSUME NEW ss, Len(ss) \in Nat \ {0}, NEW f, Flattening(f, ss, Len(ss))
  PROVE  FlattenSeq(ss) = f[Len(ss)]
<1> DEFINE Step(h) == [i \in 1..Len(ss) |->
                         IF i = 1 THEN ss[i] ELSE h[i-1] \o ss[i]]
           flatten == CHOOSE h : h = Step(h)
<1>1. f = Step(f)
  BY Zenon DEF Flattening
<1>2. flatten = Step(flatten)
  BY <1>1, Zenon
<1>3. FlattenSeq(ss) = flatten[Len(ss)]
  BY DEF FlattenSeq
<1> HIDE DEF flatten
<1>4. Flattening(flatten, ss, Len(ss))
  <2>1. flatten = [i \in 1..Len(ss) |-> flatten[i]]
    BY <1>2
  <2>2. \A i \in 1..Len(ss) : flatten[i] = IF i = 1 THEN ss[i] ELSE flatten[i - 1] \o ss[i]
    BY <1>2, Zenon
  <2>3. QED
    BY <2>1, <2>2, Zenon DEF Flattening
<1>5. \A i \in 1..Len(ss) : flatten[i] = f[i]
  BY <1>4, FlatteningUnique
<1>6. QED
  BY <1>3, <1>5

LEMMA FlattenEmpty == FlattenSeq(<<>>) = <<>>
BY DEF FlattenSeq

LEMMA FlattenFirst ==
  ASSUME NEW tt, Len(tt) = 1
  PROVE  FlattenSeq(tt) = tt[1]
<1>1. PICK f : Flattening(f, tt, 1)
  BY FlatteningExists
<1>2. FlattenSeq(tt) = f[Len(tt)]
  <2>1. Len(tt) \in Nat \ {0}
    OBVIOUS
  <2>2. Flattening(f, tt, Len(tt))
    BY <1>1
  <2>3. QED
    BY <2>1, <2>2, FlattenSeqRuns, Zenon
<1>3. QED
  BY <1>1, <1>2 DEF Flattening

LEMMA FlattenLast ==
  ASSUME NEW ss, NEW tt, NEW n \in Nat, NEW m \in Nat, n # 0, m = n + 1,
         Len(ss) = n, Len(tt) = m, \A i \in 1..n : ss[i] = tt[i]
  PROVE  FlattenSeq(tt) = FlattenSeq(ss) \o tt[m]
<1>1. PICK f : Flattening(f, tt, m)
  BY FlatteningExists, Zenon
<1>2. FlattenSeq(tt) = f[m]
  BY <1>1, FlattenSeqRuns
<1>3. n \in 1..n /\ m \in 1..m /\ m # 1 /\ m - 1 = n
  OBVIOUS
<1> DEFINE g == [i \in 1..n |-> f[i]]
<1>4. ASSUME NEW i \in 1..n
      PROVE  g[i] = IF i = 1 THEN ss[i] ELSE g[i - 1] \o ss[i]
  <2>1. i \in 1..m /\ (i # 1 => i - 1 \in 1..n) /\ ss[i] = tt[i]
    OBVIOUS
  <2>2. f[i] = IF i = 1 THEN tt[i] ELSE f[i - 1] \o tt[i]
    BY <1>1, <2>1, Zenon DEF Flattening
  <2>3. QED
    BY <2>1, <2>2
<1>5. Flattening(g, ss, n)
  BY <1>4 DEF Flattening
<1>6. g[n] = f[n]
  BY <1>3
<1> HIDE DEF g
<1>7. FlattenSeq(ss) = g[n]
  BY <1>5, FlattenSeqRuns
<1>8. f[m] = f[m - 1] \o tt[m]
  BY <1>1, <1>3, Zenon DEF Flattening
<1>9. QED
  BY <1>2, <1>3, <1>6, <1>7, <1>8, Zenon

\* One sequence more.
LEMMA FlattenAppend ==
  ASSUME NEW U, NEW ss \in Seq(Seq(U)), NEW s \in Seq(U)
  PROVE  FlattenSeq(Append(ss, s)) = FlattenSeq(ss) \o s
<1> DEFINE tt == Append(ss, s)
           n == Len(ss)
           m == n + 1
<1>1. n \in Nat /\ Len(tt) = m /\ tt[m] = s /\ \A i \in 1..n : tt[i] = ss[i]
  BY AppendProperties, LenProperties
<1>2. CASE n = 0
  <2>1. ss = <<>>
    BY <1>2, EmptySeq
  <2>2. FlattenSeq(tt) = s
    BY <1>1, <1>2, FlattenFirst
  <2>3. QED
    BY <2>1, <2>2, FlattenEmpty, ConcatEmptySeq, Zenon
<1>3. CASE n # 0
  <2>1. n \in Nat /\ m \in Nat /\ m = n + 1 /\ Len(ss) = n
    BY <1>1
  <2>2. \A i \in 1..n : ss[i] = tt[i]
    BY <1>1
  <2>3. Len(tt) = m /\ tt[m] = s
    BY <1>1
  <2> HIDE DEF tt, n, m
  <2>4. FlattenSeq(tt) = FlattenSeq(ss) \o tt[m]
    BY <1>3, <2>1, <2>2, <2>3, FlattenLast, Zenon
  <2>5. QED
    BY <2>3, <2>4 DEF tt
<1>4. QED
  BY <1>2, <1>3

\* Flattening is of the type of its parts.
LEMMA FlattenType ==
  ASSUME NEW U, NEW ss \in Seq(Seq(U))
  PROVE  FlattenSeq(ss) \in Seq(U)
<1> DEFINE n == Len(ss)
<1>1. n \in Nat /\ \A i \in 1..n : ss[i] \in Seq(U)
  BY LenProperties, ElementOfSeq
<1>2. CASE n = 0
  <2>1. ss = <<>>
    BY <1>2, EmptySeq
  <2>2. QED
    BY <2>1, FlattenEmpty, EmptySeq, Zenon
<1>3. CASE n # 0
  <2> HIDE DEF n
  <2>1. PICK f : Flattening(f, ss, n)
    BY <1>1, FlatteningExists, Zenon
  <2> DEFINE Bad == {i \in 1..n : f[i] \notin Seq(U)}
  <2>2. Bad = {}
    <3>1. SUFFICES ASSUME Bad # {} PROVE FALSE
      OBVIOUS
    <3>2. PICK i \in Bad : \A j \in Bad : i <= j
      <4>1. Bad \in SUBSET Nat
        BY <1>1
      <4> HIDE DEF Bad
      <4>2. QED
        BY <3>1, <4>1, LeastNatural, Zenon
    <3>3. i \in 1..n /\ f[i] \notin Seq(U) /\ i \in Nat
      BY <1>1
    <3>4. i # 1 => f[i - 1] \in Seq(U)
      <4>1. i # 1 => i - 1 \in 1..n /\ i - 1 \notin Bad
        BY <1>1, <3>2, <3>3
      <4>2. QED
        BY <4>1
    <3>5. f[i] = IF i = 1 THEN ss[i] ELSE f[i - 1] \o ss[i]
      BY <2>1, <3>3, Zenon DEF Flattening
    <3>6. ss[i] \in Seq(U)
      BY <1>1, <3>3
    <3>7. CASE i = 1
      BY <3>3, <3>5, <3>6, <3>7
    <3>8. CASE i # 1
      <4>1. f[i - 1] \o ss[i] \in Seq(U)
        BY <3>4, <3>6, <3>8, ConcatProperties
      <4>2. QED
        BY <3>3, <3>5, <3>8, <4>1
    <3>9. QED
      BY <3>7, <3>8
  <2>3. FlattenSeq(ss) = f[n]
    BY <1>1, <1>3, <2>1, FlattenSeqRuns DEF n
  <2>4. n \in 1..n
    BY <1>1, <1>3
  <2>5. QED
    BY <2>2, <2>3, <2>4
<1>4. QED
  BY <1>2, <1>3

\* A prefix, one longer.
LEMMA PrefixGrows ==
  ASSUME NEW S, NEW s \in Seq(S), NEW k \in 0..Len(s), k # 0
  PROVE  /\ SubSeq(s, 1, k - 1) \in Seq(S) /\ s[k] \in S
         /\ SubSeq(s, 1, k) = Append(SubSeq(s, 1, k - 1), s[k])
<1>1. Len(s) \in Nat /\ k \in 1..Len(s) /\ 1 \in 1..Len(s) /\ 1 <= k
  BY LenProperties
<1>2. \A i \in 1..(k - 1) : s[i] \in S
  BY <1>1, ElementOfSeq
<1>3. s[k] \in S
  BY <1>1, ElementOfSeq
<1>4. SubSeq(s, 1, k - 1) \in Seq(S)
  <2>1. 1 \in Int /\ k - 1 \in Int
    BY <1>1
  <2>2. QED
    BY <1>2, <2>1, SubSeqProperties
<1>5. SubSeq(s, 1, k) = SubSeq(s, 1, k - 1) \o <<s[k]>>
  <2>1. k \in 1..Len(s)
    BY <1>1
  <2>2. QED
    BY <1>1, <2>1, SubSeqRecursiveSecond
<1>6. QED
  BY <1>3, <1>4, <1>5, AppendIsConcat

\* Flattening of what is flattened in two parts.
LEMMA FlattenConcat ==
  ASSUME NEW U, NEW ss \in Seq(Seq(U)), NEW tt \in Seq(Seq(U))
  PROVE  FlattenSeq(ss \o tt) = FlattenSeq(ss) \o FlattenSeq(tt)
<1> DEFINE n == Len(tt)
           P(k) == SubSeq(tt, 1, k)
           Bad == {k \in 0..n : FlattenSeq(ss \o P(k)) # FlattenSeq(ss) \o FlattenSeq(P(k))}
<1>0. n \in Nat /\ FlattenSeq(ss) \in Seq(U)
  BY LenProperties, FlattenType
<1>1. Bad = {}
  <2>1. SUFFICES ASSUME Bad # {} PROVE FALSE
    OBVIOUS
  <2>2. PICK k \in Bad : \A j \in Bad : k <= j
    <3>1. Bad \in SUBSET Nat
      BY <1>0
    <3> HIDE DEF Bad
    <3>2. QED
      BY <2>1, <3>1, LeastNatural, Zenon
  <2>3. k \in 0..n /\ FlattenSeq(ss \o P(k)) # FlattenSeq(ss) \o FlattenSeq(P(k))
    OBVIOUS
  <2>4. CASE k = 0
    <3>1. P(k) = <<>>
      BY <2>4, SubSeqEmpty
    <3>2. ss \o <<>> = ss /\ FlattenSeq(ss) \o <<>> = FlattenSeq(ss)
      BY <1>0, ConcatEmptySeq
    <3>3. QED
      BY <2>3, <3>1, <3>2, FlattenEmpty, Zenon
  <2>5. CASE k # 0
    <3> DEFINE q == P(k - 1)
               s == tt[k]
    <3>1. q \in Seq(Seq(U)) /\ s \in Seq(U) /\ P(k) = Append(q, s)
      BY <2>3, <2>5, PrefixGrows, Zenon
    <3>2. FlattenSeq(ss \o q) = FlattenSeq(ss) \o FlattenSeq(q)
      <4>1. k - 1 \in 0..n
        BY <1>0, <2>3, <2>5
      <4>2. k - 1 \notin Bad
        <5> HIDE DEF Bad
        <5>1. ~(k <= k - 1)
          BY <1>0, <2>3
        <5>2. QED
          BY <2>2, <5>1
      <4>3. QED
        BY <4>1, <4>2, Zenon
    <3> HIDE DEF q, s, P, Bad
    <3>3. FlattenSeq(q) \in Seq(U) /\ ss \o q \in Seq(Seq(U))
      BY <3>1, FlattenType, ConcatProperties
    <3>4. FlattenSeq(ss \o q) \in Seq(U)
      BY <3>3, FlattenType, Zenon
    <3>5. ss \o Append(q, s) = Append(ss \o q, s)
      <4>1. <<s>> \in Seq(Seq(U))
        BY <3>1
      <4>2. Append(q, s) = q \o <<s>> /\ Append(ss \o q, s) = (ss \o q) \o <<s>>
        BY <3>1, <3>3, AppendIsConcat, Zenon
      <4>3. QED
        BY <3>1, <4>1, <4>2, ConcatAssociative
    <3>6. FlattenSeq(Append(q, s)) = FlattenSeq(q) \o s
      BY <3>1, FlattenAppend
    <3>7. FlattenSeq(Append(ss \o q, s)) = FlattenSeq(ss \o q) \o s
      BY <3>1, <3>3, FlattenAppend, Zenon
    <3>8. (FlattenSeq(ss) \o FlattenSeq(q)) \o s = FlattenSeq(ss) \o (FlattenSeq(q) \o s)
      <4> DEFINE a == FlattenSeq(ss)
                 b == FlattenSeq(q)
      <4>1. a \in Seq(U) /\ b \in Seq(U) /\ s \in Seq(U)
        BY <1>0, <3>1, <3>3
      <4> HIDE DEF a, b
      <4>2. (a \o b) \o s = a \o (b \o s)
        BY <4>1, ConcatAssociative
      <4>3. QED
        BY <4>2 DEF a, b
    <3>9. QED
      BY <2>3, <3>1, <3>2, <3>5, <3>6, <3>7, <3>8
  <2>6. QED
    BY <2>4, <2>5
<1>2. P(n) = tt /\ n \in 0..n
  BY <1>0, SubSeqFull
<1>3. n \notin Bad
  BY <1>1, Zenon
<1> HIDE DEF n, P
<1>4. QED
  BY <1>2, <1>3

\* Flattening of one sequence.
LEMMA FlattenOne ==
  ASSUME NEW U, NEW s \in Seq(U)
  PROVE  FlattenSeq(<<s>>) = s
<1>1. <<>> \in Seq(Seq(U)) /\ <<>> \in Seq(U) /\ Append(<<>>, s) = <<s>>
  OBVIOUS
<1>2. FlattenSeq(Append(<<>>, s)) = FlattenSeq(<<>>) \o s
  BY <1>1, FlattenEmpty, FlattenAppend, Zenon
<1>3. QED
  BY <1>1, <1>2, FlattenEmpty, ConcatEmptySeq, Zenon

-----------------------------------------------------------------------------
(***************************************************************************)
(* Concatenation, by a name that the provers do not expand.                *)
(***************************************************************************)
\* What a concatenation holds, and when it holds nothing twice.
LEMMA Joined ==
  ASSUME NEW U, NEW s \in Seq(U), NEW t \in Seq(U)
  PROVE  /\ ToSet(s \o t) = ToSet(s) \cup ToSet(t)
         /\ IsInjective(s \o t) <=> /\ IsInjective(s) /\ IsInjective(t)
                                    /\ ToSet(s) \cap ToSet(t) = {}
<1> DEFINE r == s \o t
           m == Len(s)
           n == Len(t)
<1>1. /\ m \in Nat /\ n \in Nat /\ DOMAIN s = 1..m /\ DOMAIN t = 1..n
      /\ DOMAIN r = 1..(m + n)
      /\ \A i \in 1..(m + n) : r[i] = IF i <= m THEN s[i] ELSE t[i - m]
  BY ConcatProperties, LenProperties
<1> HIDE DEF r, m, n
<1>2. \A i \in 1..m : i \in 1..(m + n) /\ r[i] = s[i]
  BY <1>1
<1>3. \A j \in 1..n : m + j \in 1..(m + n) /\ r[m + j] = t[j]
  <2>1. \A j \in 1..n : m + j \in 1..(m + n) /\ ~(m + j <= m) /\ (m + j) - m = j
    BY <1>1
  <2>2. QED
    BY <1>1, <2>1
<1>4. \A i \in 1..(m + n) : i \in 1..m \/ \E j \in 1..n : i = m + j
  <2>1. ASSUME NEW i \in 1..(m + n), i \notin 1..m
        PROVE  i - m \in 1..n /\ i = m + (i - m)
    BY <1>1, <2>1
  <2>2. QED
    BY <2>1
<1>a. /\ ToSet(r) = {r[i] : i \in 1..(m + n)}
      /\ ToSet(s) = {s[i] : i \in 1..m} /\ ToSet(t) = {t[i] : i \in 1..n}
  BY <1>1 DEF ToSet
<1>5. ToSet(r) = ToSet(s) \cup ToSet(t)
  <2>1. \A i \in 1..(m + n) : r[i] \in ToSet(s) \cup ToSet(t)
    BY <1>2, <1>3, <1>4, <1>a
  <2>2. \A i \in 1..m : s[i] \in ToSet(r)
    BY <1>2, <1>a
  <2>3. \A i \in 1..n : t[i] \in ToSet(r)
    BY <1>3, <1>a
  <2>4. QED
    BY <2>1, <2>2, <2>3, <1>a, Zenon
<1>6. ASSUME IsInjective(r)
      PROVE  IsInjective(s) /\ IsInjective(t) /\ ToSet(s) \cap ToSet(t) = {}
  <2>1. \A i, j \in 1..(m + n) : r[i] = r[j] => i = j
    BY <1>1, <1>6, Zenon DEF IsInjective
  <2>2. IsInjective(s)
    BY <1>1, <1>2, <2>1 DEF IsInjective
  <2>3. \A i, j \in 1..n : t[i] = t[j] => m + i = m + j
    BY <1>3, <2>1
  <2>4. IsInjective(t)
    <3>1. \A i, j \in 1..n : m + i = m + j => i = j
      BY <1>1
    <3>2. QED
      BY <1>1, <2>3, <3>1 DEF IsInjective
  <2>5. \A i \in 1..m, j \in 1..n : s[i] # t[j]
    <3>1. \A i \in 1..m, j \in 1..n : i # m + j
      BY <1>1
    <3>2. QED
      BY <1>2, <1>3, <2>1, <3>1
  <2>6. QED
    BY <1>1, <2>2, <2>4, <2>5 DEF ToSet
<1>7. ASSUME IsInjective(s), IsInjective(t), ToSet(s) \cap ToSet(t) = {}
      PROVE  IsInjective(r)
  <2>1. /\ \A i, j \in 1..m : s[i] = s[j] => i = j
        /\ \A i, j \in 1..n : t[i] = t[j] => i = j
    BY <1>1, <1>7, Zenon DEF IsInjective
  <2>a. \A i \in 1..m, j \in 1..n : s[i] # t[j]
    BY <1>7, <1>a
  <2>2. \A i, j \in 1..(m + n) : r[i] = r[j] => i = j
    BY <1>2, <1>3, <1>4, <2>1, <2>a
  <2>3. QED
    BY <1>1, <2>2 DEF IsInjective
<1>8. QED
  BY <1>5, <1>6, <1>7 DEF r

\* Concatenation and replacement by a name, which the provers do not expand.
Cat(s, t) == s \o t

\* What a concatenation is, and when it holds nothing twice.
LEMMA CatFacts ==
  ASSUME NEW U, NEW s \in Seq(U), NEW t \in Seq(U)
  PROVE  /\ Cat(s, t) \in Seq(U) /\ Len(Cat(s, t)) = Len(s) + Len(t)
         /\ ToSet(Cat(s, t)) = ToSet(s) \cup ToSet(t)
         /\ IsInjective(Cat(s, t)) <=> /\ IsInjective(s) /\ IsInjective(t)
                                       /\ ToSet(s) \cap ToSet(t) = {}
<1>1. s \o t \in Seq(U) /\ Len(s \o t) = Len(s) + Len(t)
  BY ConcatProperties
<1>2. QED
  BY <1>1, Joined DEF Cat

LEMMA CatAssociative ==
  ASSUME NEW U, NEW s \in Seq(U), NEW t \in Seq(U), NEW r \in Seq(U)
  PROVE  Cat(Cat(s, t), r) = Cat(s, Cat(t, r))
BY ConcatAssociative DEF Cat

LEMMA CatEmpty ==
  ASSUME NEW U, NEW s \in Seq(U)
  PROVE  Cat(s, <<>>) = s /\ Cat(<<>>, s) = s
BY ConcatEmptySeq DEF Cat

\* Sequences joined to a sequence.
LEMMA SeqConcat ==
  ASSUME NEW s, NEW t, IsSeq(s), IsSeq(t)
  PROVE  /\ IsSeq(s \o t)
         /\ ToSet(s \o t) = ToSet(s) \cup ToSet(t)
         /\ Len(s \o t) = Len(s) + Len(t)
<1> DEFINE U == ToSet(s) \cup ToSet(t)
<1>1. s \in Seq(U) /\ t \in Seq(U)
  BY SeqMonotonic DEF IsSeq
<1> HIDE DEF U
<1>2. s \o t \in Seq(U) /\ Len(s \o t) = Len(s) + Len(t)
  BY <1>1, ConcatProperties
<1>3. IsSeq(s \o t)
  BY <1>2, SeqOver, Zenon
<1>4. ToSet(s \o t) = ToSet(s) \cup ToSet(t)
  BY <1>1, Joined
<1>5. QED
  BY <1>2, <1>3, <1>4

\* Sequences of one element.
LEMMA SeqOne ==
  ASSUME NEW x
  PROVE  IsSeq(<<x>>) /\ ToSet(<<x>>) = {x}
<1>1. ToSet(<<x>>) = {x}
  BY DEF ToSet
<1>2. QED
  BY <1>1 DEF IsSeq

\* A sequence taken apart at index j, and put together with another element.
LEMMA SeqParts ==
  ASSUME NEW s, IsSeq(s), NEW j \in 1..Len(s), NEW z
  PROVE  \E pre, post :
           /\ IsSeq(pre) /\ IsSeq(post)
           /\ ToSet(pre) \subseteq ToSet(s) /\ ToSet(post) \subseteq ToSet(s)
           /\ s = Cat(pre, Cat(<<s[j]>>, post))
           /\ ReplaceAt(s, j, z) = Cat(pre, Cat(<<z>>, post))
<1> DEFINE n == Len(s)
           U == ToSet(s)
           pre == SubSeq(s, 1, j - 1)
           post == SubSeq(s, j + 1, n)
<1>1. n \in Nat /\ j \in 1..n /\ DOMAIN s = 1..n /\ s \in Seq(U) /\ s = [i \in 1..n |-> s[i]]
  BY SeqFacts DEF IsSeq
<1>2. \A i \in 1..n : s[i] \in U
  BY <1>1 DEF ToSet
<1> HIDE DEF n, U
<1>3. /\ pre \in Seq(U) /\ Len(pre) = j - 1
      /\ \A i \in 1..(j - 1) : pre[i] = s[i]
  <2>1. 1 \in Int /\ j - 1 \in Int /\ \A i \in 1..(j - 1) : s[i] \in U
    BY <1>1, <1>2
  <2>2. /\ pre \in Seq(U) /\ Len(pre) = IF 1 <= j - 1 THEN j - 1 - 1 + 1 ELSE 0
        /\ \A i \in 1..(j - 1 - 1 + 1) : pre[i] = s[1 + i - 1]
    BY <2>1, SubSeqProperties
  <2>3. QED
    BY <1>1, <2>2
<1>4. /\ post \in Seq(U) /\ Len(post) = n - j
      /\ \A i \in 1..(n - j) : post[i] = s[j + i]
  <2>1. j + 1 \in Int /\ n \in Int /\ \A i \in (j + 1)..n : s[i] \in U
    BY <1>1, <1>2
  <2>2. /\ post \in Seq(U) /\ Len(post) = IF j + 1 <= n THEN n - (j + 1) + 1 ELSE 0
        /\ \A i \in 1..(n - (j + 1) + 1) : post[i] = s[(j + 1) + i - 1]
    BY <2>1, SubSeqProperties
  <2>3. n - (j + 1) + 1 = n - j /\ \A i \in 1..(n - j) : (j + 1) + i - 1 = j + i
    BY <1>1
  <2>4. (IF j + 1 <= n THEN n - (j + 1) + 1 ELSE 0) = n - j
    BY <1>1
  <2>5. QED
    BY <2>2, <2>3, <2>4
<1> HIDE DEF pre, post
<1>5. ASSUME NEW x
      PROVE  [s EXCEPT ![j] = x] = pre \o (<<x>> \o post)
  <2> DEFINE V == U \cup {x}
             w == <<x>> \o post
             e == [s EXCEPT ![j] = x]
             r == pre \o w
  <2>1. pre \in Seq(V) /\ post \in Seq(V) /\ <<x>> \in Seq(V) /\ s \in Seq(V) /\ x \in V
    BY <1>1, <1>3, <1>4, SeqMonotonic
  <2> HIDE DEF V
  <2>2. /\ w \in Seq(V) /\ Len(w) = 1 + (n - j)
        /\ \A i \in 1..(1 + (n - j)) : w[i] = IF i <= 1 THEN x ELSE post[i - 1]
    <3>1. Len(<<x>>) = 1 /\ <<x>>[1] = x
      OBVIOUS
    <3>2. /\ w \in Seq(V) /\ Len(w) = Len(<<x>>) + Len(post)
          /\ \A i \in 1..(Len(<<x>>) + Len(post)) :
               w[i] = IF i <= Len(<<x>>) THEN <<x>>[i] ELSE post[i - Len(<<x>>)]
      BY <2>1, ConcatProperties
    <3>3. \A i \in 1..(1 + (n - j)) : i <= 1 => i = 1
      BY <1>1
    <3>4. QED
      BY <1>4, <3>1, <3>2, <3>3
  <2> HIDE DEF w
  <2>3. /\ r \in Seq(V) /\ Len(r) = (j - 1) + (1 + (n - j))
        /\ \A i \in 1..((j - 1) + (1 + (n - j))) :
             r[i] = IF i <= j - 1 THEN pre[i] ELSE w[i - (j - 1)]
    <3>1. /\ r \in Seq(V) /\ Len(r) = Len(pre) + Len(w)
          /\ \A i \in 1..(Len(pre) + Len(w)) :
               r[i] = IF i <= Len(pre) THEN pre[i] ELSE w[i - Len(pre)]
      BY <2>1, <2>2, ConcatProperties, Zenon
    <3>2. QED
      BY <1>3, <2>2, <3>1, Zenon
  <2>4. e \in Seq(V) /\ Len(e) = n /\ \A i \in 1..n : e[i] = IF i = j THEN x ELSE s[i]
    BY <1>1, <2>1, ExceptSeq DEF n
  <2> HIDE DEF e, r
  <2>5. Len(r) = n
    BY <1>1, <2>3
  <2>6. ASSUME NEW i \in 1..n
        PROVE  e[i] = r[i]
    <3>1. CASE i < j
      <4>1. i \in 1..(j - 1) /\ i <= j - 1 /\ i # j /\ i \in 1..((j - 1) + (1 + (n - j)))
        BY <1>1, <3>1
      <4>2. QED
        BY <1>3, <2>3, <2>4, <4>1, Zenon
    <3>2. CASE i = j
      <4>1. ~(i <= j - 1) /\ i - (j - 1) = 1 /\ i \in 1..((j - 1) + (1 + (n - j)))
            /\ 1 \in 1..(1 + (n - j)) /\ 1 <= 1
        BY <1>1, <3>2
      <4>2. QED
        BY <2>2, <2>3, <2>4, <3>2, <4>1, Zenon
    <3>3. CASE i > j
      <4> DEFINE a == i - (j - 1)
                 b == i - j
      <4>1. /\ ~(i <= j - 1) /\ a \in 1..(1 + (n - j)) /\ ~(a <= 1) /\ i # j
            /\ a - 1 = b /\ b \in 1..(n - j) /\ j + b = i
            /\ i \in 1..((j - 1) + (1 + (n - j)))
        <5>1. n \in Int /\ j \in Int /\ i \in Int /\ 1 <= j /\ j <= n /\ i <= n /\ i > j
          BY <1>1, <3>3
        <5>2. QED
          BY <5>1
      <4>2. r[i] = w[a]
        BY <2>3, <4>1
      <4> HIDE DEF a, b
      <4>3. w[a] = post[b]
        BY <2>2, <4>1, Zenon
      <4>4. post[b] = s[i]
        BY <1>4, <4>1, Zenon
      <4>5. QED
        BY <2>4, <4>1, <4>2, <4>3, <4>4, Zenon
    <3>4. QED
      BY <1>1, <3>1, <3>2, <3>3
  <2>7. e = r
    BY <2>3, <2>4, <2>5, <2>6, SeqEqual, Zenon
  <2>8. QED
    BY <2>7, Zenon DEF e, r, w
<1>6. s = pre \o (<<s[j]>> \o post)
  <2>1. s = [s EXCEPT ![j] = s[j]]
    BY <1>1
  <2>2. QED
    BY <1>5, <2>1, Zenon
<1>7. IsSeq(pre) /\ IsSeq(post) /\ ToSet(pre) \subseteq U /\ ToSet(post) \subseteq U
  <2>1. DOMAIN pre = 1..Len(pre) /\ DOMAIN post = 1..Len(post)
    BY <1>3, <1>4, LenProperties
  <2>2. (\A i \in 1..Len(pre) : pre[i] \in U) /\ (\A i \in 1..Len(post) : post[i] \in U)
    BY <1>3, <1>4, ElementOfSeq
  <2>3. QED
    BY <1>3, <1>4, <2>1, <2>2, SeqOver DEF ToSet
<1>8. s = Cat(pre, Cat(<<s[j]>>, post)) /\ ReplaceAt(s, j, z) = Cat(pre, Cat(<<z>>, post))
  BY <1>5, <1>6, Zenon DEF Cat, ReplaceAt
<1>9. QED
  BY <1>7, <1>8 DEF U

\* The sequences that f gives to the elements of s, one after the other.
Rows(f, s) == [i \in DOMAIN s |-> f[s[i]]]
Flat(f, s) == FlattenSeq(Rows(f, s))

\* Their number, types and concatenations.
LEMMA RowsLength ==
  ASSUME NEW S, NEW f, NEW s \in Seq(S)
  PROVE  /\ Rows(f, s) \in Seq({f[x] : x \in S}) /\ Len(Rows(f, s)) = Len(s)
<1> DEFINE r == Rows(f, s)
           n == Len(s)
           T == {f[x] : x \in S}
<1>1. n \in Nat /\ DOMAIN s = 1..n /\ \A i \in 1..n : s[i] \in S
  BY LenProperties, ElementOfSeq
<1>2. r \in [1..n -> T]
  BY <1>1 DEF Rows
<1> HIDE DEF r, n, T
<1>3. r \in Seq(T)
  BY <1>1, <1>2, SeqDef
<1>4. Len(r) = n
  <2>1. r \in Seq(T) /\ n \in Nat /\ DOMAIN r = 1..n
    BY <1>1, <1>2, <1>3
  <2>2. QED
    BY <2>1, LenProperties
<1>5. QED
  BY <1>2, <1>3, <1>4 DEF r, n, T

LEMMA RowsType ==
  ASSUME NEW T, NEW S, NEW f, \A x \in S : f[x] \in T, NEW s \in Seq(S)
  PROVE  Rows(f, s) \in Seq(T)
<1> DEFINE Y == {f[x] : x \in S}
<1>1. Rows(f, s) \in Seq(Y) /\ Y \subseteq T
  BY RowsLength
<1> HIDE DEF Y
<1>2. QED
  BY <1>1, SeqMonotonic

LEMMA RowsConcat ==
  ASSUME NEW S, NEW f, NEW s \in Seq(S), NEW t \in Seq(S)
  PROVE  Rows(f, s \o t) = Rows(f, s) \o Rows(f, t)
<1> DEFINE a == Rows(f, s)
           b == Rows(f, t)
           w == s \o t
           c == Rows(f, w)
           m == Len(s)
           n == Len(t)
           T == {f[x] : x \in S}
<1>1. /\ w \in Seq(S) /\ m \in Nat /\ n \in Nat /\ Len(w) = m + n
      /\ DOMAIN s = 1..m /\ DOMAIN t = 1..n /\ DOMAIN w = 1..(m + n)
      /\ \A i \in 1..(m + n) : w[i] = IF i <= m THEN s[i] ELSE t[i - m]
  BY ConcatProperties, LenProperties
<1> HIDE DEF w
<1>2. a \in Seq(T) /\ Len(a) = m
  BY RowsLength, Zenon
<1>3. b \in Seq(T) /\ Len(b) = n
  BY RowsLength, Zenon
<1>4. c \in Seq(T) /\ Len(c) = Len(w)
  <2>1. w \in Seq(S)
    BY <1>1
  <2>2. QED
    BY <2>1, RowsLength
<1>5. \A i \in 1..m : a[i] = f[s[i]]
  BY <1>1 DEF Rows
<1>6. \A i \in 1..n : b[i] = f[t[i]]
  BY <1>1 DEF Rows
<1>7. \A i \in 1..(m + n) : c[i] = f[w[i]]
  BY <1>1 DEF Rows
<1> HIDE DEF a, b, c, m, n, T
<1>8. /\ a \o b \in Seq(T) /\ Len(a \o b) = m + n
      /\ \A i \in 1..(m + n) : (a \o b)[i] = IF i <= m THEN a[i] ELSE b[i - m]
  <2>1. /\ a \o b \in Seq(T) /\ Len(a \o b) = Len(a) + Len(b)
        /\ \A i \in 1..(Len(a) + Len(b)) :
             (a \o b)[i] = IF i <= Len(a) THEN a[i] ELSE b[i - Len(a)]
    BY <1>2, <1>3, ConcatProperties, Zenon
  <2>2. QED
    BY <1>2, <1>3, <2>1, Zenon
<1>9. \A i \in 1..(m + n) : c[i] = (a \o b)[i]
  <2>1. ASSUME NEW i \in 1..(m + n), i <= m
        PROVE  c[i] = (a \o b)[i]
    <3>1. i \in 1..m
      BY <1>1, <2>1
    <3>2. c[i] = f[w[i]] /\ w[i] = s[i] /\ (a \o b)[i] = a[i] /\ a[i] = f[s[i]]
      BY <1>1, <1>5, <1>7, <1>8, <2>1, <3>1
    <3>3. QED
      BY <3>2
  <2>2. ASSUME NEW i \in 1..(m + n), ~(i <= m)
        PROVE  c[i] = (a \o b)[i]
    <3>1. i - m \in 1..n
      BY <1>1, <2>2
    <3>2. c[i] = f[w[i]] /\ w[i] = t[i - m] /\ (a \o b)[i] = b[i - m] /\ b[i - m] = f[t[i - m]]
      BY <1>1, <1>6, <1>7, <1>8, <2>2, <3>1
    <3>3. QED
      BY <3>2
  <2>3. QED
    BY <2>1, <2>2, Zenon
<1>10. c = a \o b
  BY <1>1, <1>4, <1>8, <1>9, SeqEqual, Zenon
<1>11. QED
  BY <1>10 DEF a, b, c, w

LEMMA FlatType ==
  ASSUME NEW U, NEW S, NEW f, \A x \in S : f[x] \in Seq(U), NEW s \in Seq(S)
  PROVE  Flat(f, s) \in Seq(U)
<1>1. Rows(f, s) \in Seq(Seq(U))
  BY RowsType, Zenon
<1>2. QED
  BY <1>1, FlattenType DEF Flat

LEMMA FlatConcat ==
  ASSUME NEW U, NEW S, NEW f, \A x \in S : f[x] \in Seq(U),
         NEW s \in Seq(S), NEW t \in Seq(S)
  PROVE  Flat(f, s \o t) = Flat(f, s) \o Flat(f, t)
<1>1. Rows(f, s) \in Seq(Seq(U)) /\ Rows(f, t) \in Seq(Seq(U))
  BY RowsType, Zenon
<1>2. Rows(f, s \o t) = Rows(f, s) \o Rows(f, t)
  BY RowsConcat
<1> DEFINE a == Rows(f, s)
           b == Rows(f, t)
<1> HIDE DEF a, b
<1>3. FlattenSeq(a \o b) = FlattenSeq(a) \o FlattenSeq(b)
  BY <1>1, FlattenConcat DEF a, b
<1>4. QED
  BY <1>2, <1>3 DEF a, b, Flat

\* An element of a sequence is one of its set.
LEMMA IsElement ==
  ASSUME NEW s, IsSeq(s), NEW i \in 1..Len(s)
  PROVE  s[i] \in ToSet(s)
BY SeqFacts DEF ToSet

-----------------------------------------------------------------------------
(***************************************************************************)
(* Records within the limit.                                               *)
(***************************************************************************)
\* Shipping a piece that fits.
LEMMA ShipFits ==
  ASSUME NEW p, IsSeq(entries), RecordsFit, Fits(p), Ship(p), plan' = plan
  PROVE  IsSeq(entries)' /\ RecordsFit'
<1> DEFINE x == [key |-> key, piece |-> p]
           S == ToSet(entries) \cup {x}
           n == Len(entries)
<1>1. entries \in Seq(S) /\ x \in S
  BY SeqMonotonic DEF IsSeq
<1>2. x.piece = p /\ entries' = Append(entries, x)
  BY DEF Ship
<1> HIDE DEF x, S
<1>3. /\ entries' \in Seq(S) /\ n \in Nat /\ Len(entries') = n + 1
      /\ DOMAIN entries = 1..n /\ DOMAIN entries' = 1..(n + 1)
      /\ \A e \in 1..n : entries'[e] = entries[e]
      /\ entries'[n + 1] = x
  BY <1>1, <1>2, AppendProperties, LenProperties
<1>4. IsSeq(entries)'
  BY <1>3, SeqOver DEF IsSeq
<1>5. keyOverhead' = keyOverhead
  BY DEF keyOverhead, tagHash
<1>6. \A e \in 1..(n + 1) : Bytes(entries'[e].piece) + keyOverhead <= MaxRecordSize
  <2>1. \A e \in 1..n : Bytes(entries'[e].piece) + keyOverhead <= MaxRecordSize
    BY <1>3 DEF RecordsFit
  <2>2. Bytes(entries'[n + 1].piece) + keyOverhead <= MaxRecordSize
    BY <1>2, <1>3 DEF Fits
  <2>3. \A e \in 1..(n + 1) : e \in 1..n \/ e = n + 1
    BY <1>3
  <2>4. QED
    BY <2>1, <2>2, <2>3
<1>7. QED
  BY <1>3, <1>4, <1>5, <1>6 DEF RecordsFit

\* Every record together with its key is within max_record_size: tryEncode is
\* asked of exactly what is shipped, after any truncation and halving.
THEOREM AllRecordsFit == Spec => []RecordsFit
<1> DEFINE Inv == IsSeq(entries) /\ RecordsFit
<1>1. Init => Inv
  BY DEF Init, IsSeq, ToSet, RecordsFit
<1>2. ASSUME Inv, [Next]_vars
      PROVE  Inv'
  <2>a. ASSUME entries' = entries, plan' = plan
        PROVE  Inv'
    BY <1>2, <2>a DEF RecordsFit, keyOverhead, tagHash, IsSeq, ToSet
  <2>b. \A p : "fit" \in TryEncode(p) => Fits(p)
    BY DEF TryEncode, CodecErrors
  <2>c. \A p : Fits(p) /\ Ship(p) /\ plan' = plan => Inv'
    BY <1>2, ShipFits
  <2>1. CASE UNCHANGED vars
    BY <2>a, <2>1 DEF vars
  <2>2. CASE GroupWhole \/ GroupResource \/ GroupLeaf \/ UnitEnds \/ ResourceEnds \/ GroupingEnds
    BY <2>a, <2>2, Zenon DEF GroupWhole, GroupResource, GroupLeaf, UnitEnds, ResourceEnds,
                      GroupingEnds, packing, input
  <2>3. CASE TakeGroup \/ StartSplit \/ Reject \/ Exhausted \/ SplitEnds \/ Flush
    BY <2>a, <2>3 DEF TakeGroup, StartSplit, Reject, Exhausted, SplitEnds, Flush,
                      Neither, Drop, input
  <2>4. CASE FirstTry
    BY <2>a, <2>b, <2>c, <2>4 DEF FirstTry, Neither, Drop, input
  <2>5. CASE Truncate
    BY <2>a, <2>b, <2>c, <2>5 DEF Truncate, Neither, input
  <2>6. CASE PackSplit
    BY <2>a, <2>b, <2>c, <2>6 DEF PackSplit, Neither, Drop, input
  <2>7. QED
    BY <1>2, <2>1, <2>2, <2>3, <2>4, <2>5, <2>6 DEF Next
<1>3. Inv => RecordsFit
  OBVIOUS
<1>4. QED
  BY <1>1, <1>2, <1>3, PTL DEF Spec

-----------------------------------------------------------------------------
(***************************************************************************)
(* Truncated values.                                                       *)
(***************************************************************************)
\* The cut is the last boundary within the limit.
LEMMA SafeCut ==
  ASSUME NEW t, Utf8(t), Len(t) > MaxAttr,
         {b \in 1..MaxAttr : Boundary(t, b)} # {}
  PROVE  /\ Utf8SafeCut(t) \in 1..MaxAttr
         /\ Utf8SafeCut(t) = Max({b \in 1..MaxAttr : Boundary(t, b)})
<1> DEFINE fitting == {b \in 1..MaxAttr : Boundary(t, b)}
           cuts == {n \in 1..MaxAttr : n > MaxAttr - 4 /\ RuneStart(t[n + 1])}
<1>0. MaxAttr \in Nat \ {0} /\ Len(t) \in Nat
  BY SizesAssumption, LenProperties DEF Utf8
<1>1. cuts \subseteq fitting
  BY DEF Boundary
<1>2. \A b \in fitting : b \notin cuts => b <= MaxAttr - 4
  BY <1>0 DEF Boundary
<1>3. cuts # {}
  <2>1. CASE MaxAttr < 4
    <3>1. PICK b \in fitting : TRUE
      OBVIOUS
    <3>2. b \in cuts
      BY <1>0, <2>1, <1>2, <3>1
    <3>3. QED
      BY <3>2
  <2>2. CASE MaxAttr >= 4
    <3>1. MaxAttr - 2 \in 1..(Len(t) - 3)
      BY <1>0, <2>2
    <3>2. PICK m \in (MaxAttr - 2)..((MaxAttr - 2) + 3) : RuneStart(t[m])
      BY <3>1, Zenon DEF Utf8
    <3>3. m \in Int /\ m - 1 \in 1..MaxAttr /\ m - 1 > MaxAttr - 4 /\ (m - 1) + 1 = m
      BY <1>0, <2>2, <3>2
    <3>4. m - 1 \in cuts
      BY <3>2, <3>3
    <3>5. QED
      BY <3>4
  <2>3. QED
    BY <1>0, <2>1, <2>2
<1>4. /\ IsFiniteSet(fitting) /\ IsFiniteSet(cuts)
      /\ fitting \in SUBSET Int /\ cuts \in SUBSET Int
  <2>1. IsFiniteSet(1..MaxAttr)
    BY <1>0, FS_Interval
  <2>2. fitting \subseteq 1..MaxAttr /\ cuts \subseteq 1..MaxAttr
    OBVIOUS
  <2>3. QED
    BY <1>0, <2>1, <2>2, FS_Subset
<1>5. Utf8SafeCut(t) = Max(cuts)
  BY <1>3 DEF Utf8SafeCut
<1>6. \A c \in cuts : c \in 1..MaxAttr /\ c > MaxAttr - 4
  OBVIOUS
<1>7. \A b \in fitting : b \in Int
  OBVIOUS
<1>8. fitting # {}
  OBVIOUS
<1> HIDE DEF fitting, cuts
<1>9. /\ Max(cuts) \in cuts /\ \A c \in cuts : Max(cuts) >= c
      /\ Max(fitting) \in fitting /\ \A b \in fitting : Max(fitting) >= b
  BY <1>3, <1>4, <1>8, MaxFacts
<1>10. Max(cuts) = Max(fitting)
  <2>1. Max(cuts) \in 1..MaxAttr /\ Max(cuts) > MaxAttr - 4 /\ Max(fitting) \in Int
    BY <1>6, <1>7, <1>9
  <2>2. Max(fitting) >= Max(cuts)
    BY <1>1, <1>9
  <2>3. Max(cuts) >= Max(fitting)
    BY <1>0, <1>2, <1>9, <2>1
  <2>4. QED
    BY <1>0, <2>1, <2>2, <2>3
<1>11. QED
  BY <1>5, <1>6, <1>9, <1>10 DEF fitting

\* What a value is clamped to.
LEMMA ClampCuts ==
  ASSUME NEW v, NEW t, v.kind = "str", v.text = t, Utf8(t), NEW fitting,
         fitting = {b \in 1..Min({Len(t), MaxAttr}) : Boundary(t, b)},
         fitting # {}
  PROVE  Len(Clamp(v, TRUE)) = Max(fitting)
<1>0. MaxAttr \in Nat \ {0} /\ Len(t) \in Nat
  BY SizesAssumption, LenProperties DEF Utf8
<1>1. Min({Len(t), MaxAttr}) = IF Len(t) > MaxAttr THEN MaxAttr ELSE Len(t)
  <2> DEFINE S == {Len(t), MaxAttr}
  <2>1. S \in SUBSET Nat /\ S # {} /\ Len(t) \in S /\ MaxAttr \in S
        /\ \A x \in S : x = Len(t) \/ x = MaxAttr
    BY <1>0
  <2> HIDE DEF S
  <2>2. Min(S) \in S /\ \A y \in S : Min(S) <= y
    BY <2>1, MinFacts
  <2>3. Min(S) = IF Len(t) > MaxAttr THEN MaxAttr ELSE Len(t)
    <3> DEFINE l == Len(t)
               m == Min(S)
    <3>1. l \in Nat /\ MaxAttr \in Nat /\ m <= l /\ m <= MaxAttr /\ (m = l \/ m = MaxAttr)
      BY <1>0, <2>1, <2>2, Zenon
    <3> HIDE DEF l, m
    <3>2. m = IF l > MaxAttr THEN MaxAttr ELSE l
      BY <3>1
    <3>3. QED
      BY <3>2 DEF l, m
  <2>4. QED
    BY <2>3 DEF S
<1>2. CASE Len(t) > MaxAttr
  <2>1. fitting = {b \in 1..MaxAttr : Boundary(t, b)}
    BY <1>1, <1>2
  <2>2. Utf8SafeCut(t) \in 1..MaxAttr /\ Utf8SafeCut(t) = Max(fitting)
    BY <1>2, <2>1, SafeCut, Zenon
  <2>3. Clamp(v, TRUE) = SubSeq(t, 1, Utf8SafeCut(t))
    BY <1>2, Zenon DEF Clamp
  <2> DEFINE c == Utf8SafeCut(t)
             l == Len(t)
  <2>4. c \in 1..MaxAttr /\ MaxAttr \in Nat /\ l \in Nat /\ l > MaxAttr
    BY <1>0, <1>2, <2>2
  <2>5. \A i \in 1..l : t[i] \in STRING
    BY ElementOfSeq DEF Utf8
  <2>6. Clamp(v, TRUE) = SubSeq(t, 1, c) /\ c = Max(fitting)
    BY <2>2, <2>3, Zenon
  <2> HIDE DEF c, l
  <2>7. c \in Int /\ 1 \in Int /\ 1 <= c /\ \A i \in 1..c : t[i] \in STRING
    BY <2>4, <2>5
  <2>8. Len(SubSeq(t, 1, c)) = IF 1 <= c THEN c - 1 + 1 ELSE 0
    BY <2>7, SubSeqProperties
  <2>9. Len(SubSeq(t, 1, c)) = c
    BY <2>7, <2>8
  <2>10. QED
    BY <2>6, <2>9, Zenon
<1>3. CASE ~(Len(t) > MaxAttr)
  <2>1. fitting = {b \in 1..Len(t) : Boundary(t, b)}
    BY <1>1, <1>3
  <2>2. Clamp(v, TRUE) = t
    BY <1>3 DEF Clamp
  <2> DEFINE l == Len(t)
  <2>3. l \in Nat /\ Len(Clamp(v, TRUE)) = l
    BY <1>0, <2>2, Zenon
  <2>4. Boundary(t, l)
    BY DEF Boundary
  <2>5. fitting = {b \in 1..l : Boundary(t, b)}
    BY <2>1, Zenon
  <2> HIDE DEF l
  <2>6. \A b \in fitting : b \in 1..l
    BY <2>5
  <2>7. l \in fitting
    <3>1. PICK b \in fitting : TRUE
      BY Zenon
    <3>2. b \in 1..l
      BY <2>6, Zenon
    <3>3. l \in 1..l
      BY <2>3, <3>2
    <3>4. QED
      BY <2>4, <2>5, <3>3, Zenon
  <2>8. IsFiniteSet(fitting) /\ fitting \in SUBSET Int
    <3>1. IsFiniteSet(1..l) /\ 1..l \subseteq Int
      BY <2>3, FS_Interval
    <3>2. fitting \subseteq 1..l
      BY <2>6, Zenon
    <3>3. QED
      BY <3>1, <3>2, FS_Subset, Zenon
  <2>9. Max(fitting) \in fitting /\ \A b \in fitting : Max(fitting) >= b
    BY <2>7, <2>8, MaxFacts, Zenon
  <2>10. Max(fitting) \in 1..l /\ Max(fitting) >= l
    BY <2>6, <2>7, <2>9, Zenon
  <2> DEFINE x == Max(fitting)
  <2>11. x \in 1..l /\ x >= l
    BY <2>10
  <2> HIDE DEF x
  <2>12. x = l
    BY <2>3, <2>11
  <2>13. QED
    BY <2>3, <2>12, Zenon DEF x
<1>4. QED
  BY <1>2, <1>3, Zenon

\* Truncation cuts a value at the last boundary of code points within the limit,
\* whatever the limit and however long the code points around it: the scan of
\* utf8SafeCut over three bytes is enough.
THEOREM CutsAtCodePoints == Spec => []WellFormed
<1>1. WellFormed
  <2> DEFINE fitting(v) == {b \in 1..Min({Len(v.text), MaxAttr}) : Boundary(v.text, b)}
  <2>1. \A v : v.kind = "str" /\ Utf8(v.text) /\ fitting(v) # {}
              => Len(Clamp(v, TRUE)) = Max(fitting(v))
    <3>1. SUFFICES ASSUME NEW v, v.kind = "str", Utf8(v.text), fitting(v) # {}
                   PROVE  Len(Clamp(v, TRUE)) = Max(fitting(v))
      BY Zenon
    <3> DEFINE t == v.text
               F == fitting(v)
    <3>2. v.text = t /\ Utf8(t) /\ F = {b \in 1..Min({Len(t), MaxAttr}) : Boundary(t, b)}
          /\ F # {}
      BY <3>1, Zenon
    <3> HIDE DEF t, F
    <3>3. Len(Clamp(v, TRUE)) = Max(F)
      BY <3>1, <3>2, ClampCuts, Zenon
    <3>4. QED
      BY <3>3, Zenon DEF F
  <2>2. \A v, trimmed : trimmed /\ v.kind = "str" /\ Utf8(v.text) /\ fitting(v) # {}
                       => Len(Clamp(v, trimmed)) = Max(fitting(v))
    <3>1. SUFFICES ASSUME NEW v, NEW trimmed, trimmed, v.kind = "str", Utf8(v.text),
                          fitting(v) # {}
                   PROVE  Len(Clamp(v, trimmed)) = Max(fitting(v))
      BY Zenon
    <3>2. Clamp(v, trimmed) = Clamp(v, TRUE)
      BY <3>1 DEF Clamp
    <3>3. QED
      BY <2>1, <3>1, <3>2, Zenon
  <2>3. QED
    BY <2>2, Zenon DEF WellFormed
<1>2. QED
  BY <1>1, PTL

-----------------------------------------------------------------------------
(***************************************************************************)
(* The ids of items, units, batches, groups, stacked calls and records.    *)
(***************************************************************************)
LEMMA ItemIds ==
  ASSUME NEW s, ItemsOK(s)
  PROVE  IdsOf(s) \in Seq(Items) /\ Len(IdsOf(s)) = Len(s) /\ IsSeq(s)
<1> DEFINE r == IdsOf(s)
           n == Len(s)
<1>1. n \in Nat /\ DOMAIN s = 1..n /\ IsSeq(s)
  BY SeqFacts DEF ItemsOK
<1>2. \A i \in 1..n : s[i] \in ToSet(s)
  BY <1>1, IsElement
<1>3. r \in [1..n -> Items]
  BY <1>1, <1>2 DEF IdsOf, ItemsOK, ItemOK
<1> HIDE DEF r, n
<1>4. r \in Seq(Items)
  BY <1>1, <1>3, SeqDef
<1>5. DOMAIN r = 1..n
  BY <1>3
<1>6. Len(r) = n
  BY <1>1, <1>4, <1>5, LenProperties
<1>7. QED
  BY <1>1, <1>4, <1>6 DEF r, n

\* Concatenation of items; then of units, batches, groups and pieces, each with
\* the sequence of one and the empty one.
LEMMA ItemsCat ==
  ASSUME NEW s, NEW t, ItemsOK(s), ItemsOK(t)
  PROVE  ItemsOK(Cat(s, t)) /\ IdsOf(Cat(s, t)) = Cat(IdsOf(s), IdsOf(t))
<1> DEFINE S == ToSet(s) \cup ToSet(t)
           f == [x \in S |-> x.id]
<1>1. s \in Seq(S) /\ t \in Seq(S)
  BY SeqMonotonic DEF ItemsOK, IsSeq
<1>2. ItemsOK(s \o t)
  BY SeqConcat DEF ItemsOK
<1>3. ASSUME NEW q, IsSeq(q), ToSet(q) \subseteq S
      PROVE  IdsOf(q) = Rows(f, q)
  <2>1. \A i \in DOMAIN q : q[i] \in S
    BY <1>3 DEF ToSet
  <2>2. \A i \in DOMAIN q : f[q[i]] = q[i].id
    BY <2>1
  <2>3. QED
    BY <2>2 DEF IdsOf, Rows
<1>4. IsSeq(s) /\ IsSeq(t) /\ IsSeq(s \o t) /\ ToSet(s \o t) \subseteq S
      /\ ToSet(s) \subseteq S /\ ToSet(t) \subseteq S
  BY SeqConcat DEF ItemsOK
<1>5. IdsOf(s) = Rows(f, s) /\ IdsOf(t) = Rows(f, t) /\ IdsOf(s \o t) = Rows(f, s \o t)
  BY <1>3, <1>4
<1> HIDE DEF S, f
<1>6. Rows(f, s \o t) = Rows(f, s) \o Rows(f, t)
  BY <1>1, RowsConcat
<1>7. QED
  BY <1>2, <1>5, <1>6 DEF Cat

LEMMA UnitsCat ==
  ASSUME NEW s, NEW t, UnitsOK(s), UnitsOK(t)
  PROVE  /\ UnitsOK(Cat(s, t)) /\ IdsOfUnits(s) \in Seq(Items)
         /\ IdsOfUnits(Cat(s, t)) = Cat(IdsOfUnits(s), IdsOfUnits(t))
<1> DEFINE S == ToSet(s) \cup ToSet(t)
           f == [u \in S |-> IdsOf(u.items)]
<1>1. s \in Seq(S) /\ t \in Seq(S)
  BY SeqMonotonic DEF UnitsOK, IsSeq
<1>2. UnitsOK(s \o t)
  BY SeqConcat DEF UnitsOK
<1>3. ASSUME NEW q, IsSeq(q), ToSet(q) \subseteq S
      PROVE  IdsOfUnits(q) = Flat(f, q)
  <2>1. \A i \in DOMAIN q : q[i] \in S
    BY <1>3 DEF ToSet
  <2>2. \A i \in DOMAIN q : f[q[i]] = IdsOf(q[i].items)
    BY <2>1
  <2>3. Rows(f, q) = [k \in DOMAIN q |-> IdsOf(q[k].items)]
    BY <2>2, Zenon DEF Rows
  <2>4. QED
    BY <2>3 DEF IdsOfUnits, Flat
<1>4. IsSeq(s) /\ IsSeq(t) /\ IsSeq(s \o t) /\ ToSet(s \o t) \subseteq S
      /\ ToSet(s) \subseteq S /\ ToSet(t) \subseteq S
  BY SeqConcat DEF UnitsOK
<1>5. IdsOfUnits(s) = Flat(f, s) /\ IdsOfUnits(t) = Flat(f, t) /\ IdsOfUnits(s \o t) = Flat(f, s \o t)
  BY <1>3, <1>4
<1>6. \A u \in S : f[u] \in Seq(Items)
  <2>1. \A u \in S : f[u] = IdsOf(u.items) /\ ItemsOK(u.items)
    BY DEF UnitsOK, UnitOK
  <2>2. QED
    BY <2>1, ItemIds, Zenon
<1> HIDE DEF S, f
<1>7. Flat(f, s \o t) = Flat(f, s) \o Flat(f, t) /\ Flat(f, s) \in Seq(Items)
  BY <1>1, <1>6, FlatConcat, FlatType
<1>8. QED
  BY <1>2, <1>5, <1>7 DEF Cat

LEMMA UnitsOne ==
  ASSUME NEW u, UnitOK(u)
  PROVE  UnitsOK(<<u>>) /\ IdsOfUnits(<<u>>) = IdsOf(u.items) /\ IdsOf(u.items) \in Seq(Items)
<1>1. IdsOf(u.items) \in Seq(Items)
  BY ItemIds DEF UnitOK
<1>2. [k \in DOMAIN <<u>> |-> IdsOf(<<u>>[k].items)] = <<IdsOf(u.items)>>
  OBVIOUS
<1>3. FlattenSeq(<<IdsOf(u.items)>>) = IdsOf(u.items)
  BY <1>1, FlattenOne
<1>4. QED
  BY <1>1, <1>2, <1>3, SeqOne DEF UnitsOK, IdsOfUnits

LEMMA UnitsNone == UnitsOK(<<>>) /\ IdsOfUnits(<<>>) = <<>> /\ ItemsOK(<<>>) /\ IdsOf(<<>>) = <<>>
<1>1. IsSeq(<<>>) /\ ToSet(<<>>) = {}
  BY DEF IsSeq, ToSet
<1>2. [k \in DOMAIN <<>> |-> IdsOf(<<>>[k].items)] = <<>>
  OBVIOUS
<1>3. QED
  BY <1>1, <1>2, FlattenEmpty DEF UnitsOK, IdsOfUnits, ItemsOK, IdsOf

LEMMA BatchCat ==
  ASSUME NEW s, NEW t, BatchOK(s), BatchOK(t)
  PROVE  /\ BatchOK(Cat(s, t)) /\ Ids(s) \in Seq(Items)
         /\ Ids(Cat(s, t)) = Cat(Ids(s), Ids(t))
<1> DEFINE S == ToSet(s) \cup ToSet(t)
           f == [r \in S |-> IdsOfUnits(r.units)]
<1>1. s \in Seq(S) /\ t \in Seq(S)
  BY SeqMonotonic DEF BatchOK, IsSeq
<1>2. BatchOK(s \o t)
  BY SeqConcat DEF BatchOK
<1>3. ASSUME NEW q, IsSeq(q), ToSet(q) \subseteq S
      PROVE  Ids(q) = Flat(f, q)
  <2>1. \A i \in DOMAIN q : q[i] \in S
    BY <1>3 DEF ToSet
  <2>2. \A i \in DOMAIN q : f[q[i]] = IdsOfUnits(q[i].units)
    BY <2>1
  <2>3. Rows(f, q) = [i \in DOMAIN q |-> IdsOfUnits(q[i].units)]
    BY <2>2 DEF Rows
  <2>4. QED
    BY <2>3 DEF Ids, Flat
<1>4. IsSeq(s) /\ IsSeq(t) /\ IsSeq(s \o t) /\ ToSet(s \o t) \subseteq S
      /\ ToSet(s) \subseteq S /\ ToSet(t) \subseteq S
  BY SeqConcat DEF BatchOK
<1>5. Ids(s) = Flat(f, s) /\ Ids(t) = Flat(f, t) /\ Ids(s \o t) = Flat(f, s \o t)
  BY <1>3, <1>4
<1>6. \A r \in S : f[r] \in Seq(Items)
  <2>1. \A r \in S : f[r] = IdsOfUnits(r.units) /\ UnitsOK(r.units)
    BY DEF BatchOK, ResourceOK
  <2>2. QED
    BY <2>1, UnitsCat, Zenon
<1> HIDE DEF S, f
<1>7. Flat(f, s \o t) = Flat(f, s) \o Flat(f, t) /\ Flat(f, s) \in Seq(Items)
  BY <1>1, <1>6, FlatConcat, FlatType
<1>8. QED
  BY <1>2, <1>5, <1>7 DEF Cat

LEMMA BatchOne ==
  ASSUME NEW r, ResourceOK(r)
  PROVE  BatchOK(<<r>>) /\ Ids(<<r>>) = IdsOfUnits(r.units) /\ IdsOfUnits(r.units) \in Seq(Items)
<1>1. IdsOfUnits(r.units) \in Seq(Items)
  BY UnitsCat DEF ResourceOK
<1>2. [k \in DOMAIN <<r>> |-> IdsOfUnits(<<r>>[k].units)] = <<IdsOfUnits(r.units)>>
  OBVIOUS
<1>3. FlattenSeq(<<IdsOfUnits(r.units)>>) = IdsOfUnits(r.units)
  BY <1>1, FlattenOne
<1>4. QED
  BY <1>1, <1>2, <1>3, SeqOne DEF BatchOK, Ids

LEMMA BatchNone == BatchOK(<<>>) /\ Ids(<<>>) = <<>>
<1>1. IsSeq(<<>>) /\ ToSet(<<>>) = {}
  BY DEF IsSeq, ToSet
<1>2. [k \in DOMAIN <<>> |-> IdsOfUnits(<<>>[k].units)] = <<>>
  OBVIOUS
<1>3. QED
  BY <1>1, <1>2, FlattenEmpty DEF BatchOK, Ids

\* Groups, and the ids of their items.
GroupsOK(gs) == IsSeq(gs) /\ \A g \in ToSet(gs) : GroupOK(g)
GroupIds(gs) == FlattenSeq([i \in DOMAIN gs |-> Ids(gs[i].res)])

\* For the stack and for the entries.
PiecesOK(cs) == IsSeq(cs) /\ \A c \in ToSet(cs) : PieceOK(c.piece)
PieceIds(cs) == FlattenSeq([i \in DOMAIN cs |-> Ids(cs[i].piece.res)])

LEMMA GroupsCat ==
  ASSUME NEW s, NEW t, GroupsOK(s), GroupsOK(t)
  PROVE  /\ GroupsOK(Cat(s, t)) /\ GroupIds(s) \in Seq(Items)
         /\ GroupIds(Cat(s, t)) = Cat(GroupIds(s), GroupIds(t))
<1> DEFINE S == ToSet(s) \cup ToSet(t)
           f == [r \in S |-> Ids(r.res)]
<1>1. s \in Seq(S) /\ t \in Seq(S)
  BY SeqMonotonic DEF GroupsOK, IsSeq
<1>2. GroupsOK(s \o t)
  BY SeqConcat DEF GroupsOK
<1>3. ASSUME NEW q, IsSeq(q), ToSet(q) \subseteq S
      PROVE  GroupIds(q) = Flat(f, q)
  <2>1. \A i \in DOMAIN q : q[i] \in S
    BY <1>3 DEF ToSet
  <2>2. \A i \in DOMAIN q : f[q[i]] = Ids(q[i].res)
    BY <2>1
  <2>3. Rows(f, q) = [i \in DOMAIN q |-> Ids(q[i].res)]
    BY <2>2, Zenon DEF Rows
  <2>4. QED
    BY <2>3 DEF GroupIds, Flat
<1>4. IsSeq(s) /\ IsSeq(t) /\ IsSeq(s \o t) /\ ToSet(s \o t) \subseteq S
      /\ ToSet(s) \subseteq S /\ ToSet(t) \subseteq S
  BY SeqConcat DEF GroupsOK
<1>5. GroupIds(s) = Flat(f, s) /\ GroupIds(t) = Flat(f, t) /\ GroupIds(s \o t) = Flat(f, s \o t)
  BY <1>3, <1>4
<1>6. \A r \in S : f[r] \in Seq(Items)
  <2>1. \A r \in S : f[r] = Ids(r.res) /\ BatchOK(r.res)
    BY DEF GroupsOK, GroupOK
  <2>2. QED
    BY <2>1, BatchCat, Zenon
<1> HIDE DEF S, f
<1>7. Flat(f, s \o t) = Flat(f, s) \o Flat(f, t) /\ Flat(f, s) \in Seq(Items)
  BY <1>1, <1>6, FlatConcat, FlatType
<1>8. QED
  BY <1>2, <1>5, <1>7 DEF Cat

LEMMA GroupsOne ==
  ASSUME NEW r, GroupOK(r)
  PROVE  GroupsOK(<<r>>) /\ GroupIds(<<r>>) = Ids(r.res) /\ Ids(r.res) \in Seq(Items)
<1>1. Ids(r.res) \in Seq(Items)
  BY BatchCat DEF GroupOK
<1>2. [k \in DOMAIN <<r>> |-> Ids(<<r>>[k].res)] = <<Ids(r.res)>>
  OBVIOUS
<1>3. FlattenSeq(<<Ids(r.res)>>) = Ids(r.res)
  BY <1>1, FlattenOne
<1>4. QED
  BY <1>1, <1>2, <1>3, SeqOne DEF GroupsOK, GroupIds

LEMMA GroupsNone == GroupsOK(<<>>) /\ GroupIds(<<>>) = <<>>
<1>1. IsSeq(<<>>) /\ ToSet(<<>>) = {}
  BY DEF IsSeq, ToSet
<1>2. [k \in DOMAIN <<>> |-> Ids(<<>>[k].res)] = <<>>
  OBVIOUS
<1>3. QED
  BY <1>1, <1>2, FlattenEmpty DEF GroupsOK, GroupIds
LEMMA PiecesCat ==
  ASSUME NEW s, NEW t, PiecesOK(s), PiecesOK(t)
  PROVE  /\ PiecesOK(Cat(s, t)) /\ PieceIds(s) \in Seq(Items)
         /\ PieceIds(Cat(s, t)) = Cat(PieceIds(s), PieceIds(t))
<1> DEFINE S == ToSet(s) \cup ToSet(t)
           f == [r \in S |-> Ids(r.piece.res)]
<1>1. s \in Seq(S) /\ t \in Seq(S)
  BY SeqMonotonic DEF PiecesOK, IsSeq
<1>2. PiecesOK(s \o t)
  BY SeqConcat DEF PiecesOK
<1>3. ASSUME NEW q, IsSeq(q), ToSet(q) \subseteq S
      PROVE  PieceIds(q) = Flat(f, q)
  <2>1. \A i \in DOMAIN q : q[i] \in S
    BY <1>3 DEF ToSet
  <2>2. \A i \in DOMAIN q : f[q[i]] = Ids(q[i].piece.res)
    BY <2>1
  <2>3. Rows(f, q) = [i \in DOMAIN q |-> Ids(q[i].piece.res)]
    BY <2>2, Zenon DEF Rows
  <2>4. QED
    BY <2>3 DEF PieceIds, Flat
<1>4. IsSeq(s) /\ IsSeq(t) /\ IsSeq(s \o t) /\ ToSet(s \o t) \subseteq S
      /\ ToSet(s) \subseteq S /\ ToSet(t) \subseteq S
  BY SeqConcat DEF PiecesOK
<1>5. PieceIds(s) = Flat(f, s) /\ PieceIds(t) = Flat(f, t) /\ PieceIds(s \o t) = Flat(f, s \o t)
  BY <1>3, <1>4, Zenon
<1>6. \A r \in S : f[r] \in Seq(Items)
  <2>1. \A r \in S : f[r] = Ids(r.piece.res) /\ BatchOK(r.piece.res)
    BY Zenon DEF PiecesOK, PieceOK
  <2>2. QED
    BY <2>1, BatchCat, Zenon
<1> HIDE DEF S, f
<1>7. Flat(f, s \o t) = Flat(f, s) \o Flat(f, t) /\ Flat(f, s) \in Seq(Items)
  BY <1>1, <1>6, FlatConcat, FlatType
<1>8. QED
  BY <1>2, <1>5, <1>7 DEF Cat

LEMMA PiecesOne ==
  ASSUME NEW r, PieceOK(r.piece)
  PROVE  PiecesOK(<<r>>) /\ PieceIds(<<r>>) = Ids(r.piece.res) /\ Ids(r.piece.res) \in Seq(Items)
<1>1. Ids(r.piece.res) \in Seq(Items)
  BY BatchCat DEF PieceOK
<1>2. [k \in DOMAIN <<r>> |-> Ids(<<r>>[k].piece.res)] = <<Ids(r.piece.res)>>
  OBVIOUS
<1>3. FlattenSeq(<<Ids(r.piece.res)>>) = Ids(r.piece.res)
  BY <1>1, FlattenOne
<1>4. QED
  BY <1>1, <1>2, <1>3, SeqOne DEF PiecesOK, PieceIds

LEMMA PiecesNone == PiecesOK(<<>>) /\ PieceIds(<<>>) = <<>>
<1>1. IsSeq(<<>>) /\ ToSet(<<>>) = {}
  BY DEF IsSeq, ToSet
<1>2. [k \in DOMAIN <<>> |-> Ids(<<>>[k].piece.res)] = <<>>
  OBVIOUS
<1>3. QED
  BY <1>1, <1>2, FlattenEmpty DEF PiecesOK, PieceIds

-----------------------------------------------------------------------------
(***************************************************************************)
(* Insertion.                                                              *)
(***************************************************************************)
\* t is s with b put in somewhere.
Inserted(s, t, b) ==
  \E a, c \in Seq(Items) : s = Cat(a, c) /\ t = Cat(a, Cat(b, c))

\* Insertion adds exactly what is inserted.
LEMMA InsertedFacts ==
  ASSUME NEW s, NEW t, NEW b \in Seq(Items), Inserted(s, t, b)
  PROVE  /\ s \in Seq(Items) /\ t \in Seq(Items) /\ Len(t) = Len(s) + Len(b)
         /\ ToSet(t) = ToSet(s) \cup ToSet(b)
         /\ IsInjective(t) <=> /\ IsInjective(s) /\ IsInjective(b)
                               /\ ToSet(s) \cap ToSet(b) = {}
<1>1. PICK a, c \in Seq(Items) : s = Cat(a, c) /\ t = Cat(a, Cat(b, c))
  BY DEF Inserted
<1>2. /\ Cat(b, c) \in Seq(Items) /\ Len(Cat(b, c)) = Len(b) + Len(c)
      /\ ToSet(Cat(b, c)) = ToSet(b) \cup ToSet(c)
      /\ IsInjective(Cat(b, c)) <=> /\ IsInjective(b) /\ IsInjective(c)
                                    /\ ToSet(b) \cap ToSet(c) = {}
  <2>1. Cat(b, c) \in Seq(Items) /\ Len(Cat(b, c)) = Len(b) + Len(c)
    BY ConcatProperties DEF Cat
  <2>2. QED
    BY <2>1, Joined DEF Cat
<1>3. /\ t \in Seq(Items) /\ Len(t) = Len(a) + Len(Cat(b, c))
      /\ ToSet(t) = ToSet(a) \cup ToSet(Cat(b, c))
      /\ IsInjective(t) <=> /\ IsInjective(a) /\ IsInjective(Cat(b, c))
                            /\ ToSet(a) \cap ToSet(Cat(b, c)) = {}
  <2> DEFINE d == Cat(b, c)
  <2>1. d \in Seq(Items) /\ t = Cat(a, d)
    BY <1>1, <1>2
  <2> HIDE DEF d
  <2>2. Cat(a, d) \in Seq(Items) /\ Len(Cat(a, d)) = Len(a) + Len(d)
    BY <2>1, ConcatProperties DEF Cat
  <2>3. ToSet(Cat(a, d)) = ToSet(a) \cup ToSet(d)
    BY <2>1, Joined DEF Cat
  <2>4. IsInjective(Cat(a, d)) <=> /\ IsInjective(a) /\ IsInjective(d)
                                  /\ ToSet(a) \cap ToSet(d) = {}
    BY <2>1, Joined DEF Cat
  <2>5. QED
    BY <2>1, <2>2, <2>3, <2>4 DEF d
<1>4. /\ s \in Seq(Items) /\ Len(s) = Len(a) + Len(c) /\ ToSet(s) = ToSet(a) \cup ToSet(c)
      /\ IsInjective(s) <=> /\ IsInjective(a) /\ IsInjective(c)
                            /\ ToSet(a) \cap ToSet(c) = {}
  <2>1. Cat(a, c) \in Seq(Items) /\ Len(Cat(a, c)) = Len(a) + Len(c)
    BY ConcatProperties DEF Cat
  <2>2. /\ ToSet(Cat(a, c)) = ToSet(a) \cup ToSet(c)
        /\ IsInjective(Cat(a, c)) <=> /\ IsInjective(a) /\ IsInjective(c)
                                      /\ ToSet(a) \cap ToSet(c) = {}
    BY Joined DEF Cat
  <2>3. QED
    BY <1>1, <2>1, <2>2
<1>5. Len(t) = Len(s) + Len(b)
  <2> DEFINE x == Len(a)
             y == Len(b)
             z == Len(c)
  <2>1. x \in Nat /\ y \in Nat /\ z \in Nat
    BY LenProperties
  <2>2. Len(t) = x + (y + z) /\ Len(s) = x + z
    BY <1>2, <1>3, <1>4
  <2> HIDE DEF x, y, z
  <2>3. Len(t) = Len(s) + y
    BY <2>1, <2>2
  <2>4. QED
    BY <2>3 DEF y
<1>6. ToSet(t) = ToSet(s) \cup ToSet(b)
  BY <1>2, <1>3, <1>4
<1>7. IsInjective(t) <=> IsInjective(s) /\ IsInjective(b) /\ ToSet(s) \cap ToSet(b) = {}
  BY <1>2, <1>3, <1>4
<1>8. QED
  BY <1>3, <1>4, <1>5, <1>6, <1>7, Zenon

\* Insertion into a part.
LEMMA InsertedInside ==
  ASSUME NEW p \in Seq(Items), NEW q \in Seq(Items), NEW s, NEW t, NEW b \in Seq(Items),
         Inserted(s, t, b)
  PROVE  Inserted(Cat(p, Cat(s, q)), Cat(p, Cat(t, q)), b)
<1>1. PICK a, c \in Seq(Items) : s = Cat(a, c) /\ t = Cat(a, Cat(b, c))
  BY DEF Inserted
<1>2. /\ Cat(p, a) \in Seq(Items) /\ Cat(c, q) \in Seq(Items) /\ Cat(b, c) \in Seq(Items)
  BY CatFacts
<1>3. Cat(p, Cat(s, q)) = Cat(Cat(p, a), Cat(c, q))
  BY <1>1, <1>2, CatAssociative
<1>4. Cat(t, q) = Cat(a, Cat(Cat(b, c), q))
  BY <1>1, <1>2, CatAssociative
<1>5. Cat(Cat(b, c), q) = Cat(b, Cat(c, q))
  BY CatAssociative
<1>6. Cat(b, Cat(c, q)) \in Seq(Items)
  BY <1>2, CatFacts
<1>7. Cat(p, Cat(a, Cat(b, Cat(c, q)))) = Cat(Cat(p, a), Cat(b, Cat(c, q)))
  BY <1>6, CatAssociative
<1>8. QED
  BY <1>2, <1>3, <1>4, <1>5, <1>7 DEF Inserted

LEMMA InsertedNothing ==
  ASSUME NEW s \in Seq(Items)
  PROVE  Inserted(s, s, <<>>)
<1>1. <<>> \in Seq(Items)
  OBVIOUS
<1>2. Cat(s, <<>>) = s /\ Cat(<<>>, <<>>) = <<>>
  BY <1>1, CatEmpty, Zenon
<1>3. QED
  BY <1>1, <1>2, Zenon DEF Inserted

LEMMA NothingInserted ==
  ASSUME NEW s, NEW t, Inserted(s, t, <<>>)
  PROVE  t = s
<1>1. PICK a, c \in Seq(Items) : s = Cat(a, c) /\ t = Cat(a, Cat(<<>>, c))
  BY DEF Inserted
<1>2. Cat(<<>>, c) = c
  BY CatEmpty
<1>3. QED
  BY <1>1, <1>2

LEMMA InsertedLast ==
  ASSUME NEW s \in Seq(Items), NEW b \in Seq(Items)
  PROVE  Inserted(s, Cat(s, b), b)
<1>1. <<>> \in Seq(Items)
  OBVIOUS
<1>2. Cat(s, <<>>) = s /\ Cat(b, <<>>) = b
  BY CatEmpty
<1>3. QED
  BY <1>1, <1>2, Zenon DEF Inserted

-----------------------------------------------------------------------------
(***************************************************************************)
(* One element of a sequence is replaced.                                  *)
(***************************************************************************)
LEMMA UnitsUpdate ==
  ASSUME NEW s, UnitsOK(s), NEW j \in 1..Len(s), NEW x, UnitOK(x), NEW b \in Seq(Items),
         Inserted(IdsOf(s[j].items), IdsOf(x.items), b)
  PROVE  /\ UnitsOK(ReplaceAt(s, j, x))
         /\ Inserted(IdsOfUnits(s), IdsOfUnits(ReplaceAt(s, j, x)), b)
<1>1. IsSeq(s) /\ UnitOK(s[j])
  BY IsElement DEF UnitsOK
<1>2. PICK pre, post :
           /\ IsSeq(pre) /\ IsSeq(post)
           /\ ToSet(pre) \subseteq ToSet(s) /\ ToSet(post) \subseteq ToSet(s)
           /\ s = Cat(pre, Cat(<<s[j]>>, post))
           /\ ReplaceAt(s, j, x) = Cat(pre, Cat(<<x>>, post))
  BY <1>1, SeqParts
<1>3. UnitsOK(pre) /\ UnitsOK(post)
  BY <1>2 DEF UnitsOK
<1>4. ASSUME NEW v, UnitOK(v)
      PROVE  /\ UnitsOK(Cat(pre, Cat(<<v>>, post)))
             /\ IdsOfUnits(Cat(pre, Cat(<<v>>, post)))
                  = Cat(IdsOfUnits(pre), Cat(IdsOf(v.items), IdsOfUnits(post)))
  <2>1. UnitsOK(<<v>>) /\ IdsOfUnits(<<v>>) = IdsOf(v.items)
    BY <1>4, UnitsOne
  <2>2. UnitsOK(Cat(<<v>>, post)) /\ IdsOfUnits(Cat(<<v>>, post)) = Cat(IdsOf(v.items), IdsOfUnits(post))
    BY <1>3, <2>1, UnitsCat
  <2>3. QED
    BY <1>3, <2>2, UnitsCat
<1>5. IdsOfUnits(pre) \in Seq(Items) /\ IdsOfUnits(post) \in Seq(Items)
  BY <1>3, UnitsCat
<1>6. Inserted(Cat(IdsOfUnits(pre), Cat(IdsOf(s[j].items), IdsOfUnits(post))),
               Cat(IdsOfUnits(pre), Cat(IdsOf(x.items), IdsOfUnits(post))), b)
  BY <1>5, InsertedInside
<1>7. IdsOfUnits(s) = Cat(IdsOfUnits(pre), Cat(IdsOf(s[j].items), IdsOfUnits(post)))
  BY <1>1, <1>2, <1>4
<1>8. QED
  BY <1>2, <1>4, <1>6, <1>7

LEMMA BatchUpdate ==
  ASSUME NEW s, BatchOK(s), NEW j \in 1..Len(s), NEW x, ResourceOK(x), NEW b \in Seq(Items),
         Inserted(IdsOfUnits(s[j].units), IdsOfUnits(x.units), b)
  PROVE  /\ BatchOK(ReplaceAt(s, j, x))
         /\ Inserted(Ids(s), Ids(ReplaceAt(s, j, x)), b)
<1>1. IsSeq(s) /\ ResourceOK(s[j])
  BY IsElement DEF BatchOK
<1>2. PICK pre, post :
           /\ IsSeq(pre) /\ IsSeq(post)
           /\ ToSet(pre) \subseteq ToSet(s) /\ ToSet(post) \subseteq ToSet(s)
           /\ s = Cat(pre, Cat(<<s[j]>>, post))
           /\ ReplaceAt(s, j, x) = Cat(pre, Cat(<<x>>, post))
  BY <1>1, SeqParts
<1>3. BatchOK(pre) /\ BatchOK(post)
  BY <1>2 DEF BatchOK
<1>4. ASSUME NEW v, ResourceOK(v)
      PROVE  /\ BatchOK(Cat(pre, Cat(<<v>>, post)))
             /\ Ids(Cat(pre, Cat(<<v>>, post)))
                  = Cat(Ids(pre), Cat(IdsOfUnits(v.units), Ids(post)))
  <2>1. BatchOK(<<v>>) /\ Ids(<<v>>) = IdsOfUnits(v.units)
    BY <1>4, BatchOne
  <2>2. BatchOK(Cat(<<v>>, post)) /\ Ids(Cat(<<v>>, post)) = Cat(IdsOfUnits(v.units), Ids(post))
    BY <1>3, <2>1, BatchCat
  <2>3. QED
    BY <1>3, <2>2, BatchCat
<1>5. Ids(pre) \in Seq(Items) /\ Ids(post) \in Seq(Items)
  BY <1>3, BatchCat
<1>6. Inserted(Cat(Ids(pre), Cat(IdsOfUnits(s[j].units), Ids(post))),
               Cat(Ids(pre), Cat(IdsOfUnits(x.units), Ids(post))), b)
  BY <1>5, InsertedInside
<1>7. Ids(s) = Cat(Ids(pre), Cat(IdsOfUnits(s[j].units), Ids(post)))
  BY <1>1, <1>2, <1>4
<1>8. QED
  BY <1>2, <1>4, <1>6, <1>7

LEMMA GroupsUpdate ==
  ASSUME NEW s, GroupsOK(s), NEW j \in 1..Len(s), NEW x, GroupOK(x), NEW b \in Seq(Items),
         Inserted(Ids(s[j].res), Ids(x.res), b)
  PROVE  /\ GroupsOK(ReplaceAt(s, j, x))
         /\ Inserted(GroupIds(s), GroupIds(ReplaceAt(s, j, x)), b)
<1>1. IsSeq(s) /\ GroupOK(s[j])
  BY IsElement DEF GroupsOK
<1>2. PICK pre, post :
           /\ IsSeq(pre) /\ IsSeq(post)
           /\ ToSet(pre) \subseteq ToSet(s) /\ ToSet(post) \subseteq ToSet(s)
           /\ s = Cat(pre, Cat(<<s[j]>>, post))
           /\ ReplaceAt(s, j, x) = Cat(pre, Cat(<<x>>, post))
  BY <1>1, SeqParts
<1>3. GroupsOK(pre) /\ GroupsOK(post)
  BY <1>2 DEF GroupsOK
<1>4. ASSUME NEW v, GroupOK(v)
      PROVE  /\ GroupsOK(Cat(pre, Cat(<<v>>, post)))
             /\ GroupIds(Cat(pre, Cat(<<v>>, post)))
                  = Cat(GroupIds(pre), Cat(Ids(v.res), GroupIds(post)))
  <2>1. GroupsOK(<<v>>) /\ GroupIds(<<v>>) = Ids(v.res)
    BY <1>4, GroupsOne
  <2>2. GroupsOK(Cat(<<v>>, post)) /\ GroupIds(Cat(<<v>>, post)) = Cat(Ids(v.res), GroupIds(post))
    BY <1>3, <2>1, GroupsCat
  <2>3. QED
    BY <1>3, <2>2, GroupsCat
<1>5. GroupIds(pre) \in Seq(Items) /\ GroupIds(post) \in Seq(Items)
  BY <1>3, GroupsCat
<1>6. Inserted(Cat(GroupIds(pre), Cat(Ids(s[j].res), GroupIds(post))),
               Cat(GroupIds(pre), Cat(Ids(x.res), GroupIds(post))), b)
  BY <1>5, InsertedInside
<1>7. GroupIds(s) = Cat(GroupIds(pre), Cat(Ids(s[j].res), GroupIds(post)))
  BY <1>1, <1>2, <1>4
<1>8. QED
  BY <1>2, <1>4, <1>6, <1>7

-----------------------------------------------------------------------------
(***************************************************************************)
(* The bodies of the groupers' loops put one item, or one resource, into   *)
(* the groups and leave the others where they are.                         *)
(***************************************************************************)
\* One element more.
LEMMA AppendIsCat ==
  ASSUME NEW s, IsSeq(s), NEW x
  PROVE  Append(s, x) = Cat(s, <<x>>)
<1> DEFINE S == ToSet(s) \cup {x}
<1>1. s \in Seq(S) /\ x \in S
  BY SeqMonotonic DEF IsSeq
<1> HIDE DEF S
<1>2. QED
  BY <1>1, AppendIsConcat DEF Cat

\* Then of items, units, resources and groups.
LEMMA ItemsAppend ==
  ASSUME NEW s, ItemsOK(s), NEW x, ItemOK(x)
  PROVE  /\ ItemsOK(Append(s, x)) /\ <<x.id>> \in Seq(Items)
         /\ Inserted(IdsOf(s), IdsOf(Append(s, x)), <<x.id>>)
<1>1. ItemsOK(<<x>>) /\ IdsOf(<<x>>) = <<x.id>>
  <2>1. IdsOf(<<x>>) = <<x.id>>
    BY DEF IdsOf
  <2>2. QED
    BY <2>1, SeqOne DEF ItemsOK
<1>2. Append(s, x) = Cat(s, <<x>>)
  BY AppendIsCat DEF ItemsOK
<1>3. ItemsOK(Cat(s, <<x>>)) /\ IdsOf(Cat(s, <<x>>)) = Cat(IdsOf(s), <<x.id>>)
  BY <1>1, ItemsCat
<1>4. IdsOf(s) \in Seq(Items) /\ <<x.id>> \in Seq(Items)
  BY ItemIds DEF ItemOK
<1>5. QED
  BY <1>2, <1>3, <1>4, InsertedLast, Zenon

LEMMA UnitsAppend ==
  ASSUME NEW s, UnitsOK(s), NEW x, UnitOK(x)
  PROVE  /\ UnitsOK(Append(s, x)) /\ IdsOf(x.items) \in Seq(Items)
         /\ IdsOfUnits(Append(s, x)) = Cat(IdsOfUnits(s), IdsOf(x.items))
<1>1. Append(s, x) = Cat(s, <<x>>)
  BY AppendIsCat DEF UnitsOK
<1>2. QED
  BY <1>1, UnitsOne, UnitsCat

LEMMA BatchAppend ==
  ASSUME NEW s, BatchOK(s), NEW x, ResourceOK(x)
  PROVE  /\ BatchOK(Append(s, x)) /\ IdsOfUnits(x.units) \in Seq(Items)
         /\ Ids(Append(s, x)) = Cat(Ids(s), IdsOfUnits(x.units))
<1>1. Append(s, x) = Cat(s, <<x>>)
  BY AppendIsCat DEF BatchOK
<1>2. QED
  BY <1>1, BatchOne, BatchCat

LEMMA GroupsAppend ==
  ASSUME NEW s, GroupsOK(s), NEW x, GroupOK(x)
  PROVE  /\ GroupsOK(Append(s, x)) /\ Ids(x.res) \in Seq(Items)
         /\ GroupIds(Append(s, x)) = Cat(GroupIds(s), Ids(x.res))
<1>1. Append(s, x) = Cat(s, <<x>>)
  BY AppendIsCat DEF GroupsOK
<1>2. QED
  BY <1>1, GroupsOne, GroupsCat

\* bucketFor: there is a group of the key, and nothing else has changed.
LEMMA Opened ==
  ASSUME NEW gs, GroupsOK(gs), NEW k
  PROVE  LET opened == BucketFor(gs, k)
             g == SelectInSeq(opened, LAMBDA h : h.key = k)
         IN  /\ GroupsOK(opened) /\ GroupIds(opened) = GroupIds(gs)
             /\ g \in 1..Len(opened) /\ opened[g].key = k
<1> DEFINE opened == BucketFor(gs, k)
           I == {i \in 1..Len(opened) : opened[i].key = k}
           x == [key |-> k, res |-> <<>>]
<1>1. /\ GroupsOK(opened) /\ GroupIds(opened) = GroupIds(gs) /\ I # {}
  <2>1. IsSeq(gs) /\ Len(gs) \in Nat /\ DOMAIN gs = 1..Len(gs)
    BY SeqFacts DEF GroupsOK
  <2>2. CASE \E g \in DOMAIN gs : gs[g].key = k
    BY <2>1, <2>2 DEF BucketFor
  <2>3. CASE ~\E g \in DOMAIN gs : gs[g].key = k
    <3>1. opened = Append(gs, x)
      BY <2>3 DEF BucketFor
    <3>2. GroupOK(x) /\ x.res = <<>>
      BY BatchNone DEF GroupOK
    <3>3. GroupsOK(opened) /\ GroupIds(opened) = Cat(GroupIds(gs), <<>>)
      <4>1. Ids(x.res) = <<>>
        BY BatchNone
      <4> HIDE DEF x
      <4>2. QED
        BY <3>1, <3>2, <4>1, GroupsAppend
    <3>4. GroupIds(gs) \in Seq(Items)
      BY GroupsCat
    <3>5. Len(opened) = Len(gs) + 1 /\ opened[Len(gs) + 1] = x
      <4> DEFINE S == ToSet(gs) \cup {x}
      <4>1. gs \in Seq(S) /\ x \in S
        BY <2>1, SeqMonotonic DEF IsSeq
      <4> HIDE DEF S, x
      <4>2. QED
        BY <3>1, <4>1, AppendProperties
    <3>6. Len(gs) + 1 \in 1..Len(opened) /\ opened[Len(gs) + 1].key = k
      BY <2>1, <3>5
    <3>7. Len(gs) + 1 \in I
      BY <3>6
    <3>8. QED
      BY <3>3, <3>4, <3>7, CatEmpty
  <2>4. QED
    BY <2>2, <2>3
<1>2. Min(I) \in I
  <2>1. I \in SUBSET Nat
    BY SeqFacts, <1>1 DEF GroupsOK
  <2> HIDE DEF I
  <2>2. QED
    BY <1>1, <2>1, MinFacts
<1>3. SelectInSeq(opened, LAMBDA h : h.key = k) = Min(I)
  BY <1>1 DEF SelectInSeq
<1>4. QED
  BY <1>1, <1>2, <1>3

\* What is replaced in a sequence.
LEMMA Replaced ==
  ASSUME NEW s, IsSeq(s), NEW j \in 1..Len(s), NEW x
  PROVE  /\ Len(ReplaceAt(s, j, x)) = Len(s)
         /\ \A i \in 1..Len(s) : ReplaceAt(s, j, x)[i] = IF i = j THEN x ELSE s[i]
<1> DEFINE S == ToSet(s) \cup {x}
<1>1. s \in Seq(S) /\ x \in S
  BY SeqMonotonic DEF IsSeq
<1> HIDE DEF S
<1>2. QED
  BY <1>1, ExceptSeq DEF ReplaceAt

LEMMA Appended ==
  ASSUME NEW s, IsSeq(s), NEW x
  PROVE  /\ Len(Append(s, x)) = Len(s) + 1
         /\ \A i \in 1..Len(s) : Append(s, x)[i] = s[i]
         /\ Append(s, x)[Len(s) + 1] = x
<1> DEFINE S == ToSet(s) \cup {x}
<1>1. s \in Seq(S) /\ x \in S
  BY SeqMonotonic DEF IsSeq
<1> HIDE DEF S
<1>2. QED
  BY <1>1, AppendProperties

\* ensureMetric, ensureScope: a place for unit u of resource r, which is all that
\* is new.
LEMMA Ensured ==
  ASSUME NEW res, BatchOK(res), NEW r, ResourceOK(r), NEW u, UnitOK(u)
  PROVE  LET e == Ensure(res, r, u)
         IN  /\ BatchOK(e) /\ Ids(e) = Ids(res)
             /\ \E a \in 1..Len(e) :
                  /\ e[a].from = r.from
                  /\ \A i \in 1..Len(e) : e[i].from = r.from => a <= i
                  /\ \E n \in DOMAIN e[a].units : SameUnit(e[a].units[n], u)
<1> DEFINE I == {i \in 1..Len(res) : res[i].from = r.from}
           at0 == IF I # {} THEN Min(I) ELSE 0
           r0 == [from |-> r.from, attrs |-> r.attrs, units |-> <<>>]
           opened == IF at0 = 0 THEN Append(res, r0) ELSE res
           a == IF at0 = 0 THEN Len(opened) ELSE at0
           v == [from |-> u.from, name |-> u.name, items |-> <<>>]
           q == [opened[a] EXCEPT !.units = Append(@, v)]
           e == Ensure(res, r, u)
<1>1. IsSeq(res) /\ Len(res) \in Nat
  BY SeqFacts DEF BatchOK
<1>2. I # {} => Min(I) \in I /\ Min(I) # 0 /\ \A i \in I : Min(I) <= i
  <2>1. I \in SUBSET Nat /\ 0 \notin I
    OBVIOUS
  <2> HIDE DEF I
  <2>2. QED
    BY <2>1, MinFacts
<1>3. at0 = SelectInSeq(res, LAMBDA z : z.from = r.from)
  BY DEF SelectInSeq
<1>4. [r EXCEPT !.units = <<>>] = r0 /\ [u EXCEPT !.items = <<>>] = v
  BY DEF ResourceOK, UnitOK
<1>5. e = IF \E n \in DOMAIN opened[a].units : SameUnit(opened[a].units[n], u) THEN opened
          ELSE ReplaceAt(opened, a, q)
  BY <1>3, <1>4, Zenon DEF Ensure, ReplaceAt
<1>6. ResourceOK(r0) /\ UnitOK(v) /\ IdsOfUnits(r0.units) = <<>> /\ IdsOf(v.items) = <<>>
  BY UnitsNone DEF ResourceOK, UnitOK
<1>7. /\ BatchOK(opened) /\ Ids(opened) = Ids(res)
      /\ a \in 1..Len(opened) /\ opened[a].from = r.from
      /\ \A i \in 1..Len(opened) : opened[i].from = r.from => a <= i
  <2>1. CASE I # {}
    BY <1>2, <2>1, Zenon
  <2>2. CASE I = {}
    <3>1. opened = Append(res, r0) /\ a = Len(opened)
      BY <2>2
    <3>2. r0.from = r.from
      OBVIOUS
    <3> HIDE DEF r0, opened, a
    <3>3. BatchOK(opened) /\ Ids(opened) = Cat(Ids(res), <<>>)
      BY <1>6, <3>1, BatchAppend
    <3>4. Ids(opened) = Ids(res)
      BY <3>3, BatchCat, CatEmpty
    <3>5. Len(opened) = Len(res) + 1 /\ opened[Len(res) + 1] = r0
          /\ \A i \in 1..Len(res) : opened[i] = res[i]
      BY <1>1, <3>1, Appended
    <3>6. a \in 1..Len(opened) /\ opened[a].from = r.from
      BY <1>1, <3>1, <3>2, <3>5
    <3>7. ASSUME NEW i \in 1..Len(opened), opened[i].from = r.from
          PROVE  a <= i
      <4>1. i \notin 1..Len(res)
        BY <2>2, <3>5, <3>7
      <4>2. QED
        BY <1>1, <3>1, <3>5, <4>1
    <3>8. QED
      BY <3>3, <3>4, <3>6, <3>7
  <2>3. QED
    BY <2>1, <2>2, Zenon
<1> HIDE DEF I, at0, r0, opened, a, v, e
<1>8. CASE \E n \in DOMAIN opened[a].units : SameUnit(opened[a].units[n], u)
  BY <1>5, <1>7, <1>8, Zenon DEF e
<1>9. CASE ~\E n \in DOMAIN opened[a].units : SameUnit(opened[a].units[n], u)
  <2> DEFINE p == opened[a]
             s == p.units
  <2>1. IsSeq(opened) /\ ResourceOK(p) /\ UnitsOK(s) /\ IsSeq(s)
    BY <1>7, IsElement DEF BatchOK, ResourceOK, UnitsOK
  <2>2. q = [from |-> p.from, attrs |-> p.attrs, units |-> Append(s, v)]
    <3>1. p = [from |-> p.from, attrs |-> p.attrs, units |-> p.units]
      BY <2>1 DEF ResourceOK
    <3> HIDE DEF p
    <3>2. q = [p EXCEPT !.units = Append(p.units, v)]
      BY DEF p
    <3>3. QED
      BY <3>1, <3>2
  <2>3. p.from = r.from /\ q.units = Append(s, v) /\ q.from = p.from
    BY <1>7, <2>2
  <2>4. e = ReplaceAt(opened, a, q)
    BY <1>5, <1>9
  <2> HIDE DEF q
  <2>5. UnitsOK(Append(s, v)) /\ IdsOfUnits(Append(s, v)) = Cat(IdsOfUnits(s), <<>>)
    BY <1>6, <2>1, UnitsAppend
  <2>6. IdsOfUnits(s) \in Seq(Items)
    BY <2>1, UnitsCat
  <2>7. IdsOfUnits(q.units) = IdsOfUnits(p.units)
    BY <2>3, <2>5, <2>6, CatEmpty
  <2>8. ResourceOK(q)
    BY <2>1, <2>2, <2>5 DEF ResourceOK
  <2>9. Inserted(IdsOfUnits(p.units), IdsOfUnits(q.units), <<>>) /\ <<>> \in Seq(Items)
    BY <2>6, <2>7, InsertedNothing
  <2>10. BatchOK(e) /\ Inserted(Ids(opened), Ids(e), <<>>)
    BY <1>7, <2>4, <2>8, <2>9, BatchUpdate, Zenon
  <2>11. Ids(e) = Ids(res)
    BY <1>7, <2>10, NothingInserted
  <2>12. Len(e) = Len(opened) /\ \A i \in 1..Len(opened) : e[i] = IF i = a THEN q ELSE opened[i]
    BY <1>7, <2>1, <2>4, Replaced
  <2>13. /\ a \in 1..Len(e) /\ e[a] = q /\ e[a].from = r.from
         /\ \A i \in 1..Len(e) : e[i].from = r.from => a <= i
    BY <1>7, <2>3, <2>12, Zenon
  <2>14. \E n \in DOMAIN e[a].units : SameUnit(e[a].units[n], u)
    <3>1. Len(Append(s, v)) = Len(s) + 1 /\ Append(s, v)[Len(s) + 1] = v
      BY <2>1, Appended
    <3>2. Len(s) \in Nat /\ DOMAIN Append(s, v) = 1..(Len(s) + 1)
      BY <2>1, <2>5, <3>1, SeqFacts DEF UnitsOK
    <3>3. Len(s) + 1 \in DOMAIN e[a].units /\ e[a].units[Len(s) + 1] = v
      BY <2>3, <2>13, <3>1, <3>2
    <3>4. SameUnit(v, u)
      BY DEF SameUnit, v
    <3>5. QED
      BY <3>3, <3>4
  <2>15. QED
    BY <2>10, <2>11, <2>13, <2>14 DEF e
<1>10. QED
  BY <1>8, <1>9

\* A group gets resources that have more items than the ones it had.
LEMMA GroupGets ==
  ASSUME NEW gs, GroupsOK(gs), NEW g \in 1..Len(gs), NEW res, BatchOK(res),
         NEW b \in Seq(Items), Inserted(Ids(gs[g].res), Ids(res), b)
  PROVE  /\ GroupsOK([gs EXCEPT ![g].res = res])
         /\ Inserted(GroupIds(gs), GroupIds([gs EXCEPT ![g].res = res]), b)
<1> DEFINE h == gs[g]
           x == [key |-> h.key, res |-> res]
<1>1. h = [key |-> h.key, res |-> h.res]
  <2>1. GroupOK(h)
    BY IsElement DEF GroupsOK
  <2>2. QED
    BY <2>1 DEF GroupOK
<1>2. [gs EXCEPT ![g].res = res] = ReplaceAt(gs, g, x)
  <2>1. [h EXCEPT !.res = res] = x
    <3> HIDE DEF h
    <3>1. [h EXCEPT !.res = res] = [key |-> h.key, res |-> res]
      BY <1>1
    <3>2. QED
      BY <3>1
  <2>2. [gs EXCEPT ![g].res = res] = [gs EXCEPT ![g] = [h EXCEPT !.res = res]]
    OBVIOUS
  <2>3. QED
    BY <2>1, <2>2, Zenon DEF ReplaceAt
<1>3. GroupOK(x) /\ x.res = res
  BY DEF GroupOK
<1> DEFINE e == [gs EXCEPT ![g].res = res]
<1> HIDE DEF x, e
<1>4. GroupsOK(ReplaceAt(gs, g, x)) /\ Inserted(GroupIds(gs), GroupIds(ReplaceAt(gs, g, x)), b)
  BY <1>3, GroupsUpdate
<1>5. e = ReplaceAt(gs, g, x)
  BY <1>2 DEF e
<1>6. GroupsOK(e) /\ Inserted(GroupIds(gs), GroupIds(e), b)
  BY <1>4, <1>5
<1>7. QED
  BY <1>6 DEF e

\* An item is appended to the items of unit c of resource a, whose attributes may
\* get more.
LEMMA UnitGets ==
  ASSUME NEW res, BatchOK(res), NEW a \in 1..Len(res), NEW c \in 1..Len(res[a].units),
         NEW x, ItemOK(x), NEW m,
         NEW more, more = [res EXCEPT ![a].units[c].items = Append(@, x), ![a].attrs = m]
  PROVE  BatchOK(more) /\ Inserted(Ids(res), Ids(more), <<x.id>>)
<1> DEFINE p == res[a]
           us == p.units
           w == us[c]
           w2 == [from |-> w.from, name |-> w.name, items |-> Append(w.items, x)]
           p2 == [from |-> p.from, attrs |-> m, units |-> ReplaceAt(us, c, w2)]
<1>1. /\ IsSeq(res) /\ ResourceOK(p) /\ p = [from |-> p.from, attrs |-> p.attrs, units |-> us]
      /\ UnitsOK(us) /\ p.from \in Nat
  <2>1. IsSeq(res) /\ ResourceOK(p)
    BY IsElement DEF BatchOK
  <2>2. QED
    BY <2>1 DEF ResourceOK
<1>2. /\ IsSeq(us) /\ UnitOK(w) /\ w = [from |-> w.from, name |-> w.name, items |-> w.items]
      /\ ItemsOK(w.items) /\ w.from \in Nat
  <2>1. IsSeq(us) /\ UnitOK(w)
    BY <1>1, IsElement DEF UnitsOK
  <2>2. QED
    BY <2>1 DEF UnitOK
<1>3. more = ReplaceAt(res, a, p2)
  <2>1. w2 = [w EXCEPT !.items = Append(w.items, x)]
    <3> HIDE DEF w
    <3>1. ASSUME NEW z
          PROVE  [from |-> w.from, name |-> w.name, items |-> z] = [w EXCEPT !.items = z]
      BY <1>2
    <3>2. QED
      BY <3>1, Zenon
  <2>2. ReplaceAt(us, c, w2) = [us EXCEPT ![c].items = Append(w.items, x)]
    BY <2>1, Zenon DEF ReplaceAt
  <2> DEFINE q == [p EXCEPT !.units[c].items = Append(w.items, x)]
             y == [res EXCEPT ![a].units[c].items = Append(w.items, x)]
  <2>3. q = [from |-> p.from, attrs |-> p.attrs, units |-> ReplaceAt(us, c, w2)]
    <3> HIDE DEF p, w
    <3>1. q = [p EXCEPT !.units = [us EXCEPT ![c].items = Append(w.items, x)]]
      OBVIOUS
    <3> HIDE DEF q
    <3>2. q = [p EXCEPT !.units = ReplaceAt(us, c, w2)]
      BY <2>2, <3>1, Zenon
    <3> HIDE DEF us, w2
    <3>3. QED
      BY <1>1, <3>2
  <2>4. y = [res EXCEPT ![a] = q]
    OBVIOUS
  <2>5. y[a] = q /\ DOMAIN y = DOMAIN res /\ y = [i \in DOMAIN res |-> IF i = a THEN q ELSE res[i]]
    <3> HIDE DEF q, y
    <3>1. a \in DOMAIN res /\ res = [i \in DOMAIN res |-> res[i]]
      <4>1. DOMAIN res = 1..Len(res) /\ res \in [1..Len(res) -> ToSet(res)]
        BY <1>1, SeqFacts, LenProperties DEF IsSeq
      <4>2. QED
        BY <4>1
    <3>2. QED
      BY <2>4, <3>1, Zenon
  <2>6. more = [y EXCEPT ![a].attrs = m]
    OBVIOUS
  <2>7. [q EXCEPT !.attrs = m] = p2
    <3> HIDE DEF q, p, us, w2
    <3>1. QED
      BY <2>3
  <2>8. more = [y EXCEPT ![a] = p2]
    <3> HIDE DEF q, y, p2
    <3>1. [y EXCEPT ![a].attrs = m] = [y EXCEPT ![a] = [q EXCEPT !.attrs = m]]
      BY <2>5
    <3>2. QED
      BY <2>6, <2>7, <3>1, Zenon
  <2>9. [y EXCEPT ![a] = p2] = [res EXCEPT ![a] = p2]
    <3> HIDE DEF q, y, p2
    <3>1. QED
      BY <2>5, Zenon
  <2>10. QED
    BY <2>8, <2>9, Zenon DEF ReplaceAt
<1>4. ItemsOK(w2.items) /\ <<x.id>> \in Seq(Items) /\ Inserted(IdsOf(w.items), IdsOf(w2.items), <<x.id>>)
  BY <1>2, ItemsAppend
<1>5. UnitOK(w2)
  BY <1>2, <1>4 DEF UnitOK
<1> HIDE DEF w2
<1>6. UnitsOK(ReplaceAt(us, c, w2)) /\ Inserted(IdsOfUnits(us), IdsOfUnits(ReplaceAt(us, c, w2)), <<x.id>>)
  BY <1>1, <1>4, <1>5, UnitsUpdate, Zenon
<1>7. p2.units = ReplaceAt(us, c, w2) /\ ResourceOK(p2)
  BY <1>1, <1>6 DEF ResourceOK
<1> HIDE DEF p2
<1>8. BatchOK(ReplaceAt(res, a, p2)) /\ Inserted(Ids(res), Ids(ReplaceAt(res, a, p2)), <<x.id>>)
  BY <1>4, <1>6, <1>7, BatchUpdate, Zenon
<1>9. QED
  BY <1>3, <1>8, Zenon

\* groupByLeaf puts the item into the groups.
LEMMA LeafAdded ==
  ASSUME NEW gs, GroupsOK(gs), NEW r, ResourceOK(r), NEW u, UnitOK(u), NEW x, ItemOK(x),
         NEW pl
  PROVE  LET after == AddLeaf(pl, gs, r, u, x)
         IN  GroupsOK(after) /\ Inserted(GroupIds(gs), GroupIds(after), <<x.id>>)
<1> DEFINE parts == ResolveParts(pl, r.attrs, u.name, x.attrs)
           k == JoinParts(parts)
           opened == BucketFor(gs, k)
           g == SelectInSeq(opened, LAMBDA h : h.key = k)
           old == opened[g].res
           res == Ensure(old, r, u)
           a == SelectInSeq(res, LAMBDA q : q.from = r.from)
           us == res[a].units
           c == SelectInSeq(us, LAMBDA q : SameUnit(q, u))
           moved == [x EXCEPT !.attrs = ApplyPromotions(pl, parts, ToLeaf, @)]
           m == ApplyPromotions(pl, parts, ToResource, res[a].attrs)
           more == [res EXCEPT ![a].units[c].items = Append(@, moved), ![a].attrs = m]
           after == [opened EXCEPT ![g].res = more]
<1>1. /\ GroupsOK(opened) /\ GroupIds(opened) = GroupIds(gs) /\ g \in 1..Len(opened)
  BY Opened, Zenon
<1>2. BatchOK(old)
  <2>1. GroupOK(opened[g])
    BY <1>1, IsElement DEF GroupsOK
  <2>2. QED
    BY <2>1 DEF GroupOK
<1>3. AddLeaf(pl, gs, r, u, x) = after
  BY DEF AddLeaf
<1>4. ItemOK(moved) /\ moved.id = x.id
  BY DEF ItemOK
<1> HIDE DEF parts, k, opened, g, moved
<1>5. /\ BatchOK(res) /\ Ids(res) = Ids(old)
      /\ \E i \in 1..Len(res) :
           /\ res[i].from = r.from
           /\ \A j \in 1..Len(res) : res[j].from = r.from => i <= j
           /\ \E n \in DOMAIN res[i].units : SameUnit(res[i].units[n], u)
  BY <1>2, Ensured, Zenon
<1> HIDE DEF old, res
<1>6. a \in 1..Len(res) /\ \E n \in DOMAIN us : SameUnit(us[n], u)
  <2> DEFINE I == {i \in 1..Len(res) : res[i].from = r.from}
  <2>1. PICK i \in 1..Len(res) :
           /\ res[i].from = r.from
           /\ \A j \in 1..Len(res) : res[j].from = r.from => i <= j
           /\ \E n \in DOMAIN res[i].units : SameUnit(res[i].units[n], u)
    BY <1>5
  <2>2. i \in I /\ I \in SUBSET Nat /\ \A j \in I : i <= j
    BY <2>1
  <2>3. a = Min(I)
    BY <2>2 DEF SelectInSeq
  <2> HIDE DEF I, a
  <2>4. Min(I) \in I /\ \A j \in I : Min(I) <= j
    BY <2>2, MinFacts
  <2>5. a = i
    <3>1. a <= i /\ i <= a /\ a \in Nat /\ i \in Nat
      BY <2>2, <2>3, <2>4, Zenon
    <3>2. QED
      BY <3>1
  <2>6. QED
    BY <2>1, <2>5
<1> HIDE DEF a
<1>7. c \in 1..Len(us)
  <2> DEFINE J == {j \in 1..Len(us) : SameUnit(us[j], u)}
  <2>1. DOMAIN us = 1..Len(us)
    <3>1. ResourceOK(res[a])
      BY <1>5, <1>6, IsElement DEF BatchOK
    <3>2. IsSeq(us)
      BY <3>1 DEF ResourceOK, UnitsOK
    <3>3. QED
      BY <3>2, SeqFacts
  <2>2. J # {} /\ J \in SUBSET Nat
    BY <1>6, <2>1
  <2>3. c = Min(J)
    BY <2>2 DEF SelectInSeq
  <2> HIDE DEF J, c
  <2>4. Min(J) \in J
    BY <2>2, MinFacts
  <2>5. QED
    BY <2>3, <2>4 DEF J
<1>8. BatchOK(more) /\ Inserted(Ids(res), Ids(more), <<moved.id>>)
  <2> HIDE DEF m, c, us
  <2>1. c \in 1..Len(res[a].units)
    BY <1>7 DEF us
  <2> DEFINE mm == [res EXCEPT ![a].units[c].items = Append(@, moved), ![a].attrs = m]
  <2>2. more = mm
    OBVIOUS
  <2> HIDE DEF more
  <2>3. QED
    BY <1>4, <1>5, <1>6, <2>1, <2>2, UnitGets, Zenon
<1>9. Inserted(Ids(old), Ids(more), <<x.id>>) /\ <<x.id>> \in Seq(Items)
  <2> HIDE DEF more
  <2>1. QED
    BY <1>4, <1>5, <1>8 DEF ItemOK
<1> HIDE DEF more
<1>10. GroupsOK(after) /\ Inserted(GroupIds(opened), GroupIds(after), <<x.id>>)
  BY <1>1, <1>8, <1>9, GroupGets, Zenon DEF old
<1>11. QED
  BY <1>1, <1>3, <1>10

\* A metric without data points puts nothing into them.
LEMMA ShellAdded ==
  ASSUME NEW gs, GroupsOK(gs), NEW r, ResourceOK(r), NEW u, UnitOK(u), NEW pl
  PROVE  LET after == AddShell(pl, gs, r, u)
         IN  GroupsOK(after) /\ GroupIds(after) = GroupIds(gs)
<1> DEFINE k == JoinParts(ResolveParts(pl, r.attrs, u.name, NoAttrs))
           opened == BucketFor(gs, k)
           g == SelectInSeq(opened, LAMBDA h : h.key = k)
           old == opened[g].res
           res == Ensure(old, r, u)
           after == [opened EXCEPT ![g].res = res]
<1>1. /\ GroupsOK(opened) /\ GroupIds(opened) = GroupIds(gs) /\ g \in 1..Len(opened)
  BY Opened, Zenon
<1>2. BatchOK(old)
  <2>1. GroupOK(opened[g])
    BY <1>1, IsElement DEF GroupsOK
  <2>2. QED
    BY <2>1 DEF GroupOK
<1>3. AddShell(pl, gs, r, u) = after
  BY DEF AddShell
<1> HIDE DEF k, opened, g
<1>4. BatchOK(res) /\ Ids(res) = Ids(old)
  BY <1>2, Ensured
<1> HIDE DEF res
<1>5. Inserted(Ids(old), Ids(res), <<>>) /\ <<>> \in Seq(Items)
  BY <1>2, <1>4, BatchCat, InsertedNothing
<1>6. GroupsOK(after) /\ Inserted(GroupIds(opened), GroupIds(after), <<>>)
  BY <1>1, <1>4, <1>5, GroupGets, Zenon
<1>7. QED
  BY <1>1, <1>3, <1>6, NothingInserted

\* groupByResource puts the resource's items into them.
LEMMA ResourceAdded ==
  ASSUME NEW gs, GroupsOK(gs), NEW r, ResourceOK(r), NEW pl
  PROVE  LET after == AddResource(pl, gs, r)
         IN  GroupsOK(after) /\ Inserted(GroupIds(gs), GroupIds(after), IdsOfUnits(r.units))
<1> DEFINE parts == ResolveParts(pl, r.attrs, <<>>, NoAttrs)
           k == JoinParts(parts)
           opened == BucketFor(gs, k)
           g == SelectInSeq(opened, LAMBDA h : h.key = k)
           old == opened[g].res
           moved == [r EXCEPT !.attrs = ApplyPromotions(pl, parts, ToResource, @)]
           res == Append(old, moved)
           after == [opened EXCEPT ![g].res = res]
<1>1. /\ GroupsOK(opened) /\ GroupIds(opened) = GroupIds(gs) /\ g \in 1..Len(opened)
  BY Opened, Zenon
<1>2. BatchOK(old)
  <2>1. GroupOK(opened[g])
    BY <1>1, IsElement DEF GroupsOK
  <2>2. QED
    BY <2>1 DEF GroupOK
<1>3. AddResource(pl, gs, r) = after
  BY DEF AddResource
<1>4. ResourceOK(moved) /\ moved.units = r.units
  BY DEF ResourceOK
<1> HIDE DEF parts, k, opened, g, moved
<1>5. BatchOK(res) /\ Ids(res) = Cat(Ids(old), IdsOfUnits(r.units)) /\ IdsOfUnits(r.units) \in Seq(Items)
  BY <1>2, <1>4, BatchAppend
<1> HIDE DEF res
<1>6. Inserted(Ids(old), Ids(res), IdsOfUnits(r.units))
  BY <1>2, <1>5, BatchCat, InsertedLast
<1>7. GroupsOK(after) /\ Inserted(GroupIds(opened), GroupIds(after), IdsOfUnits(r.units))
  BY <1>1, <1>5, <1>6, GroupGets, Zenon
<1>8. QED
  BY <1>1, <1>3, <1>7

-----------------------------------------------------------------------------
(***************************************************************************)
(* splitHalf: the halves are batches and have the items of the whole.      *)
(***************************************************************************)
LEMMA Halved ==
  ASSUME NEW s, IsSeq(s), Len(s) > 1
  PROVE  /\ IsSeq(FirstHalf(s)) /\ IsSeq(SecondHalf(s))
         /\ ToSet(FirstHalf(s)) \subseteq ToSet(s) /\ ToSet(SecondHalf(s)) \subseteq ToSet(s)
         /\ Cat(FirstHalf(s), SecondHalf(s)) = s
<1> DEFINE n == Len(s)
           k == n \div 2
           U == ToSet(s)
           a == SubSeq(s, 1, k)
           b == SubSeq(s, k + 1, n)
<1>1. s \in Seq(U) /\ n \in Nat /\ \A i \in 1..n : s[i] \in U
  BY SeqFacts, IsElement DEF IsSeq
<1>2. k \in 1..n /\ k \in Int /\ n \in Int /\ k <= n
  <2>1. n \in Nat /\ n > 1
    BY <1>1
  <2> HIDE DEF n
  <2>2. QED
    BY <2>1
<1> HIDE DEF k, n, U
<1>3. a \in Seq(U) /\ b \in Seq(U)
  <2>1. (\A i \in 1..k : s[i] \in U) /\ (\A i \in (k + 1)..n : s[i] \in U)
    BY <1>1, <1>2
  <2>2. a \in Seq(U)
    BY <1>2, <2>1, SubSeqProperties
  <2>3. b \in Seq(U)
    <3>1. k + 1 \in Int
      BY <1>2
    <3>2. QED
      BY <1>2, <2>1, <3>1, SubSeqProperties
  <2>4. QED
    BY <2>2, <2>3
<1>4. a \o b = s
  <2>1. SubSeq(s, 1, n) = s
    BY <1>1, SubSeqFull DEF n
  <2>2. 1 \in 1..(n + 1) /\ k \in 0..n /\ n \in 0..n /\ 1 <= k + 1 /\ k <= n
    BY <1>1, <1>2
  <2>3. a \o b = SubSeq(s, 1, n)
    BY <1>1, <1>2, <2>2, ConcatAdjacentSubSeq DEF n
  <2>4. QED
    BY <2>1, <2>3, Zenon
<1> HIDE DEF a, b
<1>5. ToSet(a) \subseteq ToSet(s) /\ ToSet(b) \subseteq ToSet(s) /\ IsSeq(a) /\ IsSeq(b)
  <2>1. IsSeq(a) /\ IsSeq(b)
    BY <1>3, SeqOver
  <2>2. ToSet(a \o b) = ToSet(a) \cup ToSet(b)
    BY <2>1, SeqConcat
  <2>3. QED
    BY <1>4, <2>1, <2>2
<1>6. FirstHalf(s) = a /\ SecondHalf(s) = b
  BY DEF FirstHalf, SecondHalf, Middle, a, b, k, n
<1>7. QED
  BY <1>4, <1>5, <1>6 DEF Cat

\* splitHalf at each of its three levels.
LEMMA PieceHalved ==
  ASSUME NEW p, PieceOK(p), Splittable(p)
  PROVE  /\ PieceOK(SplitHalf(p)[1]) /\ PieceOK(SplitHalf(p)[2])
         /\ Cat(Ids(SplitHalf(p)[1].res), Ids(SplitHalf(p)[2].res)) = Ids(p.res)
<1> DEFINE res == p.res
           Half(z) == [res |-> z, trimmed |-> p.trimmed]
<1>1. p = [res |-> res, trimmed |-> p.trimmed] /\ p.trimmed \in BOOLEAN /\ BatchOK(res) /\ IsSeq(res)
  BY DEF PieceOK, BatchOK
<1>2. \A z : BatchOK(z) => PieceOK(Half(z)) /\ Half(z).res = z
  BY <1>1 DEF PieceOK
<1>4. ASSUME NEW y, NEW z, BatchOK(y), BatchOK(z), Cat(Ids(y), Ids(z)) = Ids(res),
             SplitHalf(p) = <<Half(y), Half(z)>>
      PROVE  /\ PieceOK(SplitHalf(p)[1]) /\ PieceOK(SplitHalf(p)[2])
             /\ Cat(Ids(SplitHalf(p)[1].res), Ids(SplitHalf(p)[2].res)) = Ids(res)
  <2> DEFINE h == Half(y)
             i == Half(z)
  <2>1. PieceOK(h) /\ PieceOK(i) /\ h.res = y /\ i.res = z
    BY <1>2, <1>4
  <2>2. SplitHalf(p)[1] = h /\ SplitHalf(p)[2] = i
    BY <1>4
  <2>3. QED
    BY <1>4, <2>1, <2>2
<1>5. CASE Len(res) > 1
  <2> DEFINE y == FirstHalf(res)
             z == SecondHalf(res)
  <2>1. /\ IsSeq(y) /\ IsSeq(z) /\ ToSet(y) \subseteq ToSet(res)
        /\ ToSet(z) \subseteq ToSet(res) /\ Cat(y, z) = res
    BY <1>1, <1>5, Halved
  <2>2. SplitHalf(p) = <<[p EXCEPT !.res = y], [p EXCEPT !.res = z]>>
    BY <1>5, Zenon DEF SplitHalf
  <2> HIDE DEF y, z
  <2>3. BatchOK(y) /\ BatchOK(z)
    BY <1>1, <2>1 DEF BatchOK
  <2>4. Cat(Ids(y), Ids(z)) = Ids(res)
    BY <2>1, <2>3, BatchCat
  <2>5. \A w : [p EXCEPT !.res = w] = Half(w)
    BY <1>1
  <2>6. SplitHalf(p) = <<Half(y), Half(z)>>
    BY <2>2, <2>5
  <2>7. QED
    BY <1>4, <2>3, <2>4, <2>6
<1>6. CASE Len(res) = 1 /\ Len(res[1].units) >= 1
  <2> DEFINE r == res[1]
             us == r.units
             WithUnits(w) == [from |-> r.from, attrs |-> r.attrs, units |-> w]
  <2>1. res = <<r>> /\ ResourceOK(r)
    <3>1. res \in Seq(ToSet(res)) /\ 1 \in 1..Len(res)
      BY <1>1, <1>6 DEF IsSeq
    <3>2. ResourceOK(r)
      BY <1>1, <3>1, IsElement DEF BatchOK
    <3>3. res = <<r>>
      BY <1>6, <3>1
    <3>4. QED
      BY <3>2, <3>3
  <2>2. r = [from |-> r.from, attrs |-> r.attrs, units |-> us] /\ r.from \in Nat /\ UnitsOK(us) /\ IsSeq(us)
    BY <2>1 DEF ResourceOK, UnitsOK
  <2>3. ASSUME NEW w, UnitsOK(w)
        PROVE  /\ BatchOK(<<WithUnits(w)>>) /\ Ids(<<WithUnits(w)>>) = IdsOfUnits(w)
    <3> DEFINE q == WithUnits(w)
    <3>1. ResourceOK(q) /\ q.units = w
      BY <2>2, <2>3 DEF ResourceOK
    <3> HIDE DEF q
    <3>2. BatchOK(<<q>>) /\ Ids(<<q>>) = IdsOfUnits(w)
      BY <3>1, BatchOne
    <3>3. QED
      BY <3>2 DEF q
  <2>4. Ids(res) = IdsOfUnits(us)
    BY <2>1, BatchOne, Zenon
  <2>5. \A w : [p EXCEPT !.res[1].units = w] = Half(<<WithUnits(w)>>)
    <3> SUFFICES ASSUME NEW w PROVE [p EXCEPT !.res[1].units = w] = Half(<<WithUnits(w)>>)
      OBVIOUS
    <3>1. [r EXCEPT !.units = w] = WithUnits(w)
      <4> HIDE DEF r
      <4>1. QED
        BY <2>2
    <3>2. [res EXCEPT ![1].units = w] = <<WithUnits(w)>>
      <4> DEFINE v == WithUnits(w)
      <4>1. [res EXCEPT ![1].units = w] = [res EXCEPT ![1] = [r EXCEPT !.units = w]]
        OBVIOUS
      <4>2. [res EXCEPT ![1].units = w] = [res EXCEPT ![1] = v]
        BY <3>1, <4>1
      <4> HIDE DEF v, r
      <4>3. [<<r>> EXCEPT ![1] = v] = <<v>>
        OBVIOUS
      <4>4. QED
        BY <2>1, <4>2, <4>3 DEF v
    <3>3. [p EXCEPT !.res[1].units = w] = [p EXCEPT !.res = [res EXCEPT ![1].units = w]]
      OBVIOUS
    <3>4. \A y : [p EXCEPT !.res = y] = Half(y)
      BY <1>1
    <3>5. QED
      BY <3>2, <3>3, <3>4
  <2>6. CASE Len(us) > 1
    <3> DEFINE y == FirstHalf(us)
               z == SecondHalf(us)
    <3>1. /\ IsSeq(y) /\ IsSeq(z) /\ ToSet(y) \subseteq ToSet(us)
          /\ ToSet(z) \subseteq ToSet(us) /\ Cat(y, z) = us
      BY <2>2, <2>6, Halved
    <3>2. SplitHalf(p) = <<[p EXCEPT !.res[1].units = y], [p EXCEPT !.res[1].units = z]>>
      <4>1. ~(Len(p.res) > 1) /\ Len(p.res[1].units) > 1
        BY <1>6, <2>6
      <4>2. QED
        BY <4>1, Zenon DEF SplitHalf
    <3> HIDE DEF y, z
    <3>3. UnitsOK(y) /\ UnitsOK(z)
      BY <2>2, <3>1 DEF UnitsOK
    <3>4. Cat(IdsOfUnits(y), IdsOfUnits(z)) = IdsOfUnits(us)
      BY <3>1, <3>3, UnitsCat
    <3> DEFINE yy == <<WithUnits(y)>>
               zz == <<WithUnits(z)>>
    <3>5. SplitHalf(p) = <<Half(yy), Half(zz)>>
      BY <2>5, <3>2
    <3>6. BatchOK(yy) /\ BatchOK(zz) /\ Ids(yy) = IdsOfUnits(y) /\ Ids(zz) = IdsOfUnits(z)
      BY <2>3, <3>3
    <3> HIDE DEF yy, zz
    <3>7. QED
      BY <1>4, <2>4, <3>4, <3>5, <3>6
  <2>7. CASE Len(us) = 1 /\ Len(us[1].items) > 1
    <3> DEFINE u == us[1]
               xs == u.items
               WithItems(w) == [from |-> u.from, name |-> u.name, items |-> w]
    <3>1. us = <<u>> /\ UnitOK(u)
      <4>1. us \in Seq(ToSet(us)) /\ 1 \in 1..Len(us)
        BY <2>2, <2>7 DEF IsSeq
      <4>2. UnitOK(u)
        BY <2>2, <4>1, IsElement DEF UnitsOK
      <4> HIDE DEF us
      <4>3. us = <<u>>
        BY <2>7, <4>1
      <4>4. QED
        BY <4>2, <4>3
    <3>2. u = [from |-> u.from, name |-> u.name, items |-> xs] /\ u.from \in Nat /\ ItemsOK(xs) /\ IsSeq(xs)
      BY <3>1 DEF UnitOK, ItemsOK
    <3>3. ASSUME NEW w, ItemsOK(w)
          PROVE  UnitsOK(<<WithItems(w)>>) /\ IdsOfUnits(<<WithItems(w)>>) = IdsOf(w)
      <4> DEFINE q == WithItems(w)
      <4>1. UnitOK(q) /\ q.items = w
        BY <3>2, <3>3 DEF UnitOK
      <4> HIDE DEF q
      <4>2. UnitsOK(<<q>>) /\ IdsOfUnits(<<q>>) = IdsOf(w)
        BY <4>1, UnitsOne
      <4>3. QED
        BY <4>2 DEF q
    <3>4. IdsOfUnits(us) = IdsOf(xs)
      BY <3>1, UnitsOne, Zenon
    <3>5. \A w : [p EXCEPT !.res[1].units[1].items = w]
                   = [p EXCEPT !.res[1].units = <<WithItems(w)>>]
      <4> SUFFICES ASSUME NEW w
                   PROVE  [p EXCEPT !.res[1].units[1].items = w]
                            = [p EXCEPT !.res[1].units = <<WithItems(w)>>]
        OBVIOUS
      <4>1. [u EXCEPT !.items = w] = WithItems(w)
        <5> HIDE DEF u
        <5>1. QED
          BY <3>2
      <4>2. [us EXCEPT ![1].items = w] = <<WithItems(w)>>
        <5> DEFINE v == WithItems(w)
        <5>1. [us EXCEPT ![1].items = w] = [us EXCEPT ![1] = [u EXCEPT !.items = w]]
          OBVIOUS
        <5>2. [us EXCEPT ![1].items = w] = [us EXCEPT ![1] = v]
          BY <4>1, <5>1
        <5> HIDE DEF v, u
        <5>3. [<<u>> EXCEPT ![1] = v] = <<v>>
          OBVIOUS
        <5>4. QED
          BY <3>1, <5>2, <5>3 DEF v
      <4>3. [p EXCEPT !.res[1].units[1].items = w]
              = [p EXCEPT !.res[1].units = [us EXCEPT ![1].items = w]]
        OBVIOUS
      <4>4. QED
        BY <4>2, <4>3
    <3> DEFINE y == FirstHalf(xs)
               z == SecondHalf(xs)
    <3>6. /\ IsSeq(y) /\ IsSeq(z) /\ ToSet(y) \subseteq ToSet(xs)
          /\ ToSet(z) \subseteq ToSet(xs) /\ Cat(y, z) = xs
      BY <2>7, <3>2, Halved
    <3>7. SplitHalf(p) = <<[p EXCEPT !.res[1].units[1].items = y],
                           [p EXCEPT !.res[1].units[1].items = z]>>
      BY <1>6, <2>7 DEF SplitHalf
    <3> HIDE DEF y, z
    <3>8. ItemsOK(y) /\ ItemsOK(z)
      BY <3>2, <3>6 DEF ItemsOK
    <3>9. Cat(IdsOf(y), IdsOf(z)) = IdsOf(xs)
      BY <3>6, <3>8, ItemsCat
    <3> DEFINE yu == <<WithItems(y)>>
               zu == <<WithItems(z)>>
    <3>10. UnitsOK(yu) /\ UnitsOK(zu) /\ IdsOfUnits(yu) = IdsOf(y) /\ IdsOfUnits(zu) = IdsOf(z)
      BY <3>3, <3>8
    <3>11. SplitHalf(p) = <<[p EXCEPT !.res[1].units = yu], [p EXCEPT !.res[1].units = zu]>>
      BY <3>5, <3>7, Zenon
    <3> HIDE DEF yu, zu
    <3> DEFINE yy == <<WithUnits(yu)>>
               zz == <<WithUnits(zu)>>
    <3>12. SplitHalf(p) = <<Half(yy), Half(zz)>>
      BY <2>5, <3>11
    <3>13. BatchOK(yy) /\ BatchOK(zz) /\ Ids(yy) = IdsOfUnits(yu) /\ Ids(zz) = IdsOfUnits(zu)
      BY <2>3, <3>10
    <3> HIDE DEF yy, zz
    <3>14. QED
      BY <1>4, <2>4, <3>4, <3>9, <3>10, <3>12, <3>13
  <2>8. Len(us) \in Nat
    BY <2>2, SeqFacts
  <2>9. QED
    BY <1>6, <2>6, <2>7, <2>8 DEF Splittable
<1>7. Len(res) \in Nat
  BY <1>1, SeqFacts
<1>8. QED
  BY <1>5, <1>6, <1>7 DEF Splittable

-----------------------------------------------------------------------------
(***************************************************************************)
(* What the groupers' loops have still to do: the ids after the cursor.    *)
(***************************************************************************)
\* The ids from position i on.
ItemsFrom(xs, i) == IdsOf(SubSeq(xs, i, Len(xs)))
UnitsFrom(us, i) == IdsOfUnits(SubSeq(us, i, Len(us)))
BatchFrom(b, i) == Ids(SubSeq(b, i, Len(b)))

\* What is left of a resource with units us from item j of unit i on.
RestOfResource(us, i, j) ==
  IF i > Len(us) THEN <<>> ELSE Cat(ItemsFrom(us[i].items, j), UnitsFrom(us, i + 1))

\* What is left of batch b from cursor c on.
RestOf(b, c) ==
  IF c.res > Len(b) THEN <<>>
  ELSE Cat(RestOfResource(b[c.res].units, c.unit, c.item), BatchFrom(b, c.res + 1))

\* Where the cursor can be.
CursorIn(b, c) ==
  /\ c.res \in 1..(Len(b) + 1)
  /\ c.res <= Len(b) =>
       /\ c.unit \in 1..(Len(b[c.res].units) + 1)
       /\ c.unit <= Len(b[c.res].units) =>
            c.item \in 1..(Len(b[c.res].units[c.unit].items) + 1)
  /\ c.unit \in Nat /\ c.item \in Nat

-----------------------------------------------------------------------------
(***************************************************************************)
(* The inductive invariant.                                                *)
(***************************************************************************)
Cursors == [res : Nat, unit : Nat, item : Nat]
\* The policies not tried yet.
Suffix(l, ps) == \E n \in 1..(Len(ps) + 1) : l = SubSeq(ps, n, Len(ps))
DepthsOK(cs) == \A c \in ToSet(cs) : c.depth \in 0..MaxAttempts

\* TypeOK, by the names that the lemmas use.
Types ==
  /\ next \in Cursors /\ GroupsOK(groups) /\ PieceOK(current) /\ Suffix(left, policies)
  /\ PiecesOK(stack) /\ DepthsOK(stack)
  /\ at \in {"begin", "grouped", "emit", "first", "policies", "split", "flush"}
  /\ errs \in 0..MaxErrors /\ PiecesOK(entries) /\ drops \in [Reasons -> Nat]

\* What InputsAssumption says of the input: it never changes.
InputOK == /\ BatchOK(batch) /\ IsInjective(Ids(batch))
           /\ IsSeq(policies) /\ ValidChain(policies)

\* Nothing is packed yet.
Idle == entries = <<>> /\ drops = [r \in Reasons |-> 0]

\* What each place of the export implies for the pieces in hand: there is one
\* current piece or a stack, never both, and none between two groups.
Control ==
  /\ at \in {"begin", "grouped"} => Idle
  /\ at \in {"begin", "grouped", "emit", "flush"} => current = NoPiece /\ stack = <<>>
  /\ at \in {"first", "policies"} => stack = <<>>
  /\ at = "split" => current = NoPiece
  /\ at = "begin" /\ tagHash => CursorIn(batch, next)
  /\ at = "begin" /\ ResourceOnly(plan) => next.unit = 1 /\ next.item = 1

\* Of n items, D are dropped, and the others are once in what is shipped (E), on
\* the stack (S), current (C) or grouped (G).
Whole(E, S, C, G, D, n) ==
  /\ IsInjective(Cat(E, Cat(Cat(S, C), G)))
  /\ Len(E) + Len(Cat(Cat(S, C), G)) + D = n

\* While the loops of groupByTags run, every item is in a group or after the cursor;
\* afterwards it is where Whole says.
Kept ==
  IF at = "begin"
    THEN tagHash =>
         /\ IsInjective(Cat(GroupIds(groups), RestOf(batch, next)))
         /\ Len(Cat(GroupIds(groups), RestOf(batch, next))) = Len(Ids(batch))
    ELSE Whole(PieceIds(entries), PieceIds(stack), Ids(current.res), GroupIds(groups),
               Dropped, Len(Ids(batch)))

IInv == Types /\ InputOK /\ Control /\ Kept

\* The rest of a sequence from position i on.
LEMMA From ==
  ASSUME NEW s, IsSeq(s), NEW i \in 1..(Len(s) + 1)
  PROVE  /\ IsSeq(SubSeq(s, i, Len(s))) /\ ToSet(SubSeq(s, i, Len(s))) \subseteq ToSet(s)
         /\ i > Len(s) => SubSeq(s, i, Len(s)) = <<>>
         /\ i = 1 => SubSeq(s, i, Len(s)) = s
         /\ i <= Len(s) => SubSeq(s, i, Len(s)) = Cat(<<s[i]>>, SubSeq(s, i + 1, Len(s)))
<1> DEFINE n == Len(s)
           U == ToSet(s)
           t == SubSeq(s, i, n)
<1>1. s \in Seq(U) /\ n \in Nat /\ i \in 1..(n + 1) /\ \A j \in 1..n : s[j] \in U
  BY SeqFacts, IsElement DEF IsSeq
<1> HIDE DEF n, U
<1>2. t \in Seq(U)
  <2>1. i \in Int /\ n \in Int /\ \A j \in i..n : s[j] \in U
    BY <1>1
  <2>2. QED
    BY <2>1, SubSeqProperties
<1>3. IsSeq(t) /\ ToSet(t) \subseteq U
  <2> HIDE DEF t
  <2>1. DOMAIN t = 1..Len(t) /\ \A j \in 1..Len(t) : t[j] \in U
    BY <1>2, LenProperties, ElementOfSeq
  <2>2. QED
    BY <1>2, <2>1, SeqOver DEF ToSet
<1>4. i > n => t = <<>>
  BY <1>1, SubSeqEmpty
<1>5. i = 1 => t = s
  BY <1>1, SubSeqFull DEF n
<1>6. i <= n => t = Cat(<<s[i]>>, SubSeq(s, i + 1, n))
  <2>1. SUFFICES ASSUME i <= n PROVE t = Cat(<<s[i]>>, SubSeq(s, i + 1, n))
    OBVIOUS
  <2>2. i \in 1..n
    BY <1>1, <2>1
  <2>3. t = <<s[i]>> \o SubSeq(s, i + 1, n)
    <3>1. /\ i \in Int /\ n \in Int /\ i <= n /\ \A j \in i..n : s[j] \in U
      BY <1>1, <2>1
    <3>2. QED
      BY <1>1, <2>2, <3>1, SubSeqRecursiveFirst DEF n
  <2>4. QED
    BY <2>3 DEF Cat
<1>7. QED
  BY <1>3, <1>4, <1>5, <1>6, Zenon DEF t, n, U

LEMMA ItemsFromStep ==
  ASSUME NEW xs, ItemsOK(xs), NEW i \in 1..(Len(xs) + 1)
  PROVE  /\ ItemsFrom(xs, i) \in Seq(Items)
         /\ i > Len(xs) => ItemsFrom(xs, i) = <<>>
         /\ i = 1 => ItemsFrom(xs, i) = IdsOf(xs)
         /\ i <= Len(xs) => ItemsFrom(xs, i) = Cat(<<xs[i].id>>, ItemsFrom(xs, i + 1))
<1> DEFINE n == Len(xs)
           t == SubSeq(xs, i, n)
           v == SubSeq(xs, i + 1, n)
<1>0. IsSeq(xs) /\ n \in Nat
  BY SeqFacts DEF ItemsOK
<1>1. /\ IsSeq(t) /\ ToSet(t) \subseteq ToSet(xs)
      /\ i > n => t = <<>>
      /\ i = 1 => t = xs
      /\ i <= n => t = Cat(<<xs[i]>>, v)
  BY <1>0, From
<1>2. i <= n => IsSeq(v) /\ ToSet(v) \subseteq ToSet(xs) /\ ItemOK(xs[i])
  <2>1. SUFFICES ASSUME i <= n PROVE IsSeq(v) /\ ToSet(v) \subseteq ToSet(xs) /\ ItemOK(xs[i])
    OBVIOUS
  <2>2. i + 1 \in 1..(n + 1) /\ i \in 1..n
    <3> HIDE DEF n
    <3>1. QED
      BY <1>0, <2>1 DEF n
  <2>3. QED
    BY <1>0, <2>2, From, IsElement, Zenon DEF ItemsOK
<1> HIDE DEF t, v
<1>3. ItemsOK(t) /\ (i <= n => ItemsOK(v))
  BY <1>1, <1>2 DEF ItemsOK
<1>4. i <= n => IdsOf(t) = Cat(<<xs[i].id>>, IdsOf(v))
  <2>1. SUFFICES ASSUME i <= n PROVE IdsOf(t) = Cat(<<xs[i].id>>, IdsOf(v))
    OBVIOUS
  <2> DEFINE x == xs[i]
  <2>2. ItemOK(x)
    BY <1>2, <2>1
  <2> HIDE DEF x
  <2>3. ItemsOK(<<x>>) /\ IdsOf(<<x>>) = <<x.id>>
    <3>1. IdsOf(<<x>>) = <<x.id>>
      BY DEF IdsOf
    <3>2. QED
      BY <2>2, <3>1, SeqOne DEF ItemsOK
  <2>4. IdsOf(Cat(<<x>>, v)) = Cat(<<x.id>>, IdsOf(v))
    BY <1>3, <2>1, <2>3, ItemsCat
  <2>5. QED
    BY <1>1, <2>1, <2>4 DEF x
<1>5. QED
  BY <1>1, <1>3, <1>4, ItemIds, UnitsNone, Zenon DEF ItemsFrom, t, v, n

LEMMA UnitsFromStep ==
  ASSUME NEW us, UnitsOK(us), NEW i \in 1..(Len(us) + 1)
  PROVE  /\ UnitsFrom(us, i) \in Seq(Items)
         /\ i > Len(us) => UnitsFrom(us, i) = <<>>
         /\ i = 1 => UnitsFrom(us, i) = IdsOfUnits(us)
         /\ i <= Len(us) => UnitsFrom(us, i) = Cat(IdsOf(us[i].items), UnitsFrom(us, i + 1))
<1> DEFINE n == Len(us)
           t == SubSeq(us, i, n)
           v == SubSeq(us, i + 1, n)
<1>0. IsSeq(us) /\ n \in Nat
  BY SeqFacts DEF UnitsOK
<1>1. /\ IsSeq(t) /\ ToSet(t) \subseteq ToSet(us)
      /\ i > n => t = <<>>
      /\ i = 1 => t = us
      /\ i <= n => t = Cat(<<us[i]>>, v)
  BY <1>0, From
<1>2. i <= n => IsSeq(v) /\ ToSet(v) \subseteq ToSet(us) /\ UnitOK(us[i])
  <2>1. SUFFICES ASSUME i <= n PROVE IsSeq(v) /\ ToSet(v) \subseteq ToSet(us) /\ UnitOK(us[i])
    OBVIOUS
  <2>2. i + 1 \in 1..(n + 1) /\ i \in 1..n
    <3> HIDE DEF n
    <3>1. QED
      BY <1>0, <2>1 DEF n
  <2>3. QED
    BY <1>0, <2>2, From, IsElement, Zenon DEF UnitsOK
<1> HIDE DEF t, v
<1>3. UnitsOK(t) /\ (i <= n => UnitsOK(v))
  BY <1>1, <1>2 DEF UnitsOK
<1>4. i <= n => IdsOfUnits(t) = Cat(IdsOf(us[i].items), IdsOfUnits(v))
  <2>1. SUFFICES ASSUME i <= n PROVE IdsOfUnits(t) = Cat(IdsOf(us[i].items), IdsOfUnits(v))
    OBVIOUS
  <2> DEFINE x == us[i]
  <2>2. UnitOK(x)
    BY <1>2, <2>1
  <2> HIDE DEF x
  <2>3. UnitsOK(<<x>>) /\ IdsOfUnits(<<x>>) = IdsOf(x.items)
    BY <2>2, UnitsOne
  <2>4. IdsOfUnits(Cat(<<x>>, v)) = Cat(IdsOf(x.items), IdsOfUnits(v))
    BY <1>3, <2>1, <2>3, UnitsCat
  <2>5. QED
    BY <1>1, <2>1, <2>4 DEF x
<1>5. QED
  BY <1>1, <1>3, <1>4, UnitsCat, UnitsNone, Zenon DEF UnitsFrom, t, v, n

LEMMA BatchFromStep ==
  ASSUME NEW b, BatchOK(b), NEW i \in 1..(Len(b) + 1)
  PROVE  /\ BatchFrom(b, i) \in Seq(Items)
         /\ i > Len(b) => BatchFrom(b, i) = <<>>
         /\ i = 1 => BatchFrom(b, i) = Ids(b)
         /\ i <= Len(b) => BatchFrom(b, i) = Cat(IdsOfUnits(b[i].units), BatchFrom(b, i + 1))
<1> DEFINE n == Len(b)
           t == SubSeq(b, i, n)
           v == SubSeq(b, i + 1, n)
<1>0. IsSeq(b) /\ n \in Nat
  BY SeqFacts DEF BatchOK
<1>1. /\ IsSeq(t) /\ ToSet(t) \subseteq ToSet(b)
      /\ i > n => t = <<>>
      /\ i = 1 => t = b
      /\ i <= n => t = Cat(<<b[i]>>, v)
  BY <1>0, From
<1>2. i <= n => IsSeq(v) /\ ToSet(v) \subseteq ToSet(b) /\ ResourceOK(b[i])
  <2>1. SUFFICES ASSUME i <= n PROVE IsSeq(v) /\ ToSet(v) \subseteq ToSet(b) /\ ResourceOK(b[i])
    OBVIOUS
  <2>2. i + 1 \in 1..(n + 1) /\ i \in 1..n
    <3> HIDE DEF n
    <3>1. QED
      BY <1>0, <2>1 DEF n
  <2>3. QED
    BY <1>0, <2>2, From, IsElement, Zenon DEF BatchOK
<1> HIDE DEF t, v
<1>3. BatchOK(t) /\ (i <= n => BatchOK(v))
  BY <1>1, <1>2 DEF BatchOK
<1>4. i <= n => Ids(t) = Cat(IdsOfUnits(b[i].units), Ids(v))
  <2>1. SUFFICES ASSUME i <= n PROVE Ids(t) = Cat(IdsOfUnits(b[i].units), Ids(v))
    OBVIOUS
  <2> DEFINE x == b[i]
  <2>2. ResourceOK(x)
    BY <1>2, <2>1
  <2> HIDE DEF x
  <2>3. BatchOK(<<x>>) /\ Ids(<<x>>) = IdsOfUnits(x.units)
    BY <2>2, BatchOne
  <2>4. Ids(Cat(<<x>>, v)) = Cat(IdsOfUnits(x.units), Ids(v))
    BY <1>3, <2>1, <2>3, BatchCat
  <2>5. QED
    BY <1>1, <2>1, <2>4 DEF x
<1>5. QED
  BY <1>1, <1>3, <1>4, BatchCat, BatchNone, Zenon DEF BatchFrom, t, v, n

LEMMA FirstPlace == \A n \in Nat : 1 \in 1..(n + 1)
OBVIOUS

\* The units and items of a batch are well-formed.
LEMMA Inside ==
  ASSUME NEW b, BatchOK(b)
  PROVE  /\ Len(b) \in Nat
         /\ \A i \in 1..Len(b) : /\ ResourceOK(b[i]) /\ UnitsOK(b[i].units)
                                 /\ Len(b[i].units) \in Nat
         /\ \A i \in 1..Len(b) : \A k \in 1..Len(b[i].units) :
              /\ UnitOK(b[i].units[k]) /\ ItemsOK(b[i].units[k].items)
              /\ Len(b[i].units[k].items) \in Nat
<1>1. IsSeq(b) /\ Len(b) \in Nat
  BY SeqFacts DEF BatchOK
<1>2. ASSUME NEW i \in 1..Len(b)
      PROVE  /\ ResourceOK(b[i]) /\ UnitsOK(b[i].units) /\ IsSeq(b[i].units)
             /\ Len(b[i].units) \in Nat
  <2>1. ResourceOK(b[i])
    BY <1>1, IsElement DEF BatchOK
  <2>2. UnitsOK(b[i].units) /\ IsSeq(b[i].units)
    BY <2>1 DEF ResourceOK, UnitsOK
  <2>3. QED
    BY <2>1, <2>2, SeqFacts
<1>3. ASSUME NEW i \in 1..Len(b), NEW k \in 1..Len(b[i].units)
      PROVE  /\ UnitOK(b[i].units[k]) /\ ItemsOK(b[i].units[k].items)
             /\ Len(b[i].units[k].items) \in Nat
  <2>1. UnitOK(b[i].units[k])
    BY <1>2, IsElement DEF UnitsOK
  <2>2. ItemsOK(b[i].units[k].items) /\ IsSeq(b[i].units[k].items)
    BY <2>1 DEF UnitOK, ItemsOK
  <2>3. QED
    BY <2>1, <2>2, SeqFacts
<1>4. QED
  BY <1>1, <1>2, <1>3

LEMMA RestStarts ==
  ASSUME NEW us, UnitsOK(us), NEW i \in 1..(Len(us) + 1)
  PROVE  RestOfResource(us, i, 1) = UnitsFrom(us, i)
<1>1. CASE i > Len(us)
  BY <1>1, UnitsFromStep DEF RestOfResource
<1>2. CASE i <= Len(us)
  <2>0. Len(us) \in Nat /\ IsSeq(us)
    BY SeqFacts DEF UnitsOK
  <2> DEFINE xs == us[i].items
  <2>1. ItemsOK(xs)
    <3>1. i \in 1..Len(us)
      BY <1>2, <2>0
    <3>2. UnitOK(us[i])
      BY <2>0, <3>1, IsElement DEF UnitsOK
    <3>3. QED
      BY <3>2 DEF UnitOK
  <2>2. 1 \in 1..(Len(xs) + 1)
    BY <2>1, SeqFacts DEF ItemsOK
  <2>3. ItemsFrom(xs, 1) = IdsOf(xs)
    BY <2>1, <2>2, ItemsFromStep, Zenon
  <2>4. UnitsFrom(us, i) = Cat(IdsOf(xs), UnitsFrom(us, i + 1))
    BY <1>2, UnitsFromStep
  <2>5. RestOfResource(us, i, 1) = Cat(ItemsFrom(xs, 1), UnitsFrom(us, i + 1))
    BY <1>2, <2>0 DEF RestOfResource
  <2>6. QED
    BY <2>3, <2>4, <2>5
<1>3. QED
  BY <1>1, <1>2, SeqFacts DEF UnitsOK

\* A cursor at the start of a resource.
LEMMA Fresh ==
  ASSUME NEW b, BatchOK(b), NEW i \in 1..(Len(b) + 1), NEW c \in Cursors,
         c.res = i, c.unit = 1, c.item = 1
  PROVE  /\ CursorIn(b, c) /\ RestOf(b, c) = BatchFrom(b, i)
<1>0. Len(b) \in Nat
  BY Inside
<1>1. CASE i > Len(b)
  BY <1>0, <1>1, BatchFromStep DEF CursorIn, RestOf
<1>2. CASE i <= Len(b)
  <2> DEFINE us == b[i].units
  <2>1. i \in 1..Len(b)
    BY <1>0, <1>2
  <2>2. UnitsOK(us) /\ Len(us) \in Nat /\ \A k \in 1..Len(us) : Len(us[k].items) \in Nat
    BY <2>1, Inside, Zenon
  <2>3. 1 \in 1..(Len(us) + 1)
    BY <2>2
  <2>4. RestOfResource(us, 1, 1) = IdsOfUnits(us)
    BY <2>2, <2>3, RestStarts, UnitsFromStep
  <2>5. BatchFrom(b, i) = Cat(IdsOfUnits(us), BatchFrom(b, i + 1))
    BY <1>2, BatchFromStep
  <2>6. RestOf(b, c) = Cat(RestOfResource(us, 1, 1), BatchFrom(b, i + 1))
    BY <1>0, <1>2 DEF RestOf
  <2>7. CursorIn(b, c)
    <3>1. ASSUME 1 <= Len(us) PROVE 1 \in 1..(Len(us[1].items) + 1)
      <4>1. 1 \in 1..Len(us)
        BY <2>2, <3>1
      <4>2. Len(us[1].items) \in Nat
        BY <2>2, <4>1
      <4>3. QED
        BY <4>2, FirstPlace, Zenon
    <3>2. QED
      BY <2>3, <3>1 DEF CursorIn
  <2>8. QED
    BY <2>4, <2>5, <2>6, <2>7
<1>3. QED
  BY <1>0, <1>1, <1>2

\* Where the cursor is, in parts.
LEMMA RestParts ==
  ASSUME NEW b, BatchOK(b), NEW c \in Cursors, CursorIn(b, c), c.res <= Len(b),
         NEW us, us = b[c.res].units
  PROVE  /\ c.res \in 1..Len(b) /\ c.res + 1 \in 1..(Len(b) + 1) /\ UnitsOK(us)
         /\ c.unit \in 1..(Len(us) + 1) /\ Len(us) \in Nat
         /\ RestOf(b, c) = Cat(RestOfResource(us, c.unit, c.item), BatchFrom(b, c.res + 1))
         /\ BatchFrom(b, c.res + 1) \in Seq(Items)
         /\ RestOfResource(us, c.unit, c.item) \in Seq(Items)
<1>1. Len(b) \in Nat /\ c.res \in 1..Len(b) /\ c.res + 1 \in 1..(Len(b) + 1)
  BY Inside DEF CursorIn
<1>2. /\ UnitsOK(us) /\ Len(us) \in Nat
      /\ \A k \in 1..Len(us) : ItemsOK(us[k].items)
  BY <1>1, Inside
<1>3. c.unit \in 1..(Len(us) + 1)
  BY DEF CursorIn
<1>4. BatchFrom(b, c.res + 1) \in Seq(Items)
  BY <1>1, BatchFromStep
<1>5. RestOfResource(us, c.unit, c.item) \in Seq(Items)
  <2>1. CASE c.unit > Len(us)
    BY <2>1 DEF RestOfResource
  <2>2. CASE c.unit <= Len(us)
    <3> DEFINE xs == us[c.unit].items
    <3>1. c.unit \in 1..Len(us) /\ c.unit + 1 \in 1..(Len(us) + 1)
      BY <1>2, <1>3, <2>2
    <3>2. ItemsOK(xs) /\ c.item \in 1..(Len(xs) + 1)
      BY <1>2, <2>2, <3>1, Zenon DEF CursorIn
    <3>3. ItemsFrom(xs, c.item) \in Seq(Items)
      BY <3>2, ItemsFromStep, Zenon
    <3>4. UnitsFrom(us, c.unit + 1) \in Seq(Items)
      BY <1>2, <3>1, UnitsFromStep
    <3>5. RestOfResource(us, c.unit, c.item) = Cat(ItemsFrom(xs, c.item), UnitsFrom(us, c.unit + 1))
      BY <1>2, <1>3, <2>2 DEF RestOfResource
    <3>6. QED
      BY <3>3, <3>4, <3>5, CatFacts
  <2>3. QED
    BY <1>2, <1>3, <2>1, <2>2
<1>6. RestOf(b, c) = Cat(RestOfResource(us, c.unit, c.item), BatchFrom(b, c.res + 1))
  BY <1>1 DEF RestOf
<1>7. QED
  BY <1>1, <1>2, <1>3, <1>4, <1>5, <1>6

\* What is left is a sequence of ids.
LEMMA RestType ==
  ASSUME NEW b, BatchOK(b), NEW c \in Cursors, CursorIn(b, c)
  PROVE  RestOf(b, c) \in Seq(Items)
<1>1. CASE c.res > Len(b)
  BY <1>1 DEF RestOf
<1>2. CASE c.res <= Len(b)
  BY <1>2, RestParts, CatFacts
<1>3. QED
  BY <1>1, <1>2, Inside DEF CursorIn

\* The steps of the cursor.
LEMMA ItemPassed ==
  ASSUME NEW b, BatchOK(b), NEW c \in Cursors, CursorIn(b, c), c.res <= Len(b),
         c.unit <= Len(b[c.res].units), c.item <= Len(b[c.res].units[c.unit].items),
         NEW d, d = [c EXCEPT !.item = @ + 1]
  PROVE  LET x == b[c.res].units[c.unit].items[c.item]
         IN  /\ d \in Cursors /\ CursorIn(b, d) /\ ItemOK(x)
             /\ RestOf(b, c) = Cat(<<x.id>>, RestOf(b, d))
<1> DEFINE x == b[c.res].units[c.unit].items[c.item]
           us == b[c.res].units
           xs == us[c.unit].items
           rest == BatchFrom(b, c.res + 1)
           units == UnitsFrom(us, c.unit + 1)
           items == ItemsFrom(xs, c.item + 1)
<1>1. d \in Cursors /\ d.res = c.res /\ d.unit = c.unit /\ d.item = c.item + 1
  BY DEF Cursors
<1>2. /\ c.res \in 1..Len(b) /\ UnitsOK(us) /\ Len(us) \in Nat /\ c.unit \in 1..(Len(us) + 1)
      /\ RestOf(b, c) = Cat(RestOfResource(us, c.unit, c.item), rest)
      /\ rest \in Seq(Items)
  BY RestParts, Zenon
<1>3. c.unit \in 1..Len(us) /\ c.unit + 1 \in 1..(Len(us) + 1)
  BY <1>2
<1>4. ItemsOK(xs) /\ Len(xs) \in Nat /\ IsSeq(xs)
  BY <1>2, <1>3, Inside, Zenon DEF ItemsOK
<1>5. c.item \in 1..(Len(xs) + 1) /\ c.item \in 1..Len(xs) /\ c.item + 1 \in 1..(Len(xs) + 1)
  <2> DEFINE l == Len(xs)
  <2>1. c.item \in 1..(l + 1) /\ c.item <= l /\ l \in Nat
    BY <1>4 DEF CursorIn
  <2> HIDE DEF l
  <2>2. c.item \in 1..l /\ c.item + 1 \in 1..(l + 1)
    BY <2>1
  <2>3. QED
    BY <2>1, <2>2 DEF l
<1>6. CursorIn(b, d)
  BY <1>1, <1>5, Zenon DEF CursorIn, Cursors
<1>7. /\ RestOf(b, d) = Cat(RestOfResource(us, d.unit, d.item), rest)
  BY <1>1, <1>6, RestParts, Zenon
<1>8. ItemOK(x)
  BY <1>4, <1>5, IsElement, Zenon DEF ItemsOK
<1>9. ItemsFrom(xs, c.item) = Cat(<<x.id>>, items) /\ items \in Seq(Items)
  BY <1>4, <1>5, ItemsFromStep, Zenon
<1>10. units \in Seq(Items)
  BY <1>2, <1>3, UnitsFromStep
<1>11. RestOfResource(us, c.unit, c.item) = Cat(Cat(<<x.id>>, items), units)
  <2>1. ~(c.unit > Len(us))
    BY <1>2, <1>3
  <2>2. RestOfResource(us, c.unit, c.item) = Cat(ItemsFrom(xs, c.item), units)
    BY <2>1 DEF RestOfResource
  <2>3. QED
    BY <1>9, <2>2
<1>12. RestOfResource(us, d.unit, d.item) = Cat(items, units)
  BY <1>1, <1>2 DEF RestOfResource
<1> HIDE DEF us, xs, rest, units, items
<1>13. <<x.id>> \in Seq(Items)
  <2>1. x.id \in Items
    BY <1>8 DEF ItemOK
  <2>2. QED
    BY <2>1
<1> DEFINE i == <<x.id>>
<1> HIDE DEF i, x
<1>14. Cat(Cat(Cat(i, items), units), rest) = Cat(i, Cat(Cat(items, units), rest))
  <2>0. i \in Seq(Items)
    BY <1>13 DEF i
  <2>1. Cat(Cat(i, items), units) = Cat(i, Cat(items, units))
    BY <1>9, <1>10, <2>0, CatAssociative
  <2>2. Cat(items, units) \in Seq(Items)
    BY <1>9, <1>10, CatFacts
  <2>3. QED
    BY <1>2, <2>0, <2>1, <2>2, CatAssociative
<1>15. RestOf(b, c) = Cat(i, RestOf(b, d))
  BY <1>2, <1>7, <1>11, <1>12, <1>14 DEF i
<1>16. QED
  BY <1>1, <1>6, <1>8, <1>15, Zenon DEF i, x

LEMMA UnitPassed ==
  ASSUME NEW b, BatchOK(b), NEW c \in Cursors, CursorIn(b, c), c.res <= Len(b),
         c.unit <= Len(b[c.res].units), c.item > Len(b[c.res].units[c.unit].items),
         NEW d, d = [c EXCEPT !.unit = @ + 1, !.item = 1]
  PROVE  /\ d \in Cursors /\ CursorIn(b, d) /\ RestOf(b, c) = RestOf(b, d)
<1> DEFINE us == b[c.res].units
           xs == us[c.unit].items
           rest == BatchFrom(b, c.res + 1)
           units == UnitsFrom(us, c.unit + 1)
<1>1. d \in Cursors /\ d.res = c.res /\ d.unit = c.unit + 1 /\ d.item = 1
  <2>1. c = [res |-> c.res, unit |-> c.unit, item |-> c.item] /\ c.res \in Nat /\ c.unit \in Nat
    BY DEF Cursors
  <2>2. d = [res |-> c.res, unit |-> c.unit + 1, item |-> 1]
    BY <2>1, Zenon
  <2>3. QED
    BY <2>1, <2>2 DEF Cursors
<1>2. /\ c.res \in 1..Len(b) /\ UnitsOK(us) /\ Len(us) \in Nat /\ c.unit \in 1..(Len(us) + 1)
      /\ RestOf(b, c) = Cat(RestOfResource(us, c.unit, c.item), rest)
  BY RestParts, Zenon
<1>3. c.unit \in 1..Len(us) /\ c.unit + 1 \in 1..(Len(us) + 1)
  BY <1>2
<1>4. ItemsOK(xs) /\ Len(xs) \in Nat
  BY <1>2, <1>3, Inside, Zenon
<1>5. c.item \in 1..(Len(xs) + 1)
  BY DEF CursorIn
<1>6. CursorIn(b, d)
  <2>1. ASSUME c.unit + 1 <= Len(us) PROVE 1 \in 1..(Len(us[c.unit + 1].items) + 1)
    <3>1. c.unit + 1 \in 1..Len(us)
      BY <1>2, <1>3, <2>1
    <3>2. Len(us[c.unit + 1].items) \in Nat
      BY <1>2, <3>1, Inside, Zenon
    <3>3. QED
      BY <3>2, FirstPlace, Zenon
  <2>2. QED
    BY <1>1, <1>2, <1>3, <2>1 DEF CursorIn, Cursors
<1>7. RestOf(b, d) = Cat(RestOfResource(us, d.unit, d.item), rest)
  BY <1>1, <1>6, RestParts, Zenon
<1>8. ItemsFrom(xs, c.item) = <<>>
  BY <1>4, <1>5, ItemsFromStep, Zenon
<1>9. units \in Seq(Items)
  BY <1>2, <1>3, UnitsFromStep
<1>10. RestOfResource(us, c.unit, c.item) = Cat(<<>>, units)
  BY <1>2, <1>8 DEF RestOfResource
<1>11. RestOfResource(us, d.unit, d.item) = units
  BY <1>1, <1>2, <1>3, RestStarts
<1> HIDE DEF us, xs, rest, units
<1>12. QED
  BY <1>1, <1>2, <1>6, <1>7, <1>9, <1>10, <1>11, CatEmpty

LEMMA ResourcePassed ==
  ASSUME NEW b, BatchOK(b), NEW c \in Cursors, CursorIn(b, c), c.res <= Len(b),
         c.unit > Len(b[c.res].units),
         NEW d, d = [res |-> c.res + 1, unit |-> 1, item |-> 1]
  PROVE  /\ d \in Cursors /\ CursorIn(b, d) /\ RestOf(b, c) = RestOf(b, d)
<1> DEFINE us == b[c.res].units
           rest == BatchFrom(b, c.res + 1)
<1>1. d \in Cursors /\ d.res = c.res + 1 /\ d.unit = 1 /\ d.item = 1
  BY DEF Cursors
<1>2. /\ c.res + 1 \in 1..(Len(b) + 1) /\ rest \in Seq(Items)
      /\ RestOf(b, c) = Cat(RestOfResource(us, c.unit, c.item), rest)
  BY RestParts
<1>3. CursorIn(b, d) /\ RestOf(b, d) = rest
  BY <1>1, <1>2, Fresh
<1>4. RestOfResource(us, c.unit, c.item) = <<>>
  BY DEF RestOfResource
<1> HIDE DEF us, rest
<1>5. QED
  BY <1>1, <1>2, <1>3, <1>4, CatEmpty

LEMMA WholeResourcePassed ==
  ASSUME NEW b, BatchOK(b), NEW c \in Cursors, CursorIn(b, c), c.res <= Len(b),
         c.unit = 1, c.item = 1, NEW d, d = [c EXCEPT !.res = @ + 1]
  PROVE  /\ d \in Cursors /\ CursorIn(b, d) /\ d.unit = 1 /\ d.item = 1
         /\ RestOf(b, c) = Cat(IdsOfUnits(b[c.res].units), RestOf(b, d))
<1> DEFINE us == b[c.res].units
           rest == BatchFrom(b, c.res + 1)
<1>1. d \in Cursors /\ d.res = c.res + 1 /\ d.unit = 1 /\ d.item = 1
  BY DEF Cursors
<1>2. /\ c.res \in 1..Len(b) /\ c.res + 1 \in 1..(Len(b) + 1) /\ rest \in Seq(Items)
      /\ UnitsOK(us) /\ Len(us) \in Nat
      /\ RestOf(b, c) = Cat(RestOfResource(us, c.unit, c.item), rest)
  BY RestParts, Zenon
<1>3. CursorIn(b, d) /\ RestOf(b, d) = rest
  BY <1>1, <1>2, Fresh, Zenon
<1>4. RestOfResource(us, c.unit, c.item) = IdsOfUnits(us)
  <2>1. 1 \in 1..(Len(us) + 1)
    BY <1>2
  <2>2. QED
    BY <1>2, <2>1, RestStarts, UnitsFromStep
<1> HIDE DEF us, rest
<1>5. RestOf(b, c) = Cat(IdsOfUnits(us), RestOf(b, d))
  BY <1>2, <1>3, <1>4
<1>6. QED
  BY <1>1, <1>3, <1>5 DEF us

\* What is inserted in front and taken from behind.
LEMMA Moved ==
  ASSUME NEW G, NEW H, NEW m \in Seq(Items), NEW R \in Seq(Items), Inserted(G, H, m)
  PROVE  /\ IsInjective(Cat(H, R)) <=> IsInjective(Cat(G, Cat(m, R)))
         /\ Len(Cat(H, R)) = Len(Cat(G, Cat(m, R)))
<1> DEFINE r == Cat(m, R)
<1>1. /\ G \in Seq(Items) /\ H \in Seq(Items) /\ Len(H) = Len(G) + Len(m)
      /\ ToSet(H) = ToSet(G) \cup ToSet(m)
      /\ IsInjective(H) <=> IsInjective(G) /\ IsInjective(m) /\ ToSet(G) \cap ToSet(m) = {}
  BY InsertedFacts
<1>2. /\ r \in Seq(Items) /\ Len(r) = Len(m) + Len(R) /\ ToSet(r) = ToSet(m) \cup ToSet(R)
      /\ IsInjective(r) <=> IsInjective(m) /\ IsInjective(R) /\ ToSet(m) \cap ToSet(R) = {}
  <2>1. r \in Seq(Items) /\ Len(r) = Len(m) + Len(R)
    BY ConcatProperties DEF Cat
  <2>2. QED
    BY <2>1, Joined DEF Cat
<1> HIDE DEF r
<1>3. /\ Len(Cat(H, R)) = Len(H) + Len(R)
      /\ IsInjective(Cat(H, R)) <=> IsInjective(H) /\ IsInjective(R) /\ ToSet(H) \cap ToSet(R) = {}
  BY <1>1, CatFacts, Zenon
<1>4. Len(Cat(G, r)) = Len(G) + Len(r)
  BY <1>1, <1>2, ConcatProperties, Zenon DEF Cat
<1>5. IsInjective(Cat(G, r)) <=> IsInjective(G) /\ IsInjective(r) /\ ToSet(G) \cap ToSet(r) = {}
  BY <1>1, <1>2, CatFacts, Zenon
<1>6. Len(Cat(H, R)) = Len(Cat(G, r))
  <2>1. Len(G) \in Nat /\ Len(m) \in Nat /\ Len(R) \in Nat
    BY <1>1, LenProperties
  <2> DEFINE x == Len(G)
             y == Len(m)
             z == Len(R)
  <2>2. Len(Cat(H, R)) = (x + y) + z /\ Len(Cat(G, r)) = x + (y + z)
    BY <1>1, <1>2, <1>3, <1>4
  <2> HIDE DEF x, y, z
  <2>3. QED
    BY <2>1, <2>2 DEF x, y, z
<1>7. IsInjective(Cat(H, R)) <=> IsInjective(Cat(G, r))
  BY <1>1, <1>2, <1>3, <1>5
<1>8. QED
  BY <1>6, <1>7 DEF r

-----------------------------------------------------------------------------
(***************************************************************************)
(* Packing: the ids that are shipped, stacked, current and still grouped.  *)
(***************************************************************************)
Apart(E, S, C, G) ==
  /\ IsInjective(E) /\ IsInjective(S) /\ IsInjective(C) /\ IsInjective(G)
  /\ ToSet(E) \cap ToSet(S) = {} /\ ToSet(E) \cap ToSet(C) = {} /\ ToSet(E) \cap ToSet(G) = {}
  /\ ToSet(S) \cap ToSet(C) = {} /\ ToSet(S) \cap ToSet(G) = {} /\ ToSet(C) \cap ToSet(G) = {}

\* Whole as a statement about sets and lengths.
LEMMA WholeParts ==
  ASSUME NEW E \in Seq(Items), NEW S \in Seq(Items), NEW C \in Seq(Items), NEW G \in Seq(Items),
         NEW D \in Nat, NEW n
  PROVE  Whole(E, S, C, G, D, n) <=>
           Apart(E, S, C, G) /\ Len(E) + ((Len(S) + Len(C)) + Len(G)) + D = n
<1> DEFINE a == Cat(S, C)
<1>1. a \in Seq(Items) /\ Len(a) = Len(S) + Len(C)
  BY ConcatProperties DEF Cat
<1>2. /\ ToSet(a) = ToSet(S) \cup ToSet(C)
      /\ IsInjective(a) <=> IsInjective(S) /\ IsInjective(C) /\ ToSet(S) \cap ToSet(C) = {}
  BY Joined DEF Cat
<1> HIDE DEF a
<1> DEFINE b == Cat(a, G)
<1>3. b \in Seq(Items) /\ Len(b) = Len(a) + Len(G)
  BY <1>1, ConcatProperties, Zenon DEF Cat
<1>4. /\ ToSet(b) = ToSet(a) \cup ToSet(G)
      /\ IsInjective(b) <=> IsInjective(a) /\ IsInjective(G) /\ ToSet(a) \cap ToSet(G) = {}
  BY <1>1, Joined DEF Cat
<1> HIDE DEF b
<1>5. IsInjective(Cat(E, b)) <=> IsInjective(E) /\ IsInjective(b) /\ ToSet(E) \cap ToSet(b) = {}
  BY <1>3, Joined DEF Cat
<1>6. IsInjective(Cat(E, b)) <=> Apart(E, S, C, G)
  BY <1>2, <1>4, <1>5 DEF Apart
<1>7. Len(b) = (Len(S) + Len(C)) + Len(G)
  BY <1>1, <1>3
<1>8. Whole(E, S, C, G, D, n) <=> IsInjective(Cat(E, b)) /\ Len(E) + Len(b) + D = n
  BY DEF Whole, b, a
<1>9. QED
  BY <1>6, <1>7, <1>8

LEMMA NoneApart == ToSet(<<>>) = {} /\ IsInjective(<<>>) /\ Len(<<>>) = 0 /\ <<>> \in Seq(Items)
BY DEF ToSet, IsInjective

\* A stacked piece is shipped.
LEMMA StackedShipped ==
  ASSUME NEW E \in Seq(Items), NEW S \in Seq(Items), NEW C \in Seq(Items), NEW G \in Seq(Items),
         NEW D \in Nat, NEW n, NEW p \in Seq(Items), Whole(E, Cat(p, S), C, G, D, n)
  PROVE  Whole(Cat(E, p), S, C, G, D, n)
<1> DEFINE a == Cat(p, S)
           b == Cat(E, p)
<1>1. a \in Seq(Items) /\ Len(a) = Len(p) + Len(S)
      /\ b \in Seq(Items) /\ Len(b) = Len(E) + Len(p)
  BY ConcatProperties DEF Cat
<1>2. /\ ToSet(a) = ToSet(p) \cup ToSet(S)
      /\ IsInjective(a) <=> IsInjective(p) /\ IsInjective(S) /\ ToSet(p) \cap ToSet(S) = {}
  BY Joined DEF Cat
<1>3. /\ ToSet(b) = ToSet(E) \cup ToSet(p)
      /\ IsInjective(b) <=> IsInjective(E) /\ IsInjective(p) /\ ToSet(E) \cap ToSet(p) = {}
  BY Joined DEF Cat
<1>4. Whole(E, a, C, G, D, n)
  OBVIOUS
<1> HIDE DEF a, b
<1>a. a \in Seq(Items)
  BY <1>1
<1>5. Apart(E, a, C, G) /\ Len(E) + ((Len(a) + Len(C)) + Len(G)) + D = n
  BY <1>a, <1>4, WholeParts, Zenon
<1>6. Apart(b, S, C, G)
  BY <1>2, <1>3, <1>5 DEF Apart
<1>7. Len(b) + ((Len(S) + Len(C)) + Len(G)) + D = n
  <2>1. /\ Len(E) \in Nat /\ Len(S) \in Nat /\ Len(C) \in Nat /\ Len(G) \in Nat /\ Len(p) \in Nat
    BY LenProperties
  <2> DEFINE e == Len(E)
             s == Len(S)
             c == Len(C)
             g == Len(G)
             q == Len(p)
  <2>2. e + (((q + s) + c) + g) + D = n
    BY <1>1, <1>5
  <2> HIDE DEF e, s, c, g, q
  <2>3. (e + q) + ((s + c) + g) + D = n
    BY <2>1, <2>2 DEF e, s, c, g, q
  <2>4. QED
    BY <1>1, <2>3 DEF e, s, c, g, q
<1>b. b \in Seq(Items)
  BY <1>1
<1>8. Whole(b, S, C, G, D, n)
  BY <1>b, <1>6, <1>7, WholeParts
<1>9. QED
  BY <1>8 DEF b

\* A stacked piece is dropped.
LEMMA StackedDropped ==
  ASSUME NEW E \in Seq(Items), NEW S \in Seq(Items), NEW C \in Seq(Items), NEW G \in Seq(Items),
         NEW D \in Nat, NEW n, NEW p \in Seq(Items), Whole(E, Cat(p, S), C, G, D, n)
  PROVE  Whole(E, S, C, G, D + Len(p), n)
<1> DEFINE a == Cat(p, S)
<1>1. a \in Seq(Items) /\ Len(a) = Len(p) + Len(S)
  BY ConcatProperties DEF Cat
<1>2. /\ ToSet(a) = ToSet(p) \cup ToSet(S)
      /\ IsInjective(a) <=> IsInjective(p) /\ IsInjective(S) /\ ToSet(p) \cap ToSet(S) = {}
  BY Joined DEF Cat
<1>4. Whole(E, a, C, G, D, n)
  OBVIOUS
<1> HIDE DEF a
<1>a. a \in Seq(Items)
  BY <1>1
<1>5. Apart(E, a, C, G) /\ Len(E) + ((Len(a) + Len(C)) + Len(G)) + D = n
  BY <1>a, <1>4, WholeParts, Zenon
<1>6. Apart(E, S, C, G)
  BY <1>2, <1>5 DEF Apart
<1> DEFINE d == D + Len(p)
<1>0. /\ Len(E) \in Nat /\ Len(S) \in Nat /\ Len(C) \in Nat /\ Len(G) \in Nat /\ Len(p) \in Nat
  BY LenProperties
<1>7. d \in Nat /\ Len(E) + ((Len(S) + Len(C)) + Len(G)) + d = n
  <2> DEFINE e == Len(E)
             s == Len(S)
             c == Len(C)
             g == Len(G)
             q == Len(p)
  <2>2. e + (((q + s) + c) + g) + D = n
    BY <1>1, <1>5
  <2>3. e \in Nat /\ s \in Nat /\ c \in Nat /\ g \in Nat /\ q \in Nat
    BY <1>0
  <2> HIDE DEF e, s, c, g, q
  <2>4. D + q \in Nat /\ e + ((s + c) + g) + (D + q) = n
    BY <2>2, <2>3
  <2>5. QED
    BY <2>4 DEF e, s, c, g, q
<1> HIDE DEF d
<1>8. Whole(E, S, C, G, d, n)
  BY <1>6, <1>7, WholeParts
<1>9. QED
  BY <1>8 DEF d

\* What is current is what would be on the stack alone.
LEMMA CurrentStacked ==
  ASSUME NEW E \in Seq(Items), NEW C \in Seq(Items), NEW G \in Seq(Items), NEW D, NEW n
  PROVE  Whole(E, <<>>, C, G, D, n) <=> Whole(E, C, <<>>, G, D, n)
<1>1. Cat(<<>>, C) = C /\ Cat(C, <<>>) = C
  BY CatEmpty
<1>2. QED
  BY <1>1 DEF Whole

\* A group becomes current.
LEMMA GroupTaken ==
  ASSUME NEW E \in Seq(Items), NEW C \in Seq(Items), NEW G \in Seq(Items), NEW D, NEW n
  PROVE  Whole(E, <<>>, <<>>, Cat(C, G), D, n) <=> Whole(E, <<>>, C, G, D, n)
<1>1. Cat(<<>>, C) = C /\ Cat(<<>>, <<>>) = <<>> /\ Cat(<<>>, Cat(C, G)) = Cat(C, G)
  <2>1. Cat(C, G) \in Seq(Items) /\ <<>> \in Seq(Items)
    BY CatFacts
  <2> DEFINE a == Cat(C, G)
  <2> HIDE DEF a
  <2>2. Cat(<<>>, a) = a
    BY <2>1, CatEmpty DEF a
  <2>3. QED
    BY <2>1, <2>2, CatEmpty, Zenon DEF a
<1>2. QED
  BY <1>1, Zenon DEF Whole

\* A sequence that is not empty.
LEMMA HeadAndTail ==
  ASSUME NEW s, IsSeq(s), s # <<>>
  PROVE  /\ Head(s) \in ToSet(s) /\ IsSeq(Tail(s)) /\ ToSet(Tail(s)) \subseteq ToSet(s)
         /\ s = Cat(<<Head(s)>>, Tail(s))
<1>1. s \in Seq(ToSet(s)) /\ Len(s) \in Nat
  BY SeqFacts DEF IsSeq
<1>2. Len(s) # 0
  BY <1>1, EmptySeq
<1>3. 1 \in 1..Len(s) /\ 2 \in 1..(Len(s) + 1) /\ 1 \in 1..(Len(s) + 1) /\ 1 <= Len(s)
  BY <1>1, <1>2
<1>4. Tail(s) = SubSeq(s, 2, Len(s))
  BY <1>1, TailIsSubSeq
<1>5. Head(s) = s[1]
  OBVIOUS
<1>6. IsSeq(Tail(s)) /\ ToSet(Tail(s)) \subseteq ToSet(s)
  BY <1>3, <1>4, From, Zenon
<1>7. s = Cat(<<s[1]>>, SubSeq(s, 2, Len(s)))
  <2>1. SubSeq(s, 1, Len(s)) = s /\ SubSeq(s, 1, Len(s)) = Cat(<<s[1]>>, SubSeq(s, 1 + 1, Len(s)))
    BY <1>3, From
  <2>2. QED
    BY <2>1
<1>8. QED
  BY <1>3, <1>4, <1>5, <1>6, <1>7, IsElement, Zenon

\* The first group and the first stacked piece.
LEMMA GroupsPop ==
  ASSUME NEW gs, GroupsOK(gs), gs # <<>>
  PROVE  /\ GroupOK(Head(gs)) /\ GroupsOK(Tail(gs))
         /\ Ids(Head(gs).res) \in Seq(Items) /\ GroupIds(Tail(gs)) \in Seq(Items)
         /\ GroupIds(gs) = Cat(Ids(Head(gs).res), GroupIds(Tail(gs)))
<1> DEFINE h == Head(gs)
           t == Tail(gs)
<1>1. h \in ToSet(gs) /\ IsSeq(t) /\ ToSet(t) \subseteq ToSet(gs) /\ gs = Cat(<<h>>, t)
  BY HeadAndTail, Zenon DEF GroupsOK
<1> HIDE DEF h, t
<1>2. GroupOK(h) /\ GroupsOK(t)
  BY <1>1 DEF GroupsOK
<1>3. GroupsOK(<<h>>) /\ GroupIds(<<h>>) = Ids(h.res) /\ Ids(h.res) \in Seq(Items)
  BY <1>2, GroupsOne
<1>4. GroupIds(t) \in Seq(Items) /\ GroupIds(Cat(<<h>>, t)) = Cat(Ids(h.res), GroupIds(t))
  BY <1>2, <1>3, GroupsCat
<1>5. QED
  BY <1>1, <1>2, <1>3, <1>4 DEF h, t

LEMMA PiecesPop ==
  ASSUME NEW cs, PiecesOK(cs), cs # <<>>
  PROVE  /\ Head(cs) \in ToSet(cs) /\ ToSet(Tail(cs)) \subseteq ToSet(cs)
         /\ PieceOK(Head(cs).piece) /\ PiecesOK(Tail(cs))
         /\ Ids(Head(cs).piece.res) \in Seq(Items) /\ PieceIds(Tail(cs)) \in Seq(Items)
         /\ PieceIds(cs) = Cat(Ids(Head(cs).piece.res), PieceIds(Tail(cs)))
<1> DEFINE h == Head(cs)
           t == Tail(cs)
<1>1. h \in ToSet(cs) /\ IsSeq(t) /\ ToSet(t) \subseteq ToSet(cs) /\ cs = Cat(<<h>>, t)
  BY HeadAndTail DEF PiecesOK
<1> HIDE DEF h, t
<1>2. PieceOK(h.piece) /\ PiecesOK(t)
  BY <1>1 DEF PiecesOK
<1>3. PiecesOK(<<h>>) /\ PieceIds(<<h>>) = Ids(h.piece.res) /\ Ids(h.piece.res) \in Seq(Items)
  BY <1>2, PiecesOne
<1>4. PieceIds(t) \in Seq(Items) /\ PieceIds(Cat(<<h>>, t)) = Cat(Ids(h.piece.res), PieceIds(t))
  BY <1>2, <1>3, PiecesCat
<1>5. QED
  BY <1>1, <1>2, <1>3, <1>4 DEF h, t

\* The two calls of packSplit hold the items of the one that made them.
LEMMA HalvesStacked ==
  ASSUME NEW p, PieceOK(p), Splittable(p), NEW d \in 0..MaxAttempts, ~OutOfAttempts(d)
  PROVE  /\ PiecesOK(Halves(p, d)) /\ DepthsOK(Halves(p, d))
         /\ PieceIds(Halves(p, d)) = Ids(p.res)
<1> DEFINE x == SplitHalf(p)[1]
           y == SplitHalf(p)[2]
           cx == [piece |-> x, depth |-> d + 1]
           cy == [piece |-> y, depth |-> d + 1]
<1>1. PieceOK(x) /\ PieceOK(y) /\ Cat(Ids(x.res), Ids(y.res)) = Ids(p.res)
  BY PieceHalved
<1>2. Halves(p, d) = <<cx, cy>>
  BY DEF Halves
<1>3. d + 1 \in 0..MaxAttempts
  BY BoundsAssumption DEF OutOfAttempts
<1>4. PieceOK(cx.piece) /\ PieceOK(cy.piece) /\ cx.piece = x /\ cy.piece = y
      /\ cx.depth \in 0..MaxAttempts /\ cy.depth \in 0..MaxAttempts
  BY <1>1, <1>3
<1> HIDE DEF x, y, cx, cy
<1>5. /\ PiecesOK(<<cx>>) /\ PieceIds(<<cx>>) = Ids(x.res)
      /\ PiecesOK(<<cy>>) /\ PieceIds(<<cy>>) = Ids(y.res)
  BY <1>4, PiecesOne
<1>6. <<cx, cy>> = Cat(<<cx>>, <<cy>>)
  <2>1. Append(<<cx>>, cy) = <<cx, cy>>
    <3> DEFINE S == {cx, cy}
               a == Append(<<cx>>, cy)
               b == <<cx, cy>>
    <3>1. <<cx>> \in Seq(S) /\ cy \in S /\ b \in Seq(S) /\ Len(b) = 2 /\ b[1] = cx /\ b[2] = cy
      OBVIOUS
    <3>2. a \in Seq(S) /\ Len(a) = 2 /\ a[1] = cx /\ a[2] = cy
      BY <3>1, AppendProperties
    <3> HIDE DEF a, b, S
    <3>3. \A i \in 1..Len(a) : a[i] = b[i]
      BY <3>1, <3>2
    <3>4. a = b
      BY <3>1, <3>2, <3>3, SeqEqual
    <3>5. QED
      BY <3>4 DEF a, b
  <2>2. Append(<<cx>>, cy) = Cat(<<cx>>, <<cy>>)
    BY SeqOne, AppendIsCat, Zenon
  <2>3. QED
    BY <2>1, <2>2, Zenon
<1>7. /\ PiecesOK(Cat(<<cx>>, <<cy>>))
      /\ PieceIds(Cat(<<cx>>, <<cy>>)) = Cat(Ids(x.res), Ids(y.res))
  BY <1>5, PiecesCat
<1>8. DepthsOK(<<cx, cy>>)
  <2>1. ToSet(<<cx, cy>>) = {cx, cy}
    BY DEF ToSet
  <2>2. QED
    BY <1>4, <2>1 DEF DepthsOK
<1>9. QED
  BY <1>1, <1>2, <1>6, <1>7, <1>8

\* A record more, or a drop more.
LEMMA Shipping ==
  ASSUME NEW p, PieceOK(p), PiecesOK(entries), Ship(p)
  PROVE  /\ PiecesOK(entries') /\ PieceIds(entries') = Cat(PieceIds(entries), Ids(p.res))
         /\ drops' = drops /\ Dropped' = Dropped
<1> DEFINE x == [key |-> key, piece |-> p]
<1>1. x.piece = p /\ PieceOK(x.piece) /\ entries' = Append(entries, x)
  BY DEF Ship
<1> HIDE DEF x
<1>2. Append(entries, x) = Cat(entries, <<x>>)
  BY AppendIsCat DEF PiecesOK
<1>3. PiecesOK(<<x>>) /\ PieceIds(<<x>>) = Ids(p.res)
  BY <1>1, PiecesOne
<1>4. PiecesOK(Cat(entries, <<x>>)) /\ PieceIds(Cat(entries, <<x>>)) = Cat(PieceIds(entries), Ids(p.res))
  BY <1>3, PiecesCat
<1>5. drops' = drops /\ Dropped' = Dropped
  BY DEF Ship, Dropped
<1>6. QED
  BY <1>1, <1>2, <1>4, <1>5

LEMMA DroppedType ==
  ASSUME drops \in [Reasons -> Nat]
  PROVE  Dropped \in Nat
BY DEF Dropped, Reasons, CodecErrors

LEMMA Dropping ==
  ASSUME NEW p, PieceOK(p), NEW reason \in Reasons, Drop(p, reason), drops \in [Reasons -> Nat]
  PROVE  /\ drops' \in [Reasons -> Nat] /\ Dropped' = Dropped + Len(Ids(p.res))
         /\ entries' = entries
<1> DEFINE n == Len(Ids(p.res))
<1>1. n \in Nat
  BY BatchCat, LenProperties DEF PieceOK
<1>2. drops' = [drops EXCEPT ![reason] = @ + n] /\ entries' = entries
  BY DEF Drop, ItemCount
<1> HIDE DEF n
<1>3. drops' \in [Reasons -> Nat]
  BY <1>1, <1>2
<1>4. /\ drops["marshal_error"] \in Nat /\ drops["compress_error"] \in Nat
      /\ drops["reject_policy"] \in Nat /\ drops["chain_exhausted"] \in Nat
      /\ drops["max_attempts"] \in Nat /\ drops["irreducible"] \in Nat
  BY DEF Reasons, CodecErrors
<1>5. Dropped' = Dropped + n
  <2>1. CASE reason = "marshal_error"
    BY <1>1, <1>2, <1>4, <2>1 DEF Dropped, Reasons, CodecErrors
  <2>2. CASE reason = "compress_error"
    BY <1>1, <1>2, <1>4, <2>2 DEF Dropped, Reasons, CodecErrors
  <2>3. CASE reason = "reject_policy"
    BY <1>1, <1>2, <1>4, <2>3 DEF Dropped, Reasons, CodecErrors
  <2>4. CASE reason = "chain_exhausted"
    BY <1>1, <1>2, <1>4, <2>4 DEF Dropped, Reasons, CodecErrors
  <2>5. CASE reason = "max_attempts"
    BY <1>1, <1>2, <1>4, <2>5 DEF Dropped, Reasons, CodecErrors
  <2>6. CASE reason = "irreducible"
    BY <1>1, <1>2, <1>4, <2>6 DEF Dropped, Reasons, CodecErrors
  <2>7. QED
    BY <2>1, <2>2, <2>3, <2>4, <2>5, <2>6 DEF Reasons, CodecErrors
<1>6. QED
  BY <1>2, <1>3, <1>5 DEF n

\* Codec failures stay within their bound.
LEMMA ErrorsBounded ==
  ASSUME NEW p, NEW r, errs \in 0..MaxErrors, Encoded(p, r)
  PROVE  errs' \in 0..MaxErrors
BY BoundsAssumption DEF Encoded, TryEncode

\* The policies that packChain starts with, one less, and none.
LEMMA NothingLeft ==
  ASSUME IsSeq(policies)
  PROVE  Suffix(<<>>, policies) /\ Suffix(policies, policies)
<1>1. Len(policies) \in Nat
  BY SeqFacts
<1>2. /\ Len(policies) + 1 \in 1..(Len(policies) + 1) /\ Len(policies) + 1 > Len(policies)
      /\ 1 \in 1..(Len(policies) + 1)
  BY <1>1
<1>3. SubSeq(policies, Len(policies) + 1, Len(policies)) = <<>>
  BY <1>2, From
<1>4. SubSeq(policies, 1, Len(policies)) = policies
  BY <1>2, From, Zenon
<1>5. QED
  BY <1>2, <1>3, <1>4 DEF Suffix

LEMMA LessLeft ==
  ASSUME IsSeq(policies), NEW l, Suffix(l, policies), l # <<>>
  PROVE  Suffix(Tail(l), policies)
<1> DEFINE n == Len(policies)
<1>0. n \in Nat /\ policies \in Seq(ToSet(policies))
  BY SeqFacts DEF IsSeq
<1>1. PICK i \in 1..(n + 1) : l = SubSeq(policies, i, n)
  BY DEF Suffix
<1>2. i <= n
  BY <1>0, <1>1, From
<1>3. i \in 1..n /\ n \in i..n /\ i + 1 \in 1..(n + 1)
  BY <1>0, <1>1, <1>2
<1>4. Tail(l) = SubSeq(policies, i + 1, n)
  BY <1>0, <1>1, <1>3, HeadTailOfSubSeq
<1>5. QED
  BY <1>3, <1>4, Zenon DEF Suffix

LEMMA NoPieceOK == PieceOK(NoPiece) /\ Ids(NoPiece.res) = <<>> /\ NoPiece.res = <<>>
<1>1. NoPiece = [res |-> <<>>, trimmed |-> FALSE]
  BY DEF NoPiece, Piece
<1>2. QED
  BY <1>1, BatchNone DEF PieceOK

-----------------------------------------------------------------------------
(***************************************************************************)
(* The steps of emit, packChain and packSplit.                             *)
(***************************************************************************)
LEMMA InputStays == ASSUME InputOK, UNCHANGED input PROVE InputOK'
BY DEF InputOK, input, ValidChain

\* The ids of what is where, as sequences.
LEMMA Placed ==
  ASSUME Types
  PROVE  /\ PieceIds(entries) \in Seq(Items) /\ PieceIds(stack) \in Seq(Items)
         /\ Ids(current.res) \in Seq(Items) /\ GroupIds(groups) \in Seq(Items)
         /\ Dropped \in Nat
<1>1. PiecesOK(entries) /\ PiecesOK(stack) /\ BatchOK(current.res) /\ GroupsOK(groups)
      /\ drops \in [Reasons -> Nat]
  BY DEF Types, PieceOK
<1>2. QED
  BY <1>1, PiecesCat, BatchCat, GroupsCat, DroppedType

\* What is current is shipped or dropped, and packChain returns.
LEMMA Returned ==
  ASSUME IInv, at \in {"first", "policies"}, NEW p, PieceOK(p), Ids(p.res) = Ids(current.res),
         Ship(p) \/ (\E reason \in Reasons : Drop(p, reason)), Return,
         errs' \in 0..MaxErrors, UNCHANGED <<input, next, groups, key>>
  PROVE  IInv'
<1> DEFINE E == PieceIds(entries)
           C == Ids(current.res)
           G == GroupIds(groups)
           n == Len(Ids(batch))
<1>1. /\ at' = "emit" /\ current' = NoPiece /\ left' = <<>> /\ stack' = <<>>
      /\ batch' = batch /\ policies' = policies /\ plan' = plan /\ next' = next
      /\ groups' = groups
  BY DEF Return, input
<1>2. Types /\ InputOK /\ InputOK' /\ stack = <<>> /\ PiecesOK(entries) /\ drops \in [Reasons -> Nat]
  BY InputStays DEF IInv, Control, Types
<1>3. E \in Seq(Items) /\ C \in Seq(Items) /\ G \in Seq(Items) /\ Dropped \in Nat
  BY <1>2, Placed
<1>4. Whole(E, <<>>, C, G, Dropped, n)
  <2>1. PieceIds(stack) = <<>>
    BY <1>2, PiecesNone
  <2>2. QED
    BY <2>1 DEF IInv, Kept
<1>5. Whole(E, Cat(C, <<>>), <<>>, G, Dropped, n) /\ <<>> \in Seq(Items)
  <2>1. Cat(C, <<>>) = C
    BY <1>3, CatEmpty
  <2>2. QED
    BY <1>3, <1>4, <2>1, CurrentStacked
<1>6. /\ PiecesOK(entries') /\ drops' \in [Reasons -> Nat]
      /\ Whole(PieceIds(entries'), <<>>, <<>>, G, Dropped', n)
  <2> HIDE DEF E, C, G, n
  <2>1. CASE Ship(p)
    <3>1. /\ PiecesOK(entries') /\ PieceIds(entries') = Cat(E, C) /\ drops' = drops
          /\ Dropped' = Dropped
      BY <1>2, <2>1, Shipping DEF E, C
    <3>2. Whole(Cat(E, C), <<>>, <<>>, G, Dropped, n)
      BY <1>3, <1>5, StackedShipped, Zenon
    <3>3. QED
      BY <1>2, <3>1, <3>2
  <2>2. ASSUME NEW reason \in Reasons, Drop(p, reason)
        PROVE  /\ PiecesOK(entries') /\ drops' \in [Reasons -> Nat]
               /\ Whole(PieceIds(entries'), <<>>, <<>>, G, Dropped', n)
    <3>1. /\ drops' \in [Reasons -> Nat] /\ Dropped' = Dropped + Len(C) /\ entries' = entries
      BY <1>2, <2>2, Dropping DEF C
    <3>2. Whole(E, <<>>, <<>>, G, Dropped + Len(C), n)
      BY <1>3, <1>5, StackedDropped, Zenon
    <3>3. QED
      BY <1>2, <3>1, <3>2 DEF E
  <2>3. QED
    BY <2>1, <2>2
<1>7. Types'
  <2>1. Suffix(left', policies')
    BY <1>1, <1>2, NothingLeft DEF InputOK
  <2>2. DepthsOK(stack') /\ PiecesOK(stack')
    BY <1>1, PiecesNone DEF DepthsOK, ToSet
  <2>3. next \in Cursors /\ GroupsOK(groups)
    BY <1>2 DEF Types
  <2>4. QED
    BY <1>1, <1>6, <2>1, <2>2, <2>3, NoPieceOK DEF Types
<1>8. Control'
  BY <1>1 DEF Control
<1>9. Kept'
  <2>1. PieceIds(stack') = <<>> /\ Ids(current'.res) = <<>>
    BY <1>1, PiecesNone, NoPieceOK
  <2>2. Whole(PieceIds(entries'), PieceIds(stack'), Ids(current'.res), GroupIds(groups'),
              Dropped', Len(Ids(batch')))
    BY <1>1, <1>6, <2>1
  <2>3. QED
    BY <1>1, <2>2 DEF Kept
<1>10. QED
  BY <1>2, <1>7, <1>8, <1>9 DEF IInv

\* The piece goes on to the policies, truncated or not.
LEMMA Retried ==
  ASSUME IInv, at \in {"first", "policies"}, at' = "policies",
         PieceOK(current'), Ids(current'.res) = Ids(current.res),
         Suffix(left', policies), stack' = stack, Neither, errs' \in 0..MaxErrors,
         UNCHANGED <<input, next, groups, key>>
  PROVE  IInv'
<1>1. /\ batch' = batch /\ policies' = policies /\ plan' = plan /\ next' = next
      /\ groups' = groups /\ entries' = entries /\ drops' = drops /\ Dropped' = Dropped
  BY DEF input, Neither, Dropped
<1>2. Types /\ InputOK /\ InputOK' /\ stack = <<>>
  BY InputStays DEF IInv, Control
<1>3. Types'
  BY <1>1, <1>2 DEF Types
<1>4. Control'
  BY <1>1, <1>2 DEF Control
<1>5. Kept'
  BY <1>1 DEF IInv, Kept
<1>6. QED
  BY <1>2, <1>3, <1>4, <1>5 DEF IInv

\* Every action keeps the invariant.
LEMMA TakeGroupKeeps == ASSUME IInv, TakeGroup PROVE IInv'
<1> DEFINE E == PieceIds(entries)
           n == Len(Ids(batch))
           h == Head(groups).res
<1>1. /\ at \in {"grouped", "emit"} /\ groups # <<>> /\ at' = "first"
      /\ current' = Piece(h) /\ groups' = Tail(groups) /\ left' = policies
      /\ batch' = batch /\ policies' = policies /\ next' = next /\ stack' = stack
      /\ errs' = errs /\ entries' = entries /\ drops' = drops /\ UNCHANGED input
  BY DEF TakeGroup, input
<1>2. Types /\ InputOK /\ InputOK' /\ stack = <<>> /\ current = NoPiece
  BY <1>1, InputStays DEF IInv, Control
<1>3. /\ GroupOK(Head(groups)) /\ GroupsOK(groups') /\ Ids(h) \in Seq(Items)
      /\ GroupIds(groups') \in Seq(Items) /\ GroupIds(groups) = Cat(Ids(h), GroupIds(groups'))
  BY <1>1, <1>2, GroupsPop DEF Types
<1>4. current' = [res |-> h, trimmed |-> FALSE] /\ BatchOK(h)
  BY <1>1, <1>3 DEF Piece, GroupOK
<1> HIDE DEF h
<1>5. PieceOK(current') /\ current'.res = h
  BY <1>4 DEF PieceOK
<1>6. Types'
  <2>1. Suffix(left', policies')
    BY <1>1, <1>2, NothingLeft DEF InputOK
  <2>2. QED
    BY <1>1, <1>2, <1>3, <1>5, <2>1 DEF Types
<1>7. Control'
  BY <1>1, <1>2 DEF Control
<1>8. Kept'
  <2>1. PieceIds(stack) = <<>> /\ Ids(current.res) = <<>>
    BY <1>2, PiecesNone, NoPieceOK
  <2>2. Whole(E, <<>>, <<>>, GroupIds(groups), Dropped, n)
    BY <1>1, <2>1 DEF IInv, Kept
  <2>3. E \in Seq(Items)
    BY <1>2, Placed
  <2> HIDE DEF E, n
  <2>4. Whole(E, <<>>, Ids(h), GroupIds(groups'), Dropped, n)
    BY <1>3, <2>2, <2>3, GroupTaken
  <2>5. Dropped' = Dropped
    BY <1>1 DEF Dropped
  <2>6. Whole(PieceIds(entries'), PieceIds(stack'), Ids(current'.res), GroupIds(groups'),
              Dropped', Len(Ids(batch')))
    BY <1>1, <1>5, <2>1, <2>4, <2>5 DEF E, n
  <2>7. QED
    BY <1>1, <2>6 DEF Kept
<1>9. QED
  BY <1>2, <1>6, <1>7, <1>8 DEF IInv

LEMMA FirstTryKeeps == ASSUME IInv, FirstTry PROVE IInv'
<1>1. PICK r \in TryEncode(current) :
       /\ Encoded(current, r)
       /\ \/ r = "fit" /\ Ship(current) /\ Return
          \/ r \in CodecErrors /\ Drop(current, r) /\ Return
          \/ /\ r = "large" /\ at' = "policies" /\ Neither
             /\ UNCHANGED <<current, left, stack>>
  BY DEF FirstTry
<1>2. at = "first" /\ UNCHANGED <<input, next, groups, key>>
  BY DEF FirstTry
<1>3. PieceOK(current) /\ errs' \in 0..MaxErrors /\ policies' = policies /\ Suffix(left, policies)
  BY <1>1, <1>2, ErrorsBounded DEF IInv, Types, input
<1>4. CASE r = "fit" /\ Ship(current) /\ Return
  BY <1>2, <1>3, <1>4, Returned
<1>5. CASE r \in CodecErrors /\ Drop(current, r) /\ Return
  <2>1. \E reason \in Reasons : Drop(current, reason)
    BY <1>5 DEF Reasons
  <2>2. QED
    BY <1>2, <1>3, <1>5, <2>1, Returned
<1>6. CASE at' = "policies" /\ Neither /\ UNCHANGED <<current, left, stack>>
  <2>1. PieceOK(current') /\ Ids(current'.res) = Ids(current.res) /\ Suffix(left', policies)
        /\ stack' = stack
    BY <1>3, <1>6
  <2>2. QED
    BY <1>2, <1>3, <1>6, <2>1, Retried
<1>7. QED
  BY <1>1, <1>4, <1>5, <1>6

LEMMA TrimmedOK ==
  ASSUME NEW p, PieceOK(p)
  PROVE  /\ PieceOK([p EXCEPT !.trimmed = TRUE])
         /\ [p EXCEPT !.trimmed = TRUE].res = p.res
<1> DEFINE q == [p EXCEPT !.trimmed = TRUE]
<1>1. p = [res |-> p.res, trimmed |-> p.trimmed] /\ BatchOK(p.res)
  BY DEF PieceOK
<1>2. q = [res |-> p.res, trimmed |-> TRUE]
  <2>1. \A v : [p EXCEPT !.trimmed = v] = [res |-> p.res, trimmed |-> v]
    BY <1>1
  <2>2. QED
    BY <2>1, Zenon
<1> HIDE DEF q
<1>3. PieceOK(q) /\ q.res = p.res
  BY <1>1, <1>2 DEF PieceOK
<1>4. QED
  BY <1>3 DEF q

LEMMA TruncateKeeps == ASSUME IInv, Truncate PROVE IInv'
<1> DEFINE trimmed == [current EXCEPT !.trimmed = TRUE]
<1>1. /\ at = "policies" /\ left # <<>> /\ UNCHANGED <<input, next, groups, key>>
      /\ policies' = policies
  BY DEF Truncate, input
<1>2. PieceOK(current) /\ Suffix(left, policies) /\ IsSeq(policies) /\ errs \in 0..MaxErrors
  BY DEF IInv, Types, InputOK
<1>3. Suffix(Tail(left), policies)
  BY <1>1, <1>2, LessLeft
<1>4. PieceOK(trimmed) /\ trimmed.res = current.res
  BY <1>2, TrimmedOK
<1>5. CASE left' = Tail(left) /\ Neither /\ UNCHANGED <<current, stack, at, errs>>
  <2>1. PieceOK(current') /\ Ids(current'.res) = Ids(current.res) /\ Suffix(left', policies)
        /\ stack' = stack /\ at' = "policies" /\ errs' \in 0..MaxErrors
    BY <1>1, <1>2, <1>3, <1>5
  <2>2. QED
    BY <1>1, <1>5, <2>1, Retried
<1>6. ASSUME NEW r \in TryEncode(trimmed), Encoded(trimmed, r), r = "fit", Ship(trimmed), Return
      PROVE  IInv'
  <2> HIDE DEF trimmed
  <2>1. errs' \in 0..MaxErrors
    BY <1>2, <1>6, ErrorsBounded
  <2>2. Ids(trimmed.res) = Ids(current.res)
    BY <1>4
  <2>3. QED
    BY <1>1, <1>4, <1>6, <2>1, <2>2, Returned
<1>7. ASSUME NEW r \in TryEncode(trimmed), Encoded(trimmed, r), left' = Tail(left), Neither,
             current' = IF r = "large" THEN trimmed ELSE current, UNCHANGED <<stack, at>>
      PROVE  IInv'
  <2> HIDE DEF trimmed
  <2>1. errs' \in 0..MaxErrors
    BY <1>2, <1>7, ErrorsBounded
  <2>2. PieceOK(current') /\ Ids(current'.res) = Ids(current.res) /\ Suffix(left', policies)
        /\ stack' = stack /\ at' = "policies"
    BY <1>1, <1>2, <1>3, <1>4, <1>7
  <2>3. QED
    BY <1>1, <1>7, <2>1, <2>2, Retried
<1>8. QED
  BY <1>5, <1>6, <1>7, Zenon DEF Truncate

LEMMA StartSplitKeeps == ASSUME IInv, StartSplit PROVE IInv'
<1> DEFINE E == PieceIds(entries)
           C == Ids(current.res)
           G == GroupIds(groups)
           n == Len(Ids(batch))
           c == [piece |-> current, depth |-> 0]
<1>1. /\ at = "policies" /\ at' = "split" /\ stack' = <<c>>
      /\ current' = NoPiece /\ left' = <<>>
      /\ batch' = batch /\ policies' = policies /\ next' = next /\ groups' = groups
      /\ errs' = errs /\ entries' = entries /\ drops' = drops /\ UNCHANGED input
  BY DEF StartSplit, Neither, input
<1>2. Types /\ InputOK /\ InputOK' /\ stack = <<>> /\ PieceOK(current)
  BY <1>1, InputStays DEF IInv, Control, Types
<1>3. c.piece = current /\ c.depth \in 0..MaxAttempts
  BY BoundsAssumption
<1> HIDE DEF c
<1>4. PiecesOK(<<c>>) /\ PieceIds(<<c>>) = C
  BY <1>2, <1>3, PiecesOne
<1>5. DepthsOK(<<c>>)
  BY <1>3, SeqOne DEF DepthsOK
<1>6. Types'
  <2>1. Suffix(left', policies')
    BY <1>1, <1>2, NothingLeft DEF InputOK
  <2>2. QED
    BY <1>1, <1>2, <1>4, <1>5, <2>1, NoPieceOK DEF Types
<1>7. Control'
  BY <1>1 DEF Control
<1>8. Kept'
  <2>1. Whole(E, <<>>, C, G, Dropped, n)
    <3>1. PieceIds(stack) = <<>>
      BY <1>2, PiecesNone
    <3>2. QED
      BY <1>1, <3>1 DEF IInv, Kept
  <2>2. E \in Seq(Items) /\ C \in Seq(Items) /\ G \in Seq(Items)
    BY <1>2, Placed
  <2> HIDE DEF E, C, G, n
  <2>3. Whole(E, C, <<>>, G, Dropped, n)
    BY <2>1, <2>2, CurrentStacked
  <2>4. Dropped' = Dropped
    BY <1>1 DEF Dropped
  <2>5. Whole(PieceIds(entries'), PieceIds(stack'), Ids(current'.res), GroupIds(groups'),
              Dropped', Len(Ids(batch')))
    BY <1>1, <1>4, <2>3, <2>4, NoPieceOK DEF E, C, G, n
  <2>6. QED
    BY <1>1, <2>5 DEF Kept
<1>9. QED
  BY <1>2, <1>6, <1>7, <1>8 DEF IInv

LEMMA RejectKeeps == ASSUME IInv, Reject \/ Exhausted PROVE IInv'
<1>1. /\ at = "policies" /\ UNCHANGED <<input, next, groups, key>> /\ errs' = errs /\ Return
      /\ Drop(current, "reject_policy") \/ Drop(current, "chain_exhausted")
  BY DEF Reject, Exhausted
<1>2. \E reason \in Reasons : Drop(current, reason)
  BY <1>1 DEF Reasons
<1>3. PieceOK(current) /\ errs' \in 0..MaxErrors
  BY <1>1 DEF IInv, Types
<1>4. QED
  BY <1>1, <1>2, <1>3, Returned

LEMMA SplitEndsKeeps == ASSUME IInv, SplitEnds PROVE IInv'
<1>1. /\ at = "split" /\ stack = <<>> /\ Return /\ Neither
      /\ batch' = batch /\ policies' = policies /\ next' = next /\ groups' = groups
      /\ errs' = errs /\ entries' = entries /\ drops' = drops /\ UNCHANGED input
      /\ at' = "emit" /\ current' = NoPiece /\ left' = <<>> /\ stack' = <<>>
  BY DEF SplitEnds, Neither, input, Return
<1>2. Types /\ InputOK /\ InputOK' /\ current = NoPiece
  BY <1>1, InputStays DEF IInv, Control
<1>3. Types'
  <2>1. Suffix(left', policies')
    BY <1>1, <1>2, NothingLeft DEF InputOK
  <2>2. QED
    BY <1>1, <1>2, <2>1 DEF Types
<1>4. Control'
  BY <1>1 DEF Control
<1>5. Kept'
  <2>1. Dropped' = Dropped
    BY <1>1 DEF Dropped
  <2>2. QED
    BY <1>1, <1>2, <2>1 DEF IInv, Kept
<1>6. QED
  BY <1>2, <1>3, <1>4, <1>5 DEF IInv

LEMMA FlushKeeps == ASSUME IInv, Flush PROVE IInv'
<1>1. /\ at \in {"grouped", "emit"} /\ at' = "flush"
      /\ batch' = batch /\ policies' = policies /\ next' = next /\ groups' = groups
      /\ left' = left /\ current' = current /\ stack' = stack
      /\ errs' = errs /\ entries' = entries /\ drops' = drops /\ UNCHANGED input
  BY DEF Flush, input
<1>2. Types /\ InputOK /\ InputOK' /\ current = NoPiece /\ stack = <<>>
  BY <1>1, InputStays DEF IInv, Control
<1>3. Types'
  BY <1>1, <1>2 DEF Types
<1>4. Control'
  BY <1>1, <1>2 DEF Control
<1>5. Kept'
  <2>1. Dropped' = Dropped
    BY <1>1 DEF Dropped
  <2>2. QED
    BY <1>1, <1>2, <2>1 DEF IInv, Kept
<1>6. QED
  BY <1>2, <1>3, <1>4, <1>5 DEF IInv

LEMMA PackSplitKeeps == ASSUME IInv, PackSplit PROVE IInv'
<1> DEFINE E == PieceIds(entries)
           G == GroupIds(groups)
           n == Len(Ids(batch))
           p == Head(stack).piece
           d == Head(stack).depth
           P == Ids(p.res)
           S == PieceIds(Tail(stack))
<1>1. /\ at = "split" /\ at' = "split" /\ stack # <<>> /\ UNCHANGED input
      /\ batch' = batch /\ policies' = policies /\ next' = next /\ groups' = groups
      /\ left' = left /\ current' = current
  BY DEF PackSplit, input
<1>2. /\ Types /\ InputOK /\ InputOK' /\ current = NoPiece /\ PiecesOK(stack) /\ DepthsOK(stack)
      /\ PiecesOK(entries) /\ drops \in [Reasons -> Nat] /\ errs \in 0..MaxErrors
  BY <1>1, InputStays DEF IInv, Control, Types
<1>3. /\ PieceOK(p) /\ PiecesOK(Tail(stack)) /\ P \in Seq(Items) /\ S \in Seq(Items)
      /\ PieceIds(stack) = Cat(P, S) /\ d \in 0..MaxAttempts /\ DepthsOK(Tail(stack))
  BY <1>1, <1>2, PiecesPop DEF DepthsOK
<1>4. E \in Seq(Items) /\ G \in Seq(Items) /\ Dropped \in Nat /\ <<>> \in Seq(Items)
  BY <1>2, Placed
<1>5. Whole(E, Cat(P, S), <<>>, G, Dropped, n)
  BY <1>1, <1>2, <1>3, NoPieceOK DEF IInv, Kept
<1> HIDE DEF E, G, n, P, S
<1>6. ASSUME PiecesOK(stack'), DepthsOK(stack'), PiecesOK(entries'), errs' \in 0..MaxErrors,
             drops' \in [Reasons -> Nat],
             Whole(PieceIds(entries'), PieceIds(stack'), <<>>, G, Dropped', n)
      PROVE  IInv'
  <2>1. Types'
    BY <1>1, <1>2, <1>6 DEF Types
  <2>2. Control'
    BY <1>1, <1>2 DEF Control
  <2>3. Kept'
    <3>1. Ids(current'.res) = <<>>
      BY <1>1, <1>2, NoPieceOK
    <3>2. Whole(PieceIds(entries'), PieceIds(stack'), Ids(current'.res), GroupIds(groups'),
                Dropped', Len(Ids(batch')))
      BY <1>1, <1>6, <3>1 DEF G, n
    <3>3. QED
      BY <1>1, <3>2 DEF Kept
  <2>4. QED
    BY <1>2, <2>1, <2>2, <2>3 DEF IInv
<1>7. ASSUME Ship(p), stack' = Tail(stack), errs' \in 0..MaxErrors
      PROVE  IInv'
  <2>1. /\ PiecesOK(entries') /\ PieceIds(entries') = Cat(E, P) /\ drops' = drops
        /\ Dropped' = Dropped
    BY <1>2, <1>3, <1>7, Shipping DEF E, P
  <2>2. Whole(Cat(E, P), S, <<>>, G, Dropped, n)
    BY <1>3, <1>4, <1>5, StackedShipped, Zenon
  <2>3. QED
    BY <1>2, <1>3, <1>6, <1>7, <2>1, <2>2 DEF S
<1>8. ASSUME NEW reason \in Reasons, Drop(p, reason), stack' = Tail(stack),
             errs' \in 0..MaxErrors
      PROVE  IInv'
  <2>1. drops' \in [Reasons -> Nat] /\ Dropped' = Dropped + Len(P) /\ entries' = entries
    BY <1>2, <1>3, <1>8, Dropping, Zenon DEF P
  <2>2. Whole(E, S, <<>>, G, Dropped + Len(P), n)
    BY <1>3, <1>4, <1>5, StackedDropped, Zenon
  <2>3. QED
    BY <1>2, <1>3, <1>6, <1>8, <2>1, <2>2 DEF S, E
<1>9. ASSUME ~OutOfAttempts(d), Splittable(p), stack' = Halves(p, d) \o Tail(stack), Neither,
             errs' \in 0..MaxErrors
      PROVE  IInv'
  <2> DEFINE h == Halves(p, d)
             t == Tail(stack)
  <2>1. PiecesOK(h) /\ DepthsOK(h) /\ PieceIds(h) = P
    BY <1>3, <1>9, HalvesStacked DEF P
  <2>2. stack' = Cat(h, t)
    BY <1>9 DEF Cat
  <2>3. ToSet(stack') = ToSet(h) \cup ToSet(t)
    BY <1>3, <1>9, <2>1, SeqConcat DEF PiecesOK
  <2>4. DepthsOK(stack')
    BY <1>3, <2>1, <2>3 DEF DepthsOK
  <2> HIDE DEF h, t
  <2>5. PiecesOK(stack') /\ PieceIds(stack') = Cat(P, S)
    BY <1>3, <2>1, <2>2, PiecesCat DEF S, t
  <2>6. entries' = entries /\ drops' = drops /\ Dropped' = Dropped
    BY <1>9 DEF Neither, Dropped
  <2>7. QED
    BY <1>2, <1>5, <1>6, <1>9, <2>4, <2>5, <2>6 DEF E
<1>10. PICK r \in TryEncode(p) :
          /\ Encoded(p, r)
          /\ \/ r = "fit" /\ Ship(p) /\ stack' = Tail(stack)
             \/ r \in CodecErrors /\ Drop(p, r) /\ stack' = Tail(stack)
             \/ /\ r = "large" /\ OutOfAttempts(d)
                /\ Drop(p, "max_attempts") /\ stack' = Tail(stack)
             \/ /\ r = "large" /\ ~OutOfAttempts(d) /\ ~Splittable(p)
                /\ Drop(p, "irreducible") /\ stack' = Tail(stack)
             \/ /\ r = "large" /\ ~OutOfAttempts(d) /\ Splittable(p)
                /\ stack' = Halves(p, d) \o Tail(stack) /\ Neither
  BY DEF PackSplit
<1> HIDE DEF p, d
<1>11. errs' \in 0..MaxErrors
  BY <1>2, <1>10, ErrorsBounded
<1>12. "max_attempts" \in Reasons /\ "irreducible" \in Reasons /\ CodecErrors \subseteq Reasons
  BY DEF Reasons
<1>13. CASE Ship(p) /\ stack' = Tail(stack)
  BY <1>7, <1>11, <1>13
<1>14. CASE stack' = Tail(stack) /\ \E reason \in Reasons : Drop(p, reason)
  BY <1>8, <1>11, <1>14
<1>15. CASE ~OutOfAttempts(d) /\ Splittable(p) /\ stack' = Halves(p, d) \o Tail(stack) /\ Neither
  BY <1>9, <1>11, <1>15
<1>16. QED
  BY <1>10, <1>12, <1>13, <1>14, <1>15, Zenon

-----------------------------------------------------------------------------
(***************************************************************************)
(* The steps of groupByTags.                                               *)
(***************************************************************************)
LEMMA NothingDropped == ASSUME drops = [r \in Reasons |-> 0] PROVE Dropped = 0
BY DEF Dropped, Reasons, CodecErrors

\* A step of the loops, and their end.
LEMMA StillGrouping ==
  ASSUME IInv, at = "begin", tagHash, UNCHANGED <<input, at, packing>>,
         next' \in Cursors, CursorIn(batch, next'), GroupsOK(groups'),
         ResourceOnly(plan) => next'.unit = 1 /\ next'.item = 1,
         IsInjective(Cat(GroupIds(groups'), RestOf(batch, next'))),
         Len(Cat(GroupIds(groups'), RestOf(batch, next')))
           = Len(Cat(GroupIds(groups), RestOf(batch, next)))
  PROVE  IInv'
<1>1. /\ at' = "begin" /\ batch' = batch /\ plan' = plan /\ policies' = policies
      /\ left' = left /\ current' = current /\ stack' = stack
      /\ errs' = errs /\ entries' = entries /\ drops' = drops
  BY DEF input, packing
<1>2. Types /\ InputOK /\ Control /\ InputOK'
  BY InputStays DEF IInv
<1>3. Types'
  BY <1>1, <1>2 DEF Types
<1>4. Control'
  BY <1>1, <1>2 DEF Control, Idle
<1>5. Kept'
  <2>1. Len(Cat(GroupIds(groups), RestOf(batch, next))) = Len(Ids(batch))
    BY DEF IInv, Kept
  <2>2. QED
    BY <1>1, <2>1 DEF Kept
<1>6. QED
  BY <1>2, <1>3, <1>4, <1>5 DEF IInv

LEMMA GroupingDone ==
  ASSUME IInv, at = "begin", at' = "grouped", UNCHANGED <<input, next, packing>>,
         GroupsOK(groups'), IsInjective(GroupIds(groups')),
         Len(GroupIds(groups')) = Len(Ids(batch))
  PROVE  IInv'
<1> DEFINE n == Len(Ids(batch))
           G == GroupIds(groups')
<1>1. /\ batch' = batch /\ plan' = plan /\ policies' = policies /\ next' = next
      /\ left' = left /\ current' = current /\ stack' = stack
      /\ errs' = errs /\ entries' = entries /\ drops' = drops
  BY DEF input, packing
<1>2. Types /\ InputOK /\ Control /\ InputOK'
  BY InputStays DEF IInv
<1>3. entries = <<>> /\ drops = [r \in Reasons |-> 0] /\ current = NoPiece /\ stack = <<>>
  BY <1>2 DEF Control, Idle
<1>4. Types'
  BY <1>1, <1>2 DEF Types
<1>5. Control'
  BY <1>1, <1>2, <1>3 DEF Control, Idle
<1>6. Whole(<<>>, <<>>, <<>>, G, 0, n)
  <2>1. G \in Seq(Items) /\ IsInjective(G) /\ Len(G) = n
    BY GroupsCat
  <2> HIDE DEF G, n
  <2>2. Apart(<<>>, <<>>, <<>>, G)
    BY <2>1, NoneApart DEF Apart
  <2>3. Len(<<>>) + ((Len(<<>>) + Len(<<>>)) + Len(G)) + 0 = n
    BY <2>1, LenProperties
  <2>4. QED
    <3> DEFINE e == <<>>
               z == 0
    <3>1. G \in Seq(Items) /\ e \in Seq(Items) /\ z \in Nat
      BY <2>1, NoneApart
    <3>2. Apart(e, e, e, G) /\ Len(e) + ((Len(e) + Len(e)) + Len(G)) + z = n
      BY <2>2, <2>3
    <3> HIDE DEF e, z
    <3>3. Whole(e, e, e, G, z, n)
      BY <3>1, <3>2, WholeParts
    <3>4. QED
      BY <3>3 DEF e, z
<1>7. Kept'
  <2>1. PieceIds(entries') = <<>> /\ PieceIds(stack') = <<>> /\ Ids(current'.res) = <<>>
    BY <1>1, <1>3, PiecesNone, NoPieceOK
  <2>2. Dropped' = 0
    <3>1. Dropped' = Dropped
      BY <1>1 DEF Dropped
    <3>2. QED
      BY <1>3, <3>1, NothingDropped
  <2>3. Whole(PieceIds(entries'), PieceIds(stack'), Ids(current'.res), GroupIds(groups'),
              Dropped', Len(Ids(batch')))
    BY <1>1, <1>6, <2>1, <2>2
  <2>4. QED
    BY <2>3 DEF Kept
<1>8. QED
  BY <1>2, <1>4, <1>5, <1>7 DEF IInv

\* The state in which the loops are.
LEMMA Looping ==
  ASSUME IInv, at = "begin", tagHash
  PROVE  /\ BatchOK(batch) /\ next \in Cursors /\ CursorIn(batch, next) /\ GroupsOK(groups)
         /\ GroupIds(groups) \in Seq(Items) /\ RestOf(batch, next) \in Seq(Items)
         /\ ResourceOnly(plan) => next.unit = 1 /\ next.item = 1
         /\ IsInjective(Cat(GroupIds(groups), RestOf(batch, next)))
         /\ Len(Cat(GroupIds(groups), RestOf(batch, next))) = Len(Ids(batch))
<1>1. /\ BatchOK(batch) /\ next \in Cursors /\ CursorIn(batch, next) /\ GroupsOK(groups)
      /\ ResourceOnly(plan) => next.unit = 1 /\ next.item = 1
  BY DEF IInv, Types, InputOK, Control
<1>2. GroupIds(groups) \in Seq(Items) /\ RestOf(batch, next) \in Seq(Items)
  BY <1>1, GroupsCat, RestType
<1>3. /\ IsInjective(Cat(GroupIds(groups), RestOf(batch, next)))
      /\ Len(Cat(GroupIds(groups), RestOf(batch, next))) = Len(Ids(batch))
  BY DEF IInv, Kept
<1>4. QED
  BY <1>1, <1>2, <1>3

LEMMA GroupWholeKeeps == ASSUME IInv, GroupWhole PROVE IInv'
<1> DEFINE g == [key |-> <<>>, res |-> batch]
<1>1. at = "begin" /\ at' = "grouped" /\ UNCHANGED <<input, next, packing>> /\ groups' = <<g>>
  BY DEF GroupWhole
<1>2. BatchOK(batch) /\ IsInjective(Ids(batch))
  BY DEF IInv, InputOK
<1>3. GroupOK(g) /\ g.res = batch
  BY <1>2 DEF GroupOK
<1> HIDE DEF g
<1>4. GroupsOK(groups') /\ GroupIds(groups') = Ids(batch)
  BY <1>1, <1>3, GroupsOne
<1>5. QED
  BY <1>1, <1>2, <1>4, GroupingDone

LEMMA GroupingEndsKeeps == ASSUME IInv, GroupingEnds PROVE IInv'
<1>1. /\ at = "begin" /\ tagHash /\ at' = "grouped" /\ next.res > Len(batch)
      /\ UNCHANGED <<input, next, packing>> /\ groups' = groups
  BY DEF GroupingEnds
<1>2. RestOf(batch, next) = <<>>
  BY <1>1 DEF RestOf
<1>3. Cat(GroupIds(groups), <<>>) = GroupIds(groups)
  BY <1>1, Looping, CatEmpty
<1>4. /\ GroupsOK(groups') /\ IsInjective(GroupIds(groups'))
      /\ Len(GroupIds(groups')) = Len(Ids(batch))
  BY <1>1, <1>2, <1>3, Looping
<1>5. QED
  BY <1>1, <1>4, GroupingDone

LEMMA GroupResourceKeeps == ASSUME IInv, GroupResource PROVE IInv'
<1> DEFINE r == batch[next.res]
           m == IdsOfUnits(r.units)
<1>1. /\ at = "begin" /\ tagHash /\ ResourceOnly(plan) /\ next.res <= Len(batch)
      /\ groups' = AddResource(plan, groups, r) /\ next' = [next EXCEPT !.res = @ + 1]
      /\ UNCHANGED <<input, at, packing>>
  BY DEF GroupResource, Regrouping
<1>2. /\ BatchOK(batch) /\ next \in Cursors /\ CursorIn(batch, next) /\ GroupsOK(groups)
      /\ next.unit = 1 /\ next.item = 1
      /\ IsInjective(Cat(GroupIds(groups), RestOf(batch, next)))
  BY <1>1, Looping
<1>3. /\ next' \in Cursors /\ CursorIn(batch, next') /\ next'.unit = 1 /\ next'.item = 1
      /\ RestOf(batch, next) = Cat(m, RestOf(batch, next'))
  BY <1>1, <1>2, WholeResourcePassed
<1>4. ResourceOK(r) /\ m \in Seq(Items)
  <2>1. next.res \in 1..Len(batch)
    BY <1>1, <1>2, RestParts
  <2>2. QED
    BY <1>2, <2>1, Inside, UnitsCat
<1> HIDE DEF r, m
<1>5. GroupsOK(groups') /\ Inserted(GroupIds(groups), GroupIds(groups'), m)
  BY <1>1, <1>2, <1>4, ResourceAdded DEF m
<1>6. RestOf(batch, next') \in Seq(Items)
  BY <1>2, <1>3, RestType
<1>7. /\ IsInjective(Cat(GroupIds(groups'), RestOf(batch, next')))
      /\ Len(Cat(GroupIds(groups'), RestOf(batch, next')))
           = Len(Cat(GroupIds(groups), RestOf(batch, next)))
  BY <1>2, <1>3, <1>4, <1>5, <1>6, Moved
<1>8. QED
  BY <1>1, <1>3, <1>5, <1>7, StillGrouping

LEMMA GroupLeafKeeps == ASSUME IInv, GroupLeaf PROVE IInv'
<1> DEFINE r == batch[next.res]
           u == r.units[next.unit]
           x == u.items[next.item]
           m == <<x.id>>
<1>1. /\ at = "begin" /\ tagHash /\ ~ResourceOnly(plan) /\ next.res <= Len(batch)
      /\ next.unit <= Len(r.units) /\ next.item <= Len(u.items)
      /\ groups' = AddLeaf(plan, groups, r, u, x) /\ next' = [next EXCEPT !.item = @ + 1]
      /\ UNCHANGED <<input, at, packing>>
  BY DEF GroupLeaf, Regrouping, nextUnit, nextResource
<1>2. /\ BatchOK(batch) /\ next \in Cursors /\ CursorIn(batch, next) /\ GroupsOK(groups)
      /\ IsInjective(Cat(GroupIds(groups), RestOf(batch, next)))
  BY <1>1, Looping
<1>3. /\ next' \in Cursors /\ CursorIn(batch, next') /\ ItemOK(x)
      /\ RestOf(batch, next) = Cat(m, RestOf(batch, next'))
  BY <1>1, <1>2, ItemPassed, Zenon
<1>4. ResourceOK(r) /\ UnitOK(u)
  <2>1. next.res \in 1..Len(batch) /\ next.unit \in 1..Len(r.units)
    BY <1>1, <1>2, RestParts
  <2>2. QED
    BY <1>2, <2>1, Inside, Zenon
<1> HIDE DEF r, u, x
<1>5. m \in Seq(Items)
  BY <1>3 DEF ItemOK
<1>6. GroupsOK(groups') /\ Inserted(GroupIds(groups), GroupIds(groups'), m)
  BY <1>1, <1>2, <1>3, <1>4, LeafAdded
<1> HIDE DEF m
<1>7. RestOf(batch, next') \in Seq(Items)
  BY <1>2, <1>3, RestType
<1>8. /\ IsInjective(Cat(GroupIds(groups'), RestOf(batch, next')))
      /\ Len(Cat(GroupIds(groups'), RestOf(batch, next')))
           = Len(Cat(GroupIds(groups), RestOf(batch, next)))
  BY <1>2, <1>3, <1>5, <1>6, <1>7, Moved
<1>9. QED
  BY <1>1, <1>3, <1>6, <1>8, StillGrouping

LEMMA UnitEndsKeeps == ASSUME IInv, UnitEnds PROVE IInv'
<1> DEFINE r == batch[next.res]
           u == r.units[next.unit]
<1>1. /\ at = "begin" /\ tagHash /\ ~ResourceOnly(plan) /\ next.res <= Len(batch)
      /\ next.unit <= Len(r.units) /\ next.item > Len(u.items)
      /\ \/ groups' = AddShell(plan, groups, r, u)
         \/ groups' = groups
      /\ next' = [next EXCEPT !.unit = @ + 1, !.item = 1]
      /\ UNCHANGED <<input, at, packing>>
  BY DEF UnitEnds, Regrouping, nextUnit, nextResource
<1>2. /\ BatchOK(batch) /\ next \in Cursors /\ CursorIn(batch, next) /\ GroupsOK(groups)
      /\ IsInjective(Cat(GroupIds(groups), RestOf(batch, next)))
  BY <1>1, Looping
<1>3. /\ next' \in Cursors /\ CursorIn(batch, next')
      /\ RestOf(batch, next) = RestOf(batch, next')
  BY <1>1, <1>2, UnitPassed, Zenon
<1>4. ResourceOK(r) /\ UnitOK(u)
  <2>1. next.res \in 1..Len(batch) /\ next.unit \in 1..Len(r.units)
    BY <1>1, <1>2, RestParts
  <2>2. QED
    BY <1>2, <2>1, Inside, Zenon
<1> HIDE DEF r, u
<1>5. GroupsOK(groups') /\ GroupIds(groups') = GroupIds(groups)
  BY <1>1, <1>2, <1>4, ShellAdded
<1>6. QED
  BY <1>1, <1>2, <1>3, <1>5, StillGrouping

LEMMA ResourceEndsKeeps == ASSUME IInv, ResourceEnds PROVE IInv'
<1>1. /\ at = "begin" /\ tagHash /\ ~ResourceOnly(plan) /\ next.res <= Len(batch)
      /\ next.unit > Len(batch[next.res].units) /\ groups' = groups
      /\ next' = [res |-> next.res + 1, unit |-> 1, item |-> 1]
      /\ UNCHANGED <<input, at, packing>>
  BY DEF ResourceEnds, Regrouping, nextResource
<1>2. /\ BatchOK(batch) /\ next \in Cursors /\ CursorIn(batch, next) /\ GroupsOK(groups)
      /\ IsInjective(Cat(GroupIds(groups), RestOf(batch, next)))
  BY <1>1, Looping
<1>3. /\ next' \in Cursors /\ CursorIn(batch, next')
      /\ RestOf(batch, next) = RestOf(batch, next')
  BY <1>1, <1>2, ResourcePassed
<1>4. QED
  BY <1>1, <1>2, <1>3, StillGrouping

\* A numbered batch has no item twice.
LEMMA NumberedOnce ==
  ASSUME NEW b, BatchOK(b), Numbered(b)
  PROVE  IsInjective(Ids(b))
<1> DEFINE s == Ids(b)
           n == Len(s)
<1>1. s \in Seq(Items) /\ n \in Nat /\ DOMAIN s = 1..n /\ \A i \in 1..n : s[i] \in Items
  BY BatchCat, LenProperties, ElementOfSeq
<1>2. \A i, j \in DOMAIN s : i < j => s[i] < s[j]
  BY DEF Numbered
<1> HIDE DEF s, n
<1>3. ASSUME NEW i \in DOMAIN s, NEW j \in DOMAIN s, s[i] = s[j]
      PROVE  i = j
  <2>1. i \in 1..n /\ j \in 1..n /\ s[i] \in Int /\ s[j] \in Int
    BY <1>1, <1>3 DEF Items
  <2>2. ~(s[i] < s[j]) /\ ~(s[j] < s[i])
    BY <1>3, <2>1
  <2>3. ~(i < j) /\ ~(j < i)
    BY <1>2, <2>2
  <2>4. QED
    BY <1>1, <2>1, <2>3
<1>4. IsInjective(s)
  BY <1>3 DEF IsInjective
<1>5. QED
  BY <1>4 DEF s

LEMMA InitIInv == Init => IInv
<1> SUFFICES ASSUME Init PROVE IInv
  OBVIOUS
<1>1. PICK in \in Inputs : batch = in.batch /\ plan = in.plan /\ policies = in.policies
  BY DEF Init
<1>2. /\ next = [res |-> 1, unit |-> 1, item |-> 1] /\ groups = <<>>
      /\ current = NoPiece /\ left = <<>> /\ stack = <<>>
      /\ at = "begin" /\ errs = 0
      /\ entries = <<>> /\ drops = [r \in Reasons |-> 0]
  BY DEF Init
<1>3. BatchOK(batch) /\ Numbered(batch) /\ IsSeq(policies) /\ ValidChain(policies)
  BY <1>1, InputsAssumption
<1>4. InputOK
  BY <1>3, NumberedOnce DEF InputOK
<1>5. /\ next \in Cursors /\ next.res = 1 /\ next.unit = 1 /\ next.item = 1
  BY <1>2 DEF Cursors
<1>6. CursorIn(batch, next) /\ RestOf(batch, next) = Ids(batch)
  <2>1. 1 \in 1..(Len(batch) + 1)
    BY <1>3, Inside, FirstPlace
  <2>2. CursorIn(batch, next) /\ RestOf(batch, next) = BatchFrom(batch, 1)
    BY <1>3, <1>5, <2>1, Fresh
  <2>3. QED
    BY <1>3, <2>1, <2>2, BatchFromStep
<1>7. Types
  <2>1. errs \in 0..MaxErrors
    BY <1>2, BoundsAssumption
  <2>2. drops \in [Reasons -> Nat]
    BY <1>2
  <2>3. DepthsOK(stack)
    BY <1>2 DEF DepthsOK, ToSet
  <2>4. Suffix(left, policies)
    BY <1>2, <1>3, NothingLeft
  <2>5. QED
    BY <1>2, <1>5, <2>1, <2>2, <2>3, <2>4, GroupsNone, PiecesNone, NoPieceOK DEF Types
<1>8. Control
  BY <1>2, <1>5, <1>6 DEF Control, Idle
<1>9. Kept
  <2>1. Cat(GroupIds(groups), RestOf(batch, next)) = Ids(batch)
    <3>1. GroupIds(groups) = <<>> /\ Ids(batch) \in Seq(Items)
      BY <1>2, <1>3, GroupsNone, BatchCat
    <3>2. QED
      BY <1>6, <3>1, CatEmpty
  <2>2. QED
    BY <1>2, <1>4, <2>1 DEF Kept, InputOK
<1>10. QED
  BY <1>4, <1>7, <1>8, <1>9 DEF IInv

LEMMA Unchanged == ASSUME IInv, UNCHANGED vars PROVE IInv'
<1>1. /\ UNCHANGED input /\ batch' = batch /\ plan' = plan /\ policies' = policies
      /\ next' = next /\ groups' = groups /\ at' = at
      /\ left' = left /\ current' = current /\ stack' = stack
      /\ errs' = errs /\ entries' = entries /\ drops' = drops
  BY DEF vars, input
<1>2. Types' /\ InputOK'
  BY <1>1, InputStays DEF IInv, Types
<1>3. tagHash' = tagHash /\ Dropped' = Dropped
  BY <1>1 DEF tagHash, Dropped
<1>4. Control'
  BY <1>1, <1>3 DEF IInv, Control, Idle
<1>5. Kept'
  BY <1>1, <1>3 DEF IInv, Kept
<1>6. QED
  BY <1>2, <1>4, <1>5 DEF IInv

\* Every item is somewhere, exactly once, at every step of emit: before groupByTags
\* has reached it, in its group, in the piece packChain or packSplit has in hand,
\* in a record, or in a drop count.
THEOREM Invariance == Spec => []IInv
<1>1. Init => IInv
  BY InitIInv
<1>2. ASSUME IInv, [Next]_vars
      PROVE  IInv'
  <2>1. CASE GroupWhole \/ GroupResource \/ GroupLeaf \/ UnitEnds \/ ResourceEnds \/ GroupingEnds
    BY <1>2, <2>1, GroupWholeKeeps, GroupResourceKeeps, GroupLeafKeeps, UnitEndsKeeps,
       ResourceEndsKeeps, GroupingEndsKeeps
  <2>2. CASE TakeGroup \/ FirstTry \/ Truncate \/ StartSplit \/ Reject \/ Exhausted
    BY <1>2, <2>2, TakeGroupKeeps, FirstTryKeeps, TruncateKeeps, StartSplitKeeps, RejectKeeps
  <2>3. CASE PackSplit \/ SplitEnds \/ Flush \/ UNCHANGED vars
    BY <1>2, <2>3, PackSplitKeeps, SplitEndsKeeps, FlushKeeps, Unchanged
  <2>4. QED
    BY <1>2, <2>1, <2>2, <2>3 DEF Next
<1>3. QED
  BY <1>1, <1>2, PTL DEF Spec

\* Type correctness: whatever is grouped, truncated, halved and shipped is a batch,
\* and the recursion of packSplit stays within max_attempts.
THEOREM TypeCorrect == Spec => []TypeOK
<1>1. IInv => TypeOK
  <2>1. SUFFICES ASSUME IInv PROVE TypeOK
    OBVIOUS
  <2>2. Types
    BY <2>1 DEF IInv
  <2>3. /\ IsSeq(stack)
        /\ \A c \in ToSet(stack) : PieceOK(c.piece) /\ c.depth \in 0..MaxAttempts
    BY <2>2 DEF Types, PiecesOK, DepthsOK
  <2>4. QED
    BY <2>2, <2>3 DEF Types, TypeOK, Cursors, GroupsOK, PiecesOK, Suffix
<1>2. QED
  BY <1>1, Invariance, PTL

\* No item is in two records, and the items that are shipped, pending and counted
\* as dropped are those of the batch, for every batch, key plan, chain of
\* policies and limit (emit, packChain, packSplit, splitHalf, drops.merge).
THEOREM EveryItemAccounted == Spec => []Accounted
<1>1. IInv => Accounted
  <2>1. SUFFICES ASSUME IInv, at # "begin"
                 PROVE  /\ IsInjective(Shipped \o Pending)
                        /\ Len(Shipped) + Len(Pending) + Dropped = Len(Ids(batch))
    BY DEF Accounted
  <2>2. Shipped = PieceIds(entries)
    BY DEF Shipped, PieceIds
  <2>3. Pending = Cat(Cat(PieceIds(stack), Ids(current.res)), GroupIds(groups))
    BY DEF Pending, PieceIds, GroupIds, Cat
  <2>4. Whole(PieceIds(entries), PieceIds(stack), Ids(current.res), GroupIds(groups),
              Dropped, Len(Ids(batch)))
    BY <2>1 DEF IInv, Kept
  <2>5. /\ IsInjective(Cat(Shipped, Pending))
        /\ Len(Shipped) + Len(Pending) + Dropped = Len(Ids(batch))
    BY <2>2, <2>3, <2>4 DEF Whole
  <2>6. QED
    BY <2>5 DEF Cat
<1>2. QED
  BY <1>1, Invariance, PTL
=============================================================================
