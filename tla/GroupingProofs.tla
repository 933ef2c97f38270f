--------------------------- MODULE GroupingProofs ---------------------------
(***************************************************************************)
(* Proofs about what groupByTags builds and about the keys and the order   *)
(* of what is packed, for batches and key plans of any size.               *)
(***************************************************************************)
EXTENDS OversizeProofs

-----------------------------------------------------------------------------
(***************************************************************************)
(* Order.                                                                  *)
(***************************************************************************)
\* Every two elements of s, in their order, are related by O.
OrderedBy(O, s) == \A m, n \in DOMAIN s : m < n => <<s[m], s[n]>> \in O

\* Every element of S is related by O to every element of T.
AllBefore(O, S, T) == \A x \in S, y \in T : <<x, y>> \in O

LEMMA OrderedConcat ==
  ASSUME NEW U, NEW O, NEW s \in Seq(U), NEW t \in Seq(U)
  PROVE  OrderedBy(O, s \o t) <=> /\ OrderedBy(O, s) /\ OrderedBy(O, t)
                                  /\ AllBefore(O, ToSet(s), ToSet(t))
<1> DEFINE r == s \o t
           m == Len(s)
           n == Len(t)
<1>1. /\ m \in Nat /\ n \in Nat /\ DOMAIN s = 1..m /\ DOMAIN t = 1..n
      /\ DOMAIN r = 1..(m + n)
      /\ \A i \in 1..(m + n) : r[i] = IF i <= m THEN s[i] ELSE t[i - m]
  BY ConcatProperties, LenProperties
<1> HIDE DEF r, m, n
<1>2. \A i \in 1..m : i \in 1..(m + n) /\ r[i] = s[i]
  BY <1>1
<1>3. \A j \in 1..n : m + j \in 1..(m + n) /\ r[m + j] = t[j]
  <2>1. \A j \in 1..n : m + j \in 1..(m + n) /\ ~(m + j <= m) /\ (m + j) - m = j
    BY <1>1
  <2>2. QED
    BY <1>1, <2>1
<1>4. /\ ToSet(s) = {s[i] : i \in 1..m} /\ ToSet(t) = {t[i] : i \in 1..n}
  BY <1>1 DEF ToSet
<1>5. ASSUME OrderedBy(O, r)
      PROVE  OrderedBy(O, s) /\ OrderedBy(O, t) /\ AllBefore(O, ToSet(s), ToSet(t))
  <2>0. \A i, j \in 1..(m + n) : i < j => <<r[i], r[j]>> \in O
    BY <1>1, <1>5, Zenon DEF OrderedBy
  <2>1. OrderedBy(O, s)
    BY <1>1, <1>2, <2>0 DEF OrderedBy
  <2>2. OrderedBy(O, t)
    <3>1. \A i, j \in 1..n : i < j => m + i < m + j
      BY <1>1
    <3>2. QED
      BY <1>1, <1>3, <2>0, <3>1 DEF OrderedBy
  <2>3. \A i \in 1..m, j \in 1..n : <<s[i], t[j]>> \in O
    <3>1. \A i \in 1..m, j \in 1..n : i < m + j
      BY <1>1
    <3>2. QED
      BY <1>2, <1>3, <2>0, <3>1
  <2>4. QED
    BY <1>4, <2>1, <2>2, <2>3 DEF AllBefore
<1>6. ASSUME OrderedBy(O, s), OrderedBy(O, t), AllBefore(O, ToSet(s), ToSet(t))
      PROVE  OrderedBy(O, r)
  <2>1. /\ \A i, j \in 1..m : i < j => <<s[i], s[j]>> \in O
        /\ \A i, j \in 1..n : i < j => <<t[i], t[j]>> \in O
        /\ \A i \in 1..m, j \in 1..n : <<s[i], t[j]>> \in O
    BY <1>1, <1>4, <1>6, Zenon DEF OrderedBy, AllBefore
  <2>2. ASSUME NEW i \in 1..(m + n), NEW j \in 1..(m + n), i < j
        PROVE  <<r[i], r[j]>> \in O
    <3>1. CASE j <= m
      <4>1. i \in 1..m /\ j \in 1..m
        BY <1>1, <2>2, <3>1
      <4>2. QED
        BY <1>2, <2>1, <2>2, <4>1
    <3>2. CASE i <= m /\ ~(j <= m)
      <4>1. i \in 1..m /\ j - m \in 1..n
        BY <1>1, <2>2, <3>2
      <4>2. r[i] = s[i] /\ r[j] = t[j - m]
        BY <1>1, <3>2
      <4>3. QED
        BY <2>1, <4>1, <4>2
    <3>3. CASE ~(i <= m) /\ ~(j <= m)
      <4>1. i - m \in 1..n /\ j - m \in 1..n /\ i - m < j - m
        BY <1>1, <2>2, <3>3
      <4>2. r[i] = t[i - m] /\ r[j] = t[j - m]
        BY <1>1, <3>3
      <4>3. QED
        BY <2>1, <4>1, <4>2
    <3>4. QED
      BY <1>1, <2>2, <3>1, <3>2, <3>3
  <2>3. QED
    BY <1>1, <2>2 DEF OrderedBy
<1>7. QED
  BY <1>5, <1>6 DEF r

LEMMA OrderedCat ==
  ASSUME NEW U, NEW O, NEW s \in Seq(U), NEW t \in Seq(U)
  PROVE  OrderedBy(O, Cat(s, t)) <=> /\ OrderedBy(O, s) /\ OrderedBy(O, t)
                                     /\ AllBefore(O, ToSet(s), ToSet(t))
BY OrderedConcat DEF Cat

\* What a prefix of rows holds, and when it is ordered.
RowsUpTo(ss, k) == UNION {ToSet(ss[i]) : i \in 1..k}
RowsOrdered(O, ss, k) ==
  /\ \A i \in 1..k : OrderedBy(O, ss[i])
  /\ \A i, j \in 1..k : i < j => AllBefore(O, ToSet(ss[i]), ToSet(ss[j]))

LEMMA FlattenPrefix ==
  ASSUME NEW U, NEW O, NEW ss \in Seq(Seq(U)), NEW k \in 0..Len(ss)
  PROVE  /\ ToSet(FlattenSeq(SubSeq(ss, 1, k))) = RowsUpTo(ss, k)
         /\ OrderedBy(O, FlattenSeq(SubSeq(ss, 1, k))) <=> RowsOrdered(O, ss, k)
<1> DEFINE n == Len(ss)
           P(j) == SubSeq(ss, 1, j)
           Right(j) == /\ ToSet(FlattenSeq(P(j))) = RowsUpTo(ss, j)
                       /\ OrderedBy(O, FlattenSeq(P(j))) <=> RowsOrdered(O, ss, j)
           Bad == {j \in 0..n : ~Right(j)}
<1>0. n \in Nat /\ \A i \in 1..n : ss[i] \in Seq(U)
  BY LenProperties, ElementOfSeq
<1>1. SUFFICES ASSUME Bad # {} PROVE FALSE
  OBVIOUS
<1>2. PICK j \in Bad : \A i \in Bad : j <= i
  <2>1. Bad \in SUBSET Nat
    BY <1>0
  <2> HIDE DEF Bad
  <2>2. QED
    BY <1>1, <2>1, LeastNatural, Zenon
<1>3. j \in 0..n /\ ~Right(j)
  OBVIOUS
<1>4. CASE j = 0
  <2>1. P(j) = <<>>
    BY <1>4, SubSeqEmpty
  <2>2. FlattenSeq(P(j)) = <<>>
    BY <2>1, FlattenEmpty, Zenon
  <2>3. ToSet(<<>>) = {} /\ OrderedBy(O, <<>>)
    BY DEF ToSet, OrderedBy
  <2>4. 1..j = {}
    BY <1>4
  <2>5. RowsUpTo(ss, j) = {} /\ RowsOrdered(O, ss, j)
    BY <2>4 DEF RowsUpTo, RowsOrdered
  <2>6. QED
    BY <1>3, <2>2, <2>3, <2>5
<1>5. CASE j # 0
  <2> DEFINE q == P(j - 1)
             s == ss[j]
             f == FlattenSeq(q)
  <2>1. q \in Seq(Seq(U)) /\ s \in Seq(U) /\ P(j) = Append(q, s)
    BY <1>3, <1>5, PrefixGrows
  <2>2. Right(j - 1)
    <3>1. j - 1 \in 0..n /\ ~(j <= j - 1)
      BY <1>0, <1>3, <1>5
    <3>2. j - 1 \notin Bad
      <4> HIDE DEF Bad
      <4>1. QED
        BY <1>2, <3>1
    <3>3. QED
      BY <3>1, <3>2
  <2>3. FlattenSeq(P(j)) = f \o s /\ f \in Seq(U)
    <3> HIDE DEF q, s, P
    <3>1. FlattenSeq(Append(q, s)) = FlattenSeq(q) \o s
      BY <2>1, FlattenAppend
    <3>2. FlattenSeq(q) \in Seq(U)
      BY <2>1, FlattenType
    <3>3. QED
      BY <2>1, <3>1, <3>2
  <2>4. /\ ToSet(f) = RowsUpTo(ss, j - 1)
        /\ OrderedBy(O, f) <=> RowsOrdered(O, ss, j - 1)
    BY <2>2
  <2> HIDE DEF f, q, P
  <2>5. /\ ToSet(f \o s) = ToSet(f) \cup ToSet(s)
        /\ OrderedBy(O, f \o s) <=> /\ OrderedBy(O, f) /\ OrderedBy(O, s)
                                    /\ AllBefore(O, ToSet(f), ToSet(s))
    <3> HIDE DEF s
    <3>1. QED
      BY <2>1, <2>3, Joined, OrderedConcat
  <2>6. /\ \A i \in 1..j : i \in 1..(j - 1) \/ i = j
        /\ \A i \in 1..(j - 1) : i \in 1..j /\ i < j
        /\ j \in 1..j /\ ~(j < j)
        /\ \A i \in 1..(j - 1) : ~(j < i)
    BY <1>0, <1>3, <1>5
  <2>7. RowsUpTo(ss, j) = RowsUpTo(ss, j - 1) \cup ToSet(s)
    BY <2>6, Zenon DEF RowsUpTo
  <2>8. RowsOrdered(O, ss, j) <=> /\ RowsOrdered(O, ss, j - 1) /\ OrderedBy(O, s)
                                  /\ AllBefore(O, RowsUpTo(ss, j - 1), ToSet(s))
    <3>1. AllBefore(O, RowsUpTo(ss, j - 1), ToSet(s))
            <=> \A i \in 1..(j - 1) : AllBefore(O, ToSet(ss[i]), ToSet(s))
      BY Zenon DEF AllBefore, RowsUpTo
    <3>2. QED
      BY <2>6, <3>1, Zenon DEF RowsOrdered
  <2>9. QED
    BY <1>3, <2>3, <2>4, <2>5, <2>7, <2>8, Zenon DEF P
<1>6. QED
  BY <1>4, <1>5

\* What a flattened sequence holds, and when it is ordered.
LEMMA FlattenOrdered ==
  ASSUME NEW U, NEW O, NEW ss \in Seq(Seq(U))
  PROVE  /\ ToSet(FlattenSeq(ss)) = RowsUpTo(ss, Len(ss))
         /\ OrderedBy(O, FlattenSeq(ss)) <=> RowsOrdered(O, ss, Len(ss))
<1>1. Len(ss) \in 0..Len(ss) /\ SubSeq(ss, 1, Len(ss)) = ss
  BY LenProperties, SubSeqFull
<1>2. QED
  BY <1>1, FlattenPrefix, Zenon

\* The same for what f gives to the elements of a sequence.
LEMMA FlatOrdered ==
  ASSUME NEW U, NEW O, NEW S, NEW f, \A x \in S : f[x] \in Seq(U), NEW s \in Seq(S)
  PROVE  /\ ToSet(Flat(f, s)) = UNION {ToSet(f[s[i]]) : i \in 1..Len(s)}
         /\ OrderedBy(O, Flat(f, s)) <=>
              /\ \A i \in 1..Len(s) : OrderedBy(O, f[s[i]])
              /\ \A i, j \in 1..Len(s) :
                   i < j => AllBefore(O, ToSet(f[s[i]]), ToSet(f[s[j]]))
<1> DEFINE r == Rows(f, s)
<1>1. r \in Seq(Seq(U)) /\ Len(r) = Len(s)
  <2> DEFINE T == Seq(U)
  <2>1. \A x \in S : f[x] \in T
    OBVIOUS
  <2> HIDE DEF T
  <2>2. Rows(f, s) \in Seq(T)
    BY <2>1, RowsType, Zenon
  <2>3. Len(Rows(f, s)) = Len(s)
    BY RowsLength, Zenon
  <2>4. QED
    BY <2>2, <2>3 DEF T
<1>2. \A i \in 1..Len(s) : r[i] = f[s[i]]
  BY LenProperties DEF Rows
<1> HIDE DEF r
<1>3. /\ ToSet(FlattenSeq(r)) = RowsUpTo(r, Len(r))
      /\ OrderedBy(O, FlattenSeq(r)) <=> RowsOrdered(O, r, Len(r))
  BY <1>1, FlattenOrdered
<1>4. RowsUpTo(r, Len(r)) = UNION {ToSet(f[s[i]]) : i \in 1..Len(s)}
  BY <1>1, <1>2, Zenon DEF RowsUpTo
<1>5. RowsOrdered(O, r, Len(r)) <=>
        /\ \A i \in 1..Len(s) : OrderedBy(O, f[s[i]])
        /\ \A i, j \in 1..Len(s) :
             i < j => AllBefore(O, ToSet(f[s[i]]), ToSet(f[s[j]]))
  <2>1. /\ (\A i \in 1..Len(s) : OrderedBy(O, r[i]))
             <=> (\A i \in 1..Len(s) : OrderedBy(O, f[s[i]]))
        /\ (\A i, j \in 1..Len(s) : i < j => AllBefore(O, ToSet(r[i]), ToSet(r[j])))
             <=> (\A i, j \in 1..Len(s) :
                    i < j => AllBefore(O, ToSet(f[s[i]]), ToSet(f[s[j]])))
    BY <1>2, Zenon
  <2>2. QED
    BY <1>1, <2>1, Zenon DEF RowsOrdered
<1>6. Flat(f, s) = FlattenSeq(r)
  BY DEF Flat, r
<1>7. QED
  BY <1>3, <1>4, <1>5, <1>6

\* The ids of items, units, batches and groups: what they are, and their order.
LEMMA ItemsOrdered ==
  ASSUME NEW O, NEW s, ItemsOK(s)
  PROVE  /\ ToSet(IdsOf(s)) = {s[n].id : n \in 1..Len(s)}
         /\ OrderedBy(O, IdsOf(s)) <=>
              \A m, n \in 1..Len(s) : m < n => <<s[m].id, s[n].id>> \in O
<1>1. DOMAIN s = 1..Len(s)
  BY SeqFacts DEF ItemsOK
<1>2. DOMAIN IdsOf(s) = 1..Len(s) /\ \A n \in 1..Len(s) : IdsOf(s)[n] = s[n].id
  BY <1>1 DEF IdsOf
<1>3. QED
  BY <1>2 DEF ToSet, OrderedBy

LEMMA UnitsOrdered ==
  ASSUME NEW O, NEW us, UnitsOK(us)
  PROVE  /\ ToSet(IdsOfUnits(us)) = UNION {ToSet(IdsOf(us[k].items)) : k \in 1..Len(us)}
         /\ OrderedBy(O, IdsOfUnits(us)) <=>
              /\ \A k \in 1..Len(us) : OrderedBy(O, IdsOf(us[k].items))
              /\ \A j, k \in 1..Len(us) : j < k =>
                   AllBefore(O, ToSet(IdsOf(us[j].items)), ToSet(IdsOf(us[k].items)))
<1> DEFINE S == ToSet(us)
           f == [u \in S |-> IdsOf(u.items)]
<1>1. us \in Seq(S) /\ DOMAIN us = 1..Len(us) /\ \A k \in 1..Len(us) : us[k] \in S
  BY SeqFacts, IsElement DEF UnitsOK, IsSeq
<1>2. \A u \in S : f[u] \in Seq(Items)
  BY ItemIds DEF UnitsOK, UnitOK
<1>3. \A k \in 1..Len(us) : f[us[k]] = IdsOf(us[k].items)
  BY <1>1
<1>4. IdsOfUnits(us) = Flat(f, us)
  <2>1. Rows(f, us) = [k \in DOMAIN us |-> IdsOf(us[k].items)]
    BY <1>1, <1>3 DEF Rows
  <2>2. QED
    BY <2>1 DEF IdsOfUnits, Flat
<1> HIDE DEF S, f
<1>5. /\ ToSet(Flat(f, us)) = UNION {ToSet(f[us[i]]) : i \in 1..Len(us)}
      /\ OrderedBy(O, Flat(f, us)) <=>
           /\ \A i \in 1..Len(us) : OrderedBy(O, f[us[i]])
           /\ \A i, j \in 1..Len(us) :
                i < j => AllBefore(O, ToSet(f[us[i]]), ToSet(f[us[j]]))
  BY <1>1, <1>2, FlatOrdered, Zenon
<1>6. /\ (\A k \in 1..Len(us) : OrderedBy(O, f[us[k]]))
           <=> (\A k \in 1..Len(us) : OrderedBy(O, IdsOf(us[k].items)))
      /\ (\A j, k \in 1..Len(us) : j < k => AllBefore(O, ToSet(f[us[j]]), ToSet(f[us[k]])))
           <=> (\A j, k \in 1..Len(us) : j < k =>
                  AllBefore(O, ToSet(IdsOf(us[j].items)), ToSet(IdsOf(us[k].items))))
  BY <1>3, Zenon
<1>7. UNION {ToSet(f[us[i]]) : i \in 1..Len(us)}
        = UNION {ToSet(IdsOf(us[k].items)) : k \in 1..Len(us)}
  BY <1>3
<1>8. QED
  BY <1>4, <1>5, <1>6, <1>7, Zenon

LEMMA BatchOrdered ==
  ASSUME NEW O, NEW b, BatchOK(b)
  PROVE  /\ ToSet(Ids(b)) = UNION {ToSet(IdsOfUnits(b[a].units)) : a \in 1..Len(b)}
         /\ OrderedBy(O, Ids(b)) <=>
              /\ \A a \in 1..Len(b) : OrderedBy(O, IdsOfUnits(b[a].units))
              /\ \A a, c \in 1..Len(b) : a < c =>
                   AllBefore(O, ToSet(IdsOfUnits(b[a].units)), ToSet(IdsOfUnits(b[c].units)))
<1> DEFINE S == ToSet(b)
           f == [r \in S |-> IdsOfUnits(r.units)]
<1>1. b \in Seq(S) /\ DOMAIN b = 1..Len(b) /\ \A k \in 1..Len(b) : b[k] \in S
  BY SeqFacts, IsElement DEF BatchOK, IsSeq
<1>2. \A r \in S : f[r] \in Seq(Items)
  BY UnitsCat DEF BatchOK, ResourceOK
<1>3. \A k \in 1..Len(b) : f[b[k]] = IdsOfUnits(b[k].units)
  BY <1>1
<1>4. Ids(b) = Flat(f, b)
  <2>1. Rows(f, b) = [k \in DOMAIN b |-> IdsOfUnits(b[k].units)]
    BY <1>1, <1>3 DEF Rows
  <2>2. QED
    BY <2>1 DEF Ids, Flat
<1> HIDE DEF S, f
<1>5. /\ ToSet(Flat(f, b)) = UNION {ToSet(f[b[i]]) : i \in 1..Len(b)}
      /\ OrderedBy(O, Flat(f, b)) <=>
           /\ \A i \in 1..Len(b) : OrderedBy(O, f[b[i]])
           /\ \A i, j \in 1..Len(b) :
                i < j => AllBefore(O, ToSet(f[b[i]]), ToSet(f[b[j]]))
  BY <1>1, <1>2, FlatOrdered, Zenon
<1>6. /\ (\A k \in 1..Len(b) : OrderedBy(O, f[b[k]]))
           <=> (\A k \in 1..Len(b) : OrderedBy(O, IdsOfUnits(b[k].units)))
      /\ (\A j, k \in 1..Len(b) : j < k => AllBefore(O, ToSet(f[b[j]]), ToSet(f[b[k]])))
           <=> (\A j, k \in 1..Len(b) : j < k =>
                  AllBefore(O, ToSet(IdsOfUnits(b[j].units)), ToSet(IdsOfUnits(b[k].units))))
  BY <1>3, Zenon
<1>7. UNION {ToSet(f[b[i]]) : i \in 1..Len(b)}
        = UNION {ToSet(IdsOfUnits(b[a].units)) : a \in 1..Len(b)}
  BY <1>3
<1>8. QED
  BY <1>4, <1>5, <1>6, <1>7, Zenon

LEMMA GroupsOrdered ==
  ASSUME NEW O, NEW gs, GroupsOK(gs)
  PROVE  /\ ToSet(GroupIds(gs)) = UNION {ToSet(Ids(gs[g].res)) : g \in 1..Len(gs)}
         /\ OrderedBy(O, GroupIds(gs)) <=>
              /\ \A g \in 1..Len(gs) : OrderedBy(O, Ids(gs[g].res))
              /\ \A g, h \in 1..Len(gs) : g < h =>
                   AllBefore(O, ToSet(Ids(gs[g].res)), ToSet(Ids(gs[h].res)))
<1> DEFINE S == ToSet(gs)
           f == [g \in S |-> Ids(g.res)]
<1>1. gs \in Seq(S) /\ DOMAIN gs = 1..Len(gs) /\ \A k \in 1..Len(gs) : gs[k] \in S
  BY SeqFacts, IsElement DEF GroupsOK, IsSeq
<1>2. \A g \in S : f[g] \in Seq(Items)
  BY BatchCat DEF GroupsOK, GroupOK
<1>3. \A k \in 1..Len(gs) : f[gs[k]] = Ids(gs[k].res)
  BY <1>1
<1>4. GroupIds(gs) = Flat(f, gs)
  <2>1. Rows(f, gs) = [k \in DOMAIN gs |-> Ids(gs[k].res)]
    BY <1>1, <1>3 DEF Rows
  <2>2. QED
    BY <2>1 DEF GroupIds, Flat
<1> HIDE DEF S, f
<1>5. /\ ToSet(Flat(f, gs)) = UNION {ToSet(f[gs[i]]) : i \in 1..Len(gs)}
      /\ OrderedBy(O, Flat(f, gs)) <=>
           /\ \A i \in 1..Len(gs) : OrderedBy(O, f[gs[i]])
           /\ \A i, j \in 1..Len(gs) :
                i < j => AllBefore(O, ToSet(f[gs[i]]), ToSet(f[gs[j]]))
  BY <1>1, <1>2, FlatOrdered, Zenon
<1>6. /\ (\A k \in 1..Len(gs) : OrderedBy(O, f[gs[k]]))
           <=> (\A k \in 1..Len(gs) : OrderedBy(O, Ids(gs[k].res)))
      /\ (\A j, k \in 1..Len(gs) : j < k => AllBefore(O, ToSet(f[gs[j]]), ToSet(f[gs[k]])))
           <=> (\A j, k \in 1..Len(gs) : j < k =>
                  AllBefore(O, ToSet(Ids(gs[j].res)), ToSet(Ids(gs[k].res))))
  BY <1>3, Zenon
<1>7. UNION {ToSet(f[gs[i]]) : i \in 1..Len(gs)}
        = UNION {ToSet(Ids(gs[g].res)) : g \in 1..Len(gs)}
  BY <1>3
<1>8. QED
  BY <1>4, <1>5, <1>6, <1>7, Zenon

\* Item x is at a place of batch b.
IsAt(b, a, k, n) ==
  a \in 1..Len(b) /\ k \in 1..Len(b[a].units) /\ n \in 1..Len(b[a].units[k].items)

ItemAt(b, a, k, n) == b[a].units[k].items[n]

\* The places of a batch in their order.
PlaceBefore(a, k, n, aa, kk, nn) ==
  a < aa \/ (a = aa /\ (k < kk \/ (k = kk /\ n < nn)))

\* The ids of a batch by place.
LEMMA IdsByPlace ==
  ASSUME NEW b, BatchOK(b)
  PROVE  /\ \A a, k, n : IsAt(b, a, k, n) =>
              /\ ItemAt(b, a, k, n).id \in ToSet(Ids(b)) /\ ItemOK(ItemAt(b, a, k, n))
              /\ ItemAt(b, a, k, n).id \in ToSet(Ids(<<b[a]>>))
         /\ \A i \in ToSet(Ids(b)) :
              \E a, k, n : IsAt(b, a, k, n) /\ ItemAt(b, a, k, n).id = i
<1>1. \A a \in 1..Len(b) : \A k \in 1..Len(b[a].units) :
         /\ UnitsOK(b[a].units) /\ ItemsOK(b[a].units[k].items) /\ ResourceOK(b[a])
  BY Inside, Zenon
<1>2. ToSet(Ids(b)) = UNION {ToSet(IdsOfUnits(b[a].units)) : a \in 1..Len(b)}
  BY BatchOrdered, Zenon
<1>3. \A a \in 1..Len(b) :
        ToSet(IdsOfUnits(b[a].units))
          = UNION {ToSet(IdsOf(b[a].units[k].items)) : k \in 1..Len(b[a].units)}
  BY Inside, UnitsOrdered, Zenon
<1>4. \A a \in 1..Len(b) : \A k \in 1..Len(b[a].units) :
        ToSet(IdsOf(b[a].units[k].items))
          = {b[a].units[k].items[n].id : n \in 1..Len(b[a].units[k].items)}
  BY <1>1, ItemsOrdered, Zenon
<1>5. ASSUME NEW a, NEW k, NEW n, IsAt(b, a, k, n)
      PROVE  /\ ItemAt(b, a, k, n).id \in ToSet(Ids(b)) /\ ItemOK(ItemAt(b, a, k, n))
             /\ ItemAt(b, a, k, n).id \in ToSet(Ids(<<b[a]>>))
  <2>1. ItemAt(b, a, k, n).id \in ToSet(IdsOf(b[a].units[k].items))
    BY <1>4, <1>5, Zenon DEF IsAt, ItemAt
  <2>2. ItemAt(b, a, k, n).id \in ToSet(IdsOfUnits(b[a].units))
    BY <1>3, <1>5, <2>1, Zenon DEF IsAt
  <2>3. Ids(<<b[a]>>) = IdsOfUnits(b[a].units)
    BY <1>1, <1>5, Inside, BatchOne DEF IsAt
  <2>4. ItemOK(ItemAt(b, a, k, n))
    BY <1>1, <1>5, IsElement DEF IsAt, ItemAt, ItemsOK
  <2>5. QED
    BY <1>2, <1>5, <2>2, <2>3, <2>4 DEF IsAt
<1>6. ASSUME NEW i \in ToSet(Ids(b))
      PROVE  \E a, k, n : IsAt(b, a, k, n) /\ ItemAt(b, a, k, n).id = i
  <2>1. PICK a \in 1..Len(b) : i \in ToSet(IdsOfUnits(b[a].units))
    BY <1>2
  <2>2. PICK k \in 1..Len(b[a].units) : i \in ToSet(IdsOf(b[a].units[k].items))
    <3>1. i \in UNION {ToSet(IdsOf(b[a].units[k].items)) : k \in 1..Len(b[a].units)}
      BY <1>3, <2>1
    <3>2. QED
      BY <3>1
  <2>3. PICK n \in 1..Len(b[a].units[k].items) : i = b[a].units[k].items[n].id
    BY <1>4, <2>2, Zenon
  <2>4. QED
    BY <2>3, Zenon DEF IsAt, ItemAt
<1>7. QED
  BY <1>5, <1>6

LEMMA OrderByPlace ==
  ASSUME NEW O, NEW b, BatchOK(b)
  PROVE  OrderedBy(O, Ids(b)) <=>
           \A a, k, n, aa, kk, nn :
             IsAt(b, a, k, n) /\ IsAt(b, aa, kk, nn) /\ PlaceBefore(a, k, n, aa, kk, nn)
               => <<ItemAt(b, a, k, n).id, ItemAt(b, aa, kk, nn).id>> \in O
<1> DEFINE I(a) == ToSet(IdsOfUnits(b[a].units))
           J(a, k) == ToSet(IdsOf(b[a].units[k].items))
           U(a) == 1..Len(b[a].units)
           X(a, k) == 1..Len(b[a].units[k].items)
           B == 1..Len(b)
<1>0. /\ B \in SUBSET Int /\ \A a \in B : U(a) \in SUBSET Int
      /\ \A a \in B : \A k \in U(a) : X(a, k) \in SUBSET Int
  OBVIOUS
<1>1. OrderedBy(O, Ids(b)) <=>
        /\ \A a \in B : OrderedBy(O, IdsOfUnits(b[a].units))
        /\ \A a, c \in B : a < c => AllBefore(O, I(a), I(c))
  BY BatchOrdered
<1>2. \A a \in B :
        /\ I(a) = UNION {J(a, k) : k \in U(a)}
        /\ OrderedBy(O, IdsOfUnits(b[a].units)) <=>
             /\ \A k \in U(a) : OrderedBy(O, IdsOf(b[a].units[k].items))
             /\ \A j, k \in U(a) : j < k => AllBefore(O, J(a, j), J(a, k))
  BY Inside, UnitsOrdered, Zenon
<1>3. \A a \in B : \A k \in U(a) :
        /\ J(a, k) = {ItemAt(b, a, k, n).id : n \in X(a, k)}
        /\ OrderedBy(O, IdsOf(b[a].units[k].items)) <=>
             \A m, n \in X(a, k) : m < n => <<ItemAt(b, a, k, m).id, ItemAt(b, a, k, n).id>> \in O
  BY Inside, ItemsOrdered, Zenon DEF ItemAt
<1>4. \A a, k, n : IsAt(b, a, k, n) <=> a \in B /\ k \in U(a) /\ n \in X(a, k)
  BY DEF IsAt
<1> HIDE DEF I, J, U, X, B
<1>5. ASSUME OrderedBy(O, Ids(b)), NEW a, NEW k, NEW n, NEW aa, NEW kk, NEW nn,
             IsAt(b, a, k, n), IsAt(b, aa, kk, nn), PlaceBefore(a, k, n, aa, kk, nn)
      PROVE  <<ItemAt(b, a, k, n).id, ItemAt(b, aa, kk, nn).id>> \in O
  <2>1. /\ a \in B /\ k \in U(a) /\ n \in X(a, k) /\ aa \in B /\ kk \in U(aa) /\ nn \in X(aa, kk)
    BY <1>4, <1>5
  <2>2. ItemAt(b, a, k, n).id \in J(a, k) /\ ItemAt(b, aa, kk, nn).id \in J(aa, kk)
    BY <1>3, <2>1
  <2>3. ItemAt(b, a, k, n).id \in I(a) /\ ItemAt(b, aa, kk, nn).id \in I(aa)
    BY <1>2, <2>1, <2>2
  <2>4. CASE a < aa
    <3>1. AllBefore(O, I(a), I(aa))
      BY <1>1, <1>5, <2>1, <2>4
    <3>2. QED
      BY <2>3, <3>1 DEF AllBefore
  <2>5. CASE a = aa /\ k < kk
    <3>1. AllBefore(O, J(a, k), J(aa, kk))
      BY <1>1, <1>2, <1>5, <2>1, <2>5
    <3>2. QED
      BY <2>2, <3>1 DEF AllBefore
  <2>6. CASE a = aa /\ k = kk /\ n < nn
    <3>1. OrderedBy(O, IdsOf(b[a].units[k].items))
      BY <1>1, <1>2, <1>5, <2>1
    <3>2. QED
      BY <1>3, <2>1, <2>6, <3>1
  <2>7. QED
    BY <1>5, <2>4, <2>5, <2>6 DEF PlaceBefore
<1>6. ASSUME \A a, k, n, aa, kk, nn :
               IsAt(b, a, k, n) /\ IsAt(b, aa, kk, nn) /\ PlaceBefore(a, k, n, aa, kk, nn)
                 => <<ItemAt(b, a, k, n).id, ItemAt(b, aa, kk, nn).id>> \in O
      PROVE  OrderedBy(O, Ids(b))
  <2>1. ASSUME NEW a \in B, NEW c \in B, a < c
        PROVE  AllBefore(O, I(a), I(c))
    <3>1. SUFFICES ASSUME NEW x \in I(a), NEW y \in I(c) PROVE <<x, y>> \in O
      BY Zenon DEF AllBefore
    <3>2. PICK k \in U(a) : x \in J(a, k)
      BY <1>2
    <3>3. PICK kk \in U(c) : y \in J(c, kk)
      BY <1>2
    <3>4. PICK n \in X(a, k) : x = ItemAt(b, a, k, n).id
      BY <1>3, <3>2
    <3>5. PICK nn \in X(c, kk) : y = ItemAt(b, c, kk, nn).id
      BY <1>3, <3>3
    <3>6. PlaceBefore(a, k, n, c, kk, nn) /\ IsAt(b, a, k, n) /\ IsAt(b, c, kk, nn)
      BY <1>4, <2>1 DEF PlaceBefore
    <3>7. QED
      BY <1>6, <3>4, <3>5, <3>6
  <2>2. ASSUME NEW a \in B, NEW j \in U(a), NEW k \in U(a), j < k
        PROVE  AllBefore(O, J(a, j), J(a, k))
    <3>1. SUFFICES ASSUME NEW x \in J(a, j), NEW y \in J(a, k) PROVE <<x, y>> \in O
      BY Zenon DEF AllBefore
    <3>2. PICK n \in X(a, j) : x = ItemAt(b, a, j, n).id
      BY <1>3
    <3>3. PICK nn \in X(a, k) : y = ItemAt(b, a, k, nn).id
      BY <1>3
    <3>4. PlaceBefore(a, j, n, a, k, nn) /\ IsAt(b, a, j, n) /\ IsAt(b, a, k, nn)
      BY <1>4, <2>2 DEF PlaceBefore
    <3>5. QED
      BY <1>6, <3>2, <3>3, <3>4
  <2>3. ASSUME NEW a \in B, NEW k \in U(a)
        PROVE  OrderedBy(O, IdsOf(b[a].units[k].items))
    <3>1. \A m, n \in X(a, k) : m < n => PlaceBefore(a, k, m, a, k, n)
                                          /\ IsAt(b, a, k, m) /\ IsAt(b, a, k, n)
      BY <1>4 DEF PlaceBefore
    <3>2. QED
      BY <1>3, <1>6, <3>1
  <2>4. QED
    BY <1>1, <1>2, <2>1, <2>2, <2>3
<1>7. QED
  BY <1>5, <1>6

-----------------------------------------------------------------------------
(***************************************************************************)
(* Promotions.                                                             *)
(***************************************************************************)
Parts(pl, r, u, attrs) == ResolveParts(pl, r.attrs, u.name, attrs)

\* What the components that read resources find in r.
ResourceParts(pl, r) == ResolveParts(pl, r.attrs, <<>>, NoAttrs)

\* after is before with some of what the plan promotes to records of this level.
Grew(pl, before, after, parts, sources) ==
  /\ \A n \in DOMAIN before : n \in DOMAIN after /\ after[n] = before[n]
  /\ \A n \in DOMAIN after \ DOMAIN before :
       \E i \in DOMAIN pl :
         /\ pl[i].promote = n /\ pl[i].source \in sources
         /\ parts[i] # <<>> /\ after[n] = Str(parts[i])

\* And with all of it: Extends, of any plan.
Grown(pl, before, after, parts, sources) ==
  /\ Grew(pl, before, after, parts, sources)
  /\ \A i \in DOMAIN pl :
       pl[i].source \in sources /\ pl[i].promote # NoPromote /\ parts[i] # <<>>
         => pl[i].promote \in DOMAIN after

LEMMA GrownExtends ==
  ASSUME NEW before, NEW after, NEW parts, NEW sources
  PROVE  Grown(plan, before, after, parts, sources) <=> Extends(before, after, parts, sources)
BY DEF Grown, Grew, Extends

\* The parts that two tuples have in common.
SameFrom(pl, sources, parts, others) ==
  \A i \in DOMAIN pl : pl[i].source \in sources => parts[i] = others[i]

LEMMA GrewAlike ==
  ASSUME NEW pl, NEW before, NEW after, NEW parts, NEW others, NEW sources,
         SameFrom(pl, sources, parts, others)
  PROVE  /\ Grew(pl, before, after, parts, sources) => Grew(pl, before, after, others, sources)
         /\ Grown(pl, before, after, parts, sources) => Grown(pl, before, after, others, sources)
<1>1. \A i \in DOMAIN pl : pl[i].source \in sources => parts[i] = others[i]
  BY DEF SameFrom
<1>2. Grew(pl, before, after, parts, sources) => Grew(pl, before, after, others, sources)
  BY <1>1 DEF Grew
<1>3. QED
  BY <1>1, <1>2 DEF Grown

LEMMA ResourcePartsSame ==
  ASSUME NEW pl, NEW r, NEW u, NEW attrs
  PROVE  /\ SameFrom(pl, ToResource, Parts(pl, r, u, attrs), ResourceParts(pl, r))
         /\ SameFrom(pl, ToResource, ResourceParts(pl, r), Parts(pl, r, u, attrs))
BY DEF SameFrom, ToResource, Parts, ResourceParts, ResolveParts

\* applyPromotions adds what the plan promotes and nothing else, whatever it has
\* been called for before.
LEMMA PromotionsGrow ==
  ASSUME NEW pl, IsSeq(pl), NEW before, NEW attrs, NEW parts, NEW full, NEW sources,
         Grew(pl, before, attrs, parts, sources), SameFrom(pl, sources, full, parts)
  PROVE  Grown(pl, before, ApplyPromotions(pl, full, sources, attrs), parts, sources)
<1> DEFINE P(n) == Promoters(pl, full, sources, n)
           names == {n \in {pl[i].promote : i \in DOMAIN pl} : P(n) # {}}
           value(n) == Str(full[Min(P(n))])
           after == [n \in DOMAIN attrs \cup names |->
                       IF n \in DOMAIN attrs THEN attrs[n] ELSE value(n)]
<1>1. ApplyPromotions(pl, full, sources, attrs) = after
  BY DEF ApplyPromotions
<1>2. ASSUME NEW n, P(n) # {}
      PROVE  Min(P(n)) \in P(n)
  <2>1. P(n) \in SUBSET Nat
    BY SeqFacts DEF Promoters
  <2> HIDE DEF P
  <2>2. QED
    BY <1>2, <2>1, MinFacts
<1>3. \A n, i : i \in P(n) <=> /\ i \in DOMAIN pl /\ pl[i].promote = n /\ n # NoPromote
                               /\ pl[i].source \in sources /\ full[i] # <<>>
  BY DEF Promoters
<1> HIDE DEF P
<1>4. \A n \in names : P(n) # {}
  OBVIOUS
<1>5. /\ DOMAIN after = DOMAIN attrs \cup names
      /\ \A n \in DOMAIN attrs : after[n] = attrs[n]
      /\ \A n \in names \ DOMAIN attrs : after[n] = Str(full[Min(P(n))])
  OBVIOUS
<1>6. \A n : \A i \in DOMAIN pl : i \in P(n) => n \in names
  BY <1>3
<1> HIDE DEF names, value, after
<1>7. \A i \in DOMAIN pl : pl[i].source \in sources => full[i] = parts[i]
  BY DEF SameFrom
<1>8. \A n \in names \ DOMAIN attrs : \E i \in DOMAIN pl :
        /\ pl[i].promote = n /\ pl[i].source \in sources
        /\ parts[i] # <<>> /\ after[n] = Str(parts[i])
  <2>1. SUFFICES ASSUME NEW n \in names \ DOMAIN attrs
                 PROVE  \E i \in DOMAIN pl :
                          /\ pl[i].promote = n /\ pl[i].source \in sources
                          /\ parts[i] # <<>> /\ after[n] = Str(parts[i])
    OBVIOUS
  <2> DEFINE i == Min(P(n))
  <2>2. i \in P(n) /\ after[n] = Str(full[i])
    BY <1>2, <1>4, <1>5
  <2> HIDE DEF i
  <2>3. QED
    BY <1>3, <1>7, <2>2
<1>9. Grew(pl, before, after, parts, sources)
  <2>1. /\ \A n \in DOMAIN before : n \in DOMAIN attrs /\ attrs[n] = before[n]
        /\ \A n \in DOMAIN attrs \ DOMAIN before :
             \E i \in DOMAIN pl :
               /\ pl[i].promote = n /\ pl[i].source \in sources
               /\ parts[i] # <<>> /\ attrs[n] = Str(parts[i])
    BY DEF Grew
  <2>2. \A n \in DOMAIN before : n \in DOMAIN after /\ after[n] = before[n]
    BY <1>5, <2>1
  <2>3. \A n \in DOMAIN after \ DOMAIN before :
             \E i \in DOMAIN pl :
               /\ pl[i].promote = n /\ pl[i].source \in sources
               /\ parts[i] # <<>> /\ after[n] = Str(parts[i])
    <3>1. SUFFICES ASSUME NEW n \in DOMAIN after \ DOMAIN before
                   PROVE  \E i \in DOMAIN pl :
                            /\ pl[i].promote = n /\ pl[i].source \in sources
                            /\ parts[i] # <<>> /\ after[n] = Str(parts[i])
      OBVIOUS
    <3>2. CASE n \in names \ DOMAIN attrs
      BY <1>8, <3>2
    <3>3. CASE n \in DOMAIN attrs
      <4>1. after[n] = attrs[n]
        BY <1>5, <3>3
      <4>2. QED
        BY <2>1, <3>1, <3>3, <4>1
    <3>4. QED
      BY <1>5, <3>1, <3>2, <3>3
  <2>4. QED
    BY <2>2, <2>3 DEF Grew
<1>10. \A i \in DOMAIN pl :
         pl[i].source \in sources /\ pl[i].promote # NoPromote /\ parts[i] # <<>>
           => pl[i].promote \in DOMAIN after
  <2>1. SUFFICES ASSUME NEW i \in DOMAIN pl, pl[i].source \in sources,
                        pl[i].promote # NoPromote, parts[i] # <<>>
                 PROVE  pl[i].promote \in DOMAIN after
    OBVIOUS
  <2>2. i \in P(pl[i].promote)
    BY <1>3, <1>7, <2>1
  <2>3. QED
    BY <1>5, <1>6, <2>2
<1>11. QED
  BY <1>1, <1>9, <1>10 DEF Grown

-----------------------------------------------------------------------------
(***************************************************************************)
(* What bucketFor, ensureMetric and the loops change.                      *)
(***************************************************************************)
LEMMA AppendedSet ==
  ASSUME NEW s, IsSeq(s), NEW x
  PROVE  IsSeq(Append(s, x)) /\ ToSet(Append(s, x)) = ToSet(s) \cup {x}
<1>1. Append(s, x) = s \o <<x>>
  BY AppendIsCat DEF Cat
<1>2. QED
  BY <1>1, SeqOne, SeqConcat

LEMMA ReplacedSet ==
  ASSUME NEW s, IsSeq(s), NEW j \in 1..Len(s), NEW x
  PROVE  /\ x \in ToSet(ReplaceAt(s, j, x))
         /\ \A y \in ToSet(ReplaceAt(s, j, x)) : y = x \/ y \in ToSet(s)
         /\ \A y \in ToSet(s) : y = s[j] \/ y \in ToSet(ReplaceAt(s, j, x))
<1> DEFINE t == ReplaceAt(s, j, x)
<1>1. /\ DOMAIN s = 1..Len(s) /\ DOMAIN t = 1..Len(s)
  BY SeqFacts DEF ReplaceAt
<1>2. \A i \in 1..Len(s) : t[i] = IF i = j THEN x ELSE s[i]
  BY Replaced
<1> HIDE DEF t
<1>3. /\ x \in ToSet(t)
      /\ \A y \in ToSet(t) : y = x \/ y \in ToSet(s)
      /\ \A y \in ToSet(s) : y = s[j] \/ y \in ToSet(t)
  BY <1>1, <1>2 DEF ToSet
<1>4. QED
  BY <1>3 DEF t

DistinctKeys(gs) == \A g, h \in DOMAIN gs : gs[g].key = gs[h].key => g = h

Swapped(gs, k, old, after, new) ==
  /\ old = <<>> \/ \E h \in ToSet(gs) : h.key = k /\ h.res = old
  /\ \E h \in ToSet(after) : h.key = k /\ h.res = new
  /\ \A h \in ToSet(after) : (h.key = k /\ h.res = new) \/ h \in ToSet(gs)
  /\ \A h \in ToSet(gs) : (h.key = k /\ h.res = old) \/ h \in ToSet(after)

\* The group of key k, which may have to be opened first, gets other resources:
\* keys stay distinct, and the other groups are as they were.
LEMMA BucketMoved ==
  ASSUME NEW gs, GroupsOK(gs), DistinctKeys(gs), NEW k, NEW new, NEW opened, NEW g,
         opened = BucketFor(gs, k), g = SelectInSeq(opened, LAMBDA h : h.key = k)
  PROVE  /\ DistinctKeys([opened EXCEPT ![g].res = new])
         /\ Swapped(gs, k, opened[g].res, [opened EXCEPT ![g].res = new], new)
<1> DEFINE x == [key |-> k, res |-> new]
           x0 == [key |-> k, res |-> <<>>]
           after == [opened EXCEPT ![g].res = new]
<1>1. GroupsOK(opened) /\ g \in 1..Len(opened) /\ opened[g].key = k
  BY Opened, Zenon
<1>2. /\ IsSeq(gs) /\ IsSeq(opened) /\ DOMAIN gs = 1..Len(gs) /\ Len(gs) \in Nat
      /\ DOMAIN opened = 1..Len(opened) /\ Len(opened) \in Nat
  BY <1>1, SeqFacts DEF GroupsOK
<1>3. after = ReplaceAt(opened, g, x)
  <2>1. GroupOK(opened[g])
    BY <1>1, IsElement DEF GroupsOK
  <2> DEFINE h == opened[g]
  <2>2. h = [key |-> k, res |-> h.res]
    BY <1>1, <2>1 DEF GroupOK
  <2>3. [h EXCEPT !.res = new] = x
    <3> HIDE DEF h
    <3>1. QED
      BY <2>2
  <2>4. after = [opened EXCEPT ![g] = [h EXCEPT !.res = new]]
    OBVIOUS
  <2>5. QED
    BY <2>3, <2>4, Zenon DEF ReplaceAt
<1>4. opened = gs \/ (opened = Append(gs, x0) /\ \A h \in DOMAIN gs : gs[h].key # k)
  BY DEF BucketFor
<1>5. DistinctKeys(opened)
  <2>1. CASE opened = gs
    BY <2>1
  <2>2. CASE opened = Append(gs, x0) /\ \A h \in DOMAIN gs : gs[h].key # k
    <3>1. x0.key = k
      OBVIOUS
    <3> HIDE DEF x0
    <3>2. /\ Len(opened) = Len(gs) + 1 /\ opened[Len(gs) + 1] = x0
          /\ \A i \in 1..Len(gs) : opened[i] = gs[i]
      BY <1>2, <2>2, Appended
    <3>3. \A i \in 1..Len(opened) : i \in 1..Len(gs) \/ i = Len(gs) + 1
      BY <1>2, <3>2
    <3>4. QED
      BY <1>2, <2>2, <3>1, <3>2, <3>3 DEF DistinctKeys
  <2>3. QED
    BY <1>4, <2>1, <2>2
<1>6. /\ opened[g].res = <<>> \/ opened[g] \in ToSet(gs)
      /\ \A h \in ToSet(opened) : h = opened[g] \/ h \in ToSet(gs)
      /\ ToSet(gs) \subseteq ToSet(opened)
  <2>1. CASE opened = gs
    BY <1>1, <1>2, <2>1, IsElement, Zenon
  <2>2. CASE opened = Append(gs, x0) /\ \A h \in DOMAIN gs : gs[h].key # k
    <3>1. ToSet(opened) = ToSet(gs) \cup {x0}
      BY <1>2, <2>2, AppendedSet
    <3>2. opened[g] \in ToSet(opened)
      BY <1>1, <1>2, IsElement
    <3>3. opened[g] = x0
      <4>1. \A h \in ToSet(gs) : h.key # k
        BY <2>2 DEF ToSet
      <4>2. QED
        BY <1>1, <3>1, <3>2, <4>1
    <3>4. QED
      BY <3>1, <3>3
  <2>3. QED
    BY <1>4, <2>1, <2>2, Zenon
<1>7. x.key = k /\ x.res = new
  OBVIOUS
<1> HIDE DEF x, x0, after
<1>8. DistinctKeys(after)
  <2>1. DOMAIN after = 1..Len(opened)
    BY <1>2, <1>3 DEF ReplaceAt
  <2>2. \A i \in 1..Len(opened) : after[i] = IF i = g THEN x ELSE opened[i]
    BY <1>1, <1>2, <1>3, Replaced
  <2>3. \A i \in 1..Len(opened) : after[i].key = opened[i].key
    BY <1>1, <1>7, <2>2, Zenon
  <2>4. QED
    BY <1>2, <1>5, <2>1, <2>3 DEF DistinctKeys
<1>9. /\ x \in ToSet(after)
      /\ \A y \in ToSet(after) : y = x \/ y \in ToSet(opened)
      /\ \A y \in ToSet(opened) : y = opened[g] \/ y \in ToSet(after)
  BY <1>1, <1>2, <1>3, ReplacedSet, Zenon
<1>10. \A h \in ToSet(opened) : h.key = k => h = opened[g]
  BY <1>1, <1>2, <1>5 DEF DistinctKeys, ToSet
<1>11. Swapped(gs, k, opened[g].res, after, new)
  <2>1. opened[g].res = <<>> \/ \E h \in ToSet(gs) : h.key = k /\ h.res = opened[g].res
    BY <1>1, <1>6, Zenon
  <2>2. \E h \in ToSet(after) : h.key = k /\ h.res = new
    BY <1>7, <1>9
  <2>3. \A h \in ToSet(gs) : (h.key = k /\ h.res = opened[g].res) \/ h \in ToSet(after)
    BY <1>1, <1>6, <1>9, Zenon
  <2>4. \A h \in ToSet(after) : (h.key = k /\ h.res = new) \/ h \in ToSet(gs)
    <3>1. SUFFICES ASSUME NEW h \in ToSet(after), h # x PROVE h \in ToSet(gs)
      BY <1>7
    <3>2. h \in ToSet(opened)
      BY <1>9, <3>1
    <3>3. CASE h # opened[g]
      BY <1>6, <3>2, <3>3, Zenon
    <3>4. CASE h = opened[g]
      <4>1. PICK i \in 1..Len(opened) : after[i] = h
        BY <1>2, <1>3, Zenon DEF ToSet, ReplaceAt
      <4>2. \A j \in 1..Len(opened) : after[j] = IF j = g THEN x ELSE opened[j]
        BY <1>1, <1>2, <1>3, Replaced
      <4>3. i # g /\ opened[i] = opened[g]
        BY <3>1, <3>4, <4>1, <4>2, Zenon
      <4>4. QED
        BY <1>1, <1>2, <1>5, <4>3 DEF DistinctKeys
    <3>5. QED
      BY <3>3, <3>4
  <2>5. QED
    BY <2>1, <2>2, <2>3, <2>4, Zenon DEF Swapped
<1>12. QED
  BY <1>8, <1>11 DEF after

\* The copies of r and of u that ensureMetric makes.
EmptyResource(r) == [from |-> r.from, attrs |-> r.attrs, units |-> <<>>]
EmptyUnit(u) == [from |-> u.from, name |-> u.name, items |-> <<>>]

\* p with other units, w with one item more.
WithUnits(p, attrs, us) == [from |-> p.from, attrs |-> attrs, units |-> us]
WithItem(w, x) == [from |-> w.from, name |-> w.name, items |-> Append(w.items, x)]
WithAttrs(x, attrs) == [id |-> x.id, body |-> x.body, attrs |-> attrs]

\* e is res with a place for unit u of resource r, which is at index a, the resource
\* being opened first.
EnsuredBy(e, res, r, u, opened, a) ==
  /\ BatchOK(opened) /\ a \in 1..Len(opened) /\ opened[a].from = r.from
  /\ \/ opened = res
     \/ /\ opened = Append(res, EmptyResource(r))
        /\ \A i \in 1..Len(res) : res[i].from # r.from
  /\ \/ /\ e = opened
        /\ \E n \in DOMAIN opened[a].units : SameUnit(opened[a].units[n], u)
     \/ /\ ~\E n \in DOMAIN opened[a].units : SameUnit(opened[a].units[n], u)
        /\ e = ReplaceAt(opened, a, WithUnits(opened[a], opened[a].attrs,
                                     Append(opened[a].units, EmptyUnit(u))))

LEMMA EnsureShape ==
  ASSUME NEW res, BatchOK(res), NEW r, ResourceOK(r), NEW u, UnitOK(u)
  PROVE  \E opened, a : EnsuredBy(Ensure(res, r, u), res, r, u, opened, a)
<1> DEFINE I == {i \in 1..Len(res) : res[i].from = r.from}
           at0 == IF I # {} THEN Min(I) ELSE 0
           r0 == EmptyResource(r)
           opened == IF at0 = 0 THEN Append(res, r0) ELSE res
           a == IF at0 = 0 THEN Len(opened) ELSE at0
           v == EmptyUnit(u)
           q == [opened[a] EXCEPT !.units = Append(@, v)]
           e == Ensure(res, r, u)
<1>1. IsSeq(res) /\ Len(res) \in Nat
  BY SeqFacts DEF BatchOK
<1>2. I # {} => Min(I) \in I /\ Min(I) # 0
  <2>1. I \in SUBSET Nat /\ 0 \notin I
    OBVIOUS
  <2> HIDE DEF I
  <2>2. QED
    BY <2>1, MinFacts
<1>3. at0 = SelectInSeq(res, LAMBDA z : z.from = r.from)
  BY DEF SelectInSeq
<1>4. [r EXCEPT !.units = <<>>] = r0 /\ [u EXCEPT !.items = <<>>] = v
  BY DEF ResourceOK, UnitOK, EmptyResource, EmptyUnit
<1>5. e = IF \E n \in DOMAIN opened[a].units : SameUnit(opened[a].units[n], u) THEN opened
          ELSE ReplaceAt(opened, a, q)
  BY <1>3, <1>4, Zenon DEF Ensure, ReplaceAt
<1>6. ResourceOK(r0) /\ r0.from = r.from
  BY UnitsNone DEF ResourceOK, EmptyResource
<1>7. /\ BatchOK(opened) /\ a \in 1..Len(opened) /\ opened[a].from = r.from
      /\ \/ opened = res
         \/ opened = Append(res, r0) /\ \A i \in 1..Len(res) : res[i].from # r.from
  <2>1. CASE I # {}
    BY <1>2, <2>1
  <2>2. CASE I = {}
    <3>1. opened = Append(res, r0) /\ a = Len(opened)
      BY <2>2
    <3>2. \A i \in 1..Len(res) : res[i].from # r.from
      BY <2>2
    <3> HIDE DEF r0, opened, a
    <3>3. BatchOK(opened)
      BY <1>6, <3>1, BatchAppend
    <3>5. Len(opened) = Len(res) + 1 /\ opened[Len(res) + 1] = r0
      BY <1>1, <3>1, Appended
    <3>6. a \in 1..Len(opened) /\ opened[a].from = r.from
      BY <1>1, <1>6, <3>1, <3>5
    <3>8. QED
      BY <3>1, <3>2, <3>3, <3>6
  <2>3. QED
    BY <2>1, <2>2, Zenon
<1>8. q = WithUnits(opened[a], opened[a].attrs, Append(opened[a].units, v))
  <2> HIDE DEF opened, a, v
  <2>1. ResourceOK(opened[a])
    BY <1>7, IsElement DEF BatchOK
  <2> DEFINE p == opened[a]
  <2>2. p = [from |-> p.from, attrs |-> p.attrs, units |-> p.units]
    BY <2>1 DEF ResourceOK
  <2>3. q = [p EXCEPT !.units = Append(p.units, v)]
    OBVIOUS
  <2> HIDE DEF p, q
  <2>4. q = [from |-> p.from, attrs |-> p.attrs, units |-> Append(p.units, v)]
    BY <2>2, <2>3, Zenon
  <2>5. QED
    BY <2>4 DEF WithUnits, p
<1> HIDE DEF I, at0, opened, a, q
<1>9. EnsuredBy(e, res, r, u, opened, a)
  BY <1>5, <1>7, <1>8 DEF r0, v, EnsuredBy
<1>10. QED
  BY <1>9 DEF e

\* after is opened with item x added to group g, whose resources res have a place for it.
LeafPut(pl, r, u, x, parts, opened, g, res, after) ==
  \E a \in 1..Len(res) : \E c \in 1..Len(res[a].units) :
    LET p == res[a]
        w == p.units[c]
        moved == WithAttrs(x, ApplyPromotions(pl, parts, ToLeaf, x.attrs))
    IN  /\ p.from = r.from /\ w.from = u.from
        /\ after = [opened EXCEPT ![g].res = ReplaceAt(res, a,
                      WithUnits(p, ApplyPromotions(pl, parts, ToResource, p.attrs),
                                ReplaceAt(p.units, c, WithItem(w, moved))))]

\* Where groupByLeaf puts item x.
LEMMA LeafShape ==
  ASSUME NEW gs, GroupsOK(gs), NEW r, ResourceOK(r), NEW u, UnitOK(u), NEW x, ItemOK(x),
         NEW pl
  PROVE  LET parts == Parts(pl, r, u, x.attrs)
             opened == BucketFor(gs, JoinParts(parts))
             g == SelectInSeq(opened, LAMBDA h : h.key = JoinParts(parts))
             res == Ensure(opened[g].res, r, u)
         IN  /\ BatchOK(opened[g].res) /\ BatchOK(res)
             /\ LeafPut(pl, r, u, x, parts, opened, g, res, AddLeaf(pl, gs, r, u, x))
<1> DEFINE parts == Parts(pl, r, u, x.attrs)
           k == JoinParts(parts)
           opened == BucketFor(gs, k)
           g == SelectInSeq(opened, LAMBDA h : h.key = k)
           old == opened[g].res
           res == Ensure(old, r, u)
           a == SelectInSeq(res, LAMBDA q : q.from = r.from)
           p == res[a]
           us == p.units
           c == SelectInSeq(us, LAMBDA q : SameUnit(q, u))
           w == us[c]
           moved0 == [x EXCEPT !.attrs = ApplyPromotions(pl, parts, ToLeaf, @)]
           moved == WithAttrs(x, ApplyPromotions(pl, parts, ToLeaf, x.attrs))
           m == ApplyPromotions(pl, parts, ToResource, p.attrs)
           more == [res EXCEPT ![a].units[c].items = Append(@, moved), ![a].attrs = m]
           w2 == WithItem(w, moved)
           p2 == WithUnits(p, m, ReplaceAt(us, c, w2))
<1>1. /\ GroupsOK(opened) /\ g \in 1..Len(opened)
  BY Opened, Zenon
<1>2. BatchOK(old)
  <2>1. GroupOK(opened[g])
    BY <1>1, IsElement DEF GroupsOK
  <2>2. QED
    BY <2>1 DEF GroupOK
<1>3. AddLeaf(pl, gs, r, u, x) = [opened EXCEPT ![g].res = more]
  <2>1. moved0 = moved
    BY DEF ItemOK, WithAttrs
  <2>2. QED
    BY <2>1, Zenon DEF AddLeaf, Parts
<1> HIDE DEF parts, k, opened, g, moved
<1>5. /\ BatchOK(res)
      /\ \E i \in 1..Len(res) :
           /\ res[i].from = r.from
           /\ \A j \in 1..Len(res) : res[j].from = r.from => i <= j
           /\ \E n \in DOMAIN res[i].units : SameUnit(res[i].units[n], u)
  BY <1>2, Ensured
<1> HIDE DEF old, res
<1>6. a \in 1..Len(res) /\ p.from = r.from /\ \E n \in DOMAIN us : SameUnit(us[n], u)
  <2> DEFINE I == {i \in 1..Len(res) : res[i].from = r.from}
  <2>1. PICK i \in 1..Len(res) :
           /\ res[i].from = r.from
           /\ \A j \in 1..Len(res) : res[j].from = r.from => i <= j
           /\ \E n \in DOMAIN res[i].units : SameUnit(res[i].units[n], u)
    BY <1>5
  <2>2. i \in I /\ I \in SUBSET Nat /\ \A j \in I : i <= j
    BY <2>1
  <2>3. a = Min(I)
    BY <2>2 DEF SelectInSeq
  <2> HIDE DEF I, a
  <2>4. Min(I) \in I /\ \A j \in I : Min(I) <= j
    BY <2>2, MinFacts
  <2>5. a = i
    <3>1. a <= i /\ i <= a /\ a \in Nat /\ i \in Nat
      BY <2>2, <2>3, <2>4, Zenon
    <3>2. QED
      BY <3>1
  <2>6. QED
    BY <2>1, <2>5
<1> HIDE DEF a
<1>7. ResourceOK(p) /\ p = [from |-> p.from, attrs |-> p.attrs, units |-> us] /\ IsSeq(us)
      /\ UnitsOK(us)
  <2>1. ResourceOK(p)
    BY <1>5, <1>6, IsElement DEF BatchOK
  <2>2. QED
    BY <2>1 DEF ResourceOK, UnitsOK
<1>8. c \in 1..Len(us) /\ w.from = u.from
  <2> DEFINE J == {j \in 1..Len(us) : SameUnit(us[j], u)}
  <2>1. DOMAIN us = 1..Len(us)
    BY <1>7, SeqFacts
  <2>2. J # {} /\ J \in SUBSET Nat
    BY <1>6, <2>1
  <2>3. c = Min(J)
    BY <2>2 DEF SelectInSeq
  <2> HIDE DEF J, c
  <2>4. Min(J) \in J
    BY <2>2, MinFacts
  <2>5. QED
    BY <2>3, <2>4 DEF J, SameUnit
<1> HIDE DEF c
<1>9. w = [from |-> w.from, name |-> w.name, items |-> w.items]
  <2>1. UnitOK(w)
    BY <1>7, <1>8, IsElement DEF UnitsOK
  <2>2. QED
    BY <2>1 DEF UnitOK
<1>10. more = ReplaceAt(res, a, p2)
  <2>0. p2 = [from |-> p.from, attrs |-> m, units |-> ReplaceAt(us, c, w2)]
    BY DEF WithUnits
  <2>1. w2 = [w EXCEPT !.items = Append(w.items, moved)]
    <3> HIDE DEF w
    <3>1. ASSUME NEW z
          PROVE  [from |-> w.from, name |-> w.name, items |-> z] = [w EXCEPT !.items = z]
      BY <1>9
    <3>2. QED
      BY <3>1 DEF WithItem
  <2> HIDE DEF m, w2, p2
  <2>2. ReplaceAt(us, c, w2) = [us EXCEPT ![c].items = Append(w.items, moved)]
    BY <2>1 DEF ReplaceAt
  <2> DEFINE q == [p EXCEPT !.units[c].items = Append(w.items, moved)]
             y == [res EXCEPT ![a].units[c].items = Append(w.items, moved)]
  <2>3. q = [from |-> p.from, attrs |-> p.attrs, units |-> ReplaceAt(us, c, w2)]
    <3> HIDE DEF p, w
    <3>1. q = [p EXCEPT !.units = [us EXCEPT ![c].items = Append(w.items, moved)]]
      OBVIOUS
    <3> HIDE DEF q
    <3>2. q = [p EXCEPT !.units = ReplaceAt(us, c, w2)]
      BY <2>2, <3>1
    <3> HIDE DEF us, w2
    <3>3. QED
      BY <1>7, <3>2
  <2>4. y = [res EXCEPT ![a] = q]
    OBVIOUS
  <2>5. y[a] = q /\ DOMAIN y = DOMAIN res /\ y = [i \in DOMAIN res |-> IF i = a THEN q ELSE res[i]]
    <3> HIDE DEF q, y
    <3>1. a \in DOMAIN res /\ res = [i \in DOMAIN res |-> res[i]]
      <4>1. DOMAIN res = 1..Len(res) /\ res \in [1..Len(res) -> ToSet(res)]
        BY <1>5, SeqFacts, LenProperties DEF IsSeq, BatchOK
      <4>2. QED
        BY <1>6, <4>1
    <3>2. QED
      BY <2>4, <3>1, Zenon
  <2>6. more = [y EXCEPT ![a].attrs = m]
    OBVIOUS
  <2>7. [q EXCEPT !.attrs = m] = p2
    <3> HIDE DEF q, p, us
    <3>1. QED
      BY <2>0, <2>3
  <2>8. more = [y EXCEPT ![a] = p2]
    <3> HIDE DEF q, y, p2, more
    <3>1. [y EXCEPT ![a].attrs = m] = [y EXCEPT ![a] = [q EXCEPT !.attrs = m]]
      BY <2>5
    <3>2. QED
      BY <2>6, <2>7, <3>1, Zenon
  <2>9. [y EXCEPT ![a] = p2] = [res EXCEPT ![a] = p2]
    <3> HIDE DEF q, y, p2
    <3>1. QED
      BY <2>5, Zenon
  <2>10. QED
    BY <2>8, <2>9 DEF ReplaceAt
<1> HIDE DEF more
<1>11. AddLeaf(pl, gs, r, u, x) = [opened EXCEPT ![g].res = ReplaceAt(res, a, p2)]
  BY <1>3, <1>10
<1>12. LeafPut(pl, r, u, x, parts, opened, g, res, AddLeaf(pl, gs, r, u, x))
  BY <1>6, <1>8, <1>11, Zenon DEF LeafPut, p2, w2, w, us, p, m, moved
<1>13. QED
  BY <1>2, <1>5, <1>12, Zenon DEF parts, k, opened, g, old, res

-----------------------------------------------------------------------------
(***************************************************************************)
(* What a group holds: copies of what is in the batch, in its order.       *)
(***************************************************************************)
\* Origins, and ids, in strictly rising order.
Rising(s) == \A m, n \in DOMAIN s : m < n => s[m].from < s[n].from
RisingIds(s) == \A m, n \in DOMAIN s : m < n => s[m].id < s[n].id

\* Item y is item x of unit u of resource r, in the group of its key.
ItemCopied(pl, k, r, u, x, y) ==
  /\ y.id = x.id /\ k = JoinParts(Parts(pl, r, u, x.attrs))
  /\ Grown(pl, x.attrs, y.attrs, Parts(pl, r, u, x.attrs), ToLeaf)

UnitCopied(pl, k, r, v) ==
  /\ v.from \in DOMAIN r.units /\ v.name = r.units[v.from].name
  /\ RisingIds(v.items)
  /\ \A y \in ToSet(v.items) :
       \E x \in ToSet(r.units[v.from].items) : ItemCopied(pl, k, r, r.units[v.from], x, y)

\* A resource without items need not have what is promoted to it.
ResourceCopied(b, pl, k, q) ==
  /\ q.from \in DOMAIN b /\ Rising(q.units)
  /\ \A v \in ToSet(q.units) : UnitCopied(pl, k, b[q.from], v)
  /\ Grew(pl, b[q.from].attrs, q.attrs, ResourceParts(pl, b[q.from]), ToResource)
  /\ (\E v \in ToSet(q.units) : v.items # <<>>) =>
       Grown(pl, b[q.from].attrs, q.attrs, ResourceParts(pl, b[q.from]), ToResource)

Copied(b, pl, k, res) == Rising(res) /\ \A q \in ToSet(res) : ResourceCopied(b, pl, k, q)

\* Nothing in res is from the cursor or after it.
UnitBehind(b, v, c) ==
  /\ v.from <= c.unit
  /\ v.from = c.unit =>
       \A y \in ToSet(v.items) :
         \A n \in DOMAIN b[c.res].units[c.unit].items :
           c.item <= n => y.id < b[c.res].units[c.unit].items[n].id

Behind(b, res, c) ==
  \A q \in ToSet(res) :
    /\ q.from <= c.res
    /\ q.from = c.res => \A v \in ToSet(q.units) : UnitBehind(b, v, c)

\* res has a copy of unit k of resource a, with item i.
CarriesUnit(res, a, k) ==
  \E q \in ToSet(res) : \E v \in ToSet(q.units) : q.from = a /\ v.from = k
Carries(res, a, k, i) ==
  \E q \in ToSet(res) : \E v \in ToSet(q.units) :
    q.from = a /\ v.from = k /\ \E y \in ToSet(v.items) : y.id = i

\* after carries what res does.
More(res, after) ==
  \A q \in ToSet(res) : \E p \in ToSet(after) :
    /\ p.from = q.from
    /\ \A v \in ToSet(q.units) : \E w \in ToSet(p.units) :
         v.from = w.from /\ \A y \in ToSet(v.items) : \E z \in ToSet(w.items) : z.id = y.id

\* A batch whose origins are positions and whose items are numbered in order.
InPlace(b) ==
  \A a \in 1..Len(b) :
    /\ b[a].from = a
    /\ \A k \in 1..Len(b[a].units) :
         b[a].units[k].from = k /\ RisingIds(b[a].units[k].items)

LEMMA MoreCarries ==
  ASSUME NEW res, NEW after, More(res, after)
  PROVE  /\ \A a, k : CarriesUnit(res, a, k) => CarriesUnit(after, a, k)
         /\ \A a, k, i : Carries(res, a, k, i) => Carries(after, a, k, i)
<1>1. ASSUME NEW a, NEW k, CarriesUnit(res, a, k)
      PROVE  CarriesUnit(after, a, k)
  BY <1>1 DEF More, CarriesUnit
<1>2. ASSUME NEW a, NEW k, NEW i, Carries(res, a, k, i)
      PROVE  Carries(after, a, k, i)
  <2>1. PICK q \in ToSet(res) : \E v \in ToSet(q.units) :
          q.from = a /\ v.from = k /\ \E y \in ToSet(v.items) : y.id = i
    BY <1>2 DEF Carries
  <2>a. PICK v \in ToSet(q.units) :
          q.from = a /\ v.from = k /\ \E y \in ToSet(v.items) : y.id = i
    BY <2>1
  <2>2. PICK p \in ToSet(after) :
          /\ p.from = q.from
          /\ \A vv \in ToSet(q.units) : \E w \in ToSet(p.units) :
               vv.from = w.from
               /\ \A yy \in ToSet(vv.items) : \E z \in ToSet(w.items) : z.id = yy.id
    BY DEF More
  <2>3. PICK w \in ToSet(p.units) :
          w.from = v.from /\ \A yy \in ToSet(v.items) : \E z \in ToSet(w.items) : z.id = yy.id
    BY <2>2
  <2>4. \E z \in ToSet(w.items) : z.id = i
    BY <2>a, <2>3
  <2>5. QED
    BY <2>a, <2>2, <2>3, <2>4 DEF Carries
<1>3. QED
  BY <1>1, <1>2

LEMMA MoreTwice ==
  ASSUME NEW res, NEW after, NEW last, More(res, after), More(after, last)
  PROVE  More(res, last)
<1>1. SUFFICES ASSUME NEW q \in ToSet(res)
      PROVE  \E p \in ToSet(last) :
               /\ p.from = q.from
               /\ \A v \in ToSet(q.units) : \E w \in ToSet(p.units) :
                    /\ v.from = w.from
                    /\ \A y \in ToSet(v.items) : \E z \in ToSet(w.items) : z.id = y.id
  BY DEF More
<1>2. PICK o \in ToSet(after) :
        /\ o.from = q.from
        /\ \A v \in ToSet(q.units) : \E w \in ToSet(o.units) :
             /\ v.from = w.from
             /\ \A y \in ToSet(v.items) : \E z \in ToSet(w.items) : z.id = y.id
  BY DEF More
<1>3. PICK p \in ToSet(last) :
        /\ p.from = o.from
        /\ \A v \in ToSet(o.units) : \E w \in ToSet(p.units) :
             /\ v.from = w.from
             /\ \A y \in ToSet(v.items) : \E z \in ToSet(w.items) : z.id = y.id
  BY DEF More
<1>4. ASSUME NEW v \in ToSet(q.units)
      PROVE  \E w \in ToSet(p.units) :
               /\ v.from = w.from
               /\ \A y \in ToSet(v.items) : \E z \in ToSet(w.items) : z.id = y.id
  <2>1. PICK s \in ToSet(o.units) :
          v.from = s.from /\ \A y \in ToSet(v.items) : \E z \in ToSet(s.items) : z.id = y.id
    BY <1>2
  <2>2. PICK w \in ToSet(p.units) :
          s.from = w.from /\ \A y \in ToSet(s.items) : \E z \in ToSet(w.items) : z.id = y.id
    BY <1>3
  <2>3. \A y \in ToSet(v.items) : \E z \in ToSet(w.items) : z.id = y.id
    <3>1. SUFFICES ASSUME NEW y \in ToSet(v.items) PROVE \E z \in ToSet(w.items) : z.id = y.id
      OBVIOUS
    <3>2. PICK z \in ToSet(s.items) : z.id = y.id
      BY <2>1
    <3>3. QED
      BY <2>2, <3>2
  <2>4. QED
    BY <2>1, <2>2, <2>3
<1>5. QED
  BY <1>2, <1>3, <1>4

\* Rising sequences, one element more or another one of the same origin.
LEMMA RisingAppended ==
  ASSUME NEW s, IsSeq(s), NEW x, Rising(s), \A i \in 1..Len(s) : s[i].from < x.from
  PROVE  Rising(Append(s, x))
<1> DEFINE n == Len(s)
           t == Append(s, x)
<1>1. IsSeq(t) /\ Len(t) = n + 1 /\ t[n + 1] = x /\ \A i \in 1..n : t[i] = s[i]
  BY Appended, AppendedSet
<1>2. n \in Nat /\ DOMAIN s = 1..n /\ DOMAIN t = 1..(n + 1)
  BY <1>1, SeqFacts
<1>3. \A i \in 1..n : s[i].from < x.from
  OBVIOUS
<1> HIDE DEF n, t
<1>4. \A i, j \in 1..(n + 1) : i < j => i \in 1..n /\ (j \in 1..n \/ j = n + 1)
  BY <1>2
<1>5. ASSUME NEW i \in 1..(n + 1), NEW j \in 1..(n + 1), i < j
      PROVE  t[i].from < t[j].from
  BY <1>1, <1>2, <1>3, <1>4, <1>5, Zenon DEF Rising
<1>6. QED
  BY <1>2, <1>5 DEF Rising, t

LEMMA RisingIdsAppended ==
  ASSUME NEW s, IsSeq(s), NEW x, RisingIds(s), \A i \in 1..Len(s) : s[i].id < x.id
  PROVE  RisingIds(Append(s, x))
<1> DEFINE n == Len(s)
           t == Append(s, x)
<1>1. IsSeq(t) /\ Len(t) = n + 1 /\ t[n + 1] = x /\ \A i \in 1..n : t[i] = s[i]
  BY Appended, AppendedSet
<1>2. n \in Nat /\ DOMAIN s = 1..n /\ DOMAIN t = 1..(n + 1)
  BY <1>1, SeqFacts
<1>3. \A i \in 1..n : s[i].id < x.id
  OBVIOUS
<1> HIDE DEF n, t
<1>4. \A i, j \in 1..(n + 1) : i < j => i \in 1..n /\ (j \in 1..n \/ j = n + 1)
  BY <1>2
<1>5. ASSUME NEW i \in 1..(n + 1), NEW j \in 1..(n + 1), i < j
      PROVE  t[i].id < t[j].id
  BY <1>1, <1>2, <1>3, <1>4, <1>5, Zenon DEF RisingIds
<1>6. QED
  BY <1>2, <1>5 DEF RisingIds, t

LEMMA RisingReplaced ==
  ASSUME NEW s, IsSeq(s), NEW j \in 1..Len(s), NEW x, Rising(s), x.from = s[j].from
  PROVE  Rising(ReplaceAt(s, j, x))
<1> DEFINE t == ReplaceAt(s, j, x)
<1>1. /\ DOMAIN s = 1..Len(s) /\ DOMAIN t = 1..Len(s)
  BY SeqFacts DEF ReplaceAt
<1>2. \A i \in 1..Len(s) : t[i] = IF i = j THEN x ELSE s[i]
  BY Replaced
<1> HIDE DEF t
<1>3. \A i \in 1..Len(s) : t[i].from = s[i].from
  BY <1>2
<1>4. QED
  BY <1>1, <1>3 DEF Rising, t

\* Another resource in the place of one of the same origin.
LEMMA ResourceReplaced ==
  ASSUME NEW b, NEW pl, NEW k, NEW res, IsSeq(res), NEW j \in 1..Len(res), NEW p,
         Copied(b, pl, k, res), ResourceCopied(b, pl, k, p), p.from = res[j].from,
         \A v \in ToSet(res[j].units) : \E w \in ToSet(p.units) :
           v.from = w.from /\ \A y \in ToSet(v.items) : \E z \in ToSet(w.items) : z.id = y.id
  PROVE  Copied(b, pl, k, ReplaceAt(res, j, p)) /\ More(res, ReplaceAt(res, j, p))
<1> DEFINE t == ReplaceAt(res, j, p)
<1>1. /\ p \in ToSet(t)
      /\ \A y \in ToSet(t) : y = p \/ y \in ToSet(res)
      /\ \A y \in ToSet(res) : y = res[j] \/ y \in ToSet(t)
  BY ReplacedSet
<1>2. Rising(t)
  BY RisingReplaced DEF Copied
<1> HIDE DEF t
<1>3. Copied(b, pl, k, t)
  BY <1>1, <1>2 DEF Copied
<1>4. ASSUME NEW q \in ToSet(res)
      PROVE  \E o \in ToSet(t) :
               /\ o.from = q.from
               /\ \A v \in ToSet(q.units) : \E w \in ToSet(o.units) :
                    v.from = w.from
                    /\ \A y \in ToSet(v.items) : \E z \in ToSet(w.items) : z.id = y.id
  <2>1. CASE q = res[j]
    BY <1>1, <2>1
  <2>2. CASE q # res[j]
    <3>1. q \in ToSet(t)
      BY <1>1, <2>2
    <3>2. \A v \in ToSet(q.units) : \E w \in ToSet(q.units) :
            v.from = w.from
            /\ \A y \in ToSet(v.items) : \E z \in ToSet(w.items) : z.id = y.id
      OBVIOUS
    <3>3. QED
      BY <3>1, <3>2
  <2>3. QED
    BY <2>1, <2>2
<1>5. QED
  BY <1>3, <1>4 DEF More, t

LEMMA BehindReplaced ==
  ASSUME NEW b, NEW c, NEW res, IsSeq(res), NEW j \in 1..Len(res), NEW p,
         Behind(b, res, c), p.from <= c.res, \A v \in ToSet(p.units) : UnitBehind(b, v, c)
  PROVE  Behind(b, ReplaceAt(res, j, p), c)
<1> DEFINE t == ReplaceAt(res, j, p)
<1>1. \A y \in ToSet(t) : y = p \/ y \in ToSet(res)
  BY ReplacedSet
<1> HIDE DEF t
<1>2. QED
  BY <1>1 DEF Behind, t

\* ensureMetric, ensureScope: the copies are made in order, behind the cursor.
LEMMA EnsureCopies ==
  ASSUME NEW b, BatchOK(b), InPlace(b), NEW pl, NEW k, NEW res, BatchOK(res),
         Copied(b, pl, k, res), NEW c, c.res \in 1..Len(b),
         c.unit \in 1..Len(b[c.res].units), Behind(b, res, c)
  PROVE  LET e == Ensure(res, b[c.res], b[c.res].units[c.unit])
         IN  /\ BatchOK(e) /\ Copied(b, pl, k, e) /\ Behind(b, e, c) /\ More(res, e)
             /\ CarriesUnit(e, c.res, c.unit)
<1> DEFINE r == b[c.res]
           u == r.units[c.unit]
           e == Ensure(res, r, u)
           r0 == EmptyResource(r)
           u0 == EmptyUnit(u)
<1>0. /\ ResourceOK(r) /\ UnitOK(u) /\ r.from = c.res /\ u.from = c.unit
      /\ DOMAIN b = 1..Len(b) /\ DOMAIN r.units = 1..Len(r.units)
  <2>1. ResourceOK(r) /\ UnitOK(u) /\ IsSeq(r.units) /\ IsSeq(b)
    BY Inside, Zenon DEF UnitsOK, BatchOK
  <2>2. QED
    BY <2>1, SeqFacts DEF InPlace
<1>a. /\ r0.from = c.res /\ r0.attrs = r.attrs /\ r0.units = <<>>
      /\ u0.from = c.unit /\ u0.name = u.name /\ u0.items = <<>>
  BY <1>0 DEF EmptyResource, EmptyUnit
<1>b. ToSet(<<>>) = {} /\ Rising(<<>>) /\ RisingIds(<<>>) /\ DOMAIN <<>> = {}
  BY DEF ToSet, Rising, RisingIds
<1>d. PICK opened, a : EnsuredBy(e, res, r, u, opened, a)
  <2> HIDE DEF r, u
  <2>1. QED
    BY <1>0, EnsureShape
<1>1. /\ BatchOK(opened) /\ a \in 1..Len(opened) /\ opened[a].from = r.from
      /\ \/ opened = res
         \/ /\ opened = Append(res, r0)
            /\ \A i \in 1..Len(res) : res[i].from # r.from
      /\ \/ /\ e = opened
            /\ \E n \in DOMAIN opened[a].units : SameUnit(opened[a].units[n], u)
         \/ /\ ~\E n \in DOMAIN opened[a].units : SameUnit(opened[a].units[n], u)
            /\ e = ReplaceAt(opened, a, WithUnits(opened[a], opened[a].attrs,
                                          Append(opened[a].units, u0)))
  <2> HIDE DEF r, u, e
  <2>1. QED
    BY <1>d DEF EnsuredBy
<1>c. BatchOK(e)
  BY <1>0, Ensured
<1> HIDE DEF e, r0, u0
<1>2. IsSeq(res) /\ DOMAIN res = 1..Len(res) /\ IsSeq(opened) /\ DOMAIN opened = 1..Len(opened)
  BY <1>1, SeqFacts DEF BatchOK
<1>3. \A q : More(q, q)
  BY DEF More
<1>4. Copied(b, pl, k, opened) /\ Behind(b, opened, c) /\ More(res, opened)
  <2>1. CASE opened = res
    BY <1>3, <2>1
  <2>2. CASE opened = Append(res, r0) /\ \A i \in 1..Len(res) : res[i].from # r.from
    <3>1. ToSet(opened) = ToSet(res) \cup {r0}
      BY <1>2, <2>2, AppendedSet
    <3>2. \A i \in 1..Len(res) : res[i].from < r0.from
      <4>1. SUFFICES ASSUME NEW i \in 1..Len(res) PROVE res[i].from < r0.from
        OBVIOUS
      <4>2. res[i] \in ToSet(res) /\ ResourceOK(res[i])
        BY <1>2, IsElement, Inside
      <4>3. res[i].from <= c.res /\ res[i].from # c.res /\ res[i].from \in Nat
        BY <1>0, <2>2, <4>2 DEF Behind, ResourceOK
      <4>4. c.res \in Nat
        OBVIOUS
      <4>5. QED
        BY <1>a, <4>3, <4>4
    <3>3. Rising(opened)
      BY <1>2, <2>2, <3>2, RisingAppended DEF Copied
    <3>4. ResourceCopied(b, pl, k, r0)
      BY <1>0, <1>a, <1>b DEF ResourceCopied, Grew
    <3>5. Copied(b, pl, k, opened)
      BY <3>1, <3>3, <3>4 DEF Copied
    <3>6. Behind(b, opened, c)
      BY <1>a, <1>b, <3>1 DEF Behind
    <3>7. More(res, opened)
      BY <3>1 DEF More
    <3>8. QED
      BY <3>5, <3>6, <3>7
  <2>3. QED
    BY <1>1, <2>1, <2>2
<1> DEFINE p == opened[a]
           s == p.units
           s2 == Append(s, u0)
           p2 == WithUnits(p, p.attrs, s2)
<1>5. /\ ResourceOK(p) /\ p \in ToSet(opened) /\ p.from = c.res /\ IsSeq(s)
      /\ DOMAIN s = 1..Len(s) /\ UnitsOK(s)
  <2>1. ResourceOK(p) /\ p \in ToSet(opened)
    BY <1>1, <1>2, IsElement, Inside, Zenon
  <2>2. UnitsOK(s) /\ IsSeq(s)
    BY <2>1 DEF ResourceOK, UnitsOK
  <2>3. QED
    BY <1>0, <1>1, <2>1, <2>2, SeqFacts
<1>6. CASE e = opened /\ \E n \in DOMAIN opened[a].units : SameUnit(opened[a].units[n], u)
  <2>1. PICK n \in 1..Len(s) : s[n].from = c.unit
    BY <1>0, <1>5, <1>6 DEF SameUnit
  <2>2. s[n] \in ToSet(s)
    BY <1>5, IsElement
  <2>3. CarriesUnit(e, c.res, c.unit)
    BY <1>5, <1>6, <2>1, <2>2 DEF CarriesUnit
  <2>4. QED
    BY <1>4, <1>6, <1>c, <2>3 DEF e
<1>7. CASE /\ ~\E n \in DOMAIN opened[a].units : SameUnit(opened[a].units[n], u)
           /\ e = ReplaceAt(opened, a, p2)
  <2>1. p2.from = c.res /\ p2.attrs = p.attrs /\ p2.units = s2
    BY <1>5 DEF WithUnits
  <2>2. ToSet(s2) = ToSet(s) \cup {u0}
    BY <1>5, AppendedSet
  <2>3. ResourceCopied(b, pl, k, p) /\ \A v \in ToSet(s) : UnitBehind(b, v, c)
    BY <1>4, <1>5 DEF Copied, Behind
  <2>4. Rising(s2)
    <3>1. \A i \in 1..Len(s) : s[i].from < u0.from
      <4>1. SUFFICES ASSUME NEW i \in 1..Len(s) PROVE s[i].from < u0.from
        OBVIOUS
      <4>2. s[i] \in ToSet(s) /\ UnitOK(s[i])
        BY <1>5, IsElement DEF UnitsOK
      <4>3. s[i].from <= c.unit /\ s[i].from # c.unit /\ s[i].from \in Nat
        BY <1>0, <1>5, <1>7, <2>3, <4>2, Zenon DEF UnitBehind, UnitOK, SameUnit
      <4>4. c.unit \in Nat
        OBVIOUS
      <4>5. QED
        BY <1>a, <4>3, <4>4
    <3>2. QED
      BY <1>5, <2>3, <3>1, RisingAppended DEF ResourceCopied
  <2>5. UnitCopied(pl, k, b[c.res], u0) /\ UnitBehind(b, u0, c)
    <3>1. u0.from \in DOMAIN b[c.res].units /\ u0.name = b[c.res].units[u0.from].name
      BY <1>0, <1>a
    <3>2. RisingIds(u0.items) /\ ToSet(u0.items) = {}
      BY <1>a, <1>b
    <3>3. UnitCopied(pl, k, b[c.res], u0)
      BY <3>1, <3>2 DEF UnitCopied
    <3>4. c.unit <= c.unit
      OBVIOUS
    <3>5. UnitBehind(b, u0, c)
      BY <1>a, <3>2, <3>4 DEF UnitBehind
    <3>6. QED
      BY <3>3, <3>5
  <2> HIDE DEF s2, p2
  <2>6. ResourceCopied(b, pl, k, p2)
    <3>1. \A v \in ToSet(p2.units) : UnitCopied(pl, k, b[p2.from], v)
      BY <1>5, <2>1, <2>2, <2>3, <2>5 DEF ResourceCopied
    <3>2. (\E v \in ToSet(p2.units) : v.items # <<>>) => \E v \in ToSet(s) : v.items # <<>>
      BY <1>a, <2>1, <2>2
    <3>3. QED
      BY <1>5, <2>1, <2>3, <2>4, <3>1, <3>2 DEF ResourceCopied
  <2>7. \A v \in ToSet(p.units) : \E w \in ToSet(p2.units) :
           v.from = w.from /\ \A y \in ToSet(v.items) : \E z \in ToSet(w.items) : z.id = y.id
    BY <2>1, <2>2
  <2>8. Copied(b, pl, k, e) /\ More(opened, e)
    BY <1>1, <1>2, <1>4, <1>5, <1>7, <2>1, <2>6, <2>7, ResourceReplaced, Zenon
  <2>9. Behind(b, e, c)
    <3>1. c.res <= c.res /\ \A v \in ToSet(p2.units) : UnitBehind(b, v, c)
      BY <2>1, <2>2, <2>3, <2>5
    <3>2. QED
      BY <1>1, <1>2, <1>4, <1>7, <2>1, <3>1, BehindReplaced, Zenon
  <2>10. More(res, e)
    BY <1>4, <2>8, MoreTwice
  <2>11. CarriesUnit(e, c.res, c.unit)
    <3>1. p2 \in ToSet(e) /\ u0 \in ToSet(p2.units)
      BY <1>1, <1>2, <1>7, <2>1, <2>2, ReplacedSet, Zenon
    <3>2. QED
      BY <1>a, <2>1, <3>1 DEF CarriesUnit
  <2>12. QED
    BY <1>c, <2>8, <2>9, <2>10, <2>11 DEF e
<1>8. QED
  BY <1>1, <1>6, <1>7

\* What is behind a cursor is behind a later one.
CursorUpTo(c, d) ==
  \/ c.res < d.res
  \/ c.res = d.res /\ c.unit < d.unit
  \/ c.res = d.res /\ c.unit = d.unit /\ c.item <= d.item

LEMMA StillBehind ==
  ASSUME NEW b, BatchOK(b), NEW res, BatchOK(res), NEW c \in Cursors, NEW d \in Cursors,
         Behind(b, res, c), CursorUpTo(c, d),
         c.res = d.res /\ c.unit = d.unit =>
           c.res \in 1..Len(b) /\ c.unit \in 1..Len(b[c.res].units)
  PROVE  Behind(b, res, d)
<1>1. /\ c.res \in Nat /\ c.unit \in Nat /\ c.item \in Nat
      /\ d.res \in Nat /\ d.unit \in Nat /\ d.item \in Nat
  BY DEF Cursors
<1>2. SUFFICES ASSUME NEW q \in ToSet(res)
      PROVE  q.from <= d.res /\ (q.from = d.res => \A v \in ToSet(q.units) : UnitBehind(b, v, d))
  BY DEF Behind
<1>3. /\ q.from <= c.res /\ q.from \in Nat
      /\ q.from = c.res => \A v \in ToSet(q.units) : UnitBehind(b, v, c)
      /\ \A v \in ToSet(q.units) : v.from \in Nat
  <2>1. ResourceOK(q)
    BY DEF BatchOK
  <2>2. QED
    BY <2>1 DEF ResourceOK, UnitsOK, UnitOK, Behind
<1>4. q.from <= d.res
  BY <1>1, <1>3 DEF CursorUpTo
<1>5. ASSUME q.from = d.res, NEW v \in ToSet(q.units)
      PROVE  UnitBehind(b, v, d)
  <2>1. c.res = d.res
    BY <1>1, <1>3, <1>5 DEF CursorUpTo
  <2>2. UnitBehind(b, v, c) /\ v.from \in Nat
    BY <1>3, <1>5, <2>1
  <2>3. CASE c.unit < d.unit
    <3>1. v.from <= d.unit /\ v.from # d.unit
      BY <1>1, <2>2, <2>3 DEF UnitBehind
    <3>2. QED
      BY <3>1 DEF UnitBehind
  <2>4. CASE c.unit = d.unit /\ c.item <= d.item
    <3> DEFINE xs == b[c.res].units[c.unit].items
    <3>1. \A n \in DOMAIN xs : n \in Int
      <4>1. ItemsOK(xs)
        BY <2>1, <2>4, Inside, Zenon
      <4>2. QED
        BY <4>1, SeqFacts DEF ItemsOK
    <3>2. \A n \in DOMAIN xs : d.item <= n => c.item <= n
      BY <1>1, <2>4, <3>1
    <3>3. QED
      BY <2>1, <2>2, <2>4, <3>2 DEF UnitBehind
  <2>5. QED
    BY <1>1, <2>1, <2>3, <2>4 DEF CursorUpTo
<1>6. QED
  BY <1>4, <1>5

\* An item is copied, and the resource it is in gets what is promoted to it.
LEMMA LeafCopied ==
  ASSUME NEW b, BatchOK(b), InPlace(b), NEW pl, IsSeq(pl), NEW c \in Cursors,
         c.res \in 1..Len(b), c.unit \in 1..Len(b[c.res].units),
         c.item \in 1..Len(b[c.res].units[c.unit].items),
         NEW k, NEW e, BatchOK(e), Copied(b, pl, k, e), Behind(b, e, c),
         NEW a \in 1..Len(e), NEW n \in 1..Len(e[a].units),
         e[a].from = c.res, e[a].units[n].from = c.unit
  PROVE  LET r == b[c.res]
             u == r.units[c.unit]
             x == u.items[c.item]
             parts == Parts(pl, r, u, x.attrs)
             p == e[a]
             w == p.units[n]
             moved == WithAttrs(x, ApplyPromotions(pl, parts, ToLeaf, x.attrs))
             new == ReplaceAt(e, a,
                      WithUnits(p, ApplyPromotions(pl, parts, ToResource, p.attrs),
                                ReplaceAt(p.units, n, WithItem(w, moved))))
         IN  k = JoinParts(parts) =>
             /\ Copied(b, pl, k, new) /\ Behind(b, new, [c EXCEPT !.item = @ + 1])
             /\ More(e, new) /\ Carries(new, c.res, c.unit, x.id)
<1> DEFINE r == b[c.res]
           u == r.units[c.unit]
           xs == u.items
           x == xs[c.item]
           parts == Parts(pl, r, u, x.attrs)
           p == e[a]
           s == p.units
           w == s[n]
           moved == WithAttrs(x, ApplyPromotions(pl, parts, ToLeaf, x.attrs))
           w2 == WithItem(w, moved)
           s2 == ReplaceAt(s, n, w2)
           m == ApplyPromotions(pl, parts, ToResource, p.attrs)
           p2 == WithUnits(p, m, s2)
           new == ReplaceAt(e, a, p2)
           d == [c EXCEPT !.item = @ + 1]
<1>0. /\ c.res \in Nat /\ c.unit \in Nat /\ c.item \in Nat
      /\ c.res <= c.res /\ c.unit <= c.unit /\ c.item <= c.item
      /\ d.res = c.res /\ d.unit = c.unit /\ d.item = c.item + 1 /\ d \in Cursors
      /\ CursorUpTo(c, d)
  <2>1. c = [res |-> c.res, unit |-> c.unit, item |-> c.item]
        /\ c.res \in Nat /\ c.unit \in Nat /\ c.item \in Nat
    BY DEF Cursors
  <2>2. d = [res |-> c.res, unit |-> c.unit, item |-> c.item + 1]
    BY <2>1
  <2> HIDE DEF d
  <2>3. QED
    BY <2>1, <2>2 DEF Cursors, CursorUpTo
<1>1. /\ IsSeq(b) /\ DOMAIN b = 1..Len(b) /\ IsSeq(r.units) /\ DOMAIN r.units = 1..Len(r.units)
      /\ ItemsOK(xs) /\ IsSeq(xs) /\ DOMAIN xs = 1..Len(xs) /\ x \in ToSet(xs) /\ ItemOK(x)
      /\ RisingIds(xs)
  <2>1. IsSeq(b) /\ UnitsOK(r.units) /\ ItemsOK(xs)
    BY Inside, Zenon DEF BatchOK
  <2>2. IsSeq(r.units) /\ IsSeq(xs)
    BY <2>1 DEF UnitsOK, ItemsOK
  <2>3. x \in ToSet(xs)
    BY <2>2, IsElement, Zenon
  <2>4. RisingIds(xs)
    BY Zenon DEF InPlace
  <2>5. QED
    BY <2>1, <2>2, <2>3, <2>4, SeqFacts, Zenon DEF ItemsOK
<1>2. /\ IsSeq(e) /\ p \in ToSet(e) /\ ResourceOK(p) /\ UnitsOK(s) /\ IsSeq(s) /\ w \in ToSet(s)
      /\ UnitOK(w) /\ ItemsOK(w.items) /\ IsSeq(w.items)
  <2>1. IsSeq(e) /\ p \in ToSet(e) /\ ResourceOK(p)
    BY IsElement, Inside DEF BatchOK
  <2>2. UnitsOK(s) /\ IsSeq(s)
    BY <2>1 DEF ResourceOK, UnitsOK
  <2>3. w \in ToSet(s) /\ UnitOK(w)
    BY <2>2, IsElement DEF UnitsOK
  <2>4. QED
    BY <2>1, <2>2, <2>3 DEF UnitOK, ItemsOK
<1>3. p.from = c.res /\ w.from = c.unit
  OBVIOUS
<1>4. /\ ResourceCopied(b, pl, k, p) /\ UnitCopied(pl, k, r, w) /\ UnitBehind(b, w, c)
      /\ \A v \in ToSet(s) : UnitCopied(pl, k, r, v) /\ UnitBehind(b, v, c)
  BY <1>2, <1>3, Zenon DEF Copied, ResourceCopied, Behind
<1>5. moved.id = x.id /\ moved.attrs = ApplyPromotions(pl, parts, ToLeaf, x.attrs)
  BY DEF WithAttrs
<1>6. w2.from = w.from /\ w2.name = w.name /\ w2.items = Append(w.items, moved)
  BY Zenon DEF WithItem
<1>7. p2.from = p.from /\ p2.attrs = m /\ p2.units = s2
  BY DEF WithUnits
<1>8. SUFFICES ASSUME k = JoinParts(parts)
      PROVE  /\ Copied(b, pl, k, new) /\ Behind(b, new, d)
             /\ More(e, new) /\ Carries(new, c.res, c.unit, x.id)
  BY Zenon
<1>9. Grown(pl, x.attrs, moved.attrs, parts, ToLeaf)
  <2>1. Grew(pl, x.attrs, x.attrs, parts, ToLeaf) /\ SameFrom(pl, ToLeaf, parts, parts)
    BY Zenon DEF Grew, SameFrom
  <2> HIDE DEF parts, x, moved
  <2>2. QED
    BY <1>5, <2>1, PromotionsGrow
<1>10. Grown(pl, r.attrs, m, ResourceParts(pl, r), ToResource)
  <2>1. Grew(pl, r.attrs, p.attrs, ResourceParts(pl, r), ToResource)
    BY <1>3, <1>4 DEF ResourceCopied
  <2>2. SameFrom(pl, ToResource, parts, ResourceParts(pl, r))
    BY ResourcePartsSame
  <2> HIDE DEF parts, r, p
  <2>3. QED
    BY <2>1, <2>2, PromotionsGrow
<1>11. ToSet(w2.items) = ToSet(w.items) \cup {moved}
  <2> HIDE DEF moved, w, w2
  <2>1. QED
    BY <1>2, <1>6, AppendedSet
<1>12. UnitCopied(pl, k, r, w2)
  <2>1. ItemCopied(pl, k, r, u, x, moved)
    BY <1>5, <1>8, <1>9, Zenon DEF ItemCopied
  <2>2. \A i \in 1..Len(w.items) : w.items[i].id < x.id
    <3>1. SUFFICES ASSUME NEW i \in 1..Len(w.items) PROVE w.items[i].id < x.id
      OBVIOUS
    <3>2. w.items[i] \in ToSet(w.items)
      BY <1>2, IsElement, Zenon
    <3>3. c.item \in DOMAIN xs /\ c.item <= c.item
      <4>1. c.item \in 1..Len(xs)
        OBVIOUS
      <4> HIDE DEF xs
      <4>2. QED
        BY <1>0, <1>1, <4>1
    <3>4. QED
      BY <1>3, <1>4, <3>2, <3>3, Zenon DEF UnitBehind
  <2> HIDE DEF moved, x, w, w2
  <2>3. RisingIds(w2.items)
    BY <1>2, <1>4, <1>5, <1>6, <2>2, RisingIdsAppended, Zenon DEF UnitCopied
  <2>4. \A y \in ToSet(w2.items) :
          \E z \in ToSet(r.units[w.from].items) : ItemCopied(pl, k, r, r.units[w.from], z, y)
    BY <1>1, <1>3, <1>4, <1>11, <2>1, Zenon DEF UnitCopied
  <2>5. QED
    BY <1>4, <1>6, <2>3, <2>4 DEF UnitCopied
<1>13. UnitBehind(b, w2, d)
  <2> HIDE DEF d
  <2>2. ASSUME NEW y \in ToSet(w2.items), NEW i \in 1..Len(xs), d.item <= i
        PROVE  y.id < xs[i].id
    <3>1. c.item <= i /\ c.item < i /\ c.item \in 1..Len(xs)
      <4>1. c.item \in 1..Len(xs)
        BY Zenon
      <4> HIDE DEF xs
      <4>2. QED
        BY <1>0, <2>2, <4>1
    <3>2. CASE y \in ToSet(w.items)
      BY <1>1, <1>3, <1>4, <3>1, <3>2, Zenon DEF UnitBehind
    <3>3. CASE y = moved
      <4>1. x.id < xs[i].id
        BY <1>1, <2>2, <3>1, Zenon DEF RisingIds
      <4>2. QED
        BY <1>5, <3>3, <4>1, Zenon
    <3>4. QED
      BY <1>11, <2>2, <3>2, <3>3, Zenon
  <2>3. w2.from <= d.unit
    <3> HIDE DEF w2, w
    <3>1. QED
      BY <1>0, <1>3, <1>6
  <2>4. QED
    BY <1>0, <1>1, <2>2, <2>3, Zenon DEF UnitBehind
<1>14. /\ w2 \in ToSet(s2)
       /\ \A y \in ToSet(s2) : y = w2 \/ y \in ToSet(s)
       /\ \A y \in ToSet(s) : y = w \/ y \in ToSet(s2)
       /\ Rising(s2)
  <2>1. Rising(s)
    BY <1>4 DEF ResourceCopied
  <2>2. w2.from = s[n].from
    BY <1>6, Zenon
  <2>3. n \in 1..Len(s)
    OBVIOUS
  <2> HIDE DEF w2, s
  <2>4. Rising(ReplaceAt(s, n, w2))
    BY <1>2, <2>1, <2>2, <2>3, RisingReplaced
  <2>5. /\ w2 \in ToSet(ReplaceAt(s, n, w2))
        /\ \A y \in ToSet(ReplaceAt(s, n, w2)) : y = w2 \/ y \in ToSet(s)
        /\ \A y \in ToSet(s) : y = s[n] \/ y \in ToSet(ReplaceAt(s, n, w2))
    BY <1>2, <2>3, ReplacedSet
  <2>6. QED
    BY <2>4, <2>5
<1>15. ResourceCopied(b, pl, k, p2)
  <2> HIDE DEF w2, s2, p2, m
  <2>1. \A v \in ToSet(p2.units) : UnitCopied(pl, k, r, v)
    BY <1>4, <1>7, <1>12, <1>14
  <2>2. QED
    BY <1>1, <1>3, <1>7, <1>10, <1>14, <2>1, Zenon DEF ResourceCopied, Grown
<1>16. \A v \in ToSet(s) : \E y \in ToSet(p2.units) :
         v.from = y.from /\ \A i \in ToSet(v.items) : \E z \in ToSet(y.items) : z.id = i.id
  <2> HIDE DEF w2, s2, p2, m, w, moved
  <2>1. SUFFICES ASSUME NEW v \in ToSet(s)
                 PROVE  \E y \in ToSet(s2) :
                          v.from = y.from
                          /\ \A i \in ToSet(v.items) : \E z \in ToSet(y.items) : z.id = i.id
    BY <1>7, Zenon
  <2>2. CASE v = w
    BY <1>6, <1>11, <1>14, <2>2, Zenon
  <2>3. CASE v # w
    BY <1>14, <2>1, <2>3
  <2>4. QED
    BY <2>2, <2>3
<1>17. Copied(b, pl, k, new) /\ More(e, new)
  <2>1. p2.from = e[a].from /\ s = e[a].units
    BY <1>7, Zenon
  <2> HIDE DEF p2, s
  <2>2. QED
    BY <1>2, <1>15, <1>16, <2>1, ResourceReplaced DEF new
<1>18. Behind(b, new, d)
  <2> HIDE DEF d
  <2>2. Behind(b, e, d)
    BY <1>0, StillBehind
  <2>3. \A v \in ToSet(s) : UnitBehind(b, v, d)
    BY <1>0, <1>2, <1>3, <2>2 DEF Behind
  <2>4. \A v \in ToSet(p2.units) : UnitBehind(b, v, d)
    BY <1>7, <1>13, <1>14, <2>3, Zenon
  <2>5. p2.from <= d.res
    <3> HIDE DEF p2, p
    <3>1. QED
      BY <1>0, <1>3, <1>7
  <2> HIDE DEF p2
  <2>6. QED
    BY <1>2, <2>2, <2>4, <2>5, BehindReplaced DEF new
<1>19. Carries(new, c.res, c.unit, x.id)
  <2>1. p2 \in ToSet(new)
    <3> HIDE DEF p2
    <3>1. QED
      BY <1>2, ReplacedSet DEF new
  <2>2. moved \in ToSet(w2.items) /\ w2 \in ToSet(p2.units)
    BY <1>7, <1>11, <1>14, Zenon
  <2> HIDE DEF new, p2, w2, moved, x
  <2>3. QED
    BY <1>3, <1>5, <1>6, <1>7, <2>1, <2>2, Zenon DEF Carries
<1>20. QED
  BY <1>17, <1>18, <1>19, Zenon

-----------------------------------------------------------------------------
(***************************************************************************)
(* What holds of the groups at cursor c.                                   *)
(***************************************************************************)
\* An item, or a unit without items, is in the group of its key.
HoldsItem(b, pl, gs, a, k, x) ==
  \E g \in ToSet(gs) :
    g.key = JoinParts(Parts(pl, b[a], b[a].units[k], x.attrs)) /\ Carries(g.res, a, k, x.id)
HoldsUnit(b, pl, gs, a, k) ==
  \E g \in ToSet(gs) :
    g.key = JoinParts(Parts(pl, b[a], b[a].units[k], NoAttrs)) /\ CarriesUnit(g.res, a, k)

\* What the cursor has passed.
PastUnit(c, a, k) == a < c.res \/ (a = c.res /\ k < c.unit)
PastItem(c, a, k, n) == PastUnit(c, a, k) \/ (a = c.res /\ k = c.unit /\ n < c.item)

Covered(b, pl, gs, c) ==
  \A a \in 1..Len(b) : \A k \in 1..Len(b[a].units) :
    /\ b[a].units[k].items = <<>> /\ PastUnit(c, a, k) => HoldsUnit(b, pl, gs, a, k)
    /\ \A n \in 1..Len(b[a].units[k].items) :
         PastItem(c, a, k, n) => HoldsItem(b, pl, gs, a, k, b[a].units[k].items[n])

\* Nothing else is covered at d than at c.
PassedNow(b, pl, gs, c, d) ==
  \A a \in 1..Len(b) : \A k \in 1..Len(b[a].units) :
    /\ b[a].units[k].items = <<>> /\ PastUnit(d, a, k) =>
         PastUnit(c, a, k) \/ HoldsUnit(b, pl, gs, a, k)
    /\ \A n \in 1..Len(b[a].units[k].items) :
         PastItem(d, a, k, n) =>
           PastItem(c, a, k, n) \/ HoldsItem(b, pl, gs, a, k, b[a].units[k].items[n])

Grouped(b, pl, gs, c) ==
  /\ DistinctKeys(gs)
  /\ \A g \in ToSet(gs) : Copied(b, pl, g.key, g.res) /\ Behind(b, g.res, c)
  /\ ResourceOnly(pl) => \A g \in ToSet(gs) : \A q \in ToSet(g.res) : q.from < c.res
  /\ Covered(b, pl, gs, c)

\* Where the cursor goes, and that it can be there.
CursorGoes(b, c, d) ==
  /\ c \in Cursors /\ d \in Cursors /\ CursorUpTo(c, d)
  /\ c.res = d.res /\ c.unit = d.unit =>
       c.res \in 1..Len(b) /\ c.unit \in 1..Len(b[c.res].units)

LEMMA GoesOn ==
  ASSUME NEW b, NEW c, NEW d, CursorGoes(b, c, d)
  PROVE  c.res <= d.res /\ c.res \in Nat /\ d.res \in Nat
BY DEF CursorGoes, CursorUpTo, Cursors

\* The loops go on without a group changed.
LEMMA GroupedOn ==
  ASSUME NEW b, BatchOK(b), NEW pl, NEW gs, GroupsOK(gs), NEW c, NEW d,
         Grouped(b, pl, gs, c), CursorGoes(b, c, d), PassedNow(b, pl, gs, c, d)
  PROVE  Grouped(b, pl, gs, d)
<1>1. c.res <= d.res /\ c.res \in Nat /\ d.res \in Nat
  BY GoesOn
<1>2. \A g \in ToSet(gs) : BatchOK(g.res) /\ \A q \in ToSet(g.res) : q.from \in Nat
  BY DEF GroupsOK, GroupOK, BatchOK, ResourceOK
<1>3. \A g \in ToSet(gs) : Behind(b, g.res, d)
  BY <1>2, StillBehind DEF Grouped, CursorGoes
<1>4. ResourceOnly(pl) => \A g \in ToSet(gs) : \A q \in ToSet(g.res) : q.from < d.res
  BY <1>1, <1>2 DEF Grouped
<1>5. Covered(b, pl, gs, d)
  BY DEF Grouped, Covered, PassedNow
<1>6. QED
  BY <1>3, <1>4, <1>5 DEF Grouped

\* The group that gets something.
LEMMA OldGroup ==
  ASSUME NEW b, NEW pl, NEW gs, GroupsOK(gs), NEW c, Grouped(b, pl, gs, c),
         NEW k, NEW old, NEW after, NEW new, Swapped(gs, k, old, after, new)
  PROVE  /\ BatchOK(old) /\ Copied(b, pl, k, old) /\ Behind(b, old, c)
         /\ ResourceOnly(pl) => \A q \in ToSet(old) : q.from < c.res
<1>1. CASE old = <<>>
  <2>1. ToSet(old) = {} /\ Rising(old)
    BY <1>1 DEF ToSet, Rising
  <2>2. BatchOK(old)
    BY <1>1, BatchNone
  <2>3. QED
    BY <2>1, <2>2 DEF Copied, Behind
<1>2. CASE \E h \in ToSet(gs) : h.key = k /\ h.res = old
  BY <1>2 DEF Grouped, GroupsOK, GroupOK
<1>3. QED
  BY <1>1, <1>2 DEF Swapped

\* What was held is held.
LEMMA StillHeld ==
  ASSUME NEW gs, NEW k, NEW old, NEW after, NEW new, Swapped(gs, k, old, after, new),
         More(old, new), NEW b, NEW pl, NEW a, NEW j
  PROVE  /\ HoldsUnit(b, pl, gs, a, j) => HoldsUnit(b, pl, after, a, j)
         /\ \A x : HoldsItem(b, pl, gs, a, j, x) => HoldsItem(b, pl, after, a, j, x)
<1>1. ASSUME HoldsUnit(b, pl, gs, a, j)
      PROVE  HoldsUnit(b, pl, after, a, j)
  <2> DEFINE key0 == JoinParts(Parts(pl, b[a], b[a].units[j], NoAttrs))
  <2>1. PICK h \in ToSet(gs) : h.key = key0 /\ CarriesUnit(h.res, a, j)
    BY <1>1 DEF HoldsUnit
  <2> HIDE DEF key0
  <2>2. \E g \in ToSet(after) : g.key = key0 /\ CarriesUnit(g.res, a, j)
    <3>1. CASE h.key = k /\ h.res = old
      BY <2>1, <3>1, MoreCarries DEF Swapped
    <3>2. CASE h \in ToSet(after)
      BY <2>1, <3>2
    <3>3. QED
      BY <3>1, <3>2 DEF Swapped
  <2>3. QED
    BY <2>2 DEF HoldsUnit, key0
<1>2. ASSUME NEW x, HoldsItem(b, pl, gs, a, j, x)
      PROVE  HoldsItem(b, pl, after, a, j, x)
  <2> DEFINE key0 == JoinParts(Parts(pl, b[a], b[a].units[j], x.attrs))
  <2>1. PICK h \in ToSet(gs) : h.key = key0 /\ Carries(h.res, a, j, x.id)
    BY <1>2 DEF HoldsItem
  <2> HIDE DEF key0
  <2>2. \E g \in ToSet(after) : g.key = key0 /\ Carries(g.res, a, j, x.id)
    <3>1. CASE h.key = k /\ h.res = old
      BY <2>1, <3>1, MoreCarries DEF Swapped
    <3>2. CASE h \in ToSet(after)
      BY <2>1, <3>2
    <3>3. QED
      BY <3>1, <3>2 DEF Swapped
  <2>3. QED
    BY <2>2 DEF HoldsItem, key0
<1>3. QED
  BY <1>1, <1>2

\* A group gets something.
LEMMA GroupedMore ==
  ASSUME NEW b, BatchOK(b), NEW pl, NEW gs, GroupsOK(gs), NEW c, NEW d,
         Grouped(b, pl, gs, c), CursorGoes(b, c, d),
         NEW k, NEW old, NEW after, NEW new, Swapped(gs, k, old, after, new),
         DistinctKeys(after), Copied(b, pl, k, new), Behind(b, new, d), More(old, new),
         ResourceOnly(pl) => \A q \in ToSet(new) : q.from < d.res,
         PassedNow(b, pl, after, c, d)
  PROVE  Grouped(b, pl, after, d)
<1>1. c.res <= d.res /\ c.res \in Nat /\ d.res \in Nat
  BY GoesOn
<1>2. \A g \in ToSet(gs) : BatchOK(g.res) /\ \A q \in ToSet(g.res) : q.from \in Nat
  BY DEF GroupsOK, GroupOK, BatchOK, ResourceOK
<1>3. \A g \in ToSet(gs) : Behind(b, g.res, d)
  BY <1>2, StillBehind DEF Grouped, CursorGoes
<1>4. ResourceOnly(pl) => \A g \in ToSet(gs) : \A q \in ToSet(g.res) : q.from < d.res
  BY <1>1, <1>2 DEF Grouped
<1>5. \A g \in ToSet(after) : (g.key = k /\ g.res = new) \/ g \in ToSet(gs)
  BY DEF Swapped
<1>6. \A g \in ToSet(after) : Copied(b, pl, g.key, g.res) /\ Behind(b, g.res, d)
  BY <1>3, <1>5 DEF Grouped
<1>7. ResourceOnly(pl) => \A g \in ToSet(after) : \A q \in ToSet(g.res) : q.from < d.res
  BY <1>4, <1>5
<1>8. ASSUME NEW a \in 1..Len(b), NEW j \in 1..Len(b[a].units)
      PROVE  /\ b[a].units[j].items = <<>> /\ PastUnit(d, a, j) => HoldsUnit(b, pl, after, a, j)
             /\ \A n \in 1..Len(b[a].units[j].items) :
                  PastItem(d, a, j, n) => HoldsItem(b, pl, after, a, j, b[a].units[j].items[n])
  <2>1. /\ HoldsUnit(b, pl, gs, a, j) => HoldsUnit(b, pl, after, a, j)
        /\ \A x : HoldsItem(b, pl, gs, a, j, x) => HoldsItem(b, pl, after, a, j, x)
    BY StillHeld
  <2>2. /\ b[a].units[j].items = <<>> /\ PastUnit(c, a, j) => HoldsUnit(b, pl, gs, a, j)
        /\ \A n \in 1..Len(b[a].units[j].items) :
             PastItem(c, a, j, n) => HoldsItem(b, pl, gs, a, j, b[a].units[j].items[n])
    BY Zenon DEF Grouped, Covered
  <2>3. /\ b[a].units[j].items = <<>> /\ PastUnit(d, a, j) =>
             PastUnit(c, a, j) \/ HoldsUnit(b, pl, after, a, j)
        /\ \A n \in 1..Len(b[a].units[j].items) :
             PastItem(d, a, j, n) =>
               PastItem(c, a, j, n) \/ HoldsItem(b, pl, after, a, j, b[a].units[j].items[n])
    BY DEF PassedNow
  <2>4. QED
    BY <2>1, <2>2, <2>3
<1>9. QED
  BY <1>6, <1>7, <1>8 DEF Grouped, Covered

\* One step of groupByLeaf: the item at the cursor goes to the group of its key.
LEMMA LeafGrouped ==
  ASSUME NEW b, BatchOK(b), InPlace(b), NEW pl, IsSeq(pl), ~ResourceOnly(pl),
         NEW gs, GroupsOK(gs), NEW c \in Cursors, Grouped(b, pl, gs, c),
         c.res \in 1..Len(b), c.unit \in 1..Len(b[c.res].units),
         c.item \in 1..Len(b[c.res].units[c.unit].items)
  PROVE  LET r == b[c.res]
             u == r.units[c.unit]
         IN  Grouped(b, pl, AddLeaf(pl, gs, r, u, u.items[c.item]), [c EXCEPT !.item = @ + 1])
<1> DEFINE r == b[c.res]
           u == r.units[c.unit]
           x == u.items[c.item]
           d == [c EXCEPT !.item = @ + 1]
           parts == Parts(pl, r, u, x.attrs)
           k == JoinParts(parts)
           opened == BucketFor(gs, k)
           g == SelectInSeq(opened, LAMBDA h : h.key = k)
           old == opened[g].res
           e == Ensure(old, r, u)
           moved == WithAttrs(x, ApplyPromotions(pl, parts, ToLeaf, x.attrs))
<1>1. ResourceOK(r) /\ UnitOK(u) /\ ItemsOK(u.items)
  BY Inside, Zenon
<1>2. ItemOK(x)
  BY <1>1, IsElement DEF ItemsOK
<1>3. /\ BatchOK(old) /\ BatchOK(e)
      /\ LeafPut(pl, r, u, x, parts, opened, g, e, AddLeaf(pl, gs, r, u, x))
  BY <1>1, <1>2, LeafShape, Zenon
<1>4. PICK a \in 1..Len(e) : \E n \in 1..Len(e[a].units) :
           /\ e[a].from = r.from /\ e[a].units[n].from = u.from
           /\ AddLeaf(pl, gs, r, u, x) =
                [opened EXCEPT ![g].res = ReplaceAt(e, a,
                   WithUnits(e[a], ApplyPromotions(pl, parts, ToResource, e[a].attrs),
                             ReplaceAt(e[a].units, n, WithItem(e[a].units[n], moved))))]
  <2> HIDE DEF e, opened, g, parts, x, u, r
  <2>1. QED
    BY <1>3, Zenon DEF LeafPut
<1>5. PICK n \in 1..Len(e[a].units) :
           /\ e[a].from = r.from /\ e[a].units[n].from = u.from
           /\ AddLeaf(pl, gs, r, u, x) =
                [opened EXCEPT ![g].res = ReplaceAt(e, a,
                   WithUnits(e[a], ApplyPromotions(pl, parts, ToResource, e[a].attrs),
                             ReplaceAt(e[a].units, n, WithItem(e[a].units[n], moved))))]
  BY <1>4, Zenon
<1> DEFINE new == ReplaceAt(e, a,
                    WithUnits(e[a], ApplyPromotions(pl, parts, ToResource, e[a].attrs),
                              ReplaceAt(e[a].units, n, WithItem(e[a].units[n], moved))))
           after == [opened EXCEPT ![g].res = new]
<1>6. /\ e[a].from = c.res /\ e[a].units[n].from = c.unit
      /\ AddLeaf(pl, gs, r, u, x) = after
  BY <1>5, Zenon DEF InPlace
<1>7. DistinctKeys(gs) /\ Copied(b, pl, k, old) /\ Behind(b, old, c)
      /\ DistinctKeys(after) /\ Swapped(gs, k, old, after, new)
  <2>1. DistinctKeys(gs)
    BY Zenon DEF Grouped
  <2>2. DistinctKeys(after) /\ Swapped(gs, k, old, after, new)
    BY <2>1, BucketMoved, Zenon
  <2> HIDE DEF k, old, after, new
  <2>3. Copied(b, pl, k, old) /\ Behind(b, old, c)
    BY <2>2, OldGroup, Zenon
  <2>4. QED
    BY <2>1, <2>2, <2>3
<1>8. /\ Copied(b, pl, k, e) /\ Behind(b, e, c) /\ More(old, e)
  <2> HIDE DEF k, old
  <2>1. QED
    BY <1>3, <1>7, EnsureCopies, Zenon
<1>9. Copied(b, pl, k, new) /\ Behind(b, new, d) /\ More(e, new) /\ Carries(new, c.res, c.unit, x.id)
  <2> HIDE DEF old, e
  <2>1. QED
    BY <1>3, <1>6, <1>8, LeafCopied, Zenon
<1> HIDE DEF new, after, e, old
<1>10. More(old, new)
  BY <1>8, <1>9, MoreTwice, Zenon
<1>11. /\ d \in Cursors /\ d.res = c.res /\ d.unit = c.unit /\ d.item = c.item + 1
       /\ c.res \in Nat /\ c.unit \in Nat /\ c.item \in Nat
  BY DEF Cursors
<1> HIDE DEF d
<1>12. CursorGoes(b, c, d)
  BY <1>11 DEF CursorGoes, CursorUpTo
<1>13. HoldsItem(b, pl, after, c.res, c.unit, x)
  BY <1>7, <1>9, Zenon DEF Swapped, HoldsItem
<1>14. PassedNow(b, pl, after, c, d)
  <2>1. ASSUME NEW aa \in 1..Len(b), NEW kk \in 1..Len(b[aa].units)
        PROVE  /\ PastUnit(d, aa, kk) => PastUnit(c, aa, kk)
               /\ \A nn \in 1..Len(b[aa].units[kk].items) :
                    PastItem(d, aa, kk, nn) =>
                      PastItem(c, aa, kk, nn) \/ (aa = c.res /\ kk = c.unit /\ nn = c.item)
    BY <1>11 DEF PastUnit, PastItem
  <2>2. QED
    BY <1>13, <2>1, Zenon DEF PassedNow
<1>15. Grouped(b, pl, after, d)
  <2> HIDE DEF k
  <2>1. QED
    BY <1>7, <1>9, <1>10, <1>12, <1>14, GroupedMore
<1>16. QED
  BY <1>6, <1>15 DEF d

\* The end of a unit; a metric without data points gets its copy.
LEMMA UnitGrouped ==
  ASSUME NEW b, BatchOK(b), InPlace(b), NEW pl, IsSeq(pl), ~ResourceOnly(pl),
         NEW gs, GroupsOK(gs), NEW c \in Cursors, Grouped(b, pl, gs, c),
         c.res \in 1..Len(b), c.unit \in 1..Len(b[c.res].units),
         c.item > Len(b[c.res].units[c.unit].items)
  PROVE  LET r == b[c.res]
             u == r.units[c.unit]
             d == [c EXCEPT !.unit = @ + 1, !.item = 1]
         IN  /\ u.items = <<>> => Grouped(b, pl, AddShell(pl, gs, r, u), d)
             /\ u.items # <<>> => Grouped(b, pl, gs, d)
<1> DEFINE r == b[c.res]
           u == r.units[c.unit]
           d == [c EXCEPT !.unit = @ + 1, !.item = 1]
<1>1. ResourceOK(r) /\ UnitOK(u)
  BY Inside
<1>2. /\ d \in Cursors /\ d.res = c.res /\ d.unit = c.unit + 1 /\ d.item = 1
      /\ c.res \in Nat /\ c.unit \in Nat /\ c.item \in Nat
  <2>1. /\ c = [res |-> c.res, unit |-> c.unit, item |-> c.item]
        /\ c.res \in Nat /\ c.unit \in Nat /\ c.item \in Nat
    BY DEF Cursors
  <2>2. [c EXCEPT !.unit = @ + 1] = [res |-> c.res, unit |-> c.unit + 1, item |-> c.item]
    BY <2>1
  <2>2a. d = [[c EXCEPT !.unit = @ + 1] EXCEPT !.item = 1]
    OBVIOUS
  <2>2b. d = [res |-> c.res, unit |-> c.unit + 1, item |-> 1]
    <3> DEFINE e == [c EXCEPT !.unit = @ + 1]
    <3>1. e = [res |-> c.res, unit |-> c.unit + 1, item |-> c.item] /\ d = [e EXCEPT !.item = 1]
      BY <2>2, <2>2a
    <3> HIDE DEF d, e
    <3>2. QED
      BY <3>1
  <2>3. QED
    BY <2>1, <2>2b DEF Cursors
<1> HIDE DEF d
<1>3. CursorUpTo(c, d) /\ CursorGoes(b, c, d)
  BY <1>2 DEF CursorGoes, CursorUpTo
<1>4. ASSUME NEW aa \in 1..Len(b), NEW kk \in 1..Len(b[aa].units)
      PROVE  /\ PastUnit(d, aa, kk) => PastUnit(c, aa, kk) \/ (aa = c.res /\ kk = c.unit)
             /\ \A nn \in 1..Len(b[aa].units[kk].items) :
                  PastItem(d, aa, kk, nn) => PastItem(c, aa, kk, nn)
  <2>1. PastUnit(d, aa, kk) => PastUnit(c, aa, kk) \/ (aa = c.res /\ kk = c.unit)
    BY <1>2 DEF PastUnit
  <2>2. ASSUME NEW nn \in 1..Len(b[aa].units[kk].items), PastItem(d, aa, kk, nn)
        PROVE  PastItem(c, aa, kk, nn)
    <3>1. nn \in Nat /\ nn >= 1
      BY <2>2
    <3>2. PastUnit(d, aa, kk)
      BY <1>2, <2>2, <3>1 DEF PastItem
    <3>3. CASE aa = c.res /\ kk = c.unit
      <4>1. Len(b[aa].units[kk].items) \in Nat
        BY Inside, Zenon
      <4>2. nn < c.item
        BY <1>2, <2>2, <3>3, <4>1
      <4>3. QED
        BY <3>3, <4>2 DEF PastItem
    <3>4. QED
      BY <2>1, <3>2, <3>3 DEF PastItem
  <2>3. QED
    BY <2>1, <2>2
<1>5. CASE u.items # <<>>
  <2>1. PassedNow(b, pl, gs, c, d)
    BY <1>4, <1>5, Zenon DEF PassedNow
  <2>2. Grouped(b, pl, gs, d)
    BY <1>3, <2>1, GroupedOn
  <2>3. QED
    BY <1>5, <2>2, Zenon DEF d
<1>6. CASE u.items = <<>>
  <2> DEFINE k == JoinParts(Parts(pl, r, u, NoAttrs))
             opened == BucketFor(gs, k)
             g == SelectInSeq(opened, LAMBDA h : h.key = k)
             old == opened[g].res
             new == Ensure(old, r, u)
             after == [opened EXCEPT ![g].res = new]
  <2>1. AddShell(pl, gs, r, u) = after
    BY DEF AddShell, Parts
  <2>2. DistinctKeys(gs)
    BY DEF Grouped
  <2>3. DistinctKeys(after) /\ Swapped(gs, k, old, after, new)
    BY <2>2, BucketMoved, Zenon
  <2>4. k = JoinParts(Parts(pl, b[c.res], b[c.res].units[c.unit], NoAttrs))
    OBVIOUS
  <2>5. new = Ensure(old, b[c.res], b[c.res].units[c.unit])
    OBVIOUS
  <2> HIDE DEF k, old, new, after
  <2>6. BatchOK(old) /\ Copied(b, pl, k, old) /\ Behind(b, old, c)
    BY <2>3, OldGroup, Zenon
  <2>7. /\ BatchOK(new) /\ Copied(b, pl, k, new) /\ Behind(b, new, c) /\ More(old, new)
        /\ CarriesUnit(new, c.res, c.unit)
    BY <2>5, <2>6, EnsureCopies
  <2>8. Behind(b, new, d)
    BY <1>2, <1>3, <2>7, StillBehind
  <2>9. HoldsUnit(b, pl, after, c.res, c.unit)
    BY <2>3, <2>4, <2>7 DEF Swapped, HoldsUnit
  <2>10. PassedNow(b, pl, after, c, d)
    BY <1>4, <2>9, Zenon DEF PassedNow
  <2>11. Grouped(b, pl, after, d)
    BY <1>3, <2>3, <2>7, <2>8, <2>10, GroupedMore
  <2>12. QED
    BY <1>6, <2>1, <2>11 DEF d
<1>7. QED
  BY <1>5, <1>6

\* The end of a resource.
LEMMA ResourceGrouped ==
  ASSUME NEW b, BatchOK(b), NEW pl, NEW gs, GroupsOK(gs), NEW c \in Cursors,
         Grouped(b, pl, gs, c), c.res \in 1..Len(b), c.unit > Len(b[c.res].units)
  PROVE  Grouped(b, pl, gs, [res |-> c.res + 1, unit |-> 1, item |-> 1])
<1> DEFINE d == [res |-> c.res + 1, unit |-> 1, item |-> 1]
<1>1. /\ d \in Cursors /\ d.res = c.res + 1 /\ d.unit = 1 /\ d.item = 1
      /\ c.res \in Nat /\ c.unit \in Nat /\ c.item \in Nat
  BY DEF Cursors
<1> HIDE DEF d
<1>2. CursorGoes(b, c, d)
  BY <1>1 DEF CursorGoes, CursorUpTo
<1>3. ASSUME NEW aa \in 1..Len(b), NEW kk \in 1..Len(b[aa].units)
      PROVE  /\ PastUnit(d, aa, kk) => PastUnit(c, aa, kk)
             /\ \A nn \in 1..Len(b[aa].units[kk].items) :
                  PastItem(d, aa, kk, nn) => PastItem(c, aa, kk, nn)
  <2>1. Len(b[c.res].units) \in Nat
    BY Inside
  <2>2. PastUnit(d, aa, kk) => PastUnit(c, aa, kk)
    <3>1. aa = c.res => kk < c.unit
      BY <1>1, <2>1
    <3>2. QED
      BY <1>1, <3>1 DEF PastUnit
  <2>3. ASSUME NEW nn \in 1..Len(b[aa].units[kk].items), PastItem(d, aa, kk, nn)
        PROVE  PastUnit(d, aa, kk)
    BY <1>1, <2>3 DEF PastItem
  <2>4. QED
    BY <2>2, <2>3 DEF PastItem
<1>4. PassedNow(b, pl, gs, c, d)
  BY <1>3 DEF PassedNow
<1>5. Grouped(b, pl, gs, d)
  BY <1>2, <1>4, GroupedOn
<1>6. QED
  BY <1>5 DEF d

\* A plan that reads resources only finds the same in every item.
LEMMA PartsOfResource ==
  ASSUME NEW pl, ResourceOnly(pl), NEW r, NEW u, NEW attrs
  PROVE  Parts(pl, r, u, attrs) = ResourceParts(pl, r)
<1>1. \A i \in DOMAIN pl : pl[i].source = "resource"
  BY DEF ResourceOnly
<1>2. QED
  BY <1>1 DEF Parts, ResourceParts, ResolveParts

\* A resource that is moved with all that it has, and the attributes promoted to it.
LEMMA WholeResourceCopied ==
  ASSUME NEW b, BatchOK(b), InPlace(b), NEW pl, IsSeq(pl), ResourceOnly(pl),
         NEW a \in 1..Len(b)
  PROVE  LET r == b[a]
             parts == ResourceParts(pl, r)
         IN  ResourceCopied(b, pl, JoinParts(parts),
               WithUnits(r, ApplyPromotions(pl, parts, ToResource, r.attrs), r.units))
<1> DEFINE r == b[a]
           parts == ResourceParts(pl, r)
           k == JoinParts(parts)
           attrs == ApplyPromotions(pl, parts, ToResource, r.attrs)
           q == WithUnits(r, attrs, r.units)
<1>1. IsSeq(b) /\ DOMAIN b = 1..Len(b) /\ UnitsOK(r.units) /\ IsSeq(r.units)
  BY Inside, SeqFacts DEF BatchOK, UnitsOK
<1>2. DOMAIN r.units = 1..Len(r.units)
  BY <1>1, SeqFacts
<1>3. r.from = a /\ \A m \in 1..Len(r.units) : r.units[m].from = m /\ RisingIds(r.units[m].items)
  BY DEF InPlace
<1>4. q.from = a /\ q.attrs = attrs /\ q.units = r.units
  BY <1>3 DEF WithUnits
<1>5. Rising(r.units)
  BY <1>2, <1>3 DEF Rising
<1>6. ASSUME NEW v \in ToSet(r.units)
      PROVE  UnitCopied(pl, k, r, v)
  <2>1. PICK m \in 1..Len(r.units) : v = r.units[m]
    BY <1>1, <1>2, <1>6 DEF ToSet
  <2>2. v.from = m /\ RisingIds(v.items) /\ r.units[v.from] = v
    BY <1>3, <2>1
  <2>3. ASSUME NEW y \in ToSet(v.items)
        PROVE  ItemCopied(pl, k, r, v, y, y)
    <3>1. Parts(pl, r, v, y.attrs) = parts
      BY PartsOfResource
    <3> HIDE DEF parts, r
    <3>2. \A i \in DOMAIN pl : pl[i].source \notin ToLeaf
      BY DEF ResourceOnly, ToLeaf
    <3>3. Grown(pl, y.attrs, y.attrs, parts, ToLeaf)
      BY <3>2 DEF Grown, Grew
    <3>4. QED
      BY <3>1, <3>3 DEF ItemCopied
  <2>4. QED
    BY <1>2, <2>2, <2>3 DEF UnitCopied
<1> HIDE DEF k
<1>7. Grown(pl, r.attrs, attrs, parts, ToResource)
  <2> HIDE DEF parts
  <2>1. Grew(pl, r.attrs, r.attrs, parts, ToResource) /\ SameFrom(pl, ToResource, parts, parts)
    BY DEF Grew, SameFrom
  <2>2. QED
    BY <2>1, PromotionsGrow
<1>8. Grew(pl, r.attrs, attrs, parts, ToResource)
  BY <1>7 DEF Grown
<1> HIDE DEF q, attrs
<1>9. ResourceCopied(b, pl, k, q)
  BY <1>1, <1>4, <1>5, <1>6, <1>7, <1>8 DEF ResourceCopied
<1>10. QED
  BY <1>9 DEF k, q, attrs

\* One step of groupByResource.
LEMMA WholeGrouped ==
  ASSUME NEW b, BatchOK(b), InPlace(b), NEW pl, IsSeq(pl), ResourceOnly(pl),
         NEW gs, GroupsOK(gs), NEW c \in Cursors, Grouped(b, pl, gs, c),
         c.res \in 1..Len(b), c.unit = 1, c.item = 1
  PROVE  Grouped(b, pl, AddResource(pl, gs, b[c.res]), [c EXCEPT !.res = @ + 1])
<1> DEFINE r == b[c.res]
           d == [c EXCEPT !.res = @ + 1]
           parts == ResourceParts(pl, r)
           k == JoinParts(parts)
           opened == BucketFor(gs, k)
           g == SelectInSeq(opened, LAMBDA h : h.key = k)
           old == opened[g].res
           q == WithUnits(r, ApplyPromotions(pl, parts, ToResource, r.attrs), r.units)
           new == Append(old, q)
           after == [opened EXCEPT ![g].res = new]
<1>1. ResourceOK(r)
  BY Inside
<1>2. /\ d \in Cursors /\ d.res = c.res + 1 /\ d.unit = 1 /\ d.item = 1 /\ c.res \in Nat
  <2>1. /\ c = [res |-> c.res, unit |-> c.unit, item |-> c.item]
        /\ c.res \in Nat /\ c.unit \in Nat /\ c.item \in Nat
    BY DEF Cursors
  <2>2. d = [res |-> c.res + 1, unit |-> 1, item |-> 1]
    BY <2>1
  <2>3. QED
    BY <2>1, <2>2 DEF Cursors
<1> HIDE DEF d
<1>3. CursorGoes(b, c, d)
  BY <1>2 DEF CursorGoes, CursorUpTo
<1>4. AddResource(pl, gs, r) = after
  <2>1. [r EXCEPT !.attrs = ApplyPromotions(pl, parts, ToResource, @)] = q
    BY <1>1 DEF ResourceOK, WithUnits
  <2>2. QED
    BY <2>1, Zenon DEF AddResource, ResourceParts
<1>5. DistinctKeys(after) /\ Swapped(gs, k, old, after, new)
  <2>1. DistinctKeys(gs)
    BY DEF Grouped
  <2>2. QED
    BY <2>1, BucketMoved, Zenon
<1>6. ResourceCopied(b, pl, k, q)
  BY WholeResourceCopied
<1>7. q.from = c.res /\ q.units = r.units
  BY DEF WithUnits, InPlace
<1>8. \A u, attrs : JoinParts(Parts(pl, r, u, attrs)) = k
  BY PartsOfResource
<1> HIDE DEF k, old, q, after
<1>9. /\ BatchOK(old) /\ Copied(b, pl, k, old) /\ Behind(b, old, c)
      /\ \A p \in ToSet(old) : p.from < c.res
  <2> HIDE DEF new
  <2>1. QED
    BY <1>5, OldGroup, Zenon
<1>10. ToSet(new) = ToSet(old) \cup {q}
  BY <1>9, AppendedSet DEF BatchOK
<1>11. Copied(b, pl, k, new)
  <2>1. IsSeq(old) /\ \A i \in 1..Len(old) : old[i] \in ToSet(old)
    BY <1>9, IsElement DEF BatchOK
  <2>2. Rising(new)
    BY <1>7, <1>9, <2>1, RisingAppended DEF Copied
  <2> HIDE DEF new
  <2>3. QED
    BY <1>6, <1>9, <1>10, <2>2 DEF Copied
<1> HIDE DEF new
<1>12. /\ \A p \in ToSet(new) : p.from < d.res
       /\ Behind(b, new, d)
  <2>1. \A p \in ToSet(old) : p.from \in Nat
    BY <1>9 DEF BatchOK, ResourceOK
  <2>2. \A p \in ToSet(new) : p.from \in Nat /\ p.from < d.res
    BY <1>2, <1>7, <1>9, <1>10, <2>1
  <2>3. \A p \in ToSet(new) : p.from <= d.res /\ p.from # d.res
    BY <1>2, <2>2
  <2>4. QED
    BY <2>2, <2>3 DEF Behind
<1>13. More(old, new)
  BY <1>10 DEF More
<1>14. PICK h \in ToSet(after) : h.key = k /\ h.res = new
  BY <1>5 DEF Swapped
<1>15. ASSUME NEW j \in 1..Len(r.units)
       PROVE  /\ HoldsUnit(b, pl, after, c.res, j)
              /\ \A n \in 1..Len(r.units[j].items) :
                   HoldsItem(b, pl, after, c.res, j, r.units[j].items[n])
  <2>1. UnitsOK(r.units) /\ ItemsOK(r.units[j].items)
    BY Inside, Zenon
  <2>2. r.units[j] \in ToSet(q.units) /\ r.units[j].from = j
    BY <1>7, <2>1, IsElement DEF UnitsOK, InPlace
  <2>3. q \in ToSet(new)
    BY <1>10
  <2>4. CarriesUnit(new, c.res, j)
    BY <1>7, <2>2, <2>3 DEF CarriesUnit
  <2>5. HoldsUnit(b, pl, after, c.res, j)
    BY <1>8, <1>14, <2>4 DEF HoldsUnit
  <2>6. ASSUME NEW n \in 1..Len(r.units[j].items)
        PROVE  HoldsItem(b, pl, after, c.res, j, r.units[j].items[n])
    <3>1. r.units[j].items[n] \in ToSet(r.units[j].items)
      BY <2>1, IsElement DEF ItemsOK
    <3>2. Carries(new, c.res, j, r.units[j].items[n].id)
      BY <1>7, <2>2, <2>3, <3>1, Zenon DEF Carries
    <3>3. QED
      BY <1>8, <1>14, <3>2 DEF HoldsItem
  <2>7. QED
    BY <2>5, <2>6
<1>16. PassedNow(b, pl, after, c, d)
  <2>1. ASSUME NEW aa \in 1..Len(b), NEW kk \in 1..Len(b[aa].units)
        PROVE  /\ PastUnit(d, aa, kk) => PastUnit(c, aa, kk) \/ aa = c.res
               /\ \A nn \in 1..Len(b[aa].units[kk].items) :
                    PastItem(d, aa, kk, nn) => PastItem(c, aa, kk, nn) \/ aa = c.res
    BY <1>2 DEF PastUnit, PastItem
  <2>2. QED
    BY <1>15, <2>1, Zenon DEF PassedNow
<1>17. Grouped(b, pl, after, d)
  BY <1>3, <1>5, <1>11, <1>12, <1>13, <1>16, GroupedMore
<1>18. QED
  BY <1>4, <1>17 DEF d

-----------------------------------------------------------------------------
(***************************************************************************)
(* The batch that is exported.                                             *)
(***************************************************************************)
IdBefore == {p \in Items \X Items : p[1] < p[2]}

LEMMA NumberedPlaces ==
  ASSUME NEW b, BatchOK(b), Numbered(b)
  PROVE  \A a, k, n, aa, kk, nn :
           IsAt(b, a, k, n) /\ IsAt(b, aa, kk, nn) /\ PlaceBefore(a, k, n, aa, kk, nn)
             => ItemAt(b, a, k, n).id < ItemAt(b, aa, kk, nn).id
<1>1. Ids(b) \in Seq(Items)
  BY BatchCat
<1>2. \A m \in DOMAIN Ids(b) : Ids(b)[m] \in Items
  BY <1>1, LenProperties, ElementOfSeq
<1>3. OrderedBy(IdBefore, Ids(b))
  BY <1>2 DEF Numbered, OrderedBy, IdBefore
<1>4. \A a, k, n, aa, kk, nn :
        IsAt(b, a, k, n) /\ IsAt(b, aa, kk, nn) /\ PlaceBefore(a, k, n, aa, kk, nn)
          => <<ItemAt(b, a, k, n).id, ItemAt(b, aa, kk, nn).id>> \in IdBefore
  BY <1>3, OrderByPlace
<1>5. QED
  BY <1>4, Zenon DEF IdBefore

LEMMA NumberedInPlace ==
  ASSUME NEW b, BatchOK(b), Numbered(b)
  PROVE  InPlace(b)
<1>1. DOMAIN b = 1..Len(b)
  BY SeqFacts DEF BatchOK
<1>2. ASSUME NEW a \in 1..Len(b), NEW k \in 1..Len(b[a].units)
      PROVE  b[a].units[k].from = k /\ RisingIds(b[a].units[k].items)
  <2> DEFINE xs == b[a].units[k].items
  <2>1. IsSeq(b[a].units) /\ IsSeq(xs)
    BY Inside, Zenon DEF UnitsOK, ItemsOK
  <2>2. DOMAIN b[a].units = 1..Len(b[a].units) /\ DOMAIN xs = 1..Len(xs) /\ Len(xs) \in Nat
    BY <2>1, SeqFacts
  <2>3. b[a].units[k].from = k
    BY <1>1, <2>2 DEF Numbered
  <2>4. ASSUME NEW m \in DOMAIN xs, NEW n \in DOMAIN xs, m < n
        PROVE  xs[m].id < xs[n].id
    <3>1. IsAt(b, a, k, m) /\ IsAt(b, a, k, n) /\ PlaceBefore(a, k, m, a, k, n)
      BY <2>2, <2>4 DEF IsAt, PlaceBefore
    <3>2. ItemAt(b, a, k, m).id < ItemAt(b, a, k, n).id
      BY <3>1, NumberedPlaces
    <3>3. QED
      BY <3>2 DEF ItemAt
  <2>5. QED
    BY <2>3, <2>4 DEF RisingIds
<1>3. \A a \in 1..Len(b) : b[a].from = a
  BY <1>1 DEF Numbered
<1>4. QED
  BY <1>2, <1>3 DEF InPlace

\* An id is of one place.
LEMMA OnePlace ==
  ASSUME NEW b, BatchOK(b), Numbered(b), NEW a, NEW k, NEW n, NEW aa, NEW kk, NEW nn,
         IsAt(b, a, k, n), IsAt(b, aa, kk, nn), ItemAt(b, a, k, n).id = ItemAt(b, aa, kk, nn).id
  PROVE  a = aa /\ k = kk /\ n = nn
<1> DEFINE i == ItemAt(b, a, k, n).id
<1>1. /\ Len(b) \in Nat /\ Len(b[a].units) \in Nat /\ Len(b[aa].units) \in Nat
      /\ Len(b[a].units[k].items) \in Nat /\ Len(b[aa].units[kk].items) \in Nat
  BY Inside, Zenon DEF IsAt
<1>2. /\ a \in Nat /\ aa \in Nat /\ k \in Nat /\ kk \in Nat /\ n \in Nat /\ nn \in Nat
  BY <1>1 DEF IsAt
<1>3. i \in Nat
  <2>1. ItemOK(ItemAt(b, a, k, n))
    BY IdsByPlace, Zenon
  <2>2. QED
    BY <2>1 DEF ItemOK, Items
<1>4. /\ PlaceBefore(a, k, n, aa, kk, nn) => i < i
      /\ PlaceBefore(aa, kk, nn, a, k, n) => i < i
  BY NumberedPlaces
<1> HIDE DEF i
<1>5. ~PlaceBefore(a, k, n, aa, kk, nn) /\ ~PlaceBefore(aa, kk, nn, a, k, n)
  BY <1>3, <1>4
<1>6. QED
  BY <1>2, <1>5 DEF PlaceBefore

\* The ids, and the items, of one resource.
LEMMA IdsOfResource ==
  ASSUME NEW b, BatchOK(b), NEW a \in 1..Len(b), NEW i \in ToSet(Ids(<<b[a]>>))
  PROVE  \E k, n : IsAt(b, a, k, n) /\ ItemAt(b, a, k, n).id = i
<1> DEFINE s == <<b[a]>>
<1>1. BatchOK(s) /\ Len(s) = 1 /\ s[1] = b[a]
  BY Inside, BatchOne
<1> HIDE DEF s
<1>2. PICK c, k, n : IsAt(s, c, k, n) /\ ItemAt(s, c, k, n).id = i
  BY <1>1, IdsByPlace DEF s
<1>3. c = 1
  BY <1>1, <1>2 DEF IsAt
<1>4. IsAt(b, a, k, n) /\ ItemAt(b, a, k, n).id = i
  BY <1>1, <1>2, <1>3 DEF IsAt, ItemAt
<1>5. QED
  BY <1>4

LEMMA ItemsOfResource ==
  ASSUME NEW r, ResourceOK(r)
  PROVE  ToSet(ItemsOf(<<r>>)) = UNION {ToSet(r.units[k].items) : k \in 1..Len(r.units)}
<1> DEFINE X == UNION {ToSet(r.units[k].items) : k \in 1..Len(r.units)}
           rows == [k \in DOMAIN r.units |-> r.units[k].items]
<1>1. UnitsOK(r.units) /\ IsSeq(r.units) /\ DOMAIN r.units = 1..Len(r.units) /\ Len(r.units) \in Nat
  BY SeqFacts DEF ResourceOK, UnitsOK
<1>2. \A k \in 1..Len(r.units) : IsSeq(r.units[k].items)
  BY <1>1, IsElement DEF UnitsOK, UnitOK, ItemsOK
<1>3. \A k \in 1..Len(r.units) : r.units[k].items \in Seq(X)
  <2>1. ASSUME NEW k \in 1..Len(r.units)
        PROVE  r.units[k].items \in Seq(X)
    <3>1. \A i \in 1..Len(r.units[k].items) : r.units[k].items[i] \in X
      BY <1>2, IsElement, Zenon
    <3> HIDE DEF X
    <3>2. QED
      BY <1>2, <3>1, SeqFacts, Zenon
  <2>2. QED
    BY <2>1, Zenon
<1>4. rows \in Seq(Seq(X)) /\ Len(rows) = Len(r.units)
      /\ \A k \in 1..Len(r.units) : rows[k] = r.units[k].items
  <2> HIDE DEF X
  <2>1. /\ DOMAIN rows = 1..Len(r.units)
        /\ \A k \in 1..Len(r.units) : rows[k] = r.units[k].items /\ rows[k] \in Seq(X)
    BY <1>1, <1>3
  <2>2. rows \in [1..Len(r.units) -> Seq(X)]
    BY <1>1, <1>3
  <2>3. rows \in Seq(Seq(X))
    BY <1>1, <2>2, SeqDef
  <2>4. Len(rows) \in Nat /\ DOMAIN rows = 1..Len(rows)
    BY <2>3, LenProperties
  <2> HIDE DEF rows
  <2>5. Len(rows) = Len(r.units)
    BY <1>1, <2>1, <2>4
  <2>6. QED
    BY <2>1, <2>3, <2>5, Zenon
<1> HIDE DEF rows, X
<1>5. ItemsOf(<<r>>) = FlattenSeq(rows)
  <2>1. [i \in DOMAIN <<r>> |-> [k \in DOMAIN <<r>>[i].units |-> <<r>>[i].units[k].items]] = <<rows>>
    BY DEF rows
  <2>2. FlattenSeq(<<rows>>) = rows
    BY <1>4, FlattenOne
  <2>3. QED
    BY <2>1, <2>2 DEF ItemsOf
<1>6. ToSet(FlattenSeq(rows)) = RowsUpTo(rows, Len(rows))
  BY <1>4, FlattenOrdered, Zenon
<1>7. QED
  BY <1>4, <1>5, <1>6 DEF RowsUpTo

\* The tuple of key parts of the item at a place.
LEMMA TupleAt ==
  ASSUME BatchOK(batch), Numbered(batch), NEW a, NEW k, NEW n, IsAt(batch, a, k, n)
  PROVE  LET r == batch[a]
             u == r.units[k]
             x == ItemAt(batch, a, k, n)
         IN  /\ KeyTuple(x.id) = Parts(plan, r, u, x.attrs)
             /\ x \in ToSet(ItemsOf(<<r>>))
             /\ \A y \in ToSet(ItemsOf(<<r>>)) : y.id = x.id => y = x
<1> DEFINE r == batch[a]
           u == r.units[k]
           x == ItemAt(batch, a, k, n)
<1>1. /\ a \in 1..Len(batch) /\ k \in 1..Len(r.units) /\ n \in 1..Len(u.items)
      /\ x = u.items[n]
  BY DEF IsAt, ItemAt
<1>2. /\ ResourceOK(r) /\ UnitsOK(r.units) /\ ItemsOK(u.items)
      /\ IsSeq(batch) /\ IsSeq(r.units) /\ IsSeq(u.items)
  BY <1>1, Inside DEF UnitsOK, ItemsOK, BatchOK
<1>3. DOMAIN batch = 1..Len(batch) /\ DOMAIN r.units = 1..Len(r.units)
      /\ DOMAIN u.items = 1..Len(u.items)
  BY <1>2, SeqFacts
<1>4. u \in ToSet(r.units) /\ x \in ToSet(u.items)
  BY <1>1, <1>2, IsElement
<1> HIDE DEF x
<1>5. Origin(x.id) = r
  <2>1. x.id \in ToSet(Ids(<<batch[a]>>))
    BY IdsByPlace DEF x
  <2>2. ASSUME NEW c \in DOMAIN batch, x.id \in ToSet(Ids(<<batch[c]>>))
        PROVE  c = a
    <3>1. PICK kk, nn : IsAt(batch, c, kk, nn) /\ ItemAt(batch, c, kk, nn).id = x.id
      BY <1>3, <2>2, IdsOfResource
    <3>2. QED
      BY <3>1, OnePlace DEF x
  <2>3. (CHOOSE c \in DOMAIN batch : x.id \in ToSet(Ids(<<batch[c]>>))) = a
    BY <1>1, <1>3, <2>1, <2>2
  <2>4. QED
    BY <2>3, Zenon DEF Origin
<1>6. ASSUME NEW kk \in 1..Len(r.units), NEW y \in ToSet(r.units[kk].items), y.id = x.id
      PROVE  kk = k /\ y = x
  <2>1. IsSeq(r.units[kk].items)
    BY <1>1, Inside, Zenon DEF ItemsOK
  <2>2. PICK nn \in 1..Len(r.units[kk].items) : y = r.units[kk].items[nn]
    BY <1>6, <2>1, SeqFacts DEF ToSet
  <2>3. IsAt(batch, a, kk, nn) /\ ItemAt(batch, a, kk, nn) = y
    BY <1>1, <2>2 DEF IsAt, ItemAt
  <2>4. kk = k /\ nn = n
    BY <1>6, <2>3, OnePlace DEF x
  <2>5. QED
    BY <1>1, <2>2, <2>4
<1>7. UnitOf(r, x.id) = u
  <2>1. \E y \in ToSet(u.items) : y.id = x.id
    BY <1>4
  <2>2. ASSUME NEW v \in ToSet(r.units), \E y \in ToSet(v.items) : y.id = x.id
        PROVE  v = u
    <3>1. PICK kk \in 1..Len(r.units) : v = r.units[kk]
      BY <1>3, <2>2 DEF ToSet
    <3>2. QED
      BY <1>6, <2>2, <3>1
  <2>3. QED
    BY <1>4, <2>1, <2>2 DEF UnitOf
<1>8. ItemOf(u, x.id) = x
  <2>1. \A y \in ToSet(u.items) : y.id = x.id => y = x
    BY <1>1, <1>6
  <2>2. QED
    BY <1>4, <2>1 DEF ItemOf
<1>9. KeyTuple(x.id) = Parts(plan, r, u, x.attrs)
  BY <1>5, <1>7, <1>8 DEF KeyTuple, PartsOf, Parts
<1>10. /\ x \in ToSet(ItemsOf(<<r>>))
       /\ \A y \in ToSet(ItemsOf(<<r>>)) : y.id = x.id => y = x
  <2>1. ToSet(ItemsOf(<<r>>)) = UNION {ToSet(r.units[kk].items) : kk \in 1..Len(r.units)}
    BY <1>2, ItemsOfResource
  <2>2. QED
    BY <1>1, <1>4, <1>6, <2>1, Zenon
<1>11. QED
  BY <1>9, <1>10 DEF x

-----------------------------------------------------------------------------
(***************************************************************************)
(* groupByTags, step by step.                                              *)
(***************************************************************************)
\* Everything is grouped.
AllGrouped(b, pl, gs) == \E c \in Cursors : c.res > Len(b) /\ Grouped(b, pl, gs, c)

GroupsInv ==
  /\ \E in \in Inputs : batch = in.batch /\ plan = in.plan /\ policies = in.policies
  /\ at = "begin" /\ tagHash => Grouped(batch, plan, groups, next)
  /\ at = "grouped" => AllGrouped(batch, plan, groups)

LEMMA InputGiven ==
  ASSUME \E in \in Inputs : batch = in.batch /\ plan = in.plan /\ policies = in.policies
  PROVE  BatchOK(batch) /\ Numbered(batch) /\ InPlace(batch) /\ IsSeq(plan)
<1>1. BatchOK(batch) /\ Numbered(batch) /\ IsSeq(plan)
  BY InputsAssumption
<1>2. QED
  BY <1>1, NumberedInPlace

\* At the start nothing is grouped.
LEMMA NoneGrouped ==
  ASSUME NEW b, NEW pl, NEW c, c.res = 1, c.unit = 1, c.item = 1
  PROVE  Grouped(b, pl, <<>>, c)
<1>1. ToSet(<<>>) = {} /\ DOMAIN <<>> = {}
  BY DEF ToSet
<1>2. ASSUME NEW a \in 1..Len(b), NEW k \in 1..Len(b[a].units)
      PROVE  ~PastUnit(c, a, k) /\ \A n \in 1..Len(b[a].units[k].items) : ~PastItem(c, a, k, n)
  BY DEF PastUnit, PastItem
<1>3. Covered(b, pl, <<>>, c)
  BY <1>2, Zenon DEF Covered
<1>4. QED
  BY <1>1, <1>3 DEF Grouped, DistinctKeys

\* Without a key plan the batch is one group.
LEMMA BatchGrouped ==
  ASSUME NEW b, BatchOK(b), InPlace(b)
  PROVE  AllGrouped(b, <<>>, <<[key |-> <<>>, res |-> b]>>)
<1> DEFINE g == [key |-> <<>>, res |-> b]
           gs == <<g>>
           c == [res |-> Len(b) + 1, unit |-> 1, item |-> 1]
<1>1. /\ Len(b) \in Nat /\ IsSeq(b) /\ DOMAIN b = 1..Len(b)
  BY SeqFacts DEF BatchOK
<1>2. c \in Cursors /\ c.res = Len(b) + 1 /\ c.res > Len(b)
  BY <1>1 DEF Cursors
<1>3. /\ ToSet(gs) = {g} /\ g.key = <<>> /\ g.res = b
      /\ DistinctKeys(gs)
  BY DEF ToSet, DistinctKeys
<1> HIDE DEF g, gs, c
<1>4. \A r, u, attrs : Parts(<<>>, r, u, attrs) = <<>>
  BY DEF Parts, ResolveParts
<1>5. JoinParts(<<>>) = <<>>
  BY FlattenEmpty DEF JoinParts
<1>6. \A before, parts, sources :
        Grew(<<>>, before, before, parts, sources) /\ Grown(<<>>, before, before, parts, sources)
  BY DEF Grew, Grown
<1>7. ASSUME NEW a \in 1..Len(b)
      PROVE  /\ b[a].from = a /\ IsSeq(b[a].units)
             /\ DOMAIN b[a].units = 1..Len(b[a].units)
             /\ \A k \in 1..Len(b[a].units) :
                  /\ b[a].units[k].from = k /\ RisingIds(b[a].units[k].items)
                  /\ IsSeq(b[a].units[k].items)
  <2>1. UnitsOK(b[a].units) /\ IsSeq(b[a].units)
    BY Inside DEF UnitsOK
  <2>2. QED
    BY <2>1, Inside, SeqFacts, Zenon DEF InPlace, ItemsOK
<1>8. ASSUME NEW a \in 1..Len(b)
      PROVE  ResourceCopied(b, <<>>, <<>>, b[a])
  <2>1. Rising(b[a].units)
    BY <1>7, Zenon DEF Rising
  <2>2. ASSUME NEW v \in ToSet(b[a].units)
        PROVE  UnitCopied(<<>>, <<>>, b[a], v)
    <3>1. PICK k \in 1..Len(b[a].units) : v = b[a].units[k]
      BY <1>7, <2>2 DEF ToSet
    <3>2. v.from = k /\ RisingIds(v.items) /\ b[a].units[v.from] = v
      BY <1>7, <3>1
    <3>3. \A y \in ToSet(v.items) : ItemCopied(<<>>, <<>>, b[a], v, y, y)
      BY <1>4, <1>5, <1>6 DEF ItemCopied
    <3>4. QED
      BY <1>7, <3>2, <3>3 DEF UnitCopied
  <2>3. QED
    BY <1>1, <1>6, <1>7, <2>1, <2>2 DEF ResourceCopied
<1>9. \A q \in ToSet(b) : \E a \in 1..Len(b) : q = b[a]
  BY <1>1 DEF ToSet
<1>10. Copied(b, <<>>, <<>>, b)
  <2>1. Rising(b)
    BY <1>1, <1>7 DEF Rising
  <2>2. QED
    BY <1>8, <1>9, <2>1 DEF Copied
<1>11. \A q \in ToSet(b) : q.from < c.res /\ q.from <= c.res /\ q.from # c.res
  BY <1>1, <1>2, <1>7, <1>9
<1>12. Behind(b, b, c)
  BY <1>11 DEF Behind
<1>13. Covered(b, <<>>, gs, c)
  <2>1. ASSUME NEW a \in 1..Len(b), NEW k \in 1..Len(b[a].units)
        PROVE  /\ HoldsUnit(b, <<>>, gs, a, k)
               /\ \A n \in 1..Len(b[a].units[k].items) :
                    HoldsItem(b, <<>>, gs, a, k, b[a].units[k].items[n])
    <3>1. b[a] \in ToSet(b) /\ b[a].units[k] \in ToSet(b[a].units)
          /\ \A n \in 1..Len(b[a].units[k].items) :
               b[a].units[k].items[n] \in ToSet(b[a].units[k].items)
      BY <1>1, <1>7, IsElement
    <3>2. CarriesUnit(b, a, k)
          /\ \A n \in 1..Len(b[a].units[k].items) : Carries(b, a, k, b[a].units[k].items[n].id)
      BY <1>7, <3>1 DEF CarriesUnit, Carries
    <3>3. QED
      BY <1>3, <1>4, <1>5, <3>2 DEF HoldsUnit, HoldsItem
  <2>2. QED
    BY <2>1, Zenon DEF Covered
<1>14. Grouped(b, <<>>, gs, c)
  BY <1>3, <1>10, <1>11, <1>12, <1>13 DEF Grouped
<1>15. QED
  BY <1>2, <1>14 DEF AllGrouped, gs, g

LEMMA GroupsInvStays ==
  ASSUME GroupsInv, UNCHANGED input, at' \notin {"begin", "grouped"}
  PROVE  GroupsInv'
BY DEF GroupsInv, input

\* The loops take their steps.
LEMMA StillGrouped ==
  ASSUME GroupsInv, at = "begin", tagHash, UNCHANGED <<input, at>>,
         Grouped(batch, plan, groups', next')
  PROVE  GroupsInv'
<1>1. batch' = batch /\ plan' = plan /\ policies' = policies /\ at' = "begin"
  BY DEF input
<1>2. Grouped(batch, plan, groups, next)'
  BY <1>1
<1>3. QED
  BY <1>1, <1>2 DEF GroupsInv

LEMMA GroupingGroups ==
  ASSUME IInv, GroupsInv,
         GroupWhole \/ GroupResource \/ GroupLeaf \/ UnitEnds \/ ResourceEnds \/ GroupingEnds
  PROVE  GroupsInv'
<1>1. BatchOK(batch) /\ Numbered(batch) /\ InPlace(batch) /\ IsSeq(plan)
  BY InputGiven DEF GroupsInv
<1>2. /\ at = "begin"
      /\ tagHash => /\ next \in Cursors /\ CursorIn(batch, next) /\ GroupsOK(groups)
                    /\ ResourceOnly(plan) => next.unit = 1 /\ next.item = 1
                    /\ Grouped(batch, plan, groups, next)
  <2>1. at = "begin"
    BY DEF GroupWhole, GroupResource, GroupLeaf, UnitEnds, ResourceEnds, GroupingEnds, Regrouping
  <2>2. QED
    BY <2>1, Looping DEF GroupsInv
<1>3. ASSUME tagHash, next.res <= Len(batch)
      PROVE  /\ next.res \in 1..Len(batch) /\ Len(batch[next.res].units) \in Nat
             /\ next.unit \in Nat /\ next.unit >= 1
             /\ next.unit <= Len(batch[next.res].units) =>
                  /\ next.unit \in 1..Len(batch[next.res].units)
                  /\ next.item \in Nat /\ next.item >= 1
                  /\ Len(batch[next.res].units[next.unit].items) \in Nat
  <2>1. next.res \in 1..Len(batch) /\ Len(batch) \in Nat
    BY <1>1, <1>2, <1>3, Inside DEF CursorIn
  <2>2. Len(batch[next.res].units) \in Nat /\ next.unit \in Nat /\ next.unit >= 1
    BY <1>1, <1>2, <1>3, <2>1, Inside DEF CursorIn
  <2>3. ASSUME next.unit <= Len(batch[next.res].units)
        PROVE  /\ next.unit \in 1..Len(batch[next.res].units)
               /\ next.item \in Nat /\ next.item >= 1
               /\ Len(batch[next.res].units[next.unit].items) \in Nat
    <3>1. next.unit \in 1..Len(batch[next.res].units)
      BY <2>2, <2>3
    <3>2. Len(batch[next.res].units[next.unit].items) \in Nat
      BY <1>1, <2>1, <3>1, Inside, Zenon
    <3>3. next.item \in 1..(Len(batch[next.res].units[next.unit].items) + 1)
      BY <1>2, <1>3, <2>3 DEF CursorIn
    <3>4. QED
      BY <3>1, <3>2, <3>3
  <2>4. QED
    BY <2>1, <2>2, <2>3
<1>4. CASE GroupWhole
  <2>1. /\ plan = <<>> /\ groups' = <<[key |-> <<>>, res |-> batch]>> /\ at' = "grouped"
        /\ batch' = batch /\ plan' = plan /\ policies' = policies
    BY <1>4 DEF GroupWhole, tagHash, input
  <2>2. AllGrouped(batch, plan, groups')
    BY <1>1, <2>1, BatchGrouped
  <2>3. QED
    BY <2>1, <2>2, Zenon DEF GroupsInv
<1>5. CASE GroupResource
  <2>1. /\ tagHash /\ ResourceOnly(plan) /\ next.res <= Len(batch)
        /\ groups' = AddResource(plan, groups, batch[next.res])
        /\ next' = [next EXCEPT !.res = @ + 1] /\ UNCHANGED <<input, at>>
    BY <1>5 DEF GroupResource, Regrouping
  <2>2. Grouped(batch, plan, groups', next')
    BY <1>1, <1>2, <1>3, <2>1, WholeGrouped
  <2>3. QED
    BY <1>2, <2>1, <2>2, StillGrouped
<1>6. CASE GroupLeaf
  <2>1. /\ tagHash /\ ~ResourceOnly(plan) /\ next.res <= Len(batch)
        /\ next.unit <= Len(batch[next.res].units)
        /\ next.item <= Len(batch[next.res].units[next.unit].items)
        /\ groups' = AddLeaf(plan, groups, batch[next.res], batch[next.res].units[next.unit],
                             batch[next.res].units[next.unit].items[next.item])
        /\ next' = [next EXCEPT !.item = @ + 1] /\ UNCHANGED <<input, at>>
    BY <1>6 DEF GroupLeaf, Regrouping, nextResource, nextUnit
  <2>2. next.item \in 1..Len(batch[next.res].units[next.unit].items)
    BY <1>3, <2>1
  <2>3. Grouped(batch, plan, groups', next')
    BY <1>1, <1>2, <1>3, <2>1, <2>2, LeafGrouped, Zenon
  <2>4. QED
    BY <1>2, <2>1, <2>3, StillGrouped, Zenon
<1>7. CASE UnitEnds
  <2> DEFINE r == batch[next.res]
             u == r.units[next.unit]
  <2>1. /\ tagHash /\ ~ResourceOnly(plan) /\ next.res <= Len(batch)
        /\ next.unit <= Len(r.units) /\ next.item > Len(u.items)
        /\ groups' = IF u.items = <<>> THEN AddShell(plan, groups, r, u) ELSE groups
        /\ next' = [next EXCEPT !.unit = @ + 1, !.item = 1] /\ UNCHANGED <<input, at>>
    BY <1>7 DEF UnitEnds, Regrouping, nextResource, nextUnit
  <2>2. /\ u.items = <<>> => Grouped(batch, plan, AddShell(plan, groups, r, u), next')
        /\ u.items # <<>> => Grouped(batch, plan, groups, next')
    BY <1>1, <1>2, <1>3, <2>1, UnitGrouped, Zenon
  <2> HIDE DEF u, r
  <2>3. Grouped(batch, plan, groups', next')
    BY <2>1, <2>2
  <2>4. QED
    BY <1>2, <2>1, <2>3, StillGrouped
<1>8. CASE ResourceEnds
  <2>1. /\ tagHash /\ next.res <= Len(batch)
        /\ next.unit > Len(batch[next.res].units) /\ groups' = groups
        /\ next' = [res |-> next.res + 1, unit |-> 1, item |-> 1] /\ UNCHANGED <<input, at>>
    BY <1>8 DEF ResourceEnds, Regrouping, nextResource
  <2>2. Grouped(batch, plan, groups', next')
    BY <1>1, <1>2, <1>3, <2>1, ResourceGrouped
  <2>3. QED
    BY <1>2, <2>1, <2>2, StillGrouped
<1>9. CASE GroupingEnds
  <2>1. /\ tagHash /\ next.res > Len(batch) /\ groups' = groups /\ at' = "grouped"
        /\ batch' = batch /\ plan' = plan /\ policies' = policies
    BY <1>9 DEF GroupingEnds, input
  <2>2. AllGrouped(batch, plan, groups)
    BY <1>2, <2>1 DEF AllGrouped
  <2>3. AllGrouped(batch, plan, groups)'
    BY <2>1, <2>2
  <2>4. QED
    BY <2>1, <2>3 DEF GroupsInv
<1>10. QED
  BY <1>4, <1>5, <1>6, <1>7, <1>8, <1>9

LEMMA GroupsStep == ASSUME IInv, GroupsInv, [Next]_vars PROVE GroupsInv'
<1>1. CASE GroupWhole \/ GroupResource \/ GroupLeaf \/ UnitEnds \/ ResourceEnds \/ GroupingEnds
  BY <1>1, GroupingGroups
<1>2. CASE UNCHANGED vars
  <2>1. /\ batch' = batch /\ plan' = plan /\ policies' = policies /\ at' = at
        /\ groups' = groups /\ next' = next
    BY <1>2 DEF vars
  <2>2. QED
    BY <2>1 DEF GroupsInv, tagHash
<1>3. CASE TakeGroup \/ FirstTry \/ Truncate \/ StartSplit \/ Reject \/ Exhausted
           \/ PackSplit \/ SplitEnds \/ Flush
  <2>1. UNCHANGED input
    BY <1>3, Zenon DEF TakeGroup, FirstTry, Truncate, StartSplit, Reject, Exhausted, PackSplit,
       SplitEnds, Flush, input
  <2>2. at' \notin {"begin", "grouped"}
    BY <1>3, Zenon DEF TakeGroup, FirstTry, Truncate, StartSplit, Reject, Exhausted, PackSplit,
       SplitEnds, Flush, Return
  <2>3. QED
    BY <2>1, <2>2, GroupsInvStays
<1>4. QED
  BY <1>1, <1>2, <1>3 DEF Next

LEMMA InitGroups == Init => GroupsInv
<1> SUFFICES ASSUME Init PROVE GroupsInv
  OBVIOUS
<1>1. /\ \E in \in Inputs : batch = in.batch /\ plan = in.plan /\ policies = in.policies
      /\ next = [res |-> 1, unit |-> 1, item |-> 1] /\ groups = <<>> /\ at = "begin"
  BY DEF Init
<1>2. Grouped(batch, plan, <<>>, next)
  <2>1. next.res = 1 /\ next.unit = 1 /\ next.item = 1
    BY <1>1
  <2>2. QED
    BY <2>1, NoneGrouped
<1>3. QED
  BY <1>1, <1>2 DEF GroupsInv

\* At every step of groupByTags the groups hold exactly the copies of the items that
\* the loops have passed, each under its key (groupByResource, groupByLeaf, bucketFor,
\* ensureMetric, ensureScope, applyPromotions).
THEOREM GroupsInvariance == Spec => []GroupsInv
<1>1. IInv /\ GroupsInv /\ [Next]_vars => GroupsInv'
  BY GroupsStep
<1>2. QED
  BY <1>1, InitGroups, Invariance, PTL DEF Spec

LEMMA RisingOnce ==
  ASSUME NEW s, IsSeq(s), \A x \in ToSet(s) : x.from \in Nat, Rising(s)
  PROVE  IsInjective([i \in DOMAIN s |-> s[i].from])
<1> DEFINE f == [i \in DOMAIN s |-> s[i].from]
<1>1. DOMAIN s = 1..Len(s) /\ Len(s) \in Nat /\ \A i \in 1..Len(s) : s[i].from \in Nat
  BY SeqFacts, IsElement
<1>2. ASSUME NEW i \in DOMAIN f, NEW j \in DOMAIN f, f[i] = f[j]
      PROVE  i = j
  <2>1. i \in 1..Len(s) /\ j \in 1..Len(s) /\ s[i].from = s[j].from
    BY <1>1, <1>2
  <2>2. ~(i < j) /\ ~(j < i)
    BY <1>1, <2>1 DEF Rising
  <2>3. QED
    BY <1>1, <2>1, <2>2
<1> HIDE DEF f
<1>3. IsInjective(f)
  BY <1>2 DEF IsInjective
<1>4. QED
  BY <1>3 DEF f

\* What is held at the end of the loops.
LEMMA EndCovers ==
  ASSUME NEW b, BatchOK(b), NEW pl, NEW gs, AllGrouped(b, pl, gs)
  PROVE  /\ DistinctKeys(gs)
         /\ \A g \in ToSet(gs) : Copied(b, pl, g.key, g.res)
         /\ \A a \in 1..Len(b) : \A k \in 1..Len(b[a].units) :
              /\ b[a].units[k].items = <<>> => HoldsUnit(b, pl, gs, a, k)
              /\ \A n \in 1..Len(b[a].units[k].items) :
                   HoldsItem(b, pl, gs, a, k, b[a].units[k].items[n])
<1>1. PICK c \in Cursors : c.res > Len(b) /\ Grouped(b, pl, gs, c)
  BY DEF AllGrouped
<1>2. Len(b) \in Nat /\ c.res \in Nat
  BY Inside DEF Cursors
<1>3. \A a \in 1..Len(b) : \A k \in 1..Len(b[a].units) :
        PastUnit(c, a, k) /\ \A n \in 1..Len(b[a].units[k].items) : PastItem(c, a, k, n)
  BY <1>1, <1>2 DEF PastUnit, PastItem
<1>4. QED
  BY <1>1, <1>3, Zenon DEF Grouped, Covered

\* Grouping loses and merges nothing, whatever is grouped by whatever plan: groups
\* have distinct keys, a group has every resource and every metric once, and every
\* item, and every metric without data points, is in the group of its key under the
\* resource and the metric it came with (bucketFor, ensureMetric, ensureScope, the
\* branch for metrics without data points).
THEOREM NothingLostInGrouping == Spec => []Regrouped
<1>1. IInv /\ GroupsInv => Regrouped
  <2> SUFFICES ASSUME IInv, GroupsInv, at = "grouped" PROVE Regrouped
    BY Zenon DEF Regrouped
  <2>1. BatchOK(batch) /\ InPlace(batch) /\ GroupsOK(groups)
    BY InputGiven DEF IInv, Types, GroupsInv
  <2>2. AllGrouped(batch, plan, groups)
    BY DEF GroupsInv
  <2>3. /\ DistinctKeys(groups)
        /\ \A g \in ToSet(groups) : Copied(batch, plan, g.key, g.res)
        /\ \A a \in 1..Len(batch) : \A k \in 1..Len(batch[a].units) :
             /\ batch[a].units[k].items = <<>> => HoldsUnit(batch, plan, groups, a, k)
             /\ \A n \in 1..Len(batch[a].units[k].items) :
                  HoldsItem(batch, plan, groups, a, k, batch[a].units[k].items[n])
    BY <2>1, <2>2, EndCovers, Zenon
  <2>4. ASSUME NEW g \in DOMAIN groups
        PROVE  /\ IsInjective([i \in DOMAIN groups[g].res |-> groups[g].res[i].from])
               /\ \A r \in ToSet(groups[g].res) :
                    IsInjective([k \in DOMAIN r.units |-> r.units[k].from])
    <3>1. groups[g] \in ToSet(groups)
      BY DEF ToSet
    <3>2. BatchOK(groups[g].res) /\ Copied(batch, plan, groups[g].key, groups[g].res)
      BY <2>1, <2>3, <3>1 DEF GroupsOK, GroupOK
    <3>3. IsInjective([i \in DOMAIN groups[g].res |-> groups[g].res[i].from])
      <4>1. IsSeq(groups[g].res) /\ \A q \in ToSet(groups[g].res) : q.from \in Nat
        BY <3>2 DEF BatchOK, ResourceOK
      <4>2. QED
        BY <3>2, <4>1, RisingOnce DEF Copied
    <3>4. ASSUME NEW r \in ToSet(groups[g].res)
          PROVE  IsInjective([k \in DOMAIN r.units |-> r.units[k].from])
      <4>1. UnitsOK(r.units) /\ Rising(r.units)
        BY <3>2 DEF BatchOK, ResourceOK, Copied, ResourceCopied
      <4>2. IsSeq(r.units) /\ \A v \in ToSet(r.units) : v.from \in Nat
        BY <4>1 DEF UnitsOK, UnitOK
      <4>3. QED
        BY <4>1, <4>2, RisingOnce
    <3>5. QED
      BY <3>3, <3>4, Zenon
  <2>5. ASSUME NEW r \in ToSet(batch), NEW u \in ToSet(r.units)
        PROVE  /\ u.items = <<>> =>
                    \E g \in DOMAIN groups :
                      /\ groups[g].key = JoinParts(PartsOf(r, u, NoAttrs))
                      /\ \E q \in ToSet(groups[g].res) : \E v \in ToSet(q.units) :
                           q.from = r.from /\ v.from = u.from /\ v.name = u.name
               /\ \A x \in ToSet(u.items) :
                    \E g \in DOMAIN groups :
                      /\ groups[g].key = JoinParts(PartsOf(r, u, x.attrs))
                      /\ \E q \in ToSet(groups[g].res) : \E v \in ToSet(q.units) :
                           /\ q.from = r.from /\ v.from = u.from /\ v.name = u.name
                           /\ \E y \in ToSet(v.items) : y.id = x.id
    <3>1. PICK a \in 1..Len(batch) : r = batch[a]
      BY <2>1, SeqFacts DEF BatchOK, ToSet
    <3>2. PICK k \in 1..Len(r.units) : u = r.units[k]
      <4>1. IsSeq(r.units)
        BY <2>1, <3>1, Inside DEF UnitsOK
      <4>2. QED
        BY <4>1, SeqFacts DEF ToSet
    <3>3. r.from = a /\ u.from = k
      BY <2>1, <3>1, <3>2 DEF InPlace
    <3>4. ASSUME NEW g \in ToSet(groups), NEW q \in ToSet(g.res), NEW v \in ToSet(q.units),
                 q.from = a, v.from = k
          PROVE  v.name = u.name
      <4>1. ResourceCopied(batch, plan, g.key, q)
        BY <2>3 DEF Copied
      <4>2. UnitCopied(plan, g.key, batch[q.from], v)
        BY <4>1 DEF ResourceCopied
      <4>3. QED
        BY <3>1, <3>2, <3>4, <4>2 DEF UnitCopied
    <3>5. \A g \in ToSet(groups) : \E j \in DOMAIN groups : groups[j] = g
      BY DEF ToSet
    <3>6. ASSUME u.items = <<>>
          PROVE  \E g \in DOMAIN groups :
                      /\ groups[g].key = JoinParts(PartsOf(r, u, NoAttrs))
                      /\ \E q \in ToSet(groups[g].res) : \E v \in ToSet(q.units) :
                           q.from = r.from /\ v.from = u.from /\ v.name = u.name
      <4>1. HoldsUnit(batch, plan, groups, a, k)
        BY <2>3, <3>1, <3>2, <3>6
      <4>2. PICK g \in ToSet(groups) :
              /\ g.key = JoinParts(Parts(plan, batch[a], batch[a].units[k], NoAttrs))
              /\ CarriesUnit(g.res, a, k)
        BY <4>1 DEF HoldsUnit
      <4>3. g.key = JoinParts(PartsOf(r, u, NoAttrs))
        BY <3>1, <3>2, <4>2 DEF PartsOf, Parts
      <4>4. \E q \in ToSet(g.res) : \E v \in ToSet(q.units) :
              q.from = r.from /\ v.from = u.from /\ v.name = u.name
        BY <3>3, <3>4, <4>2 DEF CarriesUnit
      <4>5. QED
        BY <3>5, <4>3, <4>4
    <3>7. ASSUME NEW x \in ToSet(u.items)
          PROVE  \E g \in DOMAIN groups :
                      /\ groups[g].key = JoinParts(PartsOf(r, u, x.attrs))
                      /\ \E q \in ToSet(groups[g].res) : \E v \in ToSet(q.units) :
                           /\ q.from = r.from /\ v.from = u.from /\ v.name = u.name
                           /\ \E y \in ToSet(v.items) : y.id = x.id
      <4>1. PICK n \in 1..Len(u.items) : x = u.items[n]
        <5>1. IsSeq(u.items)
          BY <2>1, <3>1, <3>2, Inside, Zenon DEF ItemsOK
        <5>2. QED
          BY <5>1, SeqFacts DEF ToSet
      <4>2. HoldsItem(batch, plan, groups, a, k, x)
        BY <2>3, <3>1, <3>2, <4>1, Zenon
      <4>3. PICK g \in ToSet(groups) :
              /\ g.key = JoinParts(Parts(plan, batch[a], batch[a].units[k], x.attrs))
              /\ Carries(g.res, a, k, x.id)
        BY <4>2 DEF HoldsItem
      <4>4. g.key = JoinParts(PartsOf(r, u, x.attrs))
        BY <3>1, <3>2, <4>3 DEF PartsOf, Parts
      <4>5. \E q \in ToSet(g.res) : \E v \in ToSet(q.units) :
              /\ q.from = r.from /\ v.from = u.from /\ v.name = u.name
              /\ \E y \in ToSet(v.items) : y.id = x.id
        BY <3>3, <3>4, <4>3 DEF Carries
      <4>6. QED
        BY <3>5, <4>4, <4>5
    <3>8. QED
      BY <3>6, <3>7
  <2> DEFINE K(r, u, x) ==
        \E g \in DOMAIN groups :
          /\ tagHash => groups[g].key =
               JoinParts(PartsOf(r, u, IF x = <<>> THEN NoAttrs ELSE x[1].attrs))
          /\ \E q \in ToSet(groups[g].res) : \E v \in ToSet(q.units) :
               /\ q.from = r.from /\ v.from = u.from /\ v.name = u.name
               /\ x # <<>> => \E y \in ToSet(v.items) : y.id = x[1].id
  <2>6. ASSUME NEW r \in ToSet(batch), NEW u \in ToSet(r.units)
        PROVE  IF u.items = <<>> THEN K(r, u, <<>>) ELSE \A x \in ToSet(u.items) : K(r, u, <<x>>)
    <3>1. u.items = <<>> => K(r, u, <<>>)
      BY <2>5
    <3>2. ASSUME NEW x \in ToSet(u.items)
          PROVE  K(r, u, <<x>>)
      <4>1. \A y : <<y>> # <<>> /\ <<y>>[1] = y
        OBVIOUS
      <4> DEFINE z == <<x>>
      <4>2. z # <<>> /\ z[1] = x
        BY <4>1
      <4> HIDE DEF z
      <4>3. K(r, u, z)
        BY <2>5, <4>2
      <4>4. QED
        BY <4>3 DEF z
    <3> HIDE DEF K
    <3>3. QED
      BY <3>1, <3>2
  <2>7. QED
    BY <2>3, <2>4, <2>6, Zenon DEF Regrouped, DistinctKeys
<1>2. QED
  BY <1>1, Invariance, GroupsInvariance, PTL

\* The item that an item of a group is the copy of.
OriginalAt(b, pl, key0, r, u, x, a, k, n) ==
  /\ IsAt(b, a, k, n) /\ r.from = a /\ u.from = k
  /\ ItemCopied(pl, key0, b[a], b[a].units[k], ItemAt(b, a, k, n), x)

LEMMA OriginalOf ==
  ASSUME NEW b, BatchOK(b), NEW pl, NEW key0, NEW res, Copied(b, pl, key0, res),
         NEW r \in ToSet(res), NEW u \in ToSet(r.units), NEW x \in ToSet(u.items)
  PROVE  \E a, k, n : OriginalAt(b, pl, key0, r, u, x, a, k, n)
<1>1. ResourceCopied(b, pl, key0, r)
  BY DEF Copied
<1>2. r.from \in DOMAIN b /\ UnitCopied(pl, key0, b[r.from], u)
  BY <1>1 DEF ResourceCopied
<1>3. r.from \in 1..Len(b)
  BY <1>2, SeqFacts DEF BatchOK
<1>4. UnitsOK(b[r.from].units) /\ IsSeq(b[r.from].units)
  BY <1>3, Inside DEF UnitsOK
<1>5. u.from \in 1..Len(b[r.from].units)
  BY <1>2, <1>4, SeqFacts DEF UnitCopied
<1>6. PICK y \in ToSet(b[r.from].units[u.from].items) :
        ItemCopied(pl, key0, b[r.from], b[r.from].units[u.from], y, x)
  BY <1>2 DEF UnitCopied
<1>7. IsSeq(b[r.from].units[u.from].items)
  BY <1>3, <1>5, Inside DEF ItemsOK
<1>8. PICK n \in 1..Len(b[r.from].units[u.from].items) : y = b[r.from].units[u.from].items[n]
  BY <1>7, SeqFacts DEF ToSet
<1>9. IsAt(b, r.from, u.from, n) /\ ItemAt(b, r.from, u.from, n) = y
  BY <1>3, <1>5, <1>8 DEF IsAt, ItemAt
<1>10. QED
  BY <1>6, <1>9 DEF OriginalAt

\* Promotion only adds, whatever is grouped by whatever plan: an attribute that is
\* there keeps its value, what is added is a part of the item's own key, and every
\* part that the plan promotes is there (applyPromotions, putIfAbsent).
THEOREM PromotionAdds == Spec => []Additive
<1>1. IInv /\ GroupsInv => Additive
  <2> SUFFICES ASSUME IInv, GroupsInv, at = "grouped",
                      NEW g \in DOMAIN groups, NEW r \in ToSet(groups[g].res),
                      NEW u \in ToSet(r.units), NEW x \in ToSet(u.items)
               PROVE  LET from == batch[r.from]
                          item == CHOOSE y \in ToSet(ItemsOf(<<from>>)) : y.id = x.id
                      IN  /\ Extends(item.attrs, x.attrs, KeyTuple(x.id), ToLeaf)
                          /\ Extends(from.attrs, r.attrs, KeyTuple(x.id), ToResource)
    BY DEF Additive
  <2>1. BatchOK(batch) /\ Numbered(batch) /\ AllGrouped(batch, plan, groups)
    BY InputGiven DEF GroupsInv
  <2>2. groups[g] \in ToSet(groups)
    BY DEF ToSet
  <2>3. Copied(batch, plan, groups[g].key, groups[g].res)
    BY <2>1, <2>2, EndCovers
  <2>4. PICK a, k, n : OriginalAt(batch, plan, groups[g].key, r, u, x, a, k, n)
    BY <2>1, <2>3, OriginalOf
  <2> DEFINE y == ItemAt(batch, a, k, n)
             parts == Parts(plan, batch[a], batch[a].units[k], y.attrs)
  <2>5. /\ IsAt(batch, a, k, n) /\ r.from = a /\ y.id = x.id
        /\ Grown(plan, y.attrs, x.attrs, parts, ToLeaf)
    BY <2>4 DEF OriginalAt, ItemCopied
  <2>6. /\ KeyTuple(y.id) = parts /\ y \in ToSet(ItemsOf(<<batch[a]>>))
        /\ \A z \in ToSet(ItemsOf(<<batch[a]>>)) : z.id = y.id => z = y
    BY <2>1, <2>5, TupleAt
  <2>7. Grown(plan, batch[a].attrs, r.attrs, parts, ToResource)
    <3>1. ResourceCopied(batch, plan, groups[g].key, r)
      BY <2>3 DEF Copied
    <3>2. u.items # <<>>
      BY DEF ToSet
    <3>3. Grown(plan, batch[a].attrs, r.attrs, ResourceParts(plan, batch[a]), ToResource)
      BY <2>5, <3>1, <3>2 DEF ResourceCopied
    <3>4. SameFrom(plan, ToResource, ResourceParts(plan, batch[a]), parts)
      BY ResourcePartsSame
    <3> HIDE DEF parts
    <3>5. QED
      BY <3>3, <3>4, GrewAlike
  <2> HIDE DEF y, parts
  <2>8. (CHOOSE z \in ToSet(ItemsOf(<<batch[a]>>)) : z.id = x.id) = y
    BY <2>5, <2>6
  <2>9. /\ Extends(y.attrs, x.attrs, parts, ToLeaf)
        /\ Extends(batch[a].attrs, r.attrs, parts, ToResource)
    BY <2>5, <2>7, GrownExtends
  <2>10. QED
    BY <2>5, <2>6, <2>8, <2>9
<1>2. QED
  BY <1>1, Invariance, GroupsInvariance, PTL

-----------------------------------------------------------------------------
(***************************************************************************)
(* Keys and order, from groups to records.                                 *)
(***************************************************************************)
\* The tuples of key parts of the items that are exported.
Tuples == [i \in ToSet(Ids(batch)) |-> KeyTuple(i)]

\* Pairs of items that are in order if they have the same tuple.
SameKey(T) == {p \in (DOMAIN T) \X (DOMAIN T) : T[p[1]] = T[p[2]] => p[1] < p[2]}

\* Items of a batch, all with the same key.
Keyed(T, k, ids) == \A i \in ToSet(ids) : i \in DOMAIN T /\ k = JoinParts(T[i])
GroupsKeyed(T, gs) == \A g \in ToSet(gs) : Keyed(T, g.key, Ids(g.res))
EntriesKeyed(T, es) == \A e \in ToSet(es) : Keyed(T, e.key, Ids(e.piece.res))

\* What is shipped, stacked, current and still grouped is in order.
Lined(O, E, S, C, G) == OrderedBy(O, Cat(E, Cat(Cat(S, C), G)))

\* A stacked piece is shipped, or dropped.
LEMMA LinedStack ==
  ASSUME NEW U, NEW O, NEW E \in Seq(U), NEW S \in Seq(U), NEW C \in Seq(U), NEW G \in Seq(U),
         NEW P \in Seq(U), Lined(O, E, Cat(P, S), C, G)
  PROVE  Lined(O, Cat(E, P), S, C, G) /\ Lined(O, E, S, C, G)
<1> DEFINE rest == Cat(Cat(S, C), G)
<1>1. Cat(S, C) \in Seq(U) /\ rest \in Seq(U)
  <2>1. Cat(S, C) \in Seq(U)
    BY CatFacts
  <2>2. QED
    BY <2>1, CatFacts
<1>2. Cat(Cat(Cat(P, S), C), G) = Cat(P, rest)
  <2>1. Cat(Cat(P, S), C) = Cat(P, Cat(S, C))
    BY CatAssociative
  <2>2. Cat(Cat(P, Cat(S, C)), G) = Cat(P, Cat(Cat(S, C), G))
    BY <1>1, CatAssociative
  <2>3. QED
    BY <2>1, <2>2
<1> HIDE DEF rest
<1>3. OrderedBy(O, Cat(E, Cat(P, rest)))
  BY <1>2 DEF Lined
<1>4. Cat(E, Cat(P, rest)) = Cat(Cat(E, P), rest)
  BY <1>1, CatAssociative
<1>5. Cat(P, rest) \in Seq(U) /\ ToSet(rest) \subseteq ToSet(Cat(P, rest))
  BY <1>1, CatFacts
<1>6. /\ OrderedBy(O, E) /\ OrderedBy(O, Cat(P, rest))
      /\ AllBefore(O, ToSet(E), ToSet(Cat(P, rest)))
  BY <1>3, <1>5, OrderedCat, Zenon
<1>7. OrderedBy(O, rest)
  BY <1>1, <1>6, OrderedCat
<1>8. AllBefore(O, ToSet(E), ToSet(rest))
  BY <1>5, <1>6, Zenon DEF AllBefore
<1>9. OrderedBy(O, Cat(E, rest))
  BY <1>1, <1>6, <1>7, <1>8, OrderedCat
<1>10. QED
  BY <1>3, <1>4, <1>9 DEF Lined, rest

\* What is current is what would be on the stack alone; a group becomes current.
LEMMA LinedCurrent ==
  ASSUME NEW U, NEW O, NEW E, NEW C \in Seq(U), NEW G \in Seq(U)
  PROVE  /\ Lined(O, E, <<>>, C, G) <=> Lined(O, E, C, <<>>, G)
         /\ Lined(O, E, <<>>, <<>>, Cat(C, G)) <=> Lined(O, E, <<>>, C, G)
<1>1. Cat(<<>>, C) = C /\ Cat(C, <<>>) = C
  BY CatEmpty
<1>2. Cat(<<>>, <<>>) = <<>>
  <2>1. <<>> \in Seq(U)
    OBVIOUS
  <2>2. QED
    BY <2>1, CatEmpty, Zenon
<1>3. Cat(<<>>, Cat(C, G)) = Cat(C, G)
  <2>1. Cat(C, G) \in Seq(U)
    BY CatFacts
  <2>2. QED
    BY <2>1, CatEmpty
<1>4. QED
  BY <1>1, <1>2, <1>3 DEF Lined

\* What is before the rest is in order.
LEMMA LinedShipped ==
  ASSUME NEW U, NEW O, NEW E \in Seq(U), NEW S \in Seq(U), NEW C \in Seq(U), NEW G \in Seq(U),
         Lined(O, E, S, C, G)
  PROVE  OrderedBy(O, E)
<1>1. Cat(S, C) \in Seq(U)
  BY CatFacts
<1>2. Cat(Cat(S, C), G) \in Seq(U)
  BY <1>1, CatFacts
<1>3. QED
  BY <1>2, OrderedCat DEF Lined

LEMMA TuplesStay ==
  ASSUME UNCHANGED input
  PROVE  Tuples' = Tuples
<1>1. batch' = batch /\ plan' = plan
  BY DEF input
<1>2. QED
  BY <1>1 DEF Tuples, KeyTuple, Origin, UnitOf, ItemOf, PartsOf

LEMMA KeyAt ==
  ASSUME BatchOK(batch), Numbered(batch), NEW a, NEW k, NEW n, IsAt(batch, a, k, n)
  PROVE  KeyTuple(ItemAt(batch, a, k, n).id)
           = Parts(plan, batch[a], batch[a].units[k], ItemAt(batch, a, k, n).attrs)
BY TupleAt, Zenon

\* Place (a, k, n) of q holds the copy of the item at place (c, j, m) of the batch.
PlacedAs(b, q, a, k, n, c, j, m) ==
  /\ IsAt(b, c, j, m) /\ q[a].from = c /\ q[a].units[k].from = j
  /\ ItemAt(b, c, j, m).id = ItemAt(q, a, k, n).id

LEMMA PlaceOf ==
  ASSUME BatchOK(batch), Numbered(batch), NEW key0, NEW q, BatchOK(q), Copied(batch, plan, key0, q),
         NEW a, NEW k, NEW n, IsAt(q, a, k, n)
  PROVE  /\ \E c, j, m : PlacedAs(batch, q, a, k, n, c, j, m)
         /\ ItemAt(q, a, k, n).id \in ToSet(Ids(batch))
         /\ key0 = JoinParts(KeyTuple(ItemAt(q, a, k, n).id))
<1> DEFINE r == q[a]
           u == r.units[k]
           x == u.items[n]
<1>1. x = ItemAt(q, a, k, n)
  BY DEF ItemAt
<1>2. r \in ToSet(q) /\ u \in ToSet(r.units) /\ x \in ToSet(u.items)
  <2>1. a \in 1..Len(q) /\ k \in 1..Len(r.units) /\ n \in 1..Len(u.items)
    BY DEF IsAt
  <2>2. IsSeq(q) /\ IsSeq(r.units) /\ IsSeq(u.items)
    BY <2>1, Inside, Zenon DEF BatchOK, UnitsOK, ItemsOK
  <2>3. QED
    BY <2>1, <2>2, IsElement
<1>3. PICK c, j, m : OriginalAt(batch, plan, key0, r, u, x, c, j, m)
  BY <1>2, OriginalOf
<1> DEFINE y == ItemAt(batch, c, j, m)
<1>4. /\ IsAt(batch, c, j, m) /\ r.from = c /\ u.from = j /\ y.id = x.id
      /\ key0 = JoinParts(Parts(plan, batch[c], batch[c].units[j], y.attrs))
  BY <1>3 DEF OriginalAt, ItemCopied
<1>5. KeyTuple(y.id) = Parts(plan, batch[c], batch[c].units[j], y.attrs)
  BY <1>4, KeyAt
<1>6. y.id \in ToSet(Ids(batch))
  BY <1>4, IdsByPlace, Zenon
<1>7. PlacedAs(batch, q, a, k, n, c, j, m)
  BY <1>1, <1>4 DEF PlacedAs
<1> HIDE DEF x, y
<1>8. QED
  BY <1>1, <1>4, <1>5, <1>6, <1>7

\* Two places of a copied group are in the order of the batch.
LEMMA PlacesInOrder ==
  ASSUME BatchOK(batch), Numbered(batch), NEW key0, NEW q, BatchOK(q), Copied(batch, plan, key0, q),
         NEW a, NEW k, NEW n, NEW aa, NEW kk, NEW nn,
         IsAt(q, a, k, n), IsAt(q, aa, kk, nn), PlaceBefore(a, k, n, aa, kk, nn)
  PROVE  ItemAt(q, a, k, n).id < ItemAt(q, aa, kk, nn).id
<1>1. PICK c, j, m : PlacedAs(batch, q, a, k, n, c, j, m)
  BY PlaceOf
<1>2. PICK cc, jj, mm : PlacedAs(batch, q, aa, kk, nn, cc, jj, mm)
  BY PlaceOf
<1>3. /\ IsAt(batch, c, j, m) /\ IsAt(batch, cc, jj, mm)
      /\ ItemAt(batch, c, j, m).id = ItemAt(q, a, k, n).id
      /\ ItemAt(batch, cc, jj, mm).id = ItemAt(q, aa, kk, nn).id
      /\ q[a].from = c /\ q[a].units[k].from = j
      /\ q[aa].from = cc /\ q[aa].units[kk].from = jj
  BY <1>1, <1>2 DEF PlacedAs
<1>4. PlaceBefore(c, j, m, cc, jj, mm) => ItemAt(q, a, k, n).id < ItemAt(q, aa, kk, nn).id
  BY <1>3, NumberedPlaces
<1>5. /\ IsSeq(q) /\ Rising(q) /\ DOMAIN q = 1..Len(q) /\ a \in DOMAIN q /\ aa \in DOMAIN q
  <2>1. DOMAIN q = 1..Len(q) /\ IsSeq(q)
    BY SeqFacts DEF BatchOK
  <2>2. QED
    BY <2>1 DEF Copied, IsAt
<1>6. /\ IsSeq(q[a].units) /\ q[a] \in ToSet(q) /\ UnitsOK(q[a].units)
  BY <1>5, Inside DEF ToSet, UnitsOK
<1>7. /\ Rising(q[a].units) /\ DOMAIN q[a].units = 1..Len(q[a].units) /\ k \in DOMAIN q[a].units
  <2>1. Rising(q[a].units)
    BY <1>6 DEF Copied, ResourceCopied
  <2>2. DOMAIN q[a].units = 1..Len(q[a].units)
    BY <1>6, SeqFacts
  <2>3. QED
    BY <2>1, <2>2 DEF IsAt
<1>8. CASE a < aa
  <2>1. c < cc
    BY <1>3, <1>5, <1>8 DEF Rising
  <2>2. QED
    BY <1>4, <2>1 DEF PlaceBefore
<1>9. CASE a = aa /\ k < kk
  <2>1. kk \in DOMAIN q[a].units
    BY <1>7, <1>9 DEF IsAt
  <2>2. c = cc /\ j < jj
    BY <1>3, <1>7, <1>9, <2>1 DEF Rising
  <2>3. QED
    BY <1>4, <2>2 DEF PlaceBefore
<1>10. CASE a = aa /\ k = kk /\ n < nn
  <2> DEFINE u == q[a].units[k]
  <2>1. u \in ToSet(q[a].units) /\ IsSeq(u.items)
    <3>1. k \in 1..Len(q[a].units) /\ a \in 1..Len(q)
      BY DEF IsAt
    <3>2. QED
      BY <1>6, <3>1, Inside, IsElement DEF ItemsOK
  <2>2. RisingIds(u.items)
    BY <1>6, <2>1 DEF Copied, ResourceCopied, UnitCopied
  <2>3. DOMAIN u.items = 1..Len(u.items)
    BY <2>1, SeqFacts
  <2>4. n \in DOMAIN u.items /\ nn \in DOMAIN u.items
    BY <1>10, <2>3 DEF IsAt
  <2>5. u.items[n].id < u.items[nn].id
    BY <1>10, <2>2, <2>4 DEF RisingIds
  <2>6. QED
    BY <1>10, <2>5 DEF ItemAt
<1>11. QED
  BY <1>8, <1>9, <1>10 DEF PlaceBefore

LEMMA SameKeyPair ==
  ASSUME NEW T, NEW x \in DOMAIN T, NEW y \in DOMAIN T, T[x] = T[y] => x < y
  PROVE  <<x, y>> \in SameKey(T)
BY DEF SameKey

\* At the end of groupByTags every item is in the group of its key, and in order
\* among those that have the same tuple.
LEMMA GroupedInOrder ==
  ASSUME BatchOK(batch), Numbered(batch), NEW gs, GroupsOK(gs), AllGrouped(batch, plan, gs)
  PROVE  GroupsKeyed(Tuples, gs) /\ OrderedBy(SameKey(Tuples), GroupIds(gs))
<1> DEFINE T == Tuples
           O == SameKey(T)
<1>1. InPlace(batch) /\ DistinctKeys(gs)
  BY NumberedInPlace, EndCovers
<1>2. \A g \in ToSet(gs) : BatchOK(g.res) /\ Copied(batch, plan, g.key, g.res)
  BY EndCovers DEF GroupsOK, GroupOK
<1>3. DOMAIN T = ToSet(Ids(batch)) /\ \A i \in ToSet(Ids(batch)) : T[i] = KeyTuple(i)
  BY DEF Tuples
<1> HIDE DEF T
<1>4. ASSUME NEW x \in DOMAIN T, NEW y \in DOMAIN T, T[x] = T[y] => x < y
      PROVE  <<x, y>> \in O
  BY <1>4, SameKeyPair
<1> HIDE DEF O
<1>5. ASSUME NEW g \in ToSet(gs)
      PROVE  Keyed(T, g.key, Ids(g.res))
  <2>1. ASSUME NEW i \in ToSet(Ids(g.res))
        PROVE  i \in DOMAIN T /\ g.key = JoinParts(T[i])
    <3>1. PICK a, k, n : IsAt(g.res, a, k, n) /\ ItemAt(g.res, a, k, n).id = i
      BY <1>2, <2>1, IdsByPlace
    <3>2. i \in ToSet(Ids(batch)) /\ g.key = JoinParts(KeyTuple(i))
      BY <1>2, <3>1, PlaceOf
    <3>3. QED
      BY <1>3, <3>2
  <2>2. QED
    BY <2>1 DEF Keyed
<1>6. ASSUME NEW g \in ToSet(gs)
      PROVE  OrderedBy(O, Ids(g.res))
  <2>1. ASSUME NEW a, NEW k, NEW n, NEW aa, NEW kk, NEW nn,
               IsAt(g.res, a, k, n), IsAt(g.res, aa, kk, nn), PlaceBefore(a, k, n, aa, kk, nn)
        PROVE  <<ItemAt(g.res, a, k, n).id, ItemAt(g.res, aa, kk, nn).id>> \in O
    <3>1. ItemAt(g.res, a, k, n).id < ItemAt(g.res, aa, kk, nn).id
      BY <1>2, <2>1, PlacesInOrder
    <3>2. /\ ItemAt(g.res, a, k, n).id \in ToSet(Ids(batch))
          /\ ItemAt(g.res, aa, kk, nn).id \in ToSet(Ids(batch))
      BY <1>2, <2>1, PlaceOf
    <3>3. QED
      BY <1>3, <1>4, <3>1, <3>2
  <2>2. QED
    BY <1>2, <2>1, OrderByPlace
<1>7. ASSUME NEW g \in 1..Len(gs), NEW h \in 1..Len(gs), g < h
      PROVE  AllBefore(O, ToSet(Ids(gs[g].res)), ToSet(Ids(gs[h].res)))
  <2>1. /\ gs[g] \in ToSet(gs) /\ gs[h] \in ToSet(gs) /\ gs[g].key # gs[h].key
    <3>1. IsSeq(gs) /\ DOMAIN gs = 1..Len(gs) /\ Len(gs) \in Nat
      BY SeqFacts DEF GroupsOK
    <3>2. g # h
      BY <1>7, <3>1
    <3>3. QED
      BY <1>1, <3>1, <3>2 DEF DistinctKeys, ToSet
  <2>2. ASSUME NEW x \in ToSet(Ids(gs[g].res)), NEW y \in ToSet(Ids(gs[h].res))
        PROVE  <<x, y>> \in O
    <3>1. /\ x \in DOMAIN T /\ gs[g].key = JoinParts(T[x])
          /\ y \in DOMAIN T /\ gs[h].key = JoinParts(T[y])
      BY <1>5, <2>1, <2>2 DEF Keyed
    <3>2. T[x] # T[y]
      BY <2>1, <3>1
    <3>3. QED
      BY <1>4, <3>1, <3>2
  <2>3. QED
    BY <2>2, Zenon DEF AllBefore
<1>8. \A g \in 1..Len(gs) : OrderedBy(O, Ids(gs[g].res))
  BY <1>6, IsElement DEF GroupsOK
<1>9. OrderedBy(O, GroupIds(gs))
  BY <1>7, <1>8, GroupsOrdered
<1>10. QED
  BY <1>5, <1>9 DEF GroupsKeyed, O, T

-----------------------------------------------------------------------------
(***************************************************************************)
(* emit, packChain and packSplit keep keys and order.                      *)
(***************************************************************************)
\* Whatever is in hand has the key it is packed under, and what was shipped, what
\* is stacked, what is current and what is still grouped are in order.
Packed ==
  /\ GroupsKeyed(Tuples, groups)
  /\ Keyed(Tuples, key, Ids(current.res)) /\ Keyed(Tuples, key, PieceIds(stack))
  /\ EntriesKeyed(Tuples, entries)
  /\ Lined(SameKey(Tuples), PieceIds(entries), PieceIds(stack), Ids(current.res),
           GroupIds(groups))

PackInv == at \notin {"begin", "grouped"} => Packed

LEMMA NoneKeyed == ASSUME NEW T, NEW k PROVE Keyed(T, k, <<>>)
BY NoneApart DEF Keyed

\* The parts of what has a key have it.
LEMMA PartsKeyed ==
  ASSUME NEW T, NEW k, NEW U, NEW s \in Seq(U), NEW t \in Seq(U)
  PROVE  Keyed(T, k, Cat(s, t)) <=> Keyed(T, k, s) /\ Keyed(T, k, t)
<1>1. ToSet(Cat(s, t)) = ToSet(s) \cup ToSet(t)
  BY CatFacts
<1>2. QED
  BY <1>1 DEF Keyed

\* groupByTags is done.
LEMMA PackedBefore ==
  ASSUME IInv, GroupsInv, PackInv, at # "begin"
  PROVE  Packed
<1>1. CASE at # "grouped"
  BY <1>1 DEF PackInv
<1>2. CASE at = "grouped"
  <2>1. /\ entries = <<>> /\ stack = <<>> /\ current = NoPiece /\ GroupsOK(groups)
        /\ GroupIds(groups) \in Seq(Items)
    BY <1>2, Placed DEF IInv, Control, Idle, Types
  <2>2. BatchOK(batch) /\ Numbered(batch) /\ AllGrouped(batch, plan, groups)
    BY <1>2, InputGiven DEF GroupsInv
  <2>3. GroupsKeyed(Tuples, groups) /\ OrderedBy(SameKey(Tuples), GroupIds(groups))
    BY <2>1, <2>2, GroupedInOrder
  <2>4. PieceIds(entries) = <<>> /\ PieceIds(stack) = <<>> /\ Ids(current.res) = <<>>
    BY <2>1, PiecesNone, NoPieceOK
  <2>5. EntriesKeyed(Tuples, entries)
    BY <2>1, NoneApart DEF EntriesKeyed
  <2> DEFINE G == GroupIds(groups)
  <2>6. Cat(<<>>, Cat(Cat(<<>>, <<>>), G)) = G
    <3>1. <<>> \in Seq(Items) /\ G \in Seq(Items)
      BY <2>1
    <3> HIDE DEF G
    <3>2. Cat(<<>>, <<>>) = <<>> /\ Cat(<<>>, G) = G
      BY <3>1, CatEmpty, Zenon
    <3>3. QED
      BY <3>2
  <2>7. Lined(SameKey(Tuples), PieceIds(entries), PieceIds(stack), Ids(current.res), G)
    BY <2>3, <2>4, <2>6 DEF Lined
  <2>8. QED
    BY <2>3, <2>4, <2>5, <2>7, NoneKeyed DEF Packed
<1>3. QED
  BY <1>1, <1>2

LEMMA PackedNext ==
  ASSUME UNCHANGED input, GroupsKeyed(Tuples, groups'),
         Keyed(Tuples, key', Ids(current'.res)), Keyed(Tuples, key', PieceIds(stack')),
         EntriesKeyed(Tuples, entries'),
         Lined(SameKey(Tuples), PieceIds(entries'), PieceIds(stack'), Ids(current'.res),
               GroupIds(groups'))
  PROVE  Packed'
<1>1. Tuples' = Tuples
  BY TuplesStay
<1>2. QED
  BY <1>1 DEF Packed

\* A piece becomes a record, or is dropped.
LEMMA ShippedKeyed ==
  ASSUME PiecesOK(entries), EntriesKeyed(Tuples, entries), NEW p, PieceOK(p), Ship(p),
         Keyed(Tuples, key, Ids(p.res))
  PROVE  EntriesKeyed(Tuples, entries')
<1> DEFINE x == [key |-> key, piece |-> p]
<1>1. entries' = Append(entries, x) /\ x.key = key /\ x.piece = p
  BY DEF Ship
<1> HIDE DEF x
<1>2. ToSet(entries') = ToSet(entries) \cup {x}
  BY <1>1, AppendedSet DEF PiecesOK
<1>3. QED
  BY <1>1, <1>2 DEF EntriesKeyed

LEMMA PieceDone ==
  ASSUME Types, EntriesKeyed(Tuples, entries), NEW p, PieceOK(p),
         Keyed(Tuples, key, Ids(p.res)),
         NEW O, NEW S \in Seq(Items), NEW C \in Seq(Items), NEW G \in Seq(Items),
         Lined(O, PieceIds(entries), Cat(Ids(p.res), S), C, G),
         Ship(p) \/ \E reason \in Reasons : Drop(p, reason)
  PROVE  EntriesKeyed(Tuples, entries') /\ Lined(O, PieceIds(entries'), S, C, G)
<1> DEFINE P == Ids(p.res)
           E == PieceIds(entries)
<1>1. /\ PiecesOK(entries) /\ drops \in [Reasons -> Nat]
      /\ P \in Seq(Items) /\ E \in Seq(Items)
  BY Placed, BatchCat, Zenon DEF Types, PieceOK
<1> HIDE DEF P, E
<1>2. Lined(O, E, Cat(P, S), C, G)
  BY DEF P, E
<1>3. Lined(O, Cat(E, P), S, C, G) /\ Lined(O, E, S, C, G)
  BY <1>1, <1>2, LinedStack
<1>4. CASE Ship(p)
  <2>1. PieceIds(entries') = Cat(E, P)
    BY <1>1, <1>4, Shipping DEF E, P
  <2>2. EntriesKeyed(Tuples, entries')
    BY <1>1, <1>4, ShippedKeyed
  <2>3. QED
    BY <1>3, <2>1, <2>2
<1>5. CASE \E reason \in Reasons : Drop(p, reason)
  <2>1. entries' = entries
    BY <1>5 DEF Drop
  <2>2. QED
    BY <1>3, <2>1 DEF E
<1>6. QED
  BY <1>4, <1>5

\* What is current is shipped or dropped, and packChain returns.
LEMMA ReturnedPacked ==
  ASSUME IInv, Packed, at \in {"first", "policies"}, NEW p, PieceOK(p),
         Ids(p.res) = Ids(current.res),
         Ship(p) \/ (\E reason \in Reasons : Drop(p, reason)), Return,
         UNCHANGED <<input, groups, key>>
  PROVE  Packed'
<1> DEFINE O == SameKey(Tuples)
           E == PieceIds(entries)
           C == Ids(current.res)
           G == GroupIds(groups)
<1>1. Types /\ stack = <<>>
  BY DEF IInv, Control
<1>2. E \in Seq(Items) /\ C \in Seq(Items) /\ G \in Seq(Items) /\ <<>> \in Seq(Items)
  BY <1>1, Placed
<1>3. PieceIds(stack) = <<>>
  BY <1>1, PiecesNone
<1>4. Lined(O, E, <<>>, C, G) /\ Keyed(Tuples, key, C) /\ EntriesKeyed(Tuples, entries)
      /\ GroupsKeyed(Tuples, groups)
  BY <1>3 DEF Packed
<1> HIDE DEF O
<1>5. Lined(O, E, Cat(C, <<>>), <<>>, G)
  <2> HIDE DEF E, C, G
  <2>1. Lined(O, E, C, <<>>, G) /\ Cat(C, <<>>) = C
    BY <1>2, <1>4, LinedCurrent, CatEmpty, Zenon
  <2>2. QED
    BY <2>1
<1>6. EntriesKeyed(Tuples, entries') /\ Lined(O, PieceIds(entries'), <<>>, <<>>, G)
  BY <1>1, <1>2, <1>4, <1>5, PieceDone, Zenon
<1>7. current' = NoPiece /\ stack' = <<>> /\ groups' = groups
  BY DEF Return
<1>8. Ids(current'.res) = <<>> /\ PieceIds(stack') = <<>>
  BY <1>7, PiecesNone, NoPieceOK
<1>9. QED
  BY <1>4, <1>6, <1>7, <1>8, NoneKeyed, PackedNext DEF O

\* The piece goes on to the policies.
LEMMA RetriedPacked ==
  ASSUME Packed, Ids(current'.res) = Ids(current.res), stack' = stack, Neither,
         UNCHANGED <<input, groups, key>>
  PROVE  Packed'
<1>1. entries' = entries /\ groups' = groups /\ key' = key
  BY DEF Neither
<1>2. QED
  BY <1>1, PackedNext DEF Packed

LEMMA TakeGroupPacked == ASSUME IInv, Packed, TakeGroup PROVE Packed'
<1> DEFINE O == SameKey(Tuples)
           E == PieceIds(entries)
           h == Head(groups)
           C == Ids(h.res)
           G == GroupIds(Tail(groups))
<1>1. /\ at \in {"grouped", "emit"} /\ groups # <<>>
      /\ key' = h.key /\ current' = Piece(h.res) /\ groups' = Tail(groups)
      /\ stack' = stack /\ entries' = entries /\ UNCHANGED input
  BY DEF TakeGroup
<1>2. Types /\ stack = <<>> /\ current = NoPiece /\ GroupsOK(groups)
  BY <1>1 DEF IInv, Control, Types
<1>3. /\ C \in Seq(Items) /\ G \in Seq(Items) /\ E \in Seq(Items)
      /\ GroupIds(groups) = Cat(C, G)
  BY <1>1, <1>2, GroupsPop, Placed
<1>4. h \in ToSet(groups) /\ ToSet(Tail(groups)) \subseteq ToSet(groups)
  BY <1>1, <1>2, HeadAndTail, Zenon DEF GroupsOK
<1>5. PieceIds(stack) = <<>> /\ Ids(current.res) = <<>>
  BY <1>2, PiecesNone, NoPieceOK
<1>6. GroupsKeyed(Tuples, Tail(groups)) /\ Keyed(Tuples, h.key, C)
  BY <1>4 DEF Packed, GroupsKeyed
<1>7. Lined(O, E, <<>>, <<>>, Cat(C, G)) /\ EntriesKeyed(Tuples, entries)
  BY <1>3, <1>5 DEF Packed
<1>8. current'.res = h.res
  BY <1>1 DEF Piece
<1> HIDE DEF O, E, C, G, h
<1>9. Lined(O, E, <<>>, C, G)
  BY <1>3, <1>7, LinedCurrent
<1>10. Ids(current'.res) = C /\ GroupIds(groups') = G
  BY <1>1, <1>8 DEF C, G
<1>11. QED
  BY <1>1, <1>5, <1>6, <1>7, <1>9, <1>10, NoneKeyed, PackedNext DEF O, E

LEMMA FirstTryPacked == ASSUME IInv, Packed, FirstTry PROVE Packed'
<1>1. PICK r \in TryEncode(current) :
       \/ r = "fit" /\ Ship(current) /\ Return
       \/ r \in CodecErrors /\ Drop(current, r) /\ Return
       \/ r = "large" /\ Neither /\ UNCHANGED <<current, left, stack>>
  BY DEF FirstTry
<1>2. at = "first" /\ UNCHANGED <<input, groups, key>> /\ PieceOK(current)
  BY DEF FirstTry, IInv, Types
<1>3. CASE Ship(current) /\ Return
  BY <1>2, <1>3, ReturnedPacked
<1>4. CASE r \in CodecErrors /\ Drop(current, r) /\ Return
  <2>1. \E reason \in Reasons : Drop(current, reason)
    BY <1>4 DEF Reasons
  <2>2. QED
    BY <1>2, <1>4, <2>1, ReturnedPacked
<1>5. CASE Neither /\ UNCHANGED <<current, left, stack>>
  BY <1>2, <1>5, RetriedPacked
<1>6. QED
  BY <1>1, <1>3, <1>4, <1>5

LEMMA TruncatePacked == ASSUME IInv, Packed, Truncate PROVE Packed'
<1> DEFINE trimmed == [current EXCEPT !.trimmed = TRUE]
<1>1. at = "policies" /\ UNCHANGED <<input, groups, key>> /\ PieceOK(current)
  BY DEF Truncate, IInv, Types
<1>2. PieceOK(trimmed) /\ trimmed.res = current.res
  BY <1>1, TrimmedOK
<1>3. \/ Neither /\ UNCHANGED <<current, stack>>
      \/ Ship(trimmed) /\ Return
      \/ Neither /\ (current' = trimmed \/ current' = current) /\ UNCHANGED stack
  BY Zenon DEF Truncate
<1> HIDE DEF trimmed
<1>4. Ids(trimmed.res) = Ids(current.res)
  BY <1>2
<1>5. CASE Ship(trimmed) /\ Return
  BY <1>1, <1>2, <1>4, <1>5, ReturnedPacked
<1>6. CASE Neither /\ (current' = trimmed \/ current' = current) /\ UNCHANGED stack
  <2>1. Ids(current'.res) = Ids(current.res)
    BY <1>4, <1>6
  <2>2. QED
    BY <1>1, <1>6, <2>1, RetriedPacked
<1>7. QED
  BY <1>3, <1>5, <1>6

LEMMA StartSplitPacked == ASSUME IInv, Packed, StartSplit PROVE Packed'
<1> DEFINE O == SameKey(Tuples)
           E == PieceIds(entries)
           C == Ids(current.res)
           G == GroupIds(groups)
           c == [piece |-> current, depth |-> 0]
<1>1. /\ at = "policies" /\ stack' = <<c>> /\ current' = NoPiece
      /\ groups' = groups /\ key' = key /\ entries' = entries /\ UNCHANGED input
  BY DEF StartSplit, Neither
<1>2. Types /\ stack = <<>> /\ PieceOK(current)
  BY <1>1 DEF IInv, Control, Types
<1>3. C \in Seq(Items) /\ G \in Seq(Items) /\ PieceIds(stack) = <<>>
  BY <1>2, Placed, PiecesNone
<1>4. c.piece = current
  OBVIOUS
<1> HIDE DEF c
<1>5. PieceIds(stack') = C /\ Ids(current'.res) = <<>>
  BY <1>1, <1>2, <1>4, PiecesOne, NoPieceOK
<1>6. /\ Lined(O, E, <<>>, C, G) /\ EntriesKeyed(Tuples, entries)
      /\ GroupsKeyed(Tuples, groups) /\ Keyed(Tuples, key, C)
  BY <1>3 DEF Packed
<1> HIDE DEF O, E, C, G
<1>7. Lined(O, E, C, <<>>, G)
  BY <1>3, <1>6, LinedCurrent, Zenon
<1>8. QED
  BY <1>1, <1>5, <1>6, <1>7, NoneKeyed, PackedNext DEF O, E, G

LEMMA RejectPacked == ASSUME IInv, Packed, Reject \/ Exhausted PROVE Packed'
<1>1. /\ at = "policies" /\ UNCHANGED <<input, groups, key>> /\ Return
      /\ Drop(current, "reject_policy") \/ Drop(current, "chain_exhausted")
  BY DEF Reject, Exhausted
<1>2. \E reason \in Reasons : Drop(current, reason)
  BY <1>1 DEF Reasons
<1>3. PieceOK(current)
  BY DEF IInv, Types
<1>4. QED
  BY <1>1, <1>2, <1>3, ReturnedPacked

LEMMA PackSplitPacked == ASSUME IInv, Packed, PackSplit PROVE Packed'
<1> DEFINE O == SameKey(Tuples)
           E == PieceIds(entries)
           G == GroupIds(groups)
           p == Head(stack).piece
           d == Head(stack).depth
           P == Ids(p.res)
           S == PieceIds(Tail(stack))
<1>1. /\ at = "split" /\ stack # <<>> /\ UNCHANGED <<input, groups, key>> /\ current' = current
      /\ groups' = groups
  BY DEF PackSplit
<1>2. /\ Types /\ current = NoPiece /\ PiecesOK(stack) /\ DepthsOK(stack)
  BY <1>1 DEF IInv, Control, Types
<1>3. /\ PieceOK(p) /\ PiecesOK(Tail(stack)) /\ P \in Seq(Items) /\ S \in Seq(Items)
      /\ PieceIds(stack) = Cat(P, S) /\ d \in 0..MaxAttempts
  BY <1>1, <1>2, PiecesPop DEF DepthsOK
<1>4. E \in Seq(Items) /\ G \in Seq(Items) /\ <<>> \in Seq(Items)
  BY <1>2, Placed
<1>5. Ids(current.res) = <<>> /\ Ids(current'.res) = <<>>
  BY <1>1, <1>2, NoPieceOK
<1>6. /\ GroupsKeyed(Tuples, groups) /\ EntriesKeyed(Tuples, entries)
      /\ Keyed(Tuples, key, Cat(P, S)) /\ Lined(O, E, Cat(P, S), <<>>, G)
  BY <1>3, <1>5 DEF Packed
<1>7. Keyed(Tuples, key, P) /\ Keyed(Tuples, key, S)
  <2> HIDE DEF P, S
  <2>1. QED
    BY <1>3, <1>6, PartsKeyed
<1>8. \/ stack' = Tail(stack) /\ (Ship(p) \/ \E reason \in Reasons : Drop(p, reason))
      \/ /\ ~OutOfAttempts(d) /\ Splittable(p) /\ stack' = Halves(p, d) \o Tail(stack)
         /\ Neither
  BY DEF PackSplit, Reasons
<1>9. CASE stack' = Tail(stack) /\ (Ship(p) \/ \E reason \in Reasons : Drop(p, reason))
  <2> HIDE DEF O, G, S
  <2>1. EntriesKeyed(Tuples, entries') /\ Lined(O, PieceIds(entries'), S, <<>>, G)
    <3> HIDE DEF p
    <3>1. QED
      BY <1>2, <1>3, <1>4, <1>6, <1>7, <1>9, PieceDone, Zenon
  <2>2. PieceIds(stack') = S /\ GroupIds(groups') = G
    BY <1>1, <1>9 DEF S, G
  <2>3. QED
    BY <1>1, <1>5, <1>6, <1>7, <2>1, <2>2, NoneKeyed, PackedNext DEF O
<1>10. CASE /\ ~OutOfAttempts(d) /\ Splittable(p) /\ stack' = Halves(p, d) \o Tail(stack)
            /\ Neither
  <2> DEFINE hs == Halves(p, d)
             t == Tail(stack)
  <2>1. PiecesOK(hs) /\ PieceIds(hs) = P
    BY <1>3, <1>10, HalvesStacked
  <2>2. stack' = Cat(hs, t) /\ PiecesOK(t)
    BY <1>3, <1>10 DEF Cat
  <2> HIDE DEF hs, t
  <2>3. PieceIds(stack') = Cat(P, S)
    BY <2>1, <2>2, PiecesCat DEF t
  <2>4. entries' = entries
    BY <1>10 DEF Neither
  <2> HIDE DEF P, S
  <2>5. QED
    BY <1>1, <1>5, <1>6, <2>3, <2>4, NoneKeyed, PackedNext
<1>11. QED
  BY <1>8, <1>9, <1>10, Zenon

LEMMA PackingDone == ASSUME IInv, Packed, SplitEnds \/ Flush PROVE Packed'
<1>1. CASE SplitEnds
  <2>1. /\ stack = <<>> /\ stack' = <<>> /\ at = "split" /\ current' = NoPiece
        /\ UNCHANGED <<input, groups, key>> /\ Neither
    BY <1>1 DEF SplitEnds, Return
  <2>2. current = NoPiece
    BY <2>1 DEF IInv, Control
  <2>3. QED
    BY <2>1, <2>2, RetriedPacked
<1>2. CASE Flush
  <2>1. /\ stack' = stack /\ current' = current /\ UNCHANGED <<input, groups, key>> /\ Neither
    BY <1>2 DEF Flush, Neither
  <2>2. QED
    BY <2>1, RetriedPacked
<1>3. QED
  BY <1>1, <1>2

LEMMA PackStep == ASSUME IInv, GroupsInv, PackInv, [Next]_vars PROVE PackInv'
<1>1. CASE GroupWhole \/ GroupResource \/ GroupLeaf \/ UnitEnds \/ ResourceEnds \/ GroupingEnds
  <2>1. at' \in {"begin", "grouped"}
    BY <1>1 DEF GroupWhole, GroupResource, GroupLeaf, UnitEnds, ResourceEnds, GroupingEnds,
       Regrouping
  <2>2. QED
    BY <2>1 DEF PackInv
<1>2. CASE UNCHANGED vars
  <2>1. /\ at' = at /\ UNCHANGED <<input, groups, key, current, stack, entries>>
    BY <1>2 DEF vars, input
  <2>2. Tuples' = Tuples
    BY <2>1, TuplesStay
  <2>3. QED
    BY <2>1, <2>2 DEF PackInv, Packed
<1>3. CASE TakeGroup \/ FirstTry \/ Truncate \/ StartSplit \/ Reject \/ Exhausted
           \/ PackSplit \/ SplitEnds \/ Flush
  <2>1. at # "begin"
    BY <1>3, Zenon DEF TakeGroup, FirstTry, Truncate, StartSplit, Reject, Exhausted, PackSplit,
       SplitEnds, Flush
  <2>2. Packed
    BY <2>1, PackedBefore
  <2>3. Packed'
    BY <1>3, <2>2, TakeGroupPacked, FirstTryPacked, TruncatePacked, StartSplitPacked,
       RejectPacked, PackSplitPacked, PackingDone
  <2>4. QED
    BY <2>3 DEF PackInv
<1>4. QED
  BY <1>1, <1>2, <1>3 DEF Next

\* Whatever is packed is packed under the key of its items, and in their order, from
\* the first group to the last record (emit, packChain, packSplit).
THEOREM PackInvariance == Spec => []PackInv
<1>1. Init => PackInv
  BY DEF Init, PackInv
<1>2. IInv /\ GroupsInv /\ PackInv /\ [Next]_vars => PackInv'
  BY PackStep
<1>3. QED
  BY <1>1, <1>2, Invariance, GroupsInvariance, PTL DEF Spec

\* Records are in the order of the batch, key by key under tag_hash and throughout
\* under random, for every batch, plan and chain of policies: groups are filled in
\* order, and packSplit packs the first half before the second.
THEOREM RecordsInOrder == Spec => []InOrder
<1>1. ASSUME IInv, GroupsInv, PackInv
      PROVE  InOrder
  <2> DEFINE O == SameKey(Tuples)
             E == PieceIds(entries)
  <2>1. Shipped = E
    BY DEF Shipped, PieceIds
  <2>2. /\ E \in Seq(Items) /\ PieceIds(stack) \in Seq(Items)
        /\ Ids(current.res) \in Seq(Items) /\ GroupIds(groups) \in Seq(Items)
    BY <1>1, Placed DEF IInv
  <2>3. OrderedBy(O, E) /\ EntriesKeyed(Tuples, entries)
    <3>1. CASE at = "begin"
      <4>1. entries = <<>> /\ E = <<>>
        BY <1>1, <3>1, PiecesNone DEF IInv, Control, Idle
      <4>2. QED
        BY <4>1, NoneApart DEF OrderedBy, EntriesKeyed
    <3>2. CASE at # "begin"
      <4>1. Packed
        BY <1>1, <3>2, PackedBefore
      <4>2. QED
        BY <2>2, <4>1, LinedShipped DEF Packed
    <3>3. QED
      BY <3>1, <3>2
  <2>4. \A i, j \in DOMAIN Tuples : <<i, j>> \in O => (Tuples[i] = Tuples[j] => i < j)
    BY DEF SameKey
  <2>5. \A i, j : <<i, j>> \in O => i \in DOMAIN Tuples /\ j \in DOMAIN Tuples
    BY DEF SameKey
  <2>6. \A i \in DOMAIN Tuples : Tuples[i] = KeyTuple(i)
    BY DEF Tuples
  <2>7. ~tagHash => \A i : KeyTuple(i) = <<>>
    BY DEF tagHash, KeyTuple, PartsOf, ResolveParts
  <2> HIDE DEF O, E
  <2>8. ASSUME NEW m \in DOMAIN E, NEW n \in DOMAIN E, m < n,
               ~tagHash \/ KeyTuple(E[m]) = KeyTuple(E[n])
        PROVE  E[m] < E[n]
    <3>1. <<E[m], E[n]>> \in O
      BY <2>3, <2>8 DEF OrderedBy
    <3>2. E[m] \in DOMAIN Tuples /\ E[n] \in DOMAIN Tuples
      BY <2>5, <3>1
    <3>3. KeyTuple(E[m]) = KeyTuple(E[n])
      BY <2>7, <2>8
    <3>4. QED
      BY <2>4, <2>6, <3>1, <3>2, <3>3
  <2>9. QED
    BY <2>1, <2>8 DEF InOrder
<1>2. QED
  BY <1>1, Invariance, GroupsInvariance, PackInvariance, PTL

-----------------------------------------------------------------------------
(***************************************************************************)
(* joinParts tells tuples of separator-free parts apart.                   *)
(***************************************************************************)
After(s, z, t) == s \o (<<z>> \o t)

\* w holds s, z and t.
Holds(w, s, z, t) ==
  /\ Len(w) = (Len(s) + 1) + Len(t)
  /\ \A i \in 1..Len(s) : w[i] = s[i]
  /\ w[Len(s) + 1] = z
  /\ \A i \in 1..Len(t) : w[(Len(s) + 1) + i] = t[i]

LEMMA AfterHolds ==
  ASSUME NEW U, NEW z \in U, NEW s \in Seq(U), NEW t \in Seq(U)
  PROVE  Holds(After(s, z, t), s, z, t)
<1> DEFINE r == <<z>> \o t
           m == Len(s)
           n == Len(t)
           w == s \o r
<1>1. m \in Nat /\ n \in Nat /\ <<z>> \in Seq(U) /\ Len(<<z>>) = 1
  BY LenProperties
<1>2. /\ r \in Seq(U) /\ Len(r) = 1 + n
      /\ \A i \in 1..(1 + n) : r[i] = IF i <= 1 THEN <<z>>[i] ELSE t[i - 1]
  BY <1>1, ConcatProperties
<1>3. r[1] = z /\ \A i \in 1..n : r[1 + i] = t[i]
  <2>1. 1 \in 1..(1 + n) /\ <<z>>[1] = z
    BY <1>1
  <2>2. \A i \in 1..n : 1 + i \in 1..(1 + n) /\ ~(1 + i <= 1) /\ (1 + i) - 1 = i
    BY <1>1
  <2> HIDE DEF r
  <2>3. QED
    BY <1>2, <2>1, <2>2
<1> HIDE DEF r
<1> HIDE DEF m, n
<1>a. /\ Len(w) = Len(s) + Len(r)
      /\ \A i \in 1..Len(s) + Len(r) : w[i] = IF i <= Len(s) THEN s[i] ELSE r[i - Len(s)]
  BY <1>2, ConcatProperties, Zenon
<1> HIDE DEF w
<1>4. /\ Len(w) = m + (1 + n)
      /\ \A i \in 1..(m + (1 + n)) : w[i] = IF i <= m THEN s[i] ELSE r[i - m]
  BY <1>2, <1>a DEF m
<1>5. \A i \in 1..m : w[i] = s[i]
  <2>1. \A i \in 1..m : i \in 1..(m + (1 + n)) /\ i <= m
    BY <1>1
  <2>2. QED
    BY <1>4, <2>1
<1>6. w[m + 1] = z
  <2>1. m + 1 \in 1..(m + (1 + n)) /\ ~(m + 1 <= m) /\ (m + 1) - m = 1
    BY <1>1
  <2>2. QED
    BY <1>3, <1>4, <2>1
<1>7. ASSUME NEW i \in 1..n
      PROVE  w[(m + 1) + i] = t[i]
  <2>1. /\ (m + 1) + i \in 1..(m + (1 + n)) /\ ~((m + 1) + i <= m)
        /\ ((m + 1) + i) - m = 1 + i
    BY <1>1
  <2>2. QED
    BY <1>3, <1>4, <2>1
<1>8. m + (1 + n) = (m + 1) + n
  BY <1>1
<1>9. After(s, z, t) = w
  BY DEF After, r, w
<1>10. QED
  BY <1>4, <1>5, <1>6, <1>7, <1>8, <1>9 DEF m, n, Holds

\* The last separator is where the first of the two sequences ends.
LEMMA NoLaterCut ==
  ASSUME NEW U, NEW z \in U, NEW s \in Seq(U), NEW t \in Seq(U), NEW x \in Seq(U),
         NEW y \in Seq(U), z \notin ToSet(t), After(s, z, t) = After(x, z, y)
  PROVE  Len(x) <= Len(s)
<1> DEFINE w == After(s, z, t)
           m == Len(s)
           n == Len(t)
           k == Len(x)
           l == Len(y)
<1>1. m \in Nat /\ n \in Nat /\ k \in Nat /\ l \in Nat /\ DOMAIN t = 1..n
  BY LenProperties
<1>a. Holds(w, s, z, t) /\ Holds(After(x, z, y), x, z, y)
  BY AfterHolds
<1> HIDE DEF w
<1>b. Holds(w, x, z, y)
  BY <1>a DEF w
<1>2. Len(w) = (m + 1) + n /\ \A i \in 1..n : w[(m + 1) + i] = t[i]
  BY <1>a DEF Holds
<1>3. Len(w) = (k + 1) + l /\ w[k + 1] = z
  BY <1>b DEF Holds
<1> HIDE DEF m, n, k, l
<1>4. ASSUME k > m
      PROVE  FALSE
  <2>0. (m + 1) + n = (k + 1) + l
    BY <1>2, <1>3
  <2>1. k - m \in 1..n /\ (m + 1) + (k - m) = k + 1
    BY <1>1, <1>4, <2>0
  <2>2. t[k - m] = z
    BY <1>2, <1>3, <2>1
  <2>3. QED
    BY <1>1, <2>1, <2>2, Zenon DEF ToSet
<1>5. QED
  BY <1>1, <1>4 DEF m, k

LEMMA CutAtSeparator ==
  ASSUME NEW U, NEW z \in U, NEW s \in Seq(U), NEW t \in Seq(U), NEW x \in Seq(U),
         NEW y \in Seq(U), z \notin ToSet(t), z \notin ToSet(y), After(s, z, t) = After(x, z, y)
  PROVE  s = x /\ t = y
<1> DEFINE w == After(s, z, t)
<1>1. Len(s) <= Len(x) /\ Len(x) <= Len(s)
  BY NoLaterCut
<1>2. /\ Len(s) \in Nat /\ Len(t) \in Nat /\ Len(x) \in Nat /\ Len(y) \in Nat
  BY LenProperties
<1>a. Holds(w, s, z, t) /\ Holds(After(x, z, y), x, z, y)
  BY AfterHolds
<1> HIDE DEF w
<1>b. Holds(w, x, z, y)
  BY <1>a DEF w
<1>3. /\ Len(w) = (Len(s) + 1) + Len(t)
      /\ \A i \in 1..Len(s) : w[i] = s[i]
      /\ \A i \in 1..Len(t) : w[(Len(s) + 1) + i] = t[i]
  BY <1>a DEF Holds
<1>4. /\ Len(w) = (Len(x) + 1) + Len(y)
      /\ \A i \in 1..Len(x) : w[i] = x[i]
      /\ \A i \in 1..Len(y) : w[(Len(x) + 1) + i] = y[i]
  BY <1>b DEF Holds
<1>5. Len(s) = Len(x)
  BY <1>1, <1>2
<1>6. Len(t) = Len(y)
  BY <1>2, <1>3, <1>4, <1>5
<1>7. \A i \in 1..Len(s) : s[i] = x[i]
  BY <1>3, <1>4, <1>5
<1>8. \A i \in 1..Len(t) : t[i] = y[i]
  BY <1>3, <1>4, <1>5, <1>6
<1>9. QED
  BY <1>5, <1>6, <1>7, <1>8, SeqEqual

\* The parts as joinParts writes them, and the first k of them joined.
KeyRows(p) == [i \in DOMAIN p |-> IF i = 1 THEN p[i] ELSE <<TagSep>> \o p[i]]
JoinedUpTo(p, k) == FlattenSeq(SubSeq(KeyRows(p), 1, k))

StepByStep(U, p, n) ==
  /\ JoinParts(p) = JoinedUpTo(p, n)
  /\ \A k \in 1..n :
       /\ JoinedUpTo(p, k) \in Seq(U)
       /\ k = 1 => JoinedUpTo(p, k) = p[1]
       /\ k # 1 => JoinedUpTo(p, k) = After(JoinedUpTo(p, k - 1), TagSep, p[k])

LEMMA JoinedSteps ==
  ASSUME NEW U, TagSep \in U, NEW n \in Nat, NEW p, DOMAIN p = 1..n,
         \A i \in 1..n : p[i] \in Seq(U)
  PROVE  StepByStep(U, p, n)
<1> DEFINE r == KeyRows(p)
           S == Seq(U)
<1>1. \A i \in 1..n : r[i] = IF i = 1 THEN p[i] ELSE <<TagSep>> \o p[i]
  BY DEF KeyRows
<1>2. \A i \in 1..n : r[i] \in S
  <2>1. <<TagSep>> \in Seq(U)
    OBVIOUS
  <2>2. \A i \in 1..n : <<TagSep>> \o p[i] \in Seq(U)
    BY <2>1, ConcatProperties
  <2>3. QED
    BY <1>1, <2>2, Zenon
<1>3. r = [i \in 1..n |-> r[i]]
  BY DEF KeyRows
<1>4. JoinParts(p) = FlattenSeq(r)
  BY DEF JoinParts, KeyRows
<1> HIDE DEF r, S
<1>5. r \in Seq(S) /\ Len(r) = n
  <2>1. r \in [1..n -> S]
    BY <1>2, <1>3
  <2>2. r \in Seq(S)
    BY <2>1, SeqDef
  <2>3. DOMAIN r = 1..n
    BY <2>1
  <2>4. QED
    BY <2>2, <2>3, LenProperties
<1>6. SubSeq(r, 1, n) = r
  BY <1>5, SubSeqFull
<1>7. ASSUME NEW k \in 1..n
      PROVE  /\ JoinedUpTo(p, k) \in Seq(U)
             /\ k = 1 => JoinedUpTo(p, k) = p[1]
             /\ k # 1 => JoinedUpTo(p, k) = After(JoinedUpTo(p, k - 1), TagSep, p[k])
  <2> DEFINE q == SubSeq(r, 1, k - 1)
  <2>1. k \in 0..Len(r) /\ k # 0
    BY <1>5
  <2>2. q \in Seq(S) /\ r[k] \in S /\ SubSeq(r, 1, k) = Append(q, r[k])
    BY <1>5, <2>1, PrefixGrows
  <2>3. JoinedUpTo(p, k) = FlattenSeq(Append(q, r[k])) /\ JoinedUpTo(p, k - 1) = FlattenSeq(q)
    BY <2>2, Zenon DEF JoinedUpTo, r
  <2>4. k = 1 => q = <<>>
    <3>1. SubSeq(r, 1, 0) = <<>>
      BY SubSeqEmpty
    <3>2. QED
      BY <3>1
  <2> HIDE DEF q
  <2>5. /\ FlattenSeq(Append(q, r[k])) = FlattenSeq(q) \o r[k]
        /\ FlattenSeq(q) \in Seq(U)
    BY <2>2, FlattenAppend, FlattenType, Zenon DEF S
  <2>6. FlattenSeq(q) \o r[k] \in Seq(U)
    BY <2>2, <2>5, ConcatProperties DEF S
  <2>7. k = 1 => FlattenSeq(q) \o r[k] = p[1]
    <3>1. ASSUME k = 1
          PROVE  FlattenSeq(q) \o r[k] = p[1]
      <4>1. FlattenSeq(q) = <<>> /\ r[k] = p[1] /\ p[1] \in Seq(U)
        BY <1>1, <2>4, <3>1, FlattenEmpty
      <4>2. QED
        BY <4>1, ConcatEmptySeq
    <3>2. QED
      BY <3>1
  <2>8. k # 1 => FlattenSeq(q) \o r[k] = After(FlattenSeq(q), TagSep, p[k])
    BY <1>1, Zenon DEF After
  <2>9. QED
    BY <2>3, <2>5, <2>6, <2>7, <2>8, Zenon
<1>8. QED
  <2>1. JoinParts(p) = JoinedUpTo(p, n)
    BY <1>4, <1>6, Zenon DEF JoinedUpTo, r
  <2>2. QED
    BY <1>7, <2>1 DEF StepByStep

LEMMA JoinPartsInjective ==
  ASSUME NEW n \in Nat, NEW p, NEW q, p = [i \in 1..n |-> p[i]], q = [i \in 1..n |-> q[i]],
         \A i \in 1..n : Plain(p[i]) /\ Plain(q[i]), JoinParts(p) = JoinParts(q)
  PROVE  p = q
<1> DEFINE U == {TagSep} \cup UNION {ToSet(p[i]) \cup ToSet(q[i]) : i \in 1..n}
           Bad == {k \in 1..n : JoinedUpTo(p, k) # JoinedUpTo(q, k)}
<1>1. DOMAIN p = 1..n /\ DOMAIN q = 1..n
  OBVIOUS
<1>2. TagSep \in U /\ \A i \in 1..n : p[i] \in Seq(U) /\ q[i] \in Seq(U)
  <2>1. \A i \in 1..n : ToSet(p[i]) \subseteq U /\ ToSet(q[i]) \subseteq U
    OBVIOUS
  <2> HIDE DEF U
  <2>2. \A i \in 1..n : p[i] \in Seq(U) /\ q[i] \in Seq(U)
    BY <2>1, SeqMonotonic DEF Plain, IsSeq
  <2>3. QED
    BY <2>2, Zenon DEF U
<1> HIDE DEF U
<1>3. StepByStep(U, p, n)
  <2>1. \A i \in 1..n : p[i] \in Seq(U)
    BY <1>2
  <2>2. QED
    BY <1>1, <1>2, <2>1, JoinedSteps
<1>4. StepByStep(U, q, n)
  <2>1. \A i \in 1..n : q[i] \in Seq(U)
    BY <1>2
  <2>2. QED
    BY <1>1, <1>2, <2>1, JoinedSteps
<1>5. ASSUME NEW k \in 1..n, k # 1, JoinedUpTo(p, k) = JoinedUpTo(q, k)
      PROVE  JoinedUpTo(p, k - 1) = JoinedUpTo(q, k - 1) /\ p[k] = q[k]
  <2> DEFINE x == JoinedUpTo(p, k - 1)
             y == JoinedUpTo(q, k - 1)
             s == p[k]
             t == q[k]
  <2>1. k - 1 \in 1..n
    BY <1>5
  <2>2. x \in Seq(U) /\ y \in Seq(U) /\ s \in Seq(U) /\ t \in Seq(U)
    BY <1>2, <1>3, <1>4, <2>1 DEF StepByStep
  <2>3. TagSep \notin ToSet(s) /\ TagSep \notin ToSet(t)
    BY DEF Plain
  <2>4. After(x, TagSep, s) = After(y, TagSep, t)
    BY <1>3, <1>4, <1>5 DEF StepByStep
  <2> HIDE DEF x, y, s, t
  <2>5. x = y /\ s = t
    BY <1>2, <2>2, <2>3, <2>4, CutAtSeparator
  <2>6. QED
    BY <2>5 DEF x, y, s, t
<1>6. Bad = {}
  <2>1. SUFFICES ASSUME Bad # {} PROVE FALSE
    BY Zenon
  <2>2. PICK m \in Bad : \A j \in Bad : m >= j
    <3>1. Bad \in SUBSET Int /\ Bad \subseteq 1..n
      OBVIOUS
    <3>2. IsFiniteSet(Bad)
      <4>0. 1 \in Int /\ n \in Int
        OBVIOUS
      <4>1. IsFiniteSet(1..n)
        BY <4>0, FS_Interval, Zenon
      <4> HIDE DEF Bad
      <4>2. QED
        BY <3>1, <4>1, FS_Subset
    <3> HIDE DEF Bad
    <3>3. QED
      BY <2>1, <3>1, <3>2, LargestInteger, Zenon
  <2>3. m \in 1..n /\ JoinedUpTo(p, m) # JoinedUpTo(q, m)
    OBVIOUS
  <2>4. m # n
    BY <1>3, <1>4, <2>3, Zenon DEF StepByStep
  <2>5. m + 1 \in 1..n /\ m + 1 # 1 /\ (m + 1) - 1 = m /\ ~(m >= m + 1)
    BY <2>3, <2>4
  <2>6. JoinedUpTo(p, m + 1) = JoinedUpTo(q, m + 1)
    <3>1. m + 1 \notin Bad
      <4> HIDE DEF Bad
      <4>1. QED
        BY <2>2, <2>5
    <3>2. QED
      BY <2>5, <3>1
  <2>7. QED
    BY <1>5, <2>3, <2>5, <2>6
<1>7. ASSUME NEW k \in 1..n
      PROVE  p[k] = q[k]
  <2>1. JoinedUpTo(p, k) = JoinedUpTo(q, k)
    BY <1>6
  <2>2. k = 1 => p[k] = q[k]
    BY <1>3, <1>4, <2>1, Zenon DEF StepByStep
  <2>3. QED
    BY <1>5, <2>1, <2>2, Zenon
<1>8. QED
  BY <1>7

\* resolveParts gives one part for each component of the plan.
LEMMA OnePartEach ==
  ASSUME NEW pl, NEW res, NEW name, NEW leaf
  PROVE  LET parts == ResolveParts(pl, res, name, leaf)
         IN  DOMAIN parts = DOMAIN pl /\ parts = [i \in DOMAIN pl |-> parts[i]]
<1> DEFINE Part(i) ==
             LET v == CASE pl[i].source = "resource" -> Get(res, pl[i].name)
                        [] pl[i].source = "datapoint" -> Get(leaf, pl[i].name)
                        [] pl[i].source = "metric_name" -> name
             IN  IF pl[i].re = NoRegex THEN v ELSE FirstCapture(pl[i].re, v)
           f == [i \in DOMAIN pl |-> Part(i)]
<1>1. ResolveParts(pl, res, name, leaf) = f
  BY Zenon DEF ResolveParts
<1> HIDE DEF Part
<1>2. DOMAIN f = DOMAIN pl /\ f = [i \in DOMAIN pl |-> f[i]]
  OBVIOUS
<1> HIDE DEF f
<1>3. QED
  BY <1>1, <1>2

\* The tuples that are joined are of one length, and their parts separator-free.
LEMMA TuplesPlain ==
  ASSUME GroupsInv, NEW i \in DOMAIN Tuples
  PROVE  /\ Len(plan) \in Nat
         /\ Tuples[i] = [k \in 1..Len(plan) |-> Tuples[i][k]]
         /\ \A k \in 1..Len(plan) : Plain(Tuples[i][k])
<1>1. PICK in \in Inputs : batch = in.batch /\ plan = in.plan
  BY DEF GroupsInv
<1>2. BatchOK(batch) /\ Numbered(batch) /\ IsSeq(plan)
  BY InputGiven DEF GroupsInv
<1>3. Len(plan) \in Nat /\ DOMAIN plan = 1..Len(plan)
  BY <1>2, SeqFacts
<1>4. i \in ToSet(Ids(batch)) /\ Tuples[i] = KeyTuple(i)
  BY DEF Tuples
<1>5. PICK a, k, n : IsAt(batch, a, k, n) /\ ItemAt(batch, a, k, n).id = i
  BY <1>2, <1>4, IdsByPlace
<1> DEFINE r == batch[a]
           u == r.units[k]
           x == ItemAt(batch, a, k, n)
           parts == ResolveParts(plan, r.attrs, u.name, x.attrs)
<1>6. Tuples[i] = parts
  BY <1>2, <1>4, <1>5, KeyAt DEF Parts
<1>7. r \in ToSet(batch) /\ u \in ToSet(r.units) /\ x \in ToSet(u.items)
  <2>1. /\ a \in 1..Len(batch) /\ k \in 1..Len(r.units) /\ n \in 1..Len(u.items)
        /\ x = u.items[n]
    BY <1>5 DEF IsAt, ItemAt
  <2>2. IsSeq(batch) /\ IsSeq(r.units) /\ IsSeq(u.items)
    BY <1>2, <2>1, Inside, Zenon DEF BatchOK, UnitsOK, ItemsOK
  <2> HIDE DEF x
  <2>3. QED
    BY <2>1, <2>2, IsElement
<1>8. parts = [m \in 1..Len(plan) |-> parts[m]] /\ DOMAIN parts = 1..Len(plan)
  <2>1. DOMAIN parts = DOMAIN plan /\ parts = [m \in DOMAIN plan |-> parts[m]]
    BY OnePartEach
  <2> HIDE DEF parts
  <2>2. QED
    BY <1>3, <2>1
<1>9. \A m \in DOMAIN parts : Plain(parts[m])
  BY <1>1, <1>7, SeparatorAssumption
<1> HIDE DEF parts
<1>10. QED
  BY <1>3, <1>6, <1>8, <1>9

\* Under tag_hash two records have the same key if and only if their items have the
\* same tuple of key parts, however many parts there are and wherever the text of one
\* ends, if none has the separator in it (groupByTags, bucketFor, joinParts).
THEOREM OneTupleOneKey == Spec => []OneKeyPerTuple
<1>1. ASSUME IInv, GroupsInv, PackInv
      PROVE  OneKeyPerTuple
  <2>1. EntriesKeyed(Tuples, entries)
    <3>1. CASE at = "begin"
      <4>1. entries = <<>>
        BY <1>1, <3>1 DEF IInv, Control, Idle
      <4>2. QED
        BY <4>1, NoneApart DEF EntriesKeyed
    <3>2. CASE at # "begin"
      <4>1. Packed
        BY <1>1, <3>2, PackedBefore
      <4>2. QED
        BY <4>1 DEF Packed
    <3>3. QED
      BY <3>1, <3>2
  <2>2. ASSUME NEW e \in DOMAIN entries, NEW i \in ToSet(Ids(entries[e].piece.res))
        PROVE  i \in DOMAIN Tuples /\ entries[e].key = JoinParts(Tuples[i])
    <3>1. entries[e] \in ToSet(entries)
      BY DEF ToSet
    <3>2. QED
      BY <2>1, <2>2, <3>1 DEF EntriesKeyed, Keyed
  <2>3. \A i \in DOMAIN Tuples : Tuples[i] = KeyTuple(i)
    BY DEF Tuples
  <2>4. ASSUME NEW i \in DOMAIN Tuples, NEW j \in DOMAIN Tuples,
               JoinParts(Tuples[i]) = JoinParts(Tuples[j])
        PROVE  Tuples[i] = Tuples[j]
    <3> DEFINE n == Len(plan)
               p == Tuples[i]
               q == Tuples[j]
    <3>1. /\ n \in Nat /\ p = [k \in 1..n |-> p[k]] /\ q = [k \in 1..n |-> q[k]]
          /\ \A k \in 1..n : Plain(p[k]) /\ Plain(q[k])
      BY <1>1, TuplesPlain
    <3>2. JoinParts(p) = JoinParts(q)
      BY <2>4
    <3> HIDE DEF n, p, q
    <3>3. p = q
      BY <3>1, <3>2, JoinPartsInjective, Zenon
    <3>4. QED
      BY <3>3 DEF p, q
  <2>5. ASSUME NEW e \in DOMAIN entries, NEW f \in DOMAIN entries,
               NEW i \in ToSet(Ids(entries[e].piece.res)),
               NEW j \in ToSet(Ids(entries[f].piece.res))
        PROVE  (entries[e].key = entries[f].key) <=> (KeyTuple(i) = KeyTuple(j))
    <3>1. /\ i \in DOMAIN Tuples /\ entries[e].key = JoinParts(Tuples[i])
          /\ j \in DOMAIN Tuples /\ entries[f].key = JoinParts(Tuples[j])
      BY <2>2
    <3>2. QED
      BY <2>3, <2>4, <3>1
  <2>6. QED
    BY <2>5 DEF OneKeyPerTuple
<1>2. QED
  BY <1>1, Invariance, GroupsInvariance, PackInvariance, PTL
=============================================================================
