----------------------------- MODULE ImageProofs -----------------------------
(* Proofs about the tools over images.  The range set operations compute the  *)
(* sets they are named for, on canonical ranges of any length; a conversion   *)
(* that reports success made what was asked for, for any number of            *)
(* conversions and of contents that the user brings; sparse parts merge to    *)
(* the image they were split from, for any sizes and numbers of parts; and an *)
(* image of any chunks comes back from its transfer list and reaches a device *)
(* that runs it.                                                              *)
EXTENDS Convert, SparseParts, BlockImage, SequenceTheorems, FiniteSetTheorems,
        WellFoundedInduction, TLAPS

\* A set of numbers that has 0 and the successor of each of its own has them all.
LEMMA OneByOne ==
  ASSUME NEW T, 0 \in T, \A n \in Nat : n \in T => n + 1 \in T
  PROVE  Nat \subseteq T
<1> SUFFICES ASSUME Nat \ T # {} PROVE FALSE
  OBVIOUS
<1>1. PICK m \in Nat \ T : \A k \in Nat \ T : ~ (<<k, m>> \in OpToRel(<, Nat))
  BY NatLessThanWellFounded, WFMin
<1>2. \A k \in Nat \ T : ~ (k < m)
  BY <1>1 DEF OpToRel
<1>3. m - 1 \in Nat /\ m - 1 \notin Nat \ T
  BY <1>2
<1> QED BY <1>3

\* The greatest of the first numbers.
LEMMA MaxOfPrefix ==
  ASSUME NEW n \in Nat, NEW S \in SUBSET (1..n), n \in S
  PROVE  Max(S) = n
<1>1. \E x \in S : \A y \in S : x >= y
  OBVIOUS
<1>2. Max(S) \in S /\ \A y \in S : Max(S) >= y
  BY <1>1 DEF Max
<1>3. Max(S) \in 1..n /\ Max(S) >= n
  BY <1>2
<1> HIDE DEF Max
<1> QED BY <1>3

LEMMA MaxIn ==
  ASSUME NEW N \in Nat, NEW S \in SUBSET (1..N), S # {}
  PROVE  Max(S) \in S /\ \A y \in S : Max(S) >= y
<1> DEFINE T == {n \in Nat : \A Q \in SUBSET (1..n) : Q # {} => \E x \in Q : \A y \in Q : x >= y}
<1>1. 0 \in T
  <2>1. 1..0 = {}
    OBVIOUS
  <2> QED BY <2>1
<1>2. ASSUME NEW n \in Nat, n \in T PROVE n + 1 \in T
  <2> SUFFICES ASSUME NEW Q \in SUBSET (1..n + 1), Q # {}
               PROVE  \E x \in Q : \A y \in Q : x >= y
    OBVIOUS
  <2>1. CASE n + 1 \in Q
    BY <2>1
  <2>2. CASE n + 1 \notin Q
    <3>1. Q \in SUBSET (1..n)
      BY <2>2
    <3> QED BY <1>2, <3>1
  <2> QED BY <2>1, <2>2
<1>3. N \in T
  <2> HIDE DEF T
  <2> QED BY <1>1, <1>2, OneByOne
<1>4. \E x \in S : \A y \in S : x >= y
  BY <1>3
<1> QED BY <1>4 DEF Max

\* What a fold over a sequence has after each part of it is a table.
Tabulates(iter, n, base, G) ==
  iter = [S \in SUBSET (1..n) |->
            IF S = {} THEN base ELSE G[iter[S \ {Max(S)}], Max(S)]]

LEMMA FoldTable ==
  ASSUME NEW A, NEW N \in Nat, NEW base \in A, NEW G \in [A \X (1..N) -> A]
  PROVE  \E iter \in [SUBSET (1..N) -> A] : Tabulates(iter, N, base, G)
<1> DEFINE Built(n) == \E iter \in [SUBSET (1..n) -> A] : Tabulates(iter, n, base, G)
<1> DEFINE T == {n \in Nat : n <= N => Built(n)}
<1>1. 0 \in T
  <2> DEFINE iter == [S \in SUBSET (1..0) |-> base]
  <2>1. \A S \in SUBSET (1..0) : S = {}
    OBVIOUS
  <2>2. iter \in [SUBSET (1..0) -> A] /\ Tabulates(iter, 0, base, G)
    BY <2>1 DEF Tabulates
  <2>3. Built(0)
    BY <2>2
  <2> HIDE DEF Built
  <2> QED BY <2>3
<1>2. ASSUME NEW n \in Nat, n \in T PROVE n + 1 \in T
  <2> HIDE DEF Built
  <2> SUFFICES ASSUME n + 1 <= N PROVE Built(n + 1)
    OBVIOUS
  <2>0. Built(n)
    BY <1>2
  <2> USE DEF Built
  <2>1. PICK old \in [SUBSET (1..n) -> A] : Tabulates(old, n, base, G)
    BY <2>0
  <2> DEFINE new == [S \in SUBSET (1..n + 1) |->
                       IF n + 1 \in S THEN G[old[S \ {n + 1}], n + 1] ELSE old[S]]
  <2>2. \A S \in SUBSET (1..n + 1) : S \ {n + 1} \in SUBSET (1..n)
    OBVIOUS
  <2>3. \A S \in SUBSET (1..n + 1) : n + 1 \notin S => S \in SUBSET (1..n)
    OBVIOUS
  <2>4. \A S \in SUBSET (1..n) : S \in SUBSET (1..n + 1) /\ n + 1 \notin S
    OBVIOUS
  <2>5. \A S \in SUBSET (1..n) : new[S] = old[S]
    BY <2>4
  <2>6. n + 1 \in 1..N
    OBVIOUS
  <2>7. new \in [SUBSET (1..n + 1) -> A]
    BY <2>2, <2>3, <2>6
  <2>8. ASSUME NEW S \in SUBSET (1..n + 1)
        PROVE  new[S] = IF S = {} THEN base ELSE G[new[S \ {Max(S)}], Max(S)]
    <3>1. CASE n + 1 \in S
      <4>1. Max(S) = n + 1
        BY <3>1, MaxOfPrefix
      <4>2. new[S \ {n + 1}] = old[S \ {n + 1}]
        BY <2>2, <2>5
      <4> QED BY <3>1, <4>1, <4>2
    <3>2. CASE n + 1 \notin S
      <4>1. new[S] = old[S] /\ S \in SUBSET (1..n)
        BY <2>3, <3>2
      <4>2. old[S] = IF S = {} THEN base ELSE G[old[S \ {Max(S)}], Max(S)]
        BY <2>1, <4>1 DEF Tabulates
      <4>3. S \ {Max(S)} \in SUBSET (1..n)
        BY <4>1
      <4>4. new[S \ {Max(S)}] = old[S \ {Max(S)}]
        BY <2>5, <4>3
      <4> QED BY <4>1, <4>2, <4>4
    <3> QED BY <3>1, <3>2
  <2> HIDE DEF new
  <2>9. new = [S \in SUBSET (1..n + 1) |->
                 IF S = {} THEN base ELSE G[new[S \ {Max(S)}], Max(S)]]
    <3> DEFINE again == [S \in SUBSET (1..n + 1) |->
                           IF S = {} THEN base ELSE G[new[S \ {Max(S)}], Max(S)]]
    <3>1. new = [S \in SUBSET (1..n + 1) |-> new[S]]
      BY <2>7
    <3>2. \A S \in SUBSET (1..n + 1) : new[S] = again[S]
      BY <2>8
    <3> HIDE DEF again
    <3>3. DOMAIN again = SUBSET (1..n + 1) /\ again = [S \in SUBSET (1..n + 1) |-> again[S]]
      BY DEF again
    <3>4. new = again
      BY <3>1, <3>2, <3>3
    <3> QED BY <3>4 DEF again
  <2> QED BY <2>7, <2>9 DEF Tabulates
<1>3. N \in T
  <2> HIDE DEF T
  <2> QED BY <1>1, <1>2, OneByOne
<1>4. Built(N)
  <2> HIDE DEF Built
  <2> QED BY <1>3
<1> QED BY <1>4

LEMMA PrefixFacts ==
  ASSUME NEW N \in Nat, NEW n \in 1..N
  PROVE  /\ 1..n \in SUBSET (1..N) /\ 1..n # {}
         /\ Max(1..n) = n /\ (1..n) \ {Max(1..n)} = 1..n - 1
<1>1. 1..n \in SUBSET (1..n) /\ n \in 1..n /\ 1..n \in SUBSET (1..N) /\ 1..n # {}
  OBVIOUS
<1>2. Max(1..n) = n
  BY <1>1, MaxOfPrefix
<1>3. (1..n) \ {n} = 1..n - 1
  OBVIOUS
<1> QED BY <1>1, <1>2, <1>3

Pairs == [out : Seq(Int), last : Seq(Int)]
NoPair == [out |-> <<>>, last |-> <<>>]

LEMMA PairTyped == ASSUME NEW acc \in Pairs, NEW p \in Int PROVE Pair(acc, p) \in Pairs
<1>1. <<>> \in Seq(Int) /\ <<p>> \in Seq(Int) /\ acc.out \o acc.last \in Seq(Int)
  BY DEF Pairs
<1> QED BY <1>1 DEF Pair, Pairs

\* The loop of _remove_pairs, bound by bound.
LEMMA PairRuns ==
  ASSUME NEW s \in Seq(Int)
  PROVE  \E f : /\ f[0] = NoPair
                /\ \A k \in 1..Len(s) : f[k] = Pair(f[k - 1], s[k])
                /\ FoldLeft(Pair, NoPair, s) = f[Len(s)]
<1> DEFINE N == Len(s)
<1> DEFINE Equation(iter) == iter = [S \in SUBSET (1..N) |->
             IF S = {} THEN NoPair ELSE Pair(iter[S \ {Max(S)}], s[Max(S)])]
<1>1. N \in Nat /\ DOMAIN s = 1..N
  BY LenProperties
<1>2. \E iter : Equation(iter)
  <2> DEFINE G == [p \in Pairs \X (1..N) |-> Pair(p[1], s[p[2]])]
  <2>1. G \in [Pairs \X (1..N) -> Pairs]
    BY PairTyped, ElementOfSeq
  <2>2. NoPair \in Pairs
    BY DEF NoPair, Pairs
  <2>3. PICK iter \in [SUBSET (1..N) -> Pairs] : Tabulates(iter, N, NoPair, G)
    <3> HIDE DEF G
    <3> QED BY <1>1, <2>1, <2>2, FoldTable
  <2>4. ASSUME NEW S \in SUBSET (1..N), S # {}
        PROVE  G[iter[S \ {Max(S)}], Max(S)] = Pair(iter[S \ {Max(S)}], s[Max(S)])
    <3>1. Max(S) \in 1..N
      BY <1>1, <2>4, MaxIn
    <3>2. iter[S \ {Max(S)}] \in Pairs
      BY <2>3
    <3> QED BY <3>1, <3>2
  <2>5. Equation(iter)
    <3> HIDE DEF G
    <3> QED BY <2>3, <2>4 DEF Tabulates
  <2> QED BY <2>5
<1> DEFINE iter == CHOOSE iter : Equation(iter)
<1>3. Equation(iter)
  BY <1>2
<1>4. FoldLeft(Pair, NoPair, s) = iter[1..N]
  BY <1>1 DEF FoldLeft, MapThenFoldSet
<1> HIDE DEF iter
<1> DEFINE f == [k \in 0..N |-> iter[1..k]]
<1>5. f[0] = NoPair
  <2>1. 1..0 = {} /\ 0 \in 0..N
    BY <1>1
  <2> QED BY <1>3, <2>1
<1>6. ASSUME NEW k \in 1..N PROVE f[k] = Pair(f[k - 1], s[k])
  <2>1. f[k] = iter[1..k] /\ f[k - 1] = iter[1..k - 1]
    BY <1>1
  <2>2. /\ 1..k \in SUBSET (1..N) /\ 1..k # {}
        /\ Max(1..k) = k /\ (1..k) \ {Max(1..k)} = 1..k - 1
    BY <1>1, PrefixFacts
  <2>3. iter[1..k] = Pair(iter[(1..k) \ {Max(1..k)}], s[Max(1..k)])
    BY <1>3, <2>2
  <2> QED BY <2>1, <2>2, <2>3, Zenon
<1>7. f[N] = iter[1..N]
  BY <1>1
<1> QED BY <1>4, <1>5, <1>6, <1>7

\* How many of the first k items of s are in P.
HitsTo(s, k, P) == Cardinality({i \in 1..k : s[i] \in P})
Hits(s, P) == HitsTo(s, Len(s), P)

LEMMA HitsToStep ==
  ASSUME NEW s, NEW k \in Nat, NEW P
  PROVE  /\ HitsTo(s, k, P) \in Nat
         /\ HitsTo(s, 0, P) = 0
         /\ s[k + 1] \in P => HitsTo(s, k + 1, P) = HitsTo(s, k, P) + 1
         /\ s[k + 1] \notin P => HitsTo(s, k + 1, P) = HitsTo(s, k, P)
<1> DEFINE H(n) == {i \in 1..n : s[i] \in P}
<1>1. IsFiniteSet(1..k) /\ H(k) \in SUBSET (1..k)
  BY FS_Interval
<1>2. IsFiniteSet(H(k)) /\ Cardinality(H(k)) \in Nat
  <2> HIDE DEF H
  <2> QED BY <1>1, FS_Subset, FS_CardinalityType
<1>3. H(0) = {}
  <2>1. 1..0 = {}
    OBVIOUS
  <2> QED BY <2>1
<1>4. CASE s[k + 1] \in P
  <2>1. H(k + 1) = H(k) \cup {k + 1} /\ k + 1 \notin H(k)
    BY <1>4
  <2>2. Cardinality(H(k + 1)) = Cardinality(H(k)) + 1
    <3> HIDE DEF H
    <3> QED BY <1>2, <2>1, FS_AddElement
  <2> QED BY <1>2, <1>3, <1>4, <2>2, FS_EmptySet DEF HitsTo
<1>5. CASE s[k + 1] \notin P
  <2>1. H(k + 1) = H(k)
    BY <1>5
  <2> QED BY <1>2, <1>3, <1>5, <2>1, FS_EmptySet DEF HitsTo
<1> QED BY <1>4, <1>5

LEMMA ConcatItems ==
  ASSUME NEW S, NEW s \in Seq(S), NEW t \in Seq(S)
  PROVE  /\ Len(s) \in Nat /\ Len(t) \in Nat
         /\ s \o t \in Seq(S) /\ Len(s \o t) = Len(s) + Len(t)
         /\ \A i \in 1..Len(s) : (s \o t)[i] = s[i]
         /\ \A j \in 1..Len(t) : (s \o t)[Len(s) + j] = t[j]
<1>1. Len(s) \in Nat /\ Len(t) \in Nat
  BY LenProperties
<1>2. ASSUME NEW i \in 1..Len(s) PROVE (s \o t)[i] = s[i]
  BY <1>1, ConcatProperties
<1>3. ASSUME NEW j \in 1..Len(t) PROVE (s \o t)[Len(s) + j] = t[j]
  <2> DEFINE i == Len(s) + j
  <2>1. i \in 1..Len(s) + Len(t) /\ ~(i <= Len(s)) /\ i - Len(s) = j
    BY <1>1
  <2> HIDE DEF i
  <2>2. (s \o t)[i] = t[i - Len(s)]
    BY <2>1, ConcatProperties
  <2>3. (s \o t)[i] = t[j]
    BY <2>1, <2>2
  <2> QED BY <2>3 DEF i
<1> QED BY <1>1, <1>2, <1>3, ConcatProperties

\* The items of two sequences one after the other,
LEMMA HitsOfConcat ==
  ASSUME NEW S, NEW s \in Seq(S), NEW t \in Seq(S), NEW P
  PROVE  Hits(s \o t, P) = Hits(s, P) + Hits(t, P)
<1> DEFINE st == s \o t
<1>1. /\ Len(s) \in Nat /\ Len(t) \in Nat /\ Len(st) = Len(s) + Len(t)
      /\ \A i \in 1..Len(s) : st[i] = s[i]
      /\ \A j \in 1..Len(t) : st[Len(s) + j] = t[j]
  BY ConcatItems
<1> HIDE DEF st
<1> DEFINE Adds(n) == HitsTo(st, Len(s) + n, P) = Hits(s, P) + HitsTo(t, n, P)
<1> DEFINE T == {n \in Nat : n <= Len(t) => Adds(n)}
<1>2. Adds(0)
  <2>1. {i \in 1..Len(s) : st[i] \in P} = {i \in 1..Len(s) : s[i] \in P}
    BY <1>1
  <2>2. HitsTo(st, Len(s), P) = Hits(s, P)
    BY <2>1 DEF HitsTo, Hits
  <2>3. Hits(s, P) \in Nat /\ HitsTo(t, 0, P) = 0
    BY <1>1, HitsToStep DEF Hits
  <2> QED BY <1>1, <2>2, <2>3
<1>3. ASSUME NEW n \in Nat, n + 1 <= Len(t), Adds(n) PROVE Adds(n + 1)
  <2> DEFINE m == Len(s) + n
  <2>1. m \in Nat /\ m + 1 = Len(s) + (n + 1) /\ n + 1 \in 1..Len(t)
    BY <1>1, <1>3
  <2>2. st[m + 1] = t[n + 1]
    BY <1>1, <2>1
  <2>3. HitsTo(st, m, P) = Hits(s, P) + HitsTo(t, n, P)
    BY <1>3
  <2> HIDE DEF m
  <2>4. HitsTo(st, m, P) \in Nat /\ HitsTo(t, n, P) \in Nat /\ Hits(s, P) \in Nat
    BY <1>1, <2>1, HitsToStep DEF Hits
  <2>5. HitsTo(st, m + 1, P) = Hits(s, P) + HitsTo(t, n + 1, P)
    <3>1. CASE t[n + 1] \in P
      <4>1. HitsTo(st, m + 1, P) = HitsTo(st, m, P) + 1
        BY <2>1, <2>2, <3>1, HitsToStep
      <4>2. HitsTo(t, n + 1, P) = HitsTo(t, n, P) + 1
        BY <3>1, HitsToStep
      <4> QED BY <2>3, <2>4, <4>1, <4>2
    <3>2. CASE t[n + 1] \notin P
      <4>1. HitsTo(st, m + 1, P) = HitsTo(st, m, P)
        BY <2>1, <2>2, <3>2, HitsToStep
      <4>2. HitsTo(t, n + 1, P) = HitsTo(t, n, P)
        BY <3>2, HitsToStep
      <4> QED BY <2>3, <4>1, <4>2
    <3> QED BY <3>1, <3>2
  <2> QED BY <2>1, <2>5
<1>4. Len(t) \in T
  <2> HIDE DEF Adds
  <2>1. 0 \in T
    BY <1>2
  <2>2. \A n \in Nat : n \in T => n + 1 \in T
    BY <1>1, <1>3
  <2> HIDE DEF T
  <2> QED BY <1>1, <2>1, <2>2, OneByOne
<1>5. HitsTo(st, Len(s) + Len(t), P) = Hits(s, P) + HitsTo(t, Len(t), P)
  BY <1>1, <1>4
<1> QED BY <1>1, <1>5 DEF Hits, st

\* and one more.
LEMMA HitsOfAppend ==
  ASSUME NEW S, NEW s \in Seq(S), NEW x \in S, NEW P
  PROVE  /\ x \in P => Hits(Append(s, x), P) = Hits(s, P) + 1
         /\ x \notin P => Hits(Append(s, x), P) = Hits(s, P)
<1> DEFINE t == Append(s, x)
<1>1. /\ Len(s) \in Nat /\ Len(t) = Len(s) + 1 /\ t[Len(s) + 1] = x
      /\ \A i \in 1..Len(s) : t[i] = s[i]
  BY LenProperties, AppendProperties
<1> HIDE DEF t
<1>2. {i \in 1..Len(s) : t[i] \in P} = {i \in 1..Len(s) : s[i] \in P}
  BY <1>1
<1>3. HitsTo(t, Len(s), P) = Hits(s, P)
  BY <1>2 DEF HitsTo, Hits
<1>4. /\ x \in P => HitsTo(t, Len(s) + 1, P) = HitsTo(t, Len(s), P) + 1
      /\ x \notin P => HitsTo(t, Len(s) + 1, P) = HitsTo(t, Len(s), P)
  BY <1>1, HitsToStep
<1>5. Hits(t, P) = HitsTo(t, Len(s) + 1, P)
  BY <1>1 DEF Hits
<1> QED BY <1>3, <1>4, <1>5 DEF t

\* All of them are in a set that has them all.
LEMMA HitsOfAll ==
  ASSUME NEW S, NEW s \in Seq(S), NEW P, S \subseteq P
  PROVE  Hits(s, P) = Len(s)
<1>1. Len(s) \in Nat /\ {i \in 1..Len(s) : s[i] \in P} = 1..Len(s)
  BY LenProperties, ElementOfSeq
<1>2. \A n \in Nat : Cardinality(1..n) = n
  BY FS_Interval
<1> QED BY <1>1, <1>2 DEF Hits, HitsTo

LEMMA HitsNat == ASSUME NEW S, NEW s \in Seq(S), NEW P PROVE Hits(s, P) \in Nat
BY LenProperties, HitsToStep DEF Hits

\* E puts the first N numbers in an order.
Orders(E, N) ==
  /\ \A i \in 1..N : <<i, i>> \notin E
  /\ \A i, j, k \in 1..N : <<i, j>> \in E /\ <<j, k>> \in E => <<i, k>> \in E
  /\ \A i, j \in 1..N : i # j => <<i, j>> \in E \/ <<j, i>> \in E

Rank(E, N) == [i \in 1..N |-> Cardinality({j \in 1..N : <<j, i>> \in E})]
AtRank(E, N) == [k \in 1..N |-> CHOOSE i \in 1..N : Rank(E, N)[i] = k - 1]

LEMMA RankRises ==
  ASSUME NEW N \in Nat, NEW E, Orders(E, N)
  PROVE  /\ \A i \in 1..N : Rank(E, N)[i] \in 0..N - 1
         /\ \A i, j \in 1..N : <<i, j>> \in E => Rank(E, N)[i] < Rank(E, N)[j]
<1> DEFINE Under(i) == {j \in 1..N : <<j, i>> \in E}
<1>1. IsFiniteSet(1..N) /\ Cardinality(1..N) = N
  BY FS_Interval
<1>2. \A i \in 1..N : IsFiniteSet(Under(i)) /\ Cardinality(Under(i)) \in Nat
  BY <1>1, FS_Subset, FS_CardinalityType
<1>3. ASSUME NEW i \in 1..N PROVE Cardinality(Under(i)) \in 0..N - 1
  <2>1. Under(i) \in SUBSET (1..N) /\ i \notin Under(i) /\ Under(i) # 1..N
    BY DEF Orders
  <2> HIDE DEF Under
  <2>2. Cardinality(Under(i)) <= N /\ Cardinality(Under(i)) # N
    BY <1>1, <2>1, FS_Subset
  <2> QED BY <1>2, <2>2
<1>4. ASSUME NEW i \in 1..N, NEW j \in 1..N, <<i, j>> \in E
      PROVE  Cardinality(Under(i)) < Cardinality(Under(j))
  <2>1. Under(i) \in SUBSET Under(j) /\ i \notin Under(i) /\ i \in Under(j)
    BY <1>4 DEF Orders
  <2> HIDE DEF Under
  <2>2. /\ Cardinality(Under(i)) <= Cardinality(Under(j))
        /\ Cardinality(Under(i)) # Cardinality(Under(j))
    BY <1>2, <2>1, FS_Subset
  <2> QED BY <1>2, <2>2
<1>5. \A i \in 1..N : Rank(E, N)[i] = Cardinality(Under(i))
  BY DEF Rank
<1> QED BY <1>3, <1>4, <1>5

\* Each place has one of them, and they stand in that order.
LEMMA RanksArePlaces ==
  ASSUME NEW N \in Nat, NEW E, Orders(E, N)
  PROVE  /\ AtRank(E, N) \in Bijection(1..N, 1..N)
         /\ \A k, l \in 1..N : k < l => <<AtRank(E, N)[k], AtRank(E, N)[l]>> \in E
<1> DEFINE rank == Rank(E, N)  at == AtRank(E, N)
<1>1. \A i \in 1..N : rank[i] \in 0..N - 1
  BY RankRises
<1>2. \A i, j \in 1..N : <<i, j>> \in E => rank[i] < rank[j]
  BY RankRises
<1>3. \A i, j \in 1..N : i # j => rank[i] # rank[j]
  <2> SUFFICES ASSUME NEW i \in 1..N, NEW j \in 1..N, i # j PROVE rank[i] # rank[j]
    OBVIOUS
  <2>1. <<i, j>> \in E \/ <<j, i>> \in E
    BY DEF Orders
  <2> HIDE DEF rank
  <2>2. rank[i] < rank[j] \/ rank[j] < rank[i]
    BY <1>2, <2>1
  <2> QED BY <1>1, <2>2
<1>4. rank \in Injection(1..N, 0..N - 1)
  <2>1. rank \in [1..N -> 0..N - 1]
    BY <1>1 DEF Rank
  <2> HIDE DEF rank
  <2> QED BY <1>3, <2>1 DEF Injection, IsInjective
<1>5. rank \in Surjection(1..N, 0..N - 1)
  <2>1. /\ IsFiniteSet(0..N - 1) /\ Cardinality(0..N - 1) = N
        /\ Cardinality(1..N) = N
    BY FS_Interval
  <2> HIDE DEF rank
  <2> QED BY <1>4, <2>1, FS_Injection
<1> HIDE DEF rank
<1>6. \A k \in 1..N : at[k] \in 1..N /\ rank[at[k]] = k - 1
  <2> SUFFICES ASSUME NEW k \in 1..N PROVE at[k] \in 1..N /\ rank[at[k]] = k - 1
    OBVIOUS
  <2>1. k - 1 \in 0..N - 1
    OBVIOUS
  <2>2. \E i \in 1..N : rank[i] = k - 1
    BY <1>5, <2>1 DEF Surjection
  <2>3. at[k] = CHOOSE i \in 1..N : rank[i] = k - 1
    BY DEF AtRank, rank
  <2> QED BY <2>2, <2>3
<1>7. \A i \in 1..N : rank[i] + 1 \in 1..N /\ at[rank[i] + 1] = i
  <2> SUFFICES ASSUME NEW i \in 1..N PROVE rank[i] + 1 \in 1..N /\ at[rank[i] + 1] = i
    OBVIOUS
  <2> DEFINE k == rank[i] + 1
  <2>1. k \in 1..N /\ k - 1 = rank[i]
    BY <1>1
  <2> HIDE DEF k
  <2>2. at[k] \in 1..N /\ rank[at[k]] = rank[i]
    BY <1>6, <2>1
  <2>3. at[k] = i
    BY <1>3, <2>2
  <2> QED BY <2>1, <2>3 DEF k
<1>8. at \in Bijection(1..N, 1..N)
  <2>1. at \in [1..N -> 1..N]
    BY <1>6 DEF AtRank
  <2> HIDE DEF at
  <2>2. \A k, l \in 1..N : k # l => at[k] # at[l]
    BY <1>6
  <2> QED BY <1>7, <2>1, <2>2 DEF Bijection, Injection, IsInjective, Surjection
<1>9. ASSUME NEW k \in 1..N, NEW l \in 1..N, k < l PROVE <<at[k], at[l]>> \in E
  <2>1. /\ at[k] \in 1..N /\ at[l] \in 1..N
        /\ rank[at[k]] = k - 1 /\ rank[at[l]] = l - 1
    BY <1>6
  <2> HIDE DEF at
  <2>2. at[k] # at[l] /\ ~(rank[at[l]] < rank[at[k]])
    BY <1>9, <2>1
  <2> QED BY <1>2, <2>1, <2>2 DEF Orders
<1> QED BY <1>8, <1>9

\* What Ordered makes of a sequence: the same items, in that order.
OrderOf(t, s, S, E) ==
  /\ t \in Seq(S) /\ Len(t) = Len(s)
  /\ \A k, l \in 1..Len(s) : k < l =>
       \E i, j \in 1..Len(s) : <<i, j>> \in E /\ t[k] = s[i] /\ t[l] = s[j]
  /\ \A P : Hits(t, P) = Hits(s, P)

LEMMA OrderedItems ==
  ASSUME NEW S, NEW s \in Seq(S), NEW E, Orders(E, Len(s))
  PROVE  OrderOf(Ordered(s, Rank(E, Len(s))), s, S, E)
<1> DEFINE N == Len(s)  t == Ordered(s, Rank(E, N))  at == AtRank(E, N)
<1>1. N \in Nat /\ DOMAIN s = 1..N
  BY LenProperties
<1> HIDE DEF N
<1>2. at \in Bijection(1..N, 1..N) /\ \A k, l \in 1..N : k < l => <<at[k], at[l]>> \in E
  BY <1>1, RanksArePlaces DEF N
<1>3. at \in [1..N -> 1..N]
  BY <1>2 DEF Bijection, Surjection
<1>4. t = [k \in 1..N |-> s[at[k]]]
  BY <1>1 DEF Ordered, AtRank
<1> HIDE DEF t, at
<1>5. t \in Seq(S) /\ Len(t) = N
  <2>1. \A k \in 1..N : s[at[k]] \in S
    BY <1>3, ElementOfSeq DEF N
  <2>2. t \in [1..N -> S]
    BY <1>4, <2>1
  <2> QED BY <1>1, <2>2
<1>6. ASSUME NEW k \in 1..N, NEW l \in 1..N, k < l
      PROVE  \E i, j \in 1..N : <<i, j>> \in E /\ t[k] = s[i] /\ t[l] = s[j]
  <2>1. at[k] \in 1..N /\ at[l] \in 1..N /\ <<at[k], at[l]>> \in E
    BY <1>2, <1>3, <1>6
  <2>2. t[k] = s[at[k]] /\ t[l] = s[at[l]]
    BY <1>4
  <2> QED BY <2>1, <2>2
<1>7. ASSUME NEW P PROVE Hits(t, P) = Hits(s, P)
  <2> DEFINE A == {k \in 1..N : t[k] \in P}  B == {i \in 1..N : s[i] \in P}
             f == [k \in A |-> at[k]]
  <2>1. IsFiniteSet(A)
    <3>1. IsFiniteSet(1..N) /\ A \in SUBSET (1..N)
      BY <1>1, FS_Interval
    <3> HIDE DEF A
    <3> QED BY <3>1, FS_Subset
  <2>2. f \in Bijection(A, B)
    <3>1. \A k \in A : f[k] \in B
      BY <1>3, <1>4
    <3>2. f \in [A -> B]
      BY <3>1
    <3>3. \A k, l \in A : f[k] = f[l] => k = l
      BY <1>2 DEF Bijection, Injection, IsInjective
    <3>4. \A i \in B : \E k \in A : f[k] = i
      BY <1>2, <1>4 DEF Bijection, Surjection
    <3> HIDE DEF f, A, B
    <3> QED BY <3>2, <3>3, <3>4 DEF Bijection, Injection, IsInjective, Surjection
  <2> HIDE DEF f, A, B
  <2>3. ExistsBijection(A, B)
    BY <2>2 DEF ExistsBijection
  <2>4. Cardinality(A) = Cardinality(B)
    BY <2>1, <2>3, FS_Bijection
  <2> QED BY <1>5, <2>4 DEF Hits, HitsTo, N, A, B
<1> QED BY <1>5, <1>6, <1>7 DEF t, N, OrderOf

\* A sequence of numbers is put in order by sorted,
Rising(s) == \A i, j \in 1..Len(s) : i < j => s[i] < s[j]
Mounting(s) == \A i, j \in 1..Len(s) : i < j => s[i] <= s[j]

LEMMA SortedItems ==
  ASSUME NEW s \in Seq(Int)
  PROVE  /\ Sorted(s) \in Seq(Int) /\ Len(Sorted(s)) = Len(s) /\ Mounting(Sorted(s))
         /\ \A P : Hits(Sorted(s), P) = Hits(s, P)
<1> DEFINE N == Len(s)
           E == {p \in (1..N) \X (1..N) : s[p[1]] < s[p[2]] \/ (s[p[1]] = s[p[2]] /\ p[1] < p[2])}
<1>1. N \in Nat /\ DOMAIN s = 1..N /\ \A i \in 1..N : s[i] \in Int
  BY LenProperties, ElementOfSeq
<1> HIDE DEF N
<1>2. \A i, j \in 1..N : <<i, j>> \in E <=> s[i] < s[j] \/ (s[i] = s[j] /\ i < j)
  OBVIOUS
<1>3. Orders(E, N)
  <2> HIDE DEF E
  <2>1. \A i \in 1..N : <<i, i>> \notin E
    BY <1>1, <1>2
  <2>2. \A i, j, k \in 1..N : <<i, j>> \in E /\ <<j, k>> \in E => <<i, k>> \in E
    BY <1>1, <1>2
  <2>3. \A i, j \in 1..N : i # j => <<i, j>> \in E \/ <<j, i>> \in E
    BY <1>1, <1>2
  <2> QED BY <2>1, <2>2, <2>3 DEF Orders
<1>4. Sorted(s) = Ordered(s, Rank(E, N))
  <2> DEFINE Under(i) == {j \in 1..N : s[j] < s[i] \/ (s[j] = s[i] /\ j < i)}
  <2>1. \A i \in 1..N : Under(i) = {j \in 1..N : <<j, i>> \in E}
    BY <1>2
  <2> HIDE DEF E, Under
  <2>2. [i \in 1..N |-> Cardinality(Under(i))] = Rank(E, N)
    BY <2>1 DEF Rank
  <2>3. Sorted(s) = Ordered(s, [i \in 1..N |-> Cardinality(Under(i))])
    BY <1>1 DEF Sorted, Under
  <2> QED BY <2>2, <2>3
<1> HIDE DEF E
<1> DEFINE t == Ordered(s, Rank(E, N))
<1>5. /\ t \in Seq(Int) /\ Len(t) = N
      /\ \A k, l \in 1..N : k < l =>
           \E i, j \in 1..N : <<i, j>> \in E /\ t[k] = s[i] /\ t[l] = s[j]
      /\ \A P : Hits(t, P) = Hits(s, P)
  <2>1. Orders(E, Len(s)) /\ N = Len(s)
    BY <1>3 DEF N
  <2>2. OrderOf(Ordered(s, Rank(E, Len(s))), s, Int, E)
    BY <2>1, OrderedItems
  <2>3. OrderOf(t, s, Int, E)
    BY <2>1, <2>2
  <2> HIDE DEF t
  <2>4. /\ t \in Seq(Int) /\ Len(t) = Len(s)
        /\ \A k, l \in 1..Len(s) : k < l =>
             \E i, j \in 1..Len(s) : <<i, j>> \in E /\ t[k] = s[i] /\ t[l] = s[j]
        /\ \A P : Hits(t, P) = Hits(s, P)
    BY <2>3 DEF OrderOf
  <2>5. ASSUME NEW k \in 1..N, NEW l \in 1..N, k < l
        PROVE  \E i, j \in 1..N : <<i, j>> \in E /\ t[k] = s[i] /\ t[l] = s[j]
    <3>1. k \in 1..Len(s) /\ l \in 1..Len(s)
      BY <2>1
    <3>2. PICK i, j \in 1..Len(s) : <<i, j>> \in E /\ t[k] = s[i] /\ t[l] = s[j]
      BY <2>4, <2>5, <3>1
    <3>3. i \in 1..N /\ j \in 1..N
      BY <2>1
    <3> QED BY <3>2, <3>3
  <2> QED BY <2>1, <2>4, <2>5
<1> HIDE DEF t
<1>6. Mounting(t)
  <2> SUFFICES ASSUME NEW k \in 1..N, NEW l \in 1..N, k < l PROVE t[k] <= t[l]
    BY <1>5 DEF Mounting
  <2>1. PICK i, j \in 1..N : <<i, j>> \in E /\ t[k] = s[i] /\ t[l] = s[j]
    BY <1>5
  <2> QED BY <1>1, <1>2, <2>1
<1> QED BY <1>4, <1>5, <1>6 DEF N, t

\* and the events of two by merge.
Events == Int \X Int

LEMMA MergedItems ==
  ASSUME NEW S, S \subseteq Events, NEW s \in Seq(S)
  PROVE  /\ MergedEvents(s) \in Seq(S) /\ Len(MergedEvents(s)) = Len(s)
         /\ \A k, l \in 1..Len(s) : k < l =>
              \/ Before(MergedEvents(s)[k], MergedEvents(s)[l])
              \/ MergedEvents(s)[k] = MergedEvents(s)[l]
         /\ \A P : Hits(MergedEvents(s), P) = Hits(s, P)
<1> DEFINE N == Len(s)
           E == {p \in (1..N) \X (1..N) :
                   Before(s[p[1]], s[p[2]]) \/ (s[p[1]] = s[p[2]] /\ p[1] < p[2])}
<1>1. N \in Nat /\ DOMAIN s = 1..N /\ \A i \in 1..N : s[i] \in Events
  BY LenProperties, ElementOfSeq
<1> HIDE DEF N
<1>2. \A i, j \in 1..N : <<i, j>> \in E <=> Before(s[i], s[j]) \/ (s[i] = s[j] /\ i < j)
  OBVIOUS
<1>3. Orders(E, N)
  <2>1. \A e \in Events : ~Before(e, e)
    BY DEF Events, Before
  <2>2. \A e, f, g \in Events : Before(e, f) /\ Before(f, g) => Before(e, g)
    BY DEF Events, Before
  <2>3. \A e, f \in Events : e # f => Before(e, f) \/ Before(f, e)
    BY DEF Events, Before
  <2> HIDE DEF E
  <2>4. \A i \in 1..N : <<i, i>> \notin E
    BY <1>1, <1>2, <2>1
  <2>5. \A i, j, k \in 1..N : <<i, j>> \in E /\ <<j, k>> \in E => <<i, k>> \in E
    BY <1>1, <1>2, <2>2
  <2>6. \A i, j \in 1..N : i # j => <<i, j>> \in E \/ <<j, i>> \in E
    BY <1>1, <1>2, <2>3
  <2> QED BY <2>4, <2>5, <2>6 DEF Orders
<1>4. MergedEvents(s) = Ordered(s, Rank(E, N))
  <2> DEFINE Under(i) == {j \in 1..N : Before(s[j], s[i]) \/ (s[j] = s[i] /\ j < i)}
  <2>1. \A i \in 1..N : Under(i) = {j \in 1..N : <<j, i>> \in E}
    BY <1>2
  <2> HIDE DEF E, Under
  <2>2. [i \in 1..N |-> Cardinality(Under(i))] = Rank(E, N)
    BY <2>1 DEF Rank
  <2>3. MergedEvents(s) = Ordered(s, [i \in 1..N |-> Cardinality(Under(i))])
    BY <1>1 DEF MergedEvents, Under
  <2> QED BY <2>2, <2>3
<1> HIDE DEF E
<1> DEFINE t == Ordered(s, Rank(E, N))
<1>5. /\ t \in Seq(S) /\ Len(t) = N
      /\ \A k, l \in 1..N : k < l =>
           \E i, j \in 1..N : <<i, j>> \in E /\ t[k] = s[i] /\ t[l] = s[j]
      /\ \A P : Hits(t, P) = Hits(s, P)
  <2>1. Orders(E, Len(s)) /\ N = Len(s)
    BY <1>3 DEF N
  <2>2. OrderOf(Ordered(s, Rank(E, Len(s))), s, S, E)
    BY <2>1, OrderedItems
  <2>3. OrderOf(t, s, S, E)
    BY <2>1, <2>2
  <2> HIDE DEF t
  <2>4. /\ t \in Seq(S) /\ Len(t) = Len(s)
        /\ \A k, l \in 1..Len(s) : k < l =>
             \E i, j \in 1..Len(s) : <<i, j>> \in E /\ t[k] = s[i] /\ t[l] = s[j]
        /\ \A P : Hits(t, P) = Hits(s, P)
    BY <2>3 DEF OrderOf
  <2>5. ASSUME NEW k \in 1..N, NEW l \in 1..N, k < l
        PROVE  \E i, j \in 1..N : <<i, j>> \in E /\ t[k] = s[i] /\ t[l] = s[j]
    <3>1. k \in 1..Len(s) /\ l \in 1..Len(s)
      BY <2>1
    <3>2. PICK i, j \in 1..Len(s) : <<i, j>> \in E /\ t[k] = s[i] /\ t[l] = s[j]
      BY <2>4, <2>5, <3>1
    <3>3. i \in 1..N /\ j \in 1..N
      BY <2>1
    <3> QED BY <3>2, <3>3
  <2> QED BY <2>1, <2>4, <2>5
<1> HIDE DEF t
<1>6. \A k, l \in 1..N : k < l => Before(t[k], t[l]) \/ t[k] = t[l]
  <2> SUFFICES ASSUME NEW k \in 1..N, NEW l \in 1..N, k < l
               PROVE  Before(t[k], t[l]) \/ t[k] = t[l]
    OBVIOUS
  <2>1. PICK i, j \in 1..N : <<i, j>> \in E /\ t[k] = s[i] /\ t[l] = s[j]
    BY <1>5
  <2> QED BY <1>2, <2>1
<1> QED BY <1>4, <1>5, <1>6 DEF N, t

LEMMA Parity ==
  ASSUME NEW a \in Nat, NEW b \in Nat
  PROVE  /\ (a + 1) % 2 = b % 2 => a % 2 = (b + 1) % 2
         /\ a % 2 = b % 2 => (a + 1) % 2 = (b + 1) % 2
         /\ a % 2 \in {0, 1} /\ (a + 1) % 2 = 1 - (a % 2)
OBVIOUS

\* One number more than all of a rising sequence.
LEMMA RisingAppend ==
  ASSUME NEW s \in Seq(Int), Rising(s), NEW x \in Int, \A i \in 1..Len(s) : s[i] < x
  PROVE  /\ s \o <<x>> \in Seq(Int) /\ Rising(s \o <<x>>)
         /\ \A i \in 1..Len(s \o <<x>>) : (s \o <<x>>)[i] <= x
<1> DEFINE t == s \o <<x>>
<1>1. /\ Len(s) \in Nat /\ t \in Seq(Int) /\ Len(t) = Len(s) + 1
      /\ \A i \in 1..Len(s) : t[i] = s[i] /\ s[i] \in Int
      /\ t[Len(s) + 1] = x
  <2>1. <<x>> \in Seq(Int) /\ Len(<<x>>) = 1 /\ <<x>>[1] = x
    OBVIOUS
  <2>2. /\ Len(s) \in Nat /\ t \in Seq(Int) /\ Len(t) = Len(s) + 1
        /\ \A i \in 1..Len(s) : t[i] = s[i]
        /\ \A j \in 1..1 : t[Len(s) + j] = <<x>>[j]
    BY <2>1, ConcatItems
  <2> HIDE DEF t
  <2>3. t[Len(s) + 1] = x
    BY <2>1, <2>2
  <2> QED BY <2>2, <2>3, ElementOfSeq
<1> HIDE DEF t
<1>2. Rising(t)
  <2> SUFFICES ASSUME NEW i \in 1..Len(t), NEW j \in 1..Len(t), i < j PROVE t[i] < t[j]
    BY DEF Rising
  <2>0. Len(s) \in Nat /\ Len(t) = Len(s) + 1
    BY <1>1
  <2>1. i \in 1..Len(s) /\ t[i] = s[i]
    <3>1. i \in 1..Len(s)
      BY <2>0
    <3> QED BY <1>1, <3>1
  <2>2. CASE j = Len(s) + 1
    <3>1. s[i] < x /\ t[j] = x
      BY <1>1, <2>1, <2>2
    <3> QED BY <2>1, <3>1
  <2>3. CASE j # Len(s) + 1
    <3>0. j \in 1..Len(s)
      BY <2>0, <2>3
    <3>1. j \in 1..Len(s) /\ t[j] = s[j]
      BY <1>1, <3>0
    <3> QED BY <2>1, <3>1 DEF Rising
  <2> QED BY <2>2, <2>3
<1>3. \A i \in 1..Len(t) : t[i] <= x
  BY <1>1
<1> QED BY <1>1, <1>2, <1>3 DEF t

\* What the loop has kept of the first k bounds: the same number of hits, but for
\* pairs, in a rising sequence whose last bound it still holds back.
Kept(s, k, acc) ==
  /\ acc \in Pairs /\ Rising(acc.out)
  /\ acc.last # <<>> => k > 0 /\ acc.last = <<s[k]>>
  /\ \A i \in 1..Len(acc.out) : k > 0 /\ acc.out[i] < s[k]
  /\ \A P : Hits(acc.out \o acc.last, P) % 2 = HitsTo(s, k, P) % 2

LEMMA PairKeeps ==
  ASSUME NEW s \in Seq(Int), Mounting(s), NEW k \in Nat, k + 1 \in 1..Len(s),
         NEW acc, Kept(s, k, acc)
  PROVE  Kept(s, k + 1, Pair(acc, s[k + 1]))
<1> DEFINE p == s[k + 1]  next == Pair(acc, p)
<1>1. p \in Int /\ next \in Pairs
  BY ElementOfSeq, PairTyped DEF Kept
<1>2. k > 0 => s[k] \in Int /\ s[k] <= p
  <2> SUFFICES ASSUME k > 0 PROVE s[k] \in Int /\ s[k] <= p
    OBVIOUS
  <2>1. Len(s) \in Nat
    BY LenProperties
  <2>2. k \in 1..Len(s)
    BY <2>1
  <2> QED BY <2>2, ElementOfSeq DEF Mounting
<1>3. /\ acc.out \in Seq(Int) /\ acc.last \in Seq(Int) /\ <<p>> \in Seq(Int)
      /\ \A i \in 1..Len(acc.out) : acc.out[i] \in Int
  BY <1>1, ElementOfSeq DEF Kept, Pairs
<1>4. \A P : /\ HitsTo(s, k, P) \in Nat
             /\ p \in P => HitsTo(s, k + 1, P) = HitsTo(s, k, P) + 1
             /\ p \notin P => HitsTo(s, k + 1, P) = HitsTo(s, k, P)
  BY HitsToStep
<1>5. \A P : /\ Hits(acc.out, P) \in Nat /\ Hits(acc.last, P) \in Nat
             /\ Hits(acc.out \o acc.last, P) = Hits(acc.out, P) + Hits(acc.last, P)
  BY <1>3, HitsNat, HitsOfConcat
<1>6. \A P : /\ p \in P => Hits(<<p>>, P) = 1
             /\ p \notin P => Hits(<<p>>, P) = 0
  <2> TAKE P
  <2> DEFINE one == <<p>>
  <2>1. Len(one) = 1 /\ one[0 + 1] = p
    OBVIOUS
  <2> HIDE DEF one
  <2>2. /\ HitsTo(one, 0, P) = 0
        /\ p \in P => HitsTo(one, 0 + 1, P) = HitsTo(one, 0, P) + 1
        /\ p \notin P => HitsTo(one, 0 + 1, P) = HitsTo(one, 0, P)
    BY <2>1, HitsToStep
  <2> QED BY <2>1, <2>2 DEF Hits, one
<1>7. /\ acc.last = <<p>> => next.out = acc.out /\ next.last = <<>>
      /\ acc.last # <<p>> => next.out = acc.out \o acc.last /\ next.last = <<p>>
  BY DEF Pair
<1>8. /\ Rising(acc.out)
      /\ acc.last # <<>> => k > 0 /\ acc.last = <<s[k]>>
      /\ \A i \in 1..Len(acc.out) : k > 0 /\ acc.out[i] < s[k]
      /\ \A P : Hits(acc.out \o acc.last, P) % 2 = HitsTo(s, k, P) % 2
  BY DEF Kept
<1>9. s[k + 1] = p /\ Pair(acc, s[k + 1]) = next /\ k + 1 > 0
  OBVIOUS
<1>10. next.out \in Seq(Int) /\ next.last \in Seq(Int)
  BY <1>1 DEF Pairs
<1> HIDE DEF p, next
<1>11. CASE acc.last = <<p>>
  <2>1. k > 0 /\ s[k] = p
    BY <1>1, <1>2, <1>8, <1>11
  <2>2. \A P : Hits(next.out \o next.last, P) % 2 = HitsTo(s, k + 1, P) % 2
    <3> TAKE P
    <3>1. next.out \o next.last = acc.out
      BY <1>3, <1>7, <1>11, ConcatEmptySeq
    <3>2. Hits(acc.out \o acc.last, P) % 2 = HitsTo(s, k, P) % 2
      BY <1>8
    <3>3. CASE p \in P
      <4>1. (Hits(acc.out, P) + 1) % 2 = HitsTo(s, k, P) % 2
        BY <1>5, <1>6, <1>11, <3>2, <3>3
      <4>2. Hits(acc.out, P) % 2 = (HitsTo(s, k, P) + 1) % 2
        BY <1>4, <1>5, <4>1, Parity
      <4> QED BY <1>4, <3>1, <3>3, <4>2
    <3>4. CASE p \notin P
      <4>1. Hits(acc.out, P) % 2 = HitsTo(s, k, P) % 2
        BY <1>5, <1>6, <1>11, <3>2, <3>4
      <4> QED BY <1>4, <3>1, <3>4, <4>1
    <3> QED BY <3>3, <3>4
  <2>3. Rising(next.out) /\ \A i \in 1..Len(next.out) : next.out[i] < p
    BY <1>7, <1>8, <1>11, <2>1
  <2> QED BY <1>1, <1>7, <1>9, <1>11, <2>2, <2>3 DEF Kept
<1>12. CASE acc.last # <<p>>
  <2>1. Rising(next.out) /\ \A i \in 1..Len(next.out) : next.out[i] < p
    <3>1. CASE acc.last = <<>>
      <4>1. next.out = acc.out
        BY <1>3, <1>7, <1>12, <3>1, ConcatEmptySeq
      <4>2. ASSUME NEW i \in 1..Len(acc.out) PROVE acc.out[i] < p
        <5>1. k > 0 /\ acc.out[i] < s[k] /\ acc.out[i] \in Int
          BY <1>3, <1>8
        <5> QED BY <1>1, <1>2, <5>1
      <4> QED BY <1>8, <4>1, <4>2
    <3>2. CASE acc.last # <<>>
      <4>1. k > 0 /\ acc.last = <<s[k]>> /\ s[k] \in Int /\ s[k] < p
        BY <1>1, <1>2, <1>8, <1>12, <3>2
      <4>2. /\ next.out = acc.out \o <<s[k]>>
            /\ Rising(next.out) /\ \A i \in 1..Len(next.out) : next.out[i] <= s[k]
        BY <1>3, <1>7, <1>8, <1>12, <4>1, RisingAppend
      <4>3. \A i \in 1..Len(next.out) : next.out[i] \in Int
        BY <1>10, ElementOfSeq
      <4>4. ASSUME NEW i \in 1..Len(next.out) PROVE next.out[i] < p
        <5>1. next.out[i] \in Int /\ next.out[i] <= s[k] /\ s[k] \in Int /\ s[k] < p
          BY <4>1, <4>2, <4>3
        <5> HIDE DEF next
        <5> QED BY <1>1, <5>1
      <4> QED BY <4>2, <4>4
    <3> QED BY <3>1, <3>2
  <2>2. \A P : Hits(next.out \o next.last, P) % 2 = HitsTo(s, k + 1, P) % 2
    <3> TAKE P
    <3> DEFINE old == Hits(acc.out \o acc.last, P)
    <3>1. old % 2 = HitsTo(s, k, P) % 2 /\ old \in Nat
      BY <1>5, <1>8
    <3>2. Hits(next.out \o next.last, P) = old + Hits(<<p>>, P)
      <4>1. next.out = acc.out \o acc.last /\ next.last = <<p>>
        BY <1>7, <1>12
      <4>2. Hits(next.out \o <<p>>, P) = Hits(next.out, P) + Hits(<<p>>, P)
        BY <1>3, <1>10, HitsOfConcat
      <4> QED BY <4>1, <4>2
    <3> HIDE DEF old
    <3>3. CASE p \in P
      <4>1. (old + 1) % 2 = (HitsTo(s, k, P) + 1) % 2
        BY <1>4, <3>1, Parity
      <4> QED BY <1>4, <1>6, <3>2, <3>3, <4>1
    <3>4. CASE p \notin P
      <4>1. HitsTo(s, k + 1, P) = HitsTo(s, k, P) /\ Hits(<<p>>, P) = 0
        BY <1>4, <1>6, <3>4
      <4>2. old + 0 = old
        BY <3>1
      <4> QED BY <3>1, <3>2, <4>1, <4>2
    <3> QED BY <3>3, <3>4
  <2> QED BY <1>1, <1>7, <1>9, <1>12, <2>1, <2>2 DEF Kept
<1> QED BY <1>11, <1>12

\* RangeSet makes of any bounds the rising sequence with the same hits, but for pairs.
LEMMA RangeSetItems ==
  ASSUME NEW bounds \in Seq(Int)
  PROVE  /\ RangeSet(bounds) \in Seq(Int) /\ Rising(RangeSet(bounds))
         /\ \A P : Hits(RangeSet(bounds), P) % 2 = Hits(bounds, P) % 2
<1> DEFINE s == Sorted(bounds)
<1>1. s \in Seq(Int) /\ Mounting(s) /\ \A P : Hits(s, P) = Hits(bounds, P)
  BY SortedItems
<1> HIDE DEF s
<1>2. PICK f : /\ f[0] = NoPair
               /\ \A k \in 1..Len(s) : f[k] = Pair(f[k - 1], s[k])
               /\ FoldLeft(Pair, NoPair, s) = f[Len(s)]
  BY <1>1, PairRuns
<1> DEFINE T == {k \in Nat : k <= Len(s) => Kept(s, k, f[k])}
<1>3. 0 \in T
  <2>1. /\ NoPair \in Pairs /\ NoPair.out = <<>> /\ NoPair.last = <<>>
        /\ NoPair.out \o NoPair.last = <<>> /\ Len(<<>>) = 0 /\ Rising(<<>>)
    BY DEF NoPair, Pairs, Rising
  <2>2. ASSUME NEW P PROVE Hits(<<>>, P) = HitsTo(s, 0, P)
    <3>1. HitsTo(<<>>, 0, P) = 0 /\ HitsTo(s, 0, P) = 0
      BY HitsToStep
    <3> QED BY <2>1, <3>1 DEF Hits
  <2>3. Kept(s, 0, NoPair)
    BY <2>1, <2>2 DEF Kept
  <2> QED BY <1>2, <2>3
<1>4. ASSUME NEW k \in Nat, k \in T PROVE k + 1 \in T
  <2> SUFFICES ASSUME k + 1 <= Len(s) PROVE Kept(s, k + 1, f[k + 1])
    OBVIOUS
  <2>1. Len(s) \in Nat
    BY <1>1, LenProperties
  <2>2. k + 1 \in 1..Len(s) /\ k + 1 - 1 = k
    BY <2>1
  <2>3. Kept(s, k, f[k])
    BY <1>4, <2>1
  <2> HIDE DEF T
  <2>4. f[k + 1] = Pair(f[k], s[k + 1])
    BY <1>2, <2>2
  <2> QED BY <1>1, <2>2, <2>3, <2>4, PairKeeps
<1> DEFINE end == f[Len(s)]  kept == end.out \o end.last
<1>5. Len(s) \in Nat /\ Kept(s, Len(s), end)
  <2>1. Len(s) \in Nat
    BY <1>1, LenProperties
  <2>2. Len(s) \in T
    <3> HIDE DEF T
    <3> QED BY <1>3, <1>4, <2>1, OneByOne
  <2> QED BY <2>1, <2>2
<1>6. RangeSet(bounds) = kept
  BY <1>2 DEF RangeSet, RemovePairs, s, NoPair
<1> HIDE DEF end
<1>7. end.out \in Seq(Int) /\ end.last \in Seq(Int)
  BY <1>5 DEF Kept, Pairs
<1>8. kept \in Seq(Int)
  BY <1>7, ConcatItems
<1>9. Rising(kept)
  <2>1. CASE end.last = <<>>
    BY <1>5, <1>7, <2>1, ConcatEmptySeq DEF Kept
  <2>2. CASE end.last # <<>>
    <3>1. /\ end.last = <<s[Len(s)]>> /\ Len(s) \in 1..Len(s)
          /\ Rising(end.out) /\ \A i \in 1..Len(end.out) : end.out[i] < s[Len(s)]
      BY <1>5, <2>2 DEF Kept
    <3>2. s[Len(s)] \in Int
      BY <1>1, <3>1, ElementOfSeq
    <3> QED BY <1>7, <3>1, <3>2, RisingAppend
  <2> QED BY <2>1, <2>2
<1>10. \A P : Hits(kept, P) % 2 = Hits(bounds, P) % 2
  <2> TAKE P
  <2>1. Hits(kept, P) % 2 = HitsTo(s, Len(s), P) % 2
    BY <1>5 DEF Kept
  <2>2. Hits(bounds, P) = HitsTo(s, Len(s), P)
    BY <1>1 DEF Hits
  <2> QED BY <2>1, <2>2
<1> HIDE DEF kept
<1> QED BY <1>6, <1>8, <1>9, <1>10

\* The events of a sweep that counts active ranges.
Steps == Int \X {-1, 1}
Crossings == [out : Seq(Int), z : Int]
NoCross == [out |-> <<>>, z |-> 0]

LEMMA CrossTyped ==
  ASSUME NEW low, NEW acc \in Crossings, NEW e \in Steps
  PROVE  Cross(low, acc, e) \in Crossings
<1>1. acc.out \in Seq(Int) /\ acc.z \in Int /\ e[1] \in Int /\ e[2] \in Int
  BY DEF Crossings, Steps
<1>2. Append(acc.out, e[1]) \in Seq(Int) /\ acc.z + e[2] \in Int
  BY <1>1
<1> QED BY <1>1, <1>2 DEF Cross, Crossings

\* The loop of a sweep, event by event.
LEMMA CrossRuns ==
  ASSUME NEW low, NEW s \in Seq(Steps)
  PROVE  \E f : /\ f[0] = NoCross
                /\ \A k \in 1..Len(s) : f[k] = Cross(low, f[k - 1], s[k])
                /\ Crossed(s, low) = f[Len(s)].out
<1> DEFINE N == Len(s)
<1> DEFINE Equation(iter) == iter = [S \in SUBSET (1..N) |->
             IF S = {} THEN NoCross ELSE Cross(low, iter[S \ {Max(S)}], s[Max(S)])]
<1>1. N \in Nat /\ DOMAIN s = 1..N
  BY LenProperties
<1>2. \E iter : Equation(iter)
  <2> DEFINE G == [p \in Crossings \X (1..N) |-> Cross(low, p[1], s[p[2]])]
  <2>1. G \in [Crossings \X (1..N) -> Crossings]
    BY CrossTyped, ElementOfSeq
  <2>2. NoCross \in Crossings
    BY DEF NoCross, Crossings
  <2>3. PICK iter \in [SUBSET (1..N) -> Crossings] : Tabulates(iter, N, NoCross, G)
    <3> HIDE DEF G
    <3> QED BY <1>1, <2>1, <2>2, FoldTable
  <2>4. ASSUME NEW S \in SUBSET (1..N), S # {}
        PROVE  G[iter[S \ {Max(S)}], Max(S)] = Cross(low, iter[S \ {Max(S)}], s[Max(S)])
    <3>1. Max(S) \in 1..N
      BY <1>1, <2>4, MaxIn
    <3>2. iter[S \ {Max(S)}] \in Crossings
      BY <2>3
    <3> QED BY <3>1, <3>2
  <2>5. Equation(iter)
    <3> HIDE DEF G
    <3> QED BY <2>3, <2>4 DEF Tabulates
  <2> QED BY <2>5
<1> DEFINE iter == CHOOSE iter : Equation(iter)
<1>3. Equation(iter)
  BY <1>2
<1>4. FoldLeft(LAMBDA acc, e : Cross(low, acc, e), NoCross, s) = iter[1..N]
  BY <1>1 DEF FoldLeft, MapThenFoldSet
<1> HIDE DEF iter
<1> DEFINE f == [k \in 0..N |-> iter[1..k]]
<1>5. f[0] = NoCross
  <2>1. 1..0 = {} /\ 0 \in 0..N
    BY <1>1
  <2> QED BY <1>3, <2>1
<1>6. ASSUME NEW k \in 1..N PROVE f[k] = Cross(low, f[k - 1], s[k])
  <2>1. f[k] = iter[1..k] /\ f[k - 1] = iter[1..k - 1]
    BY <1>1
  <2>2. /\ 1..k \in SUBSET (1..N) /\ 1..k # {}
        /\ Max(1..k) = k /\ (1..k) \ {Max(1..k)} = 1..k - 1
    BY <1>1, PrefixFacts
  <2>3. iter[1..k] = Cross(low, iter[(1..k) \ {Max(1..k)}], s[Max(1..k)])
    BY <1>3, <2>2
  <2> QED BY <2>1, <2>2, <2>3, Zenon
<1>7. f[N] = iter[1..N]
  BY <1>1
<1>8. Crossed(s, low) = f[N].out
  BY <1>4, <1>7, Zenon DEF Crossed, NoCross
<1> HIDE DEF f
<1> QED BY <1>5, <1>6, <1>8

\* A set of blocks that has all the blocks below each of its own.
Down(U) == U \subseteq Int /\ \A x \in U, y \in Int : y <= x => y \in U

\* How many ranges the first k events leave open, of those in U.
NetTo(e, k, U) == HitsTo(e, k, U \X {1}) - HitsTo(e, k, U \X {-1})

LEMMA NetToStep ==
  ASSUME NEW e \in Seq(Steps), NEW k \in Nat, k + 1 \in 1..Len(e), NEW U
  PROVE  /\ NetTo(e, k, U) \in Int /\ NetTo(e, 0, U) = 0
         /\ e[k + 1][1] \in U => NetTo(e, k + 1, U) = NetTo(e, k, U) + e[k + 1][2]
         /\ e[k + 1][1] \notin U => NetTo(e, k + 1, U) = NetTo(e, k, U)
<1> DEFINE v == e[k + 1]
<1>1. v \in Steps
  BY ElementOfSeq
<1>2. \A P : /\ HitsTo(e, k, P) \in Nat /\ HitsTo(e, 0, P) = 0
             /\ v \in P => HitsTo(e, k + 1, P) = HitsTo(e, k, P) + 1
             /\ v \notin P => HitsTo(e, k + 1, P) = HitsTo(e, k, P)
  BY HitsToStep
<1>3. /\ v \in U \X {1} <=> v[1] \in U /\ v[2] = 1
      /\ v \in U \X {-1} <=> v[1] \in U /\ v[2] = -1
      /\ v[2] \in {-1, 1}
  BY <1>1 DEF Steps
<1> HIDE DEF v
<1>4. NetTo(e, k, U) \in Int /\ NetTo(e, 0, U) = 0
  BY <1>2 DEF NetTo
<1>5. v[1] \notin U => NetTo(e, k + 1, U) = NetTo(e, k, U)
  BY <1>2, <1>3 DEF NetTo
<1>6. v[1] \in U => NetTo(e, k + 1, U) = NetTo(e, k, U) + v[2]
  <2> SUFFICES ASSUME v[1] \in U PROVE NetTo(e, k + 1, U) = NetTo(e, k, U) + v[2]
    OBVIOUS
  <2>1. CASE v[2] = 1
    <3>1. v \in U \X {1} /\ v \notin U \X {-1}
      BY <1>3, <2>1
    <3> QED BY <1>2, <2>1, <3>1 DEF NetTo
  <2>2. CASE v[2] = -1
    <3>1. v \notin U \X {1} /\ v \in U \X {-1}
      BY <1>3, <2>2
    <3> QED BY <1>2, <2>2, <3>1 DEF NetTo
  <2> QED BY <1>3, <2>1, <2>2
<1> QED BY <1>4, <1>5, <1>6 DEF v

\* The events come in the order of their bounds.
InOrder(e) == \A i, j \in 1..Len(e) : i < j => e[i][1] <= e[j][1]

\* What the sweep has after k events: the ranges open now, and the bounds at which
\* their number left low upwards or came back to it.
Swept(e, k, low, acc) ==
  /\ acc \in Crossings /\ acc.z = NetTo(e, k, Int)
  /\ \A U : Down(U) => (Hits(acc.out, U) % 2 = 1 <=> NetTo(e, k, U) > low)

LEMMA CrossSweeps ==
  ASSUME NEW e \in Seq(Steps), InOrder(e), NEW low \in Nat,
         NEW k \in Nat, k + 1 \in 1..Len(e), NEW acc, Swept(e, k, low, acc)
  PROVE  Swept(e, k + 1, low, Cross(low, acc, e[k + 1]))
<1> DEFINE v == e[k + 1]  next == Cross(low, acc, v)
<1>1. /\ acc \in Crossings /\ acc.z = NetTo(e, k, Int)
      /\ \A U : Down(U) => (Hits(acc.out, U) % 2 = 1 <=> NetTo(e, k, U) > low)
  BY DEF Swept
<1>2. v \in Steps /\ next \in Crossings
  BY <1>1, ElementOfSeq, CrossTyped
<1>3. v[1] \in Int /\ v[2] \in {-1, 1} /\ acc.out \in Seq(Int) /\ acc.z \in Int
  BY <1>1, <1>2 DEF Steps, Crossings
<1>4. \A U : /\ NetTo(e, k, U) \in Int
             /\ v[1] \in U => NetTo(e, k + 1, U) = NetTo(e, k, U) + v[2]
             /\ v[1] \notin U => NetTo(e, k + 1, U) = NetTo(e, k, U)
  BY NetToStep
<1>5. /\ next.z = acc.z + v[2]
      /\ \/ acc.z = low /\ v[2] = 1
         \/ acc.z = low + 1 /\ v[2] = -1
         => next.out = Append(acc.out, v[1])
      /\ ~(\/ acc.z = low /\ v[2] = 1
           \/ acc.z = low + 1 /\ v[2] = -1) => next.out = acc.out
  BY DEF Cross
<1>6. \A U : /\ Hits(acc.out, U) \in Nat
             /\ v[1] \in U => Hits(Append(acc.out, v[1]), U) = Hits(acc.out, U) + 1
             /\ v[1] \notin U => Hits(Append(acc.out, v[1]), U) = Hits(acc.out, U)
  BY <1>3, HitsNat, HitsOfAppend
<1>7. ASSUME NEW U, Down(U), v[1] \in U PROVE NetTo(e, k, U) = NetTo(e, k, Int)
  <2>1. ASSUME NEW i \in 1..k PROVE e[i] \in Steps /\ e[i][1] \in U
    <3>1. Len(e) \in Nat
      BY LenProperties
    <3>2. i \in 1..Len(e) /\ i < k + 1
      BY <3>1
    <3>3. e[i] \in Steps /\ e[i][1] <= v[1]
      BY <3>2, ElementOfSeq DEF InOrder
    <3>4. e[i][1] \in Int
      BY <3>3 DEF Steps
    <3> QED BY <1>7, <3>3, <3>4 DEF Down
  <2>2. ASSUME NEW d PROVE HitsTo(e, k, U \X {d}) = HitsTo(e, k, Int \X {d})
    <3>1. {i \in 1..k : e[i] \in U \X {d}} = {i \in 1..k : e[i] \in Int \X {d}}
      BY <2>1 DEF Steps
    <3> QED BY <3>1 DEF HitsTo
  <2> QED BY <2>2 DEF NetTo
<1>8. e[k + 1] = v /\ Cross(low, acc, e[k + 1]) = next
  OBVIOUS
<1> HIDE DEF v, next
<1>9. next.z = NetTo(e, k + 1, Int)
  BY <1>1, <1>3, <1>4, <1>5
<1>10. ASSUME NEW U, Down(U)
       PROVE  Hits(next.out, U) % 2 = 1 <=> NetTo(e, k + 1, U) > low
  <2>1. Hits(acc.out, U) % 2 = 1 <=> NetTo(e, k, U) > low
    BY <1>1, <1>10
  <2>2. CASE v[1] \notin U
    <3>1. Hits(next.out, U) = Hits(acc.out, U)
      BY <1>5, <1>6, <2>2
    <3> QED BY <1>4, <2>1, <2>2, <3>1
  <2>3. CASE v[1] \in U
    <3>1. NetTo(e, k, U) = acc.z /\ NetTo(e, k + 1, U) = acc.z + v[2]
      BY <1>1, <1>4, <1>7, <1>10, <2>3
    <3>2. CASE acc.z = low /\ v[2] = 1
      <4>1. Hits(next.out, U) = Hits(acc.out, U) + 1
        BY <1>5, <1>6, <2>3, <3>2
      <4>2. Hits(acc.out, U) % 2 # 1 /\ NetTo(e, k + 1, U) > low
        BY <2>1, <3>1, <3>2
      <4>3. Hits(next.out, U) % 2 = 1
        BY <1>6, <4>1, <4>2, Parity
      <4> QED BY <4>2, <4>3
    <3>3. CASE acc.z = low + 1 /\ v[2] = -1
      <4>1. Hits(next.out, U) = Hits(acc.out, U) + 1
        BY <1>5, <1>6, <2>3, <3>3
      <4>2. Hits(acc.out, U) % 2 = 1 /\ ~(NetTo(e, k + 1, U) > low)
        BY <2>1, <3>1, <3>3
      <4>3. Hits(next.out, U) % 2 # 1
        BY <1>6, <4>1, <4>2, Parity
      <4> QED BY <4>2, <4>3
    <3>4. CASE ~(acc.z = low /\ v[2] = 1) /\ ~(acc.z = low + 1 /\ v[2] = -1)
      <4>1. next.out = acc.out
        BY <1>5, <3>4
      <4>2. acc.z > low <=> acc.z + v[2] > low
        BY <1>3, <3>4
      <4> QED BY <2>1, <3>1, <4>1, <4>2
    <3> QED BY <3>2, <3>3, <3>4
  <2> QED BY <2>2, <2>3
<1> QED BY <1>2, <1>8, <1>9, <1>10 DEF Swept

Net(e, U) == NetTo(e, Len(e), U)

LEMMA SweepItems ==
  ASSUME NEW e \in Seq(Steps), InOrder(e), NEW low \in Nat
  PROVE  /\ Sweep(e, low) \in Seq(Int) /\ Rising(Sweep(e, low))
         /\ \A U : Down(U) => (Hits(Sweep(e, low), U) % 2 = 1 <=> Net(e, U) > low)
<1>1. PICK f : /\ f[0] = NoCross
               /\ \A k \in 1..Len(e) : f[k] = Cross(low, f[k - 1], e[k])
               /\ Crossed(e, low) = f[Len(e)].out
  BY CrossRuns
<1>2. Len(e) \in Nat
  BY LenProperties
<1> DEFINE T == {k \in Nat : k <= Len(e) => Swept(e, k, low, f[k])}
<1>3. 0 \in T
  <2>1. /\ NoCross \in Crossings /\ NoCross.out = <<>> /\ NoCross.z = 0
        /\ <<>> \in Seq(Int) /\ Len(<<>>) = 0
    BY DEF NoCross, Crossings
  <2>2. \A U : Hits(<<>>, U) = 0
    BY <2>1, HitsToStep DEF Hits
  <2>3. \A U : NetTo(e, 0, U) = 0
    BY HitsToStep DEF NetTo
  <2>4. Swept(e, 0, low, NoCross)
    BY <2>1, <2>2, <2>3 DEF Swept
  <2> QED BY <1>1, <2>4
<1>4. ASSUME NEW k \in Nat, k \in T PROVE k + 1 \in T
  <2> SUFFICES ASSUME k + 1 <= Len(e) PROVE Swept(e, k + 1, low, f[k + 1])
    OBVIOUS
  <2>1. k + 1 \in 1..Len(e) /\ k + 1 - 1 = k
    BY <1>2
  <2>2. Swept(e, k, low, f[k])
    BY <1>2, <1>4
  <2> HIDE DEF T
  <2>3. f[k + 1] = Cross(low, f[k], e[k + 1])
    BY <1>1, <2>1
  <2> QED BY <2>1, <2>2, <2>3, CrossSweeps
<1> DEFINE out == f[Len(e)].out
<1>5. Swept(e, Len(e), low, f[Len(e)])
  <2>1. Len(e) \in T
    <3> HIDE DEF T
    <3> QED BY <1>2, <1>3, <1>4, OneByOne
  <2> QED BY <1>2, <2>1
<1>6. Sweep(e, low) = RangeSet(out)
  BY <1>1 DEF Sweep
<1>7. /\ out \in Seq(Int)
      /\ \A U : Down(U) => (Hits(out, U) % 2 = 1 <=> Net(e, U) > low)
  BY <1>5 DEF Swept, Crossings, Net
<1> HIDE DEF out
<1> QED BY <1>6, <1>7, RangeSetItems

\* The numbers of a rising sequence that are in such a set are its first ones.
LEMMA RisingCut ==
  ASSUME NEW r \in Seq(Int), Rising(r), NEW U, Down(U)
  PROVE  /\ Hits(r, U) \in 0..Len(r)
         /\ \A i \in 1..Len(r) : r[i] \in U <=> i <= Hits(r, U)
<1> DEFINE I == {i \in 1..Len(r) : r[i] \in U}
<1>1. Len(r) \in Nat /\ I \in SUBSET (1..Len(r)) /\ \A i \in 1..Len(r) : r[i] \in Int
  BY LenProperties, ElementOfSeq
<1>2. PICK m \in 0..Len(r) : I = 1..m
  <2>1. CASE I = {}
    <3>1. I = 1..0
      BY <2>1
    <3> QED BY <1>1, <3>1
  <2>2. CASE I # {}
    <3> DEFINE m == Max(I)
    <3>1. m \in I /\ \A y \in I : m >= y
      <4> HIDE DEF I
      <4> QED BY <1>1, <2>2, MaxIn
    <3> HIDE DEF m
    <3>2. ASSUME NEW i \in 1..m PROVE i \in I
      <4>1. m \in 1..Len(r) /\ r[m] \in U /\ i \in 1..Len(r)
        BY <1>1, <3>1
      <4>2. i = m \/ r[i] < r[m]
        BY <4>1 DEF Rising
      <4>3. r[i] \in U
        BY <1>1, <4>1, <4>2 DEF Down
      <4> QED BY <4>1, <4>3
    <3>3. I \subseteq 1..m /\ m \in 0..Len(r)
      BY <1>1, <3>1
    <3> HIDE DEF I
    <3>4. I = 1..m
      BY <3>2, <3>3
    <3> QED BY <3>3, <3>4
  <2> QED BY <2>1, <2>2
<1>3. Hits(r, U) = m
  <2>1. Cardinality(1..m) = m
    BY <1>1, FS_Interval
  <2> QED BY <1>2, <2>1 DEF Hits, HitsTo
<1>4. \A i \in 1..Len(r) : r[i] \in U <=> i \in 1..m
  BY <1>2
<1> HIDE DEF I
<1> QED BY <1>1, <1>3, <1>4

\* The events of one set of ranges: one is open after an odd number of bounds.
LEMMA BoundsNet ==
  ASSUME NEW r \in Seq(Int), Rising(r), NEW f \in {-1, 1}
  PROVE  /\ Bounds(r, f) \in Seq(Steps) /\ Len(Bounds(r, f)) = Len(r)
         /\ \A U : Down(U) =>
              /\ f = 1 => Net(Bounds(r, f), U) = Hits(r, U) % 2
              /\ f = -1 => Net(Bounds(r, f), U) = -(Hits(r, U) % 2)
<1> DEFINE B == Bounds(r, f)
<1>1. Len(r) \in Nat /\ DOMAIN r = 1..Len(r) /\ \A i \in 1..Len(r) : r[i] \in Int
  BY LenProperties, ElementOfSeq
<1>2. /\ B \in Seq(Steps) /\ Len(B) = Len(r)
      /\ \A i \in 1..Len(r) : /\ B[i][1] = r[i]
                              /\ i % 2 = 1 => B[i][2] = f
                              /\ i % 2 # 1 => B[i][2] = -f
  <2>1. B = [i \in 1..Len(r) |-> <<r[i], IF i % 2 = 1 THEN f ELSE -f>>]
    BY <1>1 DEF Bounds
  <2>2. \A i \in 1..Len(r) : <<r[i], IF i % 2 = 1 THEN f ELSE -f>> \in Steps
    BY <1>1 DEF Steps
  <2> HIDE DEF B
  <2>3. B \in [1..Len(r) -> Steps]
    BY <2>1, <2>2
  <2>4. B \in Seq(Steps) /\ DOMAIN B = 1..Len(r)
    BY <1>1, <2>3, IsASeq
  <2>5. Len(B) = Len(r)
    BY <1>1, <2>4, LenProperties
  <2>6. \A i \in 1..Len(r) : B[i] = <<r[i], IF i % 2 = 1 THEN f ELSE -f>>
    BY <2>1
  <2>7. \A i \in 1..Len(r) :
          /\ B[i][1] = r[i]
          /\ i % 2 = 1 => B[i][2] = f
          /\ i % 2 # 1 => B[i][2] = -f
    BY <2>6
  <2> QED BY <2>4, <2>5, <2>7
<1> HIDE DEF B
<1>3. ASSUME NEW U, Down(U)
      PROVE  /\ f = 1 => Net(B, U) = Hits(r, U) % 2
             /\ f = -1 => Net(B, U) = -(Hits(r, U) % 2)
  <2> DEFINE Odd(k) == HitsTo(r, k, U) % 2
             Good(k) == /\ f = 1 => NetTo(B, k, U) = Odd(k)
                        /\ f = -1 => NetTo(B, k, U) = -Odd(k)
             T == {k \in Nat : k <= Len(r) => Good(k)}
  <2>1. Good(0)
    <3>1. NetTo(B, 0, U) = 0 /\ HitsTo(r, 0, U) = 0
      <4>1. \A t, P : HitsTo(t, 0, P) = 0
        BY HitsToStep
      <4>2. NetTo(B, 0, U) = 0
        BY <4>1 DEF NetTo
      <4> QED BY <4>1, <4>2
    <3>2. Odd(0) = 0
      <4>1. 0 % 2 = 0
        OBVIOUS
      <4> QED BY <3>1, <4>1, Zenon
    <3> HIDE DEF Odd
    <3> QED BY <3>1, <3>2
  <2>2. ASSUME NEW k \in Nat, k + 1 <= Len(r), Good(k) PROVE Good(k + 1)
    <3>1. k + 1 \in 1..Len(r) /\ k \in 0..Len(r)
      BY <1>1, <2>2
    <3>2. /\ NetTo(B, k, U) \in Int
          /\ r[k + 1] \in U => NetTo(B, k + 1, U) = NetTo(B, k, U) + B[k + 1][2]
          /\ r[k + 1] \notin U => NetTo(B, k + 1, U) = NetTo(B, k, U)
      <4>1. B[k + 1][1] = r[k + 1] /\ k + 1 \in 1..Len(B)
        BY <1>2, <3>1
      <4>2. /\ NetTo(B, k, U) \in Int
            /\ B[k + 1][1] \in U => NetTo(B, k + 1, U) = NetTo(B, k, U) + B[k + 1][2]
            /\ B[k + 1][1] \notin U => NetTo(B, k + 1, U) = NetTo(B, k, U)
        <5> HIDE DEF B
        <5> QED BY <1>2, <4>1, NetToStep
      <4> QED BY <4>1, <4>2
    <3>3. /\ HitsTo(r, k, U) \in Nat
          /\ r[k + 1] \in U => HitsTo(r, k + 1, U) = HitsTo(r, k, U) + 1
          /\ r[k + 1] \notin U => HitsTo(r, k + 1, U) = HitsTo(r, k, U)
      BY HitsToStep
    <3>4. CASE r[k + 1] \notin U
      <4>1. NetTo(B, k + 1, U) = NetTo(B, k, U) /\ Odd(k + 1) = Odd(k)
        BY <3>2, <3>3, <3>4, Zenon
      <4> HIDE DEF Odd
      <4> QED BY <2>2, <4>1, Zenon
    <3>5. CASE r[k + 1] \in U
      <4>1. {i \in 1..k : r[i] \in U} = 1..k
        <5>1. ASSUME NEW i \in 1..k PROVE r[i] \in U
          <6>1. i \in 1..Len(r) /\ i < k + 1
            BY <3>1
          <6>2. r[i] < r[k + 1]
            BY <3>1, <6>1 DEF Rising
          <6> QED BY <1>1, <1>3, <3>1, <3>5, <6>1, <6>2 DEF Down
        <5> QED BY <5>1
      <4>2. HitsTo(r, k, U) = k
        <5>1. Cardinality(1..k) = k
          BY FS_Interval
        <5> QED BY <4>1, <5>1, Zenon DEF HitsTo
      <4>3. Odd(k) = k % 2 /\ Odd(k + 1) = (k + 1) % 2 /\ Odd(k + 1) = 1 - Odd(k)
        BY <3>3, <3>5, <4>2, Parity
      <4>4. /\ Odd(k + 1) = 1 => B[k + 1][2] = f
            /\ Odd(k + 1) # 1 => B[k + 1][2] = -f
        BY <1>2, <3>1, <4>3
      <4>5. Odd(k) \in {0, 1}
        BY <3>3, Parity
      <4> HIDE DEF Odd
      <4>6. NetTo(B, k + 1, U) = NetTo(B, k, U) + B[k + 1][2] /\ NetTo(B, k, U) \in Int
        BY <3>2, <3>5
      <4>7. CASE f = 1
        <5>1. NetTo(B, k, U) = Odd(k) /\ 1 # -1
          BY <2>2, <4>7
        <5> QED BY <4>3, <4>4, <4>5, <4>6, <4>7, <5>1
      <4>8. CASE f = -1
        <5>1. NetTo(B, k, U) = -Odd(k) /\ 1 # -1
          BY <2>2, <4>8
        <5> QED BY <4>3, <4>4, <4>5, <4>6, <4>8, <5>1
      <4> QED BY <4>7, <4>8
    <3> QED BY <3>4, <3>5
  <2>3. Good(Len(r))
    <3> HIDE DEF Good
    <3>1. 0 \in T
      BY <2>1
    <3>2. \A k \in Nat : k \in T => k + 1 \in T
      BY <1>1, <2>2
    <3>3. Len(r) \in T
      <4> HIDE DEF T
      <4> QED BY <1>1, <3>1, <3>2, OneByOne
    <3> QED BY <1>1, <3>3
  <2> QED BY <1>2, <2>3 DEF Net, Hits
<1> QED BY <1>2, <1>3 DEF B

\* and of two, merged.
LEMMA MergedNet ==
  ASSUME NEW r \in Seq(Int), Rising(r), NEW s \in Seq(Int), Rising(s),
         NEW f \in {-1, 1}, NEW g \in {-1, 1}
  PROVE  /\ Merged(r, s, f, g) \in Seq(Steps) /\ InOrder(Merged(r, s, f, g))
         /\ \A k, l \in 1..Len(Merged(r, s, f, g)) :
              k < l /\ Merged(r, s, f, g)[k][1] = Merged(r, s, f, g)[l][1]
                => Merged(r, s, f, g)[k][2] <= Merged(r, s, f, g)[l][2]
         /\ \A U : Net(Merged(r, s, f, g), U) = Net(Bounds(r, f), U) + Net(Bounds(s, g), U)
<1> DEFINE A == Bounds(r, f)  B == Bounds(s, g)  e == MergedEvents(A \o B)
<1>1. A \in Seq(Steps) /\ B \in Seq(Steps)
  BY BoundsNet
<1>2. Merged(r, s, f, g) = e
  BY DEF Merged
<1> HIDE DEF A, B
<1>3. A \o B \in Seq(Steps) /\ Steps \subseteq Events
  BY <1>1, ConcatItems DEF Steps, Events
<1>4. /\ e \in Seq(Steps) /\ Len(e) = Len(A \o B)
      /\ \A k, l \in 1..Len(A \o B) : k < l => Before(e[k], e[l]) \/ e[k] = e[l]
      /\ \A P : Hits(e, P) = Hits(A \o B, P)
  BY <1>3, MergedItems
<1> HIDE DEF e
<1>5. InOrder(e)
  <2> SUFFICES ASSUME NEW k \in 1..Len(e), NEW l \in 1..Len(e), k < l
               PROVE  e[k][1] <= e[l][1]
    BY DEF InOrder
  <2>1. e[k] \in Steps /\ (Before(e[k], e[l]) \/ e[k] = e[l])
    BY <1>4, ElementOfSeq
  <2>2. e[k] \in Steps /\ e[l] \in Steps
    BY <1>4, ElementOfSeq
  <2> QED BY <2>1, <2>2 DEF Before, Steps
<1>6. ASSUME NEW k \in 1..Len(e), NEW l \in 1..Len(e), k < l, e[k][1] = e[l][1]
      PROVE  e[k][2] <= e[l][2]
  <2>1. Before(e[k], e[l]) \/ e[k] = e[l]
    BY <1>4, <1>6
  <2>2. e[k] \in Steps /\ e[l] \in Steps
    BY <1>4, ElementOfSeq
  <2> QED BY <1>6, <2>1, <2>2 DEF Before, Steps
<1>7. ASSUME NEW U PROVE Net(e, U) = Net(A, U) + Net(B, U)
  <2>1. \A P : Hits(e, P) = Hits(A, P) + Hits(B, P)
    BY <1>1, <1>4, HitsOfConcat
  <2>2. \A P : Hits(A, P) \in Nat /\ Hits(B, P) \in Nat
    BY <1>1, HitsNat
  <2> QED BY <2>1, <2>2 DEF Net, NetTo, Hits
<1> QED BY <1>2, <1>4, <1>5, <1>6, <1>7 DEF A, B, e

\* The one form that the operations leave a set in.
Canonical(r) == r \in Seq(Int) /\ Rising(r) /\ Len(r) % 2 = 0

UpTo(b) == {x \in Int : x <= b}

LEMMA UpToDown == ASSUME NEW b \in Int PROVE Down(UpTo(b)) /\ Down(Int)
BY DEF Down, UpTo

LEMMA CutAt ==
  ASSUME NEW r \in Seq(Int), Rising(r), NEW b \in Int
  PROVE  /\ Hits(r, UpTo(b)) \in 0..Len(r)
         /\ \A i \in 1..Len(r) : r[i] <= b <=> i <= Hits(r, UpTo(b))
<1> DEFINE n == Hits(r, UpTo(b))
<1>1. n \in 0..Len(r) /\ \A i \in 1..Len(r) : r[i] \in UpTo(b) <=> i <= n
  BY RisingCut, UpToDown
<1>2. \A i \in 1..Len(r) : r[i] \in Int
  BY ElementOfSeq
<1> HIDE DEF n
<1>3. \A i \in 1..Len(r) : r[i] <= b <=> i <= n
  BY <1>1, <1>2 DEF UpTo
<1> QED BY <1>1, <1>3 DEF n

LEMMA BlocksAreOdd ==
  ASSUME NEW r, Canonical(r)
  PROVE  /\ Blocks(r) \subseteq Int
         /\ \A b \in Int : b \in Blocks(r) <=> Hits(r, UpTo(b)) % 2 = 1
<1> DEFINE h == Len(r) \div 2
<1>1. /\ r \in Seq(Int) /\ Rising(r) /\ Len(r) \in Nat /\ Len(r) % 2 = 0
      /\ \A i \in 1..Len(r) : r[i] \in Int
  BY LenProperties, ElementOfSeq DEF Canonical
<1>2. h \in Nat /\ Len(r) = 2 * h
  BY <1>1
<1> HIDE DEF h
<1>3. ToSet(Ranges(r)) = {<<r[2 * i - 1], r[2 * i]>> : i \in 1..h}
  <2> DEFINE R == [i \in 1..h |-> <<r[2 * i - 1], r[2 * i]>>]
  <2>1. Ranges(r) = R /\ DOMAIN R = 1..h
    BY DEF Ranges, h
  <2>2. \A i \in 1..h : R[i] = <<r[2 * i - 1], r[2 * i]>>
    OBVIOUS
  <2> HIDE DEF R
  <2>3. ToSet(Ranges(r)) = {R[i] : i \in 1..h}
    BY <2>1, Zenon DEF ToSet
  <2>4. {R[i] : i \in 1..h} = {<<r[2 * i - 1], r[2 * i]>> : i \in 1..h}
    BY <2>2
  <2> QED BY <2>3, <2>4
<1>4. \A i \in 1..h : 2 * i - 1 \in 1..Len(r) /\ 2 * i \in 1..Len(r)
  BY <1>2
<1>5. \A b : b \in Blocks(r) <=> \E i \in 1..h : b \in r[2 * i - 1]..(r[2 * i] - 1)
  <2> DEFINE P(i) == <<r[2 * i - 1], r[2 * i]>>
  <2>1. \A p : p \in ToSet(Ranges(r)) <=> \E i \in 1..h : p = P(i)
    BY <1>3
  <2>2. \A i : P(i)[1] = r[2 * i - 1] /\ P(i)[2] = r[2 * i]
    OBVIOUS
  <2> HIDE DEF P
  <2>3. \A b : b \in Blocks(r) <=> \E p \in ToSet(Ranges(r)) : b \in p[1]..(p[2] - 1)
    BY DEF Blocks
  <2>4. \A b : b \in Blocks(r) <=> \E i \in 1..h : b \in P(i)[1]..(P(i)[2] - 1)
    BY <2>1, <2>3
  <2> QED BY <2>2, <2>4
<1>6. Blocks(r) \subseteq Int
  BY <1>5
<1>7. ASSUME NEW b \in Int PROVE b \in Blocks(r) <=> Hits(r, UpTo(b)) % 2 = 1
  <2> DEFINE n == Hits(r, UpTo(b))
  <2>1. n \in 0..Len(r) /\ \A i \in 1..Len(r) : r[i] \in UpTo(b) <=> i <= n
    BY <1>1, RisingCut, UpToDown
  <2> HIDE DEF n
  <2>2. \A i \in 1..Len(r) : r[i] <= b <=> i <= n
    BY <1>1, <2>1 DEF UpTo
  <2>3. ASSUME NEW i \in 1..h
        PROVE  b \in r[2 * i - 1]..(r[2 * i] - 1) <=> 2 * i - 1 <= n /\ ~(2 * i <= n)
    <3>1. r[2 * i - 1] \in Int /\ r[2 * i] \in Int
      BY <1>1, <1>4
    <3>2. (r[2 * i - 1] <= b <=> 2 * i - 1 <= n) /\ (r[2 * i] <= b <=> 2 * i <= n)
      BY <1>4, <2>2
    <3> QED BY <3>1, <3>2
  <2>4. ASSUME b \in Blocks(r) PROVE n % 2 = 1
    <3>1. PICK i \in 1..h : 2 * i - 1 <= n /\ ~(2 * i <= n)
      BY <1>5, <2>3, <2>4
    <3>2. n = 2 * i - 1
      BY <2>1, <3>1
    <3> QED BY <3>2
  <2>5. ASSUME n % 2 = 1 PROVE b \in Blocks(r)
    <3> DEFINE i == (n + 1) \div 2
    <3>1. i \in Nat /\ n = 2 * i - 1
      BY <1>1, <2>1, <2>5
    <3>2. i \in 1..h
      BY <1>2, <2>1, <3>1
    <3> HIDE DEF i
    <3> QED BY <1>5, <2>3, <3>1, <3>2
  <2> QED BY <2>4, <2>5 DEF n
<1> QED BY <1>6, <1>7

\* A sweep over two sets that leaves none open makes a set in that form.
LEMMA SweepBlocks ==
  ASSUME NEW r, Canonical(r), NEW s, Canonical(s),
         NEW f \in {-1, 1}, NEW g \in {-1, 1}, NEW low \in Nat
  PROVE  LET q == Sweep(Merged(r, s, f, g), low) IN
           /\ Canonical(q)
           /\ \A b \in Int :
                b \in Blocks(q) <=>
                  Net(Bounds(r, f), UpTo(b)) + Net(Bounds(s, g), UpTo(b)) > low
<1> DEFINE e == Merged(r, s, f, g)  q == Sweep(e, low)
<1>1. r \in Seq(Int) /\ Rising(r) /\ s \in Seq(Int) /\ Rising(s)
  BY DEF Canonical
<1>2. /\ e \in Seq(Steps) /\ InOrder(e)
      /\ \A U : Net(e, U) = Net(Bounds(r, f), U) + Net(Bounds(s, g), U)
  BY <1>1, MergedNet
<1> HIDE DEF e
<1>3. /\ q \in Seq(Int) /\ Rising(q)
      /\ \A U : Down(U) => (Hits(q, U) % 2 = 1 <=> Net(e, U) > low)
  BY <1>2, SweepItems
<1> HIDE DEF q
<1>4. Len(q) % 2 = 0
  <2>1. Hits(r, Int) % 2 = 0 /\ Hits(s, Int) % 2 = 0
    BY <1>1, HitsOfAll DEF Canonical
  <2>2. /\ f = 1 => Net(Bounds(r, f), Int) = Hits(r, Int) % 2
        /\ f = -1 => Net(Bounds(r, f), Int) = -(Hits(r, Int) % 2)
        /\ g = 1 => Net(Bounds(s, g), Int) = Hits(s, Int) % 2
        /\ g = -1 => Net(Bounds(s, g), Int) = -(Hits(s, Int) % 2)
    BY <1>1, BoundsNet, UpToDown
  <2>3. Net(Bounds(r, f), Int) = 0 /\ Net(Bounds(s, g), Int) = 0
    BY <2>1, <2>2
  <2>4. ~(Net(e, Int) > low)
    BY <1>2, <2>3
  <2>5. Hits(q, Int) % 2 # 1 /\ Hits(q, Int) = Len(q) /\ Len(q) \in Nat
    BY <1>3, <2>4, UpToDown, HitsOfAll, LenProperties
  <2> QED BY <2>5, Parity
<1>5. Canonical(q)
  BY <1>3, <1>4 DEF Canonical
<1>6. \A b \in Int : b \in Blocks(q) <=> Net(e, UpTo(b)) > low
  BY <1>3, <1>5, BlocksAreOdd, UpToDown
<1> QED BY <1>2, <1>5, <1>6 DEF q, e

\* A range of a set is open at the blocks of the set.
LEMMA OpenRanges ==
  ASSUME NEW r, Canonical(r), NEW b \in Int
  PROVE  /\ b \in Blocks(r) => /\ Net(Bounds(r, 1), UpTo(b)) = 1
                              /\ Net(Bounds(r, -1), UpTo(b)) = -1
         /\ b \notin Blocks(r) => /\ Net(Bounds(r, 1), UpTo(b)) = 0
                                 /\ Net(Bounds(r, -1), UpTo(b)) = 0
<1> DEFINE odd == Hits(r, UpTo(b)) % 2
<1>1. r \in Seq(Int) /\ Rising(r)
  BY DEF Canonical
<1>2. odd \in {0, 1} /\ (b \in Blocks(r) <=> odd = 1)
  BY <1>1, BlocksAreOdd, HitsNat, Parity
<1>3. Net(Bounds(r, 1), UpTo(b)) = odd /\ Net(Bounds(r, -1), UpTo(b)) = -odd
  BY <1>1, BoundsNet, UpToDown
<1> HIDE DEF odd
<1> QED BY <1>2, <1>3

\* What an operation computes, block by block.
LEMMA UnionBlocks ==
  ASSUME NEW r, Canonical(r), NEW s, Canonical(s)
  PROVE  Canonical(Union(r, s)) /\ Blocks(Union(r, s)) = Blocks(r) \cup Blocks(s)
<1> DEFINE q == Union(r, s)
<1>1. /\ Canonical(q) /\ Blocks(q) \subseteq Int
      /\ \A b \in Int :
           b \in Blocks(q) <=> Net(Bounds(r, 1), UpTo(b)) + Net(Bounds(s, 1), UpTo(b)) > 0
  BY SweepBlocks, BlocksAreOdd DEF Union
<1> HIDE DEF q
<1>2. Blocks(r) \subseteq Int /\ Blocks(s) \subseteq Int
  BY BlocksAreOdd
<1>3. ASSUME NEW b \in Int PROVE b \in Blocks(q) <=> b \in Blocks(r) \cup Blocks(s)
  BY <1>1, OpenRanges
<1> QED BY <1>1, <1>2, <1>3 DEF q

LEMMA IntersectBlocks ==
  ASSUME NEW r, Canonical(r), NEW s, Canonical(s)
  PROVE  Canonical(Intersect(r, s)) /\ Blocks(Intersect(r, s)) = Blocks(r) \cap Blocks(s)
<1> DEFINE q == Intersect(r, s)
<1>1. /\ Canonical(q) /\ Blocks(q) \subseteq Int
      /\ \A b \in Int :
           b \in Blocks(q) <=> Net(Bounds(r, 1), UpTo(b)) + Net(Bounds(s, 1), UpTo(b)) > 1
  BY SweepBlocks, BlocksAreOdd DEF Intersect
<1> HIDE DEF q
<1>2. Blocks(r) \subseteq Int /\ Blocks(s) \subseteq Int
  BY BlocksAreOdd
<1>3. ASSUME NEW b \in Int PROVE b \in Blocks(q) <=> b \in Blocks(r) \cap Blocks(s)
  BY <1>1, OpenRanges
<1> QED BY <1>1, <1>2, <1>3 DEF q

LEMMA SubtractBlocks ==
  ASSUME NEW r, Canonical(r), NEW s, Canonical(s)
  PROVE  Canonical(Subtract(r, s)) /\ Blocks(Subtract(r, s)) = Blocks(r) \ Blocks(s)
<1> DEFINE q == Subtract(r, s)
<1>1. /\ Canonical(q) /\ Blocks(q) \subseteq Int
      /\ \A b \in Int :
           b \in Blocks(q) <=> Net(Bounds(r, 1), UpTo(b)) + Net(Bounds(s, -1), UpTo(b)) > 0
  BY SweepBlocks, BlocksAreOdd DEF Subtract
<1> HIDE DEF q
<1>2. Blocks(r) \subseteq Int
  BY BlocksAreOdd
<1>3. ASSUME NEW b \in Int PROVE b \in Blocks(q) <=> b \in Blocks(r) \ Blocks(s)
  BY <1>1, OpenRanges
<1> QED BY <1>1, <1>2, <1>3 DEF q

\* The bounds of a set are the blocks at which it begins and those at which it ended.
LEMMA EdgesOfBlocks ==
  ASSUME NEW r, Canonical(r)
  PROVE  Edges(Blocks(r)) = {r[i] : i \in 1..Len(r)}
<1> DEFINE B == Blocks(r)  I == {r[i] : i \in 1..Len(r)}
<1>1. /\ r \in Seq(Int) /\ Rising(r) /\ Len(r) \in Nat
      /\ \A i \in 1..Len(r) : r[i] \in Int
  BY LenProperties, ElementOfSeq DEF Canonical
<1>2. B \subseteq Int /\ \A b \in Int : b \in B <=> Hits(r, UpTo(b)) % 2 = 1
  BY BlocksAreOdd
<1> HIDE DEF B
<1>3. ASSUME NEW x \in Int
      PROVE  (x \in B /\ x - 1 \notin B) \/ (x - 1 \in B /\ x \notin B) <=> x \in I
  <2> DEFINE n == Hits(r, UpTo(x))  m == Hits(r, UpTo(x - 1))
  <2>1. /\ n \in 0..Len(r) /\ \A i \in 1..Len(r) : r[i] <= x <=> i <= n
        /\ m \in 0..Len(r) /\ \A i \in 1..Len(r) : r[i] <= x - 1 <=> i <= m
    <3>1. \A b \in Int : /\ Hits(r, UpTo(b)) \in 0..Len(r)
                         /\ \A i \in 1..Len(r) : r[i] <= b <=> i <= Hits(r, UpTo(b))
      BY <1>1, CutAt
    <3>2. x - 1 \in Int
      OBVIOUS
    <3> QED BY <3>1, <3>2
  <2>2. (x \in B <=> n % 2 = 1) /\ (x - 1 \in B <=> m % 2 = 1)
    BY <1>2
  <2> HIDE DEF n, m
  <2>3. \A i \in 1..Len(r) : (r[i] <= x <=> i <= n) /\ (r[i] <= x - 1 <=> i <= m)
    BY <2>1
  <2>4. CASE x \in I
    <3>1. PICK i \in 1..Len(r) : x = r[i]
      BY <2>4
    <3>2. i <= n /\ ~(i <= m)
      BY <2>3, <3>1
    <3>3. ~(i + 1 <= n)
      <4>1. i + 1 \in 1..Len(r) => r[i] < r[i + 1]
        BY <1>1 DEF Rising
      <4> QED BY <1>1, <2>1, <2>3, <3>1, <4>1
    <3>4. i - 1 <= m
      <4> SUFFICES ASSUME ~(i - 1 <= m) PROVE FALSE
        OBVIOUS
      <4>1. i - 1 \in 1..Len(r) /\ i - 1 < i
        BY <1>1, <2>1
      <4>2. r[i - 1] < r[i]
        BY <1>1, <4>1 DEF Rising
      <4>3. r[i - 1] \in Int /\ r[i - 1] <= x - 1
        BY <1>1, <3>1, <4>1, <4>2
      <4> QED BY <2>3, <4>1, <4>3
    <3>5. n = m + 1
      BY <2>1, <3>2, <3>3, <3>4
    <3>6. m \in Nat /\ n % 2 = 1 - (m % 2) /\ m % 2 \in {0, 1}
      BY <2>1, <3>5, Parity
    <3> QED BY <2>2, <2>4, <3>6
  <2>5. CASE x \notin I
    <3>1. \A i \in 1..Len(r) : i <= n <=> i <= m
      <4>1. \A i \in 1..Len(r) : r[i] # x
        BY <2>5
      <4> QED BY <1>1, <2>3, <4>1
    <3>2. n = m
      BY <1>1, <2>1, <3>1
    <3> QED BY <2>2, <2>5, <3>2
  <2> QED BY <2>4, <2>5
<1>4. ASSUME NEW x
      PROVE  x \in Edges(B) <=> (x \in B /\ x - 1 \notin B) \/ (x \in Int /\ x - 1 \in B /\ x \notin B)
  <2>1. x \in Edges(B) <=> \/ x \in B /\ x - 1 \notin B
                          \/ \E b \in B : b + 1 \notin B /\ x = b + 1
    BY DEF Edges
  <2>2. (\E b \in B : b + 1 \notin B /\ x = b + 1) <=> x \in Int /\ x - 1 \in B /\ x \notin B
    BY <1>2
  <2> QED BY <2>1, <2>2
<1>5. \A x : x \in I => x \in Int
  BY <1>1
<1> HIDE DEF I
<1>6. \A x : x \in Edges(B) <=> x \in I
  BY <1>2, <1>3, <1>4, <1>5
<1> QED BY <1>6 DEF I, B

\* The first n numbers of a rising sequence are n numbers.
LEMMA RisingCardinality ==
  ASSUME NEW r \in Seq(Int), Rising(r), NEW n \in 0..Len(r)
  PROVE  Cardinality({r[i] : i \in 1..n}) = n
<1> DEFINE I == {r[i] : i \in 1..n}  f == [i \in 1..n |-> r[i]]
<1>1. Len(r) \in Nat /\ \A i \in 1..Len(r) : r[i] \in Int
  BY LenProperties, ElementOfSeq
<1>2. IsFiniteSet(1..n) /\ Cardinality(1..n) = n
  <2>1. n \in Nat
    BY <1>1
  <2> QED BY <2>1, FS_Interval
<1>3. \A i, j \in 1..n : f[i] = f[j] => i = j
  <2>1. \A i, j \in 1..n : i \in 1..Len(r) /\ j \in 1..Len(r)
    BY <1>1
  <2>2. \A i, j \in 1..n : i < j => r[i] < r[j]
    BY <2>1 DEF Rising
  <2> QED BY <1>1, <2>1, <2>2
<1>4. f \in [1..n -> I] /\ \A x \in I : \E i \in 1..n : f[i] = x
  OBVIOUS
<1> HIDE DEF f, I
<1>5. f \in Bijection(1..n, I)
  BY <1>3, <1>4 DEF Bijection, Injection, IsInjective, Surjection
<1>6. ExistsBijection(1..n, I)
  BY <1>5 DEF ExistsBijection
<1>7. Cardinality(1..n) = Cardinality(I)
  BY <1>2, <1>6, FS_Bijection
<1> QED BY <1>2, <1>7 DEF I

\* A sequence in that form is the sequence of its blocks.
LEMMA OfBlocksOf ==
  ASSUME NEW r, Canonical(r)
  PROVE  OfBlocks(Blocks(r)) = r
<1> DEFINE E == Edges(Blocks(r))
<1>1. /\ r \in Seq(Int) /\ Rising(r) /\ Len(r) \in Nat
      /\ \A i \in 1..Len(r) : r[i] \in Int
  BY LenProperties, ElementOfSeq DEF Canonical
<1>2. E = {r[i] : i \in 1..Len(r)}
  BY EdgesOfBlocks
<1> HIDE DEF E
<1>3. Cardinality(E) = Len(r)
  BY <1>1, <1>2, RisingCardinality
<1>4. ASSUME NEW k \in 1..Len(r) PROVE Cardinality({c \in E : c < r[k]}) = k - 1
  <2>1. \A i, j \in 1..Len(r) : i < j => r[i] < r[j]
    BY <1>1 DEF Rising
  <2>2. \A i \in 1..Len(r) : r[i] < r[k] <=> i \in 1..k - 1
    BY <1>1, <2>1
  <2>3. 1..k - 1 \subseteq 1..Len(r) /\ k - 1 \in 0..Len(r)
    BY <1>1
  <2>4. {c \in E : c < r[k]} = {r[i] : i \in 1..k - 1}
    BY <1>2, <2>2, <2>3
  <2> QED BY <1>1, <2>3, <2>4, RisingCardinality
<1>5. ASSUME NEW k \in 1..Len(r)
      PROVE  (CHOOSE b \in E : Cardinality({c \in E : c < b}) = k - 1) = r[k]
  <2>1. r[k] \in E /\ Cardinality({c \in E : c < r[k]}) = k - 1
    BY <1>2, <1>4
  <2>2. ASSUME NEW b \in E, Cardinality({c \in E : c < b}) = k - 1 PROVE b = r[k]
    <3>1. PICK j \in 1..Len(r) : b = r[j]
      BY <1>2
    <3>2. j - 1 = k - 1
      BY <1>4, <2>2, <3>1
    <3> QED BY <1>1, <3>1, <3>2
  <2> QED BY <2>1, <2>2
<1>6. OfBlocks(Blocks(r)) = [k \in 1..Len(r) |-> r[k]]
  BY <1>3, <1>5 DEF OfBlocks, E
<1>7. r = [k \in 1..Len(r) |-> r[k]]
  BY <1>1, LenProperties
<1> QED BY <1>6, <1>7

LEMMA OneRange ==
  ASSUME NEW x \in Int, NEW y \in Int, x < y
  PROVE  Canonical(<<x, y>>) /\ Blocks(<<x, y>>) = x..(y - 1)
<1> DEFINE r == <<x, y>>
<1>1. r \in Seq(Int) /\ Len(r) = 2 /\ r[1] = x /\ r[2] = y
  OBVIOUS
<1> HIDE DEF r
<1>2. Canonical(r)
  <2>1. Rising(r)
    BY <1>1 DEF Rising
  <2>2. 2 % 2 = 0
    OBVIOUS
  <2> QED BY <1>1, <2>1, <2>2 DEF Canonical
<1>3. ASSUME NEW b \in Int PROVE b \in Blocks(r) <=> b \in x..(y - 1)
  <2> DEFINE k == Hits(r, UpTo(b))
  <2>1. k \in 0..2 /\ \A i \in 1..2 : r[i] <= b <=> i <= k
    BY <1>1, <1>2, CutAt DEF Canonical
  <2>2. b \in Blocks(r) <=> k % 2 = 1
    BY <1>2, BlocksAreOdd
  <2> HIDE DEF k
  <2>3. (x <= b <=> 1 <= k) /\ (y <= b <=> 2 <= k)
    BY <1>1, <2>1
  <2>4. k % 2 = 1 <=> k = 1
    BY <2>1
  <2> QED BY <2>2, <2>1, <2>3, <2>4
<1>4. Blocks(r) \subseteq Int
  BY <1>2, BlocksAreOdd
<1>5. Blocks(r) = x..(y - 1)
  <2>1. x..(y - 1) \subseteq Int
    OBVIOUS
  <2> QED BY <1>3, <1>4, <2>1
<1> QED BY <1>2, <1>5 DEF r

\* Every bounded set of numbers has such a sequence.
LEMMA OfBlocksCanonical ==
  ASSUME NEW N \in Nat, NEW S \in SUBSET (0..N - 1)
  PROVE  Canonical(OfBlocks(S)) /\ Blocks(OfBlocks(S)) = S
<1> DEFINE Built(Q) == \E r : Canonical(r) /\ Blocks(r) = Q
           T == {n \in Nat : \A Q \in SUBSET (0..n - 1) : Built(Q)}
<1>1. 0 \in T
  <2>1. <<>> \in Seq(Int) /\ Len(<<>>) = 0
    OBVIOUS
  <2>2. Canonical(<<>>)
    <3>1. 0 % 2 = 0
      OBVIOUS
    <3> QED BY <2>1, <3>1 DEF Canonical, Rising
  <2>3. \A b \in Int : b \notin Blocks(<<>>)
    <3>1. \A b \in Int : Hits(<<>>, UpTo(b)) = 0
      BY <2>1, HitsToStep DEF Hits
    <3>2. 0 % 2 # 1
      OBVIOUS
    <3> QED BY <2>2, <3>1, <3>2, BlocksAreOdd
  <2>4. Blocks(<<>>) = {}
    BY <2>2, <2>3, BlocksAreOdd
  <2>5. Built({})
    BY <2>2, <2>4
  <2>6. \A Q \in SUBSET (0..0 - 1) : Q = {}
    OBVIOUS
  <2> HIDE DEF Built
  <2> QED BY <2>5, <2>6
<1>2. ASSUME NEW n \in Nat, n \in T PROVE n + 1 \in T
  <2> HIDE DEF Built
  <2> SUFFICES ASSUME NEW Q \in SUBSET (0..n + 1 - 1) PROVE Built(Q)
    OBVIOUS
  <2>1. Q \ {n} \in SUBSET (0..n - 1)
    OBVIOUS
  <2>2. Built(Q \ {n})
    BY <1>2, <2>1
  <2>3. CASE n \notin Q
    <3>1. Q \ {n} = Q
      BY <2>3
    <3> QED BY <2>2, <3>1
  <2>4. CASE n \in Q
    <3>1. PICK r : Canonical(r) /\ Blocks(r) = Q \ {n}
      BY <2>2 DEF Built
    <3>2. Canonical(<<n, n + 1>>) /\ Blocks(<<n, n + 1>>) = {n}
      <4>1. n \in Int /\ n + 1 \in Int /\ n < n + 1 /\ n..(n + 1 - 1) = {n}
        OBVIOUS
      <4> QED BY <4>1, OneRange
    <3>3. /\ Canonical(Union(r, <<n, n + 1>>))
          /\ Blocks(Union(r, <<n, n + 1>>)) = (Q \ {n}) \cup {n}
      BY <3>1, <3>2, UnionBlocks
    <3>4. (Q \ {n}) \cup {n} = Q
      BY <2>4
    <3> QED BY <3>3, <3>4 DEF Built
  <2> QED BY <2>3, <2>4
<1>3. Built(S)
  <2>1. N \in T
    <3> HIDE DEF T
    <3> QED BY <1>1, <1>2, OneByOne
  <2> HIDE DEF Built
  <2> QED BY <2>1
<1>4. PICK r : Canonical(r) /\ Blocks(r) = S
  BY <1>3
<1> QED BY <1>4, OfBlocksOf
\* A sum, number by number.
LEMMA TotalRuns ==
  ASSUME NEW s \in Seq(Int)
  PROVE  \E f : /\ f[0] = 0
                /\ \A k \in 1..Len(s) : f[k] = f[k - 1] + s[k]
                /\ Total(s) = f[Len(s)]
<1> DEFINE N == Len(s)
<1> DEFINE Equation(iter) == iter = [S \in SUBSET (1..N) |->
             IF S = {} THEN 0 ELSE iter[S \ {Max(S)}] + s[Max(S)]]
<1>1. N \in Nat /\ DOMAIN s = 1..N
  BY LenProperties
<1>2. \E iter : Equation(iter)
  <2> DEFINE G == [p \in Int \X (1..N) |-> p[1] + s[p[2]]]
  <2>1. G \in [Int \X (1..N) -> Int]
    BY ElementOfSeq
  <2>2. 0 \in Int
    OBVIOUS
  <2>3. PICK iter \in [SUBSET (1..N) -> Int] : Tabulates(iter, N, 0, G)
    <3> HIDE DEF G
    <3> QED BY <1>1, <2>1, <2>2, FoldTable
  <2>4. ASSUME NEW S \in SUBSET (1..N), S # {}
        PROVE  G[iter[S \ {Max(S)}], Max(S)] = iter[S \ {Max(S)}] + s[Max(S)]
    <3>1. Max(S) \in 1..N
      BY <1>1, <2>4, MaxIn
    <3>2. iter[S \ {Max(S)}] \in Int
      BY <2>3
    <3> QED BY <3>1, <3>2
  <2>5. Equation(iter)
    <3> HIDE DEF G
    <3> QED BY <2>3, <2>4 DEF Tabulates
  <2> QED BY <2>5
<1> DEFINE iter == CHOOSE iter : Equation(iter)
<1>3. Equation(iter)
  BY <1>2
<1>4. FoldLeft(LAMBDA n, x : n + x, 0, s) = iter[1..N]
  BY <1>1 DEF FoldLeft, MapThenFoldSet
<1> HIDE DEF iter
<1> DEFINE f == [k \in 0..N |-> iter[1..k]]
<1>5. f[0] = 0
  <2>1. 1..0 = {} /\ 0 \in 0..N
    BY <1>1
  <2> QED BY <1>3, <2>1
<1>6. ASSUME NEW k \in 1..N PROVE f[k] = f[k - 1] + s[k]
  <2>1. f[k] = iter[1..k] /\ f[k - 1] = iter[1..k - 1]
    BY <1>1
  <2>2. /\ 1..k \in SUBSET (1..N) /\ 1..k # {}
        /\ Max(1..k) = k /\ (1..k) \ {Max(1..k)} = 1..k - 1
    BY <1>1, PrefixFacts
  <2>3. iter[1..k] = iter[(1..k) \ {Max(1..k)}] + s[Max(1..k)]
    BY <1>3, <2>2
  <2> QED BY <2>1, <2>2, <2>3, Zenon
<1>7. f[N] = iter[1..N]
  BY <1>1
<1>8. Total(s) = f[N]
  BY <1>4, <1>7, Zenon DEF Total
<1> HIDE DEF f
<1> QED BY <1>5, <1>6, <1>8

Takes == [out : Seq(Int), left : Int]
NoTake(n) == [out |-> <<>>, left |-> n]

LEMMA TakeTyped ==
  ASSUME NEW acc \in Takes, NEW p \in Int \X Int
  PROVE  TakeRange(acc, p) \in Takes
<1>1. PICK a \in Int, b \in Int : p = <<a, b>>
  OBVIOUS
<1>2. p \in Seq(Int) /\ p[1] = a /\ p[2] = b
  BY <1>1
<1>3. acc.out \in Seq(Int) /\ acc.left \in Int
  BY DEF Takes
<1>4. <<a, a + acc.left>> \in Seq(Int)
  BY <1>3
<1>5. acc.out \o <<a, a + acc.left>> \in Seq(Int) /\ acc.out \o p \in Seq(Int)
  BY <1>2, <1>3, <1>4, ConcatProperties
<1> QED BY <1>2, <1>3, <1>5 DEF TakeRange, Takes

LEMMA TakeRuns ==
  ASSUME NEW s \in Seq(Int \X Int), NEW n \in Int
  PROVE  \E f : /\ f[0] = NoTake(n)
                /\ \A k \in 1..Len(s) : f[k] = TakeRange(f[k - 1], s[k])
                /\ Taken(s, n) = f[Len(s)].out
<1> DEFINE N == Len(s)
<1> DEFINE Equation(iter) == iter = [S \in SUBSET (1..N) |->
             IF S = {} THEN NoTake(n) ELSE TakeRange(iter[S \ {Max(S)}], s[Max(S)])]
<1>1. N \in Nat /\ DOMAIN s = 1..N
  BY LenProperties
<1>2. \E iter : Equation(iter)
  <2> DEFINE G == [p \in Takes \X (1..N) |-> TakeRange(p[1], s[p[2]])]
  <2>1. G \in [Takes \X (1..N) -> Takes]
    BY TakeTyped, ElementOfSeq
  <2>2. NoTake(n) \in Takes
    BY DEF NoTake, Takes
  <2>3. PICK iter \in [SUBSET (1..N) -> Takes] : Tabulates(iter, N, NoTake(n), G)
    <3> HIDE DEF G
    <3> QED BY <1>1, <2>1, <2>2, FoldTable
  <2>4. ASSUME NEW S \in SUBSET (1..N), S # {}
        PROVE  G[iter[S \ {Max(S)}], Max(S)] = TakeRange(iter[S \ {Max(S)}], s[Max(S)])
    <3>1. Max(S) \in 1..N
      BY <1>1, <2>4, MaxIn
    <3>2. iter[S \ {Max(S)}] \in Takes
      BY <2>3
    <3> QED BY <3>1, <3>2
  <2>5. Equation(iter)
    <3> HIDE DEF G
    <3> QED BY <2>3, <2>4 DEF Tabulates
  <2> QED BY <2>5
<1> DEFINE iter == CHOOSE iter : Equation(iter)
<1>3. Equation(iter)
  BY <1>2
<1>4. FoldLeft(LAMBDA acc, p : TakeRange(acc, p), NoTake(n), s) = iter[1..N]
  BY <1>1 DEF FoldLeft, MapThenFoldSet
<1> HIDE DEF iter
<1> DEFINE f == [k \in 0..N |-> iter[1..k]]
<1>5. f[0] = NoTake(n)
  <2>1. 1..0 = {} /\ 0 \in 0..N
    BY <1>1
  <2> QED BY <1>3, <2>1
<1>6. ASSUME NEW k \in 1..N PROVE f[k] = TakeRange(f[k - 1], s[k])
  <2>1. f[k] = iter[1..k] /\ f[k - 1] = iter[1..k - 1]
    BY <1>1
  <2>2. /\ 1..k \in SUBSET (1..N) /\ 1..k # {}
        /\ Max(1..k) = k /\ (1..k) \ {Max(1..k)} = 1..k - 1
    BY <1>1, PrefixFacts
  <2>3. iter[1..k] = TakeRange(iter[(1..k) \ {Max(1..k)}], s[Max(1..k)])
    BY <1>3, <2>2
  <2> QED BY <2>1, <2>2, <2>3, Zenon
<1>7. f[N] = iter[1..N]
  BY <1>1
<1>8. Taken(s, n) = f[N].out
  BY <1>4, <1>7, Zenon DEF Taken, NoTake
<1> HIDE DEF f
<1> QED BY <1>5, <1>6, <1>8

Marks == Int \X {-5, -1, 1, 5}
Lays == [out : Seq(Int), offset : Int, start : Int]
NoLay == [out |-> <<>>, offset |-> 0, start |-> 0]

\* What an event does: the three cases.
LEMMA LayIs ==
  ASSUME NEW acc \in Lays, NEW e \in Marks
  PROVE  /\ e[2] = -5 => Lay(acc, e) = [acc EXCEPT !.start = e[1]]
         /\ e[2] = 5 => Lay(acc, e) = [acc EXCEPT !.offset = acc.offset + e[1] - acc.start]
         /\ e[2] \in {-1, 1} =>
              Lay(acc, e) = [acc EXCEPT !.out = Append(acc.out, acc.offset + e[1] - acc.start)]
<1>1. ASSUME e[2] = -5 PROVE Lay(acc, e) = [acc EXCEPT !.start = e[1]]
  BY <1>1 DEF Lay
<1>2. ASSUME e[2] = 5
      PROVE  Lay(acc, e) = [acc EXCEPT !.offset = acc.offset + e[1] - acc.start]
  <2>1. e[2] # -5
    BY <1>2
  <2> QED BY <1>2, <2>1 DEF Lay
<1>3. ASSUME e[2] \in {-1, 1}
      PROVE  Lay(acc, e) = [acc EXCEPT !.out = Append(acc.out, acc.offset + e[1] - acc.start)]
  <2>1. e[2] # -5 /\ e[2] # 5
    BY <1>3
  <2> QED BY <2>1 DEF Lay
<1> QED BY <1>1, <1>2, <1>3

LEMMA LayTyped ==
  ASSUME NEW acc \in Lays, NEW e \in Marks
  PROVE  Lay(acc, e) \in Lays
<1>1. /\ acc.out \in Seq(Int) /\ acc.offset \in Int /\ acc.start \in Int /\ e[1] \in Int
      /\ e[2] \in {-5, -1, 1, 5}
  BY DEF Lays, Marks
<1>2. Append(acc.out, acc.offset + e[1] - acc.start) \in Seq(Int)
  BY <1>1
<1>3. CASE e[2] = -5
  <2>1. Lay(acc, e) = [acc EXCEPT !.start = e[1]]
    BY <1>3, LayIs
  <2> QED BY <1>1, <2>1 DEF Lays
<1>4. CASE e[2] = 5
  <2> DEFINE o == acc.offset + e[1] - acc.start
  <2>1. Lay(acc, e) = [acc EXCEPT !.offset = o]
    BY <1>4, LayIs
  <2>2. o \in Int
    BY <1>1
  <2> HIDE DEF o
  <2> QED BY <2>1, <2>2 DEF Lays
<1>5. CASE e[2] \in {-1, 1}
  <2> DEFINE o == Append(acc.out, acc.offset + e[1] - acc.start)
  <2>1. Lay(acc, e) = [acc EXCEPT !.out = o]
    BY <1>5, LayIs
  <2>2. o \in Seq(Int)
    BY <1>2
  <2> HIDE DEF o
  <2> QED BY <2>1, <2>2 DEF Lays
<1> QED BY <1>1, <1>3, <1>4, <1>5

LEMMA LayRuns ==
  ASSUME NEW s \in Seq(Marks)
  PROVE  \E f : /\ f[0] = NoLay
                /\ \A k \in 1..Len(s) : f[k] = Lay(f[k - 1], s[k])
                /\ Laid(s) = f[Len(s)].out
<1> DEFINE N == Len(s)
<1> DEFINE Equation(iter) == iter = [S \in SUBSET (1..N) |->
             IF S = {} THEN NoLay ELSE Lay(iter[S \ {Max(S)}], s[Max(S)])]
<1>1. N \in Nat /\ DOMAIN s = 1..N
  BY LenProperties
<1>2. \E iter : Equation(iter)
  <2> DEFINE G == [p \in Lays \X (1..N) |-> Lay(p[1], s[p[2]])]
  <2>1. G \in [Lays \X (1..N) -> Lays]
    BY LayTyped, ElementOfSeq
  <2>2. NoLay \in Lays
    BY DEF NoLay, Lays
  <2>3. PICK iter \in [SUBSET (1..N) -> Lays] : Tabulates(iter, N, NoLay, G)
    <3> HIDE DEF G
    <3> QED BY <1>1, <2>1, <2>2, FoldTable
  <2>4. ASSUME NEW S \in SUBSET (1..N), S # {}
        PROVE  G[iter[S \ {Max(S)}], Max(S)] = Lay(iter[S \ {Max(S)}], s[Max(S)])
    <3>1. Max(S) \in 1..N
      BY <1>1, <2>4, MaxIn
    <3>2. iter[S \ {Max(S)}] \in Lays
      BY <2>3
    <3> QED BY <3>1, <3>2
  <2>5. Equation(iter)
    <3> HIDE DEF G
    <3> QED BY <2>3, <2>4 DEF Tabulates
  <2> QED BY <2>5
<1> DEFINE iter == CHOOSE iter : Equation(iter)
<1>3. Equation(iter)
  BY <1>2
<1>4. FoldLeft(LAMBDA acc, e : Lay(acc, e), NoLay, s) = iter[1..N]
  BY <1>1 DEF FoldLeft, MapThenFoldSet
<1> HIDE DEF iter
<1> DEFINE f == [k \in 0..N |-> iter[1..k]]
<1>5. f[0] = NoLay
  <2>1. 1..0 = {} /\ 0 \in 0..N
    BY <1>1
  <2> QED BY <1>3, <2>1
<1>6. ASSUME NEW k \in 1..N PROVE f[k] = Lay(f[k - 1], s[k])
  <2>1. f[k] = iter[1..k] /\ f[k - 1] = iter[1..k - 1]
    BY <1>1
  <2>2. /\ 1..k \in SUBSET (1..N) /\ 1..k # {}
        /\ Max(1..k) = k /\ (1..k) \ {Max(1..k)} = 1..k - 1
    BY <1>1, PrefixFacts
  <2>3. iter[1..k] = Lay(iter[(1..k) \ {Max(1..k)}], s[Max(1..k)])
    BY <1>3, <2>2
  <2> QED BY <2>1, <2>2, <2>3, Zenon
<1>7. f[N] = iter[1..N]
  BY <1>1
<1>8. Laid(s) = f[N].out
  BY <1>4, <1>7, Zenon DEF Laid, NoLay
<1> HIDE DEF f
<1> QED BY <1>5, <1>6, <1>8
\* The ranges open after some events, counted as the loop of overlaps counts them.
LEMMA NetIsTotal ==
  ASSUME NEW e \in Seq(Steps), NEW n \in 1..Len(e)
  PROVE  Total([j \in 1..n |-> e[j][2]]) = NetTo(e, n, Int)
<1> DEFINE s == [j \in 1..n |-> e[j][2]]
<1>1. Len(e) \in Nat /\ n \in Nat /\ \A j \in 1..Len(e) : e[j] \in Steps
  BY LenProperties, ElementOfSeq
<1>2. \A j \in 1..n : j \in 1..Len(e) /\ e[j][1] \in Int /\ e[j][2] \in Int
  BY <1>1 DEF Steps
<1>3. s \in Seq(Int) /\ Len(s) = n /\ \A j \in 1..n : s[j] = e[j][2]
  <2>1. s \in [1..n -> Int] /\ \A j \in 1..n : s[j] = e[j][2]
    BY <1>2
  <2> HIDE DEF s
  <2> QED BY <1>1, <2>1
<1> HIDE DEF s
<1>4. PICK f : /\ f[0] = 0 /\ Total(s) = f[n]
               /\ \A k \in 1..n : f[k] = f[k - 1] + s[k]
  <2>1. \E f : /\ f[0] = 0
               /\ \A k \in 1..Len(s) : f[k] = f[k - 1] + s[k]
               /\ Total(s) = f[Len(s)]
    BY <1>3, TotalRuns
  <2> QED BY <1>3, <2>1
<1> DEFINE T == {k \in Nat : k <= n => f[k] = NetTo(e, k, Int)}
<1>5. 0 \in T
  <2>1. \A t, P : HitsTo(t, 0, P) = 0
    BY HitsToStep
  <2>2. NetTo(e, 0, Int) = 0
    BY <2>1 DEF NetTo
  <2> QED BY <1>4, <2>2
<1>6. ASSUME NEW k \in Nat, k \in T PROVE k + 1 \in T
  <2> SUFFICES ASSUME k + 1 <= n PROVE f[k + 1] = NetTo(e, k + 1, Int)
    OBVIOUS
  <2>1. k + 1 \in 1..n /\ k + 1 - 1 = k /\ k + 1 \in 1..Len(e) /\ k <= n
    BY <1>1
  <2>2. f[k] = NetTo(e, k, Int)
    BY <1>6, <2>1
  <2> HIDE DEF T
  <2>3. f[k + 1] = f[k] + e[k + 1][2]
    BY <1>3, <1>4, <2>1
  <2>4. NetTo(e, k + 1, Int) = NetTo(e, k, Int) + e[k + 1][2]
    BY <1>2, <2>1, NetToStep
  <2> QED BY <2>2, <2>3, <2>4
<1>7. n \in T
  <2> HIDE DEF T
  <2> QED BY <1>1, <1>5, <1>6, OneByOne
<1> QED BY <1>1, <1>4, <1>7 DEF s

\* The events at the blocks up to b are the first ones.
LEMMA OrderCut ==
  ASSUME NEW e \in Seq(Steps), InOrder(e), NEW b \in Int
  PROVE  \E m \in 0..Len(e) : /\ \A i \in 1..Len(e) : e[i][1] <= b <=> i <= m
                              /\ Net(e, UpTo(b)) = NetTo(e, m, Int)
<1> DEFINE I == {i \in 1..Len(e) : e[i][1] <= b}
<1>1. Len(e) \in Nat /\ I \in SUBSET (1..Len(e)) /\ \A i \in 1..Len(e) : e[i] \in Steps
  BY LenProperties, ElementOfSeq
<1>2. PICK m \in 0..Len(e) : I = 1..m
  <2>1. CASE I = {}
    <3>1. I = 1..0
      BY <2>1
    <3> QED BY <1>1, <3>1
  <2>2. CASE I # {}
    <3> DEFINE m == Max(I)
    <3>1. m \in I /\ \A y \in I : m >= y
      <4> HIDE DEF I
      <4> QED BY <1>1, <2>2, MaxIn
    <3> HIDE DEF m
    <3>2. ASSUME NEW i \in 1..m PROVE i \in I
      <4>1. m \in 1..Len(e) /\ e[m][1] <= b /\ i \in 1..Len(e)
        BY <1>1, <3>1
      <4>2. i = m \/ e[i][1] <= e[m][1]
        BY <4>1 DEF InOrder
      <4>3. e[i][1] \in Int /\ e[m][1] \in Int
        BY <1>1, <4>1 DEF Steps
      <4> QED BY <4>1, <4>2, <4>3
    <3>3. I \subseteq 1..m /\ m \in 0..Len(e)
      BY <1>1, <3>1
    <3> HIDE DEF I
    <3>4. I = 1..m
      BY <3>2, <3>3
    <3> QED BY <3>3, <3>4
  <2> QED BY <2>1, <2>2
<1>3. \A i \in 1..Len(e) : e[i][1] <= b <=> i <= m
  BY <1>2
<1> HIDE DEF I
<1>4. ASSUME NEW d PROVE Hits(e, UpTo(b) \X {d}) = HitsTo(e, m, Int \X {d})
  <2>1. {i \in 1..Len(e) : e[i] \in UpTo(b) \X {d}} = {i \in 1..m : e[i] \in Int \X {d}}
    BY <1>1, <1>3 DEF UpTo, Steps
  <2> QED BY <2>1 DEF Hits, HitsTo
<1>5. Net(e, UpTo(b)) = NetTo(e, m, Int)
  BY <1>4 DEF Net, NetTo, Hits
<1> QED BY <1>3, <1>5
\* More of them cannot be fewer, and where none is of P they are as many.
LEMMA HitsToGrows ==
  ASSUME NEW e, NEW k \in Nat, NEW m \in Nat, k <= m, NEW P
  PROVE  /\ HitsTo(e, k, P) <= HitsTo(e, m, P)
         /\ (\A i \in k + 1..m : e[i] \notin P) => HitsTo(e, k, P) = HitsTo(e, m, P)
<1> DEFINE A == {i \in 1..k : e[i] \in P}  B == {i \in 1..m : e[i] \in P}
<1>1. A \subseteq B /\ B \in SUBSET (1..m) /\ IsFiniteSet(1..m)
  BY FS_Interval
<1>2. (\A i \in k + 1..m : e[i] \notin P) => A = B
  OBVIOUS
<1> HIDE DEF A, B
<1>3. IsFiniteSet(B)
  BY <1>1, FS_Subset
<1>4. Cardinality(A) <= Cardinality(B)
  BY <1>1, <1>3, FS_Subset
<1> QED BY <1>2, <1>4 DEF HitsTo, A, B

LEMMA OverlapsBlocks ==
  ASSUME NEW r, Canonical(r), NEW s, Canonical(s)
  PROVE  Overlaps(r, s) <=> Blocks(r) \cap Blocks(s) # {}
<1> DEFINE e == Merged(r, s, 1, 1)
<1>1. r \in Seq(Int) /\ Rising(r) /\ s \in Seq(Int) /\ Rising(s)
  BY DEF Canonical
<1>2. /\ e \in Seq(Steps) /\ InOrder(e)
      /\ \A k, l \in 1..Len(e) : k < l /\ e[k][1] = e[l][1] => e[k][2] <= e[l][2]
      /\ \A U : Net(e, U) = Net(Bounds(r, 1), U) + Net(Bounds(s, 1), U)
  BY <1>1, MergedNet
<1>3. Overlaps(r, s) <=> \E i \in DOMAIN e : Total([j \in 1..i |-> e[j][2]]) = 2
  BY DEF Overlaps
<1> HIDE DEF e
<1>4. Len(e) \in Nat /\ DOMAIN e = 1..Len(e) /\ \A i \in 1..Len(e) : e[i] \in Steps
  BY <1>2, LenProperties, ElementOfSeq
<1>5. Overlaps(r, s) <=> \E i \in 1..Len(e) : NetTo(e, i, Int) = 2
  BY <1>2, <1>3, <1>4, NetIsTotal
<1>6. ASSUME NEW b \in Blocks(r) \cap Blocks(s) PROVE \E i \in 1..Len(e) : NetTo(e, i, Int) = 2
  <2>1. b \in Int
    BY BlocksAreOdd
  <2>2. Net(e, UpTo(b)) = 2
    BY <1>2, <2>1, OpenRanges
  <2>3. PICK m \in 0..Len(e) : Net(e, UpTo(b)) = NetTo(e, m, Int)
    BY <1>2, <2>1, OrderCut
  <2>4. m # 0
    <3>1. \A t, P : HitsTo(t, 0, P) = 0
      BY HitsToStep
    <3>2. NetTo(e, 0, Int) = 0
      BY <3>1 DEF NetTo
    <3> QED BY <2>2, <2>3, <3>2
  <2> QED BY <1>4, <2>2, <2>3, <2>4
<1>7. ASSUME Blocks(r) \cap Blocks(s) = {}
      PROVE  \A i \in 1..Len(e) : NetTo(e, i, Int) # 2
  <2>1. ASSUME NEW b \in Int PROVE Net(e, UpTo(b)) <= 1
    <3>1. b \notin Blocks(r) \/ b \notin Blocks(s)
      BY <1>7
    <3> QED BY <1>2, <3>1, OpenRanges
  <2> DEFINE T == {k \in Nat : k <= Len(e) => NetTo(e, k, Int) \in Int /\ NetTo(e, k, Int) <= 1}
  <2>2. 0 \in T
    <3>1. \A t, P : HitsTo(t, 0, P) = 0
      BY HitsToStep
    <3>2. NetTo(e, 0, Int) = 0
      BY <3>1 DEF NetTo
    <3> QED BY <3>2
  <2>3. ASSUME NEW k \in Nat, k \in T PROVE k + 1 \in T
    <3> SUFFICES ASSUME k + 1 <= Len(e)
                 PROVE  NetTo(e, k + 1, Int) \in Int /\ NetTo(e, k + 1, Int) <= 1
      OBVIOUS
    <3>1. k + 1 \in 1..Len(e) /\ k <= Len(e)
      BY <1>4
    <3>2. NetTo(e, k, Int) \in Int /\ NetTo(e, k, Int) <= 1
      BY <2>3, <3>1
    <3> HIDE DEF T
    <3> DEFINE v == e[k + 1]
    <3>3. v[1] \in Int /\ v[2] \in {-1, 1}
      BY <1>4, <3>1 DEF Steps
    <3>4. NetTo(e, k + 1, Int) = NetTo(e, k, Int) + v[2]
      BY <1>2, <3>1, <3>3, NetToStep
    <3>5. CASE v[2] = -1
      BY <3>2, <3>4, <3>5
    <3>6. CASE v[2] = 1
      <4>1. PICK m \in 0..Len(e) : /\ \A i \in 1..Len(e) : e[i][1] <= v[1] <=> i <= m
                                  /\ Net(e, UpTo(v[1])) = NetTo(e, m, Int)
        BY <1>2, <3>3, OrderCut
      <4>2. k + 1 <= m /\ m \in Nat
        BY <1>4, <3>1, <3>3, <4>1
      <4>3. ASSUME NEW i \in k + 1 + 1..m PROVE e[i] \notin Int \X {-1}
        <5>1. i \in 1..Len(e) /\ k + 1 < i /\ i <= m
          BY <1>4, <4>1, <4>2
        <5>2. e[i] \in Steps /\ e[i][1] <= v[1] /\ v[1] <= e[i][1]
          BY <1>2, <1>4, <3>1, <4>1, <5>1 DEF InOrder
        <5>3. e[i][1] = v[1]
          BY <3>3, <5>2 DEF Steps
        <5>4. v[2] <= e[i][2]
          BY <1>2, <3>1, <5>1, <5>3
        <5> QED BY <3>6, <5>4
      <4>4. /\ HitsTo(e, k + 1, Int \X {-1}) = HitsTo(e, m, Int \X {-1})
            /\ HitsTo(e, k + 1, Int \X {1}) <= HitsTo(e, m, Int \X {1})
        BY <4>2, <4>3, HitsToGrows
      <4>5. \A P : HitsTo(e, k + 1, P) \in Nat /\ HitsTo(e, m, P) \in Nat
        BY <4>2, HitsToStep
      <4>6. NetTo(e, k + 1, Int) <= NetTo(e, m, Int) /\ NetTo(e, k + 1, Int) \in Int
        BY <4>4, <4>5 DEF NetTo
      <4>7. NetTo(e, m, Int) \in Int /\ NetTo(e, m, Int) <= 1
        BY <2>1, <3>3, <4>1, <4>5 DEF NetTo
      <4> QED BY <4>6, <4>7
    <3> QED BY <3>3, <3>5, <3>6
  <2>4. Nat \subseteq T
    <3> HIDE DEF T
    <3> QED BY <2>2, <2>3, OneByOne
  <2> QED BY <1>4, <2>4
<1> QED BY <1>5, <1>6, <1>7
\* The blocks of the first k ranges.
BlocksTo(r, k) == {b \in Int : \E i \in 1..k : r[2 * i - 1] <= b /\ b < r[2 * i]}

Half(r) == Len(r) \div 2

\* The ranges of a set follow each other.
LEMMA RangesRise ==
  ASSUME NEW r, Canonical(r)
  PROVE  /\ Half(r) \in Nat
         /\ \A i \in 1..Half(r) : /\ r[2 * i - 1] \in Int /\ r[2 * i] \in Int
                                 /\ r[2 * i - 1] < r[2 * i]
         /\ \A i, j \in 1..Half(r) : i < j => r[2 * i] < r[2 * j - 1]
<1> DEFINE h == Half(r)
<1>1. /\ r \in Seq(Int) /\ Rising(r) /\ Len(r) \in Nat /\ Len(r) % 2 = 0
      /\ \A i \in 1..Len(r) : r[i] \in Int
  BY LenProperties, ElementOfSeq DEF Canonical
<1>2. h \in Nat /\ Len(r) = 2 * h
  BY <1>1 DEF Half
<1> HIDE DEF h
<1>3. \A i \in 1..h : 2 * i - 1 \in 1..Len(r) /\ 2 * i \in 1..Len(r) /\ 2 * i - 1 < 2 * i
  BY <1>2
<1>4. \A i, j \in 1..h : i < j => 2 * i < 2 * j - 1
  BY <1>2
<1>5. \A i, j \in 1..Len(r) : i < j => r[i] < r[j]
  BY <1>1 DEF Rising
<1>6. \A i \in 1..h : r[2 * i - 1] \in Int /\ r[2 * i] \in Int /\ r[2 * i - 1] < r[2 * i]
  BY <1>1, <1>3, <1>5
<1>7. \A i, j \in 1..h : i < j => r[2 * i] < r[2 * j - 1]
  BY <1>3, <1>4, <1>5
<1> QED BY <1>2, <1>6, <1>7 DEF h

LEMMA BlocksToAll ==
  ASSUME NEW r, Canonical(r)
  PROVE  Blocks(r) = BlocksTo(r, Half(r))
<1> DEFINE h == Half(r)
<1>1. h \in Nat /\ \A i \in 1..h : r[2 * i - 1] \in Int /\ r[2 * i] \in Int
  BY RangesRise
<1>2. Ranges(r) = [i \in 1..h |-> <<r[2 * i - 1], r[2 * i]>>]
  BY DEF Ranges, Half
<1> HIDE DEF h
<1>3. \A p : p \in ToSet(Ranges(r)) <=> \E i \in 1..h : p = <<r[2 * i - 1], r[2 * i]>>
  <2> DEFINE R == [i \in 1..h |-> <<r[2 * i - 1], r[2 * i]>>]
  <2>1. DOMAIN R = 1..h /\ \A i \in 1..h : R[i] = <<r[2 * i - 1], r[2 * i]>>
    OBVIOUS
  <2> HIDE DEF R
  <2>2. ToSet(R) = {R[i] : i \in 1..h}
    BY <2>1, Zenon DEF ToSet
  <2>3. ToSet(Ranges(r)) = {R[i] : i \in 1..h}
    BY <1>2, <2>2 DEF R
  <2> QED BY <2>1, <2>3
<1> DEFINE P(i) == <<r[2 * i - 1], r[2 * i]>>
<1>4. \A p : p \in ToSet(Ranges(r)) <=> \E i \in 1..h : p = P(i)
  BY <1>3
<1>5. \A i : P(i)[1] = r[2 * i - 1] /\ P(i)[2] = r[2 * i]
  OBVIOUS
<1> HIDE DEF P
<1>6. \A b : b \in Blocks(r) <=> \E p \in ToSet(Ranges(r)) : b \in p[1]..(p[2] - 1)
  BY DEF Blocks
<1>7. \A b : b \in Blocks(r) <=> \E i \in 1..h : b \in P(i)[1]..(P(i)[2] - 1)
  BY <1>4, <1>6
<1>8. ASSUME NEW b, NEW i \in 1..h
      PROVE  b \in P(i)[1]..(P(i)[2] - 1) <=> b \in Int /\ r[2 * i - 1] <= b /\ b < r[2 * i]
  BY <1>1, <1>5
<1>9. \A b : b \in Blocks(r) <=> b \in BlocksTo(r, h)
  BY <1>7, <1>8 DEF BlocksTo
<1> QED BY <1>9 DEF h

\* Blocks that follow a finite set of them.
LEMMA Adjoin ==
  ASSUME NEW A \in SUBSET Int, IsFiniteSet(A), NEW a \in Int, NEW b \in Int, a <= b,
         \A c \in A : c < a
  PROVE  /\ IsFiniteSet(A \cup a..(b - 1))
         /\ Cardinality(A \cup a..(b - 1)) = Cardinality(A) + (b - a)
<1> DEFINE I == a..(b - 1)
<1>1. IsFiniteSet(I) /\ Cardinality(I) = b - a
  <2>1. b - 1 \in Int
    OBVIOUS
  <2>2. IsFiniteSet(I) /\ Cardinality(I) = IF a > b - 1 THEN 0 ELSE b - 1 - a + 1
    BY <2>1, FS_Interval
  <2> HIDE DEF I
  <2> QED BY <2>2
<1>2. A \cap I = {}
  OBVIOUS
<1> HIDE DEF I
<1>3. Cardinality(A \cap I) = 0 /\ Cardinality(A) \in Nat
  BY <1>2, FS_EmptySet, FS_CardinalityType
<1>4. /\ IsFiniteSet(A \cup I)
      /\ Cardinality(A \cup I) = Cardinality(A) + Cardinality(I) - Cardinality(A \cap I)
  BY <1>1, FS_Union
<1>5. Cardinality(A \cup I) = Cardinality(A) + (b - a)
  BY <1>1, <1>3, <1>4
<1> QED BY <1>4, <1>5 DEF I

LEMMA BlocksToStep ==
  ASSUME NEW r, Canonical(r), NEW k \in Nat, k + 1 <= Half(r)
  PROVE  /\ \A b \in BlocksTo(r, k) : b < r[2 * (k + 1) - 1]
         /\ BlocksTo(r, k + 1) = BlocksTo(r, k)
                                   \cup r[2 * (k + 1) - 1]..(r[2 * (k + 1)] - 1)
<1> DEFINE h == Half(r)  lo(i) == r[2 * i - 1]  hi(i) == r[2 * i]
<1>1. /\ h \in Nat
      /\ \A i \in 1..h : lo(i) \in Int /\ hi(i) \in Int /\ lo(i) < hi(i)
      /\ \A i, j \in 1..h : i < j => hi(i) < lo(j)
  BY RangesRise
<1>2. \A n, b : b \in BlocksTo(r, n) <=> b \in Int /\ \E i \in 1..n : lo(i) <= b /\ b < hi(i)
  BY DEF BlocksTo
<1>3. k + 1 \in 1..h /\ \A i \in 1..k : i \in 1..h /\ i < k + 1
  BY <1>1
<1> HIDE DEF h, lo, hi
<1>4. ASSUME NEW b \in BlocksTo(r, k) PROVE b < lo(k + 1)
  <2>1. PICK i \in 1..k : lo(i) <= b /\ b < hi(i) /\ b \in Int
    BY <1>2
  <2> QED BY <1>1, <1>3, <2>1
<1>5. ASSUME NEW b
      PROVE  b \in BlocksTo(r, k + 1) <=> b \in BlocksTo(r, k) \/ b \in lo(k + 1)..(hi(k + 1) - 1)
  <2>1. b \in lo(k + 1)..(hi(k + 1) - 1) <=> b \in Int /\ lo(k + 1) <= b /\ b < hi(k + 1)
    BY <1>1, <1>3
  <2>2. \A i : i \in 1..k + 1 <=> i \in 1..k \/ i = k + 1
    OBVIOUS
  <2> QED BY <1>2, <2>1, <2>2
<1> QED BY <1>4, <1>5 DEF lo, hi

\* They are as many as their lengths come to,
LEMMA BlocksToCount ==
  ASSUME NEW r, Canonical(r), NEW n \in 0..Half(r)
  PROVE  /\ BlocksTo(r, n) \subseteq Int /\ IsFiniteSet(BlocksTo(r, n))
         /\ Cardinality(BlocksTo(r, n)) \in Nat
         /\ n + 1 <= Half(r) => Cardinality(BlocksTo(r, n + 1))
              = Cardinality(BlocksTo(r, n)) + (r[2 * (n + 1)] - r[2 * (n + 1) - 1])
<1> DEFINE h == Half(r)  Fin(k) == IsFiniteSet(BlocksTo(r, k))
           T == {k \in Nat : k <= h => Fin(k)}
<1>1. /\ h \in Nat
      /\ \A i \in 1..h : /\ r[2 * i - 1] \in Int /\ r[2 * i] \in Int
                        /\ r[2 * i - 1] < r[2 * i]
  BY RangesRise
<1>2. \A k : BlocksTo(r, k) \subseteq Int
  BY DEF BlocksTo
<1>3. ASSUME NEW k \in Nat, k + 1 <= h, Fin(k)
      PROVE  /\ Fin(k + 1)
             /\ Cardinality(BlocksTo(r, k + 1))
                  = Cardinality(BlocksTo(r, k)) + (r[2 * (k + 1)] - r[2 * (k + 1) - 1])
  <2> DEFINE A == BlocksTo(r, k)  a == r[2 * (k + 1) - 1]  b == r[2 * (k + 1)]
  <2>1. a \in Int /\ b \in Int /\ a <= b
    BY <1>1, <1>3
  <2>2. (\A c \in A : c < a) /\ BlocksTo(r, k + 1) = A \cup a..(b - 1)
    BY <1>3, BlocksToStep
  <2>3. A \in SUBSET Int /\ IsFiniteSet(A)
    BY <1>2, <1>3
  <2> HIDE DEF A, a, b
  <2>4. /\ IsFiniteSet(A \cup a..(b - 1))
        /\ Cardinality(A \cup a..(b - 1)) = Cardinality(A) + (b - a)
    BY <2>1, <2>2, <2>3, Adjoin
  <2> QED BY <2>2, <2>4 DEF A, a, b
<1>4. 0 \in T
  <2>1. BlocksTo(r, 0) = {}
    BY DEF BlocksTo
  <2> QED BY <2>1, FS_EmptySet
<1>5. ASSUME NEW k \in Nat, k \in T PROVE k + 1 \in T
  <2> HIDE DEF Fin
  <2>1. k + 1 <= h => Fin(k)
    BY <1>1, <1>5
  <2> QED BY <1>3, <2>1
<1>6. n \in T /\ n \in Nat /\ n <= h
  <2> HIDE DEF T
  <2>1. Nat \subseteq T
    BY <1>4, <1>5, OneByOne
  <2> QED BY <1>1, <2>1
<1>7. Fin(n)
  <2> HIDE DEF Fin
  <2> QED BY <1>6
<1>8. Cardinality(BlocksTo(r, n)) \in Nat
  BY <1>7, FS_CardinalityType
<1> QED BY <1>2, <1>3, <1>6, <1>7, <1>8

\* and Size counts them.
LEMMA SizeCounts ==
  ASSUME NEW r, Canonical(r)
  PROVE  Size(r) = Cardinality(Blocks(r))
<1> DEFINE h == Half(r)
           s == [i \in DOMAIN Ranges(r) |-> Ranges(r)[i][2] - Ranges(r)[i][1]]
<1>1. /\ h \in Nat
      /\ \A i \in 1..h : r[2 * i - 1] \in Int /\ r[2 * i] \in Int
  BY RangesRise
<1>2. s = [i \in 1..h |-> r[2 * i] - r[2 * i - 1]]
  BY DEF Ranges, Half
<1> HIDE DEF h, s
<1>3. s \in Seq(Int) /\ Len(s) = h /\ \A i \in 1..h : s[i] = r[2 * i] - r[2 * i - 1]
  <2>1. s \in [1..h -> Int] /\ \A i \in 1..h : s[i] = r[2 * i] - r[2 * i - 1]
    BY <1>1, <1>2
  <2> QED BY <1>1, <2>1
<1>4. Size(r) = Total(s)
  BY DEF Size, s
<1>5. PICK f : /\ f[0] = 0 /\ Total(s) = f[h]
               /\ \A k \in 1..h : f[k] = f[k - 1] + s[k]
  BY <1>3, TotalRuns
<1> DEFINE C(k) == Cardinality(BlocksTo(r, k))
           T == {k \in Nat : k <= h => f[k] = C(k)}
<1>6. 0 \in T
  <2>1. BlocksTo(r, 0) = {}
    BY DEF BlocksTo
  <2> QED BY <1>5, <2>1, FS_EmptySet
<1>7. ASSUME NEW k \in Nat, k \in T PROVE k + 1 \in T
  <2> HIDE DEF C
  <2> SUFFICES ASSUME k + 1 <= h PROVE f[k + 1] = C(k + 1)
    OBVIOUS
  <2>1. k + 1 \in 1..h /\ k + 1 - 1 = k /\ k <= h /\ k \in 0..h
    BY <1>1
  <2>2. f[k] = C(k)
    BY <1>7, <2>1
  <2>3. C(k + 1) = C(k) + (r[2 * (k + 1)] - r[2 * (k + 1) - 1])
    BY <2>1, BlocksToCount DEF C, h
  <2>4. f[k + 1] = f[k] + s[k + 1] /\ s[k + 1] = r[2 * (k + 1)] - r[2 * (k + 1) - 1]
    BY <1>3, <1>5, <2>1
  <2> QED BY <2>2, <2>3, <2>4
<1>8. f[h] = C(h)
  <2> HIDE DEF C
  <2>1. h \in T
    <3> HIDE DEF T
    <3> QED BY <1>1, <1>6, <1>7, OneByOne
  <2> QED BY <1>1, <2>1
<1> QED BY <1>4, <1>5, <1>8, BlocksToAll DEF h, C

\* The place of a block in the set, counted from its range,
LEMMA PlaceInRange ==
  ASSUME NEW r, Canonical(r), NEW k \in Nat, k + 1 <= Half(r), NEW b \in Int,
         r[2 * (k + 1) - 1] <= b, b <= r[2 * (k + 1)]
  PROVE  Place(Blocks(r), b) = Cardinality(BlocksTo(r, k)) + (b - r[2 * (k + 1) - 1])
<1> DEFINE h == Half(r)  lo(i) == r[2 * i - 1]  hi(i) == r[2 * i]  A == BlocksTo(r, k)
<1>1. /\ h \in Nat
      /\ \A i \in 1..h : lo(i) \in Int /\ hi(i) \in Int /\ lo(i) < hi(i)
      /\ \A i, j \in 1..h : i < j => hi(i) < lo(j)
  BY RangesRise
<1>2. \A n, c : c \in BlocksTo(r, n) <=> c \in Int /\ \E i \in 1..n : lo(i) <= c /\ c < hi(i)
  BY DEF BlocksTo
<1>3. k + 1 \in 1..h /\ k \in 0..h /\ \A i \in 1..k : i \in 1..h
  BY <1>1
<1>4. \A c \in A : c < lo(k + 1)
  BY BlocksToStep
<1>5. lo(k + 1) <= b /\ b <= hi(k + 1)
  OBVIOUS
<1>6. A \in SUBSET Int /\ IsFiniteSet(A)
  BY <1>3, BlocksToCount
<1> HIDE DEF h, lo, hi, A
<1>7. ASSUME NEW c
      PROVE  c \in {x \in BlocksTo(r, h) : x < b} <=> c \in A \cup lo(k + 1)..(b - 1)
  <2>1. ASSUME c \in BlocksTo(r, h), c < b PROVE c \in A \cup lo(k + 1)..(b - 1)
    <3>1. PICK i \in 1..h : lo(i) <= c /\ c < hi(i) /\ c \in Int
      BY <1>2, <2>1
    <3>2. ~(k + 1 < i)
      BY <1>1, <1>3, <1>5, <2>1, <3>1
    <3>3. CASE i = k + 1
      BY <1>1, <1>3, <2>1, <3>1, <3>3
    <3>4. CASE i \in 1..k
      BY <1>2, <3>1, <3>4 DEF A
    <3> QED BY <1>1, <3>1, <3>2, <3>3, <3>4
  <2>2. ASSUME c \in A PROVE c \in BlocksTo(r, h) /\ c < b
    <3>1. PICK i \in 1..k : lo(i) <= c /\ c < hi(i) /\ c \in Int
      BY <1>2, <2>2 DEF A
    <3>2. c < lo(k + 1)
      BY <1>4, <2>2
    <3> QED BY <1>1, <1>2, <1>3, <1>5, <3>1, <3>2
  <2>3. ASSUME c \in lo(k + 1)..(b - 1) PROVE c \in BlocksTo(r, h) /\ c < b
    <3>1. c \in Int /\ lo(k + 1) <= c /\ c < b /\ c < hi(k + 1)
      BY <1>1, <1>3, <1>5, <2>3
    <3> QED BY <1>2, <1>3, <3>1
  <2> QED BY <2>1, <2>2, <2>3
<1>8. {x \in BlocksTo(r, h) : x < b} = A \cup lo(k + 1)..(b - 1)
  BY <1>7
<1>9. Cardinality(A \cup lo(k + 1)..(b - 1)) = Cardinality(A) + (b - lo(k + 1))
  BY <1>1, <1>3, <1>4, <1>5, <1>6, Adjoin
<1>10. Blocks(r) = BlocksTo(r, h)
  BY BlocksToAll DEF h
<1> QED BY <1>8, <1>9, <1>10 DEF Place, A, lo
LEMMA ParitySum ==
  ASSUME NEW a \in Nat, NEW b \in Nat
  PROVE  /\ (a + b) % 2 = 1 <=> (a % 2 = 1 /\ b % 2 # 1) \/ (a % 2 # 1 /\ b % 2 = 1)
         /\ a % 2 = 0 /\ b % 2 = 0 => (a + b) % 2 = 0
OBVIOUS

\* A range more: its blocks change sides.
LEMMA RangeMore ==
  ASSUME NEW out \in Seq(Int), NEW x \in Int, NEW y \in Int, x < y
  PROVE  /\ out \o <<x, y>> \in Seq(Int)
         /\ Hits(out, Int) % 2 = 0 => Hits(out \o <<x, y>>, Int) % 2 = 0
         /\ \A b \in Int :
              Hits(out \o <<x, y>>, UpTo(b)) % 2 = 1 <=>
                \/ Hits(out, UpTo(b)) % 2 = 1 /\ ~(x <= b /\ b < y)
                \/ Hits(out, UpTo(b)) % 2 # 1 /\ x <= b /\ b < y
<1> DEFINE q == <<x, y>>
<1>1. q \in Seq(Int) /\ Len(q) = 2 /\ Canonical(q) /\ Blocks(q) = x..(y - 1)
  BY OneRange
<1> HIDE DEF q
<1>2. \A P : /\ Hits(out \o q, P) = Hits(out, P) + Hits(q, P)
             /\ Hits(out, P) \in Nat /\ Hits(q, P) \in Nat
  BY <1>1, HitsOfConcat, HitsNat
<1>3. Hits(q, Int) % 2 = 0
  <2>1. Hits(q, Int) = 2
    BY <1>1, HitsOfAll
  <2>2. 2 % 2 = 0
    OBVIOUS
  <2> QED BY <2>1, <2>2, Zenon
<1>4. ASSUME NEW b \in Int PROVE Hits(q, UpTo(b)) % 2 = 1 <=> x <= b /\ b < y
  <2>1. Hits(q, UpTo(b)) % 2 = 1 <=> b \in x..(y - 1)
    BY <1>1, BlocksAreOdd
  <2> QED BY <2>1
<1>5. Hits(out, Int) % 2 = 0 => Hits(out \o q, Int) % 2 = 0
  BY <1>2, <1>3, ParitySum
<1>6. ASSUME NEW b \in Int
      PROVE  Hits(out \o q, UpTo(b)) % 2 = 1 <=>
               \/ Hits(out, UpTo(b)) % 2 = 1 /\ ~(x <= b /\ b < y)
               \/ Hits(out, UpTo(b)) % 2 # 1 /\ x <= b /\ b < y
  <2> DEFINE A == Hits(out, UpTo(b))  B == Hits(q, UpTo(b))
  <2>1. A \in Nat /\ B \in Nat /\ Hits(out \o q, UpTo(b)) = A + B
    BY <1>2
  <2>2. B % 2 = 1 <=> x <= b /\ b < y
    BY <1>4
  <2> HIDE DEF A, B
  <2>3. (A + B) % 2 = 1 <=> (A % 2 = 1 /\ B % 2 # 1) \/ (A % 2 # 1 /\ B % 2 = 1)
    BY <2>1, ParitySum
  <2>4. Hits(out \o q, UpTo(b)) % 2 = 1 <=> (A + B) % 2 = 1
    BY <2>1
  <2>5. Hits(out \o q, UpTo(b)) % 2 = 1 <=> \/ A % 2 = 1 /\ ~(x <= b /\ b < y)
                                            \/ A % 2 # 1 /\ x <= b /\ b < y
    BY <2>2, <2>3, <2>4
  <2> QED BY <2>5 DEF A
<1>7. out \o q \in Seq(Int)
  BY <1>1, ConcatProperties
<1> QED BY <1>5, <1>6, <1>7 DEF q

\* What the loop of first has taken after k ranges.
TakenTo(r, n, k, acc) ==
  /\ acc \in Takes
  /\ Cardinality(BlocksTo(r, k)) >= n => acc.left = 0
  /\ Cardinality(BlocksTo(r, k)) < n => acc.left = n - Cardinality(BlocksTo(r, k))
  /\ Hits(acc.out, Int) % 2 = 0
  /\ \A b \in Int : Hits(acc.out, UpTo(b)) % 2 = 1 <=>
                       b \in BlocksTo(r, k) /\ Place(Blocks(r), b) < n

LEMMA TakeTakes ==
  ASSUME NEW r, Canonical(r), NEW n \in Nat, NEW k \in Nat, k + 1 <= Half(r),
         NEW acc, TakenTo(r, n, k, acc)
  PROVE  TakenTo(r, n, k + 1, TakeRange(acc, <<r[2 * (k + 1) - 1], r[2 * (k + 1)]>>))
<1> DEFINE lo == r[2 * (k + 1) - 1]  hi == r[2 * (k + 1)]  p == <<lo, hi>>
           C == Cardinality(BlocksTo(r, k))  D == Cardinality(BlocksTo(r, k + 1))
           next == TakeRange(acc, p)
<1>1. lo \in Int /\ hi \in Int /\ lo < hi /\ k \in 0..Half(r)
  BY RangesRise
<1>2. C \in Nat /\ D = C + (hi - lo)
  BY <1>1, BlocksToCount
<1>3. /\ \A b \in BlocksTo(r, k) : b < lo
      /\ \A b \in Int : b \in BlocksTo(r, k + 1) <=> b \in BlocksTo(r, k) \/ (lo <= b /\ b < hi)
  <2>1. /\ \A b \in BlocksTo(r, k) : b < lo
        /\ BlocksTo(r, k + 1) = BlocksTo(r, k) \cup lo..(hi - 1)
    BY BlocksToStep
  <2> HIDE DEF lo, hi
  <2> QED BY <1>1, <2>1
<1>4. \A b \in Int : lo <= b /\ b < hi => Place(Blocks(r), b) = C + (b - lo)
  BY <1>1, PlaceInRange
<1>5. /\ acc.out \in Seq(Int) /\ acc.left \in Int /\ acc \in Takes
      /\ C >= n => acc.left = 0
      /\ C < n => acc.left = n - C
      /\ Hits(acc.out, Int) % 2 = 0
      /\ \A b \in Int : Hits(acc.out, UpTo(b)) % 2 = 1 <=>
                           b \in BlocksTo(r, k) /\ Place(Blocks(r), b) < n
  BY DEF TakenTo, Takes
<1>6. p[1] = lo /\ p[2] = hi
  OBVIOUS
<1>7. /\ acc.left = 0 => next = acc
      /\ acc.left # 0 /\ hi - lo >= acc.left =>
           next = [out |-> acc.out \o <<lo, lo + acc.left>>, left |-> 0]
      /\ acc.left # 0 /\ ~(hi - lo >= acc.left) =>
           next = [out |-> acc.out \o <<lo, hi>>, left |-> acc.left - (hi - lo)]
  BY <1>6 DEF TakeRange
<1> HIDE DEF next, p, lo, hi
<1>8. ASSUME C >= n PROVE TakenTo(r, n, k + 1, next)
  <2>1. next = acc /\ D >= n
    BY <1>1, <1>2, <1>5, <1>7, <1>8
  <2>2. ASSUME NEW b \in Int
        PROVE  Hits(next.out, UpTo(b)) % 2 = 1 <=>
                 b \in BlocksTo(r, k + 1) /\ Place(Blocks(r), b) < n
    <3>1. lo <= b /\ b < hi => ~(Place(Blocks(r), b) < n)
      <4> HIDE DEF C
      <4> QED BY <1>1, <1>2, <1>4, <1>8
    <3> QED BY <1>3, <1>5, <2>1, <3>1
  <2>3. D \in Int /\ ~(D < n)
    <3> HIDE DEF C, D
    <3> QED BY <1>1, <1>2, <2>1
  <2>4. next.left = 0 /\ next \in Takes /\ Hits(next.out, Int) % 2 = 0
    BY <1>5, <1>8, <2>1
  <2> QED BY <2>2, <2>3, <2>4 DEF TakenTo
<1>9. ASSUME C < n, NEW left \in Nat \ {0}, left <= hi - lo,
             next.out = acc.out \o <<lo, lo + left>>, next.left \in Int,
             next = [out |-> next.out, left |-> next.left],
             \A i \in 0..(hi - lo - 1) : C + i < n <=> i < left,
             D >= n => next.left = 0, D < n => next.left = n - D
      PROVE  TakenTo(r, n, k + 1, next)
  <2>1. lo + left \in Int /\ lo < lo + left
    BY <1>1
  <2>2. /\ next.out \in Seq(Int) /\ Hits(next.out, Int) % 2 = 0
        /\ \A b \in Int :
             Hits(next.out, UpTo(b)) % 2 = 1 <=>
               \/ Hits(acc.out, UpTo(b)) % 2 = 1 /\ ~(lo <= b /\ b < lo + left)
               \/ Hits(acc.out, UpTo(b)) % 2 # 1 /\ lo <= b /\ b < lo + left
    <3> DEFINE y == lo + left
    <3>1. lo \in Int /\ y \in Int /\ lo < y /\ acc.out \in Seq(Int) /\ Hits(acc.out, Int) % 2 = 0
      BY <1>1, <1>5, <2>1
    <3>2. next.out = acc.out \o <<lo, y>>
      BY <1>9
    <3> HIDE DEF y
    <3>3. /\ acc.out \o <<lo, y>> \in Seq(Int) /\ Hits(acc.out \o <<lo, y>>, Int) % 2 = 0
          /\ \A b \in Int :
               Hits(acc.out \o <<lo, y>>, UpTo(b)) % 2 = 1 <=>
                 \/ Hits(acc.out, UpTo(b)) % 2 = 1 /\ ~(lo <= b /\ b < y)
                 \/ Hits(acc.out, UpTo(b)) % 2 # 1 /\ lo <= b /\ b < y
      BY <3>1, RangeMore
    <3> QED BY <3>2, <3>3 DEF y
  <2>3. ASSUME NEW b \in Int
        PROVE  Hits(next.out, UpTo(b)) % 2 = 1 <=>
                 b \in BlocksTo(r, k + 1) /\ Place(Blocks(r), b) < n
    <3>1. lo <= b /\ b < hi => (Place(Blocks(r), b) < n <=> b < lo + left)
      <4> HIDE DEF C
      <4>1. lo <= b /\ b < hi => b - lo \in 0..(hi - lo - 1)
        BY <1>1
      <4>2. lo <= b /\ b < hi => (C + (b - lo) < n <=> b - lo < left)
        BY <1>9, <4>1
      <4> QED BY <1>1, <1>4, <4>2
    <3>2. b < lo + left /\ lo <= b => b < hi
      BY <1>1, <1>9
    <3>3. b \in BlocksTo(r, k) => ~(lo <= b)
      BY <1>1, <1>3
    <3> QED BY <1>3, <1>5, <2>2, <3>1, <3>2, <3>3
  <2>4. next \in Takes
    BY <1>9, <2>2 DEF Takes
  <2> HIDE DEF C, D
  <2> QED BY <1>9, <2>2, <2>3, <2>4 DEF TakenTo, D
<1>10. ASSUME C < n, hi - lo >= acc.left PROVE TakenTo(r, n, k + 1, next)
  <2> HIDE DEF C, D
  <2>1. acc.left = n - C /\ acc.left \in Nat \ {0}
    BY <1>2, <1>5, <1>10
  <2>2. next = [out |-> acc.out \o <<lo, lo + acc.left>>, left |-> 0]
    BY <1>7, <1>10, <2>1
  <2>3. /\ next.out = acc.out \o <<lo, lo + acc.left>> /\ next.left = 0
        /\ next = [out |-> next.out, left |-> next.left]
    BY <2>2
  <2>4. D >= n /\ \A i \in 0..(hi - lo - 1) : C + i < n <=> i < acc.left
    BY <1>1, <1>2, <1>10, <2>1
  <2>5. /\ C < n /\ acc.left <= hi - lo /\ next.left \in Int
        /\ D >= n => next.left = 0
        /\ D < n => next.left = n - D
    BY <1>1, <1>2, <1>10, <2>1, <2>3, <2>4
  <2> QED BY <1>9, <2>1, <2>3, <2>4, <2>5, Zenon
<1>11. ASSUME C < n, ~(hi - lo >= acc.left) PROVE TakenTo(r, n, k + 1, next)
  <2> HIDE DEF C, D
  <2> DEFINE left == hi - lo
  <2>1. acc.left = n - C /\ acc.left # 0 /\ left \in Nat \ {0} /\ lo + left = hi
    BY <1>1, <1>2, <1>5, <1>11
  <2>2. next = [out |-> acc.out \o <<lo, hi>>, left |-> acc.left - (hi - lo)]
    BY <1>7, <1>11, <2>1
  <2>3. /\ next.out = acc.out \o <<lo, lo + left>> /\ next.left = n - D /\ next.left \in Int
        /\ next = [out |-> next.out, left |-> next.left]
    BY <1>1, <1>2, <2>1, <2>2
  <2>4. D < n /\ \A i \in 0..(hi - lo - 1) : C + i < n <=> i < left
    BY <1>1, <1>2, <1>11, <2>1
  <2>5. /\ C < n /\ left <= hi - lo
        /\ D >= n => next.left = 0
        /\ D < n => next.left = n - D
    BY <1>1, <1>2, <1>11, <2>3, <2>4
  <2> HIDE DEF left
  <2> QED BY <1>9, <2>1, <2>3, <2>4, <2>5, Zenon
<1>12. C >= n \/ C < n
  <2> HIDE DEF C
  <2> QED BY <1>2
<1> HIDE DEF C, D
<1> QED BY <1>8, <1>10, <1>11, <1>12 DEF next, p, lo, hi
\* The set that RangeSet makes of an even number of bounds.
LEMMA RangeSetBlocks ==
  ASSUME NEW out \in Seq(Int), Hits(out, Int) % 2 = 0
  PROVE  /\ Canonical(RangeSet(out)) /\ Blocks(RangeSet(out)) \subseteq Int
         /\ \A b \in Int : b \in Blocks(RangeSet(out)) <=> Hits(out, UpTo(b)) % 2 = 1
<1> DEFINE q == RangeSet(out)
<1>1. /\ q \in Seq(Int) /\ Rising(q)
      /\ \A P : Hits(q, P) % 2 = Hits(out, P) % 2
  BY RangeSetItems
<1> HIDE DEF q
<1>2. Hits(q, Int) = Len(q)
  BY <1>1, HitsOfAll
<1>3. Len(q) % 2 = 0
  <2>1. Hits(q, Int) % 2 = Hits(out, Int) % 2
    BY <1>1
  <2> QED BY <1>2, <2>1, Zenon
<1>4. Canonical(q)
  BY <1>1, <1>3 DEF Canonical
<1>5. ASSUME NEW b \in Int PROVE b \in Blocks(q) <=> Hits(out, UpTo(b)) % 2 = 1
  <2>1. b \in Blocks(q) <=> Hits(q, UpTo(b)) % 2 = 1
    BY <1>4, BlocksAreOdd
  <2>2. Hits(q, UpTo(b)) % 2 = Hits(out, UpTo(b)) % 2
    BY <1>1
  <2> QED BY <2>1, <2>2, Zenon
<1>6. Blocks(q) \subseteq Int
  BY <1>4, BlocksAreOdd
<1> QED BY <1>4, <1>5, <1>6 DEF q

\* A set is finite, and the places of its blocks are the numbers below its size.
LEMMA PlacesBelow ==
  ASSUME NEW R \in SUBSET Int, IsFiniteSet(R)
  PROVE  /\ Cardinality(R) \in Nat
         /\ \A b \in Int : Place(R, b) \in 0..Cardinality(R)
         /\ \A b \in R : Place(R, b) < Cardinality(R)
         /\ \A b, c \in Int : b <= c => Place(R, b) <= Place(R, c)
         /\ \A b \in R, c \in Int : b < c => Place(R, b) < Place(R, c)
         /\ \A i \in 0..Cardinality(R) - 1 : \E b \in R : Place(R, b) = i
<1> DEFINE Low(b) == {c \in R : c < b}
<1>1. Cardinality(R) \in Nat
  BY FS_CardinalityType
<1>2. \A b : Place(R, b) = Cardinality(Low(b))
  BY DEF Place
<1>3. \A b : Low(b) \in SUBSET R
  OBVIOUS
<1>4. \A b \in R : Low(b) # R
  OBVIOUS
<1>5. ASSUME NEW b \in Int, NEW c \in Int, b <= c PROVE Low(b) \in SUBSET Low(c)
  <2>1. \A x \in R : x < b => x < c
    BY <1>5
  <2> QED BY <2>1
<1>6. \A b \in R, c \in Int : b < c => Low(b) # Low(c)
  OBVIOUS
<1> HIDE DEF Low
<1>7. \A b : /\ IsFiniteSet(Low(b)) /\ Cardinality(Low(b)) \in Nat
             /\ Cardinality(Low(b)) <= Cardinality(R)
             /\ Cardinality(R) = Cardinality(Low(b)) => R = Low(b)
  BY <1>3, FS_Subset, FS_CardinalityType
<1>8. \A b : Place(R, b) \in 0..Cardinality(R)
  BY <1>1, <1>2, <1>7
<1>9. \A b \in R : Place(R, b) < Cardinality(R)
  BY <1>1, <1>2, <1>4, <1>7
<1>10. ASSUME NEW b \in Int, NEW c \in Int, b <= c
       PROVE  /\ Place(R, b) <= Place(R, c)
              /\ Place(R, b) = Place(R, c) => Low(b) = Low(c)
  BY <1>2, <1>5, <1>7, <1>10, FS_Subset
<1>11. ASSUME NEW b \in R, NEW c \in Int, b < c PROVE Place(R, b) < Place(R, c)
  <2>1. b \in Int /\ b <= c
    BY <1>11
  <2>2. Place(R, b) <= Place(R, c) /\ Place(R, b) # Place(R, c)
    BY <1>6, <1>10, <1>11, <2>1
  <2> QED BY <1>8, <2>2
<1>12. \A i \in 0..Cardinality(R) - 1 : \E b \in R : Place(R, b) = i
  <2> DEFINE n == Cardinality(R)  f == [b \in R |-> Place(R, b)]
  <2>1. IsFiniteSet(0..n - 1) /\ Cardinality(0..n - 1) = n
    <3> HIDE DEF n
    <3>1. n \in Nat /\ n - 1 \in Int
      BY <1>1 DEF n
    <3>2. /\ IsFiniteSet(0..n - 1)
          /\ Cardinality(0..n - 1) = IF 0 > n - 1 THEN 0 ELSE n - 1 - 0 + 1
      BY <3>1, FS_Interval
    <3> QED BY <3>1, <3>2
  <2>2. f \in [R -> 0..n - 1]
    BY <1>1, <1>8, <1>9
  <2>3. \A b, c \in R : f[b] = f[c] => b = c
    <3>1. \A b, c \in R : b < c => f[b] < f[c]
      BY <1>11
    <3>2. \A b, c \in R : b # c => b < c \/ c < b
      OBVIOUS
    <3>3. \A b \in R : f[b] \in Int
      BY <1>8
    <3> HIDE DEF f
    <3> QED BY <3>1, <3>2, <3>3
  <2> HIDE DEF f
  <2>4. f \in Injection(R, 0..n - 1)
    BY <2>2, <2>3 DEF Injection, IsInjective
  <2>5. f \in Surjection(R, 0..n - 1)
    BY <2>1, <2>4, FS_Injection
  <2>6. \A i \in 0..n - 1 : \E b \in R : f[b] = i
    BY <2>5 DEF Surjection
  <2> QED BY <2>6 DEF f, n
<1>13. \A b, c \in Int : b <= c => Place(R, b) <= Place(R, c)
  BY <1>10
<1> QED BY <1>1, <1>8, <1>9, <1>11, <1>12, <1>13

LEMMA BlocksFinite ==
  ASSUME NEW r, Canonical(r)
  PROVE  Blocks(r) \in SUBSET Int /\ IsFiniteSet(Blocks(r))
<1>1. Half(r) \in 0..Half(r)
  BY RangesRise
<1> QED BY <1>1, BlocksToAll, BlocksToCount

\* The first n blocks of a set.
LEMMA FirstBlocks ==
  ASSUME NEW r, Canonical(r), NEW n \in Nat
  PROVE  /\ Canonical(First(r, n))
         /\ Blocks(First(r, n)) = {b \in Blocks(r) : Place(Blocks(r), b) < n}
<1> DEFINE R == Blocks(r)  h == Half(r)
<1>1. R \in SUBSET Int /\ IsFiniteSet(R) /\ Size(r) = Cardinality(R)
  BY BlocksFinite, SizeCounts
<1>2. CASE Size(r) <= n
  <2>1. First(r, n) = r
    BY <1>2 DEF First
  <2> HIDE DEF R
  <2>2. \A b \in R : Place(R, b) < n
    <3>1. ASSUME NEW b \in R PROVE Place(R, b) < n
      <4>1. Place(R, b) \in 0..Cardinality(R) /\ Place(R, b) < Cardinality(R) /\ Cardinality(R) \in Nat
        BY <1>1, PlacesBelow
      <4> QED BY <1>1, <1>2, <4>1
    <3> QED BY <3>1
  <2>3. {b \in R : Place(R, b) < n} = R
    BY <2>2
  <2> QED BY <2>1, <2>3 DEF R
<1>3. CASE ~(Size(r) <= n)
  <2> DEFINE s == Ranges(r)
  <2>1. h \in Nat /\ \A i \in 1..h : r[2 * i - 1] \in Int /\ r[2 * i] \in Int
    BY RangesRise
  <2>2. s = [i \in 1..h |-> <<r[2 * i - 1], r[2 * i]>>]
    BY DEF Ranges, Half
  <2> HIDE DEF h, s
  <2>3. /\ s \in Seq(Int \X Int) /\ Len(s) = h
        /\ \A i \in 1..h : s[i] = <<r[2 * i - 1], r[2 * i]>>
    <3>1. s \in [1..h -> Int \X Int] /\ \A i \in 1..h : s[i] = <<r[2 * i - 1], r[2 * i]>>
      BY <2>1, <2>2
    <3> QED BY <2>1, <3>1
  <2>4. PICK f : /\ f[0] = NoTake(n)
                 /\ \A k \in 1..Len(s) : f[k] = TakeRange(f[k - 1], s[k])
                 /\ Taken(s, n) = f[Len(s)].out
    <3>1. n \in Int
      OBVIOUS
    <3> QED BY <2>3, <3>1, TakeRuns, Zenon
  <2> DEFINE T == {k \in Nat : k <= h => TakenTo(r, n, k, f[k])}
  <2>5. 0 \in T
    <3>1. BlocksTo(r, 0) = {} /\ Cardinality({}) = 0
      BY FS_EmptySet DEF BlocksTo
    <3>2. NoTake(n) \in Takes /\ NoTake(n).out = <<>> /\ NoTake(n).left = n
      BY DEF NoTake, Takes
    <3>3. \A P : Hits(<<>>, P) = 0
      <4>1. Len(<<>>) = 0 /\ \A t, P : HitsTo(t, 0, P) = 0
        BY HitsToStep
      <4> QED BY <4>1 DEF Hits
    <3>4. 0 % 2 = 0 /\ 0 % 2 # 1
      OBVIOUS
    <3>5. 0 >= n => n = 0
      OBVIOUS
    <3>6. 0 < n => n = n - 0
      OBVIOUS
    <3>7. TakenTo(r, n, 0, NoTake(n))
      BY <3>1, <3>2, <3>3, <3>4, <3>5, <3>6 DEF TakenTo
    <3> QED BY <2>4, <3>7
  <2>6. ASSUME NEW k \in Nat, k \in T PROVE k + 1 \in T
    <3> SUFFICES ASSUME k + 1 <= h PROVE TakenTo(r, n, k + 1, f[k + 1])
      OBVIOUS
    <3>1. k + 1 \in 1..h /\ k + 1 - 1 = k /\ k <= h
      BY <2>1
    <3>2. TakenTo(r, n, k, f[k])
      BY <2>6, <3>1
    <3> HIDE DEF T
    <3>3. f[k + 1] = TakeRange(f[k], <<r[2 * (k + 1) - 1], r[2 * (k + 1)]>>)
      <4>1. f[k + 1] = TakeRange(f[k + 1 - 1], s[k + 1])
        <5>1. k + 1 \in 1..Len(s)
          BY <2>3, <3>1
        <5> QED BY <2>4, <5>1
      <4>2. s[k + 1] = <<r[2 * (k + 1) - 1], r[2 * (k + 1)]>>
        BY <2>3, <3>1
      <4> QED BY <3>1, <4>1, <4>2, Zenon
    <3> QED BY <3>2, <3>3, TakeTakes DEF h
  <2>7. TakenTo(r, n, h, f[h])
    <3>1. h \in T
      <4> HIDE DEF T
      <4> QED BY <2>1, <2>5, <2>6, OneByOne
    <3> QED BY <2>1, <3>1
  <2> DEFINE out == f[h].out
  <2>8. /\ out \in Seq(Int) /\ Hits(out, Int) % 2 = 0
        /\ \A b \in Int : Hits(out, UpTo(b)) % 2 = 1 <=> b \in R /\ Place(R, b) < n
    BY <2>7, BlocksToAll DEF TakenTo, Takes, h
  <2>9. First(r, n) = RangeSet(out)
    BY <1>3, <2>3, <2>4 DEF First, s
  <2> HIDE DEF out, R
  <2>10. Canonical(First(r, n)) /\ Blocks(First(r, n)) = {b \in R : Place(R, b) < n}
    BY <1>1, <2>8, <2>9, RangeSetBlocks
  <2> QED BY <2>10 DEF R
<1> QED BY <1>2, <1>3
LEMMA BoundsItems ==
  ASSUME NEW r \in Seq(Int), NEW f \in Int, NEW g \in Int, f + g = 0,
         NEW S, \A x \in Int : <<x, f>> \in S /\ <<x, g>> \in S
  PROVE  /\ Bounds(r, f) \in Seq(S) /\ Len(Bounds(r, f)) = Len(r)
         /\ \A i \in 1..Len(r) :
              /\ i % 2 = 1 => Bounds(r, f)[i] = <<r[i], f>>
              /\ i % 2 # 1 => Bounds(r, f)[i] = <<r[i], g>>
<1> DEFINE B == Bounds(r, f)
<1>1. Len(r) \in Nat /\ DOMAIN r = 1..Len(r) /\ \A i \in 1..Len(r) : r[i] \in Int
  BY LenProperties, ElementOfSeq
<1>2. B = [i \in 1..Len(r) |-> <<r[i], IF i % 2 = 1 THEN f ELSE -f>>]
  BY <1>1 DEF Bounds
<1>3. -f = g
  OBVIOUS
<1> HIDE DEF B
<1>4. ASSUME NEW i \in 1..Len(r)
      PROVE  /\ i % 2 = 1 => B[i] = <<r[i], f>>
             /\ i % 2 # 1 => B[i] = <<r[i], g>>
  <2>1. B[i] = <<r[i], IF i % 2 = 1 THEN f ELSE -f>>
    BY <1>2
  <2> QED BY <1>3, <2>1
<1>5. ASSUME NEW i \in 1..Len(r) PROVE B[i] \in S
  <2>1. <<r[i], f>> \in S /\ <<r[i], g>> \in S
    BY <1>1
  <2>2. B[i] = <<r[i], f>> \/ B[i] = <<r[i], g>>
    BY <1>4
  <2> QED BY <2>1, <2>2
<1>6. B \in [1..Len(r) -> S]
  BY <1>2, <1>5
<1>7. B \in Seq(S) /\ DOMAIN B = 1..Len(r)
  BY <1>1, <1>6, IsASeq
<1>8. Len(B) = Len(r)
  BY <1>1, <1>7, LenProperties
<1> QED BY <1>4, <1>7, <1>8 DEF B

LEMMA HitsToNone ==
  ASSUME NEW t, NEW k \in Nat, NEW P
  PROVE  /\ HitsTo(t, k, P) \in Nat
         /\ HitsTo(t, k, P) = 0 <=> \A i \in 1..k : t[i] \notin P
<1> DEFINE A == {i \in 1..k : t[i] \in P}
<1>1. A \in SUBSET (1..k) /\ IsFiniteSet(1..k)
  BY FS_Interval
<1>2. A = {} <=> \A i \in 1..k : t[i] \notin P
  OBVIOUS
<1> HIDE DEF A
<1>3. IsFiniteSet(A)
  BY <1>1, FS_Subset
<1>4. Cardinality(A) \in Nat /\ (Cardinality(A) = 0 <=> A = {})
  BY <1>3, FS_CardinalityType, FS_EmptySet
<1> QED BY <1>2, <1>4 DEF HitsTo, A

LEMMA HitsToSplit ==
  ASSUME NEW t, NEW k \in Nat, NEW P, NEW Q, NEW O,
         \A i \in 1..k : t[i] \in O <=> t[i] \in P \/ t[i] \in Q,
         \A i \in 1..k : ~(t[i] \in P /\ t[i] \in Q)
  PROVE  HitsTo(t, k, O) = HitsTo(t, k, P) + HitsTo(t, k, Q)
<1> DEFINE A == {i \in 1..k : t[i] \in P}  B == {i \in 1..k : t[i] \in Q}
<1>1. A \in SUBSET (1..k) /\ B \in SUBSET (1..k) /\ IsFiniteSet(1..k)
  BY FS_Interval
<1>2. A \cap B = {} /\ {i \in 1..k : t[i] \in O} = A \cup B
  OBVIOUS
<1> HIDE DEF A, B
<1>3. IsFiniteSet(A) /\ IsFiniteSet(B)
  BY <1>1, FS_Subset
<1>4. Cardinality(A) \in Nat /\ Cardinality(B) \in Nat /\ Cardinality(A \cap B) = 0
  BY <1>2, <1>3, FS_CardinalityType, FS_EmptySet
<1>5. Cardinality(A \cup B) = Cardinality(A) + Cardinality(B) - Cardinality(A \cap B)
  BY <1>3, FS_Union
<1>6. Cardinality(A \cup B) = Cardinality(A) + Cardinality(B)
  BY <1>4, <1>5
<1> QED BY <1>2, <1>6 DEF HitsTo, A, B

\* The marks of two sets, in order: -5 and 5 of one, -1 and 1 of the other.
Marked(e, r, s) ==
  /\ e \in Seq(Marks)
  /\ \A k, l \in 1..Len(e) : k < l => Before(e[k], e[l]) \/ e[k] = e[l]
  /\ \A P : Hits(e, P) = Hits(Bounds(r, -5), P) + Hits(Bounds(s, -1), P)

LEMMA MergedMarks ==
  ASSUME NEW r, Canonical(r), NEW s, Canonical(s)
  PROVE  Marked(Merged(r, s, -5, -1), r, s)
<1> DEFINE A == Bounds(r, -5)  B == Bounds(s, -1)  e == MergedEvents(A \o B)
<1>2. A \in Seq(Marks)
  <2> DEFINE f == -5  g == 5  S == Marks
  <2>1. r \in Seq(Int) /\ f \in Int /\ g \in Int /\ f + g = 0
    BY DEF Canonical
  <2>2. \A x \in Int : <<x, f>> \in S /\ <<x, g>> \in S
    BY DEF Marks
  <2> HIDE DEF f, g, S
  <2>3. /\ Bounds(r, f) \in Seq(S) /\ Len(Bounds(r, f)) = Len(r)
        /\ \A i \in 1..Len(r) :
             /\ i % 2 = 1 => Bounds(r, f)[i] = <<r[i], f>>
             /\ i % 2 # 1 => Bounds(r, f)[i] = <<r[i], g>>
    BY <2>1, <2>2, BoundsItems
  <2> QED BY <2>3 DEF f, g, S
<1>3. B \in Seq(Marks)
  <2> DEFINE f == -1  g == 1  S == Marks
  <2>1. s \in Seq(Int) /\ f \in Int /\ g \in Int /\ f + g = 0
    BY DEF Canonical
  <2>2. \A x \in Int : <<x, f>> \in S /\ <<x, g>> \in S
    BY DEF Marks
  <2> HIDE DEF f, g, S
  <2>3. /\ Bounds(s, f) \in Seq(S) /\ Len(Bounds(s, f)) = Len(s)
        /\ \A i \in 1..Len(s) :
             /\ i % 2 = 1 => Bounds(s, f)[i] = <<s[i], f>>
             /\ i % 2 # 1 => Bounds(s, f)[i] = <<s[i], g>>
    BY <2>1, <2>2, BoundsItems
  <2> QED BY <2>3 DEF f, g, S
<1>4. Merged(r, s, -5, -1) = e
  BY DEF Merged
<1> HIDE DEF A, B
<1>5. A \o B \in Seq(Marks) /\ Marks \subseteq Events
  BY <1>2, <1>3, ConcatItems DEF Marks, Events
<1>6. /\ e \in Seq(Marks) /\ Len(e) = Len(A \o B)
      /\ \A k, l \in 1..Len(A \o B) : k < l => Before(e[k], e[l]) \/ e[k] = e[l]
      /\ \A P : Hits(e, P) = Hits(A \o B, P)
  BY <1>5, MergedItems
<1>7. \A P : Hits(A \o B, P) = Hits(A, P) + Hits(B, P)
  BY <1>2, <1>3, HitsOfConcat
<1> HIDE DEF e
<1> QED BY <1>4, <1>6, <1>7 DEF Marked, A, B

\* The marks at the numbers in U of the one set and of the other.
Outer(U) == U \X {-5, 5}
Inner(U) == U \X {-1, 1}

\* What two canonical sets put into the marks: as many marks of each as bounds,
\* and a mark of one is the mark of one of its bounds.
MarksOf(e, r, s) ==
  /\ Len(e) \in Nat
  /\ \A i \in 1..Len(e) : e[i] \in Marks
  /\ \A U : Hits(e, Outer(U)) = Hits(r, U) /\ Hits(e, Inner(U)) = Hits(s, U)
  /\ \A j \in 1..Len(e) : e[j][2] \in {-5, 5} =>
       \E i \in 1..Len(r) : r[i] = e[j][1] /\ (e[j][2] = -5 <=> i % 2 = 1)
  /\ \A j \in 1..Len(e) : e[j][2] \in {-1, 1} =>
       \E i \in 1..Len(s) : s[i] = e[j][1] /\ (e[j][2] = -1 <=> i % 2 = 1)
  /\ \A i \in 1..Len(r) : i % 2 = 1 => \E j \in 1..Len(e) : e[j] = <<r[i], -5>>

LEMMA MarksOfBounds ==
  ASSUME NEW r, Canonical(r), NEW s, Canonical(s), NEW e, Marked(e, r, s)
  PROVE  MarksOf(e, r, s)
<1> DEFINE A == Bounds(r, -5)  B == Bounds(s, -1)
<1>1. /\ r \in Seq(Int) /\ Len(r) \in Nat /\ \A i \in 1..Len(r) : r[i] \in Int
      /\ s \in Seq(Int) /\ Len(s) \in Nat /\ \A i \in 1..Len(s) : s[i] \in Int
  BY LenProperties, ElementOfSeq DEF Canonical
<1>2. /\ A \in Seq(Int \X Int) /\ Len(A) = Len(r)
      /\ \A i \in 1..Len(r) :
           /\ i % 2 = 1 => A[i] = <<r[i], -5>>
           /\ i % 2 # 1 => A[i] = <<r[i], 5>>
  <2> DEFINE f == -5  g == 5  S == Int \X Int
  <2>1. r \in Seq(Int) /\ f \in Int /\ g \in Int /\ f + g = 0
    BY DEF Canonical
  <2>2. \A x \in Int : <<x, f>> \in S /\ <<x, g>> \in S
    BY DEF Marks
  <2> HIDE DEF f, g, S
  <2>3. /\ Bounds(r, f) \in Seq(S) /\ Len(Bounds(r, f)) = Len(r)
        /\ \A i \in 1..Len(r) :
             /\ i % 2 = 1 => Bounds(r, f)[i] = <<r[i], f>>
             /\ i % 2 # 1 => Bounds(r, f)[i] = <<r[i], g>>
    BY <2>1, <2>2, BoundsItems
  <2> QED BY <2>3 DEF f, g, S
<1>3. /\ B \in Seq(Int \X Int) /\ Len(B) = Len(s)
      /\ \A i \in 1..Len(s) :
           /\ i % 2 = 1 => B[i] = <<s[i], -1>>
           /\ i % 2 # 1 => B[i] = <<s[i], 1>>
  <2> DEFINE f == -1  g == 1  S == Int \X Int
  <2>1. s \in Seq(Int) /\ f \in Int /\ g \in Int /\ f + g = 0
    BY DEF Canonical
  <2>2. \A x \in Int : <<x, f>> \in S /\ <<x, g>> \in S
    BY DEF Marks
  <2> HIDE DEF f, g, S
  <2>3. /\ Bounds(s, f) \in Seq(S) /\ Len(Bounds(s, f)) = Len(s)
        /\ \A i \in 1..Len(s) :
             /\ i % 2 = 1 => Bounds(s, f)[i] = <<s[i], f>>
             /\ i % 2 # 1 => Bounds(s, f)[i] = <<s[i], g>>
    BY <2>1, <2>2, BoundsItems
  <2> QED BY <2>3 DEF f, g, S
<1>4. /\ e \in Seq(Marks) /\ Len(e) \in Nat /\ \A i \in 1..Len(e) : e[i] \in Marks
      /\ \A P : Hits(e, P) = Hits(A, P) + Hits(B, P)
  BY LenProperties, ElementOfSeq DEF Marked
<1> HIDE DEF A, B
<1>5. ASSUME NEW i \in 1..Len(r)
      PROVE  A[i][1] = r[i] /\ A[i][2] \in {-5, 5} /\ (A[i][2] = -5 <=> i % 2 = 1)
  <2>1. CASE i % 2 = 1
    <3>1. A[i] = <<r[i], -5>>
      BY <1>2, <1>3, <2>1
    <3> QED BY <2>1, <3>1
  <2>2. CASE i % 2 # 1
    <3>1. A[i] = <<r[i], 5>>
      BY <1>2, <1>3, <2>2
    <3> QED BY <2>2, <3>1
  <2> QED BY <2>1, <2>2
<1>5a. ASSUME NEW i \in 1..Len(s)
      PROVE  B[i][1] = s[i] /\ B[i][2] \in {-1, 1} /\ (B[i][2] = -1 <=> i % 2 = 1)
  <2>1. CASE i % 2 = 1
    <3>1. B[i] = <<s[i], -1>>
      BY <1>2, <1>3, <2>1
    <3> QED BY <2>1, <3>1
  <2>2. CASE i % 2 # 1
    <3>1. B[i] = <<s[i], 1>>
      BY <1>2, <1>3, <2>2
    <3> QED BY <2>2, <3>1
  <2> QED BY <2>1, <2>2
<1>6. ASSUME NEW P
      PROVE  /\ Hits(A, P) \in Nat /\ (Hits(A, P) = 0 <=> \A i \in 1..Len(r) : A[i] \notin P)
             /\ Hits(B, P) \in Nat /\ (Hits(B, P) = 0 <=> \A i \in 1..Len(s) : B[i] \notin P)
             /\ Hits(e, P) \in Nat /\ (Hits(e, P) = 0 <=> \A i \in 1..Len(e) : e[i] \notin P)
  <2>1. HitsTo(A, Len(r), P) \in Nat /\ (HitsTo(A, Len(r), P) = 0 <=> \A i \in 1..Len(r) : A[i] \notin P)
    BY <1>1, HitsToNone
  <2>2. HitsTo(B, Len(s), P) \in Nat /\ (HitsTo(B, Len(s), P) = 0 <=> \A i \in 1..Len(s) : B[i] \notin P)
    BY <1>1, HitsToNone
  <2>3. HitsTo(e, Len(e), P) \in Nat /\ (HitsTo(e, Len(e), P) = 0 <=> \A i \in 1..Len(e) : e[i] \notin P)
    BY <1>4, HitsToNone
  <2>4. Hits(A, P) = HitsTo(A, Len(r), P) /\ Hits(B, P) = HitsTo(B, Len(s), P) /\ Hits(e, P) = HitsTo(e, Len(e), P)
    BY <1>2, <1>3 DEF Hits
  <2> QED BY <2>1, <2>2, <2>3, <2>4
<1>7. ASSUME NEW U PROVE Hits(e, Outer(U)) = Hits(r, U)
  <2> DEFINE P == U \X {-5, 5}
  <2>1. \A i \in 1..Len(s) : B[i] \notin P
    <3>1. \A v \in P : v[2] \in {-5, 5}
      OBVIOUS
    <3>2. \A n \in {-1, 1} : n \notin {-5, 5}
      OBVIOUS
    <3> HIDE DEF P
    <3> QED BY <1>5a, <3>1, <3>2
  <2>2. Hits(B, P) = 0 /\ Hits(A, P) \in Nat
    BY <1>6, <2>1
  <2>3. ASSUME NEW i \in 1..Len(r) PROVE A[i] \in P <=> r[i] \in U
    <3>1. <<r[i], -5>> \in P <=> r[i] \in U
      OBVIOUS
    <3>2. <<r[i], 5>> \in P <=> r[i] \in U
      OBVIOUS
    <3>3. A[i] = <<r[i], -5>> \/ A[i] = <<r[i], 5>>
      BY <1>2
    <3> HIDE DEF P
    <3> QED BY <3>1, <3>2, <3>3
  <2> HIDE DEF P
  <2>4. {i \in 1..Len(r) : A[i] \in P} = {i \in 1..Len(r) : r[i] \in U}
    BY <2>3
  <2>5. Hits(A, P) = Hits(r, U)
    BY <1>2, <2>4 DEF Hits, HitsTo
  <2>6. Hits(e, P) = Hits(r, U)
    BY <1>4, <2>2, <2>5
  <2> QED BY <2>6 DEF P, Outer
<1>7a. ASSUME NEW U PROVE Hits(e, Inner(U)) = Hits(s, U)
  <2> DEFINE P == U \X {-1, 1}
  <2>1. \A i \in 1..Len(r) : A[i] \notin P
    <3>1. \A v \in P : v[2] \in {-1, 1}
      OBVIOUS
    <3>2. \A n \in {-5, 5} : n \notin {-1, 1}
      OBVIOUS
    <3> HIDE DEF P
    <3> QED BY <1>5, <3>1, <3>2
  <2>2. Hits(A, P) = 0 /\ Hits(B, P) \in Nat
    BY <1>6, <2>1
  <2>3. ASSUME NEW i \in 1..Len(s) PROVE B[i] \in P <=> s[i] \in U
    <3>1. <<s[i], -1>> \in P <=> s[i] \in U
      OBVIOUS
    <3>2. <<s[i], 1>> \in P <=> s[i] \in U
      OBVIOUS
    <3>3. B[i] = <<s[i], -1>> \/ B[i] = <<s[i], 1>>
      BY <1>3
    <3> HIDE DEF P
    <3> QED BY <3>1, <3>2, <3>3
  <2> HIDE DEF P
  <2>4. {i \in 1..Len(s) : B[i] \in P} = {i \in 1..Len(s) : s[i] \in U}
    BY <2>3
  <2>5. Hits(B, P) = Hits(s, U)
    BY <1>3, <2>4 DEF Hits, HitsTo
  <2>6. Hits(e, P) = Hits(s, U)
    BY <1>4, <2>2, <2>5
  <2> QED BY <2>6 DEF P, Inner
<1>8. ASSUME NEW j \in 1..Len(e)
      PROVE  (\E i \in 1..Len(r) : A[i] = e[j]) \/ (\E i \in 1..Len(s) : B[i] = e[j])
  <2>1. Hits(e, {e[j]}) # 0
    BY <1>6
  <2>2. Hits(A, {e[j]}) # 0 \/ Hits(B, {e[j]}) # 0
    BY <1>4, <1>6, <2>1
  <2> QED BY <1>6, <2>2
<1>9. ASSUME NEW i \in 1..Len(r), i % 2 = 1
      PROVE  \E j \in 1..Len(e) : e[j] = <<r[i], -5>>
  <2> DEFINE v == <<r[i], -5>>
  <2>0. A[i] = v
    BY <1>2, <1>9
  <2> HIDE DEF v
  <2>1. Hits(A, {v}) # 0
    BY <1>6, <2>0
  <2>2. Hits(e, {v}) # 0
    BY <1>4, <1>6, <2>1
  <2>3. PICK j \in 1..Len(e) : e[j] = v
    BY <1>6, <2>2
  <2> QED BY <2>3 DEF v
<1>10. ASSUME NEW j \in 1..Len(e), e[j][2] \in {-5, 5}
       PROVE  \E i \in 1..Len(r) : r[i] = e[j][1] /\ (e[j][2] = -5 <=> i % 2 = 1)
  <2>1. ~ \E i \in 1..Len(s) : B[i] = e[j]
    BY <1>5a, <1>10
  <2>2. PICK i \in 1..Len(r) : A[i] = e[j]
    BY <1>8, <2>1
  <2> QED BY <1>5, <2>2
<1>11. ASSUME NEW j \in 1..Len(e), e[j][2] \in {-1, 1}
       PROVE  \E i \in 1..Len(s) : s[i] = e[j][1] /\ (e[j][2] = -1 <=> i % 2 = 1)
  <2>1. ~ \E i \in 1..Len(r) : A[i] = e[j]
    BY <1>5, <1>11
  <2>2. PICK i \in 1..Len(s) : B[i] = e[j]
    BY <1>8, <2>1
  <2> QED BY <1>5a, <2>2
<1> QED BY <1>4, <1>7, <1>7a, <1>9, <1>10, <1>11 DEF MarksOf

\* The bounds of a rising sequence at p: none or one.
BoundsAt(r, p) ==
  /\ Hits(r, UpTo(p)) = Hits(r, UpTo(p - 1)) + Hits(r, {p})
  /\ Hits(r, {p}) \in {0, 1}
  /\ \A i \in 1..Len(r) : r[i] = p => Hits(r, {p}) = 1 /\ i = Hits(r, UpTo(p - 1)) + 1

LEMMA BoundAt ==
  ASSUME NEW r \in Seq(Int), Rising(r), NEW p \in Int
  PROVE  BoundsAt(r, p)
<1>1. Len(r) \in Nat /\ \A i \in 1..Len(r) : r[i] \in Int
  BY LenProperties, ElementOfSeq
<1>2. Hits(r, UpTo(p)) = Hits(r, UpTo(p - 1)) + Hits(r, {p})
  <2>1. ASSUME NEW i \in 1..Len(r)
        PROVE  /\ r[i] \in UpTo(p) <=> r[i] \in UpTo(p - 1) \/ r[i] \in {p}
               /\ ~(r[i] \in UpTo(p - 1) /\ r[i] \in {p})
    BY <1>1 DEF UpTo
  <2>2. HitsTo(r, Len(r), UpTo(p)) = HitsTo(r, Len(r), UpTo(p - 1)) + HitsTo(r, Len(r), {p})
    BY <1>1, <2>1, HitsToSplit
  <2> QED BY <2>2 DEF Hits
<1> DEFINE n == Hits(r, UpTo(p - 1))  m == Hits(r, UpTo(p))  h == Hits(r, {p})
<1>3. n \in 0..Len(r) /\ \A i \in 1..Len(r) : r[i] <= p - 1 <=> i <= n
  <2>1. p - 1 \in Int
    OBVIOUS
  <2> QED BY <2>1, CutAt
<1>4. m \in 0..Len(r) /\ \A i \in 1..Len(r) : r[i] <= p <=> i <= m
  BY CutAt
<1>5. h \in Nat
  BY HitsNat
<1>6. m = n + h
  BY <1>2
<1> HIDE DEF n, m, h
<1>7. h \in {0, 1}
  <2> SUFFICES ASSUME h > 1 PROVE FALSE
    BY <1>5
  <2>1. n + 1 \in 1..Len(r) /\ n + 2 \in 1..Len(r) /\ n + 2 <= m /\ n + 1 <= m /\ n + 1 < n + 2
        /\ ~(n + 1 <= n) /\ ~(n + 2 <= n)
    BY <1>1, <1>3, <1>4, <1>5, <1>6
  <2>2. r[n + 1] \in Int /\ r[n + 1] <= p /\ ~(r[n + 1] <= p - 1)
    BY <1>1, <1>3, <1>4, <2>1
  <2>3. r[n + 2] \in Int /\ r[n + 2] <= p /\ ~(r[n + 2] <= p - 1)
    BY <1>1, <1>3, <1>4, <2>1
  <2>4. r[n + 1] < r[n + 2]
    BY <2>1 DEF Rising
  <2> QED BY <2>2, <2>3, <2>4
<1>8. ASSUME NEW i \in 1..Len(r), r[i] = p PROVE h = 1 /\ i = n + 1
  <2>1. i <= m /\ ~(i <= n)
    <3>1. p <= p /\ ~(p <= p - 1)
      OBVIOUS
    <3> QED BY <1>3, <1>4, <1>8, <3>1
  <2> QED BY <1>1, <1>3, <1>4, <1>6, <1>7, <2>1
<1> QED BY <1>2, <1>7, <1>8 DEF n, m, h, BoundsAt

\* The marks of r before a mark at p: the bounds of r below p, and those at p.
BeforeMark(r, e, k, p) ==
  /\ p \in Int
  /\ HitsTo(e, k, Outer(Int)) = Hits(r, UpTo(p - 1)) + HitsTo(e, k, Outer({p}))
  /\ HitsTo(e, k, Outer({p})) \in Nat
  /\ HitsTo(e, k + 1, Outer({p})) <= Hits(r, {p})

LEMMA MarksBefore ==
  ASSUME NEW r, Canonical(r), NEW s, Canonical(s), NEW e, Marked(e, r, s),
         NEW k \in Nat, k + 1 \in 1..Len(e)
  PROVE  BeforeMark(r, e, k, e[k + 1][1])
<1> SUFFICES ASSUME NEW p, p = e[k + 1][1] PROVE BeforeMark(r, e, k, p)
  OBVIOUS
<1> DEFINE P == Outer({p})  Q == Outer(UpTo(p - 1))  O == Outer(Int)
<1>1. /\ Len(e) \in Nat /\ \A i \in 1..Len(e) : e[i] \in Marks
      /\ \A U : Hits(e, Outer(U)) = Hits(r, U)
  <2>1. MarksOf(e, r, s)
    BY MarksOfBounds
  <2> QED BY <2>1 DEF MarksOf
<1>2. \A i \in 1..Len(e) : e[i] = <<e[i][1], e[i][2]>> /\ e[i][1] \in Int /\ e[i][2] \in Int
  BY <1>1 DEF Marks
<1>3. p \in Int
  BY <1>2
<1>4. ASSUME NEW i \in 1..Len(e) PROVE /\ i <= k => e[i][1] <= p
                                       /\ i > k => e[i][1] >= p
  <2>1. e[i][1] \in Int
    BY <1>2
  <2>2. CASE i < k + 1
    <3>1. Before(e[i], e[k + 1]) \/ e[i] = e[k + 1]
      BY <2>2 DEF Marked
    <3>2. e[i][1] <= p
      BY <1>3, <2>1, <3>1 DEF Before
    <3> QED BY <2>2, <3>2
  <2>3. CASE i > k + 1
    <3>1. Before(e[k + 1], e[i]) \/ e[i] = e[k + 1]
      BY <2>3 DEF Marked
    <3>2. e[i][1] >= p
      BY <1>3, <2>1, <3>1 DEF Before
    <3> QED BY <2>3, <3>2
  <2>4. CASE i = k + 1
    BY <1>3, <2>4
  <2> QED BY <2>2, <2>3, <2>4
<1>5. ASSUME NEW i \in 1..Len(e)
      PROVE  /\ e[i] \in P <=> e[i][1] = p /\ e[i][2] \in {-5, 5}
             /\ e[i] \in Q <=> e[i][1] <= p - 1 /\ e[i][2] \in {-5, 5}
             /\ e[i] \in O <=> e[i][2] \in {-5, 5}
  <2>1. e[i] = <<e[i][1], e[i][2]>> /\ e[i][1] \in Int
    BY <1>2
  <2>2. e[i][1] \in UpTo(p - 1) <=> e[i][1] <= p - 1
    BY <2>1 DEF UpTo
  <2> QED BY <2>1, <2>2 DEF Outer
<1> HIDE DEF P, Q, O
<1>6. ASSUME NEW i \in 1..k
      PROVE  /\ e[i] \in O <=> e[i] \in Q \/ e[i] \in P
             /\ ~(e[i] \in Q /\ e[i] \in P)
  <2>1. i \in 1..Len(e) /\ i <= k
    BY <1>1
  <2>2. e[i][1] \in Int /\ e[i][1] <= p
    BY <1>2, <1>4, <2>1
  <2> QED BY <1>3, <1>5, <2>1, <2>2
<1>7. HitsTo(e, k, O) = HitsTo(e, k, Q) + HitsTo(e, k, P)
  BY <1>6, HitsToSplit
<1>8. HitsTo(e, k, Q) = Hits(r, UpTo(p - 1))
  <2>1. ASSUME NEW i \in k + 1..Len(e) PROVE e[i] \notin Q
    <3>1. i \in 1..Len(e) /\ i > k
      BY <1>1
    <3>2. e[i][1] \in Int /\ e[i][1] >= p
      BY <1>2, <1>4, <3>1
    <3> QED BY <1>3, <1>5, <3>1, <3>2
  <2>2. HitsTo(e, k, Q) = HitsTo(e, Len(e), Q)
    <3>1. k <= Len(e)
      BY <1>1
    <3> QED BY <1>1, <2>1, <3>1, HitsToGrows
  <2>3. Hits(e, Q) = Hits(r, UpTo(p - 1))
    BY <1>1 DEF Q
  <2> QED BY <2>2, <2>3 DEF Hits
<1>9. HitsTo(e, k, P) \in Nat
  BY HitsToNone
<1>10. HitsTo(e, k + 1, P) <= Hits(r, {p})
  <2>1. k + 1 \in Nat /\ k + 1 <= Len(e)
    BY <1>1
  <2>2. HitsTo(e, k + 1, P) <= HitsTo(e, Len(e), P)
    BY <1>1, <2>1, HitsToGrows
  <2>3. Hits(e, P) = Hits(r, {p})
    BY <1>1 DEF P
  <2> QED BY <2>2, <2>3 DEF Hits
<1>11. HitsTo(e, k, O) = Hits(r, UpTo(p - 1)) + HitsTo(e, k, P)
  BY <1>7, <1>8
<1> QED BY <1>3, <1>9, <1>10, <1>11 DEF P, O, BeforeMark

\* A mark of r is its next bound.
LEMMA MarkOfSet ==
  ASSUME NEW r, Canonical(r), NEW s, Canonical(s), NEW e, Marked(e, r, s),
         NEW k \in Nat, k + 1 \in 1..Len(e), e[k + 1][2] \in {-5, 5}
  PROVE  LET a == HitsTo(e, k, Outer(Int)) IN
           /\ a \in Nat /\ a + 1 \in 1..Len(r) /\ r[a + 1] = e[k + 1][1]
           /\ e[k + 1][2] = -5 <=> (a + 1) % 2 = 1
           /\ HitsTo(e, k + 1, Outer(Int)) = a + 1
<1> DEFINE p == e[k + 1][1]  P == Outer({p})  O == Outer(Int)  a == HitsTo(e, k, O)
           n == Hits(r, UpTo(p - 1))
<1>1. /\ p \in Int /\ a = n + HitsTo(e, k, P) /\ HitsTo(e, k, P) \in Nat
      /\ HitsTo(e, k + 1, P) <= Hits(r, {p})
  <2>1. BeforeMark(r, e, k, p)
    BY MarksBefore
  <2> QED BY <2>1 DEF BeforeMark
<1>2. e[k + 1] \in Marks /\ e[k + 1] = <<p, e[k + 1][2]>>
  <2>1. e[k + 1] \in Marks
    <3>1. MarksOf(e, r, s)
      BY MarksOfBounds
    <3> QED BY <3>1 DEF MarksOf
  <2> QED BY <2>1 DEF Marks
<1>3. e[k + 1] \in P /\ e[k + 1] \in O
  <2>1. \A q : q \in {-5, 5} => <<p, q>> \in P /\ <<p, q>> \in O
    BY <1>1 DEF Outer
  <2> HIDE DEF p, P, O
  <2> QED BY <1>2, <2>1
<1>4. PICK i \in 1..Len(r) : r[i] = p /\ (e[k + 1][2] = -5 <=> i % 2 = 1)
  <2>1. MarksOf(e, r, s)
    BY MarksOfBounds
  <2> QED BY <2>1 DEF MarksOf
<1>5. r \in Seq(Int) /\ Rising(r)
  BY DEF Canonical
<1>6. Hits(r, {p}) = 1 /\ i = n + 1
  <2>1. BoundsAt(r, p)
    BY <1>1, <1>5, BoundAt
  <2> QED BY <1>4, <2>1 DEF BoundsAt
<1> HIDE DEF p, P, O
<1>7. HitsTo(e, k + 1, P) = HitsTo(e, k, P) + 1 /\ HitsTo(e, k + 1, O) = HitsTo(e, k, O) + 1
  BY <1>3, HitsToStep
<1>8. Len(r) \in Nat
  BY <1>5, LenProperties
<1> HIDE DEF n, a
<1>9. HitsTo(e, k, P) = 0
  BY <1>1, <1>6, <1>7
<1>10. i \in Nat
  BY <1>8
<1>11. a = n
  <2>1. n = i - 1
    <3>1. n \in Nat
      BY <1>1, <1>5, CutAt, <1>8, HitsNat DEF n
    <3> QED BY <1>6, <3>1
  <2> QED BY <1>1, <1>9, <1>10, <2>1
<1>12. a + 1 = i /\ a \in Nat
  <2>1. n \in Nat
    BY <1>5, HitsNat DEF n
  <2> QED BY <1>6, <1>11, <2>1
<1>13. HitsTo(e, k + 1, O) = a + 1
  BY <1>7 DEF a
<1>14. a \in Nat /\ a + 1 \in 1..Len(r) /\ r[a + 1] = p /\ (e[k + 1][2] = -5 <=> (a + 1) % 2 = 1)
  BY <1>4, <1>12
<1> QED BY <1>13, <1>14 DEF a, p, O

\* A mark of a subset s of r is at a block of an open range of r, or at its end.
LEMMA MarkOfSubset ==
  ASSUME NEW r, Canonical(r), NEW s, Canonical(s), Blocks(s) \subseteq Blocks(r),
         NEW e, Marked(e, r, s),
         NEW k \in Nat, k + 1 \in 1..Len(e), e[k + 1][2] \in {-1, 1}
  PROVE  LET a == HitsTo(e, k, Outer(Int)) IN
           /\ a \in 1..Len(r) /\ a + 1 \in 1..Len(r) /\ a % 2 = 1
           /\ r[a] <= e[k + 1][1] /\ e[k + 1][1] <= r[a + 1]
           /\ HitsTo(e, k + 1, Outer(Int)) = a
<1> DEFINE p == e[k + 1][1]  P == Outer({p})  O == Outer(Int)  a == HitsTo(e, k, O)
           n == Hits(r, UpTo(p - 1))  m == Hits(r, UpTo(p))  c == HitsTo(e, k, P)
<1>1. /\ p \in Int /\ a = n + c /\ c \in Nat /\ HitsTo(e, k + 1, P) <= Hits(r, {p})
  <2>1. BeforeMark(r, e, k, p)
    BY MarksBefore
  <2> QED BY <2>1 DEF BeforeMark
<1>2. /\ Len(e) \in Nat /\ \A i \in 1..Len(e) : e[i] \in Marks
      /\ \A j \in 1..Len(e) : e[j][2] \in {-5, 5} =>
           \E i \in 1..Len(r) : r[i] = e[j][1] /\ (e[j][2] = -5 <=> i % 2 = 1)
      /\ \A i \in 1..Len(r) : i % 2 = 1 => \E j \in 1..Len(e) : e[j] = <<r[i], -5>>
  <2>1. MarksOf(e, r, s)
    BY MarksOfBounds
  <2> QED BY <2>1 DEF MarksOf
<1>3. e[k + 1] = <<p, e[k + 1][2]>> /\ e[k + 1] \notin O /\ e[k + 1] \notin P
  <2>1. e[k + 1] \in Marks
    BY <1>2
  <2>2. e[k + 1] = <<p, e[k + 1][2]>>
    BY <2>1 DEF Marks
  <2>3. \A v \in O : v[2] \in {-5, 5}
    BY DEF Outer
  <2>4. \A v \in P : v[2] \in {-5, 5}
    BY DEF Outer
  <2>5. e[k + 1][2] \notin {-5, 5}
    OBVIOUS
  <2> HIDE DEF p, P, O
  <2> QED BY <2>2, <2>3, <2>4, <2>5
<1>4. PICK i \in 1..Len(s) : s[i] = p /\ (e[k + 1][2] = -1 <=> i % 2 = 1)
  <2>1. MarksOf(e, r, s)
    BY MarksOfBounds
  <2> QED BY <2>1 DEF MarksOf
<1>5. /\ r \in Seq(Int) /\ Rising(r) /\ Len(r) % 2 = 0
      /\ s \in Seq(Int) /\ Rising(s) /\ Len(s) % 2 = 0
  BY DEF Canonical
<1>6. Len(r) \in Nat /\ Len(s) \in Nat /\ \A j \in 1..Len(r) : r[j] \in Int
  BY <1>5, LenProperties, ElementOfSeq
<1>7. p - 1 \in Int
  BY <1>1
<1>8. n \in 0..Len(r) /\ \A j \in 1..Len(r) : r[j] <= p - 1 <=> j <= n
  BY <1>5, <1>7, CutAt
<1>9. m \in 0..Len(r) /\ \A j \in 1..Len(r) : r[j] <= p <=> j <= m
  BY <1>1, <1>5, CutAt
<1>10. /\ m = n + Hits(r, {p}) /\ Hits(r, {p}) \in {0, 1}
       /\ \A j \in 1..Len(r) : r[j] = p => Hits(r, {p}) = 1 /\ j = n + 1
  <2>1. BoundsAt(r, p)
    BY <1>1, <1>5, BoundAt
  <2> QED BY <2>1 DEF BoundsAt
<1>11. Hits(s, UpTo(p)) = Hits(s, UpTo(p - 1)) + 1 /\ i = Hits(s, UpTo(p - 1)) + 1
  <2>1. BoundsAt(s, p)
    BY <1>1, <1>5, BoundAt
  <2> QED BY <1>4, <2>1 DEF BoundsAt
<1>12. HitsTo(e, k + 1, P) = c /\ HitsTo(e, k + 1, O) = a
  <2>1. HitsTo(e, k + 1, P) = HitsTo(e, k, P) /\ HitsTo(e, k + 1, O) = HitsTo(e, k, O)
    <3> HIDE DEF p, P, O
    <3> QED BY <1>3, HitsToStep
  <2> QED BY <2>1
<1>13. c <= Hits(r, {p})
  BY <1>1, <1>12
<1>14. ASSUME NEW l \in 1..Len(e)
       PROVE  /\ e[l] = <<p, -5>> => l <= k
              /\ e[l] = <<p, 5>> => ~(l <= k)
  <2>1. \/ l < k + 1 /\ (Before(e[l], e[k + 1]) \/ e[l] = e[k + 1])
        \/ l = k + 1
        \/ k + 1 < l /\ (Before(e[k + 1], e[l]) \/ e[l] = e[k + 1])
    BY DEF Marked
  <2>2. e[k + 1][1] = p /\ p \in Int /\ e[k + 1][2] \in {-1, 1}
    BY <1>1
  <2> HIDE DEF p
  <2>3. CASE e[l] = <<p, -5>>
    <3>1. e[l][1] = p /\ e[l][2] = -5
      BY <2>3
    <3>2. ~Before(e[k + 1], e[l]) /\ e[l] # e[k + 1]
      BY <2>2, <3>1 DEF Before
    <3>3. <<p, -5>> # <<p, 5>>
      OBVIOUS
    <3> QED BY <2>1, <2>3, <3>2, <3>3
  <2>4. CASE e[l] = <<p, 5>>
    <3>1. e[l][1] = p /\ e[l][2] = 5
      BY <2>4
    <3>2. ~Before(e[l], e[k + 1]) /\ e[l] # e[k + 1]
      BY <2>2, <3>1 DEF Before
    <3>3. <<p, -5>> # <<p, 5>>
      OBVIOUS
    <3> QED BY <2>1, <2>4, <3>2, <3>3
  <2> QED BY <2>3, <2>4
<1>15. ASSUME NEW l \in 1..Len(e)
       PROVE  e[l] \in P <=> e[l] = <<p, -5>> \/ e[l] = <<p, 5>>
  <2>1. e[l] = <<e[l][1], e[l][2]>>
    BY <1>2 DEF Marks
  <2>2. e[l] \in P <=> e[l][1] = p /\ (e[l][2] = -5 \/ e[l][2] = 5)
    BY <2>1 DEF Outer
  <2> HIDE DEF p, P
  <2> QED BY <2>1, <2>2
<1> HIDE DEF p, P, O
<1>16. c = 0 <=> \A l \in 1..k : e[l] \notin P
  BY HitsToNone DEF c
<1> DEFINE u == Hits(s, UpTo(p))  v == Hits(s, UpTo(p - 1))
<1>17. /\ u % 2 = 1 => m % 2 = 1
       /\ v % 2 = 1 => n % 2 = 1
  <2>1. \A b \in Int : b \in Blocks(s) <=> Hits(s, UpTo(b)) % 2 = 1
    BY BlocksAreOdd
  <2>2. \A b \in Int : b \in Blocks(r) <=> Hits(r, UpTo(b)) % 2 = 1
    BY BlocksAreOdd
  <2> QED BY <1>1, <1>7, <2>1, <2>2
<1>18. u \in Nat /\ v \in Nat
  BY <1>5, HitsNat
<1> HIDE DEF a, c, n, m, u, v
<1>19. u = v + 1 /\ i = u
  BY <1>11, <1>18 DEF u, v
<1>20. a % 2 = 1 /\ \A j \in 1..Len(r) : /\ j <= a => r[j] <= p
                                         /\ j > a => p <= r[j]
  <2>1. CASE e[k + 1][2] = -1
    <3>1. m % 2 = 1
      BY <1>4, <1>17, <1>19, <2>1
    <3>2. a = m
      <4>1. CASE Hits(r, {p}) = 0
        BY <1>1, <1>8, <1>10, <1>13, <4>1
      <4>2. CASE Hits(r, {p}) = 1
        <5>1. m = n + 1 /\ m \in 1..Len(r) /\ ~(m <= n) /\ m <= m
          BY <1>8, <1>9, <1>10, <4>2
        <5>2. r[m] = p
          <6>1. r[m] <= p /\ ~(r[m] <= p - 1) /\ r[m] \in Int
            BY <1>6, <1>8, <1>9, <5>1
          <6> QED BY <1>1, <6>1
        <5>3. PICK j \in 1..Len(e) : e[j] = <<p, -5>>
          BY <1>2, <3>1, <5>1, <5>2
        <5>4. j \in 1..k /\ e[j] \in P
          <6>1. j <= k /\ e[j] \in P
            BY <1>14, <1>15, <5>3
          <6> QED BY <6>1
        <5>5. c # 0
          BY <1>16, <5>4
        <5>6. c = 1
          BY <1>1, <1>13, <4>2, <5>5
        <5> QED BY <1>1, <5>1, <5>6
      <4> QED BY <1>10, <4>1, <4>2
    <3>3. ASSUME NEW j \in 1..Len(r)
          PROVE  (j <= a => r[j] <= p) /\ (j > a => p <= r[j])
      <4>1. r[j] \in Int /\ (r[j] <= p <=> j <= a)
        BY <1>6, <1>9, <3>2
      <4>2. a \in Int
        BY <1>9, <3>2
      <4> QED BY <1>1, <4>1, <4>2
    <3> QED BY <3>1, <3>2, <3>3
  <2>2. CASE e[k + 1][2] = 1
    <3>1. n % 2 = 1
      <4>1. i % 2 # 1
        <5>1. 1 # -1
          OBVIOUS
        <5> QED BY <1>4, <2>2, <5>1
      <4>2. (v + 1) % 2 = 1 - (v % 2) /\ v % 2 \in {0, 1}
        BY <1>18, Parity
      <4> QED BY <1>17, <1>19, <4>1, <4>2
    <3>2. c = 0
      <4>1. ASSUME NEW l \in 1..k PROVE e[l] \notin P
        <5>1. l \in 1..Len(e) /\ l <= k
          BY <1>2
        <5>2. e[l] # <<p, 5>>
          BY <1>14, <5>1
        <5>3. SUFFICES ASSUME e[l] = <<p, -5>> PROVE FALSE
          BY <1>15, <5>1, <5>2
        <5>4. e[l][1] = p /\ e[l][2] = -5 /\ -5 \in {-5, 5}
          BY <5>3
        <5>5. PICK j \in 1..Len(r) : r[j] = p /\ j % 2 = 1
          BY <1>2, <5>1, <5>4
        <5>6. j = n + 1
          BY <1>10, <5>5
        <5>7. n \in Nat
          BY <1>8
        <5>8. (n + 1) % 2 = 1 - (n % 2)
          BY <5>7, Parity
        <5> QED BY <3>1, <5>5, <5>6, <5>8
      <4> QED BY <1>16, <4>1
    <3>3. a = n
      BY <1>1, <1>8, <3>2
    <3>4. ASSUME NEW j \in 1..Len(r)
          PROVE  (j <= a => r[j] <= p) /\ (j > a => p <= r[j])
      <4>1. r[j] \in Int /\ (r[j] <= p - 1 <=> j <= a)
        BY <1>6, <1>8, <3>3
      <4>2. a \in Int
        BY <1>8, <3>3
      <4> QED BY <1>1, <4>1, <4>2
    <3> QED BY <3>1, <3>3, <3>4
  <2> QED BY <2>1, <2>2
<1>21. a \in 0..Len(r)
  BY <1>1, <1>8, <1>9, <1>10, <1>13
<1>22. a \in 1..Len(r) /\ a + 1 \in 1..Len(r)
  <2>1. a # 0
    <3>1. 0 % 2 # 1
      OBVIOUS
    <3> QED BY <1>20, <3>1
  <2>2. a # Len(r)
    <3>1. 0 # 1
      OBVIOUS
    <3> QED BY <1>5, <1>20, <3>1
  <2> QED BY <1>6, <1>21, <2>1, <2>2
<1>23. r[a] <= p /\ p <= r[a + 1]
  <2>1. a <= a /\ a + 1 > a
    BY <1>22
  <2> QED BY <1>20, <1>22, <2>1
<1> QED BY <1>12, <1>20, <1>22, <1>23 DEF a, p, O

LEMMA HalfOf ==
  ASSUME NEW a \in Nat
  PROVE  /\ a % 2 = 1 => \E g \in Nat : a = 2 * g + 1
         /\ a % 2 # 1 => \E g \in Nat : a = 2 * g
<1> DEFINE g == a \div 2
<1>1. g \in Nat /\ a = 2 * g + (a % 2) /\ a % 2 \in {0, 1}
  OBVIOUS
<1> HIDE DEF g
<1>2. a % 2 = 1 => a = 2 * g + 1
  BY <1>1
<1>3. a % 2 # 1 => a = 2 * g
  BY <1>1
<1> QED BY <1>1, <1>2, <1>3

LEMMA HalfLen ==
  ASSUME NEW r, Canonical(r)
  PROVE  Len(r) \in Nat /\ Half(r) \in Nat /\ Len(r) = 2 * Half(r)
<1>1. Len(r) \in Nat /\ Len(r) % 2 = 0
  BY LenProperties DEF Canonical
<1> DEFINE n == Len(r)
<1>2. n \in Nat /\ n % 2 = 0
  BY <1>1
<1> HIDE DEF n
<1>3. n \div 2 \in Nat /\ n = 2 * (n \div 2)
  BY <1>2
<1> QED BY <1>1, <1>3 DEF Half, n

\* The marks of a subset whose places are in U.
PlacedIn(r, U) == {m \in Inner(Int) : Place(Blocks(r), m[1]) \in U}

\* What the loop of map_within has after k marks: the blocks of the ranges of r
\* it has passed, where the one it is in starts, and the places it has put out.
LaidTo(r, e, k, acc) ==
  /\ acc \in Lays
  /\ \A h \in Nat :
       HitsTo(e, k, Outer(Int)) = 2 * h \/ HitsTo(e, k, Outer(Int)) = 2 * h + 1
         => acc.offset = Cardinality(BlocksTo(r, h))
  /\ \A h \in Nat : HitsTo(e, k, Outer(Int)) = 2 * h + 1 => acc.start = r[2 * h + 1]
  /\ \A U : Hits(acc.out, U) = HitsTo(e, k, PlacedIn(r, U))

LEMMA LayLays ==
  ASSUME NEW r, Canonical(r), NEW s, Canonical(s), Blocks(s) \subseteq Blocks(r),
         NEW e, Marked(e, r, s),
         NEW k \in Nat, k + 1 \in 1..Len(e), NEW acc, LaidTo(r, e, k, acc)
  PROVE  LaidTo(r, e, k + 1, Lay(acc, e[k + 1]))
<1> DEFINE a == HitsTo(e, k, Outer(Int))  b == HitsTo(e, k + 1, Outer(Int))
           m == e[k + 1]  next == Lay(acc, e[k + 1])
           C(h) == Cardinality(BlocksTo(r, h))
<1>1. acc \in Lays /\ m \in Marks
  <2>1. MarksOf(e, r, s)
    BY MarksOfBounds
  <2> QED BY <2>1 DEF MarksOf, LaidTo
<1>2. m[1] \in Int /\ m[2] \in {-5, -1, 1, 5} /\ m = <<m[1], m[2]>>
  BY <1>1 DEF Marks
<1>3. next \in Lays
  BY <1>1, LayTyped
<1>4. /\ m[2] = -5 => next = [acc EXCEPT !.start = m[1]]
      /\ m[2] = 5 => next = [acc EXCEPT !.offset = acc.offset + m[1] - acc.start]
      /\ m[2] \in {-1, 1} =>
           next = [acc EXCEPT !.out = Append(acc.out, acc.offset + m[1] - acc.start)]
  BY <1>1, LayIs
<1>5. acc.out \in Seq(Int) /\ acc.offset \in Int /\ acc.start \in Int
  BY <1>1 DEF Lays
<1>6. /\ \A h \in Nat : a = 2 * h \/ a = 2 * h + 1 => acc.offset = C(h)
      /\ \A h \in Nat : a = 2 * h + 1 => acc.start = r[2 * h + 1]
      /\ \A U : Hits(acc.out, U) = HitsTo(e, k, PlacedIn(r, U))
  BY DEF LaidTo
<1>7. Len(r) \in Nat /\ Half(r) \in Nat /\ Len(r) = 2 * Half(r)
  BY HalfLen
<1>8. a \in Nat
  BY HitsToNone
<1>9. \A U : /\ m \in PlacedIn(r, U) => HitsTo(e, k + 1, PlacedIn(r, U)) = HitsTo(e, k, PlacedIn(r, U)) + 1
             /\ m \notin PlacedIn(r, U) => HitsTo(e, k + 1, PlacedIn(r, U)) = HitsTo(e, k, PlacedIn(r, U))
  BY HitsToStep
<1> HIDE DEF a, b, m, next, C
<1>10. SUFFICES /\ \A h \in Nat : b = 2 * h \/ b = 2 * h + 1 => next.offset = C(h)
                /\ \A h \in Nat : b = 2 * h + 1 => next.start = r[2 * h + 1]
                /\ \A U : Hits(next.out, U) = HitsTo(e, k + 1, PlacedIn(r, U))
  BY <1>3 DEF LaidTo, a, b, m, next, C
<1>11. CASE m[2] \in {-5, 5}
  <2>1. a + 1 \in 1..Len(r) /\ r[a + 1] = m[1] /\ (m[2] = -5 <=> (a + 1) % 2 = 1) /\ b = a + 1
    BY <1>11, MarkOfSet DEF a, b, m
  <2>2. next.out = acc.out
    BY <1>1, <1>4, <1>11 DEF Lays
  <2>3. ASSUME NEW U PROVE Hits(next.out, U) = HitsTo(e, k + 1, PlacedIn(r, U))
    <3>1. m \notin Inner(Int)
      <4>1. \A v \in Inner(Int) : v[2] \in {-1, 1}
        BY DEF Inner
      <4>2. \A x \in {-5, 5} : x \notin {-1, 1}
        OBVIOUS
      <4> QED BY <1>11, <4>1, <4>2
    <3>2. m \notin PlacedIn(r, U)
      BY <3>1 DEF PlacedIn
    <3> QED BY <1>6, <1>9, <2>2, <3>2
  <2>4. CASE m[2] = -5
    <3>1. next.offset = acc.offset /\ next.start = m[1]
      BY <1>1, <1>4, <2>4 DEF Lays
    <3>2. PICK g \in Nat : a = 2 * g
      <4>1. a % 2 # 1
        <5>1. (a + 1) % 2 = 1 - (a % 2) /\ a % 2 \in {0, 1}
          BY <1>8, Parity
        <5> QED BY <2>1, <2>4, <5>1
      <4> QED BY <1>8, <4>1, HalfOf
    <3>3. \A h \in Nat : b = 2 * h \/ b = 2 * h + 1 => h = g
      BY <2>1, <3>2
    <3>4. next.offset = C(g) /\ next.start = r[2 * g + 1]
      BY <1>6, <2>1, <3>1, <3>2
    <3> QED BY <2>3, <3>3, <3>4
  <2>5. CASE m[2] = 5
    <3>1. next.offset = acc.offset + m[1] - acc.start
      BY <1>1, <1>4, <2>5 DEF Lays
    <3>2. PICK g \in Nat : a = 2 * g + 1
      <4>1. a % 2 = 1
        <5>1. (a + 1) % 2 = 1 - (a % 2) /\ a % 2 \in {0, 1}
          BY <1>8, Parity
        <5>2. 5 # -5
          OBVIOUS
        <5> QED BY <2>1, <2>5, <5>1, <5>2
      <4> QED BY <1>8, <4>1, HalfOf
    <3>3. (\A h \in Nat : b = 2 * h \/ b = 2 * h + 1 => h = g + 1) /\ \A h \in Nat : b # 2 * h + 1
      BY <2>1, <3>2
    <3>4. a + 1 = 2 * (g + 1) /\ 2 * g + 1 = 2 * (g + 1) - 1 /\ g \in 0..Half(r) /\ g + 1 <= Half(r)
      BY <1>7, <2>1, <3>2
    <3>5. C(g + 1) = C(g) + (r[2 * (g + 1)] - r[2 * (g + 1) - 1]) /\ C(g) \in Nat
      BY <3>4, BlocksToCount DEF C
    <3>6. acc.offset = C(g) /\ acc.start = r[2 * (g + 1) - 1]
      BY <1>6, <3>2, <3>4
    <3>7. r[2 * (g + 1)] = m[1]
      BY <2>1, <3>4
    <3>8. next.offset = C(g + 1)
      BY <1>2, <1>5, <3>1, <3>5, <3>6, <3>7
    <3> QED BY <2>3, <3>3, <3>8
  <2> QED BY <1>11, <2>4, <2>5
<1>12. CASE m[2] \in {-1, 1}
  <2>1. /\ a \in 1..Len(r) /\ a + 1 \in 1..Len(r) /\ a % 2 = 1
        /\ r[a] <= m[1] /\ m[1] <= r[a + 1] /\ b = a
    BY <1>12, MarkOfSubset DEF a, b, m
  <2>2. PICK g \in Nat : a = 2 * g + 1
    BY <1>8, <2>1, HalfOf
  <2>3. a + 1 = 2 * (g + 1) /\ a = 2 * (g + 1) - 1 /\ g + 1 <= Half(r)
    BY <1>7, <2>1, <2>2
  <2>4. acc.offset = C(g) /\ acc.start = r[2 * (g + 1) - 1]
    BY <1>6, <2>2, <2>3
  <2> DEFINE x == acc.offset + m[1] - acc.start
  <2>5. x = Place(Blocks(r), m[1]) /\ x \in Int
    <3>1. r[2 * (g + 1) - 1] <= m[1] /\ m[1] <= r[2 * (g + 1)]
      BY <2>1, <2>3
    <3>2. Place(Blocks(r), m[1]) = C(g) + (m[1] - r[2 * (g + 1) - 1])
      BY <1>2, <2>3, <3>1, PlaceInRange DEF C
    <3> QED BY <1>2, <1>5, <2>4, <3>2
  <2>6. next.offset = acc.offset /\ next.start = acc.start /\ next.out = Append(acc.out, x)
    BY <1>1, <1>4, <1>12 DEF Lays
  <2> HIDE DEF x
  <2>7. ASSUME NEW U PROVE Hits(next.out, U) = HitsTo(e, k + 1, PlacedIn(r, U))
    <3>1. m \in Inner(Int)
      <4>1. \A y \in Int, q \in {-1, 1} : <<y, q>> \in Inner(Int)
        BY DEF Inner
      <4> QED BY <1>2, <1>12, <4>1
    <3>2. m \in PlacedIn(r, U) <=> x \in U
      BY <2>5, <3>1 DEF PlacedIn
    <3>3. /\ x \in U => Hits(Append(acc.out, x), U) = Hits(acc.out, U) + 1
          /\ x \notin U => Hits(Append(acc.out, x), U) = Hits(acc.out, U)
      BY <1>5, <2>5, HitsOfAppend
    <3> QED BY <1>6, <1>9, <2>6, <3>2, <3>3
  <2> QED BY <1>6, <2>1, <2>6, <2>7
<1> QED BY <1>2, <1>11, <1>12

\* All that the loop has put out in the end.
LEMMA LaidItems ==
  ASSUME NEW r, Canonical(r), NEW s, Canonical(s), Blocks(s) \subseteq Blocks(r)
  PROVE  LET out == Laid(Merged(r, s, -5, -1)) IN
           /\ out \in Seq(Int)
           /\ \A U : Hits(out, U) = Hits(s, {p \in Int : Place(Blocks(r), p) \in U})
<1> DEFINE e == Merged(r, s, -5, -1)
<1>1. Marked(e, r, s)
  BY MergedMarks
<1> HIDE DEF e
<1>2. MarksOf(e, r, s)
  BY <1>1, MarksOfBounds
<1>3. e \in Seq(Marks) /\ Len(e) \in Nat
  BY <1>1, <1>2 DEF Marked, MarksOf
<1>4. PICK f : /\ f[0] = NoLay
               /\ \A k \in 1..Len(e) : f[k] = Lay(f[k - 1], e[k])
               /\ Laid(e) = f[Len(e)].out
  BY <1>3, LayRuns
<1> DEFINE T == {k \in Nat : k <= Len(e) => LaidTo(r, e, k, f[k])}
<1>5. 0 \in T
  <2>0. \A U : HitsTo(e, 0, U) = 0
    BY HitsToStep
  <2>1. HitsTo(e, 0, Outer(Int)) = 0 /\ \A U : HitsTo(e, 0, PlacedIn(r, U)) = 0
    BY <2>0
  <2>2. \A h \in Nat : (0 = 2 * h \/ 0 = 2 * h + 1 => h = 0) /\ 0 # 2 * h + 1
    OBVIOUS
  <2>3. BlocksTo(r, 0) = {} /\ Cardinality({}) = 0
    BY FS_EmptySet DEF BlocksTo
  <2>4. NoLay \in Lays /\ NoLay.out = <<>> /\ NoLay.offset = 0
    BY DEF NoLay, Lays
  <2>5. \A U : Hits(<<>>, U) = 0
    <3>1. Len(<<>>) = 0 /\ \A x, U : HitsTo(x, 0, U) = 0
      BY HitsToStep
    <3> QED BY <3>1 DEF Hits
  <2>6. LaidTo(r, e, 0, NoLay)
    BY <2>1, <2>2, <2>3, <2>4, <2>5 DEF LaidTo
  <2> QED BY <1>4, <2>6
<1>6. ASSUME NEW k \in Nat, k \in T PROVE k + 1 \in T
  <2> SUFFICES ASSUME k + 1 <= Len(e) PROVE LaidTo(r, e, k + 1, f[k + 1])
    OBVIOUS
  <2>1. k + 1 \in 1..Len(e) /\ k + 1 - 1 = k /\ k <= Len(e)
    BY <1>3
  <2>2. LaidTo(r, e, k, f[k])
    BY <1>6, <2>1
  <2> HIDE DEF T
  <2>3. f[k + 1] = Lay(f[k], e[k + 1])
    BY <1>4, <2>1
  <2>4. LaidTo(r, e, k + 1, Lay(f[k], e[k + 1]))
    BY <1>1, <2>1, <2>2, LayLays
  <2> QED BY <2>3, <2>4
<1>7. LaidTo(r, e, Len(e), f[Len(e)])
  <2>1. Len(e) \in T
    <3> HIDE DEF T
    <3> QED BY <1>3, <1>5, <1>6, OneByOne
  <2> QED BY <1>3, <2>1
<1>8. Laid(e) \in Seq(Int) /\ \A U : Hits(Laid(e), U) = HitsTo(e, Len(e), PlacedIn(r, U))
  BY <1>4, <1>7 DEF LaidTo, Lays
<1>9. ASSUME NEW U
      PROVE  Hits(Laid(e), U) = Hits(s, {p \in Int : Place(Blocks(r), p) \in U})
  <2> DEFINE V == {p \in Int : Place(Blocks(r), p) \in U}
  <2>1. PlacedIn(r, U) = Inner(V)
    BY DEF PlacedIn, Inner
  <2>2. Hits(e, Inner(V)) = Hits(s, V)
    BY <1>2 DEF MarksOf
  <2> HIDE DEF V
  <2>3. Hits(Laid(e), U) = Hits(s, V)
    BY <1>8, <2>1, <2>2 DEF Hits
  <2> QED BY <2>3 DEF V
<1> QED BY <1>8, <1>9 DEF e

\* The places of a subset in the set.
LEMMA MapWithinBlocks ==
  ASSUME NEW r, Canonical(r), NEW s, Canonical(s), Blocks(s) \subseteq Blocks(r)
  PROVE  /\ Canonical(MapWithin(r, s))
         /\ Blocks(MapWithin(r, s)) = {Place(Blocks(r), b) : b \in Blocks(s)}
<1> DEFINE R == Blocks(r)  S == Blocks(s)  N == Cardinality(R)
           out == Laid(Merged(r, s, -5, -1))
           V(U) == {p \in Int : Place(R, p) \in U}
<1>1. out \in Seq(Int) /\ \A U : Hits(out, U) = Hits(s, V(U))
  BY LaidItems
<1>2. MapWithin(r, s) = RangeSet(out)
  BY DEF MapWithin
<1>3. s \in Seq(Int) /\ Len(s) % 2 = 0
  BY DEF Canonical
<1>4. R \in SUBSET Int /\ IsFiniteSet(R)
  BY BlocksFinite
<1>5. S \subseteq R /\ \A b \in Int : b \in S <=> Hits(s, UpTo(b)) % 2 = 1
  BY BlocksAreOdd
<1> HIDE DEF R, S, out
<1>6. /\ N \in Nat
      /\ \A b \in Int : Place(R, b) \in 0..N
      /\ \A b \in R : Place(R, b) < N
      /\ \A b, c \in Int : b <= c => Place(R, b) <= Place(R, c)
      /\ \A b \in R, c \in Int : b < c => Place(R, b) < Place(R, c)
      /\ \A i \in 0..N - 1 : \E b \in R : Place(R, b) = i
  BY <1>4, PlacesBelow
<1> HIDE DEF N
<1>7. Hits(out, Int) % 2 = 0
  <2>1. V(Int) = Int
    BY <1>6
  <2>2. Hits(s, Int) = Len(s)
    BY <1>3, HitsOfAll
  <2> HIDE DEF V
  <2> QED BY <1>1, <1>3, <2>1, <2>2
<1>8. Canonical(RangeSet(out)) /\ Blocks(RangeSet(out)) \subseteq Int
      /\ \A b \in Int : b \in Blocks(RangeSet(out)) <=> Hits(out, UpTo(b)) % 2 = 1
  BY <1>1, <1>7, RangeSetBlocks
<1>9. {Place(R, b) : b \in S} \subseteq Int
  <2>1. ASSUME NEW b \in S PROVE Place(R, b) \in Int
    <3>1. b \in Int /\ Place(R, b) \in 0..N
      BY <1>4, <1>5, <1>6
    <3> QED BY <1>6, <3>1
  <2> QED BY <2>1
<1>10. ASSUME NEW x \in Int
       PROVE  Hits(out, UpTo(x)) % 2 = 1 <=> x \in {Place(R, b) : b \in S}
  <2>1. Hits(out, UpTo(x)) = Hits(s, V(UpTo(x)))
    BY <1>1
  <2>2. CASE x < 0
    <3>1. V(UpTo(x)) = {}
      BY <1>6, <2>2 DEF UpTo
    <3>2. Hits(s, {}) = 0
      <4>1. Len(s) \in Nat
        BY <1>3, LenProperties
      <4>2. HitsTo(s, Len(s), {}) = 0
        BY <4>1, HitsToNone
      <4> QED BY <4>2 DEF Hits
    <3>3. x \notin {Place(R, b) : b \in S}
      BY <1>4, <1>5, <1>6, <2>2
    <3>4. 0 % 2 # 1
      OBVIOUS
    <3> HIDE DEF V
    <3> QED BY <2>1, <3>1, <3>2, <3>3, <3>4
  <2>3. CASE x >= N
    <3>1. V(UpTo(x)) = Int
      BY <1>6, <2>3 DEF UpTo
    <3>2. Hits(s, Int) = Len(s)
      BY <1>3, HitsOfAll
    <3>3. x \notin {Place(R, b) : b \in S}
      BY <1>4, <1>5, <1>6, <2>3
    <3>4. 0 # 1
      OBVIOUS
    <3> HIDE DEF V
    <3> QED BY <1>3, <2>1, <3>1, <3>2, <3>3, <3>4
  <2>4. CASE x \in 0..N - 1
    <3>1. PICK b \in R : Place(R, b) = x
      BY <1>6, <2>4
    <3>2. b \in Int
      BY <1>4, <3>1
    <3>3. V(UpTo(x)) = UpTo(b)
      <4>1. ASSUME NEW p \in Int PROVE Place(R, p) <= x <=> p <= b
        <5>1. Place(R, p) \in Int /\ (p <= b => Place(R, p) <= x) /\ (b < p => x < Place(R, p))
          BY <1>6, <3>1, <3>2
        <5> QED BY <3>2, <5>1
      <4>2. \A p \in Int : Place(R, p) \in Int
        BY <1>6
      <4> QED BY <4>1, <4>2 DEF UpTo
    <3>4. x \in {Place(R, c) : c \in S} <=> b \in S
      <4>1. ASSUME NEW c \in S, Place(R, c) = x PROVE c = b
        <5>1. c \in R /\ c \in Int
          BY <1>4, <1>5
        <5>2. (c < b => Place(R, c) < x) /\ (b < c => x < Place(R, c))
          BY <1>6, <3>1, <3>2, <5>1
        <5> QED BY <3>2, <4>1, <5>1, <5>2
      <4> QED BY <3>1, <4>1
    <3> HIDE DEF V
    <3> QED BY <1>5, <2>1, <3>2, <3>3, <3>4
  <2> QED BY <1>6, <2>2, <2>3, <2>4
<1>11. Blocks(RangeSet(out)) = {Place(R, b) : b \in S}
  BY <1>8, <1>9, <1>10
<1> QED BY <1>2, <1>8, <1>11 DEF R, S

\* Equal blocks, equal sequences.
LEMMA IsWithinBlocks ==
  ASSUME NEW r, Canonical(r), NEW s, Canonical(s)
  PROVE  IsWithin(s, r) <=> Blocks(s) \subseteq Blocks(r)
<1>1. Canonical(Intersect(r, s)) /\ Blocks(Intersect(r, s)) = Blocks(r) \cap Blocks(s)
  BY IntersectBlocks
<1>2. OfBlocks(Blocks(Intersect(r, s))) = Intersect(r, s) /\ OfBlocks(Blocks(s)) = s
  BY <1>1, OfBlocksOf
<1>3. Blocks(s) \subseteq Blocks(r) <=> Blocks(r) \cap Blocks(s) = Blocks(s)
  OBVIOUS
<1>4. Intersect(r, s) = s <=> Blocks(Intersect(r, s)) = Blocks(s)
  BY <1>2
<1> QED BY <1>1, <1>3, <1>4 DEF IsWithin

\* Every operation on two sets in canonical form computes the set it is named for, in
\* that form (rangelib.py, the docstrings of the class).
THEOREM RangeSetAlgebra ==
  ASSUME NEW r, Canonical(r), NEW s, Canonical(s), NEW n \in Nat
  PROVE  SetAlgebra(r, s, n)
<1> DEFINE R == Blocks(r)  S == Blocks(s)
<1>1. \A q : Canonical(q) => q = OfBlocks(Blocks(q))
  BY OfBlocksOf
<1>2. Union(r, s) = OfBlocks(R \cup S)
  BY <1>1, UnionBlocks
<1>3. Intersect(r, s) = OfBlocks(R \cap S)
  BY <1>1, IntersectBlocks
<1>4. Subtract(r, s) = OfBlocks(R \ S)
  BY <1>1, SubtractBlocks
<1>5. Overlaps(r, s) <=> R \cap S # {}
  BY OverlapsBlocks
<1>6. IsWithin(s, r) <=> S \subseteq R
  BY IsWithinBlocks
<1>7. S \subseteq R => MapWithin(r, s) = OfBlocks({Place(R, b) : b \in S})
  BY <1>1, MapWithinBlocks
<1>8. Size(r) = Cardinality(R)
  BY SizeCounts
<1>9. First(r, n) = OfBlocks({b \in R : Place(R, b) < n})
  BY <1>1, FirstBlocks
<1> QED BY <1>2, <1>3, <1>4, <1>5, <1>6, <1>7, <1>8, <1>9 DEF SetAlgebra

-----------------------------------------------------------------------------
(* The images.                                                              *)

ImageChunks == [type : ChunkTypes, len : Nat, zero : BOOLEAN]
Offsets == [start : Nat, len : Nat, type : ChunkTypes, zero : BOOLEAN]
Loads == {acc \in [pos : Nat, care : Seq(Int), map : Seq(Offsets)] : Len(acc.care) % 2 = 0}
NoLoad == [pos |-> 0, care |-> <<>>, map |-> <<>>]

LEMMA LoadTyped ==
  ASSUME NEW acc \in Loads, NEW c \in ImageChunks
  PROVE  Load(acc, c) \in Loads
<1>1. /\ acc \in [pos : Nat, care : Seq(Int), map : Seq(Offsets)]
      /\ acc.pos \in Nat /\ acc.care \in Seq(Int) /\ acc.map \in Seq(Offsets)
      /\ Len(acc.care) % 2 = 0
  BY DEF Loads
<1>2. c.type \in ChunkTypes /\ c.len \in Nat /\ c.zero \in BOOLEAN
  BY DEF ImageChunks
<1> DEFINE end == acc.pos + c.len
<1>3. end \in Nat
  BY <1>1, <1>2
<1>4. CASE c.type = "skip"
  <2>1. Load(acc, c) = [acc EXCEPT !.pos = end]
    BY <1>4 DEF Load
  <2> HIDE DEF end
  <2>2. [acc EXCEPT !.pos = end] \in [pos : Nat, care : Seq(Int), map : Seq(Offsets)]
    BY <1>1, <1>3
  <2>3. [acc EXCEPT !.pos = end].care = acc.care
    BY <1>1
  <2> QED BY <1>1, <2>1, <2>2, <2>3 DEF Loads
<1>5. CASE c.type # "skip"
  <2> DEFINE care == acc.care \o <<acc.pos, end>>
             o == [start |-> acc.pos, len |-> c.len, type |-> c.type, zero |-> c.zero]
             map == Append(acc.map, o)
  <2>1. Load(acc, c) = [pos |-> end, care |-> care, map |-> map]
    BY <1>5 DEF Load
  <2>2. care \in Seq(Int) /\ Len(care) = Len(acc.care) + 2
    <3>1. <<acc.pos, end>> \in Seq(Int) /\ Len(<<acc.pos, end>>) = 2
      BY <1>1, <1>3
    <3> HIDE DEF end
    <3> QED BY <1>1, <3>1, ConcatItems
  <2>3. map \in Seq(Offsets)
    <3>1. o \in Offsets
      BY <1>1, <1>2 DEF Offsets
    <3> HIDE DEF o
    <3> QED BY <1>1, <3>1
  <2>4. Len(care) % 2 = 0
    <3>1. Len(acc.care) \in Nat
      BY <1>1, LenProperties
    <3>2. \A n \in Nat : n % 2 = 0 => (n + 2) % 2 = 0
      OBVIOUS
    <3> HIDE DEF care
    <3> QED BY <1>1, <2>2, <3>1, <3>2
  <2> HIDE DEF end, care, map
  <2>5. [pos |-> end, care |-> care, map |-> map] \in Loads
    BY <1>3, <2>2, <2>3, <2>4 DEF Loads
  <2> QED BY <2>1, <2>5
<1> QED BY <1>4, <1>5

\* The loop over the chunks of an image, chunk by chunk.
LEMMA LoadRuns ==
  ASSUME NEW s \in Seq(ImageChunks)
  PROVE  \E f : /\ f[0] = NoLoad
                /\ \A k \in 1..Len(s) : f[k] = Load(f[k - 1], s[k])
                /\ Loaded(s) = f[Len(s)]
<1> DEFINE N == Len(s)
<1> DEFINE Equation(iter) == iter = [S \in SUBSET (1..N) |->
             IF S = {} THEN NoLoad ELSE Load(iter[S \ {Max(S)}], s[Max(S)])]
<1>1. N \in Nat /\ DOMAIN s = 1..N
  BY LenProperties
<1>2. \E iter : Equation(iter)
  <2> DEFINE G == [p \in Loads \X (1..N) |-> Load(p[1], s[p[2]])]
  <2>1. G \in [Loads \X (1..N) -> Loads]
    BY LoadTyped, ElementOfSeq
  <2>2. NoLoad \in Loads
    BY DEF NoLoad, Loads
  <2>3. PICK iter \in [SUBSET (1..N) -> Loads] : Tabulates(iter, N, NoLoad, G)
    <3> HIDE DEF G
    <3> QED BY <1>1, <2>1, <2>2, FoldTable
  <2>4. ASSUME NEW S \in SUBSET (1..N), S # {}
        PROVE  G[iter[S \ {Max(S)}], Max(S)] = Load(iter[S \ {Max(S)}], s[Max(S)])
    <3>1. Max(S) \in 1..N
      BY <1>1, <2>4, MaxIn
    <3>2. iter[S \ {Max(S)}] \in Loads
      BY <2>3
    <3> QED BY <3>1, <3>2
  <2>5. Equation(iter)
    <3> HIDE DEF G
    <3> QED BY <2>3, <2>4 DEF Tabulates
  <2> QED BY <2>5
<1> DEFINE iter == CHOOSE iter : Equation(iter)
<1>3. Equation(iter)
  BY <1>2
<1>4. FoldLeft(Load, NoLoad, s) = iter[1..N]
  BY <1>1 DEF FoldLeft, MapThenFoldSet
<1> HIDE DEF iter
<1> DEFINE f == [k \in 0..N |-> iter[1..k]]
<1>5. f[0] = NoLoad
  <2>1. 1..0 = {} /\ 0 \in 0..N
    BY <1>1
  <2> QED BY <1>3, <2>1
<1>6. ASSUME NEW k \in 1..N PROVE f[k] = Load(f[k - 1], s[k])
  <2>1. f[k] = iter[1..k] /\ f[k - 1] = iter[1..k - 1]
    BY <1>1
  <2>2. /\ 1..k \in SUBSET (1..N) /\ 1..k # {}
        /\ Max(1..k) = k /\ (1..k) \ {Max(1..k)} = 1..k - 1
    BY <1>1, PrefixFacts
  <2>3. iter[1..k] = Load(iter[(1..k) \ {Max(1..k)}], s[Max(1..k)])
    BY <1>3, <2>2
  <2> QED BY <2>1, <2>2, <2>3, Zenon
<1>7. f[N] = iter[1..N]
  BY <1>1
<1>8. Loaded(s) = f[N]
  BY <1>4, <1>7, Zenon DEF Loaded, NoLoad
<1> HIDE DEF f
<1> QED BY <1>5, <1>6, <1>8

LEMMA LoadedTyped ==
  ASSUME NEW s \in Seq(ImageChunks)
  PROVE  Loaded(s) \in Loads
<1>1. PICK f : /\ f[0] = NoLoad
               /\ \A k \in 1..Len(s) : f[k] = Load(f[k - 1], s[k])
               /\ Loaded(s) = f[Len(s)]
  BY LoadRuns
<1>2. Len(s) \in Nat /\ \A k \in 1..Len(s) : s[k] \in ImageChunks
  BY LenProperties, ElementOfSeq
<1> DEFINE T == {k \in Nat : k <= Len(s) => f[k] \in Loads}
<1>3. 0 \in T
  <2>1. NoLoad \in Loads
    <3>1. <<>> \in Seq(Int) /\ Len(<<>>) = 0 /\ <<>> \in Seq(Offsets) /\ 0 % 2 = 0
      OBVIOUS
    <3> QED BY <3>1 DEF NoLoad, Loads
  <2> QED BY <1>1, <2>1
<1>4. ASSUME NEW k \in Nat, k \in T PROVE k + 1 \in T
  <2> SUFFICES ASSUME k + 1 <= Len(s) PROVE f[k + 1] \in Loads
    OBVIOUS
  <2>1. k + 1 \in 1..Len(s) /\ k + 1 - 1 = k /\ f[k] \in Loads
    BY <1>2, <1>4
  <2>2. f[k + 1] = Load(f[k], s[k + 1])
    BY <1>1, <2>1
  <2> QED BY <1>2, <2>1, <2>2, LoadTyped
<1>5. Len(s) \in T
  <2> HIDE DEF T
  <2> QED BY <1>2, <1>3, <1>4, OneByOne
<1> QED BY <1>1, <1>2, <1>5

\* The care map of an image is a set in canonical form.
LEMMA CareMapCanonical ==
  ASSUME NEW s \in Seq(ImageChunks)
  PROVE  Canonical(CareMap(s)) /\ TotalBlocks(s) \in Nat
<1> DEFINE care == Loaded(s).care
<1>1. care \in Seq(Int) /\ Len(care) % 2 = 0 /\ Loaded(s).pos \in Nat
  BY LoadedTyped DEF Loads
<1>2. CareMap(s) = RangeSet(care)
  BY DEF CareMap
<1> HIDE DEF care
<1>3. Hits(care, Int) % 2 = 0
  BY <1>1, HitsOfAll
<1> QED BY <1>1, <1>2, <1>3, RangeSetBlocks DEF TotalBlocks

\* A set of blocks below a bound has its numbers.
LEMMA BlocksAreFew ==
  ASSUME NEW N \in Nat, NEW S \in SUBSET (0..N - 1)
  PROVE  Cardinality(S) \in Nat
<1>1. IsFiniteSet(0..N - 1)
  BY FS_Interval
<1> QED BY <1>1, FS_Subset, FS_CardinalityType

\* For every image and every set of blocks of it, every range set operation on the
\* care map and the set computes the set it is named for, in the one form that ==
\* compares (rangelib.py; sparse_img.py makes the care map).
THEOREM RangesComputeSets == Spec => []RangesAreSets
<1> DEFINE I == image \in Images
<1>1. Init => I
  BY DEF Init
<1>2. I /\ [Next]_vars => I'
  <2> SUFFICES ASSUME I, [Next]_vars PROVE I'
    OBVIOUS
  <2>1. CASE Img2sdat
    BY <2>1 DEF Img2sdat
  <2>2. CASE Sdat2img
    BY <2>2 DEF Sdat2img
  <2>3. CASE Flash
    BY <2>3 DEF Flash
  <2>4. CASE UNCHANGED vars
    BY <2>4 DEF vars
  <2> QED BY <2>1, <2>2, <2>3, <2>4 DEF Next
<1>3. I => RangesAreSets
  <2> SUFFICES ASSUME image \in Images, NEW S \in SUBSET (0..TotalBlocks(image) - 1)
               PROVE  /\ SetAlgebra(CareMap(image), OfBlocks(S), Cardinality(S))
                      /\ SetAlgebra(OfBlocks(S), CareMap(image), Cardinality(S))
    BY DEF RangesAreSets
  <2>1. image \in Seq(ImageChunks)
    BY BlockConstants DEF ImageChunks
  <2>2. Canonical(CareMap(image)) /\ TotalBlocks(image) \in Nat
    BY <2>1, CareMapCanonical
  <2>3. Canonical(OfBlocks(S)) /\ Cardinality(S) \in Nat
    BY <2>2, OfBlocksCanonical, BlocksAreFew
  <2> QED BY <2>2, <2>3, RangeSetAlgebra
<1> QED BY <1>1, <1>2, <1>3, PTL DEF Spec

ConvertSpec == ConvertInit /\ [][ConvertNext]_convertVars

Forms == {"raw", "sparse", "list", "none"} \cup DatFamily
Files == [form : Forms, of : Nat]
Stages == {"prepare", "decompress", "rebuild", "expand", "shrink", "sdat", "compress"}
Jobs == [at : Stages, from : Inputs, to : Outputs,
         chosen : Seq(Names), left : Seq(Names), ok : BOOLEAN,
         held : BOOLEAN, began : SUBSET Names]

TypeOK ==
  /\ sources \in [Names -> Files]
  /\ results \in [Names -> Files]
  /\ job = NoJob \/ (job \in Jobs /\ job.left # <<>>)
  /\ verdict = NoJob \/ verdict \in Jobs
  /\ brought \in Nat

Asked(j) == sources[Selected(j.from)[1]].of

\* The conversions ConvertedIsSource speaks of.
Regular(j) ==
  /\ j.ok /\ j.chosen = Selected(j.from)
  /\ ~(j.from = "xz" /\ "dat" \in j.began) /\ ~(j.held /\ "img" \in j.began)
  /\ Expected(j.from, j.chosen[1])

\* What output, the files r, holds when the conversion j is at a stage.
Ready(r, at, j) ==
  LET c == Asked(j) IN
  /\ at \in {"prepare", "decompress"} => (j.from = "xz" => r["dat"] = Absent)
  /\ at \in {"prepare", "decompress", "rebuild"} => (j.held => r["img"] = Absent)
  /\ at = "decompress" =>
       /\ j.from \in {"br", "xz"} /\ r[j.from] = File(j.from, c)
       /\ r["list"] = File("list", c)
  /\ at = "rebuild" => r["dat"] = File("dat", c) /\ r["list"] = File("list", c)
  /\ at = "expand" => j.from = "sparse" /\ r["img"] = File("sparse", c)
  /\ at = "shrink" => j.to # "raw" /\ r["img"] = File("raw", c)
  /\ at = "sdat" => j.to \in {"dat", "br"} /\ r["img"] = File("sparse", c)
  /\ at = "compress" =>
       j.to = "br" /\ r["dat"] = File("dat", c) /\ r["list"] = File("list", c)

Carried ==
  job # NoJob =>
    /\ verdict = NoJob
    /\ Regular(job) => job.left = job.chosen /\ Ready(results, job.at, job)

Inv == TypeOK /\ Carried /\ ConvertedIsSource

LEMMA FileTyped == ASSUME NEW f \in Forms, NEW c \in Nat PROVE File(f, c) \in Files
  BY DEF File, Files

LEMMA ConstantsTyped ==
  /\ Absent \in Files
  /\ \A f \in Forms : Partial(f) \in Files
  BY DEF Absent, Partial, Wrong, File, Files, Forms

LEMMA PlacedTyped ==
  ASSUME TypeOK, NEW n \in Names, NEW f \in Files PROVE Placed(n, f) \in [Names -> Files]
  BY DEF TypeOK, Placed

LEMMA SelectedName ==
  ASSUME NEW from \in Inputs PROVE Selected(from) \in Seq(Names) /\ Selected(from)[1] \in Names
                                   /\ Len(Selected(from)) = 1
  BY DEF Selected, Inputs, Names, DatFamily

\* A conversion that is under way stays one, or ends.
LEMMA ToTyped ==
  ASSUME job \in Jobs, job.left # <<>>, NEW at \in Stages, To(at), verdict = NoJob \/ verdict \in Jobs
  PROVE  job' \in Jobs /\ job'.left # <<>> /\ (verdict' = NoJob \/ verdict' \in Jobs)
  BY DEF To, Jobs

LEMMA TailTyped ==
  ASSUME NEW S, NEW s \in Seq(S), Len(s) > 1 PROVE Tail(s) \in Seq(S) /\ Tail(s) # <<>>
<1>1. s # <<>> /\ Len(s) \in Nat
  OBVIOUS
<1>2. Tail(s) \in Seq(S) /\ Len(Tail(s)) = Len(s) - 1
  BY <1>1, HeadTailProperties
<1>3. \A t : t = <<>> => Len(t) = 0
  OBVIOUS
<1>4. Len(Tail(s)) # 0
  BY <1>1, <1>2
<1> QED BY <1>2, <1>3, <1>4, Zenon

LEMMA EndTyped ==
  ASSUME job \in Jobs, job.left # <<>>, NEW ok \in BOOLEAN, EndItem(ok), verdict = NoJob \/ verdict \in Jobs
  PROVE  /\ job' = NoJob \/ (job' \in Jobs /\ job'.left # <<>>)
         /\ verdict' = NoJob \/ verdict' \in Jobs
<1> DEFINE both == job.ok /\ ok
<1>1. both \in BOOLEAN
  OBVIOUS
<1>2. job.left \in Seq(Names)
  BY DEF Jobs
<1>3. CASE Len(job.left) > 1
  <2> DEFINE rest == Tail(job.left)
  <2>1. rest \in Seq(Names) /\ rest # <<>>
    BY <1>2, <1>3, TailTyped
  <2>2. job' = [job EXCEPT !.left = rest, !.ok = both, !.at = "prepare"] /\ verdict' = verdict
    BY <1>3 DEF EndItem
  <2> HIDE DEF both, rest
  <2> QED BY <1>1, <2>1, <2>2 DEF Jobs, Stages
<1>4. CASE ~(Len(job.left) > 1)
  <2>1. job' = NoJob /\ verdict' = [job EXCEPT !.ok = both]
    BY <1>4 DEF EndItem
  <2> HIDE DEF both
  <2> QED BY <1>1, <2>1 DEF Jobs
<1> QED BY <1>3, <1>4

LEMMA ItemTyped ==
  ASSUME TypeOK, job # NoJob
  PROVE  /\ job \in Jobs /\ job.left # <<>> /\ Item \in Names
         /\ results[Item] \in Files /\ sources[Item] \in Files
<1>1. job \in Jobs /\ job.left # <<>>
  BY DEF TypeOK
<1>2. Item \in Names
  BY <1>1, HeadTailProperties DEF Item, Jobs
<1> QED BY <1>1, <1>2 DEF TypeOK

\* The files keep to their types, whatever a step writes.
LEMMA ResultsTyped ==
  ASSUME TypeOK, ConvertStep, job # NoJob PROVE results' \in [Names -> Files]
<1>1. Item \in Names /\ results[Item] \in Files /\ sources[Item] \in Files
  BY ItemTyped
<1>2. {"img", "dat", "br", "list"} \subseteq Names /\ \A n \in Names : results[n] \in Files
  BY DEF TypeOK, Names, DatFamily
<1>3. /\ results \in [Names -> Files] /\ sources["list"] \in Files
      /\ \A n \in Names, f \in Files : Placed(n, f) \in [Names -> Files]
      /\ \A g \in [Names -> Files], n \in Names, f \in Files : [g EXCEPT ![n] = f] \in [Names -> Files]
  BY DEF TypeOK, Placed, Names
<1>4. /\ \A n \in Names, f \in Forms : File(f, results[n].of) \in Files
      /\ Joined \in Files /\ Shrunk \in Files
  BY <1>2 DEF File, Files, Joined, Shrunk, Forms, DatFamily, Wrong
<1>5. /\ CopiedAlone \in [Names -> Files] /\ Copied \in [Names -> Files]
      /\ Rebuilt \in [Names -> Files] /\ WithSdat \in [Names -> Files]
      /\ Compressed \in [Names -> Files]
  BY <1>1, <1>2, <1>3, <1>4, ConstantsTyped
     DEF CopiedAlone, Copied, Rebuilt, WithSdat, Compressed, Forms, DatFamily
<1>0. /\ Placed("img", Shrunk) \in [Names -> Files] /\ Placed("img", Joined) \in [Names -> Files]
      /\ Placed("img", Partial("raw")) \in [Names -> Files]
      /\ \A n \in {"dat", "br"} : /\ Placed(n, Partial(n)) \in [Names -> Files]
                               /\ Placed(n, Absent) \in [Names -> Files]
  BY <1>2, <1>3, <1>4, ConstantsTyped DEF Forms, DatFamily
<1> USE <1>0, <1>1, <1>2, <1>3, <1>4, <1>5, ConstantsTyped
<1>6. CASE Prepare
  BY <1>6 DEF Prepare
<1>7. CASE Decompress
  BY <1>7 DEF Decompress, Forms, DatFamily
<1>8. CASE DecompressFails
  BY <1>8 DEF DecompressFails
<1>9. CASE DatToRaw
  BY <1>9 DEF DatToRaw
<1>10. CASE SparseToRaw
  <2>1. [results[Item] EXCEPT !.form = "raw"] \in Files
    BY DEF Files, Forms
  <2>2. Placed(Item, [results[Item] EXCEPT !.form = "raw"]) \in [Names -> Files]
    BY <2>1
  <2> QED BY <1>10, <2>2 DEF SparseToRaw
<1>11. CASE RawToSparse
  BY <1>11 DEF RawToSparse
<1>12. CASE RawToDat
  BY <1>12 DEF RawToDat
<1>13. CASE Compress
  BY <1>13 DEF Compress
<1>14. CASE CompressFails
  BY <1>14 DEF CompressFails
<1>15. CASE Stop
  <2>1. Partial(sources[Item].form) \in Files
    BY DEF Files
  <2>2. Placed(Item, Partial(sources[Item].form)) \in [Names -> Files]
    BY <2>1
  <2>3. Halves \subseteq [Names -> Files]
    BY <2>2 DEF Halves
  <2> QED BY <1>15, <2>3 DEF Stop
<1> QED BY <1>6, <1>7, <1>8, <1>9, <1>10, <1>11, <1>12, <1>13, <1>14, <1>15 DEF ConvertStep

\* The conversion that runs and the one that ended keep to their types.
LEMMA JobTyped ==
  ASSUME TypeOK, ConvertStep, job # NoJob
  PROVE  /\ job' = NoJob \/ (job' \in Jobs /\ job'.left # <<>>)
         /\ verdict' = NoJob \/ verdict' \in Jobs
<1>1. job \in Jobs /\ job.left # <<>> /\ (verdict = NoJob \/ verdict \in Jobs)
  BY ItemTyped DEF TypeOK
<1>2. ASSUME NEW at \in Stages, To(at)
      PROVE  job' \in Jobs /\ job'.left # <<>> /\ (verdict' = NoJob \/ verdict' \in Jobs)
  BY <1>1, <1>2, ToTyped
<1>3. ASSUME NEW ok \in BOOLEAN, EndItem(ok)
      PROVE  /\ job' = NoJob \/ (job' \in Jobs /\ job'.left # <<>>)
             /\ verdict' = NoJob \/ verdict' \in Jobs
  BY <1>1, <1>3, EndTyped
<1>4. CASE Stop
  BY <1>4 DEF Stop
<1>5. CASE \E at \in Stages : To(at)
  BY <1>2, <1>5
<1>6. CASE \E ok \in BOOLEAN : EndItem(ok)
  BY <1>3, <1>6
<1>7. Onward => To("shrink") \/ \E ok \in BOOLEAN : EndItem(ok)
  BY DEF Onward
<1>8. ConvertStep =>
        Stop \/ (\E at \in Stages : To(at)) \/ (\E ok \in BOOLEAN : EndItem(ok))
  BY <1>1, <1>7 DEF ConvertStep, Prepare, Decompress, DecompressFails, DatToRaw, SparseToRaw,
     RawToSparse, RawToDat, Compress, CompressFails, Stages, Jobs, Inputs, DatFamily
<1> QED BY <1>4, <1>5, <1>6, <1>8

LEMMA StepOfJob == ConvertStep => job # NoJob
<1>1. Stop => job # NoJob
  BY DEF Stop
<1>2. \A at \in Stages : At(at) => job # NoJob
  BY DEF At, NoJob, Stages
<1>3. /\ Prepare => At("prepare")
      /\ Decompress \/ DecompressFails => At("decompress")
      /\ DatToRaw => At("rebuild")
      /\ SparseToRaw => At("expand")
      /\ RawToSparse => At("shrink")
      /\ RawToDat => At("sdat")
      /\ Compress \/ CompressFails => At("compress")
  BY Zenon DEF Prepare, Decompress, DecompressFails, DatToRaw, SparseToRaw, RawToSparse,
     RawToDat, Compress, CompressFails
<1> QED BY <1>1, <1>2, <1>3 DEF ConvertStep, Stages

LEMMA TypeNext == TypeOK /\ [ConvertNext]_convertVars => TypeOK'
<1> SUFFICES ASSUME TypeOK, [ConvertNext]_convertVars PROVE TypeOK'
  OBVIOUS
<1>1. CASE UNCHANGED convertVars
  BY <1>1 DEF TypeOK, convertVars
<1>2. ASSUME NEW name \in Names, NEW form \in Forms, NEW withList \in BOOLEAN, Bring(name, form, withList)
      PROVE  TypeOK'
  <2>1. File(form, brought + 1) \in Files /\ File("list", brought + 1) \in Files /\ brought + 1 \in Nat
    BY DEF TypeOK, File, Files, Forms
  <2>2. sources' \in [Names -> Files]
    BY <1>2, <2>1 DEF Bring, TypeOK, Names
  <2> QED BY <1>2, <2>1, <2>2 DEF Bring, TypeOK
<1>3. ASSUME NEW from \in Inputs, NEW to \in Outputs, NEW held \in BOOLEAN, Begin(from, to, held)
      PROVE  TypeOK'
  <2>1. PICK chosen \in Selections(from) :
          job' = [at |-> "prepare", from |-> from, to |-> to, chosen |-> chosen,
                  left |-> chosen, ok |-> TRUE, held |-> held, began |-> {n \in Names : Has(n)}]
    BY <1>3 DEF Begin
  <2>2. chosen \in Seq(Names) /\ chosen # <<>>
    <3>1. chosen \in {Selected(from), <<"bare">>, <<"img", "bare">>, <<"bare", "img">>}
      BY DEF Selections
    <3>2. Selected(from) \in Seq(Names) /\ Selected(from) # <<>>
      BY SelectedName
    <3>3. \A s \in {<<"bare">>, <<"img", "bare">>, <<"bare", "img">>} : s \in Seq(Names) /\ s # <<>>
      <4>1. <<"bare">> \in Seq(Names) /\ <<"bare">> # <<>>
        BY DEF Names
      <4>2. <<"img", "bare">> \in Seq(Names) /\ <<"img", "bare">> # <<>>
        BY DEF Names
      <4>3. <<"bare", "img">> \in Seq(Names) /\ <<"bare", "img">> # <<>>
        BY DEF Names
      <4> QED BY <4>1, <4>2, <4>3
    <3> QED BY <3>1, <3>2, <3>3
  <2> QED BY <1>3, <2>1, <2>2 DEF Begin, TypeOK, Jobs, Stages
<1>4. CASE ConvertStep /\ UNCHANGED <<sources, brought, conversions>>
  <2>1. job # NoJob
    BY <1>4, StepOfJob
  <2> QED BY <1>4, <2>1, ResultsTyped, JobTyped DEF TypeOK
<1> QED BY <1>1, <1>2, <1>3, <1>4 DEF ConvertNext, Names, Forms, DatFamily

LEMMA FileOf == \A f \in Files : f = File(f.form, f.of)
  BY DEF Files, File

\* A regular conversion has one file, the one it was selected for.
LEMMA OneItem ==
  ASSUME Inv, job # NoJob, Regular(job)
  PROVE  /\ job \in Jobs /\ Item = Selected(job.from)[1] /\ Len(job.left) = 1
         /\ sources[Item] = File(job.from, Asked(job))
         /\ job.from \in DatFamily => Item = job.from /\ sources["list"] = File("list", Asked(job))
         /\ job.from \notin DatFamily => Item = "img"
         /\ Ready(results, job.at, job) /\ verdict = NoJob
<1>1. /\ job \in Jobs /\ job.left = Selected(job.from) /\ job.chosen = Selected(job.from)
      /\ Ready(results, job.at, job) /\ verdict = NoJob
  BY DEF Inv, TypeOK, Carried, Regular
<1>2. job.from \in Inputs
  BY <1>1 DEF Jobs
<1>3. Item = Selected(job.from)[1] /\ Len(job.left) = 1
  BY <1>1 DEF Item, Selected
<1>4. /\ job.from \in DatFamily => Item = job.from
      /\ job.from \notin DatFamily => Item = "img"
  BY <1>3 DEF Selected
<1>5. Expected(job.from, Item)
  BY <1>1, <1>3 DEF Regular
<1>6. sources[Item] = File(job.from, Asked(job))
  BY <1>3, <1>5, FileOf, ItemTyped DEF Expected, Inv, Asked
<1> QED BY <1>1, <1>3, <1>4, <1>5, <1>6 DEF Expected, OwnList, Asked

\* To pass to a stage, output must hold what the stage expects.
LEMMA ToCarries ==
  ASSUME Inv, job # NoJob, UNCHANGED sources, NEW at \in Stages, To(at),
         Regular(job) => Ready(results', at, job)
  PROVE  Carried' /\ ConvertedIsSource'
<1>1. verdict = NoJob /\ verdict' = NoJob
  BY DEF Inv, Carried, To
<1>2. ConvertedIsSource'
  BY <1>1 DEF ConvertedIsSource
<1>3. job \in Jobs /\ job' = [job EXCEPT !.at = at]
  BY DEF Inv, TypeOK, To
<1>4. /\ job'.at = at /\ job'.from = job.from /\ job'.to = job.to /\ job'.ok = job.ok
      /\ job'.chosen = job.chosen /\ job'.left = job.left /\ job'.held = job.held
      /\ job'.began = job.began
  BY <1>3 DEF Jobs
<1>5. Regular(job)' => Regular(job)
  BY <1>4 DEF Regular, Expected, OwnList
<1>6. Regular(job) => job'.left = job'.chosen
  BY <1>4 DEF Inv, Carried
<1>7. Asked(job)' = Asked(job)
  BY <1>4 DEF Asked
<1>8. Ready(results', at, job) => Ready(results, job.at, job)'
  BY <1>4, <1>7 DEF Ready
<1> QED BY <1>1, <1>2, <1>5, <1>6, <1>8 DEF Carried

\* To succeed, output must hold what was asked for.
LEMMA EndCarries ==
  ASSUME Inv, job # NoJob, UNCHANGED sources, NEW ok \in BOOLEAN, EndItem(ok),
         \A to, c : ok /\ Regular(job) /\ to = job.to /\ c = Asked(job) => Holds(to, c)'
  PROVE  Carried' /\ ConvertedIsSource'
<1>1. job \in Jobs /\ verdict = NoJob
  BY DEF Inv, TypeOK, Carried
<1>2. CASE Len(job.left) > 1
  <2>1. ASSUME Regular(job) PROVE FALSE
    <3>1. Len(job.left) = 1
      BY <2>1, OneItem
    <3> QED BY <1>2, <3>1
  <2>2. /\ job' = [job EXCEPT !.left = Tail(@), !.ok = @ /\ ok, !.at = "prepare"]
        /\ verdict' = NoJob
    BY <1>1, <1>2 DEF EndItem
  <2>3. /\ job'.from = job.from /\ job'.chosen = job.chosen /\ job'.held = job.held
        /\ job'.began = job.began /\ (job'.ok => job.ok)
    BY <1>1, <2>2 DEF Jobs
  <2>4. ~Regular(job)'
    BY <2>1, <2>3 DEF Regular, Expected, OwnList
  <2> QED BY <2>2, <2>4 DEF Carried, ConvertedIsSource
<1>3. CASE ~(Len(job.left) > 1)
  <2>1. job' = NoJob /\ verdict' = [job EXCEPT !.ok = @ /\ ok]
    BY <1>3 DEF EndItem
  <2>2. /\ verdict'.from = job.from /\ verdict'.to = job.to /\ verdict'.chosen = job.chosen
        /\ verdict'.held = job.held /\ verdict'.began = job.began
        /\ (verdict'.ok => job.ok /\ ok)
    BY <1>1, <2>1 DEF Jobs
  <2>3. SUFFICES ASSUME verdict'.ok, Regular(job) PROVE Holds(verdict.to, sources[verdict.chosen[1]].of)'
    BY <2>1, <2>2 DEF Carried, ConvertedIsSource, Regular, Expected, OwnList
  <2>4. sources'[verdict'.chosen[1]].of = Asked(job)
    BY <2>2, <2>3 DEF Regular, Asked
  <2> QED BY <2>2, <2>3, <2>4 DEF Holds
<1> QED BY <1>2, <1>3

\* Every stage does what the next one, or success, relies on.
LEMMA StepCarries ==
  ASSUME Inv, ConvertStep, UNCHANGED sources PROVE Carried' /\ ConvertedIsSource'
<1>1. job # NoJob /\ TypeOK /\ job \in Jobs
  BY StepOfJob, ItemTyped DEF Inv
<1>2. \A n \in Names : results[n] \in Files
  BY <1>1 DEF TypeOK
<1>3. ASSUME NEW at \in Stages, To(at), Regular(job) => Ready(results', at, job)
      PROVE  Carried' /\ ConvertedIsSource'
  BY <1>1, <1>3, ToCarries
<1>4. ASSUME NEW ok \in BOOLEAN, EndItem(ok),
             \A to, c : ok /\ Regular(job) /\ to = job.to /\ c = Asked(job) => Holds(to, c)'
      PROVE  Carried' /\ ConvertedIsSource'
  BY <1>1, <1>4, EndCarries
<1>5. EndItem(FALSE) => Carried' /\ ConvertedIsSource'
  BY <1>4
<1>6. CASE Stop
  BY <1>6 DEF Stop, Carried, ConvertedIsSource
<1> USE DEF Stages
<1>7. ASSUME Onward, Regular(job) => results'["img"] = File("raw", Asked(job))
       PROVE  Carried' /\ ConvertedIsSource'
  <2>1. CASE job.to = "raw"
    <3> DEFINE there == results'["img"] # Absent
    <3>1. EndItem(there) /\ there \in BOOLEAN
      BY <1>7, <2>1 DEF Onward
    <3>2. \A to, c : there /\ Regular(job) /\ to = job.to /\ c = Asked(job) => Holds(to, c)'
      BY <1>7, <2>1 DEF Holds, DatFamily
    <3> HIDE DEF there
    <3> QED BY <1>4, <3>1, <3>2
  <2>2. CASE job.to # "raw"
    <3>1. To("shrink")
      BY <1>7, <2>2 DEF Onward
    <3>2. Regular(job) => Ready(results', "shrink", job)
      BY <1>7, <2>2 DEF Ready
    <3> QED BY <1>3, <3>1, <3>2
  <2> QED BY <2>1, <2>2
<1>8. CASE Prepare
  <2>1. CASE sources[Item] = Absent
    BY <1>5, <1>8, <2>1 DEF Prepare
  <2>2. CASE sources[Item] # Absent
    <3>1. results' = Copied /\ job.at = "prepare"
      BY <1>8, <2>2 DEF Prepare, At
    <3>2. ASSUME Regular(job)
          PROVE  /\ results'[Item] = File(job.from, Asked(job))
                 /\ job.from \in DatFamily =>
                      Item = job.from /\ results'["list"] = File("list", Asked(job))
                 /\ job.from \notin DatFamily => Item = "img"
                 /\ Ready(results, "prepare", job)
                 /\ \A n \in Names \ {Item, "list"} : results'[n] = results[n]
      <4>1. /\ sources[Item] = File(job.from, Asked(job)) /\ Ready(results, "prepare", job)
            /\ job.from \in DatFamily => Item = job.from /\ sources["list"] = File("list", Asked(job))
            /\ job.from \notin DatFamily => Item = "img"
        BY <1>1, <3>1, <3>2, OneItem
      <4>2. results \in [Names -> Files] /\ Item \in Names
        BY <1>1, ItemTyped DEF TypeOK
      <4>3. File("list", Asked(job)) # Absent
        BY DEF File, Absent
      <4> QED BY <3>1, <4>1, <4>2, <4>3 DEF Copied, CopiedAlone, Placed, Names, DatFamily
    <3>3. CASE job.from = job.to
      <4>1. EndItem(TRUE)
        BY <1>8, <2>2, <3>3 DEF Prepare
      <4>2. \A to, c : Regular(job) /\ to = job.to /\ c = Asked(job) => Holds(to, c)'
        BY <3>2, <3>3 DEF Holds, DatFamily
      <4> QED BY <1>4, <4>1, <4>2
    <3>4. CASE job.from # job.to /\ job.from \in {"br", "xz"}
      <4>1. To("decompress")
        BY <1>8, <2>2, <3>4 DEF Prepare
      <4>2. Regular(job) => Ready(results', "decompress", job)
        BY <3>2, <3>4 DEF Ready, Names, DatFamily
      <4> QED BY <1>3, <4>1, <4>2
    <3>5. CASE job.from # job.to /\ job.from = "dat"
      <4>1. To("rebuild")
        BY <1>8, <2>2, <3>5 DEF Prepare
      <4>2. Regular(job) => Ready(results', "rebuild", job)
        BY <3>2, <3>5 DEF Ready, Names, DatFamily
      <4> QED BY <1>3, <4>1, <4>2
    <3>6. CASE job.from # job.to /\ job.from = "sparse"
      <4>1. To("expand")
        BY <1>8, <2>2, <3>6 DEF Prepare
      <4>2. Regular(job) => Ready(results', "expand", job)
        BY <3>2, <3>6 DEF Ready, Names, DatFamily
      <4> QED BY <1>3, <4>1, <4>2
    <3>7. CASE job.from # job.to /\ job.from = "raw"
      <4>1. To("shrink")
        BY <1>8, <2>2, <3>7 DEF Prepare
      <4>2. Regular(job) => Ready(results', "shrink", job)
        BY <3>2, <3>7 DEF Ready, Names, DatFamily
      <4> QED BY <1>3, <4>1, <4>2
    <3> QED BY <1>1, <3>3, <3>4, <3>5, <3>6, <3>7 DEF Jobs, Inputs, DatFamily
  <2> QED BY <2>1, <2>2
<1>9. CASE Decompress
  <2>1. To("rebuild") /\ job.at = "decompress"
    BY <1>9 DEF Decompress, At
  <2>2. ASSUME Regular(job) PROVE Ready(results', "rebuild", job)
    <3>1. Ready(results, "decompress", job) /\ (job.from \in DatFamily => Item = job.from)
      BY <1>1, <2>1, <2>2, OneItem
    <3>2. results' = Placed("dat", File("dat", Asked(job)))
      BY <1>9, <3>1 DEF Decompress, Ready, Has, File, DatFamily
    <3> QED BY <1>1, <3>1, <3>2 DEF Ready, TypeOK, Placed, Names, DatFamily
  <2> QED BY <1>3, <2>1, <2>2
<1>10. CASE DatToRaw
  <2>1. CASE ~(Has("dat") /\ Has("list"))
    BY <1>5, <1>10, <2>1 DEF DatToRaw
  <2>2. CASE Has("dat") /\ Has("list")
    <3>1. results' = [Rebuilt EXCEPT !["list"] = Absent] /\ Onward /\ job.at = "rebuild"
      BY <1>10, <2>2 DEF DatToRaw, At
    <3>2. ASSUME Regular(job) PROVE results'["img"] = File("raw", Asked(job))
      <4>1. Ready(results, "rebuild", job)
        BY <1>1, <3>1, <3>2, OneItem
      <4>2. Joined = File("raw", Asked(job))
        BY <4>1 DEF Joined, Ready, Has, File
      <4> QED BY <1>1, <3>1, <4>2 DEF Rebuilt, Placed, TypeOK, Names
    <3> QED BY <1>7, <3>1, <3>2
  <2> QED BY <2>1, <2>2
<1>11. CASE RawToDat
  <2>1. results' = [WithSdat EXCEPT !["img"] = Absent] /\ job.at = "sdat"
    BY <1>11 DEF RawToDat, At
  <2>2. ASSUME Regular(job)
        PROVE  /\ results'["dat"] = File("dat", Asked(job)) /\ results'["list"] = File("list", Asked(job))
               /\ job.to \in {"dat", "br"}
    <3>1. Ready(results, "sdat", job)
      BY <1>1, <2>1, <2>2, OneItem
    <3> QED BY <1>1, <2>1, <3>1 DEF Ready, WithSdat, File, TypeOK, Names, DatFamily
  <2>3. CASE job.to = "dat"
    <3>1. EndItem(TRUE)
      BY <1>11, <2>3 DEF RawToDat
    <3>2. \A to, c : Regular(job) /\ to = job.to /\ c = Asked(job) => Holds(to, c)'
      BY <2>2, <2>3 DEF Holds, DatFamily
    <3> QED BY <1>4, <3>1, <3>2
  <2>4. CASE job.to # "dat"
    <3>1. To("compress")
      BY <1>11, <2>4 DEF RawToDat
    <3>2. Regular(job) => Ready(results', "compress", job)
      BY <2>2, <2>4 DEF Ready
    <3> QED BY <1>3, <3>1, <3>2
  <2> QED BY <2>3, <2>4
<1>12. CASE Compress
  <2>1. results' = [Compressed EXCEPT !["dat"] = Absent] /\ EndItem(TRUE) /\ job.at = "compress"
    BY <1>12 DEF Compress, At
  <2>2. ASSUME Regular(job), NEW to, NEW c, to = job.to, c = Asked(job) PROVE Holds(to, c)'
    <3>1. Ready(results, "compress", job)
      BY <1>1, <2>1, <2>2, OneItem
    <3> QED BY <1>1, <2>1, <2>2, <3>1
            DEF Ready, Compressed, Placed, File, Holds, TypeOK, Names, DatFamily
  <2> QED BY <1>4, <2>1, <2>2
<1>13. CASE SparseToRaw
  <2>1. CASE results[Item].form = "sparse"
    <3>1. results' = Placed(Item, [results[Item] EXCEPT !.form = "raw"]) /\ Onward /\ job.at = "expand"
      BY <1>13, <2>1 DEF SparseToRaw, At
    <3>2. ASSUME Regular(job) PROVE results'["img"] = File("raw", Asked(job))
      <4>1. /\ job.from = "sparse" /\ results["img"] = File("sparse", Asked(job))
            /\ Item = "img"
        BY <1>1, <3>1, <3>2, OneItem DEF Ready, DatFamily
      <4>2. [results["img"] EXCEPT !.form = "raw"] = File("raw", Asked(job))
        BY <4>1 DEF File
      <4> QED BY <1>1, <3>1, <4>1, <4>2 DEF Placed, TypeOK, Names
    <3> QED BY <1>7, <3>1, <3>2
  <2>2. CASE results[Item].form # "sparse"
    <3>1. job.at = "expand" /\ (To("shrink") \/ EndItem(FALSE))
      BY <1>13, <2>2 DEF SparseToRaw, At
    <3>2. ~Regular(job)
      BY <1>1, <2>2, <3>1, OneItem DEF Ready, DatFamily, File
    <3> QED BY <1>3, <1>5, <3>1, <3>2
  <2> QED BY <2>1, <2>2
<1>14. CASE RawToSparse
  <2>1. CASE ~Has("img")
    BY <1>5, <1>14, <2>1 DEF RawToSparse
  <2>2. CASE Has("img")
    <3>1. results' = Placed("img", Shrunk) /\ job.at = "shrink"
      BY <1>14, <2>2 DEF RawToSparse, At
    <3>2. ASSUME Regular(job)
          PROVE  results'["img"] = File("sparse", Asked(job)) /\ job.to # "raw"
      <4>1. job.to # "raw" /\ results["img"] = File("raw", Asked(job))
        BY <1>1, <3>1, <3>2, OneItem DEF Ready
      <4>2. Shrunk = File("sparse", Asked(job))
        BY <4>1 DEF Shrunk, File
      <4> QED BY <1>1, <3>1, <4>1, <4>2 DEF Placed, TypeOK, Names
    <3>3. CASE job.to = "sparse"
      <4>1. EndItem(TRUE)
        BY <1>14, <2>2, <3>3 DEF RawToSparse
      <4>2. \A to, c : Regular(job) /\ to = job.to /\ c = Asked(job) => Holds(to, c)'
        BY <3>2, <3>3 DEF Holds, DatFamily
      <4> QED BY <1>4, <4>1, <4>2
    <3>4. CASE job.to # "sparse"
      <4>1. To("sdat")
        BY <1>14, <2>2, <3>4 DEF RawToSparse
      <4>2. Regular(job) => Ready(results', "sdat", job)
        BY <1>1, <3>2, <3>4 DEF Ready, Jobs, Outputs, Inputs, DatFamily
      <4> QED BY <1>3, <4>1, <4>2
    <3> QED BY <3>3, <3>4
  <2> QED BY <2>1, <2>2
<1>15. CASE DecompressFails \/ CompressFails
  BY <1>5, <1>15 DEF DecompressFails, CompressFails
<1> QED BY <1>6, <1>8, <1>9, <1>10, <1>11, <1>12, <1>13, <1>14, <1>15 DEF ConvertStep

LEMMA InvInit == ConvertInit => Inv
  BY ConstantsTyped DEF ConvertInit, Inv, TypeOK, Carried, ConvertedIsSource, NoJob

LEMMA InvNext == Inv /\ [ConvertNext]_convertVars => Inv'
<1> SUFFICES ASSUME Inv, [ConvertNext]_convertVars PROVE Inv'
  OBVIOUS
<1>1. TypeOK'
  BY TypeNext DEF Inv
<1>2. CASE UNCHANGED convertVars
  <2>1. sources' = sources /\ results' = results /\ job' = job /\ verdict' = verdict
    BY <1>2 DEF convertVars
  <2>2. Carried'
    <3>1. Regular(job)' = Regular(job) /\ Ready(results, job.at, job)' = Ready(results, job.at, job)
      BY <2>1 DEF Regular, Expected, OwnList, Ready, Asked
    <3> QED BY <2>1, <3>1 DEF Inv, Carried
  <2>3. ConvertedIsSource'
    BY <2>1 DEF Inv, ConvertedIsSource, Expected, OwnList, Holds
  <2> QED BY <1>1, <2>2, <2>3 DEF Inv
<1>3. ASSUME NEW name, NEW form, NEW withList, Bring(name, form, withList)
      PROVE  Carried' /\ ConvertedIsSource'
  BY <1>3 DEF Bring, Carried, ConvertedIsSource
<1>4. ASSUME NEW from \in Inputs, NEW to \in Outputs, NEW held \in BOOLEAN, Begin(from, to, held)
      PROVE  Carried' /\ ConvertedIsSource'
  <2>1. PICK chosen \in Selections(from) :
          job' = [at |-> "prepare", from |-> from, to |-> to, chosen |-> chosen,
                  left |-> chosen, ok |-> TRUE, held |-> held, began |-> {n \in Names : Has(n)}]
    BY <1>4 DEF Begin
  <2>2. verdict' = NoJob /\ results' = results
    BY <1>4 DEF Begin
  <2>3. Regular(job)' => Ready(results, job.at, job)'
    <3>1. /\ job'.at = "prepare" /\ job'.from = from /\ job'.held = held
          /\ job'.began = {n \in Names : Has(n)}
      BY <2>1
    <3>2. Regular(job)' => (from = "xz" => ~Has("dat")) /\ (held => ~Has("img"))
      BY <3>1 DEF Regular, Names, DatFamily
    <3> QED BY <2>2, <3>1, <3>2 DEF Ready, Has
  <2> QED BY <2>1, <2>2, <2>3 DEF Carried, ConvertedIsSource
<1>5. CASE ConvertStep /\ UNCHANGED <<sources, brought, conversions>>
  BY <1>1, <1>5, StepCarries DEF Inv
<1> QED BY <1>1, <1>2, <1>3, <1>4, <1>5 DEF ConvertNext, Inv

\* A conversion that reports success has made the chosen file, whatever was
\* converted, failed or was killed before (convert_selection).
THEOREM ConversionsAreFaithful == ConvertSpec => []ConvertedIsSource
<1>1. Inv => ConvertedIsSource
  BY DEF Inv
<1> QED BY <1>1, InvInit, InvNext, PTL DEF ConvertSpec

------------------------------------------------------------------------------
(* Sparse parts                                                             *)

PartsSpec == PartsInit /\ [][PartsNext]_partsVars

\* The end of a part, and whether it holds a block.
End(part) == part.start + part.len
HoldsBlock(part, k) == part.start <= k /\ k < End(part)

PartOk(i, part) ==
  /\ i \in Nat /\ part.start \in Nat /\ part.len \in Nat
  /\ part.build \in DOMAIN Sizes

\* The parts are whole, of one build, one behind the other, and make up the blocks
\* before n.
Row(parts, b, n) ==
  /\ \A i \in DOMAIN parts : /\ PartOk(i, parts[i])
                             /\ parts[i].build = b /\ parts[i].state = "whole"
                             /\ End(parts[i]) <= n
  /\ \A i, j \in DOMAIN parts : i < j => End(parts[i]) <= parts[j].start
  /\ \A k \in 0..(n - 1) : \E i \in DOMAIN parts : HoldsBlock(parts[i], k)

\* A running split is somewhere before the end of a build.
SplitOk(s) ==
  /\ s = [build |-> s.build, index |-> s.index, start |-> s.start, per |-> s.per]
  /\ s.build \in DOMAIN Sizes /\ {s.index, s.start, s.per} \subseteq Nat
  /\ s.start < Sizes[s.build]

SplitTyped == build \in DOMAIN Sizes /\ (split # <<>> => SplitOk(split[1]))

\* While a split runs, its parts are those before its place; when it has ended, those
\* of the whole image, or none; when it has failed, at most the one it was writing.
PartsSound ==
  ~ tainted =>
    /\ split # <<>> => /\ DOMAIN dir = 0..(split[1].index - 1)
                       /\ Row(dir, split[1].build, split[1].start)
                       /\ ~ ended
    /\ split = <<>> /\ ended /\ DOMAIN dir # {} =>
         \E b \in DOMAIN Sizes : Row(dir, b, Sizes[b])
    /\ split = <<>> /\ ~ ended =>
         /\ \A i \in DOMAIN dir : PartOk(i, dir[i])
         /\ \A i, j \in DOMAIN dir : i = j

PartsInv == SplitTyped /\ PartsSound /\ MergedIsSource

LEMMA SizeIsPositive == ASSUME NEW b \in DOMAIN Sizes PROVE Sizes[b] \in Nat /\ Sizes[b] > 0
  BY PartConstants

\* Merging the parts of a whole image gives the image.
LEMMA RowIsImage ==
  ASSUME NEW parts, NEW b \in DOMAIN Sizes, Row(parts, b, Sizes[b])
  PROVE  Overlay(parts) = Image(b)
<1> DEFINE n == Sizes[b]
           ends == {parts[i].start + parts[i].len : i \in DOMAIN parts}
           holders(k) == {i \in DOMAIN parts :
                            k - 1 \in parts[i].start..(parts[i].start + parts[i].len - 1)}
<1>1. n \in Nat /\ n > 0
  BY SizeIsPositive
<1>2. \A i \in DOMAIN parts : i \in Nat /\ parts[i].start \in Nat /\ parts[i].len \in Nat /\ parts[i].build = b
  BY DEF Row, PartOk
<1>3. Max(ends) = n
  <2>1. \A e \in ends : e \in Nat /\ e <= n
    BY <1>2 DEF Row, End
  <2>2. n \in ends
    <3>1. PICK i \in DOMAIN parts : HoldsBlock(parts[i], n - 1)
      BY <1>1 DEF Row
    <3>2. parts[i].start + parts[i].len = n
      BY <1>1, <1>2, <3>1 DEF Row, End, HoldsBlock
    <3> QED
      BY <3>2
  <2> HIDE DEF ends
  <2>3. \A x \in ends : (\A y \in ends : y <= x) => x = n
    BY <1>1, <2>1, <2>2
  <2> QED
    BY <2>1, <2>2, <2>3 DEF Max
<1>4. ASSUME NEW k \in 1..n
      PROVE  holders(k) # {} /\ Max(holders(k)) \in DOMAIN parts
  <2>1. PICK i \in DOMAIN parts : HoldsBlock(parts[i], k - 1)
    BY <1>1 DEF Row
  <2>2. \A j : j \in holders(k) <=> j \in DOMAIN parts /\ HoldsBlock(parts[j], k - 1)
    BY <1>1, <1>2 DEF HoldsBlock, End
  <2>3. \A j \in holders(k) : j = i
    <3> SUFFICES ASSUME NEW j \in DOMAIN parts, HoldsBlock(parts[j], k - 1), j # i PROVE FALSE
      BY <2>2
    <3>1. i < j \/ j < i
      BY <1>2
    <3> QED
      BY <1>1, <1>2, <2>1, <3>1 DEF Row, HoldsBlock, End
  <2>4. i \in holders(k)
    BY <2>1, <2>2
  <2> HIDE DEF holders
  <2>5. i \in Nat
    BY <1>2
  <2>6. Max(holders(k)) = i
    BY <2>3, <2>4, <2>5 DEF Max
  <2> QED
    BY <2>4, <2>6
<1>5. Overlay(parts) = [k \in 1..Max(ends) |-> IF holders(k) = {} THEN Hole
                                               ELSE Block(parts[Max(holders(k))].build, k - 1)]
  BY DEF Overlay
<1> HIDE DEF ends, holders
<1>6. \A k \in 1..n : (IF holders(k) = {} THEN Hole
                       ELSE Block(parts[Max(holders(k))].build, k - 1)) = Block(b, k - 1)
  BY <1>2, <1>4
<1> QED
  BY <1>3, <1>5, <1>6 DEF Image

\* Merging a single part moves no block.
LEMMA OnePartStays ==
  ASSUME NEW parts, NEW i \in DOMAIN parts, PartOk(i, parts[i]), DOMAIN parts = {i}
  PROVE  \A k \in DOMAIN Overlay(parts) :
            Overlay(parts)[k] \in {Block(parts[i].build, k - 1), Hole}
<1> DEFINE ends == {parts[j].start + parts[j].len : j \in DOMAIN parts}
           holders(k) == {j \in DOMAIN parts :
                            k - 1 \in parts[j].start..(parts[j].start + parts[j].len - 1)}
<1>1. Overlay(parts) = [k \in 1..Max(ends) |-> IF holders(k) = {} THEN Hole
                                               ELSE Block(parts[Max(holders(k))].build, k - 1)]
  BY DEF Overlay
<1>2. ASSUME NEW k, holders(k) # {} PROVE Max(holders(k)) = i
  <2>1. holders(k) = {i}
    BY <1>2
  <2> HIDE DEF holders
  <2> QED
    BY <2>1 DEF Max, PartOk
<1> HIDE DEF ends, holders
<1> QED
  BY <1>1, <1>2

LEMMA PartsInitInv == PartsInit => PartsInv
  BY PartConstants DEF PartsInit, PartsInv, SplitTyped, PartsSound, MergedIsSource, ToSet, PartOk

LEMMA StartSplitKeeps ==
  ASSUME PartsInv, NEW count \in PartCounts, NEW keep \in BOOLEAN, StartSplit(count, keep)
  PROVE  PartsInv'
<1> DEFINE s == split'[1]
<1>1. Sizes[build] \in Nat /\ Sizes[build] > 0 /\ count \in Nat /\ count >= 2
  BY SizeIsPositive, PartConstants DEF PartsInv, SplitTyped
<1>2. (Sizes[build] + count - 1) \div count \in Nat
  BY <1>1
<1>3. split' # <<>> /\ s.build = build /\ s.index = 0 /\ s.start = 0
      /\ s.per = (Sizes[build] + count - 1) \div count
  BY DEF StartSplit
<1> HIDE DEF s
<1>4. SplitTyped'
  BY <1>1, <1>2, <1>3 DEF SplitTyped, SplitOk, s, PartsInv, StartSplit
<1>5. PartsSound'
  BY <1>3, SMTT(30) DEF PartsSound, s, StartSplit, Cleared, Without, Row
<1>6. MergedIsSource'
  BY DEF StartSplit, PartsInv, MergedIsSource
<1> QED
  BY <1>4, <1>5, <1>6 DEF PartsInv

LEMMA KillKeeps ==
  ASSUME PartsInv, NEW state, Kill(state)
  PROVE  PartsInv'
  BY DEF PartsInv, Kill, SplitTyped, PartsSound, MergedIsSource

LEMMA RebuildKeeps ==
  ASSUME PartsInv, Rebuild
  PROVE  PartsInv'
<1>1. build' \in DOMAIN Sizes
  BY PartConstants DEF PartsInv, SplitTyped, Rebuild
<1> QED
  BY <1>1 DEF PartsInv, Rebuild, SplitTyped, PartsSound, MergedIsSource, Row, PartOk, End, HoldsBlock

LEMMA TakeKeeps ==
  ASSUME PartsInv, Take
  PROVE  PartsInv'
  BY DEF PartsInv, Take, SplitTyped, PartsSound, MergedIsSource, Row, PartOk, End, HoldsBlock, SplitOk, ToSet

\* The part a running split is at begins at its place and ends within its build.
LEMMA CurrentIs ==
  ASSUME PartsInv, split # <<>>
  PROVE  /\ SplitOk(split[1]) /\ Sizes[split[1].build] \in Nat
         /\ Current.build = split[1].build /\ Current.start = split[1].start
         /\ Current.len \in Nat /\ Current.state = "whole"
         /\ Current.start + Current.len <= Sizes[split[1].build]
<1>1. SplitOk(split[1]) /\ Sizes[split[1].build] \in Nat
  BY SizeIsPositive DEF PartsInv, SplitTyped, SplitOk
<1> QED
  BY <1>1 DEF Current, SplitOk

\* The next part goes behind those that are there.
LEMMA RowGrows ==
  ASSUME NEW parts, NEW b, NEW i \in Nat, NEW part,
         DOMAIN parts = 0..(i - 1), Row(parts, b, part.start),
         PartOk(i, part), part.build = b, part.state = "whole"
  PROVE  /\ DOMAIN With(parts, i, part) = 0..i
         /\ Row(With(parts, i, part), b, End(part))
<1> DEFINE new == With(parts, i, part)
<1>1. /\ DOMAIN new = 0..i
      /\ new[i] = part /\ \A j \in 0..(i - 1) : new[j] = parts[j]
  BY DEF With
<1> HIDE DEF new
<1>2. ASSUME NEW j \in DOMAIN new
      PROVE  PartOk(j, new[j]) /\ new[j].build = b /\ new[j].state = "whole" /\ End(new[j]) <= End(part)
  <2>1. CASE j = i
    BY <1>1, <2>1 DEF End, PartOk
  <2>2. CASE j # i
    BY <1>1, <1>2, <2>2, SMTT(30) DEF Row, End, PartOk
  <2> QED
    BY <2>1, <2>2
<1>3. ASSUME NEW j \in DOMAIN new, NEW k \in DOMAIN new, j < k
      PROVE  End(new[j]) <= new[k].start
  <2>1. j \in 0..(i - 1) /\ new[j] = parts[j]
    BY <1>1, <1>3
  <2>2. CASE k = i
    BY <1>1, <2>1, <2>2 DEF Row
  <2>3. CASE k # i
    BY <1>1, <1>3, <2>1, <2>3 DEF Row
  <2> QED
    BY <2>2, <2>3
<1>4. ASSUME NEW k \in 0..(End(part) - 1)
      PROVE  \E j \in DOMAIN new : HoldsBlock(new[j], k)
  <2>1. CASE k < part.start
    <3>1. k \in 0..(part.start - 1)
      BY <2>1 DEF PartOk, End
    <3>2. PICK j \in DOMAIN parts : HoldsBlock(parts[j], k)
      BY <3>1 DEF Row
    <3> QED
      BY <3>2, <1>1
  <2>2. CASE ~ (k < part.start)
    <3>1. HoldsBlock(part, k)
      BY <2>2 DEF HoldsBlock, End, PartOk
    <3> QED
      BY <1>1, <3>1
  <2> QED
    BY <2>1, <2>2
<1> QED
  BY <1>1, <1>2, <1>3, <1>4 DEF Row, new

\* The place of a split after a piece.
LEMMA NextPlace ==
  ASSUME NEW s, SplitOk(s), NEW x
  PROVE  [s EXCEPT !.start = x, !.index = @ + 1]
           = [build |-> s.build, index |-> s.index + 1, start |-> x, per |-> s.per]
<1> SUFFICES ASSUME NEW r, r = [s EXCEPT !.start = x, !.index = @ + 1]
             PROVE  r = [build |-> s.build, index |-> s.index + 1, start |-> x, per |-> s.per]
  OBVIOUS
<1>1. s = [build |-> s.build, index |-> s.index, start |-> s.start, per |-> s.per]
  BY DEF SplitOk
<1>2. r = [build |-> r.build, index |-> r.index, start |-> r.start, per |-> r.per]
  BY <1>1
<1>3. r.build = s.build /\ r.index = s.index + 1 /\ r.start = x /\ r.per = s.per
  BY <1>1
<1> QED
  BY <1>2, <1>3

LEMMA WritePieceKeeps ==
  ASSUME PartsInv, WritePiece
  PROVE  PartsInv'
<1> DEFINE s == split[1]
           last == s.start + Current.len
<1>1. /\ SplitOk(s) /\ Sizes[s.build] \in Nat
      /\ Current.build = s.build /\ Current.start = s.start
      /\ Current.len \in Nat /\ Current.state = "whole"
      /\ last <= Sizes[s.build]
  BY CurrentIs DEF WritePiece
<1>2. MergedIsSource'
  BY DEF WritePiece, PartsInv, MergedIsSource
<1>3. CASE s.index \in DOMAIN dir
  <2>1. split' = <<>> /\ tainted' = tainted /\ build' = build
    BY <1>3 DEF WritePiece
  <2>2. tainted
    BY <1>1, <1>3 DEF PartsInv, PartsSound, WritePiece, SplitOk
  <2>3. SplitTyped' /\ PartsSound'
    BY <2>1, <2>2 DEF PartsInv, SplitTyped, PartsSound
  <2> QED
    BY <1>2, <2>3 DEF PartsInv
<1>4. CASE s.index \notin DOMAIN dir
  <2> DEFINE next == [s EXCEPT !.start = last, !.index = @ + 1]
  <2>1. /\ dir' = With(dir, s.index, Current)
        /\ split' = IF last < Sizes[s.build] THEN <<next>> ELSE <<>>
        /\ ended' = (last = Sizes[s.build])
        /\ UNCHANGED <<build, merged, tainted>>
    BY <1>4 DEF WritePiece
  <2>2. PartOk(s.index, Current) /\ End(Current) = last
    BY <1>1 DEF PartOk, SplitOk, End
  <2>3. ~ tainted => DOMAIN dir' = 0..s.index /\ Row(dir', s.build, last)
    <3> SUFFICES ASSUME ~ tainted PROVE DOMAIN dir' = 0..s.index /\ Row(dir', s.build, last)
      OBVIOUS
    <3>1. DOMAIN dir = 0..(s.index - 1) /\ Row(dir, s.build, Current.start) /\ s.index \in Nat
      BY <1>1 DEF PartsInv, PartsSound, WritePiece, SplitOk
    <3>2. /\ DOMAIN With(dir, s.index, Current) = 0..s.index
          /\ Row(With(dir, s.index, Current), s.build, End(Current))
      BY <3>1, <2>2, <1>1, RowGrows
    <3> QED
      BY <3>2, <2>1, <2>2
  <2>4. CASE last < Sizes[s.build]
    <3>1. /\ split'[1].build = s.build /\ split'[1].index = s.index + 1
          /\ split'[1].start = last /\ split'[1].per = s.per /\ split' # <<>>
      <4>1. next = [build |-> s.build, index |-> s.index + 1, start |-> last, per |-> s.per]
        BY <1>1, NextPlace
      <4>2. split' = <<next>> /\ split'[1] = next
        BY <2>1, <2>4
      <4> HIDE DEF next, last, s
      <4>3. split'[1] = [build |-> s.build, index |-> s.index + 1, start |-> last, per |-> s.per]
        BY <4>1, <4>2
      <4> QED
        BY <4>2, <4>3
    <3>2. SplitOk(split'[1])
      <4>1. split'[1] = [build |-> s.build, index |-> s.index + 1, start |-> last, per |-> s.per]
        BY <1>1, <2>1, <2>4, NextPlace
      <4>2. last \in Nat
        BY <1>1 DEF SplitOk
      <4> HIDE DEF next, last, s
      <4> QED
        BY <4>1, <4>2, <1>1, <2>4 DEF SplitOk
    <3>3. SplitTyped'
      BY <3>2, <2>1 DEF PartsInv, SplitTyped, SplitOk
    <3>4. ~ ended'
      <4>1. last # Sizes[s.build]
        BY <2>4, <1>1 DEF SplitOk
      <4> QED
        BY <4>1, <2>1, Zenon
    <3>5. 0..s.index = 0..(split'[1].index - 1)
      BY <3>1, <1>1 DEF SplitOk
    <3>6. PartsSound'
      BY <3>1, <3>4, <3>5, <2>3, <2>1 DEF PartsSound, Row, PartOk, End, HoldsBlock
    <3> QED
      BY <1>2, <3>3, <3>6 DEF PartsInv
  <2>5. CASE ~ (last < Sizes[s.build])
    <3>1. split' = <<>> /\ ended' /\ last = Sizes[s.build]
      <4>1. last = Sizes[s.build]
        BY <2>5, <1>1 DEF SplitOk
      <4> QED
        BY <4>1, <2>1, <2>5, Zenon
    <3>2. SplitTyped'
      BY <3>1, <2>1 DEF PartsInv, SplitTyped
    <3>3. s.build \in DOMAIN Sizes
      BY <1>1 DEF SplitOk
    <3>4. PartsSound'
      BY <3>1, <3>3, <2>3, <2>1 DEF PartsSound, Row, PartOk, End, HoldsBlock
    <3> QED
      BY <1>2, <3>2, <3>4 DEF PartsInv
  <2> QED
    BY <2>4, <2>5
<1> QED
  BY <1>3, <1>4

\* Of the parts of a split that fails the one it was writing stays.
LEMMA FailPieceKeeps ==
  ASSUME PartsInv, NEW state, FailPiece(state)
  PROVE  PartsInv'
<1> DEFINE s == split[1]
           torn == Torn(state)
<1>1. /\ SplitOk(s) /\ Current.build = s.build /\ Current.start = s.start /\ Current.len \in Nat
  BY CurrentIs DEF FailPiece
<1>2. PartOk(s.index, torn)
  BY <1>1 DEF Torn, Current, PartOk, SplitOk
<1>3. /\ dir' = With(Undo(dir), s.index, torn) /\ split' = <<>>
      /\ UNCHANGED <<build, merged, ended, tainted>>
  BY DEF FailPiece
<1> HIDE DEF torn
<1>4. SplitTyped' /\ MergedIsSource'
  BY <1>3 DEF PartsInv, SplitTyped, MergedIsSource
<1>5. ~ tainted => ~ ended /\ DOMAIN dir' = {s.index} /\ dir'[s.index] = torn
  BY <1>1, <1>3 DEF PartsInv, PartsSound, FailPiece, Undo, Without, With, SplitOk
<1>6. PartsSound'
  BY <1>2, <1>3, <1>5 DEF PartsSound, PartOk
<1> QED
  BY <1>4, <1>6 DEF PartsInv

LEMMA MergeKeeps ==
  ASSUME PartsInv, NEW deleteSource \in BOOLEAN, Merge(deleteSource)
  PROVE  PartsInv'
<1>1. UNCHANGED <<build, split, ended, tainted>> /\ split = <<>>
  BY DEF Merge
<1>2. SplitTyped'
  BY <1>1 DEF PartsInv, SplitTyped
<1>3. PartsSound'
  <2>1. CASE dir' = dir
    BY <1>1, <2>1 DEF PartsInv, PartsSound, Row, PartOk, End, HoldsBlock
  <2>2. CASE DOMAIN dir' = {}
    BY <1>1, <2>2 DEF PartsInv, PartsSound
  <2> QED
    BY <2>1, <2>2 DEF Merge, Without
<1>4. MergedIsSource'
  <2> SUFFICES ASSUME ~ tainted
               PROVE  \E b \in DOMAIN Sizes : \E m :
                         /\ merged' = <<m>>
                         /\ \A k \in DOMAIN m.blocks : m.blocks[k] \in {Block(b, k - 1), Hole}
                         /\ m.whole => m.blocks = Image(b)
    BY <1>1 DEF MergedIsSource, ToSet
  <2>1. CASE ended
    <3>1. PICK b \in DOMAIN Sizes : Row(dir, b, Sizes[b])
      BY <1>1, <2>1 DEF PartsInv, PartsSound, Merge
    <3>2. \A i \in DOMAIN dir : dir[i].state # "empty"
      BY <3>1 DEF Row
    <3>3. merged' = <<[blocks |-> Overlay(dir), whole |-> ended]>>
      BY <3>2 DEF Merge
    <3>4. Overlay(dir) = Image(b)
      BY <3>1, RowIsImage
    <3>5. \A k \in DOMAIN Image(b) : Image(b)[k] = Block(b, k - 1)
      BY DEF Image
    <3> QED
      BY <3>3, <3>4, <3>5
  <2>2. CASE ~ ended
    <3>1. PICK i \in DOMAIN dir : DOMAIN dir = {i} /\ PartOk(i, dir[i])
      BY <1>1, <2>2 DEF PartsInv, PartsSound, Merge
    <3>2. Lowest = i
      BY <3>1 DEF Lowest, Min, PartOk
    <3>3. merged' = <<[blocks |-> Overlay(dir), whole |-> ended]>>
      BY <3>1, <3>2 DEF Merge
    <3>4. \A k \in DOMAIN Overlay(dir) : Overlay(dir)[k] \in {Block(dir[i].build, k - 1), Hole}
      BY <3>1, OnePartStays
    <3> QED
      BY <2>2, <3>1, <3>3, <3>4 DEF PartOk
  <2> QED
    BY <2>1, <2>2
<1> QED
  BY <1>2, <1>3, <1>4 DEF PartsInv

LEMMA PartsNextInv == PartsInv /\ [PartsNext]_partsVars => PartsInv'
<1> SUFFICES ASSUME PartsInv, [PartsNext]_partsVars PROVE PartsInv'
  OBVIOUS
<1>1. CASE UNCHANGED partsVars
  BY <1>1 DEF partsVars, PartsInv, SplitTyped, SplitOk, PartsSound, Row, PartOk, End, HoldsBlock,
              MergedIsSource, ToSet
<1> QED
  BY <1>1, StartSplitKeeps, WritePieceKeeps, FailPieceKeeps, KillKeeps, RebuildKeeps,
     MergeKeeps, TakeKeeps DEF PartsNext

\* However many splits of other builds failed before, a merge never mixes two builds
\* or moves a block, and after a split that ended it gives the image back
\* (split_raw_image_to_sparse_parts, merge_sparse_overlays).
THEOREM MergedIsOfOneBuild == PartsSpec => []MergedIsSource
<1>1. PartsInv => MergedIsSource
  BY DEF PartsInv
<1> QED
  BY <1>1, PartsInitInv, PartsNextInv, PTL DEF PartsSpec
-----------------------------------------------------------------------------
(* Sequences of sequences.                                                  *)

\* A flattened sequence, sequence by sequence.
LEMMA FlattenRuns ==
  ASSUME NEW S, NEW ss \in Seq(Seq(S))
  PROVE  \E f : /\ f[0] = <<>>
                /\ \A k \in 1..Len(ss) : f[k] = f[k - 1] \o ss[k]
                /\ FlattenSeq(ss) = f[Len(ss)]
<1> DEFINE N == Len(ss)
<1>1. N \in Nat /\ DOMAIN ss = 1..N /\ \A i \in 1..N : ss[i] \in Seq(S)
  BY LenProperties, ElementOfSeq
<1>2. CASE N = 0
  <2> DEFINE f == [k \in 0..0 |-> <<>>]
  <2>1. ss = <<>>
    BY <1>2, EmptySeq
  <2>2. FlattenSeq(ss) = <<>>
    BY <1>2, <2>1 DEF FlattenSeq
  <2>3. f[0] = <<>> /\ 1..Len(ss) = {}
    BY <1>2
  <2> QED BY <1>2, <2>2, <2>3
<1>3. CASE N # 0
  <2> DEFINE Equation(g) == g = [i \in 1..N |-> IF i = 1 THEN ss[i] ELSE g[i - 1] \o ss[i]]
  <2>1. \E g : Equation(g)
    <3> DEFINE G == [p \in Seq(S) \X (1..N) |-> p[1] \o ss[p[2]]]
    <3>1. G \in [Seq(S) \X (1..N) -> Seq(S)]
      BY <1>1, ConcatProperties
    <3>2. <<>> \in Seq(S)
      OBVIOUS
    <3>3. PICK iter \in [SUBSET (1..N) -> Seq(S)] : Tabulates(iter, N, <<>>, G)
      <4> HIDE DEF G
      <4> QED BY <1>1, <3>1, <3>2, FoldTable
    <3> DEFINE g == [i \in 1..N |-> iter[1..i]]
               h == [i \in 1..N |-> IF i = 1 THEN ss[i] ELSE g[i - 1] \o ss[i]]
    <3>4. ASSUME NEW i \in 1..N PROVE g[i] = iter[1..i - 1] \o ss[i]
      <4>1. /\ 1..i \in SUBSET (1..N) /\ 1..i # {}
            /\ Max(1..i) = i /\ (1..i) \ {Max(1..i)} = 1..i - 1
        BY <1>1, PrefixFacts
      <4>2. iter[1..i] = G[iter[(1..i) \ {Max(1..i)}], Max(1..i)]
        <5> HIDE DEF G
        <5> QED BY <3>3, <4>1 DEF Tabulates
      <4>3. iter[1..i] = G[iter[1..i - 1], i]
        BY <4>1, <4>2, Zenon
      <4>4. 1..i - 1 \in SUBSET (1..N)
        BY <1>1
      <4>5. iter[1..i - 1] \in Seq(S)
        BY <3>3, <4>4
      <4> QED BY <4>3, <4>5
    <3>5. iter[1..0] = <<>>
      <4>1. 1..0 = {} /\ {} \in SUBSET (1..N)
        OBVIOUS
      <4> HIDE DEF G
      <4> QED BY <3>3, <4>1 DEF Tabulates
    <3>6. ASSUME NEW i \in 1..N PROVE g[i] = h[i]
      <4>1. CASE i = 1
        <5>1. i - 1 = 0
          BY <4>1
        <5>4. g[i] = iter[1..i - 1] \o ss[i]
          BY <3>4
        <5>2. <<>> \o ss[i] = ss[i]
          BY <1>1, ConcatEmptySeq
        <5>3. h[i] = ss[i]
          BY <4>1
        <5> HIDE DEF g, h
        <5> QED BY <3>5, <5>1, <5>2, <5>3, <5>4
      <4>2. CASE i # 1
        <5>1. i - 1 \in 1..N
          BY <1>1, <4>2
        <5>2. g[i - 1] = iter[1..i - 1]
          BY <5>1
        <5> QED BY <3>4, <4>2, <5>2
      <4> QED BY <4>1, <4>2
    <3>7. g = h
      <4>1. g = [i \in 1..N |-> g[i]]
        <5> HIDE DEF h
        <5> QED OBVIOUS
      <4>2. h = [i \in 1..N |-> h[i]]
        <5> HIDE DEF g
        <5> QED OBVIOUS
      <4> HIDE DEF g, h
      <4> QED BY <3>6, <4>1, <4>2
    <3> QED BY <3>7
  <2> DEFINE g == CHOOSE g : Equation(g)
  <2>2. Equation(g)
    <3> HIDE DEF Equation
    <3> QED BY <2>1, Zenon
  <2>3. FlattenSeq(ss) = g[N]
    BY <1>3 DEF FlattenSeq
  <2> HIDE DEF g
  <2> DEFINE f == [k \in 0..N |-> IF k = 0 THEN <<>> ELSE g[k]]
  <2>4. f[0] = <<>> /\ f[N] = g[N]
    BY <1>1, <1>3
  <2>5. ASSUME NEW k \in 1..N PROVE f[k] = f[k - 1] \o ss[k]
    <3>1. CASE k = 1
      <4>1. f[k] = ss[k] /\ f[k - 1] = <<>>
        BY <1>1, <2>2, <3>1
      <4> QED BY <1>1, <4>1, ConcatEmptySeq
    <3>2. CASE k # 1
      <4>1. k \in 0..N /\ k - 1 \in 0..N /\ k # 0 /\ k - 1 # 0
        BY <1>1, <3>2
      <4>2. f[k] = g[k] /\ f[k - 1] = g[k - 1]
        BY <4>1
      <4>3. g[k] = g[k - 1] \o ss[k]
        BY <2>2, <3>2
      <4> QED BY <4>2, <4>3
    <3> QED BY <3>1, <3>2
  <2> HIDE DEF f
  <2> QED BY <2>3, <2>4, <2>5
<1> QED BY <1>2, <1>3

Flattens(f, ss) ==
  /\ f[0] = <<>>
  /\ \A k \in 1..Len(ss) : f[k] = f[k - 1] \o ss[k]
  /\ FlattenSeq(ss) = f[Len(ss)]

\* The table of the runs, of sequences over one set.
LEMMA FlattenTable ==
  ASSUME NEW S, NEW ss \in Seq(Seq(S))
  PROVE  \E f \in [0..Len(ss) -> Seq(S)] : Flattens(f, ss)
<1> DEFINE N == Len(ss)
<1>1. N \in Nat /\ \A i \in 1..N : ss[i] \in Seq(S)
  BY LenProperties, ElementOfSeq
<1>2. PICK g : /\ g[0] = <<>>
               /\ \A k \in 1..N : g[k] = g[k - 1] \o ss[k]
               /\ FlattenSeq(ss) = g[N]
  BY FlattenRuns
<1> HIDE DEF N
<1> DEFINE T == {k \in Nat : k <= N => g[k] \in Seq(S)}
<1>3. 0 \in T
  <2>1. g[0] \in Seq(S)
    BY <1>2, EmptySeq
  <2> QED BY <2>1
<1>4. ASSUME NEW k \in Nat, k \in T PROVE k + 1 \in T
  <2> DEFINE j == k + 1
  <2> SUFFICES ASSUME j <= N PROVE g[j] \in Seq(S)
    OBVIOUS
  <2>1. j \in 1..N /\ j - 1 = k /\ g[k] \in Seq(S)
    BY <1>1, <1>4
  <2> HIDE DEF j
  <2>2. g[j] = g[j - 1] \o ss[j] /\ ss[j] \in Seq(S)
    BY <1>1, <1>2, <2>1
  <2> QED BY <2>1, <2>2, ConcatProperties
<1>5. Nat \subseteq T
  <2> HIDE DEF T
  <2> QED BY <1>3, <1>4, OneByOne
<1> DEFINE f == [k \in 0..N |-> g[k]]
<1>6. f \in [0..N -> Seq(S)]
  BY <1>1, <1>5
<1>7. f[0] = <<>> /\ f[N] = g[N]
  BY <1>1, <1>2
<1>8. ASSUME NEW k \in 1..N PROVE f[k] = f[k - 1] \o ss[k]
  <2>1. k \in 0..N /\ k - 1 \in 0..N
    BY <1>1
  <2>2. f[k] = g[k] /\ f[k - 1] = g[k - 1]
    BY <2>1
  <2> QED BY <1>2, <2>2
<1> HIDE DEF f
<1>9. Flattens(f, ss)
  BY <1>2, <1>7, <1>8 DEF N, Flattens
<1> QED BY <1>6, <1>9 DEF N

Items(s) == {s[i] : i \in 1..Len(s)}

\* The items of two sequences laid end to end.
LEMMA ItemsOfConcat ==
  ASSUME NEW S, NEW s \in Seq(S), NEW t \in Seq(S)
  PROVE  Items(s \o t) = Items(s) \cup Items(t)
<1> DEFINE m == Len(s)  n == Len(t)  u == s \o t
<1>1. /\ m \in Nat /\ n \in Nat /\ Len(u) = m + n
      /\ \A i \in 1..m : u[i] = s[i]
      /\ \A j \in 1..n : u[m + j] = t[j]
  BY ConcatItems
<1> HIDE DEF m, n, u
<1>2. {u[i] : i \in 1..m + n} = {s[i] : i \in 1..m} \cup {t[i] : i \in 1..n}
  <2>1. ASSUME NEW i \in 1..m + n
        PROVE  u[i] \in {s[j] : j \in 1..m} \cup {t[j] : j \in 1..n}
    <3>1. CASE i <= m
      <4>1. i \in 1..m
        BY <1>1, <3>1
      <4>2. u[i] = s[i]
        BY <1>1, <4>1
      <4> QED BY <4>1, <4>2
    <3>2. CASE ~(i <= m)

      <4> DEFINE j == i - m
      <4>1. j \in 1..n /\ m + j = i
        BY <1>1, <3>2
      <4> HIDE DEF j
      <4>2. u[i] = t[j]
        BY <1>1, <4>1
      <4> QED BY <4>1, <4>2
    <3> QED BY <3>1, <3>2
  <2>2. \A i \in 1..m : i \in 1..m + n
    BY <1>1
  <2>3. \A j \in 1..n : m + j \in 1..m + n
    BY <1>1
  <2>4. \A i \in 1..m : s[i] \in {u[j] : j \in 1..m + n}
    BY <1>1, <2>2
  <2>5. \A i \in 1..n : t[i] \in {u[j] : j \in 1..m + n}
    BY <1>1, <2>3
  <2> QED BY <2>1, <2>4, <2>5
<1> QED BY <1>1, <1>2 DEF Items, m, n, u

\* The items of a flattened sequence are those of its sequences.
LEMMA FlattenItems ==
  ASSUME NEW S, NEW ss \in Seq(Seq(S))
  PROVE  /\ FlattenSeq(ss) \in Seq(S)
         /\ \A x : x \in Items(FlattenSeq(ss)) <=> \E k \in 1..Len(ss) : x \in Items(ss[k])
<1> DEFINE N == Len(ss)
<1>1. N \in Nat /\ \A i \in 1..N : ss[i] \in Seq(S)
  BY LenProperties, ElementOfSeq
<1>2. PICK f \in [0..N -> Seq(S)] : Flattens(f, ss)
  BY FlattenTable
<1>3. /\ f[0] = <<>> /\ FlattenSeq(ss) = f[N]
      /\ \A k \in 1..N : f[k] = f[k - 1] \o ss[k]
  BY <1>2 DEF Flattens
<1> HIDE DEF N
<1> DEFINE T == {n \in Nat : n <= N =>
                   \A x : x \in Items(f[n]) <=> \E k \in 1..n : x \in Items(ss[k])}
<1>4. 0 \in T
  <2>1. Items(f[0]) = {} /\ 1..0 = {}
    BY <1>3 DEF Items
  <2> QED BY <2>1
<1>5. ASSUME NEW n \in Nat, n \in T PROVE n + 1 \in T
  <2> DEFINE j == n + 1
  <2> SUFFICES ASSUME j <= N, NEW x
               PROVE  x \in Items(f[j]) <=> \E k \in 1..j : x \in Items(ss[k])
    OBVIOUS
  <2>1. j \in 1..N /\ j - 1 = n /\ n \in 0..N
    BY <1>1
  <2>4. x \in Items(f[n]) <=> \E k \in 1..n : x \in Items(ss[k])
    BY <1>1, <1>5
  <2>5. \A k : k \in 1..j <=> k \in 1..n \/ k = j
    OBVIOUS
  <2> HIDE DEF j
  <2>2. f[j] = f[n] \o ss[j] /\ ss[j] \in Seq(S) /\ f[n] \in Seq(S)
    BY <1>1, <1>3, <2>1
  <2>3. Items(f[j]) = Items(f[n]) \cup Items(ss[j])
    BY <2>2, ItemsOfConcat
  <2> QED BY <2>3, <2>4, <2>5
<1>6. N \in T
  <2> HIDE DEF T
  <2> QED BY <1>1, <1>4, <1>5, OneByOne
<1>7. \A x : x \in Items(f[N]) <=> \E k \in 1..N : x \in Items(ss[k])
  BY <1>1, <1>6
<1>8. f[N] \in Seq(S)
  BY <1>1
<1> QED BY <1>3, <1>7, <1>8 DEF N

\* Two sequences whose items are related by R, place by place.
Pairwise(s, t, R) == Len(s) = Len(t) /\ \A i \in 1..Len(s) : <<s[i], t[i]>> \in R

\* Related sequences laid end to end are related.
LEMMA PairwiseConcat ==
  ASSUME NEW S, NEW s \in Seq(S), NEW x \in Seq(S), NEW R,
         NEW T, NEW t \in Seq(T), NEW y \in Seq(T), Pairwise(s, t, R), Pairwise(x, y, R)
  PROVE  Pairwise(s \o x, t \o y, R)
<1> DEFINE m == Len(s)  n == Len(x)  u == s \o x  v == t \o y
<1>1. /\ m \in Nat /\ n \in Nat /\ Len(u) = m + n
      /\ \A i \in 1..m : u[i] = s[i]
      /\ \A j \in 1..n : u[m + j] = x[j]
  BY ConcatItems
<1>2. /\ Len(v) = Len(t) + Len(y)
      /\ \A i \in 1..Len(t) : v[i] = t[i]
      /\ \A j \in 1..Len(y) : v[Len(t) + j] = y[j]
  BY ConcatItems
<1>3. /\ Len(t) = m /\ \A i \in 1..m : <<s[i], t[i]>> \in R
      /\ Len(y) = n /\ \A i \in 1..n : <<x[i], y[i]>> \in R
  BY DEF Pairwise
<1>4. /\ Len(v) = m + n
      /\ \A i \in 1..m : v[i] = t[i]
      /\ \A j \in 1..n : v[m + j] = y[j]
  BY <1>2, <1>3
<1> HIDE DEF m, n, u, v
<1>5. ASSUME NEW i \in 1..m + n PROVE <<u[i], v[i]>> \in R
  <2>1. CASE i <= m
    <3>1. i \in 1..m
      BY <1>1, <2>1
    <3>2. u[i] = s[i] /\ v[i] = t[i] /\ <<s[i], t[i]>> \in R
      BY <1>1, <1>3, <1>4, <3>1
    <3> QED BY <3>2
  <2>2. CASE ~(i <= m)
    <3> DEFINE j == i - m
    <3>1. j \in 1..n /\ m + j = i
      BY <1>1, <2>2
    <3> HIDE DEF j
    <3>2. u[i] = x[j] /\ v[i] = y[j] /\ <<x[j], y[j]>> \in R
      BY <1>1, <1>3, <1>4, <3>1
    <3> QED BY <3>2
  <2> QED BY <2>1, <2>2
<1>6. Len(u) = Len(v) /\ \A i \in 1..Len(u) : <<u[i], v[i]>> \in R
  BY <1>1, <1>4, <1>5
<1> QED BY <1>6 DEF Pairwise, u, v

\* Sequences related one by one are related when they are flattened.
LEMMA FlattenPairwise ==
  ASSUME NEW S, NEW ss \in Seq(Seq(S)), NEW T, NEW tt \in Seq(Seq(T)), NEW R,
         Len(ss) = Len(tt), \A k \in 1..Len(ss) : Pairwise(ss[k], tt[k], R)
  PROVE  Pairwise(FlattenSeq(ss), FlattenSeq(tt), R)
<1> DEFINE N == Len(ss)
<1>1. N \in Nat /\ \A i \in 1..N : ss[i] \in Seq(S) /\ tt[i] \in Seq(T)
  BY LenProperties, ElementOfSeq
<1>2. PICK f \in [0..N -> Seq(S)] : Flattens(f, ss)
  BY FlattenTable
<1>3. PICK g \in [0..N -> Seq(T)] : Flattens(g, tt)
  BY FlattenTable
<1>4. /\ f[0] = <<>> /\ FlattenSeq(ss) = f[N]
      /\ \A k \in 1..N : f[k] = f[k - 1] \o ss[k]
  BY <1>2 DEF Flattens
<1>5. /\ g[0] = <<>> /\ FlattenSeq(tt) = g[N]
      /\ \A k \in 1..N : g[k] = g[k - 1] \o tt[k]
  BY <1>3 DEF Flattens
<1>6. \A k \in 1..N : Pairwise(ss[k], tt[k], R)
  OBVIOUS
<1> HIDE DEF N
<1> DEFINE I == {n \in Nat : n <= N => Pairwise(f[n], g[n], R)}
<1>7. 0 \in I
  <2>1. Len(<<>>) = 0 /\ 1..0 = {}
    OBVIOUS
  <2>2. Pairwise(f[0], g[0], R)
    BY <1>4, <1>5, <2>1 DEF Pairwise
  <2> QED BY <2>2
<1>8. ASSUME NEW n \in Nat, n \in I PROVE n + 1 \in I
  <2> DEFINE j == n + 1
  <2> SUFFICES ASSUME j <= N PROVE Pairwise(f[j], g[j], R)
    OBVIOUS
  <2>1. j \in 1..N /\ j - 1 = n /\ n \in 0..N
    BY <1>1
  <2>2. Pairwise(f[n], g[n], R)
    BY <1>8, <2>1
  <2> HIDE DEF j, I
  <2>3. /\ f[j] = f[n] \o ss[j] /\ ss[j] \in Seq(S) /\ f[n] \in Seq(S)
        /\ g[j] = g[n] \o tt[j] /\ tt[j] \in Seq(T) /\ g[n] \in Seq(T)
    BY <1>1, <1>4, <1>5, <2>1
  <2>4. Pairwise(f[n] \o ss[j], g[n] \o tt[j], R)
    BY <1>6, <2>1, <2>2, <2>3, PairwiseConcat
  <2> QED BY <2>3, <2>4
<1>9. N \in I
  <2> HIDE DEF I
  <2> QED BY <1>1, <1>7, <1>8, OneByOne
<1>10. Pairwise(f[N], g[N], R)
  BY <1>1, <1>9
<1> QED BY <1>4, <1>5, <1>10

\* Three sequences concatenate in either order of the concatenations.
Associates(s, t, u) == (s \o t) \o u = s \o (t \o u)

LEMMA ConcatAssociates ==
  ASSUME NEW S, NEW s \in Seq(S), NEW t \in Seq(S), NEW u \in Seq(S)
  PROVE  Associates(s, t, u)
BY ConcatAssociative DEF Associates

\* A flattened sequence of sequences that follow others.
LEMMA FlattenConcat ==
  ASSUME NEW S, NEW ss \in Seq(Seq(S)), NEW tt \in Seq(Seq(S))
  PROVE  FlattenSeq(ss \o tt) = FlattenSeq(ss) \o FlattenSeq(tt)
<1> DEFINE m == Len(ss)  n == Len(tt)  u == ss \o tt
<1>1. /\ m \in Nat /\ n \in Nat /\ Len(u) = m + n /\ u \in Seq(Seq(S))
      /\ \A i \in 1..m : u[i] = ss[i]
      /\ \A j \in 1..n : u[m + j] = tt[j]
  BY ConcatItems
<1>2. \A i \in 1..n : tt[i] \in Seq(S)
  BY LenProperties, ElementOfSeq
<1>3. PICK f \in [0..m -> Seq(S)] : Flattens(f, ss)
  BY FlattenTable
<1>4. PICK g \in [0..n -> Seq(S)] : Flattens(g, tt)
  BY FlattenTable
<1>5. PICK h \in [0..Len(u) -> Seq(S)] : Flattens(h, u)
  BY <1>1, FlattenTable
<1>6. /\ f[0] = <<>> /\ FlattenSeq(ss) = f[m] /\ \A k \in 1..m : f[k] = f[k - 1] \o ss[k]
      /\ g[0] = <<>> /\ FlattenSeq(tt) = g[n] /\ \A k \in 1..n : g[k] = g[k - 1] \o tt[k]
      /\ h[0] = <<>> /\ FlattenSeq(u) = h[m + n]
      /\ \A k \in 1..m + n : h[k] = h[k - 1] \o u[k]
  BY <1>1, <1>3, <1>4, <1>5 DEF Flattens
<1> HIDE DEF m, n, u
<1> DEFINE I == {k \in Nat : k <= m => h[k] = f[k]}
<1>7. 0 \in I
  BY <1>6
<1>8. ASSUME NEW k \in Nat, k \in I PROVE k + 1 \in I
  <2> DEFINE j == k + 1
  <2> SUFFICES ASSUME j <= m PROVE h[j] = f[j]
    OBVIOUS
  <2>1. j \in 1..m /\ j \in 1..m + n /\ j - 1 = k
    BY <1>1
  <2>2. h[k] = f[k]
    BY <1>1, <1>8
  <2> HIDE DEF j, I
  <2>3. h[j] = h[k] \o u[j] /\ f[j] = f[k] \o ss[j] /\ u[j] = ss[j]
    BY <1>1, <1>6, <2>1
  <2> QED BY <2>2, <2>3
<1>9. m \in I
  <2> HIDE DEF I
  <2> QED BY <1>1, <1>7, <1>8, OneByOne
<1> DEFINE J == {k \in Nat : k <= n => h[m + k] = f[m] \o g[k]}
<1>10. 0 \in J
  <2>1. h[m] = f[m] /\ m + 0 = m /\ f[m] \in Seq(S)
    BY <1>1, <1>9
  <2>2. f[m] \o <<>> = f[m]
    BY <2>1, ConcatEmptySeq
  <2> QED BY <1>6, <2>1, <2>2
<1>11. ASSUME NEW k \in Nat, k \in J PROVE k + 1 \in J
  <2> DEFINE j == k + 1
             l == m + j
  <2>1. ASSUME j <= n PROVE h[l] = f[m] \o g[j]
    <3>1. j \in 1..n /\ l \in 1..m + n /\ j - 1 = k /\ l - 1 = m + k /\ k \in 0..n /\ m \in 0..m
      BY <1>1, <2>1
    <3>2. h[m + k] = f[m] \o g[k]
      BY <3>1, <1>11
    <3>3. u[l] = tt[j]
      BY <1>1, <3>1
    <3> HIDE DEF j, l, I, J
    <3>4. h[l] = h[m + k] \o u[l] /\ g[j] = g[k] \o tt[j]
      BY <1>6, <3>1
    <3>5. f[m] \in Seq(S) /\ g[k] \in Seq(S) /\ tt[j] \in Seq(S)
      BY <1>2, <3>1
    <3>6. (f[m] \o g[k]) \o tt[j] = f[m] \o (g[k] \o tt[j])
      <4> DEFINE a == f[m]  b == g[k]  c == tt[j]
      <4>1. a \in Seq(S) /\ b \in Seq(S) /\ c \in Seq(S)
        BY <3>5
      <4> HIDE DEF a, b, c
      <4>2. (a \o b) \o c = a \o (b \o c)
        <5>1. Associates(a, b, c)
          BY <4>1, ConcatAssociates, Zenon
        <5> QED BY <5>1 DEF Associates
      <4> QED BY <4>2 DEF a, b, c
    <3> QED BY <3>2, <3>3, <3>4, <3>6, Zenon
  <2>2. j \in Nat
    OBVIOUS
  <2> HIDE DEF j
  <2>3. j \in J
    BY <2>1, <2>2, Zenon
  <2> QED BY <2>3 DEF j
<1>12. n \in J
  <2> HIDE DEF J
  <2> QED BY <1>1, <1>10, <1>11, OneByOne
<1>14. n <= n
  BY <1>1
<1>13. h[m + n] = f[m] \o g[n]
  BY <1>12, <1>14, Zenon
<1> QED BY <1>6, <1>13 DEF u

\* Empty sequences flatten to the empty one.
LEMMA FlattenNone ==
  ASSUME NEW S, NEW ss \in Seq(Seq(S)), \A k \in 1..Len(ss) : ss[k] = <<>>
  PROVE  FlattenSeq(ss) = <<>>
<1>1. /\ FlattenSeq(ss) \in Seq(S)
      /\ \A x : x \in Items(FlattenSeq(ss)) <=> \E k \in 1..Len(ss) : x \in Items(ss[k])
  BY FlattenItems
<1>5. Items(<<>>) = {}
  BY DEF Items
<1>2. \A x : x \notin Items(FlattenSeq(ss))
  BY <1>1, <1>5
<1>3. Len(FlattenSeq(ss)) \in Nat
  BY <1>1, LenProperties
<1>4. Len(FlattenSeq(ss)) = 0
  <2> SUFFICES ASSUME Len(FlattenSeq(ss)) # 0 PROVE FALSE
    OBVIOUS
  <2>1. 1 \in 1..Len(FlattenSeq(ss))
    BY <1>3
  <2>2. FlattenSeq(ss)[1] \in Items(FlattenSeq(ss))
    BY <2>1 DEF Items
  <2> QED BY <1>2, <2>2
<1> QED BY <1>1, <1>4, EmptySeq

\* One sequence flattens to itself.
LEMMA FlattenOne ==
  ASSUME NEW S, NEW s \in Seq(S)
  PROVE  FlattenSeq(<<s>>) = s
<1>1. <<s>> \in Seq(Seq(S)) /\ Len(<<s>>) = 1 /\ <<s>>[1] = s
  OBVIOUS
<1>2. PICK f : /\ f[0] = <<>>
               /\ \A k \in 1..Len(<<s>>) : f[k] = f[k - 1] \o <<s>>[k]
               /\ FlattenSeq(<<s>>) = f[Len(<<s>>)]
  BY <1>1, FlattenRuns
<1>5. 1 \in 1..Len(<<s>>) /\ 1 - 1 = 0
  BY <1>1
<1>3. f[1] = f[1 - 1] \o s
  BY <1>1, <1>2, <1>5, Zenon
<1>4. <<>> \o s = s
  BY ConcatEmptySeq
<1>6. FlattenSeq(<<s>>) = f[1] /\ f[1 - 1] = <<>>
  BY <1>1, <1>2, <1>5
<1> QED BY <1>3, <1>4, <1>6

\* A function on the first numbers is a sequence.
LEMMA TableSeq ==
  ASSUME NEW S, NEW n \in Nat, NEW f \in [1..n -> S]
  PROVE  f \in Seq(S) /\ Len(f) = n /\ DOMAIN f = 1..n
OBVIOUS

\* An entry of an offset map.
LEMMA OffsetAt ==
  ASSUME NEW map \in Seq(Offsets), NEW i \in 1..Len(map)
  PROVE  map[i] \in Offsets /\ map[i].start \in Nat /\ map[i].len \in Nat
<1>1. map[i] \in Offsets
  BY ElementOfSeq
<1> QED BY <1>1 DEF Offsets

\* The blocks of a set, one by one.
LEMMA BlockListItems ==
  ASSUME NEW r, Canonical(r)
  PROVE  BlockList(r) \in Seq(Int) /\ Items(BlockList(r)) = Blocks(r)
<1> DEFINE h == Half(r)
           run(i) == [k \in 1..(r[2 * i] - r[2 * i - 1]) |-> r[2 * i - 1] + k - 1]
           ss == [i \in 1..h |-> run(i)]
<1>1. /\ h \in Nat
      /\ \A i \in 1..h : /\ r[2 * i - 1] \in Int /\ r[2 * i] \in Int
                         /\ r[2 * i - 1] < r[2 * i]
  BY RangesRise
<1>2. BlockList(r) = FlattenSeq(ss)
  <2>1. DOMAIN Ranges(r) = 1..h
    BY DEF Ranges, Half
  <2>2. \A i \in 1..h : Ranges(r)[i] = <<r[2 * i - 1], r[2 * i]>>
    BY DEF Ranges, Half
  <2> HIDE DEF h
  <2>3. [i \in DOMAIN Ranges(r) |->
           LET p == Ranges(r)[i] IN [k \in 1..(p[2] - p[1]) |-> p[1] + k - 1]] = ss
    BY <2>1, <2>2
  <2> HIDE DEF ss
  <2> QED BY <2>3 DEF BlockList
<1>3. ASSUME NEW i \in 1..h
      PROVE  run(i) \in Seq(Int) /\ Items(run(i)) = r[2 * i - 1]..(r[2 * i] - 1)
  <2> DEFINE x == r[2 * i - 1]  y == r[2 * i]
  <2>1. x \in Int /\ y \in Int /\ x < y
    BY <1>1
  <2> HIDE DEF x, y
  <2> DEFINE s == [k \in 1..(y - x) |-> x + k - 1]
  <2>2. y - x \in Nat /\ s \in [1..(y - x) -> Int]
    BY <2>1
  <2>3. s \in Seq(Int) /\ Len(s) = y - x
    <3> HIDE DEF s
    <3> QED BY <2>2, TableSeq
  <2>4. \A b \in x..(y - 1) : b - x + 1 \in 1..(y - x) /\ s[b - x + 1] = b
    BY <2>1
  <2>5. \A k \in 1..(y - x) : s[k] \in x..(y - 1)
    BY <2>1
  <2>6. Items(s) = x..(y - 1)
    <3> HIDE DEF s
    <3>1. Items(s) = {s[k] : k \in 1..(y - x)}
      BY <2>3 DEF Items
    <3> QED BY <2>4, <2>5, <3>1
  <2> QED BY <2>3, <2>6 DEF x, y
<1> HIDE DEF h, run
<1>4. ss \in Seq(Seq(Int)) /\ Len(ss) = h
  <2>1. ss \in [1..h -> Seq(Int)]
    BY <1>3
  <2> QED BY <1>1, <2>1
<1>5. \A i \in 1..h : Items(ss[i]) = r[2 * i - 1]..(r[2 * i] - 1)
  BY <1>3
<1> HIDE DEF ss
<1>6. /\ FlattenSeq(ss) \in Seq(Int)
      /\ \A x : x \in Items(FlattenSeq(ss)) <=> \E i \in 1..h : x \in Items(ss[i])
  BY <1>4, FlattenItems
<1>7. Blocks(r) = BlocksTo(r, h)
  BY BlocksToAll DEF h
<1>8. ASSUME NEW x
      PROVE  (\E i \in 1..h : x \in r[2 * i - 1]..(r[2 * i] - 1)) <=> x \in BlocksTo(r, h)
  BY <1>1 DEF BlocksTo
<1>9. Items(FlattenSeq(ss)) = Blocks(r)
  <2> SUFFICES ASSUME NEW x
               PROVE  x \in Items(FlattenSeq(ss)) <=> x \in BlocksTo(r, h)
    BY <1>7
  <2>1. (\E i \in 1..h : x \in Items(ss[i]))
          <=> \E i \in 1..h : x \in r[2 * i - 1]..(r[2 * i] - 1)
    BY <1>5
  <2> QED BY <1>6, <1>8, <2>1
<1> QED BY <1>2, <1>6, <1>9

\* What the maps of an image are after some of its chunks.
Mapped(acc) ==
  /\ acc \in Loads
  /\ \A i \in 1..Len(acc.map) : acc.map[i].start + acc.map[i].len <= acc.pos
  /\ \A i, j \in 1..Len(acc.map) :
       i < j => acc.map[i].start + acc.map[i].len <= acc.map[j].start
  /\ \A b \in Int : Hits(acc.care, UpTo(b)) % 2 = 1 <=>
       \E i \in 1..Len(acc.map) : /\ acc.map[i].start <= b
                                  /\ b < acc.map[i].start + acc.map[i].len

\* A chunk that is loaded keeps the maps in order (SparseImage.__init__).
LEMMA LoadMaps ==
  ASSUME NEW acc, Mapped(acc), NEW c \in ImageChunks
  PROVE  Mapped(Load(acc, c))
<1> DEFINE pos == acc.pos  len == c.len  end == pos + len
           map == acc.map  n == Len(map)  care == acc.care
<1>1. /\ acc \in Loads /\ Load(acc, c) \in Loads
      /\ pos \in Nat /\ care \in Seq(Int) /\ map \in Seq(Offsets) /\ n \in Nat
      /\ acc \in [pos : Nat, care : Seq(Int), map : Seq(Offsets)]
  BY LoadTyped, LenProperties DEF Loads, Mapped
<1>2. c.type \in ChunkTypes /\ c.len \in Nat /\ c.zero \in BOOLEAN
  BY DEF ImageChunks
<1>3. /\ \A i \in 1..n : map[i].start + map[i].len <= pos
      /\ \A i, j \in 1..n : i < j => map[i].start + map[i].len <= map[j].start
      /\ \A b \in Int : Hits(care, UpTo(b)) % 2 = 1 <=>
           \E i \in 1..n : map[i].start <= b /\ b < map[i].start + map[i].len
  BY DEF Mapped
<1>4. \A i \in 1..n : map[i] \in Offsets /\ map[i].start \in Nat /\ map[i].len \in Nat
  BY <1>1, OffsetAt
<1>5. CASE c.type = "skip"
  <2> DEFINE new == [acc EXCEPT !.pos = end]
  <2>1. Load(acc, c) = new
    BY <1>5 DEF Load
  <2>2. new.pos = end /\ new.care = care /\ new.map = map
    BY <1>1
  <2>3. \A i \in 1..n : map[i].start + map[i].len <= end
    BY <1>1, <1>2, <1>3, <1>4
  <2>4. new \in Loads
    BY <1>1, <2>1
  <2> HIDE DEF new, end, map, care, n
  <2>5. Mapped(new)
    BY <1>3, <2>2, <2>3, <2>4 DEF Mapped, n
  <2> QED BY <2>1, <2>5
<1>6. CASE c.type # "skip"
  <2> DEFINE o == [start |-> pos, len |-> len, type |-> c.type, zero |-> c.zero]
             new == Load(acc, c)
  <2>1. new.pos = end /\ new.care = care \o <<pos, end>> /\ new.map = Append(map, o)
    BY <1>6 DEF Load
  <2>2. end \in Nat /\ pos <= end /\ len \in Nat /\ end = pos + len
    BY <1>1, <1>2
  <2>3. o \in Offsets /\ o.start = pos /\ o.len = len
    BY <1>1, <1>2 DEF Offsets
  <2>4. new \in Loads
    BY <1>1
  <2> HIDE DEF o, new, end, pos, len, map, care
  <2>5. /\ Len(new.map) = n + 1 /\ new.map[n + 1] = o
        /\ \A i \in 1..n : new.map[i] = map[i]
    BY <1>1, <2>1, <2>3
  <2> HIDE DEF n
  <2>6. \A i \in 1..n + 1 : i \in 1..n \/ i = n + 1
    BY <1>1
  <2>7. ASSUME NEW i \in 1..n + 1 PROVE new.map[i].start + new.map[i].len <= end
    <3>1. CASE i \in 1..n
      <4>1. map[i].start + map[i].len <= pos /\ map[i].start \in Nat /\ map[i].len \in Nat
        BY <1>3, <1>4, <3>1
      <4>2. new.map[i] = map[i]
        BY <2>5, <3>1
      <4> QED BY <1>1, <2>2, <4>1, <4>2
    <3>2. CASE i = n + 1
      BY <1>1, <2>2, <2>3, <2>5, <3>2
    <3> QED BY <2>6, <3>1, <3>2
  <2>8. ASSUME NEW i \in 1..n + 1, NEW j \in 1..n + 1, i < j
        PROVE  new.map[i].start + new.map[i].len <= new.map[j].start
    <3>1. i \in 1..n /\ new.map[i] = map[i]
      BY <1>1, <2>5, <2>8
    <3>2. CASE j \in 1..n
      BY <1>3, <2>5, <2>8, <3>1, <3>2
    <3>3. CASE j = n + 1
      BY <1>3, <2>3, <2>5, <3>1, <3>3
    <3> QED BY <2>6, <3>2, <3>3
  <2>9. ASSUME NEW b \in Int
        PROVE  Hits(new.care, UpTo(b)) % 2 = 1 <=>
                 \E i \in 1..n + 1 : /\ new.map[i].start <= b
                                     /\ b < new.map[i].start + new.map[i].len
    <3> DEFINE H == Hits(care, UpTo(b))
               Old == \E i \in 1..n : map[i].start <= b /\ b < map[i].start + map[i].len
    <3>1. H \in Nat /\ (H % 2 = 1 <=> Old)
      BY <1>1, <1>3, HitsNat
    <3>2. Old => b < pos
      BY <1>1, <1>3, <1>4
    <3>3. (\E i \in 1..n + 1 : new.map[i].start <= b /\ b < new.map[i].start + new.map[i].len)
            <=> Old \/ (pos <= b /\ b < end)
      <4>1. new.map[n + 1].start = pos /\ new.map[n + 1].start + new.map[n + 1].len = end
        BY <2>2, <2>3, <2>5
      <4>2. n + 1 \in 1..n + 1 /\ \A i \in 1..n : i \in 1..n + 1
        BY <1>1
      <4> DEFINE In(m, i) == m[i].start <= b /\ b < m[i].start + m[i].len
      <4>3. \A i \in 1..n : In(new.map, i) <=> In(map, i)
        BY <2>5
      <4>4. In(new.map, n + 1) <=> pos <= b /\ b < end
        BY <4>1
      <4>5. Old <=> \E i \in 1..n : In(map, i)
        OBVIOUS
      <4> HIDE DEF In, Old
      <4>6. (\E i \in 1..n + 1 : In(new.map, i)) <=> Old \/ (pos <= b /\ b < end)
        BY <2>6, <4>2, <4>3, <4>4, <4>5
      <4> QED BY <4>6 DEF In
    <3> HIDE DEF Old
    <3>4. Hits(new.care, UpTo(b)) = H + Hits(<<pos, end>>, UpTo(b))
      <4> DEFINE two == <<pos, end>>
      <4>1. two \in Seq(Int)
        BY <1>1, <2>2
      <4> HIDE DEF two
      <4>2. Hits(care \o two, UpTo(b)) = H + Hits(two, UpTo(b))
        BY <1>1, <4>1, HitsOfConcat
      <4> QED BY <2>1, <4>2 DEF two
    <3>5. Hits(<<pos, end>>, UpTo(b)) =
            IF b < pos THEN 0 ELSE IF b < end THEN 1 ELSE 2
      <4>1. HitsTo(<<pos, end>>, 0, UpTo(b)) = 0
        BY HitsToStep
      <4>2. /\ pos \in UpTo(b) <=> pos <= b
            /\ end \in UpTo(b) <=> end <= b
        BY <1>1, <2>2 DEF UpTo
      <4>3. /\ pos \in UpTo(b) => HitsTo(<<pos, end>>, 1, UpTo(b)) = 1
            /\ pos \notin UpTo(b) => HitsTo(<<pos, end>>, 1, UpTo(b)) = 0
        <5>1. <<pos, end>>[0 + 1] = pos /\ 0 + 1 = 1
          OBVIOUS
        <5> QED BY <4>1, <5>1, HitsToStep
      <4>4. /\ end \in UpTo(b) => HitsTo(<<pos, end>>, 2, UpTo(b))
                                    = HitsTo(<<pos, end>>, 1, UpTo(b)) + 1
            /\ end \notin UpTo(b) => HitsTo(<<pos, end>>, 2, UpTo(b))
                                    = HitsTo(<<pos, end>>, 1, UpTo(b))
        <5>1. <<pos, end>>[1 + 1] = end /\ 1 + 1 = 2
          OBVIOUS
        <5> QED BY <5>1, HitsToStep
      <4>5. Hits(<<pos, end>>, UpTo(b)) = HitsTo(<<pos, end>>, 2, UpTo(b))
        BY DEF Hits
      <4> HIDE DEF UpTo
      <4> QED BY <1>1, <2>2, <4>2, <4>3, <4>4, <4>5
    <3> HIDE DEF H
    <3>6. CASE b < pos
      <4>1. ~(pos <= b /\ b < end) /\ Hits(new.care, UpTo(b)) = H
        BY <1>1, <2>2, <3>1, <3>4, <3>5, <3>6
      <4> QED BY <3>1, <3>3, <4>1
    <3>7. CASE pos <= b /\ b < end
      <4>1. ~(b < pos) /\ ~Old
        BY <1>1, <3>2, <3>7
      <4>2. Hits(new.care, UpTo(b)) = H + 1
        BY <3>4, <3>5, <3>7, <4>1
      <4>3. (H + 1) % 2 = 1
        BY <3>1, <4>1, Parity
      <4> QED BY <3>3, <3>7, <4>2, <4>3
    <3>8. CASE end <= b
      <4>1. ~(b < pos) /\ ~(b < end) /\ ~Old
        BY <1>1, <2>2, <3>2, <3>8
      <4>2. Hits(new.care, UpTo(b)) = H + 2
        BY <3>4, <3>5, <4>1
      <4>3. (H + 2) % 2 # 1
        BY <3>1, <4>1
      <4> QED BY <3>3, <4>1, <4>2, <4>3
    <3> QED BY <1>1, <2>2, <3>6, <3>7, <3>8
  <2>10. Mapped(new)
    BY <2>1, <2>4, <2>5, <2>7, <2>8, <2>9 DEF Mapped
  <2> QED BY <2>10 DEF new
<1> QED BY <1>5, <1>6

\* The maps of an image: chunks in order, and the care map the blocks they hold.
MapsOf(img, map) ==
  /\ map = OffsetMap(img) /\ map \in Seq(Offsets)
  /\ \A i \in 1..Len(map) : map[i].start + map[i].len <= TotalBlocks(img)
  /\ \A i, j \in 1..Len(map) : i < j => map[i].start + map[i].len <= map[j].start
  /\ \A b \in Int : b \in Blocks(CareMap(img)) <=>
       \E i \in 1..Len(map) : map[i].start <= b /\ b < map[i].start + map[i].len

\* The maps of an image that is loaded.
LEMMA MapsOfImage ==
  ASSUME NEW img \in Seq(ImageChunks)
  PROVE  MapsOf(img, OffsetMap(img))
<1>1. PICK f : /\ f[0] = NoLoad
               /\ \A k \in 1..Len(img) : f[k] = Load(f[k - 1], img[k])
               /\ Loaded(img) = f[Len(img)]
  BY LoadRuns
<1>2. Len(img) \in Nat /\ \A k \in 1..Len(img) : img[k] \in ImageChunks
  BY LenProperties, ElementOfSeq
<1> DEFINE T == {k \in Nat : k <= Len(img) => Mapped(f[k])}
<1>3. 0 \in T
  <2>1. NoLoad \in Loads
    <3>1. <<>> \in Seq(Int) /\ Len(<<>>) = 0 /\ <<>> \in Seq(Offsets) /\ 0 % 2 = 0
      OBVIOUS
    <3> QED BY <3>1 DEF NoLoad, Loads
  <2>2. NoLoad.care = <<>> /\ NoLoad.map = <<>> /\ Len(<<>>) = 0 /\ 1..0 = {}
    BY DEF NoLoad
  <2>6. \A P : HitsTo(<<>>, 0, P) = 0
    BY HitsToStep
  <2>3. \A b \in Int : Hits(<<>>, UpTo(b)) = 0
    BY <2>2, <2>6 DEF Hits
  <2>4. \A b \in Int : Hits(<<>>, UpTo(b)) % 2 # 1
    BY <2>3
  <2>5. Mapped(NoLoad)
    BY <2>1, <2>2, <2>4 DEF Mapped
  <2> QED BY <1>1, <2>5
<1>4. ASSUME NEW k \in Nat, k \in T PROVE k + 1 \in T
  <2> SUFFICES ASSUME k + 1 <= Len(img) PROVE Mapped(f[k + 1])
    OBVIOUS
  <2>1. k + 1 \in 1..Len(img) /\ k + 1 - 1 = k /\ Mapped(f[k])
    BY <1>2, <1>4
  <2>2. f[k + 1] = Load(f[k], img[k + 1])
    BY <1>1, <2>1
  <2> QED BY <1>2, <2>1, <2>2, LoadMaps
<1>5. Len(img) \in T
  <2> HIDE DEF T
  <2> QED BY <1>2, <1>3, <1>4, OneByOne
<1> DEFINE acc == Loaded(img)
<1>6. Mapped(acc)
  BY <1>1, <1>2, <1>5
<1> HIDE DEF acc
<1> DEFINE map == acc.map  care == acc.care
<1>7. /\ acc \in [pos : Nat, care : Seq(Int), map : Seq(Offsets)]
      /\ Len(care) % 2 = 0
      /\ \A i \in 1..Len(map) : map[i].start + map[i].len <= acc.pos
      /\ \A i, j \in 1..Len(map) : i < j => map[i].start + map[i].len <= map[j].start
      /\ \A b \in Int : Hits(care, UpTo(b)) % 2 = 1 <=>
           \E i \in 1..Len(map) : map[i].start <= b /\ b < map[i].start + map[i].len
  BY <1>6 DEF Mapped, Loads
<1>8. care \in Seq(Int) /\ map \in Seq(Offsets)
  BY <1>7
<1>9. Hits(care, Int) % 2 = 0
  BY <1>7, <1>8, HitsOfAll
<1> HIDE DEF map, care
<1>10. \A b \in Int : b \in Blocks(RangeSet(care)) <=> Hits(care, UpTo(b)) % 2 = 1
  BY <1>8, <1>9, RangeSetBlocks
<1>11. \A b \in Int : b \in Blocks(RangeSet(care)) <=>
         \E i \in 1..Len(map) : map[i].start <= b /\ b < map[i].start + map[i].len
  BY <1>7, <1>10
<1>12. OffsetMap(img) = map /\ CareMap(img) = RangeSet(care) /\ TotalBlocks(img) = acc.pos
  BY DEF map, care, acc, OffsetMap, CareMap, TotalBlocks
<1> QED BY <1>7, <1>8, <1>11, <1>12 DEF MapsOf

\* The chunk that is found for a block is the one that holds it.
LEMMA ChunkHolds ==
  ASSUME NEW img, NEW map, MapsOf(img, map), NEW i \in 1..Len(map), NEW b \in Int,
         map[i].start <= b, b < map[i].start + map[i].len
  PROVE  ChunkOf(img, b) = i
<1>1. /\ map = OffsetMap(img) /\ map \in Seq(Offsets) /\ Len(map) \in Nat
      /\ \A j, k \in 1..Len(map) : j < k => map[j].start + map[j].len <= map[k].start
  BY LenProperties DEF MapsOf
<1>2. \A j \in 1..Len(map) : map[j].start \in Nat /\ map[j].len \in Nat
  BY <1>1, OffsetAt
<1> DEFINE before == {j \in DOMAIN map : map[j].start <= b}
<1>3. DOMAIN map = 1..Len(map)
  BY <1>1, LenProperties
<1>4. i \in before
  BY <1>3
<1>5. \A j \in before : j \in 1..Len(map) /\ j <= i
  <2> SUFFICES ASSUME NEW j \in 1..Len(map), map[j].start <= b, i < j PROVE FALSE
    BY <1>1, <1>3
  <2>1. map[i].start + map[i].len <= map[j].start
    BY <1>1
  <2> QED BY <1>2, <2>1
<1>6. ChunkOf(img, b) = CHOOSE j \in before : \A k \in before : k <= j
  BY <1>1 DEF ChunkOf
<1> HIDE DEF before
<1>7. \A j \in before : (\A k \in before : k <= j) => j = i
  BY <1>4, <1>5
<1>8. \A k \in before : k <= i
  BY <1>5
<1> QED BY <1>4, <1>6, <1>7, <1>8

Contents == Seq(Int)
Reads(img) == {p \in Int \X Contents : p[2] = BlockAt(img, p[1])}

\* The content of a block is a content.
LEMMA ContentTyped ==
  ASSUME NEW o \in Offsets, NEW k \in Int
  PROVE  Content(o, k) \in Contents
BY DEF Content, Offsets, Contents, Zero

\* A block within a chunk is read from that chunk.
LEMMA BlockInChunk ==
  ASSUME NEW img, NEW map, MapsOf(img, map), NEW i \in 1..Len(map), NEW b \in Int,
         map[i].start <= b, b < map[i].start + map[i].len
  PROVE  /\ BlockAt(img, b) = Content(map[i], b - map[i].start)
         /\ <<b, Content(map[i], b - map[i].start)>> \in Reads(img)
<1>1. ChunkOf(img, b) = i /\ map = OffsetMap(img) /\ map \in Seq(Offsets)
  BY ChunkHolds DEF MapsOf
<1>2. BlockAt(img, b) = Content(map[i], b - map[i].start)
  BY <1>1 DEF BlockAt
<1>3. Content(map[i], b - map[i].start) \in Contents
  BY <1>1, OffsetAt, ContentTyped
<1> QED BY <1>2, <1>3 DEF Reads

\* Block k of a chunk is read from that chunk.
LEMMA BlockOfChunk ==
  ASSUME NEW img, NEW map, MapsOf(img, map), NEW i \in 1..Len(map),
         NEW k \in Nat, k < map[i].len
  PROVE  /\ BlockAt(img, map[i].start + k) = Content(map[i], k)
         /\ Content(map[i], k) \in Contents
<1>1. map \in Seq(Offsets)
  BY DEF MapsOf
<1>2. map[i].start \in Nat /\ map[i].len \in Nat /\ map[i] \in Offsets
  BY <1>1, OffsetAt
<1> DEFINE a == map[i].start  b == a + k
<1>3. b \in Int /\ a <= b /\ b < a + map[i].len /\ b - a = k
  BY <1>2
<1> HIDE DEF b
<1>4. BlockAt(img, b) = Content(map[i], b - a)
  BY <1>3, BlockInChunk
<1>5. BlockAt(img, b) = Content(map[i], k)
  BY <1>3, <1>4, Zenon
<1>6. Content(map[i], k) \in Contents
  BY <1>2, ContentTyped
<1> QED BY <1>5, <1>6 DEF b

\* What a range of the care map reads as is contiguous in the chunks.
LEMMA CareHasNoGap ==
  ASSUME NEW img, NEW map, MapsOf(img, map), NEW i \in 1..Len(map), NEW c \in 1..Len(map),
         i < c, NEW x \in Int, NEW y \in Int, x < map[i].start + map[i].len,
         \A b \in Int : x <= b /\ b < y => b \in Blocks(CareMap(img)),
         map[c].start # map[c - 1].start + map[c - 1].len
  PROVE  y <= map[c - 1].start + map[c - 1].len
<1> DEFINE Top(j) == map[j].start + map[j].len
           e == Top(c - 1)
<1>1. /\ map \in Seq(Offsets) /\ Len(map) \in Nat
      /\ \A j, k \in 1..Len(map) : j < k => Top(j) <= map[k].start
      /\ \A b \in Int : b \in Blocks(CareMap(img)) <=>
           \E j \in 1..Len(map) : map[j].start <= b /\ b < Top(j)
  BY LenProperties DEF MapsOf
<1>2. \A j \in 1..Len(map) : map[j].start \in Nat /\ Top(j) \in Nat /\ map[j].start <= Top(j)
  <2> SUFFICES ASSUME NEW j \in 1..Len(map)
               PROVE  map[j].start \in Nat /\ Top(j) \in Nat /\ map[j].start <= Top(j)
    OBVIOUS
  <2>1. map[j].start \in Nat /\ map[j].len \in Nat
    BY <1>1, OffsetAt
  <2> QED BY <2>1
<1>10. x < Top(i)
  OBVIOUS
<1>11. map[c].start # Top(c - 1)
  OBVIOUS
<1> HIDE DEF Top
<1>3. c - 1 \in 1..Len(map)
  BY <1>1
<1>4. e \in Int /\ e < map[c].start
  <2>1. Top(c - 1) <= map[c].start
    BY <1>1, <1>3
  <2> QED BY <1>2, <1>3, <1>11, <2>1
<1>5. Top(i) <= e
  <2>1. CASE i = c - 1
    BY <1>2, <1>3, <2>1
  <2>2. CASE i # c - 1
    <3>1. Top(i) <= map[c - 1].start
      BY <1>1, <1>3, <2>2
    <3> QED BY <1>2, <1>3, <3>1
  <2> QED BY <2>1, <2>2
<1>6. ASSUME NEW j \in 1..Len(map), map[j].start <= e, e < Top(j) PROVE FALSE
  <2>1. CASE j = c - 1
    BY <1>2, <1>3, <1>6, <2>1
  <2>2. CASE j < c - 1
    <3>1. Top(j) <= map[c - 1].start
      BY <1>1, <1>3, <2>2
    <3> QED BY <1>2, <1>3, <1>6, <3>1
  <2>3. CASE j = c
    BY <1>2, <1>4, <1>6, <2>3
  <2>4. CASE c < j
    <3>1. Top(c) <= map[j].start
      BY <1>1, <2>4
    <3> QED BY <1>2, <1>4, <1>6, <3>1
  <2> QED BY <1>1, <1>3, <2>1, <2>2, <2>3, <2>4
<1>7. e \notin Blocks(CareMap(img))
  BY <1>1, <1>4, <1>6
<1>8. x < e
  BY <1>2, <1>4, <1>5, <1>10
<1>9. y <= e
  BY <1>4, <1>7, <1>8
<1> QED BY <1>9 DEF e, Top

\* u is s with t after it.
Joins(u, s, t, S) ==
  /\ Len(s) \in Nat /\ Len(t) \in Nat
  /\ u \in Seq(S) /\ Len(u) = Len(s) + Len(t)
  /\ \A i \in 1..Len(s) : u[i] = s[i]
  /\ \A j \in 1..Len(t) : u[Len(s) + j] = t[j]

\* Two sequences laid end to end.
LEMMA JoinOf ==
  ASSUME NEW S, NEW s \in Seq(S), NEW t \in Seq(S)
  PROVE  Joins(s \o t, s, t, S)
BY ConcatItems DEF Joins

\* The walk through the chunks, chunk k after the first k of those that follow.
ReadTo(img, s, start, end, y) ==
  /\ s \in Seq(Contents)
  /\ \A n \in 1..Len(s) : start + n - 1 < y => s[n] = BlockAt(img, start + n - 1)
  /\ start + Len(s) = end \/ y <= start + Len(s)

\* One more chunk of the walk reads as the blocks that follow.
LEMMA ReadChunk ==
  ASSUME NEW img, NEW map, MapsOf(img, map), NEW c \in 1..Len(map),
         NEW start \in Int, NEW end \in Int, NEW y \in Int,
         NEW s, ReadTo(img, s, start, end, y), map[c].start = end \/ y <= end,
         NEW t \in Seq(Contents), Len(t) = map[c].len,
         \A k \in 1..Len(t) : t[k] = Content(map[c], k - 1)
  PROVE  ReadTo(img, s \o t, start, map[c].start + map[c].len, y)
<1> DEFINE m == Len(s)  n == Len(t)  u == s \o t
<1>1. /\ m \in Nat /\ n \in Nat /\ u \in Seq(Contents) /\ Len(u) = m + n
      /\ \A i \in 1..m : u[i] = s[i]
      /\ \A j \in 1..n : u[m + j] = t[j]
  <2>1. s \in Seq(Contents)
    BY DEF ReadTo
  <2>2. Joins(s \o t, s, t, Contents)
    BY <2>1, JoinOf, Zenon
  <2> QED BY <2>2 DEF Joins
<1>2. /\ \A k \in 1..m : start + k - 1 < y => s[k] = BlockAt(img, start + k - 1)
      /\ start + m = end \/ y <= start + m
  BY DEF ReadTo
<1>3. map[c].start \in Nat /\ map[c].len = n
  <2>1. map \in Seq(Offsets)
    BY DEF MapsOf
  <2> QED BY <2>1, OffsetAt
<1>4. y <= start + m \/ map[c].start = start + m
  BY <1>1, <1>2, <1>3
<1> HIDE DEF m, n, u
<1>5. ASSUME NEW k \in 1..m + n, start + k - 1 < y PROVE u[k] = BlockAt(img, start + k - 1)
  <2>1. CASE k <= m
    <3>1. k \in 1..m
      BY <1>1, <2>1
    <3> QED BY <1>1, <1>2, <1>5, <3>1
  <2>2. CASE ~(k <= m)
    <3> DEFINE j == k - m  b == start + k - 1  q == j - 1
    <3>1. j \in 1..n /\ m + j = k /\ map[c].start = start + m
      BY <1>1, <1>4, <1>5, <2>2
    <3>2. q \in Nat /\ q < map[c].len /\ b = map[c].start + q
      BY <1>1, <1>3, <3>1
    <3>3. u[k] = t[j] /\ t[j] = Content(map[c], q)
      BY <1>1, <3>1 DEF n
    <3> HIDE DEF j, b, q
    <3>4. BlockAt(img, map[c].start + q) = Content(map[c], q)
      BY <3>2, BlockOfChunk
    <3> QED BY <3>2, <3>3, <3>4, Zenon DEF b
  <2> QED BY <2>1, <2>2
<1>6. start + (m + n) = map[c].start + map[c].len \/ y <= start + (m + n)
  BY <1>1, <1>3, <1>4
<1>7. ReadTo(img, u, start, map[c].start + map[c].len, y)
  BY <1>1, <1>5, <1>6 DEF ReadTo
<1> QED BY <1>7 DEF u

\* u is items m to n of s.
IsCut(u, s, m, n, S) ==
  /\ u \in Seq(S) /\ Len(u) = n - m + 1
  /\ \A k \in 1..n - m + 1 : u[k] = s[m + k - 1]

\* A part of a sequence.
LEMMA CutOf ==
  ASSUME NEW S, NEW s, NEW m \in Int, NEW n \in Int, m <= n + 1,
         \A k \in m..n : s[k] \in S
  PROVE  IsCut(SubSeq(s, m, n), s, m, n, S)
<1> DEFINE u == SubSeq(s, m, n)
<1>1. /\ u \in Seq(S) /\ Len(u) = IF m <= n THEN n - m + 1 ELSE 0
      /\ \A k \in 1..n - m + 1 : u[k] = s[m + k - 1]
  BY SubSeqProperties
<1> HIDE DEF u
<1>2. Len(u) = n - m + 1
  BY <1>1
<1> QED BY <1>1, <1>2 DEF IsCut, u

\* A range of the care map is read block by block (ReadRange).
LEMMA RangeReads ==
  ASSUME NEW img \in Seq(ImageChunks), NEW x \in Int, NEW y \in Int, x < y,
         \A b \in Int : x <= b /\ b < y => b \in Blocks(CareMap(img))
  PROVE  /\ ReadRange(img, <<x, y>>) \in Seq(Contents)
         /\ Len(ReadRange(img, <<x, y>>)) = y - x
         /\ \A k \in 1..y - x : ReadRange(img, <<x, y>>)[k] = BlockAt(img, x + k - 1)
<1> DEFINE map == OffsetMap(img)  N == Len(map)
           Top(j) == map[j].start + map[j].len
<1>1. MapsOf(img, map)
  BY MapsOfImage
<1> HIDE DEF map
<1>2. /\ map \in Seq(Offsets) /\ N \in Nat
      /\ \A j, k \in 1..N : j < k => Top(j) <= map[k].start
      /\ \A b \in Int : b \in Blocks(CareMap(img)) <=>
           \E j \in 1..N : map[j].start <= b /\ b < Top(j)
  BY <1>1, LenProperties DEF MapsOf
<1>3. ASSUME NEW j \in 1..N
      PROVE  /\ map[j] \in Offsets /\ map[j].start \in Nat /\ map[j].len \in Nat
             /\ Top(j) \in Nat /\ map[j].start <= Top(j)
  <2>1. map[j] \in Offsets /\ map[j].start \in Nat /\ map[j].len \in Nat
    BY <1>2, OffsetAt
  <2> QED BY <2>1
<1>4. PICK i \in 1..N : map[i].start <= x /\ x < Top(i)
  <2>1. x \in Blocks(CareMap(img))
    OBVIOUS
  <2> HIDE DEF Top, N
  <2> QED BY <1>2, <2>1
<1>5. ChunkOf(img, x) = i
  BY <1>1, <1>4, ChunkHolds
<1> DEFINE K == N - i + 1
           piece(c) == [k \in 1..map[c].len |-> Content(map[c], k - 1)]
           cc == [j \in 1..K |-> piece(i + j - 1)]
           a == map[i].start
<1>6. K \in Nat /\ K > 0 /\ i + K - 1 = N
  BY <1>2
<1>7. ASSUME NEW c \in 1..N
      PROVE  /\ piece(c) \in Seq(Contents) /\ Len(piece(c)) = map[c].len
             /\ \A k \in 1..Len(piece(c)) : piece(c)[k] = Content(map[c], k - 1)
  <2> DEFINE p == piece(c)
  <2>1. map[c].len \in Nat /\ map[c] \in Offsets
    BY <1>3
  <2>2. p \in [1..map[c].len -> Contents]
    BY <2>1, ContentTyped
  <2>3. \A k \in 1..map[c].len : p[k] = Content(map[c], k - 1)
    OBVIOUS
  <2> HIDE DEF p
  <2>4. p \in Seq(Contents) /\ Len(p) = map[c].len
    BY <2>1, <2>2, TableSeq
  <2>5. \A k \in 1..Len(p) : p[k] = Content(map[c], k - 1)
    BY <2>3, <2>4
  <2> QED BY <2>4, <2>5 DEF p
<1> HIDE DEF piece, Top
<1>8. cc \in Seq(Seq(Contents)) /\ Len(cc) = K
  <2>1. \A j \in 1..K : i + j - 1 \in 1..N
    BY <1>2
  <2>2. cc \in [1..K -> Seq(Contents)]
    BY <1>7, <2>1
  <2> HIDE DEF cc, K
  <2> QED BY <1>6, <2>2, TableSeq
<1>9. \A j \in 1..K : cc[j] = piece(i + j - 1)
  OBVIOUS
<1>10. ReadRange(img, <<x, y>>) = SubSeq(FlattenSeq(cc), x - a + 1, x - a + y - x)
  <2>1. \A j \in 1..K : piece(i + j - 1)
          = [k \in 1..map[i + j - 1].len |-> Content(map[i + j - 1], k - 1)]
    BY DEF piece
  <2>2. cc = [j \in 1..K |->
                [k \in 1..map[i + j - 1].len |-> Content(map[i + j - 1], k - 1)]]
    BY <2>1
  <2> HIDE DEF cc
  <2>3. cc = [j \in 1..(Len(OffsetMap(img)) - ChunkOf(img, x) + 1) |->
                [k \in 1..OffsetMap(img)[ChunkOf(img, x) + j - 1].len |->
                   Content(OffsetMap(img)[ChunkOf(img, x) + j - 1], k - 1)]]
    BY <1>5, <2>2, Zenon DEF map
  <2>4. a = OffsetMap(img)[ChunkOf(img, x)].start
    BY <1>5, Zenon DEF map
  <2> HIDE DEF a
  <2> QED BY <2>3, <2>4 DEF ReadRange
<1> HIDE DEF cc, a
<1>11. PICK f \in [0..K -> Seq(Contents)] : Flattens(f, cc)
  <2> HIDE DEF K
  <2> QED BY <1>8, FlattenTable
<1>12. /\ f[0] = <<>> /\ FlattenSeq(cc) = f[K]
       /\ \A k \in 1..K : f[k] = f[k - 1] \o cc[k]
  BY <1>8, <1>11 DEF Flattens
<1> HIDE DEF K, N
<1>13. a \in Nat
  BY <1>3 DEF a
<1> DEFINE On(k) == IF k = 0 THEN a ELSE Top(i + k - 1)
           T == {k \in Nat : k <= K => ReadTo(img, f[k], a, On(k), y)}
<1>14. 0 \in T
  <2>1. <<>> \in Seq(Contents) /\ Len(<<>>) = 0 /\ 1..0 = {} /\ a + 0 = a
    BY <1>13
  <2>2. ReadTo(img, <<>>, a, a, y)
    BY <2>1 DEF ReadTo
  <2> QED BY <1>12, <2>2
<1>15. ASSUME NEW k \in Nat, k \in T PROVE k + 1 \in T
  <2> DEFINE j == k + 1  c == i + k
  <2>1. ASSUME j <= K PROVE ReadTo(img, f[j], a, On(j), y)
    <3>1. /\ j \in 1..K /\ j - 1 = k /\ k <= K /\ c \in 1..N /\ i + j - 1 = c
          /\ j # 0
      BY <1>2, <1>6, <2>1 DEF K
    <3>2. ReadTo(img, f[k], a, On(k), y)
      BY <1>15, <3>1
    <3>3. On(k) \in Int
      <4>1. CASE k = 0
        BY <1>13, <4>1
      <4>2. CASE k # 0
        <5>1. i + k - 1 \in 1..N
          BY <1>2, <3>1, <4>2
        <5> QED BY <1>3, <4>2, <5>1
      <4> QED BY <4>1, <4>2
    <3>4. map[c].start = On(k) \/ y <= On(k)
      <4>1. CASE k = 0
        <5>1. c = i
          BY <4>1
        <5> QED BY <4>1, <5>1, Zenon DEF a
      <4>2. CASE k # 0
        <5>1. On(k) = map[c - 1].start + map[c - 1].len /\ i < c
          BY <4>2 DEF Top
        <5>2. CASE map[c].start # map[c - 1].start + map[c - 1].len
          <6>1. x < map[i].start + map[i].len
            BY <1>4 DEF Top
          <6> HIDE DEF c
          <6>2. y <= map[c - 1].start + map[c - 1].len
            BY <1>1, <3>1, <5>1, <5>2, <6>1, CareHasNoGap DEF N
          <6> HIDE DEF On
          <6> QED BY <5>1, <6>2
        <5> HIDE DEF On, c
        <5> QED BY <5>1, <5>2
      <4> QED BY <4>1, <4>2
    <3>5. On(j) = map[c].start + map[c].len
      BY <3>1 DEF Top
    <3>6. f[j] = f[k] \o piece(c)
      <4> HIDE DEF On, T
      <4> QED BY <1>9, <1>12, <3>1
    <3> HIDE DEF On, T, c, j
    <3>7. /\ piece(c) \in Seq(Contents) /\ Len(piece(c)) = map[c].len
          /\ \A n \in 1..Len(piece(c)) : piece(c)[n] = Content(map[c], n - 1)
      BY <1>7, <3>1
    <3> DEFINE e == On(k)  t == piece(c)  s == f[k]
    <3> HIDE DEF e, t, s
    <3>8. ReadTo(img, s \o t, a, map[c].start + map[c].len, y)
      <4>1. /\ t \in Seq(Contents) /\ Len(t) = map[c].len
            /\ \A n \in 1..Len(t) : t[n] = Content(map[c], n - 1)
        BY <3>7 DEF t
      <4>2. ReadTo(img, s, a, e, y) /\ e \in Int /\ (map[c].start = e \/ y <= e)
        BY <3>2, <3>3, <3>4 DEF e, s
      <4>3. c \in 1..Len(map) /\ a \in Int
        BY <1>13, <3>1 DEF N
      <4> QED BY <1>1, <4>1, <4>2, <4>3, ReadChunk
    <3> QED BY <3>5, <3>6, <3>8 DEF s, t
  <2>2. j \in Nat
    OBVIOUS
  <2> HIDE DEF j, On
  <2>3. j \in T
    BY <2>1, <2>2, Zenon
  <2> QED BY <2>3 DEF j
<1>16. ReadTo(img, f[K], a, Top(N), y)
  <2>1. On(K) = Top(N)
    BY <1>6 DEF K
  <2>2. K \in T
    <3> HIDE DEF T
    <3> QED BY <1>6, <1>14, <1>15, OneByOne DEF K
  <2>3. K \in Nat
    BY <1>6 DEF K
  <2> HIDE DEF On
  <2> QED BY <2>1, <2>2, <2>3
<1> DEFINE s == FlattenSeq(cc)
<1>17. /\ s \in Seq(Contents) /\ Len(s) \in Nat
       /\ \A n \in 1..Len(s) : a + n - 1 < y => s[n] = BlockAt(img, a + n - 1)
       /\ a + Len(s) = Top(N) \/ y <= a + Len(s)
  BY <1>12, <1>16, LenProperties DEF ReadTo
<1> HIDE DEF s
<1>18. y <= Top(N)
  <2>1. y - 1 \in Blocks(CareMap(img))
    OBVIOUS
  <2>2. PICK j \in 1..N : y - 1 < Top(j)
    BY <1>2, <2>1
  <2>3. Top(j) <= Top(N)
    <3>1. CASE j = N
      BY <1>3, <3>1
    <3>2. CASE j # N
      <4>1. N \in 1..N /\ j < N
        BY <1>2, <3>2
      <4>2. Top(j) <= map[N].start
        BY <1>2, <4>1
      <4> QED BY <1>3, <4>1, <4>2
    <3> QED BY <3>1, <3>2
  <2>4. N \in 1..N
    BY <1>2
  <2>5. Top(N) \in Nat /\ Top(j) \in Nat
    BY <1>3, <2>4
  <2> QED BY <2>2, <2>3, <2>5
<1>19. y <= a + Len(s)
  <2>1. N \in 1..N
    BY <1>2
  <2>2. Top(N) \in Nat
    BY <1>3, <2>1
  <2> QED BY <1>13, <1>17, <1>18, <2>2
<1> DEFINE m == x - a + 1  n == x - a + y - x
<1>20. /\ m \in Int /\ n \in Int /\ m <= n /\ n - m + 1 = y - x
       /\ \A k \in m..n : k \in 1..Len(s)
       /\ \A k \in 1..y - x : m + k - 1 \in 1..Len(s) /\ a + (m + k - 1) - 1 = x + k - 1
  <2>1. a <= x
    BY <1>4 DEF a
  <2> QED BY <1>13, <1>17, <1>19, <2>1
<1> HIDE DEF m, n
<1>21. \A k \in m..n : s[k] \in Contents
  BY <1>17, <1>20, ElementOfSeq
<1>22. /\ SubSeq(s, m, n) \in Seq(Contents)
       /\ Len(SubSeq(s, m, n)) = y - x
       /\ \A k \in 1..y - x : SubSeq(s, m, n)[k] = s[m + k - 1]
  <2> DEFINE u == SubSeq(s, m, n)
  <2>4. m \in Int /\ n \in Int /\ m <= n + 1
    BY <1>20
  <2>1. IsCut(u, s, m, n, Contents)
    BY <1>21, <2>4, CutOf, Zenon
  <2> HIDE DEF u
  <2>2. /\ u \in Seq(Contents) /\ Len(u) = n - m + 1
        /\ \A k \in 1..n - m + 1 : u[k] = s[m + k - 1]
    BY <2>1 DEF IsCut
  <2>3. u \in Seq(Contents) /\ Len(u) = y - x /\ \A k \in 1..y - x : u[k] = s[m + k - 1]
    BY <1>20, <2>2, Zenon
  <2> QED BY <2>3 DEF u
<1>23. ASSUME NEW k \in 1..y - x PROVE SubSeq(s, m, n)[k] = BlockAt(img, x + k - 1)
  <2> DEFINE q == m + k - 1
  <2>4. x + k - 1 < y
    OBVIOUS
  <2>5. q \in 1..Len(s) /\ a + q - 1 = x + k - 1
    BY <1>20, Zenon
  <2>1. q \in 1..Len(s) /\ a + q - 1 = x + k - 1 /\ x + k - 1 < y
    BY <2>4, <2>5, Zenon
  <2>2. SubSeq(s, m, n)[k] = s[q]
    BY <1>22
  <2> HIDE DEF q
  <2>3. s[q] = BlockAt(img, a + q - 1)
    BY <1>17, <2>1
  <2> QED BY <2>1, <2>2, <2>3, Zenon
<1>24. ReadRange(img, <<x, y>>) = SubSeq(s, m, n)
  BY <1>10, Zenon DEF s, m, n
<1> QED BY <1>22, <1>23, <1>24

\* A set within the care map is read block by block (ReadRangeSet).
LEMMA SetReads ==
  ASSUME NEW img \in Seq(ImageChunks), NEW r, Canonical(r),
         Blocks(r) \subseteq Blocks(CareMap(img))
  PROVE  /\ ReadRangeSet(img, r) \in Seq(Contents)
         /\ Pairwise(BlockList(r), ReadRangeSet(img, r), Reads(img))
<1> DEFINE h == Half(r)
           run(i) == [k \in 1..(r[2 * i] - r[2 * i - 1]) |-> r[2 * i - 1] + k - 1]
           read(i) == ReadRange(img, <<r[2 * i - 1], r[2 * i]>>)
           ss == [i \in 1..h |-> run(i)]
           tt == [i \in 1..h |-> read(i)]
<1>1. /\ h \in Nat
      /\ \A i \in 1..h : /\ r[2 * i - 1] \in Int /\ r[2 * i] \in Int
                         /\ r[2 * i - 1] < r[2 * i]
  BY RangesRise
<1>2. BlockList(r) = FlattenSeq(ss) /\ ReadRangeSet(img, r) = FlattenSeq(tt)
  <2>1. DOMAIN Ranges(r) = 1..h
    BY DEF Ranges, Half
  <2>2. \A i \in 1..h : Ranges(r)[i] = <<r[2 * i - 1], r[2 * i]>>
    BY DEF Ranges, Half
  <2> HIDE DEF h
  <2>3. [i \in DOMAIN Ranges(r) |->
           LET p == Ranges(r)[i] IN [k \in 1..(p[2] - p[1]) |-> p[1] + k - 1]] = ss
    BY <2>1, <2>2
  <2>4. [i \in DOMAIN Ranges(r) |-> ReadRange(img, Ranges(r)[i])] = tt
    BY <2>1, <2>2
  <2> HIDE DEF ss, tt
  <2> QED BY <2>3, <2>4 DEF BlockList, ReadRangeSet
<1>3. ASSUME NEW i \in 1..h
      PROVE  /\ run(i) \in Seq(Int) /\ read(i) \in Seq(Contents)
             /\ Pairwise(run(i), read(i), Reads(img))
  <2> DEFINE x == r[2 * i - 1]  y == r[2 * i]
  <2>1. x \in Int /\ y \in Int /\ x < y
    BY <1>1
  <2>2. ASSUME NEW b \in Int, x <= b, b < y PROVE b \in Blocks(CareMap(img))
    <3>1. b \in BlocksTo(r, h)
      BY <2>2 DEF BlocksTo
    <3>2. Blocks(r) = BlocksTo(r, h)
      BY BlocksToAll
    <3> QED BY <3>1, <3>2
  <2> HIDE DEF x, y, h
  <2> DEFINE s == [k \in 1..(y - x) |-> x + k - 1]
             t == ReadRange(img, <<x, y>>)
  <2>3. y - x \in Nat /\ s \in [1..(y - x) -> Int]
    BY <2>1
  <2>4. \A k \in 1..(y - x) : s[k] = x + k - 1
    OBVIOUS
  <2> HIDE DEF s
  <2>5. s \in Seq(Int) /\ Len(s) = y - x
    BY <2>3, TableSeq
  <2>6. /\ t \in Seq(Contents) /\ Len(t) = y - x
        /\ \A k \in 1..y - x : t[k] = BlockAt(img, x + k - 1)
    BY <2>1, <2>2, RangeReads
  <2> HIDE DEF t
  <2>7. ASSUME NEW k \in 1..Len(s) PROVE <<s[k], t[k]>> \in Reads(img)
    <3>1. s[k] \in Int /\ t[k] \in Contents /\ k \in 1..y - x
      BY <2>5, <2>6, <2>7, ElementOfSeq
    <3>2. t[k] = BlockAt(img, s[k])
      BY <2>4, <2>6, <3>1, Zenon
    <3> QED BY <3>1, <3>2 DEF Reads
  <2>8. Pairwise(s, t, Reads(img))
    BY <2>5, <2>6, <2>7 DEF Pairwise
  <2> QED BY <2>5, <2>6, <2>8 DEF s, t, x, y
<1> HIDE DEF h, run, read
<1>4. /\ ss \in Seq(Seq(Int)) /\ Len(ss) = h
      /\ tt \in Seq(Seq(Contents)) /\ Len(tt) = h
  <2>1. ss \in [1..h -> Seq(Int)] /\ tt \in [1..h -> Seq(Contents)]
    BY <1>3
  <2> HIDE DEF ss, tt
  <2> QED BY <1>1, <2>1, TableSeq
<1>5. \A i \in 1..h : Pairwise(ss[i], tt[i], Reads(img))
  BY <1>3
<1> HIDE DEF ss, tt
<1>6. FlattenSeq(tt) \in Seq(Contents)
  BY <1>4, FlattenItems
<1>7. Pairwise(FlattenSeq(ss), FlattenSeq(tt), Reads(img))
  BY <1>4, <1>5, FlattenPairwise
<1> QED BY <1>2, <1>6, <1>7

-----------------------------------------------------------------------------
(* The commands of a list.                                                  *)

BlockSets == {r \in Seq(Int) : Canonical(r)}
CommandSet == [cmd : {"erase", "zero", "new"}, tgt : BlockSets]
TransferSet == [style : {"zero", "new"}, tgt : BlockSets]

NewOf(c) == IF c.cmd = "new" THEN BlockList(c.tgt) ELSE <<>>

\* The blocks a command is given new data for.
LEMMA NewOfTyped ==
  ASSUME NEW c \in CommandSet
  PROVE  NewOf(c) \in Seq(Int)
<1>1. Canonical(c.tgt)
  BY DEF CommandSet, BlockSets
<1> QED BY <1>1, BlockListItems DEF NewOf

\* The new blocks of a list as a flattened sequence.
LEMMA NewBlocksFlat ==
  ASSUME NEW list \in Seq(CommandSet)
  PROVE  LET ss == [i \in 1..Len(list) |-> NewOf(list[i])] IN
           /\ ss \in Seq(Seq(Int)) /\ Len(ss) = Len(list)
           /\ NewBlocks(list) = FlattenSeq(ss)
<1> DEFINE ss == [i \in 1..Len(list) |-> NewOf(list[i])]
<1>1. /\ DOMAIN list = 1..Len(list) /\ Len(list) \in Nat
      /\ \A i \in 1..Len(list) : list[i] \in CommandSet
  BY LenProperties, ElementOfSeq
<1>2. ss \in [1..Len(list) -> Seq(Int)]
  BY <1>1, NewOfTyped
<1>3. [i \in DOMAIN list |-> IF list[i].cmd = "new" THEN BlockList(list[i].tgt) ELSE <<>>]
        = ss
  BY <1>1, Zenon DEF NewOf
<1> HIDE DEF ss
<1>4. ss \in Seq(Seq(Int)) /\ Len(ss) = Len(list)
  BY <1>1, <1>2, TableSeq
<1>5. NewBlocks(list) = FlattenSeq(ss)
  BY <1>3, Zenon DEF NewBlocks
<1> QED BY <1>4, <1>5 DEF ss

\* A sequence that has the items of two, one after the other.
LEMMA IsConcat ==
  ASSUME NEW S, NEW a \in Seq(S), NEW b \in Seq(S), NEW c \in Seq(S),
         Len(c) = Len(a) + Len(b), \A i \in 1..Len(a) : c[i] = a[i],
         \A j \in 1..Len(b) : c[Len(a) + j] = b[j]
  PROVE  c = a \o b
<1> DEFINE d == a \o b
<1>1. Joins(d, a, b, S)
  BY JoinOf
<1> HIDE DEF d
<1>2. /\ Len(a) \in Nat /\ Len(b) \in Nat
      /\ d \in Seq(S) /\ Len(d) = Len(a) + Len(b)
      /\ \A i \in 1..Len(a) : d[i] = a[i]
      /\ \A j \in 1..Len(b) : d[Len(a) + j] = b[j]
  BY <1>1 DEF Joins
<1>3. ASSUME NEW i \in 1..Len(c) PROVE c[i] = d[i]
  <2>1. CASE i <= Len(a)
    <3>1. i \in 1..Len(a)
      BY <1>2, <2>1
    <3> QED BY <1>2, <3>1, Zenon
  <2>2. CASE ~(i <= Len(a))
    <3> DEFINE j == i - Len(a)
    <3>1. j \in 1..Len(b) /\ Len(a) + j = i
      BY <1>2, <2>2
    <3> HIDE DEF j
    <3>2. c[Len(a) + j] = b[j] /\ d[Len(a) + j] = b[j]
      BY <1>2, <3>1, Zenon
    <3> QED BY <3>1, <3>2, Zenon
  <2> QED BY <2>1, <2>2
<1>4. c = d
  BY <1>2, <1>3, SeqEqual
<1> QED BY <1>4 DEF d

\* The new blocks of a list that follows a list.
LEMMA NewBlocksConcat ==
  ASSUME NEW s \in Seq(CommandSet), NEW t \in Seq(CommandSet)
  PROVE  /\ NewBlocks(s) \in Seq(Int)
         /\ NewBlocks(s \o t) = NewBlocks(s) \o NewBlocks(t)
<1> DEFINE u == s \o t
           map(l) == [i \in 1..Len(l) |-> NewOf(l[i])]
<1>1. Joins(u, s, t, CommandSet)
  BY JoinOf
<1> HIDE DEF u
<1>2. /\ Len(s) \in Nat /\ Len(t) \in Nat
      /\ u \in Seq(CommandSet) /\ Len(u) = Len(s) + Len(t)
      /\ \A i \in 1..Len(s) : u[i] = s[i]
      /\ \A j \in 1..Len(t) : u[Len(s) + j] = t[j]
  BY <1>1 DEF Joins
<1>3. \A l \in Seq(CommandSet) : /\ map(l) \in Seq(Seq(Int)) /\ Len(map(l)) = Len(l)
                                /\ NewBlocks(l) = FlattenSeq(map(l))
  BY NewBlocksFlat
<1>4. \A l : \A i \in 1..Len(l) : map(l)[i] = NewOf(l[i])
  OBVIOUS
<1> DEFINE a == map(s)  b == map(t)  c == map(u)
<1>5. /\ a \in Seq(Seq(Int)) /\ b \in Seq(Seq(Int)) /\ c \in Seq(Seq(Int))
      /\ Len(a) = Len(s) /\ Len(b) = Len(t) /\ Len(c) = Len(s) + Len(t)
  BY <1>2, <1>3
<1>6. /\ \A i \in 1..Len(s) : c[i] = a[i]
      /\ \A j \in 1..Len(t) : c[Len(s) + j] = b[j]
  <2>1. \A i \in 1..Len(s) : i \in 1..Len(u)
    BY <1>2
  <2>2. \A j \in 1..Len(t) : Len(s) + j \in 1..Len(u)
    BY <1>2
  <2>3. ASSUME NEW i \in 1..Len(s) PROVE c[i] = a[i]
    <3>1. c[i] = NewOf(u[i]) /\ a[i] = NewOf(s[i])
      BY <1>4, <2>1, Zenon
    <3> QED BY <1>2, <3>1, Zenon
  <2>4. ASSUME NEW j \in 1..Len(t) PROVE c[Len(s) + j] = b[j]
    <3>1. c[Len(s) + j] = NewOf(u[Len(s) + j]) /\ b[j] = NewOf(t[j])
      BY <1>4, <2>2, Zenon
    <3> QED BY <1>2, <3>1, Zenon
  <2> QED BY <2>3, <2>4, Zenon
<1>7. NewBlocks(s) = FlattenSeq(a) /\ NewBlocks(t) = FlattenSeq(b) /\ NewBlocks(u) = FlattenSeq(c)
  BY <1>2, <1>3
<1> HIDE DEF map, a, b, c
<1>8. c = a \o b
  <2>1. /\ Len(c) = Len(a) + Len(b)
        /\ \A i \in 1..Len(a) : c[i] = a[i]
        /\ \A j \in 1..Len(b) : c[Len(a) + j] = b[j]
    BY <1>5, <1>6, Zenon
  <2> QED BY <1>5, <2>1, IsConcat, Zenon
<1>9. FlattenSeq(a \o b) = FlattenSeq(a) \o FlattenSeq(b)
  BY <1>5, FlattenConcat
<1>10. FlattenSeq(a) \in Seq(Int)
  BY <1>5, FlattenItems
<1> QED BY <1>7, <1>8, <1>9, <1>10 DEF u

\* A list without new commands has no new blocks.
LEMMA NoNewBlocks ==
  ASSUME NEW list \in Seq(CommandSet), \A i \in 1..Len(list) : list[i].cmd # "new"
  PROVE  NewBlocks(list) = <<>>
<1> DEFINE ss == [i \in 1..Len(list) |-> NewOf(list[i])]
<1>1. /\ ss \in Seq(Seq(Int)) /\ Len(ss) = Len(list)
      /\ NewBlocks(list) = FlattenSeq(ss)
  BY NewBlocksFlat
<1>2. \A i \in 1..Len(list) : ss[i] = <<>>
  BY DEF NewOf
<1> HIDE DEF ss
<1> QED BY <1>1, <1>2, FlattenNone

\* The new blocks of one command.
LEMMA OneNewBlocks ==
  ASSUME NEW c \in CommandSet
  PROVE  NewBlocks(<<c>>) = NewOf(c)
<1> DEFINE ss == [i \in 1..Len(<<c>>) |-> NewOf(<<c>>[i])]
<1>1. <<c>> \in Seq(CommandSet) /\ Len(<<c>>) = 1 /\ <<c>>[1] = c
  OBVIOUS
<1>2. /\ ss \in Seq(Seq(Int)) /\ Len(ss) = 1
      /\ NewBlocks(<<c>>) = FlattenSeq(ss)
  BY <1>1, NewBlocksFlat
<1>3. ss[1] = NewOf(c)
  BY <1>1
<1> HIDE DEF ss
<1>4. NewOf(c) \in Seq(Int)
  BY NewOfTyped
<1>5. ss = <<NewOf(c)>>
  <2> DEFINE one == <<NewOf(c)>>
  <2>1. one \in Seq(Seq(Int)) /\ Len(one) = 1 /\ one[1] = NewOf(c)
    BY <1>4
  <2> HIDE DEF one
  <2>2. \A i \in 1..Len(ss) : ss[i] = one[i]
    BY <1>2, <1>3, <2>1
  <2>3. ss = one
    BY <1>2, <2>1, <2>2, SeqEqual
  <2> QED BY <2>3 DEF one
<1> QED BY <1>2, <1>4, <1>5, FlattenOne

\* A total of numbers that follow numbers.
LEMMA TotalOfConcat ==
  ASSUME NEW s \in Seq(Int), NEW t \in Seq(Int)
  PROVE  Total(s) \in Int /\ Total(s \o t) = Total(s) + Total(t)
<1> DEFINE u == s \o t  m == Len(s)  n == Len(t)
<1>1. Joins(u, s, t, Int)
  BY JoinOf
<1> HIDE DEF u
<1>2. /\ m \in Nat /\ n \in Nat
      /\ u \in Seq(Int) /\ Len(u) = m + n
      /\ \A i \in 1..m : u[i] = s[i]
      /\ \A j \in 1..n : u[m + j] = t[j]
  BY <1>1 DEF Joins
<1>3. PICK f : f[0] = 0 /\ (\A k \in 1..m : f[k] = f[k - 1] + s[k]) /\ Total(s) = f[m]
  BY TotalRuns
<1>4. PICK g : g[0] = 0 /\ (\A k \in 1..n : g[k] = g[k - 1] + t[k]) /\ Total(t) = g[n]
  BY TotalRuns
<1>5. PICK h : h[0] = 0 /\ (\A k \in 1..m + n : h[k] = h[k - 1] + u[k]) /\ Total(u) = h[m + n]
  BY <1>2, TotalRuns
<1>6. (\A i \in 1..m : s[i] \in Int) /\ (\A i \in 1..n : t[i] \in Int)
  BY ElementOfSeq
<1> HIDE DEF m, n
<1> DEFINE I == {k \in Nat : k <= m => f[k] \in Int /\ h[k] = f[k]}
<1>7. 0 \in I
  BY <1>3, <1>5
<1>8. ASSUME NEW k \in Nat, k \in I PROVE k + 1 \in I
  <2> DEFINE j == k + 1
  <2> SUFFICES ASSUME j <= m PROVE f[j] \in Int /\ h[j] = f[j]
    OBVIOUS
  <2>1. j \in 1..m /\ j \in 1..m + n /\ j - 1 = k /\ k <= m
    BY <1>2
  <2>2. h[k] = f[k] /\ f[k] \in Int
    BY <1>8, <2>1
  <2> HIDE DEF j, I
  <2>3. h[j] = h[k] + u[j] /\ f[j] = f[k] + s[j] /\ u[j] = s[j] /\ s[j] \in Int
    BY <1>2, <1>3, <1>5, <1>6, <2>1
  <2> QED BY <2>2, <2>3
<1>9. m \in I
  <2> HIDE DEF I
  <2> QED BY <1>2, <1>7, <1>8, OneByOne
<1>10. h[m] = f[m] /\ f[m] \in Int
  BY <1>2, <1>9
<1> HIDE DEF I
<1> DEFINE J == {k \in Nat : k <= n => g[k] \in Int /\ h[m + k] = f[m] + g[k]}
<1>11. 0 \in J
  BY <1>2, <1>4, <1>10
<1>12. ASSUME NEW k \in Nat, k \in J PROVE k + 1 \in J
  <2> DEFINE j == k + 1  l == m + j
  <2>1. ASSUME j <= n PROVE g[j] \in Int /\ h[l] = f[m] + g[j]
    <3>1. j \in 1..n /\ l \in 1..m + n /\ j - 1 = k /\ l - 1 = m + k /\ k <= n
      BY <1>2, <2>1
    <3>2. g[k] \in Int /\ h[m + k] = f[m] + g[k]
      BY <3>1, <1>12
    <3>3. u[l] = t[j]
      BY <1>2, <3>1
    <3> HIDE DEF j, l, J
    <3>4. h[l] = h[m + k] + t[j] /\ g[j] = g[k] + t[j] /\ t[j] \in Int
      BY <1>4, <1>5, <1>6, <3>1, <3>3
    <3> QED BY <1>10, <3>2, <3>4
  <2>2. j \in Nat
    OBVIOUS
  <2> HIDE DEF j
  <2>3. j \in J
    BY <2>1, <2>2, Zenon
  <2> QED BY <2>3 DEF j
<1>13. n \in J
  <2> HIDE DEF J
  <2> QED BY <1>2, <1>11, <1>12, OneByOne
<1>14. h[m + n] = f[m] + g[n]
  BY <1>2, <1>13
<1> QED BY <1>3, <1>4, <1>5, <1>10, <1>14 DEF u

\* The blocks of a list of commands, and what it writes.
Cover(list) == UNION {Blocks(list[i].tgt) : i \in 1..Len(list)}
Apart(list) ==
  \A i, j \in 1..Len(list) : i # j => Blocks(list[i].tgt) \cap Blocks(list[j].tgt) = {}
Weight(c) == IF c.cmd = "erase" THEN 0 ELSE Size(c.tgt)
Weights(list) == [i \in 1..Len(list) |-> Weight(list[i])]
Short(list) == \A i \in 1..Len(list) : list[i].cmd = "zero" => Size(list[i].tgt) <= ZeroLimit

\* A list writes the blocks B once, n of them, in zero commands of a bounded size.
Writes(list, B, n) ==
  /\ list \in Seq(CommandSet) /\ Cover(list) = B /\ Apart(list)
  /\ Total(Weights(list)) = n /\ Short(list)

\* A set has a number of blocks.
LEMMA SizeIsNat ==
  ASSUME NEW r, Canonical(r)
  PROVE  Size(r) \in Nat
<1>1. Size(r) = Cardinality(Blocks(r)) /\ IsFiniteSet(Blocks(r))
  BY SizeCounts, BlocksFinite
<1> QED BY <1>1, FS_CardinalityType

\* What the commands of a list write are numbers.
LEMMA WeightsTyped ==
  ASSUME NEW list \in Seq(CommandSet)
  PROVE  Weights(list) \in Seq(Int) /\ Len(Weights(list)) = Len(list)
<1>1. ASSUME NEW i \in 1..Len(list) PROVE Weight(list[i]) \in Int
  <2>1. list[i] \in CommandSet
    BY ElementOfSeq
  <2>2. Canonical(list[i].tgt)
    BY <2>1 DEF CommandSet, BlockSets
  <2> QED BY <2>2, SizeIsNat DEF Weight
<1>2. Weights(list) \in [1..Len(list) -> Int]
  BY <1>1 DEF Weights
<1>3. Len(list) \in Nat
  BY LenProperties
<1> QED BY <1>2, <1>3, TableSeq

\* The empty list writes nothing.
LEMMA WritesNothing == Writes(<<>>, {}, 0)
<1>1. <<>> \in Seq(CommandSet) /\ Len(<<>>) = 0 /\ 1..0 = {}
  OBVIOUS
<1>2. Cover(<<>>) = {} /\ Apart(<<>>) /\ Short(<<>>)
  BY <1>1 DEF Cover, Apart, Short
<1>3. Weights(<<>>) \in Seq(Int) /\ Len(Weights(<<>>)) = 0
  BY <1>1, WeightsTyped
<1>4. PICK f : f[0] = 0 /\ Total(Weights(<<>>)) = f[0]
  BY <1>3, TotalRuns
<1> QED BY <1>1, <1>2, <1>4 DEF Writes

\* A list that follows a list writes other blocks.
LEMMA WritesConcat ==
  ASSUME NEW s, NEW B, NEW m, Writes(s, B, m),
         NEW t, NEW C, NEW n, Writes(t, C, n), B \cap C = {}
  PROVE  Writes(s \o t, B \cup C, m + n)
<1> DEFINE u == s \o t
<1>1. /\ s \in Seq(CommandSet) /\ Cover(s) = B /\ Apart(s)
      /\ Total(Weights(s)) = m /\ Short(s)
      /\ t \in Seq(CommandSet) /\ Cover(t) = C /\ Apart(t)
      /\ Total(Weights(t)) = n /\ Short(t)
  BY DEF Writes
<1>2. Joins(u, s, t, CommandSet)
  BY <1>1, JoinOf
<1> HIDE DEF u
<1> DEFINE p == Len(s)  q == Len(t)
<1>3. /\ p \in Nat /\ q \in Nat
      /\ u \in Seq(CommandSet) /\ Len(u) = p + q
      /\ \A i \in 1..p : u[i] = s[i]
      /\ \A j \in 1..q : u[p + j] = t[j]
  BY <1>2 DEF Joins
<1> DEFINE In(i) == i \in 1..p /\ u[i] = s[i]
           Out(i) == i - p \in 1..q /\ u[i] = t[i - p]
<1>4. ASSUME NEW i \in 1..p + q PROVE In(i) \/ Out(i)
  <2>1. CASE i <= p
    <3>1. i \in 1..p
      BY <1>3, <2>1
    <3> QED BY <1>3, <3>1
  <2>2. CASE ~(i <= p)
    <3> DEFINE j == i - p
    <3>1. j \in 1..q /\ p + j = i
      BY <1>3, <2>2
    <3> HIDE DEF j
    <3>2. u[i] = t[j]
      BY <1>3, <3>1
    <3> QED BY <3>1, <3>2 DEF j
  <2> QED BY <2>1, <2>2
<1>5. Cover(u) = B \cup C
  <2>1. \A i \in 1..p : Blocks(s[i].tgt) \subseteq B
    BY <1>1 DEF Cover
  <2>2. \A i \in 1..q : Blocks(t[i].tgt) \subseteq C
    BY <1>1 DEF Cover
  <2>3. ASSUME NEW i \in 1..p + q PROVE Blocks(u[i].tgt) \subseteq B \cup C
    <3>1. CASE In(i)
      BY <2>1, <3>1
    <3>2. CASE Out(i)
      BY <2>2, <3>2
    <3> QED BY <1>4, <3>1, <3>2
  <2>4. \A i \in 1..p : i \in 1..p + q /\ u[i] = s[i]
    BY <1>3
  <2>5. \A j \in 1..q : p + j \in 1..p + q /\ u[p + j] = t[j]
    BY <1>3
  <2>6. \A b \in B : \E i \in 1..p + q : b \in Blocks(u[i].tgt)
    <3>1. \A b \in B : \E i \in 1..p : b \in Blocks(s[i].tgt)
      BY <1>1 DEF Cover
    <3> QED BY <2>4, <3>1
  <2>7. \A b \in C : \E i \in 1..p + q : b \in Blocks(u[i].tgt)
    <3>1. \A b \in C : \E i \in 1..q : b \in Blocks(t[i].tgt)
      BY <1>1 DEF Cover
    <3> QED BY <2>5, <3>1
  <2> HIDE DEF p, q
  <2>8. Cover(u) = UNION {Blocks(u[i].tgt) : i \in 1..p + q}
    BY <1>3 DEF Cover
  <2> QED BY <2>3, <2>6, <2>7, <2>8
<1>6. ASSUME NEW i \in 1..p + q, NEW j \in 1..p + q, i # j
      PROVE  Blocks(u[i].tgt) \cap Blocks(u[j].tgt) = {}
  <2>1. /\ \A k \in 1..p : Blocks(s[k].tgt) \subseteq B
        /\ \A k \in 1..q : Blocks(t[k].tgt) \subseteq C
    BY <1>1 DEF Cover
  <2>2. CASE In(i) /\ In(j)
    BY <1>1, <1>6, <2>2 DEF Apart
  <2>3. CASE Out(i) /\ Out(j)
    <3>1. i - p # j - p
      BY <1>3, <1>6
    <3> QED BY <1>1, <2>3, <3>1 DEF Apart
  <2>4. CASE In(i) /\ Out(j)
    BY <2>1, <2>4
  <2>5. CASE Out(i) /\ In(j)
    BY <2>1, <2>5
  <2> HIDE DEF In, Out
  <2> QED BY <1>4, <2>2, <2>3, <2>4, <2>5
<1>7. ASSUME NEW i \in 1..p + q, u[i].cmd = "zero" PROVE Size(u[i].tgt) <= ZeroLimit
  <2>1. CASE In(i)
    BY <1>1, <1>7, <2>1 DEF Short
  <2>2. CASE Out(i)
    BY <1>1, <1>7, <2>2 DEF Short
  <2> HIDE DEF In, Out
  <2> QED BY <1>4, <2>1, <2>2
<1>8. Apart(u) /\ Short(u)
  BY <1>3, <1>6, <1>7 DEF Apart, Short
<1> HIDE DEF In, Out
<1>9. Total(Weights(u)) = m + n
  <2> DEFINE a == Weights(s)  b == Weights(t)  c == Weights(u)
  <2>1. /\ a \in Seq(Int) /\ Len(a) = p /\ b \in Seq(Int) /\ Len(b) = q
        /\ c \in Seq(Int) /\ Len(c) = p + q
    BY <1>1, <1>3, WeightsTyped
  <2>2. /\ \A i \in 1..p : c[i] = a[i]
        /\ \A j \in 1..q : c[p + j] = b[j]
    <3>1. \A i \in 1..p : i \in 1..p + q /\ u[i] = s[i]
      BY <1>3
    <3>2. \A j \in 1..q : p + j \in 1..p + q /\ u[p + j] = t[j]
      BY <1>3
    <3>3. /\ \A i \in 1..p : a[i] = Weight(s[i])
          /\ \A i \in 1..q : b[i] = Weight(t[i])
          /\ \A i \in 1..p + q : c[i] = Weight(u[i])
      BY <1>3 DEF Weights
    <3> HIDE DEF a, b, c, p, q
    <3> QED BY <3>1, <3>2, <3>3
  <2> HIDE DEF a, b, c, p, q
  <2>3. /\ Len(c) = Len(a) + Len(b)
        /\ \A i \in 1..Len(a) : c[i] = a[i]
        /\ \A j \in 1..Len(b) : c[Len(a) + j] = b[j]
    BY <2>1, <2>2, Zenon
  <2>4. c = a \o b
    BY <2>1, <2>3, IsConcat, Zenon
  <2>5. Total(a \o b) = Total(a) + Total(b)
    BY <2>1, TotalOfConcat
  <2>6. Total(a) = m /\ Total(b) = n
    BY <1>1 DEF a, b
  <2>7. Total(c) = m + n
    BY <2>4, <2>5, <2>6, Zenon
  <2> QED BY <2>7 DEF c
<1> QED BY <1>3, <1>5, <1>8, <1>9 DEF Writes, u

\* One command writes its blocks.
LEMMA WritesOne ==
  ASSUME NEW c \in CommandSet, c.cmd = "zero" => Size(c.tgt) <= ZeroLimit
  PROVE  Writes(<<c>>, Blocks(c.tgt), Weight(c))
<1> DEFINE l == <<c>>
<1>1. l \in Seq(CommandSet) /\ Len(l) = 1 /\ l[1] = c
  OBVIOUS
<1>2. 1..1 = {1}
  OBVIOUS
<1> HIDE DEF l
<1>3. Cover(l) = Blocks(c.tgt) /\ Apart(l) /\ Short(l)
  BY <1>1, <1>2 DEF Cover, Apart, Short
<1>4. Weights(l) \in Seq(Int) /\ Len(Weights(l)) = 1 /\ Weights(l)[1] = Weight(c)
  <2>1. Weights(l) \in Seq(Int) /\ Len(Weights(l)) = 1
    BY <1>1, WeightsTyped
  <2>2. Weights(l)[1] = Weight(c)
    BY <1>1, <1>2 DEF Weights
  <2> QED BY <2>1, <2>2
<1>5. PICK f : /\ f[0] = 0 /\ Total(Weights(l)) = f[1]
               /\ \A k \in 1..1 : f[k] = f[k - 1] + Weights(l)[k]
  BY <1>4, TotalRuns
<1>6. f[1] = f[0] + Weight(c)
  <2>1. 1 \in 1..1 /\ 1 - 1 = 0
    OBVIOUS
  <2> QED BY <1>4, <1>5, <2>1
<1>7. Weight(c) \in Int
  <2>1. Canonical(c.tgt)
    BY DEF CommandSet, BlockSets
  <2> QED BY <2>1, SizeIsNat DEF Weight
<1> QED BY <1>1, <1>3, <1>5, <1>6, <1>7 DEF Writes, l

\* A division rounded up leaves nothing out.
LEMMA DivUp ==
  ASSUME NEW s \in Nat, NEW n \in Nat \ {0}
  PROVE  /\ (s + n - 1) \div n \in Nat
         /\ s <= ((s + n - 1) \div n) * n
<1> DEFINE a == s + n - 1  d == a \div n
<1>1. a \in Nat /\ a = s + n - 1
  OBVIOUS
<1>2. d \in Nat /\ a = n * d + (a % n) /\ a % n < n
  BY <1>1
<1> HIDE DEF a, d
<1>3. a < n * d + n
  BY <1>1, <1>2
<1>4. s <= n * d
  BY <1>1, <1>2, <1>3
<1>5. n * d = d * n
  BY <1>2
<1> QED BY <1>2, <1>4, <1>5 DEF a, d

\* The first blocks of a set are as many as asked for, or all.
LEMMA FirstOfPlaces ==
  ASSUME NEW R \in SUBSET Int, IsFiniteSet(R), NEW n \in Nat
  PROVE  LET F == {b \in R : Place(R, b) < n} IN
           /\ F \subseteq R /\ IsFiniteSet(F) /\ Cardinality(F) \in Nat
           /\ Cardinality(R) <= n => F = R
           /\ n < Cardinality(R) => Cardinality(F) = n
<1> DEFINE F == {b \in R : Place(R, b) < n}
<1>1. /\ Cardinality(R) \in Nat
      /\ \A b \in Int : Place(R, b) \in 0..Cardinality(R)
      /\ \A b \in R : Place(R, b) < Cardinality(R)
      /\ \A b \in R, c \in Int : b < c => Place(R, b) < Place(R, c)
      /\ \A i \in 0..Cardinality(R) - 1 : \E b \in R : Place(R, b) = i
  BY PlacesBelow
<1>2. F \subseteq R /\ IsFiniteSet(F) /\ Cardinality(F) \in Nat
  BY FS_Subset, FS_CardinalityType
<1>3. ASSUME Cardinality(R) <= n PROVE F = R
  <2>1. ASSUME NEW b \in R PROVE Place(R, b) < n
    <3>1. Place(R, b) < Cardinality(R) /\ Place(R, b) \in 0..Cardinality(R)
      BY <1>1
    <3> QED BY <1>1, <1>3, <3>1
  <2> QED BY <2>1
<1>4. ASSUME n < Cardinality(R) PROVE Cardinality(F) = n
  <2> DEFINE f == [i \in 1..n |-> CHOOSE b \in R : Place(R, b) = i - 1]
  <2>1. ASSUME NEW i \in 1..n PROVE f[i] \in R /\ Place(R, f[i]) = i - 1
    <3>1. i - 1 \in 0..Cardinality(R) - 1
      BY <1>1, <1>4
    <3>2. \E b \in R : Place(R, b) = i - 1
      BY <1>1, <3>1
    <3> QED BY <3>2
  <2>2. DOMAIN f = 1..n /\ f = [i \in 1..n |-> f[i]]
    OBVIOUS
  <2> HIDE DEF f
  <2>3. \A i \in 1..n : f[i] \in F
    BY <2>1
  <2>4. f \in [1..n -> F]
    BY <2>2, <2>3
  <2>5. \A i, j \in 1..n : f[i] = f[j] => i = j
    <3> SUFFICES ASSUME NEW i \in 1..n, NEW j \in 1..n, f[i] = f[j] PROVE i = j
      OBVIOUS
    <3>1. i - 1 = j - 1
      BY <2>1
    <3> QED BY <3>1
  <2>6. ASSUME NEW b \in F PROVE \E i \in 1..n : f[i] = b
    <3> DEFINE i == Place(R, b) + 1
    <3>1. b \in R /\ b \in Int /\ i \in 1..n /\ i - 1 = Place(R, b)
      BY <1>1, <1>4
    <3> HIDE DEF i
    <3>2. f[i] \in R /\ f[i] \in Int /\ Place(R, f[i]) = Place(R, b)
      BY <2>1, <3>1
    <3>3. ~(f[i] < b) /\ ~(b < f[i])
      <4>1. /\ f[i] < b => Place(R, f[i]) < Place(R, b)
            /\ b < f[i] => Place(R, b) < Place(R, f[i])
        BY <1>1, <3>1, <3>2
      <4>2. Place(R, b) \in Int
        BY <1>1, <3>1
      <4> QED BY <3>2, <4>1, <4>2
    <3>4. f[i] = b
      BY <3>1, <3>2, <3>3
    <3> QED BY <3>1, <3>4
  <2>7. f \in Bijection(1..n, F)
    <3> HIDE DEF F
    <3>1. f \in Injection(1..n, F)
      BY <2>4, <2>5 DEF Injection, IsInjective
    <3>2. f \in Surjection(1..n, F)
      BY <2>4, <2>6 DEF Surjection
    <3> QED BY <3>1, <3>2 DEF Bijection
  <2>8. ExistsBijection(1..n, F)
    BY <2>7 DEF ExistsBijection
  <2> QED BY <2>8, FS_CountingElements
<1> QED BY <1>2, <1>3, <1>4

\* The first blocks of a set, and what is left without them.
LEMMA FirstIsLess ==
  ASSUME NEW r, Canonical(r), NEW n \in Nat
  PROVE  LET p == First(r, n)  q == Subtract(r, p) IN
           /\ Canonical(p) /\ Canonical(q) /\ Size(p) \in Nat /\ Size(q) \in Nat
           /\ Blocks(p) \cap Blocks(q) = {} /\ Blocks(p) \cup Blocks(q) = Blocks(r)
           /\ Size(p) <= n /\ Size(p) + Size(q) = Size(r)
           /\ Size(q) = 0 \/ Size(p) = n
<1> DEFINE p == First(r, n)  q == Subtract(r, p)
           R == Blocks(r)  P == Blocks(p)  Q == Blocks(q)
<1>1. Canonical(p) /\ P = {b \in R : Place(R, b) < n}
  BY FirstBlocks
<1> HIDE DEF p
<1>2. Canonical(q) /\ Q = R \ P
  BY <1>1, SubtractBlocks
<1> HIDE DEF q
<1>3. /\ Size(p) \in Nat /\ Size(q) \in Nat /\ Size(r) \in Nat
      /\ Size(p) = Cardinality(P) /\ Size(q) = Cardinality(Q) /\ Size(r) = Cardinality(R)
  BY <1>1, <1>2, SizeIsNat, SizeCounts
<1>4. R \in SUBSET Int /\ IsFiniteSet(R)
  BY BlocksFinite
<1> HIDE DEF P, Q, R
<1>5. /\ P \subseteq R /\ IsFiniteSet(P)
      /\ Cardinality(R) <= n => P = R
      /\ n < Cardinality(R) => Cardinality(P) = n
  BY <1>1, <1>4, FirstOfPlaces
<1>6. Cardinality(Q) = Cardinality(R) - Cardinality(P)
  <2>1. R \cap P = P
    BY <1>5
  <2>2. Cardinality(R \ P) = Cardinality(R) - Cardinality(R \cap P)
    BY <1>4, FS_Difference
  <2> QED BY <1>2, <2>1, <2>2
<1>7. P \cap Q = {} /\ P \cup Q = R
  BY <1>2, <1>5
<1>8. /\ Size(p) <= n /\ Size(p) + Size(q) = Size(r)
      /\ Size(q) = 0 \/ Size(p) = n
  <2>1. Size(q) = Size(r) - Size(p)
    BY <1>3, <1>6
  <2>2. CASE Cardinality(R) <= n
    <3>1. Size(p) = Size(r)
      BY <1>3, <1>5, <2>2
    <3> QED BY <1>3, <2>1, <2>2, <3>1
  <2>3. CASE ~(Cardinality(R) <= n)
    <3>1. Size(p) = n
      BY <1>3, <1>5, <2>3
    <3> QED BY <1>3, <2>1, <3>1
  <2> QED BY <2>2, <2>3
<1> QED BY <1>1, <1>2, <1>3, <1>7, <1>8 DEF p, q, P, Q, R

\* The commands that write zeros to a set, piece by piece.
ZeroAccs == [out : Seq(CommandSet), rest : BlockSets]
NoPiece(r) == [out |-> <<>>, rest |-> r]

\* One piece of a set that is zeroed.
LEMMA ZeroPieceTyped ==
  ASSUME NEW acc \in ZeroAccs, NEW i
  PROVE  ZeroPiece(acc, i) \in ZeroAccs
<1> DEFINE piece == First(acc.rest, ZeroLimit)
           c == [cmd |-> "zero", tgt |-> piece]
<1>1. acc.out \in Seq(CommandSet) /\ Canonical(acc.rest) /\ ZeroLimit \in Nat
  BY BlockConstants DEF ZeroAccs, BlockSets
<1>2. Canonical(piece)
  BY <1>1, FirstBlocks
<1>3. Canonical(Subtract(acc.rest, piece))
  BY <1>1, <1>2, SubtractBlocks
<1>4. \A r : Canonical(r) => r \in BlockSets
  BY DEF BlockSets, Canonical
<1> HIDE DEF piece
<1>5. c \in CommandSet
  BY <1>2, <1>4 DEF CommandSet
<1> HIDE DEF c
<1>6. Append(acc.out, c) \in Seq(CommandSet)
  BY <1>1, <1>5, AppendProperties
<1>7. ZeroPiece(acc, i) = [out |-> Append(acc.out, c), rest |-> Subtract(acc.rest, piece)]
  BY DEF ZeroPiece, c, piece
<1> QED BY <1>3, <1>4, <1>6, <1>7 DEF ZeroAccs

\* The pieces of a set that is zeroed, one by one.
LEMMA ZeroRuns ==
  ASSUME NEW N \in Nat, NEW r \in BlockSets
  PROVE  \E f : /\ f[0] = NoPiece(r)
                /\ \A k \in 1..N : f[k] = ZeroPiece(f[k - 1], k)
                /\ FoldLeft(ZeroPiece, NoPiece(r), [i \in 1..N |-> i]) = f[N]
<1> DEFINE base == NoPiece(r)
           s == [i \in 1..N |-> i]
           Equation(iter) == iter = [S \in SUBSET (1..N) |->
             IF S = {} THEN base ELSE ZeroPiece(iter[S \ {Max(S)}], s[Max(S)])]
<1>1. DOMAIN s = 1..N /\ \A i \in 1..N : s[i] = i
  OBVIOUS
<1>9. base \in ZeroAccs
  <2>1. <<>> \in Seq(CommandSet)
    OBVIOUS
  <2> QED BY <2>1 DEF NoPiece, ZeroAccs
<1> HIDE DEF base, s
<1>2. \E iter : Equation(iter)
  <2> DEFINE G == [p \in ZeroAccs \X (1..N) |-> ZeroPiece(p[1], s[p[2]])]
  <2>1. G \in [ZeroAccs \X (1..N) -> ZeroAccs]
    BY ZeroPieceTyped
  <2>3. PICK iter \in [SUBSET (1..N) -> ZeroAccs] : Tabulates(iter, N, base, G)
    <3> HIDE DEF G
    <3> QED BY <1>9, <2>1, FoldTable
  <2>4. ASSUME NEW S \in SUBSET (1..N), S # {}
        PROVE  G[iter[S \ {Max(S)}], Max(S)] = ZeroPiece(iter[S \ {Max(S)}], s[Max(S)])
    <3>1. Max(S) \in 1..N
      BY <2>4, MaxIn
    <3>2. iter[S \ {Max(S)}] \in ZeroAccs
      BY <2>3
    <3> QED BY <3>1, <3>2
  <2>5. Equation(iter)
    <3> HIDE DEF G
    <3> QED BY <2>3, <2>4 DEF Tabulates
  <2> QED BY <2>5
<1> DEFINE iter == CHOOSE iter : Equation(iter)
<1>3. Equation(iter)
  BY <1>2
<1>4. FoldLeft(ZeroPiece, base, s) = iter[1..N]
  BY <1>1 DEF FoldLeft, MapThenFoldSet
<1> HIDE DEF iter
<1> DEFINE f == [k \in 0..N |-> iter[1..k]]
<1>5. f[0] = base
  <2>1. 1..0 = {} /\ 0 \in 0..N
    OBVIOUS
  <2> QED BY <1>3, <2>1
<1>6. ASSUME NEW k \in 1..N PROVE f[k] = ZeroPiece(f[k - 1], k)
  <2>1. f[k] = iter[1..k] /\ f[k - 1] = iter[1..k - 1]
    OBVIOUS
  <2>2. /\ 1..k \in SUBSET (1..N) /\ 1..k # {}
        /\ Max(1..k) = k /\ (1..k) \ {Max(1..k)} = 1..k - 1
    BY PrefixFacts
  <2>3. iter[1..k] = ZeroPiece(iter[(1..k) \ {Max(1..k)}], s[Max(1..k)])
    BY <1>3, <2>2
  <2>4. s[k] = k
    BY <1>1
  <2> QED BY <2>1, <2>2, <2>3, <2>4, Zenon
<1>7. f[N] = iter[1..N]
  OBVIOUS
<1>8. FoldLeft(ZeroPiece, base, s) = f[N]
  BY <1>4, <1>7, Zenon
<1> HIDE DEF f
<1> QED BY <1>5, <1>6, <1>8 DEF base, s

\* After k pieces of r, size blocks in all.
Zeroed(r, k, acc) ==
  /\ acc \in ZeroAccs
  /\ \E n \in Nat : /\ Writes(acc.out, Blocks(r) \ Blocks(acc.rest), n)
                    /\ n + Size(acc.rest) = Size(r)
                    /\ Size(acc.rest) = 0 \/ n = k * ZeroLimit
  /\ Blocks(acc.rest) \subseteq Blocks(r)
  /\ \A i \in 1..Len(acc.out) : acc.out[i].cmd = "zero"

\* One piece more is written, and is no longer left.
LEMMA ZeroPieceZeroes ==
  ASSUME NEW r, Canonical(r), NEW k \in Nat, NEW acc, Zeroed(r, k, acc), NEW i
  PROVE  Zeroed(r, k + 1, ZeroPiece(acc, i))
<1> DEFINE piece == First(acc.rest, ZeroLimit)
           c == [cmd |-> "zero", tgt |-> piece]
           rest == acc.rest
           less == Subtract(rest, piece)
           new == ZeroPiece(acc, i)
           done == Blocks(r) \ Blocks(rest)
<1>1. /\ acc \in ZeroAccs /\ Blocks(rest) \subseteq Blocks(r)
      /\ \A j \in 1..Len(acc.out) : acc.out[j].cmd = "zero"
  BY DEF Zeroed
<1>2. PICK n \in Nat : /\ Writes(acc.out, done, n)
                       /\ n + Size(rest) = Size(r)
                       /\ Size(rest) = 0 \/ n = k * ZeroLimit
  BY DEF Zeroed
<1>3. new \in ZeroAccs
  BY <1>1, ZeroPieceTyped
<1>4. acc.out \in Seq(CommandSet) /\ Canonical(rest) /\ ZeroLimit \in Nat
  BY <1>1, BlockConstants DEF ZeroAccs, BlockSets
<1>5. /\ Canonical(piece) /\ Canonical(less) /\ Size(piece) \in Nat /\ Size(less) \in Nat
      /\ Blocks(piece) \cap Blocks(less) = {}
      /\ Blocks(piece) \cup Blocks(less) = Blocks(rest)
      /\ Size(piece) <= ZeroLimit /\ Size(piece) + Size(less) = Size(rest)
      /\ Size(less) = 0 \/ Size(piece) = ZeroLimit
  BY <1>4, FirstIsLess
<1>6. new = [out |-> Append(acc.out, c), rest |-> less]
  BY DEF ZeroPiece
<1> HIDE DEF piece, less
<1>7. c \in CommandSet /\ c.cmd = "zero" /\ c.tgt = piece /\ Weight(c) = Size(piece)
  <2>1. piece \in BlockSets
    BY <1>5 DEF BlockSets, Canonical
  <2> QED BY <2>1 DEF CommandSet, Weight
<1> HIDE DEF c, new
<1>8. new.out = acc.out \o <<c>> /\ new.rest = less
  <2>1. Append(acc.out, c) = acc.out \o <<c>>
    BY <1>4, <1>7, AppendIsConcat
  <2> QED BY <1>6, <2>1
<1>9. Writes(<<c>>, Blocks(piece), Size(piece))
  BY <1>5, <1>7, WritesOne
<1>10. done \cap Blocks(piece) = {} /\ done \cup Blocks(piece) = Blocks(r) \ Blocks(less)
  BY <1>1, <1>5
<1> DEFINE m == n + Size(piece)
<1>11. Writes(new.out, Blocks(r) \ Blocks(less), m)
  <2> HIDE DEF done, m
  <2>1. Writes(acc.out \o <<c>>, done \cup Blocks(piece), n + Size(piece))
    BY <1>2, <1>9, <1>10, WritesConcat
  <2> QED BY <1>8, <1>10, <2>1 DEF m
<1>12. m \in Nat /\ m + Size(less) = Size(r)
  BY <1>2, <1>4, <1>5, SizeIsNat
<1>13. Size(less) = 0 \/ m = (k + 1) * ZeroLimit
  <2>1. CASE Size(less) = 0
    BY <2>1
  <2>2. CASE Size(less) # 0
    <3>1. Size(rest) # 0 /\ Size(piece) = ZeroLimit
      BY <1>5, <2>2
    <3>2. m = k * ZeroLimit + ZeroLimit
      BY <1>2, <3>1
    <3>3. (k + 1) * ZeroLimit = k * ZeroLimit + ZeroLimit
      BY <1>4
    <3> QED BY <3>2, <3>3
  <2> QED BY <2>1, <2>2
<1>14. \A j \in 1..Len(new.out) : new.out[j].cmd = "zero"
  <2>1. /\ Len(Append(acc.out, c)) = Len(acc.out) + 1 /\ Len(acc.out) \in Nat
        /\ \A j \in 1..Len(acc.out) : Append(acc.out, c)[j] = acc.out[j]
        /\ Append(acc.out, c)[Len(acc.out) + 1] = c
    BY <1>4, <1>7, AppendProperties, LenProperties
  <2>2. new.out = Append(acc.out, c)
    BY <1>6
  <2> HIDE DEF rest, done, m
  <2>3. ASSUME NEW j \in 1..Len(acc.out) + 1 PROVE new.out[j].cmd = "zero"
    <3>1. CASE j = Len(acc.out) + 1
      BY <1>7, <2>1, <2>2, <3>1
    <3>2. CASE j # Len(acc.out) + 1
      <4>1. j \in 1..Len(acc.out)
        BY <2>1, <3>2
      <4> QED BY <1>1, <2>1, <2>2, <4>1
    <3> QED BY <3>1, <3>2
  <2> QED BY <2>1, <2>2, <2>3
<1>15. Blocks(less) \subseteq Blocks(r)
  BY <1>1, <1>5
<1> HIDE DEF m
<1>16. Zeroed(r, k + 1, new)
  BY <1>3, <1>8, <1>11, <1>12, <1>13, <1>14, <1>15 DEF Zeroed
<1> QED BY <1>16 DEF new

\* The zero commands for a set write it once, in pieces no larger than the limit.
LEMMA ZeroCommandsWrite ==
  ASSUME NEW r, Canonical(r)
  PROVE  /\ Writes(ZeroCommands(r), Blocks(r), Size(r))
         /\ \A i \in 1..Len(ZeroCommands(r)) : ZeroCommands(r)[i].cmd = "zero"
<1> DEFINE N == (Size(r) + ZeroLimit - 1) \div ZeroLimit
<1>1. Size(r) \in Nat /\ ZeroLimit \in Nat \ {0}
  BY SizeIsNat, BlockConstants
<1>2. N \in Nat /\ Size(r) <= N * ZeroLimit
  BY <1>1, DivUp
<1>3. ZeroCommands(r) = FoldLeft(ZeroPiece, NoPiece(r), [i \in 1..N |-> i]).out
  BY DEF ZeroCommands, NoPiece
<1>4. r \in BlockSets
  BY DEF BlockSets, Canonical
<1> HIDE DEF N
<1>5. PICK f : /\ f[0] = NoPiece(r)
               /\ \A k \in 1..N : f[k] = ZeroPiece(f[k - 1], k)
               /\ FoldLeft(ZeroPiece, NoPiece(r), [i \in 1..N |-> i]) = f[N]
  BY <1>2, <1>4, ZeroRuns
<1> DEFINE T == {k \in Nat : k <= N => Zeroed(r, k, f[k])}
<1>6. 0 \in T
  <2> DEFINE acc == NoPiece(r)
  <2>1. acc.out = <<>> /\ acc.rest = r /\ acc \in ZeroAccs
    <3>1. <<>> \in Seq(CommandSet)
      OBVIOUS
    <3> QED BY <1>4, <3>1 DEF NoPiece, ZeroAccs
  <2> HIDE DEF acc
  <2>2. Blocks(r) \ Blocks(r) = {}
    OBVIOUS
  <2>3. Writes(acc.out, Blocks(r) \ Blocks(acc.rest), 0)
    BY <2>1, <2>2, WritesNothing
  <2>4. 0 + Size(acc.rest) = Size(r) /\ 0 = 0 * ZeroLimit /\ 0 \in Nat
    BY <1>1, <2>1
  <2>5. 1..Len(acc.out) = {}
    BY <2>1
  <2>6. \A i \in 1..Len(acc.out) : acc.out[i].cmd = "zero"
    BY <2>5
  <2>7. Zeroed(r, 0, acc)
    BY <2>1, <2>3, <2>4, <2>6 DEF Zeroed
  <2> QED BY <1>5, <2>7 DEF acc
<1>7. ASSUME NEW k \in Nat, k \in T PROVE k + 1 \in T
  <2> SUFFICES ASSUME k + 1 <= N PROVE Zeroed(r, k + 1, f[k + 1])
    OBVIOUS
  <2>1. k + 1 \in 1..N /\ k + 1 - 1 = k /\ Zeroed(r, k, f[k])
    BY <1>2, <1>7
  <2>2. f[k + 1] = ZeroPiece(f[k], k + 1)
    BY <1>5, <2>1
  <2> QED BY <2>1, <2>2, ZeroPieceZeroes
<1>8. Zeroed(r, N, f[N])
  <2>1. N \in T
    <3> HIDE DEF T
    <3> QED BY <1>2, <1>6, <1>7, OneByOne
  <2> QED BY <1>2, <2>1
<1> DEFINE acc == f[N]
<1> HIDE DEF acc
<1>9. /\ acc \in ZeroAccs /\ Blocks(acc.rest) \subseteq Blocks(r)
      /\ \A i \in 1..Len(acc.out) : acc.out[i].cmd = "zero"
  BY <1>8 DEF Zeroed, acc
<1>10. PICK n \in Nat : /\ Writes(acc.out, Blocks(r) \ Blocks(acc.rest), n)
                        /\ n + Size(acc.rest) = Size(r)
                        /\ Size(acc.rest) = 0 \/ n = N * ZeroLimit
  BY <1>8 DEF Zeroed, acc
<1>11. Canonical(acc.rest) /\ Size(acc.rest) \in Nat
  BY <1>9, SizeIsNat DEF ZeroAccs, BlockSets
<1>12. Size(acc.rest) = 0
  <2> DEFINE z == N * ZeroLimit
  <2>1. Size(r) <= z /\ (Size(acc.rest) = 0 \/ n = z)
    BY <1>2, <1>10
  <2> HIDE DEF z
  <2> QED BY <1>1, <1>10, <1>11, <2>1
<1>13. Blocks(acc.rest) = {}
  <2>1. Cardinality(Blocks(acc.rest)) = 0 /\ IsFiniteSet(Blocks(acc.rest))
    BY <1>11, <1>12, SizeCounts, BlocksFinite
  <2> QED BY <2>1, FS_EmptySet
<1>14. n = Size(r) /\ Blocks(r) \ Blocks(acc.rest) = Blocks(r)
  BY <1>1, <1>10, <1>12, <1>13
<1>15. ZeroCommands(r) = acc.out
  BY <1>3, <1>5 DEF acc
<1> QED BY <1>9, <1>10, <1>14, <1>15

\* The parts of a partition, added one by one.
PartAccs == [ok : BOOLEAN, sum : BlockSets]
NoPart == [ok |-> TRUE, sum |-> <<>>]

\* The empty set in canonical form.
LEMMA EmptySetCanonical ==
  Canonical(<<>>) /\ Blocks(<<>>) = {} /\ <<>> \in BlockSets
<1>1. <<>> \in Seq(Int) /\ Len(<<>>) = 0 /\ 1..0 = {} /\ 0 % 2 = 0
  OBVIOUS
<1>2. Canonical(<<>>)
  BY <1>1 DEF Canonical, Rising
<1>3. \A b \in Int : Hits(<<>>, UpTo(b)) % 2 # 1
  <2>1. \A b \in Int : Hits(<<>>, UpTo(b)) = 0
    BY <1>1, HitsToStep DEF Hits
  <2> QED BY <2>1
<1>4. Blocks(<<>>) = {}
  BY <1>2, <1>3, BlocksAreOdd
<1> QED BY <1>1, <1>2, <1>4 DEF BlockSets

\* One part more of a partition.
LEMMA AddPartTyped ==
  ASSUME NEW acc \in PartAccs, NEW r \in BlockSets
  PROVE  AddPart(acc, r) \in PartAccs
<1>1. Canonical(acc.sum) /\ Canonical(r) /\ acc.ok \in BOOLEAN
  BY DEF PartAccs, BlockSets
<1>2. Canonical(Union(acc.sum, r))
  BY <1>1, UnionBlocks
<1>3. Union(acc.sum, r) \in BlockSets
  BY <1>2 DEF BlockSets, Canonical
<1>4. (acc.ok /\ ~Overlaps(acc.sum, r)) \in BOOLEAN
  OBVIOUS
<1> QED BY <1>3, <1>4 DEF AddPart, PartAccs

\* The parts of a partition, one by one.
LEMMA PartRuns ==
  ASSUME NEW s \in Seq(BlockSets)
  PROVE  \E f : /\ f[0] = NoPart
                /\ \A k \in 1..Len(s) : f[k] = AddPart(f[k - 1], s[k])
                /\ FoldLeft(AddPart, NoPart, s) = f[Len(s)]
<1> DEFINE N == Len(s)
           Equation(iter) == iter = [S \in SUBSET (1..N) |->
             IF S = {} THEN NoPart ELSE AddPart(iter[S \ {Max(S)}], s[Max(S)])]
<1>1. N \in Nat /\ DOMAIN s = 1..N /\ \A i \in 1..N : s[i] \in BlockSets
  BY LenProperties, ElementOfSeq
<1>9. NoPart \in PartAccs
  BY EmptySetCanonical DEF NoPart, PartAccs
<1> HIDE DEF N
<1>2. \E iter : Equation(iter)
  <2> DEFINE G == [p \in PartAccs \X (1..N) |-> AddPart(p[1], s[p[2]])]
  <2>1. G \in [PartAccs \X (1..N) -> PartAccs]
    BY <1>1, AddPartTyped
  <2>3. PICK iter \in [SUBSET (1..N) -> PartAccs] : Tabulates(iter, N, NoPart, G)
    <3> HIDE DEF G
    <3> QED BY <1>1, <1>9, <2>1, FoldTable
  <2>4. ASSUME NEW S \in SUBSET (1..N), S # {}
        PROVE  G[iter[S \ {Max(S)}], Max(S)] = AddPart(iter[S \ {Max(S)}], s[Max(S)])
    <3>1. Max(S) \in 1..N
      BY <1>1, <2>4, MaxIn
    <3>2. iter[S \ {Max(S)}] \in PartAccs
      BY <2>3
    <3> QED BY <3>1, <3>2
  <2>5. Equation(iter)
    <3> HIDE DEF G
    <3> QED BY <2>3, <2>4 DEF Tabulates
  <2> QED BY <2>5
<1> DEFINE iter == CHOOSE iter : Equation(iter)
<1>3. Equation(iter)
  BY <1>2
<1>4. FoldLeft(AddPart, NoPart, s) = iter[1..N]
  BY <1>1 DEF FoldLeft, MapThenFoldSet
<1> HIDE DEF iter
<1> DEFINE f == [k \in 0..N |-> iter[1..k]]
<1>5. f[0] = NoPart
  <2>1. 1..0 = {} /\ 0 \in 0..N
    BY <1>1
  <2> QED BY <1>3, <2>1
<1>6. ASSUME NEW k \in 1..N PROVE f[k] = AddPart(f[k - 1], s[k])
  <2>1. f[k] = iter[1..k] /\ f[k - 1] = iter[1..k - 1]
    BY <1>1
  <2>2. /\ 1..k \in SUBSET (1..N) /\ 1..k # {}
        /\ Max(1..k) = k /\ (1..k) \ {Max(1..k)} = 1..k - 1
    BY <1>1, PrefixFacts
  <2>3. iter[1..k] = AddPart(iter[(1..k) \ {Max(1..k)}], s[Max(1..k)])
    BY <1>3, <2>2
  <2> QED BY <2>1, <2>2, <2>3, Zenon
<1>7. f[N] = iter[1..N]
  BY <1>1
<1>8. FoldLeft(AddPart, NoPart, s) = f[N]
  BY <1>4, <1>7, Zenon
<1> HIDE DEF f
<1> QED BY <1>5, <1>6, <1>8 DEF N

\* After k of the parts.
Added(s, k, acc) ==
  /\ acc \in PartAccs
  /\ Blocks(acc.sum) = UNION {Blocks(s[i]) : i \in 1..k}
  /\ acc.ok <=> \A i, j \in 1..k : i # j => Blocks(s[i]) \cap Blocks(s[j]) = {}

\* One part more is added, and overlaps none of those before it.
LEMMA AddPartAdds ==
  ASSUME NEW s \in Seq(BlockSets), NEW k \in Nat, k + 1 \in 1..Len(s),
         NEW acc, Added(s, k, acc)
  PROVE  Added(s, k + 1, AddPart(acc, s[k + 1]))
<1> DEFINE j == k + 1  r == s[j]  new == AddPart(acc, r)
<1>1. r \in BlockSets /\ acc \in PartAccs
  BY ElementOfSeq DEF Added
<1>2. /\ Blocks(acc.sum) = UNION {Blocks(s[i]) : i \in 1..k}
      /\ acc.ok <=> \A i, l \in 1..k : i # l => Blocks(s[i]) \cap Blocks(s[l]) = {}
  BY DEF Added
<1>3. Canonical(r) /\ Canonical(acc.sum)
  BY <1>1 DEF BlockSets, PartAccs
<1>4. new \in PartAccs
  BY <1>1, AddPartTyped
<1>5. Blocks(new.sum) = Blocks(acc.sum) \cup Blocks(r)
  <2>1. new.sum = Union(acc.sum, r)
    BY DEF AddPart
  <2> QED BY <1>3, <2>1, UnionBlocks
<1>6. new.ok <=> acc.ok /\ Blocks(acc.sum) \cap Blocks(r) = {}
  <2>1. new.ok <=> acc.ok /\ ~Overlaps(acc.sum, r)
    BY DEF AddPart
  <2>2. Overlaps(acc.sum, r) <=> Blocks(acc.sum) \cap Blocks(r) # {}
    BY <1>3, OverlapsBlocks
  <2> QED BY <2>1, <2>2
<1>7. \A i : i \in 1..j <=> i \in 1..k \/ i = j
  OBVIOUS
<1>8. j \notin 1..k
  OBVIOUS
<1> HIDE DEF j, new
<1>9. Blocks(new.sum) = UNION {Blocks(s[i]) : i \in 1..j}
  BY <1>2, <1>5, <1>7
<1>10. ASSUME \A i, l \in 1..j : i # l => Blocks(s[i]) \cap Blocks(s[l]) = {}
       PROVE  acc.ok /\ Blocks(acc.sum) \cap Blocks(r) = {}
  <2>1. acc.ok
    BY <1>2, <1>7, <1>10
  <2>2. \A i \in 1..k : Blocks(s[i]) \cap Blocks(r) = {}
    BY <1>7, <1>8, <1>10
  <2> QED BY <1>2, <2>1, <2>2
<1>11. ASSUME acc.ok, Blocks(acc.sum) \cap Blocks(r) = {},
              NEW i \in 1..j, NEW l \in 1..j, i # l
       PROVE  Blocks(s[i]) \cap Blocks(s[l]) = {}
  <2>1. \A x \in 1..k : Blocks(s[x]) \cap Blocks(s[j]) = {}
    BY <1>2, <1>11
  <2> QED BY <1>2, <1>7, <1>11, <2>1
<1>12. new.ok <=> \A i, l \in 1..j : i # l => Blocks(s[i]) \cap Blocks(s[l]) = {}
  BY <1>6, <1>10, <1>11
<1>13. Added(s, j, new)
  BY <1>4, <1>9, <1>12 DEF Added
<1> QED BY <1>13 DEF j, new

\* The parts of a set that AssertPartition accepts are apart, and make it up.
Parted(total, parts) ==
  /\ Blocks(total) = UNION {Blocks(parts[i]) : i \in 1..Len(parts)}
  /\ \A i, j \in 1..Len(parts) : i # j => Blocks(parts[i]) \cap Blocks(parts[j]) = {}

\* The assertion is true of the parts that share out the total.
LEMMA PartitionMeans ==
  ASSUME NEW total, Canonical(total), NEW parts \in Seq(BlockSets)
  PROVE  AssertPartition(total, parts) <=> Parted(total, parts)
<1> DEFINE N == Len(parts)
<1>1. PICK f : /\ f[0] = NoPart
               /\ \A k \in 1..N : f[k] = AddPart(f[k - 1], parts[k])
               /\ FoldLeft(AddPart, NoPart, parts) = f[N]
  BY PartRuns
<1>2. N \in Nat
  BY LenProperties
<1> DEFINE T == {k \in Nat : k <= N => Added(parts, k, f[k])}
<1>3. 0 \in T
  <2>1. NoPart.ok = TRUE /\ NoPart.sum = <<>> /\ NoPart \in PartAccs
    BY EmptySetCanonical DEF NoPart, PartAccs
  <2>2. 1..0 = {}
    OBVIOUS
  <2>3. Added(parts, 0, NoPart)
    BY <2>1, <2>2, EmptySetCanonical DEF Added
  <2> QED BY <1>1, <2>3
<1>4. ASSUME NEW k \in Nat, k \in T PROVE k + 1 \in T
  <2> SUFFICES ASSUME k + 1 <= N PROVE Added(parts, k + 1, f[k + 1])
    OBVIOUS
  <2>1. k + 1 \in 1..N /\ k + 1 - 1 = k /\ Added(parts, k, f[k])
    BY <1>2, <1>4
  <2>2. f[k + 1] = AddPart(f[k], parts[k + 1])
    BY <1>1, <2>1
  <2> QED BY <2>1, <2>2, AddPartAdds
<1> DEFINE end == f[N]
<1>5. Added(parts, N, end)
  <2>1. N \in T
    <3> HIDE DEF T
    <3> QED BY <1>2, <1>3, <1>4, OneByOne
  <2> QED BY <1>2, <2>1
<1>6. AssertPartition(total, parts) <=> end.ok /\ end.sum = total
  BY <1>1 DEF AssertPartition, NoPart
<1> HIDE DEF end, N
<1>7. /\ end \in PartAccs
      /\ Blocks(end.sum) = UNION {Blocks(parts[i]) : i \in 1..N}
      /\ end.ok <=> \A i, j \in 1..N : i # j => Blocks(parts[i]) \cap Blocks(parts[j]) = {}
  BY <1>5 DEF Added
<1>8. end.sum = total <=> Blocks(end.sum) = Blocks(total)
  <2>1. Canonical(end.sum)
    BY <1>7 DEF PartAccs, BlockSets
  <2>2. OfBlocks(Blocks(end.sum)) = end.sum /\ OfBlocks(Blocks(total)) = total
    BY <2>1, OfBlocksOf
  <2> QED BY <2>2
<1> QED BY <1>6, <1>7, <1>8 DEF N, Parted

-----------------------------------------------------------------------------
(* The file map of an image.                                                *)

EvenSeqs == {s \in Seq(Int) : Hits(s, Int) % 2 = 0}
ZeroBounds(img) == {s \in EvenSeqs : \A b \in Int :
                      Hits(s, UpTo(b)) % 2 = 1 => BlockAt(img, b) = Zero}
Sifts(img) == [zeros : ZeroBounds(img), groups : Seq(EvenSeqs), group : EvenSeqs]
NoSift == [zeros |-> <<>>, groups |-> <<>>, group |-> <<>>]

\* No bounds.
LEMMA NoBounds == ASSUME NEW img PROVE <<>> \in EvenSeqs /\ <<>> \in ZeroBounds(img)
<1>1. <<>> \in Seq(Int) /\ Len(<<>>) = 0
  OBVIOUS
<1>2. \A P : Hits(<<>>, P) = 0
  BY <1>1, HitsToStep DEF Hits
<1>3. 0 % 2 = 0 /\ 0 % 2 # 1
  OBVIOUS
<1> QED BY <1>1, <1>2, <1>3 DEF EvenSeqs, ZeroBounds

\* The bounds of a block change the parity at that block alone.
LEMMA BlockMore ==
  ASSUME NEW s \in EvenSeqs, NEW x \in Int
  PROVE  /\ s \o <<x, x + 1>> \in EvenSeqs
         /\ \A b \in Int : Hits(s \o <<x, x + 1>>, UpTo(b)) % 2 = 1
                             => Hits(s, UpTo(b)) % 2 = 1 \/ b = x
<1> DEFINE y == x + 1  t == s \o <<x, y>>
<1>1. y \in Int /\ x < y /\ \A b \in Int : x <= b /\ b < y => b = x
  OBVIOUS
<1>2. s \in Seq(Int) /\ Hits(s, Int) % 2 = 0
  BY DEF EvenSeqs
<1> HIDE DEF y
<1>3. /\ t \in Seq(Int) /\ Hits(t, Int) % 2 = 0
      /\ \A b \in Int :
           Hits(t, UpTo(b)) % 2 = 1 <=>
                \/ Hits(s, UpTo(b)) % 2 = 1 /\ ~(x <= b /\ b < y)
                \/ Hits(s, UpTo(b)) % 2 # 1 /\ x <= b /\ b < y
  BY <1>1, <1>2, RangeMore
<1> HIDE DEF t
<1>4. t \in EvenSeqs
  BY <1>3 DEF EvenSeqs
<1>5. \A b \in Int : Hits(t, UpTo(b)) % 2 = 1 => Hits(s, UpTo(b)) % 2 = 1 \/ b = x
  BY <1>1, <1>3
<1> QED BY <1>4, <1>5 DEF t, y

\* One block more is sifted.
LEMMA SiftTyped ==
  ASSUME NEW img, NEW acc \in Sifts(img), NEW b \in Int
  PROVE  Sift(img, acc, b) \in Sifts(img)
<1> DEFINE zeros == acc.zeros \o <<b, b + 1>>
           group == acc.group \o <<b, b + 1>>
           groups == Append(acc.groups, group)
<1>1. /\ acc.zeros \in ZeroBounds(img) /\ acc.zeros \in EvenSeqs
      /\ acc.groups \in Seq(EvenSeqs) /\ acc.group \in EvenSeqs
      /\ acc = [zeros |-> acc.zeros, groups |-> acc.groups, group |-> acc.group]
  BY DEF Sifts, ZeroBounds
<1>2. zeros \in EvenSeqs /\ group \in EvenSeqs
  BY <1>1, BlockMore
<1> HIDE DEF group
<1>3. groups \in Seq(EvenSeqs)
  BY <1>1, <1>2, AppendProperties
<1>4. \A x \in Int : Hits(zeros, UpTo(x)) % 2 = 1
                       => Hits(acc.zeros, UpTo(x)) % 2 = 1 \/ x = b
  BY <1>1, BlockMore
<1>5. \A x \in Int : Hits(acc.zeros, UpTo(x)) % 2 = 1 => BlockAt(img, x) = Zero
  BY <1>1 DEF ZeroBounds
<1> HIDE DEF zeros, groups
<1>6. CASE BlockAt(img, b) = Zero
  <2>1. Sift(img, acc, b) = [acc EXCEPT !.zeros = zeros]
    BY <1>6 DEF Sift, zeros
  <2>2. zeros \in ZeroBounds(img)
    BY <1>2, <1>4, <1>5, <1>6 DEF ZeroBounds
  <2>3. Sift(img, acc, b) = [zeros |-> zeros, groups |-> acc.groups, group |-> acc.group]
    BY <1>1, <2>1
  <2> QED BY <1>1, <2>2, <2>3 DEF Sifts
<1>7. CASE BlockAt(img, b) # Zero /\ Len(group) >= GroupBounds
  <2>1. Sift(img, acc, b) = [acc EXCEPT !.groups = groups, !.group = <<>>]
    BY <1>7 DEF Sift, groups, group
  <2>2. Sift(img, acc, b) = [zeros |-> acc.zeros, groups |-> groups, group |-> <<>>]
    BY <1>1, <2>1
  <2>3. <<>> \in EvenSeqs
    BY NoBounds
  <2> QED BY <1>1, <1>3, <2>2, <2>3 DEF Sifts
<1>8. CASE BlockAt(img, b) # Zero /\ ~(Len(group) >= GroupBounds)
  <2>1. Sift(img, acc, b) = [acc EXCEPT !.group = group]
    BY <1>8 DEF Sift, group
  <2>2. Sift(img, acc, b) = [zeros |-> acc.zeros, groups |-> acc.groups, group |-> group]
    BY <1>1, <2>1
  <2> QED BY <1>1, <1>2, <2>2 DEF Sifts
<1> QED BY <1>6, <1>7, <1>8

\* The blocks that are sifted, one by one.
LEMMA SiftRuns ==
  ASSUME NEW img, NEW s \in Seq(Int), s = BlockList(Subtract(CareMap(img), Clobbered))
  PROVE  \E f : /\ f[0] = NoSift
                /\ \A k \in 1..Len(s) : f[k] = Sift(img, f[k - 1], s[k])
                /\ Sifted(img) = f[Len(s)]
<1> DEFINE N == Len(s)
           Equation(iter) == iter = [S \in SUBSET (1..N) |->
             IF S = {} THEN NoSift ELSE Sift(img, iter[S \ {Max(S)}], s[Max(S)])]
<1>1. N \in Nat /\ DOMAIN s = 1..N /\ \A i \in 1..N : s[i] \in Int
  BY LenProperties, ElementOfSeq
<1>9. NoSift \in Sifts(img)
  <2>1. <<>> \in Seq(EvenSeqs)
    OBVIOUS
  <2> QED BY <2>1, NoBounds DEF NoSift, Sifts
<1> HIDE DEF N
<1>2. \E iter : Equation(iter)
  <2> DEFINE A == Sifts(img)
             G == [p \in A \X (1..N) |-> Sift(img, p[1], s[p[2]])]
  <2> HIDE DEF A
  <2>0. \A acc \in A, b \in Int : Sift(img, acc, b) \in A
    BY SiftTyped DEF A
  <2>1. G \in [A \X (1..N) -> A]
    BY <1>1, <2>0
  <2>3. PICK iter \in [SUBSET (1..N) -> A] : Tabulates(iter, N, NoSift, G)
    <3>1. NoSift \in A
      BY <1>9 DEF A
    <3> HIDE DEF G
    <3> QED BY <1>1, <2>1, <3>1, FoldTable
  <2>4. ASSUME NEW S \in SUBSET (1..N), S # {}
        PROVE  G[iter[S \ {Max(S)}], Max(S)] = Sift(img, iter[S \ {Max(S)}], s[Max(S)])
    <3>1. Max(S) \in 1..N
      BY <1>1, <2>4, MaxIn
    <3>2. iter[S \ {Max(S)}] \in A
      BY <2>3
    <3> QED BY <3>1, <3>2
  <2>5. Equation(iter)
    <3> HIDE DEF G
    <3> QED BY <2>3, <2>4 DEF Tabulates
  <2> QED BY <2>5
<1> DEFINE iter == CHOOSE iter : Equation(iter)
<1>3. Equation(iter)
  BY <1>2
<1>4. FoldLeft(LAMBDA acc, b : Sift(img, acc, b), NoSift, s) = iter[1..N]
  BY <1>1 DEF FoldLeft, MapThenFoldSet
<1> HIDE DEF iter
<1> DEFINE f == [k \in 0..N |-> iter[1..k]]
<1>5. f[0] = NoSift
  <2>1. 1..0 = {} /\ 0 \in 0..N
    BY <1>1
  <2> QED BY <1>3, <2>1
<1>6. ASSUME NEW k \in 1..N PROVE f[k] = Sift(img, f[k - 1], s[k])
  <2>1. f[k] = iter[1..k] /\ f[k - 1] = iter[1..k - 1]
    BY <1>1
  <2>2. /\ 1..k \in SUBSET (1..N) /\ 1..k # {}
        /\ Max(1..k) = k /\ (1..k) \ {Max(1..k)} = 1..k - 1
    BY <1>1, PrefixFacts
  <2>3. iter[1..k] = Sift(img, iter[(1..k) \ {Max(1..k)}], s[Max(1..k)])
    BY <1>3, <2>2
  <2> QED BY <2>1, <2>2, <2>3, Zenon
<1>7. f[N] = iter[1..N]
  BY <1>1
<1>8. Sifted(img) = f[N]
  BY <1>4, <1>7, Zenon DEF Sifted, NoSift
<1> HIDE DEF f
<1> QED BY <1>5, <1>6, <1>8 DEF N

\* What is sifted: the zeros are zeros.
LEMMA SiftedTyped ==
  ASSUME NEW img \in Seq(ImageChunks)
  PROVE  Sifted(img) \in Sifts(img)
<1> DEFINE s == BlockList(Subtract(CareMap(img), Clobbered))
<1>1. s \in Seq(Int)
  <2>1. Canonical(CareMap(img)) /\ Canonical(Clobbered)
    BY CareMapCanonical, OneRange DEF Clobbered
  <2> QED BY <2>1, SubtractBlocks, BlockListItems
<1>3. PICK f : /\ f[0] = NoSift
               /\ \A k \in 1..Len(s) : f[k] = Sift(img, f[k - 1], s[k])
               /\ Sifted(img) = f[Len(s)]
  BY <1>1, SiftRuns
<1> HIDE DEF s
<1>4. Len(s) \in Nat /\ \A k \in 1..Len(s) : s[k] \in Int
  BY <1>1, LenProperties, ElementOfSeq
<1> DEFINE T == {k \in Nat : k <= Len(s) => f[k] \in Sifts(img)}
<1>5. 0 \in T
  <2>1. <<>> \in Seq(EvenSeqs)
    OBVIOUS
  <2>2. NoSift \in Sifts(img)
    BY <2>1, NoBounds DEF NoSift, Sifts
  <2> QED BY <1>3, <2>2
<1>6. ASSUME NEW k \in Nat, k \in T PROVE k + 1 \in T
  <2> SUFFICES ASSUME k + 1 <= Len(s) PROVE f[k + 1] \in Sifts(img)
    OBVIOUS
  <2>1. k + 1 \in 1..Len(s) /\ k + 1 - 1 = k /\ f[k] \in Sifts(img)
    BY <1>4, <1>6
  <2>2. f[k + 1] = Sift(img, f[k], s[k + 1])
    BY <1>3, <2>1
  <2> QED BY <1>4, <2>1, <2>2, SiftTyped
<1>7. Len(s) \in T
  <2> HIDE DEF T
  <2> QED BY <1>4, <1>5, <1>6, OneByOne
<1> QED BY <1>3, <1>4, <1>7

\* The transfers of an image: what is to be zeroed holds zeros.
Planned(img) ==
  {t \in TransferSet : t.style = "zero" => \A b \in Blocks(t.tgt) : BlockAt(img, b) = Zero}

\* A transfer of the blocks that were sifted.
LEMMA TransferTyped ==
  ASSUME NEW img, NEW s \in EvenSeqs
  PROVE  /\ Transfer("new", s) \in Planned(img)
         /\ s \in ZeroBounds(img) => Transfer("zero", s) \in Planned(img)
<1>1. /\ Canonical(RangeSet(s)) /\ Blocks(RangeSet(s)) \subseteq Int
      /\ \A b \in Int : b \in Blocks(RangeSet(s)) <=> Hits(s, UpTo(b)) % 2 = 1
  BY RangeSetBlocks DEF EvenSeqs
<1>2. RangeSet(s) \in BlockSets
  BY <1>1 DEF BlockSets, Canonical
<1>3. s \in ZeroBounds(img) => \A b \in Blocks(RangeSet(s)) : BlockAt(img, b) = Zero
  BY <1>1 DEF ZeroBounds
<1> QED BY <1>2, <1>3 DEF Transfer, Planned, TransferSet

\* The clobbered block is block 0.
LEMMA ClobberedHasZero == 0 \in Blocks(RangeSet(Clobbered))
<1> DEFINE s == Clobbered
<1>1. s \in Seq(Int) /\ Len(s) = 2 /\ s[1] = 0 /\ s[2] = 1 /\ 2 % 2 = 0 /\ 1 % 2 = 1
  BY DEF Clobbered
<1> HIDE DEF s
<1>2. Hits(s, Int) % 2 = 0
  <2>1. Hits(s, Int) = 2
    BY <1>1, HitsOfAll
  <2> QED BY <1>1, <2>1
<1>3. Hits(s, UpTo(0)) = 1
  <2>1. {i \in 1..2 : s[i] \in UpTo(0)} = {1}
    <3>1. 1..2 = {1, 2} /\ s[1] \in UpTo(0) /\ s[2] \notin UpTo(0)
      BY <1>1 DEF UpTo
    <3> QED BY <3>1
  <2>2. Cardinality({1}) = 1
    BY FS_Singleton
  <2> QED BY <1>1, <2>1, <2>2 DEF Hits, HitsTo
<1>4. 0 \in Int /\ Hits(s, UpTo(0)) % 2 = 1
  BY <1>1, <1>3
<1> QED BY <1>1, <1>2, <1>4, RangeSetBlocks DEF s

\* The transfers of an image, block 0 among theirs.
LEMMA FileMapTyped ==
  ASSUME NEW img \in Seq(ImageChunks)
  PROVE  /\ FileMap(img) \in Seq(Planned(img))
         /\ \E i \in 1..Len(FileMap(img)) : 0 \in Blocks(FileMap(img)[i].tgt)
<1> DEFINE end == Sifted(img)
           tail == IF end.group = <<>> THEN <<>> ELSE <<end.group>>
           groups == end.groups \o tail
           zero == IF end.zeros = <<>> THEN <<>> ELSE <<Transfer("zero", end.zeros)>>
           news == [i \in DOMAIN groups |-> Transfer("new", groups[i])]
           last == <<Transfer("new", Clobbered)>>
           S == Planned(img)
<1>1. /\ end.zeros \in ZeroBounds(img) /\ end.zeros \in EvenSeqs
      /\ end.groups \in Seq(EvenSeqs) /\ end.group \in EvenSeqs
  BY SiftedTyped DEF Sifts, ZeroBounds
<1>2. FileMap(img) = zero \o news \o last
  BY DEF FileMap
<1> HIDE DEF end
<1>3. groups \in Seq(EvenSeqs)
  <2>1. tail \in Seq(EvenSeqs)
    BY <1>1
  <2> HIDE DEF tail
  <2> QED BY <1>1, <2>1, ConcatProperties
<1>4. Transfer("zero", end.zeros) \in S
  BY <1>1, TransferTyped
<1>5. \A s \in EvenSeqs : Transfer("new", s) \in S
  BY TransferTyped
<1> HIDE DEF groups, S
<1>6. zero \in Seq(S)
  BY <1>4
<1>7. news \in Seq(S)
  <2>1. /\ DOMAIN groups = 1..Len(groups) /\ Len(groups) \in Nat
        /\ \A i \in 1..Len(groups) : groups[i] \in EvenSeqs
    BY <1>3, LenProperties, ElementOfSeq
  <2>2. news \in [1..Len(groups) -> S]
    BY <1>5, <2>1
  <2> HIDE DEF news
  <2> QED BY <2>1, <2>2, TableSeq
<1>8. last \in Seq(S)
  <2>1. Clobbered \in Seq(Int) /\ Len(Clobbered) = 2 /\ 2 % 2 = 0
    BY DEF Clobbered
  <2>2. Hits(Clobbered, Int) = 2
    BY <2>1, HitsOfAll
  <2>3. Clobbered \in EvenSeqs
    BY <2>1, <2>2 DEF EvenSeqs
  <2>4. Transfer("new", Clobbered) \in S
    BY <1>5, <2>3
  <2> QED BY <2>4
<1> HIDE DEF zero, news, last
<1>9. zero \o news \in Seq(S)
  BY <1>6, <1>7, ConcatProperties
<1> DEFINE before == zero \o news  all == before \o last
<1>10. Joins(all, before, last, S)
  BY <1>8, <1>9, JoinOf
<1>11. Len(last) = 1 /\ last[1] = Transfer("new", Clobbered)
  BY DEF last
<1>12. FileMap(img) = all
  BY <1>2
<1> HIDE DEF before, all
<1>13. /\ all \in Seq(S) /\ Len(all) = Len(before) + 1 /\ Len(before) \in Nat
       /\ all[Len(before) + 1] = last[1]
  BY <1>10, <1>11 DEF Joins
<1>14. Len(before) + 1 \in 1..Len(all) /\ 0 \in Blocks(all[Len(before) + 1].tgt)
  <2>1. last[1].tgt = RangeSet(Clobbered)
    BY <1>11 DEF Transfer
  <2> QED BY <1>13, <2>1, ClobberedHasZero
<1> QED BY <1>12, <1>13, <1>14 DEF S

\* Any order of some transfers has each of them once.
Shuffle(file, t) ==
  /\ Len(t) = Len(file)
  /\ \E p \in [1..Len(file) -> 1..Len(file)] :
       /\ \A i \in 1..Len(file) : t[i] = file[p[i]]
       /\ \A i, j \in 1..Len(file) : p[i] = p[j] => i = j
       /\ \A j \in 1..Len(file) : \E i \in 1..Len(file) : p[i] = j

\* The order of FindVertexSequence is a shuffle.
LEMMA Reordered ==
  ASSUME NEW S, NEW file \in Seq(S), NEW t \in Sequences(file)
  PROVE  t \in Seq(S) /\ Shuffle(file, t)
<1> DEFINE N == Len(file)
<1>1. /\ N \in Nat /\ DOMAIN file = 1..N
      /\ \A i \in 1..N : file[i] \in S
  BY LenProperties, ElementOfSeq
<1>2. PICK p \in [1..N -> 1..N] : /\ t = [i \in 1..N |-> file[p[i]]]
                                  /\ \A i, j \in 1..N : p[i] = p[j] => i = j
  BY <1>1 DEF Sequences
<1> HIDE DEF N
<1>3. t \in [1..N -> S] /\ \A i \in 1..N : t[i] = file[p[i]]
  BY <1>1, <1>2
<1>4. t \in Seq(S) /\ Len(t) = N
  BY <1>1, <1>3, TableSeq
<1>5. \A j \in 1..N : \E i \in 1..N : p[i] = j
  <2>1. p \in Injection(1..N, 1..N)
    BY <1>2 DEF Injection, IsInjective
  <2>2. IsFiniteSet(1..N)
    BY <1>1, FS_Interval
  <2>3. p \in Surjection(1..N, 1..N)
    BY <2>1, <2>2, FS_Injection
  <2> QED BY <2>3 DEF Surjection
<1> QED BY <1>2, <1>3, <1>4, <1>5 DEF N, Shuffle

\* The transfers that pass the check of FindTransfers make up the care map, in any
\* order.
Covers(img, t) ==
  /\ t \in Seq(Planned(img))
  /\ Blocks(CareMap(img)) = UNION {Blocks(t[i].tgt) : i \in 1..Len(t)}
  /\ \A i, j \in 1..Len(t) : i # j => Blocks(t[i].tgt) \cap Blocks(t[j].tgt) = {}

\* The assertion of FindTransfers makes the transfers cover the care map.
LEMMA TransfersCover ==
  ASSUME NEW img \in Seq(ImageChunks), NEW t \in Sequences(FileMap(img)),
         AssertPartition(CareMap(img),
                         [i \in DOMAIN FileMap(img) |-> FileMap(img)[i].tgt])
  PROVE  Covers(img, t) /\ 0 \in Blocks(CareMap(img))
<1> DEFINE file == FileMap(img)  N == Len(file)
           parts == [i \in DOMAIN file |-> file[i].tgt]
           care == CareMap(img)
<1>1. file \in Seq(Planned(img)) /\ \E i \in 1..Len(file) : 0 \in Blocks(file[i].tgt)
  BY FileMapTyped
<1>2. t \in Sequences(file) /\ AssertPartition(care, parts)
  OBVIOUS
<1>12. Canonical(care)
  BY CareMapCanonical
<1> HIDE DEF file, care
<1>3. /\ N \in Nat /\ DOMAIN file = 1..N
      /\ \A i \in 1..N : file[i] \in Planned(img) /\ file[i].tgt \in BlockSets
  <2>1. \A x \in Planned(img) : x.tgt \in BlockSets
    BY DEF Planned, TransferSet
  <2> QED BY <1>1, <2>1, LenProperties, ElementOfSeq
<1>4. /\ parts \in [1..N -> BlockSets]
      /\ \A i \in 1..N : parts[i] = file[i].tgt
  BY <1>3
<1> HIDE DEF parts, N
<1>5. parts \in Seq(BlockSets) /\ Len(parts) = N
  BY <1>3, <1>4, TableSeq
<1>6. /\ Blocks(care) = UNION {Blocks(parts[i]) : i \in 1..N}
      /\ \A i, j \in 1..N : i # j => Blocks(parts[i]) \cap Blocks(parts[j]) = {}
  <2>1. AssertPartition(care, parts) <=> Parted(care, parts)
    BY <1>5, <1>12, PartitionMeans, Zenon
  <2> QED BY <1>2, <1>5, <2>1 DEF Parted
<1>7. /\ t \in Seq(Planned(img)) /\ Len(t) = N
      /\ \E p \in [1..N -> 1..N] :
           /\ \A i \in 1..N : t[i] = file[p[i]]
           /\ \A i, j \in 1..N : p[i] = p[j] => i = j
           /\ \A j \in 1..N : \E i \in 1..N : p[i] = j
  <2>1. t \in Seq(Planned(img)) /\ Shuffle(file, t)
    BY <1>1, <1>2, Reordered, Zenon
  <2> QED BY <2>1 DEF N, Shuffle
<1>8. PICK p \in [1..N -> 1..N] :
           /\ \A i \in 1..N : t[i] = file[p[i]]
           /\ \A i, j \in 1..N : p[i] = p[j] => i = j
           /\ \A j \in 1..N : \E i \in 1..N : p[i] = j
  BY <1>7
<1>9. \A i \in 1..N : p[i] \in 1..N /\ t[i].tgt = parts[p[i]]
  BY <1>4, <1>8
<1>10. Blocks(care) = UNION {Blocks(t[i].tgt) : i \in 1..N}
  <2>1. ASSUME NEW i \in 1..N PROVE Blocks(t[i].tgt) \subseteq Blocks(care)
    BY <1>6, <1>9
  <2>2. ASSUME NEW b \in Blocks(care) PROVE \E i \in 1..N : b \in Blocks(t[i].tgt)
    <3>1. PICK j \in 1..N : b \in Blocks(parts[j])
      BY <1>6
    <3>2. PICK i \in 1..N : p[i] = j
      BY <1>8
    <3> QED BY <1>9, <3>1, <3>2
  <2> QED BY <2>1, <2>2
<1>11. ASSUME NEW i \in 1..N, NEW j \in 1..N, i # j
       PROVE  Blocks(t[i].tgt) \cap Blocks(t[j].tgt) = {}
  <2>1. p[i] # p[j] /\ p[i] \in 1..N /\ p[j] \in 1..N
    BY <1>8, <1>9, <1>11
  <2>2. Blocks(parts[p[i]]) \cap Blocks(parts[p[j]]) = {}
    BY <1>6, <2>1
  <2> QED BY <1>9, <2>2
<1>13. 0 \in Blocks(care)
  BY <1>1, <1>4, <1>6 DEF N
<1> QED BY <1>7, <1>10, <1>11, <1>13 DEF Covers, care

-----------------------------------------------------------------------------
(* The zones of an image.                                                   *)

\* The care map is within the image.
LEMMA CareWithin ==
  ASSUME NEW img \in Seq(ImageChunks)
  PROVE  /\ Canonical(CareMap(img)) /\ TotalBlocks(img) \in Nat
         /\ Blocks(CareMap(img)) \subseteq 0..(TotalBlocks(img) - 1)
<1> DEFINE map == OffsetMap(img)  n == TotalBlocks(img)
<1>1. Canonical(CareMap(img)) /\ n \in Nat
  BY CareMapCanonical
<1>2. MapsOf(img, map)
  BY MapsOfImage
<1>3. Blocks(CareMap(img)) \subseteq Int
  BY <1>1, BlocksAreOdd
<1> HIDE DEF map, n
<1>4. ASSUME NEW b \in Blocks(CareMap(img)) PROVE b \in 0..(n - 1)
  <2>1. b \in Int
    BY <1>3, <1>4
  <2>2. PICK i \in 1..Len(map) : map[i].start <= b /\ b < map[i].start + map[i].len
    BY <1>2, <1>4, <2>1 DEF MapsOf
  <2>3. map[i].start + map[i].len <= n /\ map \in Seq(Offsets)
    BY <1>2 DEF MapsOf, n
  <2>4. map[i].start \in Nat /\ map[i].len \in Nat
    BY <2>3, OffsetAt
  <2> QED BY <1>1, <2>1, <2>2, <2>3, <2>4
<1> QED BY <1>1, <1>4 DEF n

\* Whatever the widened ranges come to overlap in, they make a set.
LEMMA ExtendCanonical ==
  ASSUME NEW r, Canonical(r), NEW n \in Nat
  PROVE  Canonical(Extend(r, n))
<1> DEFINE item(i) == IF i % 2 = 0 THEN r[i] + n ELSE IF r[i] < n THEN 0 ELSE r[i] - n
           w == [i \in DOMAIN r |-> item(i)]
<1>1. /\ r \in Seq(Int) /\ Len(r) % 2 = 0 /\ Len(r) \in Nat /\ DOMAIN r = 1..Len(r)
      /\ \A i \in 1..Len(r) : r[i] \in Int
  BY LenProperties, ElementOfSeq DEF Canonical
<1>2. \A i \in 1..Len(r) : item(i) \in Int
  BY <1>1
<1>3. w \in [1..Len(r) -> Int]
  BY <1>1, <1>2
<1>6. Extend(r, n) = IF n = 0 THEN r ELSE RangeSet(w)
  BY DEF Extend
<1> HIDE DEF w, item
<1>4. w \in Seq(Int) /\ Len(w) = Len(r)
  BY <1>1, <1>3, TableSeq
<1>5. Hits(w, Int) % 2 = 0
  <2>1. Hits(w, Int) = Len(w)
    BY <1>4, HitsOfAll
  <2> QED BY <1>1, <1>4, <2>1
<1>7. Canonical(RangeSet(w))
  BY <1>4, <1>5, RangeSetBlocks
<1> QED BY <1>6, <1>7

\* The care map, the read-ahead zone and what nobody cares about share out the
\* blocks of an image.
Zones(img) ==
  /\ Canonical(CareMap(img)) /\ Canonical(Extended(img)) /\ Canonical(DontCare(img))
  /\ Blocks(Extended(img)) \cap Blocks(CareMap(img)) = {}
  /\ Blocks(DontCare(img)) \cap (Blocks(CareMap(img)) \cup Blocks(Extended(img))) = {}
  /\ Blocks(CareMap(img)) \cup Blocks(Extended(img)) \cup Blocks(DontCare(img))
       = 0..(TotalBlocks(img) - 1)
  /\ Canonical(<<0, TotalBlocks(img)>>)
  /\ Blocks(<<0, TotalBlocks(img)>>) = 0..(TotalBlocks(img) - 1)

\* The zones share out the image when block 0 is of the care map.
LEMMA ZonesOfImage ==
  ASSUME NEW img \in Seq(ImageChunks), 0 \in Blocks(CareMap(img))
  PROVE  Zones(img)
<1> DEFINE care == CareMap(img)  n == TotalBlocks(img)  all == <<0, n>>
           wide == Extend(care, ReadAhead)
           near == Intersect(wide, all)
           ext == Extended(img)
           far == Subtract(all, ext)
           rest == DontCare(img)
<1>1. /\ Canonical(care) /\ n \in Nat /\ Blocks(care) \subseteq 0..(n - 1)
      /\ 0 \in Blocks(care)
  BY CareWithin
<1>2. ReadAhead \in Nat
  BY BlockConstants
<1>3. ext = Subtract(near, care)
  BY DEF Extended
<1>4. rest = Subtract(far, care)
  BY DEF DontCare
<1> HIDE DEF care, n, ext, rest
<1>5. 0 < n
  BY <1>1
<1>6. Canonical(all) /\ Blocks(all) = 0..(n - 1)
  BY <1>1, <1>5, OneRange
<1>7. Canonical(wide)
  BY <1>1, <1>2, ExtendCanonical
<1> HIDE DEF all, wide
<1>8. Canonical(near) /\ Blocks(near) = Blocks(wide) \cap Blocks(all)
  BY <1>6, <1>7, IntersectBlocks
<1> HIDE DEF near
<1>9. Canonical(ext) /\ Blocks(ext) = Blocks(near) \ Blocks(care)
  BY <1>1, <1>3, <1>8, SubtractBlocks
<1>10. Canonical(far) /\ Blocks(far) = Blocks(all) \ Blocks(ext)
  BY <1>6, <1>9, SubtractBlocks
<1> HIDE DEF far
<1>11. Canonical(rest) /\ Blocks(rest) = Blocks(far) \ Blocks(care)
  BY <1>1, <1>4, <1>10, SubtractBlocks
<1>12. /\ Blocks(ext) \cap Blocks(care) = {}
       /\ Blocks(rest) \cap (Blocks(care) \cup Blocks(ext)) = {}
       /\ Blocks(care) \cup Blocks(ext) \cup Blocks(rest) = Blocks(all)
  BY <1>1, <1>6, <1>8, <1>9, <1>10, <1>11
<1> USE <1>1, <1>6, <1>9, <1>11, <1>12 DEF care, ext, rest, all, n
<1> QED BY DEF Zones

-----------------------------------------------------------------------------
(* The commands of an image.                                                *)

\* What the device is to hold at block b.
Final(img, b) ==
  IF b \in Blocks(CareMap(img)) THEN BlockAt(img, b)
  ELSE IF b \in Blocks(Extended(img)) THEN Zero ELSE Erased

\* A command does to its blocks what they are to hold.
Fits(img, c) ==
  \A b \in Blocks(c.tgt) :
    /\ c.cmd = "new" => b \in Blocks(CareMap(img))
    /\ c.cmd = "zero" => Final(img, b) = Zero
    /\ c.cmd = "erase" => b \notin Blocks(CareMap(img)) /\ Final(img, b) = Erased

\* Commands with their new data, which write the blocks B once.
Builds(img, list, dat, B, n) ==
  /\ Writes(list, B, n)
  /\ dat \in Seq(Contents) /\ Pairwise(NewBlocks(list), dat, Reads(img))
  /\ \A i \in 1..Len(list) : Fits(img, list[i])

\* Commands that follow commands, with their new data.
LEMMA BuildsConcat ==
  ASSUME NEW img, NEW s, NEW x, NEW B, NEW m, Builds(img, s, x, B, m),
         NEW t, NEW y, NEW C, NEW n, Builds(img, t, y, C, n), B \cap C = {}
  PROVE  Builds(img, s \o t, x \o y, B \cup C, m + n)
<1> DEFINE u == s \o t  z == x \o y
<1>1. /\ Writes(s, B, m) /\ Writes(t, C, n)
      /\ x \in Seq(Contents) /\ Pairwise(NewBlocks(s), x, Reads(img))
      /\ y \in Seq(Contents) /\ Pairwise(NewBlocks(t), y, Reads(img))
      /\ \A i \in 1..Len(s) : Fits(img, s[i])
      /\ \A i \in 1..Len(t) : Fits(img, t[i])
  BY DEF Builds
<1>2. s \in Seq(CommandSet) /\ t \in Seq(CommandSet)
  BY <1>1 DEF Writes
<1>3. Writes(u, B \cup C, m + n)
  BY <1>1, WritesConcat
<1>4. /\ NewBlocks(s) \in Seq(Int) /\ NewBlocks(t) \in Seq(Int)
      /\ NewBlocks(u) = NewBlocks(s) \o NewBlocks(t)
  BY <1>2, NewBlocksConcat
<1>5. Pairwise(NewBlocks(s) \o NewBlocks(t), x \o y, Reads(img))
  BY <1>1, <1>4, PairwiseConcat, Zenon
<1>6. z \in Seq(Contents)
  BY <1>1, ConcatProperties
<1>7. Joins(u, s, t, CommandSet)
  BY <1>2, JoinOf
<1> HIDE DEF u, z
<1>8. /\ Len(s) \in Nat /\ Len(t) \in Nat /\ Len(u) = Len(s) + Len(t)
      /\ \A i \in 1..Len(s) : u[i] = s[i]
      /\ \A j \in 1..Len(t) : u[Len(s) + j] = t[j]
  BY <1>7 DEF Joins
<1>9. ASSUME NEW i \in 1..Len(u) PROVE Fits(img, u[i])
  <2>1. CASE i <= Len(s)
    <3>1. i \in 1..Len(s)
      BY <1>8, <2>1
    <3> QED BY <1>1, <1>8, <3>1, Zenon
  <2>2. CASE ~(i <= Len(s))
    <3> DEFINE j == i - Len(s)
    <3>1. j \in 1..Len(t) /\ Len(s) + j = i
      BY <1>8, <2>2
    <3> HIDE DEF j
    <3>2. u[Len(s) + j] = t[j] /\ Fits(img, t[j])
      BY <1>1, <1>8, <3>1, Zenon
    <3> QED BY <3>1, <3>2, Zenon
  <2> QED BY <2>1, <2>2
<1>10. Pairwise(NewBlocks(u), z, Reads(img))
  BY <1>4, <1>5 DEF z
<1>11. Builds(img, u, z, B \cup C, m + n)
  BY <1>3, <1>6, <1>9, <1>10 DEF Builds
<1> QED BY <1>11 DEF u, z

\* Nothing is related to nothing.
LEMMA PairwiseNone == ASSUME NEW R PROVE Pairwise(<<>>, <<>>, R) /\ <<>> \in Seq(Contents)
<1>1. Len(<<>>) = 0 /\ 1..0 = {} /\ <<>> \in Seq(Contents)
  OBVIOUS
<1> QED BY <1>1 DEF Pairwise

\* No commands write nothing.
LEMMA BuildsNothing ==
  ASSUME NEW img
  PROVE  Builds(img, <<>>, <<>>, {}, 0)
<1>1. <<>> \in Seq(CommandSet) /\ Len(<<>>) = 0 /\ 1..0 = {}
  OBVIOUS
<1>2. NewBlocks(<<>>) = <<>>
  BY <1>1, NoNewBlocks
<1> QED BY <1>1, <1>2, WritesNothing, PairwiseNone DEF Builds

\* The commands of one set.
LEMMA BuildsZeros ==
  ASSUME NEW img, NEW r, Canonical(r), \A b \in Blocks(r) : Final(img, b) = Zero
  PROVE  Builds(img, ZeroCommands(r), <<>>, Blocks(r), Size(r))
<1> DEFINE list == ZeroCommands(r)
<1>1. /\ Writes(list, Blocks(r), Size(r))
      /\ \A i \in 1..Len(list) : list[i].cmd = "zero"
  BY ZeroCommandsWrite
<1> HIDE DEF list
<1>2. list \in Seq(CommandSet) /\ Cover(list) = Blocks(r)
  BY <1>1 DEF Writes
<1>3. NewBlocks(list) = <<>>
  BY <1>1, <1>2, NoNewBlocks
<1>4. \A i \in 1..Len(list) : Blocks(list[i].tgt) \subseteq Blocks(r)
  BY <1>2 DEF Cover
<1>5. \A i \in 1..Len(list) : Fits(img, list[i])
  BY <1>1, <1>4 DEF Fits
<1>6. Builds(img, list, <<>>, Blocks(r), Size(r))
  BY <1>1, <1>3, <1>5, PairwiseNone DEF Builds
<1> QED BY <1>6 DEF list

\* A command that is not for zeros.
LEMMA BuildsOne ==
  ASSUME NEW img, NEW c \in CommandSet, c.cmd # "zero", Fits(img, c),
         NEW dat \in Seq(Contents), Pairwise(NewOf(c), dat, Reads(img))
  PROVE  Builds(img, <<c>>, dat, Blocks(c.tgt), Weight(c))
<1> DEFINE list == <<c>>
<1>1. list \in Seq(CommandSet) /\ Len(list) = 1 /\ list[1] = c /\ 1..1 = {1}
  OBVIOUS
<1>2. Writes(list, Blocks(c.tgt), Weight(c))
  BY WritesOne
<1>3. NewBlocks(list) = NewOf(c)
  BY OneNewBlocks
<1> HIDE DEF list
<1>4. \A i \in 1..Len(list) : Fits(img, list[i])
  BY <1>1
<1>5. Builds(img, list, dat, Blocks(c.tgt), Weight(c))
  BY <1>2, <1>3, <1>4 DEF Builds
<1> QED BY <1>5 DEF list

\* The command that erases what nobody cares about.
LEMMA BuildsErase ==
  ASSUME NEW img, NEW r, Canonical(r),
         \A b \in Blocks(r) : b \notin Blocks(CareMap(img)) /\ Final(img, b) = Erased
  PROVE  Builds(img, <<[cmd |-> "erase", tgt |-> r]>>, <<>>, Blocks(r), 0)
<1> DEFINE c == [cmd |-> "erase", tgt |-> r]
<1>1. r \in Seq(Int)
  BY DEF Canonical
<1>2. c.cmd = "erase" /\ c.tgt = r /\ c \in CommandSet
  BY <1>1 DEF CommandSet, BlockSets
<1> HIDE DEF c
<1>3. Fits(img, c) /\ NewOf(c) = <<>> /\ Weight(c) = 0
  BY <1>2 DEF Fits, NewOf, Weight
<1>4. Builds(img, <<c>>, <<>>, Blocks(c.tgt), Weight(c))
  BY <1>2, <1>3, PairwiseNone, BuildsOne
<1>5. Builds(img, <<c>>, <<>>, Blocks(r), 0)
  BY <1>2, <1>3, <1>4
<1> QED BY <1>5 DEF c

\* A command for new data.
LEMMA BuildsNew ==
  ASSUME NEW img \in Seq(ImageChunks), NEW r, Canonical(r),
         Blocks(r) \subseteq Blocks(CareMap(img))
  PROVE  Builds(img, <<[cmd |-> "new", tgt |-> r]>>, ReadRangeSet(img, r),
                Blocks(r), Size(r))
<1> DEFINE c == [cmd |-> "new", tgt |-> r]  dat == ReadRangeSet(img, r)
<1>1. r \in Seq(Int)
  BY DEF Canonical
<1>2. c.cmd = "new" /\ c.tgt = r /\ c \in CommandSet
  BY <1>1 DEF CommandSet, BlockSets
<1>6. dat \in Seq(Contents) /\ Pairwise(BlockList(r), dat, Reads(img))
  BY SetReads
<1> HIDE DEF c, dat
<1>3. Fits(img, c) /\ NewOf(c) = BlockList(r) /\ Weight(c) = Size(r)
  BY <1>2 DEF Fits, NewOf, Weight
<1>4. Builds(img, <<c>>, dat, Blocks(c.tgt), Weight(c))
  BY <1>2, <1>3, <1>6, BuildsOne
<1>5. Builds(img, <<c>>, dat, Blocks(r), Size(r))
  BY <1>2, <1>3, <1>4
<1> QED BY <1>5 DEF c, dat

\* The commands of a transfer, and its new data.
CommandsOf(x) ==
  IF x.style = "zero" THEN ZeroCommands(x.tgt) ELSE <<[cmd |-> "new", tgt |-> x.tgt]>>
DataOf(img, x) == IF x.style = "new" THEN ReadRangeSet(img, x.tgt) ELSE <<>>

\* The commands of one transfer.
LEMMA BuildsTransfer ==
  ASSUME NEW img \in Seq(ImageChunks), NEW x \in Planned(img),
         Blocks(x.tgt) \subseteq Blocks(CareMap(img))
  PROVE  Builds(img, CommandsOf(x), DataOf(img, x), Blocks(x.tgt), Size(x.tgt))
<1>1. /\ Canonical(x.tgt) /\ x.style \in {"zero", "new"}
      /\ x.style = "zero" => \A b \in Blocks(x.tgt) : BlockAt(img, b) = Zero
  BY DEF Planned, TransferSet, BlockSets
<1>2. CASE x.style = "zero"
  <2>1. \A b \in Blocks(x.tgt) : Final(img, b) = Zero
    BY <1>1, <1>2 DEF Final
  <2>2. CommandsOf(x) = ZeroCommands(x.tgt) /\ DataOf(img, x) = <<>>
    BY <1>2 DEF CommandsOf, DataOf
  <2> QED BY <1>1, <2>1, <2>2, BuildsZeros
<1>3. CASE x.style = "new"
  <2>1. /\ CommandsOf(x) = <<[cmd |-> "new", tgt |-> x.tgt]>>
        /\ DataOf(img, x) = ReadRangeSet(img, x.tgt)
    BY <1>3 DEF CommandsOf, DataOf
  <2> QED BY <1>1, <2>1, BuildsNew
<1> QED BY <1>1, <1>2, <1>3

\* The transfers write the care map.
LEMMA BuildsTransfers ==
  ASSUME NEW img \in Seq(ImageChunks), NEW t, Covers(img, t)
  PROVE  Builds(img, FlattenSeq([i \in 1..Len(t) |-> CommandsOf(t[i])]),
                FlattenSeq([i \in 1..Len(t) |-> DataOf(img, t[i])]),
                Blocks(CareMap(img)), Total([i \in 1..Len(t) |-> Size(t[i].tgt)]))
<1> DEFINE N == Len(t)
           cc == [i \in 1..N |-> CommandsOf(t[i])]
           dd == [i \in 1..N |-> DataOf(img, t[i])]
           ww == [i \in 1..N |-> Size(t[i].tgt)]
           B(i) == Blocks(t[i].tgt)
           Of(k) == UNION {B(i) : i \in 1..k}
<1>1. /\ t \in Seq(Planned(img)) /\ Blocks(CareMap(img)) = Of(N)
      /\ \A i, j \in 1..N : i # j => B(i) \cap B(j) = {}
  BY DEF Covers
<1>2. N \in Nat /\ \A i \in 1..N : t[i] \in Planned(img)
  BY <1>1, LenProperties, ElementOfSeq
<1> HIDE DEF N, cc, dd, ww
<1>3. ASSUME NEW i \in 1..N PROVE Builds(img, cc[i], dd[i], B(i), ww[i])
  <2>1. B(i) \subseteq Blocks(CareMap(img))
    BY <1>1
  <2>2. Builds(img, CommandsOf(t[i]), DataOf(img, t[i]), Blocks(t[i].tgt), Size(t[i].tgt))
    BY <1>2, <2>1, BuildsTransfer
  <2> QED BY <2>2 DEF cc, dd, ww
<1>4. ASSUME NEW i \in 1..N
      PROVE  cc[i] \in Seq(CommandSet) /\ dd[i] \in Seq(Contents) /\ ww[i] \in Int
  <2>1. Canonical(t[i].tgt)
    BY <1>2 DEF Planned, TransferSet, BlockSets
  <2>2. ww[i] \in Int
    BY <2>1, SizeIsNat DEF ww
  <2> QED BY <1>3, <2>2 DEF Builds, Writes
<1>5. cc \in Seq(Seq(CommandSet)) /\ Len(cc) = N
  <2>1. cc \in [1..N -> Seq(CommandSet)]
    BY <1>4 DEF cc
  <2> QED BY <1>2, <2>1, TableSeq
<1>6. dd \in Seq(Seq(Contents)) /\ Len(dd) = N
  <2>1. dd \in [1..N -> Seq(Contents)]
    BY <1>4 DEF dd
  <2> QED BY <1>2, <2>1, TableSeq
<1>7. ww \in Seq(Int) /\ Len(ww) = N
  <2>1. ww \in [1..N -> Int]
    BY <1>4 DEF ww
  <2> QED BY <1>2, <2>1, TableSeq
<1>8. PICK f \in [0..N -> Seq(CommandSet)] : Flattens(f, cc)
  BY <1>5, FlattenTable
<1>9. PICK g \in [0..N -> Seq(Contents)] : Flattens(g, dd)
  BY <1>6, FlattenTable
<1>10. PICK h : /\ h[0] = 0 /\ Total(ww) = h[N]
                /\ \A k \in 1..N : h[k] = h[k - 1] + ww[k]
  BY <1>7, TotalRuns
<1>11. /\ f[0] = <<>> /\ FlattenSeq(cc) = f[N] /\ g[0] = <<>> /\ FlattenSeq(dd) = g[N]
       /\ \A k \in 1..N : f[k] = f[k - 1] \o cc[k] /\ g[k] = g[k - 1] \o dd[k]
  BY <1>5, <1>6, <1>8, <1>9 DEF Flattens
<1> DEFINE T == {k \in Nat : k <= N => Builds(img, f[k], g[k], Of(k), h[k])}
<1>12. 0 \in T
  <2>1. Of(0) = {}
    OBVIOUS
  <2>2. Builds(img, f[0], g[0], Of(0), h[0])
    <3> HIDE DEF Of
    <3> QED BY <1>10, <1>11, <2>1, BuildsNothing, Zenon
  <2> QED BY <2>2
<1>13. ASSUME NEW k \in Nat, k \in T PROVE k + 1 \in T
  <2> DEFINE j == k + 1
  <2>1. ASSUME j <= N PROVE Builds(img, f[j], g[j], Of(j), h[j])
    <3>1. j \in 1..N /\ j - 1 = k /\ Builds(img, f[k], g[k], Of(k), h[k])
      BY <1>2, <1>13, <2>1
    <3>2. Of(j) = Of(k) \cup B(j)
      <4>1. 1..j = (1..k) \cup {j}
        OBVIOUS
      <4> HIDE DEF j, B
      <4> QED BY <4>1
    <3>3. Of(k) \cap B(j) = {}
      <4>1. \A i \in 1..k : i \in 1..N /\ i # j
        BY <1>2, <2>1
      <4> HIDE DEF j, B
      <4>2. \A i \in 1..k : B(i) \cap B(j) = {}
        BY <1>1, <3>1, <4>1, Zenon
      <4> QED BY <4>2
    <3>4. Builds(img, cc[j], dd[j], B(j), ww[j])
      BY <1>3, <3>1
    <3> HIDE DEF j, B, Of
    <3>5. f[j] = f[k] \o cc[j] /\ g[j] = g[k] \o dd[j] /\ h[j] = h[k] + ww[j]
      BY <1>10, <1>11, <3>1
    <3>6. Builds(img, f[k] \o cc[j], g[k] \o dd[j], Of(k) \cup B(j), h[k] + ww[j])
      BY <3>1, <3>3, <3>4, BuildsConcat, Zenon
    <3> QED BY <3>2, <3>5, <3>6
  <2>2. j \in Nat
    OBVIOUS
  <2> HIDE DEF j, Of
  <2>3. j \in T
    BY <2>1, <2>2, Zenon
  <2> QED BY <2>3 DEF j
<1>14. Builds(img, f[N], g[N], Of(N), h[N])
  <2>1. N \in T
    <3> HIDE DEF T
    <3> QED BY <1>2, <1>12, <1>13, OneByOne
  <2> QED BY <1>2, <2>1
<1>15. Builds(img, FlattenSeq(cc), FlattenSeq(dd), Blocks(CareMap(img)), Total(ww))
  BY <1>1, <1>10, <1>11, <1>14
<1> QED BY <1>15 DEF cc, dd, ww, N

\* The whole list writes each block of the device once, and its header counts them.
LEMMA CommandsBuild ==
  ASSUME NEW img \in Seq(ImageChunks), NEW t, Covers(img, t), Zones(img)
  PROVE  Builds(img, Commands(img, t), NewData(img, t), 0..(TotalBlocks(img) - 1),
                BlocksWritten(img, t))
<1> DEFINE care == CareMap(img)  ext == Extended(img)  rest == DontCare(img)
           erase == IF rest = <<>> THEN <<>> ELSE <<[cmd |-> "erase", tgt |-> rest]>>
           N == Len(t)
           moves == FlattenSeq([i \in 1..N |-> CommandsOf(t[i])])
           dat == FlattenSeq([i \in 1..N |-> DataOf(img, t[i])])
           n == Total([i \in 1..N |-> Size(t[i].tgt)])
           zeros == ZeroCommands(ext)
<1>1. /\ Canonical(care) /\ Canonical(ext) /\ Canonical(rest)
      /\ Blocks(ext) \cap Blocks(care) = {}
      /\ Blocks(rest) \cap (Blocks(care) \cup Blocks(ext)) = {}
      /\ Blocks(care) \cup Blocks(ext) \cup Blocks(rest) = 0..(TotalBlocks(img) - 1)
  BY DEF Zones
<1>2. DOMAIN t = 1..N
  BY LenProperties DEF Covers
<1>3. Commands(img, t) = erase \o moves \o zeros
  BY <1>2, Zenon DEF Commands, CommandsOf
<1>4. NewData(img, t) = dat
  BY <1>2, Zenon DEF NewData, DataOf
<1>5. BlocksWritten(img, t) = n + Size(ext)
  BY <1>2, Zenon DEF BlocksWritten
<1>6. Builds(img, moves, dat, Blocks(care), n)
  BY BuildsTransfers
<1>7. Builds(img, zeros, <<>>, Blocks(ext), Size(ext))
  <2>1. \A b \in Blocks(ext) : Final(img, b) = Zero
    BY <1>1 DEF Final
  <2> QED BY <1>1, <2>1, BuildsZeros
<1>8. Builds(img, erase, <<>>, Blocks(rest), 0)
  <2>1. CASE rest = <<>>
    <3>1. Blocks(rest) = {} /\ erase = <<>>
      BY <2>1, EmptySetCanonical
    <3> QED BY <3>1, BuildsNothing
  <2>2. CASE rest # <<>>
    <3>1. \A b \in Blocks(rest) : b \notin Blocks(care) /\ Final(img, b) = Erased
      BY <1>1 DEF Final
    <3>2. Builds(img, <<[cmd |-> "erase", tgt |-> rest]>>, <<>>, Blocks(rest), 0)
      BY <1>1, <3>1, BuildsErase
    <3> QED BY <2>2, <3>2
  <2> QED BY <2>1, <2>2
<1> HIDE DEF erase, moves, zeros, dat, n, care, ext, rest
<1>9. Builds(img, erase \o moves, <<>> \o dat, Blocks(rest) \cup Blocks(care), 0 + n)
  BY <1>1, <1>6, <1>8, BuildsConcat
<1>10. Builds(img, (erase \o moves) \o zeros, (<<>> \o dat) \o <<>>,
              (Blocks(rest) \cup Blocks(care)) \cup Blocks(ext), (0 + n) + Size(ext))
  BY <1>1, <1>7, <1>9, BuildsConcat
<1>11. dat \in Seq(Contents)
  BY <1>6 DEF Builds
<1>12. (<<>> \o dat) \o <<>> = dat
  BY <1>11, ConcatEmptySeq
<1>13. (Blocks(rest) \cup Blocks(care)) \cup Blocks(ext) = 0..(TotalBlocks(img) - 1)
  BY <1>1
<1>14. n \in Int
  <2>1. Total(Weights(moves)) = n /\ moves \in Seq(CommandSet)
    BY <1>6 DEF Builds, Writes
  <2> QED BY <2>1, WeightsTyped, TotalOfConcat
<1>15. (0 + n) + Size(ext) = n + Size(ext)
  BY <1>14
<1> QED BY <1>3, <1>4, <1>5, <1>10, <1>12, <1>13, <1>15

\* The blocks the new data is for are of the care map, and the others are zeros.
LEMMA NewBlocksCover ==
  ASSUME NEW img, NEW list, NEW dat, NEW B, NEW n, Builds(img, list, dat, B, n),
         Blocks(CareMap(img)) \subseteq B
  PROVE  /\ NewBlocks(list) \in Seq(Int)
         /\ Items(NewBlocks(list)) \subseteq Blocks(CareMap(img))
         /\ \A b \in Blocks(CareMap(img)) :
              b \notin Items(NewBlocks(list)) => BlockAt(img, b) = Zero
<1> DEFINE N == Len(list)  care == Blocks(CareMap(img))
           ss == [i \in 1..N |-> NewOf(list[i])]
           new == NewBlocks(list)
<1>1. /\ list \in Seq(CommandSet) /\ Cover(list) = B
      /\ \A i \in 1..N : Fits(img, list[i])
  BY DEF Builds, Writes
<1>2. N \in Nat /\ \A i \in 1..N : list[i] \in CommandSet
  BY <1>1, LenProperties, ElementOfSeq
<1>3. ss \in Seq(Seq(Int)) /\ Len(ss) = N /\ new = FlattenSeq(ss)
  BY <1>1, NewBlocksFlat
<1> HIDE DEF new
<1>4. ASSUME NEW i \in 1..N, list[i].cmd = "new"
      PROVE  Items(ss[i]) = Blocks(list[i].tgt)
  <2>1. Canonical(list[i].tgt)
    BY <1>2 DEF CommandSet, BlockSets
  <2>2. ss[i] = BlockList(list[i].tgt)
    BY <1>4 DEF NewOf
  <2> QED BY <2>1, <2>2, BlockListItems
<1>5. ASSUME NEW i \in 1..N, list[i].cmd # "new"
      PROVE  Items(ss[i]) = {}
  <2>1. ss[i] = <<>>
    BY <1>5 DEF NewOf
  <2>2. Len(<<>>) = 0 /\ 1..0 = {}
    OBVIOUS
  <2> QED BY <2>1, <2>2 DEF Items
<1> HIDE DEF ss, N
<1>6. /\ new \in Seq(Int)
      /\ \A x : x \in Items(new) <=> \E i \in 1..N : x \in Items(ss[i])
  BY <1>3, FlattenItems
<1>7. ASSUME NEW b \in Items(new) PROVE b \in care
  <2>1. PICK i \in 1..N : b \in Items(ss[i])
    BY <1>6, <1>7
  <2>2. list[i].cmd = "new"
    BY <1>5, <2>1
  <2>3. b \in Blocks(list[i].tgt)
    BY <1>4, <2>1, <2>2
  <2> QED BY <1>1, <2>2, <2>3 DEF Fits
<1>8. ASSUME NEW b \in care, b \notin Items(new) PROVE BlockAt(img, b) = Zero
  <2>1. PICK i \in 1..N : b \in Blocks(list[i].tgt)
    BY <1>1 DEF Cover, N
  <2>2. list[i].cmd \in {"erase", "zero", "new"}
    BY <1>2 DEF CommandSet
  <2>3. list[i].cmd # "new"
    <3> SUFFICES ASSUME list[i].cmd = "new" PROVE FALSE
      OBVIOUS
    <3>1. b \in Items(ss[i])
      BY <1>4, <2>1
    <3> QED BY <1>6, <1>8, <3>1
  <2>4. list[i].cmd # "erase"
    BY <1>1, <2>1 DEF Fits
  <2>5. Final(img, b) = Zero
    BY <1>1, <2>1, <2>2, <2>3, <2>4 DEF Fits
  <2> QED BY <2>5 DEF Final
<1> QED BY <1>6, <1>7, <1>8 DEF new
-----------------------------------------------------------------------------
(* The image that Sdat2img writes.                                          *)

\* "new" is the file with v as its block b; a block that it skips is zero.
Wrote(file, b, v, new) ==
  /\ new \in Seq(Contents) /\ b < Len(new) /\ Len(file) <= Len(new)
  /\ new[b + 1] = v
  /\ \A i \in 1..Len(file) : i # b + 1 => new[i] = file[i]
  /\ \A i \in 1..Len(new) : i # b + 1 /\ i \notin 1..Len(file) => new[i] = Zero

\* What a write leaves in the file.
LEMMA WriteTyped ==
  ASSUME NEW file \in Seq(Contents), NEW b \in Nat, NEW v \in Contents
  PROVE  Wrote(file, b, v, Write(file, b, v))
<1> DEFINE n == IF b < Len(file) THEN Len(file) ELSE b + 1
           item(i) == IF i = b + 1 THEN v ELSE IF i <= Len(file) THEN file[i] ELSE Zero
           new == [i \in 1..n |-> item(i)]
<1>1. Len(file) \in Nat /\ \A i \in 1..Len(file) : file[i] \in Contents
  BY LenProperties, ElementOfSeq
<1>2. Zero \in Contents
  BY DEF Zero, Contents
<1>3. n \in Nat /\ b < n /\ Len(file) <= n
  BY <1>1
<1>4. Write(file, b, v) = new
  BY DEF Write
<1> HIDE DEF n
<1>5. \A i \in 1..n : item(i) \in Contents
  BY <1>1, <1>2
<1>6. new \in [1..n -> Contents]
  BY <1>5
<1>7. /\ item(b + 1) = v
      /\ \A i \in 1..Len(file) : i # b + 1 => item(i) = file[i]
      /\ \A i \in 1..n : i # b + 1 /\ i \notin 1..Len(file) => item(i) = Zero
  BY <1>1
<1>8. b + 1 \in 1..n /\ \A i \in 1..Len(file) : i \in 1..n
  BY <1>1, <1>3
<1> HIDE DEF item
<1>9. /\ new[b + 1] = v
      /\ \A i \in 1..Len(file) : i # b + 1 => new[i] = file[i]
      /\ \A i \in 1..n : i # b + 1 /\ i \notin 1..Len(file) => new[i] = Zero
  BY <1>7, <1>8
<1> HIDE DEF new
<1>10. new \in Seq(Contents) /\ Len(new) = n
  BY <1>3, <1>6, TableSeq
<1>11. Wrote(file, b, v, new)
  BY <1>3, <1>9, <1>10 DEF Wrote
<1> QED BY <1>4, <1>11, Zenon

\* The writes of Sdat2img, one by one.
LEMMA CopyRuns ==
  ASSUME NEW blocks \in Seq(Nat), NEW dat \in Seq(Contents), Len(blocks) = Len(dat)
  PROVE  \E f : /\ f[0] = <<>>
                /\ \A k \in 1..Len(blocks) : f[k] = Write(f[k - 1], blocks[k], dat[k])
                /\ CopyBlocks(blocks, dat) = f[Len(blocks)]
<1> DEFINE N == Len(blocks)
           s == [k \in 1..N |-> k]
           Equation(iter) == iter = [S \in SUBSET (1..N) |->
             IF S = {} THEN <<>>
             ELSE Write(iter[S \ {Max(S)}], blocks[s[Max(S)]], dat[s[Max(S)]])]
<1>1. /\ N \in Nat /\ DOMAIN blocks = 1..N
      /\ \A i \in 1..N : blocks[i] \in Nat /\ dat[i] \in Contents
  BY LenProperties, ElementOfSeq
<1> HIDE DEF N
<1>10. DOMAIN s = 1..N /\ \A i \in 1..N : s[i] = i
  OBVIOUS
<1>11. s = [k \in DOMAIN blocks |-> k]
  BY <1>1
<1> HIDE DEF s
<1>2. \E iter : Equation(iter)
  <2> DEFINE A == Seq(Contents)
             G == [p \in A \X (1..N) |-> Write(p[1], blocks[s[p[2]]], dat[s[p[2]]])]
  <2> HIDE DEF A
  <2>0. \A file \in A, b \in Nat, v \in Contents : Write(file, b, v) \in A
    BY WriteTyped DEF A, Wrote
  <2>1. G \in [A \X (1..N) -> A]
    BY <1>1, <1>10, <2>0
  <2>3. PICK iter \in [SUBSET (1..N) -> A] : Tabulates(iter, N, <<>>, G)
    <3>1. <<>> \in A
      BY DEF A
    <3> HIDE DEF G
    <3> QED BY <1>1, <2>1, <3>1, FoldTable
  <2>4. ASSUME NEW S \in SUBSET (1..N), S # {}
        PROVE  G[iter[S \ {Max(S)}], Max(S)]
                 = Write(iter[S \ {Max(S)}], blocks[s[Max(S)]], dat[s[Max(S)]])
    <3>1. Max(S) \in 1..N
      BY <1>1, <2>4, MaxIn
    <3>2. iter[S \ {Max(S)}] \in A
      BY <2>3
    <3> QED BY <3>1, <3>2
  <2>5. Equation(iter)
    <3> HIDE DEF G
    <3> QED BY <2>3, <2>4 DEF Tabulates
  <2> QED BY <2>5
<1> DEFINE iter == CHOOSE iter : Equation(iter)
<1>3. Equation(iter)
  BY <1>2
<1>4. FoldLeft(LAMBDA file, k : Write(file, blocks[k], dat[k]), <<>>, s) = iter[1..N]
  BY <1>10 DEF FoldLeft, MapThenFoldSet
<1> HIDE DEF iter
<1> DEFINE f == [k \in 0..N |-> iter[1..k]]
<1>5. f[0] = <<>>
  <2>1. 1..0 = {} /\ 0 \in 0..N
    BY <1>1
  <2> QED BY <1>3, <2>1
<1>6. ASSUME NEW k \in 1..N PROVE f[k] = Write(f[k - 1], blocks[k], dat[k])
  <2>1. f[k] = iter[1..k] /\ f[k - 1] = iter[1..k - 1]
    BY <1>1
  <2>2. /\ 1..k \in SUBSET (1..N) /\ 1..k # {}
        /\ Max(1..k) = k /\ (1..k) \ {Max(1..k)} = 1..k - 1
    BY <1>1, PrefixFacts
  <2>3. iter[1..k] = Write(iter[(1..k) \ {Max(1..k)}], blocks[s[Max(1..k)]],
                           dat[s[Max(1..k)]])
    BY <1>3, <2>2
  <2>4. s[k] = k
    BY <1>10
  <2> QED BY <2>1, <2>2, <2>3, <2>4, Zenon
<1>7. f[N] = iter[1..N]
  BY <1>1
<1>8. CopyBlocks(blocks, dat) = f[N]
  BY <1>4, <1>7, <1>11, Zenon DEF CopyBlocks
<1> HIDE DEF f
<1> QED BY <1>5, <1>6, <1>8 DEF N

\* The file holds the first k blocks of those that are written, and zeros.
Mirror(img, blocks, k, file) ==
  /\ file \in Seq(Contents)
  /\ \A i \in 1..k : blocks[i] < Len(file) /\ file[blocks[i] + 1] = BlockAt(img, blocks[i])
  /\ \A b \in Nat : b < Len(file) /\ (\A i \in 1..k : blocks[i] # b) => file[b + 1] = Zero

\* One write more.
LEMMA WriteCopies ==
  ASSUME NEW img, NEW blocks \in Seq(Nat), NEW k \in Nat, k + 1 \in 1..Len(blocks),
         NEW file, Mirror(img, blocks, k, file), BlockAt(img, blocks[k + 1]) \in Contents
  PROVE  Mirror(img, blocks, k + 1,
                Write(file, blocks[k + 1], BlockAt(img, blocks[k + 1])))
<1> DEFINE j == k + 1  b == blocks[j]  v == BlockAt(img, b)  new == Write(file, b, v)
<1>1. /\ file \in Seq(Contents)
      /\ \A i \in 1..k : blocks[i] < Len(file) /\ file[blocks[i] + 1] = BlockAt(img, blocks[i])
      /\ \A c \in Nat : c < Len(file) /\ (\A i \in 1..k : blocks[i] # c)
                          => file[c + 1] = Zero
  BY DEF Mirror
<1>2. b \in Nat /\ v \in Contents /\ Len(file) \in Nat
  BY <1>1, LenProperties, ElementOfSeq
<1>3. \A i \in 1..k : blocks[i] \in Nat /\ i \in 1..j
  BY LenProperties, ElementOfSeq
<1>4. \A i \in 1..j : i = j \/ i \in 1..k
  OBVIOUS
<1>13. Wrote(file, b, v, new)
  BY <1>1, <1>2, WriteTyped, Zenon
<1>5. /\ new \in Seq(Contents) /\ b < Len(new) /\ Len(file) <= Len(new)
      /\ new[b + 1] = v
      /\ \A i \in 1..Len(file) : i # b + 1 => new[i] = file[i]
      /\ \A i \in 1..Len(new) : i # b + 1 /\ i \notin 1..Len(file) => new[i] = Zero
  <2> HIDE DEF new
  <2> QED BY <1>13 DEF Wrote
<1>6. Len(new) \in Nat
  BY <1>5, LenProperties
<1>12. j \in 1..j
  OBVIOUS
<1> HIDE DEF new, j, b
<1>7. ASSUME NEW i \in 1..j
      PROVE  blocks[i] < Len(new) /\ new[blocks[i] + 1] = BlockAt(img, blocks[i])
  <2>1. CASE blocks[i] = b
    BY <1>5, <2>1
  <2>2. CASE blocks[i] # b
    <3>1. i \in 1..k
      BY <1>4, <2>2 DEF b
    <3>2. /\ blocks[i] \in Nat /\ blocks[i] < Len(file)
          /\ file[blocks[i] + 1] = BlockAt(img, blocks[i])
      BY <1>1, <1>3, <3>1
    <3>3. blocks[i] + 1 \in 1..Len(file) /\ blocks[i] + 1 # b + 1
      <4> DEFINE x == blocks[i]  n == Len(file)
      <4>1. x \in Nat /\ b \in Nat /\ n \in Nat /\ x < n /\ x # b
        BY <1>2, <2>2, <3>2
      <4> HIDE DEF x, n
      <4>2. x + 1 \in 1..n /\ x + 1 # b + 1
        BY <4>1
      <4> QED BY <4>2 DEF x, n
    <3>4. new[blocks[i] + 1] = file[blocks[i] + 1]
      BY <1>5, <3>3
    <3> QED BY <1>2, <1>5, <1>6, <3>2, <3>4
  <2> QED BY <2>1, <2>2
<1>8. ASSUME NEW c \in Nat, c < Len(new), \A i \in 1..j : blocks[i] # c
      PROVE  new[c + 1] = Zero
  <2>1. c # b /\ \A i \in 1..k : blocks[i] # c
    BY <1>3, <1>8, <1>12 DEF b
  <2>2. c + 1 # b + 1 /\ c + 1 \in 1..Len(new)
    BY <1>2, <1>6, <1>8, <2>1
  <2>3. CASE c < Len(file)
    <3>1. file[c + 1] = Zero
      BY <1>1, <2>1, <2>3
    <3>2. c + 1 \in 1..Len(file)
      BY <1>2, <2>3
    <3> QED BY <1>5, <2>2, <3>1, <3>2
  <2>4. CASE ~(c < Len(file))
    <3>1. c + 1 \notin 1..Len(file)
      BY <1>2, <2>4
    <3> QED BY <1>5, <2>2, <3>1
  <2> QED BY <2>3, <2>4
<1>9. Mirror(img, blocks, j, new)
  BY <1>5, <1>7, <1>8 DEF Mirror
<1> QED BY <1>9 DEF new, j, b

\* What is copied is the image, and zeros.
LEMMA CopiedImage ==
  ASSUME NEW img, NEW blocks \in Seq(Nat), NEW dat \in Seq(Contents),
         Pairwise(blocks, dat, Reads(img))
  PROVE  Mirror(img, blocks, Len(blocks), CopyBlocks(blocks, dat))
<1> DEFINE N == Len(blocks)
<1>1. /\ Len(dat) = N /\ N \in Nat
      /\ \A i \in 1..N : dat[i] = BlockAt(img, blocks[i]) /\ dat[i] \in Contents
  <2>1. \A i \in 1..N : <<blocks[i], dat[i]>> \in Reads(img)
    BY DEF Pairwise
  <2>2. \A i \in 1..N : dat[i] = BlockAt(img, blocks[i]) /\ dat[i] \in Contents
    BY <2>1 DEF Reads
  <2> QED BY <2>2, LenProperties DEF Pairwise
<1>2. PICK f : /\ f[0] = <<>>
               /\ \A k \in 1..N : f[k] = Write(f[k - 1], blocks[k], dat[k])
               /\ CopyBlocks(blocks, dat) = f[N]
  BY <1>1, CopyRuns
<1> DEFINE T == {k \in Nat : k <= N => Mirror(img, blocks, k, f[k])}
<1>3. 0 \in T
  <2>1. <<>> \in Seq(Contents) /\ Len(<<>>) = 0 /\ 1..0 = {} /\ \A b \in Nat : ~(b < 0)
    OBVIOUS
  <2>2. Mirror(img, blocks, 0, <<>>)
    BY <2>1 DEF Mirror
  <2> QED BY <1>2, <2>2
<1> HIDE DEF N
<1>4. ASSUME NEW k \in Nat, k \in T PROVE k + 1 \in T
  <2> DEFINE j == k + 1
  <2>1. ASSUME j <= N PROVE Mirror(img, blocks, j, f[j])
    <3>1. j \in 1..N /\ j - 1 = k /\ Mirror(img, blocks, k, f[k])
      BY <1>1, <1>4, <2>1
    <3>2. f[j] = Write(f[k], blocks[j], BlockAt(img, blocks[j]))
      BY <1>1, <1>2, <3>1
    <3>3. BlockAt(img, blocks[j]) \in Contents
      BY <1>1, <3>1
    <3>4. Mirror(img, blocks, j, Write(f[k], blocks[j], BlockAt(img, blocks[j])))
      BY <3>1, <3>3, WriteCopies DEF N
    <3> QED BY <3>2, <3>4
  <2>2. j \in Nat
    OBVIOUS
  <2> HIDE DEF j
  <2>3. j \in T
    BY <2>1, <2>2, Zenon
  <2> QED BY <2>3 DEF j
<1>5. Mirror(img, blocks, N, f[N])
  <2>1. N \in T
    <3> HIDE DEF T
    <3> QED BY <1>1, <1>3, <1>4, OneByOne
  <2> QED BY <1>1, <2>1
<1> QED BY <1>2, <1>5 DEF N

\* Running the new commands gives the image, short of trailing zeros.
LEMMA UnpacksImage ==
  ASSUME NEW img \in Seq(ImageChunks), NEW list, NEW dat, NEW n,
         Builds(img, list, dat, 0..(TotalBlocks(img) - 1), n),
         NEW b \in 0..(TotalBlocks(img) - 1)
  PROVE  LET file == CopyBlocks(NewBlocks(list), dat) IN
           (IF b \in Blocks(CareMap(img)) THEN BlockAt(img, b) ELSE Zero)
             = IF b < Len(file) THEN file[b + 1] ELSE Zero
<1> DEFINE new == NewBlocks(list)  file == CopyBlocks(new, dat)  care == Blocks(CareMap(img))
<1>1. /\ TotalBlocks(img) \in Nat /\ care \subseteq 0..(TotalBlocks(img) - 1)
  BY CareWithin
<1>2. /\ new \in Seq(Int) /\ Items(new) \subseteq care
      /\ \A c \in care : c \notin Items(new) => BlockAt(img, c) = Zero
  BY <1>1, NewBlocksCover
<1>3. dat \in Seq(Contents) /\ Pairwise(new, dat, Reads(img))
  BY DEF Builds
<1> HIDE DEF new
<1>4. Len(new) \in Nat /\ \A i \in 1..Len(new) : new[i] \in Nat
  BY <1>1, <1>2, LenProperties DEF Items
<1>5. new \in Seq(Nat)
  <2>1. new \in [1..Len(new) -> Int]
    BY <1>2, LenProperties
  <2>2. new \in [1..Len(new) -> Nat]
    BY <1>4, <2>1
  <2> QED BY <1>4, <2>2, TableSeq
<1>6. Mirror(img, new, Len(new), file)
  BY <1>3, <1>5, CopiedImage
<1> HIDE DEF file
<1>7. b \in Nat
  OBVIOUS
<1>8. CASE b \in Items(new)
  <2>1. PICK i \in 1..Len(new) : new[i] = b
    BY <1>8 DEF Items
  <2>2. b < Len(file) /\ file[b + 1] = BlockAt(img, b)
    BY <1>6, <2>1 DEF Mirror
  <2>3. b \in care
    BY <1>2, <1>8
  <2> QED BY <2>2, <2>3 DEF file, new
<1>9. CASE b \notin Items(new)
  <2>1. \A i \in 1..Len(new) : new[i] # b
    BY <1>9 DEF Items
  <2>2. b < Len(file) => file[b + 1] = Zero
    BY <1>6, <1>7, <2>1 DEF Mirror
  <2>3. b \in care => BlockAt(img, b) = Zero
    BY <1>2, <1>9
  <2> QED BY <2>2, <2>3 DEF file, new
<1> QED BY <1>8, <1>9

-----------------------------------------------------------------------------
(* The two files of an image.                                               *)

\* What is packed: commands that write each block of the image once.
PlanOk(img, files) ==
  /\ Builds(img, files.list, files.dat, 0..(TotalBlocks(img) - 1), files.total)
  /\ Zones(img)

SdatOk ==
  /\ image \in Images
  /\ \/ sdat = <<>> /\ stage # "packed"
     \/ \E files : sdat = <<files>> /\ PlanOk(image, files)

\* The images are sequences of chunks.
LEMMA ImagesTyped == Images \subseteq Seq(ImageChunks)
BY BlockConstants DEF ImageChunks

\* What Img2sdat packs is a plan that writes each block once.
LEMMA PackedIsPlan ==
  ASSUME NEW img \in Seq(ImageChunks), NEW t \in Sequences(FileMap(img)), NEW version,
         AssertPartition(CareMap(img),
                         [i \in DOMAIN FileMap(img) |-> FileMap(img)[i].tgt])
  PROVE  PlanOk(img, [version |-> version, total |-> BlocksWritten(img, t),
                      list |-> Commands(img, t), dat |-> NewData(img, t)])
<1>1. Covers(img, t) /\ 0 \in Blocks(CareMap(img))
  BY TransfersCover
<1>2. Zones(img)
  BY <1>1, ZonesOfImage
<1>3. Builds(img, Commands(img, t), NewData(img, t), 0..(TotalBlocks(img) - 1),
             BlocksWritten(img, t))
  BY <1>1, <1>2, CommandsBuild
<1> QED BY <1>2, <1>3 DEF PlanOk

\* Nothing is packed at first.
LEMMA SdatInit == Init => SdatOk
BY DEF Init, SdatOk

\* What is packed stays such a plan.
LEMMA SdatNext == SdatOk /\ [Next]_vars => SdatOk'
<1> SUFFICES ASSUME SdatOk, [Next]_vars PROVE SdatOk'
  OBVIOUS
<1>1. image \in Images /\ image \in Seq(ImageChunks)
  BY ImagesTyped DEF SdatOk
<1>2. CASE Img2sdat
  <2>1. image' = image /\ stage = "image"
    BY <1>2 DEF Img2sdat
  <2>2. CASE stage' = "failed" /\ UNCHANGED sdat
    BY <1>1, <2>1, <2>2 DEF SdatOk
  <2>3. CASE \E version : \E t \in Sequences(FileMap(image)) :
               /\ AssertPartition(CareMap(image),
                                  [i \in DOMAIN FileMap(image) |-> FileMap(image)[i].tgt])
               /\ sdat' = <<[version |-> version, total |-> BlocksWritten(image, t),
                             list |-> Commands(image, t), dat |-> NewData(image, t)]>>
    <3>0. PICK version : \E t \in Sequences(FileMap(image)) :
               /\ AssertPartition(CareMap(image),
                                  [i \in DOMAIN FileMap(image) |-> FileMap(image)[i].tgt])
               /\ sdat' = <<[version |-> version, total |-> BlocksWritten(image, t),
                             list |-> Commands(image, t), dat |-> NewData(image, t)]>>
      BY <2>3
    <3>1. PICK t \in Sequences(FileMap(image)) :
               /\ AssertPartition(CareMap(image),
                                  [i \in DOMAIN FileMap(image) |-> FileMap(image)[i].tgt])
               /\ sdat' = <<[version |-> version, total |-> BlocksWritten(image, t),
                             list |-> Commands(image, t), dat |-> NewData(image, t)]>>
      BY <3>0
    <3>2. PlanOk(image, [version |-> version, total |-> BlocksWritten(image, t),
                         list |-> Commands(image, t), dat |-> NewData(image, t)])
      BY <1>1, <3>1, PackedIsPlan
    <3>3. PICK files : sdat' = <<files>> /\ PlanOk(image, files)
      BY <3>1, <3>2
    <3> QED BY <1>1, <2>1, <3>3 DEF SdatOk
  <2> DEFINE fits == AssertPartition(CareMap(image),
                                     [i \in DOMAIN FileMap(image) |-> FileMap(image)[i].tgt])
             file(v, t) == [version |-> v, total |-> BlocksWritten(image, t),
                            list |-> Commands(image, t), dat |-> NewData(image, t)]
  <2>4. PICK v : IF ~fits \/ v = 1 THEN stage' = "failed" /\ UNCHANGED sdat
                 ELSE /\ stage' = "packed"
                      /\ \E t \in Sequences(FileMap(image)) : sdat' = <<file(v, t)>>
    BY <1>2 DEF Img2sdat
  <2>5. CASE ~fits \/ v = 1
    BY <2>2, <2>4, <2>5
  <2>6. CASE ~(~fits \/ v = 1)
    <3>1. PICK t \in Sequences(FileMap(image)) : sdat' = <<file(v, t)>>
      BY <2>4, <2>6
    <3> QED BY <2>3, <2>6, <3>1
  <2> QED BY <2>5, <2>6
<1>3. CASE UNCHANGED <<image, stage, sdat>>
  BY <1>3 DEF SdatOk
<1> QED BY <1>2, <1>3 DEF Next, Sdat2img, Flash, vars

\* The image that is unpacked is the one that was packed.
RawOk == \A file \in ToSet(raw), b \in 0..(TotalBlocks(image) - 1) :
           (IF b \in Blocks(CareMap(image)) THEN BlockAt(image, b) ELSE Zero)
             = IF b < Len(file) THEN file[b + 1] ELSE Zero

\* The items of one item, and of none.
LEMMA ToSetOfOne == ASSUME NEW x PROVE ToSet(<<x>>) = {x} /\ ToSet(<<>>) = {}
BY DEF ToSet

\* What Sdat2img writes is the image.
LEMMA RawNext == SdatOk /\ RawOk /\ [Next]_vars => RawOk'
<1> SUFFICES ASSUME SdatOk, RawOk, [Next]_vars PROVE RawOk'
  OBVIOUS
<1>1. CASE Sdat2img
  <2>1. PICK files : sdat = <<files>> /\ PlanOk(image, files)
    BY <1>1 DEF Sdat2img, SdatOk
  <2>2. sdat[1] = files /\ image \in Seq(ImageChunks)
    BY <2>1, ImagesTyped DEF SdatOk
  <2> DEFINE new == NewBlocks(files.list)  file == CopyBlocks(new, files.dat)
  <2>3. Builds(image, files.list, files.dat, 0..(TotalBlocks(image) - 1), files.total)
    BY <2>1 DEF PlanOk
  <2>4. \A b \in 0..(TotalBlocks(image) - 1) :
          (IF b \in Blocks(CareMap(image)) THEN BlockAt(image, b) ELSE Zero)
            = IF b < Len(file) THEN file[b + 1] ELSE Zero
    BY <2>2, <2>3, UnpacksImage
  <2>5. raw' = <<file>> /\ image' = image
    BY <1>1, <2>2 DEF Sdat2img
  <2> HIDE DEF file
  <2>6. ToSet(raw') = {file}
    BY <2>5, ToSetOfOne
  <2> QED BY <2>4, <2>5, <2>6 DEF RawOk
<1>2. CASE UNCHANGED <<image, raw>>
  BY <1>2 DEF RawOk
<1> QED BY <1>1, <1>2 DEF Next, Img2sdat, Flash, vars

\* Whatever order the transfers come in, unpacking gives the image that was packed,
\* short of trailing zeros (ComputePatches, WriteTransfers, Sdat2img).
THEOREM ImageComesBack == Spec => []RoundTrip
<1>1. Init => SdatOk /\ RawOk
  <2>1. Init => RawOk
    BY ToSetOfOne DEF Init, RawOk
  <2> QED BY <2>1, SdatInit
<1>2. (SdatOk /\ RawOk) /\ [Next]_vars => (SdatOk /\ RawOk)'
  BY SdatNext, RawNext
<1>3. RawOk => RoundTrip
  BY DEF RawOk, RoundTrip, Meant
<1> QED BY <1>1, <1>2, <1>3, PTL DEF Spec

-----------------------------------------------------------------------------
(* The device that runs the list.                                           *)

\* What a command makes of block b of its set.
ValueOf(acc, c, b) ==
  CASE c.cmd = "new"   -> acc.dat[CHOOSE k \in DOMAIN BlockList(c.tgt) :
                                    BlockList(c.tgt)[k] = b]
    [] c.cmd = "zero"  -> Zero
    [] c.cmd = "erase" -> Erased

\* The parts of what a command leaves.
LEMMA RunIs ==
  ASSUME NEW acc, NEW c
  PROVE  /\ RunCommand(acc, c).flash = [b \in DOMAIN acc.flash |->
               IF b \in Blocks(c.tgt) THEN ValueOf(acc, c, b) ELSE acc.flash[b]]
         /\ RunCommand(acc, c).dat = IF c.cmd # "new" THEN acc.dat
               ELSE SubSeq(acc.dat, Len(BlockList(c.tgt)) + 1, Len(acc.dat))
BY DEF RunCommand, ValueOf

\* The place of a block in the list of the blocks of a set.
LEMMA BlockPlace ==
  ASSUME NEW r, Canonical(r), NEW b \in Blocks(r)
  PROVE  LET m == CHOOSE k \in DOMAIN BlockList(r) : BlockList(r)[k] = b IN
           m \in 1..Len(BlockList(r)) /\ BlockList(r)[m] = b
<1> DEFINE blocks == BlockList(r)
<1>1. blocks \in Seq(Int) /\ Items(blocks) = Blocks(r)
  BY BlockListItems
<1> HIDE DEF blocks
<1>2. DOMAIN blocks = 1..Len(blocks)
  BY <1>1, LenProperties
<1>3. \E k \in DOMAIN blocks : blocks[k] = b
  BY <1>1, <1>2 DEF Items
<1> DEFINE m == CHOOSE k \in DOMAIN blocks : blocks[k] = b
<1>4. m \in DOMAIN blocks /\ blocks[m] = b
  BY <1>3
<1> QED BY <1>2, <1>4 DEF blocks

\* Whatever a device may come to hold.
Values == {d[i] : d \in Seq(Contents), i \in Int} \cup {Zero, Erased, Garbage}
Runs(n) == [flash : [0..(n - 1) -> Values], dat : Seq(Contents)]

\* What a command leaves, in any state of the device.
LEMMA RunTyped ==
  ASSUME NEW n, NEW acc \in Runs(n), NEW c \in CommandSet
  PROVE  RunCommand(acc, c) \in Runs(n)
<1> DEFINE new == RunCommand(acc, c)
<1>1. /\ acc.flash \in [0..(n - 1) -> Values] /\ acc.dat \in Seq(Contents)
      /\ Canonical(c.tgt) /\ c.cmd \in {"erase", "zero", "new"}
  BY DEF Runs, CommandSet, BlockSets
<1>2. ASSUME NEW b \in Blocks(c.tgt) PROVE ValueOf(acc, c, b) \in Values
  <2>1. CASE c.cmd = "new"
    <3> DEFINE m == CHOOSE k \in DOMAIN BlockList(c.tgt) : BlockList(c.tgt)[k] = b
    <3>1. m \in 1..Len(BlockList(c.tgt))
      BY <1>1, BlockPlace
    <3>2. ValueOf(acc, c, b) = acc.dat[m]
      BY <2>1 DEF ValueOf
    <3> HIDE DEF m
    <3> QED BY <1>1, <3>1, <3>2 DEF Values
  <2>2. CASE c.cmd = "zero"
    BY <2>2 DEF ValueOf, Values
  <2>3. CASE c.cmd = "erase"
    BY <2>3 DEF ValueOf, Values
  <2> QED BY <1>1, <2>1, <2>2, <2>3
<1>3. new.flash \in [0..(n - 1) -> Values]
  <2> DEFINE held(b) == IF b \in Blocks(c.tgt) THEN ValueOf(acc, c, b) ELSE acc.flash[b]
             D == DOMAIN acc.flash
  <2>1. D = 0..(n - 1) /\ \A b \in 0..(n - 1) : acc.flash[b] \in Values
    BY <1>1
  <2>2. new.flash = [b \in D |-> held(b)]
    BY RunIs
  <2> HIDE DEF new, D
  <2>3. \A b \in D : held(b) \in Values
    BY <1>2, <2>1
  <2> HIDE DEF held
  <2>4. [b \in D |-> held(b)] \in [D -> Values]
    BY <2>3
  <2> QED BY <2>1, <2>2, <2>4
<1>4. new.dat \in Seq(Contents)
  <2> DEFINE m == Len(BlockList(c.tgt)) + 1  last == Len(acc.dat)
  <2>1. BlockList(c.tgt) \in Seq(Int)
    BY <1>1, BlockListItems
  <2>2. m \in Nat \ {0} /\ last \in Nat
    BY <1>1, <2>1, LenProperties
  <2>6. new.dat = IF c.cmd # "new" THEN acc.dat ELSE SubSeq(acc.dat, m, last)
    BY RunIs
  <2>3. \A i \in 1..last : acc.dat[i] \in Contents
    BY <1>1, ElementOfSeq
  <2> HIDE DEF m, last
  <2>4. \A i \in m..last : acc.dat[i] \in Contents
    BY <2>2, <2>3
  <2>5. SubSeq(acc.dat, m, last) \in Seq(Contents)
    BY <2>2, <2>4, SubSeqProperties
  <2> QED BY <1>1, <2>5, <2>6
<1>5. new = [flash |-> new.flash, dat |-> new.dat]
  BY DEF RunCommand
<1> HIDE DEF new
<1>6. new \in Runs(n)
  BY <1>3, <1>4, <1>5 DEF Runs
<1> QED BY <1>6 DEF new

\* One command gives its blocks what they are to hold, and leaves the data of the
\* commands that follow.
Fitted(img, c, acc, more, new) ==
  /\ DOMAIN new.flash = DOMAIN acc.flash
  /\ new.dat \in Seq(Contents) /\ Pairwise(more, new.dat, Reads(img))
  /\ \A b \in DOMAIN acc.flash :
       /\ b \in Blocks(c.tgt) => new.flash[b] = Final(img, b)
       /\ b \notin Blocks(c.tgt) => new.flash[b] = acc.flash[b]

\* A command that fits leaves its blocks as they are to be.
LEMMA RunFits ==
  ASSUME NEW img, NEW c \in CommandSet, Fits(img, c), NEW acc, acc.dat \in Seq(Contents),
         NEW more \in Seq(Int), Pairwise(NewOf(c) \o more, acc.dat, Reads(img))
  PROVE  Fitted(img, c, acc, more, RunCommand(acc, c))
<1> DEFINE new == RunCommand(acc, c)  list == NewOf(c)  all == list \o more  dat == acc.dat
<1>1. Canonical(c.tgt) /\ c.cmd \in {"erase", "zero", "new"}
  BY DEF CommandSet, BlockSets
<1>2. list \in Seq(Int)
  BY NewOfTyped
<1>3. Joins(all, list, more, Int)
  BY <1>2, JoinOf
<1>4. /\ new.flash = [b \in DOMAIN acc.flash |->
               IF b \in Blocks(c.tgt) THEN ValueOf(acc, c, b) ELSE acc.flash[b]]
      /\ new.dat = IF c.cmd # "new" THEN dat
               ELSE SubSeq(dat, Len(BlockList(c.tgt)) + 1, Len(dat))
  BY RunIs
<1>5. Pairwise(all, dat, Reads(img)) /\ dat \in Seq(Contents)
  OBVIOUS
<1>6. c.cmd = "new" => list = BlockList(c.tgt)
  BY DEF NewOf
<1>7. c.cmd # "new" => list = <<>> /\ Len(list) = 0
  BY DEF NewOf
<1> HIDE DEF new, list, all, dat
<1>8. /\ Len(list) \in Nat /\ Len(more) \in Nat /\ Len(all) = Len(list) + Len(more)
      /\ \A i \in 1..Len(list) : all[i] = list[i]
      /\ \A j \in 1..Len(more) : all[Len(list) + j] = more[j]
  BY <1>3 DEF Joins
<1>9. /\ Len(dat) = Len(all) /\ \A i \in 1..Len(all) : <<all[i], dat[i]>> \in Reads(img)
  BY <1>5 DEF Pairwise
<1>10. ASSUME NEW b \in DOMAIN acc.flash, b \in Blocks(c.tgt)
       PROVE  new.flash[b] = Final(img, b)
  <2>1. new.flash[b] = ValueOf(acc, c, b)
    BY <1>4, <1>10
  <2>2. CASE c.cmd = "new"
    <3> DEFINE m == CHOOSE k \in DOMAIN BlockList(c.tgt) : BlockList(c.tgt)[k] = b
    <3>1. m \in 1..Len(BlockList(c.tgt)) /\ BlockList(c.tgt)[m] = b
      BY <1>1, <1>10, BlockPlace
    <3>2. ValueOf(acc, c, b) = dat[m]
      BY <2>2 DEF ValueOf, dat
    <3> HIDE DEF m
    <3>3. m \in 1..Len(list) /\ list[m] = b
      BY <1>6, <2>2, <3>1
    <3>4. m \in 1..Len(all) /\ all[m] = b
      BY <1>8, <3>3
    <3>5. <<b, dat[m]>> \in Reads(img)
      BY <1>9, <3>4
    <3>6. dat[m] = BlockAt(img, b)
      BY <3>5 DEF Reads
    <3>7. b \in Blocks(CareMap(img))
      BY <1>10, <2>2 DEF Fits
    <3> QED BY <2>1, <3>2, <3>6, <3>7 DEF Final
  <2>3. CASE c.cmd = "zero"
    <3>1. ValueOf(acc, c, b) = Zero
      BY <2>3 DEF ValueOf
    <3>2. Final(img, b) = Zero
      BY <1>10, <2>3 DEF Fits
    <3> QED BY <2>1, <3>1, <3>2
  <2>4. CASE c.cmd = "erase"
    <3>1. ValueOf(acc, c, b) = Erased
      BY <2>4 DEF ValueOf
    <3>2. Final(img, b) = Erased
      BY <1>10, <2>4 DEF Fits
    <3> QED BY <2>1, <3>1, <3>2
  <2> QED BY <1>1, <2>2, <2>3, <2>4
<1>11. ASSUME NEW b \in DOMAIN acc.flash, b \notin Blocks(c.tgt)
       PROVE  new.flash[b] = acc.flash[b]
  BY <1>4, <1>11
<1>12. new.dat \in Seq(Contents) /\ Pairwise(more, new.dat, Reads(img))
  <2>1. CASE c.cmd # "new"
    <3>1. new.dat = dat /\ Len(list) = 0
      BY <1>4, <1>7, <2>1
    <3>2. Len(all) = Len(more) /\ \A j \in 1..Len(more) : all[j] = more[j]
      BY <1>8, <3>1
    <3>3. Pairwise(more, dat, Reads(img))
      BY <1>9, <3>2 DEF Pairwise
    <3> QED BY <1>5, <3>1, <3>3
  <2>2. CASE c.cmd = "new"
    <3> DEFINE m == Len(list) + 1  n == Len(dat)
    <3>1. new.dat = SubSeq(dat, m, n)
      BY <1>4, <1>6, <2>2
    <3>2. m \in Int /\ n \in Int /\ m <= n + 1 /\ n - m + 1 = Len(more) /\ 1 <= m
      BY <1>8, <1>9
    <3>3. \A k \in m..n : dat[k] \in Contents
      <4>1. \A k \in m..n : k \in 1..Len(dat)
        BY <3>2
      <4> QED BY <1>5, <4>1, ElementOfSeq
    <3>8. \A k \in 1..Len(more) : m + k - 1 = Len(list) + k /\ Len(list) + k \in 1..Len(all)
      BY <1>8
    <3> HIDE DEF m, n
    <3>4. IsCut(new.dat, dat, m, n, Contents)
      BY <3>1, <3>2, <3>3, CutOf
    <3>5. /\ new.dat \in Seq(Contents) /\ Len(new.dat) = Len(more)
          /\ \A k \in 1..Len(more) : new.dat[k] = dat[m + k - 1]
      BY <3>2, <3>4 DEF IsCut
    <3>6. ASSUME NEW k \in 1..Len(more) PROVE <<more[k], new.dat[k]>> \in Reads(img)
      <4>1. new.dat[k] = dat[Len(list) + k]
        BY <3>5, <3>8
      <4>2. <<all[Len(list) + k], dat[Len(list) + k]>> \in Reads(img)
        BY <1>9, <3>8
      <4> QED BY <1>8, <4>1, <4>2
    <3> QED BY <3>5, <3>6 DEF Pairwise
  <2> QED BY <2>1, <2>2
<1>13. DOMAIN new.flash = DOMAIN acc.flash
  BY <1>4
<1> QED BY <1>10, <1>11, <1>12, <1>13 DEF new, Fitted

RunTo(f, base, list) ==
  /\ f[0] = base
  /\ \A k \in 1..Len(list) : f[k] = RunCommand(f[k - 1], list[k])
  /\ FoldLeft(RunCommand, base, list) = f[Len(list)]

\* The commands that the device runs, one by one.
LEMMA DeviceRuns ==
  ASSUME NEW n, NEW base \in Runs(n), NEW list \in Seq(CommandSet)
  PROVE  \E f : RunTo(f, base, list)
<1> DEFINE N == Len(list)
           Equation(iter) == iter = [S \in SUBSET (1..N) |->
             IF S = {} THEN base ELSE RunCommand(iter[S \ {Max(S)}], list[Max(S)])]
<1>1. N \in Nat /\ DOMAIN list = 1..N /\ \A i \in 1..N : list[i] \in CommandSet
  BY LenProperties, ElementOfSeq
<1> HIDE DEF N
<1>2. \E iter : Equation(iter)
  <2> DEFINE A == Runs(n)
             G == [p \in A \X (1..N) |-> RunCommand(p[1], list[p[2]])]
  <2>0. base \in A
    OBVIOUS
  <2>1. \A acc \in A, c \in CommandSet : RunCommand(acc, c) \in A
    BY RunTyped
  <2> HIDE DEF A
  <2>2. G \in [A \X (1..N) -> A]
    BY <1>1, <2>1
  <2>3. PICK iter \in [SUBSET (1..N) -> A] : Tabulates(iter, N, base, G)
    <3> HIDE DEF G
    <3> QED BY <1>1, <2>0, <2>2, FoldTable
  <2>4. ASSUME NEW S \in SUBSET (1..N), S # {}
        PROVE  G[iter[S \ {Max(S)}], Max(S)] = RunCommand(iter[S \ {Max(S)}], list[Max(S)])
    <3>1. Max(S) \in 1..N
      BY <1>1, <2>4, MaxIn
    <3>2. iter[S \ {Max(S)}] \in A
      BY <2>3
    <3> QED BY <3>1, <3>2
  <2>5. Equation(iter)
    <3> HIDE DEF G
    <3> QED BY <2>3, <2>4 DEF Tabulates
  <2> QED BY <2>5
<1> DEFINE iter == CHOOSE iter : Equation(iter)
<1>3. Equation(iter)
  BY <1>2
<1>4. FoldLeft(RunCommand, base, list) = iter[1..N]
  BY <1>1 DEF FoldLeft, MapThenFoldSet
<1> HIDE DEF iter
<1> DEFINE f == [k \in 0..N |-> iter[1..k]]
<1>5. f[0] = base
  <2>1. 1..0 = {} /\ 0 \in 0..N
    BY <1>1
  <2> QED BY <1>3, <2>1
<1>6. ASSUME NEW k \in 1..N PROVE f[k] = RunCommand(f[k - 1], list[k])
  <2>1. f[k] = iter[1..k] /\ f[k - 1] = iter[1..k - 1]
    BY <1>1
  <2>2. /\ 1..k \in SUBSET (1..N) /\ 1..k # {}
        /\ Max(1..k) = k /\ (1..k) \ {Max(1..k)} = 1..k - 1
    BY <1>1, PrefixFacts
  <2>3. iter[1..k] = RunCommand(iter[(1..k) \ {Max(1..k)}], list[Max(1..k)])
    BY <1>3, <2>2
  <2> QED BY <2>1, <2>2, <2>3, Zenon
<1>7. f[N] = iter[1..N]
  BY <1>1
<1>8. FoldLeft(RunCommand, base, list) = f[N]
  BY <1>4, <1>7, Zenon
<1> HIDE DEF f
<1>9. RunTo(f, base, list)
  BY <1>5, <1>6, <1>8 DEF N, RunTo
<1> QED BY <1>9

\* The commands that follow the first k of a list.
After(list, k) == SubSeq(list, k + 1, Len(list))

\* The commands that follow, and the first of them.
LEMMA AfterOne ==
  ASSUME NEW list \in Seq(CommandSet), NEW k \in Nat, k + 1 \in 1..Len(list)
  PROVE  /\ After(list, k + 1) \in Seq(CommandSet)
         /\ NewBlocks(After(list, k)) = NewOf(list[k + 1]) \o NewBlocks(After(list, k + 1))
<1> DEFINE m == k + 1  n == Len(list)  c == list[m]  rest == SubSeq(list, m + 1, n)
<1>1. n \in Nat /\ c \in CommandSet /\ m \in 1..n /\ n \in m..n
  BY LenProperties, ElementOfSeq
<1>2. \A i \in m + 1..n : list[i] \in CommandSet
  BY <1>1, ElementOfSeq
<1>3. rest \in Seq(CommandSet)
  BY <1>1, <1>2, SubSeqProperties
<1>4. SubSeq(list, m, n) = <<c>> \o rest
  BY <1>1, SubSeqRecursiveFirst
<1> HIDE DEF rest, c
<1>5. <<c>> \in Seq(CommandSet)
  BY <1>1
<1>6. NewBlocks(<<c>> \o rest) = NewBlocks(<<c>>) \o NewBlocks(rest)
  BY <1>3, <1>5, NewBlocksConcat
<1>7. NewBlocks(<<c>>) = NewOf(c)
  BY <1>1, OneNewBlocks
<1> QED BY <1>3, <1>4, <1>6, <1>7 DEF After, rest, c

\* After k commands their blocks are as they are to be, and the data is that of the
\* commands to come.
Flashed(img, list, k, acc) ==
  /\ DOMAIN acc.flash = 0..(TotalBlocks(img) - 1)
  /\ acc.dat \in Seq(Contents)
  /\ Pairwise(NewBlocks(After(list, k)), acc.dat, Reads(img))
  /\ \A i \in 1..k : \A b \in Blocks(list[i].tgt) :
       b \in 0..(TotalBlocks(img) - 1) => acc.flash[b] = Final(img, b)

\* One command more is run.
LEMMA RunFlashes ==
  ASSUME NEW img, NEW list \in Seq(CommandSet), NEW k \in Nat, k + 1 \in 1..Len(list),
         NEW acc, Flashed(img, list, k, acc), Fits(img, list[k + 1])
  PROVE  Flashed(img, list, k + 1, RunCommand(acc, list[k + 1]))
<1> DEFINE j == k + 1  c == list[j]  new == RunCommand(acc, c)
           more == NewBlocks(After(list, j))  D == 0..(TotalBlocks(img) - 1)
<1>1. /\ DOMAIN acc.flash = D /\ acc.dat \in Seq(Contents)
      /\ Pairwise(NewBlocks(After(list, k)), acc.dat, Reads(img))
      /\ \A i \in 1..k : \A b \in Blocks(list[i].tgt) :
           b \in D => acc.flash[b] = Final(img, b)
  BY DEF Flashed
<1>2. c \in CommandSet /\ Fits(img, c)
  BY ElementOfSeq
<1>3. more \in Seq(Int) /\ NewBlocks(After(list, k)) = NewOf(c) \o more
  BY AfterOne, NewBlocksConcat
<1>4. \A i \in 1..j : i = j \/ i \in 1..k
  OBVIOUS
<1> HIDE DEF j, c, more, D
<1>5. Pairwise(NewOf(c) \o more, acc.dat, Reads(img))
  BY <1>1, <1>3
<1>9. Fitted(img, c, acc, more, new)
  BY <1>1, <1>2, <1>3, <1>5, RunFits, Zenon
<1> HIDE DEF new
<1>6. /\ DOMAIN new.flash = DOMAIN acc.flash
      /\ new.dat \in Seq(Contents) /\ Pairwise(more, new.dat, Reads(img))
      /\ \A b \in DOMAIN acc.flash :
           /\ b \in Blocks(c.tgt) => new.flash[b] = Final(img, b)
           /\ b \notin Blocks(c.tgt) => new.flash[b] = acc.flash[b]
  BY <1>9 DEF Fitted
<1>7. ASSUME NEW i \in 1..j, NEW b \in Blocks(list[i].tgt), b \in D
      PROVE  new.flash[b] = Final(img, b)
  <2>1. CASE b \in Blocks(c.tgt)
    BY <1>1, <1>6, <1>7, <2>1
  <2>2. CASE b \notin Blocks(c.tgt)
    <3>1. i \in 1..k
      BY <1>4, <1>7, <2>2 DEF c
    <3> QED BY <1>1, <1>6, <1>7, <2>2, <3>1
  <2> QED BY <2>1, <2>2
<1>8. Flashed(img, list, j, new)
  BY <1>1, <1>6, <1>7 DEF Flashed, D, more
<1> QED BY <1>8 DEF j, new, c

\* A device that runs the list holds the image, zeros in the read-ahead zone, and
\* nothing of what it held.
LEMMA DeviceHolds ==
  ASSUME NEW img \in Seq(ImageChunks), NEW list, NEW dat, NEW total, NEW base,
         Builds(img, list, dat, 0..(TotalBlocks(img) - 1), total),
         base = [flash |-> [b \in 0..(TotalBlocks(img) - 1) |-> Garbage], dat |-> dat]
  PROVE  LET flash == FoldLeft(RunCommand, base, list).flash IN
           /\ DOMAIN flash = 0..(TotalBlocks(img) - 1)
           /\ \A b \in 0..(TotalBlocks(img) - 1) : flash[b] = Final(img, b)
<1> DEFINE N == Len(list)  D == 0..(TotalBlocks(img) - 1)
<1>1. /\ list \in Seq(CommandSet) /\ Cover(list) = D
      /\ dat \in Seq(Contents) /\ Pairwise(NewBlocks(list), dat, Reads(img))
      /\ \A i \in 1..N : Fits(img, list[i])
  BY DEF Builds, Writes
<1>2. N \in Nat /\ \A i \in 1..N : list[i] \in CommandSet
  BY <1>1, LenProperties, ElementOfSeq
<1>3. base \in Runs(TotalBlocks(img))
  BY <1>1 DEF Runs, Values
<1>10. PICK f : RunTo(f, base, list)
  BY <1>1, <1>3, DeviceRuns, Zenon
<1>4. /\ f[0] = base
      /\ \A k \in 1..N : f[k] = RunCommand(f[k - 1], list[k])
      /\ FoldLeft(RunCommand, base, list) = f[N]
  BY <1>10 DEF RunTo
<1> DEFINE T == {k \in Nat : k <= N => Flashed(img, list, k, f[k])}
<1>5. 0 \in T
  <2>1. After(list, 0) = list
    BY <1>1, SubSeqFull DEF After
  <2>2. base.dat = dat /\ DOMAIN base.flash = D /\ 1..0 = {}
    OBVIOUS
  <2>3. Flashed(img, list, 0, base)
    BY <1>1, <2>1, <2>2 DEF Flashed
  <2> QED BY <1>4, <2>3
<1> HIDE DEF N
<1>6. ASSUME NEW k \in Nat, k \in T PROVE k + 1 \in T
  <2> DEFINE j == k + 1
  <2>1. ASSUME j <= N PROVE Flashed(img, list, j, f[j])
    <3>1. j \in 1..N /\ j - 1 = k /\ Flashed(img, list, k, f[k])
      BY <1>2, <1>6, <2>1
    <3>2. f[j] = RunCommand(f[k], list[j]) /\ Fits(img, list[j])
      BY <1>1, <1>4, <3>1
    <3>3. Flashed(img, list, j, RunCommand(f[k], list[j]))
      BY <1>1, <3>1, <3>2, RunFlashes DEF N
    <3> QED BY <3>2, <3>3
  <2>2. j \in Nat
    OBVIOUS
  <2> HIDE DEF j
  <2>3. j \in T
    BY <2>1, <2>2, Zenon
  <2> QED BY <2>3 DEF j
<1>7. Flashed(img, list, N, f[N])
  <2>1. N \in T
    <3> HIDE DEF T
    <3> QED BY <1>2, <1>5, <1>6, OneByOne
  <2> QED BY <1>2, <2>1
<1> DEFINE flash == f[N].flash
<1>8. ASSUME NEW b \in D PROVE flash[b] = Final(img, b)
  <2>1. PICK i \in 1..N : b \in Blocks(list[i].tgt)
    BY <1>1 DEF Cover, N
  <2> QED BY <1>7, <2>1 DEF Flashed
<1>9. DOMAIN flash = D
  BY <1>7 DEF Flashed
<1> QED BY <1>4, <1>8, <1>9

-----------------------------------------------------------------------------
(* The list, and the device that ran it.                                    *)

\* What the property says of a list, from the plan it is.
LEMMA PlanShares ==
  ASSUME NEW img, NEW files, PlanOk(img, files)
  PROVE  /\ AssertPartition(<<0, TotalBlocks(img)>>,
                            [i \in DOMAIN files.list |-> files.list[i].tgt])
         /\ files.total = Total([i \in DOMAIN files.list |->
                                   IF files.list[i].cmd = "erase" THEN 0
                                   ELSE Size(files.list[i].tgt)])
         /\ \A c \in ToSet(files.list) : c.cmd = "zero" => Size(c.tgt) <= ZeroLimit
<1> DEFINE list == files.list  N == Len(list)  all == <<0, TotalBlocks(img)>>
           parts == [i \in DOMAIN list |-> list[i].tgt]
<1>1. /\ list \in Seq(CommandSet) /\ Cover(list) = Blocks(all) /\ Apart(list)
      /\ Total(Weights(list)) = files.total /\ Short(list) /\ Canonical(all)
  BY DEF PlanOk, Builds, Writes, Zones
<1> HIDE DEF list, all
<1>2. /\ DOMAIN list = 1..N /\ N \in Nat
      /\ \A i \in 1..N : list[i] \in CommandSet /\ list[i].tgt \in BlockSets
  <2>1. \A c \in CommandSet : c.tgt \in BlockSets
    BY DEF CommandSet
  <2> QED BY <1>1, <2>1, LenProperties, ElementOfSeq
<1>3. AssertPartition(all, parts)
  <2>1. /\ parts \in [1..N -> BlockSets]
        /\ \A i \in 1..N : parts[i] = list[i].tgt
    BY <1>2
  <2> HIDE DEF parts, N
  <2>2. parts \in Seq(BlockSets) /\ Len(parts) = N
    BY <1>2, <2>1, TableSeq
  <2>3. AssertPartition(all, parts) <=> Parted(all, parts)
    BY <1>1, <2>2, PartitionMeans, Zenon
  <2>4. /\ Blocks(all) = UNION {Blocks(parts[i]) : i \in 1..N}
        /\ \A i, j \in 1..N : i # j => Blocks(parts[i]) \cap Blocks(parts[j]) = {}
    <3>1. /\ Blocks(all) = UNION {Blocks(list[i].tgt) : i \in 1..N}
          /\ \A i, j \in 1..N : i # j => Blocks(list[i].tgt) \cap Blocks(list[j].tgt) = {}
      BY <1>1 DEF Cover, Apart, N
    <3>2. {Blocks(parts[i]) : i \in 1..N} = {Blocks(list[i].tgt) : i \in 1..N}
      BY <2>1
    <3> QED BY <2>1, <3>1, <3>2
  <2> QED BY <2>2, <2>3, <2>4 DEF Parted
<1>4. files.total = Total([i \in DOMAIN list |-> IF list[i].cmd = "erase" THEN 0
                                                 ELSE Size(list[i].tgt)])
  BY <1>1, <1>2, Zenon DEF Weights, Weight
<1>5. \A c \in ToSet(list) : c.cmd = "zero" => Size(c.tgt) <= ZeroLimit
  BY <1>1, <1>2 DEF ToSet, Short
<1> QED BY <1>3, <1>4, <1>5 DEF list, all

DeviceOk ==
  \A flash \in ToSet(device) : /\ DOMAIN flash = 0..(TotalBlocks(image) - 1)
                               /\ \A b \in DOMAIN flash : flash[b] = Final(image, b)

\* What Flash leaves is what the device is to hold.
LEMMA DeviceNext == SdatOk /\ DeviceOk /\ [Next]_vars => DeviceOk'
<1> SUFFICES ASSUME SdatOk, DeviceOk, [Next]_vars PROVE DeviceOk'
  OBVIOUS
<1>1. CASE Flash
  <2>1. PICK files : sdat = <<files>> /\ PlanOk(image, files)
    BY <1>1 DEF Flash, SdatOk
  <2>2. sdat[1] = files /\ image \in Seq(ImageChunks)
    BY <2>1, ImagesTyped DEF SdatOk
  <2> DEFINE D == 0..(TotalBlocks(image) - 1)
             base == [flash |-> [b \in D |-> Garbage], dat |-> files.dat]
             flash == FoldLeft(RunCommand, base, files.list).flash
  <2>3. Builds(image, files.list, files.dat, D, files.total)
    BY <2>1 DEF PlanOk
  <2>4. DOMAIN flash = D /\ \A b \in D : flash[b] = Final(image, b)
    BY <2>2, <2>3, DeviceHolds
  <2>5. device' = <<flash>> /\ image' = image
    BY <1>1, <2>2 DEF Flash
  <2> HIDE DEF flash
  <2>6. ToSet(device') = {flash}
    BY <2>5, ToSetOfOne
  <2> QED BY <2>4, <2>5, <2>6 DEF DeviceOk
<1>2. CASE UNCHANGED <<image, device>>
  BY <1>2 DEF DeviceOk
<1> QED BY <1>1, <1>2 DEF Next, Img2sdat, Sdat2img, vars

\* For every image, group and limit: the commands write or erase each block of the
\* device once, the header counts what they write, and a device that runs them holds
\* the image, zeros in the read-ahead zone and old content nowhere (WriteTransfers,
\* FindTransfers).
THEOREM DeviceHoldsImage == Spec => []DeviceGetsImage
<1>1. Init => SdatOk /\ DeviceOk
  <2>1. Init => DeviceOk
    BY ToSetOfOne DEF Init, DeviceOk
  <2> QED BY <2>1, SdatInit
<1>2. (SdatOk /\ DeviceOk) /\ [Next]_vars => (SdatOk /\ DeviceOk)'
  BY SdatNext, DeviceNext
<1>3. SdatOk /\ DeviceOk => DeviceGetsImage
  <2> SUFFICES ASSUME SdatOk, DeviceOk PROVE DeviceGetsImage
    OBVIOUS
  <2>1. \A flash \in ToSet(device) : \A b \in DOMAIN flash :
          flash[b] = IF b \in Blocks(CareMap(image)) THEN BlockAt(image, b)
                     ELSE IF b \in Blocks(Extended(image)) THEN Zero ELSE Erased
    BY DEF DeviceOk, Final
  <2>2. \A files \in ToSet(sdat) : PlanOk(image, files)
    BY ToSetOfOne DEF SdatOk
  <2> QED BY <2>1, <2>2, PlanShares DEF DeviceGetsImage
<1> QED BY <1>1, <1>2, <1>3, PTL DEF Spec
=============================================================================
