-------------------------- MODULE ListFilter_proofs --------------------------
(***************************************************************************)
(* What filtering or cutting a list returns, for every list and condition. *)
(***************************************************************************)
EXTENDS ListFilter, FiniteSetTheorems, SequenceTheorems, TLAPS

\* Numbering the elements of a finite set of naturals in increasing order hits
\* every number up to its cardinality.
LEMMA RankOnto ==
    ASSUME NEW K \in SUBSET Nat, IsFiniteSet(K)
    PROVE  /\ Cardinality(K) \in Nat
           /\ \A i \in K : Rank(K, i) \in 1 .. Cardinality(K)
           /\ \A i, j \in K : Rank(K, i) = Rank(K, j) => i = j
           /\ \A p \in 1 .. Cardinality(K) : \E i \in K : Rank(K, i) = p
  <1> DEFINE below == [i \in K |-> {k \in K : k <= i}]
             f == [i \in K |-> Cardinality(below[i])]
             n == Cardinality(K)
  <1>1. n \in Nat
    BY FS_CardinalityType
  <1>2. \A i \in K : IsFiniteSet(below[i]) /\ f[i] \in Nat /\ f[i] <= n
    <2> TAKE i \in K
    <2>1. below[i] \in SUBSET K /\ f[i] = Cardinality(below[i])
      OBVIOUS
    <2> HIDE DEF below, f
    <2> QED BY <2>1, FS_Subset, FS_CardinalityType
  <1>3. \A i, j \in K : i \in below[i] /\ (i < j => below[i] \subseteq below[j] /\ j \notin below[i])
    <2>1. \A i \in K : \A k : k \in below[i] <=> k \in K /\ k <= i
      OBVIOUS
    <2>2. \A i \in K : i \in Nat
      OBVIOUS
    <2> HIDE DEF below
    <2>3. ASSUME NEW i \in K, NEW j \in K, i < j, NEW k \in below[i]
          PROVE  k \in below[j]
      <3>1. k \in K /\ k <= i /\ k \in Nat /\ i \in Nat /\ j \in Nat
        BY <2>1, <2>2
      <3>2. k <= j
        BY <2>3, <3>1
      <3> QED BY <2>1, <3>1, <3>2
    <2>4. ASSUME NEW i \in K, NEW j \in K, i < j
          PROVE  ~(j <= i)
      <3>1. i \in Nat /\ j \in Nat
        BY <2>2
      <3> QED BY <3>1, <2>4
    <2>5. ASSUME NEW i \in K
          PROVE  i <= i
      <3>1. i \in Nat
        BY <2>2
      <3> QED BY <3>1
    <2> QED BY <2>1, <2>3, <2>4, <2>5, Zenon
  <1>4. \A i \in K : f[i] = Cardinality(below[i])
    OBVIOUS
  <1>5. \A i \in K : f[i] = Cardinality({k \in K : k <= i})
    OBVIOUS
  <1>6. f = [i \in K |-> f[i]]
    OBVIOUS
  <1> HIDE DEF below, f
  <1>7. \A i \in K : f[i] # 0
    BY <1>2, <1>3, <1>4, FS_EmptySet
  <1>8. \A i, j \in K : i < j => f[i] # f[j]
    <2> SUFFICES ASSUME NEW i \in K, NEW j \in K, i < j, f[i] = f[j]
                 PROVE  FALSE
      OBVIOUS
    <2>1. below[i] \in SUBSET below[j] /\ IsFiniteSet(below[j])
      BY <1>2, <1>3
    <2>2. below[i] = below[j]
      BY <2>1, <1>4, FS_Subset
    <2> QED BY <2>2, <1>3
  <1>9. \A i, j \in K : f[i] = f[j] => i = j
    BY <1>8
  <1> HIDE DEF n
  <1>10. f \in Injection(K, 1 .. n)
    BY <1>1, <1>2, <1>6, <1>7, <1>9 DEF Injection, IsInjective
  <1>11. IsFiniteSet(1 .. n) /\ Cardinality(1 .. n) = n
    BY <1>1, FS_Interval
  <1>12. f \in Surjection(K, 1 .. n)
    BY <1>10, <1>11, FS_Injection DEF n
  <1>13. \A p \in 1 .. n : \E i \in K : f[i] = p
    BY <1>12 DEF Surjection
  <1>14. /\ n \in Nat
         /\ \A i \in K : f[i] \in 1 .. n
         /\ \A i, j \in K : f[i] = f[j] => i = j
         /\ \A p \in 1 .. n : \E i \in K : f[i] = p
    <2>1. ASSUME NEW i \in K
          PROVE  f[i] \in 1 .. n
      <3>1. f[i] \in Nat /\ f[i] <= n /\ f[i] # 0
        BY <1>2, <1>7
      <3> QED BY <1>1, <3>1
    <2> QED BY <1>1, <2>1, <1>9, <1>13
  <1> QED BY <1>5, <1>14 DEF n, Rank

\* Picking positions of a list gives a list of the entries there and nothing else;
\* if no entry occurs twice before, none does after.
LEMMA EntriesAtFacts ==
    ASSUME NEW S, NEW s \in Seq(S), NEW K \in SUBSET DOMAIN s
    PROVE  /\ EntriesAt(s, K) \in Seq(S)
           /\ Elements(EntriesAt(s, K)) = {s[i] : i \in K}
           /\ (\A i, j \in DOMAIN s : s[i] = s[j] => i = j) =>
                 \A i, j \in DOMAIN EntriesAt(s, K) :
                    EntriesAt(s, K)[i] = EntriesAt(s, K)[j] => i = j
  <1> DEFINE Slot(j) == CHOOSE i \in K : Rank(K, i) = j
             w == EntriesAt(s, K)
             n == Cardinality(K)
  <1>1. K \in SUBSET Nat /\ IsFiniteSet(K)
    <2>1. K \in SUBSET (1 .. Len(s)) /\ Len(s) \in Nat
      OBVIOUS
    <2>2. IsFiniteSet(1 .. Len(s))
      BY <2>1, FS_Interval
    <2> QED BY <2>1, <2>2, FS_Subset
  <1>2. /\ n \in Nat
        /\ \A i \in K : Rank(K, i) \in 1 .. n
        /\ \A i, j \in K : Rank(K, i) = Rank(K, j) => i = j
        /\ \A p \in 1 .. n : \E i \in K : Rank(K, i) = p
    BY <1>1, RankOnto
  <1>3. w = [j \in 1 .. n |-> s[Slot(j)]]
    BY DEF EntriesAt
  <1> HIDE DEF n, w
  <1>4. \A j \in 1 .. n : Slot(j) \in K /\ Rank(K, Slot(j)) = j
    BY <1>2
  <1>5. \A i \in K : Rank(K, i) \in 1 .. n /\ Slot(Rank(K, i)) = i
    BY <1>2
  <1> HIDE DEF Slot
  <1>6. \A i \in K : i \in DOMAIN s /\ s[i] \in S
    OBVIOUS
  <1>7. w \in Seq(S)
    BY <1>2, <1>3, <1>4, <1>6
  <1>8. Elements(w) = {s[i] : i \in K}
    <2>1. DOMAIN w = 1 .. n /\ \A j \in 1 .. n : w[j] = s[Slot(j)]
      BY <1>3
    <2> QED BY <2>1, <1>4, <1>5 DEF Elements
  <1>9. (\A i, j \in DOMAIN s : s[i] = s[j] => i = j) =>
            \A i, j \in DOMAIN w : w[i] = w[j] => i = j
    BY <1>3, <1>4, <1>6
  <1> QED BY <1>7, <1>8, <1>9 DEF w

\* Filtering a queue keeps its order, drops exactly R and adds nothing.
LEMMA WithoutFacts ==
    ASSUME NEW S, NEW s \in Seq(S), NEW R
    PROVE  /\ Without(s, R) \in Seq(S)
           /\ Elements(Without(s, R)) = Elements(s) \ R
           /\ (\A i, j \in DOMAIN s : s[i] = s[j] => i = j) =>
                 \A i, j \in DOMAIN Without(s, R) :
                    Without(s, R)[i] = Without(s, R)[j] => i = j
           /\ s = <<>> => Without(s, R) = <<>>
  <1> DEFINE K == {i \in DOMAIN s : s[i] \notin R}
             w == EntriesAt(s, K)
  <1>1. w = Without(s, R)
    BY DEF Without
  <1>2. K \in SUBSET DOMAIN s /\ {s[i] : i \in K} = Elements(s) \ R
    BY DEF Elements
  <1> HIDE DEF K
  <1>3. /\ w \in Seq(S) /\ Elements(w) = Elements(s) \ R
        /\ (\A i, j \in DOMAIN s : s[i] = s[j] => i = j) =>
              \A i, j \in DOMAIN w : w[i] = w[j] => i = j
    BY <1>2, EntriesAtFacts
  <1> HIDE DEF w
  <1>4. s = <<>> => w = <<>>
    <2> SUFFICES ASSUME s = <<>>, w # <<>> PROVE FALSE
      OBVIOUS
    <2>1. w[1] \in Elements(w) /\ Elements(s) = {}
      BY <1>3 DEF Elements
    <2> QED BY <2>1, <1>3
  <1> QED BY <1>1, <1>3, <1>4

\* Keeping only the members of R keeps all of them, and nothing else; if no entry occurs
\* twice before, none does after.
LEMMA OnlyFacts ==
    ASSUME NEW S, NEW s \in Seq(S), NEW R
    PROVE  /\ Only(s, R) \in Seq(S)
           /\ Elements(Only(s, R)) = Elements(s) \cap R
           /\ (\A i, j \in DOMAIN s : s[i] = s[j] => i = j) =>
                 \A i, j \in DOMAIN Only(s, R) : Only(s, R)[i] = Only(s, R)[j] => i = j
  <1> DEFINE K == {i \in DOMAIN s : s[i] \in R}
             w == EntriesAt(s, K)
  <1>1. w = Only(s, R)
    BY DEF Only
  <1>2. K \in SUBSET DOMAIN s /\ {s[i] : i \in K} = Elements(s) \cap R
    BY DEF Elements
  <1> HIDE DEF K
  <1>3. /\ w \in Seq(S) /\ Elements(w) = Elements(s) \cap R
        /\ (\A i, j \in DOMAIN s : s[i] = s[j] => i = j) =>
              \A i, j \in DOMAIN w : w[i] = w[j] => i = j
    BY <1>2, EntriesAtFacts
  <1> QED BY <1>1, <1>3

\* Dropping the only occurrence of an entry moves the entries after it up by one.
LEMMA WithoutOne ==
    ASSUME NEW S, NEW s \in Seq(S), \A i, j \in DOMAIN s : s[i] = s[j] => i = j,
           NEW j \in DOMAIN s
    PROVE  /\ Len(Without(s, {s[j]})) = Len(s) - 1
           /\ \A i \in 1 .. Len(s) - 1 :
                Without(s, {s[j]})[i] = IF i < j THEN s[i] ELSE s[i + 1]
  <1> DEFINE n == Len(s)
             K == (1 .. n) \ {j}
             At(p) == IF p < j THEN p ELSE p + 1
  <1>1. n \in Nat /\ j \in 1 .. n /\ {i \in DOMAIN s : s[i] \notin {s[j]}} = K
    OBVIOUS
  <1>2. IsFiniteSet(K) /\ Cardinality(K) = n - 1 /\ K \in SUBSET Nat
    <2>1. 1 \in Int /\ n \in Int
      BY <1>1
    <2>2. IsFiniteSet(1 .. n) /\ Cardinality(1 .. n) = n
      <3>1. /\ IsFiniteSet(1 .. n)
            /\ Cardinality(1 .. n) = IF 1 > n THEN 0 ELSE n - 1 + 1
        BY <2>1, FS_Interval
      <3> QED BY <1>1, <3>1
    <2>3. IsFiniteSet(K) /\ Cardinality(K) = Cardinality(1 .. n) - 1
      BY <1>1, <2>2, FS_RemoveElement
    <2> QED BY <1>1, <2>2, <2>3
  <1>3. ASSUME NEW p \in 1 .. n - 1
        PROVE  At(p) \in K /\ Rank(K, At(p)) = p
    <2>1. CASE p < j
      <3>1. {k \in K : k <= p} = 1 .. p
        BY <1>1, <2>1
      <3>2. Cardinality(1 .. p) = p
        BY <1>1, FS_Interval
      <3>3. At(p) = p /\ p \in K
        BY <1>1, <2>1
      <3>4. Rank(K, p) = p
        BY <3>1, <3>2 DEF Rank
      <3> QED BY <3>3, <3>4
    <2>2. CASE ~(p < j)
      <3>1. {k \in K : k <= p + 1} = (1 .. p + 1) \ {j}
        BY <1>1, <2>2
      <3>2. IsFiniteSet(1 .. p + 1) /\ Cardinality(1 .. p + 1) = p + 1 /\ j \in 1 .. p + 1
        BY <1>1, <2>2, FS_Interval
      <3>3. Cardinality((1 .. p + 1) \ {j}) = p
        <4>1. Cardinality((1 .. p + 1) \ {j}) = Cardinality(1 .. p + 1) - 1
          BY <3>2, FS_RemoveElement
        <4> QED BY <3>2, <4>1
      <3>4. At(p) = p + 1 /\ p + 1 \in K
        BY <1>1, <2>2
      <3>5. Rank(K, p + 1) = p
        BY <3>1, <3>3 DEF Rank
      <3> QED BY <3>4, <3>5
    <2> QED BY <2>1, <2>2
  <1> HIDE DEF K
  <1>4. \A i, k \in K : Rank(K, i) = Rank(K, k) => i = k
    BY <1>2, RankOnto
  <1>5. Without(s, {s[j]}) = [p \in 1 .. n - 1 |-> s[CHOOSE i \in K : Rank(K, i) = p]]
    <2>1. Without(s, {s[j]}) = EntriesAt(s, K)
      BY <1>1 DEF Without
    <2>2. Cardinality(K) = n - 1
      BY <1>2
    <2> HIDE DEF n
    <2> QED BY <2>1, <2>2 DEF EntriesAt
  <1>6. ASSUME NEW p \in 1 .. n - 1
        PROVE  (CHOOSE i \in K : Rank(K, i) = p) = At(p)
    BY <1>3, <1>4
  <1>7. Len([p \in 1 .. n - 1 |-> s[CHOOSE i \in K : Rank(K, i) = p]]) = n - 1
    BY <1>1
  <1> QED BY <1>5, <1>6, <1>7

\* Append under a name the provers leave alone.
Longer(s, e) == Append(s, e)

\* Picking one more position, the one after all the others, adds its entry at the end.
LEMMA EntriesAppend ==
    ASSUME NEW S, NEW s \in Seq(S), NEW K \in SUBSET DOMAIN s, NEW e \in S
    PROVE  /\ EntriesAt(Longer(s, e), K) = EntriesAt(s, K)
           /\ EntriesAt(Longer(s, e), K \cup {Len(s) + 1}) = Longer(EntriesAt(s, K), e)
  <1> DEFINE m == Len(s) + 1
             s1 == Append(s, e)
             n == Cardinality(K)
             K1 == K \cup {m}
             Slot(p) == CHOOSE i \in K : Rank(K, i) = p
             Slot1(p) == CHOOSE i \in K1 : Rank(K1, i) = p
  <1>1. Len(s) \in Nat /\ K \in SUBSET (1 .. Len(s)) /\ m \notin K /\ m \in Nat
    OBVIOUS
  <1>2. IsFiniteSet(K) /\ K \in SUBSET Nat
    <2>1. IsFiniteSet(1 .. Len(s))
      BY <1>1, FS_Interval
    <2> QED BY <1>1, <2>1, FS_Subset
  <1>3. n \in Nat /\ IsFiniteSet(K1) /\ Cardinality(K1) = n + 1 /\ K1 \in SUBSET Nat
    BY <1>1, <1>2, FS_AddElement, FS_CardinalityType
  <1>4. /\ \A p \in 1 .. n : \E i \in K : Rank(K, i) = p
        /\ \A i, k \in K1 : Rank(K1, i) = Rank(K1, k) => i = k
    BY <1>2, <1>3, RankOnto
  <1>5. \A i \in K : Rank(K1, i) = Rank(K, i)
    <2> SUFFICES ASSUME NEW i \in K PROVE {k \in K1 : k <= i} = {k \in K : k <= i}
      BY DEF Rank
    <2> QED BY <1>1
  <1>6. Rank(K1, m) = n + 1
    <2>1. {k \in K1 : k <= m} = K1
      BY <1>1
    <2> QED BY <1>3, <2>1 DEF Rank
  <1>7. \A p \in 1 .. n : Slot(p) \in K /\ Rank(K, Slot(p)) = p
    BY <1>4
  <1>8. ASSUME NEW p \in 1 .. n PROVE Slot1(p) = Slot(p)
    <2>1. Slot(p) \in K1 /\ Rank(K1, Slot(p)) = p
      BY <1>5, <1>7
    <2> HIDE DEF Slot, K1
    <2> QED BY <2>1, <1>4
  <1>9. Slot1(n + 1) = m
    <2>1. m \in K1
      OBVIOUS
    <2> HIDE DEF m, K1
    <2> QED BY <2>1, <1>4, <1>6
  <1>10. /\ EntriesAt(s, K) = [p \in 1 .. n |-> s[Slot(p)]]
         /\ EntriesAt(s1, K) = [p \in 1 .. n |-> s1[Slot(p)]]
         /\ EntriesAt(s1, K1) = [p \in 1 .. n + 1 |-> s1[Slot1(p)]]
    BY <1>3 DEF EntriesAt
  <1>11. /\ \A i \in K : s1[i] = s[i] /\ s[i] \in S
         /\ s1[m] = e
    BY <1>1
  <1> HIDE DEF Slot, Slot1, K1, s1, n, m
  <1>12. EntriesAt(s1, K) = EntriesAt(s, K)
    BY <1>7, <1>10, <1>11
  <1>13. EntriesAt(s, K) \in Seq(S) /\ Len(EntriesAt(s, K)) = n
    BY <1>3, <1>7, <1>10, <1>11
  <1>14. EntriesAt(s1, K1) = Append(EntriesAt(s, K), e)
    <2>1. Append(EntriesAt(s, K), e) =
              [p \in 1 .. n + 1 |-> IF p = n + 1 THEN e ELSE EntriesAt(s, K)[p]]
      <3> DEFINE q == EntriesAt(s, K)
      <3>1. q \in Seq(S) /\ Len(q) = n
        BY <1>13
      <3> HIDE DEF q
      <3>2. Append(q, e) = [p \in 1 .. Len(q) + 1 |-> IF p = Len(q) + 1 THEN e ELSE q[p]]
        <4>1. Append(q, e) \in Seq(S) /\ Len(Append(q, e)) = Len(q) + 1
          BY <3>1
        <4>2. \A p \in 1 .. Len(q) + 1 : Append(q, e)[p] = IF p = Len(q) + 1 THEN e ELSE q[p]
          BY <3>1
        <4>3. \A z \in Seq(S) : z = [p \in 1 .. Len(z) |-> z[p]]
          OBVIOUS
        <4> QED BY <4>1, <4>2, <4>3
      <3> QED BY <3>1, <3>2 DEF q
    <2>2. ASSUME NEW p \in 1 .. n + 1
          PROVE  s1[Slot1(p)] = IF p = n + 1 THEN e ELSE EntriesAt(s, K)[p]
      <3>1. CASE p = n + 1
        BY <3>1, <1>9, <1>11
      <3>2. CASE p # n + 1
        <4>1. p \in 1 .. n
          BY <1>3, <3>2
        <4> QED BY <4>1, <3>2, <1>7, <1>8, <1>10, <1>11
      <3> QED BY <3>1, <3>2
    <2> QED BY <1>10, <2>1, <2>2
  <1> QED BY <1>12, <1>14 DEF Longer, s1, K1, m

\* A non-empty list without its last entry.
LEMMA FrontFacts ==
    ASSUME NEW S, NEW s \in Seq(S), s # <<>>
    PROVE  LET front == SubSeq(s, 1, Len(s) - 1) IN
           /\ front \in Seq(S) /\ Len(front) = Len(s) - 1
           /\ Len(front) \in Nat /\ Len(front) <= Len(s)
           /\ \A i \in 1 .. Len(front) : front[i] = s[i]
  <1> DEFINE n == Len(s) - 1
  <1>1. Len(s) \in Nat \ {0} /\ n \in Nat /\ n = Len(s) - 1
    BY EmptySeq
  <1>2. \A i \in 1 .. n : s[i] \in S
    BY <1>1
  <1> HIDE DEF n
  <1>3. /\ SubSeq(s, 1, n) \in Seq(S)
        /\ Len(SubSeq(s, 1, n)) = IF 1 <= n THEN n - 1 + 1 ELSE 0
        /\ \A i \in 1 .. n - 1 + 1 : SubSeq(s, 1, n)[i] = s[1 + i - 1]
    BY <1>1, <1>2, SubSeqProperties
  <1>4. Len(SubSeq(s, 1, n)) = n /\ \A i \in 1 .. n : SubSeq(s, 1, n)[i] = s[i]
    BY <1>1, <1>3
  <1> QED BY <1>1, <1>3, <1>4 DEF n
=============================================================================
