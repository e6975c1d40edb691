------------------------------ MODULE ListFacts ------------------------------
(***************************************************************************)
(* Facts the other proofs share: a set of naturals has its least element,  *)
(* a bounded one its greatest, what filtering a list keeps, and that       *)
(* ordering a set gives a list.  Induction is by the least counterexample  *)
(* (WFMin of WellFoundedInduction), and is then over sets of naturals.     *)
(***************************************************************************)
EXTENDS Lists, SequencesExt, FiniteSetTheorems, WellFoundedInduction, TLAPS

LEMMA LeastNatural ==
  ASSUME NEW S, S \subseteq Nat, S # {}
  PROVE  \E m \in S : \A n \in S : m <= n
<1>1. PICK x \in S : \A y \in S : ~ (<<y, x>> \in OpToRel(<, Nat))
  BY NatLessThanWellFounded, WFMin
<1>2. ASSUME NEW y \in S, y < x PROVE FALSE
  <2>1. <<y, x>> \in {ss \in Nat \X Nat : ss[1] < ss[2]}
    BY <1>2
  <2> QED BY <2>1, <1>1 DEF OpToRel
<1> QED BY <1>2

\* A set of naturals with an upper bound has its maximum.
LEMMA MaxFacts ==
  ASSUME NEW S, S \subseteq Nat, S # {}, NEW k \in Nat, \A n \in S : n <= k
  PROVE  Max(S) \in S /\ \A n \in S : n <= Max(S)
<1> DEFINE T == {n \in Nat : \E m \in S : n = k - m}
<1>1. T \subseteq Nat
  OBVIOUS
<1>2. \A m \in S : m \in Nat /\ k - m \in T
  OBVIOUS
<1>3. PICK x \in T : \A y \in T : x <= y
  <2>1. T # {}
    <3> HIDE DEF T
    <3> QED BY <1>2
  <2> HIDE DEF T
  <2> QED BY <1>1, <2>1, LeastNatural
<1>4. PICK m \in S : x = k - m
  OBVIOUS
<1>5. ASSUME NEW n \in S PROVE m >= n
  <2>1. x <= k - n
    BY <1>2, <1>3
  <2> QED BY <2>1, <1>2, <1>4
<1> QED BY <1>4, <1>5 DEF Max

-----------------------------------------------------------------------------
(* Filtering *)

\* What the recursive function in Filter is, on its first m values.
Grown(G, s, T, m) ==
  G = [n \in 0..m |-> IF n = 0 THEN <<>> ELSE IF s[n] \in T THEN Append(G[n - 1], s[n]) ELSE G[n - 1]]

LEMMA GrownStep ==
  ASSUME NEW s, NEW T, NEW k \in Nat, NEW G, Grown(G, s, T, k)
  PROVE  \E H : Grown(H, s, T, k + 1)
<1> DEFINE next == IF s[k + 1] \in T THEN Append(G[k], s[k + 1]) ELSE G[k]
<1> DEFINE H == [n \in 0..(k + 1) |-> IF n = k + 1 THEN next ELSE G[n]]
<1> DEFINE f(n) == IF n = 0 THEN <<>> ELSE IF s[n] \in T THEN Append(H[n - 1], s[n]) ELSE H[n - 1]
<1>1. \A n \in 0..k : H[n] = G[n]
  OBVIOUS
<1>2. ASSUME NEW n \in 0..k
      PROVE  G[n] = IF n = 0 THEN <<>> ELSE IF s[n] \in T THEN Append(G[n - 1], s[n]) ELSE G[n - 1]
  BY DEF Grown
<1>3. ASSUME NEW n \in 0..(k + 1) PROVE H[n] = f(n)
  <2>1. CASE n = k + 1
    <3>1. H[n] = next /\ H[n - 1] = G[k] /\ n # 0
      BY <2>1
    <3> HIDE DEF H
    <3> QED BY <2>1, <3>1
  <2>2. CASE n # k + 1
    <3>1. n \in 0..k /\ (n # 0 => n - 1 \in 0..k)
      BY <2>2
    <3>2. H[n] = G[n] /\ (n # 0 => H[n - 1] = G[n - 1])
      BY <3>1, <1>1
    <3> HIDE DEF H
    <3> QED BY <3>1, <3>2, <1>2
  <2> QED BY <2>1, <2>2
<1>4. H = [n \in 0..(k + 1) |-> f(n)]
  <2> HIDE DEF f
  <2>1. H = [n \in 0..(k + 1) |-> H[n]]
    OBVIOUS
  <2> HIDE DEF H
  <2> QED BY <2>1, <1>3
<1> HIDE DEF H
<1> QED BY <1>4 DEF Grown

LEMMA GrownExists ==
  ASSUME NEW s, NEW T, NEW k \in Nat
  PROVE  \E G : Grown(G, s, T, k)
<1> DEFINE Bad == {m \in Nat : ~ \E G : Grown(G, s, T, m)}
<1>1. SUFFICES ASSUME Bad # {} PROVE FALSE
  OBVIOUS
<1>2. PICK m \in Bad : \A n \in Bad : m <= n
  <2>1. Bad \subseteq Nat
    OBVIOUS
  <2> HIDE DEF Bad
  <2> QED BY <2>1, <1>1, LeastNatural
<1>3. m \in Nat /\ ~ \E G : Grown(G, s, T, m)
  OBVIOUS
<1>4. m # 0
  <2>1. Grown([n \in 0..0 |-> <<>>], s, T, 0)
    BY DEF Grown
  <2> QED BY <2>1, <1>3
<1>5. m - 1 \in Nat /\ m - 1 \notin Bad
  <2> HIDE DEF Bad
  <2> QED BY <1>2, <1>3, <1>4
<1>6. PICK G : Grown(G, s, T, m - 1)
  BY <1>5
<1>7. \E H : Grown(H, s, T, (m - 1) + 1)
  BY <1>5, <1>6, GrownStep
<1>8. (m - 1) + 1 = m
  BY <1>3
<1> QED BY <1>3, <1>7, <1>8

\* Filter is the last value of that function.
LEMMA FilterIsGrown ==
  ASSUME NEW X, NEW s \in Seq(X), NEW T
  PROVE  \E G : Grown(G, s, T, Len(s)) /\ Filter(s, T) = G[Len(s)]
<1> DEFINE K == CHOOSE G : Grown(G, s, T, Len(s))
<1>1. Grown(K, s, T, Len(s))
  <2>1. Len(s) \in Nat
    OBVIOUS
  <2> QED BY <2>1, GrownExists
<1>2. Filter(s, T) = K[Len(s)]
  BY DEF Filter, Grown
<1> HIDE DEF K
<1> QED BY <1>1, <1>2

\* Filter is the last value of a function that starts empty and takes each element in turn.
LEMMA FilterGrown ==
  ASSUME NEW X, NEW s \in Seq(X), NEW T
  PROVE  \E G : /\ Filter(s, T) = G[Len(s)] /\ G[0] = <<>>
                /\ \A n \in 1..Len(s) : G[n] = IF s[n] \in T THEN Append(G[n - 1], s[n]) ELSE G[n - 1]
<1>1. PICK G : Grown(G, s, T, Len(s)) /\ Filter(s, T) = G[Len(s)]
  BY FilterIsGrown
<1>2. \A n \in 0..Len(s) : G[n] = IF n = 0 THEN <<>> ELSE IF s[n] \in T THEN Append(G[n - 1], s[n]) ELSE G[n - 1]
  BY <1>1 DEF Grown
<1>3. G[0] = <<>>
  BY <1>2
<1>4. \A n \in 1..Len(s) : G[n] = IF s[n] \in T THEN Append(G[n - 1], s[n]) ELSE G[n - 1]
  BY <1>2
<1> QED BY <1>1, <1>3, <1>4

\* The values of G on the way: r keeps of the first n elements of s those in T.
KeptSoFar(r, s, T, n) ==
  /\ Len(r) <= n
  /\ \A i \in 1..Len(r) : r[i] \in T /\ \E j \in 1..n : r[i] = s[j]
  /\ \A j \in 1..n : s[j] \in T => \E i \in 1..Len(r) : r[i] = s[j]
  /\ (\A j \in 1..n : s[j] \in T) => Len(r) = n /\ \A i \in 1..n : r[i] = s[i]
  /\ (\E j \in 1..n : s[j] \notin T) => Len(r) < n
  /\ IsInjective(s) => IsInjective(r)

LEMMA KeptSoFarStep ==
  ASSUME NEW X, NEW s \in Seq(X), NEW T, NEW n \in 1..Len(s), NEW r \in Seq(X), KeptSoFar(r, s, T, n - 1)
  PROVE  LET q == IF s[n] \in T THEN Append(r, s[n]) ELSE r
         IN  q \in Seq(X) /\ KeptSoFar(q, s, T, n)
<1>1. n \in Nat /\ n # 0 /\ n - 1 \in Nat /\ Len(r) \in Nat /\ s[n] \in X /\ 1..n = (1..(n - 1)) \cup {n}
  OBVIOUS
<1>2. CASE s[n] \notin T
  BY <1>1, <1>2 DEF KeptSoFar
<1>3. CASE s[n] \in T
  <2> DEFINE q == Append(r, s[n])
  <2>1. q \in Seq(X) /\ Len(q) = Len(r) + 1 /\ q[Len(r) + 1] = s[n]
        /\ \A i \in 1..Len(r) : q[i] = r[i]
    BY <1>1
  <2>2. \A i \in 1..Len(q) : q[i] \in T /\ \E j \in 1..n : q[i] = s[j]
    BY <1>1, <1>3, <2>1 DEF KeptSoFar
  <2>3. \A j \in 1..n : s[j] \in T => \E i \in 1..Len(q) : q[i] = s[j]
    <3> SUFFICES ASSUME NEW j \in 1..n, s[j] \in T PROVE \E i \in 1..Len(q) : q[i] = s[j]
      OBVIOUS
    <3>1. CASE j = n
      <4>1. Len(r) + 1 \in 1..Len(q)
        BY <1>1, <2>1
      <4> QED BY <4>1, <2>1, <3>1
    <3>2. CASE j # n
      <4>1. PICK i \in 1..Len(r) : r[i] = s[j]
        BY <1>1, <3>2 DEF KeptSoFar
      <4>2. i \in 1..Len(q)
        BY <1>1, <2>1
      <4> QED BY <4>1, <4>2, <2>1
    <3> QED BY <3>1, <3>2
  <2>4. (\A j \in 1..n : s[j] \in T) => Len(q) = n /\ \A i \in 1..n : q[i] = s[i]
    <3> SUFFICES ASSUME \A j \in 1..n : s[j] \in T PROVE Len(q) = n /\ \A i \in 1..n : q[i] = s[i]
      OBVIOUS
    <3>1. Len(r) = n - 1 /\ \A i \in 1..(n - 1) : r[i] = s[i]
      BY <1>1 DEF KeptSoFar
    <3>2. Len(q) = n
      BY <1>1, <2>1, <3>1
    <3>3. ASSUME NEW i \in 1..n PROVE q[i] = s[i]
      <4>1. CASE i = n
        BY <1>1, <2>1, <3>1, <4>1
      <4>2. CASE i # n
        BY <1>1, <2>1, <3>1, <4>2
      <4> QED BY <4>1, <4>2
    <3> QED BY <3>2, <3>3
  <2>5. (\E j \in 1..n : s[j] \notin T) => Len(q) < n
    BY <1>1, <1>3, <2>1 DEF KeptSoFar
  <2>6. ASSUME IsInjective(s) PROVE IsInjective(q)
    <3>1. IsInjective(r)
      BY <2>6 DEF KeptSoFar
    <3>2. \A i \in 1..Len(r) : r[i] # s[n]
      BY <1>1, <2>6 DEF KeptSoFar, IsInjective
    <3>3. ASSUME NEW i \in 1..Len(q), NEW j \in 1..Len(q), q[i] = q[j] PROVE i = j
      <4>1. CASE i \in 1..Len(r) /\ j \in 1..Len(r)
        BY <2>1, <3>1, <3>3, <4>1 DEF IsInjective
      <4>2. CASE i = Len(r) + 1 /\ j = Len(r) + 1
        BY <4>2
      <4>3. CASE (i = Len(r) + 1 /\ j \in 1..Len(r)) \/ (j = Len(r) + 1 /\ i \in 1..Len(r))
        BY <2>1, <3>2, <3>3, <4>3
      <4> QED BY <1>1, <2>1, <4>1, <4>2, <4>3
    <3>4. DOMAIN q = 1..Len(q)
      BY <2>1
    <3> QED BY <3>3, <3>4 DEF IsInjective
  <2>7. Len(q) <= n
    BY <1>1, <2>1 DEF KeptSoFar
  <2>8. q \in Seq(X) /\ KeptSoFar(q, s, T, n)
    <3> HIDE DEF q
    <3> QED BY <2>1, <2>2, <2>3, <2>4, <2>5, <2>6, <2>7 DEF KeptSoFar
  <2> QED BY <1>3, <2>8
<1> QED BY <1>2, <1>3

\* What filter leaves: the elements in T and no others, no more often than before; the list
\* as it is when all are in T, and a shorter one when some are not.
LEMMA FilterFacts ==
  ASSUME NEW X, NEW s \in Seq(X), NEW T
  PROVE  /\ Filter(s, T) \in Seq(X)
         /\ Len(Filter(s, T)) <= Len(s)
         /\ ToSet(Filter(s, T)) = ToSet(s) \cap T
         /\ ToSet(s) \subseteq T => Filter(s, T) = s
         /\ ~ ToSet(s) \subseteq T => Len(Filter(s, T)) < Len(s)
         /\ IsInjective(s) => IsInjective(Filter(s, T))
<1>1. PICK G : /\ Filter(s, T) = G[Len(s)] /\ G[0] = <<>>
               /\ \A n \in 1..Len(s) : G[n] = IF s[n] \in T THEN Append(G[n - 1], s[n]) ELSE G[n - 1]
  BY FilterGrown
<1> DEFINE Bad == {n \in Nat : n <= Len(s) /\ ~ (G[n] \in Seq(X) /\ KeptSoFar(G[n], s, T, n))}
<1>2. Bad = {}
  <2> SUFFICES ASSUME Bad # {} PROVE FALSE
    OBVIOUS
  <2>1. PICK m \in Bad : \A n \in Bad : m <= n
    <3>1. Bad \subseteq Nat
      OBVIOUS
    <3> HIDE DEF Bad
    <3> QED BY <3>1, LeastNatural
  <2>2. m \in Nat /\ m <= Len(s) /\ ~ (G[m] \in Seq(X) /\ KeptSoFar(G[m], s, T, m))
    OBVIOUS
  <2>3. m # 0
    <3>1. G[0] \in Seq(X) /\ KeptSoFar(G[0], s, T, 0)
      BY <1>1 DEF KeptSoFar, IsInjective
    <3> QED BY <2>2, <3>1
  <2>4. m - 1 \in Nat /\ m - 1 \notin Bad /\ m \in 1..Len(s) /\ m - 1 <= Len(s)
    <3> HIDE DEF Bad
    <3> QED BY <2>1, <2>2, <2>3
  <2>5. G[m - 1] \in Seq(X) /\ KeptSoFar(G[m - 1], s, T, m - 1)
    BY <2>4
  <2>6. G[m] \in Seq(X) /\ KeptSoFar(G[m], s, T, m)
    <3> DEFINE q == IF s[m] \in T THEN Append(G[m - 1], s[m]) ELSE G[m - 1]
    <3>1. q \in Seq(X) /\ KeptSoFar(q, s, T, m)
      BY <2>4, <2>5, KeptSoFarStep
    <3>2. G[m] = q
      BY <2>4, <1>1
    <3> QED BY <3>1, <3>2
  <2> QED BY <2>2, <2>6
<1> DEFINE r == Filter(s, T)
<1>3. r \in Seq(X) /\ KeptSoFar(r, s, T, Len(s)) /\ Len(s) \in Nat
  <2>1. Len(s) \in Nat /\ Len(s) <= Len(s) /\ Len(s) \notin Bad
    <3> HIDE DEF Bad
    <3> QED BY <1>2
  <2> QED BY <1>1, <2>1
<1>4. DOMAIN s = 1..Len(s) /\ DOMAIN r = 1..Len(r)
  BY <1>3
<1> HIDE DEF r
<1>5. ToSet(r) = ToSet(s) \cap T
  <2>1. ASSUME NEW x, x \in ToSet(r) PROVE x \in ToSet(s) \cap T
    <3>1. PICK i \in 1..Len(r) : x = r[i]
      BY <1>4, <2>1 DEF ToSet
    <3>2. r[i] \in T /\ \E j \in 1..Len(s) : r[i] = s[j]
      BY <1>3 DEF KeptSoFar
    <3> QED BY <1>4, <3>1, <3>2 DEF ToSet
  <2>2. ASSUME NEW x, x \in ToSet(s) \cap T PROVE x \in ToSet(r)
    <3>1. PICK j \in 1..Len(s) : x = s[j]
      BY <1>4, <2>2 DEF ToSet
    <3>2. \E i \in 1..Len(r) : r[i] = s[j]
      BY <1>3, <2>2, <3>1 DEF KeptSoFar
    <3> QED BY <1>4, <3>1, <3>2 DEF ToSet
  <2> QED BY <2>1, <2>2
<1>6. ASSUME ToSet(s) \subseteq T PROVE r = s
  <2>1. \A j \in 1..Len(s) : s[j] \in T
    BY <1>4, <1>6 DEF ToSet
  <2>2. Len(r) = Len(s) /\ \A i \in 1..Len(s) : r[i] = s[i]
    BY <1>3, <2>1 DEF KeptSoFar
  <2> QED BY <1>3, <1>4, <2>2
<1>7. ASSUME ~ ToSet(s) \subseteq T PROVE Len(r) < Len(s)
  <2>1. \E j \in 1..Len(s) : s[j] \notin T
    BY <1>4, <1>7 DEF ToSet
  <2> QED BY <1>3, <2>1 DEF KeptSoFar
<1> QED BY <1>3, <1>5, <1>6, <1>7 DEF r, KeptSoFar

\* The function in Filter is one function, and looks no further than it has come.
LEMMA GrownAgrees ==
  ASSUME NEW s, NEW t, NEW T, NEW k \in Nat, NEW m \in Nat, k <= m,
         NEW G, Grown(G, s, T, k), NEW H, Grown(H, t, T, m), \A i \in 1..k : s[i] = t[i]
  PROVE  G[k] = H[k]
<1> DEFINE Bad == {n \in Nat : n <= k /\ G[n] # H[n]}
<1> SUFFICES ASSUME Bad # {} PROVE FALSE
  OBVIOUS
<1>1. PICK n \in Bad : \A i \in Bad : n <= i
  <2>1. Bad \subseteq Nat
    OBVIOUS
  <2> HIDE DEF Bad
  <2> QED BY <2>1, LeastNatural
<1>2. n \in Nat /\ n <= k /\ G[n] # H[n]
  OBVIOUS
<1>3. ASSUME NEW i \in 0..k
      PROVE  /\ G[i] = IF i = 0 THEN <<>> ELSE IF s[i] \in T THEN Append(G[i - 1], s[i]) ELSE G[i - 1]
             /\ H[i] = IF i = 0 THEN <<>> ELSE IF t[i] \in T THEN Append(H[i - 1], t[i]) ELSE H[i - 1]
  <2>1. i \in 0..m
    OBVIOUS
  <2> QED BY <2>1 DEF Grown
<1>4. n # 0
  BY <1>2, <1>3
<1>5. n - 1 \in Nat /\ n - 1 \notin Bad /\ n - 1 <= k /\ n \in 0..k /\ n \in 1..k
  <2> HIDE DEF Bad
  <2> QED BY <1>1, <1>2, <1>4
<1>6. G[n - 1] = H[n - 1]
  BY <1>5
<1> HIDE DEF Bad
<1> QED BY <1>2, <1>3, <1>4, <1>5, <1>6

\* Filtering what has grown by one element.
LEMMA FilterAppend ==
  ASSUME NEW X, NEW s \in Seq(X), NEW x \in X, NEW T
  PROVE  Filter(Append(s, x), T) = IF x \in T THEN Append(Filter(s, T), x) ELSE Filter(s, T)
<1> DEFINE t == Append(s, x)
<1>1. /\ t \in Seq(X) /\ Len(s) \in Nat /\ Len(t) = Len(s) + 1 /\ t[Len(t)] = x
      /\ \A i \in 1..Len(s) : s[i] = t[i]
  OBVIOUS
<1> HIDE DEF t
<1>2. PICK G : Grown(G, s, T, Len(s)) /\ Filter(s, T) = G[Len(s)]
  BY FilterIsGrown
<1>3. PICK H : Grown(H, t, T, Len(t)) /\ Filter(t, T) = H[Len(t)]
  BY <1>1, FilterIsGrown
<1>4. G[Len(s)] = H[Len(s)]
  BY <1>1, <1>2, <1>3, GrownAgrees
<1>5. H[Len(t)] = IF t[Len(t)] \in T THEN Append(H[Len(t) - 1], t[Len(t)]) ELSE H[Len(t) - 1]
  <2>1. Len(t) \in 0..Len(t) /\ Len(t) # 0
    BY <1>1
  <2> QED BY <2>1, <1>3 DEF Grown
<1>6. Len(t) - 1 = Len(s)
  BY <1>1
<1> QED BY <1>1, <1>2, <1>3, <1>4, <1>5, <1>6 DEF t

\* A first element that stays is still the first.
LEMMA FilterHead ==
  ASSUME NEW X, NEW s \in Seq(X), NEW T, s # <<>>, s[1] \in T
  PROVE  Len(Filter(s, T)) >= 1 /\ Filter(s, T)[1] = s[1]
<1>1. PICK G : /\ Filter(s, T) = G[Len(s)] /\ G[0] = <<>>
               /\ \A n \in 1..Len(s) : G[n] = IF s[n] \in T THEN Append(G[n - 1], s[n]) ELSE G[n - 1]
  BY FilterGrown
<1> DEFINE Headed(n) == G[n] \in Seq(X) /\ Len(G[n]) >= 1 /\ G[n][1] = s[1]
<1> DEFINE Bad == {n \in Nat : 1 <= n /\ n <= Len(s) /\ ~ Headed(n)}
<1>2. Len(s) \in Nat /\ 1 <= Len(s) /\ \A n \in 1..Len(s) : s[n] \in X
  OBVIOUS
<1>3. Bad = {}
  <2> SUFFICES ASSUME Bad # {} PROVE FALSE
    OBVIOUS
  <2>1. PICK m \in Bad : \A n \in Bad : m <= n
    <3>1. Bad \subseteq Nat
      OBVIOUS
    <3> HIDE DEF Bad
    <3> QED BY <3>1, LeastNatural
  <2>2. m \in Nat /\ 1 <= m /\ m <= Len(s) /\ ~ Headed(m)
    <3> HIDE DEF Headed
    <3> QED OBVIOUS
  <2>3. G[m] = IF s[m] \in T THEN Append(G[m - 1], s[m]) ELSE G[m - 1]
    BY <1>1, <1>2, <2>2
  <2>4. CASE m = 1
    <3>1. G[m] = Append(<<>>, s[1])
      BY <1>1, <2>3, <2>4
    <3>2. s[1] \in X
      BY <1>2
    <3> QED BY <2>2, <2>4, <3>1, <3>2
  <2>5. CASE m # 1
    <3>1. m - 1 \in Nat /\ 1 <= m - 1 /\ m - 1 <= Len(s) /\ m - 1 \notin Bad
      <4> HIDE DEF Bad
      <4> QED BY <1>2, <2>1, <2>2, <2>5
    <3>2. Headed(m - 1)
      <4> HIDE DEF Headed
      <4> QED BY <3>1
    <3>3. PICK r \in Seq(X) : r = G[m - 1] /\ Len(r) >= 1 /\ r[1] = s[1]
      BY <3>2
    <3>4. s[m] \in X /\ G[m] = IF s[m] \in T THEN Append(r, s[m]) ELSE r
      BY <1>2, <2>2, <2>3, <3>3
    <3>5. Headed(m)
      BY <3>3, <3>4
    <3> QED BY <2>2, <3>5
  <2> QED BY <2>4, <2>5
<1>4. Headed(Len(s))
  <2> HIDE DEF Headed
  <2> QED BY <1>2, <1>3
<1> QED BY <1>1, <1>4

LEMMA FilterCounts ==
  ASSUME NEW X, NEW s \in Seq(X), NEW x \in X, NEW T
  PROVE  /\ Append(s, x) \in Seq(X) /\ Len(Filter(s, T)) \in Nat
         /\ Len(Filter(Append(s, x), T)) = Len(Filter(s, T)) + (IF x \in T THEN 1 ELSE 0)
<1>1. Filter(s, T) \in Seq(X)
  BY FilterFacts
<1>2. Filter(Append(s, x), T) = IF x \in T THEN Append(Filter(s, T), x) ELSE Filter(s, T)
  BY FilterAppend
<1> QED BY <1>1, <1>2

\* Finitely many numbers have a greatest.
LEMMA GreatestValue ==
  ASSUME NEW k \in Nat, NEW S, S \subseteq 1..k, S # {}, NEW f, \A b \in S : f[b] \in Nat
  PROVE  \E b \in S : \A c \in S : f[c] <= f[b]
<1> DEFINE AnyUpTo(n) == \E b \in S : b <= n
<1> DEFINE Good(n) == \E b \in S : b <= n /\ \A c \in S : c <= n => f[c] <= f[b]
<1> DEFINE Bad == {n \in Nat : AnyUpTo(n) /\ ~ Good(n)}
<1>1. \A b \in S : b \in Nat /\ b # 0 /\ b <= k /\ f[b] \in Nat
  OBVIOUS
<1>2. Bad = {}
  <2> SUFFICES ASSUME Bad # {} PROVE FALSE
    OBVIOUS
  <2>1. PICK m \in Bad : \A n \in Bad : m <= n
    <3>1. Bad \subseteq Nat
      OBVIOUS
    <3> HIDE DEF Bad
    <3> QED BY <3>1, LeastNatural
  <2>2. m \in Nat /\ AnyUpTo(m) /\ ~ Good(m)
    <3> HIDE DEF AnyUpTo, Good
    <3> QED OBVIOUS
  <2>3. m # 0 /\ m - 1 \in Nat
    BY <1>1, <2>2
  <2>4. AnyUpTo(m - 1) => Good(m - 1)
    <3>1. m - 1 \notin Bad
      <4> HIDE DEF Bad
      <4> QED BY <2>1, <2>2, <2>3
    <3> HIDE DEF AnyUpTo, Good
    <3> QED BY <2>3, <3>1
  <2> HIDE DEF Bad
  <2>5. \A c \in S : c <= m => c <= m - 1 \/ c = m
    BY <1>1, <2>2
  <2>6. CASE m \notin S
    <3>1. AnyUpTo(m - 1)
      BY <2>2, <2>5, <2>6
    <3>2. PICK b \in S : b <= m - 1 /\ \A c \in S : c <= m - 1 => f[c] <= f[b]
      BY <2>4, <3>1
    <3>3. b <= m
      BY <1>1, <2>2, <3>2
    <3> QED BY <2>2, <2>5, <2>6, <3>2, <3>3
  <2>7. CASE m \in S /\ ~ AnyUpTo(m - 1)
    <3>1. \A c \in S : c <= m => c = m
      BY <2>5, <2>7
    <3> QED BY <1>1, <2>2, <2>7, <3>1
  <2>8. CASE m \in S /\ AnyUpTo(m - 1)
    <3>1. PICK b \in S : b <= m - 1 /\ \A c \in S : c <= m - 1 => f[c] <= f[b]
      BY <2>4, <2>8
    <3>2. b <= m /\ f[b] \in Nat /\ f[m] \in Nat /\ m <= m
      BY <1>1, <2>2, <2>8, <3>1
    <3>3. CASE f[m] <= f[b]
      <4>1. \A c \in S : c <= m => f[c] <= f[b]
        BY <2>5, <3>1, <3>3
      <4> QED BY <2>2, <3>2, <4>1
    <3>4. CASE ~ f[m] <= f[b]
      <4>1. ASSUME NEW c \in S, c <= m PROVE f[c] <= f[m]
        <5>1. CASE c = m
          BY <3>2, <5>1
        <5>2. CASE c # m
          <6>1. f[c] <= f[b] /\ f[c] \in Nat
            BY <1>1, <2>5, <3>1, <4>1, <5>2
          <6> QED BY <3>2, <3>4, <6>1
        <5> QED BY <5>1, <5>2
      <4> QED BY <2>2, <2>8, <3>2, <4>1
    <3> QED BY <3>3, <3>4
  <2> QED BY <2>6, <2>7, <2>8
<1>3. k \in Nat /\ k \notin Bad
  <2> HIDE DEF Bad
  <2> QED BY <1>2
<1>4. AnyUpTo(k)
  BY <1>1
<1>5. Good(k)
  BY <1>3, <1>4
<1> QED BY <1>1, <1>5

-----------------------------------------------------------------------------
(* Recursion and order *)

\* Induction with the set of the numbers that have the property in its place.
LEMMA SetInduction ==
  ASSUME NEW k \in Nat, NEW S, 0 \in S, \A n \in 1..k : n - 1 \in S => n \in S
  PROVE  \A n \in 0..k : n \in S
<1> DEFINE Bad == {n \in 0..k : n \notin S}
<1> SUFFICES ASSUME Bad # {} PROVE FALSE
  OBVIOUS
<1>1. PICK m \in Bad : \A n \in Bad : m <= n
  <2>1. Bad \subseteq Nat
    OBVIOUS
  <2> HIDE DEF Bad
  <2> QED BY <2>1, LeastNatural
<1>2. m \in 1..k /\ m \notin S
  OBVIOUS
<1>3. m - 1 \in 0..k /\ m - 1 \notin Bad
  <2> HIDE DEF Bad
  <2> QED BY <1>1, <1>2
<1> QED BY <1>2, <1>3

\* A function that takes each value from the one before it exists.
HasFold(k, V, base, step) ==
  \E G \in [0..k -> V] : G[0] = base /\ \A n \in 1..k : G[n] = step[<<n, G[n - 1]>>]

LEMMA FoldExists ==
  ASSUME NEW k \in Nat, NEW V, NEW base \in V, NEW step \in [(1..k) \X V -> V]
  PROVE  HasFold(k, V, base, step)
<1> DEFINE Upto(m) == {G \in [0..m -> V] : G[0] = base /\ \A n \in 1..m : G[n] = step[<<n, G[n - 1]>>]}
<1> DEFINE S == {m \in 0..k : Upto(m) # {}}
<1>1. 0 \in S
  <2>1. [n \in 0..0 |-> base] \in Upto(0)
    OBVIOUS
  <2> QED BY <2>1
<1>2. ASSUME NEW n \in 1..k, n - 1 \in S PROVE n \in S
  <2>1. PICK G \in Upto(n - 1) : TRUE
    BY <1>2
  <2>2. /\ G \in [0..(n - 1) -> V] /\ G[0] = base /\ n - 1 \in 0..(n - 1)
        /\ \A m \in 1..(n - 1) : G[m] = step[<<m, G[m - 1]>>]
    OBVIOUS
  <2>3. step[<<n, G[n - 1]>>] \in V
    BY <2>2
  <2>4. PICK H : H = [m \in 0..n |-> IF m = n THEN step[<<n, G[n - 1]>>] ELSE G[m]]
    OBVIOUS
  <2>5. H \in [0..n -> V]
    BY <2>2, <2>3, <2>4
  <2>6. H[0] = base /\ H[n] = step[<<n, H[n - 1]>>]
    <3>1. 0 \in 0..n /\ n \in 0..n /\ n - 1 \in 0..n /\ 0 # n /\ n - 1 # n
      OBVIOUS
    <3> QED BY <2>2, <2>4, <3>1
  <2>7. ASSUME NEW m \in 1..(n - 1) PROVE H[m] = step[<<m, H[m - 1]>>]
    <3>1. m \in 0..n /\ m - 1 \in 0..n /\ m # n /\ m - 1 # n
      OBVIOUS
    <3> QED BY <2>2, <2>4, <3>1
  <2>8. \A m \in 1..n : H[m] = step[<<m, H[m - 1]>>]
    BY <2>6, <2>7
  <2>9. H \in Upto(n)
    BY <2>5, <2>6, <2>8
  <2> HIDE DEF Upto
  <2> QED BY <2>9
<1> HIDE DEF Upto
<1>3. k \in S
  <2> HIDE DEF S
  <2> QED BY <1>1, <1>2, SetInduction
<1>4. Upto(k) # {}
  BY <1>3
<1> QED BY <1>4 DEF Upto, HasFold

\* before orders the members of S one after the other.
Orders(before, S) ==
  /\ \A x \in S : <<x, x>> \notin before
  /\ \A x, y, z \in S : <<x, y>> \in before /\ <<y, z>> \in before => <<x, z>> \in before
  /\ \A x, y \in S : x = y \/ <<x, y>> \in before \/ <<y, x>> \in before

\* The numbers of those before each member are the numbers below that of all.
LEMMA RankFacts ==
  ASSUME NEW S, IsFiniteSet(S), NEW before, Orders(before, S)
  PROVE  LET rank == [x \in S |-> Cardinality({y \in S : <<y, x>> \in before})]
         IN  /\ \A x, y \in S : <<x, y>> \in before => rank[x] < rank[y]
             /\ \A k \in 0..(Cardinality(S) - 1) : \E x \in S : rank[x] = k
<1> DEFINE Before(x) == {y \in S : <<y, x>> \in before}
<1> DEFINE rank == [x \in S |-> Cardinality(Before(x))]
<1> DEFINE n == Cardinality(S)
<1>1. n \in Nat
  BY FS_CardinalityType
<1>2. ASSUME NEW x \in S PROVE IsFiniteSet(Before(x)) /\ rank[x] \in 0..(n - 1)
  <2>1. Before(x) \in SUBSET S /\ Before(x) # S
    BY DEF Orders
  <2> HIDE DEF Before
  <2>2. IsFiniteSet(Before(x)) /\ Cardinality(Before(x)) <= n /\ Cardinality(Before(x)) # n
    BY <2>1, FS_Subset
  <2>3. Cardinality(Before(x)) \in Nat
    BY <2>2, FS_CardinalityType
  <2> QED BY <1>1, <2>2, <2>3
<1>3. ASSUME NEW x \in S, NEW y \in S, <<x, y>> \in before PROVE rank[x] < rank[y]
  <2>1. Before(x) \subseteq Before(y) /\ Before(x) # Before(y)
    BY <1>3 DEF Orders
  <2> HIDE DEF Before
  <2>2. Cardinality(Before(x)) <= Cardinality(Before(y)) /\ Cardinality(Before(x)) # Cardinality(Before(y))
    BY <1>2, <2>1, FS_Subset
  <2> QED BY <1>1, <1>2, <2>2
<1> HIDE DEF Before
<1>4. rank \in Injection(S, 0..(n - 1))
  <2>1. rank \in [S -> 0..(n - 1)]
    BY <1>2
  <2>2. ASSUME NEW x \in S, NEW y \in S, rank[x] = rank[y] PROVE x = y
    <3>1. rank[x] \in Int /\ ~ rank[x] < rank[y] /\ ~ rank[y] < rank[x]
      <4>1. rank[x] \in Int /\ rank[y] \in Int
        BY <1>1, <1>2
      <4> HIDE DEF rank
      <4> QED BY <2>2, <4>1
    <3>2. <<x, y>> \notin before /\ <<y, x>> \notin before
      BY <1>3, <3>1
    <3> QED BY <3>2 DEF Orders
  <2> HIDE DEF rank
  <2> QED BY <2>1, <2>2 DEF Injection, IsInjective
<1>5. rank \in Surjection(S, 0..(n - 1))
  <2>1. IsFiniteSet(0..(n - 1)) /\ Cardinality(0..(n - 1)) = n
    BY <1>1, FS_Interval
  <2> HIDE DEF rank
  <2> QED BY <1>4, <2>1, FS_Injection
<1>6. \A k \in 0..(n - 1) : \E x \in S : rank[x] = k
  <2> HIDE DEF rank
  <2> QED BY <1>5 DEF Surjection
<1> QED BY <1>3, <1>6 DEF Before

\* ORDER BY gives a list of the members, in that order.
LEMMA OrderedFacts ==
  ASSUME NEW S, IsFiniteSet(S), NEW before, Orders(before, S)
  PROVE  /\ Ordered(S, before) \in Seq(S) /\ Len(Ordered(S, before)) = Cardinality(S)
         /\ Cardinality(S) \in Nat
         /\ \A i, j \in 1..Cardinality(S) : i < j => <<Ordered(S, before)[i], Ordered(S, before)[j]>> \in before
<1> DEFINE n == Cardinality(S)
<1> DEFINE rank == [x \in S |-> Cardinality({y \in S : <<y, x>> \in before})]
<1>1. n \in Nat
  BY FS_CardinalityType
<1>2. /\ \A x, y \in S : <<x, y>> \in before => rank[x] < rank[y]
      /\ \A k \in 0..(n - 1) : \E x \in S : rank[x] = k
  BY RankFacts
<1>3. PICK list : list = Ordered(S, before)
  OBVIOUS
<1>4. ASSUME NEW i \in 1..n PROVE list[i] \in S /\ rank[list[i]] = i - 1
  <2>1. list[i] = CHOOSE x \in S : Cardinality({y \in S : <<y, x>> \in before}) = i - 1
    <3>1. list[i] = Behind(S, before, i - 1)
      BY <1>3 DEF Ordered
    <3> QED BY <3>1 DEF Behind
  <2>2. \E x \in S : Cardinality({y \in S : <<y, x>> \in before}) = i - 1
    <3>1. i - 1 \in 0..(n - 1)
      BY <1>1
    <3>2. PICK x \in S : rank[x] = i - 1
      BY <1>2, <3>1
    <3> QED BY <3>2
  <2> QED BY <2>1, <2>2
<1>5. list = [i \in 1..n |-> list[i]]
  BY <1>3 DEF Ordered
<1> HIDE DEF rank
<1>6. list \in Seq(S) /\ Len(list) = n
  BY <1>1, <1>4, <1>5
<1>7. ASSUME NEW i \in 1..n, NEW j \in 1..n, i < j PROVE <<list[i], list[j]>> \in before
  <2>1. list[i] # list[j] /\ ~ <<list[j], list[i]>> \in before
    BY <1>1, <1>2, <1>4, <1>7
  <2> QED BY <1>4, <2>1 DEF Orders
<1> QED BY <1>1, <1>3, <1>6, <1>7

\* A list, of whatever its elements are.
IsList(s) == s \in Seq(ToSet(s))

LEMMA ListIsList == ASSUME NEW X, NEW s \in Seq(X) PROVE IsList(s)
<1>1. s = [k \in 1..Len(s) |-> s[k]] /\ Len(s) \in Nat /\ DOMAIN s = 1..Len(s)
  OBVIOUS
<1>2. \A k \in 1..Len(s) : s[k] \in ToSet(s)
  BY <1>1 DEF ToSet
<1> QED BY <1>1, <1>2 DEF IsList

LEMMA AppendedIsList == ASSUME NEW s, IsList(s), NEW x PROVE IsList(s \o <<x>>)
<1>1. s \in Seq(ToSet(s) \cup {x})
  BY DEF IsList
<1>2. s \o <<x>> \in Seq(ToSet(s) \cup {x})
  BY <1>1
<1> QED BY <1>2, ListIsList

LEMMA AppendIsList ==
  ASSUME NEW s, IsList(s), NEW x
  PROVE  /\ IsList(Append(s, x)) /\ Len(Append(s, x)) = Len(s) + 1
         /\ \A i \in 1..Len(Append(s, x)) : Append(s, x)[i] = IF i = Len(s) + 1 THEN x ELSE s[i]
<1>1. s \in Seq(ToSet(s) \cup {x})
  BY DEF IsList
<1>2. /\ Append(s, x) \in Seq(ToSet(s) \cup {x}) /\ Len(Append(s, x)) = Len(s) + 1
      /\ \A i \in 1..Len(Append(s, x)) : Append(s, x)[i] = IF i = Len(s) + 1 THEN x ELSE s[i]
  BY <1>1
<1>3. IsList(Append(s, x))
  BY <1>2, ListIsList
<1> QED BY <1>2, <1>3

LEMMA FilterIsList == ASSUME NEW s, IsList(s), NEW T PROVE IsList(Filter(s, T))
<1>1. Filter(s, T) \in Seq(ToSet(s))
  BY FilterFacts DEF IsList
<1> QED BY <1>1, ListIsList

LEMMA MappedIsList ==
  ASSUME NEW s, IsList(s), NEW f, f = [k \in DOMAIN s |-> f[k]]
  PROVE  IsList(f) /\ Len(f) = Len(s)
<1>1. Len(s) \in Nat /\ DOMAIN s = 1..Len(s)
  BY DEF IsList
<1>2. f = [k \in 1..Len(s) |-> f[k]]
  BY <1>1
<1>3. f \in Seq({f[k] : k \in 1..Len(s)}) /\ Len(f) = Len(s)
  BY <1>1, <1>2
<1> QED BY <1>3, ListIsList
=============================================================================
