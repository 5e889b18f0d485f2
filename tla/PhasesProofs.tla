---------------------------- MODULE PhasesProofs ----------------------------
(***************************************************************************)
(* Two parts.  First the routers: their answers, for every pool, every     *)
(* score and every cap, and that phase 3 has to reckon with no others.     *)
(* Then the pipelines, for every pool of experts, every chain and every    *)
(* pattern of failing backend calls.                                       *)
(***************************************************************************)
EXTENDS Phases, Router, FiniteSetTheorems, SequenceTheorems, WellFoundedInduction,
        NaturalsInduction, TLAPS

-----------------------------------------------------------------------------
(* Lists of different experts. *)

IsList(s) ==
    /\ s \in Seq(Pool)
    /\ \A i, j \in 1..Len(s) : s[i] = s[j] => i = j

LEMMA LeastIn ==
    ASSUME NEW S \in SUBSET Nat, S # {}
    PROVE  \E x \in S : \A y \in S : x <= y
<1>1. OpToRel(<, Nat) = {ss \in Nat \X Nat : ss[1] < ss[2]}
  BY DEF OpToRel
<1>2. PICK x \in S : \A y \in S : ~(<<y, x>> \in OpToRel(<, Nat))
  BY WFMin, NatLessThanWellFounded
<1>3. ASSUME NEW y \in S PROVE x <= y
  <2>1. ~(<<y, x>> \in {ss \in Nat \X Nat : ss[1] < ss[2]})
    BY <1>1, <1>2
  <2>. QED
    BY <2>1
<1>. QED
  BY <1>3

LEMMA RangeOf ==
    ASSUME NEW s \in Seq(Pool)
    PROVE  /\ DOMAIN s = 1..Len(s) /\ Len(s) \in Nat
           /\ \A e : e \in Range(s) <=> \E i \in 1..Len(s) : s[i] = e
BY DEF Range

(* The length of a list is the number of its experts. *)
LEMMA ListSize ==
    ASSUME NEW s, IsList(s)
    PROVE  IsFiniteSet(Range(s)) /\ Cardinality(Range(s)) = Len(s)
<1>1. s \in Seq(Pool) /\ Len(s) \in Nat /\ DOMAIN s = 1..Len(s)
  BY DEF IsList
<1>2. s \in Bijection(1..Len(s), Range(s))
  BY <1>1 DEF IsList, Bijection, Injection, Surjection, IsInjective, Range
<1>3. ExistsBijection(1..Len(s), Range(s))
  BY <1>2 DEF ExistsBijection
<1>4. IsFiniteSet(1..Len(s)) /\ Cardinality(1..Len(s)) = Len(s)
  BY <1>1, FS_Interval
<1>. QED
  BY <1>3, <1>4, FS_Bijection

(* What Among makes of a list, up to position m. *)
Builds(f, s, S, m) ==
    /\ f[0] = <<>>
    /\ \A i \in 1..m :
           f[i] = IF s[i] \in S THEN Append(f[i - 1], s[i]) ELSE f[i - 1]

Sublist(t, s, S, m) ==
    /\ IsList(t)
    /\ \A e : (\E j \in 1..Len(t) : t[j] = e) <=> (e \in S /\ \E i \in 1..m : s[i] = e)
    /\ m > 0 /\ s[1] \in S => t # <<>> /\ t[1] = s[1]

LEMMA SublistGrows ==
    ASSUME NEW s, IsList(s), NEW S, NEW m \in 1..Len(s), NEW t,
           Sublist(t, s, S, m - 1)
    PROVE  Sublist(IF s[m] \in S THEN Append(t, s[m]) ELSE t, s, S, m)
<1>1. /\ s \in Seq(Pool) /\ Len(s) \in Nat /\ m \in Nat \ {0} /\ s[m] \in Pool
      /\ \A i \in 1..(m - 1) : i \in 1..Len(s) /\ s[i] # s[m]
  BY DEF IsList
<1>2. t \in Seq(Pool) /\ Len(t) \in Nat
  BY DEF Sublist, IsList
<1>3. \A j \in 1..Len(t) : t[j] # s[m]
  BY <1>1 DEF Sublist
<1>4. CASE s[m] \in S
  <2> DEFINE u == Append(t, s[m])
  <2>1. /\ u \in Seq(Pool) /\ Len(u) = Len(t) + 1 /\ u[Len(t) + 1] = s[m]
        /\ \A j \in 1..Len(t) : u[j] = t[j]
    BY <1>1, <1>2
  <2>. HIDE DEF u
  <2>2. IsList(u)
    BY <1>2, <1>3, <2>1 DEF IsList, Sublist
  <2>3. ASSUME NEW e
        PROVE  (\E j \in 1..Len(u) : u[j] = e) <=> (e \in S /\ \E i \in 1..m : s[i] = e)
    <3>1. (\E j \in 1..Len(u) : u[j] = e) <=> (\E j \in 1..Len(t) : t[j] = e) \/ s[m] = e
      BY <1>2, <2>1
    <3>2. (\E i \in 1..m : s[i] = e) <=> (\E i \in 1..(m - 1) : s[i] = e) \/ s[m] = e
      BY <1>1
    <3>3. (\E j \in 1..Len(t) : t[j] = e) <=> (e \in S /\ \E i \in 1..(m - 1) : s[i] = e)
      BY DEF Sublist
    <3>. QED
      BY <1>4, <3>1, <3>2, <3>3
  <2>4. s[1] \in S => u # <<>> /\ u[1] = s[1]
    <3>1. CASE m = 1
      <4>1. Len(t) = 0
        <5>1. 1..(m - 1) = {}
          BY <3>1
        <5>2. \A j \in 1..Len(t) : t[j] # t[j]
          BY <5>1 DEF Sublist
        <5>. QED
          BY <1>2, <5>2
      <4>2. Len(u) = 1 /\ u[1] = s[m]
        BY <2>1, <4>1
      <4>. QED
        BY <2>1, <3>1, <4>2
    <3>2. CASE m # 1
      <4>1. s[1] \in S => t # <<>> /\ t[1] = s[1]
        BY <1>1, <3>2 DEF Sublist
      <4>2. t # <<>> => Len(t) >= 1
        BY <1>2
      <4>. QED
        BY <1>2, <2>1, <4>1, <4>2
    <3>. QED
      BY <3>1, <3>2
  <2>5. Sublist(u, s, S, m)
    BY <2>2, <2>3, <2>4 DEF Sublist
  <2>. QED
    BY <1>4, <2>5 DEF u
<1>5. CASE s[m] \notin S
  <2>1. ASSUME NEW e
        PROVE  (\E j \in 1..Len(t) : t[j] = e) <=> (e \in S /\ \E i \in 1..m : s[i] = e)
    <3>1. (\E i \in 1..m : s[i] = e) <=> (\E i \in 1..(m - 1) : s[i] = e) \/ s[m] = e
      BY <1>1
    <3>2. (\E j \in 1..Len(t) : t[j] = e) <=> (e \in S /\ \E i \in 1..(m - 1) : s[i] = e)
      BY DEF Sublist
    <3>. QED
      BY <1>5, <3>1, <3>2
  <2>2. s[1] \in S => t # <<>> /\ t[1] = s[1]
    <3>1. s[1] \in S => m - 1 > 0
      BY <1>1, <1>5
    <3>. QED
      BY <3>1 DEF Sublist
  <2>3. Sublist(t, s, S, m)
    BY <2>1, <2>2 DEF Sublist
  <2>. QED
    BY <1>5, <2>3
<1>. QED
  BY <1>4, <1>5

LEMMA Buildable ==
    ASSUME NEW s, IsList(s), NEW S
    PROVE  \E f : /\ f = [i \in 0..Len(s) |-> f[i]]
                  /\ Builds(f, s, S, Len(s))
                  /\ Sublist(f[Len(s)], s, S, Len(s))
<1> DEFINE n == Len(s)
           Built(m) == \E f : /\ f = [i \in 0..m |-> f[i]]
                              /\ Builds(f, s, S, m)
                              /\ Sublist(f[m], s, S, m)
           Bad == {m \in 0..n : ~Built(m)}
<1>1. n \in Nat
  BY DEF IsList
<1>2. Built(0)
  <2> DEFINE f == [i \in 0..0 |-> <<>>]
  <2>1. f = [i \in 0..0 |-> f[i]] /\ f[0] = <<>>
    OBVIOUS
  <2>2. Builds(f, s, S, 0)
    BY DEF Builds
  <2>3. Sublist(<<>>, s, S, 0)
    BY DEF Sublist, IsList
  <2>. HIDE DEF f
  <2>. QED
    BY <2>1, <2>2, <2>3
<1>3. ASSUME NEW m \in 1..n, Built(m - 1) PROVE Built(m)
  <2>1. PICK f : /\ f = [i \in 0..(m - 1) |-> f[i]]
                 /\ Builds(f, s, S, m - 1)
                 /\ Sublist(f[m - 1], s, S, m - 1)
    BY <1>3
  <2>2. m \in Nat \ {0} /\ 0 \in 0..(m - 1) /\ m - 1 \in 0..(m - 1)
    BY <1>1
  <2> DEFINE t == IF s[m] \in S THEN Append(f[m - 1], s[m]) ELSE f[m - 1]
             h == [i \in 0..m |-> IF i = m THEN t ELSE f[i]]
  <2>3. Sublist(t, s, S, m)
    BY <1>3, <2>1, SublistGrows
  <2>. HIDE DEF t
  <2>4. /\ h = [i \in 0..m |-> h[i]] /\ h[m] = t
        /\ \A i \in 0..(m - 1) : h[i] = f[i]
    BY <1>1, <1>3
  <2>. HIDE DEF h
  <2>5. Builds(h, s, S, m)
    <3>1. h[0] = <<>>
      BY <2>2, <2>1, <2>4 DEF Builds
    <3>2. ASSUME NEW i \in 1..m
          PROVE  h[i] = IF s[i] \in S THEN Append(h[i - 1], s[i]) ELSE h[i - 1]
      <4>1. CASE i = m
        <5>1. h[m - 1] = f[m - 1]
          BY <2>2, <2>4
        <5>. QED
          BY <2>4, <4>1, <5>1 DEF t
      <4>2. CASE i # m
        <5>1. i \in 1..(m - 1) /\ i - 1 \in 0..(m - 1) /\ i \in 0..(m - 1)
          BY <1>1, <1>3, <4>2
        <5>2. h[i] = f[i] /\ h[i - 1] = f[i - 1]
          BY <2>4, <5>1
        <5>. QED
          BY <2>1, <5>1, <5>2 DEF Builds
      <4>. QED
        BY <4>1, <4>2
    <3>. QED
      BY <3>1, <3>2 DEF Builds
  <2>. QED
    BY <2>3, <2>4, <2>5
<1>. HIDE DEF Built, n
<1>4. ASSUME Bad # {} PROVE FALSE
  <2>1. Bad \in SUBSET Nat
    BY <1>1
  <2>2. PICK m \in Bad : \A x \in Bad : m <= x
    <3>. HIDE DEF Bad
    <3>. QED
      BY <1>4, <2>1, LeastIn
  <2>3. m \in 0..n /\ ~Built(m) /\ m # 0
    BY <1>2, <2>2
  <2>4. m \in 1..n /\ m - 1 \in 0..n /\ m - 1 \notin Bad
    BY <1>1, <2>2, <2>3
  <2>5. Built(m - 1)
    BY <2>4
  <2>. QED
    BY <1>3, <2>3, <2>4, <2>5
<1>5. Built(n)
  BY <1>1, <1>4
<1>. QED
  BY <1>5 DEF Built, n

(* Among keeps the experts of the list that are in the set, and the first   *)
(* one first.                                                               *)
LEMMA AmongIs ==
    ASSUME NEW s, IsList(s), NEW S
    PROVE  /\ IsList(Among(s, S))
           /\ Range(Among(s, S)) = Range(s) \cap S
           /\ s # <<>> /\ s[1] \in S => Among(s, S) # <<>> /\ Among(s, S)[1] = s[1]
<1> DEFINE n == Len(s)
           Unfolds(k) == k = [i \in 0..n |->
                                  IF i = 0 THEN <<>>
                                  ELSE IF s[i] \in S THEN Append(k[i - 1], s[i])
                                  ELSE k[i - 1]]
<1>1. n \in Nat /\ s \in Seq(Pool)
  BY DEF IsList
<1>2. PICK f : /\ f = [i \in 0..n |-> f[i]]
               /\ Builds(f, s, S, n)
               /\ Sublist(f[n], s, S, n)
  BY Buildable
<1> DEFINE w == CHOOSE k : Unfolds(k)
<1>3. Among(s, S) = w[n]
  BY DEF Among
<1>4. Unfolds(f)
  <2> DEFINE g == [i \in 0..n |-> IF i = 0 THEN <<>>
                                  ELSE IF s[i] \in S THEN Append(f[i - 1], s[i])
                                  ELSE f[i - 1]]
  <2>1. ASSUME NEW i \in 0..n PROVE f[i] = g[i]
    <3>1. CASE i = 0
      BY <1>2, <3>1 DEF Builds
    <3>2. CASE i # 0
      <4>1. i \in 1..n
        BY <1>1, <3>2
      <4>. QED
        BY <1>2, <3>2, <4>1 DEF Builds
    <3>. QED
      BY <3>1, <3>2
  <2>. QED
    BY <1>2, <2>1
<1>5. Unfolds(w)
  <2>. HIDE DEF Unfolds
  <2>. QED
    BY <1>4
<1>6. w[n] = f[n]
  <2> DEFINE Bad == {i \in 0..n : w[i] # f[i]}
  <2>. HIDE DEF w
  <2>1. ASSUME Bad # {} PROVE FALSE
    <3>1. Bad \in SUBSET Nat
      BY <1>1
    <3>2. PICK m \in Bad : \A x \in Bad : m <= x
      <4>. HIDE DEF Bad
      <4>. QED
        BY <2>1, <3>1, LeastIn
    <3>3. m \in 0..n /\ w[m] # f[m]
      BY <3>2
    <3>4. CASE m = 0
      BY <1>4, <1>5, <3>3, <3>4
    <3>5. CASE m # 0
      <4>1. m - 1 \in 0..n /\ m - 1 \notin Bad
        BY <1>1, <3>2, <3>3, <3>5
      <4>2. w[m - 1] = f[m - 1]
        BY <4>1
      <4>. QED
        BY <1>4, <1>5, <3>3, <3>5, <4>2
    <3>. QED
      BY <3>4, <3>5
  <2>. QED
    BY <1>1, <2>1
<1>7. Sublist(Among(s, S), s, S, n)
  BY <1>2, <1>3, <1>6
<1>. HIDE DEF w
<1>8. IsList(Among(s, S)) /\ Among(s, S) \in Seq(Pool)
  BY <1>7 DEF Sublist, IsList
<1>9. Range(Among(s, S)) = Range(s) \cap S
  <2>1. ASSUME NEW e PROVE e \in Range(Among(s, S)) <=> e \in Range(s) /\ e \in S
    BY <1>1, <1>7, <1>8, RangeOf DEF Sublist
  <2>. QED
    BY <2>1
<1>10. s # <<>> => n > 0
  BY <1>1
<1>. QED
  BY <1>7, <1>8, <1>9, <1>10 DEF Sublist

-----------------------------------------------------------------------------
(* Sorting: a finite set has a sequence in every strict total order. *)

IsOrder(R, S) ==
    /\ \A a \in S : <<a, a>> \notin R
    /\ \A a, b \in S : a # b => <<a, b>> \in R \/ <<b, a>> \in R
    /\ \A a, b, c \in S : <<a, b>> \in R /\ <<b, c>> \in R => <<a, c>> \in R

InOrderOf(s, R) == \A i, j \in DOMAIN s : i < j => <<s[i], s[j]>> \in R

LEMMA Sortable ==
    ASSUME NEW S, IsFiniteSet(S), NEW R, IsOrder(R, S)
    PROVE  \E s \in SetToSeqs(S) : InOrderOf(s, R)
<1> DEFINE n == Cardinality(S)
           Below(e) == {d \in S : <<d, e>> \in R}
           rank == [e \in S |-> Cardinality(Below(e)) + 1]
<1>1. n \in Nat
  BY FS_CardinalityType
<1>2. ASSUME NEW e \in S
      PROVE  /\ IsFiniteSet(Below(e)) /\ Cardinality(Below(e)) \in Nat
             /\ Cardinality(Below(e)) + 1 <= n
  <2>1. Below(e) \in SUBSET (S \ {e})
    BY DEF IsOrder
  <2>2. IsFiniteSet(S \ {e}) /\ Cardinality(S \ {e}) = n - 1
    BY FS_RemoveElement
  <2>. HIDE DEF Below
  <2>3. IsFiniteSet(Below(e)) /\ Cardinality(Below(e)) <= n - 1
    BY <2>1, <2>2, FS_Subset
  <2>4. Cardinality(Below(e)) \in Nat
    BY <2>3, FS_CardinalityType
  <2>. QED
    BY <1>1, <2>3, <2>4
<1>3. rank \in [S -> 1..n]
  <2>. HIDE DEF Below
  <2>. QED
    BY <1>1, <1>2
<1>4. ASSUME NEW a \in S, NEW b \in S, <<a, b>> \in R
      PROVE  rank[a] < rank[b]
  <2>1. Below(a) \cup {a} \in SUBSET Below(b)
    BY <1>4 DEF IsOrder
  <2>2. a \notin Below(a)
    BY DEF IsOrder
  <2>. HIDE DEF Below
  <2>3. Cardinality(Below(a) \cup {a}) = Cardinality(Below(a)) + 1
    BY <1>2, <2>2, FS_AddElement
  <2>4. Cardinality(Below(a) \cup {a}) <= Cardinality(Below(b))
    BY <1>2, <2>1, FS_Subset
  <2>. QED
    BY <1>2, <2>3, <2>4
<1>. HIDE DEF rank, n
<1>5. \A a, b \in S : rank[a] = rank[b] => a = b
  <2>1. SUFFICES ASSUME NEW a \in S, NEW b \in S, rank[a] = rank[b], a # b
                 PROVE  FALSE
    OBVIOUS
  <2>2. rank[a] \in Nat /\ rank[b] \in Nat
    BY <1>1, <1>3
  <2>3. <<a, b>> \in R \/ <<b, a>> \in R
    BY <2>1 DEF IsOrder
  <2>4. rank[a] < rank[b] \/ rank[b] < rank[a]
    BY <1>4, <2>3
  <2>. QED
    BY <2>1, <2>2, <2>4
<1>6. rank \in Surjection(S, 1..n)
  <2>1. rank \in Injection(S, 1..n)
    BY <1>3, <1>5 DEF Injection, IsInjective
  <2>2. IsFiniteSet(1..n) /\ Cardinality(1..n) = n
    BY <1>1, FS_Interval
  <2>3. Cardinality(S) = Cardinality(1..n)
    BY <2>2 DEF n
  <2>. QED
    BY <2>1, <2>2, <2>3, FS_Injection
<1>7. \A i \in 1..n : \E e \in S : rank[e] = i
  BY <1>6 DEF Surjection
<1> DEFINE s == [i \in 1..n |-> CHOOSE e \in S : rank[e] = i]
<1>8. s \in [1..n -> S] /\ \A i \in 1..n : rank[s[i]] = i
  BY <1>7
<1>. HIDE DEF s
<1>9. s \in SetToSeqs(S)
  BY <1>8 DEF SetToSeqs, n
<1>10. InOrderOf(s, R)
  <2>1. SUFFICES ASSUME NEW i \in 1..n, NEW j \in 1..n, i < j
                 PROVE  <<s[i], s[j]>> \in R
    BY <1>8 DEF InOrderOf
  <2>2. s[i] \in S /\ s[j] \in S /\ rank[s[i]] = i /\ rank[s[j]] = j
    BY <1>8
  <2>3. s[i] # s[j]
    BY <1>1, <2>1, <2>2
  <2>4. <<s[i], s[j]>> \in R \/ <<s[j], s[i]>> \in R
    BY <2>2, <2>3 DEF IsOrder
  <2>5. <<s[j], s[i]>> \in R => j < i
    BY <1>4, <2>2
  <2>. QED
    BY <1>1, <2>1, <2>4, <2>5
<1>. QED
  BY <1>9, <1>10

(* A first element of a nonempty finite set. *)
LEMMA FirstExists ==
    ASSUME NEW S, IsFiniteSet(S), S # {}, NEW R, IsOrder(R, S)
    PROVE  \E a \in S : \A b \in S : a # b => <<a, b>> \in R
<1>1. PICK s \in SetToSeqs(S) : InOrderOf(s, R)
  BY Sortable
<1> DEFINE n == Cardinality(S)
<1>2. n \in Nat \ {0}
  BY FS_CardinalityType, FS_EmptySet
<1>3. s \in [1..n -> S] /\ \A i, j \in 1..n : s[i] = s[j] => i = j
  BY <1>1 DEF SetToSeqs
<1>4. s \in Surjection(1..n, S)
  <2>1. s \in Injection(1..n, S)
    BY <1>3 DEF Injection, IsInjective
  <2>2. Cardinality(1..n) = n
    BY <1>2, FS_Interval
  <2>. QED
    BY <2>1, <2>2, FS_Injection
<1>5. ASSUME NEW b \in S, s[1] # b PROVE <<s[1], b>> \in R
  <2>1. PICK j \in 1..n : s[j] = b
    BY <1>4 DEF Surjection
  <2>2. 1 < j /\ 1 \in 1..n
    BY <1>2, <1>5, <2>1
  <2>. QED
    BY <1>1, <1>3, <2>1, <2>2 DEF InOrderOf
<1>6. s[1] \in S
  BY <1>2, <1>3
<1> DEFINE a == s[1]
<1>. HIDE DEF a
<1>7. a \in S /\ \A b \in S : a # b => <<a, b>> \in R
  BY <1>5, <1>6 DEF a
<1>. QED
  BY <1>7

LEMMA PoolIsFinite ==
    /\ IsFiniteSet(Pool) /\ Pool \subseteq Nat \ {0}
    /\ \A S \in SUBSET Pool : IsFiniteSet(S)
<1>1. IsFiniteSet(Pool) /\ Pool \subseteq Nat \ {0}
  BY RouterAssumption, FS_Interval DEF Pool
<1>. QED
  BY <1>1, FS_Subset

LEMMA SeqsAreLists ==
    ASSUME NEW S \in SUBSET Pool, NEW s \in SetToSeqs(S)
    PROVE  IsList(s) /\ Range(s) \subseteq S
<1>1. Cardinality(S) \in Nat
  BY PoolIsFinite, FS_CardinalityType
<1>2. /\ s \in [1..Cardinality(S) -> S]
      /\ \A i, j \in 1..Cardinality(S) : i # j => s[i] # s[j]
  BY DEF SetToSeqs
<1>3. s \in Seq(Pool) /\ Len(s) = Cardinality(S)
  BY <1>1, <1>2
<1>. QED
  BY <1>2, <1>3 DEF IsList, Range

-----------------------------------------------------------------------------
(* The rankings are lists of experts. *)

RouteType ==
    /\ role \in [Pool -> Roles]
    /\ size \in [Pool -> 0..MaxSize]
    /\ min_activation \in Nat \ {0}
    /\ max_activation \in Nat

LEMMA ScoredIsList ==
    ASSUME NEW g \in [Pool -> Int]
    PROVE  IsList(Scored(g))
<1> DEFINE R == {p \in Pool \X Pool :
                     g[p[1]] > g[p[2]] \/ (g[p[1]] = g[p[2]] /\ p[1] < p[2])}
           Fits(s) == \A i, j \in DOMAIN s :
                          i < j => g[s[i]] > g[s[j]] \/ (g[s[i]] = g[s[j]] /\ s[i] < s[j])
<1>1. \A a, b \in Pool :
          <<a, b>> \in R <=> g[a] > g[b] \/ (g[a] = g[b] /\ a < b)
  OBVIOUS
<1>2. \A a \in Pool : g[a] \in Int /\ a \in Nat
  BY PoolIsFinite
<1>. HIDE DEF R
<1>3. IsOrder(R, Pool)
  BY <1>1, <1>2 DEF IsOrder
<1>4. PICK s \in SetToSeqs(Pool) : InOrderOf(s, R)
  BY <1>3, PoolIsFinite, Sortable
<1>5. \A i \in DOMAIN s : s[i] \in Pool
  BY <1>4 DEF SetToSeqs
<1>6. Fits(s)
  BY <1>1, <1>4, <1>5 DEF InOrderOf
<1>7. Scored(g) = CHOOSE t \in SetToSeqs(Pool) : Fits(t)
  BY DEF Scored, Sorted
<1>. HIDE DEF Fits
<1>8. Scored(g) \in SetToSeqs(Pool)
  BY <1>6, <1>7
<1>. QED
  BY <1>8, SeqsAreLists

LEMMA Scores ==
    ASSUME RouteType, NEW f \in [Roles -> Nat], NEW e \in Pool
    PROVE  Logistic(f, e) \in Int /\ role[e] \in Roles /\ e \in Nat
BY PoolIsFinite, RouterAssumption DEF RouteType, Logistic

LEMMA BestOfRole ==
    ASSUME RouteType, NEW f \in [Roles -> Nat], NEW d \in Pool
    PROVE  RoleBest(f, role[d]) \in Pool /\ role[RoleBest(f, role[d])] = role[d]
<1> DEFINE S == OfRole(role[d])
           R == {p \in Pool \X Pool :
                     \/ Logistic(f, p[1]) > Logistic(f, p[2])
                     \/ Logistic(f, p[1]) = Logistic(f, p[2]) /\ p[1] < p[2]}
           Beats(e, c) == \/ Logistic(f, e) > Logistic(f, c)
                          \/ Logistic(f, e) = Logistic(f, c) /\ e <= c
           Best(e) == \A c \in S : Beats(e, c)
<1>1. S \in SUBSET Pool /\ S # {} /\ \A e \in S : role[e] = role[d]
  BY DEF OfRole
<1>2. IsFiniteSet(S)
  BY <1>1, PoolIsFinite
<1>3. \A a, b \in Pool :
          <<a, b>> \in R <=>
              \/ Logistic(f, a) > Logistic(f, b)
              \/ (Logistic(f, a) = Logistic(f, b) /\ a < b)
  OBVIOUS
<1>4. \A e \in S : Logistic(f, e) \in Int /\ e \in Nat
  BY <1>1, Scores
<1>. HIDE DEF R, S
<1>5. IsOrder(R, S)
  BY <1>1, <1>3, <1>4 DEF IsOrder
<1>6. PICK e \in S : \A b \in S : e # b => <<e, b>> \in R
  BY <1>1, <1>2, <1>5, FirstExists
<1>7. Best(e)
  <2>1. SUFFICES ASSUME NEW c \in S PROVE Beats(e, c)
    OBVIOUS
  <2>2. e \in Pool /\ c \in Pool
    BY <1>1
  <2>3. CASE e = c
    BY <1>4, <2>3
  <2>4. CASE e # c
    <3>1. <<e, c>> \in R
      BY <1>6, <2>4
    <3>2. \/ Logistic(f, e) > Logistic(f, c)
          \/ (Logistic(f, e) = Logistic(f, c) /\ e < c)
      BY <1>3, <2>2, <3>1
    <3>. QED
      BY <1>4, <3>2
  <2>. QED
    BY <2>3, <2>4
<1>8. RoleBest(f, role[d]) = CHOOSE x \in S : Best(x)
  BY DEF RoleBest, S
<1>. HIDE DEF Best
<1>9. RoleBest(f, role[d]) \in S
  BY <1>7, <1>8
<1>. QED
  BY <1>1, <1>9

LEMMA MinOfPool ==
    ASSUME NEW S \in SUBSET Pool, S # {}
    PROVE  Min(S) \in S
<1>1. S \in SUBSET Nat
  BY PoolIsFinite
<1>2. PICK x \in S : \A y \in S : x <= y
  BY <1>1, LeastIn
<1>. QED
  BY <1>2 DEF Min

LEMMA RankedIsList ==
    ASSUME RouteType, NEW f \in [Roles -> Nat]
    PROVE  IsList(Ranked(f))
<1> DEFINE best == {RoleBest(f, r) : r \in {role[e] : e \in Pool}}
           S == {e \in best : Logistic(f, e) >= threshold}
           before(a, b) == \/ Logistic(f, a) > Logistic(f, b)
                           \/ /\ Logistic(f, a) = Logistic(f, b)
                              /\ Min(OfRole(role[a])) < Min(OfRole(role[b]))
           R == {p \in Pool \X Pool : before(p[1], p[2])}
           Fits(s) == \A i, j \in DOMAIN s : i < j => before(s[i], s[j])
<1>1. S \in SUBSET Pool
  BY BestOfRole
<1>2. \A a, b \in S : role[a] = role[b] => a = b
  BY BestOfRole
<1>3. \A a, b \in Pool : <<a, b>> \in R <=> before(a, b)
  OBVIOUS
<1>4. ASSUME NEW a \in Pool
      PROVE  /\ Logistic(f, a) \in Int
             /\ Min(OfRole(role[a])) \in Nat /\ role[Min(OfRole(role[a]))] = role[a]
  <2>1. OfRole(role[a]) \in SUBSET Pool /\ OfRole(role[a]) # {}
    BY DEF OfRole
  <2>2. Min(OfRole(role[a])) \in OfRole(role[a])
    BY <2>1, MinOfPool
  <2>. QED
    BY <2>2, Scores, PoolIsFinite DEF OfRole
<1>. HIDE DEF R, S
<1>5. IsOrder(R, S)
  <2>1. \A a \in S : <<a, a>> \notin R
    BY <1>1, <1>3, <1>4
  <2>2. \A a, b \in S : a # b => <<a, b>> \in R \/ <<b, a>> \in R
    <3>1. SUFFICES ASSUME NEW a \in S, NEW b \in S, a # b
                   PROVE  before(a, b) \/ before(b, a)
      BY <1>1, <1>3
    <3>2. Min(OfRole(role[a])) # Min(OfRole(role[b]))
      BY <1>1, <1>2, <1>4, <3>1
    <3>. QED
      BY <1>1, <1>4, <3>2
  <2>3. \A a, b, c \in S : <<a, b>> \in R /\ <<b, c>> \in R => <<a, c>> \in R
    BY <1>1, <1>3, <1>4
  <2>. QED
    BY <2>1, <2>2, <2>3 DEF IsOrder
<1>6. PICK s \in SetToSeqs(S) : InOrderOf(s, R)
  BY <1>1, <1>5, PoolIsFinite, Sortable
<1>7. \A i \in DOMAIN s : s[i] \in Pool
  BY <1>1, <1>6 DEF SetToSeqs
<1>. HIDE DEF before
<1>8. Fits(s)
  BY <1>3, <1>6, <1>7 DEF InOrderOf
<1>9. Ranked(f) = CHOOSE t \in SetToSeqs(S) : Fits(t)
  BY DEF Ranked, Sorted, S, before
<1>. HIDE DEF Fits
<1>10. Ranked(f) \in SetToSeqs(S)
  BY <1>8, <1>9
<1>. QED
  BY <1>1, <1>10, SeqsAreLists

-----------------------------------------------------------------------------
(* From a ranking to an answer. *)

LEMMA Taken ==
    ASSUME NEW s, IsList(s), NEW max \in Nat
    PROVE  /\ IsList(Take(s, max)) /\ Len(Take(s, max)) <= max
           /\ Range(Take(s, max)) \subseteq Range(s)
           /\ Len(s) <= max => Take(s, max) = s
           /\ Len(s) > max => Len(Take(s, max)) = max
           /\ \A i \in 1..Len(Take(s, max)) : Take(s, max)[i] = s[i]
<1>1. s \in Seq(Pool) /\ Len(s) \in Nat
  BY DEF IsList
<1> DEFINE m == IF max < Len(s) THEN max ELSE Len(s)
<1>2. m \in 0..Len(s) /\ m <= max /\ m \in Nat
  BY <1>1
<1>3. Take(s, max) = SubSeq(s, 1, m)
  BY DEF Take
<1>4. Len(s) <= max => m = Len(s)
  BY <1>1
<1>5. Len(s) > max => m = max
  BY <1>1
<1>. HIDE DEF m
<1>6. /\ SubSeq(s, 1, m) \in Seq(Pool) /\ Len(SubSeq(s, 1, m)) = m
      /\ \A i \in 1..m : SubSeq(s, 1, m)[i] = s[i]
  BY <1>1, <1>2
<1>7. m = Len(s) => SubSeq(s, 1, m) = s
  BY <1>1
<1>8. IsList(SubSeq(s, 1, m))
  BY <1>1, <1>2, <1>6 DEF IsList
<1>9. Range(SubSeq(s, 1, m)) \subseteq Range(s)
  <2>1. ASSUME NEW e \in Range(SubSeq(s, 1, m)) PROVE e \in Range(s)
    <3>1. PICK i \in 1..m : SubSeq(s, 1, m)[i] = e
      BY <1>6, RangeOf
    <3>2. i \in 1..Len(s) /\ s[i] = e
      BY <1>1, <1>2, <1>6, <3>1
    <3>. QED
      BY <1>1, <3>2, RangeOf
  <2>. QED
    BY <2>1
<1>. QED
  BY <1>2, <1>3, <1>4, <1>5, <1>6, <1>7, <1>8, <1>9

LEMMA OneIsList ==
    ASSUME NEW e \in Pool
    PROVE  IsList(<<e>>) /\ Len(<<e>>) = 1 /\ <<e>>[1] = e
BY DEF IsList

LEMMA FinalsInPool == Finals \in SUBSET Pool
BY DEF Finals, OfRole

(* A selection before the last role is enforced. *)
Fits(sel, max) == IsList(sel) /\ (max > 0 => Len(sel) <= max)

LEMMA MinEnforced ==
    ASSUME NEW sel, NEW max \in Nat, Fits(sel, max), NEW ranking, IsList(ranking),
           NEW min \in Nat \ {0}
    PROVE  Fits(EnforceMin(sel, min, ranking), max)
<1>1. CASE Len(sel) < min /\ ranking # <<>>
  <2>1. ranking[1] \in Pool
    BY <1>1 DEF IsList
  <2>. QED
    BY <1>1, <2>1, OneIsList DEF EnforceMin, Fits
<1>2. CASE ~(Len(sel) < min /\ ranking # <<>>)
  BY <1>2 DEF EnforceMin
<1>. QED
  BY <1>1, <1>2

LEMMA FellBack ==
    ASSUME NEW sel, NEW max \in Nat, Fits(sel, max)
    PROVE  /\ Fits(OrFallback(sel), max) /\ OrFallback(sel) # <<>>
           /\ sel # <<>> => OrFallback(sel) = sel
<1> DEFINE e == IF Finals # {} THEN Min(Finals) ELSE 1
<1>1. e \in Pool
  <2>1. 1 \in Pool
    BY RouterAssumption DEF Pool
  <2>2. Finals # {} => Min(Finals) \in Pool
    BY FinalsInPool, MinOfPool
  <2>. QED
    BY <2>1, <2>2
<1>. HIDE DEF e
<1>2. IsList(<<e>>) /\ Len(<<e>>) = 1 /\ <<e>> # <<>>
  BY <1>1, OneIsList
<1>3. OrFallback(sel) = IF sel # <<>> THEN sel ELSE <<e>>
  BY DEF OrFallback, e
<1>. QED
  BY <1>2, <1>3 DEF Fits

LEMMA Appended ==
    ASSUME NEW s, IsList(s), NEW e \in Pool \ Range(s)
    PROVE  /\ IsList(Append(s, e)) /\ Len(Append(s, e)) = Len(s) + 1
           /\ Append(s, e)[Len(s) + 1] = e
           /\ \A i \in 1..Len(s) : Append(s, e)[i] = s[i]
           /\ Range(Append(s, e)) = Range(s) \cup {e}
           /\ Append(s, e) # <<>>
<1>1. s \in Seq(Pool) /\ Len(s) \in Nat
  BY DEF IsList
<1>2. \A i \in 1..Len(s) : s[i] # e
  BY <1>1, RangeOf
<1> DEFINE t == Append(s, e)
<1>3. /\ t \in Seq(Pool) /\ Len(t) = Len(s) + 1 /\ t[Len(s) + 1] = e
      /\ \A i \in 1..Len(s) : t[i] = s[i]
      /\ t # <<>>
  BY <1>1
<1>. HIDE DEF t
<1>4. IsList(t)
  BY <1>1, <1>2, <1>3 DEF IsList
<1>5. \A i \in 1..Len(t) : i \in 1..Len(s) \/ i = Len(s) + 1
  BY <1>1, <1>3
<1>6. \A i \in 1..Len(s) : i \in 1..Len(t)
  BY <1>1, <1>3
<1>7. Len(s) + 1 \in 1..Len(t)
  BY <1>1, <1>3
<1>8. ASSUME NEW x PROVE x \in Range(t) <=> x \in Range(s) \cup {e}
  <2>1. x \in Range(t) <=> \E i \in 1..Len(t) : t[i] = x
    BY <1>3, RangeOf
  <2>2. x \in Range(s) <=> \E i \in 1..Len(s) : s[i] = x
    BY <1>1, RangeOf
  <2>. QED
    BY <1>3, <1>5, <1>6, <1>7, <2>1, <2>2
<1>9. Range(t) = Range(s) \cup {e}
  BY <1>8
<1>. QED
  BY <1>3, <1>4, <1>9 DEF t

(* MoveLast: the same experts; one of the last role, if there is any, at the *)
(* end, and the first one still first, if it is another.                    *)
LEMMA Moved ==
    ASSUME NEW s, IsList(s), s # <<>>
    PROVE  /\ IsList(MoveLast(s)) /\ Range(MoveLast(s)) = Range(s)
           /\ Len(MoveLast(s)) = Len(s)
           /\ Range(s) \cap Finals # {} =>
                  /\ MoveLast(s)[Len(s)] \in Finals
                  /\ s[1] # MoveLast(s)[Len(s)] => MoveLast(s)[1] = s[1]
<1> DEFINE in_list == Among(s, Finals)
           last == in_list[Len(in_list)]
           others == Among(s, Pool \ {last})
<1>1. IsList(in_list) /\ Range(in_list) = Range(s) \cap Finals
  BY AmongIs
<1>2. in_list \in Seq(Pool) /\ Len(in_list) \in Nat /\ s \in Seq(Pool) /\ Len(s) \in Nat
  BY <1>1 DEF IsList
<1>. HIDE DEF in_list
<1>3. CASE in_list = <<>>
  <2>1. Range(s) \cap Finals = {}
    BY <1>1, <1>3 DEF Range
  <2>2. MoveLast(s) = s
    BY <1>3 DEF MoveLast, in_list
  <2>. QED
    BY <2>1, <2>2
<1>4. CASE in_list # <<>>
  <2>1. last \in Range(s) \cap Finals
    BY <1>1, <1>2, <1>4, RangeOf
  <2>2. last \in Pool
    BY <2>1, FinalsInPool
  <2>3. MoveLast(s) = Append(others, last)
    BY <1>4 DEF MoveLast, in_list
  <2>. HIDE DEF last
  <2>4. /\ IsList(others) /\ Range(others) = Range(s) \cap (Pool \ {last})
        /\ s[1] \in Pool \ {last} => others # <<>> /\ others[1] = s[1]
    BY AmongIs
  <2>5. last \in Pool \ Range(others)
    BY <2>2, <2>4
  <2>. HIDE DEF others
  <2>6. Range(s) \subseteq Pool
    BY <1>2, RangeOf
  <2>7. /\ IsList(MoveLast(s)) /\ Len(MoveLast(s)) = Len(others) + 1
        /\ MoveLast(s)[Len(others) + 1] = last
        /\ \A i \in 1..Len(others) : MoveLast(s)[i] = others[i]
        /\ Range(MoveLast(s)) = Range(others) \cup {last}
    BY <2>3, <2>4, <2>5, Appended
  <2>8. Range(MoveLast(s)) = Range(s)
    BY <2>1, <2>4, <2>6, <2>7
  <2>9. Len(MoveLast(s)) = Len(s)
    BY <2>7, <2>8, ListSize
  <2>10. s[1] # last => MoveLast(s)[1] = s[1]
    <3>1. s[1] \in Pool
      BY <1>2
    <3>2. others # <<>> => 1 \in 1..Len(others)
      BY <2>4 DEF IsList
    <3>. QED
      BY <2>4, <2>7, <3>1, <3>2
  <2>. QED
    BY <2>1, <2>7, <2>8, <2>9, <2>10
<1>. QED
  BY <1>3, <1>4

(* What a router owes, of a selection that respects the cap. *)
GoodAnswer(a, max) ==
    /\ IsList(a) /\ a # <<>>
    /\ max > 0 => Len(a) <= max
    /\ Range(a) \cap Finals # {} => a[Len(a)] \in Finals

LEMMA FinishIsGood ==
    ASSUME NEW sel, NEW max \in Nat, Fits(sel, max)
    PROVE  /\ GoodAnswer(Finish(sel, max), max)
           /\ sel # <<>> => sel[1] \in Range(Finish(sel, max))
<1> DEFINE s == OrFallback(sel)
           t == AppendLast(s)
           u == MoveLast(t)
<1>1. /\ IsList(s) /\ s # <<>> /\ (max > 0 => Len(s) <= max)
      /\ sel # <<>> => s = sel
  BY FellBack DEF Fits
<1>2. Finish(sel, max) = Cap(u, max)
  BY DEF Finish
<1>. HIDE DEF s
<1>3. /\ s \in Seq(Pool) /\ Len(s) \in Nat /\ 1 \in 1..Len(s)
      /\ s[1] \in Range(s) /\ s[1] \in Pool
  <2>1. s \in Seq(Pool) /\ Len(s) \in Nat /\ Len(s) # 0
    BY <1>1 DEF IsList
  <2>2. 1 \in 1..Len(s)
    BY <2>1
  <2>. QED
    BY <2>1, <2>2, RangeOf
<1>4. CASE ~(Finals # {} /\ Range(s) \cap Finals = {})
  (* Nothing is appended, and nothing is cut off. *)
  <2>1. t = s
    BY <1>4 DEF AppendLast
  <2>2. /\ IsList(u) /\ Range(u) = Range(s) /\ Len(u) = Len(s)
        /\ Range(s) \cap Finals # {} => u[Len(s)] \in Finals
    BY <1>1, <2>1, Moved
  <2>. HIDE DEF u
  <2>3. max > 0 => Take(u, max) = u
    BY <1>1, <2>2, Taken
  <2>4. Cap(u, max) = u
    BY <2>3 DEF Cap
  <2>5. u # <<>>
    BY <1>3, <2>2
  <2>. QED
    BY <1>1, <1>2, <1>3, <2>2, <2>4, <2>5 DEF GoodAnswer
<1>5. CASE Finals # {} /\ Range(s) \cap Finals = {}
  (* The one of the last role that is appended ends the list, or is cut off. *)
  <2> DEFINE e == Min(Finals)
  <2>1. e \in Finals /\ e \in Pool \ Range(s)
    BY <1>5, FinalsInPool, MinOfPool
  <2>2. t = Append(s, e)
    BY <1>5 DEF AppendLast
  <2>. HIDE DEF e
  <2>3. /\ IsList(t) /\ t # <<>> /\ Len(t) = Len(s) + 1 /\ t[1] = s[1]
        /\ Range(t) = Range(s) \cup {e}
    BY <1>1, <1>3, <2>1, <2>2, Appended
  <2>. HIDE DEF t
  <2>4. /\ IsList(u) /\ Range(u) = Range(t) /\ Len(u) = Len(t)
        /\ u[Len(t)] \in Finals
        /\ t[1] # u[Len(t)] => u[1] = t[1]
    BY <2>1, <2>3, Moved
  <2>. HIDE DEF u
  <2>5. u \in Seq(Pool) /\ Len(u) \in Nat /\ Len(u) = Len(s) + 1 /\ u # <<>>
    BY <1>3, <2>3, <2>4 DEF IsList
  <2>6. u[Len(u)] = e
    <3>1. u[Len(u)] \in Range(u)
      BY <1>3, <2>5, RangeOf
    <3>. QED
      BY <1>5, <2>1, <2>3, <2>4, <3>1
  <2>7. u[1] = s[1]
    BY <1>3, <2>1, <2>3, <2>4, <2>6
  <2>8. CASE max = 0 \/ Len(u) <= max
    <3>1. max > 0 => Take(u, max) = u
      BY <2>4, <2>8, Taken
    <3>2. Cap(u, max) = u
      BY <3>1 DEF Cap
    <3>3. s[1] \in Range(u)
      BY <1>3, <2>3, <2>4
    <3>. QED
      BY <1>1, <1>2, <2>4, <2>5, <2>8, <3>2, <3>3 DEF GoodAnswer
  <2>9. CASE max > 0 /\ Len(u) > max
    <3> DEFINE a == Take(u, max)
    <3>1. Cap(u, max) = a
      BY <2>9 DEF Cap
    <3>2. /\ IsList(a) /\ Len(a) = max
          /\ \A i \in 1..max : a[i] = u[i]
      BY <2>4, <2>9, Taken
    <3>. HIDE DEF a
    <3>3. a # <<>> /\ a \in Seq(Pool) /\ 1 \in 1..max
      BY <2>9, <3>2 DEF IsList
    <3>4. ASSUME NEW x \in Range(a) PROVE x \notin Finals
      <4>1. PICK i \in 1..max : a[i] = x
        BY <3>2, <3>3, RangeOf
      <4>2. i \in 1..Len(u) /\ i # Len(u) /\ Len(u) \in 1..Len(u) /\ u[i] = x
        BY <2>5, <2>9, <3>2, <4>1
      <4>3. x # e
        BY <2>4, <2>6, <4>2 DEF IsList
      <4>4. x \in Range(u)
        BY <2>5, <4>2, RangeOf
      <4>. QED
        BY <1>5, <2>3, <2>4, <4>3, <4>4
    <3>5. s[1] \in Range(a)
      <4>1. a[1] = s[1]
        BY <2>7, <3>2, <3>3
      <4>. QED
        BY <3>2, <3>3, <4>1, RangeOf
    <3>. QED
      BY <1>1, <1>2, <3>1, <3>2, <3>3, <3>4, <3>5 DEF GoodAnswer
  <2>. QED
    BY <2>5, <2>8, <2>9
<1>. QED
  BY <1>4, <1>5

LEMMA LogisticGood ==
    ASSUME RouteType, NEW f \in [Roles -> Nat], NEW max \in Nat, NEW min \in Nat \ {0}
    PROVE  /\ GoodAnswer(LogisticSelection(f, min, max), max)
           /\ Ranked(f) # <<>> => Ranked(f)[1] \in Range(LogisticSelection(f, min, max))
<1> DEFINE r == Ranked(f)
           s == Take(r, max)
           sel == EnforceMin(s, min, r)
<1>1. IsList(r)
  BY RankedIsList
<1>. HIDE DEF r
<1>2. Fits(s, max) /\ IsList(s)
  BY <1>1, Taken DEF Fits
<1>3. r # <<>> => s = <<>> \/ s[1] = r[1]
  <2>1. s \in Seq(Pool)
    BY <1>2 DEF IsList
  <2>2. s # <<>> => 1 \in 1..Len(s)
    BY <2>1
  <2>. QED
    BY <1>1, <2>2, Taken
<1>. HIDE DEF s
<1>4. Fits(sel, max)
  BY <1>1, <1>2, MinEnforced
<1>5. r # <<>> => sel # <<>> /\ sel[1] = r[1]
  <2>1. s = <<>> => Len(s) < min
    OBVIOUS
  <2>. QED
    BY <1>3, <2>1 DEF EnforceMin
<1>6. LogisticSelection(f, min, max) = Finish(sel, max)
  BY DEF LogisticSelection, s, r
<1>. HIDE DEF sel
<1>. QED
  BY <1>4, <1>5, <1>6, FinishIsGood DEF r

LEMMA CosineGood ==
    ASSUME NEW g \in [Pool -> Nat], NEW max \in Nat, NEW min \in Nat \ {0}
    PROVE  GoodAnswer(CosineSelection(g, min, max), max)
<1> DEFINE r == Scored(g)
           s == Take(r, max)
           top == Among(s, {e \in Pool : g[e] >= threshold})
<1>1. IsList(r)
  BY ScoredIsList
<1>. HIDE DEF r
<1>2. IsList(s) /\ Len(s) <= max
  BY <1>1, Taken
<1>. HIDE DEF s
<1>3. IsList(top) /\ Range(top) \subseteq Range(s)
  BY <1>2, AmongIs
<1>4. Len(top) <= Len(s)
  BY <1>2, <1>3, ListSize, FS_Subset
<1>5. Fits(top, max)
  BY <1>2, <1>3, <1>4 DEF Fits, IsList
<1>6. CosineSelection(g, min, max) = Finish(EnforceMin(top, min, r), max)
  BY DEF CosineSelection, s, r
<1>. HIDE DEF top
<1>. QED
  BY <1>1, <1>5, <1>6, MinEnforced, FinishIsGood

-----------------------------------------------------------------------------
(* The hybrid router. *)

LEMMA Joined ==
    ASSUME NEW s, IsList(s), NEW t, IsList(t), Range(s) \cap Range(t) = {}
    PROVE  IsList(s \o t) /\ (s # <<>> => s \o t # <<>>)
<1>1. /\ s \in Seq(Pool) /\ Len(s) \in Nat /\ t \in Seq(Pool) /\ Len(t) \in Nat
  BY DEF IsList
<1> DEFINE u == s \o t
<1>2. /\ u \in Seq(Pool) /\ Len(u) = Len(s) + Len(t)
      /\ \A i \in 1..Len(u) :
             u[i] = IF i <= Len(s) THEN s[i] ELSE t[i - Len(s)]
      /\ s # <<>> => u # <<>>
  BY <1>1
<1>. HIDE DEF u
<1>3. ASSUME NEW i \in 1..Len(u), NEW j \in 1..Len(u), u[i] = u[j]
      PROVE  i = j
  <2>1. CASE i <= Len(s) /\ j <= Len(s)
    BY <1>1, <1>2, <1>3, <2>1 DEF IsList
  <2>2. CASE i > Len(s) /\ j > Len(s)
    <3>1. i - Len(s) \in 1..Len(t) /\ j - Len(s) \in 1..Len(t)
      BY <1>1, <1>2, <2>2
    <3>2. t[i - Len(s)] = t[j - Len(s)]
      BY <1>1, <1>2, <1>3, <2>2
    <3>3. i - Len(s) = j - Len(s)
      BY <3>1, <3>2 DEF IsList
    <3>. QED
      BY <1>1, <3>3
  <2>3. ASSUME NEW k \in 1..Len(u), NEW l \in 1..Len(u), k <= Len(s), l > Len(s),
               u[k] = u[l]
        PROVE  FALSE
    <3>1. k \in 1..Len(s) /\ l - Len(s) \in 1..Len(t)
      BY <1>1, <1>2, <2>3
    <3>2. s[k] \in Range(s) /\ t[l - Len(s)] \in Range(t)
      BY <1>1, <3>1, RangeOf
    <3>3. u[k] = s[k] /\ u[l] = t[l - Len(s)]
      BY <1>1, <1>2, <2>3
    <3>. QED
      BY <2>3, <3>2, <3>3
  <2>. QED
    BY <1>1, <1>3, <2>1, <2>2, <2>3
<1>4. IsList(u)
  BY <1>2, <1>3 DEF IsList
<1>. QED
  BY <1>2, <1>4 DEF u

LEMMA OrdersAreLists ==
    ASSUME RouteType, NEW f \in [Roles -> Nat], NEW g \in [Pool -> Nat],
           NEW ordered \in HybridOrders(f, g)
    PROVE  IsList(ordered) /\ ordered # <<>>
<1> DEFINE l == LogisticSelection(f, 1, default_max)
           c == Range(CosineSelection(g, 1, default_max))
<1>1. PICK rest \in SetToSeqs(c \ Range(l)) : ordered = l \o rest
  BY DEF HybridOrders
<1>2. default_max \in Nat
  BY RouterAssumption
<1>3. IsList(l) /\ l # <<>>
  BY <1>2, LogisticGood DEF GoodAnswer
<1>4. c \in SUBSET Pool
  <2>1. IsList(CosineSelection(g, 1, default_max))
    BY <1>2, CosineGood DEF GoodAnswer
  <2>2. CosineSelection(g, 1, default_max) \in Seq(Pool)
    BY <2>1 DEF IsList
  <2>. QED
    BY <2>2, RangeOf
<1>. HIDE DEF l, c
<1>5. IsList(rest) /\ Range(rest) \subseteq c \ Range(l)
  BY <1>1, <1>4, SeqsAreLists
<1>. QED
  BY <1>1, <1>3, <1>5, Joined

LEMMA HybridGood ==
    ASSUME NEW ordered, IsList(ordered), ordered # <<>>, NEW max \in Nat
    PROVE  /\ GoodAnswer(HybridAnswer(ordered, max), max)
           /\ Finals # {} => LET a == HybridAnswer(ordered, max)
                             IN  a[Len(a)] \in Finals
<1>1. CASE Finals = {}
  <2>1. HybridAnswer(ordered, max) = Cap(ordered, max)
    BY <1>1 DEF HybridAnswer
  <2>2. /\ IsList(Take(ordered, max)) /\ Len(Take(ordered, max)) <= max
        /\ Len(ordered) <= max => Take(ordered, max) = ordered
        /\ Len(ordered) > max => Len(Take(ordered, max)) = max
    BY Taken
  <2>3. Len(ordered) \in Nat
    BY DEF IsList
  <2>4. max > 0 => Take(ordered, max) # <<>>
    BY <2>2, <2>3
  <2>. QED
    BY <1>1, <2>1, <2>2, <2>4 DEF Cap, GoodAnswer
<1>2. CASE Finals # {}
  <2> DEFINE in_list == Among(ordered, Finals)
             last == IF in_list # <<>> THEN in_list[1] ELSE Min(Finals)
             others == Among(ordered, Pool \ {last})
             kept == IF max > 0 THEN Take(others, max - 1) ELSE others
  <2>1. HybridAnswer(ordered, max) = Append(kept, last)
    BY <1>2 DEF HybridAnswer
  <2>2. last \in Finals /\ last \in Pool
    <3>1. IsList(in_list) /\ Range(in_list) = Range(ordered) \cap Finals
      BY AmongIs
    <3>. HIDE DEF in_list
    <3>2. in_list \in Seq(Pool)
      BY <3>1 DEF IsList
    <3>3. in_list # <<>> => 1 \in 1..Len(in_list)
      BY <3>2
    <3>4. in_list # <<>> => in_list[1] \in Finals
      BY <3>1, <3>2, <3>3, RangeOf
    <3>5. Min(Finals) \in Finals
      BY <1>2, FinalsInPool, MinOfPool
    <3>. QED
      BY <3>4, <3>5, FinalsInPool
  <2>. HIDE DEF last
  <2>3. IsList(others) /\ last \notin Range(others)
    BY AmongIs
  <2>. HIDE DEF others
  <2>4. /\ IsList(kept) /\ last \notin Range(kept)
        /\ max > 0 => Len(kept) <= max - 1
    <3>1. CASE max > 0
      <4>1. max - 1 \in Nat
        BY <3>1
      <4>2. /\ IsList(Take(others, max - 1)) /\ Len(Take(others, max - 1)) <= max - 1
            /\ Range(Take(others, max - 1)) \subseteq Range(others)
        BY <2>3, <4>1, Taken
      <4>. QED
        BY <2>3, <3>1, <4>2
    <3>2. CASE ~(max > 0)
      BY <2>3, <3>2
    <3>. QED
      BY <3>1, <3>2
  <2>. HIDE DEF kept
  <2> DEFINE a == Append(kept, last)
  <2>5. /\ IsList(a) /\ Len(a) = Len(kept) + 1 /\ a[Len(kept) + 1] = last /\ a # <<>>
    BY <2>2, <2>4, Appended
  <2>6. Len(kept) \in Nat
    BY <2>4 DEF IsList
  <2>. HIDE DEF a
  <2>7. GoodAnswer(a, max) /\ a[Len(a)] \in Finals
    BY <2>2, <2>4, <2>5, <2>6 DEF GoodAnswer
  <2>. QED
    BY <2>1, <2>7 DEF a
<1>. QED
  BY <1>1, <1>2

-----------------------------------------------------------------------------
(* The invariant: nothing was asked, or the answer is good. *)

RouteInv ==
    /\ RouteType
    /\ Answered => GoodAnswer(selected, max_activation)
    /\ BestExpertIsSelected
    /\ HybridEndsWithSynthesizer

LEMMA RouteInitHolds == RouteInit => RouteInv
BY RouterAssumption DEF RouteInit, RouteInv, RouteType, Answered,
   BestExpertIsSelected, HybridEndsWithSynthesizer

(* Ranked with what it depends on: it stays the same while the pool does. *)
RankedOf(ro, si, f) ==
    LET of(r) == {e \in Pool : ro[e] = r}
        value(e) == f[ro[e]] - si[e]
        best(r) == CHOOSE e \in of(r) :
                       \A d \in of(r) : \/ value(e) > value(d)
                                        \/ value(e) = value(d) /\ e <= d
        before(a, b) == \/ value(a) > value(b)
                        \/ /\ value(a) = value(b)
                           /\ Min(of(ro[a])) < Min(of(ro[b]))
    IN  Sorted({e \in {best(r) : r \in {ro[e] : e \in Pool}} : value(e) >= threshold},
               before)

LEMMA PoolStays ==
    ASSUME UNCHANGED <<pool, max_activation>>
    PROVE  /\ Finals' = Finals
           /\ Ranked(score)' = Ranked(score')
           /\ GoodAnswer(selected', max_activation)
              => GoodAnswer(selected, max_activation)'
<1>1. role' = role /\ size' = size
  BY DEF pool
<1>2. Finals' = Finals
  BY <1>1 DEF Finals, OfRole
<1>3. Ranked(score)' = Ranked(score')
  <2>1. Ranked(score)' = RankedOf(role', size', score')
    BY DEF Ranked, RankedOf, RoleBest, Logistic, OfRole, Sorted
  <2>2. Ranked(score') = RankedOf(role, size, score')
    BY DEF Ranked, RankedOf, RoleBest, Logistic, OfRole, Sorted
  <2>. QED
    BY <1>1, <2>1, <2>2
<1>4. GoodAnswer(selected', max_activation) => GoodAnswer(selected, max_activation)'
  BY <1>2 DEF GoodAnswer
<1>. QED
  BY <1>2, <1>3, <1>4

LEMMA RouteStep == RouteInv /\ [RouteNext]_routeVars => RouteInv'
<1>. SUFFICES ASSUME RouteInv, [RouteNext]_routeVars PROVE RouteInv'
  OBVIOUS
<1>1. UNCHANGED <<pool, min_activation, max_activation>>
  BY DEF RouteNext, LogisticRoute, CosineRoute, HybridRoute, Asked, routeVars
<1>2. /\ Finals' = Finals /\ Ranked(score)' = Ranked(score')
      /\ GoodAnswer(selected', max_activation) => GoodAnswer(selected, max_activation)'
  BY <1>1, PoolStays
<1>3. /\ RouteType /\ RouteType'
      /\ max_activation \in Nat /\ min_activation \in Nat \ {0}
  BY <1>1 DEF RouteInv, RouteType, pool
<1>4. RoleScores \subseteq [Roles -> Nat] /\ Similarities \subseteq [Pool -> Nat]
  BY RouterAssumption DEF RoleScores, Similarities
<1>5. CASE LogisticRoute
  <2>1. /\ score' \in [Roles -> Nat] /\ router' = "logistic"
        /\ selected' = LogisticSelection(score', min_activation, max_activation)
    BY <1>4, <1>5 DEF LogisticRoute, Asked
  <2>2. /\ GoodAnswer(selected', max_activation)
        /\ Ranked(score') # <<>> => Ranked(score')[1] \in Range(selected')
    BY <1>3, <2>1, LogisticGood
  <2>. QED
    BY <1>1, <1>2, <1>3, <2>1, <2>2
       DEF RouteInv, BestExpertIsSelected, HybridEndsWithSynthesizer
<1>6. CASE CosineRoute
  <2>1. /\ similarity' \in [Pool -> Nat] /\ router' = "cosine"
        /\ selected' = CosineSelection(similarity', min_activation, max_activation)
    BY <1>4, <1>6 DEF CosineRoute, Asked
  <2>2. GoodAnswer(selected', max_activation)
    BY <1>3, <2>1, CosineGood
  <2>. QED
    BY <1>1, <1>2, <1>3, <2>1, <2>2
       DEF RouteInv, BestExpertIsSelected, HybridEndsWithSynthesizer
<1>7. CASE HybridRoute
  <2>1. /\ score' \in [Roles -> Nat] /\ similarity' \in [Pool -> Nat]
        /\ router' = "hybrid"
    BY <1>4, <1>7 DEF HybridRoute, Asked
  <2>2. PICK ordered \in HybridOrders(score', similarity') :
            selected' = HybridAnswer(ordered, max_activation)
    BY <1>7 DEF HybridRoute
  <2>3. IsList(ordered) /\ ordered # <<>>
    BY <1>3, <2>1, <2>2, OrdersAreLists
  <2>4. /\ GoodAnswer(selected', max_activation)
        /\ Finals # {} => selected'[Len(selected')] \in Finals
    BY <1>3, <2>2, <2>3, HybridGood
  <2>. QED
    BY <1>1, <1>2, <1>3, <2>1, <2>4
       DEF RouteInv, BestExpertIsSelected, HybridEndsWithSynthesizer
<1>8. CASE UNCHANGED routeVars
  <2>1. UNCHANGED <<score, router, selected>>
    BY <1>8 DEF routeVars
  <2>. QED
    BY <1>1, <1>2, <1>3, <2>1
       DEF RouteInv, Answered, BestExpertIsSelected, HybridEndsWithSynthesizer
<1>. QED
  BY <1>5, <1>6, <1>7, <1>8 DEF RouteNext

LEMMA RouteAlways == RouteSpec => []RouteInv
BY RouteInitHolds, RouteStep, PTL DEF RouteSpec

(***************************************************************************)
(* For a pool of any size with any roles and scores, and any cap: every    *)
(* router answers with a non-empty list of different experts within the    *)
(* cap (route of the three routers).                                       *)
(***************************************************************************)
THEOREM AnswerCorrect == RouteSpec => []AnswerIsAChain
<1>1. ASSUME RouteInv PROVE AnswerIsAChain
  BY <1>1, ListSize DEF RouteInv, GoodAnswer, AnswerIsAChain
<1>. QED
  BY <1>1, RouteAlways, PTL

(***************************************************************************)
(* A selected synthesizer speaks last, however the first cap, the          *)
(* appended synthesizer, the move and the second cap fall together.        *)
(***************************************************************************)
THEOREM SynthesizerCorrect == RouteSpec => []SelectedSynthesizerIsLast
<1>1. RouteInv => SelectedSynthesizerIsLast
  BY DEF RouteInv, GoodAnswer, SelectedSynthesizerIsLast
<1>. QED
  BY <1>1, RouteAlways, PTL

(***************************************************************************)
(* The best-scoring expert survives both caps and the enforced last role   *)
(* of the logistic router.                                                 *)
(***************************************************************************)
THEOREM BestCorrect == RouteSpec => []BestExpertIsSelected
<1>1. RouteInv => BestExpertIsSelected
  BY DEF RouteInv
<1>. QED
  BY <1>1, RouteAlways, PTL

(***************************************************************************)
(* The hybrid router's answer ends with a synthesizer if there is one,     *)
(* whatever the routers it asks have cut off.                              *)
(***************************************************************************)
THEOREM HybridCorrect == RouteSpec => []HybridEndsWithSynthesizer
<1>1. RouteInv => HybridEndsWithSynthesizer
  BY DEF RouteInv
<1>. QED
  BY <1>1, RouteAlways, PTL

(* Every answer is a route that phase 3 has to reckon with: the abstraction *)
(* of the routers in RoutingPipeline leaves none out, for the pool as the   *)
(* experts of the pipeline and chains that may be as long as the pool.      *)
THEOREM AnswersAreRoutes ==
    ASSUME Experts = Pool, MaxChain >= N
    PROVE  RouteSpec => [](Answered => selected \in Routing!Routes)
<1>1. ASSUME RouteInv, Answered PROVE selected \in Routing!Routes
  <2>1. IsList(selected) /\ selected # <<>>
    BY <1>1 DEF RouteInv, GoodAnswer
  <2>2. selected \in Seq(Pool) /\ Len(selected) \in Nat \ {0}
    BY <2>1 DEF IsList
  <2>3. Range(selected) \in SUBSET Pool
    BY <2>2, RangeOf
  <2>4. IsFiniteSet(Pool) /\ Cardinality(Pool) = N
    BY RouterAssumption, FS_Interval DEF Pool
  <2>5. Len(selected) <= N
    BY <2>1, <2>3, <2>4, ListSize, FS_Subset
  <2>6. Len(selected) \in 1..MaxChain
    BY <2>2, <2>5, RouterAssumption, PipelineAssumption
  <2>7. selected \in [1..Len(selected) -> Experts]
    BY <2>2
  <2>8. selected \in Routing!Chains
    BY <2>6, <2>7 DEF Routing!Chains
  <2>9. DOMAIN selected = 1..Len(selected)
    BY <2>2
  <2>. QED
    BY <2>1, <2>8, <2>9 DEF IsList, Routing!Routes
<1>2. RouteInv => (Answered => selected \in Routing!Routes)
  BY <1>1
<1>. QED
  BY <1>2, RouteAlways, PTL


-----------------------------------------------------------------------------
(***************************************************************************)
(*                              The pipelines                              *)
(***************************************************************************)

(* Texts are joined in any order. *)
LEMMA Associative ==
    \A t, u, v \in Seq(Int) : (t \o u) \o v = t \o (u \o v)
  OBVIOUS

USE PipelineAssumption

-----------------------------------------------------------------------------
(* What a call of invoke may return (Expert.invoke). *)
LEMMA InvokeResult ==
    ASSUME NEW s \in BOOLEAN, NEW e, NEW i, NEW p, NEW c, NEW t,
           NEW m \in Invoke(s, e, i, p, c, t)
    PROVE  /\ m = [expert |-> m.expert, input |-> m.input,
                   max_tokens |-> m.max_tokens, used_kv |-> m.used_kv,
                   transfer_ok |-> m.transfer_ok, out_cache |-> m.out_cache]
           /\ m.expert = e
           /\ m.input = IF c # NoCache THEN c ELSE p
           /\ m.max_tokens = t
           /\ m.used_kv \in BOOLEAN
           /\ m.transfer_ok \in BOOLEAN
           /\ m.used_kv => c # NoCache
           /\ m.out_cache \in {NoCache, Append(m.input, i)}
<1> DEFINE effective_prompt == IF c # NoCache THEN c ELSE p
           usable == c # NoCache /\ s
<1>1. PICK transferred \in BOOLEAN, encoded \in BOOLEAN :
          m = [expert |-> e, input |-> effective_prompt, max_tokens |-> t,
               used_kv |-> usable /\ transferred,
               transfer_ok |-> usable => transferred,
               out_cache |-> IF s /\ encoded THEN Append(effective_prompt, i)
                                             ELSE NoCache]
  BY SMT DEF Invoke, Returns, Continued
<1> QED
  BY <1>1

LEMMA InvokeTransfer ==
    ASSUME NEW s \in BOOLEAN, NEW e, NEW i, NEW p, NEW c, NEW t,
           NEW m \in Invoke(s, e, i, p, c, t), c # NoCache, s, m.transfer_ok
    PROVE  m.used_kv
<1> DEFINE effective_prompt == IF c # NoCache THEN c ELSE p
           usable == c # NoCache /\ s
<1>1. PICK transferred \in BOOLEAN, encoded \in BOOLEAN :
          m = [expert |-> e, input |-> effective_prompt, max_tokens |-> t,
               used_kv |-> usable /\ transferred,
               transfer_ok |-> usable => transferred,
               out_cache |-> IF s /\ encoded THEN Append(effective_prompt, i)
                                             ELSE NoCache]
  BY SMT DEF Invoke, Returns, Continued
<1> QED
  BY <1>1

(* A text that ends with an expert's output, and what a cache adds to it. *)
LEMMA RunOfOne ==
    ASSUME NEW n \in Nat
    PROVE  Run(n, n) = <<n>>
  BY DEF Run

LEMMA RunIsText ==
    ASSUME NEW from \in Nat, NEW to \in Nat, from <= to, NEW text,
           IsRun(text, from, to)
    PROVE  text \in Seq(Int) /\ text # <<>>
<1>1. Run(from, to) \in Seq(Int) /\ Len(Run(from, to)) = to - from + 1
  BY DEF Run
<1>2. <<Recalled>> \in Seq(Int) /\ Len(<<Recalled>>) = 1
  BY DEF Recalled
<1>3. <<Recalled>> \o Run(from, to) \in Seq(Int)
      /\ Len(<<Recalled>> \o Run(from, to)) = to - from + 2
  <2>1. \A s, t \in Seq(Int) : s \o t \in Seq(Int) /\ Len(s \o t) = Len(s) + Len(t)
    OBVIOUS
  <2>. QED
    BY <1>1, <1>2, <2>1
<1>4. ASSUME NEW t \in Seq(Int), Len(t) > 0
      PROVE  t # <<>>
  BY <1>4
<1>5. CASE text = Run(from, to)
  BY <1>1, <1>4, <1>5
<1>6. CASE text = <<Recalled>> \o Run(from, to)
  BY <1>3, <1>4, <1>6
<1> QED
  BY <1>5, <1>6 DEF IsRun

LEMMA RunGrows ==
    ASSUME NEW from \in Nat, NEW to \in Nat, from <= to, NEW text,
           IsRun(text, from, to)
    PROVE  IsRun(Append(text, to + 1), from, to + 1)
<1>1. Append(Run(from, to), to + 1) = Run(from, to + 1)
  BY DEF Run
<1>2. Append(<<Recalled>> \o Run(from, to), to + 1)
          = <<Recalled>> \o Run(from, to + 1)
  <2>1. Run(from, to) \in Seq(Int) /\ to + 1 \in Int
    BY DEF Run
  <2>2. <<Recalled>> \in Seq(Int) /\ <<to + 1>> \in Seq(Int)
    BY DEF Recalled
  <2>3. Append(<<Recalled>> \o Run(from, to), to + 1)
            = (<<Recalled>> \o Run(from, to)) \o <<to + 1>>
    BY <2>1, <2>2, AppendIsConcat, ConcatProperties
  <2>4. Append(Run(from, to), to + 1) = Run(from, to) \o <<to + 1>>
    BY <2>1, AppendIsConcat
  <2>5. (<<Recalled>> \o Run(from, to)) \o <<to + 1>>
            = <<Recalled>> \o (Run(from, to) \o <<to + 1>>)
    BY <2>1, <2>2, Associative, Zenon
  <2>6. Run(from, to) \o <<to + 1>> = Run(from, to + 1)
    BY <2>1 DEF Run
  <2>7. (<<Recalled>> \o Run(from, to)) \o <<to + 1>> = <<Recalled>> \o Run(from, to + 1)
    BY <2>5, <2>6, Zenon
  <2> QED
    BY <2>3, <2>7, Zenon
<1> QED
  BY <1>1, <1>2 DEF IsRun

-----------------------------------------------------------------------------
(* The steps of the three pipelines, by what is handed to the expert.  Took *)
(* is what they have in common: the expert at hand was invoked on p and c,  *)
(* its result is m, and run() goes on with what m says.                     *)
Took(m, p, c) ==
    /\ InLoop
    /\ m \in InvokeHere(p, c)
    /\ \E src \in Seq(Int) : Record(m, src)
    /\ reads' \in {reads, reads + 1}

ByPrompt(m) ==      \* Phase 1, every expert
    /\ config.phase = 1
    /\ Took(m, Augmented(current_text), NoCache)
    /\ text_mode' = text_mode /\ invocations' = invocations + 1

FirstByText(m) ==   \* Phases 2 and 3
    /\ config.phase > 1 /\ Here = 1
    /\ \/ config.phase = 2 /\ Took(m, Prompt, NoCache)
       \/ config.phase = 3 /\ Took(m, Augmented(Prompt), NoCache)
    /\ text_mode' = TRUE /\ invocations' = invocations + 1

FirstByCache(m) ==
    /\ config.phase > 1 /\ Here = 1
    /\ Supports(sequence[1])
    /\ \/ config.phase = 2 /\ Took(m, Prompt, Prompt)
       \/ config.phase = 2 /\ Took(m, Prompt, Augmented(Prompt))
       \/ config.phase = 3 /\ ~text_mode /\ Took(m, Prompt, Augmented(Prompt))
    /\ text_mode' = text_mode /\ invocations' = invocations + 1

LaterByText(m) ==
    /\ config.phase > 1 /\ Here > 1
    /\ TextHandoff
    /\ Took(m, current_text, NoCache)
    /\ text_mode' = text_mode /\ invocations' = invocations + 1

LaterByCache(m) ==
    /\ config.phase > 1 /\ Here > 1
    /\ ~TextHandoff
    /\ Took(m, current_text, current_cache) /\ m.transfer_ok
    /\ text_mode' = text_mode /\ invocations' = invocations + 1

LaterAgain(m) ==
    /\ config.phase > 1 /\ Here > 1
    /\ ~TextHandoff
    /\ Took(m, current_text, NoCache)
    /\ text_mode' = TRUE /\ invocations' = invocations + 2

Contribution(m) ==
    \/ ByPrompt(m) \/ FirstByText(m) \/ FirstByCache(m)
    \/ LaterByText(m) \/ LaterByCache(m) \/ LaterAgain(m)

Selection ==
    /\ config.phase = 3
    /\ status = "routing" /\ status' = "running"
    /\ sequence' \in Chains
    /\ text_mode' \in BOOLEAN
    /\ memory' = UserEntry
    /\ UNCHANGED <<config, current_cache, current_text, kwargs, per_expert,
                   reads, invocations>>

(* The run is over: it returns, or an exception leaves run(). *)
Ending ==
    /\ status = "running"
    /\ \/ status' = "done" /\ Here > Len(sequence) /\ invocations' = invocations
       \/ status' = "raised" /\ invocations' \in {invocations, invocations + 1}
    /\ UNCHANGED <<config, sequence, current_cache, current_text, text_mode,
                   kwargs, per_expert, memory, reads>>

LEMMA OneExpertIsAChain == \A e \in Experts : <<e>> \in Chains
<1> SUFFICES ASSUME NEW e \in Experts PROVE <<e>> \in Chains
  OBVIOUS
<1>1. <<e>> \in [1..1 -> Experts] /\ 1 \in 1..MaxChain
  OBVIOUS
<1> QED
  BY <1>1 DEF Chains

LEMMA LaterSteps ==
    ASSUME TypeOK, config.phase > 1
    PROVE  /\ LaterText => \E m : Contribution(m)
           /\ LaterKV => \E m : Contribution(m)
           /\ FallBack => \E m : Contribution(m)
           /\ RaiseOnTransfer => Ending
<1>1. current_cache \in Seq(Int) /\ Source \in Seq(Int)
  BY DEF TypeOK, Source
<1>2. ASSUME LaterText PROVE \E m : LaterByText(m)
  BY <1>1, <1>2 DEF LaterText, LaterByText, Iteration, Took
<1>3. ASSUME LaterKV PROVE \E m : LaterByCache(m)
  BY <1>1, <1>3 DEF LaterKV, LaterByCache, Iteration, Took
<1>4. ASSUME FallBack PROVE \E m : LaterAgain(m)
  BY <1>1, <1>4 DEF FallBack, TransferFails, LaterAgain, Iteration, Took
<1>5. RaiseOnTransfer => Ending
  BY DEF RaiseOnTransfer, TransferFails, InLoop, Ending
<1> QED
  BY <1>2, <1>3, <1>4, <1>5 DEF Contribution

(* The operators of each pipeline are those of this module: a pipeline is   *)
(* an instance on the same state.                                           *)
LEMMA SameCascade ==
    /\ Cascade!InLoop <=> InLoop
    /\ Cascade!Return <=> Return
    /\ Cascade!Here = Here
    /\ \A outs, src, n : Cascade!Iteration(outs, src, n) <=> Iteration(outs, src, n)
    /\ \A p, c : Cascade!InvokeHere(p, c) = InvokeHere(p, c)
    /\ \A p : Cascade!Augmented(p) = Augmented(p)
    /\ \A i : Cascade!Output(i) = Output(i)
    /\ Cascade!NoCache = NoCache
  BY DEF InLoop, Here, Supports, max_tokens, Retrieved, Augmented,
         InvokeHere, Invoke, Continued, Record, Iteration, Output, Prompt, User,
         Recalled, NoCache, Returns, Return, Cascade!InLoop, Cascade!Here,
         Cascade!Supports, Cascade!max_tokens, Cascade!Retrieved,
         Cascade!Augmented, Cascade!InvokeHere, Cascade!Invoke, Cascade!Continued,
         Cascade!Record, Cascade!Iteration, Cascade!Output, Cascade!Prompt,
         Cascade!User, Cascade!Recalled, Cascade!NoCache, Cascade!Returns,
         Cascade!Return

LEMMA SameKVPass ==
    /\ KVPass!InLoop <=> InLoop
    /\ KVPass!Return <=> Return
    /\ KVPass!Here = Here
    /\ KVPass!LaterText <=> LaterText
    /\ KVPass!LaterKV <=> LaterKV
    /\ KVPass!FallBack <=> FallBack
    /\ KVPass!RaiseOnTransfer <=> RaiseOnTransfer
    /\ \A outs, src, n : KVPass!Iteration(outs, src, n) <=> Iteration(outs, src, n)
    /\ \A p, c : KVPass!InvokeHere(p, c) = InvokeHere(p, c)
    /\ \A p : KVPass!Augmented(p) = Augmented(p)
    /\ \A e : KVPass!Supports(e) = Supports(e)
    /\ KVPass!Retrieved <=> Retrieved
    /\ KVPass!Prompt = Prompt
    /\ KVPass!NoCache = NoCache
  BY DEF InLoop, Here, Supports, max_tokens, Retrieved, Augmented,
         InvokeHere, Invoke, Continued, Record, Iteration, Output, Prompt, User,
         Recalled, NoCache, Returns, Source, TextHandoff, LaterText,
         LaterKV, TransferFails, FallBack, RaiseOnTransfer, Return,
         KVPass!InLoop, KVPass!Here, KVPass!Supports, KVPass!max_tokens,
         KVPass!Retrieved, KVPass!Augmented, KVPass!InvokeHere,
         KVPass!Invoke, KVPass!Continued, KVPass!Record, KVPass!Iteration, KVPass!Output,
         KVPass!Prompt, KVPass!User, KVPass!Recalled, KVPass!NoCache,
         KVPass!Returns, KVPass!Source, KVPass!TextHandoff,
         KVPass!LaterText, KVPass!LaterKV, KVPass!TransferFails,
         KVPass!FallBack, KVPass!RaiseOnTransfer, KVPass!Return

LEMMA SameRouting ==
    /\ Routing!InLoop <=> InLoop
    /\ Routing!Return <=> Return
    /\ Routing!Here = Here
    /\ Routing!LaterText <=> LaterText
    /\ Routing!LaterKV <=> LaterKV
    /\ Routing!FallBack <=> FallBack
    /\ Routing!RaiseOnTransfer <=> RaiseOnTransfer
    /\ \A outs, src, n : Routing!Iteration(outs, src, n) <=> Iteration(outs, src, n)
    /\ \A p, c : Routing!InvokeHere(p, c) = InvokeHere(p, c)
    /\ \A p : Routing!Augmented(p) = Augmented(p)
    /\ \A e : Routing!Supports(e) = Supports(e)
    /\ Routing!Retrieved <=> Retrieved
    /\ Routing!Prompt = Prompt
    /\ Routing!NoCache = NoCache
  BY DEF InLoop, Here, Supports, max_tokens, Retrieved, Augmented,
         InvokeHere, Invoke, Continued, Record, Iteration, Output, Prompt, User,
         Recalled, NoCache, Returns, Source, TextHandoff, LaterText,
         LaterKV, TransferFails, FallBack, RaiseOnTransfer, Return,
         Routing!InLoop, Routing!Here, Routing!Supports, Routing!max_tokens,
         Routing!Retrieved, Routing!Augmented, Routing!InvokeHere,
         Routing!Invoke, Routing!Continued, Routing!Record, Routing!Iteration, Routing!Output,
         Routing!Prompt, Routing!User, Routing!Recalled, Routing!NoCache,
         Routing!Returns, Routing!Source, Routing!TextHandoff,
         Routing!LaterText, Routing!LaterKV, Routing!TransferFails,
         Routing!FallBack, Routing!RaiseOnTransfer, Routing!Return

LEMMA CascadeSteps ==
    ASSUME TypeOK, config.phase = 1, Cascade!Progress
    PROVE  (\E m : Contribution(m)) \/ Ending
<1>1. CASE Cascade!Step
  <2>1. Output(Here) \in Seq(Int)
    BY DEF TypeOK, Output, Here
  <2>2. /\ InLoop
        /\ Iteration(InvokeHere(Augmented(current_text), NoCache), Output(Here), 1)
        /\ reads' \in {reads, reads + 1}
        /\ UNCHANGED text_mode
    BY <1>1, SameCascade DEF Cascade!Step, TypeOK
  <2>3. \E m : ByPrompt(m)
    BY <2>1, <2>2 DEF ByPrompt, Iteration, Took
  <2> QED
    BY <2>3 DEF Contribution
<1>2. CASE Cascade!Return
  BY <1>2, SameCascade DEF Return, Ending
<1> QED
  BY <1>1, <1>2 DEF Cascade!Progress

LEMMA KVPassSteps ==
    ASSUME TypeOK, config.phase = 2, KVPass!Progress
    PROVE  (\E m : Contribution(m)) \/ Ending
<1>1. Prompt \in Seq(Int) /\ Augmented(Prompt) \in Seq(Int)
  BY DEF Prompt, User, Augmented, Recalled
<1>2. CASE KVPass!FirstText
  <2>1. /\ InLoop /\ Here = 1
        /\ Iteration(InvokeHere(Prompt, NoCache), Prompt, 1)
        /\ text_mode' = TRUE
        /\ UNCHANGED reads
    BY <1>2, SameKVPass DEF KVPass!FirstText
  <2>2. \E m : FirstByText(m)
    BY <1>1, <2>1 DEF FirstByText, Iteration, Took
  <2> QED
    BY <2>2 DEF Contribution
<1>3. CASE KVPass!FirstKV
  <2>1. /\ InLoop /\ Here = 1
        /\ Supports(sequence[1])
        /\ \E cache \in {Prompt, Augmented(Prompt)} :
               Iteration(InvokeHere(Prompt, cache), cache, 1)
        /\ reads' \in {reads, reads + 1}
        /\ UNCHANGED text_mode
    BY <1>3, SameKVPass DEF KVPass!FirstKV, TypeOK
  <2>2. \E m : FirstByCache(m)
    BY <1>1, <2>1 DEF FirstByCache, Iteration, Took
  <2> QED
    BY <2>2 DEF Contribution
<1>4. CASE KVPass!LaterExpert
  BY <1>4, SameKVPass, LaterSteps DEF KVPass!LaterExpert
<1>5. CASE KVPass!Return
  BY <1>5, SameKVPass DEF Return, Ending
<1> QED
  BY <1>2, <1>3, <1>4, <1>5 DEF KVPass!Progress

LEMMA RoutingSteps ==
    ASSUME TypeOK, config.phase = 3, Routing!Progress
    PROVE  (\E m : Contribution(m)) \/ Selection \/ Ending
<1>1. Prompt \in Seq(Int) /\ Augmented(Prompt) \in Seq(Int)
  BY DEF Prompt, User, Augmented, Recalled
<1>2. CASE Routing!Route
  <2>1. sequence' \in Chains
    BY <1>2, OneExpertIsAChain
    DEF Routing!Route, Routing!Routes, Routing!Selected, Routing!Chains, Chains
  <2> QED
    BY <1>2, <2>1
    DEF Routing!Route, Selection, Routing!UserEntry, UserEntry, Routing!Prompt,
        Prompt, Routing!User, User
<1>3. CASE Routing!FirstText \/ Routing!FirstFails
  <2>1. /\ InLoop /\ Here = 1
        /\ Iteration(InvokeHere(Augmented(Prompt), NoCache), Prompt, 1)
        /\ text_mode' = TRUE
        /\ reads' \in {reads, reads + 1}
    BY <1>3, SameRouting DEF Routing!FirstText, Routing!FirstFails, TypeOK
  <2>2. \E m : FirstByText(m)
    BY <1>1, <2>1 DEF FirstByText, Iteration, Took
  <2> QED
    BY <2>2 DEF Contribution
<1>4. CASE Routing!FirstKV
  <2>1. /\ InLoop /\ Here = 1
        /\ ~text_mode /\ Supports(sequence[1])
        /\ Iteration(InvokeHere(Prompt, Augmented(Prompt)), Augmented(Prompt), 1)
        /\ reads' \in {reads, reads + 1}
        /\ UNCHANGED text_mode
    BY <1>4, SameRouting DEF Routing!FirstKV, TypeOK
  <2>2. \E m : FirstByCache(m)
    BY <1>1, <2>1 DEF FirstByCache, Iteration, Took
  <2> QED
    BY <2>2 DEF Contribution
<1>5. CASE Routing!LaterExpert
  BY <1>5, SameRouting, LaterSteps DEF Routing!LaterExpert
<1>6. CASE Routing!Return
  BY <1>6, SameRouting DEF Return, Ending
<1> QED
  BY <1>2, <1>3, <1>4, <1>5, <1>6 DEF Routing!Progress

(* Every step of a run is one of these. *)
LEMMA Steps ==
    ASSUME TypeOK, [Next]_vars
    PROVE  \/ \E m : Contribution(m)
           \/ Selection
           \/ Ending
           \/ UNCHANGED vars
<1>1. Raise => Ending
  BY DEF Raise, InLoop, Ending
<1> QED
  BY <1>1, CascadeSteps, KVPassSteps, RoutingSteps DEF Next, Progress, Finished

-----------------------------------------------------------------------------
(* Where a run stands: what was fixed when it started ... *)
Started ==
    /\ status = "routing" => /\ config.phase = 3
                             /\ sequence = <<>> /\ per_expert = <<>>
                             /\ invocations = 0
    /\ status # "routing" => sequence \in Chains
    /\ config.phase = 1 => text_mode
    /\ config.phase = 2 /\ per_expert = <<>> => ~text_mode
    /\ memory # <<>> => config.write
    /\ config.write /\ status # "routing" => memory # <<>>

(* ... what the last expert left for the next one ... *)
HandedOver ==
    /\ current_cache = IF per_expert = <<>> THEN NoCache
                       ELSE per_expert[Len(per_expert)].out_cache
    /\ current_text = Output(Len(per_expert))

(* ... whose results are in the metrics, and what their caches cover ... *)
InOrder ==
    \A i \in DOMAIN per_expert :
        /\ per_expert[i].expert = sequence[i]
        /\ per_expert[i].out_cache \in {NoCache, Append(per_expert[i].input, i)}

(* ... and how many invocations that took. *)
Counted ==
    status # "raised"
    => \/ invocations = Len(per_expert)
       \/ invocations = Len(per_expert) + 1 /\ text_mode

(* The inductive invariant. *)
IInv ==
    /\ TypeOK /\ Started /\ HandedOver /\ InOrder /\ Counted
    /\ ContextIsUnbroken /\ KVChainIsLossless
    /\ UnreportedFallbacks /\ MemoryReachesFirstExpert

-----------------------------------------------------------------------------
LEMMA UserEntryIsText ==
    /\ UserEntry \in Seq([step : Nat, text : Seq(Int)])
    /\ UserEntry # <<>> <=> config.write
<1> DEFINE entry == [step |-> 0, text |-> Prompt]
<1>1. entry \in [step : Nat, text : Seq(Int)]
  BY DEF Prompt, User
<1>2. ASSUME NEW S, NEW x \in S
      PROVE  <<x>> \in Seq(S) /\ <<>> \in Seq(S) /\ <<x>> # <<>>
  OBVIOUS
<1>3. UserEntry = IF config.write THEN <<entry>> ELSE <<>>
  BY DEF UserEntry
<1> HIDE DEF entry
<1> QED
  BY <1>1, <1>2, <1>3

LEMMA Initially == Init => IInv
<1> SUFFICES ASSUME Init PROVE IInv
  OBVIOUS
<1>1. /\ config \in Configs
      /\ current_cache = NoCache /\ current_text = Prompt
      /\ kwargs \in SUBSET {"max_tokens"}
      /\ per_expert = <<>> /\ reads = 0 /\ invocations = 0
      /\ text_mode \in BOOLEAN
  BY DEF Init, Cascade!Init, KVPass!Init, Routing!Init, Cascade!StartOfRun,
         KVPass!StartOfRun, Routing!StartOfRun, Cascade!Configs, KVPass!Configs,
         Routing!Configs, Configs, Cascade!Prompt, KVPass!Prompt, Routing!Prompt,
         Prompt, Cascade!User, KVPass!User, Routing!User, User, Cascade!NoCache,
         KVPass!NoCache, Routing!NoCache, NoCache
<1>2. /\ sequence \in Chains \cup {<<>>}
      /\ status \in {"routing", "running"}
      /\ status = "routing" => config.phase = 3 /\ sequence = <<>>
      /\ status # "routing" => sequence \in Chains
      /\ config.phase = 1 => text_mode
      /\ config.phase = 2 => ~text_mode
      /\ status = "routing" => memory = <<>>
      /\ status # "routing" => memory = UserEntry
  BY DEF Init, Cascade!Init, KVPass!Init, Routing!Init, Cascade!Chains,
         KVPass!Chains, Routing!Chains, Chains, Cascade!UserEntry,
         KVPass!UserEntry, Routing!UserEntry, UserEntry, Cascade!Prompt,
         KVPass!Prompt, Routing!Prompt, Prompt, Cascade!User, KVPass!User,
         Routing!User, User
<1>3. /\ UserEntry \in Seq([step : Nat, text : Seq(Int)])
      /\ UserEntry # <<>> <=> config.write
  BY UserEntryIsText
<1>4. /\ <<>> \in Seq(Metrics) /\ Len(<<>>) = 0 /\ DOMAIN <<>> = {}
      /\ <<>> \in Seq([step : Nat, text : Seq(Int)])
      /\ NoCache \in Seq(Int) /\ Prompt \in Seq(Int)
  BY DEF NoCache, Prompt, User
<1>5. Len(per_expert) <= Len(sequence)
  BY <1>1, <1>2, <1>4 DEF Chains
<1>6. TypeOK
  <2>1. memory \in Seq([step : Nat, text : Seq(Int)])
    BY <1>2, <1>3, <1>4
  <2>2. per_expert \in Seq(Metrics) /\ current_cache \in Seq(Int)
        /\ current_text \in Seq(Int)
    BY <1>1, <1>4
  <2> QED
    BY <1>1, <1>2, <1>5, <2>1, <2>2 DEF TypeOK
<1>7. Started /\ HandedOver /\ InOrder /\ Counted
  BY <1>1, <1>2, <1>3, <1>4
  DEF Started, HandedOver, InOrder, Counted, Prompt, User, Output
<1>8. /\ ContextIsUnbroken /\ KVChainIsLossless
      /\ UnreportedFallbacks /\ MemoryReachesFirstExpert
  BY <1>1, <1>4
  DEF ContextIsUnbroken, KVChainIsLossless, UnreportedFallbacks,
      MemoryReachesFirstExpert
<1> QED
  BY <1>6, <1>7, <1>8 DEF IInv

(* The metrics after one more contribution. *)
LEMMA OneMore ==
    ASSUME IInv, NEW m, Contribution(m), NEW n, n = Len(per_expert)
    PROVE  /\ n \in Nat /\ n < Len(sequence) /\ Here = n + 1
           /\ status = "running"
           /\ sequence \in Chains /\ sequence[n + 1] \in Experts
           /\ DOMAIN per_expert = 1..n
           /\ per_expert' = Append(per_expert, m)
           /\ Len(per_expert') = n + 1 /\ DOMAIN per_expert' = 1..(n + 1)
           /\ per_expert'[n + 1] = m
           /\ \A i \in 1..n : per_expert'[i] = per_expert[i]
           /\ UNCHANGED <<config, sequence, status>>
           /\ current_cache' = m.out_cache
           /\ current_text' = Output(n + 1)
           /\ kwargs' = {}
<1>1. \E p, c : Took(m, p, c)
  BY DEF Contribution, ByPrompt, FirstByText, FirstByCache, LaterByText,
         LaterByCache, LaterAgain
<1>2. /\ InLoop
      /\ per_expert' = Append(per_expert, m)
      /\ UNCHANGED <<config, sequence, status>>
      /\ current_cache' = m.out_cache
      /\ current_text' = Output(Here)
      /\ kwargs' = {}
  BY <1>1 DEF Took, Record
<1>3. per_expert \in Seq(Metrics) /\ sequence \in Chains
  BY <1>2 DEF IInv, TypeOK, Started, InLoop
<1>4. n \in Nat /\ Here = n + 1 /\ n < Len(sequence) /\ status = "running"
  BY <1>2, <1>3 DEF InLoop, Here, Chains
<1>5. sequence[n + 1] \in Experts
  BY <1>3, <1>4 DEF Chains
<1> QED
  BY <1>2, <1>3, <1>4, <1>5

(* What there is to read for expert n + 1. *)
LEMMA TextIsRun ==
    ASSUME NEW n \in Nat
    PROVE  IsRun(Output(n), n, n) /\ IsRun(Augmented(Output(n)), n, n)
  BY RunOfOne DEF Output, Augmented, IsRun

LEMMA CacheIsRun ==
    ASSUME IInv, current_cache # NoCache, NEW n, n = Len(per_expert)
    PROVE  /\ n \in Nat \ {0}
           /\ current_cache = Append(per_expert[n].input, n)
           /\ \E from \in 0..(n - 1) : IsRun(current_cache, from, n)
           /\ (\A j \in 1..n : per_expert[j].used_kv) => IsRun(current_cache, 0, n)
<1>1. n \in Nat /\ DOMAIN per_expert = 1..n
  BY DEF IInv, TypeOK
<1>2. n \in Nat \ {0} /\ current_cache = per_expert[n].out_cache
  BY <1>1 DEF IInv, TypeOK, HandedOver
<1>3. current_cache = Append(per_expert[n].input, n)
  BY <1>1, <1>2 DEF IInv, InOrder
<1>4. PICK from \in 0..(n - 1) : IsRun(per_expert[n].input, from, n - 1)
  BY <1>1, <1>2 DEF IInv, ContextIsUnbroken
<1>5. IsRun(current_cache, from, n)
  BY <1>2, <1>3, <1>4, RunGrows
<1>6. ASSUME \A j \in 1..n : per_expert[j].used_kv
      PROVE  IsRun(current_cache, 0, n)
  <2>1. IsRun(per_expert[n].input, 0, n - 1)
    BY <1>1, <1>2, <1>6 DEF IInv, KVChainIsLossless
  <2> QED
    BY <1>2, <1>3, <2>1, RunGrows
<1> QED
  BY <1>2, <1>3, <1>4, <1>5, <1>6

(* The result of the next expert, whichever way it was invoked. *)
LEMMA ResultOfStep ==
    ASSUME IInv, NEW m, Contribution(m), NEW n, n = Len(per_expert)
    PROVE  /\ m \in Metrics
           /\ m.expert = sequence[n + 1]
           /\ m.out_cache \in {NoCache, Append(m.input, n + 1)}
           /\ \E from \in 0..n : IsRun(m.input, from, n)
           /\ (\A j \in 1..n : per_expert[j].used_kv) /\ m.used_kv
              => IsRun(m.input, 0, n)
<1>0. n \in Nat /\ Here = n + 1 /\ sequence[n + 1] \in Experts
  BY OneMore
<1>1. current_text = Output(n) /\ Prompt = Output(0)
  BY DEF IInv, HandedOver, Prompt, User, Output
<1>2. \A e \in Experts : Supports(e) \in BOOLEAN
  BY DEF IInv, TypeOK, Configs, Supports
<1>3. max_tokens \in {"caller", "default"}
  BY DEF max_tokens
<1>4. PICK p, c :
          /\ m \in InvokeHere(p, c)
          /\ \/ c = NoCache /\ p \in {Output(n), Augmented(Output(n))}
             \/ n = 0 /\ c \in {Output(0), Augmented(Output(0))}
             \/ c = current_cache /\ c # NoCache
  BY <1>0, <1>1
  DEF Contribution, ByPrompt, FirstByText, FirstByCache, LaterByText,
      LaterByCache, LaterAgain, Took, TextHandoff
<1>5. /\ m = [expert |-> m.expert, input |-> m.input,
              max_tokens |-> m.max_tokens, used_kv |-> m.used_kv,
              transfer_ok |-> m.transfer_ok, out_cache |-> m.out_cache]
      /\ m.expert = sequence[n + 1]
      /\ m.input = IF c # NoCache THEN c ELSE p
      /\ m.max_tokens \in {"caller", "default"}
      /\ m.used_kv \in BOOLEAN /\ m.transfer_ok \in BOOLEAN
      /\ m.used_kv => c # NoCache
      /\ m.out_cache \in {NoCache, Append(m.input, n + 1)}
  BY <1>0, <1>2, <1>3, <1>4, InvokeResult DEF InvokeHere
<1>6. /\ \E from \in 0..n : IsRun(m.input, from, n)
      /\ (\A j \in 1..n : per_expert[j].used_kv) /\ m.used_kv
         => IsRun(m.input, 0, n)
  <2>1. CASE c = NoCache
    <3>1. IsRun(m.input, n, n) /\ ~m.used_kv
      <4>1. Output(0) # NoCache /\ Augmented(Output(0)) # NoCache
        BY TextIsRun, RunIsText DEF NoCache
      <4> QED
        BY <1>0, <1>4, <1>5, <2>1, <4>1, TextIsRun
    <3> QED
      BY <1>0, <3>1
  <2>2. CASE c # NoCache /\ n = 0
    <3>1. m.input = c /\ c \in {Output(0), Augmented(Output(0))}
      BY <1>4, <1>5, <2>2, CacheIsRun
    <3> QED
      BY <2>2, <3>1, TextIsRun
  <2>3. CASE c # NoCache /\ n # 0
    <3>1. m.input = current_cache /\ current_cache # NoCache
      BY <1>4, <1>5, <2>3
    <3> QED
      BY <1>0, <3>1, CacheIsRun
  <2> QED
    BY <2>1, <2>2, <2>3
<1>7. m \in Metrics
  <2>1. m.input \in Seq(Int) /\ m.input # <<>>
    BY <1>0, <1>6, RunIsText
  <2>2. m.out_cache \in Seq(Int)
    <3>1. ASSUME NEW t \in Seq(Int)
          PROVE  Append(t, n + 1) \in Seq(Int) /\ NoCache \in Seq(Int)
      BY <1>0 DEF NoCache
    <3>2. Append(m.input, n + 1) \in Seq(Int) /\ NoCache \in Seq(Int)
      BY <2>1, <3>1, Zenon
    <3> QED
      BY <1>5, <3>2, Zenon
  <2>3. m.expert \in Experts
    BY <1>0, <1>5
  <2>4. ASSUME NEW e \in Experts, NEW x \in Seq(Int), NEW y \in Seq(Int),
               NEW t \in {"caller", "default"}, NEW u \in BOOLEAN, NEW v \in BOOLEAN
        PROVE  [expert |-> e, input |-> x, max_tokens |-> t, used_kv |-> u,
                transfer_ok |-> v, out_cache |-> y] \in Metrics
    BY DEF Metrics
  <2>5. [expert |-> m.expert, input |-> m.input,
         max_tokens |-> m.max_tokens, used_kv |-> m.used_kv,
         transfer_ok |-> m.transfer_ok, out_cache |-> m.out_cache] \in Metrics
    BY <1>5, <2>1, <2>2, <2>3, <2>4
  <2> QED
    BY <1>5, <2>5, Zenon
<1> QED
  BY <1>5, <1>6, <1>7

(* How many invocations it took, and that text mode is not left. *)
LEMMA Tally ==
    ASSUME NEW m, Contribution(m)
    PROVE  \/ invocations' = invocations + 1 /\ text_mode' = text_mode
           \/ invocations' = invocations + 1 /\ text_mode' = TRUE
           \/ invocations' = invocations + 2 /\ ~text_mode /\ text_mode' = TRUE
  BY Zenon DEF Contribution, ByPrompt, FirstByText, FirstByCache, LaterByText,
               LaterByCache, LaterAgain, TextHandoff

-----------------------------------------------------------------------------
(* A contribution keeps the invariant, part by part. *)
LEMMA ContributionKeepsTypes ==
    ASSUME IInv, NEW m, Contribution(m)
    PROVE  TypeOK'
<1> DEFINE n == Len(per_expert)
<1>1. /\ n \in Nat /\ n < Len(sequence) /\ Here = n + 1
      /\ per_expert' = Append(per_expert, m) /\ Len(per_expert') = n + 1
      /\ UNCHANGED <<config, sequence, status>>
      /\ current_cache' = m.out_cache /\ current_text' = Output(n + 1)
      /\ kwargs' = {}
  BY OneMore
<1>2. m \in Metrics
  BY ResultOfStep
<1>3. per_expert' \in Seq(Metrics) /\ Len(per_expert') <= Len(sequence')
  BY <1>1, <1>2 DEF IInv, TypeOK, Chains
<1>4. current_cache' \in Seq(Int) /\ current_text' \in Seq(Int)
  BY <1>1, <1>2 DEF Metrics, Output
<1>5. PICK p, c : Took(m, p, c)
  BY DEF Contribution, ByPrompt, FirstByText, FirstByCache, LaterByText,
         LaterByCache, LaterAgain
<1>6. memory' \in Seq([step : Nat, text : Seq(Int)])
  <2>1. PICK src \in Seq(Int) : Record(m, src)
    BY <1>5 DEF Took
  <2>2. [step |-> Here, text |-> src] \in [step : Nat, text : Seq(Int)]
    BY <1>1
  <2>3. ASSUME NEW S, NEW s \in Seq(S), NEW x \in S
        PROVE  Append(s, x) \in Seq(S)
    OBVIOUS
  <2>4. memory \in Seq([step : Nat, text : Seq(Int)])
    BY DEF IInv, TypeOK
  <2>5. Append(memory, [step |-> Here, text |-> src])
            \in Seq([step : Nat, text : Seq(Int)])
    BY <2>2, <2>3, <2>4, Zenon
  <2> QED
    BY <2>1, <2>4, <2>5, Zenon DEF Record
<1>7. reads' \in Nat
  BY <1>5 DEF Took, IInv, TypeOK
<1>8. text_mode' \in BOOLEAN /\ invocations' \in Nat
  <2>1. text_mode \in BOOLEAN /\ invocations \in Nat
    BY DEF IInv, TypeOK
  <2>2. text_mode' = text_mode \/ text_mode' = TRUE
    BY Tally, Zenon
  <2>3. invocations' = invocations + 1 \/ invocations' = invocations + 2
    BY Tally, Zenon
  <2>4. text_mode' \in BOOLEAN
    BY <2>1, <2>2, Zenon
  <2> QED
    BY <2>1, <2>3, <2>4
<1> HIDE DEF n
<1> QED
  BY <1>1, <1>3, <1>4, <1>6, <1>7, <1>8 DEF IInv, TypeOK

LEMMA ContributionKeepsCourse ==
    ASSUME IInv, NEW m, Contribution(m)
    PROVE  Started' /\ HandedOver' /\ InOrder' /\ Counted'
<1> DEFINE n == Len(per_expert)
<1>1. /\ n \in Nat /\ Here = n + 1
      /\ status = "running" /\ sequence \in Chains
      /\ DOMAIN per_expert = 1..n /\ DOMAIN per_expert' = 1..(n + 1)
      /\ Len(per_expert') = n + 1 /\ per_expert'[n + 1] = m
      /\ \A i \in 1..n : per_expert'[i] = per_expert[i]
      /\ UNCHANGED <<config, sequence, status>>
      /\ current_cache' = m.out_cache /\ current_text' = Output(n + 1)
  BY OneMore
<1>2. /\ m.expert = sequence[n + 1]
      /\ m.out_cache \in {NoCache, Append(m.input, n + 1)}
  BY ResultOfStep
<1>3. per_expert' # <<>>
  BY <1>1
<1>4. HandedOver'
  BY <1>1, <1>3 DEF HandedOver, Output
<1>5. InOrder'
  BY <1>1, <1>2 DEF IInv, InOrder
<1>6. memory' # <<>> <=> config.write
  <2>1. PICK p, c : Took(m, p, c)
    BY DEF Contribution, ByPrompt, FirstByText, FirstByCache, LaterByText,
           LaterByCache, LaterAgain
  <2>2. PICK src \in Seq(Int) : Record(m, src)
    BY <2>1 DEF Took
  <2>3. memory \in Seq([step : Nat, text : Seq(Int)])
    BY DEF IInv, TypeOK
  <2>4. ASSUME NEW x PROVE Append(memory, x) # <<>>
    BY <2>3
  <2>5. memory' = IF config.write
                  THEN Append(memory, [step |-> Here, text |-> src]) ELSE memory
    BY <2>2 DEF Record
  <2>6. memory # <<>> => config.write
    BY DEF IInv, Started
  <2> QED
    BY <2>4, <2>5, <2>6
<1>7. config.phase = 1 => text_mode'
  BY DEF Contribution, ByPrompt, FirstByText, FirstByCache, LaterByText,
         LaterByCache, LaterAgain, IInv, Started
<1>8. Started'
  BY <1>1, <1>3, <1>6, <1>7 DEF Started
<1>9. Counted'
  <2>1. \/ invocations = n
        \/ invocations = n + 1 /\ text_mode
    BY <1>1 DEF IInv, Counted
  <2>2. \/ invocations' = invocations + 1 /\ (text_mode => text_mode')
        \/ invocations' = invocations + 2 /\ ~text_mode /\ text_mode'
    BY Tally, Zenon
  <2>3. invocations \in Nat
    BY DEF IInv, TypeOK
  <2>4. \/ invocations' = n + 1
        \/ invocations' = n + 2 /\ text_mode'
    <3>1. CASE invocations = n
      <4>1. invocations + 1 = n + 1 /\ invocations + 2 = n + 2
        BY <3>1
      <4> QED
        BY <2>2, <4>1, Zenon
    <3>2. CASE invocations = n + 1 /\ text_mode
      <4>1. invocations + 1 = n + 2
        BY <1>1, <3>2
      <4> QED
        BY <2>2, <3>2, <4>1, Zenon
    <3> QED
      BY <2>1, <3>1, <3>2
  <2>5. n + 2 = Len(per_expert') + 1
    BY <1>1
  <2> QED
    BY <1>1, <2>4, <2>5, Zenon DEF Counted
<1> QED
  BY <1>4, <1>5, <1>8, <1>9

LEMMA ContributionKeepsContext ==
    ASSUME IInv, NEW m, Contribution(m)
    PROVE  ContextIsUnbroken' /\ KVChainIsLossless'
<1> DEFINE n == Len(per_expert)
<1>1. /\ n \in Nat
      /\ DOMAIN per_expert = 1..n /\ DOMAIN per_expert' = 1..(n + 1)
      /\ per_expert'[n + 1] = m
      /\ \A i \in 1..n : per_expert'[i] = per_expert[i]
  BY OneMore
<1>2. /\ \E from \in 0..n : IsRun(m.input, from, n)
      /\ (\A j \in 1..n : per_expert[j].used_kv) /\ m.used_kv
         => IsRun(m.input, 0, n)
  BY ResultOfStep
<1> HIDE DEF n
<1>3. ContextIsUnbroken'
  <2> SUFFICES ASSUME NEW i \in 1..(n + 1)
               PROVE  \E from \in 0..(i - 1) :
                          IsRun(per_expert'[i].input, from, i - 1)
    BY <1>1 DEF ContextIsUnbroken, IsRun, Run
  <2>1. CASE i = n + 1
    BY <1>1, <1>2, <2>1
  <2>2. CASE i \in 1..n
    BY <1>1, <2>2 DEF IInv, ContextIsUnbroken
  <2> QED
    BY <1>1, <2>1, <2>2
<1>4. KVChainIsLossless'
  <2> SUFFICES ASSUME NEW i \in 1..(n + 1),
                      \A j \in 1..i : per_expert'[j].used_kv
               PROVE  IsRun(per_expert'[i].input, 0, i - 1)
    BY <1>1 DEF KVChainIsLossless, IsRun, Run
  <2>1. CASE i = n + 1
    BY <1>1, <1>2, <2>1
  <2>2. CASE i \in 1..n
    <3>1. \A j \in 1..i : per_expert[j].used_kv
      BY <1>1, <2>2
    <3> QED
      BY <1>1, <2>2, <3>1 DEF IInv, KVChainIsLossless
  <2> QED
    BY <1>1, <2>1, <2>2
<1> QED
  BY <1>3, <1>4

LEMMA ContributionKeepsReport ==
    ASSUME IInv, NEW m, Contribution(m)
    PROVE  UnreportedFallbacks'
<1> DEFINE n == Len(per_expert)
<1>1. /\ n \in Nat /\ Here = n + 1 /\ sequence[n + 1] \in Experts
      /\ DOMAIN per_expert = 1..n /\ DOMAIN per_expert' = 1..(n + 1)
      /\ per_expert'[n + 1] = m
      /\ \A i \in 1..n : per_expert'[i] = per_expert[i]
      /\ UNCHANGED <<config, sequence>>
  BY OneMore
<1>2. ~text_mode' => ~text_mode
  BY Tally, Zenon
<1>3. \A e : Supports(e)' <=> Supports(e)
  BY <1>1 DEF Supports
<1>4. ASSUME NEW p, NEW c, m \in InvokeHere(p, c), c # NoCache,
             Supports(sequence[n + 1]), m.transfer_ok
      PROVE  m.used_kv
  <2>1. Supports(sequence[n + 1]) \in BOOLEAN
    BY <1>1 DEF IInv, TypeOK, Configs, Supports
  <2>2. m \in Invoke(Supports(sequence[n + 1]), sequence[n + 1], n + 1, p, c,
                     max_tokens)
    BY <1>1, <1>4 DEF InvokeHere
  <2> QED
    BY <1>4, <2>1, <2>2, InvokeTransfer
<1>5. ASSUME ~m.used_kv, ~text_mode'
      PROVE  \/ ~Supports(sequence[n + 1])
             \/ n = 0 /\ ~m.transfer_ok
             \/ n > 0 /\ per_expert[n].out_cache = NoCache
  <2>1. ~ByPrompt(m) /\ ~FirstByText(m) /\ ~LaterAgain(m)
    BY <1>2, <1>5 DEF ByPrompt, FirstByText, LaterAgain, IInv, Started
  <2>2. CASE FirstByCache(m)
    <3>1. Prompt # NoCache /\ Augmented(Prompt) # NoCache
      <4>1. Prompt = Output(0)
        BY DEF Prompt, User, Output
      <4> QED
        BY <4>1, TextIsRun, RunIsText DEF NoCache
    <3>2. n = 0
      BY <1>1, <2>2 DEF FirstByCache
    <3>3. \E c : c # NoCache /\ m \in InvokeHere(Prompt, c)
      BY <2>2, <3>1 DEF FirstByCache, Took
    <3> QED
      BY <1>4, <1>5, <3>2, <3>3
  <2>3. CASE LaterByText(m)
    <3>1. current_cache = NoCache /\ n > 0
      BY <1>1, <1>2, <1>5, <2>3 DEF LaterByText, TextHandoff
    <3>2. per_expert # <<>>
      BY <1>1, <3>1
    <3> QED
      BY <3>1, <3>2 DEF IInv, HandedOver
  <2>4. CASE LaterByCache(m)
    <3>1. current_cache # NoCache /\ m \in InvokeHere(current_text, current_cache)
          /\ m.transfer_ok
      BY <2>4 DEF LaterByCache, TextHandoff, Took
    <3> QED
      BY <1>4, <1>5, <3>1
  <2> QED
    BY <2>1, <2>2, <2>3, <2>4 DEF Contribution
<1> SUFFICES ASSUME NEW i \in 1..(n + 1), ~per_expert'[i].used_kv, ~text_mode'
             PROVE  \/ ~Supports(sequence[i])
                    \/ i = 1 /\ ~per_expert'[1].transfer_ok
                    \/ i > 1 /\ per_expert'[i - 1].out_cache = NoCache
  BY <1>1, <1>3 DEF UnreportedFallbacks
<1>6. CASE i = n + 1
  BY <1>1, <1>5, <1>6
<1>7. CASE i \in 1..n
  <2>1. \/ ~Supports(sequence[i])
        \/ i = 1 /\ ~per_expert[1].transfer_ok
        \/ i > 1 /\ per_expert[i - 1].out_cache = NoCache
    BY <1>1, <1>2, <1>7 DEF IInv, UnreportedFallbacks
  <2> QED
    BY <1>1, <1>7, <2>1
<1> QED
  BY <1>1, <1>6, <1>7

LEMMA ContributionKeepsMemory ==
    ASSUME IInv, NEW m, Contribution(m)
    PROVE  MemoryReachesFirstExpert'
<1> DEFINE n == Len(per_expert)
<1>1. /\ n \in Nat /\ Here = n + 1 /\ status = "running"
      /\ sequence[n + 1] \in Experts
      /\ per_expert'[n + 1] = m
      /\ \A i \in 1..n : per_expert'[i] = per_expert[i]
      /\ UNCHANGED <<config, sequence, status>>
  BY OneMore
<1> SUFFICES ASSUME config.phase = 3, config.retrieve, memory' # <<>>
             PROVE  Head(per_expert'[1].input) = Recalled
  BY <1>1 DEF MemoryReachesFirstExpert
<1>2. memory # <<>>
  BY <1>1, ContributionKeepsCourse DEF IInv, Started
<1>3. CASE n = 0
  <2>1. PICK p, c : /\ m \in InvokeHere(p, c)
                    /\ \/ p = Augmented(Prompt) /\ c = NoCache
                       \/ c = Augmented(Prompt)
    BY <1>1, <1>3
    DEF Contribution, ByPrompt, FirstByText, FirstByCache, LaterByText,
        LaterByCache, LaterAgain, Took
  <2>2. Supports(sequence[1]) \in BOOLEAN
    BY <1>1, <1>3 DEF IInv, TypeOK, Configs, Supports
  <2>3. m.input = IF c # NoCache THEN c ELSE p
    BY <1>1, <1>3, <2>1, <2>2, InvokeResult DEF InvokeHere
  <2>4. Augmented(Prompt) = <<Recalled>> \o Prompt
    BY <1>2 DEF Augmented, Retrieved
  <2>5. <<Recalled>> \o Prompt # NoCache /\ Head(<<Recalled>> \o Prompt) = Recalled
    BY DEF Prompt, User, Recalled, NoCache
  <2> QED
    BY <1>1, <1>3, <2>1, <2>3, <2>4, <2>5
<1>4. CASE n > 0
  <2>1. per_expert # <<>>
    BY <1>4 DEF IInv, TypeOK
  <2> QED
    BY <1>1, <1>2, <1>4, <2>1 DEF IInv, MemoryReachesFirstExpert
<1> QED
  BY <1>1, <1>3, <1>4

LEMMA SelectionKeeps == ASSUME IInv, Selection PROVE IInv'
<1>1. /\ per_expert = <<>> /\ per_expert' = <<>>
      /\ sequence' \in Chains /\ status' = "running" /\ config.phase = 3
      /\ memory' = UserEntry
      /\ UNCHANGED <<config, current_cache, current_text, kwargs, reads, invocations>>
  BY DEF IInv, Started, Selection
<1>2. TypeOK'
  <2>1. Len(per_expert') <= Len(sequence')
    BY <1>1 DEF Chains
  <2>2. per_expert' \in Seq(Metrics) /\ memory' \in Seq([step : Nat, text : Seq(Int)])
    BY <1>1, UserEntryIsText
  <2>3. text_mode' \in BOOLEAN
    BY DEF Selection
  <2> QED
    BY <1>1, <2>1, <2>2, <2>3 DEF IInv, TypeOK
<1>3. Started' /\ HandedOver' /\ InOrder'
  <2>1. DOMAIN per_expert' = {}
    BY <1>1
  <2> QED
    BY <1>1, <2>1, UserEntryIsText DEF IInv, Started, HandedOver, InOrder
<1>4. Counted'
  <2>1. invocations = 0 /\ Len(per_expert') = 0
    BY <1>1 DEF IInv, Counted, Selection, Started
  <2> QED
    BY <1>1, <2>1 DEF Counted
<1>5. /\ ContextIsUnbroken' /\ KVChainIsLossless'
      /\ UnreportedFallbacks' /\ MemoryReachesFirstExpert'
  <2>1. DOMAIN per_expert' = {}
    BY <1>1
  <2> QED
    BY <1>1, <2>1 DEF ContextIsUnbroken, KVChainIsLossless, UnreportedFallbacks,
                      MemoryReachesFirstExpert
<1> QED
  BY <1>2, <1>3, <1>4, <1>5 DEF IInv

LEMMA EndingKeeps == ASSUME IInv, Ending PROVE IInv'
<1>1. /\ status = "running" /\ status' \in {"done", "raised"}
      /\ UNCHANGED <<config, sequence, current_cache, current_text, text_mode,
                     kwargs, per_expert, memory, reads>>
      /\ invocations' \in {invocations, invocations + 1}
      /\ status' = "done" => invocations' = invocations
  BY DEF Ending
<1>2. TypeOK' /\ Started' /\ HandedOver' /\ InOrder'
  BY <1>1 DEF IInv, TypeOK, Started, HandedOver, InOrder
<1>3. Counted'
  <2>1. ASSUME status' # "raised"
        PROVE  /\ invocations' = invocations /\ status # "raised"
               /\ UNCHANGED <<text_mode, per_expert>>
    BY <1>1, <2>1
  <2> QED
    BY <2>1, Zenon DEF IInv, Counted
<1>4. /\ ContextIsUnbroken' /\ KVChainIsLossless'
      /\ UnreportedFallbacks' /\ MemoryReachesFirstExpert'
  BY <1>1 DEF IInv, ContextIsUnbroken, KVChainIsLossless, UnreportedFallbacks,
              MemoryReachesFirstExpert, IsRun, Run, Supports
<1> QED
  BY <1>2, <1>3, <1>4 DEF IInv

LEMMA StutteringKeeps == ASSUME IInv, UNCHANGED vars PROVE IInv'
<1>1. TypeOK' /\ Started' /\ HandedOver' /\ InOrder' /\ Counted'
  BY DEF IInv, TypeOK, Started, HandedOver, InOrder, Counted, vars
<1>2. /\ ContextIsUnbroken' /\ KVChainIsLossless'
      /\ UnreportedFallbacks' /\ MemoryReachesFirstExpert'
  BY DEF IInv, ContextIsUnbroken, KVChainIsLossless, UnreportedFallbacks,
         MemoryReachesFirstExpert, IsRun, Run, Supports, vars
<1> QED
  BY <1>1, <1>2 DEF IInv

LEMMA Invariance == Spec => []IInv
<1>1. IInv /\ [Next]_vars => IInv'
  <2> SUFFICES ASSUME IInv, [Next]_vars PROVE IInv'
    OBVIOUS
  <2>1. ASSUME NEW m, Contribution(m) PROVE IInv'
    BY <2>1, ContributionKeepsTypes, ContributionKeepsCourse,
       ContributionKeepsContext, ContributionKeepsReport, ContributionKeepsMemory
    DEF IInv
  <2>2. TypeOK
    BY DEF IInv
  <2> QED
    BY <2>1, <2>2, Steps, SelectionKeeps, EndingKeeps, StutteringKeeps
<1> QED
  BY <1>1, Initially, PTL DEF Spec

-----------------------------------------------------------------------------
(* Type correctness of run()'s state, in all three phases. *)
THEOREM TypeCorrect == Spec => []TypeOK
<1>1. IInv => TypeOK
  BY DEF IInv
<1> QED
  BY <1>1, Invariance, PTL

(* Whatever hand-offs fail, and in chains of any length: an expert reads an *)
(* unbroken stretch of the conversation that ends with its predecessor's    *)
(* output (the loops of the three run methods, Expert.invoke).              *)
THEOREM ContextCorrect == Spec => []ContextIsUnbroken
<1>1. IInv => ContextIsUnbroken
  BY DEF IInv
<1> QED
  BY <1>1, Invariance, PTL

(* As long as every transfer works, an expert reads the whole conversation. *)
THEOREM LosslessCorrect == Spec => []KVChainIsLossless
<1>1. IInv => KVChainIsLossless
  BY DEF IInv
<1> QED
  BY <1>1, Invariance, PTL

(* The only fallbacks that text_mode_fallback does not report are a backend *)
(* without KV support, a failed transfer at the first expert, and a failed  *)
(* encode of an output (phase2_kv_pass.py, phase3_routing.py).              *)
THEOREM ReportCorrect == Spec => []UnreportedFallbacks
<1>1. IInv => UnreportedFallbacks
  BY DEF IInv
<1> QED
  BY <1>1, Invariance, PTL

(* A run of any length drops the metrics of at most one invocation. *)
THEOREM InvocationsCorrect == Spec => []AtMostOneLostInvocation
<1>1. IInv => AtMostOneLostInvocation
  <2> SUFFICES ASSUME IInv, status = "done"
               PROVE  invocations - Len(per_expert) \in 0..1
    BY DEF AtMostOneLostInvocation, total_params_invoked
  <2>1. Len(per_expert) \in Nat
    BY DEF IInv, TypeOK
  <2> QED
    BY <2>1 DEF IInv, Counted
<1> QED
  BY <1>1, Invariance, PTL

(* In Phase 3 the first expert reads the shared memory on every path.  *)
THEOREM MemoryCorrect == Spec => []MemoryReachesFirstExpert
<1>1. IInv => MemoryReachesFirstExpert
  BY DEF IInv
<1> QED
  BY <1>1, Invariance, PTL

(* After a fallback a run stays with text, and a later expert of a KV       *)
(* pipeline reads its predecessor's output alone.                           *)
THEOREM TextModeCorrect == Spec => TextModeIsFinal
<1> DEFINE A == status = "running" /\ text_mode /\ per_expert' # per_expert
                => /\ text_mode'
                   /\ ~per_expert'[Here].used_kv
                   /\ config.phase > 1 /\ Here > 1
                      => per_expert'[Here].input = current_text
<1>1. IInv /\ [Next]_vars => [A]_vars
  <2> SUFFICES ASSUME IInv, [Next]_vars, status = "running", text_mode,
                      per_expert' # per_expert
               PROVE  /\ text_mode'
                      /\ ~per_expert'[Here].used_kv
                      /\ config.phase > 1 /\ Here > 1
                         => per_expert'[Here].input = current_text
    OBVIOUS
  <2>1. PICK m : Contribution(m)
    BY Steps DEF IInv, Selection, Ending, vars
  <2>2. /\ Here = Len(per_expert) + 1 /\ per_expert'[Here] = m
        /\ sequence[Here] \in Experts
    BY <2>1, OneMore
  <2>3. text_mode'
    BY <2>1, Tally, Zenon
  <2>4. PICK p : /\ m \in InvokeHere(p, NoCache)
                 /\ config.phase > 1 /\ Here > 1 => p = current_text
    <3>1. ~LaterByCache(m) /\ ~LaterAgain(m)
      BY Zenon DEF LaterByCache, LaterAgain, TextHandoff
    <3>2. ~FirstByCache(m)
      <4>1. Here = 1 => per_expert = <<>>
        BY <2>2 DEF IInv, TypeOK
      <4> QED
        BY <4>1, Zenon DEF FirstByCache, IInv, Started
    <3>3. ByPrompt(m) \/ FirstByText(m) \/ LaterByText(m)
      BY <2>1, <3>1, <3>2, Zenon DEF Contribution
    <3>4. CASE ByPrompt(m)
      BY <3>4 DEF ByPrompt, Took
    <3>5. CASE FirstByText(m)
      BY <3>5 DEF FirstByText, Took
    <3>6. CASE LaterByText(m)
      BY <3>6 DEF LaterByText, Took
    <3> QED
      BY <3>3, <3>4, <3>5, <3>6
  <2>5. Supports(sequence[Here]) \in BOOLEAN
    BY <2>2 DEF IInv, TypeOK, Configs, Supports
  <2>6. ~m.used_kv /\ m.input = p
    BY <2>4, <2>5, InvokeResult DEF InvokeHere
  <2> QED
    BY <2>2, <2>3, <2>4, <2>6
<1>2. Spec => [][A]_vars
  BY <1>1, Invariance, PTL DEF Spec
<1> QED
  BY <1>2 DEF TextModeIsFinal

(* Every pipeline implements the safety part of the abstract chain: each    *)
(* step of run() is one of Chain's steps or changes nothing that Chain      *)
(* sees.                                                                    *)
THEOREM ChainRefined == Spec => C!Init /\ [][C!Next]_(C!vars)
<1>1. Init => C!Init
  <2> SUFFICES ASSUME Init PROVE C!Init
    OBVIOUS
  <2>1. per_expert = <<>>
    BY DEF Init, Cascade!Init, KVPass!Init, Routing!Init, Cascade!StartOfRun,
           KVPass!StartOfRun, Routing!StartOfRun
  <2>2. Contributed = <<>>
    BY <2>1 DEF Contributed
  <2>3. \/ status = "routing" /\ sequence = <<>>
        \/ status = "running" /\ sequence \in Chains
    BY DEF Init, Cascade!Init, KVPass!Init, Routing!Init, Cascade!Chains,
           KVPass!Chains, Chains
  <2> QED
    BY <2>2, <2>3 DEF C!Init
<1>2. IInv /\ [Next]_vars => [C!Next]_(C!vars)
  <2> SUFFICES ASSUME IInv, [Next]_vars PROVE [C!Next]_(C!vars)
    OBVIOUS
  <2>0. /\ Len(per_expert) \in Nat /\ DOMAIN per_expert = 1..Len(per_expert)
        /\ DOMAIN Contributed = 1..Len(per_expert)
        /\ Len(Contributed) = Len(per_expert)
        /\ \A i \in 1..Len(per_expert) : Contributed[i] = sequence[i]
    BY DEF IInv, TypeOK, InOrder, Contributed
  <2>1. ASSUME NEW m, Contribution(m) PROVE C!Contribute
    <3> DEFINE n == Len(per_expert)
    <3>1. /\ n < Len(sequence) /\ status = "running"
          /\ DOMAIN per_expert' = 1..(n + 1)
          /\ per_expert'[n + 1] = m
          /\ \A i \in 1..n : per_expert'[i] = per_expert[i]
          /\ UNCHANGED <<sequence, status>>
      BY <2>1, OneMore
    <3>2. m.expert = sequence[n + 1]
      BY <2>1, ResultOfStep
    <3>3. Contributed' = Append(Contributed, sequence[n + 1])
      BY <2>0, <3>1, <3>2 DEF Contributed
    <3> QED
      BY <2>0, <3>1, <3>3 DEF C!Contribute
  <2>2. ASSUME Selection PROVE C!Select
    BY <2>2 DEF Selection, C!Select, Contributed
  <2>3. ASSUME Ending PROVE C!Return \/ C!Raise
    <3>1. UNCHANGED <<sequence, Contributed>> /\ status = "running"
      BY <2>3 DEF Ending, Contributed
    <3>2. CASE status' = "raised"
      BY <3>1, <3>2 DEF C!Raise
    <3>3. CASE status' = "done"
      <4>1. Len(per_expert) = Len(sequence) /\ sequence \in Chains
        BY <2>0, <2>3, <3>1, <3>3 DEF Ending, Here, IInv, TypeOK, Started, Chains
      <4>2. Contributed = sequence
        <5>1. DOMAIN sequence = 1..Len(per_expert)
          BY <4>1 DEF Chains
        <5>2. Contributed = [i \in 1..Len(per_expert) |-> Contributed[i]]
          BY <2>0 DEF Contributed
        <5>3. sequence = [i \in 1..Len(per_expert) |-> sequence[i]]
          BY <4>1, <5>1 DEF Chains
        <5> QED
          BY <2>0, <5>2, <5>3
      <4> QED
        BY <3>1, <3>3, <4>2 DEF C!Return
    <3> QED
      BY <2>3, <3>2, <3>3 DEF Ending
  <2>4. ASSUME UNCHANGED vars PROVE UNCHANGED C!vars
    BY <2>4 DEF vars, C!vars, Contributed
  <2>5. TypeOK
    BY DEF IInv
  <2> QED
    BY <2>1, <2>2, <2>3, <2>4, <2>5, Steps DEF C!Next
<1> QED
  BY <1>1, <1>2, Invariance, PTL DEF Spec
-----------------------------------------------------------------------------
(* How many steps a run has at most before it: the routing, the experts     *)
(* that are left, and the return.                                           *)
StepsLeft ==
    IF status = "routing" THEN MaxChain + 2
    ELSE IF status = "running" THEN Len(sequence) - Len(per_expert) + 1
    ELSE 0

(***************************************************************************)
(* No run() goes on for ever: each step, second invocations and fallbacks  *)
(* included, leaves fewer steps to take, and an ended run takes none (the  *)
(* loops of the three phases).                                             *)
(***************************************************************************)
EveryStepIsProgress ==
    [][/\ StepsLeft \in Nat /\ StepsLeft' \in Nat
       /\ StepsLeft' < StepsLeft]_vars

(* The part of the termination in ImplementsChain that needs no fairness:   *)
(* what a run does never repeats, and it is over after MaxChain + 2 steps.  *)
THEOREM RunsAreFinite == Spec => EveryStepIsProgress
<1> DEFINE A == /\ StepsLeft \in Nat /\ StepsLeft' \in Nat
                /\ StepsLeft' < StepsLeft
<1>1. IInv /\ [Next]_vars => [A]_vars
  <2> SUFFICES ASSUME IInv, [Next]_vars, vars' # vars PROVE A
    OBVIOUS
  <2>1. /\ Len(per_expert) \in Nat
        /\ MaxChain \in Nat
        /\ \A c \in Chains : Len(c) \in 1..MaxChain
    BY PipelineAssumption DEF IInv, TypeOK, Chains
  <2>2. ASSUME NEW m, Contribution(m) PROVE A
    <3>1. /\ Len(per_expert) < Len(sequence) /\ status = "running"
          /\ sequence \in Chains
          /\ Len(per_expert') = Len(per_expert) + 1
          /\ UNCHANGED <<sequence, status>>
      BY <2>2, OneMore
    <3> QED
      BY <2>1, <3>1 DEF StepsLeft
  <2>3. CASE Selection
    <3>1. /\ status = "routing" /\ status' = "running"
          /\ Len(sequence') \in 1..MaxChain
          /\ Len(per_expert') = 0
      BY <2>1, <2>3 DEF Selection, IInv, Started
    <3> QED
      BY <2>1, <3>1 DEF StepsLeft
  <2>4. CASE Ending
    <3>1. /\ status = "running" /\ status' \in {"done", "raised"}
          /\ sequence \in Chains /\ Len(per_expert) <= Len(sequence)
      BY <2>4 DEF Ending, IInv, Started, TypeOK
    <3> QED
      BY <2>1, <3>1 DEF StepsLeft
  <2> QED
    BY <2>2, <2>3, <2>4, Steps DEF IInv
<1>2. Spec => [][A]_vars
  BY <1>1, Invariance, PTL DEF Spec
<1> QED
  BY <1>2 DEF EveryStepIsProgress
=============================================================================
