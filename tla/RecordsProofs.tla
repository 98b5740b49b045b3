---- MODULE RecordsProofs ----
(***************************************************************************)
(* What is kept, and what is made of it: no entry handed over to Chronicle *)
(* is lost but by a prune, and the window shows what the archive shows;    *)
(* the store of Pulse implements the ledger, trends add up, a few          *)
(* measurements are never critical, and the order of ties is nothing to    *)
(* what is found.  For any number of entries, processes and measurements.  *)
(* Both archives are about order and sums, so that the lemmas about        *)
(* sorted() and sum() come first.                                          *)
(***************************************************************************)
EXTENDS Archive, Insight, SequenceTheorems, FiniteSetTheorems, WellFoundedInduction, TLAPS

------------------------------------------------------------------------------
(* Orders                                                                  *)

Precedence(S, R) ==
    /\ \A i \in S : <<i, i>> \notin R
    /\ \A i, j, k \in S : <<i, j>> \in R /\ <<j, k>> \in R => <<i, k>> \in R

StrictOrder(S, R) ==
    /\ Precedence(S, R)
    /\ \A i, j \in S : i # j => <<i, j>> \in R \/ <<j, i>> \in R

\* The fewer are ahead of an element, the earlier it is.
LEMMA FewerAhead ==
  ASSUME NEW S, NEW R, IsFiniteSet(S), Precedence(S, R), NEW i \in S, NEW j \in S, <<i, j>> \in R
  PROVE  Cardinality(Ahead(S, R, i)) < Cardinality(Ahead(S, R, j))
<1>1. IsFiniteSet(Ahead(S, R, j))
  BY FS_Subset DEF Ahead
<1>2. Ahead(S, R, i) \subseteq Ahead(S, R, j) /\ i \in Ahead(S, R, j) /\ i \notin Ahead(S, R, i)
  BY DEF Ahead, Precedence
<1>3. /\ IsFiniteSet(Ahead(S, R, i))
      /\ Cardinality(Ahead(S, R, i)) <= Cardinality(Ahead(S, R, j))
      /\ Cardinality(Ahead(S, R, i)) # Cardinality(Ahead(S, R, j))
  BY <1>1, <1>2, FS_Subset
<1>4. Cardinality(Ahead(S, R, i)) \in Nat /\ Cardinality(Ahead(S, R, j)) \in Nat
  BY <1>1, <1>3, FS_CardinalityType
<1> QED
  BY <1>3, <1>4

\* In a finite set there is one that nothing precedes.
LEMMA FirstOfAll ==
  ASSUME NEW S, NEW R, IsFiniteSet(S), S # {}, Precedence(S, R)
  PROVE  \E i \in S : \A j \in S : <<j, i>> \notin R
<1> DEFINE C == {Cardinality(Ahead(S, R, i)) : i \in S}
<1>1. \A i \in S : Cardinality(Ahead(S, R, i)) \in Nat
  <2>1. SUFFICES ASSUME NEW i \in S PROVE Cardinality(Ahead(S, R, i)) \in Nat
    OBVIOUS
  <2>2. IsFiniteSet(Ahead(S, R, i))
    BY FS_Subset DEF Ahead
  <2> QED
    BY <2>2, FS_CardinalityType
<1>2. C \subseteq Nat /\ C # {}
  BY <1>1
<1>3. PICK m \in C : \A k \in C : ~(<<k, m>> \in OpToRel(<, Nat))
  <2> HIDE DEF C
  <2> QED
    BY <1>2, NatLessThanWellFounded, WFMin
<1>4. PICK i \in S : m = Cardinality(Ahead(S, R, i))
  OBVIOUS
<1>5. ASSUME NEW j \in S, <<j, i>> \in R PROVE FALSE
  <2>1. Cardinality(Ahead(S, R, j)) < m
    BY <1>4, <1>5, FewerAhead
  <2>2. Cardinality(Ahead(S, R, j)) \in C
    OBVIOUS
  <2> HIDE DEF C
  <2>3. <<Cardinality(Ahead(S, R, j)), m>> \in OpToRel(<, Nat)
    BY <1>2, <2>1, <2>2 DEF OpToRel
  <2> QED
    BY <1>3, <2>2, <2>3
<1> QED
  BY <1>5

\* Every place of an order is taken, by an element with that many ahead of it.
LEMMA PlacesAreTaken ==
  ASSUME NEW S, NEW R, IsFiniteSet(S), StrictOrder(S, R)
  PROVE  /\ Cardinality(S) \in Nat
         /\ DOMAIN Ordered(S, R) = 1..Cardinality(S)
         /\ \A k \in 1..Cardinality(S) :
              /\ Ordered(S, R)[k] \in S
              /\ Cardinality(Ahead(S, R, Ordered(S, R)[k])) = k - 1
         /\ \A i \in S : Cardinality(Ahead(S, R, i)) + 1 \in 1..Cardinality(S)
<1> DEFINE n == Cardinality(S)
           f == [i \in S |-> Cardinality(Ahead(S, R, i)) + 1]
<1>1. n \in Nat
  BY FS_CardinalityType
<1>2. ASSUME NEW i \in S PROVE Cardinality(Ahead(S, R, i)) \in Nat /\ f[i] \in 1..n
  <2>1. IsFiniteSet(S \ {i}) /\ Cardinality(S \ {i}) = n - 1
    BY FS_RemoveElement
  <2>2. Ahead(S, R, i) \subseteq S \ {i}
    BY DEF Ahead, StrictOrder, Precedence
  <2>3. IsFiniteSet(Ahead(S, R, i)) /\ Cardinality(Ahead(S, R, i)) <= n - 1
    BY <2>1, <2>2, FS_Subset
  <2>4. Cardinality(Ahead(S, R, i)) \in Nat
    BY <2>3, FS_CardinalityType
  <2> QED
    BY <1>1, <2>3, <2>4
<1>3. \A i, j \in S : f[i] = f[j] => i = j
  <2>1. SUFFICES ASSUME NEW i \in S, NEW j \in S, i # j PROVE f[i] # f[j]
    OBVIOUS
  <2>2. \/ Cardinality(Ahead(S, R, i)) < Cardinality(Ahead(S, R, j))
        \/ Cardinality(Ahead(S, R, j)) < Cardinality(Ahead(S, R, i))
    BY <2>1, FewerAhead DEF StrictOrder
  <2> QED
    BY <1>2, <2>2
<1>4. f \in Injection(S, 1..n)
  <2>1. f \in [S -> 1..n]
    BY <1>2
  <2> QED
    BY <1>3, <2>1 DEF Injection, IsInjective
<1>5. IsFiniteSet(1..n) /\ Cardinality(1..n) = n
  BY <1>1, FS_Interval
<1>6. f \in Surjection(S, 1..n)
  BY <1>4, <1>5, FS_Injection
<1>7. \A k \in 1..n : \E i \in S : Cardinality(Ahead(S, R, i)) = k - 1
  <2>1. \A k \in 1..n : \E i \in S : f[i] = k
    BY <1>6 DEF Surjection
  <2> QED
    BY <1>1, <1>2, <2>1
<1>8. ASSUME NEW k \in 1..n
      PROVE  Ordered(S, R)[k] \in S /\ Cardinality(Ahead(S, R, Ordered(S, R)[k])) = k - 1
  <2> DEFINE ranked == {<<Cardinality(Ahead(S, R, i)), i>> : i \in S}
             r == CHOOSE q \in ranked : q[1] = k - 1
  <2>1. PICK i \in S : Cardinality(Ahead(S, R, i)) = k - 1
    BY <1>7
  <2>2. \E q \in ranked : q[1] = k - 1
    <3>1. <<Cardinality(Ahead(S, R, i)), i>> \in ranked
      OBVIOUS
    <3>2. <<Cardinality(Ahead(S, R, i)), i>>[1] = k - 1
      BY <2>1
    <3> HIDE DEF ranked
    <3> QED
      BY <3>1, <3>2
  <2>3. r \in ranked /\ r[1] = k - 1
    <3> HIDE DEF ranked
    <3> QED
      BY <2>2
  <2>4. Ordered(S, R)[k] = r[2]
    BY DEF Ordered
  <2> HIDE DEF r
  <2>5. PICK j \in S : r = <<Cardinality(Ahead(S, R, j)), j>>
    BY <2>3
  <2> QED
    BY <2>3, <2>4, <2>5
<1> QED
  BY <1>1, <1>2, <1>8 DEF Ordered

\* The order is kept, and nothing is left out or comes twice.
LEMMA OrderedIsSorted ==
  ASSUME NEW S, NEW R, IsFiniteSet(S), StrictOrder(S, R)
  PROVE  /\ \A j, k \in 1..Cardinality(S) : j < k => <<Ordered(S, R)[j], Ordered(S, R)[k]>> \in R
         /\ \A j, k \in 1..Cardinality(S) : Ordered(S, R)[j] = Ordered(S, R)[k] => j = k
         /\ \A i \in S : \E k \in 1..Cardinality(S) : Ordered(S, R)[k] = i
<1> DEFINE n == Cardinality(S)
           o == Ordered(S, R)
<1>1. /\ n \in Nat
      /\ \A k \in 1..n : o[k] \in S /\ Cardinality(Ahead(S, R, o[k])) = k - 1
      /\ \A i \in S : Cardinality(Ahead(S, R, i)) + 1 \in 1..n
  BY PlacesAreTaken
<1>2. \A i \in S : Cardinality(Ahead(S, R, i)) \in Nat
  <2>1. SUFFICES ASSUME NEW i \in S PROVE Cardinality(Ahead(S, R, i)) \in Nat
    OBVIOUS
  <2>2. IsFiniteSet(Ahead(S, R, i))
    BY FS_Subset DEF Ahead
  <2> QED
    BY <2>2, FS_CardinalityType
<1> HIDE DEF n, o
<1>3. ASSUME NEW j \in 1..n, NEW k \in 1..n, j < k PROVE <<o[j], o[k]>> \in R
  <2>1. o[j] \in S /\ o[k] \in S /\ j - 1 < k - 1
    BY <1>1, <1>3
  <2>2. o[j] # o[k] /\ ~(Cardinality(Ahead(S, R, o[k])) < Cardinality(Ahead(S, R, o[j])))
    BY <1>1, <1>3
  <2> QED
    BY <2>1, <2>2, FewerAhead DEF StrictOrder
<1>4. \A j, k \in 1..n : o[j] = o[k] => j = k
  <2>1. SUFFICES ASSUME NEW j \in 1..n, NEW k \in 1..n, o[j] = o[k] PROVE j = k
    OBVIOUS
  <2>2. j - 1 = k - 1
    BY <1>1, <2>1
  <2> QED
    BY <1>1, <2>2
<1>5. ASSUME NEW i \in S PROVE \E k \in 1..n : o[k] = i
  <2> DEFINE k == Cardinality(Ahead(S, R, i)) + 1
  <2>1. k \in 1..n /\ o[k] \in S /\ Cardinality(Ahead(S, R, o[k])) = Cardinality(Ahead(S, R, i))
    BY <1>1, <1>2
  <2>2. o[k] = i
    <3>1. SUFFICES ASSUME o[k] # i PROVE FALSE
      OBVIOUS
    <3>2. <<o[k], i>> \in R \/ <<i, o[k]>> \in R
      BY <2>1, <3>1 DEF StrictOrder, Precedence
    <3>3. Cardinality(Ahead(S, R, i)) \in Nat
      BY <1>2
    <3> QED
      BY <2>1, <3>2, <3>3, FewerAhead DEF StrictOrder
  <2> QED
    BY <2>1, <2>2
<1> QED
  BY <1>3, <1>4, <1>5 DEF n, o

------------------------------------------------------------------------------
(* Sums                                                                    *)

\* Induction over the natural numbers, for a set instead of a predicate.
LEMMA SetOfNaturals ==
  ASSUME NEW B \in SUBSET Nat, 0 \in B, \A n \in B : n + 1 \in B
  PROVE  \A n \in Nat : n \in B
<1> DEFINE Rest == Nat \ B
<1>1. SUFFICES ASSUME NEW m \in Rest PROVE FALSE
  OBVIOUS
<1>2. PICK n \in Rest : \A k \in Rest : ~(<<k, n>> \in OpToRel(<, Nat))
  <2> HIDE DEF Rest
  <2>1. Rest \subseteq Nat
    BY DEF Rest
  <2> QED
    BY <1>1, <2>1, NatLessThanWellFounded, WFMin
<1>3. n \in Nat /\ n # 0 /\ n - 1 \in Nat
  OBVIOUS
<1>4. n - 1 \notin Rest
  <2>1. <<n - 1, n>> \in OpToRel(<, Nat)
    BY <1>3 DEF OpToRel
  <2> QED
    BY <1>2, <2>1
<1>5. n - 1 \in B /\ (n - 1) + 1 = n
  BY <1>3, <1>4
<1> QED
  BY <1>5

Chosen(s) == CHOOSE x \in s : TRUE
SumStep(w, g, s) == IF s = {} THEN 0 ELSE w[Chosen(s)] + g[s \ {Chosen(s)}]
Recursion(w, g) == g = [s \in SUBSET DOMAIN w |-> SumStep(w, g, s)]

LEMMA TotalRecursion ==
  ASSUME NEW w
  PROVE  Total(w) = (CHOOSE g : Recursion(w, g))[DOMAIN w]
BY DEF Total, MapThenSumSet, MapThenFoldSet, Recursion, SumStep, Chosen

\* The function sum() computes is there.
LEMMA SumsExist ==
  ASSUME NEW S, IsFiniteSet(S), NEW w \in [S -> Int]
  PROVE  \E g \in [SUBSET S -> Int] : Recursion(w, g)
<1> DEFINE Upto(g, n) == \A s \in SUBSET S : Cardinality(s) <= n => g[s] = SumStep(w, g, s)
           B == {n \in Nat : \E g \in [SUBSET S -> Int] : Upto(g, n)}
<1>1. \A s \in SUBSET S : IsFiniteSet(s) /\ Cardinality(s) \in Nat /\ (Cardinality(s) = 0 => s = {})
  <2>1. SUFFICES ASSUME NEW s \in SUBSET S
                 PROVE  IsFiniteSet(s) /\ Cardinality(s) \in Nat /\ (Cardinality(s) = 0 => s = {})
    OBVIOUS
  <2>2. IsFiniteSet(s)
    BY FS_Subset
  <2> QED
    BY <2>2, FS_CardinalityType, FS_EmptySet
<1>2. ASSUME NEW g \in [SUBSET S -> Int], NEW s \in SUBSET S PROVE SumStep(w, g, s) \in Int
  <2>1. CASE s = {}
    BY <2>1 DEF SumStep
  <2>2. CASE s # {}
    <3>1. Chosen(s) \in s
      BY <2>2 DEF Chosen
    <3>2. w[Chosen(s)] \in Int /\ g[s \ {Chosen(s)}] \in Int
      BY <3>1
    <3> QED
      BY <2>2, <3>2 DEF SumStep
  <2> QED
    BY <2>1, <2>2
<1>3. 0 \in B
  <2> DEFINE g == [s \in SUBSET S |-> 0]
  <2>1. g \in [SUBSET S -> Int]
    OBVIOUS
  <2>2. Upto(g, 0)
    <3>1. SUFFICES ASSUME NEW s \in SUBSET S, Cardinality(s) <= 0 PROVE g[s] = SumStep(w, g, s)
      OBVIOUS
    <3>2. s = {}
      BY <1>1, <3>1
    <3> QED
      BY <3>2 DEF SumStep
  <2> QED
    BY <2>1, <2>2
<1>4. ASSUME NEW n \in B PROVE n + 1 \in B
  <2>1. PICK g \in [SUBSET S -> Int] : Upto(g, n)
    BY <1>4
  <2> DEFINE h == [s \in SUBSET S |-> SumStep(w, g, s)]
  <2>2. h \in [SUBSET S -> Int]
    BY <1>2
  <2>3. Upto(h, n + 1)
    <3>1. SUFFICES ASSUME NEW s \in SUBSET S, Cardinality(s) <= n + 1 PROVE h[s] = SumStep(w, h, s)
      OBVIOUS
    <3>2. CASE s = {}
      BY <3>2 DEF SumStep
    <3>3. CASE s # {}
      <4> DEFINE t == s \ {Chosen(s)}
      <4>1. Chosen(s) \in s
        BY <3>3 DEF Chosen
      <4>2. t \in SUBSET S /\ Cardinality(t) = Cardinality(s) - 1
        BY <1>1, <4>1, FS_RemoveElement
      <4>3. Cardinality(t) <= n
        BY <1>1, <1>4, <3>1, <4>2
      <4>4. h[t] = g[t]
        <5>1. g[t] = SumStep(w, g, t)
          BY <2>1, <4>2, <4>3
        <5> HIDE DEF t
        <5> QED
          BY <4>2, <5>1
      <4> QED
        BY <3>3, <4>4 DEF SumStep
    <3> QED
      BY <3>2, <3>3
  <2> HIDE DEF h, Upto
  <2> QED
    BY <1>4, <2>2, <2>3
<1>5. Cardinality(S) \in B
  <2>1. B \in SUBSET Nat /\ Cardinality(S) \in Nat
    BY <1>1
  <2> HIDE DEF B
  <2> QED
    BY <1>3, <1>4, <2>1, SetOfNaturals
<1>6. PICK g \in [SUBSET S -> Int] : Upto(g, Cardinality(S))
  BY <1>5
<1>7. \A s \in SUBSET S : g[s] = SumStep(w, g, s)
  <2>1. SUFFICES ASSUME NEW s \in SUBSET S PROVE Cardinality(s) <= Cardinality(S)
    BY <1>6
  <2> QED
    BY FS_Subset
<1>8. Recursion(w, g)
  BY <1>7 DEF Recursion
<1> QED
  BY <1>8

\* What it computes for a set depends on the values in that set only.
LEMMA SumsAgree ==
  ASSUME NEW S, IsFiniteSet(S), NEW T \in SUBSET S, NEW w, DOMAIN w = S, NEW v, DOMAIN v = T,
         \A i \in T : v[i] = w[i], NEW g, Recursion(w, g), NEW h, Recursion(v, h)
  PROVE  \A t \in SUBSET T : g[t] = h[t]
<1> DEFINE B == {n \in Nat : \A t \in SUBSET T : Cardinality(t) = n => g[t] = h[t]}
<1>1. \A t \in SUBSET T : IsFiniteSet(t) /\ Cardinality(t) \in Nat /\ (Cardinality(t) = 0 <=> t = {})
  <2>1. SUFFICES ASSUME NEW t \in SUBSET T
                 PROVE  IsFiniteSet(t) /\ Cardinality(t) \in Nat /\ (Cardinality(t) = 0 <=> t = {})
    OBVIOUS
  <2>2. IsFiniteSet(t)
    BY FS_Subset
  <2> QED
    BY <2>2, FS_CardinalityType, FS_EmptySet
<1>2. \A t \in SUBSET T : g[t] = SumStep(w, g, t) /\ h[t] = SumStep(v, h, t)
  BY DEF Recursion
<1>3. 0 \in B
  BY <1>1, <1>2 DEF SumStep
<1>4. ASSUME NEW n \in B PROVE n + 1 \in B
  <2>1. SUFFICES ASSUME NEW t \in SUBSET T, Cardinality(t) = n + 1 PROVE g[t] = h[t]
    BY <1>4
  <2>2. t # {} /\ Chosen(t) \in t
    BY <1>1, <1>4, <2>1 DEF Chosen
  <2> DEFINE u == t \ {Chosen(t)}
  <2>3. u \in SUBSET T /\ Cardinality(u) = n
    BY <1>1, <1>4, <2>1, <2>2, FS_RemoveElement
  <2>4. g[u] = h[u]
    <3> HIDE DEF u
    <3> QED
      BY <1>4, <2>3
  <2>5. v[Chosen(t)] = w[Chosen(t)]
    BY <2>2
  <2> QED
    BY <1>2, <2>2, <2>4, <2>5 DEF SumStep
<1>5. \A n \in Nat : n \in B
  <2>1. B \in SUBSET Nat
    OBVIOUS
  <2> HIDE DEF B
  <2> QED
    BY <1>3, <1>4, <2>1, SetOfNaturals
<1> QED
  BY <1>1, <1>5

\* The sum over a part of the arguments.
Part(w, T) == Total([i \in T |-> w[i]])

LEMMA PartIsSum ==
  ASSUME NEW S, IsFiniteSet(S), NEW w \in [S -> Int]
  PROVE  \E g \in [SUBSET S -> Int] : /\ Recursion(w, g)
                                      /\ \A T \in SUBSET S : Part(w, T) = g[T]
<1>1. PICK g \in [SUBSET S -> Int] : Recursion(w, g)
  BY SumsExist
<1>2. ASSUME NEW T \in SUBSET S PROVE Part(w, T) = g[T]
  <2> DEFINE v == [i \in T |-> w[i]]
             h == CHOOSE f : Recursion(v, f)
  <2>1. v \in [T -> Int] /\ DOMAIN v = T /\ \A i \in T : v[i] = w[i]
    OBVIOUS
  <2>2. IsFiniteSet(T)
    BY FS_Subset
  <2> HIDE DEF v
  <2>3. Recursion(v, h)
    <3>1. \E f \in [SUBSET T -> Int] : Recursion(v, f)
      BY <2>1, <2>2, SumsExist
    <3> QED
      BY <3>1
  <2>4. Part(w, T) = h[T]
    BY <2>1, TotalRecursion DEF Part, v
  <2> HIDE DEF h
  <2>5. \A t \in SUBSET T : g[t] = h[t]
    BY <1>1, <2>1, <2>3, SumsAgree
  <2> QED
    BY <2>4, <2>5
<1> QED
  BY <1>1, <1>2

LEMMA PartIsInteger ==
  ASSUME NEW S, IsFiniteSet(S), NEW w \in [S -> Int]
  PROVE  \A T \in SUBSET S : Part(w, T) \in Int
<1>1. PICK g \in [SUBSET S -> Int] : Recursion(w, g) /\ \A U \in SUBSET S : Part(w, U) = g[U]
  BY PartIsSum
<1> QED
  BY <1>1

LEMMA PartOfNothing ==
  ASSUME NEW S, IsFiniteSet(S), NEW w \in [S -> Int]
  PROVE  Part(w, {}) = 0
<1>1. PICK g \in [SUBSET S -> Int] : Recursion(w, g) /\ \A U \in SUBSET S : Part(w, U) = g[U]
  BY PartIsSum
<1>2. {} \in SUBSET DOMAIN w
  OBVIOUS
<1>3. g[{}] = SumStep(w, g, {})
  BY <1>1, <1>2 DEF Recursion
<1> QED
  BY <1>1, <1>3 DEF SumStep

LEMMA ChosenFirst ==
  ASSUME NEW S, IsFiniteSet(S), NEW w \in [S -> Int]
  PROVE  \A T \in SUBSET S : T # {} =>
           Chosen(T) \in T /\ Part(w, T) = w[Chosen(T)] + Part(w, T \ {Chosen(T)})
<1>1. PICK g \in [SUBSET S -> Int] : Recursion(w, g) /\ \A U \in SUBSET S : Part(w, U) = g[U]
  BY PartIsSum
<1>2. SUFFICES ASSUME NEW T \in SUBSET S, T # {}
               PROVE  Chosen(T) \in T /\ Part(w, T) = w[Chosen(T)] + Part(w, T \ {Chosen(T)})
  OBVIOUS
<1>3. g[T] = SumStep(w, g, T)
  BY <1>1 DEF Recursion
<1>4. Chosen(T) \in T
  BY <1>2 DEF Chosen
<1>5. T \ {Chosen(T)} \in SUBSET S
  OBVIOUS
<1> QED
  BY <1>1, <1>2, <1>3, <1>4, <1>5 DEF SumStep

\* Any argument may be counted first.
LEMMA PartWithout ==
  ASSUME NEW S, IsFiniteSet(S), NEW w \in [S -> Int]
  PROVE  \A T \in SUBSET S : \A x \in T : Part(w, T) = w[x] + Part(w, T \ {x})
<1> DEFINE B == {n \in Nat : \A T \in SUBSET S : Cardinality(T) = n =>
                    \A x \in T : Part(w, T) = w[x] + Part(w, T \ {x})}
<1>1. \A T \in SUBSET S : IsFiniteSet(T) /\ Cardinality(T) \in Nat /\ (Cardinality(T) = 0 <=> T = {})
  <2>1. SUFFICES ASSUME NEW T \in SUBSET S
                 PROVE  IsFiniteSet(T) /\ Cardinality(T) \in Nat /\ (Cardinality(T) = 0 <=> T = {})
    OBVIOUS
  <2>2. IsFiniteSet(T)
    BY FS_Subset
  <2> QED
    BY <2>2, FS_CardinalityType, FS_EmptySet
<1>2. \A T \in SUBSET S : T # {} =>
        Chosen(T) \in T /\ Part(w, T) = w[Chosen(T)] + Part(w, T \ {Chosen(T)})
  <2> HIDE DEF B
  <2> QED
    BY ChosenFirst
<1>3. 0 \in B
  BY <1>1
<1>4. ASSUME NEW n \in B PROVE n + 1 \in B
  <2>1. SUFFICES ASSUME NEW T \in SUBSET S, Cardinality(T) = n + 1, NEW x \in T
                 PROVE  Part(w, T) = w[x] + Part(w, T \ {x})
    BY <1>4
  <2> DEFINE c == Chosen(T)
  <2>2. T # {} /\ c \in T /\ Part(w, T) = w[c] + Part(w, T \ {c})
    BY <1>2, <2>1
  <2>3. CASE x = c
    BY <2>2, <2>3
  <2>4. CASE x # c
    <3> HIDE DEF c
    <3>1. T \ {c} \in SUBSET S /\ T \ {x} \in SUBSET S /\ x \in T \ {c} /\ c \in T \ {x}
      BY <2>2, <2>4
    <3>2. Cardinality(T \ {c}) = n /\ Cardinality(T \ {x}) = n
      BY <1>1, <1>4, <2>1, <2>2, FS_RemoveElement
    <3>3. Part(w, T \ {c}) = w[x] + Part(w, (T \ {c}) \ {x})
      BY <1>4, <3>1, <3>2
    <3>4. Part(w, T \ {x}) = w[c] + Part(w, (T \ {x}) \ {c})
      BY <1>4, <3>1, <3>2
    <3>5. (T \ {c}) \ {x} = (T \ {x}) \ {c}
      OBVIOUS
    <3>6. Part(w, (T \ {x}) \ {c}) \in Int
      <4>1. (T \ {x}) \ {c} \in SUBSET S
        OBVIOUS
      <4> QED
        BY <4>1, PartIsInteger
    <3>7. w[x] \in Int /\ w[c] \in Int
      BY <2>1, <2>2
    <3> DEFINE rest == Part(w, (T \ {x}) \ {c})
    <3>8. Part(w, T) = w[c] + (w[x] + rest) /\ Part(w, T \ {x}) = w[c] + rest /\ rest \in Int
      BY <2>2, <3>3, <3>4, <3>5, <3>6
    <3> HIDE DEF rest
    <3> QED
      BY <3>7, <3>8
  <2> QED
    BY <2>3, <2>4
<1>5. \A n \in Nat : n \in B
  <2>1. B \in SUBSET Nat
    OBVIOUS
  <2> HIDE DEF B
  <2> QED
    BY <1>3, <1>4, <2>1, SetOfNaturals
<1> QED
  BY <1>1, <1>5

\* Numbers none of which is negative have a sum that is not.
LEMMA PartIsNatural ==
  ASSUME NEW S, IsFiniteSet(S), NEW w \in [S -> Int], \A i \in S : w[i] \in Nat
  PROVE  \A T \in SUBSET S : Part(w, T) \in Nat
<1>2. Part(w, {}) = 0
  BY PartOfNothing
<1>3. \A T \in SUBSET S : IsFiniteSet(T) /\ Cardinality(T) \in Nat /\ (Cardinality(T) = 0 <=> T = {})
  <2>1. SUFFICES ASSUME NEW T \in SUBSET S
                 PROVE  IsFiniteSet(T) /\ Cardinality(T) \in Nat /\ (Cardinality(T) = 0 <=> T = {})
    OBVIOUS
  <2>2. IsFiniteSet(T)
    BY FS_Subset
  <2> QED
    BY <2>2, FS_CardinalityType, FS_EmptySet
<1> DEFINE B == {n \in Nat : \A T \in SUBSET S : Cardinality(T) = n => Part(w, T) \in Nat}
<1>4. 0 \in B
  BY <1>2, <1>3
<1>5. ASSUME NEW n \in B PROVE n + 1 \in B
  <2>1. SUFFICES ASSUME NEW T \in SUBSET S, Cardinality(T) = n + 1 PROVE Part(w, T) \in Nat
    BY <1>5
  <2>2. PICK x \in T : TRUE
    BY <1>3, <1>5, <2>1
  <2>3. T \ {x} \in SUBSET S /\ Cardinality(T \ {x}) = n
    BY <1>3, <1>5, <2>1, <2>2, FS_RemoveElement
  <2>4. Part(w, T \ {x}) \in Nat /\ w[x] \in Nat
    BY <1>5, <2>2, <2>3
  <2>5. Part(w, T) = w[x] + Part(w, T \ {x})
    <3> HIDE DEF B
    <3> QED
      BY <2>2, PartWithout
  <2> QED
    BY <2>4, <2>5
<1>6. \A n \in Nat : n \in B
  <2>1. B \in SUBSET Nat
    OBVIOUS
  <2> HIDE DEF B
  <2> QED
    BY <1>4, <1>5, <2>1, SetOfNaturals
<1> QED
  BY <1>3, <1>6

------------------------------------------------------------------------------
(***************************************************************************)
(* The inductive invariant                                                 *)
(***************************************************************************)
\* A process that has ended has left nothing behind but the table.
PhaseInv == phase = "gone" => logged = <<>> /\ tasks = <<>>

\* A row that has the identifier of an entry is of the entry's instant.
RowInv == \A r \in db : Len(r.id) = 2 => r.at = r.id[1]

\* There is a row with the identifier of the entry.
Archived(e) == \E r \in db : r.id = Row(e).id

\* What was handed over is archived, has its warning, or still waits for the loop, unless
\* a prune has asked for it.
WaitingInv ==
    \A i \in 1..Len(logged) :
        logged[i].due /\ logged[i].at >= floor =>
            \/ Archived(logged[i])
            \/ logged[i] \in warned
            \/ \E j \in 1..Len(tasks) : tasks[j] = logged[i]

\* Nothing is dated after the clock, and what was logged later is dated no earlier.
ClockInv ==
    /\ \A r \in db : r.at <= now
    /\ \A i \in 1..Len(logged) : logged[i].at <= now
    /\ \A i, j \in 1..Len(logged) : i < j => logged[i].at <= logged[j].at

\* Entries are numbered in the order in which they were logged.
NumberInv ==
    /\ \A i \in 1..Len(logged) : logged[i].n <= count
    /\ \A i, j \in 1..Len(logged) : i < j => logged[i].n < logged[j].n

\* The window is what was logged last.
WindowInv ==
    /\ Len(buffer) <= Len(logged)
    /\ \A k \in 1..Len(buffer) : buffer[k] = logged[Len(logged) - Len(buffer) + k]

\* What waits for the loop has been logged; a row of the log is that of a process beside
\* this one, of an entry of this one, or of one that ended before anything this one has logged.
OriginInv ==
    /\ \A j \in 1..Len(tasks) : \E i \in 1..Len(logged) : tasks[j] = logged[i]
    /\ \A r \in db : r.type = "tool" => Len(r.id) # 2
    /\ \A r \in db : r.type = "log" => Len(r.id) = 2
    /\ \A r \in db : r.type = "log" /\ r.id[2] \notin OtherProcesses =>
        /\ r.id[2] <= run
        /\ r.id[2] < run => \A i \in 1..Len(logged) : r.at <= logged[i].at
        /\ r.id[2] = run /\ phase # "gone" => \E i \in 1..Len(logged) : r = Row(logged[i])

IInv == TypeOK /\ PhaseInv /\ RowInv /\ WaitingInv /\ ClockInv /\ NumberInv /\ WindowInv
        /\ OriginInv /\ IsFiniteSet(db)

------------------------------------------------------------------------------
(* Rows and sequences                                                      *)

LEMMA Bounds ==
  /\ BufferSize \in Nat /\ FileSize \in Nat /\ Retention \in Nat
  /\ MaxEntries \in Nat /\ MaxTime \in Nat /\ MaxRuns \in Nat
  /\ 0 <= BufferSize /\ 0 <= FileSize /\ 1 <= MaxRuns
  BY ArchiveAssumption

\* Newest keeps at most k elements.
LEMMA NewestIsShort ==
  ASSUME NEW S, NEW s \in Seq(S), NEW k \in Nat
  PROVE  Newest(s, k) \in Seq(S) /\ Len(Newest(s, k)) <= k
<1>1. Len(s) \in Nat /\ \A i \in 1..Len(s) : s[i] \in S
  BY LenProperties
<1>2. CASE Len(s) <= k
  BY <1>2 DEF Newest
<1>3. CASE ~(Len(s) <= k)
  <2> DEFINE m == Len(s) - k + 1
             n == Len(s)
  <2>1. m \in Int /\ n \in Int /\ \A i \in m..n : i \in 1..Len(s)
    BY <1>1, <1>3
  <2>2. \A i \in m..n : s[i] \in S
    BY <1>1, <2>1
  <2>3. SubSeq(s, m, n) \in Seq(S) /\ Len(SubSeq(s, m, n)) = IF m <= n THEN n - m + 1 ELSE 0
    <3> HIDE DEF m, n
    <3> QED
      BY <2>1, <2>2, SubSeqProperties
  <2>4. (IF m <= n THEN n - m + 1 ELSE 0) <= k
    BY <1>1, <1>3
  <2> QED
    BY <1>3, <2>3, <2>4 DEF Newest
<1> QED
  BY <1>2, <1>3

LEMMA AppendingOne ==
  ASSUME NEW S, NEW s \in Seq(S), NEW e \in S
  PROVE  /\ Append(s, e) \in Seq(S) /\ Len(Append(s, e)) = Len(s) + 1 /\ Len(s) \in Nat
         /\ \A i \in 1..Len(s) : Append(s, e)[i] = s[i]
         /\ Append(s, e)[Len(s) + 1] = e
  BY AppendProperties, LenProperties

LEMMA TakingOne ==
  ASSUME NEW S, NEW s \in Seq(S), s # <<>>
  PROVE  /\ Tail(s) \in Seq(S) /\ Head(s) \in S /\ Head(s) = s[1]
         /\ Len(s) \in Nat \ {0} /\ Len(Tail(s)) = Len(s) - 1
         /\ \A i \in 1..Len(Tail(s)) : Tail(s)[i] = s[i + 1]
<1>1. Len(s) \in Nat \ {0}
  BY EmptySeq
<1> QED
  BY <1>1, HeadTailProperties

\* INSERT OR IGNORE leaves a row with the identifier, and the rows that were there.
LEMMA Inserting ==
  ASSUME NEW rows, NEW row, \A a, b \in rows : a.id = b.id => a = b
  PROVE  /\ rows \subseteq Insert(rows, row) /\ Insert(rows, row) \subseteq rows \cup {row}
         /\ \E r \in Insert(rows, row) : r.id = row.id
         /\ \A a, b \in Insert(rows, row) : a.id = b.id => a = b
  BY DEF Insert

\* The row of an entry carries its instant; a tool's row has another kind of identifier.
LEMMA RowOfEntry ==
  ASSUME TypeOK, NEW e \in Entries
  PROVE  /\ Row(e) \in Rows /\ Row(e).id = <<e.at, run>> /\ Row(e).at = e.at
         /\ Len(Row(e).id) = 2 /\ Row(e).id[1] = e.at /\ e.at \in Nat
<1>1. e.at \in Nat /\ run \in Nat /\ e.at \in 0..MaxTime /\ e.n \in 1..MaxEntries /\ e.level \in Levels
  BY Bounds DEF TypeOK, Entries
<1>2. <<e.at, run>> \in Seq(Nat) /\ Len(<<e.at, run>>) = 2 /\ <<e.at, run>>[1] = e.at
  BY <1>1
<1> QED
  BY <1>1, <1>2 DEF Row, Rows

LEMMA RowOfTool ==
  ASSUME TypeOK, count < MaxEntries
  PROVE  LET row == [id |-> <<count + 1>>, n |-> count + 1, at |-> now,
                     type |-> "tool", level |-> "info"]
         IN  row \in Rows /\ Len(row.id) = 1
<1>1. count + 1 \in 1..MaxEntries /\ count + 1 \in Nat
  BY Bounds DEF TypeOK
<1>2. <<count + 1>> \in Seq(Nat) /\ Len(<<count + 1>>) = 1
  BY <1>1
<1> QED
  BY <1>1, <1>2 DEF TypeOK, Rows

\* The row of an entry that another process delivers.
OtherRow(at, p, l) ==
    [id |-> <<at, p>>, n |-> count + 1, at |-> at, type |-> "log", level |-> l]

LEMMA RowOfOther ==
  ASSUME TypeOK, OtherDelivers
  PROVE  \E at \in 0..now, p \in OtherProcesses, l \in Levels :
           /\ db' = Insert(db, OtherRow(at, p, l)) /\ floor' = floor
           /\ OtherRow(at, p, l) \in Rows /\ at \in Nat /\ p \in Nat
           /\ Len(OtherRow(at, p, l).id) = 2
           /\ OtherRow(at, p, l).id[1] = at /\ OtherRow(at, p, l).id[2] = p
<1>1. PICK at \in 0..now, p \in OtherProcesses, l \in Levels : db' = Insert(db, OtherRow(at, p, l))
  BY DEF OtherDelivers, OtherRow
<1>2. count + 1 \in 1..MaxEntries /\ now \in 0..MaxTime
  <2>1. count < MaxEntries
    BY DEF OtherDelivers
  <2>2. count \in 0..MaxEntries /\ now \in 0..MaxTime
    BY DEF TypeOK
  <2> QED
    BY <2>1, <2>2, Bounds
<1>3. at \in Nat /\ at \in 0..MaxTime /\ p \in Nat
  <2>1. p \in Nat
    BY ArchiveAssumption
  <2> QED
    BY <1>2, <2>1, Bounds
<1>4. <<at, p>> \in Seq(Nat) /\ Len(<<at, p>>) = 2 /\ <<at, p>>[1] = at /\ <<at, p>>[2] = p
  BY <1>3
<1>5. OtherRow(at, p, l) \in Rows /\ OtherRow(at, p, l).id = <<at, p>>
  BY <1>2, <1>3, <1>4 DEF OtherRow, Rows
<1>6. floor' = floor
  BY DEF OtherDelivers
<1> QED
  BY <1>1, <1>3, <1>4, <1>5, <1>6

------------------------------------------------------------------------------
(* What a step does to the table                                           *)

\* A prune takes the rows before its instant; everything else keeps every row.
Pruned == \E t \in 0..MaxTime : Prune(t)
Grown  == db \subseteq db' /\ floor' = floor

LEMMA TableStep ==
  ASSUME TypeOK, RowInv, [Next]_vars
  PROVE  /\ Pruned \/ Grown
         /\ db' \subseteq Rows /\ floor' \in 0..MaxTime
         /\ \A a, b \in db' : a.id = b.id => a = b
         /\ RowInv'
<1> DEFINE Good == /\ db' \subseteq Rows /\ floor' \in 0..MaxTime
                   /\ \A a, b \in db' : a.id = b.id => a = b
                   /\ RowInv'
<1>1. /\ db \subseteq Rows /\ floor \in 0..MaxTime /\ now \in 0..MaxTime
      /\ \A a, b \in db : a.id = b.id => a = b
      /\ \A r \in db : Len(r.id) = 2 => r.at = r.id[1]
  BY DEF TypeOK, RowInv
<1>2. UNCHANGED <<db, floor>> => Good /\ Grown
  BY <1>1 DEF RowInv, Grown
<1>3. ASSUME NEW row \in Rows, Len(row.id) = 2 => row.at = row.id[1],
             db' = Insert(db, row), floor' = floor
      PROVE  Good /\ Grown
  BY <1>1, <1>3, Inserting DEF RowInv, Grown
<1>4. ASSUME NEW t \in 0..MaxTime, Prune(t) PROVE Good /\ Pruned
  BY <1>1, <1>4 DEF Prune, Kept, RowInv, Pruned
<1>5. CASE ChronicleStart
  <2>1. Cutoff \in 0..MaxTime
    BY <1>1, Bounds DEF Cutoff
  <2> QED
    BY <1>2, <1>4, <1>5, <2>1 DEF ChronicleStart
<1>6. CASE RecordTool
  <2>1. \/ UNCHANGED <<db, floor>>
        \/ /\ db' = Insert(db, [id |-> <<count + 1>>, n |-> count + 1, at |-> now,
                                type |-> "tool", level |-> "info"])
           /\ floor' = floor /\ count < MaxEntries
    BY <1>6 DEF RecordTool
  <2> QED
    BY <1>2, <1>3, <2>1, RowOfTool
<1>7. CASE Deliver
  <2>1. Head(tasks) \in Entries
    BY <1>7, TakingOne DEF Deliver, TypeOK
  <2>2. UNCHANGED <<db, floor>> \/ (db' = Insert(db, Row(Head(tasks))) /\ floor' = floor)
    BY <1>7 DEF Deliver
  <2> QED
    BY <1>2, <1>3, <2>1, <2>2, RowOfEntry
<1>8. ASSUME NEW t \in 0..MaxTime, PruneBefore(t) PROVE Good /\ Pruned
  BY <1>4, <1>8 DEF PruneBefore
<1>9. CASE \/ VisionStart \/ VisionStop \/ ChronicleStop \/ Exit \/ Restart \/ Tick
           \/ (\E l \in Levels, fits \in BOOLEAN : Log(l, fits)) \/ UNCHANGED vars
  BY <1>2, <1>9 DEF VisionStart, VisionStop, ChronicleStop, Exit, Restart, Tick, Log, chronicle, vars
<1>10. CASE OtherDelivers
  <2>1. PICK at \in 0..now, p \in OtherProcesses, l \in Levels :
          /\ db' = Insert(db, OtherRow(at, p, l)) /\ floor' = floor
          /\ OtherRow(at, p, l) \in Rows /\ OtherRow(at, p, l).id[1] = at
    BY <1>10, RowOfOther
  <2>2. OtherRow(at, p, l).at = at
    BY DEF OtherRow
  <2> QED
    BY <1>3, <2>1, <2>2
<1> QED
  BY <1>5, <1>6, <1>7, <1>8, <1>9, <1>10 DEF Next

------------------------------------------------------------------------------
(* Types                                                                   *)

LEMMA NewEntry ==
  ASSUME TypeOK, count < MaxEntries, NEW level \in Levels, NEW fits \in BOOLEAN
  PROVE  [n |-> count + 1, at |-> now, level |-> level, fits |-> fits, due |-> sink] \in Entries
         /\ count + 1 \in 0..MaxEntries
  BY Bounds DEF TypeOK, Entries

LEMMA TypeStep ==
  ASSUME TypeOK, RowInv, [Next]_vars PROVE TypeOK'
<1>1. db' \subseteq Rows /\ floor' \in 0..MaxTime /\ \A a, b \in db' : a.id = b.id => a = b
  BY TableStep
<1>2. <<>> \in Seq(Entries) /\ Len(<<>>) = 0
  BY EmptySeq
<1> USE DEF TypeOK, chronicle, vision
<1>3. CASE ChronicleStart
  BY <1>1, <1>3 DEF ChronicleStart
<1>4. CASE VisionStart \/ VisionStop \/ ChronicleStop
  BY <1>1, <1>4 DEF VisionStart, VisionStop, ChronicleStop
<1>5. ASSUME NEW l \in Levels, NEW fits \in BOOLEAN, Log(l, fits) PROVE TypeOK'
  <2> DEFINE e == [n |-> count + 1, at |-> now, level |-> l, fits |-> fits, due |-> sink]
  <2>1. e \in Entries /\ count + 1 \in 0..MaxEntries
    BY <1>5, NewEntry DEF Log
  <2>2. /\ logged' = Append(logged, e) /\ buffer' = Newest(Append(buffer, e), BufferSize)
        /\ lines' \in {lines, Newest(Append(lines, e), FileSize)}
        /\ tasks' \in {tasks, Append(tasks, e)} /\ count' = count + 1
        /\ UNCHANGED <<run, phase, chronicle, sink, handler, warned, now>>
    BY <1>5 DEF Log
  <2> HIDE DEF e
  <2>3. \A s \in Seq(Entries) : Append(s, e) \in Seq(Entries)
    BY <2>1, AppendingOne
  <2>4. /\ buffer' \in Seq(Entries) /\ Len(buffer') <= BufferSize
        /\ lines' \in Seq(Entries) /\ Len(lines') <= FileSize
    BY <2>2, <2>3, NewestIsShort, Bounds
  <2> QED
    BY <2>1, <2>2, <2>3, <2>4
<1>6. CASE Deliver
  <2>1. tasks' \in Seq(Entries) /\ warned' \subseteq Entries
    BY <1>6, TakingOne DEF Deliver
  <2> QED
    BY <1>1, <1>6, <2>1 DEF Deliver
<1>7. CASE RecordTool \/ OtherDelivers
  <2>1. count' \in 0..MaxEntries
    BY <1>7, Bounds DEF RecordTool, OtherDelivers
  <2> QED
    BY <1>1, <1>7, <2>1 DEF RecordTool, OtherDelivers
<1>8. ASSUME NEW t \in 0..MaxTime, PruneBefore(t) PROVE TypeOK'
  BY <1>1, <1>8 DEF PruneBefore
<1>9. CASE Exit
  <2>1. buffer' = <<>> /\ logged' = <<>> /\ tasks' = <<>> /\ lines' = <<>> /\ warned' = {}
    BY <1>9 DEF Exit
  <2>2. phase' = "gone" /\ store' = "none" /\ sink' = FALSE /\ handler' = FALSE
        /\ UNCHANGED <<run, now, count>>
    BY <1>9 DEF Exit
  <2> QED
    BY <1>1, <1>2, <2>1, <2>2, Bounds
<1>10. CASE Restart
  <2>1. run' \in 1..MaxRuns
    BY <1>10, Bounds DEF Restart
  <2> QED
    BY <1>1, <1>10, <2>1 DEF Restart
<1>11. CASE Tick
  <2>1. now' \in 0..MaxTime
    BY <1>11, Bounds DEF Tick
  <2> QED
    BY <1>1, <1>11, <2>1 DEF Tick
<1>12. CASE UNCHANGED vars
  BY <1>12 DEF vars
<1> QED
  BY <1>3, <1>4, <1>5, <1>6, <1>7, <1>8, <1>9, <1>10, <1>11, <1>12 DEF Next

------------------------------------------------------------------------------
(* Phases                                                                  *)

LEMMA PhaseStep ==
  ASSUME PhaseInv, [Next]_vars PROVE PhaseInv'
<1> USE DEF PhaseInv, chronicle, vision
<1>1. CASE ChronicleStart \/ VisionStart \/ VisionStop \/ ChronicleStop
  BY <1>1 DEF ChronicleStart, VisionStart, VisionStop, ChronicleStop
<1>2. CASE \E l \in Levels, fits \in BOOLEAN : Log(l, fits)
  BY <1>2 DEF Log
<1>3. CASE Deliver \/ RecordTool \/ OtherDelivers \/ \E t \in 0..MaxTime : PruneBefore(t)
  BY <1>3 DEF Deliver, RecordTool, OtherDelivers, PruneBefore
<1>4. CASE Exit \/ Restart \/ Tick \/ UNCHANGED vars
  BY <1>4 DEF Exit, Restart, Tick, vars
<1> QED
  BY <1>1, <1>2, <1>3, <1>4 DEF Next

------------------------------------------------------------------------------
(* What was handed over                                                    *)

\* An archived entry stays archived, unless a prune reaches its instant.
LEMMA ArchivedStays ==
  ASSUME TypeOK, RowInv, [Next]_vars, run' = run, NEW e \in Entries, Archived(e), e.at >= floor'
  PROVE  Archived(e)'
<1>1. PICK r \in db : r.id = Row(e).id
  BY DEF Archived
<1>2. r.at = e.at /\ e.at \in Nat /\ floor \in Nat
  BY <1>1, RowOfEntry, Bounds DEF RowInv, TypeOK
<1>3. CASE Grown
  BY <1>1, <1>3 DEF Grown, Archived, Row
<1>4. CASE Pruned
  <2>1. PICK t \in 0..MaxTime : Prune(t)
    BY <1>4 DEF Pruned
  <2>2. t \in Nat /\ t <= floor' /\ floor <= floor' /\ floor' \in Nat
    BY <1>2, <2>1, Bounds DEF Prune
  <2>3. r \in db' /\ e.at >= floor
    BY <1>1, <1>2, <2>1, <2>2 DEF Prune, Kept
  <2> QED
    BY <1>1, <2>3 DEF Archived, Row
<1> QED
  BY <1>3, <1>4, TableStep

\* floor only rises.
LEMMA FloorRises ==
  ASSUME TypeOK, RowInv, [Next]_vars
  PROVE  floor \in Nat /\ floor' \in Nat /\ floor <= floor'
<1>1. floor \in Nat /\ floor' \in Nat
  BY TableStep, Bounds DEF TypeOK
<1>2. CASE Grown
  BY <1>1, <1>2 DEF Grown
<1>3. CASE Pruned
  BY <1>1, <1>3, Bounds DEF Pruned, Prune
<1> QED
  BY <1>1, <1>2, <1>3, TableStep

\* An entry of before the step is archived or has its warning after it, or was waiting when
\* it began.
LEMMA WasWaiting ==
  ASSUME IInv, [Next]_vars, run' = run, warned \subseteq warned',
         NEW i \in 1..Len(logged), NEW e, e = logged[i], e.due, e.at >= floor'
  PROVE  Archived(e)' \/ e \in warned' \/ \E j \in 1..Len(tasks) : tasks[j] = e
<1>1. TypeOK /\ RowInv /\ WaitingInv
  BY DEF IInv
<1>2. e \in Entries
  BY <1>1, LenProperties DEF TypeOK
<1>3. e.at \in Nat /\ floor \in Nat /\ floor' \in Nat /\ floor <= floor'
  BY <1>1, <1>2, RowOfEntry, FloorRises
<1>4. Archived(e) \/ e \in warned \/ \E j \in 1..Len(tasks) : tasks[j] = e
  BY <1>1, <1>3 DEF WaitingInv
<1>5. CASE Archived(e)
  BY <1>1, <1>2, <1>5, ArchivedStays
<1> QED
  BY <1>4, <1>5

LEMMA WaitingStep ==
  ASSUME IInv, [Next]_vars PROVE WaitingInv'
<1>1. TypeOK /\ PhaseInv /\ RowInv /\ WaitingInv /\ logged \in Seq(Entries) /\ tasks \in Seq(Entries)
  BY DEF IInv, TypeOK
<1> DEFINE Waits(e) == Archived(e)' \/ e \in warned' \/ \E j \in 1..Len(tasks') : tasks'[j] = e
<1>2. SUFFICES ASSUME NEW i \in 1..Len(logged'), NEW e, e = logged'[i], e.due, e.at >= floor'
               PROVE  Waits(e)
  BY DEF WaitingInv, Archived, Row
<1>3. ASSUME UNCHANGED <<run, logged, tasks, warned>> PROVE Waits(e)
  BY <1>2, <1>3, WasWaiting
<1>4. CASE ChronicleStart \/ VisionStart \/ VisionStop \/ ChronicleStop
  BY <1>3, <1>4 DEF ChronicleStart, VisionStart, VisionStop, ChronicleStop, vision
<1>5. ASSUME NEW l \in Levels, NEW fits \in BOOLEAN, Log(l, fits) PROVE Waits(e)
  <2> DEFINE new == [n |-> count + 1, at |-> now, level |-> l, fits |-> fits, due |-> sink]
  <2>1. new \in Entries /\ new.due = sink
    BY <1>1, <1>5, NewEntry DEF Log
  <2>2. /\ logged' = Append(logged, new) /\ tasks' = (IF sink THEN Append(tasks, new) ELSE tasks)
        /\ UNCHANGED <<run, warned>>
    BY <1>5 DEF Log
  <2> HIDE DEF new
  <2>3. /\ Len(logged') = Len(logged) + 1 /\ Len(logged) \in Nat
        /\ \A k \in 1..Len(logged) : logged'[k] = logged[k]
        /\ logged'[Len(logged) + 1] = new
    BY <1>1, <2>1, <2>2, AppendingOne
  <2>4. /\ Len(Append(tasks, new)) = Len(tasks) + 1 /\ Len(tasks) \in Nat
        /\ \A k \in 1..Len(tasks) : Append(tasks, new)[k] = tasks[k]
        /\ Append(tasks, new)[Len(tasks) + 1] = new
    BY <1>1, <2>1, AppendingOne
  <2>5. CASE i \in 1..Len(logged)
    <3>1. Archived(e)' \/ e \in warned' \/ \E j \in 1..Len(tasks) : tasks[j] = e
      BY <1>2, <2>2, <2>3, <2>5, WasWaiting
    <3>2. ASSUME NEW j \in 1..Len(tasks), tasks[j] = e
          PROVE  \E k \in 1..Len(tasks') : tasks'[k] = e
      BY <2>2, <2>4, <3>2
    <3> QED
      BY <3>1, <3>2
  <2>6. CASE i = Len(logged) + 1
    <3>1. e = new /\ sink
      BY <1>2, <2>1, <2>3, <2>6
    <3>2. Len(tasks) + 1 \in 1..Len(tasks')
      BY <2>2, <2>4, <3>1
    <3> QED
      BY <2>2, <2>4, <3>1, <3>2
  <2> QED
    BY <2>3, <2>5, <2>6
<1>6. CASE Deliver
  <2>1. /\ tasks # <<>> /\ tasks' = Tail(tasks) /\ UNCHANGED <<run, logged>>
        /\ warned \subseteq warned'
        /\ db' = Insert(db, Row(Head(tasks))) \/ Head(tasks) \in warned'
    BY <1>6 DEF Deliver
  <2>2. /\ Head(tasks) = tasks[1] /\ Len(tasks) \in Nat \ {0} /\ Len(Tail(tasks)) = Len(tasks) - 1
        /\ \A k \in 1..Len(Tail(tasks)) : Tail(tasks)[k] = tasks[k + 1]
    BY <1>1, <2>1, TakingOne
  <2>3. SUFFICES ASSUME NEW j \in 1..Len(tasks), tasks[j] = e PROVE Waits(e)
    BY <1>2, <2>1, WasWaiting
  <2>4. CASE j = 1
    <3>1. db' = Insert(db, Row(e)) \/ e \in warned'
      BY <2>1, <2>2, <2>3, <2>4
    <3>2. \E r \in Insert(db, Row(e)) : r.id = Row(e).id
      BY <1>1, Inserting DEF TypeOK
    <3>3. Row(e).id = <<e.at, run>> /\ Row(e)'.id = <<e.at, run'>>
      BY DEF Row
    <3> QED
      BY <2>1, <3>1, <3>2, <3>3 DEF Archived
  <2>5. CASE j # 1
    <3>1. j - 1 \in 1..Len(tasks') /\ tasks'[j - 1] = tasks[j]
      BY <2>1, <2>2, <2>5
    <3> QED
      BY <2>3, <3>1
  <2> QED
    BY <2>4, <2>5
<1>7. CASE RecordTool \/ OtherDelivers \/ \E t \in 0..MaxTime : PruneBefore(t)
  BY <1>3, <1>7 DEF RecordTool, OtherDelivers, PruneBefore, vision
<1>8. CASE Exit
  BY <1>2, <1>8, EmptySeq DEF Exit
<1>9. CASE Restart
  <2>1. logged' = <<>> /\ Len(<<>>) = 0
    BY <1>1, <1>9, EmptySeq DEF Restart, PhaseInv, vision
  <2> QED
    BY <1>2, <2>1
<1>10. CASE Tick \/ UNCHANGED vars
  BY <1>3, <1>10 DEF Tick, vars, chronicle, vision
<1> QED
  BY <1>4, <1>5, <1>6, <1>7, <1>8, <1>9, <1>10 DEF Next

------------------------------------------------------------------------------
(* Where rows and entries come from                                        *)

LEMMA NewestIsSuffix ==
  ASSUME NEW S, NEW s \in Seq(S), NEW k \in Nat
  PROVE  /\ Newest(s, k) \in Seq(S) /\ Len(Newest(s, k)) <= Len(s)
         /\ \A j \in 1..Len(Newest(s, k)) : Newest(s, k)[j] = s[Len(s) - Len(Newest(s, k)) + j]
<1>1. Len(s) \in Nat /\ \A i \in 1..Len(s) : s[i] \in S
  BY LenProperties
<1>2. CASE Len(s) <= k
  <2>1. \A j \in 1..Len(s) : Len(s) - Len(s) + j = j
    BY <1>1
  <2> QED
    BY <1>1, <1>2, <2>1 DEF Newest
<1>3. CASE ~(Len(s) <= k)
  <2> DEFINE m == Len(s) - k + 1
             n == Len(s)
  <2>1. m \in Int /\ n \in Int /\ m <= n + 1 /\ (\A i \in m..n : i \in 1..Len(s)) /\ n - k = m - 1
    BY <1>1, <1>3
  <2>2. \A i \in m..n : s[i] \in S
    BY <1>1, <2>1
  <2>3. /\ SubSeq(s, m, n) \in Seq(S)
        /\ Len(SubSeq(s, m, n)) = IF m <= n THEN n - m + 1 ELSE 0
        /\ \A i \in 1..(n - m + 1) : SubSeq(s, m, n)[i] = s[m + i - 1]
    <3> HIDE DEF m, n
    <3> QED
      BY <2>1, <2>2, SubSeqProperties
  <2>4. Len(SubSeq(s, m, n)) = k /\ n - m + 1 = k
    BY <1>1, <1>3, <2>3
  <2>5. Newest(s, k) = SubSeq(s, m, n)
    BY <1>3 DEF Newest
  <2>6. \A j \in 1..k : m + j - 1 = n - k + j
    BY <1>1, <1>3
  <2> QED
    BY <1>1, <1>3, <2>3, <2>4, <2>5, <2>6
<1> QED
  BY <1>2, <1>3

\* A step adds the row of a tool, that of an entry of another process, or that of the entry
\* the loop delivers.
LEMMA NewRows ==
  ASSUME TypeOK, [Next]_vars, NEW r \in db', r \notin db
  PROVE  \/ r.type = "tool" /\ Len(r.id) = 1 /\ r.at = now
         \/ r.type = "log" /\ Len(r.id) = 2 /\ r.id[2] \in OtherProcesses /\ r.at \in 0..now
         \/ /\ tasks # <<>> /\ r = Row(tasks[1]) /\ tasks[1] \in Entries /\ phase # "gone"
            /\ UNCHANGED <<run, logged>>
<1>1. ASSUME db' \subseteq db PROVE FALSE
  BY <1>1
<1>2. CASE RecordTool
  <2>1. /\ db' = Insert(db, [id |-> <<count + 1>>, n |-> count + 1, at |-> now,
                             type |-> "tool", level |-> "info"])
        /\ count < MaxEntries
    BY <1>1, <1>2 DEF RecordTool
  <2>2. r = [id |-> <<count + 1>>, n |-> count + 1, at |-> now, type |-> "tool", level |-> "info"]
    BY <2>1, Inserting DEF TypeOK
  <2> QED
    BY <2>1, <2>2, RowOfTool
<1>3. CASE Deliver
  <2>1. tasks # <<>> /\ Head(tasks) = tasks[1] /\ tasks[1] \in Entries
    BY <1>3, TakingOne DEF Deliver, TypeOK
  <2>2. r = Row(Head(tasks))
    BY <1>1, <1>3, Inserting DEF Deliver, TypeOK
  <2> QED
    BY <1>3, <2>1, <2>2 DEF Deliver
<1>4. CASE ChronicleStart \/ \E t \in 0..MaxTime : PruneBefore(t)
  BY <1>1, <1>4 DEF ChronicleStart, PruneBefore, Prune, Kept
<1>5. CASE \/ VisionStart \/ VisionStop \/ ChronicleStop \/ Exit \/ Restart \/ Tick
           \/ (\E l \in Levels, fits \in BOOLEAN : Log(l, fits)) \/ UNCHANGED vars
  BY <1>1, <1>5 DEF VisionStart, VisionStop, ChronicleStop, Exit, Restart, Tick, Log, chronicle, vars
<1>6. CASE OtherDelivers
  <2>1. PICK at \in 0..now, p \in OtherProcesses, l \in Levels :
          /\ db' = Insert(db, OtherRow(at, p, l))
          /\ Len(OtherRow(at, p, l).id) = 2 /\ OtherRow(at, p, l).id[2] = p
    BY <1>6, RowOfOther
  <2>2. r = OtherRow(at, p, l)
    BY <2>1, Inserting DEF TypeOK
  <2> QED
    BY <2>1, <2>2 DEF OtherRow
<1> QED
  BY <1>2, <1>3, <1>4, <1>5, <1>6 DEF Next

\* Of the entries, a step adds one of its own instant, ends or starts the process, or
\* leaves them and at most delivers the next.
Continues ==
    /\ UNCHANGED <<run, logged, buffer>> /\ (phase' = "gone" <=> phase = "gone") /\ now <= now'
    /\ count <= count'
    /\ tasks' = tasks \/ (tasks # <<>> /\ tasks' = Tail(tasks))
Logs == \E e \in Entries :
    /\ UNCHANGED <<run, phase, now>> /\ phase # "gone" /\ e.at = now
    /\ e.n = count + 1 /\ count' = count + 1
    /\ logged' = Append(logged, e) /\ buffer' = Newest(Append(buffer, e), BufferSize)
    /\ tasks' = tasks \/ tasks' = Append(tasks, e)
Ends ==
    /\ UNCHANGED <<run, now>> /\ phase' = "gone"
    /\ logged' = <<>> /\ buffer' = <<>> /\ tasks' = <<>>
Begins == UNCHANGED <<logged, buffer, tasks, now, db, count>> /\ phase = "gone" /\ run' = run + 1

LEMMA EntryStep ==
  ASSUME TypeOK, [Next]_vars PROVE Continues \/ Logs \/ Ends \/ Begins
<1>1. now \in Nat /\ now <= now /\ count \in Nat /\ count <= count
  BY Bounds DEF TypeOK
<1>2. CASE \/ ChronicleStart \/ VisionStart \/ VisionStop \/ ChronicleStop \/ RecordTool \/ Deliver
           \/ OtherDelivers \/ (\E t \in 0..MaxTime : PruneBefore(t)) \/ UNCHANGED vars
  <2>1. UNCHANGED <<run, logged, buffer, now>> /\ (phase' = "gone" <=> phase = "gone")
    BY <1>2 DEF ChronicleStart, VisionStart, VisionStop, ChronicleStop, RecordTool, Deliver,
                OtherDelivers, PruneBefore, chronicle, vision, vars
  <2>2. tasks' = tasks \/ (tasks # <<>> /\ tasks' = Tail(tasks))
    BY <1>2 DEF ChronicleStart, VisionStart, VisionStop, ChronicleStop, RecordTool, Deliver,
                OtherDelivers, PruneBefore, chronicle, vision, vars
  <2>3. count <= count'
    BY <1>1, <1>2 DEF ChronicleStart, VisionStart, VisionStop, ChronicleStop, RecordTool, Deliver,
                OtherDelivers, PruneBefore, chronicle, vision, vars
  <2> QED
    BY <1>1, <2>1, <2>2, <2>3 DEF Continues
<1>3. CASE Tick
  BY <1>1, <1>3 DEF Tick, Continues, vision, chronicle
<1>4. ASSUME NEW l \in Levels, NEW fits \in BOOLEAN, Log(l, fits) PROVE Logs
  <2> DEFINE e == [n |-> count + 1, at |-> now, level |-> l, fits |-> fits, due |-> sink]
  <2>1. e \in Entries /\ e.at = now /\ e.n = count + 1 /\ count' = count + 1
    BY <1>4, NewEntry DEF Log
  <2>2. /\ logged' = Append(logged, e) /\ buffer' = Newest(Append(buffer, e), BufferSize)
        /\ tasks' = tasks \/ tasks' = Append(tasks, e)
        /\ UNCHANGED <<run, phase, now>> /\ phase # "gone"
    BY <1>4 DEF Log
  <2> HIDE DEF e
  <2> QED
    BY <2>1, <2>2 DEF Logs
<1>5. CASE Exit
  BY <1>5 DEF Exit, Ends
<1>6. CASE Restart
  BY <1>6 DEF Restart, Begins, chronicle, vision
<1> QED
  BY <1>2, <1>3, <1>4, <1>5, <1>6 DEF Next

\* What a step that logs does, place by place.
LEMMA LogsOne ==
  ASSUME TypeOK, TypeOK', NEW e \in Entries, logged' = Append(logged, e)
  PROVE  /\ Len(logged') = Len(logged) + 1 /\ Len(logged) \in Nat
         /\ \A i \in 1..Len(logged) : logged'[i] = logged[i]
         /\ logged'[Len(logged) + 1] = e
         /\ \A i \in 1..Len(logged') : i \in 1..Len(logged) \/ i = Len(logged) + 1
<1>1. /\ Len(logged') = Len(logged) + 1 /\ Len(logged) \in Nat
      /\ \A i \in 1..Len(logged) : logged'[i] = logged[i]
      /\ logged'[Len(logged) + 1] = e
  BY AppendingOne DEF TypeOK
<1> QED
  BY <1>1

LEMMA Instants ==
  ASSUME TypeOK
  PROVE  /\ now \in Nat /\ run \in Nat /\ Len(logged) \in Nat
         /\ \A r \in db : r.at \in Nat
         /\ \A i \in 1..Len(logged) : logged[i] \in Entries /\ logged[i].at \in Nat
<1>1. now \in Nat /\ run \in Nat /\ Len(logged) \in Nat
  BY Bounds, LenProperties DEF TypeOK
<1>2. \A r \in db : r.at \in Nat
  BY Bounds DEF TypeOK, Rows
<1>3. \A i \in 1..Len(logged) : logged[i] \in Entries
  BY LenProperties DEF TypeOK
<1>4. \A e \in Entries : e.at \in Nat
  BY Bounds DEF Entries
<1> QED
  BY <1>1, <1>2, <1>3, <1>4

LEMMA OwnPid ==
  ASSUME TypeOK PROVE run \notin OtherProcesses
<1>1. run \in 1..MaxRuns
  BY DEF TypeOK
<1> QED
  BY <1>1, ArchiveAssumption

LEMMA ClockStep ==
  ASSUME IInv, TypeOK', [Next]_vars PROVE ClockInv'
<1>1. TypeOK /\ ClockInv /\ OriginInv
  BY DEF IInv
<1>2. /\ now \in Nat /\ now' \in Nat /\ Len(logged) \in Nat
      /\ \A i \in 1..Len(logged) : logged[i].at \in Nat
      /\ \A r \in db : r.at \in Nat
  <2>1. now' \in Nat
    BY Bounds DEF TypeOK
  <2> QED
    BY <1>1, <2>1, Instants
<1>3. Continues \/ Logs \/ Ends \/ Begins
  BY <1>1, EntryStep
<1>4. now <= now'
  BY <1>2, <1>3 DEF Continues, Logs, Ends, Begins
<1>5. ASSUME NEW r \in db' PROVE r.at <= now'
  <2>1. CASE r \in db
    BY <1>1, <1>2, <1>4, <2>1 DEF ClockInv
  <2>2. CASE r \notin db /\ r.type = "tool" /\ r.at = now
    BY <1>2, <1>4, <2>2
  <2>3. CASE r \notin db /\ tasks # <<>> /\ r = Row(tasks[1])
    <3>1. 1 \in 1..Len(tasks)
      BY <1>1, <2>3, TakingOne DEF TypeOK
    <3>2. PICK i \in 1..Len(logged) : tasks[1] = logged[i]
      BY <1>1, <3>1 DEF OriginInv
    <3>3. r.at = logged[i].at
      BY <2>3, <3>2 DEF Row
    <3> QED
      BY <1>1, <1>2, <1>4, <3>3 DEF ClockInv
  <2>4. CASE r \in db' /\ r.at \in 0..now
    BY <1>2, <1>4, <2>4
  <2> QED
    BY <1>1, <2>1, <2>2, <2>3, <2>4, NewRows
<1>6. CASE logged' = logged
  BY <1>1, <1>2, <1>4, <1>5, <1>6 DEF ClockInv
<1>7. CASE logged' = <<>>
  <2>1. Len(logged') = 0
    BY <1>7, EmptySeq
  <2> QED
    BY <1>5, <2>1 DEF ClockInv
<1>8. CASE Logs
  <2>1. PICK e \in Entries : e.at = now /\ logged' = Append(logged, e)
    BY <1>8 DEF Logs
  <2>2. /\ Len(logged') = Len(logged) + 1
        /\ \A i \in 1..Len(logged) : logged'[i] = logged[i]
        /\ logged'[Len(logged) + 1] = e
        /\ \A i \in 1..Len(logged') : i \in 1..Len(logged) \/ i = Len(logged) + 1
    BY <1>1, <2>1, LogsOne
  <2>3. \A i \in 1..Len(logged') : logged'[i].at <= now'
    BY <1>1, <1>2, <1>4, <2>1, <2>2 DEF ClockInv
  <2>4. \A i, j \in 1..Len(logged') : i < j => logged'[i].at <= logged'[j].at
    <3>1. SUFFICES ASSUME NEW i \in 1..Len(logged'), NEW j \in 1..Len(logged'), i < j
                   PROVE  logged'[i].at <= logged'[j].at
      OBVIOUS
    <3>2. i \in 1..Len(logged) /\ logged'[i].at = logged[i].at
      BY <1>2, <2>2, <3>1
    <3>3. CASE j \in 1..Len(logged)
      BY <1>1, <2>2, <3>1, <3>2, <3>3 DEF ClockInv
    <3>4. CASE j = Len(logged) + 1
      BY <1>1, <2>1, <2>2, <3>2, <3>4 DEF ClockInv
    <3> QED
      BY <2>2, <3>3, <3>4
  <2> QED
    BY <1>5, <2>3, <2>4 DEF ClockInv
<1> QED
  BY <1>3, <1>6, <1>7, <1>8 DEF Continues, Ends, Begins

LEMMA NumberStep ==
  ASSUME IInv, TypeOK', [Next]_vars PROVE NumberInv'
<1>1. TypeOK /\ NumberInv
  BY DEF IInv
<1>2. /\ count \in Nat /\ count' \in Nat /\ Len(logged) \in Nat
      /\ \A i \in 1..Len(logged) : logged[i].n \in Nat
  <2>1. count \in Nat /\ count' \in Nat
    BY Bounds, <1>1 DEF TypeOK
  <2>2. \A e \in Entries : e.n \in Nat
    BY Bounds DEF Entries
  <2> QED
    BY <1>1, <2>1, <2>2, Instants
<1>3. CASE logged' = logged /\ count <= count'
  BY <1>1, <1>2, <1>3 DEF NumberInv
<1>4. CASE logged' = <<>>
  BY <1>4, EmptySeq DEF NumberInv
<1>5. CASE Logs
  <2>1. PICK e \in Entries : e.n = count + 1 /\ count' = count + 1 /\ logged' = Append(logged, e)
    BY <1>5 DEF Logs
  <2>2. /\ Len(logged') = Len(logged) + 1
        /\ \A i \in 1..Len(logged) : logged'[i] = logged[i]
        /\ logged'[Len(logged) + 1] = e
        /\ \A i \in 1..Len(logged') : i \in 1..Len(logged) \/ i = Len(logged) + 1
    BY <1>1, <2>1, LogsOne
  <2>3. \A i \in 1..Len(logged') : logged'[i].n <= count'
    BY <1>1, <1>2, <2>1, <2>2 DEF NumberInv
  <2>4. ASSUME NEW i \in 1..Len(logged'), NEW j \in 1..Len(logged'), i < j
        PROVE  logged'[i].n < logged'[j].n
    <3>1. i \in 1..Len(logged) /\ logged'[i].n = logged[i].n
      BY <1>2, <2>2, <2>4
    <3>2. CASE j \in 1..Len(logged)
      BY <1>1, <2>2, <2>4, <3>1, <3>2 DEF NumberInv
    <3>3. CASE j = Len(logged) + 1
      BY <1>1, <1>2, <2>1, <2>2, <3>1, <3>3 DEF NumberInv
    <3> QED
      BY <2>2, <3>2, <3>3
  <2> QED
    BY <2>3, <2>4 DEF NumberInv
<1>6. CASE Begins
  BY <1>1, <1>6 DEF Begins, NumberInv
<1> QED
  BY <1>1, <1>3, <1>4, <1>5, <1>6, EntryStep DEF Continues, Ends

LEMMA WindowStep ==
  ASSUME IInv, TypeOK', [Next]_vars PROVE WindowInv'
<1>1. TypeOK /\ WindowInv /\ buffer \in Seq(Entries) /\ logged \in Seq(Entries)
  BY DEF IInv, TypeOK
<1>2. CASE UNCHANGED <<logged, buffer>>
  BY <1>1, <1>2 DEF WindowInv
<1>3. CASE Ends
  <2>1. Len(logged') = 0 /\ Len(buffer') = 0
    BY <1>3, EmptySeq DEF Ends
  <2> QED
    BY <2>1 DEF WindowInv
<1>4. CASE Logs
  <2>1. PICK e \in Entries :
          logged' = Append(logged, e) /\ buffer' = Newest(Append(buffer, e), BufferSize)
    BY <1>4 DEF Logs
  <2> DEFINE s == Append(buffer, e)
  <2>2. /\ s \in Seq(Entries) /\ Len(s) = Len(buffer) + 1 /\ Len(buffer) \in Nat
        /\ \A k \in 1..Len(buffer) : s[k] = buffer[k]
        /\ s[Len(buffer) + 1] = e
    BY <1>1, AppendingOne
  <2>3. /\ Len(logged') = Len(logged) + 1 /\ Len(logged) \in Nat
        /\ \A i \in 1..Len(logged) : logged'[i] = logged[i]
        /\ logged'[Len(logged) + 1] = e
    BY <1>1, <2>1, LogsOne
  <2> HIDE DEF s
  <2>4. ASSUME NEW k \in 1..Len(s) PROVE s[k] = logged'[Len(logged') - Len(s) + k]
    <3>1. CASE k \in 1..Len(buffer)
      <4>1. s[k] = logged[Len(logged) - Len(buffer) + k]
            /\ Len(logged) - Len(buffer) + k \in 1..Len(logged)
        BY <1>1, <2>2, <2>3, <3>1 DEF WindowInv
      <4>2. Len(logged') - Len(s) + k = Len(logged) - Len(buffer) + k
        BY <2>2, <2>3, <3>1
      <4> QED
        BY <2>3, <4>1, <4>2
    <3>2. CASE k = Len(buffer) + 1
      <4>1. Len(logged') - Len(s) + k = Len(logged) + 1
        BY <2>2, <2>3, <3>2
      <4> QED
        BY <2>2, <2>3, <3>2, <4>1
    <3> QED
      BY <2>2, <3>1, <3>2
  <2>5. /\ buffer' \in Seq(Entries) /\ Len(buffer') <= Len(s) /\ Len(buffer') \in Nat
        /\ \A j \in 1..Len(buffer') : buffer'[j] = s[Len(s) - Len(buffer') + j]
    <3>1. buffer' = Newest(s, BufferSize)
      BY <2>1 DEF s
    <3>2. /\ buffer' \in Seq(Entries) /\ Len(buffer') <= Len(s)
          /\ \A j \in 1..Len(buffer') : buffer'[j] = s[Len(s) - Len(buffer') + j]
      <4> DEFINE w == Newest(s, BufferSize)
      <4>1. w \in Seq(Entries) /\ Len(w) <= Len(s) /\ \A j \in 1..Len(w) : w[j] = s[Len(s) - Len(w) + j]
        <5>1. s \in Seq(Entries) /\ BufferSize \in Nat
          BY <2>2, Bounds
        <5> QED
          BY <5>1, NewestIsSuffix, Zenon
      <4> HIDE DEF w
      <4>2. buffer' = w
        BY <3>1 DEF w
      <4> QED
        BY <4>1, <4>2
    <3>3. Len(buffer') \in Nat
      BY <3>2, LenProperties
    <3> QED
      BY <3>2, <3>3
  <2>6. Len(buffer') <= Len(logged')
    BY <1>1, <2>2, <2>3, <2>5 DEF WindowInv
  <2>7. ASSUME NEW j \in 1..Len(buffer')
        PROVE  buffer'[j] = logged'[Len(logged') - Len(buffer') + j]
    <3> DEFINE k == Len(s) - Len(buffer') + j
    <3>1. k \in 1..Len(s) /\ Len(logged') - Len(s) + k = Len(logged') - Len(buffer') + j
      BY <2>2, <2>3, <2>5
    <3>2. buffer'[j] = s[k]
      BY <2>5
    <3> QED
      BY <2>4, <3>1, <3>2
  <2> QED
    BY <2>6, <2>7 DEF WindowInv
<1> QED
  BY <1>1, <1>2, <1>3, <1>4, EntryStep DEF Continues, Begins

LEMMA OriginStep ==
  ASSUME IInv, TypeOK', [Next]_vars PROVE OriginInv'
<1>1. TypeOK /\ PhaseInv /\ ClockInv /\ OriginInv /\ tasks \in Seq(Entries)
  BY DEF IInv, TypeOK
<1>2. /\ now \in Nat /\ run \in Nat /\ Len(logged) \in Nat
      /\ \A i \in 1..Len(logged) : logged[i] \in Entries /\ logged[i].at \in Nat
      /\ \A r \in db : r.at \in Nat
  BY <1>1, Instants
<1>3. Continues \/ Logs \/ Ends \/ Begins
  BY <1>1, EntryStep
<1>4. ASSUME NEW j \in 1..Len(tasks') PROVE \E i \in 1..Len(logged') : tasks'[j] = logged'[i]
  <2>1. CASE UNCHANGED <<tasks, logged>>
    BY <1>1, <2>1 DEF OriginInv
  <2>2. CASE tasks # <<>> /\ tasks' = Tail(tasks) /\ UNCHANGED logged
    <3>1. j + 1 \in 1..Len(tasks) /\ tasks'[j] = tasks[j + 1]
      BY <1>1, <2>2, TakingOne
    <3> QED
      BY <1>1, <2>2, <3>1 DEF OriginInv
  <2>3. CASE Ends
    BY <2>3, EmptySeq DEF Ends
  <2>4. CASE Logs
    <3>1. PICK e \in Entries :
            logged' = Append(logged, e) /\ (tasks' = tasks \/ tasks' = Append(tasks, e))
      BY <2>4 DEF Logs
    <3>2. /\ Len(logged') = Len(logged) + 1
          /\ \A i \in 1..Len(logged) : logged'[i] = logged[i]
          /\ logged'[Len(logged) + 1] = e
      BY <1>1, <3>1, LogsOne
    <3>3. CASE tasks' = tasks
      <4>1. PICK i \in 1..Len(logged) : tasks[j] = logged[i]
        BY <1>1, <3>3 DEF OriginInv
      <4> QED
        BY <1>2, <3>2, <3>3, <4>1
    <3>4. CASE tasks' = Append(tasks, e)
      <4>1. /\ Len(tasks') = Len(tasks) + 1 /\ Len(tasks) \in Nat
            /\ \A k \in 1..Len(tasks) : tasks'[k] = tasks[k]
            /\ tasks'[Len(tasks) + 1] = e
        BY <1>1, <3>4, AppendingOne
      <4>2. CASE j \in 1..Len(tasks)
        <5>1. PICK i \in 1..Len(logged) : tasks[j] = logged[i]
          BY <1>1, <4>2 DEF OriginInv
        <5> QED
          BY <1>2, <3>2, <4>1, <4>2, <5>1
      <4>3. CASE j = Len(tasks) + 1
        <5>1. Len(logged) + 1 \in 1..Len(logged') /\ tasks'[j] = logged'[Len(logged) + 1]
          BY <1>2, <3>2, <4>1, <4>3
        <5> QED
          BY <5>1
      <4> QED
        BY <4>1, <4>2, <4>3
    <3> QED
      BY <3>1, <3>3, <3>4
  <2> QED
    BY <1>3, <2>1, <2>2, <2>3, <2>4 DEF Continues, Begins
<1>5. ASSUME NEW r \in db', r.type = "tool" PROVE Len(r.id) # 2
  <2>1. CASE r \in db
    BY <1>1, <1>5, <2>1 DEF OriginInv
  <2>2. CASE r \notin db
    <3>1. (r.type = "tool" /\ Len(r.id) = 1) \/ r.type = "log" \/ r = Row(tasks[1])
      BY <1>1, <1>5, <2>2, NewRows
    <3>2. Row(tasks[1]).type = "log"
      BY DEF Row
    <3>3. Len(r.id) = 1
      BY <1>5, <3>1, <3>2
    <3> QED
      BY <3>3
  <2> QED
    BY <2>1, <2>2
<1>6. ASSUME NEW r \in db', r.type = "log" PROVE Len(r.id) = 2
  <2>1. CASE r \in db
    BY <1>1, <1>6, <2>1 DEF OriginInv
  <2>2. CASE r \notin db
    BY <1>1, <1>6, <2>2, NewRows, RowOfEntry
  <2> QED
    BY <2>1, <2>2
<1>7. ASSUME NEW r \in db', r.type = "log", r.id[2] \notin OtherProcesses
      PROVE  /\ r.id[2] <= run'
             /\ r.id[2] < run' => \A i \in 1..Len(logged') : r.at <= logged'[i].at
             /\ r.id[2] = run' /\ phase' # "gone" => \E i \in 1..Len(logged') : r = Row(logged[i])'
  <2>1. CASE r \notin db
    <3>1. /\ tasks # <<>> /\ r = Row(tasks[1]) /\ tasks[1] \in Entries /\ UNCHANGED <<run, logged>>
      BY <1>1, <1>7, <2>1, NewRows
    <3>2. 1 \in 1..Len(tasks)
      BY <1>1, <3>1, TakingOne
    <3>3. PICK i \in 1..Len(logged) : tasks[1] = logged[i]
      BY <1>1, <3>2 DEF OriginInv
    <3>4. Len(r.id) = 2 /\ r.id[2] = run
      BY <1>1, <1>2, <3>1, RowOfEntry
    <3>5. r = Row(logged[i])'
      BY <3>1, <3>3 DEF Row
    <3> QED
      BY <1>2, <3>1, <3>3, <3>4, <3>5
  <2>2. CASE r \in db
    <3>1. /\ Len(r.id) = 2 /\ r.id[2] <= run /\ r.at \in Nat /\ r.at <= now
          /\ r.id[2] < run => \A i \in 1..Len(logged) : r.at <= logged[i].at
          /\ r.id[2] = run /\ phase # "gone" => \E i \in 1..Len(logged) : r = Row(logged[i])
      BY <1>1, <1>2, <1>7, <2>2 DEF OriginInv, ClockInv
    <3>2. r.id[2] \in Nat
      <4>1. r.id \in Seq(Nat)
        BY <1>1, <2>2 DEF TypeOK, Rows
      <4> QED
        BY <3>1, <4>1, LenProperties
    <3>3. CASE Continues
      BY <3>1, <3>3 DEF Continues, Row
    <3>4. CASE Ends
      BY <3>1, <3>4, EmptySeq DEF Ends
    <3>5. CASE Begins
      <4>1. Len(logged') = 0
        BY <1>1, <3>5, EmptySeq DEF Begins, PhaseInv
      <4>2. r.id[2] < run' /\ r.id[2] <= run' /\ r.id[2] # run'
        BY <1>2, <3>1, <3>2, <3>5 DEF Begins
      <4> QED
        BY <3>1, <4>1, <4>2
    <3>6. CASE Logs
      <4>1. PICK e \in Entries : e.at = now /\ logged' = Append(logged, e) /\ UNCHANGED <<run, phase>>
        BY <3>6 DEF Logs
      <4>2. /\ Len(logged') = Len(logged) + 1
            /\ \A i \in 1..Len(logged) : logged'[i] = logged[i]
            /\ logged'[Len(logged) + 1] = e
            /\ \A i \in 1..Len(logged') : i \in 1..Len(logged) \/ i = Len(logged) + 1
        BY <1>1, <4>1, LogsOne
      <4>3. r.id[2] < run' => \A i \in 1..Len(logged') : r.at <= logged'[i].at
        BY <3>1, <4>1, <4>2
      <4>4. ASSUME r.id[2] = run', phase' # "gone" PROVE \E i \in 1..Len(logged') : r = Row(logged[i])'
        <5>1. PICK i \in 1..Len(logged) : r = Row(logged[i])
          BY <3>1, <4>1, <4>4
        <5>2. i \in 1..Len(logged') /\ r = Row(logged[i])'
          BY <1>2, <4>1, <4>2, <5>1 DEF Row
        <5> QED
          BY <5>2
      <4> QED
        BY <3>1, <4>1, <4>3, <4>4
    <3> QED
      BY <1>3, <3>3, <3>4, <3>5, <3>6
  <2> QED
    BY <2>1, <2>2
<1> QED
  BY <1>4, <1>5, <1>6, <1>7 DEF OriginInv

LEMMA FiniteStep ==
  ASSUME IsFiniteSet(db), [Next]_vars PROVE IsFiniteSet(db')
<1>1. ASSUME NEW rows \in SUBSET db PROVE IsFiniteSet(rows)
  BY FS_Subset
<1>2. ASSUME NEW row PROVE IsFiniteSet(Insert(db, row))
  BY FS_AddElement DEF Insert
<1>3. CASE RecordTool \/ Deliver \/ OtherDelivers
  BY <1>2, <1>3 DEF RecordTool, Deliver, OtherDelivers
<1>4. CASE ChronicleStart \/ \E t \in 0..MaxTime : PruneBefore(t)
  <2>1. db' \in SUBSET db
    BY <1>4 DEF ChronicleStart, PruneBefore, Prune, Kept
  <2> QED
    BY <1>1, <2>1
<1>5. CASE \/ VisionStart \/ VisionStop \/ ChronicleStop \/ Exit \/ Restart \/ Tick
           \/ (\E l \in Levels, fits \in BOOLEAN : Log(l, fits)) \/ UNCHANGED vars
  BY <1>5 DEF VisionStart, VisionStop, ChronicleStop, Exit, Restart, Tick, Log, chronicle, vars
<1> QED
  BY <1>3, <1>4, <1>5 DEF Next

------------------------------------------------------------------------------
(* The theorems                                                            *)

LEMMA InitIInv ==
  ASSUME Init PROVE IInv
<1>1. <<>> \in Seq(Entries) /\ Len(<<>>) = 0
  BY EmptySeq
<1>2. TypeOK
  <2>1. /\ run = 1 /\ phase = "loaded" /\ store = "none" /\ sink = FALSE /\ handler = FALSE
        /\ now = 0 /\ floor = 0 /\ count = 0
        /\ buffer = <<>> /\ lines = <<>> /\ tasks = <<>> /\ logged = <<>> /\ db = {} /\ warned = {}
    BY DEF Init
  <2>2. run \in 1..MaxRuns /\ now \in 0..MaxTime /\ floor \in 0..MaxTime /\ count \in 0..MaxEntries
    BY <2>1, Bounds
  <2>3. /\ buffer \in Seq(Entries) /\ Len(buffer) <= BufferSize
        /\ lines \in Seq(Entries) /\ Len(lines) <= FileSize
        /\ tasks \in Seq(Entries) /\ logged \in Seq(Entries)
    BY <1>1, <2>1, Bounds
  <2> QED
    BY <2>1, <2>2, <2>3 DEF TypeOK
<1>3. PhaseInv /\ RowInv /\ WaitingInv
  BY <1>1 DEF Init, PhaseInv, RowInv, WaitingInv
<1>4. ClockInv /\ NumberInv /\ WindowInv /\ OriginInv /\ IsFiniteSet(db)
  BY <1>1, FS_EmptySet DEF Init, ClockInv, NumberInv, WindowInv, OriginInv
<1> QED
  BY <1>2, <1>3, <1>4 DEF IInv

LEMMA IInvStep ==
  ASSUME IInv, [Next]_vars PROVE IInv'
<1>1. TypeOK /\ PhaseInv /\ RowInv
  BY DEF IInv
<1>2. TypeOK' /\ PhaseInv' /\ RowInv'
  BY <1>1, TypeStep, PhaseStep, TableStep
<1>3. WaitingInv'
  BY WaitingStep
<1>4. ClockInv' /\ NumberInv' /\ WindowInv' /\ OriginInv' /\ IsFiniteSet(db')
  BY <1>2, ClockStep, NumberStep, WindowStep, OriginStep, FiniteStep DEF IInv
<1> QED
  BY <1>2, <1>3, <1>4 DEF IInv

\* The inductive invariant holds in every reachable state.
THEOREM ArchiveInvariant == Spec => []IInv
<1>1. Init => IInv
  BY InitIInv
<1>2. IInv /\ [Next]_vars => IInv'
  BY IInvStep
<1> QED
  BY <1>1, <1>2, PTL DEF Spec

\* The window and the file stay within their sizes, and no two rows of the table share
\* an identifier (INSERT OR IGNORE, chronicle/storage.py).
THEOREM ArchiveTypeCorrect == Spec => []TypeOK
<1>1. IInv => TypeOK
  BY DEF IInv
<1> QED
  BY <1>1, ArchiveInvariant, PTL

\* When no delivery is waiting, every entry that was handed over has a row or a warning,
\* was pruned, or gave way to an entry of its instant, whatever starts, stops, prunes,
\* exits, failing INSERTs and other processes came between (vision/module.py:203-226).
THEOREM ArchiveLosesNothing == Spec => []LossesAreTold
<1>1. IInv => LossesAreTold
  <2>1. SUFFICES ASSUME IInv, tasks = <<>>, NEW e \in Range(logged), Lost(e)
                 PROVE  \E f \in Range(logged) : f # e /\ f.at = e.at /\ Row(f) \in db
    BY DEF LossesAreTold
  <2>2. /\ TypeOK /\ PhaseInv /\ WaitingInv /\ OriginInv
        /\ logged \in Seq(Entries) /\ DOMAIN logged = 1..Len(logged)
    BY <2>1, LenProperties DEF IInv, TypeOK
  <2>3. PICK i \in 1..Len(logged) : e = logged[i]
    BY <2>2 DEF Range
  <2>4. Len(tasks) = 0 /\ logged # <<>>
    BY <2>1, <2>2, <2>3, EmptySeq
  <2>5. PICK r \in db : r.id = Row(e).id
    BY <2>1, <2>2, <2>3, <2>4 DEF WaitingInv, Lost, Archived
  <2>6. /\ e \in Entries /\ e.at \in Nat /\ run \in Nat /\ r.id = <<e.at, run>>
        /\ Len(r.id) = 2 /\ r.id[2] = run /\ r.type = "log"
    <3>1. e \in Entries /\ run \in Nat
      BY <2>2, <2>3, Instants
    <3>2. r.id = <<e.at, run>> /\ Len(r.id) = 2 /\ e.at \in Nat
      BY <2>2, <2>5, <3>1, RowOfEntry
    <3>3. r.id[2] = run
      BY <3>1, <3>2
    <3>4. r.type # "tool" /\ r.type \in {"log", "tool"}
      BY <2>2, <3>2 DEF OriginInv, TypeOK, Rows
    <3> QED
      BY <3>1, <3>2, <3>3, <3>4
  <2>7. PICK j \in 1..Len(logged) : r = Row(logged[j])
    BY <2>2, <2>4, <2>6, OwnPid DEF OriginInv, PhaseInv
  <2>8. logged[j] \in Entries /\ logged[j].at = e.at
    BY <2>2, <2>6, <2>7, RowOfEntry, LenProperties
  <2> QED
    BY <2>1, <2>2, <2>7, <2>8 DEF Lost, Range
<1> QED
  BY <1>1, ArchiveInvariant, PTL

\* No step removes a row but one older than what a prune has asked for: neither a later
\* entry with the same identifier, nor a stop, a crash or a restart
\* (chronicle/storage.py:133).
THEOREM ArchiveKeepsRows == Spec => RowsAreKept
<1>1. IInv /\ [Next]_vars => [\A r \in db \ db' : r.at < floor']_vars
  <2>1. SUFFICES ASSUME IInv, [Next]_vars, NEW r \in db, r \notin db'
                 PROVE  r.at < floor'
    OBVIOUS
  <2>2. TypeOK /\ RowInv /\ r \in Rows
    BY <2>1 DEF IInv, TypeOK
  <2>3. r.at \in Nat /\ floor \in Nat /\ floor' \in Nat
    BY <2>1, <2>2, FloorRises, Bounds DEF Rows
  <2>4. PICK t \in 0..MaxTime : Prune(t)
    BY <2>1, <2>2, TableStep DEF Grown, Pruned
  <2>5. r.at < t
    BY <2>1, <2>3, <2>4, Bounds DEF Prune, Kept
  <2>6. t <= floor'
    BY <2>3, <2>4, Bounds DEF Prune
  <2> QED
    BY <2>3, <2>5, <2>6
<1> QED
  BY <1>1, ArchiveInvariant, PTL DEF Spec, RowsAreKept

------------------------------------------------------------------------------
(* The window and the archive                                              *)

Newer(places) == {p \in places \X places : p[1] > p[2]}

\* The latest places of the window, one after the other.
LEMMA LatestFirst ==
  ASSUME NEW n \in Nat, NEW places \in SUBSET (1..n)
  PROVE  /\ IsFiniteSet(places) /\ Cardinality(places) \in Nat
         /\ \A k \in 1..Cardinality(places) : Descending(places)[k] \in places
         /\ \A j, k \in 1..Cardinality(places) : j < k => Descending(places)[j] > Descending(places)[k]
         /\ \A j, k \in 1..Cardinality(places) : Descending(places)[j] = Descending(places)[k] => j = k
         /\ \A i \in places : \E k \in 1..Cardinality(places) : Descending(places)[k] = i
<1>1. IsFiniteSet(places)
  <2>1. IsFiniteSet(1..n)
    BY FS_Interval
  <2> QED
    BY <2>1, FS_Subset
<1>2. StrictOrder(places, Newer(places))
  <2>1. \A i, j \in places : <<i, j>> \in Newer(places) <=> i > j
    BY DEF Newer
  <2>2. \A i \in places : i \in Nat
    OBVIOUS
  <2> QED
    BY <2>1, <2>2 DEF StrictOrder, Precedence
<1>3. Descending(places) = Ordered(places, Newer(places))
  BY DEF Descending, Newer
<1>4. /\ Cardinality(places) \in Nat
      /\ \A k \in 1..Cardinality(places) : Descending(places)[k] \in places
  BY <1>1, <1>2, <1>3, PlacesAreTaken
<1>5. /\ \A j, k \in 1..Cardinality(places) :
           j < k => <<Descending(places)[j], Descending(places)[k]>> \in Newer(places)
      /\ \A j, k \in 1..Cardinality(places) : Descending(places)[j] = Descending(places)[k] => j = k
      /\ \A i \in places : \E k \in 1..Cardinality(places) : Descending(places)[k] = i
  BY <1>1, <1>2, <1>3, OrderedIsSorted
<1>6. \A i, j : <<i, j>> \in Newer(places) => i > j
  BY DEF Newer
<1> QED
  BY <1>1, <1>4, <1>5, <1>6

LEMMA WindowIsAnAnswer ==
  ASSUME IInv, NEW l \in Levels, NEW limit \in 1..BufferSize,
         Cardinality({i \in DOMAIN buffer : buffer[i].level = l}) >= limit,
         NEW shown, shown = [i \in DOMAIN Recent(limit, {l}) |-> Row(Recent(limit, {l})[i])],
         Range(shown) \subseteq db
  PROVE  IsAnswer(shown, Matches("log", {l}) \ Foreign, limit)
<1> DEFINE hits == {i \in DOMAIN buffer : buffer[i].level = l}
           size == Cardinality(hits)
           latest == Descending(hits)
           place(b) == Len(logged) - Len(buffer) + b
           rows == [k \in 1..limit |-> Row(logged[place(latest[k])])]
           all == Matches("log", {l}) \ Foreign
<1>1. /\ TypeOK /\ PhaseInv /\ ClockInv /\ NumberInv /\ WindowInv /\ OriginInv /\ IsFiniteSet(db)
      /\ DOMAIN buffer = 1..Len(buffer) /\ Len(buffer) \in Nat
      /\ DOMAIN logged = 1..Len(logged) /\ Len(logged) \in Nat /\ Len(buffer) <= Len(logged)
      /\ run \in Nat /\ limit \in Nat /\ limit >= 1
  <2>1. /\ TypeOK /\ PhaseInv /\ ClockInv /\ NumberInv /\ WindowInv /\ OriginInv /\ IsFiniteSet(db)
        /\ buffer \in Seq(Entries) /\ logged \in Seq(Entries)
    BY DEF IInv, TypeOK
  <2>2. run \in Nat /\ limit \in Nat /\ limit >= 1
    BY <2>1, Instants, Bounds
  <2> QED
    BY <2>1, <2>2, LenProperties DEF WindowInv
<1>2. /\ size \in Nat /\ IsFiniteSet(hits)
      /\ \A k \in 1..size : latest[k] \in hits
      /\ \A j, k \in 1..size : j < k => latest[j] > latest[k]
      /\ \A j, k \in 1..size : latest[j] = latest[k] => j = k
      /\ \A i \in hits : \E k \in 1..size : latest[k] = i
  <2>1. hits \in SUBSET (1..Len(buffer))
    BY <1>1
  <2> HIDE DEF hits
  <2> QED
    BY <1>1, <2>1, LatestFirst
<1>3. size >= limit /\ \A k \in 1..limit : k \in 1..size
  <2>1. size >= limit /\ size \in Nat /\ limit \in Nat
    BY <1>1, <1>2
  <2> HIDE DEF size
  <2> QED
    BY <2>1
<1>4. \A b \in 1..Len(buffer) : place(b) \in 1..Len(logged) /\ buffer[b] = logged[place(b)]
  BY <1>1 DEF WindowInv
<1>5. \A b \in hits : b \in 1..Len(buffer) /\ logged[place(b)].level = l
  BY <1>1, <1>4
<1>6. /\ DOMAIN Recent(limit, {l}) = 1..limit
      /\ \A k \in 1..limit : Recent(limit, {l})[k] = logged[place(latest[k])]
  <2>1. hits = {i \in DOMAIN buffer : buffer[i].level \in {l}}
    OBVIOUS
  <2>2. Smaller(size, limit) = limit
    BY <1>1, <1>2, <1>3 DEF Smaller
  <2>3. Recent(limit, {l}) = [k \in 1..limit |-> buffer[latest[k]]]
    <3>1. Recent(limit, {l}) = [k \in 1..Smaller(size, limit) |-> buffer[latest[k]]]
      BY <2>1 DEF Recent
    <3> QED
      BY <2>2, <3>1
  <2>4. \A k \in 1..limit : buffer[latest[k]] = logged[place(latest[k])]
    BY <1>2, <1>3, <1>4, <1>5
  <2> HIDE DEF hits, latest, size, place
  <2> QED
    BY <2>3, <2>4
<1>7. shown = rows
  BY <1>6
<1>8. \A i \in 1..Len(logged) :
        /\ Row(logged[i]).type = "log" /\ Row(logged[i]).n = logged[i].n
        /\ Row(logged[i]).at = logged[i].at /\ Row(logged[i]).level = logged[i].level
        /\ Row(logged[i]).id[2] \notin OtherProcesses
        /\ logged[i].at \in Nat /\ logged[i].n \in Nat
  <2>1. SUFFICES ASSUME NEW i \in 1..Len(logged)
                 PROVE  /\ logged[i].at \in Nat /\ logged[i].n \in Nat
                        /\ Row(logged[i]).id[2] \notin OtherProcesses
    BY DEF Row
  <2>2. logged[i] \in Entries /\ logged[i].at \in Nat /\ run \in Nat
    BY <1>1, Instants
  <2>3. logged[i].n \in Nat
    BY <2>2, Bounds DEF Entries
  <2>4. Row(logged[i]).id[2] = run
    BY <2>2 DEF Row
  <2> QED
    BY <1>1, <2>2, <2>3, <2>4, OwnPid
<1>9. \A k \in 1..limit : latest[k] \in hits /\ place(latest[k]) \in 1..Len(logged)
  BY <1>2, <1>3, <1>4, <1>5
<1>10. \A k \in 1..limit : rows[k] \in all /\ rows[k].at = logged[place(latest[k])].at
  <2>1. SUFFICES ASSUME NEW k \in 1..limit
                 PROVE  rows[k] \in all /\ rows[k].at = logged[place(latest[k])].at
    OBVIOUS
  <2>2. rows[k] = Row(logged[place(latest[k])]) /\ logged[place(latest[k])].level = l
    BY <1>5, <1>9
  <2>3. rows[k] \in db
    BY <1>7 DEF Range
  <2>4. place(latest[k]) \in 1..Len(logged)
    BY <1>9
  <2> HIDE DEF rows, place, latest
  <2>5. rows[k] \notin Foreign /\ rows[k].at = logged[place(latest[k])].at
    BY <1>8, <2>2, <2>4 DEF Foreign
  <2>6. rows[k].type = "log" /\ rows[k].level = l
    BY <1>8, <2>2, <2>4
  <2> QED
    BY <2>3, <2>5, <2>6 DEF Matches
<1>11. \A i, j \in 1..Len(logged) : Row(logged[i]) = Row(logged[j]) => i = j
  <2>1. SUFFICES ASSUME NEW i \in 1..Len(logged), NEW j \in 1..Len(logged),
                        Row(logged[i]) = Row(logged[j]), i # j
                 PROVE  FALSE
    OBVIOUS
  <2>2. logged[i].n = logged[j].n /\ logged[i].n \in Nat
    BY <1>8, <2>1
  <2>3. i < j \/ j < i
    BY <1>1, <2>1
  <2> QED
    BY <1>1, <2>2, <2>3 DEF NumberInv
<1>12. IsFiniteSet(all) /\ Cardinality(all) \in Nat /\ Cardinality(all) >= limit
  <2>1. IsFiniteSet(all)
    <3>1. all \subseteq db
      BY DEF Matches
    <3> QED
      BY <1>1, <3>1, FS_Subset
  <2>2. rows \in Injection(1..limit, all)
    <3>1. \A j, k \in 1..limit : rows[j] = rows[k] => j = k
      <4>1. SUFFICES ASSUME NEW j \in 1..limit, NEW k \in 1..limit, rows[j] = rows[k] PROVE j = k
        OBVIOUS
      <4>2. place(latest[j]) = place(latest[k])
        BY <1>9, <1>11, <4>1
      <4>3. latest[j] = latest[k]
        BY <1>1, <1>5, <1>9, <4>2
      <4> QED
        BY <1>2, <1>3, <4>3
    <3> HIDE DEF all
    <3> QED
      BY <1>10, <3>1 DEF Injection, IsInjective
  <2>3. Cardinality(1..limit) <= Cardinality(all)
    BY <2>1, <2>2, FS_Injection
  <2>4. Cardinality(all) \in Nat /\ Cardinality(1..limit) = limit
    BY <1>1, <2>1, FS_CardinalityType, FS_Interval
  <2> QED
    BY <1>1, <2>1, <2>3, <2>4
<1>13. DOMAIN rows = 1..limit /\ Len(rows) = limit
  <2>1. DOMAIN rows = 1..limit
    OBVIOUS
  <2>2. rows \in Seq(all)
    <3>1. limit \in Nat /\ \A k \in 1..limit : Row(logged[place(latest[k])]) \in all
      BY <1>1, <1>10
    <3> HIDE DEF all
    <3> QED
      BY <3>1, IsASeq
  <2> HIDE DEF rows, all
  <2>3. DOMAIN rows = 1..Len(rows) /\ Len(rows) \in Nat
    BY <2>2, LenProperties
  <2> QED
    BY <1>1, <2>1, <2>3
<1>14. \A i, j \in 1..limit : i < j => rows[i].at >= rows[j].at
  <2>1. SUFFICES ASSUME NEW i \in 1..limit, NEW j \in 1..limit, i < j PROVE rows[i].at >= rows[j].at
    OBVIOUS
  <2>2. latest[i] > latest[j] /\ latest[i] \in 1..Len(buffer) /\ latest[j] \in 1..Len(buffer)
    BY <1>2, <1>3, <1>5, <1>9, <2>1
  <2>3. place(latest[j]) < place(latest[i])
    BY <1>1, <2>2
  <2>4. logged[place(latest[j])].at <= logged[place(latest[i])].at
    BY <1>1, <1>9, <2>1, <2>3 DEF ClockInv
  <2> QED
    BY <1>8, <1>9, <1>10, <2>1, <2>4
<1>15. ASSUME NEW r \in all, \A k \in 1..limit : rows[k] # r, NEW k \in 1..limit
       PROVE  rows[k].at >= r.at
  <2>1. r \in db /\ r.type = "log" /\ r.level = l /\ r.at \in Nat /\ r.id[2] \notin OtherProcesses
    <3>1. r \in Matches("log", {l}) /\ r \notin Foreign
      BY <1>15
    <3>2. r \in db /\ r.type = "log" /\ r.level = l
      BY <3>1 DEF Matches
    <3>3. r.id[2] \notin OtherProcesses
      BY <3>1, <3>2 DEF Foreign
    <3>4. r.at \in Nat
      BY <1>1, <3>2, Instants
    <3> QED
      BY <3>2, <3>3, <3>4
  <2>2. /\ Len(r.id) = 2 /\ r.id[2] <= run
        /\ r.id[2] < run => \A i \in 1..Len(logged) : r.at <= logged[i].at
        /\ r.id[2] = run /\ phase # "gone" => \E i \in 1..Len(logged) : r = Row(logged[i])
    BY <1>1, <2>1 DEF OriginInv
  <2>3. r.id[2] \in Nat
    <3>1. r.id \in Seq(Nat)
      BY <1>1, <2>1 DEF TypeOK, Rows
    <3> QED
      BY <2>2, <3>1, LenProperties
  <2>4. /\ place(latest[k]) \in 1..Len(logged) /\ rows[k].at = logged[place(latest[k])].at
        /\ logged[place(latest[k])].at \in Nat
    BY <1>8, <1>9, <1>10
  <2>5. CASE r.id[2] < run
    <3>1. \A i \in 1..Len(logged) : r.at <= logged[i].at
      BY <2>2, <2>5
    <3>2. r.at <= logged[place(latest[k])].at
      BY <2>4, <3>1
    <3> QED
      BY <2>1, <2>4, <3>2
  <2>6. CASE r.id[2] = run
    <3>1. phase # "gone"
      <4>1. logged # <<>>
        BY <2>4, EmptySeq
      <4> QED
        BY <1>1, <4>1 DEF PhaseInv
    <3>2. PICK i \in 1..Len(logged) : r = Row(logged[i])
      BY <2>2, <2>6, <3>1
    <3>3. r.at = logged[i].at /\ logged[i].level = l
      BY <1>8, <2>1, <3>2
    <3>4. i <= place(latest[k])
      <4>1. latest[k] \in 1..Len(buffer)
        BY <1>5, <1>9
      <4>2. CASE i <= Len(logged) - Len(buffer)
        BY <1>1, <4>1, <4>2
      <4>3. CASE ~(i <= Len(logged) - Len(buffer))
        <5> DEFINE b == i - (Len(logged) - Len(buffer))
        <5>1. b \in 1..Len(buffer) /\ place(b) = i
          BY <1>1, <4>3
        <5>2. b \in hits
          BY <1>1, <1>4, <3>3, <5>1
        <5>3. PICK m \in 1..size : latest[m] = b
          BY <1>2, <5>2
        <5>4. ~(m \in 1..limit)
          <6>1. SUFFICES ASSUME m \in 1..limit PROVE FALSE
            OBVIOUS
          <6>2. rows[m] = Row(logged[i])
            BY <5>1, <5>3, <6>1
          <6> QED
            BY <1>15, <3>2, <6>1, <6>2
        <5>5. k < m /\ k \in 1..size
          BY <1>1, <1>2, <1>3, <5>4
        <5>6. latest[k] > b
          BY <1>2, <5>3, <5>5
        <5> QED
          BY <1>1, <4>1, <5>1, <5>6
      <4> QED
        BY <4>2, <4>3
    <3>5. logged[i].at <= logged[place(latest[k])].at
      <4> DEFINE j == place(latest[k])
      <4>0. j \in 1..Len(logged) /\ logged[j].at \in Nat /\ i <= j
        BY <2>4, <3>4
      <4>1. /\ j \in 1..Len(logged) /\ logged[j].at \in Nat /\ i <= j
            /\ i \in Int /\ j \in Int
        <5> HIDE DEF j
        <5>1. Len(logged) \in Nat
          BY <1>1
        <5>2. i \in 1..Len(logged)
          BY <3>2
        <5> QED
          BY <4>0, <5>1, <5>2
      <4>2. \A m, n \in 1..Len(logged) : m < n => logged[m].at <= logged[n].at
        BY <1>1 DEF ClockInv
      <4> HIDE DEF j
      <4>3. i = j \/ i < j
        BY <4>1
      <4>4. logged[i].at <= logged[j].at
        BY <4>1, <4>2, <4>3
      <4> QED
        BY <4>4 DEF j
    <3> QED
      BY <2>1, <2>4, <3>3, <3>5
  <2> QED
    BY <1>1, <2>2, <2>3, <2>5, <2>6
<1> HIDE DEF rows, all, place, latest, hits, size
<1>16. IsAnswer(rows, all, limit)
  <2>1. Range(rows) \subseteq all
    BY <1>10, <1>13 DEF Range
  <2>2. IsInjective(rows)
    <3>1. SUFFICES ASSUME NEW a \in 1..limit, NEW b \in 1..limit, rows[a] = rows[b] PROVE a = b
      BY <1>13 DEF IsInjective
    <3>2. place(latest[a]) = place(latest[b])
      BY <1>9, <1>11, <3>1 DEF rows
    <3>3. latest[a] = latest[b]
      BY <1>1, <1>5, <1>9, <3>2 DEF place
    <3> QED
      BY <1>2, <1>3, <3>3
  <2>3. Len(rows) = IF Cardinality(all) < limit THEN Cardinality(all) ELSE limit
    BY <1>1, <1>12, <1>13
  <2>4. \A r \in all \ Range(rows) : \A k \in DOMAIN rows : rows[k].at >= r.at
    BY <1>13, <1>15 DEF Range
  <2> QED
    BY <1>13, <1>14, <2>1, <2>2, <2>3, <2>4 DEF IsAnswer
<1> QED
  BY <1>7, <1>16 DEF all

\* What recent() returns is what a query of the archive for the same severity may
\* return, once the rows of processes beside this one are set aside: the same rows, as many,
\* the newest first and none left out that is newer, for any limit the window can fill
\* with entries that are archived (vision/module.py:233, chronicle/storage.py:80).
THEOREM WindowIsTheArchive == Spec => []WindowAgreesWithArchive
<1>1. IInv => WindowAgreesWithArchive
  BY WindowIsAnAnswer DEF WindowAgreesWithArchive
<1> QED
  BY <1>1, ArchiveInvariant, PTL

------------------------------------------------------------------------------
(* The measurements of Pulse                                               *)

\* What record() may hand to save().
Measurements ==
    {Identified(s, id, at) : s \in Samples \cup {Priced(t) : t \in Samples}, id \in Nat, at \in Nat}

\* The inductive invariant: the units are measurements, and the bound of the calls is kept.
UnitsInv ==
    /\ PulseTypeOK
    /\ units \in Seq(Measurements)
    /\ Len(units) <= Earlier + records

LEMMA MeasurementsAreTyped ==
  ASSUME NEW u \in Measurements
  PROVE  /\ u.id \in Nat /\ u.at \in Nat
         /\ u.tokens_input \in Nat /\ u.tokens_output \in Nat /\ u.wall_clock_s \in Nat
         /\ u.cost \in Nat \cup {NoValue}
<1>1. PICK s \in Samples \cup {Priced(t) : t \in Samples}, id \in Nat, at \in Nat : u = Identified(s, id, at)
  BY DEF Measurements
<1>2. ASSUME NEW t \in Samples
      PROVE  /\ t.tokens_input \in Nat /\ t.tokens_output \in Nat /\ t.wall_clock_s \in Nat
             /\ t.cost \in Nat \cup {NoValue} /\ Pricing[t.model] \in Nat \cup {NoValue}
  BY StoreAssumption
<1>3. /\ s.tokens_input \in Nat /\ s.tokens_output \in Nat /\ s.wall_clock_s \in Nat
      /\ s.cost \in Nat \cup {NoValue}
  <2>1. CASE s \in Samples
    BY <1>2, <2>1
  <2>2. ASSUME NEW t \in Samples, s = Priced(t)
        PROVE  /\ s.tokens_input \in Nat /\ s.tokens_output \in Nat /\ s.wall_clock_s \in Nat
               /\ s.cost \in Nat \cup {NoValue}
    <3>1. CASE s = t
      BY <1>2, <3>1
    <3>2. CASE s # t
      <4> DEFINE c == (t.tokens_input + t.tokens_output) * Pricing[t.model]
      <4>1. Pricing[t.model] \in Nat /\ c \in Nat
        <5>1. Pricing[t.model] \in Nat
          BY <1>2, <2>2, <3>2 DEF Priced
        <5> QED
          BY <1>2, <5>1
      <4>2. s = [t EXCEPT !.cost = c]
        BY <2>2, <3>2 DEF Priced
      <4> HIDE DEF c
      <4> QED
        BY <1>2, <4>1, <4>2
    <3> QED
      BY <3>1, <3>2
  <2> QED
    BY <2>1, <2>2
<1> QED
  BY <1>1, <1>3 DEF Identified

LEMMA UnitsInit ==
  ASSUME PulseInit PROVE UnitsInv /\ Promise!Init
<1>1. /\ Earlier \in Nat /\ MaxRecords \in Nat /\ MaxHours \in Nat /\ System \in Samples
      /\ records = 0 /\ hour = 0 /\ backend \in {"sqlite", "memory"} /\ pulseStore = "none"
  BY StoreAssumption DEF PulseInit
<1>2. CASE units = <<>>
  <2>1. DOMAIN units = {} /\ units \in Seq(Measurements) /\ Len(units) = 0
    BY <1>2, EmptySeq
  <2> QED
    BY <1>1, <1>2, <2>1 DEF UnitsInv, PulseTypeOK, Promise!Init, Range
<1>3. CASE backend = "sqlite" /\ units = [i \in 1..Earlier |-> Identified(System, i, 0)]
  <2>1. \A i \in 1..Earlier : Identified(System, i, 0) \in Measurements /\ Identified(System, i, 0).id = i
    BY <1>1 DEF Measurements, Identified
  <2>2. units \in Seq(Measurements) /\ Len(units) = Earlier /\ DOMAIN units = 1..Earlier
    BY <1>1, <1>3, <2>1, IsASeq
  <2> QED
    BY <1>1, <1>3, <2>1, <2>2 DEF UnitsInv, PulseTypeOK, Promise!Init
<1> QED
  BY <1>2, <1>3 DEF PulseInit

\* A measurement is added under an identifier no other has, or nothing changes.
LEMMA SavedAdds ==
  ASSUME UnitsInv, NEW u \in Measurements
  PROVE  /\ Saved(u) \in Seq(Measurements)
         /\ \/ Saved(u) = units
            \/ /\ Range(Saved(u)) = Range(units) \cup {u}
               /\ \A old \in Range(units) : old.id # u.id
               /\ Len(Saved(u)) = Len(units) + 1
               /\ \A i, j \in DOMAIN Saved(u) : Saved(u)[i].id = Saved(u)[j].id => i = j
<1>1. /\ units \in Seq(Measurements) /\ DOMAIN units = 1..Len(units) /\ Len(units) \in Nat
      /\ \A i, j \in DOMAIN units : units[i].id = units[j].id => i = j
  <2>1. units \in Seq(Measurements) /\ \A i, j \in DOMAIN units : units[i].id = units[j].id => i = j
    BY DEF UnitsInv, PulseTypeOK
  <2> QED
    BY <2>1, LenProperties
<1>2. CASE \E i \in DOMAIN units : units[i].id = u.id
  BY <1>1, <1>2 DEF Saved
<1>3. CASE ~\E i \in DOMAIN units : units[i].id = u.id
  <2> DEFINE s == Append(units, u)
  <2>1. Saved(u) = s
    BY <1>3 DEF Saved
  <2>2. /\ s \in Seq(Measurements) /\ Len(s) = Len(units) + 1 /\ DOMAIN s = 1..Len(s)
        /\ \A i \in 1..Len(units) : s[i] = units[i]
        /\ s[Len(units) + 1] = u
    BY <1>1, AppendProperties, LenProperties
  <2> HIDE DEF s
  <2>3. Range(s) = Range(units) \cup {u}
    <3>1. ASSUME NEW x \in Range(s) PROVE x \in Range(units) \cup {u}
      BY <1>1, <2>2, <3>1 DEF Range
    <3>2. ASSUME NEW x \in Range(units) PROVE x \in Range(s)
      BY <1>1, <2>2, <3>2 DEF Range
    <3>3. u \in Range(s)
      BY <1>1, <2>2 DEF Range
    <3> QED
      BY <3>1, <3>2, <3>3
  <2>4. \A old \in Range(units) : old.id # u.id
    BY <1>3 DEF Range
  <2>5. ASSUME NEW i \in DOMAIN s, NEW j \in DOMAIN s, s[i].id = s[j].id PROVE i = j
    <3>1. \A k \in DOMAIN s : \/ k \in DOMAIN units /\ s[k] = units[k]
                              \/ k = Len(units) + 1 /\ s[k] = u
      BY <1>1, <2>2
    <3> QED
      BY <1>1, <1>3, <2>5, <3>1
  <2> QED
    BY <2>1, <2>2, <2>3, <2>4, <2>5
<1> QED
  BY <1>2, <1>3

LEMMA RecordAdds ==
  ASSUME UnitsInv, NEW s \in Samples, NEW id \in Nat, Record(s, id)
  PROVE  /\ UnitsInv'
         /\ Promise!Add \/ UNCHANGED <<Range(units), backend = "sqlite">>
<1> DEFINE u == Identified(Priced(s), id, hour)
<1>1. u \in Measurements
  <2>1. Priced(s) \in Samples \cup {Priced(t) : t \in Samples} /\ hour \in Nat
    BY StoreAssumption DEF UnitsInv, PulseTypeOK
  <2> QED
    BY <2>1 DEF Measurements
<1>2. /\ units' = (IF pulseStore = "open" THEN Saved(u) ELSE units)
      /\ UNCHANGED <<backend, hour, pulseStore>>
      /\ records' = records + 1 /\ records < MaxRecords
  BY DEF Record
<1>3. /\ backend \in {"sqlite", "memory"} /\ pulseStore \in {"none", "broken", "open"}
      /\ hour \in 0..MaxHours /\ records \in 0..MaxRecords /\ MaxRecords \in Nat /\ Earlier \in Nat
      /\ units \in Seq(Measurements) /\ Len(units) \in Nat /\ Len(units) <= Earlier + records
      /\ backend = "memory" /\ pulseStore = "none" => units = <<>>
      /\ \A i, j \in DOMAIN units : units[i].id = units[j].id => i = j
  BY StoreAssumption, LenProperties DEF UnitsInv, PulseTypeOK
<1> HIDE DEF u
<1>4. CASE units' = units
  BY <1>2, <1>3, <1>4 DEF UnitsInv, PulseTypeOK, Range
<1>5. CASE units' # units
  <2>1. Range(units)' = Range(units') /\ units' = Saved(u) /\ pulseStore = "open"
    BY <1>2, <1>5 DEF Range
  <2>2. /\ Range(units') = Range(units) \cup {u}
        /\ \A old \in Range(units) : old.id # u.id
        /\ units' \in Seq(Measurements)
        /\ Len(units') = Len(units) + 1
        /\ \A i, j \in DOMAIN units' : units'[i].id = units'[j].id => i = j
    BY <1>1, <1>5, <2>1, SavedAdds
  <2>3. UnitsInv'
    <3>1. Len(units') <= Earlier + records' /\ records' \in 0..MaxRecords /\ pulseStore' = "open"
      BY <1>2, <1>3, <2>1, <2>2
    <3>2. Len(units') <= Earlier + MaxRecords
      BY <1>3, <2>2, <3>1
    <3> QED
      BY <1>2, <1>3, <2>2, <3>1, <3>2 DEF UnitsInv, PulseTypeOK
  <2>4. u \in Range(units)' /\ UNCHANGED (backend = "sqlite")
    BY <1>2, <2>1, <2>2
  <2> QED
    BY <2>1, <2>2, <2>3, <2>4 DEF Promise!Add
<1> QED
  BY <1>4, <1>5

LEMMA UnitsStep ==
  ASSUME UnitsInv, [PulseNext]_pulseVars
  PROVE  /\ UnitsInv'
         /\ [Promise!Add \/ Promise!Forget]_<<Range(units), backend = "sqlite">>
<1>1. ASSUME UNCHANGED <<backend, units, records>>, hour' \in 0..MaxHours,
             pulseStore' \in {"none", "broken", "open"},
             backend = "memory" /\ pulseStore' = "none" => units = <<>>
      PROVE  UnitsInv' /\ UNCHANGED <<Range(units), backend = "sqlite">>
  BY <1>1 DEF UnitsInv, PulseTypeOK, Range
<1>2. CASE Start
  BY <1>1, <1>2 DEF Start, UnitsInv, PulseTypeOK
<1>3. CASE UNCHANGED pulseVars
  BY <1>1, <1>3 DEF pulseVars, UnitsInv, PulseTypeOK
<1>4. CASE Stop
  <2>1. CASE backend = "memory"
    <3>1. units' = <<>> /\ pulseStore' = "none" /\ UNCHANGED <<backend, hour, records>>
      BY <1>4, <2>1 DEF Stop
    <3>2. DOMAIN units' = {} /\ units' \in Seq(Measurements) /\ Len(units') = 0
      BY <3>1, EmptySeq
    <3>3. Earlier \in Nat /\ MaxRecords \in Nat
      BY StoreAssumption
    <3> QED
      BY <2>1, <3>1, <3>2, <3>3 DEF UnitsInv, PulseTypeOK, Promise!Forget, Range
  <2>2. CASE backend # "memory"
    BY <1>1, <1>4, <2>2 DEF Stop, UnitsInv, PulseTypeOK
  <2> QED
    BY <2>1, <2>2
<1>5. CASE HoursPass
  <2>1. PICK d \in Steps : hour + d <= MaxHours /\ hour' = hour + d
                           /\ UNCHANGED <<backend, pulseStore, units, records>>
    BY <1>5 DEF HoursPass
  <2>2. hour' \in 0..MaxHours
    BY <2>1, StoreAssumption DEF UnitsInv, PulseTypeOK
  <2> QED
    BY <1>1, <2>1, <2>2 DEF UnitsInv, PulseTypeOK
<1>6. ASSUME NEW id \in {1, Len(units) + 1},
             HandleEvent(id) \/ \E s \in Samples \ {System} : Record(s, id)
      PROVE  /\ UnitsInv'
             /\ Promise!Add \/ UNCHANGED <<Range(units), backend = "sqlite">>
  <2>1. id \in Nat
    BY LenProperties DEF UnitsInv
  <2>2. PICK s \in Samples : Record(s, id)
    BY <1>6, StoreAssumption DEF HandleEvent
  <2> QED
    BY <2>1, <2>2, RecordAdds
<1> QED
  BY <1>2, <1>3, <1>4, <1>5, <1>6 DEF PulseNext

LEMMA UnitsInvariance == PulseSpec => []UnitsInv
<1>1. PulseInit => UnitsInv
  BY UnitsInit
<1>2. UnitsInv /\ [PulseNext]_pulseVars => UnitsInv'
  BY UnitsStep
<1> QED
  BY <1>1, <1>2, PTL DEF PulseSpec

\* No two measurements share an identifier, a store in memory is empty when it is not in
\* use, and there are no more measurements than were made (pulse/storage.py:155-207).
THEOREM MeasurementsAreKept == PulseSpec => []PulseTypeOK
BY UnitsInvariance, PTL DEF UnitsInv

\* Whatever is saved, refused, stopped and started again, a measurement stays what it
\* was, and only a store in memory forgets (pulse/storage.py:155-207): the store of
\* Pulse implements the ledger, for any samples, prices and identifiers.
THEOREM PulseImplementsLedger == PulseSpec => AppendOnly
<1>1. PulseInit => UnitsInv /\ Promise!Init
  BY UnitsInit
<1>2. UnitsInv /\ [PulseNext]_pulseVars =>
        UnitsInv' /\ [Promise!Add \/ Promise!Forget]_<<Range(units), backend = "sqlite">>
  BY UnitsStep
<1> QED
  BY <1>1, <1>2, PTL DEF PulseSpec, AppendOnly, Promise!Spec

------------------------------------------------------------------------------
(* What is listed, and its trend                                           *)

\* The sum over two parts with nothing in common.
LEMMA PartOfBoth ==
  ASSUME NEW S, IsFiniteSet(S), NEW w \in [S -> Int], NEW A \in SUBSET S
  PROVE  \A C \in SUBSET S : A \cap C = {} => Part(w, A \cup C) = Part(w, A) + Part(w, C)
<1> DEFINE B == {n \in Nat : \A C \in SUBSET S : Cardinality(C) = n /\ A \cap C = {} =>
                    Part(w, A \cup C) = Part(w, A) + Part(w, C)}
<1>1. \A T \in SUBSET S : IsFiniteSet(T) /\ Cardinality(T) \in Nat /\ (Cardinality(T) = 0 <=> T = {})
  <2>1. SUFFICES ASSUME NEW T \in SUBSET S
                 PROVE  IsFiniteSet(T) /\ Cardinality(T) \in Nat /\ (Cardinality(T) = 0 <=> T = {})
    OBVIOUS
  <2>2. IsFiniteSet(T)
    BY FS_Subset
  <2> QED
    BY <2>2, FS_CardinalityType, FS_EmptySet
<1>2. \A T \in SUBSET S : Part(w, T) \in Int
  <2> HIDE DEF B
  <2> QED
    BY PartIsInteger
<1>4. 0 \in B
  <2>1. SUFFICES ASSUME NEW C \in SUBSET S, Cardinality(C) = 0
                 PROVE  Part(w, A \cup C) = Part(w, A) + Part(w, C)
    OBVIOUS
  <2>2. C = {} /\ A \cup C = A
    BY <1>1, <2>1
  <2>3. Part(w, {}) = 0
    BY PartOfNothing
  <2> QED
    BY <1>2, <2>2, <2>3
<1>5. ASSUME NEW n \in B PROVE n + 1 \in B
  <2>1. SUFFICES ASSUME NEW C \in SUBSET S, Cardinality(C) = n + 1, A \cap C = {}
                 PROVE  Part(w, A \cup C) = Part(w, A) + Part(w, C)
    BY <1>5
  <2>2. PICK x \in C : TRUE
    BY <1>1, <1>5, <2>1
  <2>3. C \ {x} \in SUBSET S /\ Cardinality(C \ {x}) = n /\ A \cap (C \ {x}) = {}
    BY <1>1, <1>5, <2>1, <2>2, FS_RemoveElement
  <2>4. Part(w, A \cup (C \ {x})) = Part(w, A) + Part(w, C \ {x})
    BY <1>5, <2>3
  <2>5. Part(w, C) = w[x] + Part(w, C \ {x})
    <3> HIDE DEF B
    <3> QED
      BY <2>2, PartWithout
  <2>6. Part(w, A \cup C) = w[x] + Part(w, A \cup (C \ {x}))
    <3>1. (A \cup C) \ {x} = A \cup (C \ {x}) /\ A \cup C \in SUBSET S /\ x \in A \cup C
      BY <2>1, <2>2
    <3> DEFINE D == A \cup C
    <3> HIDE DEF B, D
    <3>2. D \in SUBSET S /\ x \in D
      BY <3>1 DEF D
    <3>3. Part(w, D) = w[x] + Part(w, D \ {x})
      BY <3>2, PartWithout
    <3> QED
      BY <3>1, <3>3 DEF D
  <2>7. Part(w, A) \in Int /\ Part(w, C \ {x}) \in Int /\ w[x] \in Int
    BY <1>2, <2>2, <2>3
  <2> QED
    BY <2>4, <2>5, <2>6, <2>7
<1>6. \A n \in Nat : n \in B
  <2>1. B \in SUBSET Nat
    OBVIOUS
  <2> HIDE DEF B
  <2> QED
    BY <1>4, <1>5, <2>1, SetOfNaturals
<1> QED
  BY <1>1, <1>6

Group(owner, q) == {i \in DOMAIN owner : owner[i] = q}

\* Each of the arguments in S has an owner in Q, and v adds up what an owner has.
Shares(S, w, Q, v, owner) ==
    /\ IsFiniteSet(S) /\ IsFiniteSet(Q)
    /\ w \in [S -> Int] /\ v \in [Q -> Int] /\ owner \in [S -> Q]
    /\ \A q \in Q : v[q] = Part(w, Group(owner, q))

\* A sum may be taken group by group: each argument has one owner.
LEMMA GroupByGroup ==
  ASSUME NEW S, NEW w, NEW Q, NEW v, NEW owner, Shares(S, w, Q, v, owner)
  PROVE  Total(v) = Total(w)
<1>0. /\ IsFiniteSet(S) /\ IsFiniteSet(Q)
      /\ w \in [S -> Int] /\ v \in [Q -> Int] /\ owner \in [S -> Q]
      /\ \A q \in Q : v[q] = Part(w, Group(owner, q))
  BY DEF Shares
<1> DEFINE Owned(U) == {i \in S : owner[i] \in U}
           B == {n \in Nat : \A U \in SUBSET Q : Cardinality(U) = n => Part(v, U) = Part(w, Owned(U))}
<1>1. \A U \in SUBSET Q : IsFiniteSet(U) /\ Cardinality(U) \in Nat /\ (Cardinality(U) = 0 <=> U = {})
  <2>1. SUFFICES ASSUME NEW U \in SUBSET Q
                 PROVE  IsFiniteSet(U) /\ Cardinality(U) \in Nat /\ (Cardinality(U) = 0 <=> U = {})
    OBVIOUS
  <2>2. IsFiniteSet(U)
    BY <1>0, FS_Subset
  <2> QED
    BY <2>2, FS_CardinalityType, FS_EmptySet
<1>2. 0 \in B
  <2>1. Owned({}) = {}
    OBVIOUS
  <2>2. Part(v, {}) = 0
    BY <1>0, PartOfNothing
  <2>3. Part(w, {}) = 0
    BY <1>0, PartOfNothing
  <2> HIDE DEF Owned
  <2> QED
    BY <1>1, <2>1, <2>2, <2>3
<1>3. ASSUME NEW n \in B PROVE n + 1 \in B
  <2>1. SUFFICES ASSUME NEW U \in SUBSET Q, Cardinality(U) = n + 1 PROVE Part(v, U) = Part(w, Owned(U))
    BY <1>3
  <2>2. PICK q \in U : TRUE
    BY <1>1, <1>3, <2>1
  <2>3. U \ {q} \in SUBSET Q /\ Cardinality(U \ {q}) = n
    <3>1. Cardinality(U \ {q}) = Cardinality(U) - 1
      BY <1>1, <2>2, FS_RemoveElement
    <3> QED
      BY <1>1, <1>3, <2>1, <3>1
  <2>4. Part(v, U \ {q}) = Part(w, Owned(U \ {q}))
    <3> HIDE DEF Owned
    <3> QED
      BY <1>3, <2>3
  <2>5. Part(v, U) = v[q] + Part(v, U \ {q})
    BY <1>0, <2>2, PartWithout
  <2> DEFINE mine == Group(owner, q)
  <2>6. /\ mine \in SUBSET S /\ Owned(U \ {q}) \in SUBSET S
        /\ mine \cap Owned(U \ {q}) = {} /\ mine \cup Owned(U \ {q}) = Owned(U)
    BY <1>0, <2>2 DEF Group
  <2>7. Part(w, Owned(U)) = Part(w, mine) + Part(w, Owned(U \ {q}))
    <3> HIDE DEF mine, Owned
    <3>1. \A C \in SUBSET S : mine \cap C = {} => Part(w, mine \cup C) = Part(w, mine) + Part(w, C)
      BY <1>0, <2>6, PartOfBoth
    <3> QED
      BY <2>6, <3>1
  <2>8. v[q] = Part(w, mine)
    BY <1>0, <2>2
  <2> HIDE DEF mine, Owned
  <2> QED
    BY <2>4, <2>5, <2>7, <2>8
<1>4. \A n \in Nat : n \in B
  <2>1. B \in SUBSET Nat
    OBVIOUS
  <2> HIDE DEF B
  <2> QED
    BY <1>2, <1>3, <2>1, SetOfNaturals
<1>5. Part(v, Q) = Part(w, Owned(Q)) /\ Owned(Q) = S
  <2>1. Owned(Q) = S
    BY <1>0
  <2>2. Cardinality(Q) \in Nat
    BY <1>1
  <2> HIDE DEF Owned
  <2> QED
    BY <1>4, <2>1, <2>2
<1>6. Part(v, Q) = Total(v) /\ Part(w, S) = Total(w)
  <2>1. [i \in Q |-> v[i]] = v /\ [i \in S |-> w[i]] = w
    BY <1>0
  <2> QED
    BY <1>0, <2>1 DEF Part
<1> QED
  BY <1>5, <1>6

\* Whatever the order of the units, what is listed are measurements.
LEMMA ListedAreMeasurements ==
  ASSUME units \in Seq(Measurements)
  PROVE  Listed \in Seq(Measurements)
<1> DEFINE S == DOMAIN units
           R == {p \in S \X S : \/ units[p[1]].at > units[p[2]].at
                                \/ units[p[1]].at = units[p[2]].at /\ p[1] < p[2]}
           order == Ordered(S, R)
<1>1. S = 1..Len(units) /\ Len(units) \in Nat /\ \A i \in S : units[i] \in Measurements
  BY LenProperties, ElementOfSeq
<1>2. IsFiniteSet(S) /\ Cardinality(S) = Len(units)
  BY <1>1, FS_Interval
<1>3. StrictOrder(S, R)
  <2>1. \A i \in S : units[i].at \in Int /\ i \in Int
    BY <1>1, MeasurementsAreTyped
  <2> QED
    BY <2>1 DEF StrictOrder, Precedence
<1> HIDE DEF R
<1>4. \A k \in 1..Cardinality(S) : order[k] \in S
  BY <1>2, <1>3, PlacesAreTaken
<1>5. NewestFirst = [k \in 1..Len(units) |-> units[order[k]]]
  BY <1>1 DEF NewestFirst, R
<1>6. \A k \in 1..Len(units) : units[order[k]] \in Measurements
  BY <1>1, <1>2, <1>4
<1> HIDE DEF order
<1>7. NewestFirst \in Seq(Measurements) /\ Len(NewestFirst) = Len(units)
  BY <1>1, <1>5, <1>6, IsASeq
<1>8. Smaller(Len(units), Limit) \in 0..Len(units)
  BY <1>1, StoreAssumption DEF Smaller
<1>9. SubSeq(NewestFirst, 1, Smaller(Len(units), Limit)) \in Seq(Measurements)
  BY <1>1, <1>7, <1>8, SubSeqProperties
<1> QED
  BY <1>9, EmptySeq DEF Listed

LEMMA PeriodIsNatural ==
  ASSUME NEW o, o.at \in Nat, NEW days \in 1..3
  PROVE  PeriodOf(o, days) \in Nat
<1>1. Day(o) \in Nat
  BY DEF Day
<1> QED
  BY <1>1 DEF PeriodOf

\* A period holds the days from its start to the day before its end.
LEMMA PeriodHoldsItsDays ==
  ASSUME NEW u, NEW o, u.at \in Nat, o.at \in Nat, NEW days \in 1..3
  PROVE  PeriodOf(u, days) = PeriodOf(o, days) <=>
            Day(u) \in PeriodOf(o, days)..(PeriodOf(o, days) + days - 1)
<1>1. Day(u) \in Nat /\ Day(o) \in Nat
  BY DEF Day
<1>2. CASE days = 1
  BY <1>1, <1>2 DEF PeriodOf
<1>3. CASE days = 2
  BY <1>1, <1>3 DEF PeriodOf
<1>4. CASE days = 3
  BY <1>1, <1>4 DEF PeriodOf
<1> QED
  BY <1>2, <1>3, <1>4

\* The points of a trend share out any figure of the units.
LEMMA PointsShareOut ==
  ASSUME NEW list \in Seq(Measurements), NEW days \in 1..3, NEW w \in [DOMAIN list -> Int],
         NEW v \in [Trend(list, days) -> Int],
         \A p \in Trend(list, days) : v[p] = Part(w, Bucket(list, days, p.start))
  PROVE  Total(v) = Total(w)
<1> DEFINE S == DOMAIN list
           Q == Trend(list, days)
           Of(i) == Point(list, Bucket(list, days, PeriodOf(list[i], days)), PeriodOf(list[i], days), days)
           owner == [i \in S |-> Of(i)]
<1>1. IsFiniteSet(S)
  <2>1. S = 1..Len(list) /\ Len(list) \in Nat
    BY LenProperties
  <2> QED
    BY <2>1, FS_Interval
<1>2. Q = {Of(i) : i \in S}
  BY DEF Trend
<1>3. IsFiniteSet(Q)
  <2>1. owner \in Surjection(S, Q)
    BY <1>2 DEF Surjection
  <2> HIDE DEF S, Q, owner
  <2> QED
    BY <1>1, <2>1, FS_Surjection
<1>4. owner \in [S -> Q]
  BY <1>2
<1>5. \A p \in Q : v[p] = Part(w, Group(owner, p))
  <2>1. SUFFICES ASSUME NEW p \in Q PROVE Bucket(list, days, p.start) = Group(owner, p)
    OBVIOUS
  <2>2. PICK j \in S : p = Of(j)
    BY <1>2
  <2>3. \A i \in S : Of(i).start = PeriodOf(list[i], days)
    BY DEF Point
  <2>4. \A i \in S : PeriodOf(list[i], days) = PeriodOf(list[j], days) => Of(i) = Of(j)
    OBVIOUS
  <2> HIDE DEF Of
  <2> QED
    BY <2>2, <2>3, <2>4 DEF Bucket, Group
<1> HIDE DEF S, Q, owner, Of
<1> QED
  <2>1. v \in [Q -> Int] /\ w \in [S -> Int]
    BY DEF S, Q
  <2> QED
    <3>1. Shares(S, w, Q, v, owner)
      BY <1>1, <1>3, <1>4, <1>5, <2>1 DEF Shares
    <3> QED
      BY <3>1, GroupByGroup

\* A point counts the units of its period.
LEMMA PointsCount ==
  ASSUME NEW list \in Seq(Measurements), NEW days \in 1..3, NEW p \in Trend(list, days)
  PROVE  /\ p.tokens = Total([i \in Bucket(list, days, p.start) |-> Tokens(list[i])])
         /\ p.cost = Total([i \in Bucket(list, days, p.start) |-> Cost(list[i])])
         /\ p.count = Cardinality({i \in DOMAIN list : Day(list[i]) \in p.start..(p.end - 1)})
<1>1. PICK j \in DOMAIN list : p = Point(list, Bucket(list, days, PeriodOf(list[j], days)),
                                         PeriodOf(list[j], days), days)
  BY DEF Trend
<1>2. p.start = PeriodOf(list[j], days) /\ p.end = p.start + days
      /\ p.count = Cardinality(Bucket(list, days, p.start))
  BY <1>1 DEF Point
<1>3. \A i \in DOMAIN list : list[i].at \in Nat
  <2>1. \A i \in DOMAIN list : list[i] \in Measurements
    BY LenProperties, ElementOfSeq
  <2> QED
    BY <2>1, MeasurementsAreTyped
<1>4. Bucket(list, days, p.start) = {i \in DOMAIN list : Day(list[i]) \in p.start..(p.end - 1)}
  <2>1. \A i \in DOMAIN list : PeriodOf(list[i], days) = PeriodOf(list[j], days) <=>
            Day(list[i]) \in PeriodOf(list[j], days)..(PeriodOf(list[j], days) + days - 1)
    BY <1>3, PeriodHoldsItsDays
  <2>2. p.start \in Nat /\ p.end - 1 = p.start + days - 1
    <3>1. p.start \in Nat
      BY <1>2, <1>3, PeriodIsNatural
    <3> QED
      BY <1>2, <3>1
  <2>3. \A i \in DOMAIN list : PeriodOf(list[i], days) = p.start <=> Day(list[i]) \in p.start..(p.end - 1)
    BY <1>2, <2>1, <2>2
  <2> QED
    BY <2>3 DEF Bucket
<1> QED
  BY <1>1, <1>2, <1>4 DEF Point

\* Each unit is counted in the one period it lies in, so that a trend and the summary tell
\* the same story, however many measurements there are (pulse/analysis.py:110, 150, 217).
LEMMA TrendOfMeasurements ==
  ASSUME units \in Seq(Measurements)
  PROVE  TrendAddsUp
<1> SUFFICES ASSUME NEW days \in 1..3
             PROVE  /\ Total([p \in Trend(Listed, days) |-> p.tokens]) = Summary(Listed).tokens
                    /\ Total([p \in Trend(Listed, days) |-> p.cost]) = Summary(Listed).cost
                    /\ \A p \in Trend(Listed, days) : p.count =
                         Cardinality({i \in DOMAIN Listed : Day(Listed[i]) \in p.start..(p.end - 1)})
  BY DEF TrendAddsUp
<1>1. PICK list \in Seq(Measurements) : list = Listed
  BY ListedAreMeasurements
<1> DEFINE points == Trend(list, days)
           S == DOMAIN list
<1>2. IsFiniteSet(S) /\ \A i \in S : Tokens(list[i]) \in Int /\ Cost(list[i]) \in Int
  <2>1. S = 1..Len(list) /\ Len(list) \in Nat /\ \A i \in S : list[i] \in Measurements
    BY LenProperties, ElementOfSeq
  <2>2. \A i \in S : Tokens(list[i]) \in Int /\ Cost(list[i]) \in Int
    BY <2>1, MeasurementsAreTyped DEF Tokens, Cost
  <2> QED
    BY <2>1, <2>2, FS_Interval
<1>3. \A p \in points : Bucket(list, days, p.start) \in SUBSET S
  BY DEF Bucket
<1>4. \A p \in points :
        /\ p.tokens = Total([i \in Bucket(list, days, p.start) |-> Tokens(list[i])])
        /\ p.cost = Total([i \in Bucket(list, days, p.start) |-> Cost(list[i])])
        /\ p.count = Cardinality({i \in S : Day(list[i]) \in p.start..(p.end - 1)})
  BY PointsCount
<1>5. Total([p \in points |-> p.tokens]) = Total([i \in S |-> Tokens(list[i])])
  <2> DEFINE w == [i \in S |-> Tokens(list[i])]
             v == [p \in points |-> p.tokens]
  <2>1. w \in [S -> Int]
    BY <1>2
  <2>2. \A p \in points : v[p] = Part(w, Bucket(list, days, p.start))
    <3>1. ASSUME NEW p \in points
          PROVE  [i \in Bucket(list, days, p.start) |-> w[i]]
                   = [i \in Bucket(list, days, p.start) |-> Tokens(list[i])]
      BY <1>3
    <3> HIDE DEF points, w
    <3> QED
      BY <1>4, <3>1 DEF Part
  <2>3. v \in [points -> Int]
    <3>1. \A T \in SUBSET S : Part(w, T) \in Int
      <4> HIDE DEF w, S
      <4> QED
        BY <1>2, <2>1, PartIsInteger
    <3> HIDE DEF w, points
    <3> QED
      BY <1>3, <2>2, <3>1
  <2> HIDE DEF v, w
  <2> QED
    <3>1. Total(v) = Total(w)
      BY <2>1, <2>2, <2>3, PointsShareOut
    <3> QED
      BY <3>1 DEF v, w
<1>6. Total([p \in points |-> p.cost]) = Total([i \in S |-> Cost(list[i])])
  <2> DEFINE w == [i \in S |-> Cost(list[i])]
             v == [p \in points |-> p.cost]
  <2>1. w \in [S -> Int]
    BY <1>2
  <2>2. \A p \in points : v[p] = Part(w, Bucket(list, days, p.start))
    <3>1. ASSUME NEW p \in points
          PROVE  [i \in Bucket(list, days, p.start) |-> w[i]]
                   = [i \in Bucket(list, days, p.start) |-> Cost(list[i])]
      BY <1>3
    <3> HIDE DEF points, w
    <3> QED
      BY <1>4, <3>1 DEF Part
  <2>3. v \in [points -> Int]
    <3>1. \A T \in SUBSET S : Part(w, T) \in Int
      <4> HIDE DEF w, S
      <4> QED
        BY <1>2, <2>1, PartIsInteger
    <3> HIDE DEF w, points
    <3> QED
      BY <1>3, <2>2, <3>1
  <2> HIDE DEF v, w
  <2> QED
    <3>1. Total(v) = Total(w)
      BY <2>1, <2>2, <2>3, PointsShareOut
    <3> QED
      BY <3>1 DEF v, w
<1> QED
  BY <1>1, <1>4, <1>5, <1>6 DEF Summary

\* A trend and the summary tell the same story: each unit is counted in the one period it
\* lies in, however many units there are (pulse/analysis.py:110, 150, 217).
THEOREM TrendIsTheSummary == PulseSpec => []TrendAddsUp
<1>1. UnitsInv => TrendAddsUp
  BY TrendOfMeasurements DEF UnitsInv
<1> QED
  BY <1>1, UnitsInvariance, PTL

------------------------------------------------------------------------------
(* Few measurements                                                        *)

Few(list) == list \in Seq(Measurements) /\ Len(list) <= 3

\* The hypotheses that are not, or not sure enough, for the highest priority.
Mild == {Hypothesis("pattern", "cost", c) : c \in 0..899}
          \cup {Hypothesis("opportunity", "model_efficiency", c) : c \in Int}
          \cup {Hypothesis("pattern", "session_behavior", c) : c \in Int}

LEMMA AtMost3 ==
  ASSUME NEW l \in 0..3, NEW c \in Nat
  PROVE  (c <= l => c \in 0..3) /\ (c <= l - 1 => ~(c >= 3))
OBVIOUS

LEMMA ThreeOrFewer ==
  ASSUME NEW l \in 0..3
  PROVE  l \in Int /\ (l < 3 \/ l = 3)
OBVIOUS

LEMMA FewUnits ==
  ASSUME NEW list, Few(list)
  PROVE  /\ DOMAIN list = 1..Len(list) /\ Len(list) \in 0..3
         /\ IsFiniteSet(DOMAIN list) /\ Cardinality(DOMAIN list) = Len(list)
         /\ \A i \in DOMAIN list : list[i] \in Measurements
         /\ \A T \in SUBSET DOMAIN list :
              IsFiniteSet(T) /\ Cardinality(T) \in Nat /\ Cardinality(T) <= Len(list)
<1>1. /\ DOMAIN list = 1..Len(list) /\ Len(list) \in 0..3 /\ Len(list) \in Int
      /\ \A i \in DOMAIN list : list[i] \in Measurements
  <2>1. list \in Seq(Measurements) /\ Len(list) <= 3
    BY DEF Few
  <2>2. Len(list) \in Nat /\ DOMAIN list = 1..Len(list)
    BY <2>1, LenProperties
  <2>3. \A i \in 1..Len(list) : list[i] \in Measurements
    BY <2>1, ElementOfSeq
  <2> QED
    BY <2>1, <2>2, <2>3
<1>2. IsFiniteSet(DOMAIN list) /\ Cardinality(DOMAIN list) = Len(list)
  <2>1. IsFiniteSet(1..Len(list)) /\ Cardinality(1..Len(list)) = (IF 1 > Len(list) THEN 0 ELSE Len(list) - 1 + 1)
    BY <1>1, FS_Interval
  <2> QED
    BY <1>1, <2>1
<1>3. ASSUME NEW T \in SUBSET DOMAIN list
      PROVE  IsFiniteSet(T) /\ Cardinality(T) \in Nat /\ Cardinality(T) <= Len(list)
  <2>1. IsFiniteSet(T) /\ Cardinality(T) <= Len(list)
    BY <1>2, FS_Subset
  <2> QED
    BY <2>1, FS_CardinalityType
<1> QED
  BY <1>1, <1>2, <1>3

LEMMA GreatestOfFew ==
  ASSUME NEW S \in SUBSET (0..3), S # {}
  PROVE  Max(S) \in S
<1>1. \E x \in S : \A y \in S : x >= y
  <2>1. CASE 3 \in S
    BY <2>1
  <2>2. CASE 3 \notin S /\ 2 \in S
    BY <2>2
  <2>3. CASE 3 \notin S /\ 2 \notin S /\ 1 \in S
    BY <2>3
  <2>4. CASE 3 \notin S /\ 2 \notin S /\ 1 \notin S
    <3>1. PICK x \in S : TRUE
      OBVIOUS
    <3>2. \A y \in S : y = 0
      BY <2>4
    <3> QED
      BY <3>1, <3>2
  <2> QED
    BY <2>1, <2>2, <2>3, <2>4
<1> QED
  BY <1>1 DEF Max

LEMMA CapIsInteger ==
  ASSUME NEW score, NEW n, score \in Int, n \in Int
  PROVE  CapUnderpowered(score, n) \in 0..1000
BY DEF CapUnderpowered, Larger, Smaller

LEMMA CapIsSmall ==
  ASSUME NEW score, NEW n, score \in Int, n \in Int, score <= 300
  PROVE  CapUnderpowered(score, n) <= 300
BY DEF CapUnderpowered, Larger, Smaller

LEMMA BaselineIsMild ==
  ASSUME NEW list, Few(list)
  PROVE  Baseline(list) \in Seq(Mild)
<1>1. CASE list = <<>>
  BY <1>1, EmptySeq DEF Baseline
<1>2. CASE list # <<>>
  <2> DEFINE S == {Cardinality(Measured(list, Metrics[k])) : k \in DOMAIN Metrics}
             n == Max(S)
             score == Smaller(100 * n, 1000)
             c == CapUnderpowered(score, n)
  <2>1. \A k \in DOMAIN Metrics : Cardinality(Measured(list, Metrics[k])) \in 0..3
    <3>1. \A k \in DOMAIN Metrics : Measured(list, Metrics[k]) \in SUBSET DOMAIN list
      BY DEF Measured
    <3>2. \A T \in SUBSET DOMAIN list : Cardinality(T) \in 0..3
      <4>1. /\ Len(list) \in 0..3
            /\ \A T \in SUBSET DOMAIN list : Cardinality(T) \in Nat /\ Cardinality(T) <= Len(list)
        BY FewUnits
      <4> QED
        BY <4>1, AtMost3
    <3> QED
      BY <3>1, <3>2
  <2>2. S \in SUBSET (0..3) /\ S # {}
    BY <2>1 DEF Metrics
  <2> HIDE DEF S
  <2>3. n \in 0..3
    BY <2>2, GreatestOfFew
  <2> HIDE DEF n
  <2>4. c \in 0..899
    <3>1. score \in Int /\ score <= 300
      BY <2>3 DEF Smaller
    <3> HIDE DEF score
    <3>2. c \in 0..1000 /\ c <= 300
      <4>1. n \in Int
        BY <2>3
      <4>2. c \in 0..1000
        BY <3>1, <4>1, CapIsInteger
      <4>3. c <= 300
        BY <3>1, <4>1, CapIsSmall
      <4> QED
        BY <4>2, <4>3
    <3> QED
      BY <3>2
  <2>5. Baseline(list) = <<Hypothesis("pattern", "cost", c)>>
    BY <1>2 DEF Baseline, n, S
  <2> HIDE DEF c, score
  <2>6. Hypothesis("pattern", "cost", c) \in Mild
    BY <2>4 DEF Mild
  <2> HIDE DEF Mild
  <2> QED
    BY <2>5, <2>6
<1> QED
  BY <1>1, <1>2

LEMMA NothingAscending == DOMAIN Ascending({}) = 1..0
<1>1. Cardinality({}) = 0
  BY FS_EmptySet
<1> QED
  BY <1>1 DEF Ascending, Ordered

\* No unit has three others to exceed.
LEMMA DegradationIsMild ==
  ASSUME NEW list, Few(list)
  PROVE  Degradation(list) \in Seq(Mild)
<1>1. ASSUME NEW i, NEW metric, i \in Measured(list, metric) PROVE Exceeds(list, i, metric) = "no"
  <2>1. Others(list, i, metric) \in SUBSET (DOMAIN list \ {i}) /\ i \in DOMAIN list
    BY <1>1 DEF Others, Measured
  <2>2. IsFiniteSet(DOMAIN list \ {i}) /\ Cardinality(DOMAIN list \ {i}) = Len(list) - 1
    BY <2>1, FewUnits, FS_RemoveElement
  <2>3. IsFiniteSet(Others(list, i, metric)) /\ Cardinality(Others(list, i, metric)) <= Len(list) - 1
    BY <2>1, <2>2, FS_Subset
  <2>4. Cardinality(Others(list, i, metric)) \in Nat
    BY <2>3, FS_CardinalityType
  <2>5. ~(Cardinality(Others(list, i, metric)) >= 3)
    <3>1. Len(list) \in 0..3
      BY FewUnits
    <3> QED
      BY <2>3, <2>4, <3>1, AtMost3
  <2> QED
    BY <2>5 DEF Exceeds
<1>2. {c \in 1..(Len(list) * Len(Metrics)) :
          /\ Unit(c) \in Measured(list, Metric(c))
          /\ Exceeds(list, Unit(c), Metric(c)) # "no"} = {}
  BY <1>1
<1>3. DOMAIN Degraded(list) = 1..0
  BY <1>2, NothingAscending DEF Degraded
<1> DEFINE Found(c) ==
             Hypothesis("anomaly", IF Metric(c) = "wall_clock_s" THEN "time" ELSE "cost",
                 CapUnderpowered(IF Exceeds(list, Unit(c), Metric(c)) = "far" THEN 900 ELSE 500,
                                 Len(list)))
<1>4. Degradation(list) = [k \in 1..0 |-> Found(Degraded(list)[k])]
  BY <1>3 DEF Degradation
<1> HIDE DEF Found
<1>5. [k \in 1..0 |-> Found(Degraded(list)[k])] \in Seq(Mild)
  BY IsASeq
<1> QED
  BY <1>4, <1>5

\* The averages that are compared: a sum, and a number by which it is divided.
Quotients == Nat \X (Nat \ {0})

LEMMA LessIsTransitive ==
  ASSUME NEW a \in Nat, NEW b \in Nat \ {0}, NEW c \in Nat, NEW d \in Nat \ {0},
         NEW e \in Nat, NEW f \in Nat \ {0}, a * d < c * b, c * f < e * d
  PROVE  a * f < e * b
<1>1. (a * d) * f < (c * b) * f
  OBVIOUS
<1>2. (c * f) * b < (e * d) * b
  OBVIOUS
<1>3. (a * d) * f = d * (a * f) /\ (c * b) * f = (c * f) * b /\ (e * d) * b = d * (e * b)
  OBVIOUS
<1>4. d * (a * f) < d * (e * b)
  <2>1. d * (a * f) \in Int /\ (c * f) * b \in Int /\ d * (e * b) \in Int
    OBVIOUS
  <2> QED
    BY <1>1, <1>2, <1>3, <2>1
<1> DEFINE x == a * f
           y == e * b
<1>5. x \in Int /\ y \in Int /\ d * x < d * y
  BY <1>4
<1> HIDE DEF x, y
<1>6. x < y
  BY <1>5
<1> QED
  BY <1>6 DEF x, y

\* The averages have a least and a greatest, so that they can be compared.
LEMMA ComparisonIsMild ==
  ASSUME NEW A \in SUBSET Quotients, IsFiniteSet(A), A # {}, NEW n \in Int
  PROVE  Comparison(A, n) \in Seq(Mild)
<1> DEFINE Below == {p \in A \X A : Less(p[1], p[2])}
           Above == {p \in A \X A : Less(p[2], p[1])}
           least == CHOOSE p \in A : \A q \in A : ~Less(q, p)
           most == CHOOSE p \in A : \A q \in A : ~Less(p, q)
           over == most[1] * least[2] - least[1] * most[2]
           unit == 5 * least[1] * most[2]
           score == IF unit = 0 THEN 1000 ELSE Smaller(1000, (1000 * over) \div unit)
           c == CapUnderpowered(score, n)
<1>1. \A p \in A : p[1] \in Nat /\ p[2] \in Nat \ {0}
  BY DEF Quotients
<1>2. \A p \in A : ~Less(p, p)
  BY <1>1 DEF Less
<1>3. \A p, q, r \in A : Less(p, q) /\ Less(q, r) => Less(p, r)
  <2>1. SUFFICES ASSUME NEW p \in A, NEW q \in A, NEW r \in A, Less(p, q), Less(q, r)
                 PROVE  Less(p, r)
    OBVIOUS
  <2> QED
    BY <1>1, <2>1, LessIsTransitive DEF Less
<1>4. \A p, q \in A : /\ <<p, q>> \in Below <=> Less(p, q)
                      /\ <<p, q>> \in Above <=> Less(q, p)
  OBVIOUS
<1> HIDE DEF Below, Above
<1>5. Precedence(A, Below)
  BY <1>2, <1>3, <1>4 DEF Precedence
<1>6. Precedence(A, Above)
  BY <1>2, <1>3, <1>4 DEF Precedence
<1>7. least \in A
  <2>1. \E p \in A : \A q \in A : <<q, p>> \notin Below
    BY <1>5, FirstOfAll
  <2>2. \E p \in A : \A q \in A : ~Less(q, p)
    BY <1>4, <2>1
  <2> QED
    BY <2>2
<1>8. most \in A
  <2>1. \E p \in A : \A q \in A : <<q, p>> \notin Above
    BY <1>6, FirstOfAll
  <2>2. \E p \in A : \A q \in A : ~Less(p, q)
    BY <1>4, <2>1
  <2> QED
    BY <2>2
<1>9. Comparison(A, n) = IF over <= 0 THEN <<>>
                         ELSE <<Hypothesis("opportunity", "model_efficiency", c)>>
  BY DEF Comparison
<1> HIDE DEF least, most
<1>10. over \in Int /\ unit \in Nat
  BY <1>1, <1>7, <1>8
<1> HIDE DEF over, unit
<1>11. score \in Int
  BY <1>10 DEF Smaller
<1> HIDE DEF score
<1>12. c \in Int
  <2>1. c \in 0..1000
    BY <1>11, CapIsInteger
  <2> QED
    BY <2>1
<1> HIDE DEF c
<1>13. Hypothesis("opportunity", "model_efficiency", c) \in Mild
  BY <1>12 DEF Mild
<1> HIDE DEF Mild
<1> QED
  BY <1>9, <1>13, EmptySeq

\* Sums of what was measured are natural numbers.
LEMMA SumIsNatural ==
  ASSUME NEW T, IsFiniteSet(T), NEW w, w \in [T -> Nat]
  PROVE  Total(w) \in Nat
<1>1. w \in [T -> Int] /\ \A i \in T : w[i] \in Nat
  OBVIOUS
<1>2. Part(w, T) \in Nat
  BY <1>1, PartIsNatural
<1>3. [i \in T |-> w[i]] = w
  OBVIOUS
<1> QED
  BY <1>2, <1>3 DEF Part

LEMMA AveragesAreQuotients ==
  ASSUME NEW list, Few(list), NEW m \in Models(list)
  PROVE  AverageCost(list, m) \in Quotients /\ AverageTime(list, m) \in Quotients
<1> DEFINE O == OfModel(list, m)
           C == O \cap Measured(list, "cost")
           cost == [i \in C |-> list[i].cost]
           tokens == [i \in O |-> list[i].tokens_input + list[i].tokens_output]
           time == [i \in O |-> list[i].wall_clock_s]
<1>1. \A i \in DOMAIN list : /\ list[i].tokens_input \in Nat /\ list[i].tokens_output \in Nat
                             /\ list[i].wall_clock_s \in Nat /\ list[i].cost \in Nat \cup {NoValue}
  <2>1. \A i \in DOMAIN list : list[i] \in Measurements
    BY FewUnits
  <2> QED
    BY <2>1, MeasurementsAreTyped
<1>2. O \in SUBSET DOMAIN list /\ C \in SUBSET DOMAIN list /\ O # {}
  BY DEF OfModel, Models
<1>3. IsFiniteSet(O) /\ IsFiniteSet(C) /\ Cardinality(O) \in Nat
  <2> HIDE DEF O, C
  <2> QED
    BY <1>2, FewUnits
<1>4. cost \in [C -> Nat]
  BY <1>1, <1>2 DEF Measured
<1>5. tokens \in [O -> Nat] /\ time \in [O -> Nat]
  BY <1>1, <1>2
<1>6. Total(cost) \in Nat /\ Total(tokens) \in Nat /\ Total(time) \in Nat
  <2> HIDE DEF cost, tokens, time, O, C
  <2> QED
    BY <1>3, <1>4, <1>5, SumIsNatural
<1>7. Cardinality(O) # 0
  <2> HIDE DEF O
  <2> QED
    BY <1>2, <1>3, FS_EmptySet
<1>8. AverageCost(list, m) = <<Total(cost), Larger(1, Total(tokens))>>
  BY DEF AverageCost
<1>9. AverageTime(list, m) = <<Total(time), Cardinality(O)>>
  BY DEF AverageTime
<1> HIDE DEF cost, tokens, time, O
<1>10. Larger(1, Total(tokens)) \in Nat \ {0}
  BY <1>6 DEF Larger
<1> QED
  BY <1>3, <1>6, <1>7, <1>8, <1>9, <1>10 DEF Quotients

LEMMA ModelEfficiencyIsMild ==
  ASSUME NEW list, Few(list)
  PROVE  ModelEfficiency(list) \in Seq(Mild)
<1> DEFINE costed == {m \in Models(list) : OfModel(list, m) \cap Measured(list, "cost") # {}}
           Costs == {AverageCost(list, m) : m \in costed}
           Times == {AverageTime(list, m) : m \in Models(list)}
           first == IF Cardinality(costed) < 2 THEN <<>> ELSE Comparison(Costs, Len(list))
           second == IF Cardinality(Models(list)) < 2 THEN <<>> ELSE Comparison(Times, Len(list))
<1>1. IsFiniteSet(Models(list))
  <2>1. [i \in DOMAIN list |-> list[i].model] \in Surjection(DOMAIN list, Models(list))
    BY DEF Surjection, Models
  <2>2. IsFiniteSet(DOMAIN list)
    BY FewUnits
  <2> QED
    BY <2>1, <2>2, FS_Surjection
<1>2. IsFiniteSet(costed) /\ costed \subseteq Models(list)
  <2>1. costed \subseteq Models(list)
    OBVIOUS
  <2> HIDE DEF costed
  <2> QED
    BY <1>1, <2>1, FS_Subset
<1>3. Len(list) \in Int
  BY FewUnits
<1>4. \A M \in SUBSET Models(list) : ~(Cardinality(M) < 2) => M # {}
  <2>1. Cardinality({}) = 0
    BY FS_EmptySet
  <2> QED
    BY <2>1
<1>5. first \in Seq(Mild)
  <2>1. CASE Cardinality(costed) < 2
    BY <2>1, EmptySeq
  <2>2. CASE ~(Cardinality(costed) < 2)
    <3>1. Costs \in SUBSET Quotients
      BY <1>2, AveragesAreQuotients
    <3>2. IsFiniteSet(Costs)
      <4>1. [m \in costed |-> AverageCost(list, m)] \in Surjection(costed, Costs)
        BY DEF Surjection
      <4> HIDE DEF costed, Costs
      <4> QED
        BY <1>2, <4>1, FS_Surjection
    <3>3. Costs # {}
      BY <1>2, <1>4, <2>2
    <3> HIDE DEF costed, Costs
    <3> QED
      BY <1>3, <2>2, <3>1, <3>2, <3>3, ComparisonIsMild
  <2> QED
    BY <2>1, <2>2
<1>6. second \in Seq(Mild)
  <2>1. CASE Cardinality(Models(list)) < 2
    BY <2>1, EmptySeq
  <2>2. CASE ~(Cardinality(Models(list)) < 2)
    <3>1. Times \in SUBSET Quotients
      BY AveragesAreQuotients
    <3>2. IsFiniteSet(Times)
      <4>1. [m \in Models(list) |-> AverageTime(list, m)] \in Surjection(Models(list), Times)
        BY DEF Surjection
      <4> HIDE DEF Times
      <4> QED
        BY <1>1, <4>1, FS_Surjection
    <3>3. Times # {}
      BY <1>4, <2>2
    <3> HIDE DEF Times
    <3> QED
      BY <1>3, <2>2, <3>1, <3>2, <3>3, ComparisonIsMild
  <2> QED
    BY <2>1, <2>2
<1>7. ModelEfficiency(list) = first \o second
  BY DEF ModelEfficiency
<1> HIDE DEF first, second
<1> QED
  BY <1>5, <1>6, <1>7, ConcatProperties

\* With three values the fences are outside the least and the greatest.
LEMMA OutliersAreMild ==
  ASSUME NEW list, Few(list), NEW metric \in {"cost", "wall_clock_s"}
  PROVE  Outliers(list, metric) \in Seq(Mild)
<1> DEFINE M == Measured(list, metric)
           R == {p \in M \X M : \/ list[p[1]][metric] < list[p[2]][metric]
                                \/ list[p[1]][metric] = list[p[2]][metric] /\ p[1] < p[2]}
           order == Ordered(M, R)
           value == Values(list, metric)
           n == Cardinality(M)
<1>1. M \in SUBSET DOMAIN list
  BY DEF Measured
<1>2. IsFiniteSet(M) /\ n \in 0..3
  <2> HIDE DEF M
  <2>1. IsFiniteSet(M) /\ n \in Nat /\ n <= Len(list) /\ Len(list) \in 0..3
    BY <1>1, FewUnits
  <2> QED
    BY <2>1, AtMost3
<1>3. CASE n < 3
  BY <1>3, EmptySeq DEF Outliers
<1>4. CASE n = 3
  <2>1. \A i \in M : list[i][metric] \in Int /\ i \in Int
    <3>1. \A i \in DOMAIN list : list[i] \in Measurements /\ i \in Int
      BY FewUnits
    <3>2. \A i \in DOMAIN list : list[i].cost \in Nat \cup {NoValue} /\ list[i].wall_clock_s \in Nat
      BY <3>1, MeasurementsAreTyped
    <3>3. NoValue \in Int
      BY DEF NoValue
    <3> HIDE DEF M
    <3>4. \A i \in M : list[i].cost \in Int /\ list[i].wall_clock_s \in Int /\ i \in Int
      BY <1>1, <3>1, <3>2, <3>3
    <3>5. CASE metric = "cost"
      BY <3>4, <3>5
    <3>6. CASE metric = "wall_clock_s"
      BY <3>4, <3>6
    <3> QED
      BY <3>5, <3>6
  <2> HIDE DEF M
  <2>2. StrictOrder(M, R)
    BY <2>1 DEF StrictOrder, Precedence
  <2>3. /\ DOMAIN order = 1..3
        /\ \A k \in 1..3 : order[k] \in M
        /\ \A j, k \in 1..3 : j < k => <<order[j], order[k]>> \in R
    <3> HIDE DEF R
    <3>1. DOMAIN order = 1..n /\ \A k \in 1..n : order[k] \in M
      BY <1>2, <2>2, PlacesAreTaken
    <3>2. \A j, k \in 1..n : j < k => <<order[j], order[k]>> \in R
      BY <1>2, <2>2, OrderedIsSorted
    <3> QED
      BY <1>4, <3>1, <3>2
  <2>4. \A i, j \in M : <<i, j>> \in R => list[i][metric] <= list[j][metric]
    <3>1. SUFFICES ASSUME NEW i \in M, NEW j \in M, <<i, j>> \in R PROVE list[i][metric] <= list[j][metric]
      OBVIOUS
    <3> DEFINE a == list[i][metric]
               b == list[j][metric]
    <3>2. a \in Int /\ b \in Int
      BY <2>1
    <3>3. a < b \/ a = b
      BY <3>1
    <3> HIDE DEF a, b
    <3>4. a <= b
      BY <3>2, <3>3
    <3> QED
      BY <3>4 DEF a, b
  <2>5. value = [k \in DOMAIN order |-> 2 * list[order[k]][metric]]
    BY DEF Values, M
  <2> DEFINE spent == [k \in 1..3 |-> list[order[k]][metric]]
  <2> HIDE DEF R, order, value
  <2>6. \A k \in 1..3 : value[k] \in Int /\ value[1] <= value[k] /\ value[k] <= value[3]
    <3>1. \A k \in 1..3 : spent[k] \in Int /\ value[k] = 2 * spent[k]
      BY <2>1, <2>3, <2>5
    <3>2. \A j, k \in 1..3 : j < k => spent[j] <= spent[k]
      BY <2>3, <2>4
    <3> HIDE DEF spent
    <3>3. spent[1] <= spent[2] /\ spent[2] <= spent[3]
      BY <3>2
    <3> QED
      BY <3>1, <3>3
  <2> HIDE DEF spent
  <2>7. Quartiles(3) = <<1, 3>>
    BY DEF Quartiles
  <2> DEFINE first == value[Quartiles(n)[1]]
             third == value[Quartiles(n)[2]]
             out == {k \in 1..n : \/ 2 * value[k] < 2 * first - 3 * (third - first)
                                  \/ 2 * value[k] > 2 * third + 3 * (third - first)}
             median == (value[(n + 1) \div 2] + value[n \div 2 + 1]) \div 2
             Distance(k) == Absolute(value[k] - median)
             farthest == Larger(Distance(1), Distance(n))
             Found(k) == Hypothesis("anomaly", IF metric = "cost" THEN "cost" ELSE "time",
                           CapUnderpowered((1000 * (farthest - Distance(Ascending(out)[k]))) \div farthest, n))
  <2>8. out = {}
    <3>1. first = value[1] /\ third = value[3]
      BY <1>4, <2>7
    <3> HIDE DEF first, third
    <3>2. ASSUME NEW k \in 1..3
          PROVE  /\ ~(2 * value[k] < 2 * first - 3 * (third - first))
                 /\ ~(2 * value[k] > 2 * third + 3 * (third - first))
      <4> DEFINE a == value[1]
                 b == value[k]
                 c == value[3]
      <4>1. a \in Int /\ b \in Int /\ c \in Int /\ a <= b /\ b <= c
        BY <2>6
      <4>2. first = a /\ third = c
        BY <3>1
      <4> HIDE DEF a, b, c
      <4>3. ~(2 * b < 2 * a - 3 * (c - a)) /\ ~(2 * b > 2 * c + 3 * (c - a))
        BY <4>1
      <4> QED
        BY <4>2, <4>3 DEF b
    <3> QED
      BY <1>4, <3>2
  <2>9. Outliers(list, metric) = [k \in DOMAIN Ascending(out) |-> Found(k)]
    BY <1>4 DEF Outliers, M, value
  <2> HIDE DEF out, Found
  <2>10. DOMAIN Ascending(out) = 1..0
    BY <2>8, NothingAscending
  <2>11. [k \in 1..0 |-> Found(k)] \in Seq(Mild)
    BY IsASeq
  <2> QED
    BY <2>9, <2>10, <2>11
<1> QED
  <2> HIDE DEF n
  <2> QED
    BY <1>2, <1>3, <1>4

LEMMA SessionPatternIsMild ==
  ASSUME NEW list, Few(list)
  PROVE  SessionPattern(list) \in Seq(Mild)
<1> DEFINE S == {Cluster(list, h) : h \in 0..23}
           best == Max(S)
           score == (1000 * best) \div Len(list)
           c == CapUnderpowered(score, Len(list))
<1>1. S \in SUBSET (0..3) /\ S # {}
  <2>1. \A h \in 0..23 : Cluster(list, h) \in 0..3
    <3>1. SUFFICES ASSUME NEW h \in 0..23 PROVE Cluster(list, h) \in 0..3
      OBVIOUS
    <3> DEFINE T == {i \in DOMAIN list : (list[i].at - h) % 24 < 4}
    <3>2. T \in SUBSET DOMAIN list /\ Cluster(list, h) = Cardinality(T)
      BY DEF Cluster
    <3> HIDE DEF T
    <3>3. Cardinality(T) \in Nat /\ Cardinality(T) <= Len(list) /\ Len(list) \in 0..3
      BY <3>2, FewUnits
    <3> QED
      BY <3>2, <3>3, AtMost3
  <2> QED
    BY <2>1
<1> HIDE DEF S
<1>2. best \in 0..3
  BY <1>1, GreatestOfFew
<1>3. SessionPattern(list) = IF Len(list) < 3 \/ 10 * best <= 6 * Len(list) THEN <<>>
                             ELSE <<Hypothesis("pattern", "session_behavior", c)>>
  BY DEF SessionPattern, S
<1> HIDE DEF best
<1>4. Len(list) \in 0..3
  BY FewUnits
<1>5. CASE Len(list) < 3 \/ 10 * best <= 6 * Len(list)
  BY <1>3, <1>5, EmptySeq
<1>6. CASE ~(Len(list) < 3 \/ 10 * best <= 6 * Len(list))
  <2>1. Len(list) = 3 /\ Len(list) \in Int
    BY <1>4, <1>6, ThreeOrFewer
  <2>2. score \in Int
    BY <1>2, <2>1
  <2> HIDE DEF score
  <2>3. c \in 0..1000
    BY <2>1, <2>2, CapIsInteger
  <2> HIDE DEF c
  <2>4. Hypothesis("pattern", "session_behavior", c) \in Mild
    BY <2>3 DEF Mild
  <2> HIDE DEF Mild
  <2> QED
    BY <1>3, <1>6, <2>4
<1> QED
  BY <1>5, <1>6

\* The detectors find nothing that is more than mild.
LEMMA FindingsAreMild ==
  ASSUME NEW list, Few(list)
  PROVE  \A d \in 1..6 : Findings(list)[d] \in Seq(Mild)
<1>1. Anomaly(list) \in Seq(Mild)
  <2>1. Outliers(list, "cost") \in Seq(Mild) /\ Outliers(list, "wall_clock_s") \in Seq(Mild)
    BY OutliersAreMild
  <2> QED
    BY <2>1, ConcatProperties DEF Anomaly
<1>2. ReworkCorrelation(list) \in Seq(Mild)
  BY EmptySeq DEF ReworkCorrelation
<1>3. /\ Baseline(list) \in Seq(Mild) /\ Degradation(list) \in Seq(Mild)
      /\ ModelEfficiency(list) \in Seq(Mild) /\ SessionPattern(list) \in Seq(Mild)
  BY BaselineIsMild, DegradationIsMild, ModelEfficiencyIsMild, SessionPatternIsMild
<1> QED
  BY <1>1, <1>2, <1>3 DEF Findings

LEMMA MildIsTyped ==
  ASSUME NEW h \in Mild
  PROVE  h.confidence \in Int /\ Bonus(h, Base(h)[1]) \in {"high", "medium", "low"} /\ Base(h)[2] \in Int
<1>1. ASSUME NEW c \in 0..899, h = Hypothesis("pattern", "cost", c)
      PROVE  h.confidence \in Int /\ Bonus(h, Base(h)[1]) \in {"high", "medium", "low"} /\ Base(h)[2] \in Int
  <2>1. h.type = "pattern" /\ h.domain = "cost" /\ h.confidence = c /\ ~(c >= 900)
    BY <1>1 DEF Hypothesis
  <2>2. Base(h) = <<"high", 800>>
    BY <2>1 DEF Base
  <2> QED
    BY <2>1, <2>2 DEF Bonus
<1>2. ASSUME NEW c \in Int, h = Hypothesis("opportunity", "model_efficiency", c)
      PROVE  h.confidence \in Int /\ Bonus(h, Base(h)[1]) \in {"high", "medium", "low"} /\ Base(h)[2] \in Int
  <2>1. h.type = "opportunity" /\ h.domain = "model_efficiency" /\ h.confidence = c
    BY <1>2 DEF Hypothesis
  <2>2. Base(h) = <<"medium", 700>>
    BY <2>1 DEF Base
  <2> QED
    BY <2>1, <2>2 DEF Bonus
<1>3. ASSUME NEW c \in Int, h = Hypothesis("pattern", "session_behavior", c)
      PROVE  h.confidence \in Int /\ Bonus(h, Base(h)[1]) \in {"high", "medium", "low"} /\ Base(h)[2] \in Int
  <2>1. h.type = "pattern" /\ h.domain = "session_behavior" /\ h.confidence = c
    BY <1>3 DEF Hypothesis
  <2>2. Base(h) = <<"low", 600>>
    BY <2>1 DEF Base
  <2> QED
    BY <2>1, <2>2 DEF Bonus
<1>4. \/ \E c \in 0..899 : h = Hypothesis("pattern", "cost", c)
      \/ \E c \in Int : h = Hypothesis("opportunity", "model_efficiency", c)
      \/ \E c \in Int : h = Hypothesis("pattern", "session_behavior", c)
  BY DEF Mild
<1> QED
  BY <1>1, <1>2, <1>3, <1>4

\* To sort the findings by their confidence adds none.
LEMMA SurestIsMild ==
  ASSUME NEW found \in Seq(Mild)
  PROVE  Surest(found) \in Seq(Mild)
<1> DEFINE S == DOMAIN found
           R == {p \in S \X S :
                   \/ found[p[1]].confidence > found[p[2]].confidence
                   \/ found[p[1]].confidence = found[p[2]].confidence /\ p[1] < p[2]}
           order == Ordered(S, R)
<1>1. S = 1..Len(found) /\ Len(found) \in Nat /\ \A i \in S : found[i] \in Mild
  BY LenProperties, ElementOfSeq
<1>2. IsFiniteSet(S) /\ Cardinality(S) = Len(found)
  BY <1>1, FS_Interval
<1>3. StrictOrder(S, R)
  <2>1. \A i \in S : found[i].confidence \in Int /\ i \in Int
    BY <1>1, MildIsTyped
  <2> QED
    BY <2>1 DEF StrictOrder, Precedence
<1>4. Surest(found) = [k \in S |-> found[order[k]]]
  BY DEF Surest
<1> HIDE DEF R
<1>5. \A k \in 1..Len(found) : order[k] \in S
  BY <1>2, <1>3, PlacesAreTaken
<1> HIDE DEF order
<1>6. \A k \in 1..Len(found) : found[order[k]] \in Mild
  BY <1>1, <1>5
<1>7. [k \in 1..Len(found) |-> found[order[k]]] \in Seq(Mild)
  BY <1>1, <1>6, IsASeq
<1> QED
  BY <1>1, <1>4, <1>7

LEMMA HypothesesAreMild ==
  ASSUME NEW list, Few(list), NEW failing
  PROVE  Hypotheses(list, failing) \in Seq(Mild)
<1> DEFINE found == Findings(list)
           Found(d) == IF d \in failing THEN <<>> ELSE Surest(found[d])
<1>1. \A d \in 1..6 : Found(d) \in Seq(Mild)
  BY FindingsAreMild, SurestIsMild, EmptySeq
<1>2. Hypotheses(list, failing) = Found(1) \o Found(2) \o Found(3) \o Found(4) \o Found(5) \o Found(6)
  BY DEF Hypotheses
<1>3. /\ Found(1) \in Seq(Mild) /\ Found(2) \in Seq(Mild) /\ Found(3) \in Seq(Mild)
      /\ Found(4) \in Seq(Mild) /\ Found(5) \in Seq(Mild) /\ Found(6) \in Seq(Mild)
  BY <1>1
<1> HIDE DEF Found
<1>4. Found(1) \o Found(2) \in Seq(Mild)
  BY <1>3, ConcatProperties
<1>5. Found(1) \o Found(2) \o Found(3) \in Seq(Mild)
  BY <1>3, <1>4, ConcatProperties
<1>6. Found(1) \o Found(2) \o Found(3) \o Found(4) \in Seq(Mild)
  BY <1>3, <1>5, ConcatProperties
<1>7. Found(1) \o Found(2) \o Found(3) \o Found(4) \o Found(5) \in Seq(Mild)
  BY <1>3, <1>6, ConcatProperties
<1> QED
  BY <1>2, <1>3, <1>7, ConcatProperties

LEMMA TiersRank ==
  ASSUME NEW priority \in {"critical", "high", "medium", "low"}
  PROVE  Rank(priority) \in 1..4
<1>1. DOMAIN Tiers = 1..4 /\ \E k \in DOMAIN Tiers : Tiers[k] = priority
  BY DEF Tiers
<1> QED
  BY <1>1 DEF Rank

\* What generate() sorts by, key after key.
LEMMA PrecedesByKeys ==
  ASSUME NEW made, NEW i, NEW j
  PROVE  LET r == Rank(made[i].priority)  s == Rank(made[j].priority)
             c == -made[i].confidence     d == -made[j].confidence
         IN  Precedes(made, i, j) <=> \/ r < s
                                      \/ r = s /\ c < d
                                      \/ r = s /\ c = d /\ i < j
<1> DEFINE a == <<Rank(made[i].priority), -made[i].confidence, i>>
           b == <<Rank(made[j].priority), -made[j].confidence, j>>
<1>1. Precedes(made, i, j) <=> \E k \in 1..3 : a[k] < b[k] /\ \A l \in 1..(k - 1) : a[l] = b[l]
  BY DEF Precedes
<1> HIDE DEF a, b
<1>2. (\E k \in 1..3 : a[k] < b[k] /\ \A l \in 1..(k - 1) : a[l] = b[l]) <=>
        \/ a[1] < b[1]
        \/ a[1] = b[1] /\ a[2] < b[2]
        \/ a[1] = b[1] /\ a[2] = b[2] /\ a[3] < b[3]
  OBVIOUS
<1> QED
  BY <1>1, <1>2 DEF a, b

\* To sort the recommendations adds none.
LEMMA InOrderAddsNone ==
  ASSUME NEW made, NEW n \in Nat, DOMAIN made = 1..n,
         \A i \in 1..n : /\ made[i].priority \in {"critical", "high", "medium", "low"}
                         /\ made[i].confidence \in Int
  PROVE  \A r \in Range(InOrder(made)) : \E i \in 1..n : r = made[i]
<1> DEFINE S == DOMAIN made
           R == {p \in S \X S : Precedes(made, p[1], p[2])}
           order == Ordered(S, R)
<1>1. IsFiniteSet(S)
  <2>1. S = 1..n /\ 1 \in Int /\ n \in Int
    OBVIOUS
  <2> HIDE DEF S, R, order
  <2> QED
    BY <2>1, FS_Interval
<1>2. \A i \in S : Rank(made[i].priority) \in Int /\ -made[i].confidence \in Int /\ i \in Int
  <2>1. \A i \in S : Rank(made[i].priority) \in 1..4
    BY TiersRank
  <2> QED
    BY <2>1
<1>3. StrictOrder(S, R)
  <2> DEFINE r == [i \in S |-> Rank(made[i].priority)]
             c == [i \in S |-> -made[i].confidence]
  <2>1. \A i, j \in S : <<i, j>> \in R <=> \/ r[i] < r[j]
                                           \/ r[i] = r[j] /\ c[i] < c[j]
                                           \/ r[i] = r[j] /\ c[i] = c[j] /\ i < j
    <3>1. SUFFICES ASSUME NEW i \in S, NEW j \in S
                   PROVE  <<i, j>> \in R <=> \/ r[i] < r[j]
                                             \/ r[i] = r[j] /\ c[i] < c[j]
                                             \/ r[i] = r[j] /\ c[i] = c[j] /\ i < j
      OBVIOUS
    <3>2. <<i, j>> \in R <=> Precedes(made, i, j)
      OBVIOUS
    <3> HIDE DEF R
    <3> QED
      BY <3>2, PrecedesByKeys
  <2>2. \A i \in S : r[i] \in Int /\ c[i] \in Int /\ i \in Int
    BY <1>2
  <2> HIDE DEF r, c, R, S
  <2>3. \A i \in S : <<i, i>> \notin R
    BY <2>1, <2>2
  <2>4. \A i, j \in S : i # j => <<i, j>> \in R \/ <<j, i>> \in R
    BY <2>1, <2>2
  <2>5. ASSUME NEW i \in S, NEW j \in S, NEW k \in S, <<i, j>> \in R, <<j, k>> \in R
        PROVE  <<i, k>> \in R
    <3>1. /\ r[i] \in Int /\ r[j] \in Int /\ r[k] \in Int
          /\ c[i] \in Int /\ c[j] \in Int /\ c[k] \in Int
          /\ i \in Int /\ j \in Int /\ k \in Int
      BY <2>2
    <3>2. /\ \/ r[i] < r[j]
             \/ r[i] = r[j] /\ c[i] < c[j]
             \/ r[i] = r[j] /\ c[i] = c[j] /\ i < j
          /\ \/ r[j] < r[k]
             \/ r[j] = r[k] /\ c[j] < c[k]
             \/ r[j] = r[k] /\ c[j] = c[k] /\ j < k
      BY <2>1, <2>5
    <3>3. \/ r[i] < r[k]
          \/ r[i] = r[k] /\ c[i] < c[k]
          \/ r[i] = r[k] /\ c[i] = c[k] /\ i < k
      BY <3>1, <3>2
    <3> QED
      BY <2>1, <3>3
  <2> QED
    BY <2>3, <2>4, <2>5 DEF StrictOrder, Precedence
<1>4. InOrder(made) = [k \in S |-> made[order[k]]]
  BY DEF InOrder
<1>5. Cardinality(S) = n
  <2>1. S = 1..n /\ 1 \in Int /\ n \in Int
    OBVIOUS
  <2>2. Cardinality(1..n) = n
    <3> HIDE DEF S, R, order
    <3> QED
      BY <2>1, FS_Interval
  <2> HIDE DEF S, R, order
  <2> QED
    BY <2>1, <2>2
<1> HIDE DEF R
<1>6. \A k \in 1..n : order[k] \in S
  BY <1>1, <1>3, <1>5, PlacesAreTaken
<1> HIDE DEF order
<1> QED
  BY <1>4, <1>6 DEF Range

\* Three measurements are too few for anything critical, whichever detector speaks and
\* whichever fails.
LEMMA FewMeasurements ==
  ASSUME units \in Seq(Measurements)
  PROVE  FewAreNeverCritical
<1>1. SUFFICES ASSUME Len(Listed) <= 3, NEW failing, NEW r \in Range(Recommendations(Listed, failing))
               PROVE  r.priority # "critical"
  BY DEF FewAreNeverCritical
<1>2. Few(Listed)
  BY <1>1, ListedAreMeasurements DEF Few
<1>3. PICK hypotheses \in Seq(Mild) : hypotheses = Hypotheses(Listed, failing)
  BY <1>2, HypothesesAreMild
<1> DEFINE made == Made(hypotheses)
           n == Len(hypotheses)
<1>4. n \in Nat /\ DOMAIN made = 1..n
  BY LenProperties DEF Made
<1>5. \A i \in 1..n : made[i].priority \in {"high", "medium", "low"} /\ made[i].confidence \in Int
  <2>1. \A i \in 1..n : hypotheses[i] \in Mild
    BY ElementOfSeq
  <2>2. \A i \in 1..n : /\ made[i].priority = Bonus(hypotheses[i], Base(hypotheses[i])[1])
                        /\ made[i].confidence = Base(hypotheses[i])[2]
    BY <1>4 DEF Made, Recommendation
  <2> HIDE DEF made
  <2> QED
    BY <2>1, <2>2, MildIsTyped
<1>6. r \in Range(InOrder(made))
  BY <1>1, <1>3 DEF Recommendations
<1> HIDE DEF made, n
<1>7. PICK i \in 1..n : r = made[i]
  <2>1. \A i \in 1..n : made[i].priority \in {"critical", "high", "medium", "low"} /\ made[i].confidence \in Int
    BY <1>5
  <2> QED
    BY <1>4, <1>6, <2>1, InOrderAddsNone
<1> QED
  BY <1>5, <1>7

\* Three measurements are too few for anything critical, whatever was measured at whatever
\* price, whichever detector speaks and whichever fails (_confidence.py:10,
\* _detectors.py:148, 349, engine.py:245).
THEOREM NothingIsCriticalYet == PulseSpec => []FewAreNeverCritical
<1>1. UnitsInv => FewAreNeverCritical
  BY FewMeasurements DEF UnitsInv
<1> QED
  BY <1>1, UnitsInvariance, PTL

------------------------------------------------------------------------------
(* The order of the measurements                                           *)

\* p pairs the members of A off with those of B.
Pairs(p, A, B) ==
    /\ p \in [A -> B]
    /\ \A i, j \in A : p[i] = p[j] => i = j
    /\ \A b \in B : \E a \in A : p[a] = b

LEMMA AsMany ==
  ASSUME NEW p, NEW A, NEW B, Pairs(p, A, B), IsFiniteSet(A)
  PROVE  IsFiniteSet(B) /\ Cardinality(A) = Cardinality(B)
<1>1. p \in Bijection(A, B)
  BY DEF Pairs, Bijection, Injection, Surjection, IsInjective
<1>2. ExistsBijection(A, B)
  BY <1>1 DEF ExistsBijection
<1> QED
  BY <1>2, FS_Bijection

\* What is paired off when members of A correspond to members of B.
LEMMA PartsPairOff ==
  ASSUME NEW p, NEW D, NEW E, Pairs(p, D, E), NEW A \in SUBSET D, NEW B \in SUBSET E,
         \A i \in D : i \in A <=> p[i] \in B
  PROVE  Pairs([i \in A |-> p[i]], A, B)
<1>1. \A i \in A : p[i] \in B
  OBVIOUS
<1>2. \A i, j \in A : p[i] = p[j] => i = j
  BY DEF Pairs
<1>3. \A b \in B : \E a \in A : p[a] = b
  BY DEF Pairs
<1> QED
  BY <1>1, <1>2, <1>3 DEF Pairs

\* A sum does not depend on the order of what is added.
LEMMA PairedSum ==
  ASSUME NEW p, NEW A, NEW B, Pairs(p, A, B), IsFiniteSet(A), NEW v \in [B -> Int],
         NEW w \in [A -> Int], \A i \in A : w[i] = v[p[i]]
  PROVE  Total(w) = Total(v)
<1>1. IsFiniteSet(B)
  BY AsMany
<1>2. p \in [A -> B]
  BY DEF Pairs
<1>3. ASSUME NEW b \in B PROVE v[b] = Part(w, Group(p, b))
  <2>1. PICK a \in A : p[a] = b
    BY DEF Pairs
  <2>2. Group(p, b) = {a}
    BY <1>2, <2>1 DEF Group, Pairs
  <2>3. Part(w, {a}) = w[a] + Part(w, {a} \ {a})
    BY <2>1, PartWithout
  <2>4. Part(w, {a} \ {a}) = 0
    <3>1. {a} \ {a} = {}
      OBVIOUS
    <3>2. Part(w, {}) = 0
      BY PartOfNothing
    <3> QED
      BY <3>1, <3>2
  <2>5. w[a] = v[b] /\ v[b] \in Int
    BY <2>1
  <2>6. Part(w, {a}) = v[b]
    BY <2>3, <2>4, <2>5
  <2> QED
    BY <2>2, <2>6
<1>4. Shares(A, w, B, v, p)
  BY <1>1, <1>2, <1>3 DEF Shares
<1> QED
  BY <1>4, GroupByGroup

\* Where x is, and two lists in which everything is equally often.
Places(s, x) == {i \in DOMAIN s : s[i] = x}
Alike(s, t) ==
    /\ IsFiniteSet(DOMAIN s) /\ IsFiniteSet(DOMAIN t)
    /\ \A x : Cardinality(Places(s, x)) = Cardinality(Places(t, x))

LEMMA PairedAlike ==
  ASSUME NEW p, NEW s, NEW t, Pairs(p, DOMAIN s, DOMAIN t), IsFiniteSet(DOMAIN s),
         \A i \in DOMAIN s : s[i] = t[p[i]]
  PROVE  Alike(s, t)
<1>1. IsFiniteSet(DOMAIN t)
  BY AsMany
<1>2. ASSUME NEW x PROVE Cardinality(Places(s, x)) = Cardinality(Places(t, x))
  <2>1. Places(s, x) \in SUBSET DOMAIN s /\ Places(t, x) \in SUBSET DOMAIN t
    BY DEF Places
  <2>2. \A i \in DOMAIN s : i \in Places(s, x) <=> p[i] \in Places(t, x)
    BY DEF Places, Pairs
  <2>3. Pairs([i \in Places(s, x) |-> p[i]], Places(s, x), Places(t, x))
    BY <2>1, <2>2, PartsPairOff
  <2>4. IsFiniteSet(Places(s, x))
    BY <2>1, FS_Subset
  <2> QED
    BY <2>3, <2>4, AsMany
<1> QED
  BY <1>1, <1>2 DEF Alike

LEMMA AlikeBags ==
  ASSUME NEW s, NEW t, Alike(s, t)
  PROVE  ToBag(s) = ToBag(t)
<1>1. ASSUME NEW x PROVE x \in Range(s) <=> x \in Range(t)
  <2>1. Places(s, x) # {} <=> x \in Range(s)
    BY DEF Places, Range
  <2>2. Places(t, x) # {} <=> x \in Range(t)
    BY DEF Places, Range
  <2>3. IsFiniteSet(Places(s, x)) /\ IsFiniteSet(Places(t, x))
    <3>1. Places(s, x) \in SUBSET DOMAIN s /\ Places(t, x) \in SUBSET DOMAIN t
      BY DEF Places
    <3> QED
      BY <3>1, FS_Subset DEF Alike
  <2>4. /\ Cardinality(Places(s, x)) = 0 <=> Places(s, x) = {}
        /\ Cardinality(Places(t, x)) = 0 <=> Places(t, x) = {}
    BY <2>3, FS_EmptySet
  <2>5. Cardinality(Places(s, x)) = Cardinality(Places(t, x))
    BY DEF Alike
  <2> QED
    BY <2>1, <2>2, <2>4, <2>5
<1>2. Range(s) = Range(t)
  BY <1>1
<1>3. \A x \in Range(s) : Cardinality({i \in DOMAIN s : s[i] = x}) = Cardinality({i \in DOMAIN t : t[i] = x})
  BY DEF Alike, Places
<1> QED
  BY <1>2, <1>3 DEF ToBag

\* The length of a list, whatever is in it.
LEMMA Listing ==
  ASSUME NEW s, NEW X, s \in Seq(X)
  PROVE  /\ Len(s) \in Nat /\ DOMAIN s = 1..Len(s) /\ IsFiniteSet(DOMAIN s)
         /\ Cardinality(DOMAIN s) = Len(s)
<1>1. Len(s) \in Nat /\ DOMAIN s = 1..Len(s)
  BY LenProperties
<1>2. 1 \in Int /\ Len(s) \in Int
  BY <1>1
<1>3. IsFiniteSet(1..Len(s)) /\ Cardinality(1..Len(s)) = (IF 1 > Len(s) THEN 0 ELSE Len(s) - 1 + 1)
  BY <1>2, FS_Interval
<1> QED
  BY <1>1, <1>3

LEMMA PlacesInBoth ==
  ASSUME NEW X, NEW s \in Seq(X), NEW u \in Seq(X), NEW x
  PROVE  Cardinality(Places(s \o u, x)) = Cardinality(Places(s, x)) + Cardinality(Places(u, x))
<1> DEFINE n == Len(s)
           m == Len(u)
           A == Places(s, x)
           B == Places(u, x)
           C == {i \in (n + 1)..(n + m) : i - n \in B}
<1>1. /\ n \in Nat /\ m \in Nat /\ DOMAIN s = 1..n /\ DOMAIN u = 1..m
      /\ IsFiniteSet(DOMAIN s) /\ IsFiniteSet(DOMAIN u)
  BY Listing
<1>2. /\ s \o u \in Seq(X) /\ Len(s \o u) = n + m
      /\ \A i \in 1..(n + m) : (s \o u)[i] = IF i <= n THEN s[i] ELSE u[i - n]
  BY ConcatProperties
<1>3. DOMAIN (s \o u) = 1..(n + m)
  BY <1>2, LenProperties
<1>4. A \in SUBSET (1..n) /\ B \in SUBSET (1..m)
  BY <1>1 DEF Places
<1>5. IsFiniteSet(A) /\ IsFiniteSet(B)
  <2> HIDE DEF A, B
  <2> QED
    BY <1>1, <1>4, FS_Subset
<1>6. Pairs([j \in B |-> j + n], B, C)
  <2> HIDE DEF n, m, B
  <2>1. \A j \in B : j \in Int /\ j + n \in C
    BY <1>1, <1>4
  <2>2. \A c \in C : c - n \in B /\ (c - n) + n = c
    BY <1>1
  <2> HIDE DEF C
  <2> QED
    BY <1>1, <2>1, <2>2 DEF Pairs
<1>7. Places(s \o u, x) = A \cup C
  <2>1. \A i \in 1..(n + m) : (s \o u)[i] = x <=> i \in A \/ i \in C
    <3>1. SUFFICES ASSUME NEW i \in 1..(n + m) PROVE (s \o u)[i] = x <=> i \in A \/ i \in C
      OBVIOUS
    <3>2. CASE i <= n
      <4>1. i \in 1..n /\ ~(i \in (n + 1)..(n + m)) /\ (s \o u)[i] = s[i]
        BY <1>1, <1>2, <3>1, <3>2
      <4> QED
        BY <1>1, <4>1 DEF Places
    <3>3. CASE ~(i <= n)
      <4>1. i \in (n + 1)..(n + m) /\ ~(i \in 1..n) /\ i - n \in 1..m /\ (s \o u)[i] = u[i - n]
        BY <1>1, <1>2, <3>1, <3>3
      <4> QED
        BY <1>1, <4>1 DEF Places
    <3> QED
      BY <3>2, <3>3
  <2>2. A \cup C \in SUBSET (1..(n + m))
    BY <1>1, <1>4
  <2> HIDE DEF A, C, n, m
  <2> QED
    BY <1>3, <2>1, <2>2 DEF Places
<1>8. A \cap C = {}
  BY <1>1, <1>4
<1> HIDE DEF A, B, C, n, m
<1>9. IsFiniteSet(C) /\ Cardinality(C) = Cardinality(B)
  BY <1>5, <1>6, AsMany
<1>10. Cardinality(A \cup C) = Cardinality(A) + Cardinality(C) - Cardinality(A \cap C)
  BY <1>5, <1>9, FS_Union
<1>11. Cardinality(A) \in Nat /\ Cardinality(B) \in Nat /\ Cardinality({}) = 0
  BY <1>5, FS_CardinalityType, FS_EmptySet
<1>12. Cardinality(A \cap C) = 0
  BY <1>8, <1>11
<1>13. Cardinality(A \cup C) = Cardinality(A) + Cardinality(B)
  BY <1>9, <1>10, <1>11, <1>12
<1> QED
  BY <1>7, <1>13 DEF A, B

IsList(s) == \E X : s \in Seq(X)

LEMMA ListOfAny ==
  ASSUME NEW n \in Nat, NEW s, DOMAIN s = 1..n, s = [k \in 1..n |-> s[k]]
  PROVE  IsList(s)
<1> DEFINE X == {s[k] : k \in 1..n}
<1>1. s \in [1..n -> X]
  OBVIOUS
<1> HIDE DEF X
<1>2. s \in Seq(X)
  BY <1>1, SeqDef
<1> QED
  BY <1>2 DEF IsList

LEMMA ListsTogether ==
  ASSUME NEW s, NEW t, IsList(s), IsList(t)
  PROVE  \E X : s \in Seq(X) /\ t \in Seq(X)
<1>1. PICK A : s \in Seq(A)
  BY DEF IsList
<1>2. PICK B : t \in Seq(B)
  BY DEF IsList
<1>3. A \subseteq A \cup B /\ B \subseteq A \cup B
  OBVIOUS
<1>4. s \in Seq(A \cup B)
  BY <1>1, <1>3, SeqMonotonic
<1>5. t \in Seq(A \cup B)
  BY <1>2, <1>3, SeqMonotonic
<1> QED
  BY <1>4, <1>5

LEMMA ListsConcat ==
  ASSUME NEW s, NEW t, IsList(s), IsList(t)
  PROVE  IsList(s \o t)
<1>1. PICK X : s \in Seq(X) /\ t \in Seq(X)
  BY ListsTogether
<1>2. s \o t \in Seq(X)
  BY <1>1, ConcatProperties
<1> QED
  BY <1>2 DEF IsList

LEMMA ListsCount ==
  ASSUME NEW s, NEW t, IsList(s), IsList(t)
  PROVE  /\ IsFiniteSet(DOMAIN (s \o t))
         /\ \A x : Cardinality(Places(s \o t, x)) = Cardinality(Places(s, x)) + Cardinality(Places(t, x))
<1>1. PICK X : s \in Seq(X) /\ t \in Seq(X)
  BY ListsTogether
<1>2. s \o t \in Seq(X)
  BY <1>1, ConcatProperties
<1>3. IsFiniteSet(DOMAIN (s \o t))
  BY <1>2, Listing
<1>4. ASSUME NEW x
      PROVE  Cardinality(Places(s \o t, x)) = Cardinality(Places(s, x)) + Cardinality(Places(t, x))
  BY <1>1, PlacesInBoth
<1> QED
  BY <1>3, <1>4

\* Lists that are alike stay so when something is appended or put in front.
LEMMA AlikeBetween ==
  ASSUME NEW s, NEW t, NEW b, IsList(s), IsList(t), IsList(b), Alike(s, t)
  PROVE  Alike(s \o b, t \o b) /\ Alike(b \o s, b \o t)
<1>1. Alike(s \o b, t \o b)
  BY ListsCount DEF Alike
<1>2. Alike(b \o s, b \o t)
  BY ListsCount DEF Alike
<1> QED
  BY <1>1, <1>2

\* back is list in another order: what is at place i of the one is at place p[i] of the other.
Rearranged(list, back, p) ==
    /\ list \in Seq(Measurements) /\ back \in Seq(Measurements) /\ Len(back) = Len(list)
    /\ Pairs(p, DOMAIN back, DOMAIN list)
    /\ \A i \in DOMAIN back : back[i] = list[p[i]]

\* A are the places in back of what list has at the places B.
Matched(list, back, p, A, B) ==
    /\ Rearranged(list, back, p)
    /\ A \in SUBSET DOMAIN back /\ B \in SUBSET DOMAIN list
    /\ \A i \in DOMAIN back : i \in A <=> p[i] \in B

LEMMA MatchedPairs ==
  ASSUME NEW list, NEW back, NEW p, NEW A, NEW B, Matched(list, back, p, A, B)
  PROVE  IsFiniteSet(A) /\ Pairs([i \in A |-> p[i]], A, B)
<1>1. /\ A \in SUBSET DOMAIN back /\ B \in SUBSET DOMAIN list /\ Pairs(p, DOMAIN back, DOMAIN list)
      /\ \A i \in DOMAIN back : i \in A <=> p[i] \in B
  BY DEF Matched, Rearranged
<1>2. IsFiniteSet(DOMAIN back)
  BY Listing DEF Matched, Rearranged
<1>3. IsFiniteSet(A)
  BY <1>1, <1>2, FS_Subset
<1>4. Pairs([i \in A |-> p[i]], A, B)
  BY <1>1, PartsPairOff
<1> QED
  BY <1>3, <1>4

LEMMA MatchedSum ==
  ASSUME NEW list, NEW back, NEW p, NEW A, NEW B, Matched(list, back, p, A, B),
         NEW v \in [B -> Int], NEW w \in [A -> Int], \A i \in A : w[i] = v[p[i]]
  PROVE  Total(w) = Total(v)
<1> DEFINE q == [i \in A |-> p[i]]
<1>1. IsFiniteSet(A) /\ Pairs(q, A, B)
  BY MatchedPairs
<1>2. \A i \in A : w[i] = v[q[i]]
  OBVIOUS
<1> HIDE DEF q
<1> QED
  BY <1>1, <1>2, PairedSum

\* What is measured is a number, and None is one in the model.
LEMMA MetricsAreIntegers ==
  ASSUME NEW list \in Seq(Measurements), NEW metric \in {"tokens_input", "tokens_output", "cost", "wall_clock_s"},
         NEW i \in DOMAIN list
  PROVE  list[i][metric] \in Int
<1>1. list[i] \in Measurements
  BY LenProperties, ElementOfSeq
<1>2. /\ list[i].tokens_input \in Int /\ list[i].tokens_output \in Int
      /\ list[i].wall_clock_s \in Int /\ list[i].cost \in Int
  <2>1. NoValue \in Int
    BY DEF NoValue
  <2> QED
    BY <1>1, <2>1, MeasurementsAreTyped
<1>3. CASE metric = "tokens_input"
  BY <1>2, <1>3
<1>4. CASE metric = "tokens_output"
  BY <1>2, <1>4
<1>5. CASE metric = "cost"
  BY <1>2, <1>5
<1>6. CASE metric = "wall_clock_s"
  BY <1>2, <1>6
<1> QED
  BY <1>3, <1>4, <1>5, <1>6

LEMMA MeasuredMatch ==
  ASSUME NEW list, NEW back, NEW p, Rearranged(list, back, p), NEW metric
  PROVE  Matched(list, back, p, Measured(back, metric), Measured(list, metric))
<1>1. \A i \in DOMAIN back : p[i] \in DOMAIN list /\ back[i] = list[p[i]]
  BY DEF Rearranged, Pairs
<1> QED
  BY <1>1 DEF Matched, Measured

LEMMA MatchedSize ==
  ASSUME NEW list, NEW back, NEW p, NEW A, NEW B, Matched(list, back, p, A, B)
  PROVE  Cardinality(A) = Cardinality(B)
<1> DEFINE q == [i \in A |-> p[i]]
<1>1. IsFiniteSet(A) /\ Pairs(q, A, B)
  BY MatchedPairs
<1> HIDE DEF q
<1> QED
  BY <1>1, AsMany

\* One detector after the other: the order of the units is nothing to it.
LEMMA BaselineAnyOrder ==
  ASSUME NEW list, NEW back, NEW p, Rearranged(list, back, p)
  PROVE  Baseline(back) = Baseline(list)
<1> DEFINE Sizes(l) == {Cardinality(Measured(l, Metrics[k])) : k \in DOMAIN Metrics}
           Pattern(n) == <<Hypothesis("pattern", "cost", CapUnderpowered(Smaller(100 * n, 1000), n))>>
<1>1. \A k \in DOMAIN Metrics :
        Cardinality(Measured(back, Metrics[k])) = Cardinality(Measured(list, Metrics[k]))
  BY MeasuredMatch, MatchedSize
<1>2. Sizes(back) = Sizes(list)
  BY <1>1
<1>3. back = <<>> <=> list = <<>>
  <2>1. /\ list \in Seq(Measurements) /\ back \in Seq(Measurements) /\ Len(back) = Len(list)
    BY DEF Rearranged
  <2> QED
    BY <2>1, EmptySeq
<1>4. \A l : Baseline(l) = IF l = <<>> THEN <<>> ELSE Pattern(Max(Sizes(l)))
  BY DEF Baseline
<1> HIDE DEF Sizes, Pattern
<1> QED
  BY <1>2, <1>3, <1>4

LEMMA SessionPatternAnyOrder ==
  ASSUME NEW list, NEW back, NEW p, Rearranged(list, back, p)
  PROVE  SessionPattern(back) = SessionPattern(list)
<1>1. ASSUME NEW h PROVE Cluster(back, h) = Cluster(list, h)
  <2> DEFINE In(l) == {i \in DOMAIN l : (l[i].at - h) % 24 < 4}
  <2>1. \A i \in DOMAIN back : p[i] \in DOMAIN list /\ back[i] = list[p[i]]
    BY DEF Rearranged, Pairs
  <2>2. \A i \in DOMAIN back : i \in In(back) <=> p[i] \in In(list)
    BY <2>1
  <2>3. Matched(list, back, p, In(back), In(list))
    BY <2>2 DEF Matched
  <2>4. Cluster(back, h) = Cardinality(In(back)) /\ Cluster(list, h) = Cardinality(In(list))
    BY DEF Cluster
  <2> HIDE DEF In
  <2> QED
    BY <2>3, <2>4, MatchedSize
<1>2. {Cluster(back, h) : h \in 0..23} = {Cluster(list, h) : h \in 0..23}
  BY <1>1
<1>3. Len(back) = Len(list)
  BY DEF Rearranged
<1> DEFINE Session(S, n) ==
             IF n < 3 \/ 10 * Max(S) <= 6 * n THEN <<>>
             ELSE <<Hypothesis("pattern", "session_behavior", CapUnderpowered((1000 * Max(S)) \div n, n))>>
<1>4. \A l : SessionPattern(l) = Session({Cluster(l, h) : h \in 0..23}, Len(l))
  BY DEF SessionPattern
<1> HIDE DEF Session
<1> QED
  BY <1>2, <1>3, <1>4

LEMMA ModelEfficiencyAnyOrder ==
  ASSUME NEW list, NEW back, NEW p, Rearranged(list, back, p)
  PROVE  ModelEfficiency(back) = ModelEfficiency(list)
<1>1. \A i \in DOMAIN back : p[i] \in DOMAIN list /\ back[i] = list[p[i]]
  BY DEF Rearranged, Pairs
<1>2. list \in Seq(Measurements) /\ back \in Seq(Measurements) /\ Len(back) = Len(list)
  BY DEF Rearranged
<1>3. Models(back) = Models(list)
  <2>1. \A j \in DOMAIN list : \E i \in DOMAIN back : p[i] = j
    BY DEF Rearranged, Pairs
  <2> QED
    BY <1>1, <2>1 DEF Models
<1>4. ASSUME NEW m
      PROVE  /\ AverageCost(back, m) = AverageCost(list, m)
             /\ AverageTime(back, m) = AverageTime(list, m)
             /\ OfModel(back, m) \cap Measured(back, "cost") = {}
                  <=> OfModel(list, m) \cap Measured(list, "cost") = {}
  <2> DEFINE O(l) == OfModel(l, m)
             C(l) == O(l) \cap Measured(l, "cost")
             cost(l) == [i \in C(l) |-> l[i].cost]
             tokens(l) == [i \in O(l) |-> l[i].tokens_input + l[i].tokens_output]
             time(l) == [i \in O(l) |-> l[i].wall_clock_s]
  <2>1. Matched(list, back, p, O(back), O(list)) /\ Matched(list, back, p, C(back), C(list))
    BY <1>1 DEF Matched, OfModel, Measured
  <2>2. ASSUME NEW l \in Seq(Measurements)
        PROVE  cost(l) \in [C(l) -> Int] /\ tokens(l) \in [O(l) -> Int] /\ time(l) \in [O(l) -> Int]
    <3>1. \A i \in DOMAIN l : /\ l[i].tokens_input \in Int /\ l[i].tokens_output \in Int
                              /\ l[i].wall_clock_s \in Int /\ l[i].cost \in Int
      <4>1. \A i \in DOMAIN l : l[i] \in Measurements
        BY LenProperties, ElementOfSeq
      <4>2. NoValue \in Int
        BY DEF NoValue
      <4> QED
        BY <4>1, <4>2, MeasurementsAreTyped
    <3>2. O(l) \in SUBSET DOMAIN l /\ C(l) \in SUBSET DOMAIN l
      BY DEF OfModel
    <3> HIDE DEF O, C
    <3> QED
      BY <3>1, <3>2
  <2>3. /\ \A i \in C(back) : cost(back)[i] = cost(list)[p[i]]
        /\ \A i \in O(back) : tokens(back)[i] = tokens(list)[p[i]]
        /\ \A i \in O(back) : time(back)[i] = time(list)[p[i]]
    <3>1. /\ \A i \in C(back) : p[i] \in C(list) /\ back[i] = list[p[i]]
          /\ \A i \in O(back) : p[i] \in O(list) /\ back[i] = list[p[i]]
      BY <1>1, <2>1 DEF Matched
    <3> HIDE DEF O, C
    <3> QED
      BY <3>1
  <2>4. \A l : /\ AverageCost(l, m) = <<Total(cost(l)), Larger(1, Total(tokens(l)))>>
               /\ AverageTime(l, m) = <<Total(time(l)), Cardinality(O(l))>>
    BY DEF AverageCost, AverageTime
  <2>5. cost(list) \in [C(list) -> Int] /\ tokens(list) \in [O(list) -> Int] /\ time(list) \in [O(list) -> Int]
    BY <1>2, <2>2
  <2>6. cost(back) \in [C(back) -> Int] /\ tokens(back) \in [O(back) -> Int] /\ time(back) \in [O(back) -> Int]
    BY <1>2, <2>2
  <2> HIDE DEF cost, tokens, time, C, O
  <2>7. Total(cost(back)) = Total(cost(list))
    BY <2>1, <2>3, <2>5, <2>6, MatchedSum
  <2>8. Total(tokens(back)) = Total(tokens(list))
    BY <2>1, <2>3, <2>5, <2>6, MatchedSum
  <2>9. Total(time(back)) = Total(time(list))
    BY <2>1, <2>3, <2>5, <2>6, MatchedSum
  <2>10. Cardinality(O(back)) = Cardinality(O(list))
    BY <2>1, MatchedSize
  <2>11. C(back) = {} <=> C(list) = {}
    <3>1. Pairs([i \in C(back) |-> p[i]], C(back), C(list))
      BY <2>1, MatchedPairs
    <3> QED
      BY <3>1 DEF Pairs
  <2> QED
    BY <2>4, <2>7, <2>8, <2>9, <2>10, <2>11 DEF C, O
<1> DEFINE costed(l) == {m \in Models(l) : OfModel(l, m) \cap Measured(l, "cost") # {}}
           Compared(models, averages, n) ==
             IF Cardinality(models) < 2 THEN <<>> ELSE Comparison(averages, n)
<1>5. \A l : ModelEfficiency(l) = Compared(costed(l), {AverageCost(l, m) : m \in costed(l)}, Len(l))
                                    \o Compared(Models(l), {AverageTime(l, m) : m \in Models(l)}, Len(l))
  BY DEF ModelEfficiency
<1>6. costed(back) = costed(list)
  BY <1>3, <1>4
<1> HIDE DEF costed, Compared
<1>7. {AverageCost(back, m) : m \in costed(back)} = {AverageCost(list, m) : m \in costed(list)}
  BY <1>4, <1>6
<1>8. {AverageTime(back, m) : m \in Models(back)} = {AverageTime(list, m) : m \in Models(list)}
  BY <1>3, <1>4
<1> QED
  BY <1>2, <1>3, <1>5, <1>6, <1>7, <1>8

\* Sorting pairs the places off with what is sorted.
LEMMA OrderedPairs ==
  ASSUME NEW S, NEW R, IsFiniteSet(S), StrictOrder(S, R)
  PROVE  /\ Cardinality(S) \in Nat /\ DOMAIN Ordered(S, R) = 1..Cardinality(S)
         /\ Pairs(Ordered(S, R), 1..Cardinality(S), S)
<1> DEFINE o == Ordered(S, R)
           n == Cardinality(S)
<1>1. n \in Nat /\ DOMAIN o = 1..n /\ \A k \in 1..n : o[k] \in S
  BY PlacesAreTaken
<1>2. /\ \A j, k \in 1..n : o[j] = o[k] => j = k
      /\ \A i \in S : \E k \in 1..n : o[k] = i
  BY OrderedIsSorted
<1>3. o = [k \in 1..n |-> o[k]]
  BY DEF Ordered
<1> HIDE DEF o, n
<1>4. o \in [1..n -> S]
  BY <1>1, <1>3
<1> QED
  BY <1>1, <1>2, <1>4 DEF Pairs, o, n

LEMMA AscendingPairs ==
  ASSUME NEW S \in SUBSET Int, IsFiniteSet(S)
  PROVE  /\ Cardinality(S) \in Nat /\ DOMAIN Ascending(S) = 1..Cardinality(S)
         /\ Pairs(Ascending(S), 1..Cardinality(S), S)
<1>1. StrictOrder(S, {p \in S \X S : p[1] < p[2]})
  BY DEF StrictOrder, Precedence
<1> QED
  BY <1>1, OrderedPairs DEF Ascending

\* The surest first: the same findings.
LEMMA SurestIsAlike ==
  ASSUME NEW found, NEW n \in Nat, DOMAIN found = 1..n, \A k \in 1..n : found[k].confidence \in Int
  PROVE  Alike(Surest(found), found)
<1> DEFINE S == DOMAIN found
           R == {p \in S \X S :
                   \/ found[p[1]].confidence > found[p[2]].confidence
                   \/ found[p[1]].confidence = found[p[2]].confidence /\ p[1] < p[2]}
           order == Ordered(S, R)
<1>1. IsFiniteSet(S) /\ Cardinality(S) = n
  <2>1. S = 1..n /\ 1 \in Int /\ n \in Int
    OBVIOUS
  <2>2. IsFiniteSet(1..n) /\ Cardinality(1..n) = n
    <3> HIDE DEF S, R, order
    <3> QED
      BY <2>1, FS_Interval
  <2> HIDE DEF S, R, order
  <2> QED
    BY <2>1, <2>2
<1>2. StrictOrder(S, R)
  <2>1. \A i \in S : found[i].confidence \in Int /\ i \in Int
    OBVIOUS
  <2> QED
    BY <2>1 DEF StrictOrder, Precedence
<1>3. Surest(found) = [k \in S |-> found[order[k]]]
  BY DEF Surest
<1> HIDE DEF R
<1>4. Pairs(order, 1..n, S)
  BY <1>1, <1>2, OrderedPairs
<1> HIDE DEF order
<1>5. DOMAIN Surest(found) = S /\ \A k \in S : Surest(found)[k] = found[order[k]]
  BY <1>3
<1> QED
  BY <1>1, <1>4, <1>5, PairedAlike

LEMMA SurestIsAList ==
  ASSUME NEW found, NEW n \in Nat, DOMAIN found = 1..n
  PROVE  IsList(Surest(found))
<1> DEFINE order == Ordered(DOMAIN found, {p \in (DOMAIN found) \X (DOMAIN found) :
                      \/ found[p[1]].confidence > found[p[2]].confidence
                      \/ found[p[1]].confidence = found[p[2]].confidence /\ p[1] < p[2]})
<1>1. Surest(found) = [k \in 1..n |-> found[order[k]]]
  BY DEF Surest
<1> HIDE DEF order
<1>2. DOMAIN Surest(found) = 1..n /\ Surest(found) = [k \in 1..n |-> Surest(found)[k]]
  BY <1>1
<1> QED
  BY <1>2, ListOfAny

------------------------------------------------------------------------------
(* Degradation: the findings come in another order                         *)

LEMMA ExceedsAnyOrder ==
  ASSUME NEW list, NEW back, NEW p, Rearranged(list, back, p), NEW i \in DOMAIN back,
         NEW metric \in {"tokens_input", "tokens_output", "cost", "wall_clock_s"}
  PROVE  Exceeds(back, i, metric) = Exceeds(list, p[i], metric)
<1> DEFINE A == Others(back, i, metric)
           B == Others(list, p[i], metric)
           w == [j \in A |-> back[j][metric]]
           v == [j \in B |-> list[j][metric]]
           ww == [j \in A |-> back[j][metric] * back[j][metric]]
           vv == [j \in B |-> list[j][metric] * list[j][metric]]
<1>1. list \in Seq(Measurements) /\ back \in Seq(Measurements)
  BY DEF Rearranged
<1>2. /\ \A j \in DOMAIN back : p[j] \in DOMAIN list /\ back[j] = list[p[j]]
      /\ \A j, k \in DOMAIN back : p[j] = p[k] => j = k
  BY DEF Rearranged, Pairs
<1>3. Matched(list, back, p, A, B)
  <2>1. Matched(list, back, p, Measured(back, metric), Measured(list, metric))
    BY MeasuredMatch
  <2>2. \A j \in DOMAIN back : j \in A <=> p[j] \in B
    BY <1>2, <2>1 DEF Matched, Others
  <2>3. A \in SUBSET DOMAIN back /\ B \in SUBSET DOMAIN list
    BY <2>1 DEF Matched, Others
  <2> HIDE DEF A, B
  <2> QED
    BY <2>2, <2>3 DEF Matched
<1>4. \A j \in A : p[j] \in B /\ back[j] = list[p[j]]
  BY <1>2, <1>3 DEF Matched
<1>5. /\ \A j \in A : back[j][metric] \in Int
      /\ \A j \in B : list[j][metric] \in Int
  <2>1. A \in SUBSET DOMAIN back /\ B \in SUBSET DOMAIN list
    BY <1>3 DEF Matched
  <2> HIDE DEF A, B
  <2> QED
    BY <1>1, <2>1, MetricsAreIntegers
<1> HIDE DEF A, B
<1>6. /\ w \in [A -> Int] /\ v \in [B -> Int] /\ \A j \in A : w[j] = v[p[j]]
      /\ ww \in [A -> Int] /\ vv \in [B -> Int] /\ \A j \in A : ww[j] = vv[p[j]]
  BY <1>4, <1>5
<1> HIDE DEF w, v, ww, vv
<1>7. Total(w) = Total(v)
  BY <1>3, <1>6, MatchedSum
<1>8. Total(ww) = Total(vv)
  BY <1>3, <1>6, MatchedSum
<1>9. Cardinality(A) = Cardinality(B)
  BY <1>3, MatchedSize
<1> DEFINE Verdict(m, sum, squares, x) ==
             IF ~(/\ m >= 3 /\ m * x - sum > 0
                  /\ (m * x - sum) * (m * x - sum) * (m - 1) > 4 * m * (m * squares - sum * sum)) THEN "no"
             ELSE IF (m * x - sum) * (m * x - sum) * (m - 1) * 1000
                       >= 17617 * m * (m * squares - sum * sum) THEN "far" ELSE "yes"
<1>10. Exceeds(back, i, metric) = Verdict(Cardinality(A), Total(w), Total(ww), back[i][metric])
  BY DEF Exceeds, A, w, ww
<1>11. Exceeds(list, p[i], metric) = Verdict(Cardinality(B), Total(v), Total(vv), list[p[i]][metric])
  BY DEF Exceeds, B, v, vv
<1>12. back[i][metric] = list[p[i]][metric]
  BY <1>2
<1> HIDE DEF Verdict
<1> QED
  BY <1>7, <1>8, <1>9, <1>10, <1>11, <1>12

\* The pairs of a unit and a metric, numbered unit by unit.
Slot(c) == (c - 1) % 4
Number(u, s) == 4 * (u - 1) + s + 1

LEMMA Numbering ==
  ASSUME NEW n \in Nat
  PROVE  /\ \A u \in 1..n, s \in 0..3 : /\ Number(u, s) \in 1..(n * 4)
                                        /\ Unit(Number(u, s)) = u /\ Slot(Number(u, s)) = s
         /\ \A c \in 1..(n * 4) : Unit(c) \in 1..n /\ Slot(c) \in 0..3 /\ c = Number(Unit(c), Slot(c))
<1>1. Len(Metrics) = 4
  BY DEF Metrics
<1>2. ASSUME NEW u \in 1..n, NEW s \in 0..3
      PROVE  /\ Number(u, s) \in 1..(n * 4)
             /\ Unit(Number(u, s)) = u /\ Slot(Number(u, s)) = s
  BY <1>1 DEF Number, Unit, Slot
<1>3. ASSUME NEW c \in 1..(n * 4)
      PROVE  Unit(c) \in 1..n /\ Slot(c) \in 0..3 /\ c = Number(Unit(c), Slot(c))
  BY <1>1 DEF Number, Unit, Slot
<1> QED
  BY <1>2, <1>3

LEMMA MetricOfSlot ==
  ASSUME NEW c \in Int
  PROVE  /\ Metric(c) = Metrics[Slot(c) + 1]
         /\ Metric(c) \in {"tokens_input", "tokens_output", "cost", "wall_clock_s"}
<1>1. Len(Metrics) = 4
  BY DEF Metrics
<1>2. Slot(c) \in 0..3
  BY DEF Slot
<1>3. Metric(c) = Metrics[Slot(c) + 1]
  BY <1>1 DEF Metric, Slot
<1>4. \A k \in 1..4 : Metrics[k] \in {"tokens_input", "tokens_output", "cost", "wall_clock_s"}
  BY DEF Metrics
<1> QED
  BY <1>2, <1>3, <1>4

\* The pairs at which a list degrades, and what is found there.
Degrading(list) ==
    {c \in 1..(Len(list) * Len(Metrics)) :
        /\ Unit(c) \in Measured(list, Metric(c))
        /\ Exceeds(list, Unit(c), Metric(c)) # "no"}
FoundAt(list) ==
    [c \in Degrading(list) |->
        Hypothesis("anomaly", IF Metric(c) = "wall_clock_s" THEN "time" ELSE "cost",
            CapUnderpowered(IF Exceeds(list, Unit(c), Metric(c)) = "far" THEN 900 ELSE 500,
                            Len(list)))]

LEMMA DegradationIsAList ==
  ASSUME NEW list \in Seq(Measurements)
  PROVE  \E n \in Nat : /\ DOMAIN Degradation(list) = 1..n
                        /\ \A k \in 1..n : Degradation(list)[k].confidence \in Int
                        /\ Degradation(list) = [k \in 1..n |-> Degradation(list)[k]]
                        /\ Alike(Degradation(list), FoundAt(list))
<1> DEFINE C == Degrading(list)
           n == Cardinality(C)
           order == Ascending(C)
           Found(c) ==
             Hypothesis("anomaly", IF Metric(c) = "wall_clock_s" THEN "time" ELSE "cost",
                 CapUnderpowered(IF Exceeds(list, Unit(c), Metric(c)) = "far" THEN 900 ELSE 500,
                                 Len(list)))
<1>1. Len(list) \in Nat /\ Len(list) * Len(Metrics) \in Int
  <2>1. Len(Metrics) = 4
    BY DEF Metrics
  <2>2. Len(list) \in Nat
    BY LenProperties
  <2> QED
    BY <2>1, <2>2
<1>2. C \in SUBSET Int /\ IsFiniteSet(C)
  <2>1. IsFiniteSet(1..(Len(list) * Len(Metrics)))
    <3>1. 1 \in Int
      OBVIOUS
    <3> QED
      BY <1>1, <3>1, FS_Interval
  <2>2. C \in SUBSET (1..(Len(list) * Len(Metrics)))
    BY DEF Degrading
  <2>3. IsFiniteSet(C)
    <3> HIDE DEF C
    <3> QED
      BY <2>1, <2>2, FS_Subset
  <2> HIDE DEF C
  <2> QED
    BY <1>1, <2>2, <2>3
<1>3. Degradation(list) = [k \in DOMAIN order |-> Found(order[k])]
  BY DEF Degradation, Degraded, Degrading
<1>4. FoundAt(list) = [c \in C |-> Found(c)]
  BY DEF FoundAt
<1>5. \A c : Found(c).confidence \in Int
  <2> DEFINE Score(c) == IF Exceeds(list, Unit(c), Metric(c)) = "far" THEN 900 ELSE 500
  <2>1. \A c : Score(c) \in Int
    OBVIOUS
  <2>2. \A c : Found(c).confidence = CapUnderpowered(Score(c), Len(list))
    BY DEF Hypothesis
  <2> HIDE DEF Score, Found, C, n, order
  <2>3. SUFFICES ASSUME NEW c PROVE CapUnderpowered(Score(c), Len(list)) \in Int
    BY <2>2
  <2> DEFINE x == CapUnderpowered(Score(c), Len(list))
  <2>4. Score(c) \in Int /\ Len(list) \in Int
    BY <1>1, <2>1
  <2>5. x \in 0..1000
    <3> DEFINE y == Score(c)
               l == Len(list)
    <3>1. y \in Int /\ l \in Int
      BY <2>4
    <3> HIDE DEF y, l
    <3>2. CapUnderpowered(y, l) \in 0..1000
      BY <3>1 DEF CapUnderpowered, Larger, Smaller
    <3> QED
      BY <3>2 DEF y, l
  <2> HIDE DEF x
  <2>6. x \in Int
    BY <2>5
  <2> QED
    BY <2>6 DEF x
<1> HIDE DEF Found, C
<1>6. n \in Nat /\ DOMAIN order = 1..n /\ Pairs(order, 1..n, C)
  BY <1>2, AscendingPairs
<1> HIDE DEF order, n
<1>7. DOMAIN Degradation(list) = 1..n /\ \A k \in 1..n : Degradation(list)[k] = Found(order[k])
  BY <1>3, <1>6
<1>8. \A k \in 1..n : Degradation(list)[k].confidence \in Int
  BY <1>5, <1>7
<1>9. Degradation(list) = [k \in 1..n |-> Degradation(list)[k]]
  BY <1>3, <1>6, <1>7
<1>10. Alike(Degradation(list), FoundAt(list))
  <2>1. DOMAIN FoundAt(list) = C
    BY <1>4
  <2>2. \A k \in 1..n : Degradation(list)[k] = FoundAt(list)[order[k]]
    BY <1>4, <1>6, <1>7 DEF Pairs
  <2>3. IsFiniteSet(1..n)
    <3>1. 1 \in Int /\ n \in Int
      BY <1>6
    <3> QED
      BY <3>1, FS_Interval
  <2> QED
    BY <1>6, <1>7, <2>1, <2>2, <2>3, PairedAlike
<1> QED
  BY <1>6, <1>7, <1>8, <1>9, <1>10

LEMMA DegradingAnyOrder ==
  ASSUME NEW list, NEW back, NEW p, Rearranged(list, back, p)
  PROVE  Alike(FoundAt(back), FoundAt(list))
<1> DEFINE n == Len(list)
           A == Degrading(back)
           B == Degrading(list)
           Other(c) == Number(p[Unit(c)], Slot(c))
           g == [c \in A |-> Other(c)]
<1>1. /\ list \in Seq(Measurements) /\ back \in Seq(Measurements) /\ Len(back) = n
      /\ Pairs(p, DOMAIN back, DOMAIN list) /\ \A i \in DOMAIN back : back[i] = list[p[i]]
  BY DEF Rearranged
<1>2. n \in Nat /\ DOMAIN list = 1..n /\ DOMAIN back = 1..n
  BY <1>1, Listing
<1>3. Len(Metrics) = 4
  BY DEF Metrics
<1>4. /\ \A i \in 1..n : p[i] \in 1..n
      /\ \A i, j \in 1..n : p[i] = p[j] => i = j
      /\ \A j \in 1..n : \E i \in 1..n : p[i] = j
  BY <1>1, <1>2 DEF Pairs
<1> HIDE DEF n
<1>5. ASSUME NEW c \in 1..(n * 4)
      PROVE  /\ Other(c) \in 1..(n * 4) /\ Unit(Other(c)) = p[Unit(c)] /\ Slot(Other(c)) = Slot(c)
             /\ Metric(Other(c)) = Metric(c)
             /\ Exceeds(back, Unit(c), Metric(c)) = Exceeds(list, Unit(Other(c)), Metric(Other(c)))
             /\ c \in A <=> Other(c) \in B
  <2>1. Unit(c) \in 1..n /\ Slot(c) \in 0..3
    BY <1>2, Numbering
  <2>2. p[Unit(c)] \in 1..n
    BY <1>4, <2>1
  <2>3. Other(c) \in 1..(n * 4) /\ Unit(Other(c)) = p[Unit(c)] /\ Slot(Other(c)) = Slot(c)
    BY <1>2, <2>1, <2>2, Numbering
  <2> HIDE DEF Other
  <2>4. c \in Int /\ Other(c) \in Int
    BY <1>2, <2>3
  <2>5. Metric(Other(c)) = Metric(c) /\ Metric(c) \in {"tokens_input", "tokens_output", "cost", "wall_clock_s"}
    BY <2>3, <2>4, MetricOfSlot
  <2>6. Exceeds(back, Unit(c), Metric(c)) = Exceeds(list, p[Unit(c)], Metric(c))
    BY <1>2, <2>1, <2>5, ExceedsAnyOrder
  <2>7. Unit(c) \in Measured(back, Metric(c)) <=> p[Unit(c)] \in Measured(list, Metric(c))
    <3>1. Matched(list, back, p, Measured(back, Metric(c)), Measured(list, Metric(c)))
      BY MeasuredMatch
    <3> QED
      BY <1>2, <2>1, <3>1 DEF Matched
  <2>8. c \in A <=> /\ Unit(c) \in Measured(back, Metric(c))
                    /\ Exceeds(back, Unit(c), Metric(c)) # "no"
    BY <1>1, <1>3 DEF Degrading
  <2>9. Other(c) \in B <=> /\ Unit(Other(c)) \in Measured(list, Metric(Other(c)))
                           /\ Exceeds(list, Unit(Other(c)), Metric(Other(c))) # "no"
    BY <1>3, <2>3 DEF Degrading, n
  <2> HIDE DEF A, B
  <2> QED
    BY <2>3, <2>5, <2>6, <2>7, <2>8, <2>9
<1>6. A \in SUBSET (1..(n * 4)) /\ B \in SUBSET (1..(n * 4))
  BY <1>1, <1>3 DEF Degrading, n
<1> HIDE DEF A, B
<1>7. Pairs(g, A, B)
  <2>1. \A c \in A : Other(c) \in B
    BY <1>5, <1>6
  <2>2. ASSUME NEW c \in A, NEW d \in A, Other(c) = Other(d) PROVE c = d
    <3>1. c \in 1..(n * 4) /\ d \in 1..(n * 4)
      BY <1>6
    <3>2. p[Unit(c)] = p[Unit(d)] /\ Slot(c) = Slot(d)
      <4>1. /\ Unit(Other(c)) = p[Unit(c)] /\ Slot(Other(c)) = Slot(c)
            /\ Unit(Other(d)) = p[Unit(d)] /\ Slot(Other(d)) = Slot(d)
        BY <1>5, <3>1
      <4> HIDE DEF Other
      <4> QED
        BY <2>2, <4>1
    <3>3. /\ Unit(c) \in 1..n /\ c = Number(Unit(c), Slot(c))
          /\ Unit(d) \in 1..n /\ d = Number(Unit(d), Slot(d))
      BY <1>2, <3>1, Numbering
    <3>4. Unit(c) = Unit(d)
      BY <1>4, <3>2, <3>3
    <3> QED
      BY <3>2, <3>3, <3>4
  <2>3. ASSUME NEW b \in B PROVE \E c \in A : Other(c) = b
    <3>1. b \in 1..(n * 4)
      BY <1>6
    <3>2. Unit(b) \in 1..n /\ Slot(b) \in 0..3 /\ b = Number(Unit(b), Slot(b))
      BY <1>2, <3>1, Numbering
    <3>3. PICK i \in 1..n : p[i] = Unit(b)
      BY <1>4, <3>2
    <3> DEFINE c == Number(i, Slot(b))
    <3>4. c \in 1..(n * 4) /\ Unit(c) = i /\ Slot(c) = Slot(b)
      BY <1>2, <3>2, <3>3, Numbering
    <3> HIDE DEF c
    <3>5. Other(c) = b
      BY <3>2, <3>3, <3>4
    <3>6. c \in A
      BY <1>5, <3>4, <3>5
    <3> QED
      BY <3>5, <3>6
  <2> HIDE DEF Other
  <2> QED
    BY <2>1, <2>2, <2>3 DEF Pairs
<1>8. IsFiniteSet(A)
  <2>1. 1 \in Int /\ n * 4 \in Int
    BY <1>2
  <2>2. IsFiniteSet(1..(n * 4))
    BY <2>1, FS_Interval
  <2> QED
    BY <1>6, <2>2, FS_Subset
<1>9. DOMAIN FoundAt(back) = A /\ DOMAIN FoundAt(list) = B
  BY DEF FoundAt, A, B
<1>10. \A c \in A : FoundAt(back)[c] = FoundAt(list)[g[c]]
  <2>1. SUFFICES ASSUME NEW c \in A PROVE FoundAt(back)[c] = FoundAt(list)[g[c]]
    OBVIOUS
  <2>2. /\ Metric(Other(c)) = Metric(c)
        /\ Exceeds(back, Unit(c), Metric(c)) = Exceeds(list, Unit(Other(c)), Metric(Other(c)))
        /\ Other(c) \in B /\ g[c] = Other(c)
    BY <1>5, <1>6
  <2> HIDE DEF Other, g
  <2> QED
    BY <1>1, <2>2 DEF FoundAt, A, B, n
<1> HIDE DEF g
<1> QED
  BY <1>7, <1>8, <1>9, <1>10, PairedAlike

LEMMA DegradationAnyOrder ==
  ASSUME NEW list, NEW back, NEW p, Rearranged(list, back, p)
  PROVE  /\ Alike(Surest(Degradation(back)), Surest(Degradation(list)))
         /\ IsList(Surest(Degradation(back))) /\ IsList(Surest(Degradation(list)))
<1>1. list \in Seq(Measurements) /\ back \in Seq(Measurements)
  BY DEF Rearranged
<1>2. ASSUME NEW l \in Seq(Measurements)
      PROVE  /\ Alike(Surest(Degradation(l)), Degradation(l)) /\ Alike(Degradation(l), FoundAt(l))
             /\ IsList(Surest(Degradation(l)))
  <2>1. PICK n \in Nat : /\ DOMAIN Degradation(l) = 1..n
                         /\ \A k \in 1..n : Degradation(l)[k].confidence \in Int
                         /\ Alike(Degradation(l), FoundAt(l))
    BY DegradationIsAList
  <2>2. Alike(Surest(Degradation(l)), Degradation(l))
    BY <2>1, SurestIsAlike
  <2> QED
    BY <2>1, <2>2, SurestIsAList
<1>3. Alike(FoundAt(back), FoundAt(list))
  BY DegradingAnyOrder
<1>4. /\ Alike(Surest(Degradation(back)), Degradation(back)) /\ Alike(Degradation(back), FoundAt(back))
      /\ Alike(Surest(Degradation(list)), Degradation(list)) /\ Alike(Degradation(list), FoundAt(list))
  BY <1>1, <1>2
<1>5. Alike(Surest(Degradation(back)), Surest(Degradation(list)))
  BY <1>3, <1>4 DEF Alike
<1> QED
  BY <1>1, <1>2, <1>5

------------------------------------------------------------------------------
(* Outliers: what was measured, sorted, is the same                        *)

\* R sorts M by a key.
Keyed(M, R, key) ==
    /\ IsFiniteSet(M) /\ StrictOrder(M, R) /\ key \in [M -> Int]
    /\ \A i, j \in M : key[i] < key[j] => <<i, j>> \in R
    /\ \A i, j \in M : <<i, j>> \in R => key[i] <= key[j]
Below(M, key, x) == {i \in M : key[i] < x}

\* At a place k, k - 1 elements at most have a smaller key, and k at least one no greater.
LEMMA KeyAtPlace ==
  ASSUME NEW M, NEW R, NEW key, Keyed(M, R, key), NEW k \in 1..Cardinality(M), NEW x \in Int
  PROVE  LET y == key[Ordered(M, R)[k]] IN
         /\ y \in Int /\ Cardinality(Below(M, key, x)) \in Nat
         /\ x <= y => Cardinality(Below(M, key, x)) <= k - 1
         /\ y < x => Cardinality(Below(M, key, x)) >= k
<1> DEFINE o == Ordered(M, R)[k]
           F == Ahead(M, R, o)
           B == Below(M, key, x)
<1>1. o \in M /\ Cardinality(F) = k - 1 /\ k \in Int
  <2>1. IsFiniteSet(M) /\ StrictOrder(M, R)
    BY DEF Keyed
  <2>2. Cardinality(M) \in Nat
    BY <2>1, PlacesAreTaken
  <2> QED
    BY <2>1, <2>2, PlacesAreTaken
<1> HIDE DEF o
<1>2. key[o] \in Int /\ \A i \in M : key[i] \in Int
  BY <1>1 DEF Keyed
<1>3. F \in SUBSET M /\ B \in SUBSET M /\ o \notin F
  BY <1>1 DEF Ahead, Below, Keyed, StrictOrder, Precedence
<1>4. IsFiniteSet(F) /\ IsFiniteSet(B)
  <2>1. IsFiniteSet(M)
    BY DEF Keyed
  <2> HIDE DEF F, B
  <2> QED
    BY <1>3, <2>1, FS_Subset
<1>5. Cardinality(B) \in Nat
  BY <1>4, FS_CardinalityType
<1>6. ASSUME x <= key[o] PROVE Cardinality(B) <= k - 1
  <2>1. B \in SUBSET F
    <3>1. ASSUME NEW i \in M, key[i] < x PROVE <<i, o>> \in R
      <4>1. key[i] < key[o]
        BY <1>2, <1>6, <3>1
      <4> QED
        BY <1>1, <4>1 DEF Keyed
    <3> QED
      BY <3>1 DEF Below, Ahead
  <2> HIDE DEF F, B
  <2> QED
    BY <1>1, <1>4, <2>1, FS_Subset
<1>7. ASSUME key[o] < x PROVE Cardinality(B) >= k
  <2>1. F \cup {o} \in SUBSET B
    <3>1. ASSUME NEW i \in F PROVE i \in B
      <4>1. i \in M /\ key[i] <= key[o]
        BY <1>1, <3>1 DEF Ahead, Keyed
      <4>2. key[i] < x
        BY <1>2, <1>7, <4>1
      <4> QED
        BY <4>1, <4>2 DEF Below
    <3>2. o \in B
      BY <1>1, <1>7 DEF Below
    <3> HIDE DEF F, B
    <3> QED
      BY <3>1, <3>2
  <2> HIDE DEF F, B
  <2>2. Cardinality(F \cup {o}) = k
    <3>1. Cardinality(F \cup {o}) = Cardinality(F) + 1
      BY <1>3, <1>4, FS_AddElement
    <3> QED
      BY <1>1, <3>1
  <2>3. Cardinality(F \cup {o}) <= Cardinality(B)
    BY <1>4, <2>1, FS_Subset
  <2> QED
    BY <1>1, <1>5, <2>2, <2>3
<1> QED
  BY <1>2, <1>5, <1>6, <1>7 DEF o

\* Two sets with the same keys have the same key at each place.
LEMMA SameKeys ==
  ASSUME NEW M, NEW R, NEW key, Keyed(M, R, key), NEW K, NEW Q, NEW other, Keyed(K, Q, other),
         Cardinality(M) = Cardinality(K),
         \A x \in Int : Cardinality(Below(M, key, x)) = Cardinality(Below(K, other, x))
  PROVE  \A k \in 1..Cardinality(M) : key[Ordered(M, R)[k]] = other[Ordered(K, Q)[k]]
<1>1. SUFFICES ASSUME NEW k \in 1..Cardinality(M)
               PROVE  key[Ordered(M, R)[k]] = other[Ordered(K, Q)[k]]
  OBVIOUS
<1> DEFINE y == key[Ordered(M, R)[k]]
           z == other[Ordered(K, Q)[k]]
<1>2. ASSUME NEW x \in Int
      PROVE  /\ y \in Int /\ Cardinality(Below(M, key, x)) \in Nat
             /\ x <= y => Cardinality(Below(M, key, x)) <= k - 1
             /\ y < x => Cardinality(Below(M, key, x)) >= k
  BY KeyAtPlace
<1>3. ASSUME NEW x \in Int
      PROVE  /\ z \in Int /\ Cardinality(Below(K, other, x)) \in Nat
             /\ x <= z => Cardinality(Below(K, other, x)) <= k - 1
             /\ z < x => Cardinality(Below(K, other, x)) >= k
  <2>1. k \in 1..Cardinality(K)
    OBVIOUS
  <2> QED
    BY <2>1, KeyAtPlace
<1>4. y \in Int /\ z \in Int /\ k \in Int
  <2>1. 0 \in Int
    OBVIOUS
  <2>2. y \in Int /\ z \in Int
    BY <1>2, <1>3, <2>1
  <2>3. Cardinality(M) \in Int
    <3>1. IsFiniteSet(M)
      BY DEF Keyed
    <3>2. Cardinality(M) \in Nat
      BY <3>1, FS_CardinalityType
    <3> QED
      BY <3>2
  <2> HIDE DEF y, z
  <2> QED
    BY <2>2, <2>3
<1> HIDE DEF y, z
<1>5. ~(y < z)
  BY <1>2, <1>3, <1>4
<1>6. ~(z < y)
  BY <1>2, <1>3, <1>4
<1>7. y = z
  BY <1>4, <1>5, <1>6
<1> QED
  BY <1>7 DEF y, z

\* How values() sorts the places of a metric.
ByValue(list, metric) ==
    {p \in Measured(list, metric) \X Measured(list, metric) :
        \/ list[p[1]][metric] < list[p[2]][metric]
        \/ list[p[1]][metric] = list[p[2]][metric] /\ p[1] < p[2]}

LEMMA ValuesAreKeyed ==
  ASSUME NEW list \in Seq(Measurements), NEW metric \in {"cost", "wall_clock_s"}
  PROVE  /\ Keyed(Measured(list, metric), ByValue(list, metric),
                  [i \in Measured(list, metric) |-> list[i][metric]])
         /\ \A i \in Measured(list, metric) : list[i][metric] \in Int
<1> DEFINE M == Measured(list, metric)
           key == [i \in M |-> list[i][metric]]
           R == ByValue(list, metric)
<1>1. M \in SUBSET DOMAIN list /\ DOMAIN list = 1..Len(list) /\ Len(list) \in Nat /\ IsFiniteSet(DOMAIN list)
  BY Listing DEF Measured
<1>2. IsFiniteSet(M) /\ \A i \in M : i \in Int
  <2> HIDE DEF M
  <2> QED
    BY <1>1, FS_Subset
<1>3. \A i \in M : list[i][metric] \in Int
  <2>1. metric \in {"tokens_input", "tokens_output", "cost", "wall_clock_s"}
    OBVIOUS
  <2> HIDE DEF M
  <2> QED
    BY <1>1, <2>1, MetricsAreIntegers
<1>4. \A i, j \in M : <<i, j>> \in R <=> key[i] < key[j] \/ (key[i] = key[j] /\ i < j)
  BY DEF ByValue
<1>5. key \in [M -> Int]
  BY <1>3
<1> HIDE DEF M, key, R
<1>6. StrictOrder(M, R)
  <2>1. \A i \in M : i \in Int /\ key[i] \in Int
    BY <1>2, <1>5
  <2>2. \A i \in M : <<i, i>> \notin R
    BY <1>4, <2>1
  <2>3. \A i, j \in M : i # j => <<i, j>> \in R \/ <<j, i>> \in R
    BY <1>4, <2>1
  <2>4. ASSUME NEW i \in M, NEW j \in M, NEW k \in M, <<i, j>> \in R, <<j, k>> \in R
        PROVE  <<i, k>> \in R
    <3>1. /\ key[i] \in Int /\ key[j] \in Int /\ key[k] \in Int
          /\ i \in Int /\ j \in Int /\ k \in Int
      BY <2>1
    <3>2. /\ key[i] < key[j] \/ (key[i] = key[j] /\ i < j)
          /\ key[j] < key[k] \/ (key[j] = key[k] /\ j < k)
      BY <1>4, <2>4
    <3>3. key[i] < key[k] \/ (key[i] = key[k] /\ i < k)
      BY <3>1, <3>2
    <3> QED
      BY <1>4, <3>3
  <2> QED
    BY <2>2, <2>3, <2>4 DEF StrictOrder, Precedence
<1>7. /\ \A i, j \in M : key[i] < key[j] => <<i, j>> \in R
      /\ \A i, j \in M : <<i, j>> \in R => key[i] <= key[j]
  BY <1>4, <1>5
<1>8. Keyed(M, R, key)
  BY <1>2, <1>5, <1>6, <1>7 DEF Keyed
<1> QED
  BY <1>3, <1>8 DEF M, R, key

LEMMA ValuesAnyOrder ==
  ASSUME NEW list, NEW back, NEW p, Rearranged(list, back, p), NEW metric \in {"cost", "wall_clock_s"}
  PROVE  Values(back, metric) = Values(list, metric)
<1> DEFINE M(l) == Measured(l, metric)
           key(l) == [i \in M(l) |-> l[i][metric]]
           order(l) == Ordered(M(l), ByValue(l, metric))
<1>1. list \in Seq(Measurements) /\ back \in Seq(Measurements)
  BY DEF Rearranged
<1>2. \A i \in DOMAIN back : p[i] \in DOMAIN list /\ back[i] = list[p[i]]
  BY DEF Rearranged, Pairs
<1>3. Matched(list, back, p, M(back), M(list))
  BY MeasuredMatch
<1>4. Cardinality(M(back)) = Cardinality(M(list))
  BY <1>3, MatchedSize
<1>5. Keyed(M(list), ByValue(list, metric), key(list)) /\ Keyed(M(back), ByValue(back, metric), key(back))
  BY <1>1, ValuesAreKeyed
<1>6. ASSUME NEW x \in Int
      PROVE  Cardinality(Below(M(back), key(back), x)) = Cardinality(Below(M(list), key(list), x))
  <2> DEFINE A == Below(M(back), key(back), x)
             B == Below(M(list), key(list), x)
  <2>1. M(back) \in SUBSET DOMAIN back /\ M(list) \in SUBSET DOMAIN list
    BY DEF Measured
  <2>2. \A i \in DOMAIN back : i \in A <=> p[i] \in B
    <3>1. \A i \in DOMAIN back : i \in M(back) <=> p[i] \in M(list)
      BY <1>3 DEF Matched
    <3>2. /\ \A i \in M(back) : key(back)[i] = back[i][metric]
          /\ \A i \in M(list) : key(list)[i] = list[i][metric]
      OBVIOUS
    <3> HIDE DEF M, key
    <3> QED
      BY <1>2, <3>1, <3>2 DEF Below
  <2>3. A \in SUBSET DOMAIN back /\ B \in SUBSET DOMAIN list
    <3> HIDE DEF M, key
    <3> QED
      BY <2>1 DEF Below
  <2> HIDE DEF A, B
  <2>4. Matched(list, back, p, A, B)
    BY <2>2, <2>3 DEF Matched
  <2>5. Cardinality(A) = Cardinality(B)
    BY <2>4, MatchedSize
  <2> QED
    BY <2>5 DEF A, B
<1> HIDE DEF key, M
<1>7. \A k \in 1..Cardinality(M(back)) : key(back)[order(back)[k]] = key(list)[order(list)[k]]
  BY <1>4, <1>5, <1>6, SameKeys
<1>8. ASSUME NEW l, Keyed(M(l), ByValue(l, metric), key(l))
      PROVE  /\ DOMAIN order(l) = 1..Cardinality(M(l))
             /\ \A k \in 1..Cardinality(M(l)) : order(l)[k] \in M(l)
  BY <1>8, PlacesAreTaken DEF Keyed
<1>9. ASSUME NEW l, Keyed(M(l), ByValue(l, metric), key(l))
      PROVE  Values(l, metric) = [k \in 1..Cardinality(M(l)) |-> 2 * key(l)[order(l)[k]]]
  <2>1. Values(l, metric) = [k \in DOMAIN order(l) |-> 2 * l[order(l)[k]][metric]]
    BY DEF Values, ByValue, M
  <2>2. \A i \in M(l) : key(l)[i] = l[i][metric]
    BY DEF key
  <2> HIDE DEF order
  <2> QED
    BY <1>8, <1>9, <2>1, <2>2
<1> HIDE DEF order
<1>10. /\ Values(back, metric) = [k \in 1..Cardinality(M(back)) |-> 2 * key(back)[order(back)[k]]]
       /\ Values(list, metric) = [k \in 1..Cardinality(M(list)) |-> 2 * key(list)[order(list)[k]]]
  BY <1>5, <1>9
<1> QED
  BY <1>4, <1>7, <1>10

LEMMA OutliersAnyOrder ==
  ASSUME NEW list, NEW back, NEW p, Rearranged(list, back, p), NEW metric \in {"cost", "wall_clock_s"}
  PROVE  Outliers(back, metric) = Outliers(list, metric) /\ IsList(Outliers(list, metric))
<1> DEFINE N(l) == Cardinality(Measured(l, metric))
           V(l) == Values(l, metric)
           Dist(v, n, k) == Absolute(v[k] - (v[(n + 1) \div 2] + v[n \div 2 + 1]) \div 2)
           First(v, n) == v[Quartiles(n)[1]]
           Third(v, n) == v[Quartiles(n)[2]]
           Out(v, n) == {k \in 1..n :
             \/ 2 * v[k] < 2 * First(v, n) - 3 * (Third(v, n) - First(v, n))
             \/ 2 * v[k] > 2 * Third(v, n) + 3 * (Third(v, n) - First(v, n))}
           Far(v, n) == Larger(Dist(v, n, 1), Dist(v, n, n))
           Finding(v, n, k) ==
             Hypothesis("anomaly", IF metric = "cost" THEN "cost" ELSE "time",
                CapUnderpowered((1000 * (Far(v, n) - Dist(v, n, Ascending(Out(v, n))[k]))) \div Far(v, n), n))
           All(v, n) == IF n < 3 THEN <<>> ELSE [k \in DOMAIN Ascending(Out(v, n)) |-> Finding(v, n, k)]
<1>1. \A l : Outliers(l, metric) = All(V(l), N(l))
  BY DEF Outliers
<1>2. N(back) = N(list)
  <2>1. Matched(list, back, p, Measured(back, metric), Measured(list, metric))
    BY MeasuredMatch
  <2> QED
    BY <2>1, MatchedSize
<1>3. V(back) = V(list)
  BY ValuesAnyOrder
<1>4. Outliers(back, metric) = Outliers(list, metric)
  <2> HIDE DEF All, V, N
  <2> QED
    BY <1>1, <1>2, <1>3
<1>5. IsList(All(V(list), N(list)))
  <2> DEFINE n == N(list)
             out == Out(V(list), n)
             c == Cardinality(out)
             s == All(V(list), n)
  <2>1. n \in Nat
    <3>1. list \in Seq(Measurements)
      BY DEF Rearranged
    <3>2. IsFiniteSet(DOMAIN list) /\ Measured(list, metric) \in SUBSET DOMAIN list
      BY <3>1, Listing DEF Measured
    <3>3. IsFiniteSet(Measured(list, metric))
      BY <3>2, FS_Subset
    <3> QED
      BY <3>3, FS_CardinalityType
  <2>2. out \in SUBSET (1..n)
    OBVIOUS
  <2>3. s = IF n < 3 THEN <<>> ELSE [k \in DOMAIN Ascending(out) |-> Finding(V(list), n, k)]
    OBVIOUS
  <2> HIDE DEF n, out, Finding, s
  <2>4. CASE n < 3
    <3>1. s = <<>>
      BY <2>3, <2>4
    <3>2. <<>> \in Seq({})
      BY EmptySeq
    <3> QED
      BY <3>1, <3>2 DEF IsList, s, n
  <2>5. CASE ~(n < 3)
    <3>1. IsFiniteSet(1..n)
      <4>1. 1 \in Int /\ n \in Int
        BY <2>1
      <4> QED
        BY <4>1, FS_Interval
    <3>2. out \in SUBSET Int
      BY <2>1, <2>2
    <3>3. IsFiniteSet(out)
      BY <2>2, <3>1, FS_Subset
    <3>4. c \in Nat /\ DOMAIN Ascending(out) = 1..c
      BY <3>2, <3>3, AscendingPairs
    <3> HIDE DEF c
    <3>5. s = [k \in 1..c |-> Finding(V(list), n, k)]
      BY <2>3, <2>5, <3>4
    <3>6. DOMAIN s = 1..c /\ s = [k \in 1..c |-> s[k]]
      BY <3>5
    <3>7. IsList(s)
      BY <3>4, <3>6, ListOfAny
    <3> QED
      BY <3>7 DEF s, n
  <2> QED
    BY <2>4, <2>5
<1> HIDE DEF All, V, N
<1> QED
  BY <1>1, <1>4, <1>5

LEMMA EmptyAndSingle ==
  /\ IsList(<<>>)
  /\ \A h : IsList(<<h>>)
<1>1. <<>> \in Seq({})
  BY EmptySeq
<1>2. \A h : <<h>> \in Seq({h})
  OBVIOUS
<1> QED
  BY <1>1, <1>2 DEF IsList

LEMMA ComparisonIsAList ==
  ASSUME NEW A, NEW n
  PROVE  IsList(Comparison(A, n))
<1> DEFINE least == CHOOSE p \in A : \A q \in A : ~Less(q, p)
           most == CHOOSE p \in A : \A q \in A : ~Less(p, q)
           over == most[1] * least[2] - least[1] * most[2]
           unit == 5 * least[1] * most[2]
           c == CapUnderpowered(IF unit = 0 THEN 1000 ELSE Smaller(1000, (1000 * over) \div unit), n)
           h == Hypothesis("opportunity", "model_efficiency", c)
<1>1. Comparison(A, n) = IF over <= 0 THEN <<>> ELSE <<h>>
  BY DEF Comparison
<1> HIDE DEF over, h
<1> QED
  BY <1>1, EmptyAndSingle

\* Each detector makes a list.
LEMMA FindingsAreLists ==
  ASSUME NEW list, NEW back, NEW p, Rearranged(list, back, p)
  PROVE  /\ IsList(Baseline(list)) /\ IsList(ModelEfficiency(list)) /\ IsList(Anomaly(list))
         /\ IsList(SessionPattern(list)) /\ IsList(ReworkCorrelation(list))
<1>1. IsList(Baseline(list))
  <2> DEFINE n == Max({Cardinality(Measured(list, Metrics[k])) : k \in DOMAIN Metrics})
             h == Hypothesis("pattern", "cost", CapUnderpowered(Smaller(100 * n, 1000), n))
  <2>1. Baseline(list) = IF list = <<>> THEN <<>> ELSE <<h>>
    BY DEF Baseline
  <2> HIDE DEF h
  <2> QED
    BY <2>1, EmptyAndSingle
<1>2. IsList(SessionPattern(list))
  <2> DEFINE best == Max({Cluster(list, o) : o \in 0..23})
             few == Len(list) < 3 \/ 10 * best <= 6 * Len(list)
             h == Hypothesis("pattern", "session_behavior",
                             CapUnderpowered((1000 * best) \div Len(list), Len(list)))
  <2>1. SessionPattern(list) = IF few THEN <<>> ELSE <<h>>
    BY DEF SessionPattern
  <2> HIDE DEF few, h
  <2> QED
    BY <2>1, EmptyAndSingle
<1>3. IsList(ReworkCorrelation(list))
  BY EmptyAndSingle DEF ReworkCorrelation
<1>4. IsList(Anomaly(list))
  <2>1. IsList(Outliers(list, "cost")) /\ IsList(Outliers(list, "wall_clock_s"))
    BY OutliersAnyOrder
  <2> QED
    BY <2>1, ListsConcat DEF Anomaly
<1>5. IsList(ModelEfficiency(list))
  <2> DEFINE costed == {m \in Models(list) : OfModel(list, m) \cap Measured(list, "cost") # {}}
             Compared(models, averages, n) ==
               IF Cardinality(models) < 2 THEN <<>> ELSE Comparison(averages, n)
             first == Compared(costed, {AverageCost(list, m) : m \in costed}, Len(list))
             second == Compared(Models(list), {AverageTime(list, m) : m \in Models(list)}, Len(list))
  <2>1. ModelEfficiency(list) = first \o second
    BY DEF ModelEfficiency
  <2>2. \A models, averages, n : IsList(Compared(models, averages, n))
    BY EmptyAndSingle, ComparisonIsAList
  <2> HIDE DEF Compared, costed
  <2>3. IsList(first) /\ IsList(second)
    BY <2>2
  <2> HIDE DEF first, second
  <2> QED
    BY <2>1, <2>3, ListsConcat
<1> QED
  BY <1>1, <1>2, <1>3, <1>4, <1>5

LEMMA SurestOfAList ==
  ASSUME NEW found, IsList(found)
  PROVE  IsList(Surest(found))
<1>1. PICK X : found \in Seq(X)
  BY DEF IsList
<1>2. Len(found) \in Nat /\ DOMAIN found = 1..Len(found)
  BY <1>1, LenProperties
<1> QED
  BY <1>2, SurestIsAList

\* The cycle, for measurements in one order and in another.
LEMMA HypothesesAnyOrder ==
  ASSUME NEW list, NEW back, NEW p, Rearranged(list, back, p)
  PROVE  ToBag(Hypotheses(list, {})) = ToBag(Hypotheses(back, {}))
<1> DEFINE a == Surest(Baseline(list))
           s == Surest(Degradation(list))
           t == Surest(Degradation(back))
           b == Surest(ModelEfficiency(list))
           c == Surest(Anomaly(list))
           d == Surest(SessionPattern(list))
           e == Surest(ReworkCorrelation(list))
<1>1. Hypotheses(list, {}) = a \o s \o b \o c \o d \o e
  BY DEF Hypotheses, Findings
<1>2. Hypotheses(back, {}) = a \o t \o b \o c \o d \o e
  <2>1. /\ Baseline(back) = Baseline(list) /\ ModelEfficiency(back) = ModelEfficiency(list)
        /\ SessionPattern(back) = SessionPattern(list)
    BY BaselineAnyOrder, ModelEfficiencyAnyOrder, SessionPatternAnyOrder
  <2>2. Anomaly(back) = Anomaly(list)
    BY OutliersAnyOrder DEF Anomaly
  <2>3. ReworkCorrelation(back) = ReworkCorrelation(list)
    BY DEF ReworkCorrelation
  <2>4. Hypotheses(back, {}) = Surest(Baseline(back)) \o Surest(Degradation(back))
          \o Surest(ModelEfficiency(back)) \o Surest(Anomaly(back))
          \o Surest(SessionPattern(back)) \o Surest(ReworkCorrelation(back))
    BY DEF Hypotheses, Findings
  <2> QED
    BY <2>1, <2>2, <2>3, <2>4
<1>3. Alike(t, s) /\ IsList(s) /\ IsList(t)
  BY DegradationAnyOrder
<1>4. IsList(a) /\ IsList(b) /\ IsList(c) /\ IsList(d) /\ IsList(e)
  BY FindingsAreLists, SurestOfAList
<1> HIDE DEF a, s, t, b, c, d, e
<1>5. Alike(a \o t, a \o s) /\ IsList(a \o t) /\ IsList(a \o s)
  BY <1>3, <1>4, AlikeBetween, ListsConcat
<1>6. Alike(a \o t \o b, a \o s \o b) /\ IsList(a \o t \o b) /\ IsList(a \o s \o b)
  BY <1>4, <1>5, AlikeBetween, ListsConcat
<1>7. Alike(a \o t \o b \o c, a \o s \o b \o c) /\ IsList(a \o t \o b \o c) /\ IsList(a \o s \o b \o c)
  BY <1>4, <1>6, AlikeBetween, ListsConcat
<1>8. /\ Alike(a \o t \o b \o c \o d, a \o s \o b \o c \o d)
      /\ IsList(a \o t \o b \o c \o d) /\ IsList(a \o s \o b \o c \o d)
  BY <1>4, <1>7, AlikeBetween, ListsConcat
<1>9. Alike(a \o t \o b \o c \o d \o e, a \o s \o b \o c \o d \o e)
  BY <1>4, <1>8, AlikeBetween
<1> QED
  BY <1>1, <1>2, <1>9, AlikeBags

LEMMA ReverseRearranges ==
  ASSUME NEW list \in Seq(Measurements)
  PROVE  \E p : Rearranged(list, Reverse(list), p)
<1> DEFINE n == Len(list)
           back == Reverse(list)
           p == [i \in 1..n |-> (n - i) + 1]
<1>1. n \in Nat /\ DOMAIN list = 1..n /\ \A i \in 1..n : list[i] \in Measurements
  BY LenProperties, ElementOfSeq
<1>2. back = [i \in 1..n |-> list[(n - i) + 1]]
  BY DEF Reverse
<1> HIDE DEF n
<1>3. Pairs(p, 1..n, 1..n)
  <2>1. \A i \in 1..n : (n - i) + 1 \in 1..n /\ (n - ((n - i) + 1)) + 1 = i
    BY <1>1
  <2>2. \A b \in 1..n : \E a \in 1..n : p[a] = b
    BY <2>1
  <2>3. \A i, j \in 1..n : p[i] = p[j] => i = j
    BY <1>1
  <2> QED
    BY <2>1, <2>2, <2>3 DEF Pairs
<1>4. \A i \in 1..n : p[i] \in 1..n /\ p[i] = (n - i) + 1
  BY <1>1
<1> HIDE DEF p, back
<1>5. back \in [1..n -> Measurements]
  BY <1>1, <1>2, <1>4
<1>6. back \in Seq(Measurements) /\ DOMAIN back = 1..n
  BY <1>1, <1>5, SeqDef
<1>7. Len(back) = n
  <2>1. Len(back) \in Nat /\ DOMAIN back = 1..Len(back)
    BY <1>6, LenProperties
  <2> DEFINE m == Len(back)
  <2>2. m \in Nat /\ 1..m = 1..n
    BY <1>6, <2>1
  <2> HIDE DEF m
  <2>3. m > 0 => m \in 1..n
    <3>1. m > 0 => m \in 1..m
      BY <2>2
    <3> QED
      BY <2>2, <3>1
  <2>4. n > 0 => n \in 1..m
    <3>1. n > 0 => n \in 1..n
      BY <1>1
    <3> QED
      BY <2>2, <3>1
  <2>5. m = n
    BY <1>1, <2>2, <2>3, <2>4
  <2> QED
    BY <2>5 DEF m
<1>8. \A i \in DOMAIN back : back[i] = list[p[i]]
  BY <1>2, <1>4, <1>6
<1>9. Rearranged(list, back, p)
  BY <1>1, <1>3, <1>6, <1>7, <1>8 DEF Rearranged, n
<1> QED
  BY <1>9 DEF back

\* What is found does not depend on the order of units measured in the same instant.
LEMMA OrderOfMeasurements ==
  ASSUME units \in Seq(Measurements)
  PROVE  OrderDoesNotMatter
<1>1. Listed \in Seq(Measurements)
  BY ListedAreMeasurements
<1>2. PICK p : Rearranged(Listed, Reverse(Listed), p)
  BY <1>1, ReverseRearranges
<1>3. ToBag(Hypotheses(Listed, {})) = ToBag(Hypotheses(Reverse(Listed), {}))
  BY <1>2, HypothesesAnyOrder
<1> QED
  BY <1>3 DEF OrderDoesNotMatter

\* In every reachable store the detectors find the same, in whatever order SQLite lists units of
\* one instant (optimizer/_detectors.py:116, pulse/storage.py:248).
THEOREM OrderIsNothingToTheDetectors == PulseSpec => []OrderDoesNotMatter
<1>1. UnitsInv => OrderDoesNotMatter
  BY OrderOfMeasurements DEF UnitsInv
<1> QED
  BY <1>1, UnitsInvariance, PTL
====
