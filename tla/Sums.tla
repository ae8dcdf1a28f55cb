--------------------------------- MODULE Sums ---------------------------------
(* What the folds of FiniteSetsExt make of the sizes of a set: lemmas for the  *)
(* quota of Admission and the retention of ReleaseSnapshots.  All of them are  *)
(* proved by looking at a least counterexample.                                *)
EXTENDS Naturals, FiniteSetsExt, FiniteSetTheorems, WellFoundedInduction, TLAPS

\* A set of natural numbers has a least element.
LEMMA LeastOf ==
  ASSUME NEW A \in SUBSET Nat, A # {}
  PROVE  \E n \in A : \A m \in A : n <= m
<1>1. PICK n \in A : \A m \in A : ~(<<m, n>> \in OpToRel(<, Nat))
  BY WFMin, NatLessThanWellFounded
<1>2. \A m \in A : ~(m < n)
  BY <1>1 DEF OpToRel
<1> QED BY <1>2

\* And a finite one, if it is not empty, a greatest.
LEMMA GreatestOf ==
  ASSUME NEW A \in SUBSET Nat, IsFiniteSet(A), A # {}
  PROVE  \E n \in A : \A m \in A : m <= n
<1> DEFINE Above(n) == {m \in A : m > n}
           Counts == {Cardinality(Above(n)) : n \in A}
<1>1. \A n \in A : IsFiniteSet(Above(n)) /\ Cardinality(Above(n)) \in Nat
  BY FS_Subset, FS_CardinalityType
<1>2. PICK c \in Counts : \A b \in Counts : c <= b
  <2>1. Counts \in SUBSET Nat /\ Counts # {}
    BY <1>1
  <2> HIDE DEF Counts
  <2> QED BY <2>1, LeastOf
<1>3. PICK n \in A : c = Cardinality(Above(n))
  OBVIOUS
<1>4. ASSUME NEW m \in A, m > n
      PROVE  FALSE
  <2>1. m \in Nat /\ n \in Nat /\ \A k \in A : k \in Nat
    OBVIOUS
  <2>2. m \in Above(n) /\ m \notin Above(m)
    BY <1>4, <2>1
  <2>3. Above(m) \subseteq Above(n)
    <3>1. \A k \in A : k > m => k > n
      BY <1>4, <2>1
    <3> QED BY <3>1
  <2>4. /\ Cardinality(Above(n)) \in Nat /\ IsFiniteSet(Above(n))
        /\ Cardinality(Above(m)) \in Nat
    BY <1>1
  <2>5. c <= Cardinality(Above(m))
    BY <1>2
  <2> HIDE DEF Above, Counts
  <2>6. Cardinality(Above(m)) < Cardinality(Above(n))
    BY <2>2, <2>3, <2>4, FS_Subset
  <2> QED BY <1>3, <2>4, <2>5, <2>6
<1>5. \A m \in A : m <= n
  BY <1>4
<1> QED BY <1>5

LEMMA CountTo ==
  ASSUME NEW n \in Nat
  PROVE  IsFiniteSet(1..n) /\ Cardinality(1..n) = n
<1>1. /\ IsFiniteSet(1..n)
      /\ Cardinality(1..n) = IF 1 > n THEN 0 ELSE n - 1 + 1
  BY FS_Interval
<1> QED BY <1>1

LEMMA MinLeast ==
  ASSUME NEW A \in SUBSET Nat, A # {}
  PROVE  Min(A) \in A /\ \A m \in A : Min(A) <= m
BY LeastOf DEF Min

\* The sizes of the elements of a set, added up.
SizeOf(f, S) == MapThenSumSet(LAMBDA x : f[x].size, S)

Some(s) == CHOOSE x \in s : TRUE

\* What makes sum the function that the fold over the subsets of S computes.
Adds(f, S, sum) ==
  sum = [s \in SUBSET S |->
           IF s = {} THEN 0 ELSE f[Some(s)].size + sum[s \ {Some(s)}]]

LEMMA SizeOfMeans ==
  ASSUME NEW f, NEW S
  PROVE  SizeOf(f, S) = (CHOOSE sum : Adds(f, S, sum))[S]
BY DEF SizeOf, MapThenSumSet, MapThenFoldSet, Adds, Some

\* Proper subsets have fewer elements.
LEMMA Fewer ==
  ASSUME NEW s, IsFiniteSet(s), s # {}
  PROVE  /\ Some(s) \in s
         /\ IsFiniteSet(s \ {Some(s)})
         /\ Cardinality(s) \in Nat /\ Cardinality(s \ {Some(s)}) < Cardinality(s)
<1>1. Some(s) \in s
  BY DEF Some
<1> QED BY <1>1, FS_RemoveElement, FS_CardinalityType

\* The elements of a set have the same sizes in both.
Alike(f, g, S) == \A x \in S : f[x].size = g[x].size

\* Two such functions agree where both are defined, if they add up the same.
LEMMA SumsAgree ==
  ASSUME NEW f, NEW g, NEW S, NEW T, T \subseteq S, IsFiniteSet(S),
         Alike(f, g, T),
         NEW sum, Adds(f, S, sum), NEW add, Adds(g, T, add)
  PROVE  \A s \in SUBSET T : sum[s] = add[s]
<1> DEFINE Differ == {Cardinality(s) : s \in {r \in SUBSET T : sum[r] # add[r]}}
<1>1. \A s \in SUBSET T : IsFiniteSet(s) /\ Cardinality(s) \in Nat
  BY FS_Subset, FS_CardinalityType
<1>2. SUFFICES ASSUME Differ # {} PROVE FALSE
  BY <1>2
<1>3. Differ \in SUBSET Nat
  BY <1>1
<1>4. PICK n \in Differ : \A m \in Differ : n <= m
  BY <1>2, <1>3, LeastOf
<1>5. PICK s \in SUBSET T : sum[s] # add[s] /\ n = Cardinality(s)
  BY <1>4
<1>6. s # {}
  BY <1>5 DEF Adds
<1>7. /\ Some(s) \in s
      /\ s \ {Some(s)} \in SUBSET T
      /\ Cardinality(s \ {Some(s)}) < n
  BY <1>1, <1>5, <1>6, Fewer
<1>8. sum[s \ {Some(s)}] = add[s \ {Some(s)}]
  <2>1. Cardinality(s \ {Some(s)}) \in Nat /\ n \in Nat
    BY <1>1, <1>5, <1>7
  <2>2. Cardinality(s \ {Some(s)}) \notin Differ
    BY <1>4, <1>7, <2>1
  <2> QED BY <1>7, <2>2
<1>9. sum[s] = f[Some(s)].size + sum[s \ {Some(s)}]
  BY <1>6 DEF Adds
<1>10. add[s] = g[Some(s)].size + add[s \ {Some(s)}]
  BY <1>6 DEF Adds
<1> QED BY <1>5, <1>7, <1>8, <1>9, <1>10 DEF Alike

\* For a finite set there is such a function: the fold computes something.
LEMMA SumExists ==
  ASSUME NEW f, NEW S, IsFiniteSet(S)
  PROVE  \E sum : Adds(f, S, sum)
<1> DEFINE Without == {Cardinality(T) : T \in {R \in SUBSET S : ~\E sum : Adds(f, R, sum)}}
<1>1. \A T \in SUBSET S : IsFiniteSet(T) /\ Cardinality(T) \in Nat
  BY FS_Subset, FS_CardinalityType
<1>2. SUFFICES ASSUME Without # {} PROVE FALSE
  <2>1. Without = {} => \A R \in SUBSET S : \E sum : Adds(f, R, sum)
    OBVIOUS
  <2> QED BY <2>1
<1>3. PICK n \in Without : \A m \in Without : n <= m
  <2>1. Without \in SUBSET Nat
    BY <1>1
  <2> HIDE DEF Without
  <2> QED BY <1>2, <2>1, LeastOf
<1>4. PICK T \in SUBSET S : n = Cardinality(T) /\ ~\E sum : Adds(f, T, sum)
  BY <1>3
<1>5. \A R \in SUBSET T : R # T => \E sum : Adds(f, R, sum)
  <2> SUFFICES ASSUME NEW R \in SUBSET T, R # T, ~\E sum : Adds(f, R, sum)
               PROVE  FALSE
    OBVIOUS
  <2>1. Cardinality(R) < Cardinality(T)
    BY <1>1, FS_Subset
  <2>2. Cardinality(R) \in Without /\ Cardinality(R) \in Nat /\ n \in Nat
    BY <1>1, <1>4
  <2> HIDE DEF Without
  <2> QED BY <1>3, <1>4, <2>1, <2>2
<1> DEFINE all == [s \in SUBSET T |->
                     IF s = {} THEN 0
                     ELSE f[Some(s)].size + SizeOf(f, s \ {Some(s)})]
<1>6. \A s \in SUBSET T : s # {} => Some(s) \in s /\ s \ {Some(s)} \in SUBSET T
                                  /\ s \ {Some(s)} # T
  BY DEF Some
<1>7. ASSUME NEW s \in SUBSET T, s # T
      PROVE  all[s] = SizeOf(f, s)
  <2> DEFINE sum == CHOOSE g : Adds(f, s, g)
  <2>1. Adds(f, s, sum) /\ SizeOf(f, s) = sum[s]
    BY <1>5, <1>7, SizeOfMeans
  <2>2. CASE s = {}
    BY <2>1, <2>2 DEF Adds
  <2>3. CASE s # {}
    <3> DEFINE r == s \ {Some(s)}
               add == CHOOSE g : Adds(f, r, g)
    <3>1. r \in SUBSET T /\ r # T /\ r \subseteq s
      BY <1>6, <2>3
    <3>2. Adds(f, r, add) /\ SizeOf(f, r) = add[r]
      BY <1>5, <3>1, SizeOfMeans
    <3>3. IsFiniteSet(s)
      BY <1>1
    <3> HIDE DEF r, sum, add
    <3>4. sum[r] = add[r]
      BY <2>1, <3>1, <3>2, <3>3, SumsAgree DEF Alike
    <3>5. sum[s] = f[Some(s)].size + sum[r]
      BY <2>1, <2>3 DEF Adds, r
    <3>6. all[s] = f[Some(s)].size + SizeOf(f, r)
      BY <2>3 DEF r
    <3> QED BY <2>1, <3>2, <3>4, <3>5, <3>6
  <2> QED BY <2>2, <2>3
<1>8. Adds(f, T, all)
  BY <1>6, <1>7 DEF Adds
<1> QED BY <1>4, <1>8

-----------------------------------------------------------------------------
\* The sum of no sizes.
LEMMA SizeOfEmpty ==
  ASSUME NEW f
  PROVE  SizeOf(f, {}) = 0
<1>1. PICK sum : Adds(f, {}, sum)
  BY SumExists, FS_EmptySet
<1>2. Adds(f, {}, CHOOSE add : Adds(f, {}, add))
  BY <1>1
<1> QED BY <1>2, SizeOfMeans DEF Adds

\* Sets whose elements have the same sizes have the same sum.
LEMMA SizeOfSame ==
  ASSUME NEW f, NEW g, NEW S, IsFiniteSet(S), Alike(f, g, S)
  PROVE  SizeOf(f, S) = SizeOf(g, S)
<1> DEFINE sum == CHOOSE h : Adds(f, S, h)
           add == CHOOSE h : Adds(g, S, h)
<1>1. Adds(f, S, sum) /\ Adds(g, S, add)
  BY SumExists
<1>2. SizeOf(f, S) = sum[S] /\ SizeOf(g, S) = add[S]
  BY SizeOfMeans
<1>3. sum[S] = add[S]
  <2> HIDE DEF sum, add
  <2>1. S \subseteq S /\ Adds(f, S, sum) /\ Adds(g, S, add)
    BY <1>1
  <2>2. \A s \in SUBSET S : sum[s] = add[s]
    BY <2>1, SumsAgree
  <2> QED BY <2>2
<1> QED BY <1>2, <1>3

\* The fold takes one element out.
LEMMA SizeOfStep ==
  ASSUME NEW f, NEW S, IsFiniteSet(S), S # {}
  PROVE  SizeOf(f, S) = f[Some(S)].size + SizeOf(f, S \ {Some(S)})
<1> DEFINE R == S \ {Some(S)}
           sum == CHOOSE g : Adds(f, S, g)
           add == CHOOSE g : Adds(f, R, g)
<1>1. R \subseteq S /\ IsFiniteSet(R)
  BY FS_Subset
<1>2. Adds(f, S, sum) /\ Adds(f, R, add)
  BY <1>1, SumExists
<1>3. SizeOf(f, S) = sum[S] /\ SizeOf(f, R) = add[R]
  BY SizeOfMeans
<1>4. sum[S] = f[Some(S)].size + sum[R]
  <2> HIDE DEF sum
  <2> QED BY <1>2 DEF Adds
<1>5. sum[R] = add[R]
  <2> HIDE DEF sum, add, R
  <2> QED BY <1>1, <1>2, SumsAgree DEF Alike
<1> QED BY <1>3, <1>4, <1>5

\* Whichever element is taken out, the rest is the same.
LEMMA SizeOfWithout ==
  ASSUME NEW f, NEW S, IsFiniteSet(S), \A x \in S : f[x].size \in Nat
  PROVE  /\ SizeOf(f, S) \in Nat
         /\ \A y \in S : SizeOf(f, S) = f[y].size + SizeOf(f, S \ {y})
<1> DEFINE Good(T) == /\ SizeOf(f, T) \in Nat
                      /\ \A y \in T : SizeOf(f, T) = f[y].size + SizeOf(f, T \ {y})
           Bad == {Cardinality(T) : T \in {R \in SUBSET S : ~Good(R)}}
<1>1. \A T \in SUBSET S : IsFiniteSet(T) /\ Cardinality(T) \in Nat
  BY FS_Subset, FS_CardinalityType
<1>2. SUFFICES ASSUME Bad # {} PROVE FALSE
  <2>1. Bad = {} => Good(S)
    OBVIOUS
  <2> QED BY <2>1
<1>3. PICK n \in Bad : \A m \in Bad : n <= m
  <2>1. Bad \in SUBSET Nat
    BY <1>1
  <2> HIDE DEF Bad
  <2> QED BY <1>2, <2>1, LeastOf
<1>4. PICK T \in SUBSET S : n = Cardinality(T) /\ ~Good(T)
  BY <1>3
<1>5. \A R \in SUBSET T : R # T => Good(R)
  <2> SUFFICES ASSUME NEW R \in SUBSET T, R # T, ~Good(R)
               PROVE  FALSE
    OBVIOUS
  <2>1. Cardinality(R) < Cardinality(T)
    BY <1>1, FS_Subset
  <2>2. Cardinality(R) \in Bad /\ Cardinality(R) \in Nat /\ n \in Nat
    BY <1>1, <1>4
  <2> HIDE DEF Bad
  <2> QED BY <1>3, <1>4, <2>1, <2>2
<1>6. T # {}
  BY <1>4, SizeOfEmpty
<1> DEFINE c == Some(T)
<1>7. c \in T /\ SizeOf(f, T) = f[c].size + SizeOf(f, T \ {c})
  BY <1>1, <1>6, SizeOfStep DEF Some
<1>8. Good(T \ {c})
  BY <1>5, <1>7
<1>9. SizeOf(f, T) \in Nat
  BY <1>7, <1>8
<1>10. ASSUME NEW y \in T
       PROVE  SizeOf(f, T) = f[y].size + SizeOf(f, T \ {y})
  <2>1. CASE y = c
    BY <1>7, <2>1
  <2>2. CASE y # c
    <3>1. SizeOf(f, T \ {c}) = f[y].size + SizeOf(f, (T \ {c}) \ {y})
      BY <1>8, <1>10, <2>2
    <3>2. Good(T \ {y})
      BY <1>5, <1>10
    <3>3. SizeOf(f, T \ {y}) = f[c].size + SizeOf(f, (T \ {y}) \ {c})
      BY <1>7, <2>2, <3>2
    <3>4. (T \ {y}) \ {c} = (T \ {c}) \ {y}
      OBVIOUS
    <3>5. Good((T \ {c}) \ {y})
      BY <1>5, <1>7
    <3>6. f[y].size \in Nat /\ f[c].size \in Nat
      BY <1>7, <1>10
    <3>7. SizeOf(f, T) = f[c].size + (f[y].size + SizeOf(f, (T \ {c}) \ {y}))
      BY <1>7, <3>1
    <3>8. SizeOf(f, T \ {y}) = f[c].size + SizeOf(f, (T \ {c}) \ {y})
      BY <3>3, <3>4
    <3>9. SizeOf(f, (T \ {c}) \ {y}) \in Nat
      BY <3>5
    <3> HIDE DEF c
    <3> QED BY <3>6, <3>7, <3>8, <3>9
  <2> QED BY <2>1, <2>2
<1> QED BY <1>4, <1>9, <1>10

\* One element more.
LEMMA SizeOfAdded ==
  ASSUME NEW f, NEW S, IsFiniteSet(S), NEW y, y \notin S,
         \A x \in S \union {y} : f[x].size \in Nat
  PROVE  SizeOf(f, S \union {y}) = SizeOf(f, S) + f[y].size
<1>1. IsFiniteSet(S \union {y}) /\ (S \union {y}) \ {y} = S
  BY FS_AddElement
<1>2. SizeOf(f, S \union {y}) = f[y].size + SizeOf(f, (S \union {y}) \ {y})
  BY <1>1, SizeOfWithout
<1>3. SizeOf(f, S \union {y}) = f[y].size + SizeOf(f, S)
  BY <1>1, <1>2
<1>4. SizeOf(f, S) \in Nat /\ f[y].size \in Nat
  BY SizeOfWithout
<1> QED BY <1>3, <1>4

\* A subset has at most the sum of the set.
LEMMA SizeOfSubset ==
  ASSUME NEW f, NEW S, IsFiniteSet(S), \A x \in S : f[x].size \in Nat,
         NEW T, T \subseteq S
  PROVE  SizeOf(f, T) <= SizeOf(f, S)
<1> DEFINE Bad == {Cardinality(R) : R \in {Q \in SUBSET S : T \subseteq Q /\ ~(SizeOf(f, T) <= SizeOf(f, Q))}}
<1>1. \A R \in SUBSET S : IsFiniteSet(R) /\ Cardinality(R) \in Nat /\ SizeOf(f, R) \in Nat
  BY FS_Subset, FS_CardinalityType, SizeOfWithout
<1>2. SUFFICES ASSUME Bad # {} PROVE FALSE
  <2>1. Bad = {} => SizeOf(f, T) <= SizeOf(f, S)
    OBVIOUS
  <2> QED BY <2>1
<1>3. PICK n \in Bad : \A m \in Bad : n <= m
  <2>1. Bad \in SUBSET Nat
    BY <1>1
  <2> HIDE DEF Bad
  <2> QED BY <1>2, <2>1, LeastOf
<1>4. PICK R \in SUBSET S : n = Cardinality(R) /\ T \subseteq R /\ ~(SizeOf(f, T) <= SizeOf(f, R))
  BY <1>3
<1>5. PICK y \in R : y \notin T
  BY <1>1, <1>4
<1>6. SizeOf(f, R) = f[y].size + SizeOf(f, R \ {y})
  BY <1>1, SizeOfWithout
<1>7. Cardinality(R \ {y}) < n /\ Cardinality(R \ {y}) \in Nat /\ n \in Nat
  BY <1>1, <1>4, FS_RemoveElement
<1>8. SizeOf(f, T) <= SizeOf(f, R \ {y})
  <2>1. Cardinality(R \ {y}) \notin Bad
    <3> HIDE DEF Bad
    <3> QED BY <1>3, <1>7
  <2> QED BY <1>4, <1>5, <2>1
<1> QED BY <1>1, <1>4, <1>6, <1>8

-----------------------------------------------------------------------------
\* What a function makes of the elements of a set.
Moved(place, N) == {place[n] : n \in N}

OneToOne(place, N) == \A m, n \in N : place[m] = place[n] => m = n

LEMMA MovedAlike ==
  ASSUME NEW place, NEW N, IsFiniteSet(N), OneToOne(place, N)
  PROVE  IsFiniteSet(Moved(place, N)) /\ Cardinality(Moved(place, N)) = Cardinality(N)
<1> DEFINE f == [n \in N |-> place[n]]
<1>1. f \in [N -> Moved(place, N)]
  BY DEF Moved
<1>2. f \in Surjection(N, Moved(place, N))
  BY <1>1 DEF Moved, Surjection
<1>3. f \in Injection(N, Moved(place, N))
  BY <1>1 DEF OneToOne, Injection, IsInjective
<1> HIDE DEF f
<1> QED BY <1>2, <1>3, FS_Surjection

\* The sum is the same wherever the elements are taken to.
LEMMA SizeOfMoved ==
  ASSUME NEW d, NEW e, NEW place, NEW N, IsFiniteSet(N), OneToOne(place, N),
         \A n \in N : e[n].size \in Nat /\ e[n].size = d[place[n]].size
  PROVE  SizeOf(e, N) = SizeOf(d, Moved(place, N))
<1> DEFINE Bad == {Cardinality(T) : T \in {R \in SUBSET N :
                                      SizeOf(e, R) # SizeOf(d, Moved(place, R))}}
<1>1. \A T \in SUBSET N : IsFiniteSet(T) /\ Cardinality(T) \in Nat
  BY FS_Subset, FS_CardinalityType
<1>2. SUFFICES ASSUME Bad # {} PROVE FALSE
  BY <1>2
<1>3. PICK n \in Bad : \A m \in Bad : n <= m
  <2>1. Bad \in SUBSET Nat
    BY <1>1
  <2> HIDE DEF Bad
  <2> QED BY <1>2, <2>1, LeastOf
<1>4. PICK T \in SUBSET N : n = Cardinality(T) /\ SizeOf(e, T) # SizeOf(d, Moved(place, T))
  BY <1>3
<1>5. T # {}
  <2>1. Moved(place, {}) = {}
    BY DEF Moved
  <2> QED BY <1>4, <2>1, SizeOfEmpty
<1>6. PICK y \in T : TRUE
  BY <1>5
<1> DEFINE R == T \ {y}
<1>7. /\ R \in SUBSET N /\ Cardinality(R) < n
      /\ Cardinality(R) \in Nat /\ n \in Nat
  BY <1>1, <1>4, FS_RemoveElement
<1>8. SizeOf(e, R) = SizeOf(d, Moved(place, R))
  <2>1. Cardinality(R) \notin Bad
    <3> HIDE DEF Bad, R
    <3> QED BY <1>3, <1>7
  <2> QED BY <1>7, <2>1
<1>9. SizeOf(e, T) = e[y].size + SizeOf(e, R)
  BY <1>1, SizeOfWithout
<1>10. /\ Moved(place, R) = Moved(place, T) \ {place[y]}
       /\ place[y] \in Moved(place, T)
  BY DEF Moved, OneToOne
<1>11. IsFiniteSet(Moved(place, T))
  BY <1>1, MovedAlike DEF OneToOne
<1>12. \A x \in Moved(place, T) : d[x].size \in Nat
  BY DEF Moved
<1>13. SizeOf(d, Moved(place, T)) = d[place[y]].size + SizeOf(d, Moved(place, T) \ {place[y]})
  BY <1>10, <1>11, <1>12, SizeOfWithout
<1> QED BY <1>4, <1>8, <1>9, <1>10, <1>13
-----------------------------------------------------------------------------
\* The order R ranks the elements of S.
Ranks(S, R) ==
  /\ \A s \in S : <<s, s>> \notin R
  /\ \A s, t \in S : s # t => <<s, t>> \in R \/ <<t, s>> \in R
  /\ \A s, t, u \in S : <<s, t>> \in R /\ <<t, u>> \in R => <<s, u>> \in R

Before(S, R, t) == {s \in S : <<s, t>> \in R}

\* ORDER BY R LIMIT n: the elements with fewer than n before them.
Leading(S, R, n) == {t \in S : Cardinality(Before(S, R, t)) < n}

\* How many are before it is the place of an element, different ones have
\* different places.
LEMMA PlacesDiffer ==
  ASSUME NEW S, IsFiniteSet(S), NEW R, Ranks(S, R)
  PROVE  /\ \A t \in S : /\ Cardinality(Before(S, R, t)) \in Nat
                          /\ Cardinality(Before(S, R, t)) < Cardinality(S)
         /\ \A s, t \in S : <<s, t>> \in R =>
              Cardinality(Before(S, R, s)) < Cardinality(Before(S, R, t))
<1>1. \A t \in S : /\ Before(S, R, t) \in SUBSET S
                   /\ t \notin Before(S, R, t)
  BY DEF Ranks, Before
<1>2. \A t \in S : /\ IsFiniteSet(Before(S, R, t))
                   /\ Cardinality(Before(S, R, t)) \in Nat
  BY <1>1, FS_Subset, FS_CardinalityType
<1>3. Cardinality(S) \in Nat
  BY FS_CardinalityType
<1>4. ASSUME NEW t \in S
      PROVE  Cardinality(Before(S, R, t)) < Cardinality(S)
  <2>1. Before(S, R, t) # S
    BY <1>1
  <2>2. /\ Cardinality(Before(S, R, t)) <= Cardinality(S)
        /\ Cardinality(S) # Cardinality(Before(S, R, t))
    BY <1>1, <2>1, FS_Subset
  <2> QED BY <1>2, <1>3, <2>2
<1>5. ASSUME NEW s \in S, NEW t \in S, <<s, t>> \in R
      PROVE  Cardinality(Before(S, R, s)) < Cardinality(Before(S, R, t))
  <2>1. Before(S, R, s) \in SUBSET Before(S, R, t)
    BY <1>5 DEF Ranks, Before
  <2>2. s \in Before(S, R, t) /\ s \notin Before(S, R, s)
    BY <1>1, <1>5 DEF Before
  <2>3. Before(S, R, s) # Before(S, R, t) /\ IsFiniteSet(Before(S, R, t))
    BY <1>2, <2>2
  <2>4. /\ Cardinality(Before(S, R, s)) <= Cardinality(Before(S, R, t))
        /\ Cardinality(Before(S, R, t)) # Cardinality(Before(S, R, s))
    BY <2>1, <2>3, FS_Subset
  <2> QED BY <1>2, <2>4
<1> QED BY <1>2, <1>4, <1>5

\* A LIMIT takes at most so many, and fewer only if there are no more.
LEMMA LeadingCount ==
  ASSUME NEW S, IsFiniteSet(S), NEW R, Ranks(S, R), NEW n \in Nat
  PROVE  /\ Leading(S, R, n) \subseteq S
         /\ Cardinality(Leading(S, R, n)) <= n
         /\ Leading(S, R, n) = S \/ Cardinality(Leading(S, R, n)) = n
<1> DEFINE place(t) == Cardinality(Before(S, R, t))
           T == Leading(S, R, n)
           k == Cardinality(S)
           inS == [t \in S |-> place(t)]
           inT == [t \in T |-> place(t)]
<1>1. /\ \A t \in S : place(t) \in Nat /\ place(t) < k
      /\ \A s, t \in S : <<s, t>> \in R => place(s) < place(t)
  BY PlacesDiffer
<1>2. T \subseteq S /\ IsFiniteSet(T) /\ k \in Nat
  BY FS_Subset, FS_CardinalityType DEF Leading
<1>3. \A t \in S : t \in T <=> place(t) < n
  BY DEF Leading
<1> HIDE DEF place, T, k
<1>4. ASSUME NEW s \in S, NEW t \in S, place(s) = place(t)
      PROVE  s = t
  <2>1. place(s) \in Nat /\ ~(place(s) < place(t)) /\ ~(place(t) < place(s))
    BY <1>1, <1>4
  <2> QED BY <1>1, <2>1 DEF Ranks
<1>5. \A m \in Nat : IsFiniteSet(0..(m - 1)) /\ Cardinality(0..(m - 1)) = m
  <2> SUFFICES ASSUME NEW m \in Nat
               PROVE  IsFiniteSet(0..(m - 1)) /\ Cardinality(0..(m - 1)) = m
    OBVIOUS
  <2>1. /\ IsFiniteSet(0..(m - 1))
        /\ Cardinality(0..(m - 1)) = IF 0 > m - 1 THEN 0 ELSE (m - 1) - 0 + 1
    BY FS_Interval
  <2> QED BY <2>1
<1>6. inT \in Injection(T, 0..(n - 1))
  <2>1. \A t \in T : place(t) \in 0..(n - 1)
    BY <1>1, <1>2, <1>3
  <2> QED BY <1>2, <1>4, <2>1 DEF Injection, IsInjective
<1>7. Cardinality(T) <= n
  <2> HIDE DEF inT
  <2> QED BY <1>5, <1>6, FS_Injection
<1>8. inS \in Surjection(S, 0..(k - 1))
  <2>1. \A t \in S : place(t) \in 0..(k - 1)
    BY <1>1, <1>2
  <2>2. inS \in Injection(S, 0..(k - 1))
    BY <1>4, <2>1 DEF Injection, IsInjective
  <2> HIDE DEF inS
  <2>3. Cardinality(S) = Cardinality(0..(k - 1))
    BY <1>2, <1>5 DEF k
  <2> QED BY <1>2, <1>5, <2>2, <2>3, FS_Injection
<1>9. ASSUME T # S
      PROVE  Cardinality(T) = n
  <2>1. PICK t \in S : ~(place(t) < n)
    BY <1>2, <1>3, <1>9
  <2>2. n < k
    BY <1>1, <1>2, <2>1
  <2>3. ASSUME NEW i \in 0..(n - 1)
        PROVE  \E s \in T : place(s) = i
    <3>1. i \in 0..(k - 1)
      BY <1>2, <2>2
    <3>2. PICK s \in S : inS[s] = i
      BY <1>8, <3>1 DEF Surjection
    <3>3. place(s) = i /\ i < n
      BY <3>2
    <3> QED BY <1>3, <3>3
  <2>4. inT \in Surjection(T, 0..(n - 1))
    BY <1>6, <2>3 DEF Surjection, Injection
  <2> HIDE DEF inT
  <2>5. Cardinality(T) = Cardinality(0..(n - 1))
    BY <1>2, <1>5, <1>6, <2>4, FS_Surjection
  <2> QED BY <1>5, <2>5
<1> QED BY <1>2, <1>7, <1>9 DEF T
================================================================================
