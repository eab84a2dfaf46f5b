---------------------------- MODULE DataInduction ----------------------------
(***************************************************************************)
(* Induction over numbers and finite sets, and the sums and unions it is   *)
(* needed for.  A predicate to be proved by induction is given as the set  *)
(* of the values that satisfy it: of the subsets that do not, one would be *)
(* minimal.  A sum is what MapThenSumSet() of FiniteSetsExt computes.      *)
(***************************************************************************)
EXTENDS Integers, FiniteSetsExt, FiniteSetTheorems, WellFoundedInduction, TLAPS

(* Of any subsets of a finite set, one is minimal. *)
LEMMA MinimalSubset ==
    ASSUME NEW S, IsFiniteSet(S), NEW W, W \subseteq SUBSET S, W # {}
    PROVE  \E m \in W : \A y \in W : y \subseteq m => y = m
<1> DEFINE R == StrictSubsetOrdering(S)
<1>1. IsWellFoundedOn(R, FiniteSubsetsOf(S))
  BY FS_StrictSubsetOrderingWellFounded
<1>2. W \subseteq FiniteSubsetsOf(S)
  BY FS_FiniteSubsetsOfFinite
<1>3. PICK m \in W : \A y \in W : ~ (<<y, m>> \in R)
  <2> HIDE DEF R
  <2> QED BY <1>1, <1>2, WFMin
<1>4. \A y \in W : y \subseteq m => y = m
  BY <1>3 DEF StrictSubsetOrdering
<1> QED BY <1>4

(* Induction over the natural numbers, for a set in place of a predicate. *)
LEMMA NatSet ==
    ASSUME NEW T, T \subseteq Nat, 0 \in T, \A n \in T : n + 1 \in T
    PROVE  T = Nat
<1> SUFFICES ASSUME NEW n \in Nat, n \notin T PROVE FALSE
  OBVIOUS
<1> DEFINE W == {1..m : m \in {k \in 0..n : k \notin T}}
<1>1. W \subseteq SUBSET (1..n)
  OBVIOUS
<1>a. 1..n \in W
  OBVIOUS
<1>b. IsFiniteSet(1..n)
  BY FS_Interval
<1>2. PICK x \in W : \A y \in W : y \subseteq x => y = x
  <2> DEFINE N == 1..n
  <2>1. W # {} /\ W \subseteq SUBSET N /\ IsFiniteSet(N)
    BY <1>1, <1>a, <1>b
  <2> HIDE DEF W, N
  <2> QED BY <2>1, MinimalSubset
<1>3. PICK m \in 0..n : m \notin T /\ x = 1..m
  OBVIOUS
<1>4. m # 0 /\ m - 1 \in 0..n /\ m - 1 \notin T
  BY <1>3
<1>5. 1..(m - 1) \in W /\ 1..(m - 1) \subseteq x /\ m \in x /\ m \notin 1..(m - 1)
  BY <1>3, <1>4
<1> QED BY <1>2, <1>5
-----------------------------------------------------------------------------
Chosen(s) == CHOOSE x \in s : TRUE

(* g gives the sum of f over every subset of S, as the fold computes it. *)
SumStep(g, f, s) == IF s = {} THEN 0 ELSE f[Chosen(s)] + g[s \ {Chosen(s)}]
IsSum(g, f, S) == g = [s \in SUBSET S |-> SumStep(g, f, s)]

(* The sum of f over the elements of a set. *)
Sum(f, S) == MapThenSumSet(LAMBDA x : f[x], S)

(* The fold is such a function, if there is one. *)
LEMMA IsSumOf ==
    ASSUME NEW f, NEW S, \E g : IsSum(g, f, S)
    PROVE  \E g : IsSum(g, f, S) /\ Sum(f, S) = g[S]
<1> DEFINE h == CHOOSE g : IsSum(g, f, S)
<1>1. IsSum(h, f, S)
  OBVIOUS
<1>2. Sum(f, S) = h[S]
  BY DEF Sum, MapThenSumSet, MapThenFoldSet, IsSum, SumStep, Chosen
<1> QED BY <1>1, <1>2

(* Two such functions agree where both are defined. *)
LEMMA SumsAgree ==
    ASSUME NEW f, NEW S, IsFiniteSet(S), NEW g, NEW h, NEW A, NEW B,
           IsSum(g, f, A), IsSum(h, f, B), S \subseteq A, S \subseteq B
    PROVE  g[S] = h[S]
<1> DEFINE W == {s \in SUBSET S : g[s] # h[s]}
<1> SUFFICES ASSUME W # {} PROVE FALSE
  OBVIOUS
<1>1. PICK m \in W : \A y \in W : y \subseteq m => y = m
  <2> HIDE DEF W
  <2>1. W \subseteq SUBSET S
    BY DEF W
  <2> QED BY <2>1, MinimalSubset
<1>2. g[m] = SumStep(g, f, m) /\ h[m] = SumStep(h, f, m)
  BY DEF IsSum
<1>3. CASE m = {}
  BY <1>2, <1>3 DEF SumStep
<1>4. CASE m # {}
  <2>1. Chosen(m) \in m
    BY <1>4 DEF Chosen
  <2>2. g[m \ {Chosen(m)}] = h[m \ {Chosen(m)}]
    BY <1>1, <2>1
  <2> QED BY <1>2, <1>4, <2>2 DEF SumStep
<1> QED BY <1>3, <1>4

(* The subsets of n elements at most have a sum, for each n in turn. *)
LEMMA SumExists ==
    ASSUME NEW f, NEW S, IsFiniteSet(S)
    PROVE  \E g : IsSum(g, f, S)
<1> DEFINE Small(n) == {s \in SUBSET S : Cardinality(s) <= n}
           T == {n \in Nat : \E g : g = [s \in Small(n) |-> SumStep(g, f, s)]}
<1>0. \A s \in SUBSET S : IsFiniteSet(s) /\ Cardinality(s) \in Nat
  BY FS_Subset, FS_CardinalityType
<1>1. 0 \in T
  <2> DEFINE g == [s \in Small(0) |-> 0]
  <2>1. ASSUME NEW s \in Small(0) PROVE s = {}
    BY <1>0, FS_EmptySet
  <2>2. \A s \in Small(0) : SumStep(g, f, s) = 0
    BY <2>1 DEF SumStep
  <2>3. g = [s \in Small(0) |-> SumStep(g, f, s)]
    BY <2>2
  <2> QED BY <2>3
<1>2. ASSUME NEW n \in T PROVE n + 1 \in T
  <2>1. PICK g : g = [s \in Small(n) |-> SumStep(g, f, s)]
    OBVIOUS
  <2> DEFINE h == [s \in Small(n + 1) |-> SumStep(g, f, s)]
  <2>2. ASSUME NEW s \in Small(n + 1), s # {}
        PROVE  s \ {Chosen(s)} \in Small(n)
    <3>1. Chosen(s) \in s
      BY <2>2 DEF Chosen
    <3> QED BY <3>1, <1>0, FS_RemoveElement
  <2>3. \A s \in Small(n) : s \in Small(n + 1) /\ h[s] = g[s]
    BY <2>1, <1>0
  <2>4. \A s \in Small(n + 1) : SumStep(h, f, s) = SumStep(g, f, s)
    BY <2>2, <2>3 DEF SumStep
  <2>5. h = [s \in Small(n + 1) |-> SumStep(h, f, s)]
    BY <2>4
  <2>6. \E k : k = [s \in Small(n + 1) |-> SumStep(k, f, s)]
    <3> HIDE DEF h, Small
    <3> QED BY <2>5
  <2>7. n + 1 \in Nat
    OBVIOUS
  <2> HIDE DEF h, Small
  <2> QED BY <2>6, <2>7
<1>3. T = Nat
  <2> HIDE DEF T
  <2>1. T \subseteq Nat
    BY DEF T
  <2> QED BY <1>1, <1>2, <2>1, NatSet
<1>4. Small(Cardinality(S)) = SUBSET S
  BY <1>0, FS_Subset
<1>5. \E g : g = [s \in Small(Cardinality(S)) |-> SumStep(g, f, s)]
  BY <1>0, <1>3
<1> QED BY <1>4, <1>5 DEF IsSum

(* The defining equation of the sum. *)
LEMMA SumEquation ==
    ASSUME NEW f, NEW S, IsFiniteSet(S)
    PROVE  Sum(f, S) = IF S = {} THEN 0 ELSE f[Chosen(S)] + Sum(f, S \ {Chosen(S)})
<1>1. PICK g : IsSum(g, f, S) /\ Sum(f, S) = g[S]
  BY SumExists, IsSumOf
<1>2. CASE S = {}
  BY <1>1, <1>2 DEF IsSum, SumStep
<1>3. CASE S # {}
  <2> DEFINE s == S \ {Chosen(S)}
  <2>1. IsFiniteSet(s) /\ s \subseteq S
    BY FS_RemoveElement
  <2>2. PICK h : IsSum(h, f, s) /\ Sum(f, s) = h[s]
    BY <2>1, SumExists, IsSumOf
  <2>3. h[s] = g[s]
    <3> HIDE DEF s
    <3> QED BY <1>1, <2>1, <2>2, SumsAgree
  <2>4. g[S] = f[Chosen(S)] + g[s]
    BY <1>1, <1>3 DEF IsSum, SumStep
  <2> QED BY <1>1, <1>3, <2>2, <2>3, <2>4
<1> QED BY <1>2, <1>3

-----------------------------------------------------------------------------
(* The sum over nothing. *)
LEMMA SumEmpty == \A f : Sum(f, {}) = 0
BY SumEquation, FS_EmptySet

(* A sum of natural numbers is one. *)
LEMMA SumType ==
    ASSUME NEW S, IsFiniteSet(S), NEW f, \A x \in S : f[x] \in Nat
    PROVE  Sum(f, S) \in Nat
<1> DEFINE W == {s \in SUBSET S : Sum(f, s) \notin Nat}
<1> SUFFICES ASSUME W # {} PROVE FALSE
  OBVIOUS
<1>1. PICK m \in W : \A y \in W : y \subseteq m => y = m
  <2> HIDE DEF W
  <2>1. W \subseteq SUBSET S
    BY DEF W
  <2> QED BY <2>1, MinimalSubset
<1>2. IsFiniteSet(m)
  BY FS_Subset
<1>3. m # {}
  BY SumEmpty
<1>4. Chosen(m) \in m
  BY <1>3 DEF Chosen
<1>5. Sum(f, m \ {Chosen(m)}) \in Nat
  BY <1>1, <1>4
<1>6. Sum(f, m) = f[Chosen(m)] + Sum(f, m \ {Chosen(m)})
  BY <1>2, <1>3, SumEquation
<1> QED BY <1>4, <1>5, <1>6

(* Any element may be taken out first. *)
LEMMA SumRemove ==
    ASSUME NEW S, IsFiniteSet(S), NEW f, \A x \in S : f[x] \in Nat, NEW e \in S
    PROVE  Sum(f, S) = f[e] + Sum(f, S \ {e})
<1> DEFINE W == {s \in SUBSET S : \E x \in s : Sum(f, s) # f[x] + Sum(f, s \ {x})}
<1> SUFFICES ASSUME W # {} PROVE FALSE
  OBVIOUS
<1>1. PICK m \in W : \A y \in W : y \subseteq m => y = m
  <2> HIDE DEF W
  <2>1. W \subseteq SUBSET S
    BY DEF W
  <2> QED BY <2>1, MinimalSubset
<1>2. PICK d \in m : Sum(f, m) # f[d] + Sum(f, m \ {d})
  OBVIOUS
<1> DEFINE c == Chosen(m)
           both == (m \ {c}) \ {d}
<1>3. IsFiniteSet(m) /\ m \subseteq S /\ c \in m
  BY FS_Subset DEF Chosen
<1>4. Sum(f, m) = f[c] + Sum(f, m \ {c})
  BY <1>3, SumEquation
<1>5. c # d
  BY <1>2, <1>4
<1>6. \A y \in SUBSET m : \A x \in y : y = m \/ Sum(f, y) = f[x] + Sum(f, y \ {x})
  BY <1>1
<1>7. Sum(f, m \ {c}) = f[d] + Sum(f, both)
  BY <1>3, <1>5, <1>6
<1>8. (m \ {d}) \ {c} = both
  OBVIOUS
<1>9. Sum(f, m \ {d}) = f[c] + Sum(f, both)
  <2>1. c \in m \ {d} /\ m \ {d} \in SUBSET m /\ m \ {d} # m
    BY <1>3, <1>5
  <2> HIDE DEF c, both
  <2> QED BY <1>6, <1>8, <2>1
<1>10. f[c] \in Nat /\ f[d] \in Nat /\ Sum(f, both) \in Nat
  <2>1. IsFiniteSet(both) /\ both \subseteq S
    BY <1>3, FS_RemoveElement, FS_Subset
  <2>2. \A x \in both : f[x] \in Nat
    BY <2>1
  <2>3. Sum(f, both) \in Nat
    <3> HIDE DEF both
    <3> QED BY <2>1, <2>2, SumType
  <2> QED BY <1>3, <2>3
<1> HIDE DEF c, both
<1> QED BY <1>2, <1>4, <1>7, <1>9, <1>10

(* One more element adds its value. *)
LEMMA SumAdd ==
    ASSUME NEW S, IsFiniteSet(S), NEW e, e \notin S, NEW f, \A x \in S \cup {e} : f[x] \in Nat
    PROVE  Sum(f, S \cup {e}) = f[e] + Sum(f, S)
<1>1. IsFiniteSet(S \cup {e})
  BY FS_AddElement
<1>2. (S \cup {e}) \ {e} = S
  OBVIOUS
<1> QED BY <1>1, <1>2, SumRemove

(* A sum over more elements is not smaller. *)
LEMMA SumGrows ==
    ASSUME NEW S, IsFiniteSet(S), NEW f, \A x \in S : f[x] \in Nat, NEW A \in SUBSET S
    PROVE  Sum(f, A) <= Sum(f, S)
<1> DEFINE W == {s \in SUBSET S : A \subseteq s /\ ~(Sum(f, A) <= Sum(f, s))}
<1> SUFFICES ASSUME W # {} PROVE FALSE
  OBVIOUS
<1>1. PICK m \in W : \A y \in W : y \subseteq m => y = m
  <2> HIDE DEF W
  <2>1. W \subseteq SUBSET S
    BY DEF W
  <2> QED BY <2>1, MinimalSubset
<1>2. \A s \in SUBSET S : IsFiniteSet(s) /\ Sum(f, s) \in Nat
  BY FS_Subset, SumType
<1>3. A # m
  BY <1>2
<1>4. PICK e \in m : e \notin A
  BY <1>3
<1>5. Sum(f, m) = f[e] + Sum(f, m \ {e})
  BY <1>2, SumRemove
<1>6. Sum(f, A) <= Sum(f, m \ {e})
  BY <1>1, <1>4
<1>7. Sum(f, A) \in Nat /\ Sum(f, m \ {e}) \in Nat /\ f[e] \in Nat
  BY <1>2
<1>8. ~(Sum(f, A) <= Sum(f, m))
  OBVIOUS
<1> QED BY <1>5, <1>6, <1>7, <1>8

(* Only the values over the set matter. *)
LEMMA SumSame ==
    ASSUME NEW S, IsFiniteSet(S), NEW f, NEW g, \A x \in S : f[x] = g[x]
    PROVE  Sum(f, S) = Sum(g, S)
<1> DEFINE W == {s \in SUBSET S : Sum(f, s) # Sum(g, s)}
<1> SUFFICES ASSUME W # {} PROVE FALSE
  OBVIOUS
<1>1. PICK m \in W : \A y \in W : y \subseteq m => y = m
  <2> HIDE DEF W
  <2>1. W \subseteq SUBSET S
    BY DEF W
  <2> QED BY <2>1, MinimalSubset
<1>2. IsFiniteSet(m) /\ m # {}
  BY FS_Subset, SumEmpty
<1>3. Chosen(m) \in m
  BY <1>2 DEF Chosen
<1>4. Sum(f, m \ {Chosen(m)}) = Sum(g, m \ {Chosen(m)})
  BY <1>1, <1>3
<1> QED BY <1>2, <1>3, <1>4, SumEquation
-----------------------------------------------------------------------------
(* Induction over the subsets of a finite set. *)
LEMMA SetInduction ==
    ASSUME NEW S, IsFiniteSet(S), NEW T, {} \in T,
           \A s \in SUBSET S : \A e \in S : s \in T /\ e \notin s => s \cup {e} \in T
    PROVE  S \in T
<1> DEFINE W == {s \in SUBSET S : s \notin T}
<1> SUFFICES ASSUME W # {} PROVE FALSE
  OBVIOUS
<1>1. PICK m \in W : \A y \in W : y \subseteq m => y = m
  <2> HIDE DEF W
  <2>1. W \subseteq SUBSET S
    BY DEF W
  <2> QED BY <2>1, MinimalSubset
<1>2. PICK e \in m : TRUE
  OBVIOUS
<1>3. m \ {e} \in T
  BY <1>1
<1>4. (m \ {e}) \cup {e} = m /\ e \in S /\ m \ {e} \in SUBSET S
  OBVIOUS
<1>5. m \in T
  BY <1>3, <1>4
<1> QED BY <1>5

(* A set of natural numbers has a least one. *)
LEMMA NatLeast ==
    ASSUME NEW T, T \subseteq Nat, T # {}
    PROVE  \E m \in T : \A k \in T : m <= k
<1> SUFFICES ASSUME \A m \in T : \E k \in T : ~(m <= k) PROVE FALSE
  OBVIOUS
<1> DEFINE N == {n \in Nat : \A k \in T : ~(k <= n)}
<1>1. 0 \in N
  <2>1. ASSUME NEW k \in T, k <= 0 PROVE FALSE
    <3>1. k = 0
      BY <2>1
    <3> QED BY <3>1
  <2> QED BY <2>1
<1>2. \A n \in N : n + 1 \in N
  <2>1. ASSUME NEW n \in N, NEW k \in T, k <= n + 1 PROVE FALSE
    <3>1. k \in Nat /\ ~(k <= n)
      OBVIOUS
    <3>2. k = n + 1
      BY <2>1, <3>1
    <3>3. PICK j \in T : ~(k <= j)
      OBVIOUS
    <3>4. j <= n
      BY <3>2, <3>3
    <3> QED BY <3>4
  <2> QED BY <2>1
<1>3. N = Nat
  <2>1. N \subseteq Nat
    OBVIOUS
  <2> HIDE DEF N
  <2> QED BY <1>1, <1>2, <2>1, NatSet
<1>4. PICK k \in T : k \in Nat
  OBVIOUS
<1>5. ~(k <= k)
  BY <1>3, <1>4
<1> QED BY <1>4, <1>5

(* The sum over two disjoint sets. *)
LEMMA SumUnion ==
    ASSUME NEW A, IsFiniteSet(A), NEW B, IsFiniteSet(B), A \cap B = {},
           NEW f, \A x \in A \cup B : f[x] \in Nat
    PROVE  Sum(f, A \cup B) = Sum(f, A) + Sum(f, B)
<1> DEFINE T == {t \in SUBSET B : Sum(f, A \cup t) = Sum(f, A) + Sum(f, t)}
<1>1. {} \in T
  <2>1. A \cup {} = A
    OBVIOUS
  <2>2. Sum(f, A) \in Nat
    BY SumType
  <2> QED BY <2>1, <2>2, SumEmpty
<1>2. ASSUME NEW t \in SUBSET B, NEW e \in B, t \in T, e \notin t PROVE t \cup {e} \in T
  <2>1. IsFiniteSet(t) /\ IsFiniteSet(A \cup t)
    BY FS_Subset, FS_Union
  <2>2. e \notin A \cup t
    BY <1>2
  <2>2a. A \cup (t \cup {e}) = (A \cup t) \cup {e}
    OBVIOUS
  <2>3. /\ \A x \in (A \cup t) \cup {e} : f[x] \in Nat
        /\ \A x \in t \cup {e} : f[x] \in Nat
    OBVIOUS
  <2>4. Sum(f, (A \cup t) \cup {e}) = f[e] + Sum(f, A \cup t)
    <3> DEFINE At == A \cup t
    <3>1. IsFiniteSet(At) /\ e \notin At /\ \A x \in At \cup {e} : f[x] \in Nat
      BY <2>1, <2>2, <2>3
    <3> HIDE DEF At
    <3>2. Sum(f, At \cup {e}) = f[e] + Sum(f, At)
      BY <3>1, SumAdd
    <3> QED BY <3>2 DEF At
  <2>5. Sum(f, t \cup {e}) = f[e] + Sum(f, t)
    BY <1>2, <2>1, <2>3, SumAdd
  <2>6. Sum(f, A) \in Nat /\ Sum(f, t) \in Nat /\ f[e] \in Nat
    BY <2>1, SumType
  <2>7. Sum(f, A \cup t) = Sum(f, A) + Sum(f, t)
    BY <1>2
  <2>8. Sum(f, (A \cup t) \cup {e}) = Sum(f, A) + Sum(f, t \cup {e})
    BY <2>4, <2>5, <2>6, <2>7
  <2> QED BY <2>2a, <2>8
<1>3. B \in T
  <2> HIDE DEF T
  <2> QED BY <1>1, <1>2, SetInduction
<1> QED BY <1>3
-----------------------------------------------------------------------------
(* The union of the sets of a family over some of its indices. *)
Together(A, s) == UNION {A[i] : i \in s}

Apart(A, S) == \A i, j \in S : i # j => A[i] \cap A[j] = {}

(* One more index adds its set. *)
LEMMA TogetherAdd == \A A, s, e : Together(A, s \cup {e}) = Together(A, s) \cup A[e]
BY DEF Together

(* Disjoint sets stay so when some of them are united. *)
LEMMA TogetherApart ==
    ASSUME NEW A, NEW S, Apart(A, S), NEW s \in SUBSET S, NEW e \in S, e \notin s
    PROVE  Together(A, s) \cap A[e] = {}
BY DEF Together, Apart

(* A union is no larger than its parts together, and as large if they are    *)
(* disjoint.                                                                 *)
LEMMA UnionCount ==
    ASSUME NEW S, IsFiniteSet(S), NEW A, \A i \in S : IsFiniteSet(A[i]),
           NEW c, \A i \in S : c[i] = Cardinality(A[i])
    PROVE  /\ IsFiniteSet(Together(A, S))
           /\ Cardinality(Together(A, S)) <= Sum(c, S)
           /\ Apart(A, S) => Cardinality(Together(A, S)) = Sum(c, S)
<1> DEFINE Good(s) == /\ IsFiniteSet(Together(A, s))
                      /\ Cardinality(Together(A, s)) <= Sum(c, s)
                      /\ Apart(A, S) => Cardinality(Together(A, s)) = Sum(c, s)
           T == {s \in SUBSET S : Good(s)}
<1>1. {} \in T
  <2>1. Together(A, {}) = {}
    BY DEF Together
  <2> QED BY <2>1, FS_EmptySet, SumEmpty
<1>2. ASSUME NEW s \in SUBSET S, NEW e \in S, s \in T, e \notin s PROVE s \cup {e} \in T
  <2> DEFINE U == Together(A, s)
             V == A[e]
  <2>1. IsFiniteSet(s) /\ \A x \in s \cup {e} : c[x] \in Nat
    BY FS_Subset, FS_CardinalityType
  <2>2. Sum(c, s \cup {e}) = Cardinality(V) + Sum(c, s) /\ Sum(c, s) \in Nat
    BY <1>2, <2>1, SumAdd, SumType
  <2>3. Together(A, s \cup {e}) = U \cup V
    BY TogetherAdd
  <2>4. IsFiniteSet(U) /\ IsFiniteSet(V) /\ Cardinality(U) <= Sum(c, s)
        /\ (Apart(A, S) => Cardinality(U) = Sum(c, s))
    BY <1>2
  <2>5. Apart(A, S) => U \cap V = {}
    BY <1>2, TogetherApart
  <2> HIDE DEF U, V
  <2>6. /\ IsFiniteSet(U \cup V) /\ Cardinality(U) \in Nat /\ Cardinality(V) \in Nat
        /\ Cardinality(U \cap V) \in Nat
        /\ Cardinality(U \cup V) = Cardinality(U) + Cardinality(V) - Cardinality(U \cap V)
    BY <2>4, FS_Union, FS_CardinalityType, FS_Intersection
  <2>7. Apart(A, S) => Cardinality(U \cap V) = 0
    BY <2>5, FS_EmptySet
  <2>8. /\ IsFiniteSet(U \cup V)
        /\ Cardinality(U \cup V) <= Sum(c, s \cup {e})
        /\ Apart(A, S) => Cardinality(U \cup V) = Sum(c, s \cup {e})
    BY <2>2, <2>4, <2>6, <2>7
  <2>9. Good(s \cup {e})
    BY <2>3, <2>8
  <2> HIDE DEF Good
  <2> QED BY <2>9
<1>3. S \in T
  <2> HIDE DEF T
  <2> QED BY <1>1, <1>2, SetInduction
<1> QED BY <1>3

(* The sum over a union of disjoint sets is the sum of the sums over them. *)
LEMMA UnionSum ==
    ASSUME NEW S, IsFiniteSet(S), NEW A, \A i \in S : IsFiniteSet(A[i]), Apart(A, S),
           NEW f, \A x \in Together(A, S) : f[x] \in Nat,
           NEW c, \A i \in S : c[i] = Sum(f, A[i])
    PROVE  Sum(f, Together(A, S)) = Sum(c, S)
<1> DEFINE Good(s) == /\ IsFiniteSet(Together(A, s))
                      /\ Sum(f, Together(A, s)) = Sum(c, s)
           T == {s \in SUBSET S : Good(s)}
<1>0. ASSUME NEW i \in S PROVE (\A x \in A[i] : f[x] \in Nat) /\ c[i] \in Nat
  <2>1. \A x \in A[i] : f[x] \in Nat
    BY DEF Together
  <2> QED BY <2>1, SumType
<1>1. {} \in T
  <2>1. Together(A, {}) = {}
    BY DEF Together
  <2> QED BY <2>1, FS_EmptySet, SumEmpty
<1>2. ASSUME NEW s \in SUBSET S, NEW e \in S, s \in T, e \notin s PROVE s \cup {e} \in T
  <2> DEFINE U == Together(A, s)
             V == A[e]
  <2>1. IsFiniteSet(s) /\ \A x \in s \cup {e} : c[x] \in Nat
    BY <1>0, FS_Subset
  <2>2. Sum(c, s \cup {e}) = c[e] + Sum(c, s) /\ Sum(c, s) \in Nat
    BY <1>2, <2>1, SumAdd, SumType
  <2>2a. c[e] = Sum(f, V)
    OBVIOUS
  <2>3. Together(A, s \cup {e}) = U \cup V
    BY TogetherAdd
  <2>4. IsFiniteSet(U) /\ IsFiniteSet(V) /\ Sum(f, U) = Sum(c, s)
    BY <1>2
  <2>5. U \cap V = {}
    BY <1>2, TogetherApart
  <2>6. \A x \in U \cup V : f[x] \in Nat
    BY DEF Together
  <2>7. c[e] \in Nat
    BY <1>0
  <2> HIDE DEF U, V
  <2>8. IsFiniteSet(U \cup V)
    BY <2>4, FS_Union
  <2>9. Sum(f, U \cup V) = Sum(f, U) + Sum(f, V)
    BY <2>4, <2>5, <2>6, SumUnion
  <2>10. Sum(f, U \cup V) = Sum(c, s \cup {e})
    BY <2>2, <2>2a, <2>4, <2>7, <2>9
  <2>11. Good(s \cup {e})
    BY <2>3, <2>8, <2>10
  <2> HIDE DEF Good
  <2> QED BY <2>11
<1>3. S \in T
  <2> HIDE DEF T
  <2> QED BY <1>1, <1>2, SetInduction
<1> QED BY <1>3
=============================================================================
