--------------------------------- MODULE Offsets ---------------------------------
(***************************************************************************)
(* Facts about sets of offsets of a log: the first and the last of a page, *)
(* functions that are defined by recursion, and sums.                      *)
(***************************************************************************)
EXTENDS Integers, FiniteSetsExt, FiniteSetTheorems, WellFoundedInduction, TLAPS

\* Naturals are well-founded.
LEMMA SmallestNat ==
    ASSUME NEW S \in SUBSET Nat, S # {}
    PROVE  \E x \in S : \A y \in S : x <= y
<1>1. PICK x \in S : \A y \in S : ~ (<<y, x>> \in OpToRel(<, Nat))
  BY NatLessThanWellFounded, WFMin
<1>2. \A y \in S : ~(y < x)
  BY <1>1 DEF OpToRel
<1> QED
  BY <1>2

\* A page has a last envelope.
LEMMA MaxOfOffsets ==
    ASSUME NEW n \in Nat, NEW S \in SUBSET (1..n), S # {}
    PROVE  Max(S) \in S /\ \A y \in S : y <= Max(S)
<1> DEFINE T == {n - y : y \in S}
<1>1. T \in SUBSET Nat /\ T # {}
  <2>1. \A y \in S : y \in 1..n /\ n - y \in Nat
    OBVIOUS
  <2> QED
    BY <2>1
<1> HIDE DEF T
<1>2. PICK t \in T : \A u \in T : t <= u
  BY <1>1, SmallestNat
<1>3. PICK x \in S : t = n - x
  BY DEF T
<1>4. \A y \in S : n - x <= n - y
  BY <1>2, <1>3 DEF T
<1>5. \A y \in S : x >= y
  BY <1>4
<1> QED
  BY <1>5 DEF Max

\* A batch has a first envelope.
LEMMA MinOfOffsets ==
    ASSUME NEW S \in SUBSET Nat, S # {}
    PROVE  Min(S) \in S /\ \A y \in S : Min(S) <= y
<1>1. PICK x \in S : \A y \in S : x <= y
  BY SmallestNat
<1> QED
  BY <1>1 DEF Min

-----------------------------------------------------------------------------
(* A recursive function is chosen among those that satisfy its definition: *)
(* whoever unfolds it has to show that there is one.                       *)

\* The elements of D that a function defined by recursion may ask about at x.
Below(D, rank, x) == {y \in D : rank[y] < rank[x]}

\* What it finds there.
Earlier(D, rank, f, x) == [y \in Below(D, rank, x) |-> f[y]]

\* f is a solution of the recursive definition step on the elements of D of rank
\* less than m.
Solves(D, V, rank, step, f, m) ==
    LET E == {x \in D : rank[x] < m} IN
    /\ f \in [E -> V]
    /\ \A x \in E : f[x] = step[x][Earlier(D, rank, f, x)]

Solvable(D, V, rank, step) ==
    \E f \in [D -> V] : \A x \in D : f[x] = step[x][Earlier(D, rank, f, x)]

\* Two solutions agree where both are defined.
LEMMA SolutionsAgree ==
    ASSUME NEW D, NEW V, NEW rank \in [D -> Nat], NEW step,
           NEW m \in Nat, NEW n \in Nat, NEW f, NEW g,
           Solves(D, V, rank, step, f, m), Solves(D, V, rank, step, g, n),
           NEW x \in D, rank[x] < m, rank[x] < n
    PROVE  f[x] = g[x]
<1> DEFINE wrong == {y \in D : rank[y] < m /\ rank[y] < n /\ f[y] # g[y]}
           ranks == {rank[y] : y \in wrong}
<1>1. SUFFICES ASSUME wrong # {} PROVE FALSE
  OBVIOUS
<1>2. ranks \in SUBSET Nat /\ ranks # {}
  BY <1>1
<1>3. PICK y \in wrong : \A z \in wrong : rank[y] <= rank[z]
  <2> HIDE DEF wrong
  <2>1. PICK r \in ranks : \A s \in ranks : r <= s
    BY <1>2, SmallestNat
  <2> QED
    BY <2>1
<1>4. \A z \in Below(D, rank, y) : f[z] = g[z]
  <2> TAKE z \in Below(D, rank, y)
  <2>2. z \in D /\ rank[z] \in Nat /\ rank[y] \in Nat /\ rank[z] < rank[y] /\ y \in wrong
    BY DEF Below
  <2>3. z \notin wrong
    BY <1>3, <2>2
  <2> QED
    BY <2>2, <2>3
<1>5. [z \in Below(D, rank, y) |-> f[z]] = [z \in Below(D, rank, y) |-> g[z]]
  BY <1>4
<1>6. f[y] = step[y][[z \in Below(D, rank, y) |-> f[z]]]
  BY DEF Solves, Earlier
<1>7. g[y] = step[y][[z \in Below(D, rank, y) |-> g[z]]]
  BY DEF Solves, Earlier
<1> QED
  BY <1>5, <1>6, <1>7

\* A recursive definition that asks only about elements of a lower rank has a
\* solution.
LEMMA RecursionByRank ==
    ASSUME NEW D, NEW V, NEW rank \in [D -> Nat], NEW step,
           \A x \in D : \A r \in [Below(D, rank, x) -> V] : step[x][r] \in V
    PROVE  Solvable(D, V, rank, step)
<1> DEFINE To(m) == {x \in D : rank[x] < m}
           Good(m) == \E f : Solves(D, V, rank, step, f, m)
           bad == {m \in Nat : ~Good(m)}
<1>1. \A m \in Nat : Good(m)
  <2>1. SUFFICES ASSUME bad # {} PROVE FALSE
    OBVIOUS
  <2>2. PICK m \in bad : \A n \in bad : m <= n
    BY <2>1, SmallestNat
  <2>3. m # 0
    <3>1. ASSUME m = 0 PROVE FALSE
      <4>1. To(0) = {}
        OBVIOUS
      <4>2. Solves(D, V, rank, step, [x \in {} |-> x], 0)
        BY <4>1 DEF Solves, Earlier
      <4> QED
        BY <3>1, <4>2
    <3> QED
      BY <3>1
  <2>4. m - 1 \in Nat /\ m \in Nat /\ Good(m - 1)
    <3>1. m \in Nat /\ m - 1 \in Nat /\ ~(m <= m - 1)
      BY <2>3
    <3>2. m - 1 \notin bad
      BY <2>2, <3>1
    <3> QED
      BY <3>1, <3>2
  <2>5. PICK f : Solves(D, V, rank, step, f, m - 1)
    BY <2>4
  <2> DEFINE g == [x \in To(m) |-> IF rank[x] < m - 1 THEN f[x]
                                   ELSE step[x][[y \in Below(D, rank, x) |-> f[y]]]]
  <2>6. \A x \in To(m) : /\ Below(D, rank, x) \subseteq To(m - 1)
                         /\ Below(D, rank, x) \subseteq To(m)
    BY <2>4 DEF Below
  <2>7. f \in [To(m - 1) -> V]
    BY <2>5 DEF Solves, Earlier
  <2>8. \A x \in To(m) : [y \in Below(D, rank, x) |-> f[y]] \in [Below(D, rank, x) -> V]
    BY <2>6, <2>7
  <2>9. g \in [To(m) -> V]
    BY <2>7, <2>8
  <2>10. \A x \in To(m) : \A y \in Below(D, rank, x) : g[y] = f[y]
    <3> TAKE x \in To(m)
    <3> TAKE y \in Below(D, rank, x)
    <3>3. y \in To(m - 1) /\ y \in To(m)
      BY <2>6
    <3> QED
      BY <3>3
  <2>11. \A x \in To(m) : [y \in Below(D, rank, x) |-> g[y]] = [y \in Below(D, rank, x) |-> f[y]]
    BY <2>10
  <2>12. \A x \in To(m) : g[x] = step[x][[y \in Below(D, rank, x) |-> f[y]]]
    <3> TAKE x \in To(m)
    <3>2. rank[x] < m - 1 => f[x] = step[x][[y \in Below(D, rank, x) |-> f[y]]]
      BY <2>5 DEF Solves, Earlier
    <3> QED
      BY <3>2
  <2>13. Solves(D, V, rank, step, g, m)
    <3> HIDE DEF g
    <3>1. \A x \in To(m) : g[x] = step[x][[y \in Below(D, rank, x) |-> g[y]]]
      BY <2>11, <2>12
    <3> QED
      BY <2>9, <3>1 DEF Solves, Earlier
  <2> QED
    BY <2>2, <2>13
<1> DEFINE part(m) == CHOOSE f : Solves(D, V, rank, step, f, m)
           F == [x \in D |-> part(rank[x] + 1)[x]]
<1>2. \A m \in Nat : Solves(D, V, rank, step, part(m), m)
  BY <1>1
<1> HIDE DEF part
<1>3. F \in [D -> V]
  <2>1. ASSUME NEW x \in D PROVE part(rank[x] + 1)[x] \in V
    <3>1. rank[x] + 1 \in Nat /\ rank[x] < rank[x] + 1
      OBVIOUS
    <3>2. part(rank[x] + 1) \in [To(rank[x] + 1) -> V]
      BY <1>2, <3>1 DEF Solves, Earlier
    <3> QED
      BY <3>1, <3>2
  <2> QED
    BY <2>1
<1>4. \A x \in D : F[x] = step[x][[y \in Below(D, rank, x) |-> F[y]]]
  <2> TAKE x \in D
  <2> DEFINE m == rank[x] + 1
  <2>2. m \in Nat /\ rank[x] < m /\ Solves(D, V, rank, step, part(m), m)
    BY <1>2
  <2>3. \A y \in Below(D, rank, x) : F[y] = part(m)[y]
    <3> TAKE y \in Below(D, rank, x)
    <3>2. y \in D /\ rank[y] \in Nat /\ rank[y] < rank[y] + 1 /\ rank[y] < m /\ rank[y] + 1 \in Nat
      BY <2>2 DEF Below
    <3>3. part(rank[y] + 1)[y] = part(m)[y]
      BY <1>2, <2>2, <3>2, SolutionsAgree
    <3> QED
      BY <3>2, <3>3
  <2>4. [y \in Below(D, rank, x) |-> F[y]] = [y \in Below(D, rank, x) |-> part(m)[y]]
    BY <2>3
  <2>5. part(m)[x] = step[x][[y \in Below(D, rank, x) |-> part(m)[y]]]
    BY <2>2 DEF Solves, Earlier
  <2> QED
    BY <2>4, <2>5
<1> QED
  BY <1>3, <1>4 DEF Solvable, Earlier

-----------------------------------------------------------------------------
(* The sum of a weight over a finite set, taken element by element.        *)

\* The element that a sum over s takes next.
Pick(s) == CHOOSE x \in s : TRUE

\* sum gives the total of the weights w of every subset of S.
IsSum(sum, w, S) ==
    sum = [s \in SUBSET S |-> IF s = {} THEN 0 ELSE w[Pick(s)] + sum[s \ {Pick(s)}]]

\* What makes a set of subsets have a smallest member.
LEMMA SmallestSubset ==
    ASSUME NEW S, IsFiniteSet(S), NEW C \in SUBSET (SUBSET S), C # {}
    PROVE  \E s \in C : \A t \in C : Cardinality(s) <= Cardinality(t)
<1>1. \A s \in C : Cardinality(s) \in Nat
  BY FS_Subset, FS_CardinalityType
<1> DEFINE sizes == {Cardinality(s) : s \in C}
<1>2. PICK m \in sizes : \A n \in sizes : m <= n
  <2>1. sizes \in SUBSET Nat /\ sizes # {}
    BY <1>1
  <2> QED
    BY <2>1, SmallestNat
<1> QED
  BY <1>2

LEMMA TakeOne ==
    ASSUME NEW S, IsFiniteSet(S), NEW s \in SUBSET S, NEW x \in s
    PROVE  /\ s \ {x} \in SUBSET S /\ Cardinality(s) \in Nat
           /\ Cardinality(s \ {x}) \in Nat /\ Cardinality(s \ {x}) < Cardinality(s)
<1>1. IsFiniteSet(s) /\ Cardinality(s) \in Nat
  BY FS_Subset, FS_CardinalityType
<1>2. IsFiniteSet(s \ {x}) /\ Cardinality(s \ {x}) = Cardinality(s) - 1
  BY <1>1, FS_RemoveElement
<1>3. Cardinality(s \ {x}) \in Nat
  BY <1>2, FS_CardinalityType
<1> QED
  BY <1>1, <1>2, <1>3

LEMMA PickOne ==
    ASSUME NEW s, s # {}
    PROVE  Pick(s) \in s
  BY Zenon DEF Pick

\* There are such sums, and they are naturals.
LEMMA SumExists ==
    ASSUME NEW S, IsFiniteSet(S), NEW w, \A x \in S : w[x] \in Nat
    PROVE  \E sum : IsSum(sum, w, S)
<1> DEFINE D    == SUBSET S
           rank == [s \in D |-> Cardinality(s)]
           step == [s \in D |->
                      [r \in [Below(D, rank, s) -> Nat] |->
                         IF s = {} THEN 0 ELSE w[Pick(s)] + r[s \ {Pick(s)}]]]
<1>1. rank \in [D -> Nat]
  BY FS_Subset, FS_CardinalityType
<1>2. \A s \in D : s # {} => Pick(s) \in S /\ s \ {Pick(s)} \in Below(D, rank, s)
  <2> TAKE s \in D
  <2>1. SUFFICES ASSUME s # {} PROVE Pick(s) \in S /\ s \ {Pick(s)} \in Below(D, rank, s)
    OBVIOUS
  <2>2. Pick(s) \in s
    BY <2>1, PickOne
  <2> QED
    BY <2>2, TakeOne DEF Below
<1>3. \A s \in D : \A r \in [Below(D, rank, s) -> Nat] :
         step[s][r] = IF s = {} THEN 0 ELSE w[Pick(s)] + r[s \ {Pick(s)}]
  OBVIOUS
<1> HIDE DEF rank, step, D
<1>4. \A s \in D : \A r \in [Below(D, rank, s) -> Nat] : step[s][r] \in Nat
  <2> TAKE s \in D
  <2> TAKE r \in [Below(D, rank, s) -> Nat]
  <2>1. CASE s = {}
    BY <1>3, <2>1
  <2>2. CASE s # {}
    <3>1. w[Pick(s)] \in Nat /\ r[s \ {Pick(s)}] \in Nat
      BY <1>2, <2>2
    <3> QED
      BY <1>3, <2>2, <3>1
  <2> QED
    BY <2>1, <2>2
<1>5. PICK sum \in [D -> Nat] : \A s \in D : sum[s] = step[s][Earlier(D, rank, sum, s)]
  <2>1. Solvable(D, Nat, rank, step)
    BY <1>1, <1>4, RecursionByRank
  <2> QED
    BY <2>1 DEF Solvable
<1>6. \A s \in D : sum[s] = IF s = {} THEN 0 ELSE w[Pick(s)] + sum[s \ {Pick(s)}]
  <2> TAKE s \in D
  <2>1. Earlier(D, rank, sum, s) \in [Below(D, rank, s) -> Nat]
    BY DEF Earlier, Below
  <2>2. sum[s] = IF s = {} THEN 0 ELSE w[Pick(s)] + Earlier(D, rank, sum, s)[s \ {Pick(s)}]
    BY <1>3, <1>5, <2>1
  <2>3. s # {} => Earlier(D, rank, sum, s)[s \ {Pick(s)}] = sum[s \ {Pick(s)}]
    BY <1>2 DEF Earlier
  <2> QED
    BY <2>2, <2>3
<1>7. sum = [s \in D |-> IF s = {} THEN 0 ELSE w[Pick(s)] + sum[s \ {Pick(s)}]]
  BY <1>5, <1>6
<1> QED
  BY <1>7 DEF IsSum, D

LEMMA SumType ==
    ASSUME NEW S, IsFiniteSet(S), NEW w, \A x \in S : w[x] \in Nat, NEW sum, IsSum(sum, w, S)
    PROVE  \A s \in SUBSET S : sum[s] \in Nat
<1> DEFINE wrong == {s \in SUBSET S : sum[s] \notin Nat}
<1>1. SUFFICES wrong = {}
  OBVIOUS
<1>2. SUFFICES ASSUME NEW s \in wrong, \A t \in wrong : Cardinality(s) <= Cardinality(t)
               PROVE  FALSE
  <2>1. wrong \in SUBSET (SUBSET S)
    OBVIOUS
  <2> HIDE DEF wrong
  <2> QED
    BY <2>1, SmallestSubset
<1>3. CASE s = {}
  BY <1>3 DEF IsSum
<1>4. CASE s # {}
  <2>1. Pick(s) \in s /\ sum[s] = w[Pick(s)] + sum[s \ {Pick(s)}]
    BY <1>4, PickOne DEF IsSum
  <2>2. /\ s \ {Pick(s)} \in SUBSET S /\ Cardinality(s) \in Nat
        /\ Cardinality(s \ {Pick(s)}) \in Nat /\ Cardinality(s \ {Pick(s)}) < Cardinality(s)
    BY <2>1, TakeOne
  <2>3. sum[s \ {Pick(s)}] \in Nat
    BY <1>2, <2>2
  <2> QED
    BY <2>1, <2>3
<1> QED
  BY <1>3, <1>4

TakesAny(sum, w, S) == \A s \in SUBSET S : \A x \in s : sum[s] = w[x] + sum[s \ {x}]

\* The order in which the elements are taken does not matter.
LEMMA SumTakesAny ==
    ASSUME NEW S, IsFiniteSet(S), NEW w, \A x \in S : w[x] \in Nat, NEW sum, IsSum(sum, w, S)
    PROVE  TakesAny(sum, w, S)
<1> DEFINE wrong == {s \in SUBSET S : \E x \in s : sum[s] # w[x] + sum[s \ {x}]}
<1>1. SUFFICES wrong = {}
  BY DEF TakesAny
<1>2. SUFFICES ASSUME NEW s \in wrong, \A t \in wrong : Cardinality(s) <= Cardinality(t)
               PROVE  FALSE
  <2>1. wrong \in SUBSET (SUBSET S)
    OBVIOUS
  <2> HIDE DEF wrong
  <2> QED
    BY <2>1, SmallestSubset
<1>3. PICK x \in s : sum[s] # w[x] + sum[s \ {x}]
  OBVIOUS
<1>4. PICK p \in s : p = Pick(s) /\ sum[s] = w[p] + sum[s \ {p}]
  BY PickOne DEF IsSum
<1>5. x # p
  BY <1>3, <1>4
<1> DEFINE rest == (s \ {x}) \ {p}
<1>6. /\ s \ {x} \in SUBSET S /\ s \ {p} \in SUBSET S /\ rest \in SUBSET S
      /\ Cardinality(s) \in Nat
      /\ Cardinality(s \ {x}) \in Nat /\ Cardinality(s \ {x}) < Cardinality(s)
      /\ Cardinality(s \ {p}) \in Nat /\ Cardinality(s \ {p}) < Cardinality(s)
  BY TakeOne
<1>7. s \ {x} \notin wrong /\ s \ {p} \notin wrong
  BY <1>2, <1>6
<1>8. sum[s \ {x}] = w[p] + sum[rest]
  BY <1>5, <1>6, <1>7
<1>9. sum[s \ {p}] = w[x] + sum[rest]
  <2>1. (s \ {p}) \ {x} = rest
    OBVIOUS
  <2> QED
    BY <1>5, <1>6, <1>7, <2>1
<1>10. w[x] \in Nat /\ w[p] \in Nat /\ sum[rest] \in Nat
  BY <1>6, SumType
<1> QED
  BY <1>3, <1>4, <1>8, <1>9, <1>10

\* Sums depend on the weights of what is summed alone.
LEMMA SumsAgree ==
    ASSUME NEW S, IsFiniteSet(S), NEW w, NEW sum, IsSum(sum, w, S),
           NEW T, S \subseteq T, NEW v, NEW total, IsSum(total, v, T),
           \A x \in S : w[x] = v[x]
    PROVE  \A s \in SUBSET S : sum[s] = total[s]
<1> DEFINE wrong == {s \in SUBSET S : sum[s] # total[s]}
<1>1. SUFFICES wrong = {}
  OBVIOUS
<1>2. SUFFICES ASSUME NEW s \in wrong, \A t \in wrong : Cardinality(s) <= Cardinality(t)
               PROVE  FALSE
  <2>1. wrong \in SUBSET (SUBSET S)
    OBVIOUS
  <2> HIDE DEF wrong
  <2> QED
    BY <2>1, SmallestSubset
<1>3. CASE s = {}
  BY <1>3 DEF IsSum
<1>4. CASE s # {}
  <2>1. PICK p \in s : /\ sum[s] = w[p] + sum[s \ {p}]
                       /\ total[s] = v[p] + total[s \ {p}]
    BY <1>4, PickOne DEF IsSum
  <2>2. /\ s \ {p} \in SUBSET S /\ Cardinality(s) \in Nat
        /\ Cardinality(s \ {p}) \in Nat /\ Cardinality(s \ {p}) < Cardinality(s)
    BY TakeOne
  <2>3. sum[s \ {p}] = total[s \ {p}]
    BY <1>2, <2>2
  <2> QED
    BY <2>1, <2>3
<1> QED
  BY <1>3, <1>4

\* More sums to more.
LEMMA SumGrows ==
    ASSUME NEW S, IsFiniteSet(S), NEW w, \A x \in S : w[x] \in Nat, NEW sum, IsSum(sum, w, S),
           NEW few \in SUBSET S
    PROVE  \A s \in SUBSET S : few \subseteq s => sum[few] <= sum[s]
<1> DEFINE wrong == {s \in SUBSET S : few \subseteq s /\ ~(sum[few] <= sum[s])}
<1>1. SUFFICES wrong = {}
  OBVIOUS
<1>2. SUFFICES ASSUME NEW s \in wrong, \A t \in wrong : Cardinality(s) <= Cardinality(t)
               PROVE  FALSE
  <2>1. wrong \in SUBSET (SUBSET S)
    OBVIOUS
  <2> HIDE DEF wrong
  <2> QED
    BY <2>1, SmallestSubset
<1>3. sum[few] \in Nat /\ sum[s] \in Nat
  BY SumType
<1>4. PICK x \in s : x \notin few
  BY <1>3
<1>5. /\ s \ {x} \in SUBSET S /\ Cardinality(s) \in Nat
      /\ Cardinality(s \ {x}) \in Nat /\ Cardinality(s \ {x}) < Cardinality(s)
  BY TakeOne
<1>6. sum[few] <= sum[s \ {x}]
  BY <1>2, <1>4, <1>5
<1>7. sum[s] = w[x] + sum[s \ {x}] /\ w[x] \in Nat /\ sum[s \ {x}] \in Nat
  <2>1. s \in SUBSET S /\ x \in S
    OBVIOUS
  <2>2. sum[s] = w[x] + sum[s \ {x}]
    BY <2>1, SumTakesAny DEF TakesAny
  <2>3. sum[s \ {x}] \in Nat
    BY <1>5, SumType
  <2> QED
    BY <2>1, <2>2, <2>3
<1> QED
  BY <1>3, <1>6, <1>7

=============================================================================
