------------------------------ MODULE FiniteOrders ------------------------------
\* Finite sets and orders on them: what the proofs need of a smallest set, a first or a
\* last element, a sorted list, and of numbers up to a bound. The induction is over strict
\* inclusion, which is well-founded among the subsets of a finite set.
EXTENDS Integers, FiniteSets, FiniteSetTheorems, FunctionTheorems, TLAPS

\* Strict inclusion among the subsets of a finite set has no infinite descent.
LEMMA SmallestExists ==
    ASSUME NEW S, IsFiniteSet(S), NEW F \in SUBSET SUBSET S, F # {}
    PROVE  \E X \in F : \A Y \in F : Y \subseteq X => Y = X
<1>1. IsWellFoundedOn(StrictSubsetOrdering(S), FiniteSubsetsOf(S)) BY FS_StrictSubsetOrderingWellFounded
<1>2. FiniteSubsetsOf(S) = SUBSET S BY FS_FiniteSubsetsOfFinite
<1>3. F \subseteq FiniteSubsetsOf(S) BY <1>2
<1>4. PICK X \in F : \A Y \in F : ~ (<<Y, X>> \in StrictSubsetOrdering(S)) BY <1>1, <1>3, WFMin
<1>5. ASSUME NEW Y \in F, Y \subseteq X PROVE Y = X
  <2>1. X \in SUBSET S /\ Y \in SUBSET S OBVIOUS
  <2>2. <<Y, X>> \in (SUBSET S) \X (SUBSET S) BY <2>1
  <2>3. ~ (<<Y, X>> \in StrictSubsetOrdering(S)) BY <1>4
  <2> QED BY <2>2, <2>3, <1>5 DEF StrictSubsetOrdering
<1> QED BY <1>5

\* A transitive, irreflexive relation has an element of a finite set that none is beyond.
LEMMA ExtremeExists ==
    ASSUME NEW S, IsFiniteSet(S), S # {}, NEW R,
           \A x \in S : <<x, x>> \notin R,
           \A x, y, z \in S : <<x, y>> \in R /\ <<y, z>> \in R => <<x, z>> \in R
    PROVE  \E m \in S : \A n \in S : <<m, n>> \notin R
<1> DEFINE Beyond(m) == {n \in S : <<m, n>> \in R}
<1>1. PICK F : F = {Beyond(m) : m \in S} OBVIOUS
<1>2. F \in SUBSET SUBSET S /\ F # {}
  <2>1. \A m \in S : Beyond(m) \subseteq S OBVIOUS
  <2>2. \A X \in F : X \subseteq S BY <1>1
  <2>3. F # {}
    <3>1. PICK e : e \in S OBVIOUS
    <3>2. Beyond(e) \in F BY <1>1, <3>1
    <3> QED BY <3>2
  <2> QED BY <2>2, <2>3
<1>3. PICK X \in F : \A Y \in F : Y \subseteq X => Y = X BY <1>2, SmallestExists
<1>4. PICK m \in S : X = Beyond(m) BY <1>1, <1>3
<1>5. ASSUME NEW n \in S, <<m, n>> \in R PROVE FALSE
  <2>1. \A k \in Beyond(n) : k \in Beyond(m) BY <1>5
  <2>2. Beyond(n) \subseteq X BY <2>1, <1>4
  <2>3. Beyond(n) \in F BY <1>1
  <2>4. Beyond(n) = X BY <2>2, <2>3, <1>3
  <2>5. n \in Beyond(m) BY <1>5
  <2>6. n \in Beyond(n) BY <2>4, <2>5, <1>4
  <2> QED BY <2>6
<1> QED BY <1>5

LEMMA RangeIsFinite ==
    ASSUME NEW S, IsFiniteSet(S), NEW f, f = [x \in S |-> f[x]]
    PROVE  IsFiniteSet({f[x] : x \in S})
<1>1. PICK T : T = {f[x] : x \in S} OBVIOUS
<1>2. f \in [S -> T] BY <1>1
<1>3. \A t \in T : \E x \in S : f[x] = t BY <1>1
<1>4. f \in Surjection(S, T) BY <1>2, <1>3, Fun_IsSurj
<1>5. IsFiniteSet(T) BY <1>4, FS_Surjection
<1> QED BY <1>1, <1>5

LEMMA GreatestExists ==
    ASSUME NEW S \in SUBSET Int, IsFiniteSet(S), S # {}
    PROVE  \E m \in S : \A n \in S : n <= m
<1>1. PICK R : R = {p \in S \X S : p[1] < p[2]} OBVIOUS
<1>2. \A x, y \in S : <<x, y>> \in R <=> x < y BY <1>1
<1>3. \A x \in S : <<x, x>> \notin R BY <1>2
<1>4. \A x, y, z \in S : <<x, y>> \in R /\ <<y, z>> \in R => <<x, z>> \in R BY <1>2
<1>5. PICK m \in S : \A n \in S : <<m, n>> \notin R BY <1>3, <1>4, ExtremeExists
<1>6. \A n \in S : ~ (m < n) BY <1>2, <1>5
<1>7. \A n \in S : n \in Int /\ m \in Int OBVIOUS
<1> QED BY <1>6, <1>7

LEMMA LeastExists ==
    ASSUME NEW S \in SUBSET Int, IsFiniteSet(S), S # {}
    PROVE  \E m \in S : \A n \in S : m <= n
<1>1. PICK R : R = {p \in S \X S : p[1] > p[2]} OBVIOUS
<1>2. \A x, y \in S : <<x, y>> \in R <=> x > y BY <1>1
<1>3. \A x \in S : <<x, x>> \notin R BY <1>2
<1>4. \A x, y, z \in S : <<x, y>> \in R /\ <<y, z>> \in R => <<x, z>> \in R BY <1>2
<1>5. PICK m \in S : \A n \in S : <<m, n>> \notin R BY <1>3, <1>4, ExtremeExists
<1>6. \A n \in S : ~ (m > n) BY <1>2, <1>5
<1>7. \A n \in S : n \in Int /\ m \in Int OBVIOUS
<1> QED BY <1>6, <1>7

\* Numbering the members of a finite set by a key that tells them apart misses no number.
TellsApart(key, S) == key \in [S -> Int] /\ \A x, y \in S : key[x] = key[y] => x = y
PlaceOf(n, S, key) == Cardinality({x \in S : key[x] <= key[n]})

LEMMA EveryPlaceIsTakenBy ==
    ASSUME NEW S, IsFiniteSet(S), NEW key, TellsApart(key, S), NEW k \in 1..Cardinality(S)
    PROVE  \E n \in S : PlaceOf(n, S, key) = k
<1> USE DEF TellsApart
<1> DEFINE Upto(n) == {x \in S : key[x] <= key[n]}
<1>1. Cardinality(S) \in Nat BY FS_CardinalityType
<1>2. ASSUME NEW n \in S
      PROVE  IsFiniteSet(Upto(n)) /\ Cardinality(Upto(n)) \in 1..Cardinality(S)
  <2>1. Upto(n) \subseteq S /\ n \in Upto(n) OBVIOUS
  <2>2. IsFiniteSet(Upto(n)) /\ Cardinality(Upto(n)) <= Cardinality(S) BY <2>1, FS_Subset
  <2>3. Cardinality(Upto(n)) \in Nat BY <2>2, FS_CardinalityType
  <2>4. Cardinality(Upto(n)) # 0 BY <2>1, <2>2, FS_EmptySet
  <2> QED BY <1>1, <2>2, <2>3, <2>4
<1>3. ASSUME NEW m \in S, NEW n \in S, key[m] < key[n] PROVE Cardinality(Upto(m)) # Cardinality(Upto(n))
  <2>1. \A x \in S : key[x] \in Int OBVIOUS
  <2>2. n \in Upto(n) /\ n \notin Upto(m) BY <2>1, <1>3
  <2>3. Upto(m) \subseteq Upto(n)
    <3>1. \A x \in S : key[x] <= key[m] => key[x] <= key[n] BY <2>1, <1>3
    <3> QED BY <3>1
  <2>4. Upto(m) # Upto(n) BY <2>2
  <2> HIDE DEF Upto
  <2> QED BY <2>3, <2>4, <1>2, FS_Subset
<1>4. PICK T : T = 1..Cardinality(S) OBVIOUS
<1>5. PICK rank : rank = [n \in S |-> Cardinality(Upto(n))] OBVIOUS
<1>6. rank \in [S -> T] BY <1>2, <1>4, <1>5
<1>7. \A m, n \in S : m # n => rank[m] # rank[n]
  <2> SUFFICES ASSUME NEW m \in S, NEW n \in S, m # n PROVE rank[m] # rank[n] OBVIOUS
  <2>1. key[m] \in Int /\ key[n] \in Int /\ key[m] # key[n] OBVIOUS
  <2>2. key[m] < key[n] \/ key[n] < key[m] BY <2>1
  <2> QED BY <2>2, <1>3, <1>5
<1>8. rank \in Injection(S, T) BY <1>6, <1>7, Fun_IsInj
<1>9. 1 \in Int /\ Cardinality(S) \in Int BY <1>1
<1>10. IsFiniteSet(T) /\ Cardinality(T) = Cardinality(S)
  <2>1. PICK c \in Nat : c = Cardinality(S) BY <1>1
  <2>2. IsFiniteSet(1..c) /\ Cardinality(1..c) = IF 1 > c THEN 0 ELSE c - 1 + 1 BY FS_Interval
  <2>3. (IF 1 > c THEN 0 ELSE c - 1 + 1) = c OBVIOUS
  <2> QED BY <1>4, <2>1, <2>2, <2>3
<1>11. rank \in Surjection(S, T) BY <1>8, <1>10, FS_Injection
<1>12. PICK n \in S : rank[n] = k BY <1>4, <1>11 DEF Surjection
<1> QED BY <1>5, <1>12 DEF PlaceOf

LEMMA EveryPlaceIsTaken ==
    ASSUME NEW S \in SUBSET Int, IsFiniteSet(S), NEW k \in 1..Cardinality(S)
    PROVE  \E n \in S : Cardinality({x \in S : x <= n}) = k
<1>1. PICK key : key = [x \in S |-> x] OBVIOUS
<1>2. key \in [S -> Int] /\ \A x \in S : key[x] = x BY <1>1
<1>3. \A x, y \in S : key[x] = key[y] => x = y BY <1>2
<1>4. TellsApart(key, S) BY <1>2, <1>3 DEF TellsApart
<1>5. PICK n \in S : PlaceOf(n, S, key) = k BY <1>4, EveryPlaceIsTakenBy
<1>6. {x \in S : key[x] <= key[n]} = {x \in S : x <= n} BY <1>2
<1> QED BY <1>5, <1>6 DEF PlaceOf

\* What holds at 0 and passes from each number to the next holds up to N.
LEMMA UpToN ==
    ASSUME NEW N \in Nat, NEW P \in SUBSET (0..N), 0 \in P,
           \A n \in 1..N : n - 1 \in P => n \in P
    PROVE  \A n \in 0..N : n \in P
<1> SUFFICES ASSUME NEW n \in 0..N, n \notin P PROVE FALSE OBVIOUS
<1>1. PICK Q : Q = (0..N) \ P OBVIOUS
<1>2. IsFiniteSet(0..N) BY FS_Interval
<1>3. IsFiniteSet(Q) BY <1>1, <1>2, FS_Subset
<1>4. Q \in SUBSET Int /\ Q # {} BY <1>1
<1>5. PICK m \in Q : \A k \in Q : m <= k BY <1>3, <1>4, LeastExists
<1>6. m \in 0..N /\ m \notin P BY <1>1
<1>7. m # 0 BY <1>6
<1>8. m \in 1..N /\ m - 1 \in 0..N BY <1>6, <1>7
<1>9. m - 1 \notin Q BY <1>5, <1>6
<1>10. m - 1 \in P BY <1>1, <1>8, <1>9
<1> QED BY <1>6, <1>8, <1>10

Steps(f, N, start, step) == \A n \in 0..N : f[n] = IF n = 0 THEN start ELSE step[<<n, f[n - 1]>>]

\* A function on 0..N may be defined by its value at 0 and a step from each to the next.
LEMMA RecursionExists ==
    ASSUME NEW N \in Nat, NEW U, NEW start \in U, NEW step \in [(1..N) \X U -> U]
    PROVE  \E f \in [0..N -> U] : Steps(f, N, start, step)
<1> DEFINE Defined(m) == \E f \in [0..N -> U] : \A n \in 0..m : f[n] = IF n = 0 THEN start ELSE step[<<n, f[n - 1]>>]
<1>1. PICK P : P = {m \in 0..N : Defined(m)} OBVIOUS
<1>2. 0 \in P
  <2>1. PICK f : f = [n \in 0..N |-> start] OBVIOUS
  <2>2. f \in [0..N -> U] BY <2>1
  <2>3. f[0] = start BY <2>1
  <2>4. \A n \in 0..0 : n = 0 OBVIOUS
  <2>5. Defined(0) BY <2>2, <2>3, <2>4
  <2>6. 0 \in 0..N OBVIOUS
  <2> HIDE DEF Defined
  <2> QED BY <2>5, <2>6, <1>1
<1>3. ASSUME NEW m \in 1..N, m - 1 \in P PROVE m \in P
  <2>1. PICK f \in [0..N -> U] : \A n \in 0..(m - 1) : f[n] = IF n = 0 THEN start ELSE step[<<n, f[n - 1]>>]
    BY <1>1, <1>3
  <2>2. PICK next : next = step[<<m, f[m - 1]>>] OBVIOUS
  <2>3. m - 1 \in 0..N /\ m \in 0..N OBVIOUS
  <2>4. f[m - 1] \in U BY <2>3
  <2>5. <<m, f[m - 1]>> \in (1..N) \X U BY <2>4
  <2>6. next \in U BY <2>2, <2>5
  <2>7. PICK g : g = [n \in 0..N |-> IF n = m THEN next ELSE f[n]] OBVIOUS
  <2>8. g \in [0..N -> U] BY <2>6, <2>7
  <2>9. g[m] = step[<<m, g[m - 1]>>]
    <3>1. m - 1 # m OBVIOUS
    <3>2. g[m - 1] = f[m - 1] BY <2>3, <2>7, <3>1
    <3> QED BY <2>2, <2>3, <2>7, <3>2
  <2>10. ASSUME NEW n \in 0..(m - 1) PROVE g[n] = IF n = 0 THEN start ELSE step[<<n, g[n - 1]>>]
    <3>1. n # m /\ n \in 0..N OBVIOUS
    <3>2. g[n] = f[n] BY <3>1, <2>7
    <3>3. CASE n = 0 BY <3>2, <3>3, <2>1
    <3>4. CASE n # 0
      <4>1. n - 1 # m /\ n - 1 \in 0..N BY <3>4
      <4>2. g[n - 1] = f[n - 1] BY <4>1, <2>7
      <4> QED BY <4>2, <3>2, <3>4, <2>1
    <3> QED BY <3>3, <3>4
  <2>11. \A n \in 0..m : n \in 0..(m - 1) \/ n = m OBVIOUS
  <2>12. m # 0 OBVIOUS
  <2>13. Defined(m) BY <2>8, <2>9, <2>10, <2>11, <2>12
  <2>14. m \in 0..N OBVIOUS
  <2> HIDE DEF Defined
  <2> QED BY <2>13, <2>14, <1>1
<1>4. P \in SUBSET (0..N) BY <1>1
<1>5. N \in 0..N OBVIOUS
<1>6. N \in P
  <2> HIDE DEF Defined
  <2> QED BY <1>2, <1>3, <1>4, <1>5, UpToN
<1>7. Defined(N) BY <1>6, <1>1
<1> QED BY <1>7 DEF Steps

-------------------------------------------------------------------------------
\* A strict total order on a set, as a set of pairs.
StrictOrder(R, S) ==
    /\ \A x \in S : <<x, x>> \notin R
    /\ \A x, y, z \in S : <<x, y>> \in R /\ <<y, z>> \in R => <<x, z>> \in R
    /\ \A x, y \in S : x = y \/ <<x, y>> \in R \/ <<y, x>> \in R

\* Every member of a set once, first to last.
Sorts(f, S, R) ==
    /\ Cardinality(S) \in Nat /\ f \in [1..Cardinality(S) -> S]
    /\ \A x \in S : \E k \in 1..Cardinality(S) : f[k] = x
    /\ \A j, k \in 1..Cardinality(S) : j < k => <<f[j], f[k]>> \in R
    /\ \A j, k \in 1..Cardinality(S) : f[j] = f[k] => j = k

\* The list in which every place has the member that as many come before is sorted.
LEMMA PlacesSort ==
    ASSUME NEW S, IsFiniteSet(S), NEW R, StrictOrder(R, S), NEW f,
           f = [k \in 1..Cardinality(S) |-> CHOOSE x \in S : Cardinality({y \in S : <<y, x>> \in R}) = k - 1]
    PROVE  Sorts(f, S, R)
<1> DEFINE Before(x) == {y \in S : <<y, x>> \in R}
<1>1. PICK N \in Nat : N = Cardinality(S) BY FS_CardinalityType
<1>2. ASSUME NEW x \in S PROVE IsFiniteSet(Before(x)) /\ Cardinality(Before(x)) \in 0..(N - 1)
  <2>1. Before(x) \subseteq S /\ x \notin Before(x) BY DEF StrictOrder
  <2>2. Before(x) # S BY <2>1
  <2>3. PICK B : B = Before(x) OBVIOUS
  <2>4. IsFiniteSet(B) /\ Cardinality(B) <= Cardinality(S) /\ (Cardinality(B) = Cardinality(S) => B = S)
    BY <2>1, <2>3, FS_Subset
  <2>5. Cardinality(B) \in Nat BY <2>4, FS_CardinalityType
  <2>6. Cardinality(B) < N BY <1>1, <2>2, <2>3, <2>4, <2>5
  <2>7. Cardinality(B) \in 0..(N - 1) BY <2>5, <2>6
  <2> QED BY <2>3, <2>4, <2>7
<1>3. ASSUME NEW x \in S, NEW y \in S, <<x, y>> \in R PROVE Cardinality(Before(x)) < Cardinality(Before(y))
  <2>1. PICK B, C : B = Before(x) /\ C = Before(y) OBVIOUS
  <2>2. B \subseteq C BY <1>3, <2>1 DEF StrictOrder
  <2>3. x \in C /\ x \notin B BY <1>3, <2>1 DEF StrictOrder
  <2>4. IsFiniteSet(C) /\ IsFiniteSet(B) BY <1>2, <2>1
  <2>5. Cardinality(B) <= Cardinality(C) /\ (Cardinality(B) = Cardinality(C) => B = C) BY <2>2, <2>4, FS_Subset
  <2>6. Cardinality(B) \in Nat /\ Cardinality(C) \in Nat BY <2>4, FS_CardinalityType
  <2>7. B # C BY <2>3
  <2>8. Cardinality(B) < Cardinality(C) BY <2>5, <2>6, <2>7
  <2> QED BY <2>1, <2>8
<1>4. PICK rank : rank = [x \in S |-> 1 + Cardinality(Before(x))] OBVIOUS
<1>5. PICK T : T = 1..N OBVIOUS
<1>6. rank \in [S -> T]
  <2>1. ASSUME NEW x \in S PROVE 1 + Cardinality(Before(x)) \in T
    <3>1. PICK c \in 0..(N - 1) : c = Cardinality(Before(x)) BY <1>2
    <3>2. 1 + c \in 1..N OBVIOUS
    <3> QED BY <3>1, <3>2, <1>5
  <2> HIDE DEF Before
  <2> QED BY <2>1, <1>4
<1>7. ASSUME NEW x \in S, NEW y \in S, <<x, y>> \in R PROVE rank[x] < rank[y]
  <2>1. PICK c \in 0..(N - 1), d \in 0..(N - 1) : c = Cardinality(Before(x)) /\ d = Cardinality(Before(y)) BY <1>2
  <2>2. c < d BY <2>1, <1>3, <1>7
  <2>3. rank[x] = 1 + c /\ rank[y] = 1 + d BY <2>1, <1>4
  <2> QED BY <2>2, <2>3
<1>8. \A x, y \in S : rank[x] = rank[y] => x = y
  <2> SUFFICES ASSUME NEW x \in S, NEW y \in S, rank[x] = rank[y], x # y PROVE FALSE OBVIOUS
  <2>1. <<x, y>> \in R \/ <<y, x>> \in R BY DEF StrictOrder
  <2>2. rank[x] < rank[y] \/ rank[y] < rank[x] BY <2>1, <1>7
  <2>3. rank[x] \in 1..N /\ rank[y] \in 1..N BY <1>5, <1>6
  <2> QED BY <2>2, <2>3
<1>9. \A k \in T : \E x \in S : rank[x] = k
  <2>1. rank \in Injection(S, T) BY <1>6, <1>8, Fun_IsInj
  <2>2. IsFiniteSet(T) /\ Cardinality(T) = Cardinality(S)
    <3>1. IsFiniteSet(1..N) /\ Cardinality(1..N) = IF 1 > N THEN 0 ELSE N - 1 + 1 BY FS_Interval
    <3>2. (IF 1 > N THEN 0 ELSE N - 1 + 1) = N OBVIOUS
    <3> QED BY <1>1, <1>5, <3>1, <3>2
  <2>3. rank \in Surjection(S, T) BY <2>1, <2>2, FS_Injection
  <2> QED BY <2>3 DEF Surjection
<1>10. ASSUME NEW k \in T PROVE f[k] \in S /\ rank[f[k]] = k
  <2>1. PICK x \in S : rank[x] = k BY <1>9
  <2>2. ASSUME NEW y \in S PROVE Cardinality(Before(y)) = k - 1 <=> rank[y] = k
    <3>1. PICK c \in 0..(N - 1) : c = Cardinality(Before(y)) BY <1>2
    <3>2. rank[y] = 1 + c BY <3>1, <1>4
    <3>3. k \in Int BY <1>5
    <3> QED BY <3>1, <3>2, <3>3
  <2>3. f[k] = CHOOSE y \in S : Cardinality(Before(y)) = k - 1 BY <1>1, <1>5
  <2>4. \E y \in S : Cardinality(Before(y)) = k - 1 BY <2>1, <2>2
  <2> HIDE DEF Before
  <2>5. f[k] \in S /\ Cardinality(Before(f[k])) = k - 1 BY <2>3, <2>4
  <2> QED BY <2>2, <2>5
<1>11. f \in [1..N -> S]
  <2> DEFINE Place(k) == CHOOSE x \in S : Cardinality({y \in S : <<y, x>> \in R}) = k - 1
  <2>1. f = [k \in 1..N |-> Place(k)] BY <1>1
  <2> HIDE DEF Place
  <2>2. f = [k \in 1..N |-> f[k]] BY <2>1
  <2> QED BY <2>2, <1>5, <1>10
<1>12. ASSUME NEW x \in S PROVE \E k \in 1..N : f[k] = x
  <2>1. PICK k \in T : k = rank[x] BY <1>6
  <2>2. f[k] \in S /\ rank[f[k]] = rank[x] BY <2>1, <1>10
  <2>3. f[k] = x BY <2>2, <1>8
  <2> QED BY <2>3, <1>5
<1>13. ASSUME NEW j \in 1..N, NEW k \in 1..N, j < k PROVE <<f[j], f[k]>> \in R
  <2>1. f[j] \in S /\ f[k] \in S /\ rank[f[j]] = j /\ rank[f[k]] = k BY <1>5, <1>10
  <2>2. f[j] # f[k] BY <2>1, <1>13
  <2>3. ~ (<<f[k], f[j]>> \in R)
    <3> SUFFICES ASSUME <<f[k], f[j]>> \in R PROVE FALSE OBVIOUS
    <3>1. rank[f[k]] < rank[f[j]] BY <2>1, <1>7
    <3>2. k < j BY <3>1, <2>1
    <3> QED BY <3>2, <1>13
  <2> QED BY <2>1, <2>2, <2>3 DEF StrictOrder
<1>14. ASSUME NEW j \in 1..N, NEW k \in 1..N, f[j] = f[k] PROVE j = k
  BY <1>14, <1>5, <1>10
<1> QED BY <1>1, <1>11, <1>12, <1>13, <1>14 DEF Sorts

\* A strict total order has a first element on a finite set.
LEMMA FirstExists ==
    ASSUME NEW S, IsFiniteSet(S), S # {}, NEW R, StrictOrder(R, S)
    PROVE  \E x \in S : \A y \in S \ {x} : <<x, y>> \in R
<1>1. PICK Q : Q = {q \in S \X S : <<q[2], q[1]>> \in R} OBVIOUS
<1>2. \A x, y \in S : <<x, y>> \in Q <=> <<y, x>> \in R BY <1>1
<1>3. /\ \A x \in S : <<x, x>> \notin Q
      /\ \A x, y, z \in S : <<x, y>> \in Q /\ <<y, z>> \in Q => <<x, z>> \in Q
  BY <1>2 DEF StrictOrder
<1>4. PICK x \in S : \A y \in S : <<x, y>> \notin Q BY <1>3, ExtremeExists
<1>5. \A y \in S \ {x} : <<x, y>> \in R BY <1>2, <1>4 DEF StrictOrder
<1> QED BY <1>5

\* A list of different members, and the size of a part of it.
Different(f, N, K) == f \in [1..N -> K] /\ \A j, k \in 1..N : f[j] = f[k] => j = k
PartOf(f, lo, hi) == {f[i] : i \in lo..hi}

\* A part has as many members as places.
LEMMA RunIsCounted ==
    ASSUME NEW N \in Nat, NEW K, NEW f, Different(f, N, K), NEW lo \in Nat \ {0}, NEW hi \in Int, hi <= N
    PROVE  Cardinality(PartOf(f, lo, hi)) = IF lo > hi THEN 0 ELSE hi - lo + 1
<1> USE DEF Different
<1>1. PICK I : I = lo..hi OBVIOUS
<1>2. IsFiniteSet(I) /\ Cardinality(I) = IF lo > hi THEN 0 ELSE hi - lo + 1 BY <1>1, FS_Interval
<1>3. \A i \in I : i \in 1..N BY <1>1
<1>4. PICK M : M = {f[i] : i \in I} OBVIOUS
<1>5. PICK g : g = [i \in I |-> f[i]] OBVIOUS
<1>6. g \in [I -> M] /\ \A m \in M : \E i \in I : g[i] = m BY <1>4, <1>5
<1>7. g \in Surjection(I, M) BY <1>6, Fun_IsSurj
<1>8. \A i, j \in I : g[i] = g[j] => i = j BY <1>3, <1>5
<1>9. g \in Injection(I, M) BY <1>6, <1>8, Fun_IsInj
<1>10. Cardinality(M) = Cardinality(I) BY <1>2, <1>7, <1>9, FS_Surjection
<1> QED BY <1>1, <1>2, <1>4, <1>10 DEF PartOf
=================================================================================
