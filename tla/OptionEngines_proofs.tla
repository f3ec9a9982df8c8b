--------------------------- MODULE OptionEngines_proofs ---------------------------
(***************************************************************************)
(* What the engines of OptionEngines and ReferenceData return, for every   *)
(* valid input: each result is the one that an independent definition of   *)
(* it demands. A function that is defined by recursion over a sequence is  *)
(* first shown to be what its definition reads (the lemmas ...Is), then    *)
(* reasoned about by induction on the length.                              *)
(***************************************************************************)
EXTENDS OptionEngines, FiniteOrders, SequenceTheorems

-------------------------------------------------------------------------------
\* Numbers.

\* The least of finitely many numbers.
LEMMA LeastOfSet ==
    ASSUME NEW S \in SUBSET Int, IsFiniteSet(S), S # {}
    PROVE  Min(S) \in S /\ \A n \in S : Min(S) <= n
<1>1. PICK m \in S : \A n \in S : m <= n BY LeastExists
<1> QED BY <1>1 DEF Min

\* The greatest of finitely many numbers.
LEMMA GreatestOfSet ==
    ASSUME NEW S \in SUBSET Int, IsFiniteSet(S), S # {}
    PROVE  Max(S) \in S /\ \A n \in S : n <= Max(S)
<1>1. PICK m \in S : \A n \in S : n <= m BY GreatestExists
<1>2. \A n \in S : m >= n BY <1>1
<1>3. Max(S) \in S /\ \A n \in S : Max(S) >= n BY <1>2 DEF Max
<1> QED BY <1>3

\* The larger of two numbers.
LEMMA ExtremesOfTwo ==
    ASSUME NEW a \in Int, NEW b \in Int
    PROVE  /\ \A n \in Int : n <= Max({a, b}) <=> (n <= a \/ n <= b)
           /\ Max({a, b}) \in {a, b}
<1>1. PICK m \in {a, b} : \A n \in {a, b} : m >= n
  <2>1. CASE a >= b
    <3>1. a \in {a, b} /\ \A n \in {a, b} : a >= n BY <2>1
    <3> QED BY <3>1
  <2>2. CASE b > a
    <3>1. b \in {a, b} /\ \A n \in {a, b} : b >= n BY <2>2
    <3> QED BY <3>1
  <2> QED BY <2>1, <2>2
<1>2. PICK x : x = Max({a, b}) OBVIOUS
<1>3. x \in {a, b} /\ \A n \in {a, b} : x >= n BY <1>1, <1>2 DEF Max
<1>4. ASSUME NEW n \in Int PROVE n <= x <=> (n <= a \/ n <= b)
  <2>1. CASE x = a BY <2>1, <1>3
  <2>2. CASE x = b BY <2>2, <1>3
  <2> QED BY <2>1, <2>2, <1>3
<1> QED BY <1>2, <1>3, <1>4

\* The smaller of two numbers.
LEMMA LesserOfTwo ==
    ASSUME NEW a \in Int, NEW b \in Int
    PROVE  Min({a, b}) \in {a, b} /\ Min({a, b}) <= a /\ Min({a, b}) <= b
<1>1. PICK m \in {a, b} : \A n \in {a, b} : m <= n
  <2>1. CASE a <= b BY <2>1
  <2>2. CASE b < a
    <3>1. b \in {a, b} /\ \A n \in {a, b} : b <= n BY <2>2
    <3> QED BY <3>1
  <2> QED BY <2>1, <2>2
<1>2. PICK x : x = Min({a, b}) OBVIOUS
<1>3. x \in {a, b} /\ \A n \in {a, b} : x <= n BY <1>1, <1>2 DEF Min
<1> QED BY <1>2, <1>3

\* A quotient rounded half up is a number.
LEMMA HalfUpIsInt ==
    ASSUME NEW a \in Int, NEW b \in Nat \ {0} PROVE HalfUp(a, b) \in Int
BY DEF HalfUp

\* Half-up division keeps bounds and order.
LEMMA HalfUpKeepsOrder ==
    ASSUME NEW a \in Int, NEW b \in Int, a <= b, NEW c \in Nat \ {0}
    PROVE  HalfUp(a, c) <= HalfUp(b, c)
<1>1. PICK d \in Nat \ {0} : d = 2 * c OBVIOUS
<1>2. PICK x \in Int, y \in Int : x = 2 * a + c /\ y = 2 * b + c OBVIOUS
<1>3. x <= y BY <1>2
<1>4. x \div d <= y \div d BY <1>3
<1> QED BY <1>1, <1>2, <1>4 DEF HalfUp

\* A positive factor keeps the order.
LEMMA ProductsKeepOrder ==
    ASSUME NEW a \in Int, NEW b \in Int, NEW c \in Nat \ {0}
    PROVE  a <= b <=> a * c <= b * c
<1>1. ASSUME a <= b PROVE a * c <= b * c
  <2>1. PICK d \in Nat : b = a + d
    <3>1. b - a \in Nat /\ b = a + (b - a) BY <1>1
    <3> QED BY <3>1
  <2>2. (a + d) * c = a * c + d * c OBVIOUS
  <2>3. d * c >= 0 OBVIOUS
  <2> QED BY <2>1, <2>2, <2>3
<1>2. ASSUME b < a PROVE b * c < a * c
  <2>1. PICK d \in Nat : a = b + 1 + d
    <3>1. a - b - 1 \in Nat /\ a = b + 1 + (a - b - 1) BY <1>2
    <3> QED BY <3>1
  <2>2. (b + 1 + d) * c = b * c + c + d * c OBVIOUS
  <2>3. d * c >= 0 /\ c > 0 OBVIOUS
  <2> QED BY <2>1, <2>2, <2>3
<1>3. a * c \in Int /\ b * c \in Int OBVIOUS
<1> QED BY <1>1, <1>2, <1>3

-------------------------------------------------------------------------------
\* The replay of a trade.

\* A simulated trade leaves at the first mark that reaches its target or its stop.
LEMMA BacktestIsRight ==
    ASSUME NEW p, ValidTrade(p) PROVE BacktestAgrees(p, Simulate(p))
<1> SUFFICES ASSUME p.marks # <<>> PROVE BacktestAgrees(p, Simulate(p)) BY DEF BacktestAgrees
<1>1. PICK N \in Nat : N = Len(p.marks) BY LenProperties DEF ValidTrade
<1>2. N >= 1 /\ DOMAIN p.marks = 1..N /\ \A n \in 1..N : p.marks[n] \in Int
  BY <1>1, LenProperties, EmptySeq, ElementOfSeq DEF ValidTrade
<1>3. PICK target, stop : /\ target = p.entry * (100 + p.slippage) * (100 + p.target)
                          /\ stop = p.entry * (100 + p.slippage) * (100 - p.stop)
  OBVIOUS
<1>4. PICK marks : marks = [n \in DOMAIN p.marks |-> 10000 * p.marks[n]] OBVIOUS
<1>5. marks # <<>> /\ DOMAIN marks = 1..N /\ Len(marks) = N
  <2>1. DOMAIN marks = 1..N BY <1>2, <1>4
  <2>2. marks \in [1..N -> Int] BY <1>2, <1>4
  <2>3. marks \in Seq(Int) /\ Len(marks) = N BY <2>2, LenProperties, SeqDef
  <2>4. Len(<<>>) = 0 OBVIOUS
  <2> QED BY <2>1, <2>3, <2>4, <1>2
<1>6. PICK hits : hits = {n \in DOMAIN marks : marks[n] >= target \/ marks[n] <= stop} OBVIOUS
<1>7. PICK n : n = FirstExit(marks, target, stop) OBVIOUS
<1>8. n \in 1..N /\ (n \in hits \/ (hits = {} /\ n = N)) /\ \A m \in hits : n <= m
  <2>1. CASE hits = {} BY <2>1, <1>2, <1>5, <1>6, <1>7 DEF FirstExit
  <2>2. CASE hits # {}
    <3>1. n = Min(hits) BY <2>2, <1>6, <1>7 DEF FirstExit
    <3>2. hits \subseteq 1..N BY <1>5, <1>6
    <3>3. IsFiniteSet(hits)
      <4>1. IsFiniteSet(1..N) BY <1>1, FS_Interval
      <4> QED BY <3>2, <4>1, FS_Subset
    <3>4. hits \in SUBSET Int BY <3>2
    <3> QED BY <3>1, <3>2, <3>3, <3>4, <2>2, LeastOfSet
  <2> QED BY <2>1, <2>2
<1>9. PICK a : a = Simulate(p) OBVIOUS
<1>10. /\ a.mark = n
       /\ a.reason = IF marks[n] >= target THEN "TARGET" ELSE IF marks[n] <= stop THEN "STOP_LOSS" ELSE "LAST_AVAILABLE"
  BY <1>3, <1>4, <1>5, <1>7, <1>9 DEF Simulate
<1>11. \A k \in 1..N : k \in hits <=> (100 * p.marks[k] * 100 >= target \/ 100 * p.marks[k] * 100 <= stop)
  <2> SUFFICES ASSUME NEW k \in 1..N
               PROVE  k \in hits <=> (100 * p.marks[k] * 100 >= target \/ 100 * p.marks[k] * 100 <= stop)
    OBVIOUS
  <2>1. PICK c \in Int : c = p.marks[k] BY <1>2
  <2>2. 100 * c * 100 = 10000 * c OBVIOUS
  <2> QED BY <2>1, <2>2, <1>2, <1>4, <1>5, <1>6
<1>12. \A k \in 1..(n - 1) : k \in 1..N /\ k \notin hits BY <1>1, <1>8
<1>13. n \in hits <=> a.reason # "LAST_AVAILABLE" BY <1>5, <1>6, <1>8, <1>10
<1>14. a.reason = "LAST_AVAILABLE" => n = N BY <1>8, <1>13
<1> QED BY <1>1, <1>3, <1>8, <1>9, <1>10, <1>11, <1>12, <1>13, <1>14 DEF BacktestAgrees

-------------------------------------------------------------------------------
\* The market calendar.

\* The session is open within the hours of a trading day, whatever zone an instant is
\* written in.
LEMMA CalendarIsRight ==
    ASSUME NEW p, ValidMoment(p) PROVE CalendarAgrees(p, SessionStatus(p))
<1>1. PICK time \in Int : time = Normalized(p) BY DEF ValidMoment, Normalized
<1>2. PICK day \in Int, hour \in 0..23 : day = time \div 24 /\ hour = time % 24 /\ time = 24 * day + hour
  <2>1. time = 24 * (time \div 24) + (time % 24) /\ time \div 24 \in Int /\ time % 24 \in 0..23 OBVIOUS
  <2> QED BY <2>1
<1>3. PICK opens \in 0..23, closes \in 0..23, zone \in -24..24 : opens = p.open /\ closes = p.close /\ zone = p.zone
  BY DEF ValidMoment
<1>4. PICK instant \in Int : instant = (IF p.aware THEN p.wall - p.offset ELSE p.wall - p.zone) /\ instant = time - zone
  BY <1>1, <1>3 DEF ValidMoment, Normalized
<1>5. \A d \in Int : (24 * d + opens - zone <= instant /\ instant <= 24 * d + closes - zone)
                       <=> (d = day /\ opens <= hour /\ hour <= closes)
  <2> SUFFICES ASSUME NEW d \in Int
               PROVE  (24 * d + opens - zone <= instant /\ instant <= 24 * d + closes - zone)
                         <=> (d = day /\ opens <= hour /\ hour <= closes)
    OBVIOUS
  <2>1. (24 * d + opens - zone <= instant /\ instant <= 24 * d + closes - zone)
          <=> (24 * d + opens <= 24 * day + hour /\ 24 * day + hour <= 24 * d + closes)
    BY <1>2, <1>4
  <2>2. d < day => 24 * d + 24 <= 24 * day OBVIOUS
  <2>3. d > day => 24 * day + 24 <= 24 * d OBVIOUS
  <2> QED BY <2>1, <2>2, <2>3
<1>6. PICK around : around = (p.wall \div 24 - 3)..(p.wall \div 24 + 3) OBVIOUS
<1>7. day \in around
  <2>1. PICK wall \in Int : wall = p.wall BY DEF ValidMoment
  <2>2. PICK offset \in -24..24 : offset = p.offset BY DEF ValidMoment
  <2>3. time = wall \/ time = wall - offset + zone BY <2>1, <2>2, <1>1, <1>3 DEF Normalized
  <2>4. PICK w \in Int, r \in 0..23 : w = wall \div 24 /\ wall = 24 * w + r
    <3>1. wall = 24 * (wall \div 24) + (wall % 24) /\ wall \div 24 \in Int /\ wall % 24 \in 0..23 OBVIOUS
    <3> QED BY <3>1
  <2>5. day \in (w - 3)..(w + 3) BY <2>3, <2>4, <1>2
  <2> QED BY <2>1, <2>4, <2>5, <1>6
<1>8. PICK trading : trading = {d \in around : d % 7 < 5} \ p.holidays OBVIOUS
<1>9. (\E d \in trading : 24 * d + opens - zone <= instant /\ instant <= 24 * d + closes - zone)
        <=> (day \in trading /\ opens <= hour /\ hour <= closes)
  <2>1. \A d \in trading : d \in Int
    <3>1. p.wall \div 24 \in Int BY DEF ValidMoment
    <3>2. \A d \in around : d \in Int BY <3>1, <1>6
    <3> QED BY <3>2, <1>8
  <2> QED BY <2>1, <1>5
<1>10. day \in trading <=> (day % 7 < 5 /\ day \notin p.holidays) BY <1>7, <1>8
<1>11. day % 7 \in Int OBVIOUS
<1>12. SessionStatus(p) = "market session open" <=> (day % 7 < 5 /\ day \notin p.holidays /\ opens <= hour /\ hour <= closes)
  <2>1. PICK week \in Int : week = day % 7 BY <1>11
  <2>2. SessionStatus(p) = IF week >= 5 THEN "weekend"
                           ELSE IF day \in p.holidays THEN "exchange holiday"
                           ELSE IF hour < opens THEN "before market open"
                           ELSE IF hour > closes THEN "after market close"
                           ELSE "market session open"
    BY <2>1, <1>1, <1>2, <1>3 DEF SessionStatus
  <2>3. (week >= 5 <=> ~ (week < 5)) /\ (hour < opens <=> ~ (opens <= hour)) /\ (hour > closes <=> ~ (hour <= closes))
    OBVIOUS
  <2> QED BY <2>1, <2>2, <2>3
<1> QED BY <1>3, <1>4, <1>6, <1>8, <1>9, <1>10, <1>12 DEF CalendarAgrees

-------------------------------------------------------------------------------
\* Contract selection.

\* A spread is a number, unknown ones included.
LEMMA SpreadIsInt ==
    ASSUME NEW c, c.bid \in Int, c.ask \in Int PROVE Spread(c) \in Int
<1>1. NoValue \in Int BY DEF NoValue
<1>2. CASE c.bid + c.ask <= 0 BY <1>1, <1>2 DEF Spread
<1>3. CASE c.bid + c.ask > 0
  <2>1. 200 * (c.ask - c.bid) \in Int /\ c.bid + c.ask \in Nat \ {0} BY <1>3
  <2>2. HalfUp(200 * (c.ask - c.bid), c.bid + c.ask) \in Int BY <2>1, HalfUpIsInt
  <2> QED BY <1>1, <2>2 DEF Spread
<1> QED BY <1>2, <1>3

\* Lexicographic order on keys of one length.
Keys(N) == [1..N -> Int]

\* The order in which contracts are preferred is a strict total one.
LEMMA PrecedesIsStrictOrder ==
    ASSUME NEW N \in Nat, NEW s \in Keys(N), NEW t \in Keys(N), NEW u \in Keys(N)
    PROVE  /\ ~ Precedes(s, s)
           /\ Precedes(s, t) /\ Precedes(t, u) => Precedes(s, u)
           /\ s = t \/ Precedes(s, t) \/ Precedes(t, s)
<1>1. DOMAIN s = 1..N /\ DOMAIN t = 1..N /\ DOMAIN u = 1..N BY DEF Keys
<1>2. \A n \in 1..N : s[n] \in Int /\ t[n] \in Int /\ u[n] \in Int BY DEF Keys
<1>3. ~ Precedes(s, s) BY <1>1, <1>2 DEF Precedes
<1>4. ASSUME Precedes(s, t), Precedes(t, u) PROVE Precedes(s, u)
  <2>1. PICK m \in 1..N : s[m] < t[m] /\ \A k \in 1..(m - 1) : s[k] = t[k] BY <1>1, <1>4 DEF Precedes
  <2>2. PICK n \in 1..N : t[n] < u[n] /\ \A k \in 1..(n - 1) : t[k] = u[k] BY <1>1, <1>4 DEF Precedes
  <2>3. CASE m < n
    <3>1. m \in 1..(n - 1) /\ \A k \in 1..(m - 1) : k \in 1..(n - 1) BY <2>3
    <3>2. s[m] < u[m] /\ \A k \in 1..(m - 1) : s[k] = u[k] BY <2>1, <2>2, <3>1
    <3> QED BY <3>2, <1>1 DEF Precedes
  <2>4. CASE m = n
    <3>1. s[m] < u[m] BY <2>1, <2>2, <2>4, <1>2
    <3>2. \A k \in 1..(m - 1) : s[k] = u[k] BY <2>1, <2>2, <2>4
    <3> QED BY <3>1, <3>2, <1>1 DEF Precedes
  <2>5. CASE n < m
    <3>1. n \in 1..(m - 1) /\ \A k \in 1..(n - 1) : k \in 1..(m - 1) BY <2>5
    <3>2. s[n] < u[n] /\ \A k \in 1..(n - 1) : s[k] = u[k] BY <2>1, <2>2, <3>1
    <3> QED BY <3>2, <1>1 DEF Precedes
  <2> QED BY <2>3, <2>4, <2>5
<1>5. ASSUME s # t PROVE Precedes(s, t) \/ Precedes(t, s)
  <2>1. PICK D : D = {n \in 1..N : s[n] # t[n]} OBVIOUS
  <2>2. D # {} BY <1>5, <2>1 DEF Keys
  <2>3. D \in SUBSET Int /\ IsFiniteSet(D)
    <3>1. IsFiniteSet(1..N) BY FS_Interval
    <3>2. D \subseteq 1..N BY <2>1
    <3>3. IsFiniteSet(D) BY <3>1, <3>2, FS_Subset
    <3>4. D \in SUBSET Int BY <3>2
    <3> QED BY <3>3, <3>4
  <2>4. PICK m \in D : \A n \in D : m <= n BY <2>2, <2>3, LeastExists
  <2>5. m \in 1..N /\ s[m] # t[m] BY <2>1
  <2>6. \A k \in 1..(m - 1) : s[k] = t[k]
    <3> SUFFICES ASSUME NEW k \in 1..(m - 1), s[k] # t[k] PROVE FALSE OBVIOUS
    <3>1. k \in 1..N /\ k < m BY <2>5
    <3>2. k \in D BY <3>1, <2>1
    <3> QED BY <2>4, <3>1, <3>2
  <2>7. s[m] < t[m] \/ t[m] < s[m] BY <2>5, <1>2
  <2> QED BY <2>5, <2>6, <2>7, <1>1 DEF Precedes
<1> QED BY <1>3, <1>4, <1>5

\* No eligible contract is nearer to the money than the chosen one.
LEMMA SelectionIsRight ==
    ASSUME NEW p, ValidContracts(p) PROVE SelectionAgrees(p, Choose(p))
<1>1. PICK E : E = {c \in p.contracts : Eligible(c, p)} OBVIOUS
<1>2. CASE E = {} BY <1>1, <1>2 DEF Choose, SelectionAgrees
<1>3. CASE E # {}
  <2>1. ASSUME NEW c \in p.contracts PROVE Preference(c, p) \in Keys(5)
    <3>1. PICK d \in Int : d = Absolute(c.strike - p.spot) BY DEF ValidContracts, Absolute
    <3>2. PICK s \in Int : s = Max({0, Spread(c)})
      <4>1. PICK x \in Int : x = Spread(c) BY SpreadIsInt DEF ValidContracts
      <4>2. Max({0, x}) \in {0, x} BY ExtremesOfTwo
      <4> QED BY <4>1, <4>2
    <3>3. PICK o \in Int, k \in Int, i \in Int : o = -c.oi /\ k = c.strike /\ i = c.id BY DEF ValidContracts
    <3>4. <<d, s, o, k, i>> \in [1..5 -> Int] OBVIOUS
    <3> QED BY <3>1, <3>2, <3>3, <3>4 DEF Preference, Keys
  <2>2. ASSUME NEW c \in p.contracts, NEW d \in p.contracts, Preference(c, p) = Preference(d, p) PROVE c = d
    <3>1. c.id = d.id BY <2>2 DEF Preference
    <3> QED BY <3>1 DEF ValidContracts
  <2>3. PICK before : before = {q \in E \X E : Precedes(Preference(q[1], p), Preference(q[2], p))} OBVIOUS
  <2>4. PICK R : R = {q \in E \X E : <<q[2], q[1]>> \in before} OBVIOUS
  <2>5. \A c, d \in E : (<<c, d>> \in before <=> Precedes(Preference(c, p), Preference(d, p)))
                        /\ (<<c, d>> \in R <=> <<d, c>> \in before)
    BY <2>3, <2>4
  <2>6. \A c \in E : c \in p.contracts BY <1>1
  <2>7. \A c \in E : <<c, c>> \notin R BY <2>1, <2>5, <2>6, PrecedesIsStrictOrder
  <2>8. \A c, d, e \in E : <<c, d>> \in R /\ <<d, e>> \in R => <<c, e>> \in R
    <3> SUFFICES ASSUME NEW c \in E, NEW d \in E, NEW e \in E, <<c, d>> \in R, <<d, e>> \in R PROVE <<c, e>> \in R
      OBVIOUS
    <3>1. Precedes(Preference(e, p), Preference(d, p)) /\ Precedes(Preference(d, p), Preference(c, p)) BY <2>5
    <3>2. Preference(c, p) \in Keys(5) /\ Preference(d, p) \in Keys(5) /\ Preference(e, p) \in Keys(5) BY <2>1, <2>6
    <3>3. Precedes(Preference(e, p), Preference(c, p)) BY <3>1, <3>2, PrecedesIsStrictOrder
    <3> QED BY <3>3, <2>5
  <2>9. IsFiniteSet(E)
    <3>1. IsFiniteSet(p.contracts) /\ E \subseteq p.contracts BY <1>1 DEF ValidContracts
    <3> QED BY <3>1, FS_Subset
  <2>10. PICK m \in E : \A n \in E : <<m, n>> \notin R BY <1>3, <2>7, <2>8, <2>9, ExtremeExists
  <2>11. \A n \in E \ {m} : Precedes(Preference(m, p), Preference(n, p))
    <3> SUFFICES ASSUME NEW n \in E \ {m} PROVE Precedes(Preference(m, p), Preference(n, p)) OBVIOUS
    <3>1. ~ Precedes(Preference(n, p), Preference(m, p)) BY <2>5, <2>10
    <3>2. Preference(m, p) # Preference(n, p) BY <2>2, <2>6
    <3>3. Preference(m, p) \in Keys(5) /\ Preference(n, p) \in Keys(5) BY <2>1, <2>6
    <3> QED BY <3>1, <3>2, <3>3, PrecedesIsStrictOrder
  <2>12. PICK c : c = CHOOSE x \in E : \A y \in E \ {x} : Precedes(Preference(x, p), Preference(y, p)) OBVIOUS
  <2>13. c \in E /\ \A y \in E \ {c} : Precedes(Preference(c, p), Preference(y, p)) BY <2>11, <2>12
  <2>14. Choose(p) = c.id BY <1>1, <1>3, <2>12 DEF Choose, Least
  <2>15. ASSUME NEW d \in E PROVE Absolute(c.strike - p.spot) <= Absolute(d.strike - p.spot)
    <3>1. PICK x \in Int : x = Absolute(c.strike - p.spot) BY <2>6, <2>13 DEF ValidContracts, Absolute
    <3>2. PICK y \in Int : y = Absolute(d.strike - p.spot) BY <2>6 DEF ValidContracts, Absolute
    <3>3. CASE d = c BY <3>1, <3>2, <3>3
    <3>4. CASE d # c
      <4>1. Precedes(Preference(c, p), Preference(d, p)) BY <2>13, <3>4
      <4>2. PICK s, t : s = Preference(c, p) /\ t = Preference(d, p) OBVIOUS
      <4>3. s[1] = x /\ t[1] = y BY <3>1, <3>2, <4>2 DEF Preference
      <4>4. s \in Keys(5) /\ t \in Keys(5) BY <2>1, <2>6, <2>13, <4>2
      <4>5. PICK n \in 1..5 : s[n] < t[n] /\ \A k \in 1..(n - 1) : s[k] = t[k] BY <4>1, <4>2, <4>4 DEF Precedes, Keys
      <4>6. CASE n = 1
        <5>1. s[1] < t[1] BY <4>5, <4>6
        <5>2. x < y BY <5>1, <4>3
        <5>3. x <= y BY <5>2, <3>1, <3>2
        <5> QED BY <5>3, <3>1, <3>2
      <4>7. CASE n # 1
        <5>1. 1 \in 1..(n - 1) BY <4>7
        <5>2. s[1] = t[1] BY <5>1, <4>5
        <5>3. x = y BY <5>2, <4>3
        <5>4. x <= y BY <5>3, <3>1
        <5> QED BY <5>4, <3>1, <3>2
      <4> QED BY <4>6, <4>7
    <3> QED BY <3>3, <3>4
  <2>16. c.id # NoValue BY <2>6, <2>13 DEF ValidContracts, NoValue
  <2> QED BY <1>1, <2>13, <2>14, <2>15, <2>16 DEF SelectionAgrees
<1> QED BY <1>2, <1>3

-------------------------------------------------------------------------------
\* Expiries.

\* The first of some expiries, if there are any.
LEMMA FirstIsLeast ==
    ASSUME NEW S \in SUBSET Nat, IsFiniteSet(S)
    PROVE  /\ S = {} => First(S) = NoValue
           /\ S # {} => First(S) \in S /\ First(S) = Min(S) /\ \A e \in S : First(S) <= e
<1>1. CASE S = {} BY <1>1 DEF First
<1>2. CASE S # {}
  <2>1. S \in SUBSET Int OBVIOUS
  <2> QED BY <2>1, <1>2, LeastOfSet DEF First
<1> QED BY <1>1, <1>2

\* What is available from a day on, in terms of the valid expiries.
LEMMA AvailableFrom ==
    ASSUME NEW p, ValidListing(p), NEW V, V = {e \in ListedExpiries(p) : Validate(p, e)}
    PROVE  /\ V \in SUBSET Nat /\ IsFiniteSet(V)
           /\ \A from \in Int : from >= p.asOf => ListAvailable(p, from) = {e \in V : e >= from}
<1>1. V \in SUBSET Nat BY DEF ValidListing, ListedExpiries
<1>2. IsFiniteSet(V)
  <2>1. PICK C : C = p.contracts OBVIOUS
  <2>2. PICK f : f = [c \in C |-> c.expiry] OBVIOUS
  <2>3. IsFiniteSet({f[c] : c \in C}) BY <2>1, <2>2, RangeIsFinite DEF ValidListing
  <2>4. V \subseteq {f[c] : c \in C} BY <2>1, <2>2 DEF ListedExpiries
  <2> QED BY <2>3, <2>4, FS_Subset
<1>3. ASSUME NEW from \in Int, from >= p.asOf PROVE ListAvailable(p, from) = {e \in V : e >= from}
  <2>1. ASSUME NEW e \in ListAvailable(p, from) PROVE e \in V /\ e >= from
    <3>1. PICK c \in p.contracts : c.active /\ c.type = p.type /\ c.expiry >= from /\ e = c.expiry
      BY DEF ListAvailable
    <3>2. e \in Int /\ p.asOf \in Int BY <3>1 DEF ValidListing
    <3>3. e >= p.asOf BY <1>3, <3>1, <3>2
    <3> QED BY <3>1, <3>3 DEF Validate, IsAvailable, ListedExpiries
  <2>2. ASSUME NEW e \in V, e >= from PROVE e \in ListAvailable(p, from)
    <3>1. PICK c \in p.contracts : c.active /\ c.type = p.type /\ c.expiry = e BY DEF Validate, IsAvailable
    <3> QED BY <3>1, <2>2 DEF ListAvailable
  <2> QED BY <2>1, <2>2
<1> QED BY <1>1, <1>2, <1>3

\* The nearest, the following and the monthly expiries are what their names say.
LEMMA ExpiriesAreRight ==
    ASSUME NEW p, ValidListing(p) PROVE ExpiriesAgree(p, SelectExpiries(p))
<1>1. PICK V : V = {e \in ListedExpiries(p) : Validate(p, e)} OBVIOUS
<1>2. /\ V \in SUBSET Nat /\ IsFiniteSet(V)
      /\ \A from \in Int : from >= p.asOf => ListAvailable(p, from) = {e \in V : e >= from}
  BY <1>1, AvailableFrom
<1>3. p.asOf \in Int /\ p.minimum \in Int /\ p.maximum \in Int /\ p.month \in Nat \ {0} BY DEF ValidListing
<1>4. ListAvailable(p, p.asOf) = V
  <2>1. \A e \in V : e >= p.asOf BY <1>1 DEF Validate
  <2>2. PICK from \in Int : from = p.asOf BY <1>3
  <2>3. ListAvailable(p, from) = {e \in V : e >= from} BY <2>2, <1>2
  <2> QED BY <2>1, <2>2, <2>3
<1>5. \A e \in V : e \in Int /\ e >= p.asOf /\ e # NoValue BY <1>1, <1>2 DEF Validate, NoValue
<1>6. PICK a : a = SelectExpiries(p) OBVIOUS
<1>7. /\ a.valid = V /\ a.nearest = SelectNearest(p) /\ a.monthly = MonthlyExpiries(p)
      /\ a.nearestMonthly = SelectNearestMonthly(p) /\ a.following = [day \in ListedExpiries(p) |-> SelectNext(p, day)]
  BY <1>1, <1>6 DEF SelectExpiries
<1>8. PICK window : window = {e \in V : p.minimum >= 0 /\ e - p.asOf >= p.minimum
                                         /\ (p.maximum # NoValue => e - p.asOf <= p.maximum)}
  OBVIOUS
<1>9. (a.nearest \in window /\ \A e \in window : a.nearest <= e) \/ (a.nearest = NoValue /\ window = {})
  <2>1. CASE WindowRefused(p)
    <3>1. window = {} BY <2>1, <1>3, <1>5, <1>8 DEF WindowRefused
    <3> QED BY <2>1, <3>1, <1>7 DEF SelectNearest
  <2>2. CASE ~ WindowRefused(p)
    <3>1. p.minimum >= 0 BY <2>2, <1>3 DEF WindowRefused
    <3>2. PICK from \in Int : from = p.asOf + p.minimum BY <1>3
    <3>3. from >= p.asOf BY <3>1, <3>2, <1>3
    <3>4. PICK S : S = {e \in ListAvailable(p, from) : p.maximum = NoValue \/ e <= p.asOf + p.maximum} OBVIOUS
    <3>5. ListAvailable(p, from) = {e \in V : e >= from} BY <3>3, <1>2
    <3>6. S = window
      <4>1. \A e \in V : (e >= from <=> e - p.asOf >= p.minimum) /\ (e <= p.asOf + p.maximum <=> e - p.asOf <= p.maximum)
        BY <3>2, <1>3, <1>5
      <4> QED BY <4>1, <3>1, <3>4, <3>5, <1>8
    <3>7. a.nearest = First(S) BY <2>2, <3>2, <3>4, <1>7 DEF SelectNearest
    <3>8. window \subseteq V BY <1>8
    <3>9. window \in SUBSET Nat /\ IsFiniteSet(window)
      <4>1. IsFiniteSet(window) BY <3>8, <1>2, FS_Subset
      <4> QED BY <4>1, <3>8, <1>2
    <3> QED BY <3>6, <3>7, <3>9, FirstIsLeast
  <2> QED BY <2>1, <2>2
<1>10. PICK After : After = [e \in V |-> {f \in V : f > e}] OBVIOUS
<1>11. ASSUME NEW e \in V PROVE a.following[e] = First(After[e]) /\ After[e] \in SUBSET Nat /\ IsFiniteSet(After[e])
  <2>1. e \in ListedExpiries(p) BY <1>1
  <2>2. PICK from \in Int : from = e + 1 BY <1>5
  <2>3. from >= p.asOf BY <2>2, <1>3, <1>5
  <2>4. ListAvailable(p, from) = {f \in V : f >= from} BY <2>3, <1>2
  <2>5. \A f \in V : f >= from <=> f > e BY <2>2, <1>5
  <2>6. ListAvailable(p, from) = After[e] BY <2>4, <2>5, <1>10
  <2>7. After[e] \subseteq V BY <1>10
  <2>8. IsFiniteSet(After[e]) BY <2>7, <1>2, FS_Subset
  <2> QED BY <2>1, <2>2, <2>6, <2>7, <2>8, <1>2, <1>7 DEF SelectNext
<1>12. PICK visited : visited = {a.following[e] : e \in V} \ {NoValue} OBVIOUS
<1>13. visited = V \ (IF V = {} THEN {} ELSE {Min(V)})
  <2>1. CASE V = {} BY <2>1, <1>12
  <2>2. CASE V # {}
    <3>1. PICK least \in V : least = Min(V) /\ \A e \in V : least <= e
      <4>1. V \in SUBSET Int BY <1>2
      <4> QED BY <4>1, <2>2, <1>2, LeastOfSet
    <3>2. ASSUME NEW f \in visited PROVE f \in V \ {least}
      <4>1. PICK e \in V : f = a.following[e] /\ f # NoValue BY <1>12
      <4>2. After[e] # {} BY <4>1, <1>11, FirstIsLeast
      <4>3. f \in After[e] BY <4>1, <4>2, <1>11, FirstIsLeast
      <4>4. f \in V /\ f > e BY <4>3, <1>10
      <4>5. f # least BY <4>4, <3>1, <1>5
      <4> QED BY <4>4, <4>5
    <3>3. ASSUME NEW f \in V \ {least} PROVE f \in visited
      <4>1. PICK B : B = {e \in V : e < f} OBVIOUS
      <4>2. least \in B BY <4>1, <3>1, <1>5
      <4>3. B \subseteq V BY <4>1
      <4>4. IsFiniteSet(B) BY <4>3, <1>2, FS_Subset
      <4>5. B \in SUBSET Int BY <4>3, <1>5
      <4>6. PICK e \in B : \A g \in B : g <= e BY <4>2, <4>4, <4>5, GreatestExists
      <4>7. e \in V /\ e < f BY <4>1
      <4>8. f \in After[e] BY <4>7, <1>5, <1>10
      <4>9. \A g \in After[e] : g >= f
        <5> SUFFICES ASSUME NEW g \in After[e], ~ (g >= f) PROVE FALSE OBVIOUS
        <5>1. g \in V /\ g > e BY <4>7, <1>10
        <5>2. g < f BY <5>1, <1>5
        <5>3. g \in B BY <5>1, <5>2, <4>1
        <5>4. g <= e BY <5>3, <4>6
        <5> QED BY <5>1, <5>4, <4>7, <1>5
      <4>10. PICK h : h = First(After[e]) OBVIOUS
      <4>11. h \in After[e] /\ h <= f BY <4>7, <4>8, <4>10, <1>11, FirstIsLeast
      <4>12. h \in V BY <4>7, <4>11, <1>10
      <4>13. h = f BY <4>9, <4>11, <4>12, <1>5
      <4>14. a.following[e] = f BY <4>7, <4>10, <4>13, <1>11
      <4> QED BY <4>7, <4>14, <1>5, <1>12
    <3>4. visited = V \ {least} BY <3>2, <3>3
    <3> QED BY <3>1, <3>4, <2>2
  <2> QED BY <2>1, <2>2
<1>14. a.monthly = {e \in V : \A f \in V : f \div p.month = e \div p.month => f <= e}
  BY <1>4, <1>7 DEF MonthlyExpiries
<1>15. ASSUME NEW e \in V
       PROVE  Cardinality({m \in a.monthly : m \div p.month = e \div p.month /\ m >= e}) = 1
  <2>1. PICK S : S = {f \in V : f \div p.month = e \div p.month} OBVIOUS
  <2>2. e \in S /\ S \subseteq V BY <2>1
  <2>3. IsFiniteSet(S) BY <2>2, <1>2, FS_Subset
  <2>4. S \in SUBSET Int BY <2>2, <1>5
  <2>5. PICK g \in S : \A f \in S : f <= g BY <2>2, <2>3, <2>4, GreatestExists
  <2>6. g \in V /\ g \div p.month = e \div p.month /\ e <= g BY <2>1, <2>2, <2>5
  <2>7. g \in a.monthly BY <2>1, <2>5, <2>6, <1>14
  <2>8. PICK M : M = {m \in a.monthly : m \div p.month = e \div p.month /\ m >= e} OBVIOUS
  <2>9. g \in M BY <2>6, <2>7, <2>8, <1>5
  <2>10. ASSUME NEW m \in M PROVE m = g
    <3>1. m \in V /\ m \in S BY <2>1, <2>8, <1>14
    <3>2. m <= g BY <3>1, <2>5
    <3>3. g <= m BY <2>6, <2>8, <1>14
    <3> QED BY <3>1, <3>2, <3>3, <2>6, <1>5
  <2>11. M = {g} BY <2>9, <2>10
  <2> QED BY <2>8, <2>11, FS_Singleton
<1>16. a.monthly \subseteq V BY <1>14
<1>17. ASSUME V # {} PROVE a.nearestMonthly = Min(a.monthly) /\ a.nearestMonthly >= Min(V)
  <2>1. IsFiniteSet(a.monthly) BY <1>2, <1>16, FS_Subset
  <2>2. a.monthly # {}
    <3>1. PICK e : e \in V BY <1>17
    <3>2. Cardinality({m \in a.monthly : m \div p.month = e \div p.month /\ m >= e}) = 1 BY <3>1, <1>15
    <3>3. SUFFICES ASSUME a.monthly = {} PROVE FALSE OBVIOUS
    <3>4. {m \in a.monthly : m \div p.month = e \div p.month /\ m >= e} = {} BY <3>3
    <3> QED BY <3>2, <3>4, FS_EmptySet
  <2>3. a.monthly \in SUBSET Nat BY <1>2, <1>16
  <2>4. PICK m : m = First(a.monthly) OBVIOUS
  <2>5. m \in a.monthly /\ m = Min(a.monthly) BY <2>1, <2>2, <2>3, <2>4, FirstIsLeast
  <2>6. V \in SUBSET Int BY <1>2
  <2>7. PICK l \in V : l = Min(V) /\ \A e \in V : l <= e BY <2>6, <1>2, <1>17, LeastOfSet
  <2>8. m >= l BY <2>5, <2>7, <1>5, <1>16
  <2> QED BY <2>4, <2>5, <2>7, <2>8, <1>7 DEF SelectNearestMonthly
<1> QED BY <1>6, <1>7, <1>8, <1>9, <1>12, <1>13, <1>15, <1>16, <1>17 DEF ExpiriesAgree

-------------------------------------------------------------------------------
\* Ranking.

\* The least value is scaled to 0, the greatest to 100.
LEMMA HalfUpOfPercent ==
    ASSUME NEW c \in Nat \ {0} PROVE HalfUp(0, c) = 0 /\ HalfUp(100 * c, c) = 100
<1>1. PICK d \in Nat \ {0} : d = 2 * c OBVIOUS
<1>2. c \div d = 0
  <2>1. 0 <= c /\ c < d BY <1>1
  <2> QED BY <2>1
<1>3. (100 * d + c) \div d = 100
  <2>1. PICK x \in Int : x = 100 * d + c OBVIOUS
  <2>2. d * 100 <= x /\ x < d * 100 + d BY <1>1, <2>1
  <2>3. PICK q \in Int : q = x \div d OBVIOUS
  <2>4. d * q <= x /\ x < d * q + d BY <2>3
  <2>5. ~ (q >= 101)
    <3> SUFFICES ASSUME q >= 101 PROVE FALSE OBVIOUS
    <3>1. PICK r \in Nat : r = q - 101 OBVIOUS
    <3>2. d * q = d * 101 + d * r BY <3>1
    <3>3. d * r >= 0 OBVIOUS
    <3>4. d * q >= d * 101 BY <3>2, <3>3
    <3> QED BY <3>4, <2>2, <2>4
  <2>6. ~ (q <= 99)
    <3> SUFFICES ASSUME q <= 99 PROVE FALSE OBVIOUS
    <3>1. PICK r \in Nat : r = 99 - q OBVIOUS
    <3>2. d * q = d * 99 - d * r BY <3>1
    <3>3. d * r >= 0 OBVIOUS
    <3>4. d * q <= d * 99 BY <3>2, <3>3
    <3> QED BY <3>4, <2>2, <2>4
  <2> QED BY <2>1, <2>3, <2>5, <2>6
<1>4. 2 * 0 + c = c /\ 2 * (100 * c) + c = 100 * d + c BY <1>1
<1> QED BY <1>1, <1>2, <1>3, <1>4 DEF HalfUp

\* A scaled measure lies between 0 and 100 and keeps the order of the values.
Scaled(g, values) ==
    /\ \A n \in DOMAIN values : g[n] \in 0..100
    /\ \A m, n \in DOMAIN values : values[m] <= values[n] => g[m] <= g[n]

\* A measure that is normalized is scaled.
LEMMA NormalizeScales ==
    ASSUME NEW N \in Nat, NEW values \in [1..N -> Int] PROVE Scaled(Normalize(values), values)
<1> SUFFICES ASSUME N # 0 PROVE Scaled(Normalize(values), values)
  <2>1. N = 0 => DOMAIN values = {} OBVIOUS
  <2> QED BY <2>1 DEF Scaled
<1>1. PICK S : S = Range(values) OBVIOUS
<1>2. DOMAIN values = 1..N /\ S = {values[n] : n \in 1..N} BY <1>1 DEF Range
<1>3. S \in SUBSET Int /\ S # {} /\ IsFiniteSet(S)
  <2>1. IsFiniteSet(1..N) BY FS_Interval
  <2>2. values = [n \in 1..N |-> values[n]] OBVIOUS
  <2>3. IsFiniteSet({values[n] : n \in 1..N}) BY <2>1, <2>2, RangeIsFinite
  <2>4. values[1] \in S BY <1>2
  <2> QED BY <1>2, <2>3, <2>4
<1>4. PICK low, high : low = Min(S) /\ high = Max(S) OBVIOUS
<1>5. low \in S /\ high \in S /\ \A v \in S : low <= v /\ v <= high BY <1>3, <1>4, LeastOfSet, GreatestOfSet
<1>6. low \in Int /\ high \in Int BY <1>3, <1>5
<1>7. PICK g : g = [n \in 1..N |-> IF high = low THEN 50 ELSE HalfUp(100 * (values[n] - low), high - low)] OBVIOUS
<1>8. Normalize(values) = g BY <1>1, <1>2, <1>4, <1>7 DEF Normalize
<1>9. CASE high = low
  <2>1. \A n \in 1..N : g[n] = 50 BY <1>7, <1>9
  <2>2. 50 \in 0..100 /\ 50 <= 50 OBVIOUS
  <2>3. \A n \in 1..N : g[n] \in 0..100 BY <2>1, <2>2
  <2>4. \A m, n \in 1..N : g[m] <= g[n] BY <2>1, <2>2
  <2> QED BY <2>3, <2>4, <1>2, <1>8 DEF Scaled
<1>10. CASE high # low
  <2>1. PICK c \in Nat \ {0} : c = high - low
    <3>1. low <= high BY <1>5
    <3>2. high - low \in Nat \ {0} BY <3>1, <1>6, <1>10
    <3> QED BY <3>2
  <2>2. ASSUME NEW m \in 1..N, NEW n \in 1..N, values[m] <= values[n] PROVE g[m] <= g[n]
    <3>1. PICK a \in Int, b \in Int : a = 100 * (values[m] - low) /\ b = 100 * (values[n] - low) BY <1>6
    <3>2. a <= b BY <2>2, <3>1, <1>6
    <3>3. HalfUp(a, c) <= HalfUp(b, c) BY <3>2, HalfUpKeepsOrder
    <3>4. g[m] = HalfUp(a, c) /\ g[n] = HalfUp(b, c) BY <1>7, <1>10, <2>1, <3>1
    <3> QED BY <3>3, <3>4
  <2>3. ASSUME NEW n \in 1..N PROVE g[n] \in 0..100
    <3>1. values[n] \in S BY <1>2
    <3>2. low <= values[n] /\ values[n] <= high /\ values[n] \in Int BY <3>1, <1>5
    <3>3. PICK a \in Int : a = 100 * (values[n] - low) BY <1>6
    <3>4. 0 <= a /\ a <= 100 * c BY <3>2, <3>3, <2>1, <1>6
    <3>5. 100 * c \in Int OBVIOUS
    <3>6. HalfUp(0, c) <= HalfUp(a, c) /\ HalfUp(a, c) <= HalfUp(100 * c, c) BY <3>4, <3>5, HalfUpKeepsOrder
    <3>7. PICK h \in Int : h = HalfUp(a, c) BY HalfUpIsInt
    <3>8. 0 <= h /\ h <= 100 BY <3>6, <3>7, HalfUpOfPercent
    <3>9. g[n] = h BY <1>7, <1>10, <2>1, <3>3, <3>7
    <3>10. h \in 0..100 BY <3>8
    <3> QED BY <3>9, <3>10
  <2> QED BY <2>2, <2>3, <1>2, <1>8 DEF Scaled
<1> QED BY <1>9, <1>10

\* The weights of the measures.
Weighed(w, x, y, z) == 35 * w + 30 * x + 20 * y + 15 * z

\* The weights sum to a hundred and keep the order.
LEMMA WeighingKeepsOrder ==
    ASSUME NEW w \in 0..100, NEW x \in 0..100, NEW y \in 0..100, NEW z \in 0..100
    PROVE  /\ Weighed(w, x, y, z) \in Int /\ 0 <= Weighed(w, x, y, z) /\ Weighed(w, x, y, z) <= 100 * 100
           /\ \A k \in 0..100, l \in 0..100, m \in 0..100, n \in 0..100 :
                 w <= k /\ x <= l /\ y <= m /\ z <= n => Weighed(w, x, y, z) <= Weighed(k, l, m, n)
<1>1. PICK s \in Int : s = 35 * w + 30 * x + 20 * y + 15 * z OBVIOUS
<1>2. 0 <= s /\ s <= 100 * 100 BY <1>1
<1>3. ASSUME NEW k \in 0..100, NEW l \in 0..100, NEW m \in 0..100, NEW n \in 0..100,
             w <= k, x <= l, y <= m, z <= n
      PROVE  35 * w + 30 * x + 20 * y + 15 * z <= 35 * k + 30 * l + 20 * m + 15 * n
  BY <1>3
<1> QED BY <1>1, <1>2, <1>3 DEF Weighed

\* The total of a candidate lies between 0 and 100, and is not below that of one it
\* dominates.
TotalsHold(p, total, N) ==
    /\ total \in [1..N -> 0..100]
    /\ \A m, n \in 1..N : (\A name \in Measures : p.candidates[m][name] <= p.candidates[n][name]) => total[m] <= total[n]

\* A total is the weighed sum of scaled measures.
LEMMA TotalsKeepOrder ==
    ASSUME NEW p, ValidCandidates(p), NEW N \in Nat, N = Len(p.candidates)
    PROVE  TotalsHold(p, Totals(p.candidates), N)
<1>1. PICK cs : cs = p.candidates OBVIOUS
<1>2. DOMAIN cs = 1..N /\ \A n \in 1..N : cs[n] \in [Measures \union {"symbol"} -> Int]
  BY <1>1, LenProperties, ElementOfSeq DEF ValidCandidates
<1>3. ASSUME NEW name \in Measures
      PROVE  /\ \A n \in 1..N : Measure(cs, name)[n] \in 0..100
             /\ \A m, n \in 1..N : cs[m][name] <= cs[n][name] => Measure(cs, name)[m] <= Measure(cs, name)[n]
  <2>1. PICK values : values = [n \in 1..N |-> cs[n][name]] OBVIOUS
  <2>2. \A n \in 1..N : cs[n][name] \in Int BY <1>2
  <2>3. values \in [1..N -> Int] BY <2>1, <2>2
  <2>4. Scaled(Normalize(values), values) BY <2>3, NormalizeScales
  <2>5. Measure(cs, name) = Normalize(values) BY <2>1, <1>2 DEF Measure
  <2>6. DOMAIN values = 1..N /\ \A n \in 1..N : values[n] = cs[n][name] BY <2>1
  <2> QED BY <2>4, <2>5, <2>6 DEF Scaled
<1>4. PICK l, a, v, d : /\ l = Measure(cs, "liquidity") /\ a = Measure(cs, "activity")
                        /\ v = Measure(cs, "volatility") /\ d = Measure(cs, "directional")
  OBVIOUS
<1>5. \A n \in 1..N : l[n] \in 0..100 /\ a[n] \in 0..100 /\ v[n] \in 0..100 /\ d[n] \in 0..100
  BY <1>3, <1>4 DEF Measures
<1>6. PICK total : total = [n \in 1..N |-> HalfUp(Weighed(l[n], a[n], v[n], d[n]), 100)] OBVIOUS
<1>7. Totals(cs) = total BY <1>2, <1>4, <1>6 DEF Totals, Weighed
<1>8. ASSUME NEW n \in 1..N PROVE total[n] \in 0..100
  <2>1. PICK x \in Int : x = Weighed(l[n], a[n], v[n], d[n]) BY <1>5, WeighingKeepsOrder
  <2>2. 0 <= x /\ x <= 100 * 100 BY <2>1, <1>5, WeighingKeepsOrder
  <2>3. HalfUp(0, 100) <= HalfUp(x, 100) /\ HalfUp(x, 100) <= HalfUp(100 * 100, 100) BY <2>2, HalfUpKeepsOrder
  <2>4. HalfUp(0, 100) = 0 /\ HalfUp(100 * 100, 100) = 100 BY HalfUpOfPercent
  <2>5. PICK h \in Int : h = HalfUp(x, 100) BY HalfUpIsInt
  <2>6. total[n] = h BY <1>6, <2>1, <2>5
  <2>7. 0 <= h /\ h <= 100 BY <2>3, <2>4, <2>5
  <2>8. h \in 0..100 BY <2>7
  <2> QED BY <2>6, <2>8
<1>9. ASSUME NEW m \in 1..N, NEW n \in 1..N, \A name \in Measures : cs[m][name] <= cs[n][name] PROVE total[m] <= total[n]
  <2>1. \A name \in Measures : Measure(cs, name)[m] <= Measure(cs, name)[n] BY <1>3, <1>9
  <2>2. l[m] <= l[n] /\ a[m] <= a[n] /\ v[m] <= v[n] /\ d[m] <= d[n] BY <2>1, <1>4 DEF Measures
  <2>3. PICK x \in Int, y \in Int : x = Weighed(l[m], a[m], v[m], d[m]) /\ y = Weighed(l[n], a[n], v[n], d[n])
    BY <1>5, WeighingKeepsOrder
  <2>4. x <= y BY <2>2, <2>3, <1>5, WeighingKeepsOrder
  <2>5. HalfUp(x, 100) <= HalfUp(y, 100) BY <2>4, HalfUpKeepsOrder
  <2> QED BY <2>3, <2>5, <1>6
<1> QED BY <1>1, <1>6, <1>7, <1>8, <1>9 DEF TotalsHold

\* Every candidate has one position, and none is behind one that it dominates.
LEMMA RankingIsRight ==
    ASSUME NEW p, ValidCandidates(p) PROVE RankingAgrees(p, Rank(p))
<1> DEFINE cs == p.candidates
<1> DEFINE total == Totals(cs)
<1>1. cs = p.candidates /\ total = Totals(cs) OBVIOUS
<1> HIDE DEF cs, total
<1>2. PICK N \in Nat : N = Len(cs) BY <1>1, LenProperties DEF ValidCandidates
<1>3. /\ DOMAIN cs = 1..N /\ \A n \in 1..N : cs[n] \in [Measures \union {"symbol"} -> Int]
      /\ \A m, n \in 1..N : cs[m].symbol = cs[n].symbol => m = n
  <2>1. cs \in Seq([Measures \union {"symbol"} -> Int]) BY <1>1 DEF ValidCandidates
  <2>2. DOMAIN cs = 1..N BY <2>1, <1>2, LenProperties
  <2>3. \A n \in 1..N : cs[n] \in [Measures \union {"symbol"} -> Int] BY <2>1, <1>2, ElementOfSeq
  <2> QED BY <1>1, <2>2, <2>3 DEF ValidCandidates
<1>4. \A n \in 1..N : cs[n].symbol \in Int BY <1>3
<1>6. TotalsHold(p, total, N) BY <1>1, <1>2, TotalsKeepOrder
<1>7. /\ \A n \in 1..N : total[n] \in 0..100
      /\ \A n \in 1..N : total[n] \in Int
  <2>1. \A t \in 0..100 : t \in Int OBVIOUS
  <2> QED BY <2>1, <1>6 DEF TotalsHold
<1>8. PICK S : S = 1..N OBVIOUS
<1>9. IsFiniteSet(S) /\ Cardinality(S) = N
  <2>1. IsFiniteSet(1..N) /\ Cardinality(1..N) = IF 1 > N THEN 0 ELSE N - 1 + 1 BY FS_Interval
  <2>2. (IF 1 > N THEN 0 ELSE N - 1 + 1) = N OBVIOUS
  <2> QED BY <1>8, <2>1, <2>2
<1>10. PICK R : R = {q \in S \X S : Outranks(total, cs, q[1], q[2])} OBVIOUS
<1>11. \A m, n \in S : <<m, n>> \in R <=> Outranks(total, cs, m, n) BY <1>10
<1>12. StrictOrder(R, S)
  <2>1. \A x \in S : <<x, x>> \notin R BY <1>4, <1>7, <1>8, <1>11 DEF Outranks
  <2>2. ASSUME NEW x \in S, NEW y \in S, NEW z \in S, Outranks(total, cs, x, y), Outranks(total, cs, y, z)
        PROVE  Outranks(total, cs, x, z)
    <3>1. total[x] \in Int /\ total[y] \in Int /\ total[z] \in Int BY <1>7, <1>8
    <3>2. cs[x].symbol \in Int /\ cs[y].symbol \in Int /\ cs[z].symbol \in Int BY <1>4, <1>8
    <3> QED BY <2>2, <3>1, <3>2 DEF Outranks
  <2>3. ASSUME NEW x \in S, NEW y \in S PROVE x = y \/ Outranks(total, cs, x, y) \/ Outranks(total, cs, y, x)
    <3>1. total[x] \in Int /\ total[y] \in Int BY <1>7, <1>8
    <3>2. cs[x].symbol \in Int /\ cs[y].symbol \in Int BY <1>4, <1>8
    <3>3. cs[x].symbol = cs[y].symbol => x = y BY <1>3, <1>8
    <3> QED BY <3>1, <3>2, <3>3 DEF Outranks
  <2> QED BY <2>1, <2>2, <2>3, <1>11 DEF StrictOrder
<1>13. PICK order : order = [k \in 1..Cardinality(S) |-> CHOOSE x \in S : Cardinality({y \in S : <<y, x>> \in R}) = k - 1]
  OBVIOUS
<1>14. Sorts(order, S, R) BY <1>9, <1>12, <1>13, PlacesSort
<1>15. InOrder(DOMAIN cs, LAMBDA m, n : Outranks(total, cs, m, n)) = order
  <2>1. \A x \in S : {y \in S : <<y, x>> \in R} = {y \in S : Outranks(total, cs, y, x)} BY <1>11
  <2> DEFINE P(x) == {y \in S : <<y, x>> \in R}
  <2> DEFINE Q(x) == {y \in S : Outranks(total, cs, y, x)}
  <2>3. \A x \in S : P(x) = Q(x) BY <2>1
  <2>4. order = [k \in 1..Cardinality(S) |-> CHOOSE x \in S : Cardinality(P(x)) = k - 1] BY <1>13
  <2> HIDE DEF P, Q
  <2>5. order = [k \in 1..Cardinality(S) |-> CHOOSE x \in S : Cardinality(Q(x)) = k - 1] BY <2>3, <2>4
  <2>2. order = [k \in 1..Cardinality(S) |-> CHOOSE x \in S : Cardinality({y \in S : Outranks(total, cs, y, x)}) = k - 1]
    BY <2>5 DEF Q
  <2> QED BY <2>2, <1>3, <1>8 DEF InOrder
<1>16. /\ order \in [1..N -> 1..N] /\ \A n \in 1..N : \E k \in 1..N : order[k] = n
       /\ \A j, k \in 1..N : (order[j] = order[k] => j = k) /\ (j < k => Outranks(total, cs, order[j], order[k]))
  BY <1>8, <1>9, <1>11, <1>14 DEF Sorts
<1>17. PICK a : a = [k \in 1..N |-> [symbol |-> cs[order[k]].symbol, total |-> total[order[k]]]] OBVIOUS
<1>18. Rank(p) = a
  <2>1. DOMAIN order = 1..N BY <1>16
  <2>2. Rank(p) = [position \in DOMAIN order |-> [symbol |-> cs[order[position]].symbol, total |-> total[order[position]]]]
    BY <1>15 DEF Rank, cs, total
  <2> QED BY <2>1, <2>2, <1>17
<1>19. DOMAIN a = 1..N /\ \A k \in 1..N : a[k].symbol = cs[order[k]].symbol /\ a[k].total = total[order[k]] BY <1>17
<1>20. ASSUME NEW n \in 1..N PROVE Cardinality({k \in DOMAIN a : a[k].symbol = cs[n].symbol}) = 1
  <2>1. PICK j \in 1..N : order[j] = n BY <1>16
  <2>2. ASSUME NEW k \in 1..N, cs[order[k]].symbol = cs[n].symbol PROVE k = j
    <3>1. order[k] = n BY <1>3, <1>16, <2>2
    <3> QED BY <3>1, <2>1, <1>16
  <2>3. {k \in DOMAIN a : a[k].symbol = cs[n].symbol} = {j} BY <2>1, <2>2, <1>19
  <2> QED BY <2>3, FS_Singleton
<1>21. \A k \in 1..N : a[k].total \in 0..100 BY <1>7, <1>16, <1>19
<1>22. ASSUME NEW k \in 1..N PROVE (CHOOSE x \in Range(cs) : x.symbol = a[k].symbol) = cs[order[k]]
  <2>1. PICK n \in 1..N : n = order[k] BY <1>16
  <2>2. Range(cs) = {cs[m] : m \in 1..N} BY <1>3 DEF Range
  <2>3. \A x \in Range(cs) : x.symbol = a[k].symbol <=> x = cs[n] BY <2>1, <2>2, <1>3, <1>19
  <2>4. cs[n] \in Range(cs) BY <2>2
  <2> QED BY <2>1, <2>3, <2>4
<1>23. ASSUME NEW m \in 1..N, NEW n \in 1..N,
              \A name \in DOMAIN cs[order[m]] \ {"symbol"} : cs[order[m]][name] <= cs[order[n]][name],
              a[m].total # a[n].total
       PROVE  m > n
  <2>1. PICK x \in 1..N, y \in 1..N : x = order[m] /\ y = order[n] BY <1>16
  <2>2. DOMAIN cs[x] \ {"symbol"} = Measures BY <1>3 DEF Measures
  <2>3. total[x] <= total[y] BY <1>1, <1>6, <1>23, <2>1, <2>2 DEF TotalsHold
  <2>10. total[x] \in Int /\ total[y] \in Int BY <1>7
  <2>4. total[x] \in Int /\ total[y] \in Int /\ total[x] # total[y] BY <2>10, <1>19, <1>23, <2>1
  <2>5. total[x] < total[y] BY <2>3, <2>4
  <2>6. ~ Outranks(total, cs, x, y) BY <2>5, <2>4 DEF Outranks
  <2>7. ~ (m < n) BY <2>6, <2>1, <1>16
  <2>8. m # n BY <2>1, <2>4
  <2> QED BY <2>7, <2>8
<1>24. RankingAgrees(p, a)
  <2>1. ASSUME NEW m \in DOMAIN a, NEW n \in DOMAIN a,
               \A name \in (DOMAIN (CHOOSE x \in Range(cs) : x.symbol = a[m].symbol)) \ {"symbol"} :
                   (CHOOSE x \in Range(cs) : x.symbol = a[m].symbol)[name]
                      <= (CHOOSE x \in Range(cs) : x.symbol = a[n].symbol)[name],
               a[m].total # a[n].total
        PROVE  m > n
    <3>1. m \in 1..N /\ n \in 1..N BY <1>19
    <3>2. \A name \in (DOMAIN cs[order[m]]) \ {"symbol"} : cs[order[m]][name] <= cs[order[n]][name]
      BY <3>1, <2>1, <1>22
    <3> QED BY <3>1, <3>2, <2>1, <1>23
  <2>2. \A n \in DOMAIN cs : Cardinality({k \in DOMAIN a : a[k].symbol = cs[n].symbol}) = 1 BY <1>3, <1>20
  <2>3. \A k \in DOMAIN a : a[k].total \in 0..100 BY <1>19, <1>21
  <2> QED BY <2>1, <2>2, <2>3 DEF RankingAgrees, cs
<1> QED BY <1>18, <1>24

-------------------------------------------------------------------------------
\* Drawdown.

\* What the drawdown service keeps from one trade to the next.
Equity == [equity : Int, peak : Int, fall : Int]
NoEquity == [equity |-> 0, peak |-> 0, fall |-> 0]
DrawdownStep(profits, n, c) ==
    LET equity == c.equity + profits[n]
        peak == Max({c.peak, equity})
    IN  [equity |-> equity, peak |-> peak, fall |-> Max({c.fall, peak - equity})]

\* What is read of a sequence of profits.
LEMMA ProfitsAreTyped ==
    ASSUME NEW profits \in Seq(Int) PROVE Len(profits) \in Nat /\ \A n \in 1..Len(profits) : profits[n] \in Int
BY LenProperties, ElementOfSeq

\* The function that the code folds over the trades, from one trade to the next.
LEMMA DrawdownsIs ==
    ASSUME NEW profits \in Seq(Int)
    PROVE  /\ Drawdowns(profits) \in [0..Len(profits) -> Equity]
           /\ Drawdowns(profits)[0] = NoEquity
           /\ \A n \in 1..Len(profits) : Drawdowns(profits)[n] = DrawdownStep(profits, n, Drawdowns(profits)[n - 1])
<1>1. PICK N \in Nat : N = Len(profits) BY ProfitsAreTyped
<1>2. PICK U, start : U = Equity /\ start = NoEquity OBVIOUS
<1>3. start \in U BY <1>2 DEF Equity, NoEquity
<1>4. ASSUME NEW n \in 1..N, NEW c \in U PROVE DrawdownStep(profits, n, c) \in U
  <2>1. PICK e \in Int : e = c.equity + profits[n] BY <1>1, <1>2, ProfitsAreTyped DEF Equity
  <2>2. c.peak \in Int /\ c.fall \in Int BY <1>2 DEF Equity
  <2>3. PICK t \in Int : t = Max({c.peak, e}) BY <2>2, ExtremesOfTwo
  <2>4. PICK d \in Int : d = t - e OBVIOUS
  <2>5. PICK w \in Int : w = Max({c.fall, d}) BY <2>2, ExtremesOfTwo
  <2>6. DrawdownStep(profits, n, c) = [equity |-> e, peak |-> t, fall |-> w]
    BY <2>1, <2>3, <2>4, <2>5 DEF DrawdownStep
  <2> QED BY <2>6, <1>2 DEF Equity
<1>5. PICK step : step = [q \in (1..N) \X U |-> DrawdownStep(profits, q[1], q[2])] OBVIOUS
<1>6. step \in [(1..N) \X U -> U]
  <2>1. \A q \in (1..N) \X U : DrawdownStep(profits, q[1], q[2]) \in U BY <1>4
  <2> QED BY <1>5, <2>1
<1>7. PICK f \in [0..N -> U] : \A n \in 0..N : f[n] = IF n = 0 THEN start ELSE step[<<n, f[n - 1]>>]
  <2>1. \E f \in [0..N -> U] : Steps(f, N, start, step) BY <1>3, <1>6, RecursionExists
  <2> QED BY <2>1 DEF Steps
<1>8. \A n \in 0..N : f[n] = IF n = 0 THEN start ELSE DrawdownStep(profits, n, f[n - 1])
  <2> SUFFICES ASSUME NEW n \in 0..N, n # 0 PROVE f[n] = DrawdownStep(profits, n, f[n - 1]) BY <1>7
  <2>1. n \in 1..N /\ n - 1 \in 0..N OBVIOUS
  <2>2. <<n, f[n - 1]>> \in (1..N) \X U BY <2>1
  <2>3. step[<<n, f[n - 1]>>] = DrawdownStep(profits, n, f[n - 1]) BY <2>2, <1>5
  <2> QED BY <2>3, <1>7
<1>9. f = [n \in 0..N |-> IF n = 0 THEN start ELSE DrawdownStep(profits, n, f[n - 1])] BY <1>8
<1>10. Drawdowns(profits) = CHOOSE g : g = [n \in 0..N |-> IF n = 0 THEN start ELSE DrawdownStep(profits, n, g[n - 1])]
  BY <1>1, <1>2 DEF Drawdowns, DrawdownStep, NoEquity
<1>11. PICK h : h = Drawdowns(profits) OBVIOUS
<1>12. h = [n \in 0..N |-> IF n = 0 THEN start ELSE DrawdownStep(profits, n, h[n - 1])] BY <1>9, <1>10, <1>11
<1>13. \A n \in 0..N : h[n] = IF n = 0 THEN start ELSE DrawdownStep(profits, n, h[n - 1]) BY <1>12
<1>14. \A n \in 1..N : n \in 0..N /\ n - 1 \in 0..N /\ n # 0 OBVIOUS
<1>15. ASSUME NEW n \in 1..N PROVE h[n] = DrawdownStep(profits, n, h[n - 1]) BY <1>13, <1>14
<1>16. h[0] = start BY <1>13
<1>17. \A n \in 0..N : h[n] \in U
  <2>1. PICK P : P = {n \in 0..N : h[n] \in U} OBVIOUS
  <2>2. 0 \in P BY <2>1, <1>3, <1>16
  <2>3. ASSUME NEW n \in 1..N, n - 1 \in P PROVE n \in P
    <3>1. h[n - 1] \in U BY <2>1, <2>3
    <3>2. h[n] \in U BY <3>1, <1>4, <1>15
    <3> QED BY <3>2, <2>1, <1>14
  <2>4. P \in SUBSET (0..N) BY <2>1
  <2>5. \A n \in 0..N : n \in P BY <2>2, <2>3, <2>4, UpToN
  <2> QED BY <2>1, <2>5
<1>18. h \in [0..N -> U] BY <1>12, <1>17
<1> QED BY <1>1, <1>2, <1>11, <1>15, <1>16, <1>18

\* The running sums of a sequence, as DrawdownAgrees defines them.
SumsOf(profits) ==
    LET sum[n \in 0..Len(profits)] == IF n = 0 THEN 0 ELSE sum[n - 1] + profits[n]
    IN  sum

\* The same for the sums.
LEMMA SumsOfIs ==
    ASSUME NEW profits \in Seq(Int)
    PROVE  /\ SumsOf(profits) \in [0..Len(profits) -> Int]
           /\ SumsOf(profits)[0] = 0
           /\ \A n \in 1..Len(profits) : SumsOf(profits)[n] = SumsOf(profits)[n - 1] + profits[n]
<1>1. PICK N \in Nat : N = Len(profits) BY ProfitsAreTyped
<1>2. PICK U, start : U = Int /\ start = 0 OBVIOUS
<1>3. start \in U BY <1>2
<1>4. ASSUME NEW n \in 1..N, NEW c \in U PROVE c + profits[n] \in U
  <2>1. profits[n] \in Int /\ c \in Int BY <1>1, <1>2, ProfitsAreTyped
  <2> QED BY <2>1, <1>2
<1>5. PICK step : step = [q \in (1..N) \X U |-> q[2] + profits[q[1]]] OBVIOUS
<1>6. step \in [(1..N) \X U -> U]
  <2>1. \A q \in (1..N) \X U : q[2] + profits[q[1]] \in U BY <1>4
  <2> QED BY <1>5, <2>1
<1>7. PICK f \in [0..N -> U] : \A n \in 0..N : f[n] = IF n = 0 THEN start ELSE step[<<n, f[n - 1]>>]
  <2>1. \E f \in [0..N -> U] : Steps(f, N, start, step) BY <1>3, <1>6, RecursionExists
  <2> QED BY <2>1 DEF Steps
<1>8. \A n \in 0..N : f[n] = IF n = 0 THEN start ELSE f[n - 1] + profits[n]
  <2> SUFFICES ASSUME NEW n \in 0..N, n # 0 PROVE f[n] = f[n - 1] + profits[n] BY <1>7
  <2>1. n \in 1..N /\ n - 1 \in 0..N OBVIOUS
  <2>2. <<n, f[n - 1]>> \in (1..N) \X U BY <2>1
  <2>3. step[<<n, f[n - 1]>>] = f[n - 1] + profits[n] BY <2>2, <1>5
  <2> QED BY <2>3, <1>7
<1>9. f = [n \in 0..N |-> IF n = 0 THEN start ELSE f[n - 1] + profits[n]] BY <1>8
<1>10. SumsOf(profits) = CHOOSE g : g = [n \in 0..N |-> IF n = 0 THEN start ELSE g[n - 1] + profits[n]]
  BY <1>1, <1>2 DEF SumsOf
<1>11. PICK h : h = SumsOf(profits) OBVIOUS
<1>12. h = [n \in 0..N |-> IF n = 0 THEN start ELSE h[n - 1] + profits[n]] BY <1>9, <1>10, <1>11
<1>13. \A n \in 0..N : h[n] = IF n = 0 THEN start ELSE h[n - 1] + profits[n] BY <1>12
<1>14. \A n \in 1..N : n \in 0..N /\ n - 1 \in 0..N /\ n # 0 OBVIOUS
<1>15. ASSUME NEW n \in 1..N PROVE h[n] = h[n - 1] + profits[n] BY <1>13, <1>14
<1>16. h[0] = start BY <1>13
<1>17. \A n \in 0..N : h[n] \in U
  <2>1. PICK P : P = {n \in 0..N : h[n] \in U} OBVIOUS
  <2>2. 0 \in P BY <2>1, <1>3, <1>16
  <2>3. ASSUME NEW n \in 1..N, n - 1 \in P PROVE n \in P
    <3>1. h[n - 1] \in U BY <2>1, <2>3
    <3>2. h[n] \in U BY <3>1, <1>4, <1>15
    <3> QED BY <3>2, <2>1, <1>14
  <2>4. P \in SUBSET (0..N) BY <2>1
  <2>5. \A n \in 0..N : n \in P BY <2>2, <2>3, <2>4, UpToN
  <2> QED BY <2>1, <2>5
<1>18. h \in [0..N -> U] BY <1>12, <1>17
<1> QED BY <1>1, <1>2, <1>11, <1>15, <1>16, <1>18

\* After n trades the equity is their sum, the peak the largest sum so far, the fall the
\* largest loss over a stretch of them.
Falls(h, s, n) ==
    /\ h[n].equity = s[n]
    /\ \E i \in 0..n : h[n].peak = s[i]
    /\ \A i \in 0..n : s[i] <= h[n].peak
    /\ \E i \in 0..n : \E j \in 0..n : i <= j /\ h[n].fall = s[i] - s[j]
    /\ \A i \in 0..n : \A j \in 0..n : i <= j => s[i] - s[j] <= h[n].fall

\* By induction on the number of trades.
LEMMA FallsFollow ==
    ASSUME NEW profits \in Seq(Int), NEW h, h = Drawdowns(profits), NEW s, s = SumsOf(profits)
    PROVE  \A n \in 0..Len(profits) : Falls(h, s, n)
<1>1. PICK N \in Nat : N = Len(profits) BY ProfitsAreTyped
<1>2. /\ h \in [0..N -> Equity] /\ h[0] = NoEquity
      /\ \A n \in 1..N : h[n] = DrawdownStep(profits, n, h[n - 1])
  BY <1>1, DrawdownsIs
<1>3. s \in [0..N -> Int] /\ s[0] = 0 /\ \A n \in 1..N : s[n] = s[n - 1] + profits[n] BY <1>1, SumsOfIs
<1>4. PICK P : P = {n \in 0..N : Falls(h, s, n)} OBVIOUS
<1>5. 0 \in P
  <2>1. \A i \in 0..0 : i = 0 OBVIOUS
  <2>2. 0 \in 0..0 /\ 0 <= 0 /\ 0 - 0 = 0 /\ 0 \in 0..N OBVIOUS
  <2>3. h[0].equity = 0 /\ h[0].peak = 0 /\ h[0].fall = 0 BY <1>2 DEF NoEquity
  <2>4. s[0] <= 0 /\ s[0] - s[0] = 0 BY <1>3
  <2> QED BY <2>1, <2>2, <2>3, <2>4, <1>3, <1>4 DEF Falls
<1>6. ASSUME NEW n \in 1..N, n - 1 \in P PROVE n \in P
  <2>1. PICK m \in 0..N : m = n - 1 OBVIOUS
  <2>2. Falls(h, s, m) BY <2>1, <1>4, <1>6
  <2>3. n \in 0..N /\ \A i \in 0..n : i \in 0..N /\ (i \in 0..m \/ i = n) BY <2>1
  <2>4. \A i \in 0..m : i \in 0..n /\ i <= n BY <2>1
  <2>5. PICK e \in Int, t \in Int, f \in Int : h[m] = [equity |-> e, peak |-> t, fall |-> f] BY <1>2 DEF Equity
  <2>6. profits[n] \in Int /\ \A i \in 0..n : s[i] \in Int BY <2>3, <1>1, <1>3, ProfitsAreTyped
  <2>7. PICK x \in Int : x = e + profits[n] BY <2>6
  <2>8. PICK y \in Int : y = Max({t, x}) BY ExtremesOfTwo
  <2>9. PICK d \in Int : d = y - x OBVIOUS
  <2>10. PICK z \in Int : z = Max({f, d}) BY ExtremesOfTwo
  <2>11. h[n] = [equity |-> x, peak |-> y, fall |-> z]
    <3>1. PICK c : c = h[m] OBVIOUS
    <3>2. c.equity = e /\ c.peak = t /\ c.fall = f BY <3>1, <2>5
    <3>3. DrawdownStep(profits, n, c) = [equity |-> x, peak |-> y, fall |-> z]
      BY <3>2, <2>7, <2>8, <2>9, <2>10 DEF DrawdownStep
    <3>4. h[n] = DrawdownStep(profits, n, c) BY <1>2, <2>1, <3>1
    <3> QED BY <3>3, <3>4
  <2>12. /\ e = s[m] /\ (\E i \in 0..m : t = s[i]) /\ (\A i \in 0..m : s[i] <= t)
         /\ (\E i \in 0..m : \E j \in 0..m : i <= j /\ f = s[i] - s[j])
         /\ (\A i \in 0..m : \A j \in 0..m : i <= j => s[i] - s[j] <= f)
    BY <2>2, <2>5 DEF Falls
  <2>13. x = s[n] BY <1>3, <2>1, <2>7, <2>12
  <2>14. (y = t \/ y = x) /\ t <= y /\ x <= y BY <2>8, ExtremesOfTwo
  <2>15. (z = f \/ z = d) /\ f <= z /\ d <= z BY <2>10, ExtremesOfTwo
  <2>16. n \in 0..n /\ n <= n OBVIOUS
  <2>17. \E i \in 0..n : y = s[i] BY <2>4, <2>12, <2>13, <2>14, <2>16
  <2>18. ASSUME NEW i \in 0..n PROVE s[i] <= y
    <3>1. CASE i \in 0..m
      <4>1. s[i] <= t /\ s[i] \in Int BY <3>1, <2>6, <2>12
      <4> QED BY <4>1, <2>14
    <3>2. CASE i = n BY <3>2, <2>13, <2>14
    <3> QED BY <3>1, <3>2, <2>3
  <2>19. \E i \in 0..n : \E j \in 0..n : i <= j /\ z = s[i] - s[j]
    <3>1. CASE z = f BY <3>1, <2>4, <2>12
    <3>2. CASE z = d
      <4>1. PICK i \in 0..n : y = s[i] BY <2>17
      <4>2. i <= n /\ z = s[i] - s[n] BY <4>1, <3>2, <2>9, <2>13
      <4> QED BY <4>2, <2>16
    <3> QED BY <3>1, <3>2, <2>15
  <2>20. ASSUME NEW i \in 0..n, NEW j \in 0..n, i <= j PROVE s[i] - s[j] <= z
    <3>1. PICK a \in Int, b \in Int : a = s[i] /\ b = s[j] BY <2>6
    <3>2. CASE j \in 0..m
      <4>1. i \in 0..m BY <3>2, <2>20
      <4>2. a - b <= f BY <4>1, <3>1, <3>2, <2>12, <2>20
      <4>3. a - b <= z BY <4>2, <2>15
      <4> QED BY <4>3, <3>1
    <3>3. CASE j = n
      <4>1. b = x BY <3>1, <3>3, <2>13
      <4>2. a <= y BY <3>1, <2>18
      <4>3. a - b <= z BY <4>1, <4>2, <2>9, <2>15
      <4> QED BY <4>3, <3>1
    <3> QED BY <3>2, <3>3, <2>3
  <2>21. h[n].equity = x /\ h[n].peak = y /\ h[n].fall = z BY <2>11
  <2>22. Falls(h, s, n) BY <2>13, <2>17, <2>18, <2>19, <2>20, <2>21 DEF Falls
  <2> QED BY <2>3, <2>22, <1>4
<1>7. P \in SUBSET (0..N) BY <1>4
<1>8. \A n \in 0..N : n \in P BY <1>5, <1>6, <1>7, UpToN
<1> QED BY <1>1, <1>4, <1>8

\* The maximum drawdown is the largest loss over a stretch of consecutive trades.
LEMMA DrawdownIsRight ==
    ASSUME NEW profits \in Seq(Int) PROVE DrawdownAgrees(profits, MaximumDrawdown(profits))
<1>1. PICK N \in Nat : N = Len(profits) BY ProfitsAreTyped
<1>2. PICK h, s : h = Drawdowns(profits) /\ s = SumsOf(profits) OBVIOUS
<1>3. Falls(h, s, N)
  <2>1. N \in 0..N OBVIOUS
  <2> QED BY <2>1, <1>1, <1>2, FallsFollow
<1>4. PICK f : f = h[N].fall OBVIOUS
<1>5. h[N] \in Equity /\ \A i \in 0..N : s[i] \in Int
  <2>1. N \in 0..N OBVIOUS
  <2> QED BY <2>1, <1>1, <1>2, DrawdownsIs, SumsOfIs
<1>6. f \in Int BY <1>4, <1>5 DEF Equity
<1>7. PICK later : later = {q \in (0..N) \X (0..N) : q[1] <= q[2]} OBVIOUS
<1>8. PICK S : S = {s[q[1]] - s[q[2]] : q \in later} OBVIOUS
<1>9. f \in S
  <2>1. PICK i \in 0..N, j \in 0..N : i <= j /\ f = s[i] - s[j] BY <1>3, <1>4 DEF Falls
  <2>2. <<i, j>> \in later BY <2>1, <1>7
  <2> QED BY <2>1, <2>2, <1>8
<1>10. ASSUME NEW v \in S PROVE v \in Int /\ f >= v
  <2>1. PICK q \in later : v = s[q[1]] - s[q[2]] BY <1>8
  <2>2. PICK i \in 0..N, j \in 0..N : i <= j /\ i = q[1] /\ j = q[2] BY <1>7
  <2>3. PICK a \in Int, b \in Int : a = s[i] /\ b = s[j] BY <1>5
  <2>4. v = a - b BY <2>1, <2>2, <2>3
  <2>5. a - b <= f BY <2>2, <2>3, <1>3, <1>4 DEF Falls
  <2> QED BY <2>4, <2>5, <1>6
<1>11. f = Max(S)
  <2>1. PICK m : m = Max(S) OBVIOUS
  <2>2. m \in S /\ \A v \in S : m >= v BY <2>1, <1>9, <1>10 DEF Max
  <2>3. m >= f /\ f >= m /\ m \in Int BY <2>2, <1>9, <1>10
  <2> QED BY <2>1, <2>3, <1>6
<1>12. MaximumDrawdown(profits) = f BY <1>1, <1>2, <1>4 DEF MaximumDrawdown
<1>13. f = Max({SumsOf(profits)[q[1]] - SumsOf(profits)[q[2]] : q \in {r \in (0..Len(profits)) \X (0..Len(profits)) : r[1] <= r[2]}})
  BY <1>1, <1>2, <1>7, <1>8, <1>11
<1> QED BY <1>12, <1>13 DEF DrawdownAgrees, SumsOf

-------------------------------------------------------------------------------
\* Calibration.

\* Wins out of a positive number of rows.
Rate == Nat \X (Nat \ {0})

\* Rates are compared by crosswise products, which is transitive for positive sizes.
LEMMA RatesCompare ==
    ASSUME NEW a \in Rate, NEW b \in Rate, NEW c \in Rate
    PROVE  /\ ~ LowerRate(a, a)
           /\ LowerRate(a, b) => ~ LowerRate(b, a)
           /\ ~ LowerRate(a, b) /\ ~ LowerRate(b, c) => ~ LowerRate(a, c)
<1>1. PICK a1 \in Nat, a2 \in Nat \ {0} : a = <<a1, a2>> BY DEF Rate
<1>2. PICK b1 \in Nat, b2 \in Nat \ {0} : b = <<b1, b2>> BY DEF Rate
<1>3. PICK c1 \in Nat, c2 \in Nat \ {0} : c = <<c1, c2>> BY DEF Rate
<1>4. /\ LowerRate(a, a) <=> a1 * a2 < a1 * a2
      /\ LowerRate(a, b) <=> a1 * b2 < b1 * a2
      /\ LowerRate(b, a) <=> b1 * a2 < a1 * b2
      /\ LowerRate(b, c) <=> b1 * c2 < c1 * b2
      /\ LowerRate(a, c) <=> a1 * c2 < c1 * a2
  BY <1>1, <1>2, <1>3 DEF LowerRate
<1>5. PICK ab \in Int, ba \in Int, bc \in Int, cb \in Int, ac \in Int, ca \in Int :
        ab = a1 * b2 /\ ba = b1 * a2 /\ bc = b1 * c2 /\ cb = c1 * b2 /\ ac = a1 * c2 /\ ca = c1 * a2
  OBVIOUS
<1>6. ASSUME ab >= ba, bc >= cb PROVE ac >= ca
  <2>1. ba * c2 <= ab * c2 BY <1>6, ProductsKeepOrder
  <2>2. cb * a2 <= bc * a2 BY <1>6, ProductsKeepOrder
  <2>3. ba * c2 = bc * a2
    <3>1. (b1 * a2) * c2 = (b1 * c2) * a2 OBVIOUS
    <3> QED BY <3>1, <1>5
  <2>4. cb * a2 = ca * b2
    <3>1. (c1 * b2) * a2 = (c1 * a2) * b2 OBVIOUS
    <3> QED BY <3>1, <1>5
  <2>5. ab * c2 = ac * b2
    <3>1. (a1 * b2) * c2 = (a1 * c2) * b2 OBVIOUS
    <3> QED BY <3>1, <1>5
  <2>6. ca * b2 \in Int /\ ac * b2 \in Int /\ bc * a2 \in Int OBVIOUS
  <2>7. ca * b2 <= ac * b2 BY <2>1, <2>2, <2>3, <2>4, <2>5, <2>6
  <2>8. ca <= ac BY <2>7, ProductsKeepOrder
  <2> QED BY <2>8
<1> QED BY <1>4, <1>5, <1>6

\* The rate of a bin from that of the bins before it.
RateStep(p, n, c) ==
    IF Empty(n, p) \/ (p.monotonic /\ LowerRate(Observed(n, p), c)) THEN c ELSE Observed(n, p)

\* A bin with rows has a rate.
LEMMA ObservedIsRate ==
    ASSUME NEW p, ValidSample(p), NEW n, ~ Empty(n, p) PROVE Observed(n, p) \in Rate
<1>1. PICK R : R = {r \in p.rows : BinOf(r.score, p) = n} OBVIOUS
<1>2. PICK W : W = {r \in R : r.win} OBVIOUS
<1>3. IsFiniteSet(p.rows) BY DEF ValidSample
<1>4. IsFiniteSet(R) BY <1>1, <1>3, FS_Subset
<1>5. IsFiniteSet(W) BY <1>2, <1>4, FS_Subset
<1>6. Cardinality(R) \in Nat /\ Cardinality(W) \in Nat BY <1>4, <1>5, FS_CardinalityType
<1>7. Observed(n, p) = <<Cardinality(W), Cardinality(R)>> BY <1>1, <1>2 DEF Observed
<1>8. Cardinality(R) # 0 BY <1>7 DEF Empty
<1> QED BY <1>6, <1>7, <1>8 DEF Rate

\* The pooled rates, from one bin to the next.
LEMMA RatesUpToIs ==
    ASSUME NEW p, ValidSample(p)
    PROVE  /\ RatesUpTo(p) \in [0..p.bins -> Rate]
           /\ RatesUpTo(p)[0] = <<0, 1>>
           /\ \A n \in 1..p.bins : RatesUpTo(p)[n] = RateStep(p, n, RatesUpTo(p)[n - 1])
<1>1. PICK N \in Nat : N = p.bins BY DEF ValidSample
<1>2. PICK U, start : U = Rate /\ start = <<0, 1>> OBVIOUS
<1>3. start \in U BY <1>2 DEF Rate
<1>4. ASSUME NEW n \in 1..N, NEW c \in U PROVE RateStep(p, n, c) \in U
  BY <1>2, ObservedIsRate DEF RateStep
<1>5. PICK step : step = [q \in (1..N) \X U |-> RateStep(p, q[1], q[2])] OBVIOUS
<1>6. step \in [(1..N) \X U -> U]
  <2>1. \A q \in (1..N) \X U : RateStep(p, q[1], q[2]) \in U BY <1>4
  <2> QED BY <1>5, <2>1
<1>7. PICK f \in [0..N -> U] : \A n \in 0..N : f[n] = IF n = 0 THEN start ELSE step[<<n, f[n - 1]>>]
  <2>1. \E f \in [0..N -> U] : Steps(f, N, start, step) BY <1>3, <1>6, RecursionExists
  <2> QED BY <2>1 DEF Steps
<1>8. \A n \in 0..N : f[n] = IF n = 0 THEN start ELSE RateStep(p, n, f[n - 1])
  <2> SUFFICES ASSUME NEW n \in 0..N, n # 0 PROVE f[n] = RateStep(p, n, f[n - 1]) BY <1>7
  <2>1. n \in 1..N /\ n - 1 \in 0..N OBVIOUS
  <2>2. <<n, f[n - 1]>> \in (1..N) \X U BY <2>1
  <2>3. step[<<n, f[n - 1]>>] = RateStep(p, n, f[n - 1]) BY <2>2, <1>5
  <2> QED BY <2>3, <1>7
<1>9. f = [n \in 0..N |-> IF n = 0 THEN start ELSE RateStep(p, n, f[n - 1])] BY <1>8
<1>10. RatesUpTo(p) = CHOOSE g : g = [n \in 0..N |-> IF n = 0 THEN start ELSE RateStep(p, n, g[n - 1])]
  BY <1>1, <1>2 DEF RatesUpTo, RateStep
<1>11. PICK h : h = RatesUpTo(p) OBVIOUS
<1>12. h = [n \in 0..N |-> IF n = 0 THEN start ELSE RateStep(p, n, h[n - 1])] BY <1>9, <1>10, <1>11
<1>13. \A n \in 0..N : h[n] = IF n = 0 THEN start ELSE RateStep(p, n, h[n - 1]) BY <1>12
<1>14. \A n \in 1..N : n \in 0..N /\ n - 1 \in 0..N /\ n # 0 OBVIOUS
<1>15. ASSUME NEW n \in 1..N PROVE h[n] = RateStep(p, n, h[n - 1]) BY <1>13, <1>14
<1>16. h[0] = start BY <1>13
<1>17. \A n \in 0..N : h[n] \in U
  <2>1. PICK P : P = {n \in 0..N : h[n] \in U} OBVIOUS
  <2>2. 0 \in P BY <2>1, <1>3, <1>16
  <2>3. ASSUME NEW n \in 1..N, n - 1 \in P PROVE n \in P
    <3>1. h[n - 1] \in U BY <2>1, <2>3
    <3>2. h[n] \in U BY <3>1, <1>4, <1>15
    <3> QED BY <3>2, <2>1, <1>14
  <2>4. P \in SUBSET (0..N) BY <2>1
  <2>5. \A n \in 0..N : n \in P BY <2>2, <2>3, <2>4, UpToN
  <2> QED BY <2>1, <2>5
<1>18. h \in [0..N -> U] BY <1>12, <1>17
<1> QED BY <1>1, <1>2, <1>11, <1>15, <1>16, <1>18

\* The bin of a score: it ends at or after the score, and those that end before it come
\* before.
LEMMA BinHoldsScore ==
    ASSUME NEW p, ValidSample(p), NEW score \in 0..p.scale
    PROVE  /\ BinOf(score, p) \in 1..p.bins
           /\ score * p.bins <= BinOf(score, p) * p.scale
           /\ \A n \in 1..p.bins : n * p.scale < score * p.bins => n < BinOf(score, p)
<1>1. PICK bins \in Nat \ {0}, scale \in Nat \ {0} : bins = p.bins /\ scale = p.scale BY DEF ValidSample
<1>2. score \in Nat /\ score <= scale BY <1>1
<1>3. PICK x \in Nat : x = score * bins BY <1>2
<1>4. PICK q \in Int : q = x \div scale OBVIOUS
<1>5. scale * q <= x /\ x < scale * q + scale BY <1>4
<1>6. x < (q + 1) * scale
  <2>1. (q + 1) * scale = scale * q + scale OBVIOUS
  <2> QED BY <2>1, <1>5
<1>7. q + 1 > 0
  <2>1. 0 * scale < (q + 1) * scale BY <1>6
  <2>2. ~ ((q + 1) * scale <= 0 * scale) BY <2>1
  <2>3. ~ (q + 1 <= 0) BY <2>2, ProductsKeepOrder
  <2> QED BY <2>3
<1>8. x <= bins * scale
  <2>1. score * bins <= scale * bins BY <1>2, ProductsKeepOrder
  <2> QED BY <2>1, <1>3
<1>9. PICK b : b = Min({bins, q + 1}) OBVIOUS
<1>10. b \in {bins, q + 1} /\ b <= bins /\ b <= q + 1
  <2>1. PICK S : S = {bins, q + 1} OBVIOUS
  <2>2. IsFiniteSet({bins}) BY FS_Singleton
  <2>3. IsFiniteSet({bins} \union {q + 1}) BY <2>2, FS_AddElement
  <2>4. S = {bins} \union {q + 1} BY <2>1
  <2>5. S \in SUBSET Int /\ S # {} /\ IsFiniteSet(S) BY <2>1, <2>3, <2>4
  <2>6. Min(S) \in S /\ \A n \in S : Min(S) <= n BY <2>5, LeastOfSet
  <2> QED BY <2>1, <2>6, <1>9
<1>11. b \in 1..bins BY <1>7, <1>10
<1>12. x <= b * scale
  <2>1. CASE b = bins BY <2>1, <1>8
  <2>2. CASE b = q + 1 BY <2>2, <1>6
  <2> QED BY <2>1, <2>2, <1>10
<1>13. ASSUME NEW n \in 1..bins, n * scale < x PROVE n < b
  <2>1. CASE b = bins
    <3>1. ~ (bins * scale <= n * scale) BY <1>8, <1>13
    <3>2. ~ (bins <= n) BY <3>1, ProductsKeepOrder
    <3> QED BY <3>2, <2>1
  <2>2. CASE b = q + 1
    <3>1. ~ ((q + 1) * scale <= n * scale) BY <1>6, <1>13
    <3>2. ~ (q + 1 <= n) BY <3>1, ProductsKeepOrder
    <3> QED BY <3>2, <2>2
  <2> QED BY <2>1, <2>2, <1>10
<1>14. BinOf(score, p) = b BY <1>1, <1>3, <1>4, <1>9 DEF BinOf
<1> QED BY <1>1, <1>3, <1>11, <1>12, <1>13, <1>14

\* The rates observed in the bins up to one of them.
RatesOf(p, n) == {Observed(m, p) : m \in {b \in 1..n : Observed(b, p)[2] > 0}}

\* The highest of them, or the start when there is none.
Highest(p, rate, n) ==
    \/ rate = <<0, 1>> /\ RatesOf(p, n) = {}
    \/ rate \in RatesOf(p, n) /\ \A r \in RatesOf(p, n) : ~ LowerRate(rate, r)

\* A bin with rows has a positive count.
LEMMA FilledIsCounted ==
    ASSUME NEW p, ValidSample(p), NEW n
    PROVE  Observed(n, p)[2] > 0 <=> ~ Empty(n, p)
<1>1. CASE Empty(n, p) BY <1>1 DEF Empty
<1>2. CASE ~ Empty(n, p)
  <2>1. PICK o \in Rate : o = Observed(n, p) BY <1>2, ObservedIsRate
  <2>2. o[2] > 0 BY DEF Rate
  <2> QED BY <1>2, <2>1, <2>2
<1> QED BY <1>1, <1>2

\* The pooled rate of a bin is the highest one up to it, when the method is monotonic.
LEMMA PooledIsHighest ==
    ASSUME NEW p, ValidSample(p), p.monotonic
    PROVE  \A n \in 0..p.bins : Highest(p, RatesUpTo(p)[n], n)
<1>1. PICK N \in Nat : N = p.bins BY DEF ValidSample
<1>2. PICK rate : rate = RatesUpTo(p) OBVIOUS
<1>3. rate \in [0..N -> Rate] /\ rate[0] = <<0, 1>> /\ \A n \in 1..N : rate[n] = RateStep(p, n, rate[n - 1])
  BY <1>1, <1>2, RatesUpToIs
<1>4. PICK P : P = {n \in 0..N : Highest(p, rate[n], n)} OBVIOUS
<1>5. 0 \in P
  <2>1. RatesOf(p, 0) = {} BY DEF RatesOf
  <2> QED BY <2>1, <1>3, <1>4 DEF Highest
<1>6. ASSUME NEW n \in 1..N, n - 1 \in P PROVE n \in P
  <2>1. PICK m \in 0..N : m = n - 1 OBVIOUS
  <2>2. PICK c \in Rate : c = rate[m] BY <1>3
  <2>3. Highest(p, c, m) /\ rate[n] = RateStep(p, n, c) /\ n \in 0..N BY <2>1, <2>2, <1>3, <1>4, <1>6
  <2>4. PICK A, B : A = RatesOf(p, m) /\ B = RatesOf(p, n) OBVIOUS
  <2>5. \A b \in 1..n : b \in 1..m \/ b = n BY <2>1
  <2>6. \A b \in 1..m : b \in 1..n BY <2>1
  <2>7. n \in 1..n OBVIOUS
  <2>8. \A r \in A : r \in Rate
    <3>1. \A b \in 1..m : Observed(b, p)[2] > 0 => Observed(b, p) \in Rate BY FilledIsCounted, ObservedIsRate
    <3> QED BY <3>1, <2>4 DEF RatesOf
  <2>9. CASE Empty(n, p)
    <3>1. ~ (Observed(n, p)[2] > 0) BY <2>9, FilledIsCounted
    <3>2. A = B BY <3>1, <2>4, <2>5, <2>6 DEF RatesOf
    <3>3. rate[n] = c BY <2>3, <2>9 DEF RateStep
    <3> QED BY <3>2, <3>3, <2>3, <2>4, <1>4 DEF Highest
  <2>10. CASE ~ Empty(n, p)
    <3>1. PICK o \in Rate : o = Observed(n, p) BY <2>10, ObservedIsRate
    <3>2. Observed(n, p)[2] > 0 BY <2>10, FilledIsCounted
    <3>3. \A r : r \in B <=> r \in A \/ r = o BY <3>1, <3>2, <2>4, <2>5, <2>6, <2>7 DEF RatesOf
    <3>4. CASE LowerRate(o, c)
      <4>1. rate[n] = c BY <3>1, <3>4, <2>3 DEF RateStep
      <4>2. ~ LowerRate(c, o) BY <3>4, RatesCompare
      <4>3. c # <<0, 1>>
        <5> SUFFICES ASSUME c = <<0, 1>> PROVE FALSE OBVIOUS
        <5>1. PICK o1 \in Nat, o2 \in Nat \ {0} : o = <<o1, o2>> BY DEF Rate
        <5>2. o1 * 1 < 0 * o2 BY <5>1, <3>4 DEF LowerRate
        <5> QED BY <5>2
      <4>4. c \in A /\ \A r \in A : ~ LowerRate(c, r) BY <4>3, <2>3, <2>4 DEF Highest
      <4>5. c \in B /\ \A r \in B : ~ LowerRate(c, r) BY <4>2, <4>4, <3>3
      <4> QED BY <4>1, <4>5, <2>3, <2>4, <1>4 DEF Highest
    <3>5. CASE ~ LowerRate(o, c)
      <4>1. rate[n] = o BY <3>1, <3>5, <2>3, <2>10 DEF RateStep
      <4>2. ASSUME NEW r \in A PROVE ~ LowerRate(o, r)
        <5>1. ~ LowerRate(c, r) BY <4>2, <2>3, <2>4 DEF Highest
        <5>2. r \in Rate BY <2>8
        <5> QED BY <5>1, <5>2, <3>5, RatesCompare
      <4>3. ~ LowerRate(o, o) BY RatesCompare
      <4>4. o \in B /\ \A r \in B : ~ LowerRate(o, r) BY <4>2, <4>3, <3>3
      <4> QED BY <4>1, <4>4, <2>3, <2>4, <1>4 DEF Highest
    <3> QED BY <3>4, <3>5
  <2> QED BY <2>9, <2>10
<1>7. P \in SUBSET (0..N) BY <1>4
<1>8. \A n \in 0..N : n \in P BY <1>5, <1>6, <1>7, UpToN
<1> QED BY <1>1, <1>2, <1>4, <1>8

\* A prediction is the rate of the first filled bin that ends at or after the score, or
\* none when the last bin is empty and no such bin is filled.
Reached(p, score) == {n \in 1..p.bins : score * p.bins <= n * p.scale /\ ~ Empty(n, p)}

LEMMA PredictionIsRate ==
    ASSUME NEW p, ValidSample(p), NEW score \in 0..p.scale
    PROVE  \/ Reached(p, score) = {} /\ Predict(score, p) = <<>>
           \/ \E n \in Reached(p, score) : /\ Predict(score, p) = RatesUpTo(p)[n]
                                           /\ \A m \in Reached(p, score) : n <= m
<1>1. PICK N \in Nat \ {0} : N = p.bins BY DEF ValidSample
<1>2. PICK rate : rate = RatesUpTo(p) OBVIOUS
<1>3. \A n \in 1..N : rate[n] \in Rate
  <2>1. rate \in [0..N -> Rate] BY <1>1, <1>2, RatesUpToIs
  <2>2. \A n \in 1..N : n \in 0..N OBVIOUS
  <2> QED BY <2>1, <2>2
<1>4. \A r \in Rate : r # <<>>
  <2> SUFFICES ASSUME NEW r \in Rate, r = <<>> PROVE FALSE OBVIOUS
  <2>1. PICK a \in Nat, b \in Nat \ {0} : r = <<a, b>> BY DEF Rate
  <2>2. Len(<<a, b>>) = 2 /\ Len(<<>>) = 0 OBVIOUS
  <2> QED BY <2>1, <2>2
<1>5. PICK bins : bins = [n \in 1..N |-> IF Empty(n, p) THEN <<>> ELSE rate[n]] OBVIOUS
<1>6. ReliabilityBins(p) = bins BY <1>1, <1>2, <1>5 DEF ReliabilityBins
<1>7. \A n \in 1..N : (bins[n] # <<>> <=> ~ Empty(n, p)) /\ (~ Empty(n, p) => bins[n] = rate[n])
  BY <1>3, <1>4, <1>5
<1>8. PICK S : S = Reached(p, score) OBVIOUS
<1>9. S = {n \in 1..p.bins : score * p.bins <= n * p.scale /\ bins[n] # <<>>} BY <1>1, <1>7, <1>8 DEF Reached
<1>10. Predict(score, p) = IF S = {} THEN bins[N] ELSE bins[Min(S)] BY <1>1, <1>6, <1>9 DEF Predict
<1>11. S \subseteq 1..N BY <1>1, <1>8 DEF Reached
<1>12. CASE S = {}
  <2>1. PICK scale \in Nat \ {0} : scale = p.scale BY DEF ValidSample
  <2>2. score \in Int /\ score <= scale BY <2>1
  <2>3. score * N <= scale * N BY <2>2, ProductsKeepOrder
  <2>4. score * p.bins <= N * p.scale
    <3>1. scale * N = N * scale OBVIOUS
    <3> QED BY <3>1, <2>1, <2>3, <1>1
  <2>5. N \in 1..p.bins BY <1>1
  <2>6. Empty(N, p) BY <2>4, <2>5, <1>8, <1>12 DEF Reached
  <2>7. bins[N] = <<>> BY <2>6, <1>5
  <2> QED BY <2>7, <1>8, <1>10, <1>12
<1>13. CASE S # {}
  <2>1. IsFiniteSet(1..N) BY FS_Interval
  <2>7. S \in SUBSET Int BY <1>11
  <2>8. IsFiniteSet(S) BY <2>1, <1>11, FS_Subset
  <2>2. IsFiniteSet(S) /\ S \in SUBSET Int BY <2>7, <2>8
  <2>3. PICK n : n = Min(S) OBVIOUS
  <2>4. n \in S /\ \A m \in S : n <= m BY <2>2, <2>3, <1>13, LeastOfSet
  <2>5. bins[n] = rate[n] BY <2>4, <1>7, <1>8, <1>11 DEF Reached
  <2>6. Predict(score, p) = rate[n] BY <2>3, <2>5, <1>10, <1>13
  <2> QED BY <2>4, <2>6, <1>2, <1>8
<1> QED BY <1>12, <1>13

\* A prediction is an observed rate, a higher score is not predicted lower, and every row
\* fitted has one.
LEMMA CalibrationIsRight ==
    ASSUME NEW p, ValidSample(p) PROVE CalibrationAgrees(p, Calibrate(p))
<1>1. PICK a : a = Calibrate(p) OBVIOUS
<1>2. /\ DOMAIN a = 0..p.scale
      /\ \A s \in 0..p.scale : a[s] = Predict(s, p)
  BY <1>1 DEF Calibrate
<1>3. \A r \in Rate : r # <<>>
  <2> SUFFICES ASSUME NEW r \in Rate, r = <<>> PROVE FALSE OBVIOUS
  <2>1. PICK x \in Nat, y \in Nat \ {0} : r = <<x, y>> BY DEF Rate
  <2>2. Len(<<x, y>>) = 2 /\ Len(<<>>) = 0 OBVIOUS
  <2> QED BY <2>1, <2>2
<1>4. \A n \in 1..p.bins : RatesUpTo(p)[n] \in Rate
  <2>1. PICK N \in Nat : N = p.bins BY DEF ValidSample
  <2>2. RatesUpTo(p) \in [0..N -> Rate] BY <2>1, RatesUpToIs
  <2>3. \A n \in 1..N : n \in 0..N OBVIOUS
  <2> QED BY <2>1, <2>2, <2>3
<1>5. ASSUME NEW s \in 0..p.scale PROVE a[s] = <<>> <=> Reached(p, s) = {}
  <2>1. \A n \in Reached(p, s) : RatesUpTo(p)[n] # <<>> BY <1>3, <1>4 DEF Reached
  <2> QED BY <2>1, <1>2, PredictionIsRate
<1>6. ASSUME NEW r \in p.rows
      PROVE  /\ r.score \in 0..p.scale /\ BinOf(r.score, p) \in 1..p.bins /\ ~ Empty(BinOf(r.score, p), p)
             /\ r.score * p.bins <= BinOf(r.score, p) * p.scale
  <2>1. r.score \in 0..p.scale BY DEF ValidSample
  <2>2. PICK n : n = BinOf(r.score, p) OBVIOUS
  <2>3. n \in 1..p.bins /\ r.score * p.bins <= n * p.scale BY <2>1, <2>2, BinHoldsScore
  <2>4. ~ Empty(n, p)
    <3>1. PICK R : R = {x \in p.rows : BinOf(x.score, p) = n} OBVIOUS
    <3>2. r \in R BY <2>2, <3>1
    <3>3. IsFiniteSet(R) BY <3>1, FS_Subset DEF ValidSample
    <3>4. Cardinality(R) # 0 BY <3>2, <3>3, FS_EmptySet
    <3>5. Observed(n, p)[2] = Cardinality(R) BY <3>1 DEF Observed
    <3> QED BY <3>4, <3>5 DEF Empty
  <2> QED BY <2>1, <2>2, <2>3, <2>4
<1>7. ASSUME NEW s \in {r.score : r \in p.rows} PROVE a[s] # <<>>
  <2>1. PICK r \in p.rows : s = r.score OBVIOUS
  <2>2. s \in 0..p.scale /\ BinOf(s, p) \in Reached(p, s) BY <2>1, <1>6 DEF Reached
  <2> QED BY <2>2, <1>5
<1>8. ASSUME NEW s \in DOMAIN a, a[s] = <<>>, NEW r \in p.rows PROVE BinOf(r.score, p) < BinOf(s, p)
  <2>1. s \in 0..p.scale /\ Reached(p, s) = {} BY <1>2, <1>5, <1>8
  <2>2. PICK n \in 1..p.bins : n = BinOf(r.score, p) BY <1>6
  <2>3. ~ Empty(n, p) BY <2>2, <1>6
  <2>4. ~ (s * p.bins <= n * p.scale) BY <2>1, <2>3 DEF Reached
  <2>9. s \in Int /\ n \in Int /\ p.bins \in Int /\ p.scale \in Int
    <3>1. PICK bins \in Nat \ {0}, scale \in Nat \ {0} : bins = p.bins /\ scale = p.scale BY DEF ValidSample
    <3>2. s \in 0..scale /\ n \in 1..bins BY <2>1, <3>1
    <3> QED BY <3>1, <3>2
  <2>5. PICK x \in Int, y \in Int : x = s * p.bins /\ y = n * p.scale BY <2>9
  <2>6. y < x BY <2>4, <2>5
  <2>7. n * p.scale < s * p.bins BY <2>5, <2>6
  <2> QED BY <2>1, <2>2, <2>7, BinHoldsScore
<1>9. ASSUME p.monotonic, NEW s \in DOMAIN a, a[s] # <<>>
      PROVE  /\ \E n \in 1..p.bins : a[s] \in RatesOf(p, n) /\ \A rate \in RatesOf(p, n) : ~ LowerRate(a[s], rate)
             /\ \A higher \in DOMAIN a : higher >= s /\ a[higher] # <<>> => ~ LowerRate(a[higher], a[s])
  <2>1. ASSUME NEW n \in 1..p.bins, ~ Empty(n, p)
        PROVE  RatesUpTo(p)[n] \in RatesOf(p, n) /\ \A rate \in RatesOf(p, n) : ~ LowerRate(RatesUpTo(p)[n], rate)
    <3>1. PICK N \in Nat : N = p.bins BY DEF ValidSample
    <3>2. n \in 0..N BY <3>1
    <3>3. Highest(p, RatesUpTo(p)[n], n) BY <3>1, <3>2, <1>9, PooledIsHighest
    <3>4. Observed(n, p) \in RatesOf(p, n)
      <4>1. n \in 1..n BY <3>1
      <4>2. Observed(n, p)[2] > 0 BY <2>1, FilledIsCounted
      <4> QED BY <4>1, <4>2 DEF RatesOf
    <3> QED BY <3>3, <3>4 DEF Highest
  <2>2. s \in 0..p.scale BY <1>2
  <2>3. PICK n \in Reached(p, s) : a[s] = RatesUpTo(p)[n] /\ \A m \in Reached(p, s) : n <= m
    BY <2>2, <1>2, <1>5, <1>9, PredictionIsRate
  <2>4. n \in 1..p.bins /\ ~ Empty(n, p) BY <2>3 DEF Reached
  <2>5. a[s] \in RatesOf(p, n) /\ \A rate \in RatesOf(p, n) : ~ LowerRate(a[s], rate) BY <2>1, <2>3, <2>4
  <2>6. ASSUME NEW higher \in DOMAIN a, higher >= s, a[higher] # <<>> PROVE ~ LowerRate(a[higher], a[s])
    <3>1. higher \in 0..p.scale BY <1>2
    <3>2. PICK m \in Reached(p, higher) : a[higher] = RatesUpTo(p)[m]
      BY <3>1, <1>2, <1>5, <2>6, PredictionIsRate
    <3>3. PICK bins \in Nat \ {0}, scale \in Nat \ {0} : bins = p.bins /\ scale = p.scale BY DEF ValidSample
    <3>4. m \in 1..bins /\ ~ Empty(m, p) /\ higher * bins <= m * scale BY <3>2, <3>3 DEF Reached
    <3>5. s * bins <= higher * bins BY <2>2, <2>6, <3>1, <3>3, ProductsKeepOrder
    <3>6. s * bins <= m * scale BY <2>2, <3>1, <3>4, <3>5
    <3>7. m \in Reached(p, s) BY <3>3, <3>4, <3>6 DEF Reached
    <3>8. n <= m BY <2>3, <3>7
    <3>9. RatesOf(p, n) \subseteq RatesOf(p, m)
      <4>1. \A b \in 1..n : b \in 1..m BY <3>3, <3>4, <3>8, <2>4
      <4> QED BY <4>1 DEF RatesOf
    <3>10. a[s] \in RatesOf(p, m) BY <2>5, <3>9
    <3> QED BY <2>1, <3>2, <3>3, <3>4, <3>10
  <2> QED BY <2>4, <2>5, <2>6
<1> QED BY <1>1, <1>7, <1>8, <1>9 DEF CalibrationAgrees, RatesOf

-------------------------------------------------------------------------------
\* Analytics of a chain.

\* What the analytics read of a valid chain.
KnownChain(p) == ValidQuotes(p) /\ ValidChain(p.quotes)

\* Every strike of a valid chain has one quote of each side.
LEMMA ChainIsTyped ==
    ASSUME NEW p, KnownChain(p)
    PROVE  /\ Strikes(p.quotes) \in SUBSET Nat /\ IsFiniteSet(Strikes(p.quotes)) /\ Strikes(p.quotes) # {}
           /\ \A k \in Strikes(p.quotes), side \in Sides :
                 /\ Quote(p.quotes, k, side) \in p.quotes
                 /\ Quote(p.quotes, k, side).strike = k /\ Quote(p.quotes, k, side).side = side
                 /\ \A q \in p.quotes : q.strike = k /\ q.side = side => q = Quote(p.quotes, k, side)
<1>1. PICK Q : Q = p.quotes OBVIOUS
<1>2. IsFiniteSet(Q) /\ Q # {} /\ \A q \in Q : q.strike \in Nat BY <1>1 DEF KnownChain, ValidQuotes, ValidChain
<1>3. PICK f : f = [q \in Q |-> q.strike] OBVIOUS
<1>4. Strikes(Q) = {f[q] : q \in Q} BY <1>3 DEF Strikes
<1>5. IsFiniteSet(Strikes(Q)) BY <1>2, <1>3, <1>4, RangeIsFinite
<1>6. Strikes(Q) \in SUBSET Nat /\ Strikes(Q) # {} BY <1>2 DEF Strikes
<1>7. ASSUME NEW k \in Strikes(Q), NEW side \in Sides
      PROVE  /\ Quote(Q, k, side) \in Q
             /\ Quote(Q, k, side).strike = k /\ Quote(Q, k, side).side = side
             /\ \A q \in Q : q.strike = k /\ q.side = side => q = Quote(Q, k, side)
  <2>1. PICK S : S = {q \in Q : q.strike = k /\ q.side = side} OBVIOUS
  <2>2. Cardinality(S) = 1 BY <1>1, <2>1 DEF KnownChain, ValidChain
  <2>3. IsFiniteSet(S) BY <1>2, <2>1, FS_Subset
  <2>4. PICK q : S = {q} BY <2>2, <2>3, FS_Singleton
  <2>5. \A x \in Q : x.strike = k /\ x.side = side <=> x = q BY <2>1, <2>4
  <2>6. q \in Q BY <2>1, <2>4
  <2>7. Quote(Q, k, side) = q BY <2>5, <2>6 DEF Quote
  <2> QED BY <2>5, <2>6, <2>7
<1> QED BY <1>1, <1>5, <1>6, <1>7

\* No strike is nearer to the spot price than the one at the money.
LEMMA MoneyIsNearest ==
    ASSUME NEW p, KnownChain(p)
    PROVE  LET atm == AtTheMoney(p.quotes, p.spot)
           IN  atm \in Strikes(p.quotes) /\ \A k \in Strikes(p.quotes) : Absolute(atm - p.spot) <= Absolute(k - p.spot)
<1>1. PICK K : K = Strikes(p.quotes) OBVIOUS
<1>2. K \in SUBSET Nat /\ IsFiniteSet(K) /\ K # {} BY <1>1, ChainIsTyped
<1>3. PICK far : far = [k \in K |-> Absolute(k - p.spot)] OBVIOUS
<1>4. \A k \in K : k \in Int /\ far[k] \in Int
  <2>1. p.spot \in Int BY DEF KnownChain, ValidQuotes
  <2>2. \A k \in K : k \in Int BY <1>2
  <2>3. \A k \in K : Absolute(k - p.spot) \in Int BY <2>1, <2>2 DEF Absolute
  <2> QED BY <2>2, <2>3, <1>3
<1>5. PICK R : R = {q \in K \X K : far[q[1]] < far[q[2]] \/ (far[q[1]] = far[q[2]] /\ q[1] < q[2])} OBVIOUS
<1>6. \A k, l \in K : <<k, l>> \in R <=> far[k] < far[l] \/ (far[k] = far[l] /\ k < l) BY <1>5
<1>7. StrictOrder(R, K)
  <2>1. \A x \in K : <<x, x>> \notin R BY <1>4, <1>6
  <2>2. \A x, y, z \in K : <<x, y>> \in R /\ <<y, z>> \in R => <<x, z>> \in R BY <1>4, <1>6
  <2>3. ASSUME NEW x \in K, NEW y \in K PROVE x = y \/ <<x, y>> \in R \/ <<y, x>> \in R
    <3>1. far[x] \in Int /\ far[y] \in Int /\ x \in Int /\ y \in Int BY <1>4
    <3>2. far[x] < far[y] \/ far[y] < far[x] \/ far[x] = far[y] BY <3>1
    <3>3. x < y \/ y < x \/ x = y BY <3>1
    <3> QED BY <3>2, <3>3, <1>6
  <2> QED BY <2>1, <2>2, <2>3 DEF StrictOrder
<1>8. \E x \in K : \A y \in K \ {x} : <<x, y>> \in R
  <2>1. IsFiniteSet(K) /\ K # {} BY <1>2
  <2> QED BY <2>1, <1>7, FirstExists
<1>9. PICK atm : atm = CHOOSE x \in K : \A y \in K \ {x} : far[x] < far[y] \/ (far[x] = far[y] /\ x < y) OBVIOUS
<1>10. atm \in K /\ \A y \in K \ {atm} : far[atm] < far[y] \/ (far[atm] = far[y] /\ atm < y) BY <1>6, <1>8, <1>9
<1>11. AtTheMoney(p.quotes, p.spot) = atm
  <2>1. atm = CHOOSE x \in K : \A y \in K \ {x} :
                 \/ Absolute(x - p.spot) < Absolute(y - p.spot)
                 \/ Absolute(x - p.spot) = Absolute(y - p.spot) /\ x < y
    BY <1>3, <1>9
  <2> QED BY <2>1, <1>1 DEF AtTheMoney, Least
<1>12. \A k \in K : far[atm] <= far[k] BY <1>4, <1>10
<1> QED BY <1>1, <1>3, <1>10, <1>11, <1>12

\* The strikes in their order.
LEMMA StrikesAreSorted ==
    ASSUME NEW p, KnownChain(p), NEW sorted, sorted = SortedStrikes(p.quotes),
           NEW N, N = Cardinality(Strikes(p.quotes))
    PROVE  /\ N \in Nat /\ sorted \in [1..N -> Strikes(p.quotes)] /\ Len(sorted) = N
           /\ \A k \in Strikes(p.quotes) : \E n \in 1..N : sorted[n] = k
           /\ \A m, n \in 1..N : /\ sorted[m] = sorted[n] => m = n
                                 /\ sorted[m] < sorted[n] <=> m < n
<1>1. PICK K : K = Strikes(p.quotes) OBVIOUS
<1>2. K \in SUBSET Nat /\ IsFiniteSet(K) BY <1>1, ChainIsTyped
<1>3. \A k \in K : k \in Int BY <1>2
<1>4. PICK R : R = {q \in K \X K : q[1] < q[2]} OBVIOUS
<1>5. \A k, l \in K : <<k, l>> \in R <=> k < l BY <1>4
<1>6. StrictOrder(R, K)
  <2>1. ASSUME NEW x \in K, NEW y \in K PROVE x = y \/ x < y \/ y < x BY <1>3
  <2>2. ASSUME NEW x \in K, NEW y \in K, NEW z \in K, x < y, y < z PROVE x < z BY <2>2, <1>3
  <2>3. \A x \in K : ~ (x < x) BY <1>3
  <2> QED BY <2>1, <2>2, <2>3, <1>5 DEF StrictOrder
<1>7. sorted = [k \in 1..Cardinality(K) |-> CHOOSE x \in K : Cardinality({y \in K : <<y, x>> \in R}) = k - 1]
  <2> DEFINE A(x) == {y \in K : <<y, x>> \in R}
  <2> DEFINE B(x) == {y \in K : y < x}
  <2>1. \A x \in K : A(x) = B(x) BY <1>5
  <2>2. sorted = [k \in 1..Cardinality(K) |-> CHOOSE x \in K : Cardinality(B(x)) = k - 1] BY <1>1 DEF InOrder, SortedStrikes
  <2> HIDE DEF A, B
  <2>3. sorted = [k \in 1..Cardinality(K) |-> CHOOSE x \in K : Cardinality(A(x)) = k - 1] BY <2>1, <2>2
  <2> QED BY <2>3 DEF A
<1>8. Sorts(sorted, K, R) BY <1>2, <1>6, <1>7, PlacesSort
<1>9. /\ N \in Nat /\ sorted \in [1..N -> K]
      /\ \A k \in K : \E n \in 1..N : sorted[n] = k
      /\ \A m, n \in 1..N : (sorted[m] = sorted[n] => m = n) /\ (m < n => sorted[m] < sorted[n])
  BY <1>1, <1>5, <1>8 DEF Sorts
<1>10. ASSUME NEW m \in 1..N, NEW n \in 1..N, sorted[m] < sorted[n] PROVE m < n
  <2>1. sorted[m] \in Int /\ sorted[n] \in Int BY <1>3, <1>9
  <2>2. ~ (sorted[n] < sorted[m]) /\ sorted[m] # sorted[n] BY <2>1, <1>10
  <2>3. ~ (n < m) /\ m # n BY <2>2, <1>9
  <2> QED BY <2>3, <1>9
<1>11. Len(sorted) = N
  <2>1. sorted \in Seq(K) /\ Len(sorted) = N BY <1>9, LenProperties, SeqDef
  <2> QED BY <2>1
<1> QED BY <1>1, <1>9, <1>10, <1>11

LEMMA EveryStrikeIsSorted ==
    ASSUME NEW p, KnownChain(p) PROVE Len(SortedStrikes(p.quotes)) = Cardinality(Strikes(p.quotes))
BY StrikesAreSorted

\* The interest with one strike more.
InterestStep(quotes, strikes, side, n, c) ==
    LET k == SortedStrikes(quotes)[n]
    IN  c + IF k \in strikes /\ Quote(quotes, k, side).oi # NoValue THEN Quote(quotes, k, side).oi ELSE 0

\* The open interest of some strikes, from one strike to the next.
LEMMA InterestUpToIs ==
    ASSUME NEW p, KnownChain(p), NEW strikes, NEW side \in Sides
    PROVE  /\ InterestUpTo(p.quotes, strikes, side) \in [0..Cardinality(Strikes(p.quotes)) -> Nat]
           /\ InterestUpTo(p.quotes, strikes, side)[0] = 0
           /\ \A n \in 1..Cardinality(Strikes(p.quotes)) : InterestUpTo(p.quotes, strikes, side)[n] = InterestStep(p.quotes, strikes, side, n,InterestUpTo(p.quotes, strikes,  side)[n - 1])
<1>1. PICK N \in Nat : N = Cardinality(Strikes(p.quotes)) BY StrikesAreSorted
<1>2. PICK U, start : U = Nat /\ start = 0 OBVIOUS
<1>3. start \in U BY <1>2
<1>4. ASSUME NEW n \in 1..N, NEW c \in U PROVE InterestStep(p.quotes, strikes, side, n, c) \in U
  <2>1. PICK sorted, k : sorted = SortedStrikes(p.quotes) /\ k = sorted[n] OBVIOUS
  <2>2. k \in Strikes(p.quotes) BY <1>1, <2>1, StrikesAreSorted
  <2>3. PICK oi : oi = Quote(p.quotes, k, side).oi OBVIOUS
  <2>4. oi \in Nat \union {NoValue} BY <2>2, <2>3, ChainIsTyped DEF KnownChain, ValidQuotes
  <2>5. PICK d \in Nat : d = IF k \in strikes /\ oi # NoValue THEN oi ELSE 0 BY <2>4
  <2>6. InterestStep(p.quotes, strikes, side, n, c) = c + d BY <2>1, <2>3, <2>5 DEF InterestStep
  <2>7. c + d \in Nat BY <1>2
  <2> QED BY <2>6, <2>7, <1>2
<1>5. PICK step : step = [q \in (1..N) \X U |-> InterestStep(p.quotes, strikes, side, q[1], q[2])] OBVIOUS
<1>6. step \in [(1..N) \X U -> U]
  <2>1. \A q \in (1..N) \X U : InterestStep(p.quotes, strikes, side, q[1], q[2]) \in U BY <1>4
  <2> QED BY <1>5, <2>1
<1>7. PICK f \in [0..N -> U] : \A n \in 0..N : f[n] = IF n = 0 THEN start ELSE step[<<n, f[n - 1]>>]
  <2>1. \E f \in [0..N -> U] : Steps(f, N, start, step) BY <1>3, <1>6, RecursionExists
  <2> QED BY <2>1 DEF Steps
<1>8. \A n \in 0..N : f[n] = IF n = 0 THEN start ELSE InterestStep(p.quotes, strikes, side, n, f[n - 1])
  <2> SUFFICES ASSUME NEW n \in 0..N, n # 0 PROVE f[n] = InterestStep(p.quotes, strikes, side, n, f[n - 1]) BY <1>7
  <2>1. n \in 1..N /\ n - 1 \in 0..N OBVIOUS
  <2>2. <<n, f[n - 1]>> \in (1..N) \X U BY <2>1
  <2>3. step[<<n, f[n - 1]>>] = InterestStep(p.quotes, strikes, side, n, f[n - 1]) BY <2>2, <1>5
  <2> QED BY <2>3, <1>7
<1>9. f = [n \in 0..N |-> IF n = 0 THEN start ELSE InterestStep(p.quotes, strikes, side, n, f[n - 1])] BY <1>8
<1>10. InterestUpTo(p.quotes, strikes, side) = CHOOSE g : g = [n \in 0..N |-> IF n = 0 THEN start ELSE InterestStep(p.quotes, strikes, side, n, g[n - 1])]
  BY <1>1, <1>2, EveryStrikeIsSorted DEF InterestUpTo, InterestStep
<1>11. PICK h : h = InterestUpTo(p.quotes, strikes, side) OBVIOUS
<1>12. h = [n \in 0..N |-> IF n = 0 THEN start ELSE InterestStep(p.quotes, strikes, side, n, h[n - 1])] BY <1>9, <1>10, <1>11
<1>13. \A n \in 0..N : h[n] = IF n = 0 THEN start ELSE InterestStep(p.quotes, strikes, side, n, h[n - 1]) BY <1>12
<1>14. \A n \in 1..N : n \in 0..N /\ n - 1 \in 0..N /\ n # 0 OBVIOUS
<1>15. ASSUME NEW n \in 1..N PROVE h[n] = InterestStep(p.quotes, strikes, side, n, h[n - 1]) BY <1>13, <1>14
<1>16. h[0] = start BY <1>13
<1>17. \A n \in 0..N : h[n] \in U
  <2>1. PICK P : P = {n \in 0..N : h[n] \in U} OBVIOUS
  <2>2. 0 \in P BY <2>1, <1>3, <1>16
  <2>3. ASSUME NEW n \in 1..N, n - 1 \in P PROVE n \in P
    <3>1. h[n - 1] \in U BY <2>1, <2>3
    <3>2. h[n] \in U BY <3>1, <1>4, <1>15
    <3> QED BY <3>2, <2>1, <1>14
  <2>4. P \in SUBSET (0..N) BY <2>1
  <2>5. \A n \in 0..N : n \in P BY <2>2, <2>3, <2>4, UpToN
  <2> QED BY <2>1, <2>5
<1>18. h \in [0..N -> U] BY <1>12, <1>17
<1> QED BY <1>1, <1>2, <1>11, <1>15, <1>16, <1>18

\* The strikes from the one at the money to another one.
Between(p, atm, k) == {l \in Strikes(p.quotes) : (l > atm /\ l <= k) \/ (l < atm /\ l >= k)}

\* The slice around the money holds the strikes that fewer than the given number are between.
LEMMA SliceIsNearest ==
    ASSUME NEW p, KnownChain(p), NEW atm \in Strikes(p.quotes)
    PROVE  Nearby(p.quotes, atm, p.each) = {k \in Strikes(p.quotes) : Cardinality(Between(p, atm, k)) <= p.each}
<1>1. PICK K : K = Strikes(p.quotes) OBVIOUS
<1>2. PICK sorted : sorted = SortedStrikes(p.quotes) OBVIOUS
<1>3. PICK N \in Nat : N = Cardinality(K) BY <1>1, StrikesAreSorted
<1>4. /\ sorted \in [1..N -> K] /\ Len(sorted) = N
      /\ \A k \in K : \E n \in 1..N : sorted[n] = k
      /\ \A m, n \in 1..N : (sorted[m] = sorted[n] => m = n) /\ (sorted[m] < sorted[n] <=> m < n)
  <2>1. N = Cardinality(Strikes(p.quotes)) BY <1>1, <1>3
  <2>2. /\ sorted \in [1..N -> Strikes(p.quotes)] /\ Len(sorted) = N
        /\ \A k \in Strikes(p.quotes) : \E n \in 1..N : sorted[n] = k
        /\ \A m, n \in 1..N : (sorted[m] = sorted[n] => m = n) /\ (sorted[m] < sorted[n] <=> m < n)
    BY <1>2, <2>1, StrikesAreSorted
  <2> QED BY <1>1, <2>2
<1>5. \A k \in K : k \in Int BY <1>1, ChainIsTyped
<1>6. PICK each \in Nat : each = p.each BY DEF KnownChain, ValidQuotes
<1>7. PICK index \in 1..N : sorted[index] = atm BY <1>1, <1>4
<1>8. (CHOOSE n \in DOMAIN sorted : sorted[n] = atm) = index
  <2>1. \A n \in 1..N : sorted[n] = atm <=> n = index BY <1>4, <1>7
  <2>2. DOMAIN sorted = 1..N BY <1>4
  <2> QED BY <2>1, <2>2, <1>7
<1>9. PICK lo \in Int, hi \in Int : lo = Max({1, index - each}) /\ hi = Min({N, index + each})
  <2>1. index - each \in Int /\ index + each \in Int BY <1>6, <1>7
  <2>2. Max({1, index - each}) \in Int BY <2>1, ExtremesOfTwo
  <2>3. PICK b \in Int, n \in Int : b = index + each /\ n = N BY <2>1
  <2>4. Min({n, b}) \in {n, b} BY LesserOfTwo
  <2>5. Min({N, index + each}) \in Int BY <2>3, <2>4
  <2> QED BY <2>2, <2>5
<1>10. \A n \in Int : n \in lo..hi <=> n \in 1..N /\ index - each <= n /\ n <= index + each
  <2>1. PICK a \in Int, b \in Int : a = index - each /\ b = index + each BY <1>6, <1>7
  <2>2. (lo = 1 \/ lo = a) /\ 1 <= lo /\ a <= lo BY <1>9, <2>1, ExtremesOfTwo
  <2>3. (hi = N \/ hi = b) /\ hi <= N /\ hi <= b
    <3>1. PICK n \in Int : n = N OBVIOUS
    <3>2. Min({n, b}) \in {n, b} /\ Min({n, b}) <= n /\ Min({n, b}) <= b BY LesserOfTwo
    <3>3. hi = Min({n, b}) BY <3>1, <2>1, <1>9
    <3> QED BY <3>1, <3>2, <3>3
  <2>4. \A n \in Int : n \in lo..hi <=> 1 <= n /\ n <= N /\ a <= n /\ n <= b BY <2>2, <2>3
  <2> QED BY <2>1, <2>4
<1>11. PICK near : near = {sorted[n] : n \in lo..hi} OBVIOUS
<1>12. Nearby(p.quotes, atm, p.each) = near
  <2>1. Nearby(p.quotes, atm, p.each)
        = {sorted[n] : n \in Max({1, (CHOOSE n \in DOMAIN sorted : sorted[n] = atm) - each})
                            ..Min({Len(sorted), (CHOOSE n \in DOMAIN sorted : sorted[n] = atm) + each})}
    BY <1>2, <1>6 DEF Nearby
  <2>2. Nearby(p.quotes, atm, p.each) = {sorted[n] : n \in Max({1, index - each})..Min({Len(sorted), index + each})}
    BY <2>1, <1>8
  <2>3. Len(sorted) = N BY <1>4
  <2>4. Nearby(p.quotes, atm, p.each) = {sorted[n] : n \in lo..hi} BY <2>2, <2>3, <1>9
  <2> QED BY <2>4, <1>11
<1>13. ASSUME NEW j \in 1..N
       PROVE  Cardinality(Between(p, atm, sorted[j])) = IF j > index THEN j - index ELSE index - j
  <2>1. ASSUME NEW i \in 1..N
        PROVE  (sorted[i] > atm <=> i > index) /\ (sorted[i] < atm <=> i < index)
               /\ (sorted[i] <= sorted[j] <=> i <= j) /\ (sorted[i] >= sorted[j] <=> i >= j)
    <3>1. PICK x \in Int, y \in Int, z \in Int : x = sorted[i] /\ y = sorted[j] /\ z = sorted[index] BY <1>4, <1>5
    <3>2. (x < z <=> i < index) /\ (z < x <=> index < i) /\ (y < x <=> j < i) /\ (x < y <=> i < j) BY <3>1, <1>4
    <3>3. (x > z <=> i > index) /\ (x <= y <=> i <= j) /\ (x >= y <=> i >= j) BY <3>2
    <3> QED BY <3>1, <3>2, <3>3, <1>7
  <2>2. CASE j > index
    <3>1. PICK a \in Nat \ {0} : a = index + 1 BY <1>7
    <3>2. \A i \in 1..N : ((i > index /\ i <= j) \/ (i < index /\ i >= j)) <=> i \in a..j BY <2>2, <3>1
    <3>3. \A i \in a..j : i \in 1..N BY <3>1
    <3>4. PICK M : M = {sorted[i] : i \in a..j} OBVIOUS
    <3>5. \A l \in K : l \in M <=> l \in Between(p, atm, sorted[j])
      <4>1. ASSUME NEW i \in 1..N PROVE sorted[i] \in Between(p, atm, sorted[j]) <=> i \in a..j
        BY <2>1, <3>2, <1>1, <1>4 DEF Between
      <4>2. ASSUME NEW i \in 1..N PROVE sorted[i] \in M <=> i \in a..j BY <3>3, <3>4, <1>4
      <4> QED BY <4>1, <4>2, <1>4
    <3>6. M = Between(p, atm, sorted[j])
      <4>1. M \subseteq K BY <3>3, <3>4, <1>4
      <4>2. Between(p, atm, sorted[j]) \subseteq K BY <1>1 DEF Between
      <4> QED BY <4>1, <4>2, <3>5
    <3>7. Cardinality(M) = IF a > j THEN 0 ELSE j - a + 1
      <4>1. j \in Int OBVIOUS
      <4>6. j <= N OBVIOUS
      <4>7. N \in Nat OBVIOUS
      <4>2. Different(sorted, N, K) BY <1>4 DEF Different
      <4>4. a \in Nat \ {0} BY <3>1
      <4>5. Cardinality(PartOf(sorted, a, j)) = IF a > j THEN 0 ELSE j - a + 1 BY <4>1, <4>2, <4>4, <4>6, <4>7, RunIsCounted
      <4> QED BY <4>5, <3>4 DEF PartOf
    <3>8. (IF a > j THEN 0 ELSE j - a + 1) = j - index BY <2>2, <3>1
    <3> QED BY <2>2, <3>6, <3>7, <3>8
  <2>3. CASE ~ (j > index)
    <3>1. PICK b \in Int : b = index - 1 BY <1>7
    <3>2. \A i \in 1..N : ((i > index /\ i <= j) \/ (i < index /\ i >= j)) <=> i \in j..b BY <2>3, <3>1
    <3>3. \A i \in j..b : i \in 1..N BY <3>1
    <3>4. PICK M : M = {sorted[i] : i \in j..b} OBVIOUS
    <3>5. \A l \in K : l \in M <=> l \in Between(p, atm, sorted[j])
      <4>1. ASSUME NEW i \in 1..N PROVE sorted[i] \in Between(p, atm, sorted[j]) <=> i \in j..b
        BY <2>1, <3>2, <1>1, <1>4 DEF Between
      <4>2. ASSUME NEW i \in 1..N PROVE sorted[i] \in M <=> i \in j..b BY <3>3, <3>4, <1>4
      <4> QED BY <4>1, <4>2, <1>4
    <3>6. M = Between(p, atm, sorted[j])
      <4>1. M \subseteq K BY <3>3, <3>4, <1>4
      <4>2. Between(p, atm, sorted[j]) \subseteq K BY <1>1 DEF Between
      <4> QED BY <4>1, <4>2, <3>5
    <3>7. Cardinality(M) = IF j > b THEN 0 ELSE b - j + 1
      <4>1. b <= N BY <3>1
      <4>6. j \in Nat \ {0} OBVIOUS
      <4>7. N \in Nat OBVIOUS
      <4>2. Different(sorted, N, K) BY <1>4 DEF Different
      <4>4. b \in Int BY <3>1
      <4>5. Cardinality(PartOf(sorted, j, b)) = IF j > b THEN 0 ELSE b - j + 1 BY <4>1, <4>2, <4>4, <4>6, <4>7, RunIsCounted
      <4> QED BY <4>5, <3>4 DEF PartOf
    <3>8. (IF j > b THEN 0 ELSE b - j + 1) = index - j BY <2>3, <3>1
    <3> QED BY <2>3, <3>6, <3>7, <3>8
  <2> QED BY <2>2, <2>3
<1>14. ASSUME NEW j \in 1..N PROVE sorted[j] \in near <=> Cardinality(Between(p, atm, sorted[j])) <= each
  <2>1. sorted[j] \in near <=> j \in lo..hi
    <3>1. \A n \in lo..hi : n \in 1..N BY <1>10
    <3> QED BY <3>1, <1>4, <1>11
  <2>2. j \in lo..hi <=> index - each <= j /\ j <= index + each BY <1>10
  <2>3. j \in Int /\ index \in Int /\ each \in Nat BY <1>6, <1>7
  <2>5. PICK d : d = IF j > index THEN j - index ELSE index - j OBVIOUS
  <2>4. d <= each <=> index - each <= j /\ j <= index + each BY <2>3, <2>5
  <2> QED BY <2>1, <2>2, <2>4, <2>5, <1>13
<1>15. near \subseteq K
  <2>1. \A n \in lo..hi : n \in 1..N BY <1>10
  <2> QED BY <2>1, <1>4, <1>11
<1>16. near = {k \in K : Cardinality(Between(p, atm, k)) <= each}
  <2>1. \A k \in K : k \in near <=> Cardinality(Between(p, atm, k)) <= each BY <1>4, <1>14
  <2> QED BY <2>1, <1>15
<1> QED BY <1>1, <1>6, <1>12, <1>16

\* More strikes have no less open interest.
LEMMA InterestGrows ==
    ASSUME NEW p, KnownChain(p), NEW few, NEW many, few \subseteq many, NEW side \in Sides
    PROVE  OpenInterest(p.quotes, few, side) <= OpenInterest(p.quotes, many, side)
<1>1. PICK N : N = Cardinality(Strikes(p.quotes)) OBVIOUS
<1>2. N \in Nat BY <1>1, StrikesAreSorted
<1>3. PICK f, g : f = InterestUpTo(p.quotes, few, side) /\ g = InterestUpTo(p.quotes, many, side) OBVIOUS
<1>4. /\ f \in [0..N -> Nat] /\ f[0] = 0
      /\ \A n \in 1..N : f[n] = InterestStep(p.quotes, few, side, n, f[n - 1])
  BY <1>1, <1>3, InterestUpToIs
<1>5. /\ g \in [0..N -> Nat] /\ g[0] = 0
      /\ \A n \in 1..N : g[n] = InterestStep(p.quotes, many, side, n, g[n - 1])
  BY <1>1, <1>3, InterestUpToIs
<1>6. PICK P : P = {n \in 0..N : f[n] <= g[n]} OBVIOUS
<1>7. 0 \in P BY <1>2, <1>4, <1>5, <1>6
<1>8. ASSUME NEW n \in 1..N, n - 1 \in P PROVE n \in P
  <2>1. PICK x \in Nat, y \in Nat : x = f[n - 1] /\ y = g[n - 1] /\ x <= y
    <3>1. n - 1 \in 0..N BY <1>6, <1>8
    <3> QED BY <3>1, <1>4, <1>5, <1>6, <1>8
  <2>2. PICK k : k = SortedStrikes(p.quotes)[n] OBVIOUS
  <2>3. k \in Strikes(p.quotes)
    <3>1. PICK sorted : sorted = SortedStrikes(p.quotes) OBVIOUS
    <3>2. sorted \in [1..N -> Strikes(p.quotes)] BY <3>1, <1>1, StrikesAreSorted
    <3> QED BY <3>1, <3>2, <2>2
  <2>4. PICK oi : oi = Quote(p.quotes, k, side).oi OBVIOUS
  <2>5. oi \in Nat \union {NoValue} BY <2>3, <2>4, ChainIsTyped DEF KnownChain, ValidQuotes
  <2>6. PICK d \in Nat : d = IF k \in few /\ oi # NoValue THEN oi ELSE 0 BY <2>5
  <2>7. PICK e \in Nat : e = IF k \in many /\ oi # NoValue THEN oi ELSE 0 BY <2>5
  <2>8. d <= e BY <2>6, <2>7
  <2>9. f[n] = x + d BY <1>4, <2>1, <2>2, <2>4, <2>6 DEF InterestStep
  <2>10. g[n] = y + e BY <1>5, <2>1, <2>2, <2>4, <2>7 DEF InterestStep
  <2>11. x + d <= y + e BY <2>1, <2>8
  <2>12. n \in 0..N OBVIOUS
  <2> QED BY <2>9, <2>10, <2>11, <2>12, <1>6
<1>9. P \in SUBSET (0..N) BY <1>6
<1>10. \A n \in 0..N : n \in P BY <1>2, <1>7, <1>8, <1>9, UpToN
<1>11. N \in P BY <1>2, <1>10
<1> QED BY <1>1, <1>3, <1>6, <1>11 DEF OpenInterest

\* The wall of a side has the most open interest of it.
LEMMA WallIsHighest ==
    ASSUME NEW p, KnownChain(p), NEW side \in Sides, NEW q \in p.quotes, q.side = side, q.oi # NoValue
    PROVE  LET wall == OiWall(p.quotes, side)
           IN  wall # NoValue /\ Quote(p.quotes, wall, side).oi >= q.oi
<1>1. PICK S : S = {x \in p.quotes : x.side = side /\ x.oi # NoValue} OBVIOUS
<1>2. q \in S /\ S # {} BY <1>1
<1>3. IsFiniteSet(S)
  <2>1. IsFiniteSet(p.quotes) BY DEF KnownChain, ValidQuotes
  <2> QED BY <2>1, <1>1, FS_Subset
<1>4. \A x \in S : x \in p.quotes /\ x.strike \in Nat /\ x.oi \in Nat /\ x.strike \in Strikes(p.quotes)
  BY <1>1 DEF KnownChain, ValidQuotes, Strikes
<1>5. \A x \in S : x = Quote(p.quotes, x.strike, side) BY <1>1, <1>4, ChainIsTyped
<1>6. PICK R : R = {r \in S \X S : r[1].oi > r[2].oi \/ (r[1].oi = r[2].oi /\ r[1].strike < r[2].strike)} OBVIOUS
<1>7. \A x, y \in S : <<x, y>> \in R <=> x.oi > y.oi \/ (x.oi = y.oi /\ x.strike < y.strike) BY <1>6
<1>8. StrictOrder(R, S)
  <2>1. \A x \in S : <<x, x>> \notin R BY <1>4, <1>7
  <2>2. ASSUME NEW x \in S, NEW y \in S, NEW z \in S, <<x, y>> \in R, <<y, z>> \in R PROVE <<x, z>> \in R
    <3>1. x.oi > y.oi \/ (x.oi = y.oi /\ x.strike < y.strike) BY <2>2, <1>7
    <3>2. y.oi > z.oi \/ (y.oi = z.oi /\ y.strike < z.strike) BY <2>2, <1>7
    <3>3. x.oi \in Int /\ y.oi \in Int /\ z.oi \in Int BY <1>4
    <3>4. x.strike \in Int /\ y.strike \in Int /\ z.strike \in Int BY <1>4
    <3>5. x.oi > z.oi \/ (x.oi = z.oi /\ x.strike < z.strike) BY <3>1, <3>2, <3>3, <3>4
    <3> QED BY <3>5, <1>7
  <2>3. ASSUME NEW x \in S, NEW y \in S PROVE x = y \/ <<x, y>> \in R \/ <<y, x>> \in R
    <3>1. x.oi \in Int /\ y.oi \in Int /\ x.strike \in Int /\ y.strike \in Int BY <1>4
    <3>2. x.strike = y.strike => x = y BY <1>5
    <3>3. x.oi > y.oi \/ y.oi > x.oi \/ x.oi = y.oi BY <3>1
    <3>4. x.strike < y.strike \/ y.strike < x.strike \/ x.strike = y.strike BY <3>1
    <3> QED BY <3>2, <3>3, <3>4, <1>7
  <2> QED BY <2>1, <2>2, <2>3 DEF StrictOrder
<1>9. \E x \in S : \A y \in S \ {x} : <<x, y>> \in R BY <1>2, <1>3, <1>8, FirstExists
<1>10. PICK w : w = CHOOSE x \in S : \A y \in S \ {x} : x.oi > y.oi \/ (x.oi = y.oi /\ x.strike < y.strike) OBVIOUS
<1>11. w \in S /\ \A y \in S \ {w} : w.oi > y.oi \/ (w.oi = y.oi /\ w.strike < y.strike)
  <2>1. \E x \in S : \A y \in S \ {x} : x.oi > y.oi \/ (x.oi = y.oi /\ x.strike < y.strike) BY <1>7, <1>9
  <2> QED BY <2>1, <1>10
<1>12. OiWall(p.quotes, side) = w.strike BY <1>1, <1>2, <1>10 DEF OiWall, Least
<1>13. w.strike # NoValue BY <1>4, <1>11 DEF NoValue
<1>14. w.oi >= q.oi
  <2>1. w.oi \in Int /\ q.oi \in Int BY <1>2, <1>4, <1>11
  <2>2. CASE w = q BY <2>1, <2>2
  <2>3. CASE w # q
    <3>1. w.oi > q.oi \/ w.oi = q.oi BY <2>3, <1>2, <1>11
    <3> QED BY <3>1, <2>1
  <2> QED BY <2>2, <2>3
<1>15. Quote(p.quotes, w.strike, side) = w BY <1>5, <1>11
<1> QED BY <1>12, <1>13, <1>14, <1>15

\* The slice, the totals and the walls are what their names say.
LEMMA AnalyticsAreRight ==
    ASSUME NEW p, ValidQuotes(p) PROVE AnalyticsAgree(p, CalculateAnalytics(p))
<1>1. PICK a : a = CalculateAnalytics(p) OBVIOUS
<1>2. SUFFICES ASSUME ~ a.error PROVE AnalyticsAgree(p, a) BY <1>1 DEF AnalyticsAgree
<1>3. PICK atm : atm = AtTheMoney(p.quotes, p.spot) OBVIOUS
<1>4. PICK near : near = Nearby(p.quotes, atm, p.each) OBVIOUS
<1>5. KnownChain(p) BY <1>1, <1>2 DEF CalculateAnalytics, KnownChain
<1>6. /\ a.atm = atm /\ a.near = near
      /\ a.total = [side \in Sides |-> OpenInterest(p.quotes, Strikes(p.quotes), side)]
      /\ a.nearby = [side \in Sides |-> OpenInterest(p.quotes, near, side)]
      /\ a.wall = [side \in Sides |-> OiWall(p.quotes, side)]
  <2>1. ValidChain(p.quotes) BY <1>5 DEF KnownChain
  <2>2. ~ \E side \in Sides : Quote(p.quotes, atm, side).price = NoValue
    BY <2>1, <1>1, <1>2, <1>3 DEF CalculateAnalytics
  <2> QED BY <2>1, <2>2, <1>1, <1>3, <1>4 DEF CalculateAnalytics
<1>7. atm \in Strikes(p.quotes) /\ \A k \in Strikes(p.quotes) : Absolute(atm - p.spot) <= Absolute(k - p.spot)
  BY <1>3, <1>5, MoneyIsNearest
<1>8. near = {k \in Strikes(p.quotes) : Cardinality(Between(p, atm, k)) <= p.each} BY <1>4, <1>5, <1>7, SliceIsNearest
<1>9. ASSUME NEW side \in Sides
      PROVE  /\ a.total[side] >= a.nearby[side]
             /\ \A q \in p.quotes : q.side = side /\ q.oi # NoValue =>
                   a.wall[side] # NoValue /\ Quote(p.quotes, a.wall[side], side).oi >= q.oi
  <2>1. near \subseteq Strikes(p.quotes) BY <1>8
  <2>2. OpenInterest(p.quotes, near, side) <= OpenInterest(p.quotes, Strikes(p.quotes), side)
    BY <2>1, <1>5, InterestGrows
  <2>3. a.wall[side] = OiWall(p.quotes, side) BY <1>6
  <2>4. a.total[side] >= a.nearby[side] BY <2>2, <1>6
  <2> QED BY <2>3, <2>4, <1>5, WallIsHighest
<1>10. a.near = {k \in Strikes(p.quotes) :
                   Cardinality({l \in Strikes(p.quotes) : (l > a.atm /\ l <= k) \/ (l < a.atm /\ l >= k)}) <= p.each}
  BY <1>6, <1>8 DEF Between
<1> QED BY <1>6, <1>7, <1>9, <1>10 DEF AnalyticsAgree

-------------------------------------------------------------------------------
\* Mappings.

\* What the columns of a mapping hold.
Mapping == [id : Int, from : Nat, to : Nat \union {NoValue}, target : Int]

\* Mappings of one instrument at a time; and a payload that contradicts itself.
Apart(S) == \A m, n \in S : Overlaps(m, n) => m = n
Contradictory(payload) ==
    \/ \E m \in Range(payload) : ~ Dated(m)
    \/ \E i, j \in DOMAIN payload : i # j /\ Overlaps(payload[i], payload[j])

\* Neither of two mappings that overlap is the first.
LEMMA OverlapsIsMutual ==
    ASSUME NEW m \in Mapping, NEW n \in Mapping, Overlaps(m, n) PROVE Overlaps(n, m)
<1>1. /\ m.from \in Int /\ n.from \in Int
      /\ (m.to \in Int \/ m.to = NoValue) /\ (n.to \in Int \/ n.to = NoValue)
  BY DEF Mapping
<1>2. NoValue \in Int BY DEF NoValue
<1>3. m.to \in Int /\ n.to \in Int BY <1>1, <1>2
<1> QED BY <1>1, <1>3 DEF Overlaps

\* The comparison with the mapping before it finds every contradiction, or another one.
LEMMA RefusedIsBad ==
    ASSUME NEW payload \in Seq(Mapping), ~ MappingsValid(payload) PROVE Contradictory(payload)
<1>1. PICK N \in Nat : N = Len(payload) BY LenProperties
<1>2. PICK S : S = 1..N OBVIOUS
<1>3. DOMAIN payload = S BY <1>1, <1>2, LenProperties
<1>4. \A i \in S : payload[i] \in Mapping BY <1>1, <1>2, ElementOfSeq
<1>5. ASSUME NEW i \in S
      PROVE  i \in Int /\ payload[i].id \in Int /\ payload[i].from \in Int /\ payload[i].to \in Int
  <2>1. NoValue \in Int BY DEF NoValue
  <2> QED BY <2>1, <1>2, <1>4 DEF Mapping
<1>6. PICK R : R = {q \in S \X S : Earlier(payload, q[1], q[2])} OBVIOUS
<1>7. \A i, j \in S : <<i, j>> \in R <=> Earlier(payload, i, j) BY <1>6
<1>8. StrictOrder(R, S)
  <2>1. \A x \in S : ~ Earlier(payload, x, x) BY <1>5 DEF Earlier
  <2>2. ASSUME NEW x \in S, NEW y \in S, NEW z \in S, Earlier(payload, x, y), Earlier(payload, y, z)
        PROVE  Earlier(payload, x, z)
    <3>1. x \in Int /\ y \in Int /\ z \in Int BY <1>5
    <3>2. payload[x].id \in Int /\ payload[y].id \in Int /\ payload[z].id \in Int BY <1>5
    <3>3. payload[x].from \in Int /\ payload[y].from \in Int /\ payload[z].from \in Int BY <1>5
    <3> QED BY <2>2, <3>1, <3>2, <3>3 DEF Earlier
  <2>3. ASSUME NEW x \in S, NEW y \in S PROVE x = y \/ Earlier(payload, x, y) \/ Earlier(payload, y, x)
    <3>1. x \in Int /\ y \in Int BY <1>5
    <3>2. payload[x].id \in Int /\ payload[y].id \in Int BY <1>5
    <3>3. payload[x].from \in Int /\ payload[y].from \in Int BY <1>5
    <3> QED BY <3>1, <3>2, <3>3 DEF Earlier
  <2> QED BY <2>1, <2>2, <2>3, <1>7 DEF StrictOrder
<1>9. IsFiniteSet(S) BY <1>2, FS_Interval
<1>10. PICK sorted : sorted = [k \in 1..Cardinality(S) |-> CHOOSE x \in S : Cardinality({y \in S : <<y, x>> \in R}) = k - 1]
  OBVIOUS
<1>11. sorted = InOrder(DOMAIN payload, LAMBDA i, j : Earlier(payload, i, j))
  <2> DEFINE A(x) == {y \in S : <<y, x>> \in R}
  <2> DEFINE B(x) == {y \in S : Earlier(payload, y, x)}
  <2>1. \A x \in S : A(x) = B(x) BY <1>7
  <2>2. InOrder(DOMAIN payload, LAMBDA i, j : Earlier(payload, i, j))
        = [k \in 1..Cardinality(S) |-> CHOOSE x \in S : Cardinality(B(x)) = k - 1]
    BY <1>3 DEF InOrder
  <2>3. sorted = [k \in 1..Cardinality(S) |-> CHOOSE x \in S : Cardinality(A(x)) = k - 1] BY <1>10
  <2> HIDE DEF A, B
  <2>4. sorted = [k \in 1..Cardinality(S) |-> CHOOSE x \in S : Cardinality(B(x)) = k - 1] BY <2>1, <2>3
  <2> QED BY <2>2, <2>4
<1>12. Sorts(sorted, S, R) BY <1>8, <1>9, <1>10, PlacesSort
<1>13. PICK C \in Nat : C = Cardinality(S) BY <1>12 DEF Sorts
<1>14. DOMAIN sorted = 1..C /\ \A k \in 1..C : sorted[k] \in S BY <1>12, <1>13 DEF Sorts
<1>15. \A j, k \in 1..C : (j < k => <<sorted[j], sorted[k]>> \in R) /\ (sorted[j] = sorted[k] => j = k)
  BY <1>12, <1>13 DEF Sorts
<1>16. MappingsValid(payload) <=>
         \A k \in DOMAIN sorted :
            /\ Dated(payload[sorted[k]])
            /\ k > 1 /\ payload[sorted[k - 1]].id = payload[sorted[k]].id
               => payload[sorted[k - 1]].to # NoValue /\ payload[sorted[k]].from >= payload[sorted[k - 1]].to
  BY <1>11 DEF MappingsValid
<1>17. PICK k \in 1..C :
          \/ ~ Dated(payload[sorted[k]])
          \/ /\ k > 1 /\ payload[sorted[k - 1]].id = payload[sorted[k]].id
             /\ ~ (payload[sorted[k - 1]].to # NoValue /\ payload[sorted[k]].from >= payload[sorted[k - 1]].to)
  BY <1>14, <1>16
<1>18. PICK j : j = sorted[k] OBVIOUS
<1>19. j \in S BY <1>14, <1>18
<1>20. CASE ~ Dated(payload[j])
  <2>1. payload[j] \in Range(payload) BY <1>3, <1>19 DEF Range
  <2> QED BY <2>1, <1>20 DEF Contradictory
<1>21. CASE Dated(payload[j])
  <2>1. k > 1 /\ k - 1 \in 1..C BY <1>17, <1>18, <1>21
  <2>2. PICK i : i = sorted[k - 1] OBVIOUS
  <2>3. i \in S BY <2>1, <2>2, <1>14
  <2>4. /\ payload[i].id = payload[j].id
        /\ ~ (payload[i].to # NoValue /\ payload[j].from >= payload[i].to)
    BY <2>2, <1>17, <1>18, <1>21
  <2>5. k - 1 < k /\ k - 1 # k OBVIOUS
  <2>6. Earlier(payload, i, j) /\ i # j
    <3>1. <<i, j>> \in R BY <2>1, <2>2, <2>5, <1>15, <1>18
    <3>2. i # j BY <2>1, <2>2, <2>5, <1>15, <1>18
    <3> QED BY <3>1, <3>2, <2>3, <1>7, <1>19
  <2>7. PICK m, n : m = payload[i] /\ n = payload[j] OBVIOUS
  <2>8. /\ m.from \in Int /\ m.to \in Int /\ m.id \in Int
        /\ n.from \in Int /\ n.to \in Int /\ n.id \in Int
    BY <2>3, <2>7, <1>5, <1>19
  <2>9. m.id = n.id /\ m.from <= n.from BY <2>4, <2>6, <2>7, <2>8 DEF Earlier
  <2>10. m.to = NoValue \/ m.to > n.from BY <2>4, <2>7, <2>8
  <2>11. n.to = NoValue \/ m.from < n.to BY <2>7, <2>8, <2>9, <1>21 DEF Dated
  <2>12. Overlaps(m, n) BY <2>9, <2>10, <2>11 DEF Overlaps
  <2> QED BY <2>3, <2>6, <2>7, <2>12, <1>3, <1>19 DEF Contradictory
<1> QED BY <1>20, <1>21

\* A payload is stored mapping by mapping.
LEMMA StoreMappingsIs ==
    ASSUME NEW payload \in Seq(Mapping), NEW stored \in SUBSET Mapping
    PROVE  /\ StoreMappings(stored, payload) \in [0..Len(payload) -> [stored : SUBSET Mapping, refused : BOOLEAN]]
           /\ StoreMappings(stored, payload)[0] = [stored |-> stored, refused |-> ~ MappingsValid(payload)]
           /\ \A n \in 1..Len(payload) : StoreMappings(stored, payload)[n] = StoreMapping(StoreMappings(stored, payload)[n - 1], payload[n])
<1>1. PICK N \in Nat : N = Len(payload) BY LenProperties
<1>2. PICK U, start : U = [stored : SUBSET Mapping, refused : BOOLEAN] /\ start = [stored |-> stored, refused |-> ~ MappingsValid(payload)] OBVIOUS
<1>3. start \in U BY <1>2
<1>4. ASSUME NEW n \in 1..N, NEW c \in U PROVE StoreMapping(c, payload[n]) \in U
  <2>1. payload[n] \in Mapping BY <1>1, ElementOfSeq
  <2>2. c.stored \in SUBSET Mapping BY <1>2
  <2>3. c.stored \union {payload[n]} \in SUBSET Mapping BY <2>1, <2>2
  <2> QED BY <2>3, <1>2 DEF StoreMapping
<1>5. PICK step : step = [q \in (1..N) \X U |-> StoreMapping(q[2], payload[q[1]])] OBVIOUS
<1>6. step \in [(1..N) \X U -> U]
  <2>1. \A q \in (1..N) \X U : StoreMapping(q[2], payload[q[1]]) \in U BY <1>4
  <2> QED BY <1>5, <2>1
<1>7. PICK f \in [0..N -> U] : \A n \in 0..N : f[n] = IF n = 0 THEN start ELSE step[<<n, f[n - 1]>>]
  <2>1. \E f \in [0..N -> U] : Steps(f, N, start, step) BY <1>3, <1>6, RecursionExists
  <2> QED BY <2>1 DEF Steps
<1>8. \A n \in 0..N : f[n] = IF n = 0 THEN start ELSE StoreMapping(f[n - 1], payload[n])
  <2> SUFFICES ASSUME NEW n \in 0..N, n # 0 PROVE f[n] = StoreMapping(f[n - 1], payload[n]) BY <1>7
  <2>1. n \in 1..N /\ n - 1 \in 0..N OBVIOUS
  <2>2. <<n, f[n - 1]>> \in (1..N) \X U BY <2>1
  <2>3. step[<<n, f[n - 1]>>] = StoreMapping(f[n - 1], payload[n]) BY <2>2, <1>5
  <2> QED BY <2>3, <1>7
<1>9. f = [n \in 0..N |-> IF n = 0 THEN start ELSE StoreMapping(f[n - 1], payload[n])] BY <1>8
<1>10. StoreMappings(stored, payload) = CHOOSE g : g = [n \in 0..N |-> IF n = 0 THEN start ELSE StoreMapping(g[n - 1], payload[n])]
  BY <1>1, <1>2 DEF StoreMappings
<1>11. PICK h : h = StoreMappings(stored, payload) OBVIOUS
<1>12. h = [n \in 0..N |-> IF n = 0 THEN start ELSE StoreMapping(h[n - 1], payload[n])] BY <1>9, <1>10, <1>11
<1>13. \A n \in 0..N : h[n] = IF n = 0 THEN start ELSE StoreMapping(h[n - 1], payload[n]) BY <1>12
<1>14. \A n \in 1..N : n \in 0..N /\ n - 1 \in 0..N /\ n # 0 OBVIOUS
<1>15. ASSUME NEW n \in 1..N PROVE h[n] = StoreMapping(h[n - 1], payload[n]) BY <1>13, <1>14
<1>16. h[0] = start BY <1>13
<1>17. \A n \in 0..N : h[n] \in U
  <2>1. PICK P : P = {n \in 0..N : h[n] \in U} OBVIOUS
  <2>2. 0 \in P BY <2>1, <1>3, <1>16
  <2>3. ASSUME NEW n \in 1..N, n - 1 \in P PROVE n \in P
    <3>1. h[n - 1] \in U BY <2>1, <2>3
    <3>2. h[n] \in U BY <3>1, <1>4, <1>15
    <3> QED BY <3>2, <2>1, <1>14
  <2>4. P \in SUBSET (0..N) BY <2>1
  <2>5. \A n \in 0..N : n \in P BY <2>2, <2>3, <2>4, UpToN
  <2> QED BY <2>1, <2>5
<1>18. h \in [0..N -> U] BY <1>12, <1>17
<1> QED BY <1>1, <1>2, <1>11, <1>15, <1>16, <1>18

\* What a payload that is being stored leaves.
Stores(stored, payload, so, i) ==
    /\ stored \subseteq so.stored /\ so.stored \subseteq stored \union {payload[j] : j \in 1..i}
    /\ \A j \in 1..i : payload[j] \in so.stored
    /\ so.refused => Contradictory(payload) \/ \E m \in Range(payload), n \in stored : m # n /\ Overlaps(m, n)
    /\ ~ so.refused /\ Apart(stored) => Apart(so.stored)

\* By induction on the number of mappings.
LEMMA EveryMappingIsStored ==
    ASSUME NEW payload \in Seq(Mapping), NEW stored \in SUBSET Mapping
    PROVE  Stores(stored, payload, StoreMappings(stored, payload)[Len(payload)], Len(payload))
<1>1. PICK N \in Nat : N = Len(payload) BY LenProperties
<1>2. DOMAIN payload = 1..N /\ \A i \in 1..N : payload[i] \in Mapping BY <1>1, LenProperties, ElementOfSeq
<1>3. PICK f : f = StoreMappings(stored, payload) OBVIOUS
<1>4. /\ f \in [0..N -> [stored : SUBSET Mapping, refused : BOOLEAN]]
      /\ f[0] = [stored |-> stored, refused |-> ~ MappingsValid(payload)]
      /\ \A n \in 1..N : f[n] = StoreMapping(f[n - 1], payload[n])
  BY <1>1, <1>3, StoreMappingsIs
<1>5. PICK P : P = {n \in 0..N : Stores(stored, payload, f[n], n)} OBVIOUS
<1>6. 0 \in P
  <2>1. f[0].stored = stored /\ f[0].refused = ~ MappingsValid(payload) BY <1>4
  <2>2. f[0].refused => Contradictory(payload) BY <2>1, RefusedIsBad
  <2>3. 1..0 = {} OBVIOUS
  <2>4. Stores(stored, payload, f[0], 0) BY <2>1, <2>2, <2>3 DEF Stores
  <2> QED BY <2>4, <1>5
<1>7. ASSUME NEW n \in 1..N, n - 1 \in P PROVE n \in P
  <2>1. n \in 0..N /\ n - 1 \in 0..N /\ n \in 1..n OBVIOUS
  <2>2. \A j \in 1..n : j \in 1..(n - 1) \/ j = n OBVIOUS
  <2>3. \A j \in 1..(n - 1) : j \in 1..n /\ j # n /\ j \in 1..N OBVIOUS
  <2>4. PICK before, after, m : before = f[n - 1] /\ after = f[n] /\ m = payload[n] OBVIOUS
  <2>5. Stores(stored, payload, before, n - 1) BY <2>4, <1>5, <1>7
  <2>6. before.stored \in SUBSET Mapping /\ before.refused \in BOOLEAN BY <2>1, <2>4, <1>4
  <2>7. m \in Mapping /\ m \in Range(payload) BY <2>4, <1>2 DEF Range
  <2>8. PICK found : found = {x \in before.stored : Overlaps(x, m)} OBVIOUS
  <2>9. after = [stored |-> before.stored \union {m}, refused |-> before.refused \/ found \notin {{}, {m}}]
    BY <2>4, <2>8, <1>4 DEF StoreMapping
  <2>10. after.stored = before.stored \union {m} /\ (after.refused <=> before.refused \/ found \notin {{}, {m}})
    BY <2>6, <2>9
  <2>11. stored \subseteq after.stored BY <2>5, <2>10 DEF Stores
  <2>12. after.stored \subseteq stored \union {payload[j] : j \in 1..n}
    <3>1. before.stored \subseteq stored \union {payload[j] : j \in 1..(n - 1)} BY <2>5 DEF Stores
    <3>2. {payload[j] : j \in 1..(n - 1)} \subseteq {payload[j] : j \in 1..n} BY <2>3
    <3>3. m \in {payload[j] : j \in 1..n} BY <2>1, <2>4
    <3> QED BY <3>1, <3>2, <3>3, <2>10
  <2>13. \A j \in 1..n : payload[j] \in after.stored BY <2>2, <2>4, <2>5, <2>10 DEF Stores
  <2>14. ASSUME after.refused
         PROVE  Contradictory(payload) \/ \E x \in Range(payload), y \in stored : x # y /\ Overlaps(x, y)
    <3>1. CASE before.refused BY <3>1, <2>5 DEF Stores
    <3>2. CASE ~ before.refused
      <4>1. PICK x \in before.stored : Overlaps(x, m) /\ x # m
        <5>1. found # {} /\ found # {m} BY <2>10, <2>14, <3>2
        <5>2. PICK y \in found : TRUE BY <5>1
        <5>3. CASE m \in found
          <6>1. PICK x \in found : x # m BY <5>1, <5>3
          <6> QED BY <6>1, <2>8
        <5>4. CASE m \notin found
          <6>1. y # m BY <5>4
          <6> QED BY <6>1, <2>8
        <5> QED BY <5>3, <5>4
      <4>2. Overlaps(m, x) BY <4>1, <2>6, <2>7, OverlapsIsMutual
      <4>3. CASE x \in stored BY <4>1, <4>2, <4>3, <2>7
      <4>4. CASE x \notin stored
        <5>1. PICK j \in 1..(n - 1) : x = payload[j] BY <4>4, <2>5 DEF Stores
        <5>2. j \in DOMAIN payload /\ n \in DOMAIN payload /\ j # n BY <2>3, <1>2
        <5> QED BY <5>1, <5>2, <4>1, <2>4 DEF Contradictory
      <4> QED BY <4>3, <4>4
    <3> QED BY <3>1, <3>2
  <2>15. ASSUME ~ after.refused, Apart(stored) PROVE Apart(after.stored)
    <3>1. ~ before.refused /\ found \in {{}, {m}} BY <2>10, <2>15
    <3>2. Apart(before.stored) BY <3>1, <2>5, <2>15 DEF Stores
    <3>3. \A x \in before.stored : Overlaps(x, m) => x = m BY <3>1, <2>8
    <3>4. \A x \in before.stored : Overlaps(m, x) => x = m BY <3>3, <2>6, <2>7, OverlapsIsMutual
    <3> QED BY <3>2, <3>3, <3>4, <2>10 DEF Apart
  <2>16. Stores(stored, payload, after, n) BY <2>11, <2>12, <2>13, <2>14, <2>15 DEF Stores
  <2> QED BY <2>1, <2>4, <2>16, <1>5
<1>8. P \in SUBSET (0..N) BY <1>5
<1>9. \A n \in 0..N : n \in P BY <1>6, <1>7, <1>8, UpToN
<1>10. N \in P BY <1>9
<1> QED BY <1>1, <1>3, <1>5, <1>10

\* What a payload leads to once the mappings on file are those of a set.
Settled(payload, a) ==
    \/ Range(payload) \subseteq a
    \/ Contradictory(payload)
    \/ \E m \in Range(payload), n \in a : m # n /\ Overlaps(m, n)

\* What a payload as a whole leads to.
LEMMA ImportSettles ==
    ASSUME NEW payload \in Seq(Mapping), NEW stored \in SUBSET Mapping
    PROVE  LET after == ImportMapping(stored, payload)
           IN  /\ after \in SUBSET Mapping /\ stored \subseteq after
               /\ Apart(stored) => Apart(after)
               /\ Settled(payload, after)
<1>1. PICK N \in Nat : N = Len(payload) BY LenProperties
<1>2. PICK so : so = StoreMappings(stored, payload)[N] OBVIOUS
<1>3. so \in [stored : SUBSET Mapping, refused : BOOLEAN]
  <2>1. StoreMappings(stored, payload) \in [0..N -> [stored : SUBSET Mapping, refused : BOOLEAN]]
    BY <1>1, StoreMappingsIs
  <2> QED BY <2>1, <1>2
<1>4. Stores(stored, payload, so, N) BY <1>1, <1>2, EveryMappingIsStored
<1>5. PICK after : after = ImportMapping(stored, payload) OBVIOUS
<1>6. after = IF so.refused THEN stored ELSE so.stored BY <1>1, <1>2, <1>5 DEF ImportMapping
<1>7. CASE so.refused
  <2>1. after = stored BY <1>6, <1>7
  <2>2. Settled(payload, after) BY <2>1, <1>4, <1>7 DEF Stores, Settled
  <2> QED BY <2>1, <2>2, <1>5
<1>8. CASE ~ so.refused
  <2>1. after = so.stored BY <1>6, <1>8
  <2>2. Range(payload) \subseteq after
    <3>1. DOMAIN payload = 1..N BY <1>1, LenProperties
    <3> QED BY <3>1, <2>1, <1>4 DEF Stores, Range
  <2>3. Settled(payload, after) BY <2>2 DEF Settled
  <2>4. stored \subseteq after /\ (Apart(stored) => Apart(after)) BY <2>1, <1>4, <1>8 DEF Stores
  <2>5. after \in SUBSET Mapping BY <2>1, <1>3
  <2> QED BY <2>3, <2>4, <2>5, <1>5
<1> QED BY <1>7, <1>8

\* What is read of the payloads.
LEMMA PayloadsHoldMappings ==
    ASSUME NEW payloads, ValidMappings(payloads)
    PROVE  /\ Len(payloads) \in Nat /\ DOMAIN payloads = 1..Len(payloads)
           /\ \A k \in 1..Len(payloads) : payloads[k] \in Seq(Mapping)
<1>1. payloads \in Seq(Seq(Mapping)) BY DEF ValidMappings, Mapping
<1>2. Len(payloads) \in Nat /\ DOMAIN payloads = 1..Len(payloads) BY <1>1, LenProperties
<1>3. \A k \in 1..Len(payloads) : payloads[k] \in Seq(Mapping) BY <1>1, ElementOfSeq
<1> QED BY <1>2, <1>3

\* Payloads are imported one after the other.
LEMMA StoredAfterIs ==
    ASSUME NEW payloads, ValidMappings(payloads)
    PROVE  /\ StoredAfter(payloads) \in [0..Len(payloads) -> SUBSET Mapping]
           /\ StoredAfter(payloads)[0] = {}
           /\ \A n \in 1..Len(payloads) : StoredAfter(payloads)[n] = ImportMapping(StoredAfter(payloads)[n - 1], payloads[n])
<1>1. PICK N \in Nat : N = Len(payloads) BY PayloadsHoldMappings
<1>2. PICK U, start : U = SUBSET Mapping /\ start = {} OBVIOUS
<1>3. start \in U BY <1>2
<1>4. ASSUME NEW n \in 1..N, NEW c \in U PROVE ImportMapping(c, payloads[n]) \in U
  <2>1. payloads[n] \in Seq(Mapping) BY <1>1, PayloadsHoldMappings
  <2>2. c \in SUBSET Mapping BY <1>2
  <2> QED BY <2>1, <2>2, <1>2, ImportSettles
<1>5. PICK step : step = [q \in (1..N) \X U |-> ImportMapping(q[2], payloads[q[1]])] OBVIOUS
<1>6. step \in [(1..N) \X U -> U]
  <2>1. \A q \in (1..N) \X U : ImportMapping(q[2], payloads[q[1]]) \in U BY <1>4
  <2> QED BY <1>5, <2>1
<1>7. PICK f \in [0..N -> U] : \A n \in 0..N : f[n] = IF n = 0 THEN start ELSE step[<<n, f[n - 1]>>]
  <2>1. \E f \in [0..N -> U] : Steps(f, N, start, step) BY <1>3, <1>6, RecursionExists
  <2> QED BY <2>1 DEF Steps
<1>8. \A n \in 0..N : f[n] = IF n = 0 THEN start ELSE ImportMapping(f[n - 1], payloads[n])
  <2> SUFFICES ASSUME NEW n \in 0..N, n # 0 PROVE f[n] = ImportMapping(f[n - 1], payloads[n]) BY <1>7
  <2>1. n \in 1..N /\ n - 1 \in 0..N OBVIOUS
  <2>2. <<n, f[n - 1]>> \in (1..N) \X U BY <2>1
  <2>3. step[<<n, f[n - 1]>>] = ImportMapping(f[n - 1], payloads[n]) BY <2>2, <1>5
  <2> QED BY <2>3, <1>7
<1>9. f = [n \in 0..N |-> IF n = 0 THEN start ELSE ImportMapping(f[n - 1], payloads[n])] BY <1>8
<1>10. StoredAfter(payloads) = CHOOSE g : g = [n \in 0..N |-> IF n = 0 THEN start ELSE ImportMapping(g[n - 1], payloads[n])]
  BY <1>1, <1>2 DEF StoredAfter
<1>11. PICK h : h = StoredAfter(payloads) OBVIOUS
<1>12. h = [n \in 0..N |-> IF n = 0 THEN start ELSE ImportMapping(h[n - 1], payloads[n])] BY <1>9, <1>10, <1>11
<1>13. \A n \in 0..N : h[n] = IF n = 0 THEN start ELSE ImportMapping(h[n - 1], payloads[n]) BY <1>12
<1>14. \A n \in 1..N : n \in 0..N /\ n - 1 \in 0..N /\ n # 0 OBVIOUS
<1>15. ASSUME NEW n \in 1..N PROVE h[n] = ImportMapping(h[n - 1], payloads[n]) BY <1>13, <1>14
<1>16. h[0] = start BY <1>13
<1>17. \A n \in 0..N : h[n] \in U
  <2>1. PICK P : P = {n \in 0..N : h[n] \in U} OBVIOUS
  <2>2. 0 \in P BY <2>1, <1>3, <1>16
  <2>3. ASSUME NEW n \in 1..N, n - 1 \in P PROVE n \in P
    <3>1. h[n - 1] \in U BY <2>1, <2>3
    <3>2. h[n] \in U BY <3>1, <1>4, <1>15
    <3> QED BY <3>2, <2>1, <1>14
  <2>4. P \in SUBSET (0..N) BY <2>1
  <2>5. \A n \in 0..N : n \in P BY <2>2, <2>3, <2>4, UpToN
  <2> QED BY <2>1, <2>5
<1>18. h \in [0..N -> U] BY <1>12, <1>17
<1> QED BY <1>1, <1>2, <1>11, <1>15, <1>16, <1>18

\* A security id stands for one instrument at a time, and only a contradiction refuses a
\* payload.
LEMMA MappingsAreRight ==
    ASSUME NEW payloads, ValidMappings(payloads) PROVE MappingsAgree(payloads, ImportMappings(payloads))
<1>1. PICK N \in Nat : N = Len(payloads) BY PayloadsHoldMappings
<1>2. DOMAIN payloads = 1..N /\ \A k \in 1..N : payloads[k] \in Seq(Mapping) BY <1>1, PayloadsHoldMappings
<1>3. PICK f : f = StoredAfter(payloads) OBVIOUS
<1>4. /\ f \in [0..N -> SUBSET Mapping] /\ f[0] = {}
      /\ \A k \in 1..N : f[k] = ImportMapping(f[k - 1], payloads[k])
  BY <1>1, <1>3, StoredAfterIs
<1>5. PICK P : P = {k \in 0..N : Apart(f[k]) /\ \A j \in 1..k : Settled(payloads[j], f[k])} OBVIOUS
<1>6. 0 \in P
  <2>1. Apart(f[0]) BY <1>4 DEF Apart
  <2>2. 1..0 = {} OBVIOUS
  <2> QED BY <2>1, <2>2, <1>5
<1>7. ASSUME NEW k \in 1..N, k - 1 \in P PROVE k \in P
  <2>1. k \in 0..N /\ k - 1 \in 0..N OBVIOUS
  <2>2. \A j \in 1..k : j \in 1..(k - 1) \/ j = k OBVIOUS
  <2>3. PICK before, after : before = f[k - 1] /\ after = f[k] OBVIOUS
  <2>4. before \in SUBSET Mapping /\ after = ImportMapping(before, payloads[k]) BY <2>1, <2>3, <1>4
  <2>5. Apart(before) /\ \A j \in 1..(k - 1) : Settled(payloads[j], before) BY <2>3, <1>5, <1>7
  <2>6. before \subseteq after /\ (Apart(before) => Apart(after)) /\ Settled(payloads[k], after)
    <3>1. payloads[k] \in Seq(Mapping) BY <1>2
    <3> QED BY <3>1, <2>4, ImportSettles
  <2>7. \A j \in 1..(k - 1) : Settled(payloads[j], after) BY <2>5, <2>6 DEF Settled
  <2>8. Apart(after) /\ \A j \in 1..k : Settled(payloads[j], after) BY <2>2, <2>5, <2>6, <2>7
  <2> QED BY <2>1, <2>3, <2>8, <1>5
<1>8. P \in SUBSET (0..N) BY <1>5
<1>9. \A k \in 0..N : k \in P BY <1>6, <1>7, <1>8, UpToN
<1>10. PICK a : a = ImportMappings(payloads) OBVIOUS
<1>11. a = f[N] BY <1>1, <1>3, <1>10 DEF ImportMappings
<1>12. Apart(a) /\ (\A k \in 1..N : Settled(payloads[k], a)) /\ a \in SUBSET Mapping
  <2>1. N \in P BY <1>9
  <2> QED BY <2>1, <1>4, <1>5, <1>11
<1>13. ASSUME NEW m \in a, NEW n \in a, m.id = n.id, NEW t \in {m.from, n.from},
              m.from <= t, m.to = NoValue \/ t < m.to, n.from <= t, n.to = NoValue \/ t < n.to
       PROVE  m = n
  <2>1. m \in Mapping /\ n \in Mapping BY <1>12
  <2>2. NoValue \in Int BY DEF NoValue
  <2>3. m.from \in Int /\ n.from \in Int /\ m.to \in Int /\ n.to \in Int BY <2>1, <2>2 DEF Mapping
  <2>4. t \in Int BY <2>3
  <2>5. n.to = NoValue \/ m.from < n.to BY <2>3, <2>4, <1>13
  <2>6. m.to = NoValue \/ m.to > n.from BY <2>3, <2>4, <1>13
  <2>7. Overlaps(m, n) BY <2>5, <2>6, <1>13 DEF Overlaps
  <2> QED BY <2>7, <1>12 DEF Apart
<1> QED BY <1>2, <1>10, <1>12, <1>13 DEF MappingsAgree, Settled, Contradictory

-------------------------------------------------------------------------------
\* Position sizing. What the service adds up while it takes the contracts in their order is
\* the sum of what it approves, and no step of it takes a sum past its limit.

\* The exposures that an assessment has used so far.
UsedExposures(p) == [total : Int, underlying : [DOMAIN p.existingBy -> Int], available : Int]

\* Rounding to the cent adds less than a cent.
LEMMA MoneyIsNear ==
    ASSUME NEW t \in Nat
    PROVE  Money(t) \in Nat /\ Money(t) <= t + 1
<1>1. t % 2 \in 0..1 /\ t % 4 \in 0..3 OBVIOUS
<1>2. t % 4 = 1 => t >= 1 OBVIOUS
<1> QED BY <1>1, <1>2 DEF Money

\* As many lots as the budget holds, up to the hard limit.
LEMMA LotsFitTheBudget ==
    ASSUME NEW budget \in Int, NEW premium \in Nat \ {0}, NEW limit \in Nat \ {0}
    PROVE  LET lots == MaximumLots(budget, premium, limit)
           IN  /\ lots \in 0..limit
               /\ lots = 0 \/ premium * lots <= budget
               /\ lots = 0 => budget < premium
<1>1. CASE budget <= 0
  <2>1. MaximumLots(budget, premium, limit) = 0 BY <1>1 DEF MaximumLots
  <2> QED BY <2>1, <1>1
<1>2. CASE budget > 0
  <2>1. PICK q \in Int, r \in 0..(premium - 1) : budget \div premium = q /\ budget = premium * q + r
    <3>1. budget = premium * (budget \div premium) + (budget % premium) OBVIOUS
    <3>2. budget % premium \in 0..(premium - 1) /\ budget \div premium \in Int OBVIOUS
    <3> QED BY <3>1, <3>2
  <2>2. PICK lots : lots = Min({q, limit}) OBVIOUS
  <2>3. lots \in {q, limit} /\ lots <= q /\ lots <= limit
    <3>1. PICK S : S = {q, limit} OBVIOUS
    <3>2. S \in SUBSET Int /\ S # {} BY <3>1
    <3>3. IsFiniteSet(S)
      <4>1. IsFiniteSet({q}) BY FS_Singleton
      <4>2. IsFiniteSet({q} \cup {limit}) BY <4>1, FS_AddElement
      <4> QED BY <4>2, <3>1
    <3>4. Min(S) \in S /\ \A n \in S : Min(S) <= n BY <3>2, <3>3, LeastOfSet
    <3> QED BY <3>1, <3>4, <2>2
  <2>4. MaximumLots(budget, premium, limit) = lots BY <1>2, <2>1, <2>2 DEF MaximumLots
  <2>5. q >= 0
    <3>1. SUFFICES ASSUME q <= -1 PROVE FALSE BY <2>1
    <3>2. premium * q <= premium * (-1) BY <3>1, <2>1
    <3> QED BY <3>2, <2>1, <1>2
  <2>6. lots \in 0..limit BY <2>3, <2>5
  <2>7. premium * lots <= budget
    <3>1. premium * lots <= premium * q BY <2>3, <2>6, <2>5
    <3> QED BY <3>1, <2>1, <2>6
  <2>8. ASSUME lots = 0 PROVE budget < premium
    <3>1. q = 0 BY <2>8, <2>3
    <3> QED BY <3>1, <2>1
  <2> QED BY <2>4, <2>6, <2>7, <2>8
<1> QED BY <1>1, <1>2

\* What remains of a limit.
LEMMA BudgetFits ==
    ASSUME NEW p, ValidRequest(p), NEW used \in UsedExposures(p), NEW x \in DOMAIN p.existingBy
    PROVE  /\ Budget(p, used, x) \in Int
           /\ Budget(p, used, x) <= p.tradeLoss
           /\ Budget(p, used, x) <= p.totalLimit - used.total \/ Budget(p, used, x) <= 0
           /\ Budget(p, used, x) <= p.underlyingLimit - used.underlying[x] \/ Budget(p, used, x) <= 0
           /\ Budget(p, used, x) <= p.available - used.available \/ Budget(p, used, x) <= 0
           /\ \A premium \in Nat \ {0} : Budget(p, used, x) < premium =>
                 \/ p.tradeLoss < premium
                 \/ p.totalLimit - used.total < premium
                 \/ p.underlyingLimit - used.underlying[x] < premium
                 \/ p.available - used.available < premium
<1>1. PICK a, b, c, d : /\ a = p.tradeLoss /\ b = p.totalLimit - used.total
                        /\ c = p.underlyingLimit - used.underlying[x] /\ d = p.available - used.available
  OBVIOUS
<1>2. a \in Int /\ b \in Int /\ c \in Int /\ d \in Int
  <2>1. used.total \in Int /\ used.available \in Int /\ used.underlying \in [DOMAIN p.existingBy -> Int]
    BY DEF UsedExposures
  <2>2. used.underlying[x] \in Int BY <2>1
  <2>3. p.tradeLoss \in Nat /\ p.totalLimit \in Nat /\ p.underlyingLimit \in Nat /\ p.available \in Nat
    BY DEF ValidRequest
  <2>4. \A u, v \in Int : u - v \in Int OBVIOUS
  <2> QED BY <2>1, <2>2, <2>3, <2>4, <1>1
<1>3. PICK mb, mc, md : mb = Max({0, b}) /\ mc = Max({0, c}) /\ md = Max({0, d}) OBVIOUS
<1>4. ASSUME NEW n \in Int PROVE Max({0, n}) \in {0, n} /\ (n <= Max({0, n}))
  BY ExtremesOfTwo
<1>5. /\ mb \in {0, b} /\ b <= mb
      /\ mc \in {0, c} /\ c <= mc
      /\ md \in {0, d} /\ d <= md
  BY <1>2, <1>3, <1>4
<1>6. PICK S : S = {a, mb, mc, md} OBVIOUS
<1>7. S \in SUBSET Int /\ S # {} BY <1>6, <1>5, <1>2
<1>8. IsFiniteSet(S)
  <2>1. IsFiniteSet({a}) BY FS_Singleton
  <2>2. IsFiniteSet({a} \cup {mb}) BY <2>1, FS_AddElement
  <2>3. IsFiniteSet(({a} \cup {mb}) \cup {mc}) BY <2>2, FS_AddElement
  <2>4. IsFiniteSet((({a} \cup {mb}) \cup {mc}) \cup {md}) BY <2>3, FS_AddElement
  <2>5. S = (({a} \cup {mb}) \cup {mc}) \cup {md} BY <1>6
  <2> QED BY <2>4, <2>5
<1>9. PICK m : m = Min(S) OBVIOUS
<1>10. m \in S /\ \A n \in S : m <= n BY <1>7, <1>8, <1>9, LeastOfSet
<1>11. Budget(p, used, x) = m
  <2>1. S = {p.tradeLoss, Max({0, p.totalLimit - used.total}),
             Max({0, p.underlyingLimit - used.underlying[x]}), Max({0, p.available - used.available})}
    BY <1>1, <1>3, <1>6
  <2> QED BY <2>1, <1>9 DEF Budget
<1>12. m \in Int /\ m <= a /\ m <= mb /\ m <= mc /\ m <= md BY <1>6, <1>7, <1>10
<1>13. /\ m <= b \/ m <= 0
       /\ m <= c \/ m <= 0
       /\ m <= d \/ m <= 0
  BY <1>12, <1>5, <1>2
<1>14. ASSUME NEW premium \in Nat \ {0}, m < premium
       PROVE  a < premium \/ b < premium \/ c < premium \/ d < premium
  <2>1. m = a \/ m = mb \/ m = mc \/ m = md BY <1>6, <1>10
  <2>2. mb < premium => b < premium BY <1>5, <1>2
  <2>3. mc < premium => c < premium BY <1>5, <1>2
  <2>4. md < premium => d < premium BY <1>5, <1>2
  <2> QED BY <2>1, <2>2, <2>3, <2>4, <1>14
<1> QED BY <1>1, <1>11, <1>12, <1>13, <1>14

\* One contract is approved within its budget.
LEMMA DecisionIsWithinBudget ==
    ASSUME NEW p, ValidRequest(p), NEW used \in UsedExposures(p),
           NEW s \in [symbol : DOMAIN p.existingBy, premium : Nat \ {0}],
           NEW a, a = Assess(p, used, s)
    PROVE  /\ a.lots \in 0..p.maximumLots
           /\ a.exposure \in Nat
           /\ a.exposure = 0 \/ (Budget(p, used, s.symbol) > 0 /\ a.exposure <= Budget(p, used, s.symbol) + 1)
           /\ a.code # "NO_AFFORDABLE_LOTS"
<1>1. PICK budget : budget = Budget(p, used, s.symbol) OBVIOUS
<1>2. s.symbol \in DOMAIN p.existingBy /\ s.premium \in Nat \ {0} OBVIOUS
<1>3. /\ budget \in Int
      /\ budget < s.premium =>
           \/ p.tradeLoss < s.premium
           \/ p.totalLimit - used.total < s.premium
           \/ p.underlyingLimit - used.underlying[s.symbol] < s.premium
           \/ p.available - used.available < s.premium
  BY <1>1, <1>2, BudgetFits
<1>4. PICK lots : lots = MaximumLots(budget, s.premium, p.maximumLots) OBVIOUS
<1>5. /\ lots \in 0..p.maximumLots
      /\ lots = 0 \/ s.premium * lots <= budget
      /\ lots = 0 => budget < s.premium
  BY <1>2, <1>3, <1>4, LotsFitTheBudget DEF ValidRequest
<1>6. p.maximumLots \in Nat /\ p.tradeLoss \in Nat BY DEF ValidRequest
<1>7. CASE lots = 0
  <2>1. a = [lots |-> 0, exposure |-> 0, code |-> RejectionCode(p, used, s.premium, s.symbol)]
    BY <1>1, <1>4, <1>7 DEF Assess
  <2>2. p.tradeLoss < s.premium => s.premium > p.tradeLoss BY <1>2, <1>6
  <2>3. RejectionCode(p, used, s.premium, s.symbol) # "NO_AFFORDABLE_LOTS"
    BY <1>3, <1>5, <1>7, <2>2 DEF RejectionCode
  <2> QED BY <2>1, <2>3, <1>5, <1>7
<1>8. CASE lots # 0
  <2>1. a = [lots |-> lots, exposure |-> Money(s.premium * lots), code |-> "approved"]
    BY <1>1, <1>4, <1>8 DEF Assess
  <2>2. s.premium * lots \in Nat BY <1>2, <1>5, <1>6
  <2>3. Money(s.premium * lots) \in Nat /\ Money(s.premium * lots) <= s.premium * lots + 1
    BY <2>2, MoneyIsNear
  <2>4. PICK t \in Nat : t = s.premium * lots BY <2>2
  <2>5. t <= budget BY <2>4, <1>5, <1>8
  <2>6. Money(t) <= budget + 1 BY <2>3, <2>4, <2>5, <1>3
  <2>7. t > 0
    <3>1. lots >= 1 BY <1>5, <1>8, <1>6
    <3>2. s.premium * lots >= s.premium * 1 BY <3>1, <1>2, <1>5, <1>6
    <3> QED BY <3>2, <2>4, <1>2
  <2>8. budget > 0 BY <2>5, <2>7, <1>3
  <2> QED BY <2>1, <2>3, <2>4, <2>6, <2>8, <1>1, <1>5
<1> QED BY <1>7, <1>8

\* What an approved exposure changes of those used so far.
Adds(p, used, v, x, e) ==
    /\ v.total = used.total + e /\ v.available = used.available + e
    /\ \A y \in DOMAIN p.existingBy : v.underlying[y] = used.underlying[y] + IF y = x THEN e ELSE 0

\* What the use of an exposure adds, and to which of the sums.
LEMMA UseAdds ==
    ASSUME NEW p, NEW used \in UsedExposures(p), NEW x \in DOMAIN p.existingBy, NEW e \in Int,
           NEW v, v = Use(used, x, e)
    PROVE  v \in UsedExposures(p) /\ Adds(p, used, v, x, e)
<1>1. PICK S : S = DOMAIN p.existingBy OBVIOUS
<1>2. used.total \in Int /\ used.available \in Int /\ used.underlying \in [S -> Int]
  BY <1>1 DEF UsedExposures
<1>3. used = [total |-> used.total, underlying |-> used.underlying, available |-> used.available]
  BY DEF UsedExposures
<1>4. PICK u : u = [used.underlying EXCEPT ![x] = used.underlying[x] + e] OBVIOUS
<1>5. v = [total |-> used.total + e, underlying |-> u, available |-> used.available + e]
  BY <1>3, <1>4 DEF Use
<1>6. used.underlying[x] \in Int BY <1>1, <1>2
<1>7. u \in [S -> Int] /\ \A y \in S : u[y] = IF y = x THEN used.underlying[x] + e ELSE used.underlying[y]
  BY <1>1, <1>2, <1>4, <1>6
<1>8. \A y \in S : used.underlying[y] \in Int BY <1>2
<1>9. \A y \in S : u[y] = used.underlying[y] + IF y = x THEN e ELSE 0 BY <1>7, <1>8
<1>10. used.total + e \in Int /\ used.available + e \in Int BY <1>2
<1>11. v \in UsedExposures(p) BY <1>1, <1>5, <1>7, <1>10 DEF UsedExposures
<1> QED BY <1>1, <1>5, <1>9, <1>11 DEF Adds

\* What is read of the selections.
LEMMA SelectionsAreTyped ==
    ASSUME NEW p, ValidRequest(p)
    PROVE  /\ Len(p.selections) \in Nat
           /\ \A n \in 1..Len(p.selections) : /\ p.selections[n] \in [symbol : DOMAIN p.existingBy, premium : Nat \ {0}]
                                              /\ p.selections[n].symbol \in DOMAIN p.existingBy
<1>1. PICK T : T = [symbol : DOMAIN p.existingBy, premium : Nat \ {0}] OBVIOUS
<1>2. p.selections \in Seq(T) BY <1>1 DEF ValidRequest
<1>3. Len(p.selections) \in Nat /\ \A n \in 1..Len(p.selections) : p.selections[n] \in T
  BY <1>2, LenProperties, ElementOfSeq
<1>4. \A s \in T : s.symbol \in DOMAIN p.existingBy BY <1>1
<1> QED BY <1>1, <1>3, <1>4

\* How the exposures start, and one selection more.
UsedStart(p) == [total |-> p.existing, underlying |-> p.existingBy, available |-> 0]
UsedStep(p, n, used) == Use(used, p.selections[n].symbol, Assess(p, used, p.selections[n]).exposure)

\* The recursion by which the service adds up what it approved has the meaning it reads.
LEMMA UsedAfterIs ==
    ASSUME NEW p, ValidRequest(p)
    PROVE  /\ UsedAfter(p) \in [0..Len(p.selections) -> UsedExposures(p)]
           /\ UsedAfter(p)[0] = UsedStart(p)
           /\ \A n \in 1..Len(p.selections) : UsedAfter(p)[n] = UsedStep(p, n, UsedAfter(p)[n - 1])
<1>1. PICK N : N = Len(p.selections) OBVIOUS
<1>2. N \in Nat BY <1>1, SelectionsAreTyped
<1>3. PICK U : U = UsedExposures(p) OBVIOUS
<1>4. UsedStart(p) \in U
  <2>1. p.existing \in Int /\ p.existingBy \in [DOMAIN p.existingBy -> Int] /\ 0 \in Int BY DEF ValidRequest
  <2> QED BY <2>1, <1>3 DEF UsedStart, UsedExposures
<1>5. ASSUME NEW n \in 1..N, NEW used \in U PROVE UsedStep(p, n, used) \in U
  <2>1. PICK s : s = p.selections[n] OBVIOUS
  <2>2. s \in [symbol : DOMAIN p.existingBy, premium : Nat \ {0}] /\ s.symbol \in DOMAIN p.existingBy
    BY <1>1, <2>1, SelectionsAreTyped
  <2>3. PICK a : a = Assess(p, used, s) OBVIOUS
  <2>4. a.exposure \in Int BY <1>3, <2>2, <2>3, DecisionIsWithinBudget
  <2>5. PICK v : v = Use(used, s.symbol, a.exposure) OBVIOUS
  <2>6. v \in U BY <1>3, <2>2, <2>4, <2>5, UseAdds
  <2> QED BY <2>1, <2>3, <2>5, <2>6 DEF UsedStep
<1>6. PICK step : step = [q \in (1..N) \X U |-> UsedStep(p, q[1], q[2])] OBVIOUS
<1>7. step \in [(1..N) \X U -> U]
  <2>1. \A q \in (1..N) \X U : UsedStep(p, q[1], q[2]) \in U BY <1>5
  <2> QED BY <1>6, <2>1
<1>8. PICK f \in [0..N -> U] : \A n \in 0..N : f[n] = IF n = 0 THEN UsedStart(p) ELSE step[<<n, f[n - 1]>>]
  <2>1. PICK start : start = UsedStart(p) OBVIOUS
  <2>2. start \in U BY <2>1, <1>4
  <2>3. \E f \in [0..N -> U] : Steps(f, N, start, step) BY <2>2, <1>2, <1>7, RecursionExists
  <2> QED BY <2>1, <2>3 DEF Steps
<1>9. \A n \in 0..N : f[n] = IF n = 0 THEN UsedStart(p) ELSE UsedStep(p, n, f[n - 1])
  <2> SUFFICES ASSUME NEW n \in 0..N, n # 0 PROVE f[n] = UsedStep(p, n, f[n - 1]) BY <1>8
  <2>1. n \in 1..N /\ n - 1 \in 0..N BY <1>2
  <2>2. <<n, f[n - 1]>> \in (1..N) \X U BY <2>1
  <2>3. step[<<n, f[n - 1]>>] = UsedStep(p, n, f[n - 1]) BY <2>2, <1>6
  <2> QED BY <2>3, <1>8
<1>10. f = [n \in 0..N |-> IF n = 0 THEN UsedStart(p) ELSE UsedStep(p, n, f[n - 1])] BY <1>9
<1>11. UsedAfter(p) = CHOOSE g : g = [n \in 0..N |-> IF n = 0 THEN UsedStart(p) ELSE UsedStep(p, n, g[n - 1])]
  BY <1>1 DEF UsedAfter, UsedStart, UsedStep
<1>12. PICK h : h = UsedAfter(p) OBVIOUS
<1>13. h = [n \in 0..N |-> IF n = 0 THEN UsedStart(p) ELSE UsedStep(p, n, h[n - 1])]
  BY <1>10, <1>11, <1>12
<1>14. \A n \in 0..N : h[n] = IF n = 0 THEN UsedStart(p) ELSE UsedStep(p, n, h[n - 1]) BY <1>13
<1>15. \A n \in 0..N : h[n] \in U
  <2>1. PICK P : P = {n \in 0..N : h[n] \in U} OBVIOUS
  <2>2. 0 \in P BY <2>1, <1>14, <1>4, <1>2
  <2>3. ASSUME NEW n \in 1..N, n - 1 \in P PROVE n \in P
    <3>1. h[n - 1] \in U BY <2>1, <2>3
    <3>2. UsedStep(p, n, h[n - 1]) \in U BY <3>1, <1>5
    <3>3. n \in 0..N /\ n # 0 BY <1>2
    <3> QED BY <3>2, <3>3, <2>1, <1>14
  <2>4. P \in SUBSET (0..N) BY <2>1
  <2>5. \A n \in 0..N : n \in P BY <1>2, <2>2, <2>3, <2>4, UpToN
  <2> QED BY <2>1, <2>5
<1>16. h \in [0..N -> U] BY <1>13, <1>15
<1>17. h[0] = UsedStart(p) /\ \A n \in 1..N : h[n] = UsedStep(p, n, h[n - 1])
  <2>1. 0 \in 0..N /\ \A n \in 1..N : n \in 0..N /\ n # 0 BY <1>2
  <2> QED BY <2>1, <1>14
<1> QED BY <1>1, <1>3, <1>12, <1>16, <1>17

\* What one selection more adds to them.
SpentStep(p, sized, symbols, n, spent) ==
    spent + IF p.selections[n].symbol \in symbols THEN sized[n].exposure ELSE 0

\* The exposures approved for some symbols, from one selection to the next.
LEMMA SpentAfterIs ==
    ASSUME NEW p, ValidRequest(p), NEW sized, NEW symbols,
           \A n \in 1..Len(p.selections) : sized[n].exposure \in Int
    PROVE  LET spent == SpentAfter(p, sized, symbols)
           IN  /\ spent \in [0..Len(p.selections) -> Int]
               /\ spent[0] = 0
               /\ \A n \in 1..Len(p.selections) : spent[n] = SpentStep(p, sized, symbols, n, spent[n - 1])
<1>1. PICK N : N = Len(p.selections) OBVIOUS
<1>2. N \in Nat BY <1>1, SelectionsAreTyped
<1>3. ASSUME NEW n \in 1..N, NEW c \in Int PROVE SpentStep(p, sized, symbols, n, c) \in Int
  <2>1. PICK e \in Int : e = IF p.selections[n].symbol \in symbols THEN sized[n].exposure ELSE 0 BY <1>1
  <2>2. c + e \in Int OBVIOUS
  <2> QED BY <2>1, <2>2 DEF SpentStep
<1>4. PICK step : step = [q \in (1..N) \X Int |-> SpentStep(p, sized, symbols, q[1], q[2])] OBVIOUS
<1>5. step \in [(1..N) \X Int -> Int]
  <2>1. \A q \in (1..N) \X Int : SpentStep(p, sized, symbols, q[1], q[2]) \in Int BY <1>3
  <2> QED BY <1>4, <2>1
<1>6. PICK f \in [0..N -> Int] : \A n \in 0..N : f[n] = IF n = 0 THEN 0 ELSE step[<<n, f[n - 1]>>]
  <2>1. PICK U, start : U = Int /\ start = 0 OBVIOUS
  <2>2. start \in U /\ step \in [(1..N) \X U -> U] BY <2>1, <1>5
  <2>3. \E f \in [0..N -> U] : Steps(f, N, start, step) BY <2>2, <1>2, RecursionExists
  <2> QED BY <2>1, <2>3 DEF Steps
<1>7. \A n \in 0..N : f[n] = IF n = 0 THEN 0 ELSE SpentStep(p, sized, symbols, n, f[n - 1])
  <2> SUFFICES ASSUME NEW n \in 0..N, n # 0 PROVE f[n] = SpentStep(p, sized, symbols, n, f[n - 1]) BY <1>6
  <2>1. n \in 1..N /\ n - 1 \in 0..N BY <1>2
  <2>2. <<n, f[n - 1]>> \in (1..N) \X Int BY <2>1
  <2>3. step[<<n, f[n - 1]>>] = SpentStep(p, sized, symbols, n, f[n - 1]) BY <2>2, <1>4
  <2> QED BY <2>3, <1>6
<1>8. f = [n \in 0..N |-> IF n = 0 THEN 0 ELSE SpentStep(p, sized, symbols, n, f[n - 1])] BY <1>7
<1>9. SpentAfter(p, sized, symbols) =
        CHOOSE g : g = [n \in 0..N |-> IF n = 0 THEN 0 ELSE SpentStep(p, sized, symbols, n, g[n - 1])]
  BY <1>1 DEF SpentAfter, SpentStep
<1>10. PICK h : h = SpentAfter(p, sized, symbols) OBVIOUS
<1>11. h = [n \in 0..N |-> IF n = 0 THEN 0 ELSE SpentStep(p, sized, symbols, n, h[n - 1])]
  BY <1>8, <1>9, <1>10
<1>12. \A n \in 0..N : h[n] = IF n = 0 THEN 0 ELSE SpentStep(p, sized, symbols, n, h[n - 1]) BY <1>11
<1>13. \A n \in 0..N : h[n] \in Int
  <2>1. PICK P : P = {n \in 0..N : h[n] \in Int} OBVIOUS
  <2>2. 0 \in P BY <2>1, <1>12, <1>2
  <2>3. ASSUME NEW n \in 1..N, n - 1 \in P PROVE n \in P
    <3>1. h[n - 1] \in Int BY <2>1, <2>3
    <3>2. SpentStep(p, sized, symbols, n, h[n - 1]) \in Int BY <3>1, <1>3
    <3>3. n \in 0..N /\ n # 0 BY <1>2
    <3> QED BY <3>2, <3>3, <2>1, <1>12
  <2>4. P \in SUBSET (0..N) BY <2>1
  <2>5. \A n \in 0..N : n \in P BY <1>2, <2>2, <2>3, <2>4, UpToN
  <2> QED BY <2>1, <2>5
<1>14. h \in [0..N -> Int] BY <1>11, <1>13
<1>15. h[0] = 0 /\ \A n \in 1..N : h[n] = SpentStep(p, sized, symbols, n, h[n - 1])
  <2>1. 0 \in 0..N /\ \A n \in 1..N : n \in 0..N /\ n # 0 BY <1>2
  <2> QED BY <2>1, <1>12
<1> QED BY <1>1, <1>10, <1>14, <1>15

\* What was used after a selection is what was in use before and what was approved since.
Accounts(p, sized, symbols, n) ==
    /\ UsedAfter(p)[n].total = p.existing + SpentAfter(p, sized, symbols)[n]
    /\ UsedAfter(p)[n].available = SpentAfter(p, sized, symbols)[n]
    /\ \A x \in DOMAIN p.existingBy :
          UsedAfter(p)[n].underlying[x] = p.existingBy[x] + SpentAfter(p, sized, {x})[n]

\* What the service has added up after each selection is what it approved up to there.
LEMMA UsedIsSpent ==
    ASSUME NEW p, ValidRequest(p), NEW sized, sized = AssessRisk(p),
           NEW symbols, \A n \in 1..Len(p.selections) : p.selections[n].symbol \in symbols
    PROVE  \A n \in 0..Len(p.selections) : Accounts(p, sized, symbols, n)
<1>1. PICK N : N = Len(p.selections) OBVIOUS
<1>2. N \in Nat BY <1>1, SelectionsAreTyped
<1>3. PICK D : D = DOMAIN p.existingBy OBVIOUS
<1>4. PICK u : u = UsedAfter(p) OBVIOUS
<1>5. /\ u \in [0..N -> UsedExposures(p)] /\ u[0] = UsedStart(p)
      /\ \A n \in 1..N : u[n] = UsedStep(p, n, u[n - 1])
  BY <1>1, <1>4, UsedAfterIs
<1>6. \A n \in 1..N : p.selections[n].symbol \in D BY <1>1, <1>3, SelectionsAreTyped
<1>7. \A n \in 1..N : sized[n] = Assess(p, u[n - 1], p.selections[n]) BY <1>1, <1>4 DEF AssessRisk
<1>8. ASSUME NEW n \in 1..N PROVE sized[n].exposure \in Nat
  <2>1. PICK s \in [symbol : DOMAIN p.existingBy, premium : Nat \ {0}] : s = p.selections[n] BY <1>1, SelectionsAreTyped
  <2>2. n - 1 \in 0..N BY <1>2
  <2>3. PICK v \in UsedExposures(p) : v = u[n - 1] BY <2>2, <1>5
  <2>4. PICK a : a = Assess(p, v, s) OBVIOUS
  <2>5. a.exposure \in Nat BY <2>4, DecisionIsWithinBudget
  <2> QED BY <2>1, <2>3, <2>4, <2>5, <1>7
<1>9. ASSUME NEW n \in 1..N
      PROVE  LET s == p.selections[n]
             IN  /\ u[n].total = u[n - 1].total + sized[n].exposure
                 /\ u[n].available = u[n - 1].available + sized[n].exposure
                 /\ \A y \in D : u[n].underlying[y] = u[n - 1].underlying[y] + IF y = s.symbol THEN sized[n].exposure ELSE 0
  <2>1. PICK x \in D : x = p.selections[n].symbol BY <1>6
  <2>2. n - 1 \in 0..N BY <1>2
  <2>3. PICK used \in UsedExposures(p) : used = u[n - 1] BY <2>2, <1>5
  <2>4. PICK e \in Int : e = sized[n].exposure BY <1>8
  <2>5. u[n] = Use(used, x, e) BY <2>1, <2>3, <2>4, <1>5, <1>7 DEF UsedStep
  <2>6. PICK v : v = u[n] OBVIOUS
  <2>7. /\ v.total = used.total + e /\ v.available = used.available + e
        /\ \A y \in D : v.underlying[y] = used.underlying[y] + IF y = x THEN e ELSE 0
    <3>1. x \in DOMAIN p.existingBy BY <1>3
    <3>2. v = Use(used, x, e) BY <2>5, <2>6
    <3>3. Adds(p, used, v, x, e) BY <3>1, <3>2, <2>3, <2>4, UseAdds
    <3> QED BY <3>3, <1>3 DEF Adds
  <2> QED BY <2>1, <2>3, <2>4, <2>6, <2>7
<1>10. ASSUME NEW S
       PROVE  /\ SpentAfter(p, sized, S) \in [0..N -> Int] /\ SpentAfter(p, sized, S)[0] = 0
              /\ \A n \in 1..N : SpentAfter(p, sized, S)[n] =
                    SpentAfter(p, sized, S)[n - 1] + IF p.selections[n].symbol \in S THEN sized[n].exposure ELSE 0
  <2>1. \A n \in 1..Len(p.selections) : sized[n].exposure \in Int BY <1>1, <1>8
  <2> QED BY <2>1, <1>1, SpentAfterIs DEF SpentStep
<1> DEFINE Total(n) == u[n].total = p.existing + SpentAfter(p, sized, symbols)[n]
           Available(n) == u[n].available = SpentAfter(p, sized, symbols)[n]
           Of(n, x) == u[n].underlying[x] = p.existingBy[x] + SpentAfter(p, sized, {x})[n]
<1>11. PICK P : P = {n \in 0..N : Total(n) /\ Available(n) /\ \A x \in D : Of(n, x)} OBVIOUS
<1>12. 0 \in P
  <2>1. u[0].total = p.existing /\ u[0].available = 0 /\ u[0].underlying = p.existingBy BY <1>5 DEF UsedStart
  <2>2. p.existing \in Int /\ \A x \in D : p.existingBy[x] \in Int BY <1>3 DEF ValidRequest
  <2>3. Total(0) /\ Available(0) BY <2>1, <2>2, <1>10
  <2>4. \A x \in D : Of(0, x) BY <2>1, <2>2, <1>10
  <2>5. 0 \in 0..N BY <1>2
  <2> HIDE DEF Total, Available, Of
  <2> QED BY <2>3, <2>4, <2>5, <1>11
<1>13. ASSUME NEW n \in 1..N, n - 1 \in P PROVE n \in P
  <2>1. n - 1 \in 0..N /\ n \in 0..N BY <1>2
  <2>2. Total(n - 1) /\ Available(n - 1) /\ \A x \in D : Of(n - 1, x) BY <1>11, <1>13
  <2>3. PICK e \in Int : e = sized[n].exposure BY <1>8
  <2>4. p.existing \in Int /\ \A x \in D : p.existingBy[x] \in Int BY <1>3 DEF ValidRequest
  <2>5. PICK c \in Int : c = SpentAfter(p, sized, symbols)[n - 1] BY <2>1, <1>10
  <2>6. SpentAfter(p, sized, symbols)[n] = c + e BY <2>3, <2>5, <1>1, <1>10
  <2>7. Total(n)
    <3>1. u[n].total = (p.existing + c) + e BY <2>2, <2>3, <2>5, <1>9
    <3> QED BY <3>1, <2>4, <2>6
  <2>8. Available(n) BY <2>2, <2>3, <2>5, <2>6, <1>9
  <2>9. ASSUME NEW x \in D PROVE Of(n, x)
    <3>1. PICK d \in Int : d = SpentAfter(p, sized, {x})[n - 1]
      <4>1. PICK S : S = {x} OBVIOUS
      <4>2. SpentAfter(p, sized, S) \in [0..N -> Int] BY <1>10
      <4>3. SpentAfter(p, sized, S)[n - 1] \in Int BY <2>1, <4>2
      <4> QED BY <4>1, <4>3
    <3>2. PICK g \in Int : g = IF x = p.selections[n].symbol THEN e ELSE 0 OBVIOUS
    <3>3. SpentAfter(p, sized, {x})[n] = d + g BY <3>1, <3>2, <2>3, <1>10
    <3>4. u[n].underlying[x] = (p.existingBy[x] + d) + g BY <2>2, <2>3, <3>1, <3>2, <1>9
    <3> QED BY <3>3, <3>4, <2>4
  <2> HIDE DEF Total, Available, Of
  <2> QED BY <2>1, <2>7, <2>8, <2>9, <1>11
<1>14. P \in SUBSET (0..N) BY <1>11
<1>15. \A n \in 0..N : n \in P BY <1>2, <1>12, <1>13, <1>14, UpToN
<1> QED BY <1>1, <1>3, <1>4, <1>11, <1>15 DEF Accounts

\* No selection takes an exposure used so far past its limit by more than the rounding.
LEMMA UsesStayWithinLimits ==
    ASSUME NEW p, ValidRequest(p)
    PROVE  \A n \in 0..Len(p.selections) :
              LET used == UsedAfter(p)[n]
              IN  /\ used.total <= p.existing \/ used.total <= p.totalLimit + 1
                  /\ used.available <= p.available + 1
                  /\ \A x \in DOMAIN p.existingBy :
                        used.underlying[x] <= p.existingBy[x] \/ used.underlying[x] <= p.underlyingLimit + 1
<1>1. PICK N : N = Len(p.selections) OBVIOUS
<1>2. N \in Nat BY <1>1, SelectionsAreTyped
<1>3. PICK D : D = DOMAIN p.existingBy OBVIOUS
<1>4. PICK u : u = UsedAfter(p) OBVIOUS
<1>5. /\ u \in [0..N -> UsedExposures(p)] /\ u[0] = UsedStart(p)
      /\ \A n \in 1..N : u[n] = UsedStep(p, n, u[n - 1])
  BY <1>1, <1>4, UsedAfterIs
<1>6. /\ p.existing \in Nat /\ p.available \in Nat /\ p.totalLimit \in Nat /\ p.underlyingLimit \in Nat
      /\ \A x \in D : p.existingBy[x] \in Nat
  BY <1>3 DEF ValidRequest
<1> DEFINE Total(v) == v.total <= p.existing \/ v.total <= p.totalLimit + 1
           Available(v) == v.available <= p.available + 1
           Of(v, x) == v.underlying[x] <= p.existingBy[x] \/ v.underlying[x] <= p.underlyingLimit + 1
<1>7. PICK P : P = {n \in 0..N : Total(u[n]) /\ Available(u[n]) /\ \A x \in D : Of(u[n], x)} OBVIOUS
<1>8. 0 \in P
  <2>1. u[0].total = p.existing /\ u[0].available = 0 /\ u[0].underlying = p.existingBy BY <1>5 DEF UsedStart
  <2>2. Total(u[0]) /\ Available(u[0]) BY <2>1, <1>6
  <2>3. \A x \in D : Of(u[0], x) BY <2>1, <1>6
  <2>4. 0 \in 0..N BY <1>2
  <2> HIDE DEF Total, Available, Of
  <2> QED BY <2>2, <2>3, <2>4, <1>7
<1>9. ASSUME NEW n \in 1..N, n - 1 \in P PROVE n \in P
  <2>1. n - 1 \in 0..N /\ n \in 0..N BY <1>2
  <2>2. PICK used \in UsedExposures(p) : used = u[n - 1] BY <2>1, <1>5
  <2>3. Total(used) /\ Available(used) /\ \A x \in D : Of(used, x) BY <1>7, <1>9, <2>2
  <2>4. PICK s \in [symbol : DOMAIN p.existingBy, premium : Nat \ {0}] : s = p.selections[n] BY <1>1, SelectionsAreTyped
  <2>5. PICK a : a = Assess(p, used, s) OBVIOUS
  <2>6. a.exposure \in Nat /\ (a.exposure = 0 \/ (Budget(p, used, s.symbol) > 0 /\ a.exposure <= Budget(p, used, s.symbol) + 1))
    BY <2>5, DecisionIsWithinBudget
  <2>7. PICK z \in D : z = s.symbol BY <1>3
  <2>8. PICK budget \in Int : budget = Budget(p, used, z) BY <2>7, <1>3, BudgetFits
  <2>9. PICK e \in Nat : e = a.exposure BY <2>6
  <2>10. e = 0 \/ (budget > 0 /\ e <= budget + 1) BY <2>6, <2>7, <2>8, <2>9
  <2>11. PICK v : v = u[n] OBVIOUS
  <2>12. v = Use(used, z, e) BY <1>5, <2>2, <2>4, <2>5, <2>7, <2>9, <2>11 DEF UsedStep
  <2>13. /\ v.total = used.total + e /\ v.available = used.available + e
         /\ \A y \in D : v.underlying[y] = used.underlying[y] + IF y = z THEN e ELSE 0
    <3>1. z \in DOMAIN p.existingBy BY <1>3
    <3>2. Adds(p, used, v, z, e) BY <3>1, <2>2, <2>9, <2>12, UseAdds
    <3> QED BY <3>2, <1>3 DEF Adds
  <2>14. used.total \in Int /\ used.available \in Int /\ \A x \in D : used.underlying[x] \in Int
    BY <1>3 DEF UsedExposures
  <2>15. Total(v)
    <3>1. budget <= p.totalLimit - used.total \/ budget <= 0 BY <2>7, <2>8, <1>3, BudgetFits
    <3>2. used.total <= p.existing \/ used.total <= p.totalLimit + 1 BY <2>3
    <3>3. e = 0 \/ e <= p.totalLimit - used.total + 1 BY <3>1, <2>10, <2>14, <1>6
    <3>4. used.total + e <= p.existing \/ used.total + e <= p.totalLimit + 1 BY <3>2, <3>3, <2>14, <1>6
    <3> QED BY <3>4, <2>13
  <2>16. Available(v)
    <3>1. budget <= p.available - used.available \/ budget <= 0 BY <2>7, <2>8, <1>3, BudgetFits
    <3>2. used.available <= p.available + 1 BY <2>3
    <3>3. e = 0 \/ e <= p.available - used.available + 1 BY <3>1, <2>10, <2>14, <1>6
    <3>4. used.available + e <= p.available + 1 BY <3>2, <3>3, <2>14, <1>6
    <3> QED BY <3>4, <2>13
  <2>17. ASSUME NEW x \in D PROVE Of(v, x)
    <3>1. PICK w \in Int : w = used.underlying[x] BY <2>14
    <3>2. w <= p.existingBy[x] \/ w <= p.underlyingLimit + 1 BY <2>3, <3>1
    <3>3. CASE x = z
      <4>1. budget <= p.underlyingLimit - w \/ budget <= 0 BY <3>1, <3>3, <2>7, <2>8, <1>3, BudgetFits
      <4>2. e = 0 \/ e <= p.underlyingLimit - w + 1 BY <4>1, <2>10, <1>6
      <4>3. w + e <= p.existingBy[x] \/ w + e <= p.underlyingLimit + 1 BY <4>2, <3>2, <1>6
      <4>4. v.underlying[x] = w + e BY <2>13, <3>1, <3>3
      <4> QED BY <4>3, <4>4
    <3>4. CASE x # z
      <4>1. v.underlying[x] = w BY <2>13, <3>1, <3>4
      <4> QED BY <4>1, <3>2
    <3> QED BY <3>3, <3>4
  <2> HIDE DEF Total, Available, Of
  <2> QED BY <2>1, <2>11, <2>15, <2>16, <2>17, <1>7
<1>14. P \in SUBSET (0..N) BY <1>7
<1>15. \A n \in 0..N : n \in P BY <1>2, <1>8, <1>9, <1>14, UpToN
<1> QED BY <1>1, <1>3, <1>4, <1>7, <1>15

\* Position sizing for any contracts in any order.
LEMMA AssessmentStaysWithinLimits ==
    ASSUME NEW p, ValidRequest(p), NEW sized, sized = AssessRisk(p),
           NEW symbols, symbols = {s.symbol : s \in Range(p.selections)}
    PROVE  /\ p.existing + Spent(p, sized, symbols) <= Max({p.existing, p.totalLimit + 1})
           /\ Spent(p, sized, symbols) <= p.available + 1
           /\ \A x \in symbols :
                 p.existingBy[x] + Spent(p, sized, {x}) <= Max({p.existingBy[x], p.underlyingLimit + 1})
           /\ \A n \in DOMAIN sized : /\ sized[n].exposure <= p.tradeLoss + 1
                                          /\ sized[n].lots <= p.maximumLots
                                          /\ sized[n].code # "NO_AFFORDABLE_LOTS"
<1>1. PICK N : N = Len(p.selections) OBVIOUS
<1>2. N \in Nat /\ N \in 0..N BY <1>1, SelectionsAreTyped
<1>3. PICK D : D = DOMAIN p.existingBy OBVIOUS
<1>4. \A n \in 1..N : p.selections[n].symbol \in symbols
  <2>1. DOMAIN p.selections = 1..N
    <3>1. PICK T : p.selections \in Seq(T) BY DEF ValidRequest
    <3> QED BY <3>1, <1>1, LenProperties
  <2> QED BY <2>1 DEF Range
<1>5. symbols \subseteq D
  <2>1. DOMAIN p.selections = 1..N
    <3>1. PICK T : p.selections \in Seq(T) BY DEF ValidRequest
    <3> QED BY <3>1, <1>1, LenProperties
  <2>2. \A n \in 1..N : p.selections[n].symbol \in D BY <1>1, <1>3, SelectionsAreTyped
  <2> QED BY <2>1, <2>2 DEF Range
<1>6. PICK u : u = UsedAfter(p) OBVIOUS
<1>7. /\ u[N].total = p.existing + SpentAfter(p, sized, symbols)[N]
      /\ u[N].available = SpentAfter(p, sized, symbols)[N]
      /\ \A x \in D : u[N].underlying[x] = p.existingBy[x] + SpentAfter(p, sized, {x})[N]
  <2>1. \A n \in 1..Len(p.selections) : p.selections[n].symbol \in symbols BY <1>1, <1>4
  <2>2. \A n \in 0..Len(p.selections) : Accounts(p, sized, symbols, n)
    BY <2>1, UsedIsSpent
  <2> QED BY <2>2, <1>1, <1>2, <1>3, <1>6 DEF Accounts
<1>8. /\ u[N].total <= p.existing \/ u[N].total <= p.totalLimit + 1
      /\ u[N].available <= p.available + 1
      /\ \A x \in D : u[N].underlying[x] <= p.existingBy[x] \/ u[N].underlying[x] <= p.underlyingLimit + 1
  BY <1>1, <1>2, <1>3, <1>6, UsesStayWithinLimits
<1>9. u \in [0..N -> UsedExposures(p)] BY <1>1, <1>6, UsedAfterIs
<1>10. u[N].total \in Int /\ u[N].underlying \in [D -> Int]
  BY <1>2, <1>3, <1>9 DEF UsedExposures
<1>11. /\ p.existing \in Int /\ p.totalLimit + 1 \in Int /\ p.underlyingLimit + 1 \in Int
       /\ \A x \in D : p.existingBy[x] \in Int
  BY <1>3 DEF ValidRequest
<1>12. \A x \in symbols : u[N].underlying[x] \in Int /\ p.existingBy[x] \in Int BY <1>5, <1>10, <1>11
<1>13. u[N].total <= Max({p.existing, p.totalLimit + 1}) BY <1>8, <1>10, <1>11, ExtremesOfTwo
<1>14. ASSUME NEW x \in symbols
       PROVE  u[N].underlying[x] <= Max({p.existingBy[x], p.underlyingLimit + 1})
  <2>1. PICK a \in Int : a = p.existingBy[x] BY <1>12
  <2>2. PICK c \in Int : c = u[N].underlying[x] BY <1>12
  <2>3. c <= a \/ c <= p.underlyingLimit + 1 BY <2>1, <2>2, <1>5, <1>8
  <2>4. c <= Max({a, p.underlyingLimit + 1}) BY <2>3, <1>11, ExtremesOfTwo
  <2> QED BY <2>1, <2>2, <2>4
<1>15. ASSUME NEW n \in DOMAIN sized
       PROVE  /\ sized[n].exposure <= p.tradeLoss + 1 /\ sized[n].lots <= p.maximumLots
              /\ sized[n].code # "NO_AFFORDABLE_LOTS"
  <2>1. n \in 1..N /\ sized[n] = Assess(p, u[n - 1], p.selections[n])
    BY <1>1, <1>6 DEF AssessRisk
  <2>2. PICK s \in [symbol : DOMAIN p.existingBy, premium : Nat \ {0}] : s = p.selections[n]
    BY <2>1, <1>1, SelectionsAreTyped
  <2>3. n - 1 \in 0..N BY <2>1, <1>2
  <2>4. PICK used \in UsedExposures(p) : used = u[n - 1] BY <2>3, <1>9
  <2>5. PICK a : a = Assess(p, used, s) OBVIOUS
  <2>6. /\ a.lots \in 0..p.maximumLots /\ a.exposure \in Nat
        /\ a.exposure = 0 \/ (Budget(p, used, s.symbol) > 0 /\ a.exposure <= Budget(p, used, s.symbol) + 1)
        /\ a.code # "NO_AFFORDABLE_LOTS"
    BY <2>5, DecisionIsWithinBudget
  <2>7. s.symbol \in DOMAIN p.existingBy OBVIOUS
  <2>8. PICK budget \in Int : budget = Budget(p, used, s.symbol) /\ budget <= p.tradeLoss BY <2>7, BudgetFits
  <2>9. p.tradeLoss \in Nat /\ p.maximumLots \in Nat BY DEF ValidRequest
  <2>10. a.exposure <= p.tradeLoss + 1 BY <2>6, <2>8, <2>9
  <2>11. a.lots <= p.maximumLots BY <2>6, <2>9
  <2> QED BY <2>1, <2>2, <2>4, <2>5, <2>6, <2>10, <2>11
<1> QED BY <1>1, <1>5, <1>7, <1>8, <1>13, <1>14, <1>15 DEF Spent
===================================================================================
