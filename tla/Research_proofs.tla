----------------------------- MODULE Research_proofs -----------------------------
(***************************************************************************)
(* What the rows of the research side may be relied on for, for any         *)
(* observations, payloads, candidates, policies, bars and approvers. Each   *)
(* store has an inductive invariant of its own: none writes a table of      *)
(* another one.                                                             *)
(***************************************************************************)
EXTENDS Research, OptionEngines_proofs

---------------------------------------------------------------------------
\* The option research chain: every row is dated between what it rests on and now.
Completions ==
    /\ now \in Nat
    /\ completed \in [Chain -> Int]
    /\ \A c \in Chain : completed[c] # NotYet => completed[c] \in 0..now

Calculation == [at : Int, captured : Int, redone : Int]

\* A calculation is dated by the clock and keeps the time of its source.
Calculations ==
    /\ DOMAIN analytics = Chain
    /\ \A c \in Analysed :
          /\ completed[c] # NotYet
          /\ analytics[c] \in Calculation /\ analytics[c].captured = completed[c]
          /\ analytics[c].at \in completed[c]..now /\ analytics[c].redone <= now

Comparisons ==
    /\ DOMAIN change = Chain
    /\ \A c \in Chain : Exists(change[c]) =>
          /\ c \in Analysed /\ change[c].previous \in Analysed
          /\ SymbolOf[change[c].previous] = SymbolOf[c]
          /\ change[c].from = completed[change[c].previous]
          /\ change[c].to = completed[c]
          /\ change[c].from < change[c].to

\* What is ranked has a change, and was calculated before unless it was calculated again.
RankingHolds ==
    Exists(ranking) =>
        /\ ranking.at \in 0..now
        /\ \A c \in DOMAIN ranking.of :
              /\ c \in Chain /\ Exists(change[c])
              /\ analytics[c].redone < ranking.at => analytics[c].at <= ranking.at

SelectionHolds ==
    Exists(selection) =>
        /\ Exists(ranking) /\ selection.at \in ranking.at..now
        /\ \A o \in selection.of : o[1] \in DOMAIN ranking.of

RiskHolds == Exists(risk) => Exists(selection) /\ risk.at \in selection.at..now /\ risk.of \subseteq selection.of

SignalsHold == Exists(signals) => Exists(risk) /\ signals.at \in risk.at..now /\ signals.of \subseteq risk.of

BacktestsHold ==
    \A b \in backtests :
        /\ Exists(signals) /\ DOMAIN b.exits = signals.of
        /\ \A o \in signals.of : b.exits[o] # NotYet =>
              b.exits[o] \in Chain /\ completed[b.exits[o]] # NotYet /\ completed[b.exits[o]] <= b.asOf

LineageInv ==
    /\ Completions /\ Calculations /\ Comparisons /\ RankingHolds
    /\ SelectionHolds /\ RiskHolds /\ SignalsHold /\ BacktestsHold

LEMMA NothingExists == ~ Exists(Missing) /\ Missing.at = -1
BY DEF Exists, Missing, NotYet

LEMMA DatedRowExists == ASSUME NEW row, row.at >= 0 PROVE Exists(row)
BY NothingExists DEF Exists

LEMMA LineageInitially == LineageInit => LineageInv
<1> SUFFICES ASSUME LineageInit PROVE LineageInv OBVIOUS
<1>1. Analysed = {} BY DEF LineageInit, Analysed, Exists
<1>2. ~ Exists(ranking) /\ ~ Exists(selection) /\ ~ Exists(risk) /\ ~ Exists(signals)
  BY NothingExists DEF LineageInit
<1>3. \A c \in Chain : ~ Exists(change[c]) BY NothingExists DEF LineageInit
<1>4. Completions BY DEF LineageInit, Completions, NotYet
<1>5. Calculations /\ Comparisons BY <1>1, <1>3 DEF LineageInit, Calculations, Comparisons
<1>6. RankingHolds /\ SelectionHolds /\ RiskHolds /\ SignalsHold /\ BacktestsHold
  BY <1>2 DEF LineageInit, RankingHolds, SelectionHolds, RiskHolds, SignalsHold, BacktestsHold
<1> QED BY <1>4, <1>5, <1>6 DEF LineageInv

\* Later clocks allow what earlier ones did.
LEMMA TimeKeeps == ASSUME LineageInv, TimePasses PROVE LineageInv'
<1>1. now \in Nat /\ now' = now + 1 BY DEF LineageInv, Completions, TimePasses
<1>2. UNCHANGED <<completed, analytics, change, ranking, selection, risk, signals, backtests>>
  BY DEF TimePasses, rows
<1>3. Completions' BY <1>1, <1>2 DEF LineageInv, Completions
<1>4. Analysed' = Analysed BY <1>2 DEF Analysed, Exists
<1>5. Calculations' 
  <2> SUFFICES ASSUME NEW c \in Analysed
               PROVE  /\ completed[c] # NotYet
                      /\ analytics[c] \in Calculation /\ analytics[c].captured = completed[c]
                      /\ analytics[c].at \in completed[c]..now' /\ analytics[c].redone <= now'
    BY <1>2, <1>4 DEF LineageInv, Calculations
  <2>1. /\ completed[c] # NotYet
        /\ analytics[c] \in Calculation /\ analytics[c].captured = completed[c] /\ analytics[c].redone \in Int
    BY DEF LineageInv, Calculations, Calculation
  <2>2. analytics[c].at \in completed[c]..now /\ analytics[c].redone <= now
    BY DEF LineageInv, Calculations
  <2>3. completed[c] \in Int BY DEF LineageInv, Completions, Analysed
  <2> QED BY <1>1, <2>1, <2>2, <2>3
<1>6. Comparisons' BY <1>2, <1>4 DEF LineageInv, Comparisons, Exists
<1>7. RankingHolds'
  <2>1. CASE Exists(ranking)
    <3>1. ranking.at \in 0..now' BY <1>1, <2>1 DEF LineageInv, RankingHolds
    <3> QED BY <1>2, <2>1, <3>1 DEF LineageInv, RankingHolds, Exists
  <2>2. CASE ~ Exists(ranking) BY <1>2, <2>2 DEF RankingHolds, Exists
  <2> QED BY <2>1, <2>2
<1>8. SelectionHolds'
  <2>1. CASE Exists(selection)
    <3>1. Exists(ranking) /\ ranking.at \in Int /\ selection.at \in ranking.at..now
      BY <2>1 DEF LineageInv, SelectionHolds, RankingHolds
    <3>2. selection.at \in ranking.at..now' BY <1>1, <3>1
    <3> QED BY <1>2, <2>1, <3>2 DEF LineageInv, SelectionHolds, Exists
  <2>2. CASE ~ Exists(selection) BY <1>2, <2>2 DEF SelectionHolds, Exists
  <2> QED BY <2>1, <2>2
<1>9. RiskHolds'
  <2>1. CASE Exists(risk)
    <3>1. Exists(selection) /\ selection.at \in Int /\ risk.at \in selection.at..now /\ risk.of \subseteq selection.of
      BY <2>1 DEF LineageInv, SelectionHolds, RiskHolds
    <3>2. risk.at \in selection.at..now' BY <1>1, <3>1
    <3> QED BY <1>2, <2>1, <3>1, <3>2 DEF RiskHolds, Exists
  <2>2. CASE ~ Exists(risk) BY <1>2, <2>2 DEF RiskHolds, Exists
  <2> QED BY <2>1, <2>2
<1>10. SignalsHold'
  <2>1. CASE Exists(signals)
    <3>1. Exists(risk) /\ risk.at \in Int /\ signals.at \in risk.at..now /\ signals.of \subseteq risk.of
      BY <2>1 DEF LineageInv, SignalsHold, RiskHolds
    <3>2. signals.at \in risk.at..now' BY <1>1, <3>1
    <3> QED BY <1>2, <2>1, <3>1, <3>2 DEF SignalsHold, Exists
  <2>2. CASE ~ Exists(signals) BY <1>2, <2>2 DEF SignalsHold, Exists
  <2> QED BY <2>1, <2>2
<1>11. BacktestsHold' BY <1>2 DEF LineageInv, BacktestsHold, Exists
<1> QED BY <1>3, <1>5, <1>6, <1>7, <1>8, <1>9, <1>10, <1>11 DEF LineageInv

\* A collection that completes was of no use before.
LEMMA CompletionKeeps == ASSUME LineageInv, NEW c \in Chain, CompleteCollection(c) PROVE LineageInv'
<1>1. completed[c] = NotYet /\ completed' = [completed EXCEPT ![c] = now] BY DEF CompleteCollection
<1>2. UNCHANGED <<now, analytics, change, ranking, selection, risk, signals, backtests>>
  BY DEF CompleteCollection
<1>3. Analysed' = Analysed /\ c \notin Analysed
  BY <1>1, <1>2 DEF LineageInv, Calculations, Analysed, Exists
<1>4. Completions' BY <1>1, <1>2 DEF LineageInv, Completions
<1>5. \A d \in Chain : d # c => completed'[d] = completed[d]
  BY <1>1 DEF LineageInv, Completions
<1>6. \A d \in Analysed : completed'[d] = completed[d] BY <1>3, <1>5 DEF Analysed
<1>7. Calculations' BY <1>2, <1>3, <1>6 DEF LineageInv, Calculations
<1>8. Comparisons'
  <2>1. \A d \in Chain : Exists(change[d]) => d \in Analysed /\ change[d].previous \in Analysed
    BY DEF LineageInv, Comparisons
  <2> QED BY <1>2, <1>3, <1>6, <2>1 DEF LineageInv, Comparisons, Exists
<1>9. RankingHolds' /\ SelectionHolds' /\ RiskHolds' /\ SignalsHold'
  BY <1>2 DEF LineageInv, RankingHolds, SelectionHolds, RiskHolds, SignalsHold, Exists
<1>10. BacktestsHold' BY <1>1, <1>2, <1>5 DEF LineageInv, BacktestsHold, Exists
<1> QED BY <1>4, <1>7, <1>8, <1>9, <1>10 DEF LineageInv

\* A calculation that is repeated is dated as such.
LEMMA CalculationKeeps == ASSUME LineageInv, NEW c \in Chain, CalculateAndPersist(c) PROVE LineageInv'
<1>1. UNCHANGED <<now, completed, change, ranking, selection, risk, signals, backtests>>
  BY DEF CalculateAndPersist
<1>2. PICK at \in completed[c]..now : completed[c] # NotYet /\ UpsertAnalytics(c, at)
  BY DEF CalculateAndPersist
<1>3. now \in Nat /\ completed[c] \in 0..now BY <1>2 DEF LineageInv, Completions
<1>4. \A d \in Chain : d # c => analytics'[d] = analytics[d]
  BY <1>2 DEF UpsertAnalytics, LineageInv, Calculations
<1>5. DOMAIN analytics' = Chain BY <1>2 DEF UpsertAnalytics, LineageInv, Calculations
<1>6. /\ analytics'[c] \in Calculation /\ analytics'[c].at = at /\ analytics'[c].captured = completed[c]
      /\ analytics'[c].redone \in {now, NotYet}
      /\ c \in Analysed => analytics'[c].redone = now
  <2>1. CASE Exists(analytics[c])
    <3>1. c \in Analysed BY <2>1 DEF Analysed
    <3>2. analytics[c] \in Calculation /\ analytics[c].captured = completed[c]
      BY <3>1 DEF LineageInv, Calculations
    <3>3. analytics'[c] = [analytics[c] EXCEPT !.at = at, !.redone = now]
      BY <1>2, <2>1 DEF UpsertAnalytics, LineageInv, Calculations
    <3>4. PICK row, next, time : row = analytics[c] /\ next = analytics'[c] /\ time = now OBVIOUS
    <3>5. row \in Calculation /\ row.captured = completed[c] BY <3>2, <3>4
    <3>6. next = [row EXCEPT !.at = at, !.redone = time] BY <3>3, <3>4
    <3>7. at \in Int /\ time \in Int BY <1>3, <3>4
    <3>8. next \in Calculation /\ next.at = at /\ next.captured = row.captured /\ next.redone = time
      BY <3>5, <3>6, <3>7 DEF Calculation
    <3> QED BY <3>4, <3>5, <3>8
  <2>2. CASE ~ Exists(analytics[c])
    <3>1. analytics'[c] = [at |-> at, captured |-> completed[c], redone |-> NotYet]
      BY <1>2, <2>2 DEF UpsertAnalytics, LineageInv, Calculations
    <3> QED BY <1>3, <2>2, <3>1 DEF Analysed, Calculation, NotYet
  <2> QED BY <2>1, <2>2
<1>8. analytics'[c].at >= 0 BY <1>3, <1>6
<1>9. Exists(analytics'[c]) BY <1>8, DatedRowExists
<1>10. Analysed' = Analysed \union {c}
  <2>1. \A d \in Chain : d # c => (Exists(analytics'[d]) <=> Exists(analytics[d])) BY <1>4
  <2>2. Analysed' = {d \in Chain : Exists(analytics'[d])} BY DEF Analysed, Exists
  <2> QED BY <1>9, <2>1, <2>2 DEF Analysed
<1>11. Calculations'
  <2>1. analytics'[c].redone <= now BY <1>3, <1>6 DEF NotYet
  <2>2. ASSUME NEW d \in Analysed'
        PROVE  /\ completed[d] # NotYet
               /\ analytics'[d] \in Calculation /\ analytics'[d].captured = completed[d]
               /\ analytics'[d].at \in completed[d]..now /\ analytics'[d].redone <= now
    <3>1. CASE d = c BY <1>2, <1>6, <2>1, <3>1
    <3>2. CASE d # c
      <4>1. d \in Analysed /\ d \in Chain BY <1>10, <3>2 DEF Analysed
      <4>2. analytics'[d] = analytics[d] BY <1>4, <3>2, <4>1
      <4> QED BY <4>1, <4>2 DEF LineageInv, Calculations
    <3> QED BY <3>1, <3>2
  <2> QED BY <1>1, <1>5, <2>2 DEF Calculations
<1>12. Comparisons'
  <2> SUFFICES ASSUME NEW d \in Chain, Exists(change[d])
               PROVE  /\ d \in Analysed' /\ change[d].previous \in Analysed'
                      /\ SymbolOf[change[d].previous] = SymbolOf[d]
                      /\ change[d].from = completed[change[d].previous]
                      /\ change[d].to = completed[d]
                      /\ change[d].from < change[d].to
    BY <1>1 DEF LineageInv, Comparisons, Exists
  <2> QED BY <1>10 DEF LineageInv, Comparisons
<1>13. RankingHolds'
  <2> SUFFICES ASSUME Exists(ranking), NEW d \in DOMAIN ranking.of, analytics'[d].redone < ranking.at
               PROVE  analytics'[d].at <= ranking.at
    BY <1>1 DEF LineageInv, RankingHolds, Exists
  <2>1. d \in Analysed /\ d \in Chain BY DEF LineageInv, RankingHolds, Comparisons
  <2>2. ranking.at \in 0..now BY DEF LineageInv, RankingHolds
  <2>3. d # c BY <1>3, <1>6, <2>1, <2>2
  <2> QED BY <1>4, <2>1, <2>3 DEF LineageInv, RankingHolds
<1>14. SelectionHolds' /\ RiskHolds' /\ SignalsHold' /\ BacktestsHold'
  BY <1>1 DEF LineageInv, SelectionHolds, RiskHolds, SignalsHold, BacktestsHold, Exists
<1> QED BY <1>1, <1>11, <1>12, <1>13, <1>14 DEF LineageInv, Completions

\* What is compared was captured at different times.
LEMMA ComparisonKeeps == ASSUME LineageInv, NEW c \in Chain, CompareAnalytics(c) PROVE LineageInv'
<1>1. UNCHANGED <<now, completed, analytics, ranking, selection, risk, signals, backtests>>
  BY DEF CompareAnalytics
<1>2. PICK d \in Previous(c) : analytics[d].captured < analytics[c].captured /\ UpsertChange(c, d)
  BY DEF CompareAnalytics
<1>3. c \in Analysed /\ d \in Analysed /\ SymbolOf[d] = SymbolOf[c]
  BY DEF CompareAnalytics, Previous, Comparable
<1>4. Analysed' = Analysed BY <1>1 DEF Analysed, Exists
<1>5. analytics[d].captured = completed[d] /\ analytics[c].captured = completed[c]
  BY <1>3 DEF LineageInv, Calculations
<1>6. /\ DOMAIN change' = Chain
      /\ \A e \in Chain : e # c => change'[e] = change[e]
      /\ change'[c] = [at |-> now, previous |-> d, from |-> completed[d], to |-> completed[c]]
  BY <1>2, <1>5 DEF UpsertChange, LineageInv, Comparisons
<1>7. Exists(change'[c])
  <2>1. change'[c].at >= 0 BY <1>6 DEF LineageInv, Completions
  <2> QED BY <2>1, DatedRowExists
<1>8. Completions' /\ Calculations' BY <1>1, <1>4 DEF LineageInv, Completions, Calculations
<1>9. Comparisons'
  <2>1. \A e \in Chain : Exists(change'[e]) => 
          /\ e \in Analysed /\ change'[e].previous \in Analysed
          /\ SymbolOf[change'[e].previous] = SymbolOf[e]
          /\ change'[e].from = completed[change'[e].previous]
          /\ change'[e].to = completed[e]
          /\ change'[e].from < change'[e].to
    <3> SUFFICES ASSUME NEW e \in Chain, Exists(change'[e])
                 PROVE  /\ e \in Analysed /\ change'[e].previous \in Analysed
                        /\ SymbolOf[change'[e].previous] = SymbolOf[e]
                        /\ change'[e].from = completed[change'[e].previous]
                        /\ change'[e].to = completed[e]
                        /\ change'[e].from < change'[e].to
      OBVIOUS
    <3>1. CASE e = c BY <1>2, <1>3, <1>5, <1>6, <3>1
    <3>2. CASE e # c
      <4>1. change'[e] = change[e] BY <1>6, <3>2
      <4> QED BY <4>1 DEF LineageInv, Comparisons
    <3> QED BY <3>1, <3>2
  <2> QED BY <1>1, <1>4, <1>6, <2>1 DEF Comparisons, Exists
<1>10. \A e \in Chain : Exists(change[e]) => Exists(change'[e]) BY <1>6, <1>7
<1>11. RankingHolds' BY <1>1, <1>10 DEF LineageInv, RankingHolds, Exists
<1>12. SelectionHolds' /\ RiskHolds' /\ SignalsHold' /\ BacktestsHold'
  BY <1>1 DEF LineageInv, SelectionHolds, RiskHolds, SignalsHold, BacktestsHold, Exists
<1> QED BY <1>8, <1>9, <1>11, <1>12 DEF LineageInv

\* Every decision is dated after what it is based on.
LEMMA RankingKeeps == ASSUME LineageInv, NEW asOf, RankAndPersist(asOf) PROVE LineageInv'
<1>1. ~ Exists(ranking) /\ UNCHANGED <<now, completed, analytics, change, selection, risk, signals, backtests>>
  BY DEF RankAndPersist
<1>2. PICK eligible \in SUBSET {c \in LatestCandidates(asOf) : Fresh(analytics[c].captured, asOf)} :
        ranking' = [at |-> now, asOf |-> asOf, of |-> [c \in eligible |-> change[c].previous]]
  BY DEF RankAndPersist
<1>3. ranking'.at = now /\ DOMAIN ranking'.of = eligible BY <1>2
<1>4. \A c \in eligible : c \in Analysed /\ c \in Chain /\ Exists(change[c])
  BY <1>2 DEF LatestCandidates, Analysed
<1>5. now \in Nat /\ now \in 0..now BY DEF LineageInv, Completions
<1>6. \A c \in eligible : analytics[c].at <= now
  <2> SUFFICES ASSUME NEW c \in eligible PROVE analytics[c].at <= now OBVIOUS
  <2>1. completed[c] \in Int BY <1>4 DEF LineageInv, Completions
  <2> QED BY <1>4, <1>5, <2>1 DEF LineageInv, Calculations
<1>7. Completions' /\ Calculations' /\ Comparisons'
  BY <1>1 DEF LineageInv, Completions, Calculations, Comparisons, Analysed, Exists
<1>8. RankingHolds' BY <1>1, <1>3, <1>4, <1>5, <1>6 DEF RankingHolds, Exists
<1>9. ~ Exists(selection) /\ ~ Exists(risk) /\ ~ Exists(signals) /\ backtests = {}
  BY <1>1 DEF LineageInv, SelectionHolds, RiskHolds, SignalsHold, BacktestsHold
<1>10. SelectionHolds' /\ RiskHolds' /\ SignalsHold' /\ BacktestsHold'
  BY <1>1, <1>9 DEF SelectionHolds, RiskHolds, SignalsHold, BacktestsHold, Exists
<1> QED BY <1>7, <1>8, <1>10 DEF LineageInv

LEMMA SelectionKeeps == ASSUME LineageInv, NEW asOf, SelectAndPersist(asOf) PROVE LineageInv'
<1>1. /\ Exists(ranking) /\ ~ Exists(selection)
      /\ UNCHANGED <<now, completed, analytics, change, ranking, risk, signals, backtests>>
  BY DEF SelectAndPersist
<1>2. PICK chosen \in SUBSET ContractCandidates(asOf) : selection' = [at |-> now, asOf |-> asOf, of |-> chosen]
  BY DEF SelectAndPersist
<1>3. selection'.at = now /\ selection'.of = chosen BY <1>2
<1>4. now \in Nat /\ ranking.at \in 0..now BY <1>1 DEF LineageInv, Completions, RankingHolds
<1>5. now \in ranking.at..now BY <1>4
<1>6. \A o \in chosen : o[1] \in DOMAIN ranking.of BY <1>2 DEF ContractCandidates
<1>7. Completions' /\ Calculations' /\ Comparisons' /\ RankingHolds'
  BY <1>1 DEF LineageInv, Completions, Calculations, Comparisons, RankingHolds, Analysed, Exists
<1>8. SelectionHolds' BY <1>1, <1>3, <1>5, <1>6 DEF SelectionHolds, Exists
<1>9. ~ Exists(risk) /\ ~ Exists(signals) /\ backtests = {}
  BY <1>1 DEF LineageInv, RiskHolds, SignalsHold, BacktestsHold
<1>10. RiskHolds' /\ SignalsHold' /\ BacktestsHold'
  BY <1>1, <1>9 DEF RiskHolds, SignalsHold, BacktestsHold, Exists
<1> QED BY <1>7, <1>8, <1>10 DEF LineageInv

LEMMA AssessmentKeeps == ASSUME LineageInv, AssessAndPersist PROVE LineageInv'
<1>1. /\ Exists(selection) /\ ~ Exists(risk)
      /\ UNCHANGED <<now, completed, analytics, change, ranking, selection, signals, backtests>>
  BY DEF AssessAndPersist
<1>2. PICK approved \in SUBSET selection.of : risk' = [at |-> now, of |-> approved]
  BY DEF AssessAndPersist
<1>3. risk'.at = now /\ risk'.of \subseteq selection.of BY <1>2
<1>4. now \in Nat /\ ranking.at \in 0..now /\ selection.at \in ranking.at..now
  BY <1>1 DEF LineageInv, Completions, RankingHolds, SelectionHolds
<1>5. now \in selection.at..now BY <1>4
<1>6. Completions' /\ Calculations' /\ Comparisons' /\ RankingHolds' /\ SelectionHolds'
  BY <1>1 DEF LineageInv, Completions, Calculations, Comparisons, RankingHolds, SelectionHolds, Analysed, Exists
<1>7. RiskHolds' BY <1>1, <1>3, <1>5 DEF RiskHolds, Exists
<1>8. ~ Exists(signals) /\ backtests = {} BY <1>1 DEF LineageInv, SignalsHold, BacktestsHold
<1>9. SignalsHold' /\ BacktestsHold' BY <1>1, <1>8 DEF SignalsHold, BacktestsHold, Exists
<1> QED BY <1>6, <1>7, <1>9 DEF LineageInv

LEMMA SignalsKeep == ASSUME LineageInv, NEW asOf, GenerateSignals(asOf) PROVE LineageInv'
<1>1. /\ Exists(risk) /\ ~ Exists(signals)
      /\ UNCHANGED <<now, completed, analytics, change, ranking, selection, risk, backtests>>
  BY DEF GenerateSignals
<1>2. PICK confident \in SUBSET risk.of : signals' = [at |-> now, asOf |-> asOf, of |-> confident]
  BY DEF GenerateSignals
<1>3. signals'.at = now /\ signals'.of \subseteq risk.of BY <1>2
<1>4. now \in Nat /\ ranking.at \in 0..now /\ selection.at \in ranking.at..now /\ risk.at \in selection.at..now
  BY <1>1 DEF LineageInv, Completions, RankingHolds, SelectionHolds, RiskHolds
<1>5. now \in risk.at..now BY <1>4
<1>6. Completions' /\ Calculations' /\ Comparisons' /\ RankingHolds' /\ SelectionHolds' /\ RiskHolds'
  BY <1>1 DEF LineageInv, Completions, Calculations, Comparisons, RankingHolds, SelectionHolds, RiskHolds, Analysed, Exists
<1>7. SignalsHold' BY <1>1, <1>3, <1>5 DEF SignalsHold, Exists
<1>8. backtests = {} BY <1>1 DEF LineageInv, BacktestsHold
<1>9. BacktestsHold' BY <1>1, <1>8 DEF BacktestsHold
<1> QED BY <1>6, <1>7, <1>9 DEF LineageInv

\* A trade leaves at a mark of a collection that is complete.
LEMMA BacktestKeeps == ASSUME LineageInv, NEW asOf, RunBacktest(asOf) PROVE LineageInv'
<1>1. Exists(signals) /\ UNCHANGED <<now, completed, analytics, change, ranking, selection, risk, signals>>
  BY DEF RunBacktest
<1>2. PICK exits \in [signals.of -> Chain \union {NotYet}] :
        /\ \A o \in signals.of : IF FutureMarks(o, asOf) = {} THEN exits[o] = NotYet
                                 ELSE exits[o] \in FutureMarks(o, asOf)
        /\ backtests' = {[asOf |-> asOf, exits |-> exits]}
  BY DEF RunBacktest
<1>3. \A o \in signals.of : exits[o] # NotYet =>
        exits[o] \in Chain /\ completed[exits[o]] # NotYet /\ completed[exits[o]] <= asOf
  BY <1>2 DEF FutureMarks
<1>4. /\ Completions' /\ Calculations' /\ Comparisons' /\ RankingHolds'
      /\ SelectionHolds' /\ RiskHolds' /\ SignalsHold'
  BY <1>1 DEF LineageInv, Completions, Calculations, Comparisons, RankingHolds, SelectionHolds, RiskHolds, SignalsHold, Analysed, Exists
<1>5. \A b \in backtests' : b.asOf = asOf /\ b.exits = exits BY <1>2
<1>6. BacktestsHold' BY <1>1, <1>2, <1>3, <1>5 DEF BacktestsHold, Exists
<1> QED BY <1>4, <1>6 DEF LineageInv

LEMMA LineageRests ==
    ASSUME LineageInv, UNCHANGED <<now, completed, analytics, change, ranking, selection, risk, signals, backtests>>
    PROVE  LineageInv'
BY DEF LineageInv, Completions, Calculations, Comparisons, RankingHolds, SelectionHolds, RiskHolds, SignalsHold,
       BacktestsHold, Analysed, Exists

LEMMA LineageKeeps == LineageInv /\ (LineageStep \/ UNCHANGED lineageVars) => LineageInv'
<1> SUFFICES ASSUME LineageInv, LineageStep \/ UNCHANGED lineageVars PROVE LineageInv' OBVIOUS
<1>1. CASE UNCHANGED lineageVars BY <1>1, LineageRests DEF lineageVars, rows
<1>2. CASE TimePasses BY <1>2, TimeKeeps
<1>3. CASE AssessAndPersist BY <1>3, AssessmentKeeps
<1>4. ASSUME NEW c \in Chain, CompleteCollection(c) \/ CalculateAndPersist(c) \/ CompareAnalytics(c)
      PROVE  LineageInv'
  BY <1>4, CompletionKeeps, CalculationKeeps, ComparisonKeeps
<1>5. ASSUME NEW asOf \in Times, \/ RankAndPersist(asOf) \/ SelectAndPersist(asOf) \/ GenerateSignals(asOf)
                                 \/ RunBacktest(asOf) \/ Replay(asOf)
      PROVE  LineageInv'
  <2>1. CASE RankAndPersist(asOf) BY <2>1, RankingKeeps
  <2>2. CASE SelectAndPersist(asOf) BY <2>2, SelectionKeeps
  <2>3. CASE GenerateSignals(asOf) BY <2>3, SignalsKeep
  <2>4. CASE RunBacktest(asOf) BY <2>4, BacktestKeeps
  <2>5. CASE Replay(asOf) BY <2>5, LineageRests DEF Replay
  <2> QED BY <1>5, <2>1, <2>2, <2>3, <2>4, <2>5
<1> QED BY <1>1, <1>2, <1>3, <1>4, <1>5 DEF LineageStep

LEMMA LineagePasses == LineageInv => LineageAuditsPass
<1> SUFFICES ASSUME LineageInv PROVE LineageAuditsPass OBVIOUS
<1>1. \A c \in Analysed : completed[c] # NotYet /\ analytics[c].captured = completed[c]
  BY DEF LineageInv, Calculations
<1>2. OptionChainLineage BY <1>1 DEF LineageInv, Comparisons, OptionChainLineage
<1>3. DecisionLineage BY DEF DecisionLineage, LineageInv, RankingHolds, SelectionHolds, RiskHolds, SignalsHold
<1>4. EvaluationLineage BY DEF EvaluationLineage, LineageInv, BacktestsHold
<1> QED BY <1>2, <1>3, <1>4 DEF LineageAuditsPass

LEMMA LineageReplays == LineageInv => ReplayableUnlessRecalculated
<1> SUFFICES ASSUME LineageInv, Exists(signals), NEW o \in signals.of, analytics[o[1]].redone < ranking.at
             PROVE  Ordered(EventTimes(o))
  BY DEF ReplayableUnlessRecalculated
<1> DEFINE c == o[1]
<1>1. Exists(ranking) /\ Exists(selection) /\ Exists(risk) /\ o \in selection.of
  BY DEF LineageInv, SelectionHolds, RiskHolds, SignalsHold
<1>2. c \in DOMAIN ranking.of BY <1>1 DEF LineageInv, SelectionHolds
<1>3. c \in Chain /\ c \in Analysed /\ analytics[c].at <= ranking.at
  BY <1>1, <1>2 DEF LineageInv, RankingHolds, Comparisons
<1>4. completed[c] \in Int /\ now \in Int /\ analytics[c].captured = completed[c] /\ analytics[c].at \in completed[c]..now
  BY <1>3 DEF LineageInv, Completions, Calculations
<1>5. /\ ranking.at \in 0..now /\ selection.at \in ranking.at..now /\ risk.at \in selection.at..now
      /\ signals.at \in risk.at..now
  BY <1>1 DEF LineageInv, RankingHolds, SelectionHolds, RiskHolds, SignalsHold
<1> DEFINE t == EventTimes(o)
<1>6. /\ t[1] = completed[c] /\ t[2] = analytics[c].at /\ t[3] = ranking.at /\ t[4] = selection.at
      /\ t[5] = risk.at /\ t[6] = signals.at
  BY <1>4 DEF EventTimes
<1>7. /\ completed[c] <= analytics[c].at /\ analytics[c].at <= ranking.at /\ ranking.at <= selection.at
      /\ selection.at <= risk.at /\ risk.at <= signals.at
  BY <1>3, <1>4, <1>5
<1> HIDE DEF t
<1>8. \A n \in 2..6 : t[n - 1] <= t[n]
  <2> SUFFICES ASSUME NEW n \in 2..6 PROVE t[n - 1] <= t[n] OBVIOUS
  <2>1. n = 2 \/ n = 3 \/ n = 4 \/ n = 5 \/ n = 6 OBVIOUS
  <2> QED BY <2>1, <1>6, <1>7
<1> QED BY <1>8 DEF Ordered, t

---------------------------------------------------------------------------
\* The first generation of evidence: what a row cites was there, and stays.
\* Rows and plans are rows and plans; what is stored or copied of a vector it has had.
Items == UNION {[S -> OpportunityRow] : S \in SUBSET Observation}
OutcomePlan == [kind : {"outcome"}, vector : Observation, late : BOOLEAN, outcome : OutcomeRow]
OpportunityPlan == [kind : {"opportunities"}, sources : SUBSET Observation, items : Items, late : SUBSET Observation]

EvidenceTyped ==
    /\ vectors \in [Observation -> Rankings \union {Absent}]
    /\ rankings \in [Observation -> SUBSET Rankings]
    /\ outcomes \in [Observation -> OutcomeRow \union {Absent}]
    /\ similarity \in [Observation -> SimilarityRow \union {Absent}]
    /\ opportunities \in [Observation -> OpportunityRow \union {Absent}]
    /\ work \in [Program -> {Idle} \union OutcomePlan \union OpportunityPlan]

RankingsKept ==
    \A v \in Observation : /\ vectors[v] = Absent => rankings[v] = {}
                           /\ vectors[v] # Absent => vectors[v] \in rankings[v]

\* A vector of the expiry date has come after the one of an outcome.
ExpirySeen(v) == \E w \in FutureVectors(v) : ObservedAt[w] = ExpiryTime

\* An outcome, stored or about to be, copies a ranking of its vector and ends at one of
\* those to come; it is complete once the expiry date has been seen.
OutcomeSound(v, row) ==
    /\ row.ranking \in rankings[v]
    /\ row.terminal # Absent => row.terminal \in FutureVectors(v)
    /\ row.type = "EXPIRY_COMPLETE" => ExpirySeen(v)

OutcomesFollow ==
    /\ \A v \in Stored(outcomes) : OutcomeSound(v, outcomes[v])
    /\ \A p \in Plans("outcome") : OutcomeSound(work[p].vector, work[p].outcome)

MatchesPrecede ==
    \A q \in Stored(similarity) :
        /\ similarity[q].ranking \in rankings[q]
        /\ \A w \in similarity[q].matched : ObservedAt[w] < ObservedAt[q]
        /\ similarity[q].attached \subseteq similarity[q].matched \intersect Stored(outcomes)

\* An opportunity, stored or about to be, is assessed by its evidence.
AssessmentSound(r, row) ==
    /\ r \in Stored(similarity) /\ row.ranking = similarity[r].ranking
    /\ row.state # "INSUFFICIENT_EVIDENCE" => Cardinality(row.evidence) >= MinimumClassified
    /\ "zones" \in row.values => row.state = "ELIGIBLE"
    /\ "expectation" \in row.values => row.state # "INSUFFICIENT_EVIDENCE"

OpportunitiesSound ==
    \A r \in Stored(opportunities) :
        /\ AssessmentSound(r, opportunities[r])
        /\ opportunities[r].evidence \subseteq similarity[r].matched
        /\ r \notin lateOpportunities => opportunities[r].evidence \subseteq similarity[r].attached

PlansSound ==
    \A p \in Plans("opportunities") :
        /\ work[p].sources \subseteq Stored(similarity) /\ DOMAIN work[p].items \subseteq work[p].sources
        /\ \A r \in DOMAIN work[p].items :
              /\ AssessmentSound(r, work[p].items[r])
              /\ r \notin work[p].late => work[p].items[r].evidence \subseteq similarity[r].attached

\* What is cited, or about to be, was complete when it was read and is so unless a late
\* write has undone it.
Cited(w) ==
    \/ \E r \in Stored(opportunities) : w \in opportunities[r].evidence
    \/ \E p \in Plans("opportunities") : \E r \in DOMAIN work[p].items : w \in work[p].items[r].evidence
ClassifiedAtExpiry(w) == w \in Stored(outcomes) /\ outcomes[w].type = "EXPIRY_COMPLETE"

CitedSound ==
    \A w \in Observation : Cited(w) => /\ w \in Stored(outcomes) /\ ExpirySeen(w)
                                       /\ w \notin lateOutcomes => ClassifiedAtExpiry(w)

\* A program that is not late and knows no expiry date for a vector has seen the outcome
\* that is stored, and nobody cites it.
Timely(p) ==
    ~ work[p].late /\ work[p].outcome.type # "EXPIRY_COMPLETE" =>
        ~ ClassifiedAtExpiry(work[p].vector) /\ ~ Cited(work[p].vector)
PlansTimely == \A p \in Plans("outcome") : Timely(p)

EvidenceInv ==
    /\ EvidenceTyped /\ RankingsKept /\ OutcomesFollow /\ MatchesPrecede
    /\ OpportunitiesSound /\ PlansSound /\ CitedSound /\ PlansTimely

LEMMA EvidenceInitially == EvidenceInit => EvidenceInv
<1> SUFFICES ASSUME EvidenceInit PROVE EvidenceInv OBVIOUS
<1>1. /\ Stored(outcomes) = {} /\ Stored(similarity) = {} /\ Stored(opportunities) = {}
      /\ \A p \in Program : work[p] = Idle
  BY DEF EvidenceInit, Stored
<1>2. Plans("outcome") = {} /\ Plans("opportunities") = {} BY <1>1 DEF Plans, Idle
<1>3. EvidenceTyped BY DEF EvidenceInit, EvidenceTyped
<1>4. RankingsKept BY DEF EvidenceInit, RankingsKept
<1>5. OutcomesFollow /\ MatchesPrecede /\ OpportunitiesSound /\ PlansSound /\ PlansTimely
  BY <1>1, <1>2 DEF OutcomesFollow, MatchesPrecede, OpportunitiesSound, PlansSound, PlansTimely
<1>6. CitedSound BY <1>1, <1>2 DEF CitedSound, Cited
<1> QED BY <1>3, <1>4, <1>5, <1>6 DEF EvidenceInv

LEMMA FutureIsLater ==
    ASSUME NEW v \in Observation, NEW w \in FutureVectors(v)
    PROVE  w \in Observation /\ w \in Stored(vectors) /\ ObservedAt[w] > ObservedAt[v] /\ w # v
<1>1. w \in Stored(vectors) /\ w \in Observation /\ Later(v, w) BY DEF FutureVectors, Stored
<1>2. ObservedAt[w] = ObservedAt[v] => w = v BY <1>1, CapturesDiffer
<1>3. v \in Int /\ w \in Int /\ ObservedAt[v] \in Int /\ ObservedAt[w] \in Int BY <1>1, CapturesDiffer
<1> QED BY <1>1, <1>2, <1>3 DEF Later

LEMMA EvidenceShows == EvidenceInv => EvidenceHolds
<1> SUFFICES ASSUME EvidenceInv PROVE EvidenceHolds OBVIOUS
<1>1. \A v \in Observation : \A x \in rankings[v] : CopiedFrom(v, x)
  BY DEF CopiedFrom
<1>2. HistoricalOutcomeLineage
  <2> SUFFICES ASSUME NEW v \in Stored(outcomes)
               PROVE  /\ CopiedFrom(v, outcomes[v].ranking)
                      /\ outcomes[v].terminal # Absent =>
                            outcomes[v].terminal \in Stored(vectors) /\ ObservedAt[outcomes[v].terminal] > ObservedAt[v]
    BY DEF HistoricalOutcomeLineage
  <2>1. v \in Observation /\ OutcomeSound(v, outcomes[v]) BY DEF EvidenceInv, OutcomesFollow, Stored
  <2> QED BY <2>1, <1>1, FutureIsLater DEF OutcomeSound
<1>3. SimilarityLineage BY <1>1 DEF EvidenceInv, MatchesPrecede, SimilarityLineage, Stored
<1>4. ASSUME NEW r \in Stored(opportunities), NEW w \in opportunities[r].evidence
      PROVE  w \in Stored(outcomes) /\ (w \notin lateOutcomes => outcomes[w].type = "EXPIRY_COMPLETE")
  <2>1. opportunities[r] \in OpportunityRow BY DEF EvidenceInv, EvidenceTyped, Stored
  <2>2. w \in Observation BY <2>1 DEF OpportunityRow
  <2>3. Cited(w) BY DEF Cited
  <2> QED BY <2>2, <2>3 DEF EvidenceInv, CitedSound, ClassifiedAtExpiry
<1>5. TradeOpportunityLineage
  BY <1>4 DEF EvidenceInv, OpportunitiesSound, AssessmentSound, TradeOpportunityLineage
<1>6. \A r \in Stored(opportunities) :
        opportunities[r].state # "INSUFFICIENT_EVIDENCE" => Cardinality(opportunities[r].evidence) >= MinimumClassified
  BY DEF EvidenceInv, OpportunitiesSound, AssessmentSound
<1> QED BY <1>2, <1>3, <1>4, <1>5, <1>6 DEF EvidenceHolds

LEMMA ExpiryDecides ==
    ASSUME EvidenceTyped, NEW v \in Observation
    PROVE  /\ FutureVectors(v) # {} => Terminal(v) \in FutureVectors(v)
           /\ OutcomeType(v) = "EXPIRY_COMPLETE" <=> ExpirySeen(v)
<1>1. PICK S : S = FutureVectors(v) OBVIOUS
<1>2. S \subseteq Observation BY <1>1 DEF FutureVectors, Stored
<1>3. IsFiniteSet(S) BY <1>2, CapturesDiffer, FS_Subset
<1>4. PICK R : R = {p \in S \X S : Later(p[1], p[2])} OBVIOUS
<1>5. \A x, y \in S : <<x, y>> \in R <=> Later(x, y) BY <1>4
<1>6. \A x \in S : x \in Int /\ ObservedAt[x] \in Int BY <1>2, CapturesDiffer
<1>7. \A x \in S : <<x, x>> \notin R BY <1>5, <1>6 DEF Later
<1>8. \A x, y, z \in S : <<x, y>> \in R /\ <<y, z>> \in R => <<x, z>> \in R
  BY <1>5, <1>6 DEF Later
<1>9. ASSUME S # {} PROVE Terminal(v) \in S /\ \A u \in S \ {Terminal(v)} : Later(u, Terminal(v))
  <2>1. PICK m \in S : \A n \in S : <<m, n>> \notin R BY <1>9, <1>3, <1>7, <1>8, ExtremeExists
  <2>2. ASSUME NEW u \in S \ {m} PROVE Later(u, m)
    <3>1. ~ Later(m, u) BY <1>5, <2>1
    <3>2. u \in Int /\ m \in Int /\ ObservedAt[u] \in Int /\ ObservedAt[m] \in Int /\ u # m BY <1>6
    <3> QED BY <3>1, <3>2 DEF Later
  <2>3. Terminal(v) = CHOOSE w \in S : \A u \in S \ {w} : Later(u, w) BY <1>1 DEF Terminal
  <2> QED BY <2>2, <2>3
<1>10. OutcomeType(v) = "EXPIRY_COMPLETE" => ExpirySeen(v) BY <1>1, <1>9 DEF OutcomeType, ExpirySeen
<1>11. ASSUME ExpirySeen(v) PROVE OutcomeType(v) = "EXPIRY_COMPLETE"
  <2>1. PICK t \in S : ObservedAt[t] = ExpiryTime BY <1>1, <1>11 DEF ExpirySeen
  <2>2. Terminal(v) \in S /\ (t # Terminal(v) => Later(t, Terminal(v))) BY <2>1, <1>9
  <2>3. ObservedAt[Terminal(v)] <= ExpiryTime BY <1>1, <2>2 DEF FutureVectors
  <2>4. ObservedAt[Terminal(v)] \in Int /\ ObservedAt[t] \in Int BY <2>1, <2>2, <1>6
  <2>5. ObservedAt[Terminal(v)] = ExpiryTime BY <2>1, <2>2, <2>3, <2>4 DEF Later
  <2> QED BY <1>1, <2>1, <2>5 DEF OutcomeType
<1> QED BY <1>1, <1>9, <1>10, <1>11

\* More vectors and more rankings undo nothing.
LEMMA OutcomeSoundStays ==
    ASSUME NEW v \in Observation, NEW row, OutcomeSound(v, row),
           \A w \in Observation : FutureVectors(w) \subseteq FutureVectors(w)' /\ rankings[w] \subseteq rankings'[w]
    PROVE  OutcomeSound(v, row)'
BY DEF OutcomeSound, ExpirySeen

LEMMA VectorKeeps == ASSUME EvidenceInv, NEW v \in Observation, MaterializeVector(v) PROVE EvidenceInv'
<1>1. PICK x \in RankingsOf[v] : UpsertVector(v, x) BY DEF MaterializeVector
<1>2. UNCHANGED <<outcomes, similarity, opportunities, work, lateOutcomes, lateOpportunities>> BY DEF MaterializeVector
<1>3. x \in Rankings /\ x # Absent BY AbsentIsNoRow DEF Rankings
<1>4. /\ vectors' \in [Observation -> Rankings \union {Absent}] /\ vectors'[v] = x
      /\ \A w \in Observation : w # v => vectors'[w] = vectors[w]
  BY <1>1, <1>3 DEF UpsertVector, EvidenceInv, EvidenceTyped
<1>5. /\ rankings' \in [Observation -> SUBSET Rankings] /\ rankings'[v] = rankings[v] \union {x}
      /\ \A w \in Observation : w # v => rankings'[w] = rankings[w]
  BY <1>1, <1>3 DEF UpsertVector, EvidenceInv, EvidenceTyped
<1>6. \A w \in Observation : rankings[w] \subseteq rankings'[w] BY <1>5
<1>7. Stored(vectors) \subseteq Stored(vectors') BY <1>3, <1>4 DEF Stored
<1>8. \A w \in Observation : FutureVectors(w) \subseteq FutureVectors(w)' BY <1>7 DEF FutureVectors, Stored
<1>9. EvidenceTyped' BY <1>2, <1>4, <1>5 DEF EvidenceInv, EvidenceTyped
<1>10. RankingsKept' BY <1>3, <1>4, <1>5 DEF EvidenceInv, RankingsKept
<1>11. Plans("outcome")' = Plans("outcome") /\ Plans("opportunities")' = Plans("opportunities") BY <1>2 DEF Plans
<1>12. Stored(outcomes') = Stored(outcomes) /\ Stored(similarity') = Stored(similarity)
       /\ Stored(opportunities') = Stored(opportunities) BY <1>2
<1>13. \A p \in Plans("outcome") : work[p].vector \in Observation
  BY DEF EvidenceInv, EvidenceTyped, Plans, Idle, OutcomePlan, OpportunityPlan
<1>14. OutcomesFollow'
  <2>1. \A w \in Stored(outcomes) : OutcomeSound(w, outcomes[w])'
    <3> SUFFICES ASSUME NEW w \in Stored(outcomes) PROVE OutcomeSound(w, outcomes[w])' OBVIOUS
    <3>1. w \in Observation /\ OutcomeSound(w, outcomes[w]) BY DEF EvidenceInv, OutcomesFollow, Stored
    <3>2. PICK row : row = outcomes[w] OBVIOUS
    <3>3. OutcomeSound(w, row)' BY <3>1, <3>2, <1>6, <1>8, OutcomeSoundStays
    <3> QED BY <3>2, <3>3, <1>2
  <2>2. \A p \in Plans("outcome") : OutcomeSound(work[p].vector, work[p].outcome)'
    <3> SUFFICES ASSUME NEW p \in Plans("outcome") PROVE OutcomeSound(work[p].vector, work[p].outcome)' OBVIOUS
    <3>1. work[p].vector \in Observation /\ OutcomeSound(work[p].vector, work[p].outcome)
      BY <1>13 DEF EvidenceInv, OutcomesFollow
    <3>2. PICK w \in Observation : w = work[p].vector BY <3>1
    <3>3. PICK row : row = work[p].outcome OBVIOUS
    <3>4. OutcomeSound(w, row)' BY <3>1, <3>2, <3>3, <1>6, <1>8, OutcomeSoundStays
    <3> QED BY <3>2, <3>3, <3>4, <1>2
  <2> QED BY <2>1, <2>2, <1>2, <1>11, <1>12 DEF OutcomesFollow, Stored
<1>15. MatchesPrecede' BY <1>2, <1>6, <1>12 DEF EvidenceInv, MatchesPrecede, Stored
<1>16. OpportunitiesSound' BY <1>2, <1>12 DEF EvidenceInv, OpportunitiesSound, AssessmentSound, Stored
<1>17. PlansSound' BY <1>2, <1>11 DEF EvidenceInv, PlansSound, AssessmentSound, Stored
<1>18. \A w : Cited(w)' <=> Cited(w) BY <1>2 DEF Cited, Plans, Stored
<1>19. \A w : ClassifiedAtExpiry(w)' <=> ClassifiedAtExpiry(w) BY <1>2 DEF ClassifiedAtExpiry, Stored
<1>20. \A w \in Observation : ExpirySeen(w) => ExpirySeen(w)' BY <1>8 DEF ExpirySeen
<1>21. CitedSound' BY <1>2, <1>12, <1>18, <1>19, <1>20 DEF EvidenceInv, CitedSound, Stored
<1>22. PlansTimely'
  <2>1. \A p \in Plans("outcome") : Timely(p)'
    BY <1>2, <1>18, <1>19 DEF EvidenceInv, PlansTimely, Timely
  <2> QED BY <2>1, <1>11 DEF PlansTimely
<1> QED BY <1>9, <1>10, <1>14, <1>15, <1>16, <1>17, <1>21, <1>22 DEF EvidenceInv
TablesRest == UNCHANGED <<vectors, rankings, outcomes, similarity, opportunities, lateOutcomes, lateOpportunities>>
OpportunityPlanSound(p) ==
    /\ work[p].sources \subseteq Stored(similarity) /\ DOMAIN work[p].items \subseteq work[p].sources
    /\ \A r \in DOMAIN work[p].items :
          /\ AssessmentSound(r, work[p].items[r])
          /\ r \notin work[p].late => work[p].items[r].evidence \subseteq similarity[r].attached

\* A program reads: what it is about to write follows from the tables as they are, and
\* it cites what is complete.
LEMMA PlanKeeps ==
    ASSUME EvidenceInv, TablesRest, NEW p \in Program,
           work' \in [Program -> {Idle} \union OutcomePlan \union OpportunityPlan],
           \A q \in Program : q # p => work'[q] = work[q],
           work'[p].kind = "outcome" => /\ OutcomeSound(work'[p].vector, work'[p].outcome)
                                        /\ work'[p].outcome.type = "EXPIRY_COMPLETE" \/ ~ ExpirySeen(work'[p].vector),
           work'[p].kind = "opportunities" => OpportunityPlanSound(p)',
           \A w : Cited(w)' => Cited(w) \/ ClassifiedAtExpiry(w)
    PROVE  EvidenceInv'
<1>1. UNCHANGED <<vectors, rankings, outcomes, similarity, opportunities, lateOutcomes, lateOpportunities>> BY DEF TablesRest
<1>2. Stored(outcomes') = Stored(outcomes) /\ Stored(similarity') = Stored(similarity)
      /\ Stored(opportunities') = Stored(opportunities) BY <1>1
<1>3. \A w : ClassifiedAtExpiry(w)' <=> ClassifiedAtExpiry(w) BY <1>1 DEF ClassifiedAtExpiry, Stored
<1>4. \A w \in Observation : ExpirySeen(w)' <=> ExpirySeen(w) BY <1>1 DEF ExpirySeen, FutureVectors, Stored
<1>5. EvidenceTyped' /\ RankingsKept' BY <1>1 DEF EvidenceInv, EvidenceTyped, RankingsKept
<1>6. \A v, row : OutcomeSound(v, row)' <=> OutcomeSound(v, row)
  BY <1>1 DEF OutcomeSound, ExpirySeen, FutureVectors, Stored
<1>7. \A q \in Plans("outcome")' : q = p \/ (q \in Plans("outcome") /\ work'[q] = work[q]) BY DEF Plans
<1>8. \A q \in Plans("opportunities")' : q = p \/ (q \in Plans("opportunities") /\ work'[q] = work[q]) BY DEF Plans
<1>9. \A q \in Plans("outcome")' : work'[q].vector \in Observation
  BY DEF Plans, Idle, OutcomePlan, OpportunityPlan
<1>10. OutcomesFollow'
  <2>1. \A v \in Stored(outcomes) : OutcomeSound(v, outcomes[v]) BY DEF EvidenceInv, OutcomesFollow
  <2>2. ASSUME NEW q \in Plans("outcome")' PROVE OutcomeSound(work'[q].vector, work'[q].outcome)
    <3>1. CASE q = p BY <3>1 DEF Plans
    <3>2. CASE q # p BY <3>2, <1>7 DEF EvidenceInv, OutcomesFollow
    <3> QED BY <3>1, <3>2
  <2>3. \A v \in Stored(outcomes)' : OutcomeSound(v, outcomes[v])' BY <2>1, <1>1, <1>2, <1>6
  <2>4. \A q \in Plans("outcome")' : OutcomeSound(work[q].vector, work[q].outcome)' BY <2>2, <1>6
  <2> QED BY <2>3, <2>4 DEF OutcomesFollow
<1>11. MatchesPrecede' BY <1>1, <1>2 DEF EvidenceInv, MatchesPrecede, Stored
<1>12. OpportunitiesSound' BY <1>1, <1>2 DEF EvidenceInv, OpportunitiesSound, AssessmentSound, Stored
<1>13. PlansSound'
  <2>1. ASSUME NEW q \in Plans("opportunities")' PROVE OpportunityPlanSound(q)'
    <3>1. CASE q = p BY <3>1 DEF Plans
    <3>2. CASE q # p
      <4>1. q \in Plans("opportunities") /\ work'[q] = work[q] BY <3>2, <1>8
      <4>2. OpportunityPlanSound(q) BY <4>1 DEF EvidenceInv, PlansSound, OpportunityPlanSound
      <4> QED BY <4>1, <4>2, <1>1 DEF OpportunityPlanSound, AssessmentSound, Stored
    <3> QED BY <3>1, <3>2
  <2> QED BY <2>1 DEF PlansSound, OpportunityPlanSound
<1>14. \A w \in Observation : ClassifiedAtExpiry(w) => w \in Stored(outcomes) /\ ExpirySeen(w)
  BY DEF ClassifiedAtExpiry, EvidenceInv, OutcomesFollow, OutcomeSound
<1>15. CitedSound' BY <1>1, <1>2, <1>3, <1>4, <1>14 DEF EvidenceInv, CitedSound, Stored
<1>16. ASSUME NEW q \in Plans("outcome")' PROVE Timely(q)'
  <2>1. CASE q = p
    <3>1. PICK v \in Observation : v = work'[q].vector BY <1>9
    <3>2. CASE work'[q].outcome.type = "EXPIRY_COMPLETE" BY <3>2 DEF Timely
    <3>3. CASE ~ ExpirySeen(v)
      <4>1. ~ ClassifiedAtExpiry(v) /\ ~ Cited(v) BY <3>3, <1>14 DEF EvidenceInv, CitedSound
      <4>2. ~ ClassifiedAtExpiry(v)' /\ ~ Cited(v)' BY <4>1, <1>3
      <4> QED BY <4>2, <3>1 DEF Timely
    <3> QED BY <2>1, <3>1, <3>2, <3>3 DEF Plans
  <2>2. CASE q # p
    <3>1. q \in Plans("outcome") /\ work'[q] = work[q] BY <2>2, <1>7
    <3>2. PICK v : v = work[q].vector OBVIOUS
    <3>3. Timely(q) BY <3>1 DEF EvidenceInv, PlansTimely
    <3>4. CASE work[q].late \/ work[q].outcome.type = "EXPIRY_COMPLETE" BY <3>4, <3>1 DEF Timely
    <3>5. CASE ~ ClassifiedAtExpiry(v) /\ ~ Cited(v)
      <4>1. ~ ClassifiedAtExpiry(v)' /\ ~ Cited(v)' BY <3>5, <1>3
      <4> QED BY <4>1, <3>1, <3>2 DEF Timely
    <3> QED BY <3>2, <3>3, <3>4, <3>5 DEF Timely
  <2> QED BY <2>1, <2>2
<1> QED BY <1>5, <1>10, <1>11, <1>12, <1>13, <1>15, <1>16 DEF EvidenceInv, PlansTimely

\* What a program cites, it holds itself or another one does.
LEMMA CitesOfOthers ==
    ASSUME NEW p \in Program, UNCHANGED opportunities, \A q \in Program : q # p => work'[q] = work[q], NEW w, Cited(w)'
    PROVE  Cited(w) \/ (work'[p].kind = "opportunities" /\ \E r \in DOMAIN work'[p].items : w \in work'[p].items[r].evidence)
<1>1. CASE \E r \in Stored(opportunities)' : w \in opportunities'[r].evidence BY <1>1 DEF Cited, Stored
<1>2. ASSUME NEW q \in Plans("opportunities")', \E r \in DOMAIN work'[q].items : w \in work'[q].items[r].evidence
      PROVE  Cited(w) \/ (work'[p].kind = "opportunities" /\ \E r \in DOMAIN work'[p].items : w \in work'[p].items[r].evidence)
  <2>1. CASE q = p BY <1>2, <2>1 DEF Plans
  <2>2. CASE q # p
    <3>1. q \in Plans("opportunities") /\ work'[q] = work[q] BY <2>2 DEF Plans
    <3> QED BY <1>2, <3>1 DEF Cited
  <2> QED BY <2>1, <2>2
<1> QED BY <1>1, <1>2 DEF Cited

LEMMA AbandonKeepsEvidence == ASSUME EvidenceInv, NEW p \in Program, Abandon(p) PROVE EvidenceInv'
<1>1. TablesRest BY DEF Abandon, TablesRest
<1>2. /\ work' \in [Program -> {Idle} \union OutcomePlan \union OpportunityPlan] /\ work'[p] = Idle
      /\ \A q \in Program : q # p => work'[q] = work[q]
  BY DEF Abandon, EvidenceInv, EvidenceTyped
<1>3. work'[p].kind = "idle" BY <1>2 DEF Idle
<1>4. \A w : Cited(w)' => Cited(w) \/ ClassifiedAtExpiry(w) BY <1>1, <1>2, <1>3, CitesOfOthers DEF TablesRest
<1> QED BY <1>1, <1>2, <1>3, <1>4, PlanKeeps

LEMMA ReadFuturesKeeps == ASSUME EvidenceInv, NEW p \in Program, NEW v \in Observation, ReadFutures(p, v) PROVE EvidenceInv'
<1>1. TablesRest BY DEF ReadFutures, TablesRest
<1>2. PICK x \in rankings[v] :
        work' = [work EXCEPT ![p] =
                      [kind |-> "outcome", vector |-> v, late |-> FALSE,
                       outcome |-> [type |-> OutcomeType(v), terminal |-> IF FutureVectors(v) = {} THEN Absent ELSE Terminal(v),
                                    ranking |-> x]]]
  BY DEF ReadFutures
<1>3. PICK row : row = [type |-> OutcomeType(v), terminal |-> IF FutureVectors(v) = {} THEN Absent ELSE Terminal(v), ranking |-> x]
  OBVIOUS
<1>4. EvidenceTyped BY DEF EvidenceInv
<1>5. FutureVectors(v) # {} => Terminal(v) \in FutureVectors(v) /\ Terminal(v) \in Observation
  BY <1>4, ExpiryDecides DEF FutureVectors, Stored
<1>6. row \in OutcomeRow
  <2>1. OutcomeType(v) \in {"NO_FUTURE_DATA", "PARTIAL", "EXPIRY_COMPLETE"} BY DEF OutcomeType
  <2>2. x \in Rankings BY <1>4 DEF EvidenceTyped
  <2> QED BY <2>1, <2>2, <1>3, <1>5 DEF OutcomeRow
<1>7. row.ranking = x /\ row.type = OutcomeType(v) /\ row.terminal = IF FutureVectors(v) = {} THEN Absent ELSE Terminal(v)
  BY <1>3
<1>8. OutcomeSound(v, row) BY <1>4, <1>5, <1>7, ExpiryDecides DEF OutcomeSound
<1>9. row.type = "EXPIRY_COMPLETE" \/ ~ ExpirySeen(v) BY <1>4, <1>7, ExpiryDecides
<1>10. PICK plan : plan = [kind |-> "outcome", vector |-> v, late |-> FALSE, outcome |-> row] OBVIOUS
<1>11. plan \in OutcomePlan /\ plan.kind = "outcome" /\ plan.vector = v /\ plan.outcome = row BY <1>6, <1>10 DEF OutcomePlan
<1>12. work' = [work EXCEPT ![p] = plan] BY <1>2, <1>3, <1>10
<1>13. /\ work' \in [Program -> {Idle} \union OutcomePlan \union OpportunityPlan] /\ work'[p] = plan
       /\ \A q \in Program : q # p => work'[q] = work[q]
  BY <1>4, <1>11, <1>12 DEF EvidenceTyped
<1>14. \A w : Cited(w)' => Cited(w) \/ ClassifiedAtExpiry(w) BY <1>1, <1>11, <1>13, CitesOfOthers DEF TablesRest
<1> QED BY <1>1, <1>8, <1>9, <1>11, <1>13, <1>14, PlanKeeps

LEMMA ReadRunsKeeps == ASSUME EvidenceInv, NEW p \in Program, ReadRuns(p) PROVE EvidenceInv'
<1>1. TablesRest BY DEF ReadRuns, TablesRest
<1>2. PICK sources \in SUBSET Stored(similarity) :
        work' = [work EXCEPT ![p] = [kind |-> "opportunities", sources |-> sources, items |-> <<>>, late |-> {}]]
  BY DEF ReadRuns
<1>3. PICK plan : plan = [kind |-> "opportunities", sources |-> sources, items |-> <<>>, late |-> {}] OBVIOUS
<1>4. plan \in OpportunityPlan /\ plan.kind = "opportunities" /\ plan.sources = sources /\ DOMAIN plan.items = {}
  <2>1. <<>> \in [{} -> OpportunityRow] OBVIOUS
  <2>2. <<>> \in Items BY <2>1 DEF Items
  <2>3. sources \subseteq Observation BY DEF Stored
  <2> QED BY <1>3, <2>2, <2>3 DEF OpportunityPlan
<1>5. /\ work' \in [Program -> {Idle} \union OutcomePlan \union OpportunityPlan] /\ work'[p] = plan
      /\ \A q \in Program : q # p => work'[q] = work[q]
  BY <1>2, <1>3, <1>4 DEF EvidenceInv, EvidenceTyped
<1>6. OpportunityPlanSound(p)' BY <1>1, <1>4, <1>5 DEF OpportunityPlanSound, TablesRest
<1>7. \A w : Cited(w)' => Cited(w) \/ ClassifiedAtExpiry(w) BY <1>1, <1>4, <1>5, CitesOfOthers DEF TablesRest
<1> QED BY <1>1, <1>4, <1>5, <1>6, <1>7, PlanKeeps

LEMMA AssessRunKeeps == ASSUME EvidenceInv, NEW p \in Program, NEW r \in Observation, AssessRun(p, r) PROVE EvidenceInv'
<1>1. TablesRest BY DEF AssessRun, TablesRest
<1>2. PICK favourable \in BOOLEAN :
        work' = [work EXCEPT ![p].items = [s \in DOMAIN @ \union {r} |-> IF s = r THEN Assessment(r, work[p].sources, favourable) ELSE @[s]]]
  BY DEF AssessRun
<1>3. p \in Plans("opportunities") /\ r \in work[p].sources \ DOMAIN work[p].items BY DEF AssessRun, Plans
<1>4. EvidenceTyped BY DEF EvidenceInv
<1>5. work[p] \in OpportunityPlan BY <1>3, <1>4 DEF EvidenceTyped, Plans, Idle, OutcomePlan
<1>6. OpportunityPlanSound(p) BY <1>3 DEF EvidenceInv, PlansSound, OpportunityPlanSound
<1>7. PICK sources, items, late : work[p] = [kind |-> "opportunities", sources |-> sources, items |-> items, late |-> late]
                                  /\ sources \in SUBSET Observation /\ items \in Items /\ late \in SUBSET Observation
  BY <1>5 DEF OpportunityPlan
<1>8. work[p].sources = sources /\ work[p].items = items /\ work[p].late = late BY <1>7
<1>9. PICK row : row = Assessment(r, sources, favourable) OBVIOUS
<1>10. PICK new : new = [s \in DOMAIN items \union {r} |-> IF s = r THEN row ELSE items[s]] OBVIOUS
<1>11. r \in Stored(similarity) /\ similarity[r] \in SimilarityRow
  BY <1>3, <1>4, <1>6 DEF OpportunityPlanSound, EvidenceTyped, Stored
<1>12. Classified(r) \subseteq similarity[r].attached /\ similarity[r].attached \subseteq Observation
  BY <1>11 DEF Classified, SimilarityRow
<1>13. \A w \in Classified(r) : ClassifiedAtExpiry(w)
  BY <1>11 DEF Classified, ClassifiedAtExpiry, EvidenceInv, MatchesPrecede
<1>14. row \in OpportunityRow /\ AssessmentSound(r, row) /\ row.evidence = Classified(r)
  <2>1. Classified(r) \subseteq Observation BY <1>12
  <2>2. similarity[r].ranking \in Rankings BY <1>11 DEF SimilarityRow
  <2>3. row \in OpportunityRow BY <1>7, <1>9, <2>1, <2>2 DEF Assessment, OpportunityRow
  <2>4. IsFiniteSet(Classified(r)) BY <2>1, CapturesDiffer, FS_Subset
  <2>5. Cardinality(Classified(r)) \in Nat BY <2>4, FS_CardinalityType
  <2>6. row.evidence = Classified(r) /\ row.ranking = similarity[r].ranking BY <1>9 DEF Assessment
  <2>7. row.state # "INSUFFICIENT_EVIDENCE" => ~ (Cardinality(Classified(r)) < MinimumClassified) BY <1>9 DEF Assessment
  <2>8. \/ row.values = {"zones", "expectation"} /\ row.state = "ELIGIBLE"
        \/ row.values = {"expectation"} /\ row.state = "NO_OPPORTUNITY"
        \/ row.values = {} /\ row.state = "INSUFFICIENT_EVIDENCE"
    <3>1. CASE Cardinality(Classified(r)) < MinimumClassified BY <3>1, <1>9 DEF Assessment
    <3>2. CASE ~ (Cardinality(Classified(r)) < MinimumClassified) /\ favourable BY <3>2, <1>9 DEF Assessment
    <3>3. CASE ~ (Cardinality(Classified(r)) < MinimumClassified) /\ ~ favourable BY <3>3, <1>9 DEF Assessment
    <3> QED BY <3>1, <3>2, <3>3
  <2>9. "zones" \in row.values => row.state = "ELIGIBLE" BY <2>8
  <2>10. "expectation" \in row.values => row.state # "INSUFFICIENT_EVIDENCE" BY <2>8
  <2> QED BY <1>11, <2>3, <2>5, <2>6, <2>7, <2>9, <2>10, MinimumIsNatural DEF AssessmentSound
<1>15. PICK S \in SUBSET Observation : items \in [S -> OpportunityRow] BY <1>7 DEF Items
<1>16. new \in [S \union {r} -> OpportunityRow] BY <1>10, <1>14, <1>15
<1>17. new \in Items BY <1>16 DEF Items
<1>18. PICK plan : plan = [kind |-> "opportunities", sources |-> sources, items |-> new, late |-> late] OBVIOUS
<1>19. plan \in OpportunityPlan /\ plan.kind = "opportunities" /\ plan.sources = sources /\ plan.items = new /\ plan.late = late
  BY <1>7, <1>17, <1>18 DEF OpportunityPlan
<1>20. work'[p] = plan /\ work' \in [Program -> {Idle} \union OutcomePlan \union OpportunityPlan]
       /\ \A q \in Program : q # p => work'[q] = work[q]
  <2>1. [work[p] EXCEPT !.items = new] = plan BY <1>7, <1>18
  <2>2. work' = [work EXCEPT ![p] = [work[p] EXCEPT !.items = new]] BY <1>2, <1>4, <1>8, <1>9, <1>10 DEF EvidenceTyped
  <2> QED BY <2>1, <2>2, <1>4, <1>19 DEF EvidenceTyped
<1>21. OpportunityPlanSound(p)'
  <2>1. DOMAIN new = DOMAIN items \union {r} BY <1>10
  <2>2. ASSUME NEW s \in DOMAIN new
        PROVE  AssessmentSound(s, new[s]) /\ (s \notin late => new[s].evidence \subseteq similarity[s].attached)
    <3>1. CASE s = r BY <3>1, <1>10, <1>12, <1>14
    <3>2. CASE s # r
      <4>1. s \in DOMAIN items /\ new[s] = items[s] BY <3>2, <1>10
      <4> QED BY <4>1, <1>6, <1>8 DEF OpportunityPlanSound
    <3> QED BY <3>1, <3>2
  <2>3. \A s \in DOMAIN new : AssessmentSound(s, new[s])' BY <2>2, <1>1 DEF AssessmentSound, TablesRest, Stored
  <2>4. sources \subseteq Stored(similarity') BY <1>1, <1>6, <1>8 DEF OpportunityPlanSound, TablesRest
  <2>5. DOMAIN new \subseteq sources BY <2>1, <1>3, <1>6, <1>8 DEF OpportunityPlanSound
  <2> QED BY <2>2, <2>3, <2>4, <2>5, <1>1, <1>19, <1>20 DEF OpportunityPlanSound, TablesRest
<1>22. ASSUME NEW w, Cited(w)' PROVE Cited(w) \/ ClassifiedAtExpiry(w)
  <2>1. Cited(w) \/ \E s \in DOMAIN new : w \in new[s].evidence
    BY <1>1, <1>19, <1>20, <1>22, CitesOfOthers DEF TablesRest
  <2>2. ASSUME NEW s \in DOMAIN new, w \in new[s].evidence PROVE Cited(w) \/ ClassifiedAtExpiry(w)
    <3>1. CASE s = r BY <2>2, <3>1, <1>10, <1>13, <1>14
    <3>2. CASE s # r
      <4>1. s \in DOMAIN work[p].items /\ w \in work[p].items[s].evidence BY <2>2, <3>2, <1>8, <1>10
      <4> QED BY <4>1, <1>3 DEF Cited
    <3> QED BY <3>1, <3>2
  <2> QED BY <2>1, <2>2
<1> QED BY <1>1, <1>19, <1>20, <1>21, <1>22, PlanKeeps

\* The tables that a write leaves alone are judged as before.
LEMMA OthersRest ==
    ASSUME UNCHANGED <<vectors, rankings>>
    PROVE  /\ \A v, row : OutcomeSound(v, row)' <=> OutcomeSound(v, row)
           /\ \A v \in Observation : ExpirySeen(v)' <=> ExpirySeen(v)
BY DEF OutcomeSound, ExpirySeen, FutureVectors, Stored

LEMMA UpsertOutcomeKeeps == ASSUME EvidenceInv, NEW p \in Program, UpsertOutcome(p) PROVE EvidenceInv'
<1>1. UNCHANGED <<vectors, rankings, similarity, opportunities, lateOpportunities>> BY DEF UpsertOutcome
<1>2. EvidenceTyped BY DEF EvidenceInv
<1>3. p \in Plans("outcome") /\ work[p] \in OutcomePlan
  BY <1>2 DEF UpsertOutcome, Plans, EvidenceTyped, Idle, OpportunityPlan
<1>4. PICK v \in Observation : v = work[p].vector BY <1>3 DEF OutcomePlan
<1>5. PICK new : new = work[p].outcome OBVIOUS
<1>6. new \in OutcomeRow /\ OutcomeSound(v, new) BY <1>3, <1>4, <1>5 DEF OutcomePlan, EvidenceInv, OutcomesFollow
<1>7. PICK row : row = Replaced(outcomes[v], new) OBVIOUS
<1>8. outcomes[v] # Absent => outcomes[v] \in OutcomeRow /\ OutcomeSound(v, outcomes[v])
  BY <1>2 DEF EvidenceTyped, EvidenceInv, OutcomesFollow, Stored
<1>9. row \in OutcomeRow /\ row.type = new.type /\ OutcomeSound(v, row)
  <2>1. CASE outcomes[v] = Absent BY <2>1, <1>6, <1>7 DEF Replaced
  <2>2. CASE outcomes[v] # Absent
    <3>1. PICK x : x = outcomes[v].ranking OBVIOUS
    <3>2. x \in Rankings /\ x \in rankings[v] BY <2>2, <1>8, <3>1 DEF OutcomeRow, OutcomeSound
    <3>3. row = [new EXCEPT !.ranking = x] BY <2>2, <1>7, <3>1 DEF Replaced
    <3>4. row \in OutcomeRow /\ row.type = new.type /\ row.terminal = new.terminal /\ row.ranking = x
      BY <1>6, <3>2, <3>3 DEF OutcomeRow
    <3> QED BY <1>6, <3>2, <3>4 DEF OutcomeSound
  <2> QED BY <2>1, <2>2
<1>10. row # Absent BY <1>9, AbsentIsNoRow
<1>11. outcomes' = [outcomes EXCEPT ![v] = row] BY <1>4, <1>5, <1>7 DEF UpsertOutcome
<1>12. /\ outcomes' \in [Observation -> OutcomeRow \union {Absent}] /\ outcomes'[v] = row
       /\ \A w \in Observation : w # v => outcomes'[w] = outcomes[w]
  BY <1>2, <1>9, <1>11 DEF EvidenceTyped
<1>13. Stored(outcomes') = Stored(outcomes) \union {v} BY <1>10, <1>12 DEF Stored
<1>14. work' = [q \in Program |-> IF q = p THEN Idle
                                  ELSE IF q \in Plans("outcome") /\ work[q].vector = v THEN [work[q] EXCEPT !.late = TRUE]
                                  ELSE work[q]]
  BY <1>4 DEF UpsertOutcome
<1>15. work'[p] = Idle BY <1>14
<1>16. ASSUME NEW q \in Plans("outcome"), q # p
       PROVE  /\ work'[q] \in OutcomePlan
              /\ work'[q].vector = work[q].vector /\ work'[q].outcome = work[q].outcome
              /\ work[q].vector = v => work'[q].late
              /\ work[q].vector # v => work'[q] = work[q]
  <2>1. work[q] \in OutcomePlan /\ q \in Program BY <1>2 DEF Plans, EvidenceTyped, Idle, OpportunityPlan
  <2>2. CASE work[q].vector = v
    <3>1. work'[q] = [work[q] EXCEPT !.late = TRUE] BY <2>1, <2>2, <1>14, <1>16
    <3> QED BY <2>1, <2>2, <3>1 DEF OutcomePlan
  <2>3. CASE work[q].vector # v BY <2>1, <2>3, <1>14, <1>16
  <2> QED BY <2>2, <2>3
<1>17. \A q \in Program : q # p /\ q \notin Plans("outcome") => work'[q] = work[q] BY <1>14
<1>18. work' \in [Program -> {Idle} \union OutcomePlan \union OpportunityPlan]
  <2>1. \A q \in Program : work'[q] \in {Idle} \union OutcomePlan \union OpportunityPlan
    BY <1>2, <1>15, <1>16, <1>17 DEF EvidenceTyped
  <2> QED BY <2>1, <1>14
<1>19. EvidenceTyped' /\ RankingsKept' BY <1>1, <1>12, <1>18 DEF EvidenceInv, EvidenceTyped, RankingsKept
<1>20. ASSUME NEW q \in Plans("outcome")' PROVE q \in Plans("outcome") /\ q # p
  <2>1. q \in Program /\ work'[q].kind = "outcome" /\ q # p BY <1>15, <1>20 DEF Plans, Idle
  <2>2. q \notin Plans("outcome") => work'[q] = work[q] BY <2>1, <1>17
  <2> QED BY <2>1, <2>2 DEF Plans
<1>21. Plans("opportunities")' = Plans("opportunities") /\ \A q \in Plans("opportunities") : work'[q] = work[q]
  <2>1. \A q \in Plans("outcome") : q # p => work'[q].kind = "outcome" BY <1>16 DEF OutcomePlan
  <2> QED BY <2>1, <1>3, <1>15, <1>17 DEF Plans, Idle
<1>22. OutcomesFollow'
  <2>1. \A w \in Stored(outcomes') : OutcomeSound(w, outcomes'[w])
    <3> SUFFICES ASSUME NEW w \in Stored(outcomes') PROVE OutcomeSound(w, outcomes'[w]) OBVIOUS
    <3>1. CASE w = v BY <3>1, <1>9, <1>12
    <3>2. CASE w # v
      <4>1. w \in Stored(outcomes) /\ outcomes'[w] = outcomes[w] BY <3>2, <1>12, <1>13 DEF Stored
      <4> QED BY <4>1 DEF EvidenceInv, OutcomesFollow
    <3> QED BY <3>1, <3>2
  <2>2. \A q \in Plans("outcome")' : OutcomeSound(work'[q].vector, work'[q].outcome)
    BY <1>16, <1>20 DEF EvidenceInv, OutcomesFollow
  <2>3. \A w \in Stored(outcomes)' : OutcomeSound(w, outcomes[w])' BY <2>1, <1>1, OthersRest
  <2>4. \A q \in Plans("outcome")' : OutcomeSound(work[q].vector, work[q].outcome)' BY <2>2, <1>1, OthersRest
  <2> QED BY <2>3, <2>4 DEF OutcomesFollow
<1>23. MatchesPrecede' BY <1>1, <1>13 DEF EvidenceInv, MatchesPrecede, Stored
<1>24. OpportunitiesSound' BY <1>1 DEF EvidenceInv, OpportunitiesSound, AssessmentSound, Stored
<1>25. PlansSound' BY <1>1, <1>21 DEF EvidenceInv, PlansSound, AssessmentSound, Stored
<1>26. \A w : Cited(w)' <=> Cited(w) BY <1>1, <1>21 DEF Cited, Stored
<1>27. \A w \in Observation : w # v => (ClassifiedAtExpiry(w)' <=> ClassifiedAtExpiry(w)) BY <1>12, <1>13 DEF ClassifiedAtExpiry
<1>28. ClassifiedAtExpiry(v)' <=> new.type = "EXPIRY_COMPLETE" BY <1>9, <1>12, <1>13 DEF ClassifiedAtExpiry
<1>29. lateOutcomes' = IF work[p].late THEN lateOutcomes \union {v} ELSE lateOutcomes \ {v}
  BY <1>4 DEF UpsertOutcome
\* A write that is not late and knows no expiry date is of a vector that nobody cites.
<1>30. Cited(v) /\ v \notin lateOutcomes' => new.type = "EXPIRY_COMPLETE"
  <2>1. Timely(p) BY <1>3 DEF EvidenceInv, PlansTimely
  <2> QED BY <2>1, <1>4, <1>5, <1>29 DEF Timely
<1>31. CitedSound'
  <2> SUFFICES ASSUME NEW w \in Observation, Cited(w)
               PROVE  w \in Stored(outcomes') /\ ExpirySeen(w) /\ (w \notin lateOutcomes' => ClassifiedAtExpiry(w)')
    BY <1>1, <1>26, OthersRest DEF CitedSound
  <2>1. w \in Stored(outcomes) /\ ExpirySeen(w) /\ (w \notin lateOutcomes => ClassifiedAtExpiry(w)) BY DEF EvidenceInv, CitedSound
  <2>2. CASE w = v BY <2>1, <2>2, <1>13, <1>28, <1>30
  <2>3. CASE w # v BY <2>1, <2>3, <1>13, <1>27, <1>29
  <2> QED BY <2>2, <2>3
<1>32. ASSUME NEW q \in Plans("outcome")' PROVE Timely(q)'
  <2>1. q \in Plans("outcome") /\ q # p BY <1>20
  <2>2. work[q] \in OutcomePlan BY <2>1, <1>2 DEF Plans, EvidenceTyped, Idle, OpportunityPlan
  <2>3. CASE work[q].vector = v BY <2>1, <2>3, <1>16 DEF Timely
  <2>4. CASE work[q].vector # v
    <3>1. PICK u \in Observation : u = work[q].vector /\ u # v BY <2>2, <2>4 DEF OutcomePlan
    <3>2. work'[q] = work[q] /\ Timely(q) BY <2>1, <2>4, <1>16 DEF EvidenceInv, PlansTimely
    <3>3. (ClassifiedAtExpiry(u)' <=> ClassifiedAtExpiry(u)) /\ (Cited(u)' <=> Cited(u)) BY <3>1, <1>26, <1>27
    <3>4. CASE work[q].late \/ work[q].outcome.type = "EXPIRY_COMPLETE" BY <3>2, <3>4 DEF Timely
    <3>5. CASE ~ ClassifiedAtExpiry(u) /\ ~ Cited(u)
      <4>1. ~ ClassifiedAtExpiry(u)' /\ ~ Cited(u)' BY <3>3, <3>5
      <4> QED BY <4>1, <3>1, <3>2 DEF Timely
    <3> QED BY <3>1, <3>2, <3>4, <3>5 DEF Timely
  <2> QED BY <2>3, <2>4
<1> QED BY <1>19, <1>22, <1>23, <1>24, <1>25, <1>31, <1>32 DEF EvidenceInv, PlansTimely

LEMMA SimilarityKeeps == ASSUME EvidenceInv, NEW q \in Observation, AnalyzeSimilarity(q) PROVE EvidenceInv'
<1>1. UNCHANGED <<vectors, rankings, outcomes, opportunities, lateOutcomes, lateOpportunities>> BY DEF AnalyzeSimilarity
<1>2. PICK matched \in SUBSET Candidates(q), x \in rankings[q] :
        \E attached \in SUBSET (matched \intersect Stored(outcomes)) : PersistSimilarity(q, matched, attached, x)
  BY DEF AnalyzeSimilarity
<1>3. PICK attached \in SUBSET (matched \intersect Stored(outcomes)) : PersistSimilarity(q, matched, attached, x) BY <1>2
<1>4. EvidenceTyped BY DEF EvidenceInv
<1>5. EvidenceOf(q) = {} BY <1>3 DEF PersistSimilarity
<1>6. PICK kept : kept = IF similarity[q] = Absent THEN x ELSE similarity[q].ranking OBVIOUS
<1>7. kept \in rankings[q] /\ (q \in Stored(similarity) => kept = similarity[q].ranking)
  BY <1>6 DEF EvidenceInv, MatchesPrecede, Stored
<1>8. PICK row : row = [matched |-> matched, attached |-> attached, ranking |-> kept] OBVIOUS
<1>9. matched \subseteq Observation BY DEF Candidates, Stored
<1>10. row \in SimilarityRow /\ row # Absent /\ row.matched = matched /\ row.attached = attached /\ row.ranking = kept
  <2>1. kept \in Rankings BY <1>4, <1>7 DEF EvidenceTyped
  <2>2. row \in SimilarityRow BY <2>1, <1>8, <1>9 DEF SimilarityRow
  <2> QED BY <2>2, <1>8, AbsentIsNoRow
<1>11. similarity' = [similarity EXCEPT ![q] = row] BY <1>3, <1>4, <1>6, <1>8 DEF PersistSimilarity, EvidenceTyped
<1>12. /\ similarity' \in [Observation -> SimilarityRow \union {Absent}] /\ similarity'[q] = row
       /\ \A w \in Observation : w # q => similarity'[w] = similarity[w]
  BY <1>4, <1>10, <1>11 DEF EvidenceTyped
<1>13. Stored(similarity') = Stored(similarity) \union {q} BY <1>10, <1>12 DEF Stored
<1>14. work' = [p \in Program |-> IF p \in Plans("opportunities") /\ q \in DOMAIN work[p].items
                                  THEN [work[p] EXCEPT !.late = @ \union {q}] ELSE work[p]]
  BY <1>3 DEF PersistSimilarity
<1>15. ASSUME NEW p \in Plans("opportunities")
       PROVE  /\ work'[p] \in OpportunityPlan
              /\ work'[p].sources = work[p].sources /\ work'[p].items = work[p].items
              /\ work[p].late \subseteq work'[p].late /\ (q \in DOMAIN work[p].items => q \in work'[p].late)
  <2>1. work[p] \in OpportunityPlan /\ p \in Program BY <1>4 DEF Plans, EvidenceTyped, Idle, OutcomePlan
  <2>2. CASE q \in DOMAIN work[p].items
    <3>1. PICK late : late = work[p].late \union {q} OBVIOUS
    <3>2. work'[p] = [work[p] EXCEPT !.late = late] BY <2>1, <2>2, <3>1, <1>14
    <3>3. late \in SUBSET Observation BY <2>1, <3>1 DEF OpportunityPlan
    <3>4. work'[p] \in OpportunityPlan /\ work'[p].sources = work[p].sources /\ work'[p].items = work[p].items
          /\ work'[p].late = late
      BY <2>1, <3>2, <3>3 DEF OpportunityPlan
    <3> QED BY <3>1, <3>4
  <2>3. CASE q \notin DOMAIN work[p].items BY <2>1, <2>3, <1>14
  <2> QED BY <2>2, <2>3
<1>16. \A p \in Program : p \notin Plans("opportunities") => work'[p] = work[p] BY <1>14
<1>17. work' \in [Program -> {Idle} \union OutcomePlan \union OpportunityPlan]
  <2>1. \A p \in Program : work'[p] \in {Idle} \union OutcomePlan \union OpportunityPlan
    BY <1>4, <1>15, <1>16 DEF EvidenceTyped
  <2> QED BY <2>1, <1>14
<1>18. EvidenceTyped' /\ RankingsKept' BY <1>1, <1>12, <1>17 DEF EvidenceInv, EvidenceTyped, RankingsKept
<1>19. Plans("opportunities")' = Plans("opportunities")
  <2>1. \A p \in Plans("opportunities") : work'[p].kind = "opportunities" BY <1>15 DEF OpportunityPlan
  <2> QED BY <2>1, <1>16 DEF Plans
<1>20. Plans("outcome")' = Plans("outcome") /\ \A p \in Plans("outcome") : work'[p] = work[p]
  <2>1. \A p \in Plans("opportunities") : work'[p].kind = "opportunities" BY <1>15 DEF OpportunityPlan
  <2> QED BY <2>1, <1>16 DEF Plans
<1>21. OutcomesFollow'
  <2>1. \A v \in Stored(outcomes)' : OutcomeSound(v, outcomes[v])'
    BY <1>1, OthersRest DEF EvidenceInv, OutcomesFollow, Stored
  <2>2. \A p \in Plans("outcome")' : OutcomeSound(work[p].vector, work[p].outcome)'
    BY <1>1, <1>20, OthersRest DEF EvidenceInv, OutcomesFollow
  <2> QED BY <2>1, <2>2 DEF OutcomesFollow
<1>22. \A w \in matched : ObservedAt[w] < ObservedAt[q]
  <2> SUFFICES ASSUME NEW w \in matched PROVE ObservedAt[w] < ObservedAt[q] OBVIOUS
  <2>1. w \in Observation /\ w # q /\ ObservedAt[w] <= ObservedAt[q] BY <1>9 DEF Candidates
  <2>2. ObservedAt[w] \in Int /\ ObservedAt[q] \in Int /\ ObservedAt[w] # ObservedAt[q] BY <2>1, CapturesDiffer
  <2> QED BY <2>1, <2>2
<1>23. MatchesPrecede'
  <2> SUFFICES ASSUME NEW w \in Stored(similarity')
               PROVE  /\ similarity'[w].ranking \in rankings[w]
                      /\ \A u \in similarity'[w].matched : ObservedAt[u] < ObservedAt[w]
                      /\ similarity'[w].attached \subseteq similarity'[w].matched \intersect Stored(outcomes)
    BY <1>1 DEF MatchesPrecede, Stored
  <2>1. CASE w = q BY <2>1, <1>3, <1>7, <1>10, <1>12, <1>22
  <2>2. CASE w # q
    <3>1. w \in Stored(similarity) /\ similarity'[w] = similarity[w] BY <2>2, <1>12, <1>13 DEF Stored
    <3> QED BY <3>1 DEF EvidenceInv, MatchesPrecede
  <2> QED BY <2>1, <2>2
<1>24. ASSUME NEW r, NEW item, AssessmentSound(r, item) PROVE AssessmentSound(r, item)'
  <2>1. r \in Stored(similarity) /\ r \in Observation BY <1>24 DEF AssessmentSound, Stored
  <2>2. similarity'[r].ranking = similarity[r].ranking BY <2>1, <1>7, <1>10, <1>12
  <2>3. r \in Stored(similarity') BY <2>1, <1>13
  <2> QED BY <1>24, <2>2, <2>3 DEF AssessmentSound
\* A query that is cited is not run again.
<1>25. OpportunitiesSound'
  <2> SUFFICES ASSUME NEW r \in Stored(opportunities)
               PROVE  /\ AssessmentSound(r, opportunities[r])'
                      /\ opportunities[r].evidence \subseteq similarity'[r].matched
                      /\ r \notin lateOpportunities => opportunities[r].evidence \subseteq similarity'[r].attached
    BY <1>1 DEF OpportunitiesSound, Stored
  <2>1. /\ AssessmentSound(r, opportunities[r]) /\ opportunities[r].evidence \subseteq similarity[r].matched
        /\ r \notin lateOpportunities => opportunities[r].evidence \subseteq similarity[r].attached
    BY DEF EvidenceInv, OpportunitiesSound
  <2>2. PICK item : item = opportunities[r] OBVIOUS
  <2>3. AssessmentSound(r, item)' BY <2>1, <2>2, <1>24
  <2>4. CASE r = q
    <3>1. opportunities[r].evidence = {} BY <2>4, <1>5 DEF EvidenceOf, Stored
    <3> QED BY <2>2, <2>3, <3>1, <1>1
  <2>5. CASE r # q BY <2>1, <2>2, <2>3, <2>5, <1>1, <1>12 DEF Stored
  <2> QED BY <2>4, <2>5
<1>26. PlansSound'
  <2>1. ASSUME NEW p \in Plans("opportunities") PROVE OpportunityPlanSound(p)'
    <3>1. OpportunityPlanSound(p) BY DEF EvidenceInv, PlansSound, OpportunityPlanSound
    <3>2. work'[p].sources \subseteq Stored(similarity') /\ DOMAIN work'[p].items \subseteq work'[p].sources
      BY <3>1, <1>13, <1>15 DEF OpportunityPlanSound
    <3>3. ASSUME NEW r \in DOMAIN work'[p].items
          PROVE  AssessmentSound(r, work[p].items[r])' /\ (r \notin work'[p].late => work'[p].items[r].evidence \subseteq similarity'[r].attached)
      <4>1. r \in DOMAIN work[p].items /\ work'[p].items[r] = work[p].items[r] BY <1>15
      <4>2. /\ AssessmentSound(r, work[p].items[r])
            /\ r \notin work[p].late => work[p].items[r].evidence \subseteq similarity[r].attached
        BY <3>1, <4>1 DEF OpportunityPlanSound
      <4>3. PICK item : item = work[p].items[r] OBVIOUS
      <4>4. AssessmentSound(r, item)' BY <4>2, <4>3, <1>24
      <4>5. r \notin work'[p].late => r \notin work[p].late /\ r # q BY <4>1, <1>15
      <4>6. r \in Observation BY <4>2 DEF AssessmentSound, Stored
      <4>7. AssessmentSound(r, work[p].items[r])' BY <4>1, <4>3, <4>4
      <4>8. r \notin work'[p].late => work'[p].items[r].evidence \subseteq similarity'[r].attached
        BY <4>1, <4>2, <4>5, <4>6, <1>12
      <4> QED BY <4>7, <4>8
    <3> QED BY <3>2, <3>3 DEF OpportunityPlanSound
  <2> QED BY <2>1, <1>19 DEF PlansSound, OpportunityPlanSound
<1>27. \A w : Cited(w)' <=> Cited(w) BY <1>1, <1>15, <1>19 DEF Cited, Stored
<1>28. \A w : ClassifiedAtExpiry(w)' <=> ClassifiedAtExpiry(w) BY <1>1 DEF ClassifiedAtExpiry, Stored
<1>29. CitedSound' BY <1>1, <1>27, <1>28, OthersRest DEF EvidenceInv, CitedSound, Stored
<1>30. PlansTimely'
  <2>1. \A p \in Plans("outcome") : Timely(p)' BY <1>20, <1>27, <1>28 DEF EvidenceInv, PlansTimely, Timely
  <2> QED BY <2>1, <1>20 DEF PlansTimely
<1> QED BY <1>18, <1>21, <1>23, <1>25, <1>26, <1>29, <1>30 DEF EvidenceInv

LEMMA OpportunitiesKeep ==
    ASSUME EvidenceInv, NEW p \in Program, PersistOpportunities(p)
    PROVE  EvidenceInv' /\ Stored(opportunities) \subseteq Stored(opportunities')
<1>1. UNCHANGED <<vectors, rankings, outcomes, similarity, lateOutcomes>> BY DEF PersistOpportunities
<1>2. EvidenceTyped BY DEF EvidenceInv
<1>3. p \in Plans("opportunities") /\ work[p] \in OpportunityPlan
  BY <1>2 DEF PersistOpportunities, Plans, EvidenceTyped, Idle, OutcomePlan
<1>4. OpportunityPlanSound(p) BY <1>3 DEF EvidenceInv, PlansSound, OpportunityPlanSound
<1>5. PICK sources, items, late : sources = work[p].sources /\ items = work[p].items /\ late = work[p].late OBVIOUS
<1>6. DOMAIN items = sources /\ \A r \in sources : items[r].evidence \subseteq similarity[r].matched
  BY <1>5 DEF PersistOpportunities
<1>7. sources \subseteq Observation BY <1>3, <1>5 DEF OpportunityPlan
<1>8. \A r \in sources : items[r] \in OpportunityRow
  <2>1. items \in Items BY <1>3, <1>5 DEF OpportunityPlan
  <2>2. PICK S \in SUBSET Observation : items \in [S -> OpportunityRow] BY <2>1 DEF Items
  <2> QED BY <2>2, <1>6
<1>9. /\ opportunities' = [r \in Observation |-> IF r \in sources THEN items[r] ELSE opportunities[r]]
      /\ lateOpportunities' = (lateOpportunities \ sources) \union late
      /\ work' = [work EXCEPT ![p] = Idle]
  BY <1>5 DEF PersistOpportunities
<1>10. /\ opportunities' \in [Observation -> OpportunityRow \union {Absent}]
       /\ \A r \in sources : opportunities'[r] = items[r] /\ opportunities'[r] # Absent
       /\ \A r \in Observation \ sources : opportunities'[r] = opportunities[r]
  <2>1. \A r \in sources : opportunities'[r] = items[r] /\ opportunities'[r] # Absent BY <1>7, <1>8, <1>9, AbsentIsNoRow
  <2>2. \A r \in Observation \ sources : opportunities'[r] = opportunities[r] BY <1>9
  <2>3. \A r \in Observation : opportunities'[r] \in OpportunityRow \union {Absent}
    BY <2>1, <2>2, <1>2, <1>8 DEF EvidenceTyped
  <2> QED BY <2>1, <2>2, <2>3, <1>9
<1>11. Stored(opportunities') = Stored(opportunities) \union sources
  <2>1. \A r \in Observation : r \in Stored(opportunities') <=> r \in Stored(opportunities) \/ r \in sources
    BY <1>10 DEF Stored
  <2> QED BY <2>1, <1>7 DEF Stored
<1>12. /\ work' \in [Program -> {Idle} \union OutcomePlan \union OpportunityPlan] /\ work'[p] = Idle
       /\ \A q \in Program : q # p => work'[q] = work[q]
  BY <1>2, <1>9 DEF EvidenceTyped
<1>13. EvidenceTyped' /\ RankingsKept' BY <1>1, <1>10, <1>12 DEF EvidenceInv, EvidenceTyped, RankingsKept
<1>14. \A q \in Plans("outcome")' : q \in Plans("outcome") /\ work'[q] = work[q] BY <1>12 DEF Plans, Idle
<1>15. \A q \in Plans("opportunities")' : q \in Plans("opportunities") /\ work'[q] = work[q] BY <1>12 DEF Plans, Idle
<1>16. OutcomesFollow'
  <2>1. \A v \in Stored(outcomes)' : OutcomeSound(v, outcomes[v])'
    BY <1>1, OthersRest DEF EvidenceInv, OutcomesFollow, Stored
  <2>2. \A q \in Plans("outcome")' : OutcomeSound(work[q].vector, work[q].outcome)'
    BY <1>1, <1>14, OthersRest DEF EvidenceInv, OutcomesFollow
  <2> QED BY <2>1, <2>2 DEF OutcomesFollow
<1>17. MatchesPrecede' BY <1>1 DEF EvidenceInv, MatchesPrecede, Stored
<1>18. \A r, item : AssessmentSound(r, item)' <=> AssessmentSound(r, item) BY <1>1 DEF AssessmentSound, Stored
<1>19. OpportunitiesSound'
  <2> SUFFICES ASSUME NEW r \in Stored(opportunities')
               PROVE  /\ AssessmentSound(r, opportunities'[r])
                      /\ opportunities'[r].evidence \subseteq similarity[r].matched
                      /\ r \notin lateOpportunities' => opportunities'[r].evidence \subseteq similarity[r].attached
    BY <1>1, <1>18 DEF OpportunitiesSound, Stored
  <2>1. CASE r \in sources BY <2>1, <1>4, <1>5, <1>6, <1>9, <1>10 DEF OpportunityPlanSound
  <2>2. CASE r \notin sources
    <3>1. r \in Stored(opportunities) /\ opportunities'[r] = opportunities[r] BY <2>2, <1>10, <1>11 DEF Stored
    <3> QED BY <3>1, <2>2, <1>9 DEF EvidenceInv, OpportunitiesSound
  <2> QED BY <2>1, <2>2
<1>20. PlansSound'
  <2>1. ASSUME NEW q \in Plans("opportunities")' PROVE OpportunityPlanSound(q)'
    <3>1. q \in Plans("opportunities") /\ work'[q] = work[q] BY <1>15
    <3>2. OpportunityPlanSound(q) BY <3>1 DEF EvidenceInv, PlansSound, OpportunityPlanSound
    <3> QED BY <3>1, <3>2, <1>1 DEF OpportunityPlanSound, AssessmentSound, Stored
  <2> QED BY <2>1 DEF PlansSound, OpportunityPlanSound
<1>21. ASSUME NEW w, Cited(w)' PROVE Cited(w)
  <2>1. CASE \E r \in Stored(opportunities') : w \in opportunities'[r].evidence
    <3>1. PICK r \in Stored(opportunities') : w \in opportunities'[r].evidence BY <2>1
    <3>2. CASE r \in sources
      <4>1. r \in DOMAIN work[p].items /\ w \in work[p].items[r].evidence BY <3>1, <3>2, <1>5, <1>6, <1>10
      <4> QED BY <4>1, <1>3 DEF Cited
    <3>3. CASE r \notin sources
      <4>1. r \in Stored(opportunities) /\ opportunities'[r] = opportunities[r] BY <3>3, <1>10, <1>11 DEF Stored
      <4> QED BY <3>1, <4>1 DEF Cited
    <3> QED BY <3>2, <3>3
  <2>2. CASE \E q \in Plans("opportunities")' : \E r \in DOMAIN work'[q].items : w \in work'[q].items[r].evidence
    BY <2>2, <1>15 DEF Cited
  <2> QED BY <1>21, <2>1, <2>2 DEF Cited
<1>22. \A w : ClassifiedAtExpiry(w)' <=> ClassifiedAtExpiry(w) BY <1>1 DEF ClassifiedAtExpiry, Stored
<1>23. CitedSound' BY <1>1, <1>21, <1>22, OthersRest DEF EvidenceInv, CitedSound, Stored
<1>24. PlansTimely'
  <2>1. \A q \in Plans("outcome")' : Timely(q)' BY <1>14, <1>21, <1>22 DEF EvidenceInv, PlansTimely, Timely
  <2> QED BY <2>1 DEF PlansTimely
<1> QED BY <1>11, <1>13, <1>16, <1>17, <1>19, <1>20, <1>23, <1>24 DEF EvidenceInv

EvidenceStep ==
    \/ \E v \in Observation : MaterializeVector(v) \/ AnalyzeSimilarity(v)
    \/ \E p \in Program : \/ \E v \in Observation : ReadFutures(p, v) \/ AssessRun(p, v)
                          \/ UpsertOutcome(p) \/ ReadRuns(p) \/ PersistOpportunities(p) \/ Abandon(p)

LEMMA EvidenceKeeps == EvidenceInv /\ (EvidenceStep \/ UNCHANGED evidenceVars) => EvidenceInv'
<1> SUFFICES ASSUME EvidenceInv, EvidenceStep \/ UNCHANGED evidenceVars PROVE EvidenceInv' OBVIOUS
<1>1. CASE UNCHANGED evidenceVars
  <2>1. UNCHANGED <<vectors, rankings, outcomes, similarity, opportunities, work, lateOutcomes, lateOpportunities>>
    BY <1>1 DEF evidenceVars
  <2>2. EvidenceTyped' /\ RankingsKept' /\ MatchesPrecede' /\ OpportunitiesSound' /\ PlansSound'
    BY <2>1 DEF EvidenceInv, EvidenceTyped, RankingsKept, MatchesPrecede, OpportunitiesSound, PlansSound, AssessmentSound, Stored, Plans
  <2>3. OutcomesFollow' BY <2>1 DEF EvidenceInv, OutcomesFollow, OutcomeSound, ExpirySeen, FutureVectors, Stored, Plans
  <2>4. \A w : (Cited(w)' <=> Cited(w)) /\ (ClassifiedAtExpiry(w)' <=> ClassifiedAtExpiry(w)) BY <2>1 DEF Cited, ClassifiedAtExpiry, Stored, Plans
  <2>5. CitedSound' BY <2>1, <2>4, OthersRest DEF EvidenceInv, CitedSound, Stored
  <2>6. \A p \in Plans("outcome") : Timely(p)' BY <2>1, <2>4 DEF EvidenceInv, PlansTimely, Timely
  <2>7. PlansTimely' BY <2>1, <2>6 DEF PlansTimely, Plans
  <2> QED BY <2>2, <2>3, <2>5, <2>7 DEF EvidenceInv
<1>2. ASSUME NEW v \in Observation, MaterializeVector(v) \/ AnalyzeSimilarity(v) PROVE EvidenceInv'
  BY <1>2, VectorKeeps, SimilarityKeeps
<1>3. ASSUME NEW p \in Program, NEW v \in Observation, ReadFutures(p, v) \/ AssessRun(p, v) PROVE EvidenceInv'
  BY <1>3, ReadFuturesKeeps, AssessRunKeeps
<1>4. ASSUME NEW p \in Program, UpsertOutcome(p) \/ ReadRuns(p) \/ PersistOpportunities(p) \/ Abandon(p) PROVE EvidenceInv'
  BY <1>4, UpsertOutcomeKeeps, ReadRunsKeeps, OpportunitiesKeep, AbandonKeepsEvidence
<1> QED BY <1>1, <1>2, <1>3, <1>4 DEF EvidenceStep

---------------------------------------------------------------------------
\* The links to news: what a pass that nothing has overtaken is about to write is right.
LinkRow == [event : Event, vector : Observation, context : {"BEFORE_OBSERVATION", "DURING_HOLDING", "NEAR_EXPIRY"}, predictive : BOOLEAN]
EventTable == [Event -> EventRecord \union {Absent}]
ReadingPass == [step : {"events", "opportunity events"}, seen : EventTable, old : BOOLEAN]
VectorPass == [step : {"vectors", "replaced"}, links : SUBSET LinkRow, old : BOOLEAN]
PairPass == [step : {"runs", "opportunities"}, links : SUBSET (Event \X Observation), old : BOOLEAN]
Pass == ReadingPass \union VectorPass \union PairPass

VectorsKnown(links) ==
    \A x \in links : x.predictive <=> x.context # "DURING_HOLDING" /\ Known(events[x.event], x.vector)
OpportunitiesKnown(links) == \A x \in links : Known(events[x[1]], x[2]) /\ x[2] \in Stored(opportunities)

\* What a pass has read is as it was, what it is to write is right by the events, and what
\* it has written is there.
PassSound(l) ==
    linking[l] # Resting /\ ~ linking[l].old =>
        /\ linking[l].step \in {"events", "opportunity events"} => linking[l].seen = events
        /\ linking[l].step = "vectors" => VectorsKnown(linking[l].links)
        /\ linking[l].step \in {"replaced", "runs"} => VectorsKnown(vectorLinks)
        /\ linking[l].step = "replaced" => linking[l].links = vectorLinks
        /\ linking[l].step = "runs" => linking[l].links \subseteq PredictiveLinks(vectorLinks)
        /\ linking[l].step = "opportunities" => OpportunitiesKnown(linking[l].links)

ContextTyped == events \in EventTable /\ linking \in [Linker -> {Resting} \union Pass]

ContextInv ==
    /\ ContextTyped
    /\ ~ stale => VectorsKnown(vectorLinks)
    /\ ~ stale /\ At({"replaced", "runs"}) = {} => runLinks \subseteq PredictiveLinks(vectorLinks)
    /\ ~ outdated => OpportunitiesKnown(opportunityLinks)
    /\ \A l \in Linker : PassSound(l)

LEMMA StepsTell ==
    ASSUME NEW pass \in {Resting} \union Pass
    PROVE  /\ pass = Resting => pass.step = "idle"
           /\ pass.step \in {"events", "opportunity events"} => pass \in ReadingPass /\ pass # Resting
           /\ pass.step \in {"vectors", "replaced"} => pass \in VectorPass /\ pass # Resting
           /\ pass.step \in {"runs", "opportunities"} => pass \in PairPass /\ pass # Resting
<1>1. Resting.step = "idle" BY DEF Resting
<1>2. CASE pass = Resting BY <1>1, <1>2
<1>3. CASE pass # Resting
  <2>1. CASE pass \in ReadingPass
    <3>1. pass.step \in {"events", "opportunity events"} BY <2>1 DEF ReadingPass
    <3> QED BY <3>1, <2>1, <1>3
  <2>2. CASE pass \in VectorPass
    <3>1. pass.step \in {"vectors", "replaced"} BY <2>2 DEF VectorPass
    <3> QED BY <3>1, <2>2, <1>3
  <2>3. CASE pass \in PairPass
    <3>1. pass.step \in {"runs", "opportunities"} BY <2>3 DEF PairPass
    <3> QED BY <3>1, <2>3, <1>3
  <2> QED BY <2>1, <2>2, <2>3, <1>3 DEF Pass
<1> QED BY <1>2, <1>3

LEMMA ContextInitially == ContextInit => ContextInv
BY DEF ContextInit, ContextInv, ContextTyped, EventTable, VectorsKnown, OpportunitiesKnown, PassSound

LEMMA ContextShows == ContextInv => EventContextSound
BY DEF ContextInv, EventContextSound, VectorContextSound, SimilarityContextSound, OpportunityContextSound,
       VectorsKnown, OpportunitiesKnown

\* A pass that is overtaken stays where it is.
LEMMA OvertakenStays ==
    ASSUME NEW plan \in Pass, NEW next, next = [plan EXCEPT !.old = TRUE]
    PROVE  next \in Pass /\ next # Resting /\ next.old /\ next.step = plan.step
<1>1. CASE plan \in ReadingPass BY <1>1 DEF Pass, ReadingPass, Resting
<1>2. CASE plan \in VectorPass BY <1>2 DEF Pass, VectorPass, Resting
<1>3. CASE plan \in PairPass BY <1>3 DEF Pass, PairPass, Resting
<1> QED BY <1>1, <1>2, <1>3 DEF Pass

\* Passes that are not touched are judged as before while events and links stay and
\* opportunities are only added.
LEMMA PassStays ==
    ASSUME NEW l, PassSound(l), linking'[l] = linking[l], UNCHANGED <<events, vectorLinks>>,
           Stored(opportunities) \subseteq Stored(opportunities')
    PROVE  PassSound(l)'
<1>1. \A x : VectorsKnown(x) => VectorsKnown(x)' BY DEF VectorsKnown, Known
<1>2. \A x : OpportunitiesKnown(x) => OpportunitiesKnown(x)' BY DEF OpportunitiesKnown, Known
<1>3. PICK x : x = linking[l].links OBVIOUS
<1>4. PICK y : y = vectorLinks OBVIOUS
<1>5. (VectorsKnown(x) => VectorsKnown(x)') /\ (VectorsKnown(y) => VectorsKnown(y)')
      /\ (OpportunitiesKnown(x) => OpportunitiesKnown(x)') BY <1>1, <1>2
<1>6. /\ VectorsKnown(linking[l].links) => VectorsKnown(linking[l].links)'
      /\ VectorsKnown(vectorLinks) => VectorsKnown(vectorLinks)'
      /\ OpportunitiesKnown(linking[l].links) => OpportunitiesKnown(linking[l].links)'
  BY <1>3, <1>4, <1>5 DEF VectorsKnown, OpportunitiesKnown
<1>7. UNCHANGED PredictiveLinks(vectorLinks) BY DEF PredictiveLinks
<1> QED BY <1>6, <1>7 DEF PassSound

\* Nothing of the links moves.
LEMMA LinksRest ==
    ASSUME ContextInv, UNCHANGED <<events, vectorLinks, runLinks, linking, stale, outdated>>,
           opportunityLinks' \subseteq opportunityLinks, Stored(opportunities) \subseteq Stored(opportunities')
    PROVE  ContextInv'
<1>1. ContextTyped' BY DEF ContextInv, ContextTyped, EventTable
<1>2. VectorsKnown(vectorLinks) => VectorsKnown(vectorLinks)' BY DEF VectorsKnown, Known
<1>3. OpportunitiesKnown(opportunityLinks) => OpportunitiesKnown(opportunityLinks)' BY DEF OpportunitiesKnown, Known
<1>4. \A l \in Linker : PassSound(l)' BY PassStays DEF ContextInv
<1>5. UNCHANGED At({"replaced", "runs"}) /\ UNCHANGED PredictiveLinks(vectorLinks) BY DEF At, PredictiveLinks
<1> QED BY <1>1, <1>2, <1>3, <1>4, <1>5 DEF ContextInv

LEMMA ImportKeeps == ASSUME ContextInv, NEW e \in Event, ImportEvent(e) PROVE ContextInv'
<1>1. PICK record \in EventRecord : UpsertEvent(e, record) BY DEF ImportEvent
<1>2. linking' = [l \in Linker |-> IF l \in {m \in Linker : linking[m] # Resting} THEN [linking[l] EXCEPT !.old = TRUE] ELSE linking[l]]
  BY DEF ImportEvent, Overtaken
<1>3. ASSUME NEW l \in Linker
      PROVE  linking'[l] \in {Resting} \union Pass /\ (linking'[l] # Resting => linking'[l].old)
  <2>1. CASE linking[l] = Resting BY <2>1, <1>2
  <2>2. CASE linking[l] # Resting
    <3>1. linking[l] \in Pass /\ linking'[l] = [linking[l] EXCEPT !.old = TRUE] BY <2>2, <1>2 DEF ContextInv, ContextTyped
    <3> QED BY <3>1, OvertakenStays
  <2> QED BY <2>1, <2>2
<1>4. linking' \in [Linker -> {Resting} \union Pass] BY <1>2, <1>3
<1>5. events' \in EventTable BY <1>1 DEF UpsertEvent, ContextInv, ContextTyped, EventTable
<1>6. \A l \in Linker : PassSound(l)' BY <1>3 DEF PassSound
<1>7. stale' = TRUE /\ outdated' = TRUE BY DEF ImportEvent
<1> QED BY <1>4, <1>5, <1>6, <1>7 DEF ContextInv, ContextTyped

\* A step of one pass that writes no table.
LEMMA PassMoves ==
    ASSUME ContextInv, NEW l \in Linker, NEW plan \in {Resting} \union Pass, linking' = [linking EXCEPT ![l] = plan],
           UNCHANGED <<evidenceVars, events, vectorLinks, runLinks, opportunityLinks, outdated>>,
           stale => stale', PassSound(l)',
           linking[l].step \notin {"replaced", "runs"} \/ plan.step \in {"replaced", "runs"} \/ stale'
    PROVE  ContextInv'
<1>1. /\ linking' \in [Linker -> {Resting} \union Pass] /\ linking'[l] = plan
      /\ \A m \in Linker : m # l => linking'[m] = linking[m] BY DEF ContextInv, ContextTyped
<1>2. UNCHANGED opportunities BY DEF evidenceVars
<1>3. Stored(opportunities) \subseteq Stored(opportunities') BY <1>2 DEF Stored
<1>4. \A m \in Linker : PassSound(m)' BY <1>1, <1>3, PassStays DEF ContextInv
<1>5. VectorsKnown(vectorLinks) => VectorsKnown(vectorLinks)' BY DEF VectorsKnown, Known
<1>6. OpportunitiesKnown(opportunityLinks) => OpportunitiesKnown(opportunityLinks)'
  BY <1>3 DEF OpportunitiesKnown, Known
<1>7. stale' \/ (At({"replaced", "runs"})' = {} => At({"replaced", "runs"}) = {})
  <2> SUFFICES ASSUME ~ stale', At({"replaced", "runs"})' = {}, NEW m \in At({"replaced", "runs"}) PROVE FALSE OBVIOUS
  <2>1. m \in Linker /\ linking[m].step \in {"replaced", "runs"} BY DEF At
  <2>2. linking'[m].step \notin {"replaced", "runs"} BY <2>1 DEF At
  <2>3. m = l BY <2>1, <2>2, <1>1
  <2> QED BY <2>1, <2>2, <2>3, <1>1
<1>8. UNCHANGED PredictiveLinks(vectorLinks) BY DEF PredictiveLinks
<1>9. ContextTyped' BY <1>1 DEF ContextInv, ContextTyped
<1> QED BY <1>4, <1>5, <1>6, <1>7, <1>8, <1>9 DEF ContextInv

LEMMA ReadEventsKeeps ==
    ASSUME ContextInv, NEW l \in Linker, NEW step \in {"events", "opportunity events"}, ReadEvents(l, step) PROVE ContextInv'
<1>1. PICK plan : plan = [step |-> step, seen |-> events, old |-> FALSE] OBVIOUS
<1>2. plan \in Pass BY <1>1 DEF ContextInv, ContextTyped, Pass, ReadingPass
<1>3. linking' = [linking EXCEPT ![l] = plan] /\ linking[l] = Resting BY <1>1 DEF ReadEvents
<1>4. linking'[l] = plan BY <1>3 DEF ContextInv, ContextTyped
<1>5. UNCHANGED <<evidenceVars, events, vectorLinks, runLinks, opportunityLinks, stale, outdated>> BY DEF ReadEvents
<1>6. PassSound(l)'
  <2>1. plan.step \in {"events", "opportunity events"} /\ plan.seen = events' BY <1>1, <1>5
  <2> QED BY <2>1, <1>4 DEF PassSound
<1>7. linking[l].step \notin {"replaced", "runs"} BY <1>3, StepsTell
<1> QED BY <1>2, <1>3, <1>5, <1>6, <1>7, PassMoves

LEMMA LinksAreRows ==
    ASSUME NEW seen PROVE LinksOf(seen) \subseteq LinkRow /\ (seen = events => VectorsKnown(LinksOf(seen)))
<1> SUFFICES ASSUME NEW x \in LinksOf(seen)
             PROVE  /\ x \in LinkRow
                    /\ seen = events => (x.predictive <=> x.context # "DURING_HOLDING" /\ Known(events[x.event], x.vector))
  BY DEF VectorsKnown
<1>1. PICK e \in Event, v \in Stored(vectors) :
        x \in {[event |-> e, vector |-> v, context |-> k, predictive |-> Predictive(seen[e], v, k)] : k \in Contexts(seen[e], v, outcomes[v])}
  BY DEF LinksOf
<1>2. PICK c \in Contexts(seen[e], v, outcomes[v]) :
        x = [event |-> e, vector |-> v, context |-> c, predictive |-> Predictive(seen[e], v, c)] BY <1>1
<1>3. c \in {"BEFORE_OBSERVATION", "DURING_HOLDING", "NEAR_EXPIRY"} /\ (c = "BEFORE_OBSERVATION" => Known(seen[e], v))
  BY <1>2 DEF Contexts
<1>4. v \in Observation BY DEF Stored
<1>5. Predictive(seen[e], v, c) \in BOOLEAN BY DEF Predictive
<1>6. x.event = e /\ x.vector = v /\ x.context = c /\ x.predictive = Predictive(seen[e], v, c) BY <1>2
<1>7. x \in LinkRow BY <1>2, <1>3, <1>4, <1>5 DEF LinkRow
<1>8. Predictive(seen[e], v, c) <=> c # "DURING_HOLDING" /\ Known(seen[e], v) BY <1>3 DEF Predictive
<1> QED BY <1>6, <1>7, <1>8

LEMMA ReadVectorsKeeps == ASSUME ContextInv, NEW l \in Linker, ReadVectors(l) PROVE ContextInv'
<1>1. linking[l] \in ReadingPass /\ linking[l] # Resting
  <2>1. linking[l].step = "events" /\ linking[l] \in {Resting} \union Pass BY DEF ReadVectors, ContextInv, ContextTyped
  <2> QED BY <2>1, StepsTell
<1>2. PICK seen : seen = linking[l].seen OBVIOUS
<1>3. PICK old : old = linking[l].old OBVIOUS
<1>4. PICK links : links = LinksOf(seen) OBVIOUS
<1>5. PICK plan : plan = [step |-> "vectors", links |-> links, old |-> old] OBVIOUS
<1>6. linking' = [linking EXCEPT ![l] = plan] BY <1>2, <1>3, <1>4, <1>5 DEF ReadVectors, GoOn
<1>7. plan \in Pass
  <2>1. links \in SUBSET LinkRow /\ old \in BOOLEAN BY <1>1, <1>3, <1>4, LinksAreRows DEF ReadingPass
  <2> QED BY <2>1, <1>5 DEF Pass, VectorPass
<1>8. linking'[l] = plan BY <1>6 DEF ContextInv, ContextTyped
<1>9. UNCHANGED <<evidenceVars, events, vectorLinks, runLinks, opportunityLinks, stale, outdated>> BY DEF ReadVectors
<1>10. linking[l].step = "events" /\ linking[l].step \notin {"replaced", "runs"} BY DEF ReadVectors
<1>11. linking[l] # Resting BY <1>1
<1>12. ~ old => VectorsKnown(links)
  <2>1. ~ old => seen = events BY <1>2, <1>3, <1>10, <1>11 DEF ContextInv, PassSound
  <2> QED BY <2>1, <1>4, LinksAreRows
<1>13. VectorsKnown(links) => VectorsKnown(links)' BY <1>9 DEF VectorsKnown, Known
<1>14. ~ old => VectorsKnown(linking[l].links)' BY <1>5, <1>8, <1>12, <1>13 DEF VectorsKnown
<1>15. PassSound(l)' BY <1>5, <1>8, <1>14 DEF PassSound
<1> QED BY <1>6, <1>7, <1>9, <1>10, <1>15, PassMoves

LEMMA ReadSimilarityRunsKeeps == ASSUME ContextInv, NEW l \in Linker, ReadSimilarityRuns(l) PROVE ContextInv'
<1>1. linking[l].step = "replaced" BY DEF ReadSimilarityRuns
<1>2. linking[l] \in VectorPass /\ linking[l] # Resting
  <2>1. linking[l] \in {Resting} \union Pass BY DEF ContextInv, ContextTyped
  <2> QED BY <2>1, <1>1, StepsTell
<1>3. PICK old : old = linking[l].old OBVIOUS
<1>4. PICK links : links = {x \in PredictiveLinks(linking[l].links) : x[2] \in Stored(similarity)} OBVIOUS
<1>5. PICK plan : plan = [step |-> "runs", links |-> links, old |-> old] OBVIOUS
<1>6. linking' = [linking EXCEPT ![l] = plan] BY <1>3, <1>4, <1>5 DEF ReadSimilarityRuns, GoOn
<1>7. plan \in Pass
  <2>1. linking[l].links \subseteq LinkRow /\ old \in BOOLEAN BY <1>2, <1>3 DEF VectorPass
  <2>2. PredictiveLinks(linking[l].links) \subseteq Event \X Observation BY <2>1 DEF PredictiveLinks, LinkRow
  <2> QED BY <2>1, <2>2, <1>4, <1>5 DEF Pass, PairPass
<1>8. linking'[l] = plan BY <1>6 DEF ContextInv, ContextTyped
<1>9. UNCHANGED <<evidenceVars, events, vectorLinks, runLinks, opportunityLinks, stale, outdated>> BY DEF ReadSimilarityRuns
<1>10. ~ old => VectorsKnown(vectorLinks) /\ links \subseteq PredictiveLinks(vectorLinks)
  BY <1>1, <1>2, <1>3, <1>4 DEF ContextInv, PassSound
<1>11. VectorsKnown(vectorLinks) => VectorsKnown(vectorLinks)' BY <1>9 DEF VectorsKnown, Known
<1>12. UNCHANGED PredictiveLinks(vectorLinks) BY <1>9 DEF PredictiveLinks
<1>13. PassSound(l)' BY <1>5, <1>8, <1>10, <1>11, <1>12 DEF PassSound
<1>14. plan.step \in {"replaced", "runs"} BY <1>5
<1> QED BY <1>6, <1>7, <1>9, <1>13, <1>14, PassMoves

LEMMA ReadOpportunitiesKeeps == ASSUME ContextInv, NEW l \in Linker, ReadOpportunities(l) PROVE ContextInv'
<1>1. linking[l].step = "opportunity events" BY DEF ReadOpportunities
<1>2. linking[l] \in ReadingPass /\ linking[l] # Resting
  <2>1. linking[l] \in {Resting} \union Pass BY DEF ContextInv, ContextTyped
  <2> QED BY <2>1, <1>1, StepsTell
<1>3. PICK old : old = linking[l].old OBVIOUS
<1>4. PICK seen : seen = linking[l].seen OBVIOUS
<1>5. PICK links : links = OpportunityLinksOf(seen) OBVIOUS
<1>6. PICK plan : plan = [step |-> "opportunities", links |-> links, old |-> old] OBVIOUS
<1>7. linking' = [linking EXCEPT ![l] = plan] BY <1>3, <1>4, <1>5, <1>6 DEF ReadOpportunities, GoOn
<1>8. plan \in Pass
  <2>1. old \in BOOLEAN BY <1>2, <1>3 DEF ReadingPass
  <2>2. links \subseteq Event \X Observation BY <1>5 DEF OpportunityLinksOf, Stored
  <2> QED BY <2>1, <2>2, <1>6 DEF Pass, PairPass
<1>9. linking'[l] = plan BY <1>7 DEF ContextInv, ContextTyped
<1>10. UNCHANGED <<evidenceVars, events, vectorLinks, runLinks, opportunityLinks, stale, outdated>> BY DEF ReadOpportunities
<1>11. ~ old => seen = events BY <1>1, <1>2, <1>3, <1>4 DEF ContextInv, PassSound
<1>12. ~ old => OpportunitiesKnown(links)
  BY <1>5, <1>11 DEF OpportunityLinksOf, OpportunitiesKnown, OpportunityContext
<1>13. OpportunitiesKnown(links) => OpportunitiesKnown(links)'
  BY <1>10 DEF evidenceVars, OpportunitiesKnown, Known, Stored
<1>14. ~ old => OpportunitiesKnown(linking[l].links)' BY <1>6, <1>9, <1>12, <1>13 DEF OpportunitiesKnown
<1>15. PassSound(l)' BY <1>6, <1>9, <1>14 DEF PassSound
<1>16. linking[l].step \notin {"replaced", "runs"} BY <1>1
<1> QED BY <1>7, <1>8, <1>10, <1>15, <1>16, PassMoves

LEMMA LinkCrashKeeps == ASSUME ContextInv, NEW l \in Linker, LinkCrash(l) PROVE ContextInv'
<1>1. linking' = [linking EXCEPT ![l] = Resting] /\ stale' = (stale \/ linking[l].step \in {"replaced", "runs"}) BY DEF LinkCrash
<1>2. linking'[l] = Resting BY <1>1 DEF ContextInv, ContextTyped
<1>3. PassSound(l)' BY <1>2 DEF PassSound
<1>4. stale => stale' BY <1>1
<1>5. linking[l].step \notin {"replaced", "runs"} \/ stale' BY <1>1
<1> QED BY <1>1, <1>3, <1>4, <1>5, PassMoves DEF LinkCrash

LEMMA ReplaceVectorLinksKeeps == ASSUME ContextInv, NEW l \in Linker, ReplaceVectorLinks(l) PROVE ContextInv'
<1>1. linking[l].step = "vectors" BY DEF ReplaceVectorLinks
<1>2. linking[l] \in VectorPass /\ linking[l] # Resting
  <2>1. linking[l] \in {Resting} \union Pass BY DEF ContextInv, ContextTyped
  <2> QED BY <2>1, <1>1, StepsTell
<1>3. PICK old : old = linking[l].old OBVIOUS
<1>4. PICK links : links = linking[l].links OBVIOUS
<1>5. PICK plan : plan = [step |-> "replaced", links |-> links, old |-> old] OBVIOUS
<1>6. plan \in Pass
  <2>1. links \subseteq LinkRow /\ old \in BOOLEAN BY <1>2, <1>3, <1>4 DEF VectorPass
  <2> QED BY <2>1, <1>5 DEF Pass, VectorPass
<1>7. PICK next : next = [linking EXCEPT ![l] = plan] OBVIOUS
<1>8. PICK others : others = At({"replaced", "runs"}) \ {l} OBVIOUS
<1>9. linking' = [m \in Linker |-> IF m \in others THEN [next[m] EXCEPT !.old = TRUE] ELSE next[m]]
  BY <1>3, <1>4, <1>5, <1>7, <1>8 DEF ReplaceVectorLinks, Overtaken, GoOn
<1>10. next[l] = plan /\ \A m \in Linker : m # l => next[m] = linking[m] BY <1>7 DEF ContextInv, ContextTyped
<1>11. linking'[l] = plan BY <1>8, <1>9, <1>10
<1>12. ASSUME NEW m \in others
       PROVE  /\ linking'[m] \in Pass /\ linking'[m] # Resting /\ linking'[m].old /\ linking'[m].step = linking[m].step
  <2>1. m \in Linker /\ m # l /\ linking[m].step \in {"replaced", "runs"} BY <1>8 DEF At
  <2>2. linking[m] \in Pass
    <3>1. linking[m] \in {Resting} \union Pass BY <2>1 DEF ContextInv, ContextTyped
    <3> QED BY <3>1, <2>1, StepsTell
  <2>3. linking'[m] = [linking[m] EXCEPT !.old = TRUE] BY <2>1, <1>9, <1>10
  <2> QED BY <2>2, <2>3, OvertakenStays
<1>13. ASSUME NEW m \in Linker, m \notin others, m # l
       PROVE  linking'[m] = linking[m] /\ linking[m].step \notin {"replaced", "runs"}
  <2>1. linking'[m] = linking[m] BY <1>9, <1>10, <1>13
  <2> QED BY <2>1, <1>8, <1>13 DEF At
<1>14. linking' \in [Linker -> {Resting} \union Pass]
  <2>1. \A m \in Linker : linking'[m] \in {Resting} \union Pass BY <1>6, <1>11, <1>12, <1>13 DEF ContextInv, ContextTyped
  <2> QED BY <2>1, <1>9
<1>15. UNCHANGED <<opportunities, events, runLinks, opportunityLinks, outdated>>
  BY DEF ReplaceVectorLinks, evidenceVars
<1>16. vectorLinks' = links /\ stale' = old BY <1>3, <1>4 DEF ReplaceVectorLinks
<1>17. ~ old => VectorsKnown(links) BY <1>1, <1>2, <1>3, <1>4 DEF ContextInv, PassSound
<1>18. VectorsKnown(links) => VectorsKnown(links)' BY <1>15 DEF VectorsKnown, Known
<1>19. ~ old => VectorsKnown(vectorLinks)' BY <1>16, <1>17, <1>18 DEF VectorsKnown
<1>20. PassSound(l)' BY <1>5, <1>11, <1>16, <1>19 DEF PassSound
<1>21. ASSUME NEW m \in Linker, m \notin others, m # l PROVE PassSound(m)'
  <2>1. linking'[m] = linking[m] /\ linking[m].step \notin {"replaced", "runs"} /\ PassSound(m) BY <1>13, <1>21 DEF ContextInv
  <2>2. PICK x : x = linking[m].links OBVIOUS
  <2>3. (VectorsKnown(x) => VectorsKnown(x)') /\ (OpportunitiesKnown(x) => OpportunitiesKnown(x)')
    BY <1>15 DEF VectorsKnown, OpportunitiesKnown, Known, Stored
  <2>4. /\ VectorsKnown(linking[m].links) => VectorsKnown(linking[m].links)'
        /\ OpportunitiesKnown(linking[m].links) => OpportunitiesKnown(linking[m].links)'
    BY <2>1, <2>2, <2>3 DEF VectorsKnown, OpportunitiesKnown
  <2> QED BY <2>1, <2>4, <1>15 DEF PassSound
<1>22. \A m \in Linker : PassSound(m)'
  <2>1. \A m \in others : PassSound(m)' BY <1>12 DEF PassSound
  <2> QED BY <2>1, <1>20, <1>21
<1>23. l \in At({"replaced", "runs"})' BY <1>5, <1>11 DEF At
<1>24. OpportunitiesKnown(opportunityLinks) => OpportunitiesKnown(opportunityLinks)'
  BY <1>15 DEF OpportunitiesKnown, Known, Stored
<1>25. ContextTyped' BY <1>14, <1>15 DEF ContextInv, ContextTyped
<1> QED BY <1>15, <1>16, <1>19, <1>22, <1>23, <1>24, <1>25 DEF ContextInv

LEMMA ReplaceRunLinksKeeps == ASSUME ContextInv, NEW l \in Linker, ReplaceRunLinks(l) PROVE ContextInv'
<1>1. linking[l].step = "runs" BY DEF ReplaceRunLinks
<1>2. linking[l] \in PairPass /\ linking[l] # Resting
  <2>1. linking[l] \in {Resting} \union Pass BY DEF ContextInv, ContextTyped
  <2> QED BY <2>1, <1>1, StepsTell
<1>3. /\ linking' = [linking EXCEPT ![l] = Resting] /\ runLinks' = linking[l].links /\ stale' = linking[l].old
      /\ UNCHANGED <<opportunities, events, vectorLinks, opportunityLinks, outdated>>
  BY DEF ReplaceRunLinks, evidenceVars
<1>4. /\ linking' \in [Linker -> {Resting} \union Pass] /\ linking'[l] = Resting
      /\ \A m \in Linker : m # l => linking'[m] = linking[m] BY <1>3 DEF ContextInv, ContextTyped
<1>5. Stored(opportunities) \subseteq Stored(opportunities') BY <1>3 DEF Stored
<1>6. PassSound(l)' BY <1>4 DEF PassSound
<1>7. \A m \in Linker : PassSound(m)' BY <1>3, <1>4, <1>5, <1>6, PassStays DEF ContextInv
<1>8. ~ stale' => VectorsKnown(vectorLinks) /\ runLinks' \subseteq PredictiveLinks(vectorLinks)
  BY <1>1, <1>2, <1>3 DEF ContextInv, PassSound
<1>9. VectorsKnown(vectorLinks) => VectorsKnown(vectorLinks)' BY <1>3 DEF VectorsKnown, Known
<1>10. UNCHANGED PredictiveLinks(vectorLinks) BY <1>3 DEF PredictiveLinks
<1>11. OpportunitiesKnown(opportunityLinks) => OpportunitiesKnown(opportunityLinks)'
  BY <1>3, <1>5 DEF OpportunitiesKnown, Known
<1>12. ContextTyped' BY <1>3, <1>4 DEF ContextInv, ContextTyped
<1> QED BY <1>3, <1>7, <1>8, <1>9, <1>10, <1>11, <1>12 DEF ContextInv

LEMMA ReplaceOpportunityLinksKeeps == ASSUME ContextInv, NEW l \in Linker, ReplaceOpportunityLinks(l) PROVE ContextInv'
<1>1. linking[l].step = "opportunities" BY DEF ReplaceOpportunityLinks
<1>2. linking[l] \in PairPass /\ linking[l] # Resting
  <2>1. linking[l] \in {Resting} \union Pass BY DEF ContextInv, ContextTyped
  <2> QED BY <2>1, <1>1, StepsTell
<1>3. /\ linking' = [linking EXCEPT ![l] = Resting] /\ opportunityLinks' = linking[l].links /\ outdated' = linking[l].old
      /\ UNCHANGED <<opportunities, events, vectorLinks, runLinks, stale>>
  BY DEF ReplaceOpportunityLinks, evidenceVars
<1>4. /\ linking' \in [Linker -> {Resting} \union Pass] /\ linking'[l] = Resting
      /\ \A m \in Linker : m # l => linking'[m] = linking[m] BY <1>3 DEF ContextInv, ContextTyped
<1>5. Stored(opportunities) \subseteq Stored(opportunities') BY <1>3 DEF Stored
<1>6. PassSound(l)' BY <1>4 DEF PassSound
<1>7. \A m \in Linker : PassSound(m)' BY <1>3, <1>4, <1>5, <1>6, PassStays DEF ContextInv
<1>8. PICK links : links = linking[l].links OBVIOUS
<1>9. ~ outdated' => OpportunitiesKnown(links) BY <1>1, <1>2, <1>3, <1>8 DEF ContextInv, PassSound
<1>10. OpportunitiesKnown(links) => OpportunitiesKnown(links)' BY <1>3, <1>5 DEF OpportunitiesKnown, Known
<1>11. ~ outdated' => OpportunitiesKnown(opportunityLinks)' BY <1>3, <1>8, <1>9, <1>10 DEF OpportunitiesKnown
<1>12. VectorsKnown(vectorLinks) => VectorsKnown(vectorLinks)' BY <1>3 DEF VectorsKnown, Known
<1>13. UNCHANGED PredictiveLinks(vectorLinks) BY <1>3 DEF PredictiveLinks
<1>14. At({"replaced", "runs"})' = {} => At({"replaced", "runs"}) = {}
  <2> SUFFICES ASSUME At({"replaced", "runs"})' = {}, NEW m \in At({"replaced", "runs"}) PROVE FALSE OBVIOUS
  <2>1. m \in Linker /\ linking[m].step \in {"replaced", "runs"} BY DEF At
  <2>2. m # l BY <2>1, <1>1
  <2>3. linking'[m] = linking[m] BY <2>1, <2>2, <1>4
  <2> QED BY <2>1, <2>3 DEF At
<1>15. ContextTyped' BY <1>3, <1>4 DEF ContextInv, ContextTyped
<1> QED BY <1>3, <1>7, <1>11, <1>12, <1>13, <1>14, <1>15 DEF ContextInv

\* What the materializers do to the links: the opportunities that are replaced lose theirs.
LEMMA EvidenceLeavesLinks ==
    ASSUME EvidenceInv, ContextInv, EvidenceMoves \/ \E p \in Program : RematerializeOpportunities(p)
    PROVE  ContextInv'
<1>1. CASE EvidenceMoves
  <2>1. UNCHANGED opportunities
    BY <1>1 DEF EvidenceMoves, MaterializeVector, AnalyzeSimilarity, ReadFutures, AssessRun, UpsertOutcome, ReadRuns, Abandon
  <2>2. UNCHANGED <<events, vectorLinks, runLinks, opportunityLinks, linking, stale, outdated>>
    BY <1>1 DEF EvidenceMoves, contextVars
  <2> QED BY <2>1, <2>2, LinksRest DEF Stored
<1>2. ASSUME NEW p \in Program, RematerializeOpportunities(p) PROVE ContextInv'
  <2>1. Stored(opportunities) \subseteq Stored(opportunities') BY <1>2, OpportunitiesKeep DEF RematerializeOpportunities
  <2>2. opportunityLinks' \subseteq opportunityLinks /\ UNCHANGED <<events, vectorLinks, runLinks, linking, stale, outdated>>
    BY <1>2 DEF RematerializeOpportunities
  <2> QED BY <2>1, <2>2, LinksRest
<1> QED BY <1>1, <1>2

LEMMA PassesKeep ==
    ASSUME ContextInv, NEW l \in Linker, HistoricalStep(l) \/ OpportunityStep(l) \/ LinkCrash(l)
    PROVE  ContextInv'
<1>1. CASE HistoricalStep(l)
  BY <1>1, ReadEventsKeeps, ReadVectorsKeeps, ReplaceVectorLinksKeeps, ReadSimilarityRunsKeeps, ReplaceRunLinksKeeps DEF HistoricalStep
<1>2. CASE OpportunityStep(l)
  BY <1>2, ReadEventsKeeps, ReadOpportunitiesKeeps, ReplaceOpportunityLinksKeeps DEF OpportunityStep
<1> QED BY <1>1, <1>2, LinkCrashKeeps

---------------------------------------------------------------------------
\* Canonical records: revisions are only added, and the accepted ones are of one source.
RevisionRow == [sum : {p.sum : p \in Payload}, available : Int, origin : {p.origin : p \in Payload},
                accepted : BOOLEAN, supersedes : Nat]

\* What holds of a record and its revisions, beside the rows being rows.
RecordSound(k) ==
    /\ current[k] <= Len(revisions[k])
    /\ revisions[k] # <<>> => current[k] # 0
    /\ current[k] # 0 => revisions[k][current[k]].accepted
    /\ \A n \in DOMAIN revisions[k] :
          LET r == revisions[k][n]
          IN  /\ r.supersedes \in 0..(n - 1)
              /\ \E p \in Payload : p.permitted /\ k \in p.records /\ p.sum = r.sum
              /\ r.accepted => n <= current[k] /\ r.origin = revisions[k][1].origin
              /\ ~ r.accepted <=> <<k, n>> \in incidents
              /\ r.supersedes # 0 => revisions[k][r.supersedes].accepted
    /\ \A n \in Nat : <<k, n>> \in incidents => n <= Len(revisions[k])

DataInv ==
    /\ revisions \in [Record -> Seq(RevisionRow)]
    /\ current \in [Record -> Nat]
    /\ \A k \in Record : RecordSound(k)

LEMMA DataInitially == DataInit => DataInv
<1> SUFFICES ASSUME DataInit PROVE DataInv OBVIOUS
<1>1. <<>> \in Seq(RevisionRow) /\ Len(<<>>) = 0 /\ DOMAIN <<>> = {} BY EmptySeq
<1>2. revisions \in [Record -> Seq(RevisionRow)] /\ current \in [Record -> Nat] BY <1>1 DEF DataInit
<1>3. \A k \in Record : RecordSound(k) BY <1>1 DEF DataInit, RecordSound
<1> QED BY <1>2, <1>3 DEF DataInv

LEMMA DataShows == DataInv => HistoricalDataFoundationLineage /\ RevisionsSound
<1> SUFFICES ASSUME DataInv PROVE HistoricalDataFoundationLineage /\ RevisionsSound OBVIOUS
<1>2. HistoricalDataFoundationLineage
  <2> SUFFICES ASSUME NEW k \in Record, NEW n \in DOMAIN revisions[k]
               PROVE  /\ revisions[k][n].supersedes \in 0..(n - 1)
                      /\ \E p \in Payload : p.permitted /\ k \in p.records /\ p.sum = revisions[k][n].sum
    BY DEF HistoricalDataFoundationLineage
  <2>1. RecordSound(k) BY DEF DataInv
  <2> QED BY <2>1 DEF RecordSound
<1>3. RevisionsSound BY DEF DataInv, RecordSound, RevisionsSound
<1> QED BY <1>2, <1>3

\* Revisions are only added.
RevisionsKept ==
    \A k \in Record : \A n \in DOMAIN revisions[k] : n \in DOMAIN revisions'[k] /\ revisions'[k][n] = revisions[k][n]

LEMMA PayloadKeeps ==
    ASSUME DataInv, NEW p \in Payload, p.permitted, PersistImport(p)
    PROVE  DataInv' /\ RevisionsKept
<1>1. ASSUME NEW k \in Record
      PROVE  /\ revisions'[k] \in Seq(RevisionRow) /\ current'[k] \in Nat /\ RecordSound(k)'
             /\ \A n \in DOMAIN revisions[k] : n \in DOMAIN revisions'[k] /\ revisions'[k][n] = revisions[k][n]
  <2>1. revisions[k] \in Seq(RevisionRow) /\ current[k] \in Nat /\ RecordSound(k) BY DEF DataInv
  <2>2. PICK s : s = revisions[k] OBVIOUS
  <2>3. PICK c : c = current[k] OBVIOUS
  <2>4. s \in Seq(RevisionRow) /\ Len(s) \in Nat /\ DOMAIN s = 1..Len(s) /\ c \in Nat /\ c <= Len(s)
    BY <2>1, <2>2, <2>3, LenProperties DEF RecordSound
  <2>5. PICK r : r = Revision(k, p) OBVIOUS
  <2>6. r \in RevisionRow
    <3>1. r.supersedes \in Nat /\ r.available \in Int /\ r.accepted \in BOOLEAN BY <2>1, <2>5, PayloadsAreTyped DEF Revision
    <3> QED BY <2>1, <2>5, <3>1, PayloadsAreTyped DEF Revision, RevisionRow
  <2>7. k \in Contested(p) => k \in Unseen(p) BY DEF Contested
  <2>8. \A n \in Nat : <<k, n>> \in incidents' <=> <<k, n>> \in incidents \/ (k \in Contested(p) /\ n = Len(s) + 1)
    BY <2>2 DEF PersistImport
  <2>9. CASE k \notin Unseen(p)
    <3>1. revisions'[k] = revisions[k] /\ current'[k] = current[k] BY <2>9 DEF PersistImport
    <3>2. \A n \in Nat : <<k, n>> \in incidents' <=> <<k, n>> \in incidents BY <2>7, <2>8, <2>9
    <3>3. \A n \in DOMAIN revisions[k] : n \in Nat BY <2>2, <2>4
    <3>4. RecordSound(k)' BY <2>1, <3>1, <3>2, <3>3 DEF RecordSound
    <3> QED BY <2>1, <3>1, <3>4
  <2>10. CASE k \in Unseen(p)
    <3>1. PICK t : t = Append(s, r) OBVIOUS
    <3>2. revisions'[k] = t BY <2>2, <2>5, <2>10, <3>1 DEF PersistImport
    <3>3. /\ t \in Seq(RevisionRow) /\ Len(t) = Len(s) + 1 /\ DOMAIN t = 1..(Len(s) + 1)
          /\ t[Len(s) + 1] = r /\ \A n \in 1..Len(s) : t[n] = s[n]
      <4>1. t \in Seq(RevisionRow) /\ Len(t) = Len(s) + 1 /\ t[Len(s) + 1] = r /\ \A n \in 1..Len(s) : t[n] = s[n]
        BY <2>4, <2>6, <3>1, AppendProperties
      <4>2. DOMAIN t = 1..Len(t) BY <4>1, LenProperties
      <4> QED BY <4>1, <4>2
    <3>4. PICK d : d = current'[k] OBVIOUS
    <3>5. d = IF k \in Contested(p) THEN c ELSE Len(s) + 1 BY <2>2, <2>3, <2>10, <3>4 DEF PersistImport
    <3>6. d \in Nat /\ d <= Len(t) /\ d # 0 /\ c <= d
      <4>1. k \in Contested(p) => c # 0 BY <2>3 DEF Contested
      <4> QED BY <2>4, <3>3, <3>5, <4>1
    <3>7. r.accepted <=> k \notin Contested(p) BY <2>5 DEF Revision
    <3>8. r.supersedes = c /\ r.origin = p.origin /\ r.sum = p.sum BY <2>3, <2>5 DEF Revision
    <3>9. k \in p.records BY <2>10 DEF Unseen
    <3>10. k \notin Contested(p) /\ c # 0 => s[c].origin = p.origin BY <2>2, <2>3, <2>10 DEF Contested
    <3>11. c # 0 => c \in 1..Len(s) /\ s[c].accepted /\ s[c].origin = s[1].origin
      <4>1. c # 0 => c \in 1..Len(s) BY <2>4
      <4>2. c # 0 => s[c].accepted BY <2>1, <2>2, <2>3 DEF RecordSound
      <4>3. \A n \in DOMAIN s : s[n].accepted => s[n].origin = s[1].origin BY <2>1, <2>2 DEF RecordSound
      <4> QED BY <2>4, <4>1, <4>2, <4>3
    <3>12. c = 0 => Len(s) = 0
      <4>1. c = 0 => s = <<>> BY <2>1, <2>2, <2>3 DEF RecordSound
      <4> QED BY <4>1, EmptySeq
    <3>13. ASSUME NEW n \in DOMAIN t
           PROVE  /\ t[n].supersedes \in 0..(n - 1)
                  /\ \E q \in Payload : q.permitted /\ k \in q.records /\ q.sum = t[n].sum
                  /\ t[n].accepted => n <= d /\ t[n].origin = t[1].origin
                  /\ ~ t[n].accepted <=> <<k, n>> \in incidents'
                  /\ t[n].supersedes # 0 => t[t[n].supersedes].accepted
      <4>1. n \in 1..(Len(s) + 1) BY <3>3
      <4>2. CASE n = Len(s) + 1
        <5>1. t[n] = r BY <3>3, <4>2
        <5>2. r.supersedes \in 0..(n - 1) BY <2>4, <3>8, <4>2
        <5>3. \E q \in Payload : q.permitted /\ k \in q.records /\ q.sum = r.sum BY <3>8, <3>9
        <5>4. r.accepted => n <= d BY <3>5, <3>7, <4>2, <2>4
        <5>5. r.accepted => r.origin = t[1].origin
          <6>1. CASE c = 0 BY <6>1, <3>12, <5>1, <4>2
          <6>2. CASE c # 0
            <7>1. 1 \in 1..Len(s) BY <6>2, <2>4
            <7> QED BY <6>2, <3>7, <3>8, <3>10, <3>11, <3>3, <7>1
          <6> QED BY <6>1, <6>2
        <5>6. ~ r.accepted <=> <<k, n>> \in incidents'
          <6>1. n \in Nat /\ ~ (n <= Len(s)) BY <4>2, <2>4
          <6>2. <<k, n>> \notin incidents BY <6>1, <2>1, <2>2 DEF RecordSound
          <6> QED BY <6>1, <6>2, <2>8, <3>7, <4>2
        <5>7. r.supersedes # 0 => t[r.supersedes].accepted BY <3>3, <3>8, <3>11
        <5> QED BY <5>1, <5>2, <5>3, <5>4, <5>5, <5>6, <5>7
      <4>3. CASE n # Len(s) + 1
        <5>1. n \in 1..Len(s) /\ 1 \in 1..Len(s) /\ n \in Nat BY <4>1, <4>3, <2>4
        <5>2. t[n] = s[n] /\ t[1] = s[1] BY <5>1, <3>3
        <5>3. /\ s[n].supersedes \in 0..(n - 1)
              /\ \E q \in Payload : q.permitted /\ k \in q.records /\ q.sum = s[n].sum
              /\ s[n].accepted => n <= c /\ s[n].origin = s[1].origin
              /\ ~ s[n].accepted <=> <<k, n>> \in incidents
              /\ s[n].supersedes # 0 => s[s[n].supersedes].accepted
          BY <2>1, <2>2, <2>3, <2>4, <5>1 DEF RecordSound
        <5>4. <<k, n>> \in incidents' <=> <<k, n>> \in incidents BY <5>1, <4>3, <2>8
        <5>5. s[n].supersedes # 0 => t[s[n].supersedes] = s[s[n].supersedes]
          <6>1. s[n].supersedes # 0 => s[n].supersedes \in 1..Len(s) BY <5>1, <5>3, <2>4
          <6> QED BY <6>1, <3>3
        <5>6. s[n].accepted => n <= d BY <5>1, <5>3, <3>6, <2>4
        <5> QED BY <5>2, <5>3, <5>4, <5>5, <5>6
      <4> QED BY <4>2, <4>3
    <3>14. t # <<>> BY <3>3, <2>4, EmptySeq
    <3>15. t[d].accepted
      <4>1. CASE k \in Contested(p)
        <5>1. d = c /\ c # 0 BY <4>1, <3>5, <3>6
        <5> QED BY <5>1, <3>11, <3>3
      <4>2. CASE k \notin Contested(p) BY <4>2, <3>3, <3>5, <3>7
      <4> QED BY <4>1, <4>2
    <3>16. \A n \in Nat : <<k, n>> \in incidents' => n <= Len(t)
      <4>1. \A n \in Nat : <<k, n>> \in incidents => n <= Len(s) BY <2>1, <2>2 DEF RecordSound
      <4> QED BY <4>1, <2>4, <2>8, <3>3
    <3>17. RecordSound(k)'
      <4>1. revisions'[k] = t /\ current'[k] = d BY <3>2, <3>4
      <4> QED BY <4>1, <3>6, <3>13, <3>14, <3>15, <3>16 DEF RecordSound
    <3>18. \A n \in DOMAIN s : n \in DOMAIN t /\ t[n] = s[n] BY <2>4, <3>3
    <3> QED BY <2>2, <3>2, <3>3, <3>4, <3>6, <3>17, <3>18
  <2> QED BY <2>9, <2>10
<1>2. revisions' \in [Record -> Seq(RevisionRow)] /\ current' \in [Record -> Nat]
  <2>1. \A k \in Record : revisions'[k] \in Seq(RevisionRow) /\ current'[k] \in Nat BY <1>1
  <2>2. revisions' = [k \in Record |-> revisions'[k]] /\ current' = [k \in Record |-> current'[k]] BY DEF PersistImport
  <2> QED BY <2>1, <2>2
<1>3. RevisionsKept BY <1>1 DEF RevisionsKept
<1>4. \A k \in Record : RecordSound(k)' BY <1>1
<1> QED BY <1>2, <1>3, <1>4 DEF DataInv

---------------------------------------------------------------------------
\* The second generation of evidence: a row rests on revisions that were available to it.
\* The revisions of bars there are.
BarIds == {r \in Bars \X Nat : r[2] \in DOMAIN revisions[r[1]]}

SimilarityRun == [count : Nat, rows : SUBSET MatchRow]
CandidateRow == [state : {"INSUFFICIENT_EVIDENCE", "PROVISIONAL", "ABSTAINED"}, evidence : SUBSET MatchRow]

VectorsSound ==
    \A r \in Rows(vectorsV2) :
        /\ r \in BarIds /\ vectorsV2[r] \subseteq BarIds
        /\ \A s \in vectorsV2[r] : Closes(s) <= Closes(r) /\ AvailableAt(s) <= AvailableAt(r)

\* The rows of a path are bars that close after the anchor.
PathRows(r, path) ==
    path \in Seq(BarIds) /\ \A i \in DOMAIN path : path[i] \in BarIds /\ Closes(path[i]) > Closes(r)

\* Of a stored path, as many rows as the outcome was calculated from were available to it.
PathsKept ==
    /\ \A r \in RevisionIds : PathRows(r, pathsV2[r]) /\ (outcomesV2[r] = NoRow => pathsV2[r] = <<>>)
    /\ \A r \in Rows(outcomesV2) :
          /\ outcomesV2[r].count \in 0..Len(pathsV2[r])
          /\ \A i \in 1..outcomesV2[r].count : AvailableAt(pathsV2[r][i]) <= outcomesV2[r].asOf

OutcomesSound ==
    \A r \in Rows(outcomesV2) :
        /\ r \in BarIds /\ AvailableAt(r) <= outcomesV2[r].asOf
        /\ outcomesV2[r].terminal # NoRow =>
              /\ outcomesV2[r].terminal \in BarIds
              /\ Closes(outcomesV2[r].terminal) > Closes(r)
              /\ AvailableAt(outcomesV2[r].terminal) <= outcomesV2[r].asOf

MatchesSound ==
    \A q \in Rows(matchesV2) : \A m \in matchesV2[q].rows :
        /\ m.vector \in BarIds /\ m.vector \in RevisionIds
        /\ Closes(m.vector) < Closes(q) /\ AvailableAt(m.vector) <= Closes(q)
        /\ m.outcome => /\ outcomesV2[m.vector] # NoRow /\ outcomesV2[m.vector].state = "COMPLETE"
                        /\ Closes(outcomesV2[m.vector].terminal) <= Closes(q)

CandidatesSound ==
    \A q \in Rows(opportunitiesV2) :
        /\ q \in Rows(matchesV2)
        /\ \A m \in opportunitiesV2[q].evidence : m \in matchesV2[q].rows /\ m.outcome

PointInv ==
    /\ DataInv
    /\ matchesV2 \in [RevisionIds -> SimilarityRun \union {NoRow}]
    /\ opportunitiesV2 \in [RevisionIds -> CandidateRow \union {NoRow}]
    /\ VectorsSound /\ OutcomesSound /\ PathsKept /\ MatchesSound /\ CandidatesSound

LEMMA PointInitially == PointInit => PointInv
<1> SUFFICES ASSUME PointInit PROVE PointInv OBVIOUS
<1>1. DataInv BY DataInitially DEF PointInit
<1>2. Rows(vectorsV2) = {} /\ Rows(outcomesV2) = {} /\ Rows(matchesV2) = {} /\ Rows(opportunitiesV2) = {}
  BY DEF PointInit, Rows
<1>3. matchesV2 \in [RevisionIds -> SimilarityRun \union {NoRow}] /\ opportunitiesV2 \in [RevisionIds -> CandidateRow \union {NoRow}]
  BY DEF PointInit
<1>4. PathsKept
  <2>1. \A r \in RevisionIds : pathsV2[r] = <<>> BY DEF PointInit
  <2>2. <<>> \in Seq(BarIds) /\ DOMAIN <<>> = {} OBVIOUS
  <2> QED BY <1>2, <2>1, <2>2 DEF PathsKept, PathRows
<1> QED BY <1>1, <1>2, <1>3, <1>4 DEF PointInv, VectorsSound, OutcomesSound, MatchesSound, CandidatesSound

LEMMA PointShows == PointInv => PointInTime
<1> SUFFICES ASSUME PointInv PROVE PointInTime OBVIOUS
<1>1. HistoricalDataFoundationLineage /\ RevisionsSound BY DataShows DEF PointInv
<1>2. FeatureStoreV2Leakage BY DEF PointInv, VectorsSound, FeatureStoreV2Leakage
<1>3. OutcomeV2Leakage
  <2> SUFFICES ASSUME NEW r \in Rows(outcomesV2), NEW o, o = outcomesV2[r]
               PROVE  /\ AvailableAt(r) <= o.asOf
                      /\ o.terminal # NoRow => Closes(o.terminal) > Closes(r) /\ AvailableAt(o.terminal) <= o.asOf
                      /\ \A i \in DOMAIN pathsV2[r] : Closes(pathsV2[r][i]) > Closes(r)
                      /\ o.count \in 0..Len(pathsV2[r])
                      /\ \A i \in 1..o.count : AvailableAt(pathsV2[r][i]) <= o.asOf
    BY DEF OutcomeV2Leakage
  <2>1. r \in RevisionIds BY DEF Rows
  <2> QED BY <2>1 DEF PointInv, OutcomesSound, PathsKept, PathRows
<1>4. SimilarityV2Leakage BY DEF PointInv, MatchesSound, SimilarityV2Leakage
<1>5. OpportunityV2Leakage
  <2> SUFFICES ASSUME NEW q \in Rows(opportunitiesV2), NEW m \in opportunitiesV2[q].evidence
               PROVE  m \in matchesV2[q].rows /\ outcomesV2[m.vector].state = "COMPLETE"
    BY DEF OpportunityV2Leakage
  <2>1. q \in Rows(matchesV2) /\ m \in matchesV2[q].rows /\ m.outcome BY DEF PointInv, CandidatesSound
  <2> QED BY <2>1 DEF PointInv, MatchesSound
<1> QED BY <1>1, <1>2, <1>3, <1>4, <1>5 DEF PointInTime

LEMMA IdsAreBars == \A r \in RevisionIds : r \in Bars \X Nat
<1> SUFFICES ASSUME NEW r \in RevisionIds PROVE r \in Bars \X Nat OBVIOUS
<1>1. PICK k \in Bars : r \in {<<k, n>> : n \in 1..Cardinality({p \in Payload : k \in p.records})} BY DEF RevisionIds
<1>2. PICK n \in 1..Cardinality({p \in Payload : k \in p.records}) : r = <<k, n>> BY <1>1
<1>3. IsFiniteSet({p \in Payload : k \in p.records}) BY PayloadsAreTyped, FS_Subset
<1>4. n \in Nat BY <1>3, FS_CardinalityType
<1> QED BY <1>2, <1>4

LEMMA BarsHaveTimes ==
    ASSUME DataInv, NEW r \in BarIds
    PROVE  /\ r[1] \in Bars /\ r[1] \in Record /\ r[2] \in Nat /\ r[2] \in DOMAIN revisions[r[1]] /\ r = <<r[1], r[2]>>
           /\ Closes(r) \in Int /\ AvailableAt(r) \in Int
<1>1. r[1] \in Bars /\ r[1] \in Record /\ r[2] \in Nat /\ r[2] \in DOMAIN revisions[r[1]] /\ r = <<r[1], r[2]>>
  BY DEF BarIds, Bars
<1>2. Closes(r) \in Int BY <1>1, TimesAreIntegers DEF Closes, Bars
<1>3. revisions[r[1]] \in Seq(RevisionRow) BY <1>1 DEF DataInv
<1>4. revisions[r[1]][r[2]] \in RevisionRow BY <1>1, <1>3, LenProperties, ElementOfSeq
<1> QED BY <1>1, <1>2, <1>4 DEF AvailableAt, RevisionRow

LEMMA PathsRest ==
    ASSUME PathsKept, UNCHANGED <<outcomesV2, pathsV2>>, NEW ids, ids = BarIds',
           \A r \in BarIds : r \in ids /\ AvailableAt(r)' = AvailableAt(r)
    PROVE  PathsKept'
<1>1. ASSUME NEW r \in RevisionIds PROVE PathRows(r, pathsV2[r])' /\ (outcomesV2'[r] = NoRow => pathsV2'[r] = <<>>)
  <2>1. PathRows(r, pathsV2[r]) /\ (outcomesV2[r] = NoRow => pathsV2[r] = <<>>) BY DEF PathsKept
  <2>2. PICK path : path = pathsV2[r] OBVIOUS
  <2>3. path \in Seq(BarIds) /\ \A i \in DOMAIN path : path[i] \in BarIds /\ Closes(path[i]) > Closes(r)
    BY <2>1, <2>2 DEF PathRows
  <2>4. BarIds \subseteq ids OBVIOUS
  <2>5. path \in Seq(ids) BY <2>3, <2>4
  <2> QED BY <2>1, <2>2, <2>3, <2>4, <2>5 DEF PathRows, Closes
<1>2. ASSUME NEW r \in Rows(outcomesV2)
      PROVE  /\ outcomesV2[r].count \in 0..Len(pathsV2[r])
             /\ \A i \in 1..outcomesV2[r].count : AvailableAt(pathsV2[r][i])' <= outcomesV2[r].asOf
  <2>1. PICK path, o : path = pathsV2[r] /\ o = outcomesV2[r] OBVIOUS
  <2>2. o.count \in 0..Len(path) /\ \A i \in 1..o.count : AvailableAt(path[i]) <= o.asOf BY <2>1 DEF PathsKept
  <2>3. path \in Seq(BarIds) BY <2>1 DEF PathsKept, PathRows, Rows
  <2>4. Len(path) \in Nat /\ \A i \in 1..Len(path) : path[i] \in BarIds BY <2>3
  <2>5. \A i \in 1..o.count : i \in 1..Len(path) BY <2>2, <2>4
  <2>6. \A i \in 1..o.count : AvailableAt(path[i])' <= o.asOf BY <2>2, <2>4, <2>5
  <2> QED BY <2>1, <2>2, <2>6
<1> QED BY <1>1, <1>2 DEF PathsKept, Rows

\* A bar stays what it is while payloads arrive.
LEMMA BarsStay ==
    ASSUME DataInv, RevisionsKept, NEW r \in BarIds
    PROVE  r \in BarIds' /\ AvailableAt(r)' = AvailableAt(r)
BY BarsHaveTimes DEF RevisionsKept, BarIds, AvailableAt, Bars

LEMMA ReadsWhatIsReadable ==
    ASSUME DataInv, NEW k \in Record, NEW asOf \in Int, Readable(k, asOf) # {}
    PROVE  /\ ReadsAsOf(k, asOf) \in DOMAIN revisions[k] /\ ReadsAsOf(k, asOf) \in Nat
           /\ revisions[k][ReadsAsOf(k, asOf)].available <= asOf
<1>1. PICK S : S = Readable(k, asOf) OBVIOUS
<1>2. revisions[k] \in Seq(RevisionRow) BY DEF DataInv
<1>3. DOMAIN revisions[k] = 1..Len(revisions[k]) /\ Len(revisions[k]) \in Nat BY <1>2, LenProperties
<1>4. S \subseteq 1..Len(revisions[k]) BY <1>1, <1>3 DEF Readable
<1>5. IsFiniteSet(1..Len(revisions[k])) BY <1>3, FS_Interval
<1>6. IsFiniteSet(S) BY <1>4, <1>5, FS_Subset
<1>7. S \in SUBSET Int BY <1>4
<1>8. PICK m \in S : \A n \in S : n <= m BY <1>1, <1>6, <1>7, GreatestExists
<1>9. ReadsAsOf(k, asOf) = CHOOSE x \in S : \A y \in S : x >= y BY <1>1 DEF ReadsAsOf, Max
<1>10. \A y \in S : m >= y BY <1>7, <1>8
<1>11. ReadsAsOf(k, asOf) \in S BY <1>9, <1>10
<1> QED BY <1>1, <1>3, <1>4, <1>11 DEF Readable

LEMMA BarsAsOfAreBars ==
    ASSUME DataInv, NEW asOf \in Int, NEW r \in BarsAsOf(asOf)
    PROVE  r \in BarIds /\ AvailableAt(r) <= asOf
<1>1. PICK k \in Bars : Readable(k, asOf) # {} /\ r = Bar(k, asOf) BY DEF BarsAsOf
<1>2. k \in Record BY DEF Bars
<1>3. PICK n : n = ReadsAsOf(k, asOf) OBVIOUS
<1>4. n \in DOMAIN revisions[k] /\ n \in Nat /\ revisions[k][n].available <= asOf BY <1>1, <1>2, <1>3, ReadsWhatIsReadable
<1>5. r = <<k, n>> BY <1>1, <1>3 DEF Bar
<1> QED BY <1>4, <1>5 DEF BarIds, AvailableAt

LEMMA ImportsKeepPoints ==
    ASSUME PointInv, NEW p \in Payload, ImportPayload(p), UNCHANGED evidenceRows
    PROVE  PointInv'
<1>1. DataInv' /\ RevisionsKept BY PayloadKeeps DEF ImportPayload, PointInv
<1>2. UNCHANGED <<vectorsV2, outcomesV2, pathsV2, matchesV2, opportunitiesV2>> BY DEF evidenceRows
<1>3. \A r \in BarIds : r \in BarIds' /\ AvailableAt(r)' = AvailableAt(r) BY <1>1, BarsStay DEF PointInv
<1>4. VectorsSound'
  <2>1. \A r \in Rows(vectorsV2) : r \in BarIds /\ \A s \in vectorsV2[r] : s \in BarIds BY DEF PointInv, VectorsSound
  <2> QED BY <1>2, <1>3, <2>1 DEF PointInv, VectorsSound, Rows
<1>5. OutcomesSound' BY <1>2, <1>3 DEF PointInv, OutcomesSound, Rows
<1>6. MatchesSound' BY <1>2, <1>3 DEF PointInv, MatchesSound, Rows
<1>7. CandidatesSound' BY <1>2 DEF PointInv, CandidatesSound, Rows
<1>8. PathsKept' BY <1>2, <1>3, PathsRest DEF PointInv
<1> QED BY <1>1, <1>2, <1>4, <1>5, <1>6, <1>7, <1>8 DEF PointInv

LEMMA FeaturesKeepPoints ==
    ASSUME PointInv, NEW asOf \in RunTimes, MaterializeFeatures(asOf)
    PROVE  PointInv'
<1>1. UNCHANGED <<revisions, current, incidents, outcomesV2, pathsV2, matchesV2, opportunitiesV2>> BY DEF MaterializeFeatures, dataVars
<1>2. DataInv' BY <1>1 DEF PointInv, DataInv, RecordSound
<1>3. BarIds' = BarIds /\ \A r : AvailableAt(r)' = AvailableAt(r) BY <1>1 DEF BarIds, AvailableAt
<1>4. ASSUME NEW r \in Rows(vectorsV2'), ~ (r \in Rows(vectorsV2) /\ vectorsV2'[r] = vectorsV2[r])
      PROVE  r \in FeatureAnchors(asOf) /\ vectorsV2'[r] = History(r, asOf)
  BY <1>4 DEF MaterializeFeatures, PersistVectors, Rows
<1>5. ASSUME NEW r \in FeatureAnchors(asOf)
      PROVE  /\ r \in BarIds
             /\ \A s \in History(r, asOf) : s \in BarIds /\ Closes(s) <= Closes(r) /\ AvailableAt(s) <= AvailableAt(r)
  <2>1. asOf \in Int /\ r \in BarsAsOf(asOf) BY TimesAreIntegers DEF FeatureAnchors
  <2>2. r \in BarIds BY <2>1, BarsAsOfAreBars DEF PointInv
  <2>3. PICK t : t = AvailableAt(r) OBVIOUS
  <2>4. t \in Int BY <2>2, <2>3, BarsHaveTimes DEF PointInv
  <2>5. \A s \in BarsAsOf(t) : s \in BarIds /\ AvailableAt(s) <= t BY <2>4, BarsAsOfAreBars DEF PointInv
  <2> QED BY <2>2, <2>3, <2>5 DEF History
<1>6. VectorsSound'
  <2> SUFFICES ASSUME NEW r \in Rows(vectorsV2')
               PROVE  /\ r \in BarIds' /\ vectorsV2'[r] \subseteq BarIds'
                      /\ \A s \in vectorsV2'[r] : Closes(s) <= Closes(r) /\ AvailableAt(s)' <= AvailableAt(r)'
    BY DEF VectorsSound, Rows, Closes
  <2>1. CASE r \in Rows(vectorsV2) /\ vectorsV2'[r] = vectorsV2[r] BY <2>1, <1>3 DEF PointInv, VectorsSound
  <2>2. CASE ~ (r \in Rows(vectorsV2) /\ vectorsV2'[r] = vectorsV2[r]) BY <2>2, <1>3, <1>4, <1>5
  <2> QED BY <2>1, <2>2
<1>7. OutcomesSound' BY <1>1, <1>3 DEF PointInv, OutcomesSound, Rows
<1>8. MatchesSound' BY <1>1, <1>3 DEF PointInv, MatchesSound, Rows
<1>9. CandidatesSound' BY <1>1 DEF PointInv, CandidatesSound, Rows
<1>10. PathsKept' BY <1>1, <1>3, PathsRest DEF PointInv
<1> QED BY <1>1, <1>2, <1>6, <1>7, <1>8, <1>9, <1>10 DEF PointInv

\* A path is a sequence of the bars ahead: no place of it is empty.
LEMMA PathsRunAhead ==
    ASSUME DataInv, NEW anchor, NEW asOf \in Int
    PROVE  Path(anchor, asOf) \in Seq(Ahead(anchor, asOf))
<1>1. PICK S : S = Ahead(anchor, asOf) OBVIOUS
<1>2. \A r \in S : r \in BarIds BY <1>1, BarsAsOfAreBars DEF Ahead
<1>3. PICK key : key = [r \in S |-> Closes(r)] OBVIOUS
<1>4. \A r \in S : key[r] = Closes(r) BY <1>3
<1>5. TellsApart(key, S)
  <2>1. \A r \in S : Closes(r) \in Int BY <1>2, BarsHaveTimes
  <2>2. ASSUME NEW x \in S, NEW y \in S, Closes(x) = Closes(y) PROVE x = y
    <3>1. PICK j \in Bars : x = Bar(j, asOf) BY <1>1 DEF Ahead, BarsAsOf
    <3>2. PICK k \in Bars : y = Bar(k, asOf) BY <1>1 DEF Ahead, BarsAsOf
    <3>3. CloseAt[j] = CloseAt[k] BY <3>1, <3>2, <2>2 DEF Bar, Closes
    <3>4. j = k BY <3>3, BarsCloseApart DEF Bars
    <3> QED BY <3>1, <3>2, <3>4
  <2> QED BY <1>3, <1>4, <2>1, <2>2 DEF TellsApart
<1>6. IsFiniteSet(S)
  <2>1. IsFiniteSet(Bars) BY PayloadsAreTyped, FS_Subset DEF Bars
  <2>2. PICK f : f = [k \in Bars |-> Bar(k, asOf)] OBVIOUS
  <2>3. PICK T : T = {f[k] : k \in Bars} OBVIOUS
  <2>4. f = [k \in Bars |-> f[k]] BY <2>2
  <2>5. IsFiniteSet(T) BY <2>1, <2>3, <2>4, RangeIsFinite
  <2>6. S \subseteq T BY <1>1, <2>2, <2>3 DEF Ahead, BarsAsOf
  <2> QED BY <2>5, <2>6, FS_Subset
<1>7. PICK n \in Nat : n = Cardinality(S) BY <1>6, FS_CardinalityType
<1>8. PICK P : P = Path(anchor, asOf) OBVIOUS
<1>9. P = [i \in 1..n |-> CHOOSE r \in S : Cardinality({s \in S : Closes(s) <= Closes(r)}) = i]
  BY <1>1, <1>7, <1>8 DEF Path
<1>10. ASSUME NEW i \in 1..n PROVE P[i] \in S
  <2>1. PICK r \in S : PlaceOf(r, S, key) = i BY <1>5, <1>6, <1>7, EveryPlaceIsTakenBy
  <2>2. {s \in S : key[s] <= key[r]} = {s \in S : Closes(s) <= Closes(r)} BY <1>4
  <2>3. \E t \in S : Cardinality({s \in S : Closes(s) <= Closes(t)}) = i BY <2>1, <2>2 DEF PlaceOf
  <2>4. P[i] = CHOOSE t \in S : Cardinality({s \in S : Closes(s) <= Closes(t)}) = i BY <1>9
  <2> QED BY <2>3, <2>4
<1>11. P \in [1..n -> S] BY <1>9, <1>10
<1>12. P \in Seq(S) BY <1>7, <1>11, SeqDef
<1> QED BY <1>1, <1>8, <1>12

\* What is ahead of an anchor, as of a time.
LEMMA AheadAreLater ==
    ASSUME DataInv, NEW anchor, NEW asOf \in Int, NEW r \in Ahead(anchor, asOf)
    PROVE  r \in BarIds /\ Closes(r) > Closes(anchor) /\ AvailableAt(r) <= asOf
BY BarsAsOfAreBars DEF Ahead

\* A stored path keeps its rows and gets those of the path beyond its end.
LEMMA PathsGrow ==
    ASSUME NEW T, NEW stored \in Seq(T), NEW path \in Seq(T), NEW next, next = Extended(stored, path)
    PROVE  /\ next \in Seq(T) /\ Len(next) >= Len(stored)
           /\ \A i \in 1..Len(stored) : next[i] = stored[i]
           /\ stored = <<>> => next = path
<1>1. Len(stored) \in Nat /\ Len(path) \in Nat OBVIOUS
<1>2. PICK m \in Nat, n \in Nat : m = Len(stored) + 1 /\ n = Len(path) BY <1>1
<1>3. PICK tail : tail = SubSeq(path, m, n) OBVIOUS
<1>4. tail \in Seq(T)
  <2>1. \A i \in m..n : i \in 1..Len(path) BY <1>1, <1>2
  <2> QED BY <1>2, <1>3, <2>1, SubSeqProperties
<1>5. next = stored \o tail BY <1>2, <1>3 DEF Extended
<1>6. /\ next \in Seq(T) /\ Len(next) = Len(stored) + Len(tail)
      /\ \A i \in 1..(Len(stored) + Len(tail)) : next[i] = IF i <= Len(stored) THEN stored[i] ELSE tail[i - Len(stored)]
  BY <1>4, <1>5, ConcatProperties
<1>7. Len(tail) \in Nat BY <1>4
<1>8. Len(next) >= Len(stored) /\ \A i \in 1..Len(stored) : next[i] = stored[i] BY <1>1, <1>6, <1>7
<1>9. ASSUME stored = <<>> PROVE next = path
  <2>1. m = 1 BY <1>2, <1>9
  <2>2. tail = path BY <1>2, <1>3, <2>1, SubSeqFull
  <2>3. <<>> \o path = path OBVIOUS
  <2> QED BY <1>5, <1>9, <2>2, <2>3
<1> QED BY <1>6, <1>8, <1>9

LEMMA OutcomesKeepPoints ==
    ASSUME PointInv, NEW asOf \in RunTimes, MaterializeOutcomes(asOf)
    PROVE  PointInv'
<1>1. UNCHANGED <<revisions, current, incidents, vectorsV2, matchesV2, opportunitiesV2>> BY DEF MaterializeOutcomes, dataVars
<1>2. DataInv' BY <1>1 DEF PointInv, DataInv, RecordSound
<1>3. BarIds' = BarIds /\ \A r : AvailableAt(r)' = AvailableAt(r) BY <1>1 DEF BarIds, AvailableAt
<1>4. \A r \in RevisionIds : outcomesV2'[r] = IF r \in Anchors(asOf) /\ outcomesV2[r] = NoRow THEN Outcome(r, asOf) ELSE outcomesV2[r]
  BY DEF MaterializeOutcomes, PersistOutcomes
<1>5. ASSUME NEW r \in Anchors(asOf), NEW o, o = Outcome(r, asOf)
      PROVE  /\ o.asOf = asOf /\ o.count = Len(Path(r, asOf))
             /\ r \in BarIds /\ AvailableAt(r) <= o.asOf
             /\ o.terminal # NoRow => /\ o.terminal \in BarIds /\ Closes(o.terminal) > Closes(r)
                                      /\ AvailableAt(o.terminal) <= o.asOf
  <2>1. asOf \in Int /\ r \in BarsAsOf(asOf) BY TimesAreIntegers DEF Anchors
  <2>2. r \in BarIds /\ AvailableAt(r) <= asOf BY <2>1, BarsAsOfAreBars DEF PointInv
  <2>3. o.asOf = asOf /\ o.count = Len(Path(r, asOf)) BY <1>5 DEF Outcome
  <2>4. PICK path : path = Path(r, asOf) OBVIOUS
  <2>5. o.terminal = IF path = <<>> THEN NoRow ELSE Last(path) BY <1>5, <2>4 DEF Outcome
  <2>6. ASSUME o.terminal # NoRow
        PROVE  o.terminal \in BarIds /\ Closes(o.terminal) > Closes(r) /\ AvailableAt(o.terminal) <= asOf
    <3>1. path # <<>> /\ o.terminal = Last(path) BY <2>5, <2>6
    <3>2. PICK S : S = Ahead(r, asOf) OBVIOUS
    <3>3. path \in Seq(S) BY <2>1, <2>4, <3>2, PathsRunAhead DEF PointInv
    <3>4. Len(path) \in 1..Len(path) BY <3>1, <3>3
    <3>5. path[Len(path)] \in S BY <3>3, <3>4
    <3>6. PICK t : t = o.terminal OBVIOUS
    <3>7. t \in Ahead(r, asOf) BY <3>1, <3>2, <3>5, <3>6 DEF Last
    <3> QED BY <2>1, <3>6, <3>7, AheadAreLater DEF PointInv
  <2> QED BY <2>2, <2>3, <2>6
<1>6. OutcomesSound'
  <2> SUFFICES ASSUME NEW r \in Rows(outcomesV2'), NEW o, o = outcomesV2'[r]
               PROVE  /\ r \in BarIds /\ AvailableAt(r) <= o.asOf
                      /\ o.terminal # NoRow => /\ o.terminal \in BarIds /\ Closes(o.terminal) > Closes(r)
                                               /\ AvailableAt(o.terminal) <= o.asOf
    BY <1>3 DEF OutcomesSound, Rows, Closes
  <2>1. r \in RevisionIds /\ o # NoRow BY DEF Rows
  <2>2. CASE r \in Anchors(asOf) /\ outcomesV2[r] = NoRow BY <2>1, <2>2, <1>4, <1>5
  <2>3. CASE ~ (r \in Anchors(asOf) /\ outcomesV2[r] = NoRow)
    <3>1. outcomesV2[r] = o /\ r \in Rows(outcomesV2) BY <2>1, <2>3, <1>4 DEF Rows
    <3> QED BY <3>1 DEF PointInv, OutcomesSound
  <2> QED BY <2>2, <2>3
<1>7. VectorsSound' BY <1>1, <1>3 DEF PointInv, VectorsSound, Rows
<1>8. MatchesSound'
  <2>1. \A r \in RevisionIds : outcomesV2[r] # NoRow => outcomesV2'[r] = outcomesV2[r] BY <1>4
  <2> QED BY <1>1, <1>3, <2>1 DEF PointInv, MatchesSound, Rows
<1>9. CandidatesSound' BY <1>1 DEF PointInv, CandidatesSound, Rows
<1>10. \A r \in RevisionIds : pathsV2'[r] = IF r \in Anchors(asOf) THEN Extended(pathsV2[r], Path(r, asOf)) ELSE pathsV2[r]
  BY DEF MaterializeOutcomes, PersistOutcomes
<1>11. ASSUME NEW r \in RevisionIds
       PROVE  /\ PathRows(r, pathsV2'[r]) /\ (outcomesV2'[r] = NoRow => pathsV2'[r] = <<>>)
              /\ r \in Rows(outcomesV2') => /\ outcomesV2'[r].count \in 0..Len(pathsV2'[r])
                                            /\ \A i \in 1..outcomesV2'[r].count : AvailableAt(pathsV2'[r][i]) <= outcomesV2'[r].asOf
  <2>1. PICK stored, next, old, new : /\ stored = pathsV2[r] /\ next = pathsV2'[r]
                                      /\ old = outcomesV2[r] /\ new = outcomesV2'[r]
    OBVIOUS
  <2>2. PathRows(r, stored) /\ (old = NoRow => stored = <<>>) BY <2>1 DEF PointInv, PathsKept
  <2>3. old # NoRow => old.count \in 0..Len(stored) /\ \A i \in 1..old.count : AvailableAt(stored[i]) <= old.asOf
    BY <2>1 DEF PointInv, PathsKept, Rows
  <2>4. CASE r \notin Anchors(asOf)
    <3>1. next = stored /\ new = old BY <2>1, <2>4, <1>4, <1>10
    <3> QED BY <2>1, <2>2, <2>3, <3>1 DEF Rows
  <2>5. CASE r \in Anchors(asOf)
    <3>1. asOf \in Int BY TimesAreIntegers
    <3>2. PICK path, S : path = Path(r, asOf) /\ S = Ahead(r, asOf) OBVIOUS
    <3>3. \A t \in S : t \in BarIds /\ Closes(t) > Closes(r) /\ AvailableAt(t) <= asOf
      BY <3>1, <3>2, AheadAreLater DEF PointInv
    <3>4. path \in Seq(S) BY <3>1, <3>2, PathsRunAhead DEF PointInv
    <3>5. PICK T : T = {t \in BarIds : Closes(t) > Closes(r)} OBVIOUS
    <3>6. stored \in Seq(T)
      <4>1. stored \in Seq(BarIds) /\ \A i \in DOMAIN stored : stored[i] \in T BY <2>2, <3>5 DEF PathRows
      <4>2. PICK n \in Nat : n = Len(stored) /\ DOMAIN stored = 1..n /\ stored \in [1..n -> BarIds] BY <4>1
      <4>3. stored \in [1..n -> T] BY <4>1, <4>2
      <4> QED BY <4>2, <4>3, SeqDef
    <3>7. S \subseteq T BY <3>3, <3>5
    <3>8. path \in Seq(T) BY <3>4, <3>7
    <3>9. next = Extended(stored, path) BY <2>1, <2>5, <3>2, <1>10
    <3>10. /\ next \in Seq(T) /\ Len(next) >= Len(stored) /\ \A i \in 1..Len(stored) : next[i] = stored[i]
           /\ stored = <<>> => next = path
      BY <3>6, <3>8, <3>9, PathsGrow
    <3>11. PathRows(r, next)
      <4>1. T \subseteq BarIds BY <3>5
      <4>2. next \in Seq(BarIds) BY <3>10, <4>1
      <4>3. \A i \in DOMAIN next : next[i] \in T BY <3>10
      <4> QED BY <4>2, <4>3, <3>5 DEF PathRows
    <3>12. CASE old = NoRow
      <4>1. new = Outcome(r, asOf) BY <2>1, <2>5, <3>12, <1>4
      <4>2. new.asOf = asOf /\ new.count = Len(path) BY <4>1, <2>5, <3>2, <1>5
      <4>3. next = path BY <2>2, <3>10, <3>12
      <4>4. Len(path) \in Nat /\ \A i \in 1..Len(path) : path[i] \in S BY <3>4
      <4>5. \A i \in 1..Len(path) : AvailableAt(path[i]) <= asOf BY <4>4, <3>3
      <4>6. new.count \in 0..Len(next) BY <4>2, <4>3, <4>4
      <4>7. new # NoRow
        <5>1. new.terminal \in (Record \X Nat) \union {NoRow}
          <6>1. new.terminal # NoRow => new.terminal \in BarIds BY <4>1, <2>5, <1>5
          <6> QED BY <6>1 DEF BarIds, Bars
        <5>2. PICK count, terminal : count = Len(path) /\ terminal = new.terminal OBVIOUS
        <5>3. PICK state \in {"COMPLETE", "UNKNOWN", "INSUFFICIENT"} : state = OutcomeState(r, asOf) BY DEF OutcomeState
        <5>4. new = [asOf |-> asOf, state |-> state, count |-> count, terminal |-> terminal]
          <6>1. new = [asOf |-> asOf, state |-> OutcomeState(r, asOf), count |-> Len(path),
                       terminal |-> IF path = <<>> THEN NoRow ELSE Last(path)]
            BY <4>1, <3>2 DEF Outcome
          <6> QED BY <5>2, <5>3, <6>1
        <5>5. new \in OutcomeRowV2 BY <3>1, <4>4, <5>1, <5>2, <5>4 DEF OutcomeRowV2
        <5> QED BY <5>5, NoRowIsNoRow
      <4> QED BY <2>1, <3>11, <4>2, <4>3, <4>5, <4>6, <4>7
    <3>13. CASE old # NoRow
      <4>1. new = old BY <2>1, <3>13, <1>4
      <4>2. Len(stored) \in Nat /\ Len(next) \in Nat BY <3>6, <3>10
      <4>3. old.count \in 0..Len(next) BY <2>3, <3>10, <3>13, <4>2
      <4>4. \A i \in 1..old.count : i \in 1..Len(stored) BY <2>3, <3>13, <4>2
      <4>5. \A i \in 1..old.count : AvailableAt(next[i]) <= old.asOf BY <2>3, <3>10, <3>13, <4>4
      <4> QED BY <2>1, <3>11, <3>13, <4>1, <4>3, <4>5
    <3> QED BY <3>12, <3>13
  <2> QED BY <2>4, <2>5
<1>12. PathsKept'
  <2>1. \A r \in RevisionIds : PathRows(r, pathsV2[r])' /\ (outcomesV2'[r] = NoRow => pathsV2'[r] = <<>>)
    BY <1>3, <1>11 DEF PathRows, Closes
  <2>2. \A r \in Rows(outcomesV2') :
           /\ outcomesV2'[r].count \in 0..Len(pathsV2'[r])
           /\ \A i \in 1..outcomesV2'[r].count : AvailableAt(pathsV2[r][i])' <= outcomesV2'[r].asOf
    BY <1>1, <1>11 DEF AvailableAt, Rows
  <2> QED BY <2>1, <2>2 DEF PathsKept, Rows
<1> QED BY <1>1, <1>2, <1>6, <1>7, <1>8, <1>9, <1>12 DEF PointInv

LEMMA SimilarityKeepsPoints ==
    ASSUME PointInv, NEW q \in RevisionIds, MaterializeSimilarity(q)
    PROVE  PointInv'
<1>1. UNCHANGED <<revisions, current, incidents, vectorsV2, outcomesV2, pathsV2, opportunitiesV2>> BY DEF MaterializeSimilarity, dataVars
<1>2. DataInv' BY <1>1 DEF PointInv, DataInv, RecordSound
<1>3. BarIds' = BarIds /\ \A r : AvailableAt(r)' = AvailableAt(r) BY <1>1 DEF BarIds, AvailableAt
<1>4. PICK ranked \in UNION {[1..n -> Analogous(q)] : n \in 0..MaximumMatches} : PersistMatches(q, ranked)
  BY DEF MaterializeSimilarity
<1>5. PICK n \in 0..MaximumMatches : ranked \in [1..n -> Analogous(q)] BY <1>4
<1>6. n \in Nat /\ DOMAIN ranked = 1..n /\ \A i \in 1..n : i \in Nat /\ ranked[i] \in Analogous(q) BY <1>5
<1>7. Len(ranked) = n
  <2>1. ranked \in Seq(Analogous(q)) BY <1>5, <1>6, SeqDef
  <2>2. DOMAIN ranked = 1..Len(ranked) /\ Len(ranked) \in Nat BY <2>1, LenProperties
  <2> QED BY <1>6, <2>2
<1>8. PICK stored : stored = IF matchesV2[q] = NoRow THEN {} ELSE matchesV2[q].rows OBVIOUS
<1>9. PICK fresh : fresh = {i \in DOMAIN ranked : \A m \in stored : m.vector # ranked[i]} OBVIOUS
<1>10. PICK new : new = {[rank |-> i, vector |-> ranked[i], outcome |-> HasOutcome(ranked[i], q)] : i \in fresh} OBVIOUS
<1>11. PICK count : count = IF matchesV2[q] = NoRow THEN n ELSE matchesV2[q].count OBVIOUS
<1>12. matchesV2' = [matchesV2 EXCEPT ![q] = [count |-> count, rows |-> stored \union new]]
  BY <1>4, <1>7, <1>8, <1>9, <1>10, <1>11 DEF PersistMatches, PointInv
<1>13. matchesV2[q] # NoRow => matchesV2[q] \in SimilarityRun BY DEF PointInv
<1>14. stored \subseteq MatchRow /\ count \in Nat BY <1>6, <1>8, <1>11, <1>13 DEF SimilarityRun
<1>15. ASSUME NEW m \in new
       PROVE  /\ m \in MatchRow /\ m.vector \in BarIds /\ m.vector \in RevisionIds
              /\ Closes(m.vector) < Closes(q) /\ AvailableAt(m.vector) <= Closes(q)
              /\ m.outcome => HasOutcome(m.vector, q)
  <2>1. PICK i \in fresh : m = [rank |-> i, vector |-> ranked[i], outcome |-> HasOutcome(ranked[i], q)] BY <1>10
  <2>2. i \in Nat /\ ranked[i] \in Analogous(q) BY <1>6, <1>9, <2>1
  <2>3. m.rank = i /\ m.vector = ranked[i] /\ (m.outcome <=> HasOutcome(ranked[i], q)) BY <2>1
  <2>4. m.vector \in Rows(vectorsV2) /\ Closes(m.vector) < Closes(q) /\ AvailableAt(m.vector) <= Closes(q)
    BY <2>2, <2>3 DEF Analogous
  <2>5. m.vector \in BarIds /\ m.vector \in RevisionIds BY <2>4 DEF PointInv, VectorsSound, Rows
  <2>6. m.vector \in Record \X Nat BY <2>5 DEF BarIds, Bars
  <2>7. HasOutcome(ranked[i], q) \in BOOLEAN BY DEF HasOutcome
  <2>8. m \in MatchRow BY <2>1, <2>2, <2>3, <2>6, <2>7 DEF MatchRow
  <2> QED BY <2>3, <2>4, <2>5, <2>8
<1>16. [count |-> count, rows |-> stored \union new] \in SimilarityRun BY <1>14, <1>15 DEF SimilarityRun
<1>17. PICK run : run = [count |-> count, rows |-> stored \union new] OBVIOUS
<1>18. run \in SimilarityRun /\ run # NoRow /\ run.rows = stored \union new BY <1>16, <1>17, NoRowIsNoRow DEF SimilarityRun
<1>19. matchesV2'[q] = run /\ \A p \in RevisionIds \ {q} : matchesV2'[p] = matchesV2[p] BY <1>12, <1>17 DEF PointInv
<1>20. matchesV2' \in [RevisionIds -> SimilarityRun \union {NoRow}] BY <1>12, <1>17, <1>18 DEF PointInv
<1>21. MatchesSound'
  <2> SUFFICES ASSUME NEW p \in Rows(matchesV2'), NEW m \in matchesV2'[p].rows
               PROVE  /\ m.vector \in BarIds /\ m.vector \in RevisionIds
                      /\ Closes(m.vector) < Closes(p) /\ AvailableAt(m.vector) <= Closes(p)
                      /\ m.outcome => /\ outcomesV2[m.vector] # NoRow /\ outcomesV2[m.vector].state = "COMPLETE"
                                      /\ Closes(outcomesV2[m.vector].terminal) <= Closes(p)
    BY <1>1, <1>3 DEF MatchesSound, Rows, Closes
  <2>1. p \in RevisionIds BY DEF Rows
  <2>2. CASE p \in Rows(matchesV2) /\ m \in matchesV2[p].rows BY <2>2 DEF PointInv, MatchesSound
  <2>3. CASE ~ (p \in Rows(matchesV2) /\ m \in matchesV2[p].rows)
    <3>1. p = q
      <4>1. CASE p # q
        <5>1. matchesV2'[p] = matchesV2[p] BY <4>1, <2>1, <1>19
        <5>2. p \in Rows(matchesV2) /\ m \in matchesV2[p].rows BY <5>1, <2>1 DEF Rows
        <5> QED BY <5>2, <2>3
      <4> QED BY <4>1
    <3>2. m \in stored \union new BY <3>1, <1>18, <1>19
    <3>3. m \notin stored BY <2>1, <2>3, <3>1, <1>8 DEF Rows
    <3>4. m \in new BY <3>2, <3>3
    <3> QED BY <3>1, <3>4, <1>15 DEF HasOutcome
  <2> QED BY <2>2, <2>3
<1>22. CandidatesSound'
  <2> SUFFICES ASSUME NEW p \in Rows(opportunitiesV2)
               PROVE  p \in Rows(matchesV2') /\ \A m \in opportunitiesV2[p].evidence : m \in matchesV2'[p].rows /\ m.outcome
    BY <1>1 DEF CandidatesSound, Rows
  <2>1. p \in Rows(matchesV2) /\ \A m \in opportunitiesV2[p].evidence : m \in matchesV2[p].rows /\ m.outcome
    BY DEF PointInv, CandidatesSound
  <2>2. p \in RevisionIds /\ matchesV2[p] # NoRow BY <2>1 DEF Rows
  <2>3. CASE p # q BY <2>1, <2>2, <2>3, <1>19 DEF Rows
  <2>4. CASE p = q
    <3>1. stored = matchesV2[p].rows BY <2>2, <2>4, <1>8
    <3>2. matchesV2'[p] # NoRow /\ matchesV2'[p].rows = stored \union new BY <2>4, <1>18, <1>19
    <3> QED BY <2>1, <2>2, <3>1, <3>2 DEF Rows
  <2> QED BY <2>3, <2>4
<1>23. VectorsSound' BY <1>1, <1>3 DEF PointInv, VectorsSound, Rows
<1>24. OutcomesSound' BY <1>1, <1>3 DEF PointInv, OutcomesSound, Rows
<1>25. PathsKept' BY <1>1, <1>3, PathsRest DEF PointInv
<1> QED BY <1>1, <1>2, <1>20, <1>21, <1>22, <1>23, <1>24, <1>25 DEF PointInv

LEMMA OpportunityKeepsPoints ==
    ASSUME PointInv, NEW q \in RevisionIds, MaterializeOpportunity(q)
    PROVE  PointInv'
<1>1. UNCHANGED <<revisions, current, incidents, vectorsV2, outcomesV2, pathsV2, matchesV2>> BY DEF MaterializeOpportunity, dataVars
<1>2. DataInv' BY <1>1 DEF PointInv, DataInv, RecordSound
<1>3. BarIds' = BarIds /\ \A r : AvailableAt(r)' = AvailableAt(r) BY <1>1 DEF BarIds, AvailableAt
<1>4. matchesV2[q] # NoRow /\ q \in Rows(matchesV2) BY DEF MaterializeOpportunity, Rows
<1>5. PICK included : included = {m \in matchesV2[q].rows : m.outcome /\ Closes(m.vector) <= TrainingEnd} OBVIOUS
<1>6. PICK gate \in {"INSUFFICIENT_EVIDENCE", "PROVISIONAL", "ABSTAINED"} : PersistCandidate(q, gate, included)
  BY <1>5 DEF MaterializeOpportunity
<1>7. included \subseteq MatchRow
  <2>1. matchesV2[q] \in SimilarityRun BY <1>4 DEF PointInv
  <2> QED BY <2>1, <1>5 DEF SimilarityRun
<1>8. PICK row : row = opportunitiesV2[q] OBVIOUS
<1>9. PICK next : next = opportunitiesV2'[q] OBVIOUS
<1>10. opportunitiesV2' \in [RevisionIds -> {opportunitiesV2'[p] : p \in RevisionIds}]
       /\ \A p \in RevisionIds \ {q} : opportunitiesV2'[p] = opportunitiesV2[p]
  BY <1>6 DEF PersistCandidate, PointInv
<1>11. next \in CandidateRow /\ next.evidence = IF row = NoRow THEN included ELSE row.evidence \union included
  <2>1. CASE row = NoRow
    <3>1. next = [state |-> gate, evidence |-> included] BY <2>1, <1>6, <1>8, <1>9 DEF PersistCandidate, PointInv
    <3> QED BY <2>1, <3>1, <1>7 DEF CandidateRow
  <2>2. CASE row # NoRow
    <3>1. row \in CandidateRow BY <1>8, <2>2 DEF PointInv
    <3> QED BY <2>2, <3>1, <1>6, <1>7, <1>8, <1>9 DEF PersistCandidate, PointInv, CandidateRow
  <2> QED BY <2>1, <2>2
<1>12. opportunitiesV2' \in [RevisionIds -> CandidateRow \union {NoRow}] BY <1>9, <1>10, <1>11 DEF PointInv
<1>13. opportunitiesV2'[q] = next /\ \A p \in RevisionIds \ {q} : opportunitiesV2'[p] = opportunitiesV2[p]
  BY <1>9, <1>10
<1>14. CandidatesSound'
  <2> SUFFICES ASSUME NEW p \in Rows(opportunitiesV2')
               PROVE  p \in Rows(matchesV2) /\ \A m \in opportunitiesV2'[p].evidence : m \in matchesV2[p].rows /\ m.outcome
    BY <1>1 DEF CandidatesSound, Rows
  <2>1. p \in RevisionIds /\ opportunitiesV2'[p] # NoRow BY DEF Rows
  <2>2. CASE p # q
    <3>1. p \in Rows(opportunitiesV2) /\ opportunitiesV2'[p] = opportunitiesV2[p] BY <2>1, <2>2, <1>13 DEF Rows
    <3> QED BY <3>1 DEF PointInv, CandidatesSound
  <2>3. CASE p = q
    <3>1. \A m \in included : m \in matchesV2[q].rows /\ m.outcome BY <1>5
    <3>2. row # NoRow => \A m \in row.evidence : m \in matchesV2[q].rows /\ m.outcome
      <4>1. row # NoRow => q \in Rows(opportunitiesV2) BY <1>8 DEF Rows
      <4> QED BY <4>1, <1>8 DEF PointInv, CandidatesSound
    <3> QED BY <2>3, <3>1, <3>2, <1>4, <1>11, <1>13
  <2> QED BY <2>2, <2>3
<1>15. VectorsSound' BY <1>1, <1>3 DEF PointInv, VectorsSound, Rows
<1>16. OutcomesSound' BY <1>1, <1>3 DEF PointInv, OutcomesSound, Rows
<1>17. MatchesSound' BY <1>1, <1>3 DEF PointInv, MatchesSound, Rows
<1>18. PathsKept' BY <1>1, <1>3, PathsRest DEF PointInv
<1> QED BY <1>1, <1>2, <1>12, <1>14, <1>15, <1>16, <1>17, <1>18 DEF PointInv

LEMMA PointKeeps == PointInv /\ (PointStep \/ UNCHANGED pointVars) => PointInv'
<1> SUFFICES ASSUME PointInv, PointStep \/ UNCHANGED pointVars PROVE PointInv' OBVIOUS
<1>1. CASE \E p \in Payload : ImportPayload(p) /\ UNCHANGED evidenceRows BY <1>1, ImportsKeepPoints
<1>2. CASE \E asOf \in RunTimes : MaterializeFeatures(asOf) \/ MaterializeOutcomes(asOf)
  BY <1>2, FeaturesKeepPoints, OutcomesKeepPoints
<1>3. CASE \E q \in RevisionIds : MaterializeSimilarity(q) \/ MaterializeOpportunity(q)
  BY <1>3, SimilarityKeepsPoints, OpportunityKeepsPoints
<1>4. CASE UNCHANGED pointVars
  <2>1. UNCHANGED <<revisions, current, incidents, vectorsV2, outcomesV2, pathsV2, matchesV2, opportunitiesV2>>
    BY <1>4 DEF pointVars, dataVars, evidenceRows
  <2>2. BarIds' = BarIds /\ \A r : AvailableAt(r)' = AvailableAt(r) BY <2>1 DEF BarIds, AvailableAt
  <2>3. PathsKept' BY <2>1, <2>2, PathsRest DEF PointInv
  <2> QED BY <2>1, <2>2, <2>3 DEF PointInv, DataInv, RecordSound, VectorsSound, OutcomesSound, MatchesSound, CandidatesSound, Rows
<1> QED BY <1>1, <1>2, <1>3, <1>4 DEF PointStep

---------------------------------------------------------------------------
\* Calibration runs and the evaluations by them.
RunSound(run) ==
    /\ run.sample = Cardinality(Part(run.lineage, "CALIBRATION"))
    /\ \A x \in run.lineage : x.included =>
          /\ x.candidate \in Candidate /\ EndsAt[x.candidate] <= run.cutoff /\ Included(x.candidate, x.period)
          /\ x.period \in DOMAIN Period /\ StrategyOf[x.candidate] = run.policy.strategy

\* What the gates ask of the run of an eligible candidate.
RunPasses(run, policy) ==
    run.calibrated /\ {"calibration", "ev"} \subseteq run.passed /\ run.sample >= policy.minimum

EvaluationSound(e) ==
    e.state = "ELIGIBLE" => /\ e.ready /\ ~ e.wide /\ e.candidate \in Scored /\ Flaws[e.candidate] = {}
                            /\ \E run \in calibrations : e.run = {run} /\ RunPasses(run, e.policy)

CalibrationInv ==
    /\ realized \subseteq Candidate
    /\ \A run \in calibrations : RunSound(run)
    /\ \A run, other \in calibrations : SameRun(run, other) => run = other
    /\ \A e \in evaluations : EvaluationSound(e)

LEMMA CalibrationInitially == CalibrationInit => CalibrationInv
BY DEF CalibrationInit, CalibrationInv

LEMMA CalibrationShows == CalibrationInv => CalibrationLineage
<1> SUFFICES ASSUME CalibrationInv PROVE CalibrationLineage OBVIOUS
<1>1. ASSUME NEW run \in calibrations, NEW x \in run.lineage, x.included PROVE EndsAt[x.candidate] <= run.cutoff
  BY <1>1 DEF CalibrationInv, RunSound
<1>2. ASSUME NEW run \in calibrations, NEW name, NEW c \in Part(run.lineage, name)
      PROVE  c \in Candidate /\ Included(c, name) /\ name \in DOMAIN Period /\ StrategyOf[c] = run.policy.strategy
  <2>1. PICK x \in run.lineage : x.included /\ x.period = name /\ x.candidate = c BY DEF Part
  <2> QED BY <2>1 DEF CalibrationInv, RunSound
<1>3. ASSUME NEW run \in calibrations, NEW fitted \in Part(run.lineage, "CALIBRATION"), NEW tested \in Part(run.lineage, "TEST")
      PROVE  fitted # tested /\ EndsAt[fitted] < SeenAt[tested]
  <2>1. fitted \in Candidate /\ tested \in Candidate /\ Included(fitted, "CALIBRATION") /\ Included(tested, "TEST") BY <1>2
  <2>2. /\ SeenAt[fitted] \in Int /\ SeenAt[tested] \in Int /\ EndsAt[fitted] \in Int
        /\ Period["CALIBRATION"].end \in Int /\ Period["TEST"].start \in Int
        /\ Period["CALIBRATION"].end < Period["TEST"].start /\ Embargo \in Nat /\ Purge \in Nat
    BY <2>1, PolicyIsValid, CandidatesAreTyped
  <2>3. EndsAt[fitted] <= Period["CALIBRATION"].end /\ SeenAt[fitted] <= Period["CALIBRATION"].end - Purge
        /\ SeenAt[tested] >= Period["TEST"].start + Embargo
    BY <2>1 DEF Included
  <2>4. EndsAt[fitted] < SeenAt[tested] /\ SeenAt[fitted] < SeenAt[tested] BY <2>2, <2>3
  <2> QED BY <2>2, <2>4
<1>4. ASSUME NEW e \in evaluations, e.state = "ELIGIBLE"
      PROVE  /\ e.ready /\ ~ e.wide /\ e.candidate \in Scored /\ Flaws[e.candidate] = {}
             /\ \E run \in calibrations :
                   /\ e.run = {run} /\ run.calibrated /\ {"calibration", "ev"} \subseteq run.passed
                   /\ Cardinality(Part(run.lineage, "CALIBRATION")) >= e.policy.minimum
                   /\ \A c \in Part(run.lineage, "CALIBRATION") : StrategyOf[c] = run.policy.strategy
  <2>1. e.ready /\ ~ e.wide /\ e.candidate \in Scored /\ Flaws[e.candidate] = {}
    BY <1>4 DEF CalibrationInv, EvaluationSound
  <2>2. PICK run \in calibrations : e.run = {run} /\ RunPasses(run, e.policy)
    BY <1>4 DEF CalibrationInv, EvaluationSound
  <2>3. Cardinality(Part(run.lineage, "CALIBRATION")) >= e.policy.minimum
    BY <2>2 DEF CalibrationInv, RunSound, RunPasses
  <2>4. \A c \in Part(run.lineage, "CALIBRATION") : StrategyOf[c] = run.policy.strategy BY <1>2
  <2> QED BY <2>1, <2>2, <2>3, <2>4 DEF RunPasses
<1>5. \A run, other \in calibrations : SameRun(run, other) => run = other BY DEF CalibrationInv
<1> QED BY <1>1, <1>3, <1>4, <1>5 DEF CalibrationLineage

LEMMA RunsAreSound ==
    ASSUME realized \subseteq Candidate, NEW policy, NEW cutoff, NEW ess, NEW passed,
           NEW run, run = CalibrationRun(policy, cutoff, ess, passed)
    PROVE  RunSound(run)
<1>1. run.policy = policy /\ run.cutoff = cutoff /\ run.lineage = Lineage(policy, cutoff) BY DEF CalibrationRun
<1>2. run.sample = Cardinality(Part(run.lineage, "CALIBRATION")) BY DEF CalibrationRun
<1>3. ASSUME NEW x \in Lineage(policy, cutoff), x.included
      PROVE  /\ x.candidate \in Candidate /\ EndsAt[x.candidate] <= cutoff /\ Included(x.candidate, x.period)
             /\ x.period \in DOMAIN Period /\ StrategyOf[x.candidate] = policy.strategy
  <2>1. PICK sets : sets = {{[candidate |-> c, period |-> name, included |-> Included(c, name)] : name \in PeriodsOf(c)} :
                              c \in Observations(policy, cutoff)} OBVIOUS
  <2>2. x \in UNION sets
    <3>1. PICK others : others = {[candidate |-> c, period |-> "NONE", included |-> FALSE] :
                                    c \in {d \in Observations(policy, cutoff) : PeriodsOf(d) = {}}} OBVIOUS
    <3>2. x \notin others BY <1>3, <3>1
    <3>3. Lineage(policy, cutoff) = (UNION sets) \union others BY <2>1, <3>1 DEF Lineage
    <3> QED BY <3>2, <3>3
  <2>3. PICK c \in Observations(policy, cutoff) :
           x \in {[candidate |-> c, period |-> name, included |-> Included(c, name)] : name \in PeriodsOf(c)}
    BY <2>1, <2>2
  <2>4. PICK name \in PeriodsOf(c) : x = [candidate |-> c, period |-> name, included |-> Included(c, name)] BY <2>3
  <2>5. x.candidate = c /\ x.period = name /\ (x.included <=> Included(c, name)) BY <2>4
  <2>6. c \in realized /\ StrategyOf[c] = policy.strategy /\ EndsAt[c] <= cutoff BY DEF Observations
  <2>7. name \in DOMAIN Period BY DEF PeriodsOf
  <2> QED BY <1>3, <2>5, <2>6, <2>7
<1> QED BY <1>1, <1>2, <1>3 DEF RunSound

LEMMA EligibleIsFlawless ==
    ASSUME NEW c \in Candidate, NEW run, NEW policy, NEW wide, NEW ready \in BOOLEAN,
           Evaluation(c, run, policy, wide, ready) = "ELIGIBLE"
    PROVE  ready /\ ~ wide /\ c \in Scored /\ Flaws[c] = {} /\ \E r \in run : RunPasses(r, policy)
<1>1. \E r \in run : r.calibrated /\ c \in Scored BY DEF Evaluation
<1>2. PICK failed : failed = {n \in DOMAIN GateOrder : \E r \in run : GateOrder[n] \in FailedGates(c, r, policy, wide, ready)}
  OBVIOUS
<1>3. DOMAIN GateOrder = 1..10 BY DEF GateOrder
<1>4. failed = {}
  <2> SUFFICES ASSUME failed # {} PROVE FALSE OBVIOUS
  <2>1. StateOfGate[GateOrder[Min(failed)]] = "ELIGIBLE" BY <1>1, <1>2 DEF Evaluation
  <2>2. failed \in SUBSET Int /\ IsFiniteSet(failed)
    <3>1. PICK k \in Int : k = 10 OBVIOUS
    <3>2. PICK T : T = 1..k OBVIOUS
    <3>3. IsFiniteSet(T) BY <3>2, FS_Interval
    <3>4. failed \subseteq T BY <3>1, <3>2, <1>2, <1>3
    <3>5. IsFiniteSet(failed) BY <3>3, <3>4, FS_Subset
    <3> QED BY <3>2, <3>4, <3>5
  <2>3. PICK m \in failed : \A n \in failed : m <= n BY <2>2, LeastExists
  <2>4. Min(failed) \in failed BY <2>3 DEF Min
  <2>5. Min(failed) \in 1..10 BY <2>4, <1>2, <1>3
  <2>6. \A n \in 1..10 : GateOrder[n] \in DOMAIN StateOfGate /\ StateOfGate[GateOrder[n]] # "ELIGIBLE" BY DEF GateOrder, StateOfGate
  <2> QED BY <2>1, <2>5, <2>6
<1>5. PICK r \in run : r.calibrated BY <1>1
<1>6. \A n \in 1..10 : GateOrder[n] \notin FailedGates(c, r, policy, wide, ready) BY <1>2, <1>3, <1>4, <1>5
<1>7. Flaws[c] = {}
  <2> SUFFICES ASSUME NEW g \in Flaws[c] PROVE FALSE OBVIOUS
  <2>1. PICK n \in 1..10 : g = GateOrder[n] BY <1>3, FlawsAreGates
  <2>2. g \in FailedGates(c, r, policy, wide, ready) BY DEF FailedGates
  <2> QED BY <2>1, <2>2, <1>6
<1>8. ready
  <2> SUFFICES ASSUME ~ ready PROVE FALSE OBVIOUS
  <2>1. "release" \in FailedGates(c, r, policy, wide, ready) BY DEF FailedGates
  <2>2. GateOrder[10] = "release" BY DEF GateOrder
  <2> QED BY <2>1, <2>2, <1>6
<1>9. ~ wide
  <2> SUFFICES ASSUME wide PROVE FALSE OBVIOUS
  <2>1. "uncertainty" \in FailedGates(c, r, policy, wide, ready) BY DEF FailedGates
  <2>2. PICK n \in 1..10 : GateOrder[n] = "uncertainty"
    <3>1. 3 \in 1..10 /\ GateOrder[3] = "uncertainty" BY DEF GateOrder
    <3> QED BY <3>1
  <2>3. GateOrder[n] \notin FailedGates(c, r, policy, wide, ready) BY <1>6
  <2> QED BY <2>1, <2>2, <2>3
<1>10. {"calibration", "ev"} \subseteq r.passed
  <2>1. "calibration" \in r.passed
    <3>1. "calibration" \notin r.passed => "calibration" \in FailedGates(c, r, policy, wide, ready) BY DEF FailedGates
    <3>2. GateOrder[2] = "calibration" BY DEF GateOrder
    <3> QED BY <3>1, <3>2, <1>6
  <2>2. "ev" \in r.passed
    <3>1. "ev" \notin r.passed => "ev" \in FailedGates(c, r, policy, wide, ready) BY DEF FailedGates
    <3>2. GateOrder[4] = "ev" BY DEF GateOrder
    <3> QED BY <3>1, <3>2, <1>6
  <2> QED BY <2>1, <2>2
<1>11. r.sample >= policy.minimum
  <2>1. ~ (r.sample >= policy.minimum) => "sample" \in FailedGates(c, r, policy, wide, ready) BY DEF FailedGates
  <2>2. GateOrder[1] = "sample" BY DEF GateOrder
  <2> QED BY <2>1, <2>2, <1>6
<1>12. RunPasses(r, policy) BY <1>5, <1>10, <1>11 DEF RunPasses
<1> QED BY <1>1, <1>7, <1>8, <1>9, <1>12

LEMMA CalibrationKeeps == CalibrationInv /\ (CalibrationStep \/ UNCHANGED calibrationVars) => CalibrationInv'
<1> SUFFICES ASSUME CalibrationInv, CalibrationStep \/ UNCHANGED calibrationVars PROVE CalibrationInv' OBVIOUS
<1>1. CASE \E c \in Candidate : Complete(c)
  BY <1>1 DEF Complete, CalibrationInv, RunSound, EvaluationSound
<1>2. ASSUME NEW policy \in Policy, NEW cutoff \in Cutoff, MaterializeCalibration(policy, cutoff) PROVE CalibrationInv'
  <2>1. PICK ess \in BOOLEAN, passed \in SUBSET {"calibration", "ev"} :
           calibrations' = calibrations \union (IF \E r \in calibrations : SameRun(r, CalibrationRun(policy, cutoff, ess, passed))
                                                THEN {} ELSE {CalibrationRun(policy, cutoff, ess, passed)})
    BY <1>2 DEF MaterializeCalibration
  <2>2. PICK run : run = CalibrationRun(policy, cutoff, ess, passed) OBVIOUS
  <2>3. calibrations' = calibrations \union (IF \E r \in calibrations : SameRun(r, run) THEN {} ELSE {run}) BY <2>1, <2>2
  <2>4. RunSound(run) BY <2>2, RunsAreSound DEF CalibrationInv
  <2>5. UNCHANGED <<realized, evaluations>> BY <1>2 DEF MaterializeCalibration
  <2>6. \A r \in calibrations' : RunSound(r) BY <2>3, <2>4 DEF CalibrationInv
  <2>7. \A r, other \in calibrations' : SameRun(r, other) => r = other
    BY <2>3 DEF CalibrationInv, SameRun
  <2>8. \A e \in evaluations' : EvaluationSound(e)' BY <2>3, <2>5 DEF CalibrationInv, EvaluationSound
  <2> QED BY <2>5, <2>6, <2>7, <2>8 DEF CalibrationInv, RunSound
<1>3. ASSUME NEW c \in Candidate, NEW run \in {{}} \union {{r} : r \in calibrations}, NEW policy \in Policy, NEW at \in EvaluatedAt,
             EvaluateCandidate(c, run, policy, at)
      PROVE  CalibrationInv'
  <2>1. UNCHANGED <<realized, calibrations>> BY <1>3 DEF EvaluateCandidate
  <2>2. PICK wide \in BOOLEAN, ready \in BOOLEAN :
           evaluations' = evaluations \union
              (IF {e \in evaluations : e.candidate = c /\ e.run = run /\ e.policy = policy} = {}
               THEN {[candidate |-> c, run |-> run, policy |-> policy, at |-> at, wide |-> wide, ready |-> ready,
                      state |-> Evaluation(c, run, policy, wide, ready)]} ELSE {})
    BY <1>3 DEF EvaluateCandidate
  <2>3. PICK row : row = [candidate |-> c, run |-> run, policy |-> policy, at |-> at, wide |-> wide, ready |-> ready,
                          state |-> Evaluation(c, run, policy, wide, ready)] OBVIOUS
  <2>4. EvaluationSound(row)
    <3> SUFFICES ASSUME row.state = "ELIGIBLE"
                 PROVE  /\ row.ready /\ ~ row.wide /\ row.candidate \in Scored /\ Flaws[row.candidate] = {}
                        /\ \E r \in calibrations : row.run = {r} /\ RunPasses(r, row.policy)
      BY DEF EvaluationSound
    <3>1. ready /\ ~ wide /\ c \in Scored /\ Flaws[c] = {} /\ \E r \in run : RunPasses(r, policy)
      BY <2>3, EligibleIsFlawless
    <3>2. row.ready = ready /\ row.wide = wide /\ row.candidate = c /\ row.run = run /\ row.policy = policy BY <2>3
    <3>3. \E r \in calibrations : run = {r} /\ RunPasses(r, policy) BY <3>1
    <3> QED BY <3>1, <3>2, <3>3
  <2>5. \A e \in evaluations' : e \in evaluations \/ e = row BY <2>2, <2>3
  <2>6. \A e \in evaluations' : EvaluationSound(e)' BY <2>1, <2>4, <2>5 DEF CalibrationInv, EvaluationSound
  <2> QED BY <2>1, <2>6 DEF CalibrationInv, RunSound
<1>4. CASE UNCHANGED calibrationVars BY <1>4 DEF calibrationVars, CalibrationInv, RunSound, EvaluationSound
<1> QED BY <1>1, <1>2, <1>3, <1>4 DEF CalibrationStep

---------------------------------------------------------------------------
\* Validation of recommendations along the bars that follow.
BarRow == [close : Int, revision : Nat, available : Int, touch : Touches]

\* One revision of each bar, as a path has it.
PathSound(path) ==
    /\ IsFiniteSet(path) /\ path \subseteq BarRow
    /\ \A b, c \in path : b.close = c.close => b = c

\* The revisions of a bar are numbered from one on.
PricesSound ==
    /\ IsFiniteSet(prices) /\ prices \subseteq BarRow
    /\ \A b \in prices : b.available >= b.close /\ b.revision <= Cardinality({c \in prices : c.close = b.close})
    /\ \A b, c \in prices : b.close = c.close /\ b.revision = c.revision => b = c

ResultSound(r) ==
    /\ PathSound(r.path) /\ r.outcome = Result(r.of, r.path, r.asOf)
    /\ r.fill \subseteq {f \in fills : f.of = r.of}
    /\ \A b \in r.path : [of |-> r.of, bar |-> b] \in observations
    /\ r.outcome.reason # "none" => r.fill # {}

ValidationInv ==
    /\ PricesSound
    /\ IsFiniteSet(fills) /\ \A f \in fills : f.at \in Int
    /\ \A s \in snapshots : s.state = ValidationState(s.evaluation.state)
    /\ \A o \in observations : o.bar.close > o.of.evaluation.at /\ o.bar.available >= o.bar.close
    /\ \A r \in results : ResultSound(r)
    /\ \A d \in drifts : d.state = "SUSPENDED" <=> d \in suspensions
    /\ suspensions \subseteq drifts

LEMMA ValidationInitially == ValidationInit => ValidationInv
<1> SUFFICES ASSUME ValidationInit PROVE ValidationInv OBVIOUS
<1>1. prices = {} /\ fills = {} /\ IsFiniteSet({}) BY FS_EmptySet DEF ValidationInit
<1> QED BY <1>1 DEF ValidationInit, ValidationInv, PricesSound

LEMMA EarliestExists ==
    ASSUME NEW path, PathSound(path), NEW bars \in SUBSET path, bars # {}
    PROVE  Earliest(bars) \in bars /\ \A c \in bars : Earliest(bars).close <= c.close
<1>1. IsFiniteSet(bars) /\ \A b \in bars : b.close \in Int BY FS_Subset DEF PathSound, BarRow
<1>2. PICK R : R = {p \in bars \X bars : p[1].close > p[2].close} OBVIOUS
<1>3. \A x, y \in bars : <<x, y>> \in R <=> x.close > y.close BY <1>2
<1>4. \A x \in bars : <<x, x>> \notin R BY <1>1, <1>3
<1>5. \A x, y, z \in bars : <<x, y>> \in R /\ <<y, z>> \in R => <<x, z>> \in R BY <1>1, <1>3
<1>6. PICK m \in bars : \A n \in bars : <<m, n>> \notin R BY <1>1, <1>4, <1>5, ExtremeExists
<1>7. ASSUME NEW c \in bars PROVE m.close <= c.close
  <2>1. ~ (m.close > c.close) BY <1>3, <1>6
  <2>2. m.close \in Int /\ c.close \in Int BY <1>1
  <2> QED BY <2>1, <2>2
<1> QED BY <1>7 DEF Earliest

\* What a result with a target or a stop says of its path.
LEMMA TouchDecides ==
    ASSUME NEW s, NEW path, NEW asOf, PathSound(path), Result(s, path, asOf).reason \in {"TARGET", "STOP"},
           NEW entry, entry = Earliest(Entries(path)), NEW first, first = Earliest(Touched(path))
    PROVE  /\ s.state = "ELIGIBLE" /\ path # {}
           /\ entry \in Entries(path) /\ \A b \in Entries(path) : entry.close <= b.close
           /\ first \in Touched(path) /\ \A b \in Touched(path) : first.close <= b.close
           /\ ~ ({"target", "stop"} \subseteq first.touch)
           /\ Result(s, path, asOf) = Resolved(IF "target" \in first.touch THEN "TARGET" ELSE "STOP", first)
<1>1. \A state : Unresolved(state).reason = "none" BY DEF Unresolved
<1>2. s.state = "ELIGIBLE" /\ path # {} /\ Entries(path) # {} /\ Result(s, path, asOf) = Entered(path, asOf)
  BY <1>1 DEF Result, NotEntered
<1>3. Touched(path) # {}
  <2> SUFFICES ASSUME Touched(path) = {} PROVE FALSE OBVIOUS
  <2>1. Entered(path, asOf).reason \in {"TIMEOUT", "none"} BY <1>1 DEF Entered, Resolved
  <2> QED BY <2>1, <1>2
<1>4. ~ ({"target", "stop"} \subseteq first.touch)
  <2> SUFFICES ASSUME {"target", "stop"} \subseteq first.touch PROVE FALSE OBVIOUS
  <2>1. Entered(path, asOf).reason = "none" BY <1>3 DEF Entered
  <2> QED BY <2>1, <1>2
<1>5. Entered(path, asOf) = Resolved(IF "target" \in first.touch THEN "TARGET" ELSE "STOP", first) BY <1>3, <1>4 DEF Entered
<1>6. Entries(path) \in SUBSET path /\ Touched(path) \in SUBSET path BY DEF Entries, Touched
<1>7. entry \in Entries(path) /\ \A b \in Entries(path) : entry.close <= b.close BY <1>2, <1>6, EarliestExists
<1>8. first \in Touched(path) /\ \A b \in Touched(path) : first.close <= b.close BY <1>3, <1>6, EarliestExists
<1> QED BY <1>2, <1>4, <1>5, <1>7, <1>8

LEMMA ShowsTouchesFollowEntry == ValidationInv => TouchesFollowEntry
<1> SUFFICES ASSUME ValidationInv, NEW r \in results, r.outcome.reason \in {"TARGET", "STOP"}
             PROVE  \E entry, touch \in r.path :
                       /\ "entry" \in entry.touch /\ entry.close <= touch.close /\ touch.close = r.outcome.at
                       /\ \A b \in r.path : b.close >= entry.close /\ b.close < touch.close => b.touch \subseteq {"entry"}
                       /\ touch.touch \ {"entry"} = {IF r.outcome.reason = "TARGET" THEN "target" ELSE "stop"}
  BY DEF TouchesFollowEntry
<1>1. PathSound(r.path) /\ r.outcome = Result(r.of, r.path, r.asOf) BY DEF ValidationInv, ResultSound
<1>2. PICK entry : entry = Earliest(Entries(r.path)) OBVIOUS
<1>3. PICK first : first = Earliest(Touched(r.path)) OBVIOUS
<1>4. /\ entry \in Entries(r.path) /\ first \in Touched(r.path) /\ \A b \in Touched(r.path) : first.close <= b.close
      /\ ~ ({"target", "stop"} \subseteq first.touch)
      /\ r.outcome = Resolved(IF "target" \in first.touch THEN "TARGET" ELSE "STOP", first)
  BY <1>1, <1>2, <1>3, TouchDecides
<1>5. entry \in r.path /\ "entry" \in entry.touch /\ first \in r.path BY <1>4 DEF Entries, Touched
<1>6. entry.close <= first.close BY <1>2, <1>4, <1>5, <1>1 DEF Touched, PathSound, BarRow
<1>7. first.close = r.outcome.at BY <1>4 DEF Resolved
<1>8. \A b \in r.path : b.close \in Int /\ b.touch \subseteq {"entry", "target", "stop"} BY <1>1 DEF PathSound, BarRow, Touches
<1>9. ASSUME NEW b \in r.path, b.close >= entry.close, b.close < first.close PROVE b.touch \subseteq {"entry"}
  <2>1. ~ (first.close <= b.close) BY <1>5, <1>8, <1>9
  <2>2. b \notin Touched(r.path) BY <2>1, <1>4
  <2>3. b.touch \intersect {"target", "stop"} = {} BY <2>2, <1>2, <1>9 DEF Touched
  <2> QED BY <2>3, <1>8
<1>10. first.touch \ {"entry"} = {IF r.outcome.reason = "TARGET" THEN "target" ELSE "stop"}
  <2>1. first.touch \intersect {"target", "stop"} # {} BY <1>4 DEF Touched
  <2>2. r.outcome.reason = IF "target" \in first.touch THEN "TARGET" ELSE "STOP" BY <1>4 DEF Resolved
  <2>3. CASE "target" \in first.touch
    <3>1. "stop" \notin first.touch BY <2>3, <1>4
    <3>2. first.touch \ {"entry"} = {"target"} BY <3>1, <2>3, <1>5, <1>8
    <3> QED BY <3>2, <2>2, <2>3
  <2>4. CASE "target" \notin first.touch
    <3>1. first.touch \ {"entry"} = {"stop"} BY <2>1, <2>4, <1>5, <1>8
    <3>2. r.outcome.reason = "STOP" BY <2>2, <2>4
    <3> QED BY <3>1, <3>2
  <2> QED BY <2>3, <2>4
<1> QED BY <1>5, <1>6, <1>7, <1>9, <1>10

LEMMA ShowsTouchesAreFinal == ValidationInv => TouchesAreFinal
<1> SUFFICES ASSUME ValidationInv, NEW r \in results, NEW later \in results,
                    r.of = later.of, r.outcome.reason \in {"TARGET", "STOP"},
                    {b \in later.path : b.close <= r.outcome.at} = {b \in r.path : b.close <= r.outcome.at}
             PROVE  later.outcome = r.outcome
  BY DEF TouchesAreFinal
<1>1. PICK p : p = r.path OBVIOUS
<1>2. PICK q : q = later.path OBVIOUS
<1>3. PathSound(p) /\ PathSound(q) BY <1>1, <1>2 DEF ValidationInv, ResultSound
<1>4. r.outcome = Result(r.of, p, r.asOf) /\ later.outcome = Result(r.of, q, later.asOf)
  BY <1>1, <1>2 DEF ValidationInv, ResultSound
<1>5. PICK entry : entry = Earliest(Entries(p)) OBVIOUS
<1>6. PICK first : first = Earliest(Touched(p)) OBVIOUS
<1>7. /\ r.of.state = "ELIGIBLE"
      /\ entry \in Entries(p) /\ \A b \in Entries(p) : entry.close <= b.close
      /\ first \in Touched(p) /\ \A b \in Touched(p) : first.close <= b.close
      /\ ~ ({"target", "stop"} \subseteq first.touch)
      /\ r.outcome = Resolved(IF "target" \in first.touch THEN "TARGET" ELSE "STOP", first)
  BY <1>3, <1>4, <1>5, <1>6, TouchDecides
<1>8. first.close = r.outcome.at BY <1>7 DEF Resolved
<1>9. \A b \in p : b.close <= first.close => b \in q BY <1>1, <1>2, <1>8
<1>10. \A b \in q : b.close <= first.close => b \in p BY <1>1, <1>2, <1>8
<1>11. (\A b \in p : b.close \in Int) /\ \A b \in q : b.close \in Int BY <1>3 DEF PathSound, BarRow
<1>12. entry \in p /\ first \in p /\ entry.close <= first.close BY <1>5, <1>7 DEF Entries, Touched
<1>13. entry \in Entries(q) /\ first \in q BY <1>7, <1>9, <1>11, <1>12 DEF Entries
<1>14. PICK entryq : entryq = Earliest(Entries(q)) OBVIOUS
<1>15. entryq \in Entries(q) /\ \A b \in Entries(q) : entryq.close <= b.close
  <2>1. Entries(q) \in SUBSET q /\ Entries(q) # {} BY <1>13 DEF Entries
  <2> QED BY <2>1, <1>3, <1>14, EarliestExists
<1>16. entryq.close = entry.close
  <2>1. entryq \in q /\ entryq.close <= entry.close BY <1>13, <1>15 DEF Entries
  <2>2. entryq.close <= first.close BY <2>1, <1>11, <1>12
  <2>3. entryq \in Entries(p) BY <2>1, <2>2, <1>10, <1>15 DEF Entries
  <2>4. entry.close <= entryq.close BY <2>3, <1>7
  <2> QED BY <2>1, <2>4, <1>11, <1>12
<1>17. first \in Touched(q)
  <2>1. first.close >= entry.close BY <1>11, <1>12
  <2> QED BY <2>1, <1>7, <1>13, <1>14, <1>16 DEF Touched
<1>18. PICK firstq : firstq = Earliest(Touched(q)) OBVIOUS
<1>19. firstq \in Touched(q) /\ \A b \in Touched(q) : firstq.close <= b.close
  <2>1. Touched(q) \in SUBSET q /\ Touched(q) # {} BY <1>17 DEF Touched
  <2> QED BY <2>1, <1>3, <1>18, EarliestExists
<1>20. firstq = first
  <2>1. firstq \in q /\ firstq.close <= first.close BY <1>17, <1>19 DEF Touched
  <2>2. firstq \in p BY <2>1, <1>10
  <2>3. firstq.close >= entry.close /\ firstq.touch \intersect {"target", "stop"} # {} BY <1>14, <1>16, <1>19 DEF Touched
  <2>4. firstq \in Touched(p) BY <2>2, <2>3, <1>5 DEF Touched
  <2>5. first.close <= firstq.close BY <2>4, <1>7
  <2>6. first.close = firstq.close BY <2>1, <2>2, <2>5, <1>11, <1>12
  <2> QED BY <2>2, <2>6, <1>3, <1>12 DEF PathSound
<1>21. Entered(q, later.asOf) = Resolved(IF "target" \in first.touch THEN "TARGET" ELSE "STOP", first)
  BY <1>7, <1>17, <1>18, <1>20 DEF Entered
<1>22. q # {} /\ Entries(q) # {} BY <1>13
<1>23. Result(r.of, q, later.asOf) = Entered(q, later.asOf) BY <1>7, <1>22 DEF Result
<1> QED BY <1>4, <1>7, <1>21, <1>23

LEMMA ValidationShows == ValidationInv => LiveValidationLineage /\ TouchesAreFinal /\ TouchesFollowEntry
<1> SUFFICES ASSUME ValidationInv PROVE LiveValidationLineage /\ TouchesAreFinal /\ TouchesFollowEntry OBVIOUS
<1>1. \A s \in snapshots : s.state = "ELIGIBLE" <=> s.evaluation.state = "ELIGIBLE"
  BY DEF ValidationInv, ValidationState, Rejecting
<1>2. LiveValidationLineage BY <1>1 DEF ValidationInv, ResultSound, LiveValidationLineage
<1> QED BY <1>2, ShowsTouchesAreFinal, ShowsTouchesFollowEntry

LEMMA PathsAreSound == ASSUME PricesSound, NEW s, NEW asOf PROVE PathSound(PathOf(s, asOf))
<1>1. PICK path : path = PathOf(s, asOf) OBVIOUS
<1>2. path \subseteq prices BY <1>1 DEF PathOf
<1>3. IsFiniteSet(path) BY <1>2, FS_Subset DEF PricesSound
<1>4. ASSUME NEW b \in path, NEW c \in path, b.close = c.close PROVE b = c
  <2>1. ~ (b.revision > c.revision) /\ ~ (c.revision > b.revision) BY <1>1, <1>4 DEF PathOf
  <2>2. b.revision \in Nat /\ c.revision \in Nat BY <1>2 DEF PricesSound, BarRow
  <2>3. b.revision = c.revision BY <2>1, <2>2
  <2> QED BY <2>3, <1>2, <1>4 DEF PricesSound
<1> QED BY <1>1, <1>2, <1>3, <1>4 DEF PathSound, PricesSound

LEMMA BarKeeps ==
    ASSUME ValidationInv, NEW close \in BarAt, NEW available \in 0..LastImport, NEW touch \in Touches,
           ImportBar(close, available, touch)
    PROVE  ValidationInv'
<1>1. PICK known : known = {b \in prices : b.close = close} OBVIOUS
<1>2. IsFiniteSet(known) BY <1>1, FS_Subset DEF ValidationInv, PricesSound
<1>3. PICK n : n = Cardinality(known) OBVIOUS
<1>4. n \in Nat BY <1>2, <1>3, FS_CardinalityType
<1>5. PICK bar : bar = [close |-> close, revision |-> n + 1, available |-> available, touch |-> touch] OBVIOUS
<1>6. prices' = prices \union {bar} /\ available >= close BY <1>1, <1>3, <1>5 DEF ImportBar
<1>7. bar \in BarRow /\ bar.close = close /\ bar.revision = n + 1 /\ bar.available = available
  <2>1. close \in Int /\ available \in Int /\ n + 1 \in Nat BY <1>4, InstantsAreIntegers
  <2> QED BY <2>1, <1>5 DEF BarRow
<1>8. \A b \in known : b.revision \in Nat /\ b.revision <= n BY <1>1, <1>3 DEF ValidationInv, PricesSound, BarRow
<1>9. bar \notin known BY <1>4, <1>7, <1>8
<1>10. bar \notin prices BY <1>1, <1>7, <1>9
<1>11. IsFiniteSet(prices') BY <1>6, FS_AddElement DEF ValidationInv, PricesSound
<1>12. ASSUME NEW b \in prices' PROVE b.available >= b.close /\ b.revision <= Cardinality({c \in prices' : c.close = b.close})
  <2>1. CASE b.close = close
    <3>1. {c \in prices' : c.close = b.close} = known \union {bar} BY <2>1, <1>1, <1>6, <1>7
    <3>2. Cardinality(known \union {bar}) = n + 1 BY <1>2, <1>3, <1>9, FS_AddElement
    <3>3. b = bar \/ b \in known BY <2>1, <1>1, <1>6
    <3>4. b.revision <= n + 1 BY <3>3, <1>4, <1>7, <1>8
    <3>5. b.available >= b.close BY <3>3, <1>1, <1>6, <1>7 DEF ValidationInv, PricesSound
    <3> QED BY <3>1, <3>2, <3>4, <3>5
  <2>2. CASE b.close # close
    <3>1. {c \in prices' : c.close = b.close} = {c \in prices : c.close = b.close} BY <2>2, <1>6, <1>7
    <3>2. b \in prices BY <2>2, <1>6, <1>7
    <3> QED BY <3>1, <3>2 DEF ValidationInv, PricesSound
  <2> QED BY <2>1, <2>2
<1>13. ASSUME NEW b \in prices', NEW c \in prices', b.close = c.close, b.revision = c.revision PROVE b = c
  <2>1. CASE b \in prices /\ c \in prices BY <2>1, <1>13 DEF ValidationInv, PricesSound
  <2>2. \A d \in prices : d.close = close => d.revision # n + 1 BY <1>1, <1>4, <1>8
  <2> QED BY <2>1, <2>2, <1>6, <1>7, <1>13
<1>14. PricesSound' BY <1>6, <1>7, <1>11, <1>12, <1>13 DEF ValidationInv, PricesSound
<1>15. UNCHANGED <<snapshots, observations, fills, results, drifts, suspensions>> BY DEF ImportBar
<1> QED BY <1>14, <1>15 DEF ValidationInv, ResultSound

LEMMA MaterializeKeeps ==
    ASSUME ValidationInv, NEW s \in snapshots, NEW asOf, MaterializeValidation(s, asOf)
    PROVE  ValidationInv'
<1>1. PICK path : path = PathOf(s, asOf) OBVIOUS
<1>2. PathSound(path) /\ path \subseteq prices /\ \A b \in path : b.close > s.evaluation.at
  BY <1>1, PathsAreSound DEF ValidationInv, PathOf
<1>3. PICK fill : fill = FillOf(s, path, asOf) OBVIOUS
<1>4. PICK outcome : outcome = Result(s, path, asOf) OBVIOUS
<1>5. PICK row : row = [of |-> s, asOf |-> asOf, path |-> path, fill |-> fill, outcome |-> outcome] OBVIOUS
<1>6. row.of = s /\ row.asOf = asOf /\ row.path = path /\ row.fill = fill /\ row.outcome = outcome BY <1>5
<1>7. /\ observations' = observations \union {[of |-> s, bar |-> b] : b \in path}
      /\ fills' = fills \union fill
      /\ \A r \in results' : r \in results \/ r = row
      /\ UNCHANGED <<snapshots, prices, drifts, suspensions>>
  BY <1>1, <1>3, <1>4, <1>5 DEF MaterializeValidation
<1>8. Entries(path) # {} => Earliest(Entries(path)) \in Entries(path) /\ Earliest(Entries(path)).close \in Int
  <2> SUFFICES ASSUME Entries(path) # {}
               PROVE  Earliest(Entries(path)) \in Entries(path) /\ Earliest(Entries(path)).close \in Int
    OBVIOUS
  <2>1. Entries(path) \in SUBSET path BY DEF Entries
  <2>2. Earliest(Entries(path)) \in Entries(path) BY <1>2, <2>1, EarliestExists
  <2>3. \A b \in path : b.close \in Int BY <1>2 DEF PathSound, BarRow
  <2> QED BY <2>1, <2>2, <2>3
<1>9. PICK recorded : recorded = {f \in fills : f.of = s /\ f.type = "USER_RECORDED" /\ f.at <= asOf} OBVIOUS
<1>10. recorded # {} => \E f \in recorded : \A g \in recorded : f.at <= g.at
  <2> SUFFICES ASSUME recorded # {} PROVE \E f \in recorded : \A g \in recorded : f.at <= g.at OBVIOUS
  <2>1. IsFiniteSet(recorded) BY <1>9, FS_Subset DEF ValidationInv
  <2>2. \A f \in recorded : f.at \in Int BY <1>9 DEF ValidationInv
  <2>3. PICK R : R = {p \in recorded \X recorded : p[1].at > p[2].at} OBVIOUS
  <2>4. \A x, y \in recorded : <<x, y>> \in R <=> x.at > y.at BY <2>3
  <2>5. (\A x \in recorded : <<x, x>> \notin R) /\ (\A x, y, z \in recorded : <<x, y>> \in R /\ <<y, z>> \in R => <<x, z>> \in R)
    BY <2>2, <2>4
  <2>6. PICK f \in recorded : \A g \in recorded : <<f, g>> \notin R BY <2>1, <2>5, ExtremeExists
  <2>7. ASSUME NEW g \in recorded PROVE f.at <= g.at
    <3>1. ~ (f.at > g.at) /\ f.at \in Int /\ g.at \in Int BY <2>2, <2>4, <2>6
    <3> QED BY <3>1
  <2> QED BY <2>7
<1>11. PICK chosen : chosen = CHOOSE f \in recorded : \A g \in recorded : f.at <= g.at OBVIOUS
<1>12. recorded # {} => chosen \in recorded BY <1>10, <1>11
<1>13. PICK simulated : simulated = [of |-> s, type |-> "SIMULATED", at |-> Earliest(Entries(path)).close] OBVIOUS
<1>14. fill = IF s.state # "ELIGIBLE" \/ Entries(path) = {} THEN {} ELSE IF recorded # {} THEN {chosen} ELSE {simulated}
  BY <1>3, <1>9, <1>11, <1>13 DEF FillOf
<1>15. \A f \in fill : f.of = s /\ f.at \in Int
  <2>1. recorded # {} => chosen.of = s /\ chosen.at \in Int BY <1>9, <1>12 DEF ValidationInv
  <2>2. Entries(path) # {} => simulated.of = s /\ simulated.at \in Int BY <1>8, <1>13
  <2> QED BY <1>14, <2>1, <2>2
<1>16. IsFiniteSet(fill) BY <1>14, FS_EmptySet, FS_Singleton
<1>17. IsFiniteSet(fills') /\ \A f \in fills' : f.at \in Int BY <1>7, <1>15, <1>16, FS_Union DEF ValidationInv
<1>18. outcome.reason # "none" => fill # {}
  <2> SUFFICES ASSUME outcome.reason # "none" PROVE fill # {} OBVIOUS
  <2>1. \A state : Unresolved(state).reason = "none" BY DEF Unresolved
  <2>2. s.state = "ELIGIBLE" /\ Entries(path) # {} BY <2>1, <1>4 DEF Result, NotEntered
  <2> QED BY <2>2, <1>14
<1>19. ASSUME NEW r \in results' PROVE ResultSound(r)'
  <2>1. CASE r \in results
    <3>1. ResultSound(r) BY <2>1 DEF ValidationInv
    <3>2. r.fill \subseteq {f \in fills' : f.of = r.of} BY <3>1, <1>7 DEF ResultSound
    <3>3. \A b \in r.path : [of |-> r.of, bar |-> b] \in observations' BY <3>1, <1>7 DEF ResultSound
    <3> QED BY <3>1, <3>2, <3>3 DEF ResultSound
  <2>2. CASE r = row
    <3>1. row.fill \subseteq {f \in fills' : f.of = row.of} BY <1>6, <1>7, <1>15
    <3>2. \A b \in row.path : [of |-> row.of, bar |-> b] \in observations' BY <1>6, <1>7
    <3>3. PathSound(row.path) /\ row.outcome = Result(row.of, row.path, row.asOf) BY <1>2, <1>4, <1>6
    <3> QED BY <2>2, <3>1, <3>2, <3>3, <1>6, <1>18 DEF ResultSound
  <2> QED BY <2>1, <2>2, <1>7
<1>20. ASSUME NEW o \in observations' PROVE o.bar.close > o.of.evaluation.at /\ o.bar.available >= o.bar.close
  <2>1. CASE o \in observations BY <2>1 DEF ValidationInv
  <2>2. CASE o \notin observations
    <3>1. PICK b \in path : o = [of |-> s, bar |-> b] BY <2>2, <1>7
    <3>2. o.bar = b /\ o.of = s BY <3>1
    <3> QED BY <3>2, <1>2 DEF ValidationInv, PricesSound
  <2> QED BY <2>1, <2>2
<1>21. PricesSound' /\ (\A x \in snapshots' : x.state = ValidationState(x.evaluation.state))
       /\ (\A d \in drifts' : d.state = "SUSPENDED" <=> d \in suspensions') /\ suspensions' \subseteq drifts'
  BY <1>7 DEF ValidationInv, PricesSound
<1> QED BY <1>17, <1>19, <1>20, <1>21 DEF ValidationInv

LEMMA SnapshotKeeps == ASSUME ValidationInv, NEW e, Snapshot(e) PROVE ValidationInv'
<1>1. UNCHANGED <<prices, observations, fills, results, drifts, suspensions>> BY DEF Snapshot
<1>2. PICK row : row = [evaluation |-> e, state |-> ValidationState(e.state)] OBVIOUS
<1>3. snapshots' = snapshots \union {row} /\ row.state = ValidationState(row.evaluation.state) BY <1>2 DEF Snapshot
<1>4. \A s \in snapshots' : s.state = ValidationState(s.evaluation.state) BY <1>3 DEF ValidationInv
<1> QED BY <1>1, <1>4 DEF ValidationInv, PricesSound, ResultSound

LEMMA UserFillKeeps == ASSUME ValidationInv, NEW s, NEW at \in EvaluatedAt, RecordUserFill(s, at) PROVE ValidationInv'
<1>1. UNCHANGED <<snapshots, prices, observations, results, drifts, suspensions>> BY DEF RecordUserFill
<1>2. PICK row : row = [of |-> s, type |-> "USER_RECORDED", at |-> at] OBVIOUS
<1>3. fills' = fills \union {row} /\ row.at \in Int BY <1>2, InstantsAreIntegers DEF RecordUserFill
<1>4. IsFiniteSet(fills') /\ \A f \in fills' : f.at \in Int BY <1>3, FS_AddElement DEF ValidationInv
<1>5. \A r \in results : ResultSound(r)' BY <1>1, <1>3 DEF ValidationInv, ResultSound
<1> QED BY <1>1, <1>4, <1>5 DEF ValidationInv, PricesSound

LEMMA DriftKeeps == ASSUME ValidationInv, NEW known, NEW sessions, EvaluateDrift(known, sessions) PROVE ValidationInv'
<1>1. UNCHANGED <<snapshots, prices, observations, fills, results>> BY DEF EvaluateDrift
<1>2. PICK row : row = [known |-> known, sessions |-> sessions, state |-> DriftState(known, sessions)] OBVIOUS
<1>3. drifts' = drifts \union {row} /\ suspensions' = suspensions \union (IF row.state = "SUSPENDED" THEN {row} ELSE {})
  BY <1>2 DEF EvaluateDrift
<1>4. \A d \in suspensions : d.state = "SUSPENDED" BY DEF ValidationInv
<1>5. (\A d \in drifts' : d.state = "SUSPENDED" <=> d \in suspensions') /\ suspensions' \subseteq drifts'
  BY <1>3, <1>4 DEF ValidationInv
<1> QED BY <1>1, <1>5 DEF ValidationInv, PricesSound, ResultSound

LEMMA ValidationKeeps == ValidationInv /\ (ValidationStep \/ DriftStep \/ UNCHANGED validationVars) => ValidationInv'
<1> SUFFICES ASSUME ValidationInv, ValidationStep \/ DriftStep \/ UNCHANGED validationVars PROVE ValidationInv' OBVIOUS
<1>1. CASE ValidationStep
  <2>1. CASE \E e \in evaluations : Snapshot(e) BY <2>1, SnapshotKeeps
  <2>2. CASE \E close \in BarAt, available \in 0..LastImport, touch \in Touches : ImportBar(close, available, touch)
    BY <2>2, BarKeeps
  <2>3. CASE \E s \in snapshots : \/ \E asOf \in AsOfTimes : MaterializeValidation(s, asOf)
                                 \/ \E at \in EvaluatedAt : RecordUserFill(s, at)
    BY <2>3, MaterializeKeeps, UserFillKeeps
  <2> QED BY <1>1, <2>1, <2>2, <2>3 DEF ValidationStep
<1>2. CASE DriftStep BY <1>2, DriftKeeps DEF DriftStep
<1>3. CASE UNCHANGED validationVars BY <1>3 DEF validationVars, ValidationInv, PricesSound, ResultSound
<1> QED BY <1>1, <1>2, <1>3

---------------------------------------------------------------------------
\* Governance: decisions, and the assignments and rollbacks that come of them.
\* Approvals are those of Approve, and what a decider holds is a part of them.
VerdictsKnown ==
    /\ \A a \in approvals : a.role \in Role /\ a.verdict \in {"APPROVE", "REJECT"}
    /\ \A x \in Decider : \A read \in deciding[x] :
          read.of \subseteq {a \in approvals : a.proposal = read.proposal}

\* A decision says what Verdict said of what its decider had read.
Justified(d) ==
    /\ d.state \in {"APPROVED", "REJECTED"}
    /\ d.of \subseteq {a \in approvals : a.proposal = d.proposal}
    /\ d.state = "APPROVED" =>
          /\ d.proposal.report.eligible /\ d.proposal.sessions >= Minimum /\ d.ready
          /\ \A role \in Role : \E a \in d.of : a.role = role
          /\ \A a \in d.of : a.verdict # "REJECT"
DecisionsJustified == \A d \in decisions : Justified(d)

OneDecision == \A d, other \in decisions : d.proposal = other.proposal => d = other

\* Assignments and rollbacks are those of the approved decisions.
PromotionsEffective ==
    \A d \in decisions : d.state = "APPROVED" =>
        Promotion(d.proposal) \subseteq assignments /\ Identity(d.proposal, "APPROVED") \in rollbacks
Traced ==
    /\ \A a \in assignments : a.source # NoSource =>
          \E d \in decisions : d.state = "APPROVED" /\ a \in Promotion(d.proposal)
    /\ \A undo \in rollbacks : \E d \in decisions : d.state = "APPROVED" /\ undo = Identity(d.proposal, "APPROVED")

Deciders == deciding \in [Decider -> SUBSET UNION {deciding[d] : d \in Decider}]

GovernanceInv == Deciders /\ VerdictsKnown /\ DecisionsJustified /\ OneDecision /\ PromotionsEffective /\ Traced

LEMMA IdentityTells == ASSUME NEW p, NEW q, Identity(p, "APPROVED") = Identity(q, "APPROVED") PROVE p = q
<1>1. <<p, "APPROVED">> = <<q, "APPROVED">> BY DEF Identity
<1>2. <<p, "APPROVED">>[1] = <<q, "APPROVED">>[1] BY <1>1
<1> QED BY <1>2

LEMMA GovernanceInitially == GovernanceInit => GovernanceInv
BY DEF GovernanceInit, GovernanceInv, Deciders, VerdictsKnown, DecisionsJustified, OneDecision, PromotionsEffective, Traced

\* What leaves decisions and what follows from them alone keeps the rest, as approvals
\* are never taken back.
LEMMA ApprovalsGrow ==
    ASSUME DecisionsJustified, OneDecision, PromotionsEffective, Traced,
           approvals \subseteq approvals', UNCHANGED <<decisions, assignments, rollbacks>>
    PROVE  DecisionsJustified' /\ OneDecision' /\ PromotionsEffective' /\ Traced'
<1>1. ASSUME NEW d \in decisions PROVE Justified(d)'
  BY <1>1 DEF DecisionsJustified, Justified
<1> QED BY <1>1 DEF DecisionsJustified, OneDecision, PromotionsEffective, Traced, Promotion, Identity

LEMMA RegistrationKeeps == ASSUME GovernanceInv, NEW e \in Experiment, Register(e) PROVE GovernanceInv'
<1>1. UNCHANGED <<reports, proposals, approvals, decisions, rollbacks, deciding>> BY DEF Register
<1>2. Deciders' /\ VerdictsKnown' BY <1>1 DEF GovernanceInv, Deciders, VerdictsKnown
<1>3. DecisionsJustified' /\ OneDecision'
  BY <1>1 DEF GovernanceInv, DecisionsJustified, Justified, OneDecision
<1>4. assignments \subseteq assignments' BY DEF Register
<1>5. PromotionsEffective' BY <1>1, <1>4 DEF GovernanceInv, PromotionsEffective
<1>6. \A a \in assignments' \ assignments : a.source = NoSource BY DEF Register, Assignment
<1>7. Traced' BY <1>1, <1>6 DEF GovernanceInv, Traced
<1> QED BY <1>2, <1>3, <1>5, <1>7 DEF GovernanceInv

LEMMA GovernanceRests ==
    ASSUME GovernanceInv, UNCHANGED <<approvals, decisions, assignments, rollbacks, deciding>>
    PROVE  GovernanceInv'
<1>1. Deciders' /\ VerdictsKnown' BY DEF GovernanceInv, Deciders, VerdictsKnown
<1>2. DecisionsJustified' /\ OneDecision' /\ PromotionsEffective' /\ Traced' BY ApprovalsGrow DEF GovernanceInv
<1> QED BY <1>1, <1>2 DEF GovernanceInv

LEMMA ApprovalKeeps ==
    ASSUME GovernanceInv, NEW p, NEW role \in Role, NEW approver, NEW verdict \in {"APPROVE", "REJECT"},
           Approve(p, role, approver, verdict)
    PROVE  GovernanceInv'
<1>1. UNCHANGED <<decisions, assignments, rollbacks, deciding>> /\ approvals \subseteq approvals'
  BY DEF Approve
<1>2. \A a \in approvals' \ approvals : a.role \in Role /\ a.verdict \in {"APPROVE", "REJECT"}
  BY DEF Approve
<1>3. Deciders' /\ VerdictsKnown' BY <1>1, <1>2 DEF GovernanceInv, Deciders, VerdictsKnown
<1>4. DecisionsJustified' /\ OneDecision' /\ PromotionsEffective' /\ Traced' BY <1>1, ApprovalsGrow DEF GovernanceInv
<1> QED BY <1>3, <1>4 DEF GovernanceInv

\* A decider that reads, decides or dies changes what it alone holds.
LEMMA ReadingKeeps == ASSUME GovernanceInv, NEW x \in Decider, NEW p, ReadApprovals(x, p) PROVE GovernanceInv'
<1>1. PICK ready \in BOOLEAN :
        deciding' = [deciding EXCEPT ![x] = {[proposal |-> p, of |-> {a \in approvals : a.proposal = p}, ready |-> ready]}]
  BY DEF ReadApprovals
<1>2. UNCHANGED <<approvals, decisions, assignments, rollbacks>> BY DEF ReadApprovals
<1>3. Deciders' BY <1>1 DEF GovernanceInv, Deciders
<1>4. VerdictsKnown' BY <1>1, <1>2 DEF GovernanceInv, Deciders, VerdictsKnown
<1>5. DecisionsJustified' /\ OneDecision' /\ PromotionsEffective' /\ Traced' BY <1>2, ApprovalsGrow DEF GovernanceInv
<1> QED BY <1>3, <1>4, <1>5 DEF GovernanceInv

LEMMA ForgettingKeeps ==
    ASSUME GovernanceInv, NEW x \in Decider, deciding' = [deciding EXCEPT ![x] = {}], UNCHANGED approvals
    PROVE  Deciders' /\ VerdictsKnown'
<1>1. Deciders' BY DEF GovernanceInv, Deciders
<1>2. VerdictsKnown' BY DEF GovernanceInv, Deciders, VerdictsKnown
<1> QED BY <1>1, <1>2

LEMMA AbandonKeeps == ASSUME GovernanceInv, NEW x \in Decider, AbandonDecision(x) PROVE GovernanceInv'
<1>1. Deciders' /\ VerdictsKnown' BY ForgettingKeeps DEF AbandonDecision
<1>2. DecisionsJustified' /\ OneDecision' /\ PromotionsEffective' /\ Traced'
  BY ApprovalsGrow DEF GovernanceInv, AbandonDecision
<1> QED BY <1>1, <1>2 DEF GovernanceInv

LEMMA DecisionKeeps == ASSUME GovernanceInv, NEW x \in Decider, PersistDecision(x) PROVE GovernanceInv'
<1> DEFINE New(read) == [proposal |-> read.proposal, state |-> Verdict(read), of |-> read.of, ready |-> read.ready]
           Written(read) == IF Decided(read.proposal) = {} THEN {New(read)} ELSE {}
           Refused(read) == Verdict(read) = "APPROVED" /\ \E other \in Decided(read.proposal) : other.state # Verdict(read)
<1>1. PICK read \in deciding[x] :
        /\ decisions' = decisions \union Written(read)
        /\ IF Verdict(read) = "APPROVED" /\ ~ Refused(read)
           THEN /\ assignments' = assignments \union Promotion(read.proposal)
                /\ rollbacks' = rollbacks \union {Identity(read.proposal, Verdict(read))}
           ELSE UNCHANGED <<assignments, rollbacks>>
        /\ deciding' = [deciding EXCEPT ![x] = {}]
        /\ UNCHANGED <<reports, proposals, approvals>>
  BY DEF PersistDecision
<1>2. Deciders' /\ VerdictsKnown' BY <1>1, ForgettingKeeps
<1>3. Justified(New(read))
  BY DEF GovernanceInv, VerdictsKnown, Justified, Verdict
<1>4. DecisionsJustified'
  <2>1. \A d \in decisions' : Justified(d) BY <1>1, <1>3 DEF GovernanceInv, DecisionsJustified
  <2> QED BY <2>1, <1>1 DEF DecisionsJustified, Justified
<1>5. OneDecision'
  <2>1. Decided(read.proposal) = {} => \A d \in decisions : d.proposal # read.proposal BY DEF Decided
  <2> QED BY <2>1, <1>1 DEF GovernanceInv, OneDecision
<1>6. CASE Verdict(read) = "APPROVED" /\ ~ Refused(read)
  <2>1. /\ assignments' = assignments \union Promotion(read.proposal)
        /\ rollbacks' = rollbacks \union {Identity(read.proposal, "APPROVED")}
    BY <1>1, <1>6
  <2>2. \E d \in decisions' : d.state = "APPROVED" /\ d.proposal = read.proposal
    <3>1. CASE Decided(read.proposal) = {}
      <4>1. New(read) \in decisions' BY <3>1, <1>1
      <4>2. New(read).state = "APPROVED" /\ New(read).proposal = read.proposal BY <1>6
      <4> QED BY <4>1, <4>2
    <3>2. CASE Decided(read.proposal) # {} BY <3>2, <1>1, <1>6 DEF Decided
    <3> QED BY <3>1, <3>2
  <2>3. \A d \in decisions' \ decisions : d.proposal = read.proposal BY <1>1
  <2>4. PromotionsEffective' BY <2>1, <2>3 DEF GovernanceInv, PromotionsEffective
  <2>5. \A d \in decisions : d \in decisions' BY <1>1
  <2>6. Traced'
    <3>1. ASSUME NEW a \in assignments', a.source # NoSource
          PROVE \E d \in decisions' : d.state = "APPROVED" /\ a \in Promotion(d.proposal)
      <4>1. CASE a \in assignments BY <3>1, <4>1, <2>5 DEF GovernanceInv, Traced
      <4>2. CASE a \in Promotion(read.proposal) BY <4>2, <2>2
      <4> QED BY <4>1, <4>2, <2>1
    <3>2. ASSUME NEW undo \in rollbacks'
          PROVE \E d \in decisions' : d.state = "APPROVED" /\ undo = Identity(d.proposal, "APPROVED")
      <4>1. CASE undo \in rollbacks BY <4>1, <2>5 DEF GovernanceInv, Traced
      <4>2. CASE undo = Identity(read.proposal, "APPROVED") BY <4>2, <2>2
      <4> QED BY <4>1, <4>2, <2>1
    <3> QED BY <3>1, <3>2 DEF Traced, Promotion, Identity
  <2> QED BY <1>2, <1>4, <1>5, <2>4, <2>6 DEF GovernanceInv
<1>7. CASE ~ (Verdict(read) = "APPROVED" /\ ~ Refused(read))
  <2>1. UNCHANGED <<assignments, rollbacks>> BY <1>1, <1>7
  <2>2. \A d \in decisions' \ decisions : d.state # "APPROVED"
    <3>1. CASE Decided(read.proposal) = {} BY <3>1, <1>1, <1>7
    <3>2. CASE Decided(read.proposal) # {} BY <3>2, <1>1
    <3> QED BY <3>1, <3>2
  <2>3. PromotionsEffective' BY <2>1, <2>2 DEF GovernanceInv, PromotionsEffective
  <2>4. Traced' BY <2>1, <1>1 DEF GovernanceInv, Traced
  <2> QED BY <1>2, <1>4, <1>5, <2>3, <2>4 DEF GovernanceInv
<1> QED BY <1>6, <1>7

LEMMA GovernanceSuffices == GovernanceInv => PromotionsAreApproved
<1> SUFFICES ASSUME GovernanceInv PROVE PromotionsAreApproved OBVIOUS
<1>1. ResearchGovernanceLineage
  <2> SUFFICES ASSUME NEW d \in decisions, d.state = "APPROVED"
      PROVE /\ d.proposal.report.eligible /\ d.proposal.sessions >= Minimum /\ d.ready
            /\ {a.role : a \in {y \in approvals : y.proposal = d.proposal /\ y.verdict = "APPROVE"}} = Role
    BY DEF ResearchGovernanceLineage
  <2>1. Justified(d) BY DEF GovernanceInv, DecisionsJustified
  <2>2. \A role \in Role : \E a \in approvals : a.proposal = d.proposal /\ a.verdict = "APPROVE" /\ a.role = role
    BY <2>1 DEF Justified, GovernanceInv, VerdictsKnown
  <2> QED BY <2>1, <2>2 DEF Justified, GovernanceInv, VerdictsKnown
<1>2. ASSUME NEW d \in decisions, d.state = "APPROVED"
      PROVE /\ \A a \in d.of : a.verdict = "APPROVE"
            /\ Promotion(d.proposal) \subseteq assignments /\ Identity(d.proposal, "APPROVED") \in rollbacks
  BY <1>2 DEF GovernanceInv, DecisionsJustified, Justified, VerdictsKnown, PromotionsEffective
<1>3. ASSUME NEW d \in decisions, d.state # "APPROVED"
      PROVE Promotion(d.proposal) \intersect assignments = {} /\ Identity(d.proposal, "APPROVED") \notin rollbacks
  <2>1. \A p : \A a \in Promotion(p) : a.source = Identity(p, "APPROVED") BY DEF Promotion, Assignment
  <2>2. ASSUME NEW a \in assignments, a \in Promotion(d.proposal) PROVE FALSE
    <3>1. a.source = Identity(d.proposal, "APPROVED") BY <2>1, <2>2
    <3>2. PICK other \in decisions : other.state = "APPROVED" /\ a \in Promotion(other.proposal)
      <4>1. a.source # NoSource BY <3>1 DEF NoSource, Identity
      <4> QED BY <4>1, <2>2 DEF GovernanceInv, Traced
    <3>3. a.source = Identity(other.proposal, "APPROVED") BY <2>1, <3>2
    <3>4. other.proposal = d.proposal BY <3>1, <3>3, IdentityTells
    <3> QED BY <3>2, <3>4, <1>3 DEF GovernanceInv, OneDecision
  <2>3. ASSUME Identity(d.proposal, "APPROVED") \in rollbacks PROVE FALSE
    <3>1. PICK other \in decisions : other.state = "APPROVED" /\ Identity(d.proposal, "APPROVED") = Identity(other.proposal, "APPROVED")
      BY <2>3 DEF GovernanceInv, Traced
    <3>2. other.proposal = d.proposal BY <3>1, IdentityTells
    <3> QED BY <3>1, <3>2, <1>3 DEF GovernanceInv, OneDecision
  <2> QED BY <2>2, <2>3
<1> QED BY <1>1, <1>2, <1>3 DEF PromotionsAreApproved, GovernanceInv, OneDecision, Traced

LEMMA GovernanceKeeps == GovernanceInv /\ (GovernanceStep \/ UNCHANGED governanceVars) => GovernanceInv'
<1> SUFFICES ASSUME GovernanceInv, GovernanceStep \/ UNCHANGED governanceVars PROVE GovernanceInv' OBVIOUS
<1>1. CASE UNCHANGED governanceVars BY <1>1, GovernanceRests DEF governanceVars
<1>2. ASSUME NEW e \in Experiment, Register(e) \/ Evaluate(e) PROVE GovernanceInv'
  BY <1>2, RegistrationKeeps, GovernanceRests DEF Evaluate
<1>3. ASSUME NEW report \in reports, NEW sessions \in 0..MaxSessions, Propose(report, sessions) PROVE GovernanceInv'
  BY <1>3, GovernanceRests DEF Propose
<1>4. ASSUME NEW d \in Decider, (\E p \in proposals : ReadApprovals(d, p)) \/ PersistDecision(d) \/ AbandonDecision(d)
      PROVE GovernanceInv'
  BY <1>4, ReadingKeeps, DecisionKeeps, AbandonKeeps
<1> QED BY <1>1, <1>2, <1>3, <1>4, ApprovalKeeps DEF GovernanceStep

---------------------------------------------------------------------------
\* The behaviours of Research, each store by its own invariant.
LEMMA RecommendedIsSound == Recommended => CalibrationInv
<1> SUFFICES ASSUME Recommended PROVE CalibrationInv OBVIOUS
<1>1. PICK policy \in Policy, cutoff \in Cutoff, at \in EvaluatedAt :
         LET run == CalibrationRun(policy, cutoff, TRUE, {"calibration", "ev"})
         IN  /\ run.calibrated /\ calibrations = {run}
             /\ \E c \in Part(run.lineage, "TEST"), wide \in BOOLEAN :
                   evaluations = {[candidate |-> c, run |-> {run}, policy |-> policy, at |-> at, wide |-> wide, ready |-> TRUE,
                                   state |-> Evaluation(c, {run}, policy, wide, TRUE)]}
  BY DEF Recommended
<1>2. PICK run : run = CalibrationRun(policy, cutoff, TRUE, {"calibration", "ev"}) OBVIOUS
<1>3. run.calibrated /\ calibrations = {run} BY <1>1, <1>2
<1>4. PICK c \in Part(run.lineage, "TEST"), wide \in BOOLEAN :
         evaluations = {[candidate |-> c, run |-> {run}, policy |-> policy, at |-> at, wide |-> wide, ready |-> TRUE,
                         state |-> Evaluation(c, {run}, policy, wide, TRUE)]}
  BY <1>1, <1>2
<1>5. realized \subseteq Candidate /\ RunSound(run) BY <1>2, RunsAreSound DEF Recommended
<1>6. c \in Candidate
  <2>1. PICK x \in run.lineage : x.included /\ x.candidate = c BY DEF Part
  <2> QED BY <2>1, <1>5 DEF RunSound
<1>7. PICK row : row = [candidate |-> c, run |-> {run}, policy |-> policy, at |-> at, wide |-> wide, ready |-> TRUE,
                        state |-> Evaluation(c, {run}, policy, wide, TRUE)] OBVIOUS
<1>8. row.state = "ELIGIBLE" => ~ wide /\ c \in Scored /\ Flaws[c] = {} /\ RunPasses(run, policy)
  <2>1. row.state = Evaluation(c, {run}, policy, wide, TRUE) BY <1>7
  <2> QED BY <2>1, <1>6, EligibleIsFlawless
<1>9. EvaluationSound(row)
  <2>1. row.candidate = c /\ row.ready /\ row.wide = wide /\ row.run = {run} /\ row.policy = policy BY <1>7
  <2> QED BY <2>1, <1>3, <1>8 DEF EvaluationSound
<1>10. \A e \in evaluations : EvaluationSound(e) BY <1>4, <1>7, <1>9
<1> QED BY <1>3, <1>5, <1>10 DEF CalibrationInv

LEMMA LineageHolds == Spec => []LineageInv
<1>1. Init => LineageInv BY LineageInitially DEF Init
<1>2. LineageInv /\ [Next]_researchVars => LineageInv'
  <2>1. [Next]_researchVars => LineageStep \/ UNCHANGED lineageVars BY DEF Next, researchVars
  <2> QED BY <2>1, LineageKeeps
<1> QED BY <1>1, <1>2, PTL DEF Spec

LEMMA ResearchEvidenceHolds == Spec => [](EvidenceInv /\ ContextInv)
<1>1. Init => EvidenceInv /\ ContextInv BY EvidenceInitially, ContextInitially DEF Init
<1>2. EvidenceInv /\ ContextInv /\ [Next]_researchVars => EvidenceInv' /\ ContextInv'
  <2> SUFFICES ASSUME EvidenceInv, ContextInv, [Next]_researchVars PROVE EvidenceInv' /\ ContextInv' OBVIOUS
  <2>1. ContextStep \/ UNCHANGED <<evidenceVars, contextVars>> BY DEF Next, researchVars
  <2>2. CASE UNCHANGED <<evidenceVars, contextVars>>
    <3>1. EvidenceInv' BY <2>2, EvidenceKeeps
    <3>2. UNCHANGED opportunities BY <2>2 DEF evidenceVars
    <3>3. UNCHANGED <<events, vectorLinks, runLinks, opportunityLinks, linking, stale, outdated>> BY <2>2 DEF contextVars
    <3>4. ContextInv' BY <3>2, <3>3, LinksRest DEF Stored
    <3> QED BY <3>1, <3>4
  <2>3. CASE EvidenceMoves \/ \E p \in Program : RematerializeOpportunities(p)
    <3>1. EvidenceStep BY <2>3 DEF EvidenceMoves, RematerializeOpportunities, EvidenceStep
    <3> QED BY <2>3, <3>1, EvidenceKeeps, EvidenceLeavesLinks
  <2>4. ASSUME NEW e \in Event, ImportEvent(e) PROVE EvidenceInv' /\ ContextInv'
    <3>1. UNCHANGED evidenceVars BY <2>4 DEF ImportEvent
    <3> QED BY <2>4, <3>1, ImportKeeps, EvidenceKeeps
  <2>5. ASSUME NEW l \in Linker, HistoricalStep(l) \/ OpportunityStep(l) \/ LinkCrash(l) PROVE EvidenceInv' /\ ContextInv'
    <3>1. UNCHANGED evidenceVars
      BY <2>5 DEF HistoricalStep, OpportunityStep, LinkCrash, ReadEvents, ReadVectors, ReplaceVectorLinks,
                  ReadSimilarityRuns, ReplaceRunLinks, ReadOpportunities, ReplaceOpportunityLinks
    <3> QED BY <2>5, <3>1, PassesKeep, EvidenceKeeps
  <2> QED BY <2>1, <2>2, <2>3, <2>4, <2>5 DEF ContextStep
<1> QED BY <1>1, <1>2, PTL DEF Spec

LEMMA PointsHold == Spec => []PointInv
<1>1. Init => PointInv BY PointInitially DEF Init
<1>2. PointInv /\ [Next]_researchVars => PointInv'
  <2>1. [Next]_researchVars => PointStep \/ UNCHANGED pointVars BY DEF Next, researchVars
  <2> QED BY <2>1, PointKeeps
<1> QED BY <1>1, <1>2, PTL DEF Spec

LEMMA CalibrationHolds == Spec => []CalibrationInv
<1>1. Init => CalibrationInv BY CalibrationInitially, RecommendedIsSound DEF Init
<1>2. CalibrationInv /\ [Next]_researchVars => CalibrationInv'
  <2>1. [Next]_researchVars => CalibrationStep \/ UNCHANGED calibrationVars BY DEF Next, researchVars
  <2> QED BY <2>1, CalibrationKeeps
<1> QED BY <1>1, <1>2, PTL DEF Spec

LEMMA ValidationHolds == Spec => []ValidationInv
<1>1. Init => ValidationInv BY ValidationInitially DEF Init
<1>2. ValidationInv /\ [Next]_researchVars => ValidationInv'
  <2>1. [Next]_researchVars => ValidationStep \/ DriftStep \/ UNCHANGED validationVars
    BY DEF Next, researchVars, ValidationStep
  <2> QED BY <2>1, ValidationKeeps
<1> QED BY <1>1, <1>2, PTL DEF Spec

\* Whatever is collected, calculated again and ranked, selected, allocated and tested in
\* whatever order, the rows of the option research chain pass the release audits: each
\* refers to rows that are there and is dated after them.
THEOREM LineagesPassAudits == Spec => []LineageAuditsPass
<1> QED BY LineageHolds, LineagePasses, PTL

\* market_replay.py orders the events of a signal by their times: they are in the order
\* of the chain unless an analysis was calculated again after its ranking.
THEOREM SignalsReplayInOrder == Spec => []ReplayableUnlessRecalculated
<1> QED BY LineageHolds, LineageReplays, PTL

\* Materializers run again and again and next to each other, each writing what it worked
\* out from an earlier read, while observations arrive and are ranked anew: an outcome
\* ends at a later observation, matches are earlier than their query, rankings are copied
\* along unless a vector was ranked anew, and an opportunity cites enough outcomes that
\* its run attached, unless its matches were replaced meanwhile. What it cites stays
\* complete unless the outcome was last written from an overtaken read.
THEOREM EvidenceIsSound == Spec => []EvidenceHolds
<1> QED BY ResearchEvidenceHolds, EvidenceShows, PTL

\* Passes read events, read evidence and replace links on connections of their own, while
\* events are imported, evidence is materialized and other passes run or die: links that
\* were last written by a pass that nothing has overtaken are predictive exactly for what
\* was published by the observation, and a run has context only from its query.
THEOREM LinksAreSound == Spec => []EventContextSound
<1> QED BY ResearchEvidenceHolds, ContextShows, PTL

\* Payloads arrive late, again, or from another source, and runs are made as of any time:
\* revisions keep their order and source, and no vector, outcome or match rests on a bar
\* that was not available to it; the path of a match's label has ended by the observation
\* (that its bars were available by then is not claimed). What was fitted on ended before
\* anything tested was observed, an eligible recommendation passed every gate of its run,
\* of its candidate and of the release, and what its validation found of a path is what
\* the path says.
THEOREM SecondGenerationIsSound == Spec => []SecondGenerationSound
<1>1. PointInv /\ CalibrationInv /\ ValidationInv => SecondGenerationSound
  BY PointShows, CalibrationShows, ValidationShows DEF SecondGenerationSound, RecommendationsHold
<1> QED BY <1>1, PointsHold, CalibrationHolds, ValidationHolds, PTL

\* However registrations, evaluations, proposals, approvals and deciders interleave and
\* die (decide and insert_decision of the research governance), a decision is made once,
\* an approved one had everybody's approval, and assignments and rollbacks are those of
\* the approved decisions.
THEOREM PromotionsStayApproved == Spec => []PromotionsAreApproved
<1>1. Init => GovernanceInv BY GovernanceInitially DEF Init
<1>2. GovernanceInv /\ [Next]_researchVars => GovernanceInv'
  <2>1. [Next]_researchVars => GovernanceStep \/ UNCHANGED governanceVars BY DEF Next, researchVars
  <2> QED BY <2>1, GovernanceKeeps
<1> QED BY <1>1, <1>2, GovernanceSuffices, PTL DEF Spec

-------------------------------------------------------------------------------
\* The engines, which only answer: what they compute is in OptionEngines_proofs.
\* What an engine is asked is valid, and what it answered is its result.
EnginesInv ==
    /\ group = "engines" => ValidProblem(problem.engine, problem.input)
    /\ group # "engines" => answer = <<>>
    /\ Answered("analytics") => answer = <<CalculateAnalytics(problem.input)>>
    /\ Answered("ranking") => answer = <<Rank(problem.input)>>
    /\ Answered("selection") => answer = <<Choose(problem.input)>>
    /\ Answered("risk") => answer = <<AssessRisk(problem.input)>>
    /\ Answered("backtest") => answer = <<Simulate(problem.input)>>
    /\ Answered("drawdown") => answer = <<MaximumDrawdown(problem.input)>>
    /\ Answered("calendar") => answer = <<SessionStatus(problem.input)>>
    /\ Answered("expiries") => answer = <<SelectExpiries(problem.input)>>
    /\ Answered("mappings") => answer = <<ImportMappings(problem.input)>>
    /\ Answered("calibration") => answer = <<Calibrate(problem.input)>>

LEMMA EnginesAnswer == Spec => []EnginesInv
<1>1. Init => EnginesInv
  <2> SUFFICES ASSUME Init PROVE EnginesInv OBVIOUS
  <2>1. answer = <<>> /\ (group = "engines" => EngineInit) BY DEF Init, EngineInit
  <2>2. ASSUME group = "engines" PROVE ValidProblem(problem.engine, problem.input)
    <3>1. PICK engine \in DOMAIN Problem : \E p \in Problem[engine] : problem = [engine |-> engine, input |-> p]
      BY <2>1, <2>2 DEF EngineInit
    <3>2. PICK p \in Problem[engine] : problem = [engine |-> engine, input |-> p] BY <3>1
    <3>3. ValidProblem(engine, p) BY <3>1, <3>2, ProblemsAreValid
    <3> QED BY <3>2, <3>3
  <2> QED BY <2>1, <2>2 DEF EnginesInv, Answered
<1>2. EnginesInv /\ [Next]_researchVars => EnginesInv'
  <2> SUFFICES ASSUME EnginesInv, [Next]_researchVars PROVE EnginesInv' OBVIOUS
  <2>1. CASE Follow("engines") /\ EngineStep
    <3>1. problem' = problem /\ group' = group /\ group = "engines" BY <2>1 DEF EngineStep, Follow
    <3>2. /\ problem.engine = "analytics" => answer' = <<CalculateAnalytics(problem.input)>>
          /\ problem.engine = "ranking" => answer' = <<Rank(problem.input)>>
          /\ problem.engine = "selection" => answer' = <<Choose(problem.input)>>
          /\ problem.engine = "risk" => answer' = <<AssessRisk(problem.input)>>
          /\ problem.engine = "backtest" => answer' = <<Simulate(problem.input)>>
          /\ problem.engine = "drawdown" => answer' = <<MaximumDrawdown(problem.input)>>
          /\ problem.engine = "calendar" => answer' = <<SessionStatus(problem.input)>>
          /\ problem.engine = "expiries" => answer' = <<SelectExpiries(problem.input)>>
          /\ problem.engine = "mappings" => answer' = <<ImportMappings(problem.input)>>
          /\ problem.engine = "calibration" => answer' = <<Calibrate(problem.input)>>
      BY <2>1 DEF EngineStep, Asked
    <3>3. ValidProblem(problem.engine, problem.input)' BY <3>1 DEF EnginesInv
    <3> QED BY <3>1, <3>2, <3>3 DEF EnginesInv, Answered
  <2>2. CASE UNCHANGED <<group, engineVars>>
    BY <2>2 DEF EnginesInv, Answered, engineVars
  <2>3. (Follow("engines") /\ EngineStep) \/ UNCHANGED <<group, engineVars>>
    BY DEF Next, Follow, researchVars, engineVars
  <2> QED BY <2>1, <2>2, <2>3
<1> QED BY <1>1, <1>2, PTL DEF Spec

\* The engines return what an independent definition of their result demands, for any valid
\* input: the slice and the walls of a chain, the positions of a ranking, the nearest
\* contract, the exit of a trade, the deepest fall, calibrated rates, the state of the
\* market, expiries and mappings.
THEOREM EnginesAreRight == Spec => []EnginesAgree
<1>1. EnginesInv => EnginesAgree
  <2> SUFFICES ASSUME EnginesInv PROVE EnginesAgree OBVIOUS
  <2>1. PICK engine, p : engine = problem.engine /\ p = problem.input OBVIOUS
  <2>2. answer # <<>> => ValidProblem(engine, p) BY <2>1 DEF EnginesInv
  <2>3. Answered("analytics") => AnalyticsAgree(p, answer[1])
    BY <2>1, <2>2, AnalyticsAreRight DEF EnginesInv, Answered, ValidProblem
  <2>4. Answered("ranking") => RankingAgrees(p, answer[1])
    BY <2>1, <2>2, RankingIsRight DEF EnginesInv, Answered, ValidProblem
  <2>5. Answered("selection") => SelectionAgrees(p, answer[1])
    BY <2>1, <2>2, SelectionIsRight DEF EnginesInv, Answered, ValidProblem
  <2>6. Answered("backtest") => BacktestAgrees(p, answer[1])
    BY <2>1, <2>2, BacktestIsRight DEF EnginesInv, Answered, ValidProblem
  <2>7. Answered("drawdown") => DrawdownAgrees(p, answer[1])
    BY <2>1, <2>2, DrawdownIsRight DEF EnginesInv, Answered, ValidProblem
  <2>8. Answered("calendar") => CalendarAgrees(p, answer[1])
    BY <2>1, <2>2, CalendarIsRight DEF EnginesInv, Answered, ValidProblem
  <2>9. Answered("expiries") => ExpiriesAgree(p, answer[1])
    BY <2>1, <2>2, ExpiriesAreRight DEF EnginesInv, Answered, ValidProblem
  <2>10. Answered("mappings") => MappingsAgree(p, answer[1])
    BY <2>1, <2>2, MappingsAreRight DEF EnginesInv, Answered, ValidProblem
  <2>11. Answered("calibration") => CalibrationAgrees(p, answer[1])
    BY <2>1, <2>2, CalibrationIsRight DEF EnginesInv, Answered, ValidProblem
  <2> QED BY <2>1, <2>3, <2>4, <2>5, <2>6, <2>7, <2>8, <2>9, <2>10, <2>11 DEF EnginesAgree
<1> QED BY <1>1, EnginesAnswer, PTL

\* Position sizing: whatever contracts a request brings and in whatever order, what is
\* approved stays within every limit but for the rounding of one amount, and a rejection
\* names a limit that does not hold one more lot.
THEOREM ExposureStaysWithinLimits == Spec => []ExposureWithinLimits
<1>1. EnginesInv => ExposureWithinLimits
  <2> SUFFICES ASSUME EnginesInv, Answered("risk") PROVE ExposureWithinLimits BY DEF ExposureWithinLimits
  <2>1. PICK p, sized, symbols : /\ p = problem.input /\ sized = answer[1]
                                     /\ symbols = {s.symbol : s \in Range(p.selections)}
    OBVIOUS
  <2>2. ValidRequest(p) /\ sized = AssessRisk(p)
    BY <2>1 DEF EnginesInv, Answered, ValidProblem
  <2> HIDE DEF EnginesInv
  <2> QED BY <2>1, <2>2, AssessmentStaysWithinLimits DEF ExposureWithinLimits
<1> QED BY <1>1, EnginesAnswer, PTL
=================================================================================
