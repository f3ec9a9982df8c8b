----------------------------- MODULE OptionLineage -----------------------------
\* The option research chain: each service reads the rows of the one before it and
\* inserts its own with the identifiers it was based on. Services are run by hand or
\* by scripts in any order, for any as_of; what they compute is in OptionEngines.
EXTENDS Integers, FiniteSets, FiniteSetsExt, Functions

CONSTANTS
    Chain,         \* completed collections of option chains, numbered as their ids sort
    SymbolOf,      \* underlying of each
    Expiry,        \* last time at which a contract of the underlying is not expired
    MaxAge,        \* maximum_source_age of the requests
    MaxTime        \* bound on the clock

VARIABLES
    now,
    completed,     \* option_chain_runs: completed_at, NotYet while there is none
    analytics,     \* option_chain_analytics by source run
    change,        \* option_analytics_changes by current analytics
    ranking,       \* an option_ranking_runs row with its option_rankings
    selection,     \* the selection run of that ranking
    risk,          \* the risk run of that selection
    signals,       \* the signal run of that risk run
    backtests,     \* option_backtest_runs of the signal run
    replays        \* market_replay_runs of the signal run

rows == <<completed, analytics, change, ranking, selection, risk, signals, backtests, replays>>
lineageVars == <<now, rows>>

NotYet == -1
Missing == [at |-> NotYet]
Times == 0..MaxTime
Option == Chain \X {"CE", "PE"}

LineageInit ==
    /\ now = 0
    /\ completed = [c \in Chain |-> NotYet]
    /\ analytics = [c \in Chain |-> Missing]
    /\ change = [c \in Chain |-> Missing]
    /\ ranking = Missing /\ selection = Missing /\ risk = Missing /\ signals = Missing
    /\ backtests = {} /\ replays = {}

Exists(row) == row # Missing
Fresh(captured, asOf) == captured <= asOf /\ asOf - captured <= MaxAge

TimePasses == now < MaxTime /\ now' = now + 1 /\ UNCHANGED rows

CompleteCollection(c) ==
    /\ completed[c] = NotYet
    /\ completed' = [completed EXCEPT ![c] = now]
    /\ UNCHANGED <<now, analytics, change, ranking, selection, risk, signals, backtests, replays>>

\* Mutant: a recalculation also moves the time of the source.
UpsertAnalyticsRedated(c, at) ==
    analytics' = [analytics EXCEPT ![c] =
        IF Exists(@) THEN [at |-> at, captured |-> at, redone |-> now]
        ELSE [at |-> at, captured |-> completed[c], redone |-> NotYet]]

\* ON CONFLICT (source_run_id) DO UPDATE: the row keeps its identity and the time of
\* its source; calculated_at is the new one. redone is not stored by the program.
UpsertAnalytics(c, at) ==
    analytics' = [analytics EXCEPT ![c] =
        IF Exists(@) THEN [@ EXCEPT !.at = at, !.redone = now]
        ELSE [at |-> at, captured |-> completed[c], redone |-> NotYet]]

\* The clock is read before the chain is loaded and the row is written.
CalculateAndPersist(c) ==
    /\ completed[c] # NotYet
    /\ \E at \in completed[c]..now : Fresh(completed[c], at) /\ UpsertAnalytics(c, at)
    /\ UNCHANGED <<now, completed, change, ranking, selection, risk, signals, backtests, replays>>

Analysed == {c \in Chain : Exists(analytics[c])}
Comparable(c) == {d \in Analysed : SymbolOf[d] = SymbolOf[c]}
Sooner(c, d) == \/ analytics[c].captured < analytics[d].captured
                \/ analytics[c].captured = analytics[d].captured /\ c < d

\* (source_captured_at, analytics_id) just below that of the current snapshot.
Previous(c) == {d \in Comparable(c) : Sooner(d, c) /\ \A e \in Comparable(c) : Sooner(e, c) => e = d \/ Sooner(e, d)}

\* ON CONFLICT (current_analytics_id) DO UPDATE all but the identity.
UpsertChange(c, d) ==
    change' = [change EXCEPT ![c] = [at |-> now, previous |-> d,
                                     from |-> analytics[d].captured, to |-> analytics[c].captured]]

\* Simultaneous snapshots are refused, and so is a clock behind the snapshot.
CompareAnalytics(c) ==
    /\ c \in Analysed
    /\ \E d \in Previous(c) : analytics[d].captured < analytics[c].captured /\ UpsertChange(c, d)
    /\ UNCHANGED <<now, completed, analytics, ranking, selection, risk, signals, backtests, replays>>

\* The latest snapshot with a change per underlying, not later than as_of.
LatestCandidates(asOf) ==
    LET seen == {c \in Analysed : Exists(change[c]) /\ analytics[c].captured <= asOf}
    IN  {c \in seen : \A d \in seen : SymbolOf[d] = SymbolOf[c] /\ d # c => Sooner(d, c)}

\* Mutant: the run is dated as of the request instead of by the clock.
RankAsOf(asOf) ==
    /\ ~ Exists(ranking) /\ asOf <= now
    /\ \E eligible \in SUBSET {c \in LatestCandidates(asOf) : Fresh(analytics[c].captured, asOf)} :
          /\ eligible # {}
          /\ ranking' = [at |-> asOf, asOf |-> asOf, of |-> [c \in eligible |-> change[c].previous]]
    /\ UNCHANGED <<now, completed, analytics, change, selection, risk, signals, backtests, replays>>

\* Those fresh and liquid enough are ranked; as_of must not be in the future.
RankAndPersist(asOf) ==
    /\ ~ Exists(ranking) /\ asOf <= now
    /\ \E eligible \in SUBSET {c \in LatestCandidates(asOf) : Fresh(analytics[c].captured, asOf)} :
          /\ eligible # {}
          /\ ranking' = [at |-> now, asOf |-> asOf, of |-> [c \in eligible |-> change[c].previous]]
    /\ UNCHANGED <<now, completed, analytics, change, selection, risk, signals, backtests, replays>>

\* The contracts of the ranked collections, per side: a choice or none.
ContractCandidates(asOf) == {o \in Option : o[1] \in DOMAIN ranking.of /\ Fresh(analytics[o[1]].captured, asOf)}

SelectAndPersist(asOf) ==
    /\ Exists(ranking) /\ ~ Exists(selection)
    /\ \E chosen \in SUBSET ContractCandidates(asOf) :
          chosen # {} /\ selection' = [at |-> now, asOf |-> asOf, of |-> chosen]
    /\ UNCHANGED <<now, completed, analytics, change, ranking, risk, signals, backtests, replays>>

\* Every selected contract is approved or rejected.
AssessAndPersist ==
    /\ Exists(selection) /\ ~ Exists(risk)
    /\ \E approved \in SUBSET selection.of : risk' = [at |-> now, of |-> approved]
    /\ UNCHANGED <<now, completed, analytics, change, ranking, selection, signals, backtests, replays>>

Valid(o, asOf) == asOf <= Expiry[SymbolOf[o[1]]]

\* One signal run per risk run (uq_option_signal_runs_risk). An expired candidate
\* raises for all; those below the minimum confidence are left out.
GenerateSignals(asOf) ==
    /\ Exists(risk) /\ ~ Exists(signals)
    /\ \A o \in risk.of : Valid(o, asOf)
    /\ \E confident \in SUBSET risk.of :
          confident # {} /\ signals' = [at |-> now, asOf |-> asOf, of |-> confident]
    /\ UNCHANGED <<now, completed, analytics, change, ranking, selection, risk, backtests, replays>>

\* Quotes of completed collections of the contract after its source and up to as_of.
FutureMarks(o, asOf) ==
    {d \in Chain : /\ SymbolOf[d] = SymbolOf[o[1]] /\ completed[d] # NotYet
                   /\ completed[d] > analytics[o[1]].captured /\ completed[d] <= asOf}

\* A trade per signal: it leaves at one of the marks, at none only if there is none.
RunBacktest(asOf) ==
    /\ Exists(signals)
    /\ \A o \in signals.of : analytics[o[1]].captured <= asOf
    /\ \E exits \in [signals.of -> Chain \union {NotYet}] :
          /\ \A o \in signals.of : IF FutureMarks(o, asOf) = {} THEN exits[o] = NotYet
                                   ELSE exits[o] \in FutureMarks(o, asOf)
          /\ backtests' = {[asOf |-> asOf, exits |-> exits]}
    /\ UNCHANGED <<now, completed, analytics, change, ranking, selection, risk, signals, replays>>

\* The times of the events of a signal, in the order they are replayed in.
EventTimes(o) == <<analytics[o[1]].captured, analytics[o[1]].at, ranking.at, selection.at, risk.at, signals.at>>
Ordered(times) == \A n \in 2..6 : times[n - 1] <= times[n]

Replay(asOf) ==
    /\ Exists(signals)
    /\ signals.at <= asOf
    /\ \A o \in signals.of : Ordered(EventTimes(o))
    /\ replays' = {[asOf |-> asOf, events |-> [o \in signals.of |-> EventTimes(o)]]}
    /\ UNCHANGED <<now, completed, analytics, change, ranking, selection, risk, signals, backtests>>

LineageStep ==
    \/ TimePasses \/ AssessAndPersist
    \/ \E c \in Chain : CompleteCollection(c) \/ CalculateAndPersist(c) \/ CompareAnalytics(c)
    \/ \E asOf \in Times : RankAndPersist(asOf) \/ SelectAndPersist(asOf) \/ GenerateSignals(asOf)
                           \/ RunBacktest(asOf) \/ Replay(asOf)

-------------------------------------------------------------------------------
LineageTypeOK ==
    /\ now \in Times
    /\ completed \in [Chain -> {NotYet} \union Times]
    /\ \A c \in Analysed : analytics[c].at \in Times /\ analytics[c].captured \in Times
    /\ \A c \in Chain : Exists(change[c]) => change[c].previous \in Analysed

\* option_chain_lineage of the release audit: rows agree with the rows they copy.
OptionChainLineage ==
    /\ \A c \in Analysed : completed[c] # NotYet
    /\ \A c \in Chain : Exists(change[c]) =>
          /\ SymbolOf[change[c].previous] = SymbolOf[c]
          /\ change[c].from = analytics[change[c].previous].captured
          /\ change[c].to = analytics[c].captured
          /\ change[c].from < change[c].to

\* decision_lineage: what is ranked has a change, and so on down to the signals.
DecisionLineage ==
    /\ Exists(ranking) => \A c \in DOMAIN ranking.of : Exists(change[c])
    /\ Exists(selection) => \A o \in selection.of : o[1] \in DOMAIN ranking.of
    /\ Exists(risk) => risk.of \subseteq selection.of
    /\ Exists(signals) => signals.of \subseteq risk.of

\* evaluation_lineage: a trade per signal, completed or skipped.
EvaluationLineage ==
    \A b \in backtests : DOMAIN b.exits = signals.of
                         /\ \A o \in signals.of : b.exits[o] # NotYet => completed[b.exits[o]] <= b.asOf

\* The release audits of the option chain find no violation, in whatever order and
\* however often the services are run while collections complete.
LineageAuditsPass == OptionChainLineage /\ DecisionLineage /\ EvaluationLineage

\* The events of a signal run can be replayed in order for ever, unless analytics it
\* rests on were calculated again after they were ranked.
ReplayableUnlessRecalculated ==
    Exists(signals) =>
        \A o \in signals.of : analytics[o[1]].redone < ranking.at => Ordered(EventTimes(o))
===============================================================================
