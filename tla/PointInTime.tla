------------------------------ MODULE PointInTime ------------------------------
\* The second generation of research evidence over canonical bars of one instrument:
\* feature vectors, outcomes over a path of bars, similarity runs, opportunities. Rows
\* are immutable; a run inserts what it calculates unless the identity is there. Runs
\* are made by hand as of any time while payloads are imported.
EXTENDS HistoricalData, FiniteSets, FiniteSetsExt

CONSTANTS
    CloseAt,       \* bar_close_at of each bar
    ActionAt,      \* ex date of the corporate actions
    Horizon,       \* duration of the outcome
    MaximumMatches, \* of a similarity run
    TrainingEnd,   \* last observation an opportunity may rest on
    RunTimes,      \* times as of which runs are made
    NoRow          \* no row, a null

\* A match is a row with its rank, the vector and whether an outcome is attached.
MatchRow == [rank : Nat, vector : Record \X Nat, outcome : BOOLEAN]
OutcomeRowV2 ==
    [asOf : Int, state : {"COMPLETE", "UNKNOWN", "INSUFFICIENT"}, count : Nat, terminal : (Record \X Nat) \union {NoRow}]

ASSUME TimesAreIntegers == CloseAt \in [{k \in Record : Kind[k] = "BAR"} -> Int] /\ RunTimes \subseteq Int
ASSUME NoRowIsNoRow == NoRow \notin [count : Nat, rows : SUBSET MatchRow] /\ NoRow \notin OutcomeRowV2

\* Bars of an interval close one after the other: an import does not check it, and reads
\* would order those that do not by their revision ids.
ASSUME BarsCloseApart == \A k, l \in {b \in Record : Kind[b] = "BAR"} : CloseAt[k] = CloseAt[l] => k = l

VARIABLES
    vectorsV2,     \* feature_vectors_v2 by bar revision
    outcomesV2,    \* historical_outcomes_v2 by anchor revision
    pathsV2,       \* historical_outcome_path_v2 by anchor revision
    matchesV2,     \* similarity_runs_v2 with similarity_matches_v2 by query revision
    opportunitiesV2 \* opportunity_candidates_v2 with their evidence by query revision

evidenceRows == <<vectorsV2, outcomesV2, pathsV2, matchesV2, opportunitiesV2>>
pointVars == <<dataVars, evidenceRows>>

Bars == {k \in Record : Kind[k] = "BAR"}
Actions == {k \in Record : Kind[k] = "ACTION"}
RevisionIds == UNION {{<<k, n>> : n \in 1..Cardinality({p \in Payload : k \in p.records})} : k \in Bars}
Closes(r) == CloseAt[r[1]]
AvailableAt(r) == revisions[r[1]][r[2]].available

PointInit ==
    /\ DataInit
    /\ vectorsV2 = [r \in RevisionIds |-> NoRow]
    /\ outcomesV2 = [r \in RevisionIds |-> NoRow]
    /\ pathsV2 = [r \in RevisionIds |-> <<>>]
    /\ matchesV2 = [r \in RevisionIds |-> NoRow]
    /\ opportunitiesV2 = [r \in RevisionIds |-> NoRow]

Rows(table) == {r \in RevisionIds : table[r] # NoRow}
Bar(k, asOf) == <<k, ReadsAsOf(k, asOf)>>
BarsAsOf(asOf) == {Bar(k, asOf) : k \in {b \in Bars : Readable(b, asOf) # {}}}

\* The instrument has a revision by then: without it none of its bars is an anchor.
Listed(asOf) == \E k \in Record : Kind[k] = "INSTRUMENT" /\ Readable(k, asOf) # {}
Anchors(asOf) == {r \in BarsAsOf(asOf) : Listed(asOf)}
FeatureAnchors(asOf) == {r \in BarsAsOf(asOf) : Listed(AvailableAt(r))}

-------------------------------------------------------------------------------
\* Mutant: trailing bars are read as of the run instead of the anchor.
HistoryOfRun(anchor, asOf) == {r \in BarsAsOf(asOf) : Closes(r) <= Closes(anchor)}

\* Trailing bars: closed by the anchor's close and available when it was.
History(anchor, asOf) == {r \in BarsAsOf(AvailableAt(anchor)) : Closes(r) <= Closes(anchor)}

\* A vector that is stored stays.
PersistVectors(prepared) ==
    vectorsV2' = [r \in RevisionIds |-> IF r \in DOMAIN prepared /\ vectorsV2[r] = NoRow THEN prepared[r] ELSE vectorsV2[r]]

MaterializeFeatures(asOf) ==
    /\ PersistVectors([r \in FeatureAnchors(asOf) |-> History(r, asOf)])
    /\ UNCHANGED <<dataVars, outcomesV2, pathsV2, matchesV2, opportunitiesV2>>

-------------------------------------------------------------------------------
\* The later bars within the horizon, in the order of their close.
Ahead(anchor, asOf) ==
    {r \in BarsAsOf(asOf) : Closes(r) > Closes(anchor) /\ Closes(r) <= Closes(anchor) + Horizon}
Path(anchor, asOf) ==
    LET bars == Ahead(anchor, asOf)
    IN  [i \in 1..Cardinality(bars) |-> CHOOSE r \in bars : Cardinality({s \in bars : Closes(s) <= Closes(r)}) = i]

\* The actions known by then whose ex date falls within the horizon.
CorporateActions(anchor, asOf) ==
    {a \in Actions : Readable(a, asOf) # {} /\ ActionAt \in Closes(anchor)..(Closes(anchor) + Horizon)}

\* A confirmed action in the path makes the outcome insufficient; without a bar at the
\* very end of the horizon it is unknown. Prices are left out: barriers are not set.
OutcomeState(anchor, asOf) ==
    LET path == Path(anchor, asOf)
    IN  IF CorporateActions(anchor, asOf) # {} THEN "INSUFFICIENT"
        ELSE IF path # <<>> /\ Closes(Last(path)) = Closes(anchor) + Horizon THEN "COMPLETE" ELSE "UNKNOWN"

Outcome(anchor, asOf) ==
    LET path == Path(anchor, asOf)
    IN  [asOf |-> asOf, state |-> OutcomeState(anchor, asOf), count |-> Len(path),
         terminal |-> IF path = <<>> THEN NoRow ELSE Last(path)]

\* Path rows are inserted by their sequence number: of a path that is stored, only
\* the numbers beyond its end.
Extended(stored, path) == stored \o SubSeq(path, Len(stored) + 1, Len(path))

\* One transaction: a bar that would be twice on a path raises for the whole run.
PersistOutcomes(asOf, anchors) ==
    LET extended == [r \in RevisionIds |-> IF r \in anchors THEN Extended(pathsV2[r], Path(r, asOf)) ELSE pathsV2[r]]
    IN  /\ \A r \in RevisionIds : IsInjective(extended[r])
        /\ pathsV2' = extended
        /\ outcomesV2' = [r \in RevisionIds |->
              IF r \in anchors /\ outcomesV2[r] = NoRow THEN Outcome(r, asOf) ELSE outcomesV2[r]]

MaterializeOutcomes(asOf) ==
    /\ PersistOutcomes(asOf, Anchors(asOf))
    /\ UNCHANGED <<dataVars, vectorsV2, matchesV2, opportunitiesV2>>

-------------------------------------------------------------------------------
\* The query observation is the cutoff.
Analogous(q) == {r \in Rows(vectorsV2) : Closes(r) < Closes(q) /\ AvailableAt(r) <= Closes(q)}

\* A complete outcome of the candidate whose path ended by the observation.
HasOutcome(r, q) ==
    outcomesV2[r] # NoRow /\ outcomesV2[r].state = "COMPLETE" /\ Closes(outcomesV2[r].terminal) <= Closes(q)

\* The run row and the matches that are stored stay; a new match with a rank that is
\* taken raises.
PersistMatches(q, ranked) ==
    LET stored == IF matchesV2[q] = NoRow THEN {} ELSE matchesV2[q].rows
        fresh == {n \in DOMAIN ranked : \A m \in stored : m.vector # ranked[n]}
    IN  /\ \A n \in fresh : \A m \in stored : m.rank # n
        /\ matchesV2' = [matchesV2 EXCEPT ![q] =
              [count |-> IF @ = NoRow THEN Len(ranked) ELSE @.count,
               rows |-> stored \union {[rank |-> n, vector |-> ranked[n], outcome |-> HasOutcome(ranked[n], q)] : n \in fresh}]]

\* Up to maximum_matches of the analogous vectors, in an order of similarity.
MaterializeSimilarity(q) ==
    /\ q \in Rows(vectorsV2)
    /\ \E ranked \in {s \in UNION {[1..n -> Analogous(q)] : n \in 0..MaximumMatches} : IsInjective(s)} :
          PersistMatches(q, ranked)
    /\ UNCHANGED <<dataVars, vectorsV2, outcomesV2, pathsV2, opportunitiesV2>>

\* The candidate that is stored stays; evidence of further matches is added to it.
PersistCandidate(q, state, included) ==
    opportunitiesV2' = [opportunitiesV2 EXCEPT ![q] =
        IF @ = NoRow THEN [state |-> state, evidence |-> included]
        ELSE [state |-> @.state, evidence |-> @.evidence \union included]]

\* The matches with an outcome, observed in the training period, are evidence. Gates on
\* liquidity, expiry, moneyness, sample and concentration decide among the states, and
\* the levels of a provisional one must be in order.
MaterializeOpportunity(q) ==
    /\ matchesV2[q] # NoRow
    /\ LET included == {m \in matchesV2[q].rows : m.outcome /\ Closes(m.vector) <= TrainingEnd}
       IN  \E gate \in IF included = {} THEN {"INSUFFICIENT_EVIDENCE"} ELSE {"PROVISIONAL", "ABSTAINED"} :
              PersistCandidate(q, gate, included)
    /\ UNCHANGED <<dataVars, vectorsV2, outcomesV2, pathsV2, matchesV2>>

PointStep ==
    \/ \E p \in Payload : ImportPayload(p) /\ UNCHANGED evidenceRows
    \/ \E asOf \in RunTimes : MaterializeFeatures(asOf) \/ MaterializeOutcomes(asOf)
    \/ \E q \in RevisionIds : MaterializeSimilarity(q) \/ MaterializeOpportunity(q)

-------------------------------------------------------------------------------
\* The audits of the four stores for leakage. Left out is what a rerun breaks: the number
\* of path rows and the availability of those it adds (OutcomesKeepTheirPath), and the
\* number of matches.
FeatureStoreV2Leakage ==
    \A r \in Rows(vectorsV2) : \A s \in vectorsV2[r] : Closes(s) <= Closes(r) /\ AvailableAt(s) <= AvailableAt(r)

\* Of a path that grew in a later run, the rows the outcome was calculated from.
OutcomeV2Leakage ==
    \A r \in Rows(outcomesV2) :
        LET o == outcomesV2[r]
        IN  /\ AvailableAt(r) <= o.asOf
            /\ o.terminal # NoRow => Closes(o.terminal) > Closes(r) /\ AvailableAt(o.terminal) <= o.asOf
            /\ \A i \in DOMAIN pathsV2[r] : Closes(pathsV2[r][i]) > Closes(r)
            /\ o.count \in 0..Len(pathsV2[r])
            /\ \A i \in 1..o.count : AvailableAt(pathsV2[r][i]) <= o.asOf

SimilarityV2Leakage ==
    \A q \in Rows(matchesV2) : \A m \in matchesV2[q].rows :
        /\ Closes(m.vector) < Closes(q) /\ AvailableAt(m.vector) <= Closes(q)
        /\ m.outcome => Closes(outcomesV2[m.vector].terminal) <= Closes(q)

OpportunityV2Leakage ==
    \A q \in Rows(opportunitiesV2) : \A m \in opportunitiesV2[q].evidence :
        m \in matchesV2[q].rows /\ outcomesV2[m.vector].state = "COMPLETE"

\* No row holds what was not yet available for it, neither the bars behind a vector nor
\* those an outcome was calculated from nor a match; and the path of a match's label had
\* ended by the observation: whether its bars were available then is not asked, neither
\* by the service nor by the audit. In whatever order payloads arrive and runs repeat.
PointInTime ==
    /\ HistoricalDataFoundationLineage /\ RevisionsSound
    /\ FeatureStoreV2Leakage /\ OutcomeV2Leakage
    /\ SimilarityV2Leakage /\ OpportunityV2Leakage

\* docs/HISTORICAL_OUTCOME_ENGINE.md: reruns are idempotent, so that an outcome keeps
\* the path it was calculated from, which the release audit counts.
OutcomesKeepTheirPath == \A r \in Rows(outcomesV2) : Len(pathsV2[r]) = outcomesV2[r].count
===============================================================================
