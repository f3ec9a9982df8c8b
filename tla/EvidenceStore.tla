----------------------------- MODULE EvidenceStore -----------------------------
\* The first generation of research evidence: a feature vector per analytics row, an
\* outcome per vector, similarity runs, trade opportunities with their evidence.
\* Operators run the materializers by hand, again and again and next to each other, while
\* new observations arrive. Outcomes and opportunities are worked out from what a program
\* has read and written later, each in a transaction of its own. What a vector or a
\* similarity run is made of is only added to, and an earlier read sees less of it: these
\* two read and write in one step. One underlying and one expiry are followed, of the
\* values a row keeps only whether it has them.
EXTENDS Integers, FiniteSets, FiniteSetsExt

CONSTANTS
    Program,           \* runs of the materializers at a time
    Observation,       \* analytics rows, numbered as their vector ids sort
    ObservedAt,        \* time of each
    Query,             \* those that similar ones are asked for
    RankingsOf,        \* rankings that an analytics row gets over time, none being one
    ExpiryTime,        \* the time that stands for the expiry date
    MinimumClassified, \* MINIMUM_CLASSIFIED of the opportunity model
    Absent             \* no row, a null

Rankings == UNION {RankingsOf[v] : v \in Observation}
OutcomeRow == [type : {"NO_FUTURE_DATA", "PARTIAL", "EXPIRY_COMPLETE"}, terminal : Observation \union {Absent}, ranking : Rankings]
SimilarityRow == [matched : SUBSET Observation, attached : SUBSET Observation, ranking : Rankings]
OpportunityRow == [run : SUBSET Observation, evidence : SUBSET Observation, ranking : Rankings,
                   state : {"INSUFFICIENT_EVIDENCE", "ELIGIBLE", "NO_OPPORTUNITY"}, values : SUBSET {"zones", "expectation"}]

\* No two chains of the contract are captured at the same instant: nothing in the schema
\* says so, but a capture takes requests that are spaced out. The audits below rest on it.
ASSUME CapturesDiffer ==
    /\ Observation \in SUBSET Int /\ IsFiniteSet(Observation) /\ ObservedAt \in [Observation -> Int]
    /\ \A v, w \in Observation : ObservedAt[v] = ObservedAt[w] => v = w
ASSUME AbsentIsNoRow == Absent \notin Rankings \union OutcomeRow \union SimilarityRow \union OpportunityRow
ASSUME MinimumIsNatural == MinimumClassified \in Nat

VARIABLES
    vectors,       \* feature_store_vectors: the ranking of each, as it is stored
    rankings,      \* the rankings that each has been stored with
    outcomes,      \* historical_outcomes by vector
    similarity,    \* similarity_runs by query vector, with their matches
    opportunities, \* trade_opportunities by similarity run, with the run they are of
    work,          \* what each program has read and is about to write
    lateOutcomes,  \* outcomes last written from a read older than the write before it
    lateOpportunities \* opportunities whose matches were replaced since they were read

evidenceVars == <<vectors, rankings, outcomes, similarity, opportunities, work, lateOutcomes, lateOpportunities>>

Idle == [kind |-> "idle"]

EvidenceInit ==
    /\ vectors = [v \in Observation |-> Absent]
    /\ rankings = [v \in Observation |-> {}]
    /\ outcomes = [v \in Observation |-> Absent]
    /\ similarity = [v \in Observation |-> Absent]
    /\ opportunities = [v \in Observation |-> Absent]
    /\ work = [p \in Program |-> Idle] /\ lateOutcomes = {} /\ lateOpportunities = {}

Stored(table) == {v \in Observation : table[v] # Absent}
Plans(kind) == {p \in Program : work[p].kind = kind}

\* A rerun replaces the row, its ranking and its values, and keeps its identity.
UpsertVector(v, ranking) ==
    /\ vectors' = [vectors EXCEPT ![v] = ranking]
    /\ rankings' = [rankings EXCEPT ![v] = @ \union {ranking}]

MaterializeVector(v) ==
    /\ \E ranking \in RankingsOf[v] : UpsertVector(v, ranking)
    /\ UNCHANGED <<outcomes, similarity, opportunities, work, lateOutcomes, lateOpportunities>>

-------------------------------------------------------------------------------
Later(v, w) == \/ ObservedAt[w] > ObservedAt[v]
               \/ ObservedAt[w] = ObservedAt[v] /\ w > v

\* Vectors of the contract after the source in (time, id), up to the expiry date.
FutureVectors(v) == {w \in Stored(vectors) : Later(v, w) /\ ObservedAt[w] <= ExpiryTime}

\* Mutant: the first of them is the terminal one.
TerminalFirst(v) == CHOOSE w \in FutureVectors(v) : \A u \in FutureVectors(v) \ {w} : Later(w, u)

\* The last of them is the terminal one; on the expiry date it classifies the outcome.
Terminal(v) == CHOOSE w \in FutureVectors(v) : \A u \in FutureVectors(v) \ {w} : Later(u, w)
OutcomeType(v) == IF FutureVectors(v) = {} THEN "NO_FUTURE_DATA"
                  ELSE IF ObservedAt[Terminal(v)] = ExpiryTime THEN "EXPIRY_COMPLETE" ELSE "PARTIAL"

\* The source was read with a batch of others, maybe under a ranking that it has no more.
ReadFutures(p, v) ==
    /\ work[p] = Idle
    /\ \E ranking \in rankings[v] :
          work' = [work EXCEPT ![p] =
                      [kind |-> "outcome", vector |-> v, late |-> FALSE,
                       outcome |-> [type |-> OutcomeType(v), terminal |-> IF FutureVectors(v) = {} THEN Absent ELSE Terminal(v),
                                    ranking |-> ranking]]]
    /\ UNCHANGED <<vectors, rankings, outcomes, similarity, opportunities, lateOutcomes, lateOpportunities>>

\* The row of a vector is replaced but for its identity and its ranking.
Replaced(old, new) == IF old = Absent THEN new ELSE [new EXCEPT !.ranking = old.ranking]

\* Others that are about to write it have read before.
UpsertOutcome(p) ==
    /\ work[p].kind = "outcome"
    /\ LET v == work[p].vector
       IN  /\ outcomes' = [outcomes EXCEPT ![v] = Replaced(@, work[p].outcome)]
           /\ lateOutcomes' = IF work[p].late THEN lateOutcomes \union {v} ELSE lateOutcomes \ {v}
           /\ work' = [q \in Program |-> IF q = p THEN Idle
                                         ELSE IF q \in Plans("outcome") /\ work[q].vector = v THEN [work[q] EXCEPT !.late = TRUE]
                                         ELSE work[q]]
    /\ UNCHANGED <<vectors, rankings, similarity, opportunities, lateOpportunities>>

\* The program dies, or its transaction is refused and it raises.
Abandon(p) ==
    /\ work[p] # Idle
    /\ work' = [work EXCEPT ![p] = Idle]
    /\ UNCHANGED <<vectors, rankings, outcomes, similarity, opportunities, lateOutcomes, lateOpportunities>>

-------------------------------------------------------------------------------
\* Not later than the query, which is the default cutoff and its upper bound.
Candidates(q) == {w \in Stored(vectors) \ {q} : ObservedAt[w] <= ObservedAt[q]}
EvidenceOf(r) == IF opportunities[r] = Absent THEN {} ELSE opportunities[r].evidence

\* A rerun deletes the matches first, which raises while an opportunity cites one; it
\* keeps the ranking of the run. Opportunities that are worked out of them come late.
PersistSimilarity(q, matched, attached, ranking) ==
    /\ EvidenceOf(q) = {}
    /\ similarity' = [similarity EXCEPT ![q] =
                         [matched |-> matched, attached |-> attached, ranking |-> IF @ = Absent THEN ranking ELSE @.ranking]]
    /\ work' = [p \in Program |-> IF p \in Plans("opportunities") /\ q \in DOMAIN work[p].items
                                  THEN [work[p] EXCEPT !.late = @ \union {q}] ELSE work[p]]

\* Any of the candidates may share enough features and be near enough; the outcomes that
\* are stored by then are attached after ranking.
AnalyzeSimilarity(q) ==
    /\ q \in Query \intersect Stored(vectors)
    /\ \E matched \in SUBSET Candidates(q), ranking \in rankings[q] : \E attached \in SUBSET (matched \intersect Stored(outcomes)) :
          PersistSimilarity(q, matched, attached, ranking)
    /\ UNCHANGED <<vectors, rankings, outcomes, opportunities, lateOutcomes, lateOpportunities>>

-------------------------------------------------------------------------------
\* All runs (the limit is not reached) or the one that is named; they are the identity of
\* the run of opportunities.
ReadRuns(p) ==
    /\ work[p] = Idle
    /\ \E sources \in {Stored(similarity)} \union {{r} : r \in Stored(similarity)} :
          work' = [work EXCEPT ![p] = [kind |-> "opportunities", sources |-> sources, items |-> <<>>, late |-> {}]]
    /\ UNCHANGED <<vectors, rankings, outcomes, similarity, opportunities, lateOutcomes, lateOpportunities>>

\* Outcomes are joined as they are now.
Classified(r) == {w \in similarity[r].attached : outcomes[w].type = "EXPIRY_COMPLETE"}

\* Whether enough evidence is favourable is left to its values. No opportunity keeps the
\* expectation that it lacks.
Assessment(r, run, favourable) ==
    LET state == IF Cardinality(Classified(r)) < MinimumClassified THEN "INSUFFICIENT_EVIDENCE"
                 ELSE IF favourable THEN "ELIGIBLE" ELSE "NO_OPPORTUNITY"
    IN  [run |-> run, evidence |-> Classified(r), ranking |-> similarity[r].ranking, state |-> state,
         values |-> CASE state = "ELIGIBLE" -> {"zones", "expectation"}
                      [] state = "NO_OPPORTUNITY" -> {"expectation"}
                      [] state = "INSUFFICIENT_EVIDENCE" -> {}]

\* The matches of one run after the other are read and assessed.
AssessRun(p, r) ==
    /\ work[p].kind = "opportunities" /\ r \in work[p].sources \ DOMAIN work[p].items
    /\ \E favourable \in BOOLEAN :
          work' = [work EXCEPT ![p].items = [s \in DOMAIN @ \union {r} |-> IF s = r THEN Assessment(r, work[p].sources, favourable) ELSE @[s]]]
    /\ UNCHANGED <<vectors, rankings, outcomes, similarity, opportunities, lateOutcomes, lateOpportunities>>

\* The opportunities of the same run are replaced. The run raises, and nothing is written,
\* when another run has stored one of them, which keeps its primary key, and when a match
\* that one cites is gone.
PersistOpportunities(p) ==
    /\ work[p].kind = "opportunities" /\ DOMAIN work[p].items = work[p].sources
    /\ \A r \in work[p].sources : /\ opportunities[r] # Absent => opportunities[r].run = work[p].sources
                                  /\ work[p].items[r].evidence \subseteq similarity[r].matched
    /\ opportunities' = [r \in Observation |-> IF r \in work[p].sources THEN work[p].items[r] ELSE opportunities[r]]
    /\ lateOpportunities' = (lateOpportunities \ work[p].sources) \union work[p].late
    /\ work' = [work EXCEPT ![p] = Idle]
    /\ UNCHANGED <<vectors, rankings, outcomes, similarity, lateOutcomes>>

-------------------------------------------------------------------------------
\* A vector that never changed its ranking has the one that was copied from it.
CopiedFrom(v, ranking) == ranking \in rankings[v] /\ (rankings[v] = {vectors[v]} => ranking = vectors[v])

\* historical_outcome_lineage: the ranking is that of the vector, unless this has been
\* ranked anew since; the terminal observation is later than the source.
HistoricalOutcomeLineage ==
    \A v \in Stored(outcomes) :
        /\ CopiedFrom(v, outcomes[v].ranking)
        /\ LET terminal == outcomes[v].terminal
           IN  terminal # Absent => terminal \in Stored(vectors) /\ ObservedAt[terminal] > ObservedAt[v]

\* similarity_lineage_and_leakage: the ranking is that of the query, with the same
\* exception; matches were observed before it and an outcome is their own.
SimilarityLineage ==
    \A q \in Stored(similarity) :
        /\ CopiedFrom(q, similarity[q].ranking)
        /\ \A w \in similarity[q].matched : ObservedAt[w] < ObservedAt[q]
        /\ similarity[q].attached \subseteq similarity[q].matched \intersect Stored(outcomes)

\* trade_opportunity_lineage: an opportunity has the ranking of its similarity run and
\* cites its matches, with the outcomes that these have unless they were replaced while it
\* was worked out; zones are for the eligible, values for whom there is enough evidence.
TradeOpportunityLineage ==
    \A r \in Stored(opportunities) :
        /\ r \in Stored(similarity) /\ opportunities[r].ranking = similarity[r].ranking
        /\ opportunities[r].evidence \subseteq similarity[r].matched \intersect Stored(outcomes)
        /\ r \notin lateOpportunities => opportunities[r].evidence \subseteq similarity[r].attached
        /\ "zones" \in opportunities[r].values => opportunities[r].state = "ELIGIBLE"
        /\ "expectation" \in opportunities[r].values => opportunities[r].state # "INSUFFICIENT_EVIDENCE"

\* What the first generation of evidence keeps to, whatever is materialized next to it and
\* afterwards: its lineage, with the exceptions that are named above; and what an
\* opportunity cites stays what it was cited for. It is still classified at expiry, unless
\* a late write has undone that, and there is enough of it unless the row says otherwise.
EvidenceHolds ==
    /\ HistoricalOutcomeLineage /\ SimilarityLineage /\ TradeOpportunityLineage
    /\ \A r \in Stored(opportunities) :
          /\ opportunities[r].state # "INSUFFICIENT_EVIDENCE" => Cardinality(opportunities[r].evidence) >= MinimumClassified
          /\ \A w \in opportunities[r].evidence \ lateOutcomes : outcomes[w].type = "EXPIRY_COMPLETE"
================================================================================
