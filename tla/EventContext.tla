----------------------------- MODULE EventContext -----------------------------
\* News events as context of the evidence: imported from local files by identity, then
\* linked to vectors and to similarity runs, or to opportunities, by passes that replace
\* all links of a table. A pass reads events and evidence on connections of their own;
\* imports, materializers and other passes commit in between.
EXTENDS EvidenceStore

CONSTANTS
    Linker,        \* passes at a time
    Event,         \* news events of the underlying, or market wide
    EventRecord,   \* what is imported of one: published_at and event_at, Never for null
    MaxImports     \* bound on the imports

Never == -1

\* One of the two times of a record may be missing.
ASSUME RecordsAreDated ==
    EventRecord \subseteq {record \in [published : Int, at : Int] : record.published # Never \/ record.at # Never}
ASSUME AbsentIsNoEvent == Absent \notin EventRecord

VARIABLES
    events,        \* market_events
    vectorLinks,   \* market_event_vector_context
    runLinks,      \* market_event_similarity_context
    opportunityLinks, \* market_event_opportunity_context
    linking,       \* what each pass has read and is about to write; it is old once an
                   \* import has overtaken it, or another pass has replaced its links
    stale,         \* the links of vectors and runs are those of an old or of a broken pass
    outdated,      \* the links of opportunities are those of an old one
    imports        \* imports so far

contextVars == <<events, vectorLinks, runLinks, opportunityLinks, linking, stale, outdated, imports>>

Resting == [step |-> "idle"]
At(steps) == {l \in Linker : linking[l].step \in steps}

ContextInit ==
    /\ events = [e \in Event |-> Absent]
    /\ vectorLinks = {} /\ runLinks = {} /\ opportunityLinks = {} /\ imports = 0
    /\ linking = [l \in Linker |-> Resting] /\ stale = FALSE /\ outdated = FALSE

Overtaken(plans, passes) == [l \in Linker |-> IF l \in passes THEN [plans[l] EXCEPT !.old = TRUE] ELSE plans[l]]
GoOn(l, step, links) == [linking EXCEPT ![l] = [step |-> step, links |-> links, old |-> linking[l].old]]

\* A record replaces the event of its identity.
UpsertEvent(e, record) == events' = [events EXCEPT ![e] = record]

ImportEvent(e) ==
    /\ imports < MaxImports /\ imports' = imports + 1
    /\ \E record \in EventRecord : UpsertEvent(e, record)
    /\ linking' = Overtaken(linking, {l \in Linker : linking[l] # Resting})
    /\ stale' = TRUE /\ outdated' = TRUE
    /\ UNCHANGED <<evidenceVars, vectorLinks, runLinks, opportunityLinks>>

Effective(event) == IF event.at # Never THEN event.at ELSE event.published
Known(event, v) == event.published # Never /\ event.published <= ObservedAt[v]

\* The kinds of context of an event for a vector with the terminal time of its
\* outcome. The windows of seven and two days are wider than the times of a run.
Contexts(event, v, outcome) ==
    {c \in {"BEFORE_OBSERVATION", "DURING_HOLDING", "NEAR_EXPIRY"} :
        \/ c = "BEFORE_OBSERVATION" /\ Effective(event) <= ObservedAt[v] /\ Known(event, v)
        \/ /\ c = "DURING_HOLDING" /\ outcome # Absent /\ outcome.terminal # Absent
           /\ ObservedAt[v] < Effective(event) /\ Effective(event) <= ObservedAt[outcome.terminal]
        \/ c = "NEAR_EXPIRY"}

\* Mutant: an event near expiry is predictive whenever it was published.
PredictiveNearExpiry(event, v, context) ==
    context = "BEFORE_OBSERVATION" \/ (context = "NEAR_EXPIRY" /\ event.published # Never)

Predictive(event, v, context) ==
    context = "BEFORE_OBSERVATION" \/ (context = "NEAR_EXPIRY" /\ Known(event, v))

-------------------------------------------------------------------------------
\* A pass of link_historical or of link_opportunities reads all events.
ReadEvents(l, step) ==
    /\ linking[l] = Resting
    /\ linking' = [linking EXCEPT ![l] = [step |-> step, seen |-> events, old |-> FALSE]]
    /\ UNCHANGED <<evidenceVars, events, vectorLinks, runLinks, opportunityLinks, stale, outdated, imports>>

\* Then all vectors with their outcomes, and works out the links.
LinksOf(seen) ==
    UNION {{[event |-> e, vector |-> v, context |-> c, predictive |-> Predictive(seen[e], v, c)] :
               c \in Contexts(seen[e], v, outcomes[v])} : e \in {x \in Event : seen[x] # Absent}, v \in Stored(vectors)}

ReadVectors(l) ==
    /\ linking[l].step = "events"
    /\ linking' = GoOn(l, "vectors", LinksOf(linking[l].seen))
    /\ UNCHANGED <<evidenceVars, events, vectorLinks, runLinks, opportunityLinks, stale, outdated, imports>>

\* All links of vectors are replaced in one transaction. The links that another pass has
\* written and has not yet followed up are gone.
ReplaceVectorLinks(l) ==
    /\ linking[l].step = "vectors"
    /\ vectorLinks' = linking[l].links /\ stale' = linking[l].old
    /\ linking' = Overtaken(GoOn(l, "replaced", linking[l].links), At({"replaced", "runs"}) \ {l})
    /\ UNCHANGED <<evidenceVars, events, runLinks, opportunityLinks, outdated, imports>>

PredictiveLinks(links) == {<<x.event, x.vector>> : x \in {y \in links : y.predictive}}

\* The similarity runs are read now, and their links follow from those the pass has
\* written for their queries.
ReadSimilarityRuns(l) ==
    /\ linking[l].step = "replaced"
    /\ linking' = GoOn(l, "runs", {x \in PredictiveLinks(linking[l].links) : x[2] \in Stored(similarity)})
    /\ UNCHANGED <<evidenceVars, events, vectorLinks, runLinks, opportunityLinks, stale, outdated, imports>>

ReplaceRunLinks(l) ==
    /\ linking[l].step = "runs"
    /\ runLinks' = linking[l].links /\ stale' = linking[l].old
    /\ linking' = [linking EXCEPT ![l] = Resting]
    /\ UNCHANGED <<evidenceVars, events, vectorLinks, opportunityLinks, outdated, imports>>

\* The process dies. Between the two transactions, the links of vectors are replaced alone.
LinkCrash(l) ==
    /\ linking[l] # Resting
    /\ linking' = [linking EXCEPT ![l] = Resting]
    /\ stale' = (stale \/ linking[l].step \in {"replaced", "runs"})
    /\ UNCHANGED <<evidenceVars, events, vectorLinks, runLinks, opportunityLinks, outdated, imports>>

-------------------------------------------------------------------------------
\* What was known at the observation is recent context, or a risk that comes by expiry.
OpportunityContext(event, r) == Known(event, r) /\ Effective(event) <= ExpiryTime

OpportunityLinksOf(seen) ==
    {x \in {e \in Event : seen[e] # Absent} \X Stored(opportunities) : OpportunityContext(seen[x[1]], x[2])}

ReadOpportunities(l) ==
    /\ linking[l].step = "opportunity events"
    /\ linking' = GoOn(l, "opportunities", OpportunityLinksOf(linking[l].seen))
    /\ UNCHANGED <<evidenceVars, events, vectorLinks, runLinks, opportunityLinks, stale, outdated, imports>>

ReplaceOpportunityLinks(l) ==
    /\ linking[l].step = "opportunities"
    /\ opportunityLinks' = linking[l].links /\ outdated' = linking[l].old
    /\ linking' = [linking EXCEPT ![l] = Resting]
    /\ UNCHANGED <<evidenceVars, events, vectorLinks, runLinks, stale, imports>>

\* A run of opportunities replaces its rows, and their links go with them (ON DELETE
\* CASCADE); nothing links them again.
RematerializeOpportunities(p) ==
    /\ PersistOpportunities(p)
    /\ opportunityLinks' = {x \in opportunityLinks : x[2] \notin work[p].sources}
    /\ UNCHANGED <<events, vectorLinks, runLinks, linking, stale, outdated, imports>>

\* The materializers go on meanwhile.
EvidenceMoves ==
    /\ \/ \E v \in Observation : MaterializeVector(v) \/ AnalyzeSimilarity(v)
       \/ \E p \in Program : \/ \E v \in Observation : ReadFutures(p, v) \/ AssessRun(p, v)
                             \/ UpsertOutcome(p) \/ ReadRuns(p) \/ Abandon(p)
    /\ UNCHANGED contextVars

HistoricalStep(l) ==
    \/ ReadEvents(l, "events") \/ ReadVectors(l) \/ ReplaceVectorLinks(l) \/ ReadSimilarityRuns(l) \/ ReplaceRunLinks(l)
OpportunityStep(l) == ReadEvents(l, "opportunity events") \/ ReadOpportunities(l) \/ ReplaceOpportunityLinks(l)

ContextStep ==
    \/ EvidenceMoves
    \/ \E p \in Program : RematerializeOpportunities(p)
    \/ \E e \in Event : ImportEvent(e)
    \/ \E l \in Linker : HistoricalStep(l) \/ OpportunityStep(l) \/ LinkCrash(l)

-------------------------------------------------------------------------------
\* news_event_lineage_and_leakage, by the three tables it reads.
VectorContextSound ==
    \A x \in vectorLinks : x.predictive <=> x.context # "DURING_HOLDING" /\ Known(events[x.event], x.vector)
OpportunityContextSound == \A x \in opportunityLinks : Known(events[x[1]], x[2]) /\ x[2] \in Stored(opportunities)
SimilarityContextSound == runLinks \subseteq PredictiveLinks(vectorLinks)

\* The events of a holding are never predictive, the others exactly if they were published
\* by the observation; events of opportunities were published by then; and the context of a
\* similarity run rests on a predictive one of its query. This is so after the last pass, if
\* no import and no other pass has overtaken it and it has written both tables, whatever is
\* imported and linked before and materialized meanwhile.
EventContextSound ==
    /\ ~ stale => VectorContextSound
    /\ ~ stale /\ At({"replaced", "runs"}) = {} => SimilarityContextSound
    /\ ~ outdated => OpportunityContextSound
===============================================================================
