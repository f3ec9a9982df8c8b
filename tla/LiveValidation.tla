----------------------------- MODULE LiveValidation -----------------------------
\* Shadow validation of evaluated recommendations: an evaluation is frozen as a snapshot,
\* the bars after it decide what would have come of it, as of one time after another,
\* and drift of the figures suspends a policy. Rows are immutable.
EXTENDS Calibration

CONSTANTS
    BarAt,         \* closing times of the bars of the contract
    LastImport,    \* last time at which a bar becomes available
    MaxBars,       \* bound on the revisions of bars
    AsOfTimes,     \* times as of which outcomes are calculated
    Timeout,       \* timeout_seconds of the policy
    LastDay,       \* expiry of the contract
    MinimumSessions, \* minimum_shadow_sessions
    Watch, Degraded, Suspended, \* thresholds of the drift
    MaxDrifts      \* bound on the evaluations of drift

ASSUME InstantsAreIntegers == BarAt \subseteq Int /\ EvaluatedAt \subseteq Int /\ LastImport \in Int

VARIABLES
    snapshots,     \* recommendation_snapshots_v2: [evaluation, state]
    prices,        \* accepted raw bars: [close, revision, available, touch]
    observations,  \* recommendation_validation_observations_v2: [of, bar]
    fills,         \* recommendation_fills_v2: [of, type, at]
    results,       \* recommendation_outcomes_v2
    drifts,        \* validation_drift_evaluations_v2
    suspensions    \* validation_policy_suspensions_v2, by drift evaluation

validationVars == <<snapshots, prices, observations, fills, results, drifts, suspensions>>

ValidationInit ==
    /\ snapshots = {} /\ prices = {} /\ observations = {} /\ fills = {} /\ results = {}
    /\ drifts = {} /\ suspensions = {}

Rejecting == {"INELIGIBLE", "ILLIQUID", "NEGATIVE_CONSERVATIVE_EV", "DATA_QUALITY_FAILURE", "DRIFT_SUSPENDED"}
ValidationState(state) == IF state = "ELIGIBLE" THEN "ELIGIBLE" ELSE IF state \in Rejecting THEN "REJECTED" ELSE "ABSTAINED"

\* The source of a snapshot is joined with the calibration run: without one the
\* evaluation is not found.
Snapshot(e) ==
    /\ e.run # {}
    /\ snapshots' = snapshots \union {[evaluation |-> e, state |-> ValidationState(e.state)]}
    /\ UNCHANGED <<prices, observations, fills, results, drifts, suspensions>>

\* What a bar reaches of the entry zone, the targets and the stop; a bar from target to
\* stop covers the entry zone between them.
Touches == SUBSET {"entry", "target", "stop"} \ {{"target", "stop"}}

\* The historical data foundation stores a revision of a bar, late or in time.
ImportBar(close, available, touch) ==
    LET known == {b \in prices : b.close = close}
    IN  /\ available >= close /\ Cardinality(prices) < MaxBars
        /\ \A b \in known : b.available <= available /\ b.touch # touch
        /\ prices' = prices \union {[close |-> close, revision |-> Cardinality(known) + 1, available |-> available, touch |-> touch]}
        /\ UNCHANGED <<snapshots, observations, fills, results, drifts, suspensions>>

\* The newest revision available of each bar that closed after the recommendation.
PathOf(s, asOf) ==
    {b \in prices : /\ b.close > s.evaluation.at /\ b.available <= asOf
                    /\ ~ \E later \in prices : later.close = b.close /\ later.available <= asOf /\ later.revision > b.revision}

Earliest(bars) == CHOOSE b \in bars : \A c \in bars : b.close <= c.close
Latest(bars) == CHOOSE b \in bars : \A c \in bars : b.close >= c.close
Entries(path) == {b \in path : "entry" \in b.touch}

\* Mutant: a touch before the entry counts.
TouchedAnywhere(path) == {b \in path : b.touch \intersect {"target", "stop"} # {}}

\* Bars that reach a target or the stop, from the entry on.
Touched(path) == {b \in path : b.close >= Earliest(Entries(path)).close /\ b.touch \intersect {"target", "stop"} # {}}

Resolved(reason, bar) == [state |-> "FILLED", reason |-> reason, at |-> bar.close]
Unresolved(state) == [state |-> state, reason |-> "none", at |-> 0]

NotEntered(s, asOf) ==
    IF asOf > LastDay THEN Unresolved("EXPIRED")
    ELSE IF asOf - s.evaluation.at >= Timeout THEN Unresolved("UNFILLED") ELSE Unresolved("UNRESOLVED")

\* The first touch decides; the timeout does so only while nothing is touched.
Entered(path, asOf) ==
    LET first == Earliest(Touched(path))
    IN  IF Touched(path) # {}
        THEN IF {"target", "stop"} \subseteq first.touch
             THEN [state |-> "INSUFFICIENT_PATH", reason |-> "none", at |-> first.close]
             ELSE Resolved(IF "target" \in first.touch THEN "TARGET" ELSE "STOP", first)
        ELSE IF asOf - Earliest(Entries(path)).close >= Timeout THEN Resolved("TIMEOUT", Latest(path))
        ELSE Unresolved("UNRESOLVED")

Result(s, path, asOf) ==
    IF s.state # "ELIGIBLE" THEN Unresolved(s.state)
    ELSE IF path = {} THEN Unresolved("INSUFFICIENT_PATH")
    ELSE IF Entries(path) = {} THEN NotEntered(s, asOf)
    ELSE Entered(path, asOf)

\* The first fill that the user recorded by then, or one simulated at the entry.
FillOf(s, path, asOf) ==
    LET recorded == {f \in fills : f.of = s /\ f.type = "USER_RECORDED" /\ f.at <= asOf}
    IN  IF s.state # "ELIGIBLE" \/ Entries(path) = {} THEN {}
        ELSE IF recorded # {} THEN {CHOOSE f \in recorded : \A g \in recorded : f.at <= g.at}
        ELSE {[of |-> s, type |-> "SIMULATED", at |-> Earliest(Entries(path)).close]}

\* One transaction. An outcome as of a time that has one is ignored, its observations
\* and its fill are not.
MaterializeValidation(s, asOf) ==
    LET path == PathOf(s, asOf)
        stored == {r \in results : r.of = s /\ r.asOf = asOf}
        row == [of |-> s, asOf |-> asOf, path |-> path, fill |-> FillOf(s, path, asOf), outcome |-> Result(s, path, asOf)]
    IN  /\ observations' = observations \union {[of |-> s, bar |-> b] : b \in path}
        /\ fills' = fills \union row.fill
        /\ results' = results \union (IF stored = {} THEN {row} ELSE {})
        /\ UNCHANGED <<snapshots, prices, drifts, suspensions>>

RecordUserFill(s, at) ==
    /\ fills' = fills \union {[of |-> s, type |-> "USER_RECORDED", at |-> at]}
    /\ UNCHANGED <<snapshots, prices, observations, results, drifts, suspensions>>

\* The largest of the drifts that are known, if one is.
DriftState(known, sessions) ==
    IF sessions < MinimumSessions \/ known = {} THEN "INSUFFICIENT_EVIDENCE"
    ELSE IF \E x \in known : x >= Suspended THEN "SUSPENDED"
    ELSE IF \E x \in known : x >= Degraded THEN "DEGRADED"
    ELSE IF \E x \in known : x >= Watch THEN "WATCH" ELSE "HEALTHY"

EvaluateDrift(known, sessions) ==
    LET row == [known |-> known, sessions |-> sessions, state |-> DriftState(known, sessions)]
    IN  /\ drifts' = drifts \union {row}
        /\ suspensions' = suspensions \union (IF row.state = "SUSPENDED" THEN {row} ELSE {})
        /\ UNCHANGED <<snapshots, prices, observations, fills, results>>

DriftStep == \E known \in SUBSET {0, Watch, Degraded, Suspended}, sessions \in {0, MinimumSessions} :
    Cardinality(drifts) < MaxDrifts /\ EvaluateDrift(known, sessions)

ValidationStep ==
    \/ \E e \in evaluations : Snapshot(e)
    \/ \E close \in BarAt, available \in 0..LastImport, touch \in Touches : ImportBar(close, available, touch)
    \/ \E s \in snapshots : \/ \E asOf \in AsOfTimes : MaterializeValidation(s, asOf)
                            \/ \E at \in EvaluatedAt : RecordUserFill(s, at)

-------------------------------------------------------------------------------
\* An observation lies after the recommendation, an outcome refers to a fill of its
\* own, and every suspending drift has suspended the policy.
LiveValidationLineage ==
    /\ \A s \in snapshots : s.state = "ELIGIBLE" <=> s.evaluation.state = "ELIGIBLE"
    /\ \A o \in observations : o.bar.close > o.of.evaluation.at /\ o.bar.available >= o.bar.close
    /\ \A r \in results : /\ r.fill \subseteq {f \in fills : f.of = r.of}
                          /\ \A b \in r.path : [of |-> r.of, bar |-> b] \in observations
                          /\ r.outcome.reason # "none" => r.fill # {}
    /\ \A d \in drifts : d.state = "SUSPENDED" <=> d \in suspensions

\* What was once found to have been touched first after an entry is found again as of
\* every later time, unless bars of until then arrived late or were corrected.
TouchesAreFinal ==
    \A r, later \in results :
        /\ r.of = later.of /\ r.asOf < later.asOf
        /\ r.outcome.reason \in {"TARGET", "STOP"}
        /\ {b \in later.path : b.close <= r.outcome.at} = {b \in r.path : b.close <= r.outcome.at}
        => later.outcome = r.outcome

\* A target or stop was reached with the entry or after it, and between the entry and
\* that touch nothing else was.
TouchesFollowEntry ==
    \A r \in results : r.outcome.reason \in {"TARGET", "STOP"} =>
        \E entry, touch \in r.path :
            /\ "entry" \in entry.touch /\ entry.close <= touch.close /\ touch.close = r.outcome.at
            /\ \A b \in r.path : b.close >= entry.close /\ b.close < touch.close => b.touch \subseteq {"entry"}
            /\ touch.touch \ {"entry"} = {IF r.outcome.reason = "TARGET" THEN "target" ELSE "stop"}

RecommendationsHold == CalibrationLineage /\ LiveValidationLineage /\ TouchesAreFinal /\ TouchesFollowEntry
=================================================================================
