------------------------------ MODULE Calibration ------------------------------
\* Calibration of the scores of opportunity candidates against their outcomes, and the
\* evaluation of a candidate by a recommendation policy. Rows are immutable and a row
\* whose identity is there is not inserted again. Time counts days.
EXTENDS Integers, Sequences, FiniteSets, FiniteSetsExt

CONSTANTS
    Candidate,     \* opportunity candidates
    StrategyOf,    \* strategy of each
    SeenAt,        \* its observed_at
    EndsAt,        \* terminal_at of its outcome
    Scored,        \* the candidates with a historical win rate
    Flaws,         \* gates that the candidate fails by its own evidence
    Policy,        \* calibration policies as [strategy, minimum]
    Period,        \* start and end of each research period by name
    Embargo,       \* days without evidence at the start of a period
    Purge,         \* and at its end
    Cutoff,        \* days as of which runs are made
    EvaluatedAt,   \* times of evaluations
    MaxCalibrations, \* bound on the runs
    MaxEvaluations \* bound on the evaluations

\* What the policy checks of itself: four periods, ordered and disjoint.
ASSUME PolicyIsValid ==
    /\ Embargo \in Nat /\ Purge \in Nat
    /\ Period \in [{"TRAIN", "VALIDATION", "CALIBRATION", "TEST"} -> [start : Int, end : Int]]
    /\ \A name \in DOMAIN Period : Period[name].start <= Period[name].end
    /\ Period["TRAIN"].end < Period["VALIDATION"].start /\ Period["VALIDATION"].end < Period["CALIBRATION"].start
    /\ Period["CALIBRATION"].end < Period["TEST"].start
ASSUME CandidatesAreTyped == SeenAt \in [Candidate -> Int] /\ EndsAt \in [Candidate -> Int] /\ Cutoff \subseteq Int

VARIABLES
    realized,      \* candidates whose outcome is stored as COMPLETE
    calibrations,  \* calibration_runs_v2 with their lineage
    evaluations    \* recommendation_evaluations_v2

calibrationVars == <<realized, calibrations, evaluations>>

CalibrationInit == realized = {} /\ calibrations = {} /\ evaluations = {}

\* The outcome of a candidate is stored.
Complete(c) ==
    /\ realized' = realized \union {c}
    /\ UNCHANGED <<calibrations, evaluations>>

Observations(policy, cutoff) ==
    {c \in realized : StrategyOf[c] = policy.strategy /\ SeenAt[c] <= cutoff /\ EndsAt[c] <= cutoff}

PeriodsOf(c) == {name \in DOMAIN Period : Period[name].start <= SeenAt[c] /\ SeenAt[c] <= Period[name].end}

\* Mutant: the outcome may end after the period.
IncludedBeyond(c, name) ==
    /\ SeenAt[c] >= Period[name].start + Embargo /\ SeenAt[c] <= Period[name].end - Purge
    /\ c \in Scored
    /\ name \in {"CALIBRATION", "TEST"}

\* The reasons to exclude evidence, of which the first one is stored.
Included(c, name) ==
    /\ EndsAt[c] <= Period[name].end
    /\ SeenAt[c] >= Period[name].start + Embargo /\ SeenAt[c] <= Period[name].end - Purge
    /\ c \in Scored
    /\ name \in {"CALIBRATION", "TEST"}

Lineage(policy, cutoff) ==
    (UNION {{[candidate |-> c, period |-> name, included |-> Included(c, name)] : name \in PeriodsOf(c)} :
                c \in Observations(policy, cutoff)})
    \union {[candidate |-> c, period |-> "NONE", included |-> FALSE] :
               c \in {d \in Observations(policy, cutoff) : PeriodsOf(d) = {}}}

Part(lineage, name) == {x.candidate : x \in {y \in lineage : y.included /\ y.period = name}}

\* The effective sample size, the calibration error and the bootstrap of the returns
\* depend on data left out here; there is no bootstrap of less than two returns.
CalibrationRun(policy, cutoff, ess, passed) ==
    LET lineage == Lineage(policy, cutoff)
        fit == Part(lineage, "CALIBRATION")
        calibrated == Cardinality(fit) >= policy.minimum /\ ess
    IN  [policy |-> policy, cutoff |-> cutoff, lineage |-> lineage, sample |-> Cardinality(fit), calibrated |-> calibrated,
         passed |-> IF ~ calibrated THEN {} ELSE IF Cardinality(fit) < 2 THEN passed \ {"ev"} ELSE passed]

\* The identity of a run is its policy, its cutoff and the checksum of its lineage.
SameRun(r, s) == r.policy = s.policy /\ r.cutoff = s.cutoff /\ r.lineage = s.lineage

MaterializeCalibration(policy, cutoff) ==
    /\ Cardinality(calibrations) < MaxCalibrations
    /\ \E ess \in BOOLEAN, passed \in SUBSET {"calibration", "ev"} :
          LET run == CalibrationRun(policy, cutoff, ess, passed)
          IN  calibrations' = calibrations \union (IF \E r \in calibrations : SameRun(r, run) THEN {} ELSE {run})
    /\ UNCHANGED <<realized, evaluations>>

-------------------------------------------------------------------------------
GateOrder == <<"sample", "calibration", "uncertainty", "ev", "concentration", "ood", "quality", "drift", "liquidity", "release">>
StateOfGate ==
    [sample |-> "INSUFFICIENT_EVIDENCE", calibration |-> "UNCALIBRATED", uncertainty |-> "UNCERTAIN",
     ev |-> "NEGATIVE_CONSERVATIVE_EV", concentration |-> "CONCENTRATED_EVIDENCE", ood |-> "OUT_OF_DISTRIBUTION",
     quality |-> "DATA_QUALITY_FAILURE", drift |-> "DRIFT_SUSPENDED", liquidity |-> "ILLIQUID", release |-> "INELIGIBLE"]

ASSUME FlawsAreGates == \A c \in Candidate : \A g \in Flaws[c] : \E n \in DOMAIN GateOrder : g = GateOrder[n]

\* The policies differ in strategy and sample size only: a calibrated run passes the
\* gate of the effective sample size. A candidate with a win rate is provisional.
FailedGates(c, run, policy, wide, ready) ==
    ({"calibration", "ev"} \ run.passed)
    \union (IF run.sample >= policy.minimum THEN {} ELSE {"sample"})
    \union (IF wide THEN {"uncertainty"} ELSE {})
    \union Flaws[c]
    \union (IF ready THEN {} ELSE {"release"})

\* A run that is not found, or not calibrated, or a candidate without a win rate.
Evaluation(c, run, policy, wide, ready) ==
    IF \E r \in run : r.calibrated /\ c \in Scored
    THEN LET failed == {n \in DOMAIN GateOrder : \E r \in run : GateOrder[n] \in FailedGates(c, r, policy, wide, ready)}
         IN  IF failed = {} THEN "ELIGIBLE" ELSE StateOfGate[GateOrder[Min(failed)]]
    ELSE "UNCALIBRATED"

\* The release audit is run for the gate: its verdict may differ from call to call. The
\* policy of the evaluation is stored with a run of its own.
EvaluateCandidate(c, run, policy, at) ==
    /\ \E r \in calibrations : r.policy = policy
    /\ Cardinality(evaluations) < MaxEvaluations
    /\ \E wide, ready \in BOOLEAN :
          LET row == [candidate |-> c, run |-> run, policy |-> policy, at |-> at, wide |-> wide, ready |-> ready,
                      state |-> Evaluation(c, run, policy, wide, ready)]
              stored == {e \in evaluations : e.candidate = c /\ e.run = run /\ e.policy = policy}
          IN  evaluations' = evaluations \union (IF stored = {} THEN {row} ELSE {})
    /\ UNCHANGED <<realized, calibrations>>

CalibrationStep ==
    \/ \E c \in Candidate : Complete(c)
    \/ \E policy \in Policy, cutoff \in Cutoff : MaterializeCalibration(policy, cutoff)
    \/ \E c \in Candidate, run \in {{}} \union {{r} : r \in calibrations}, policy \in Policy, at \in EvaluatedAt :
          EvaluateCandidate(c, run, policy, at)

-------------------------------------------------------------------------------
\* calibration_v2_lineage_and_leakage of the release audit: what a run is fitted on was
\* known at its cutoff, and it ended before anything was observed that the run is tested
\* on. An eligible recommendation passed every gate: its run is calibrated and passes
\* those of calibration and expected value, its interval is narrow, nothing is wrong with
\* its candidate, the release was ready, and the run was fitted on as many candidates of
\* one strategy as the policy of the evaluation requires. That this is the strategy of
\* that policy is not said: the run and the policy are whatever the caller names.
CalibrationLineage ==
    /\ \A run \in calibrations :
          /\ \A x \in run.lineage : x.included => EndsAt[x.candidate] <= run.cutoff
          /\ \A fitted \in Part(run.lineage, "CALIBRATION"), tested \in Part(run.lineage, "TEST") :
                fitted # tested /\ EndsAt[fitted] < SeenAt[tested]
          /\ \A other \in calibrations : SameRun(run, other) => run = other
    /\ \A e \in evaluations : e.state = "ELIGIBLE" =>
          /\ e.ready /\ ~ e.wide /\ e.candidate \in Scored /\ Flaws[e.candidate] = {}
          /\ \E run \in calibrations :
                /\ e.run = {run} /\ run.calibrated /\ {"calibration", "ev"} \subseteq run.passed
                /\ Cardinality(Part(run.lineage, "CALIBRATION")) >= e.policy.minimum
                /\ \A c \in Part(run.lineage, "CALIBRATION") : StrategyOf[c] = run.policy.strategy
================================================================================
