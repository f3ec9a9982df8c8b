-------------------------------- MODULE Research --------------------------------
\* The research side of the system: calculations, the option research chain, the two
\* generations of evidence with their news context and canonical records, recommendations
\* and their validation, the promotion of models. None of these writes a table of another one, so that each
\* behaviour follows one of them while the others rest.
EXTENDS OptionEngines, OptionLineage, EventContext, PointInTime, LiveValidation, ModelGovernance

CONSTANT
    Groups         \* those that are checked

VARIABLE
    group          \* which of them a behaviour follows

researchVars == <<group, engineVars, lineageVars, evidenceVars, contextVars, pointVars, calibrationVars, validationVars, governanceVars>>

\* A policy has been calibrated and has evaluated a candidate of its test period.
Recommended ==
    /\ realized = Candidate
    /\ \E policy \in Policy, cutoff \in Cutoff, at \in EvaluatedAt :
          LET run == CalibrationRun(policy, cutoff, TRUE, {"calibration", "ev"})
          IN  /\ run.calibrated /\ calibrations = {run}
              /\ \E c \in Part(run.lineage, "TEST"), wide \in BOOLEAN :
                    evaluations = {[candidate |-> c, run |-> {run}, policy |-> policy, at |-> at, wide |-> wide, ready |-> TRUE,
                                    state |-> Evaluation(c, {run}, policy, wide, TRUE)]}

Init ==
    /\ group \in Groups
    /\ IF group = "engines" THEN EngineInit ELSE problem = <<>> /\ answer = <<>>
    /\ LineageInit /\ EvidenceInit /\ ContextInit /\ PointInit /\ GovernanceInit
    /\ ValidationInit /\ IF group = "validation" THEN Recommended ELSE CalibrationInit

\* The first generation of evidence is followed under several names; the bounds of an
\* instance tell them apart.
EvidenceGroups == {"evidence", "overlap", "rankings", "events", "passes", "prospects"}

Follow(name) == group = name /\ UNCHANGED group

Next ==
    \/ /\ Follow("engines") /\ EngineStep
       /\ UNCHANGED <<lineageVars, evidenceVars, contextVars, pointVars, calibrationVars, validationVars, governanceVars>>
    \/ /\ Follow("lineage") /\ LineageStep
       /\ UNCHANGED <<engineVars, evidenceVars, contextVars, pointVars, calibrationVars, validationVars, governanceVars>>
    \/ /\ (\E name \in EvidenceGroups : Follow(name)) /\ ContextStep
       /\ UNCHANGED <<engineVars, lineageVars, pointVars, calibrationVars, validationVars, governanceVars>>
    \/ /\ Follow("points") /\ PointStep
       /\ UNCHANGED <<engineVars, lineageVars, evidenceVars, contextVars, calibrationVars, validationVars, governanceVars>>
    \/ /\ Follow("governance") /\ GovernanceStep
       /\ UNCHANGED <<engineVars, lineageVars, evidenceVars, contextVars, pointVars, calibrationVars, validationVars>>
    \/ /\ Follow("recommendations")
       /\ \/ CalibrationStep /\ UNCHANGED validationVars
          \/ (\E e \in evaluations : Snapshot(e)) /\ UNCHANGED calibrationVars
       /\ UNCHANGED <<engineVars, lineageVars, evidenceVars, contextVars, pointVars, governanceVars>>
    \/ /\ (Follow("validation") /\ ValidationStep) \/ (Follow("drift") /\ DriftStep)
       /\ UNCHANGED <<engineVars, lineageVars, evidenceVars, contextVars, pointVars, calibrationVars, governanceVars>>

\* The release audits of the second generation of evidence, and what they imply.
SecondGenerationSound == PointInTime /\ RecommendationsHold

Spec == Init /\ [][Next]_researchVars
=================================================================================
