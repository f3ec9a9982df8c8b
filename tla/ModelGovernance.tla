---------------------------- MODULE ModelGovernance ----------------------------
\* Promotion of a challenger model: experiments are registered and evaluated, a report
\* is proposed, owners approve or reject, and a decision appends role assignments.
\* Every table is append only and every insert is ON CONFLICT DO NOTHING.
EXTENDS Integers, FiniteSets

CONSTANTS
    Experiment,    \* each with a champion and a challenger of its own
    Role,          \* required_approval_roles of the policy
    Approver,      \* people; one may act in several roles
    Minimum,       \* minimum_shadow_sessions of the policy
    MaxSessions,   \* bound on the shadow sessions proposed
    MaxProposals,  \* bound on the proposals that are recorded
    MaxVerdicts,   \* bound on the approvals that are recorded
    Decider        \* processes that decide at the same time

VARIABLES
    reports,       \* research_evaluation_reports_v3: [experiment, eligible]
    proposals,     \* model_promotion_proposals_v3: [report, sessions]
    approvals,     \* governance_approvals_v3: [proposal, role, approver, verdict]
    decisions,     \* model_promotion_decisions_v3: [proposal, state, of, ready]
    assignments,   \* model_role_assignments_v3: [experiment, model, role, source]
    rollbacks,     \* model_rollback_metadata_v3, by decision
    deciding       \* by decider: what decide has read, a set of at most one record

governanceVars == <<reports, proposals, approvals, decisions, assignments, rollbacks, deciding>>
NoSource == {}     \* an assignment made by a registration

GovernanceInit ==
    /\ reports = {} /\ proposals = {} /\ approvals = {} /\ decisions = {}
    /\ assignments = {} /\ rollbacks = {}
    /\ deciding = [d \in Decider |-> {}]

Assignment(e, model, role, source) == [experiment |-> e, model |-> model, role |-> role, source |-> source]

\* The first roles of the two models are assigned at registration.
Register(e) ==
    /\ assignments' = assignments \union {Assignment(e, "champion", "CHAMPION", NoSource),
                                          Assignment(e, "challenger", "CHALLENGER", NoSource)}
    /\ UNCHANGED <<reports, proposals, approvals, decisions, rollbacks, deciding>>

\* Whether the challenger is superior on the test period and the audits pass depends on
\* the observations; other observations give another report.
Evaluate(e) ==
    /\ \E a \in assignments : a.experiment = e
    /\ \E superior, clean \in BOOLEAN : reports' = reports \union {[experiment |-> e, eligible |-> superior /\ clean]}
    /\ UNCHANGED <<proposals, approvals, decisions, assignments, rollbacks, deciding>>

Propose(report, sessions) ==
    /\ report \in reports
    /\ Cardinality(proposals) < MaxProposals
    /\ proposals' = proposals \union {[report |-> report, sessions |-> sessions]}
    /\ UNCHANGED <<reports, approvals, decisions, assignments, rollbacks, deciding>>

\* One verdict for each proposal, role and approver: a second one is ignored.
Approve(p, role, approver, verdict) ==
    /\ Cardinality(approvals) < MaxVerdicts
    /\ approvals' = approvals \union
           (IF \E a \in approvals : a.proposal = p /\ a.role = role /\ a.approver = approver THEN {}
            ELSE {[proposal |-> p, role |-> role, approver |-> approver, verdict |-> verdict]})
    /\ UNCHANGED <<reports, proposals, decisions, assignments, rollbacks, deciding>>

-------------------------------------------------------------------------------
\* decide reads the proposal, its approvals and the release audit, one after another.
ReadApprovals(d, p) ==
    /\ deciding[d] = {}
    /\ \E ready \in BOOLEAN :
          deciding' = [deciding EXCEPT ![d] = {[proposal |-> p, of |-> {a \in approvals : a.proposal = p}, ready |-> ready]}]
    /\ UNCHANGED <<reports, proposals, approvals, decisions, assignments, rollbacks>>

\* Mutant: of each role, some approval is enough.
VerdictOfAny(read) ==
    LET granted(role) == \E a \in read.of : a.role = role /\ a.verdict = "APPROVE"
    IN  IF /\ read.proposal.report.eligible /\ read.proposal.sessions >= Minimum /\ read.ready
           /\ \A role \in Role : granted(role)
        THEN "APPROVED" ELSE "REJECTED"

\* Every role is approved and nobody has rejected.
Verdict(read) ==
    IF /\ read.proposal.report.eligible /\ read.proposal.sessions >= Minimum /\ read.ready
       /\ \A role \in Role : \E a \in read.of : a.role = role
       /\ \A a \in read.of : a.verdict # "REJECT"
    THEN "APPROVED" ELSE "REJECTED"

\* The identity of a decision is its proposal with its state.
Identity(p, state) == {<<p, state>>}
Decided(p) == {d \in decisions : d.proposal = p}

\* What an approval appends: the old champion is retired, the challenger promoted.
Promotion(p) ==
    LET e == p.report.experiment
    IN  {Assignment(e, "champion", "RETIRED", Identity(p, "APPROVED")),
         Assignment(e, "challenger", "CHAMPION", Identity(p, "APPROVED"))}

\* One decision per proposal: a later one is ignored. The assignments and the rollback
\* of one that is ignored refer to a decision that is not there, which raises.
PersistDecision(d) ==
    \E read \in deciding[d] :
        LET p == read.proposal
            state == Verdict(read)
            stored == IF Decided(p) = {} THEN {[proposal |-> p, state |-> state, of |-> read.of, ready |-> read.ready]} ELSE {}
            refused == state = "APPROVED" /\ \E other \in Decided(p) : other.state # state
        IN  /\ decisions' = decisions \union stored
            /\ IF state = "APPROVED" /\ ~ refused
               THEN assignments' = assignments \union Promotion(p) /\ rollbacks' = rollbacks \union {Identity(p, state)}
               ELSE UNCHANGED <<assignments, rollbacks>>
            /\ deciding' = [deciding EXCEPT ![d] = {}]
            /\ UNCHANGED <<reports, proposals, approvals>>

\* The process dies, or a read raises.
AbandonDecision(d) ==
    /\ deciding[d] # {}
    /\ deciding' = [deciding EXCEPT ![d] = {}]
    /\ UNCHANGED <<reports, proposals, approvals, decisions, assignments, rollbacks>>

GovernanceStep ==
    \/ \E e \in Experiment : Register(e) \/ Evaluate(e)
    \/ \E report \in reports, sessions \in 0..MaxSessions : Propose(report, sessions)
    \/ \E p \in proposals, role \in Role, approver \in Approver, verdict \in {"APPROVE", "REJECT"} :
          Approve(p, role, approver, verdict)
    \/ \E d \in Decider : (\E p \in proposals : ReadApprovals(d, p)) \/ PersistDecision(d) \/ AbandonDecision(d)

-------------------------------------------------------------------------------
\* research_governance_lineage_and_safety of the release audit: an approved decision
\* had the sessions, the readiness and an approval in every role, of an eligible report.
ResearchGovernanceLineage ==
    \A d \in decisions : d.state = "APPROVED" =>
        /\ d.proposal.report.eligible /\ d.proposal.sessions >= Minimum /\ d.ready
        /\ {a.role : a \in {x \in approvals : x.proposal = d.proposal /\ x.verdict = "APPROVE"}} = Role

\* With what the audit implies for the assignments: no champion comes of a proposal
\* that was not approved by every role over nobody's rejection, whoever decides at the
\* same time, and a decision and its assignments and rollback are there together or not.
PromotionsAreApproved ==
    /\ ResearchGovernanceLineage
    /\ \A d, other \in decisions : d.proposal = other.proposal => d = other
    /\ \A d \in decisions :
          LET promoted == Promotion(d.proposal)
              undo == Identity(d.proposal, "APPROVED")
          IN  IF d.state = "APPROVED"
              THEN /\ \A a \in d.of : a.verdict = "APPROVE"
                   /\ promoted \subseteq assignments /\ undo \in rollbacks
              ELSE promoted \intersect assignments = {} /\ undo \notin rollbacks
    /\ \A a \in assignments : a.source # NoSource =>
          \E d \in decisions : d.state = "APPROVED" /\ a \in Promotion(d.proposal)
===============================================================================
