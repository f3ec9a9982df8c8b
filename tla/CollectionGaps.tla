----------------------------- MODULE CollectionGaps -----------------------------
\* Coverage gaps of the continuous collection: one check compares the expected bars
\* with those observed, another call schedules a repair for each open gap. The calls
\* are made by hand or by a scheduler, may overlap, die, and come again; the bars
\* arrive from the work items of the queue, which CollectionQueue models.
EXTENDS Integers, FiniteSets

CONSTANTS
    Interval,      \* expected intervals of one instrument and session
    Checker,       \* calls of detect_gaps
    Repairer,      \* calls of schedule_repairs
    GapLimit,      \* limit of open_gaps
    MaxLosses      \* bound on the calls that die

VARIABLES
    observed,      \* intervals with an accepted current bar
    gaps,          \* continuous_coverage_gaps: status by interval
    repairs,       \* continuous_repair_jobs: intervals that have one
    work,          \* repair work items of the queue: status by interval
    checking,      \* by checker: the missing intervals it still has to insert
    repairing,     \* by repairer: gaps it read and the one it schedules the work of
    lost           \* history: repairs whose call died before their work was scheduled

gapVars == <<observed, gaps, repairs, work, checking, repairing, lost>>

GapInit ==
    /\ observed = {} /\ repairs = {} /\ lost = {}
    /\ gaps = [k \in Interval |-> "none"]
    /\ work = [k \in Interval |-> "none"]
    /\ checking = [c \in Checker |-> {}]
    /\ repairing = [r \in Repairer |-> [left |-> {}, doing |-> {}]]

\* A bar arrives, for a work item or on its own.
BarArrives(k) ==
    /\ observed' = observed \union {k}
    /\ work' = [work EXCEPT ![k] = IF @ = "PENDING" THEN "COMPLETED" ELSE @]
    /\ UNCHANGED <<gaps, repairs, checking, repairing, lost>>

\* The observed bars are read once, then every missing interval is inserted.
DetectGaps(c) ==
    /\ checking[c] = {}
    /\ checking' = [checking EXCEPT ![c] = Interval \ observed]
    /\ UNCHANGED <<observed, gaps, repairs, work, repairing, lost>>

\* ON CONFLICT DO NOTHING: a gap that was found before keeps its status.
InsertGap(c) ==
    /\ \E k \in checking[c] :
          /\ gaps' = [gaps EXCEPT ![k] = IF @ = "none" THEN "OPEN" ELSE @]
          /\ checking' = [checking EXCEPT ![c] = @ \ {k}]
    /\ UNCHANGED <<observed, repairs, work, repairing, lost>>

OpenGaps(r) ==
    /\ repairing[r] = [left |-> {}, doing |-> {}]
    /\ LET open == {k \in Interval : gaps[k] = "OPEN"}
       IN  \E read \in SUBSET open :
              /\ Cardinality(read) = GapLimit \/ (read = open /\ Cardinality(open) < GapLimit)
              /\ repairing' = [repairing EXCEPT ![r].left = read]
    /\ UNCHANGED <<observed, gaps, repairs, work, checking, lost>>

\* The repair job and the status of its gap in one transaction; a gap that has a job
\* is passed over.
CreateRepair(r) ==
    /\ repairing[r].doing = {}
    /\ \E k \in repairing[r].left :
          /\ repairing' = [repairing EXCEPT ![r] = [left |-> @.left \ {k}, doing |-> {k} \ repairs]]
          /\ repairs' = repairs \union {k}
          /\ gaps' = [gaps EXCEPT ![k] = IF k \in repairs THEN @ ELSE "REPAIR_SCHEDULED"]
    /\ UNCHANGED <<observed, work, checking, lost>>

\* The work item in another one; its identity is that of the gap.
ScheduleRepair(r) ==
    /\ \E k \in repairing[r].doing :
          work' = [work EXCEPT ![k] = IF @ = "none" THEN "PENDING" ELSE @]
    /\ repairing' = [repairing EXCEPT ![r].doing = {}]
    /\ UNCHANGED <<observed, gaps, repairs, checking, lost>>

\* A call dies or raises: what it still had to do is left.
GapCallDies ==
    /\ Cardinality(lost) < MaxLosses
    /\ \/ \E c \in Checker : checking' = [checking EXCEPT ![c] = {}] /\ UNCHANGED <<repairing, lost>>
       \/ \E r \in Repairer : /\ repairing' = [repairing EXCEPT ![r] = [left |-> {}, doing |-> {}]]
                              /\ lost' = lost \union repairing[r].doing
                              /\ UNCHANGED checking
    /\ UNCHANGED <<observed, gaps, repairs, work>>

GapStep ==
    \/ \E k \in Interval : BarArrives(k)
    \/ \E c \in Checker : DetectGaps(c) \/ InsertGap(c)
    \/ \E r \in Repairer : OpenGaps(r) \/ CreateRepair(r) \/ ScheduleRepair(r)
    \/ GapCallDies

-------------------------------------------------------------------------------
\* continuous_collection_lineage for repairs, and "gaps create idempotent repair work"
\* (docs/ARCHITECTURE.md): however checks and repairs overlap, a gap is scheduled when
\* and only when it has its one job, and the job has its work item unless the call
\* is just between the two transactions, or died there.
RepairsAreBacked ==
    \A k \in Interval :
        /\ gaps[k] = "REPAIR_SCHEDULED" <=> k \in repairs
        /\ work[k] # "none" => k \in repairs
        /\ k \in repairs /\ work[k] = "none" => k \in lost \/ \E r \in Repairer : k \in repairing[r].doing
================================================================================
