----------------------------- MODULE HistoricalData -----------------------------
\* Canonical historical records: a payload of a source is normalized and stored in one
\* transaction as revisions of instruments, bars and corporate actions. A record is
\* what its checksum covers, the time it became available included; payloads come in
\* any order and again.
EXTENDS Integers, Sequences, SequencesExt

CONSTANTS
    Record,        \* natural keys of records
    Kind,          \* of each: "INSTRUMENT", "BAR" or "ACTION"
    Payload,       \* [records, sum, available, origin, permitted] of what may be imported
    ValidPayload   \* those whose dataset passes the validation

\* Finitely many payloads, each available at a time.
ASSUME PayloadsAreTyped ==
    /\ IsFiniteSet(Record) /\ IsFiniteSet(Payload)
    /\ \A p \in Payload : p.available \in Int /\ p.permitted \in BOOLEAN

VARIABLES
    revisions,     \* by record, by revision number
    current,       \* the revision that is_current, 0 for none
    incidents      \* historical_quality_incidents: the quarantined revisions

dataVars == <<revisions, current, incidents>>

DataInit ==
    /\ revisions = [k \in Record |-> <<>>]
    /\ current = [k \in Record |-> 0]
    /\ incidents = {}

\* The same checksum in any revision: a payload that comes again changes nothing.
OnFile(k, p) == \E n \in DOMAIN revisions[k] : revisions[k][n].sum = p.sum /\ revisions[k][n].available = p.available
Unseen(p) == {k \in p.records : ~ OnFile(k, p)}
Contested(p) == {k \in Unseen(p) : current[k] # 0 /\ revisions[k][current[k]].origin # p.origin}

\* Bars and actions refer to an instrument that is stored, or is in the payload.
Refers(p) == \E k \in Record : Kind[k] = "INSTRUMENT" /\ (k \in p.records \/ revisions[k] # <<>>)

\* A bar of another source than the current one is quarantined.
Revision(k, p) == [sum |-> p.sum, available |-> p.available, origin |-> p.origin,
                   accepted |-> k \notin Contested(p), supersedes |-> current[k]]

\* One transaction: an instrument or an action of another source raises, and takes the
\* whole payload with it; what is on file already is passed over.
PersistImport(p) ==
    /\ Refers(p) /\ \A k \in Contested(p) : Kind[k] = "BAR"
    /\ revisions' = [k \in Record |-> IF k \in Unseen(p) THEN Append(revisions[k], Revision(k, p)) ELSE revisions[k]]
    /\ current' = [k \in Record |-> IF k \in Unseen(p) \ Contested(p) THEN Len(revisions[k]) + 1 ELSE current[k]]
    /\ incidents' = incidents \union {<<k, Len(revisions[k]) + 1>> : k \in Contested(p)}

\* Retention must be permitted before the adapter is used, and the dataset valid.
ImportPayload(p) == p.permitted /\ p \in ValidPayload /\ PersistImport(p)

\* What a reader sees as of a time: the accepted revision with the largest number
\* among those available by then, whatever is current today.
Readable(k, asOf) == {n \in DOMAIN revisions[k] : revisions[k][n].accepted /\ revisions[k][n].available <= asOf}
ReadsAsOf(k, asOf) == Max(Readable(k, asOf))

-------------------------------------------------------------------------------
\* historical_data_foundation_lineage: a revision supersedes an earlier one of its key,
\* and nothing is stored whose retention is not allowed.
HistoricalDataFoundationLineage ==
    \A k \in Record : \A n \in DOMAIN revisions[k] :
        /\ revisions[k][n].supersedes \in 0..(n - 1)
        /\ \E p \in Payload : p.permitted /\ k \in p.records /\ p.sum = revisions[k][n].sum

\* The indexes on is_current: what is current is the last revision its source gave.
RevisionsSound ==
    \A k \in Record : \A n \in DOMAIN revisions[k] :
        LET r == revisions[k][n]
        IN  /\ r.accepted => n <= current[k] /\ r.origin = revisions[k][1].origin
            /\ ~ r.accepted <=> <<k, n>> \in incidents
            /\ r.supersedes # 0 => revisions[k][r.supersedes].accepted
===============================================================================
