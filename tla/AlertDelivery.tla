----------------------------- MODULE AlertDelivery -----------------------------
\* Alerts from persisted outputs (services/alert_service.py and its repository). A
\* notifier is one call of generate_and_deliver; calls may run at the same time and
\* are repeated. Signals, risk decisions and pipeline runs are written by others.
EXTENDS Naturals, Sequences, FiniteSets, SequencesExt

CONSTANTS
    Notifier,      \* processes that call generate_and_deliver
    Source,        \* rows an alert may be about
    Kind,          \* source type of each: SIGNAL, RISK_DECISION or PIPELINE_HEALTH
    Channels,      \* sequence of channel names
    Limit,         \* candidates per call
    MaxAborts      \* bound: failed deliveries, crashes and statements that raise

ASSUME NotifiersAreFinite == IsFiniteSet(Notifier)

VARIABLES
    fact,          \* the source rows: severity as an alert, and time it occurred
    alert,         \* alert_events: severity of the alert about a source
    attempts,      \* alert_delivery_attempts of an alert on a channel, by number
    sent,          \* what the channel really got, counted
    caller,        \* local state of a notifier
    aborts         \* failed deliveries, crashes and raised statements so far

alertVars == <<fact, alert, attempts, sent, caller, aborts>>

Channel == {Channels[k] : k \in DOMAIN Channels}
Severities == {"none", "INFO", "WARNING", "CRITICAL"}
Absent == [severity |-> "none", time |-> 0]
Idle == [pc |-> "idle", todo |-> <<>>, channel |-> 0, attempt |-> 0, ok |-> FALSE]

AlertInit ==
    /\ fact = [s \in Source |-> Absent]
    /\ alert = [s \in Source |-> "none"]
    /\ attempts = [s \in Source |-> [c \in Channel |-> <<>>]]
    /\ sent = [s \in Source |-> [c \in Channel |-> 0]]
    /\ caller = [n \in Notifier |-> Idle]
    /\ aborts = 0

Known == {s \in Source : fact[s] # Absent}
Now == 1 + Max({fact[s].time : s \in Source})

\* The severity a candidate is given: a decision is approved or rejected, a run has
\* a failure row while it goes on or has FAILED.
SignalSeverity == {"INFO"}
DecisionSeverity == {"INFO", "WARNING"}
RunSeverity == {"WARNING", "CRITICAL"}
SeverityOf(s) == CASE Kind[s] = "SIGNAL" -> SignalSeverity
                   [] Kind[s] = "RISK_DECISION" -> DecisionSeverity
                   [] Kind[s] = "PIPELINE_HEALTH" -> RunSeverity

SourceAppears(s) ==
    /\ fact[s] = Absent
    /\ \E severity \in SeverityOf(s) : fact' = [fact EXCEPT ![s] = [severity |-> severity, time |-> Now]]
    /\ UNCHANGED <<alert, attempts, sent, caller, aborts>>

\* The run with a failure row fails: its candidate is dated by completed_at now.
RunTurnsFailed(s) ==
    /\ Kind[s] = "PIPELINE_HEALTH" /\ fact[s].severity = "WARNING"
    /\ fact' = [fact EXCEPT ![s] = [severity |-> "CRITICAL", time |-> Now]]
    /\ UNCHANGED <<alert, attempts, sent, caller, aborts>>

\* The newest candidates, newest first, each with the severity it has by now.
InWindow(s) == s \in Known /\ Cardinality({t \in Known : fact[t].time > fact[s].time}) < Limit
NewestFirst == SetToSortSeq({s \in Known : InWindow(s)}, LAMBDA s, t : fact[s].time > fact[t].time)
Candidates == [k \in DOMAIN NewestFirst |-> [source |-> NewestFirst[k], severity |-> fact[NewestFirst[k]].severity]]

Becomes(n, next) == caller' = [caller EXCEPT ![n] = next]
At(n, pc) == caller[n].pc = pc
Subject(n) == Head(caller[n].todo).source
Via(n) == Channels[caller[n].channel]
Rows(n) == attempts[Subject(n)][Via(n)]

\* On to the next channel, the next candidate or the end of the call.
Advance(me) ==
    IF me.channel < Len(Channels) THEN [me EXCEPT !.pc = "check", !.channel = @ + 1]
    ELSE IF Len(me.todo) > 1 THEN [Idle EXCEPT !.pc = "ensure", !.todo = Tail(me.todo)]
    ELSE Idle

ListCandidates(n) ==
    /\ At(n, "idle") /\ Known # {}
    /\ Becomes(n, [Idle EXCEPT !.pc = "ensure", !.todo = Candidates])
    /\ UNCHANGED <<fact, alert, attempts, sent, aborts>>

\* The row that an earlier call inserted is kept as it is, its severity too.
InsertAlert(s, severity) == alert' = [alert EXCEPT ![s] = IF @ = "none" THEN severity ELSE @]

EnsureAlert(n) ==
    /\ At(n, "ensure")
    /\ InsertAlert(Subject(n), Head(caller[n].todo).severity)
    /\ Becomes(n, [caller[n] EXCEPT !.pc = "check", !.channel = 1])
    /\ UNCHANGED <<fact, attempts, sent, aborts>>

\* Mutant: an attempt that is under way counts too.
WasAttempted(s, c) == \E k \in DOMAIN attempts[s][c] : attempts[s][c][k] # "FAILED"

WasDelivered(s, c) == \E k \in DOMAIN attempts[s][c] : attempts[s][c][k] = "DELIVERED"

SkipDelivered(n) ==
    /\ At(n, "check") /\ WasDelivered(Subject(n), Via(n))
    /\ Becomes(n, Advance(caller[n]))
    /\ UNCHANGED <<fact, alert, attempts, sent, aborts>>

FindUndelivered(n) ==
    /\ At(n, "check") /\ ~ WasDelivered(Subject(n), Via(n))
    /\ Becomes(n, [caller[n] EXCEPT !.pc = "start"])
    /\ UNCHANGED <<fact, alert, attempts, sent, aborts>>

\* Mutant: a PENDING attempt is taken over.
StartDeliveryTakingOver(n) ==
    /\ At(n, "start")
    /\ LET pending == {k \in DOMAIN Rows(n) : Rows(n)[k] = "PENDING"}
       IN  /\ attempts' = IF pending # {} THEN attempts
                          ELSE [attempts EXCEPT ![Subject(n)][Via(n)] = Append(@, "PENDING")]
           /\ Becomes(n, [caller[n] EXCEPT !.pc = "deliver", !.attempt = IF pending # {} THEN Max(pending) ELSE Len(Rows(n)) + 1])
    /\ UNCHANGED <<fact, alert, sent, aborts>>

\* MAX(attempt_number) + 1 and the PENDING row in one transaction; the loser of a
\* race for the number violates the unique constraint, see Abort.
StartDelivery(n) ==
    /\ At(n, "start")
    /\ attempts' = [attempts EXCEPT ![Subject(n)][Via(n)] = Append(@, "PENDING")]
    /\ Becomes(n, [caller[n] EXCEPT !.pc = "deliver", !.attempt = Len(Rows(n)) + 1])
    /\ UNCHANGED <<fact, alert, sent, aborts>>

\* channel.deliver returns, raises, or raises although the alert arrived.
Deliver(n) ==
    /\ At(n, "deliver")
    /\ \E arrives, ok \in BOOLEAN :
          /\ ok => arrives
          /\ ok \/ aborts < MaxAborts
          /\ aborts' = IF ok THEN aborts ELSE aborts + 1
          /\ sent' = [sent EXCEPT ![Subject(n)][Via(n)] = @ + IF arrives THEN 1 ELSE 0]
          /\ Becomes(n, [caller[n] EXCEPT !.pc = "finish", !.ok = ok])
    /\ UNCHANGED <<fact, alert, attempts>>

\* uq_alert_delivery_success: one DELIVERED row per alert and channel.
MayRecord(n) == ~ (caller[n].ok /\ WasDelivered(Subject(n), Via(n)))

Record(n) == attempts' = [attempts EXCEPT ![Subject(n)][Via(n)][caller[n].attempt] =
                             IF caller[n].ok THEN "DELIVERED" ELSE "FAILED"]

FinishDelivery(n) ==
    /\ At(n, "finish") /\ MayRecord(n)
    /\ Record(n)
    /\ Becomes(n, Advance(caller[n]))
    /\ UNCHANGED <<fact, alert, sent, aborts>>

\* The unique index refuses the second DELIVERED row: the error ends the call.
SecondDeliveryRefused(n) ==
    /\ At(n, "finish") /\ ~ MayRecord(n)
    /\ Becomes(n, Idle)
    /\ UNCHANGED <<fact, alert, attempts, sent, aborts>>

\* The process dies between two calls, or a statement raises: the call is over.
\* The transaction of finish_delivery may have been committed.
Abort(n) ==
    /\ ~ At(n, "idle")
    /\ aborts < MaxAborts
    /\ aborts' = aborts + 1
    /\ Becomes(n, Idle)
    /\ UNCHANGED attempts \/ (At(n, "finish") /\ MayRecord(n) /\ Record(n))
    /\ UNCHANGED <<fact, alert, sent>>

NotifierStep(n) ==
    \/ ListCandidates(n) \/ EnsureAlert(n) \/ SkipDelivered(n) \/ FindUndelivered(n)
    \/ StartDelivery(n) \/ Deliver(n) \/ FinishDelivery(n) \/ SecondDeliveryRefused(n)

AlertStep ==
    \/ \E s \in Source : SourceAppears(s) \/ RunTurnsFailed(s)
    \/ \E n \in Notifier : NotifierStep(n) \/ Abort(n)

AlertTypeOK ==
    /\ fact \in [Source -> [severity : Severities, time : Nat]]
    /\ alert \in [Source -> Severities]
    /\ \A s \in Source, c \in Channel : attempts[s][c] \in Seq({"PENDING", "DELIVERED", "FAILED"})
    /\ \A s \in Source, c \in Channel : sent[s][c] \in Nat
    /\ aborts \in 0..MaxAborts

\* The attempts are the audit of what was sent: nothing reaches a channel without a
\* row of its own, so that every repetition beyond a DELIVERED row is visible as a
\* PENDING or FAILED one, whatever crashed, raised or ran at the same time.
DeliveriesAreOnRecord ==
    \A s \in Source, c \in Channel : sent[s][c] <= Len(attempts[s][c])

Told(s, c) == "DELIVERED" \in Range(attempts[s][c])

\* A candidate that stays among the newest is delivered in the end: neither a failed
\* delivery nor a crash nor a competing call makes the alert count as told.
ToldWhileInWindow ==
    \A s \in Source, c \in Channel : InWindow(s) ~> (Told(s, c) \/ ~ InWindow(s))
================================================================================
