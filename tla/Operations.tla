------------------------------- MODULE Operations -------------------------------
\* The programs that fill and watch the operational tables: production pipelines
\* beside each other, the option data pipeline, the alerts, the import of instruments
\* and contracts, the gaps of the collection, the migrations of the schema. Only the
\* pipelines share a table, pipeline_runs; a behaviour is about one of the groups,
\* chosen at the start.
EXTENDS MarketPipeline, OptionPipeline, AlertDelivery, DerivativeImport, CollectionGaps, SchemaMigrations

ASSUME PipelinesDiffer == Market \union Options \subseteq Run /\ Market \intersect Options = {}

VARIABLE group    \* what this behaviour is about

operationsVars == <<runVars, marketVars, optionVars, alertVars, derivativeVars, gapVars, schemaVars, group>>

\* Groups that rest have no contracts and no files.
Init == /\ group \in {"market", "options", "alerts", "universe", "gaps", "schema"}
        /\ RunInit /\ MarketInit /\ OptionInit /\ AlertInit /\ GapInit
        /\ DerivativeInit /\ (group # "universe" => \A id \in Id : contracts[id] = Unlisted)
        /\ SchemaInit /\ (group # "schema" => \A v \in Version : files[v] = NoFile)

MarketRuns == /\ group = "market"
              /\ \E r \in Market : MarketStep(r)
              /\ UNCHANGED <<optionVars, alertVars, derivativeVars, gapVars, schemaVars, group>>

OptionRuns == /\ group = "options"
              /\ \E r \in Options : OptionStep(r)
              /\ UNCHANGED <<marketVars, alertVars, derivativeVars, gapVars, schemaVars, group>>

Alerts == /\ group = "alerts"
          /\ AlertStep
          /\ UNCHANGED <<runVars, marketVars, optionVars, derivativeVars, gapVars, schemaVars, group>>

Imports == /\ group = "universe"
           /\ DerivativeStep
           /\ UNCHANGED <<runVars, marketVars, optionVars, alertVars, gapVars, schemaVars, group>>

Repairs == /\ group = "gaps"
           /\ GapStep
           /\ UNCHANGED <<runVars, marketVars, optionVars, alertVars, derivativeVars, schemaVars, group>>

Migrations == /\ group = "schema"
              /\ SchemaStep
              /\ UNCHANGED <<runVars, marketVars, optionVars, alertVars, derivativeVars, gapVars, group>>

Notifies(n) == /\ group = "alerts"
               /\ NotifierStep(n)
               /\ UNCHANGED <<runVars, marketVars, optionVars, derivativeVars, gapVars, schemaVars, group>>

Next == MarketRuns \/ OptionRuns \/ Alerts \/ Imports \/ Repairs \/ Migrations

\* generate_alerts is called again and again, and a call that does not crash goes on.
Spec == Init /\ [][Next]_operationsVars /\ \A n \in Notifier : WF_operationsVars(Notifies(n))

\* The release audit operational_state finds nothing at any time: a pipeline run whose
\* row says it is over is dated and one that is RUNNING is not, and a chain run that is
\* over is dated and has an error when and only when it failed. Of the audit
\* continuous_collection_lineage its clause on repair jobs holds at any time too: a gap
\* is scheduled for repair when and only when it has its job; the work item of the job is
\* missing only while a call is, or after it died, between the two transactions.
OperationalAudits == OperationalState /\ ChainsAreClosed /\ RepairsAreBacked
================================================================================
