---------------------------- MODULE SchemaMigrations ----------------------------
\* services/migration_runner.py: files of the migrations directory are applied in the
\* order of their versions, each with its row of schema_migrations in one transaction.
\* Runs may overlap and die; files are added and edited meanwhile. The release check
\* compares the rows with the files. A checksum identifies a content.
EXTENDS Integers, Sequences, Functions

CONSTANTS
    Version,          \* numbers in front of the file names, in their order
    Content,          \* what a file may hold
    NoFile,           \* no file, no row
    Migrator,         \* calls of MigrationRunner.run
    MaxEdits          \* bound on the changes of files

ASSUME SchemaAssumption == Version \subseteq Int /\ NoFile \notin Content

VARIABLES
    files,            \* the migrations directory: content by version
    ledger,           \* schema_migrations: checksum by version
    effects,          \* what was executed and committed: <<version, content>>, oldest first
    migrating,        \* by migrator: where it stands, files it found, rows it loaded
    edits,            \* changes of files so far
    late,             \* history: versions added below one that was there
    raced             \* history: versions whose file changed while a run was under way

schemaVars == <<files, ledger, effects, migrating, edits, late, raced>>

SchemaInit ==
    /\ \E present \in SUBSET Version, c \in Content : files = [v \in Version |-> IF v \in present THEN c ELSE NoFile]
    /\ ledger = [v \in Version |-> NoFile]
    /\ effects = <<>>
    /\ migrating = [r \in Migrator |-> [at |-> "new", found |-> files, loaded |-> ledger, left |-> {}]]
    /\ edits = 0 /\ late = {} /\ raced = {}

\* A developer adds a migration, or changes one.
EditFile(v, c) ==
    /\ edits < MaxEdits /\ edits' = edits + 1
    /\ files' = [files EXCEPT ![v] = c]
    /\ late' = IF files[v] = NoFile /\ (\E w \in Version : w > v /\ files[w] # NoFile) THEN late \union {v} ELSE late
    /\ raced' = IF \E r \in Migrator : migrating[r].at \in {"load", "under way"} THEN raced \union {v} ELSE raced
    /\ UNCHANGED <<ledger, effects, migrating>>

Ends(r) == migrating' = [migrating EXCEPT ![r].at = "over"]

\* Files and their checksums; without any the run raises.
DiscoverMigrations(r) ==
    /\ migrating[r].at = "new"
    /\ LET found == {v \in Version : files[v] # NoFile}
       IN  migrating' = [migrating EXCEPT ![r] = [@ EXCEPT !.found = files, !.left = found,
                                                           !.at = IF found = {} THEN "over" ELSE "load"]]
    /\ UNCHANGED <<files, ledger, effects, edits, late, raced>>

LoadAppliedMigrations(r) ==
    /\ migrating[r].at = "load"
    /\ migrating' = [migrating EXCEPT ![r] = [@ EXCEPT !.loaded = ledger, !.at = "under way"]]
    /\ UNCHANGED <<files, ledger, effects, edits, late, raced>>

\* The next file of the run in the order of versions.
TurnOf(r, v) == /\ migrating[r].at = "under way"
                /\ v \in migrating[r].left /\ \A w \in migrating[r].left : v <= w
Passes(r, v) == migrating' = [migrating EXCEPT ![r].left = @ \ {v}]

\* A file with a row is skipped, unless its checksum is another one.
SkipApplied(r, v) ==
    /\ TurnOf(r, v)
    /\ migrating[r].loaded[v] # NoFile
    /\ IF migrating[r].loaded[v] = migrating[r].found[v] THEN Passes(r, v) ELSE Ends(r)
    /\ UNCHANGED <<files, ledger, effects, edits, late, raced>>

\* Mutant: a row that is there is left alone.
ApplyMigrationAgain(r, v) ==
    /\ TurnOf(r, v) /\ migrating[r].loaded[v] = NoFile
    /\ ledger' = [ledger EXCEPT ![v] = IF @ = NoFile THEN migrating[r].found[v] ELSE @]
    /\ effects' = Append(effects, <<v, files[v]>>)
    /\ Passes(r, v)
    /\ UNCHANGED <<files, edits, late, raced>>

\* The file is read again and executed, and its row inserted with the checksum taken
\* before; when another run inserted the version meanwhile, all of it is rolled back.
ApplyMigration(r, v) ==
    /\ TurnOf(r, v) /\ migrating[r].loaded[v] = NoFile
    /\ IF ledger[v] = NoFile
       THEN /\ ledger' = [ledger EXCEPT ![v] = migrating[r].found[v]]
            /\ effects' = Append(effects, <<v, files[v]>>)
            /\ Passes(r, v)
       ELSE Ends(r) /\ UNCHANGED <<ledger, effects>>
    /\ UNCHANGED <<files, edits, late, raced>>

\* The run is through, its statement fails, or the process dies.
MigrationEnds(r) ==
    /\ migrating[r].at \in {"load", "under way"}
    /\ Ends(r)
    /\ UNCHANGED <<files, ledger, effects, edits, late, raced>>

SchemaStep ==
    \/ \E v \in Version, c \in Content : EditFile(v, c)
    \/ \E r \in Migrator : \/ DiscoverMigrations(r) \/ LoadAppliedMigrations(r) \/ MigrationEnds(r)
                           \/ \E v \in Version : SkipApplied(r, v) \/ ApplyMigration(r, v)

\* migration_inventory and migration_checksums of the release check.
MigrationChecks == ledger = files

-------------------------------------------------------------------------------
\* Runs that overlap, or die and are called again, execute every version once and
\* record it with it. As long as nobody adds a file below one that is there, they
\* execute them in order and leave no gap; and when the release check passes, what
\* was executed is what the files hold, unless a file changed while a run was under way.
MigrationsApplyOnce ==
    LET versions == [n \in DOMAIN effects |-> effects[n][1]]
    IN  /\ \A m, n \in DOMAIN effects : versions[m] = versions[n] => m = n
        /\ Range(versions) = {v \in Version : ledger[v] # NoFile}
        /\ late = {} => \A n \in DOMAIN effects :
              {v \in Version : v < versions[n] /\ files[v] # NoFile} \subseteq {versions[m] : m \in 1..(n - 1)}
        /\ MigrationChecks => \A n \in DOMAIN effects : versions[n] \notin raced => effects[n][2] = files[versions[n]]
================================================================================
