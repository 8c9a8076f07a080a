----------------------------- MODULE Migrations -----------------------------
(***************************************************************************)
(* How the indexer's worker and its read API start: parseIndexerConfig     *)
(* (indexer/src/config.ts), createMigratedPool (runtime.ts) and            *)
(* applyMigrations (db/migrations.ts), by several processes at once, each  *)
(* with the migrations of the release it runs, on one PostgreSQL database. *)
(*                                                                         *)
(* A step is one statement.  What a transaction has written is seen by the *)
(* others when it commits; a killed process or a lost connection loses it  *)
(* and its advisory lock.  A migration's script cannot run twice: it       *)
(* creates what exists already.  A COMMIT whose answer is lost may have    *)
(* happened.                                                               *)
(***************************************************************************)
EXTENDS Integers, SequencesExt

CONSTANTS
  Services,          \* the processes that open the database
  Releases,          \* lists of [version, checksum], sorted by file name
  Environments,      \* [valid, mode, fixturePath, source]
  DeploymentStatus   \* of the manifest in the release

Migration == UNION {Range(migrations) : migrations \in Releases}
ASSUME ReleasesAreLists == Releases \subseteq Seq(Migration)
ASSUME ModesAreTwo == \A env \in Environments : env.mode \in {"fixture", "live"}

VARIABLES
  schema,       \* committed: schema_migrations, and the scripts that were run
  phase,        \* where each process is
  release,      \* the migrations it brings, until they are applied
  environment,  \* the environment variables they share
  txn,          \* what it has read (applied) and written in its open transaction
  exitCode,     \* the code it printed when it last ended
  faulted       \* history: a statement of this start failed for an outside reason

startVars == <<schema, phase, release, environment, txn, exitCode, faulted>>

NoTxn == [applied |-> <<>>, next |-> 1, recorded |-> <<>>, scripts |-> <<>>]

StartInit ==
  /\ schema = [recorded |-> <<>>, scripts |-> <<>>]
  /\ phase = [p \in Services |-> "down"]
  /\ release = [p \in Services |-> <<>>]
  /\ environment \in Environments
  /\ txn = [p \in Services |-> NoTxn]
  /\ exitCode = [p \in Services |-> "none"]
  /\ faulted = [p \in Services |-> FALSE]

\* Added to a table that has no row of that version.
WithRow(rows, m) == [v \in DOMAIN rows \cup {m.version} |->
                       IF v = m.version THEN m.checksum ELSE rows[v]]
Versions(scripts) == {scripts[i].version : i \in DOMAIN scripts}

\* loadMigrations.
SetIsValid(migrations) == migrations # <<>> /\ Cardinality(Versions(migrations)) = Len(migrations)

\* parseIndexerConfig.
ConfigError(env) ==
  IF ~env.valid \/ (env.mode = "fixture" /\ ~env.fixturePath) THEN "INDEXER_CONFIG_INVALID"
  ELSE IF env.mode = "live" /\ DeploymentStatus # "live" THEN "INDEXER_DEPLOYMENT_NOT_LIVE"
  ELSE "none"

-----------------------------------------------------------------------------

GoTo(p, place) == phase' = [phase EXCEPT ![p] = place]

\* The transaction, if there is one, is rolled back.
Exit(p, code) ==
  /\ GoTo(p, "ending")
  /\ exitCode' = [exitCode EXCEPT ![p] = code]
  /\ txn' = [txn EXCEPT ![p] = NoTxn]

\* client.release, pool.end, which waits for the clients that are out, and the code.
EndPoolHoldingClient(p) == phase[p] = "ending" /\ FALSE /\ UNCHANGED startVars   \* mutant
EndPool(p) ==
  /\ phase[p] = "ending"
  /\ GoTo(p, "down")
  /\ UNCHANGED <<schema, release, environment, txn, exitCode, faulted>>

Launch(p, migrations) ==
  /\ phase[p] = "down"
  /\ release' = [release EXCEPT ![p] = migrations]
  /\ faulted' = [faulted EXCEPT ![p] = FALSE]
  /\ IF ConfigError(environment) # "none" THEN Exit(p, ConfigError(environment))
     ELSE GoTo(p, "connecting") /\ exitCode' = [exitCode EXCEPT ![p] = "none"] /\ UNCHANGED txn
  /\ UNCHANGED <<schema, environment>>

\* pool.connect, loadMigrations, BEGIN.
Connect(p) ==
  /\ phase[p] = "connecting"
  /\ IF SetIsValid(release[p]) THEN GoTo(p, "locking") /\ UNCHANGED <<txn, exitCode>>
     ELSE Exit(p, "MIGRATION_SET_INVALID")
  /\ UNCHANGED <<schema, release, environment, faulted>>

Locked == {"discovering", "applying", "recording"}
LockIsIgnored == TRUE   \* mutant
LockIsFree == \A q \in Services : phase[q] \notin Locked

\* pg_advisory_xact_lock.
AcquireLock(p) ==
  /\ phase[p] = "locking"
  /\ LockIsFree
  /\ GoTo(p, "discovering")
  /\ UNCHANGED <<schema, release, environment, txn, exitCode, faulted>>

\* CREATE TABLE IF NOT EXISTS schema_migrations, then read it.
Discover(p) ==
  /\ phase[p] = "discovering"
  /\ txn' = [txn EXCEPT ![p].applied = schema.recorded]
  /\ GoTo(p, "applying")
  /\ UNCHANGED <<schema, release, environment, exitCode, faulted>>

\* One turn of the loop: refuse a migration whose text has changed, skip one that is
\* applied, run one that is not.  A script waits for an open transaction that has run the
\* same one.
ApplyMigration(p) ==
  /\ phase[p] = "applying"
  /\ txn[p].next <= Len(release[p])
  /\ LET m == release[p][txn[p].next]
         applied == txn[p].applied
     IN  IF m.version \in DOMAIN applied
         THEN IF applied[m.version] # m.checksum THEN Exit(p, "MIGRATION_CHECKSUM_MISMATCH")
              ELSE txn' = [txn EXCEPT ![p].next = @ + 1] /\ UNCHANGED <<phase, exitCode>>
         ELSE /\ \A q \in Services \ {p} : m.version \notin Versions(txn[q].scripts)
              /\ IF m.version \in Versions(schema.scripts) THEN Exit(p, "MIGRATION_APPLY_FAILED")
                 ELSE /\ txn' = [txn EXCEPT ![p].scripts = Append(@, m)]
                      /\ GoTo(p, "recording")
                      /\ UNCHANGED exitCode
  /\ UNCHANGED <<schema, release, environment, faulted>>

RecordMigration(p) ==
  /\ phase[p] = "recording"
  /\ txn' = [txn EXCEPT ![p].recorded = WithRow(@, release[p][txn[p].next]), ![p].next = @ + 1]
  /\ GoTo(p, "applying")
  /\ UNCHANGED <<schema, release, environment, exitCode, faulted>>

Committed(p) ==
  [recorded |-> [v \in DOMAIN schema.recorded \cup DOMAIN txn[p].recorded |->
                   IF v \in DOMAIN schema.recorded THEN schema.recorded[v]
                   ELSE txn[p].recorded[v]],
   scripts |-> schema.scripts \o txn[p].scripts]

CommitMigrations(p) ==
  /\ phase[p] = "applying" /\ txn[p].next > Len(release[p])
  /\ schema' = Committed(p)
  /\ txn' = [txn EXCEPT ![p] = NoTxn]
  /\ release' = [release EXCEPT ![p] = <<>>]
  /\ GoTo(p, "serving")
  /\ UNCHANGED <<environment, exitCode, faulted>>

Starting(p) == phase[p] \in {"connecting", "locking", "ending"} \cup Locked

\* A statement fails, or the answer to COMMIT is lost.
AfterFailureAutocommitted(p) == {Committed(p)}   \* mutant
AfterFailure(p) ==
  IF phase[p] = "applying" /\ txn[p].next > Len(release[p]) THEN {schema, Committed(p)} ELSE {schema}
StatementFails(p) ==
  /\ phase[p] \in {"connecting", "locking"} \cup Locked
  /\ Exit(p, IF phase[p] = "connecting" THEN "START_FAILED" ELSE "MIGRATION_APPLY_FAILED")
  /\ faulted' = [faulted EXCEPT ![p] = TRUE]
  /\ schema' \in AfterFailure(p)
  /\ UNCHANGED <<release, environment>>

\* Killed, or stopped by a signal: what was not committed is gone.
Crash(p) ==
  /\ phase[p] # "down"
  /\ GoTo(p, "down")
  /\ exitCode' = [exitCode EXCEPT ![p] = "none"]
  /\ release' = [release EXCEPT ![p] = <<>>]
  /\ txn' = [txn EXCEPT ![p] = NoTxn]
  /\ UNCHANGED <<schema, environment, faulted>>

Starts(p) ==
  \/ Connect(p) \/ AcquireLock(p) \/ Discover(p) \/ ApplyMigration(p)
  \/ RecordMigration(p) \/ CommitMigrations(p) \/ EndPool(p)

StartNext ==
  \E p \in Services :
    \/ \E migrations \in Releases : Launch(p, migrations)
    \/ Starts(p) \/ StatementFails(p) \/ Crash(p)

\* The event loop runs a process that is starting; PostgreSQL grants a lock in the order
\* in which it was asked for.
StartFairness ==
  \A p \in Services : WF_startVars(Starts(p)) /\ SF_startVars(AcquireLock(p))

StartSpec == StartInit /\ [][StartNext]_startVars

-----------------------------------------------------------------------------

\* The scripts that shaped the database are the ones schema_migrations lists, each run
\* once and in its recorded text, whoever starts, fails or is killed meanwhile.
SchemaIsWhatIsRecorded ==
  /\ Cardinality(Versions(schema.scripts)) = Len(schema.scripts)
  /\ Versions(schema.scripts) = DOMAIN schema.recorded
  /\ \A i \in DOMAIN schema.scripts :
       schema.recorded[schema.scripts[i].version] = schema.scripts[i].checksum

\* Processes that start side by side do not make each other fail: a start whose
\* statements all work is refused only for a migration whose text has changed, and a
\* migration that is recorded stays (the advisory lock of applyMigrations).
StartsUnlessItMust ==
  \A p \in Services :
    /\ exitCode[p] = "MIGRATION_APPLY_FAILED" => faulted[p]
    /\ exitCode[p] = "MIGRATION_CHECKSUM_MISMATCH" =>
         \E m \in Range(release[p]) :
           m.version \in DOMAIN schema.recorded /\ schema.recorded[m.version] # m.checksum

\* Nobody waits for the lock for ever: every start ends in service, or ends.
EveryStartSettles == \A p \in Services : Starting(p) ~> ~Starting(p)
=============================================================================
