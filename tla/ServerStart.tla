---------------------------- MODULE ServerStart ----------------------------
(* The server process from its start to the moment it serves (cmd/server,
   internal/storage), with the database it connects to and migrates.  The
   operator edits the settings and starts the process again; the process and
   the database may fail at any point.

   golang-migrate and Postgres are modelled from how RunMigrations uses them:
   a migration marks the schema dirty, runs, and removes the mark; a dirty
   schema is refused by every later call. *)
EXTENDS Config, Integers

CONSTANTS
  FirstEnv,    \* the environment the server is first started in
  Change,      \* what the operator may set: records [layer, field, value]
  Attempts,    \* tries of openPostgresWithRetry: 10
  First,       \* migrations applied before the model begins
  Latest,      \* files in migrations/
  MaxChanges, MaxFaults   \* bounds of the model

ASSUME StartAssumption ==
  /\ IsLayer(FirstEnv)
  /\ \A c \in Change : c.value \in Text
  /\ First \in Nat /\ Latest \in Nat /\ First <= Latest
  /\ Attempts \in Nat \ {0}
  /\ MaxChanges \in Nat /\ MaxFaults \in Nat

VARIABLES
  env, flags,  \* the layers the next start will read
  phase,       \* what the process does
  cfg,         \* the settings it was started with
  tries,       \* connection attempts that have failed
  exit,        \* why it has ended last
  dbUp,        \* does the database answer?
  schema,      \* the version golang-migrate has recorded
  dirtySchema, \* its mark of a migration in progress
  tables,      \* migrations whose statements have been committed
  changes, faults

settingVars == <<env, flags, changes>>
processVars == <<phase, cfg, tries, exit>>
dbVars == <<dbUp, schema, dirtySchema, tables>>
startVars == <<settingVars, processVars, dbVars, faults>>

\* migrating and migrated are before and after the first migration applied;
\* broken has lost the connection of the migrations.
Phase == {"down", "opening", "migrating", "applying", "applied", "migrated",
          "broken", "listening", "serving"}
Exit == {"none", "config", "storage", "database", "migration", "listen",
         "crash"}

StartTypeOK ==
  /\ phase \in Phase
  /\ IsLayer(env) /\ IsLayer(flags)
  /\ cfg \in [DOMAIN ServerDefault -> Text]
  /\ tries \in 0..Attempts
  /\ exit \in Exit
  /\ dbUp \in BOOLEAN /\ dirtySchema \in BOOLEAN
  /\ schema \in First..Latest
  /\ tables \subseteq 1..Latest
  /\ changes \in Nat /\ faults \in Nat

StartInit ==
  /\ env = FirstEnv
  /\ flags = [f \in {} |-> ""]
  /\ phase = "down" /\ exit = "none"
  /\ cfg = ServerDefault
  /\ tries = 0
  /\ dbUp \in BOOLEAN
  /\ schema = First /\ dirtySchema = FALSE /\ tables = 1..First
  /\ changes = 0 /\ faults = 0

-----------------------------------------------------------------------------
(* The operator.  A process that runs has read its settings. *)

Set(layer, f, v) ==
  [g \in DOMAIN layer \cup {f} |-> IF g = f THEN v ELSE layer[g]]

Reconfigure ==
  /\ changes < MaxChanges
  /\ changes' = changes + 1
  /\ \E c \in Change :
       \/ c.layer = "env" /\ env' = Set(env, c.field, c.value)
          /\ UNCHANGED flags
       \/ c.layer = "flags" /\ flags' = Set(flags, c.field, c.value)
          /\ UNCHANGED env
  /\ UNCHANGED <<processVars, dbVars, faults>>

-----------------------------------------------------------------------------
(* The process.  InitStores opens nothing but Postgres. *)

Loaded == LoadServer(env, flags)
Startable == Loads(env, flags) /\ ValidServer(Loaded)

Go(p) == phase' = p /\ UNCHANGED <<cfg, tries, exit>>
Stop(why) == phase' = "down" /\ exit' = why /\ UNCHANGED <<cfg, tries>>

StartRefused ==
  /\ phase = "down"
  /\ ~Startable
  /\ Stop("config")
  /\ UNCHANGED <<settingVars, dbVars, faults>>

StartUnsupported ==
  /\ phase = "down"
  /\ Startable
  /\ Loaded.storage # "postgres"
  /\ Stop("storage")
  /\ UNCHANGED <<settingVars, dbVars, faults>>

StartOpening ==
  /\ phase = "down"
  /\ Startable
  /\ Loaded.storage = "postgres"
  /\ phase' = "opening"
  /\ cfg' = Loaded
  /\ tries' = 0
  /\ UNCHANGED <<exit, settingVars, dbVars, faults>>

Start == StartRefused \/ StartUnsupported \/ StartOpening

\* One turn of openPostgresWithRetry.
Connect ==
  /\ phase = "opening"
  /\ tries < Attempts
  /\ dbUp
  /\ Go("migrating")
  /\ UNCHANGED <<settingVars, dbVars, faults>>

\* Mutant of ConnectFails: the attempts are not counted.
ConnectFailsUncounted ==
  /\ phase = "opening"
  /\ tries < Attempts
  /\ ~dbUp
  /\ Go("opening")
  /\ UNCHANGED <<settingVars, dbVars, faults>>

\* Mutant of ConnectFails: the loop has no bound.
ConnectFailsEver ==
  /\ phase = "opening"
  /\ ~dbUp
  /\ tries' = tries + 1
  /\ UNCHANGED <<phase, cfg, exit, settingVars, dbVars, faults>>

ConnectFails ==
  /\ phase = "opening"
  /\ tries < Attempts
  /\ ~dbUp
  /\ tries' = tries + 1
  /\ UNCHANGED <<phase, cfg, exit, settingVars, dbVars, faults>>

ConnectGivesUp ==
  /\ phase = "opening"
  /\ tries = Attempts
  /\ Stop("database")
  /\ UNCHANGED <<settingVars, dbVars, faults>>

-----------------------------------------------------------------------------
(* Up of golang-migrate. *)

\* The connection cannot be made, was lost, or the schema is dirty.
MigrateFails ==
  /\ \/ phase = "migrating" /\ (~dbUp \/ dirtySchema)
     \/ phase = "broken"
  /\ Stop("migration")
  /\ UNCHANGED <<settingVars, dbVars, faults>>

\* Mutant of MigrateNext: a dirty schema is no reason to stop.
MigrateNextDirty ==
  /\ phase \in {"migrating", "migrated"}
  /\ dbUp
  /\ schema < Latest
  /\ dirtySchema' = TRUE
  /\ schema' = schema + 1
  /\ Go("applying")
  /\ UNCHANGED <<settingVars, dbUp, tables, faults>>

MigrateNext ==
  /\ phase \in {"migrating", "migrated"}
  /\ dbUp /\ ~dirtySchema
  /\ schema < Latest
  /\ dirtySchema' = TRUE
  /\ schema' = schema + 1
  /\ Go("applying")
  /\ UNCHANGED <<settingVars, dbUp, tables, faults>>

\* A file is one request to Postgres, which makes it one transaction.
MigrateApply ==
  /\ phase = "applying"
  /\ tables' = tables \cup {schema}
  /\ Go("applied")
  /\ UNCHANGED <<settingVars, dbUp, schema, dirtySchema, faults>>

MigrateClear ==
  /\ phase = "applied"
  /\ dirtySchema' = FALSE
  /\ Go("migrated")
  /\ UNCHANGED <<settingVars, dbUp, schema, tables, faults>>

\* Mutant of MigrateDone: ErrNoChange is an error like any other.
MigrateDoneChanged ==
  /\ phase = "migrated"
  /\ schema = Latest
  /\ Go("listening")
  /\ UNCHANGED <<settingVars, dbVars, faults>>

\* Mutant of MigrateDone: the error of Up is not looked at.
MigrateDoneAnyhow ==
  /\ phase \in {"migrating", "migrated"}
  /\ schema = Latest
  /\ Go("listening")
  /\ UNCHANGED <<settingVars, dbVars, faults>>

\* Nothing is left to apply: in "migrating" this is ErrNoChange.
MigrateDone ==
  /\ phase \in {"migrating", "migrated"}
  /\ dbUp /\ ~dirtySchema
  /\ schema = Latest
  /\ Go("listening")
  /\ UNCHANGED <<settingVars, dbVars, faults>>

Listen ==
  /\ phase = "listening"
  /\ Go("serving")
  /\ UNCHANGED <<settingVars, dbVars, faults>>

-----------------------------------------------------------------------------
(* Failures.  While the process serves, database/sql makes new connections for
   those that are lost. *)

Fault == faults < MaxFaults /\ faults' = faults + 1

\* The address is taken, or the certificate cannot be read.
ListenFails ==
  /\ phase = "listening"
  /\ Fault
  /\ Stop("listen")
  /\ UNCHANGED <<settingVars, dbVars>>

Crash ==
  /\ phase # "down"
  /\ Fault
  /\ Stop("crash")
  /\ UNCHANGED <<settingVars, dbVars>>

DbFail ==
  /\ dbUp
  /\ Fault
  /\ dbUp' = FALSE
  /\ phase' = IF phase \in {"applying", "applied", "migrated"}
              THEN "broken" ELSE phase
  /\ UNCHANGED <<cfg, tries, exit, settingVars, schema, dirtySchema, tables>>

DbRecover ==
  /\ ~dbUp
  /\ dbUp' = TRUE
  /\ UNCHANGED <<settingVars, processVars, schema, dirtySchema, tables,
                 faults>>

ConnectStep == Connect \/ ConnectFails \/ ConnectGivesUp
MigrateStep ==
  MigrateFails \/ MigrateNext \/ MigrateApply \/ MigrateClear \/ MigrateDone
ProcessStep == ConnectStep \/ MigrateStep \/ Listen

StartNext ==
  \/ Reconfigure
  \/ Start \/ ProcessStep
  \/ ListenFails \/ Crash \/ DbFail \/ DbRecover

(* A process that runs goes on, and its operator starts it again when it has
   ended.  Nothing brings the database back. *)
StartFairness == WF_startVars(ProcessStep) /\ WF_startVars(StartOpening)

StartSpec == StartInit /\ [][StartNext]_startVars
StartFairSpec == StartSpec /\ StartFairness

-----------------------------------------------------------------------------
(* Properties. *)

(* Whatever has failed or been edited before, a server that answers requests
   has all its tables, and settings that were validated: no handler meets a
   missing table or an empty signing key, also after a migration was cut off at
   any point (postgres_handler.go:28-38, migrate.go:25, main.go:44-63). *)
ServesMigrated ==
  phase = "serving" =>
    /\ tables = 1..Latest
    /\ ValidServer(cfg) /\ cfg.storage = "postgres"

(* The documented order of priority (README.md:46): the setting in force is the
   one of the first layer, from flags to defaults, that gives it.  Each layer
   has its own idea of what it is to be given (config.go:197-296). *)
FlagGives(f) ==
  LET v == Given(flags, f)
  IN  v # "" /\ Parses(f, v) /\ ~(f = "port" /\ v = "0")
EnvGives(f) == f \in DOMAIN env /\ Parses(f, env[f])
FileGives(p, f) == p \in Readable /\ f \in DOMAIN Gives[p]

TopLayerWins ==
  LET inForce == Loaded
      file == ConfigPath(env, flags)
  IN  \A f \in DOMAIN ServerDefault :
        inForce[f] =
          CASE FlagGives(f) -> flags[f]
            [] ~FlagGives(f) /\ EnvGives(f) ->
                 IF env[f] = "" THEN Zero(f) ELSE env[f]
            [] ~FlagGives(f) /\ ~EnvGives(f) /\ FileGives(file, f) ->
                 Gives[file][f]
            [] OTHER -> ServerDefault[f]

(* No start hangs: it comes to serve or ends, also when the database never
   answers (postgres_handler.go:53-64). *)
StartEnds == phase = "opening" ~> phase \in {"serving", "down"}

\* The most steps a start has still to go before it serves or ends: attempts to
\* connect, three steps for each migration, and the two that end it.
StepsLeft ==
  LET migrations == 3 * (Latest - schema)
  IN  CASE phase \in {"down", "serving"} -> 0
        [] phase \in {"broken", "listening"} -> 1
        [] phase \in {"migrating", "migrated"} -> migrations + 2
        [] phase = "applied" -> migrations + 3
        [] phase = "applying" -> migrations + 4
        [] phase = "opening" -> Attempts - tries + migrations + 3

(* Why no start hangs: each of its steps brings it nearer to its end, and
   nothing that befalls it or the database on the way takes it back, so that it
   retries and migrates a bounded number of times (postgres_handler.go:53-64,
   migrate.go:25). *)
StartIsBounded ==
  [][/\ ProcessStep => StepsLeft' < StepsLeft
     /\ phase # "down" => StepsLeft' \in 0..StepsLeft]_startVars

(* If settings and database stay good, a server whose operator starts it again
   comes to serve and goes on, whatever has happened before, unless a migration
   was cut off (postgres_handler.go:28-51, migrate.go:25). *)
StartSucceeds ==
  <>[](dbUp /\ ~dirtySchema /\ Startable /\ Loaded.storage = "postgres")
    => <>[](phase = "serving")

-----------------------------------------------------------------------------
(* The inductive invariant behind ServesMigrated: without the mark, the version
   recorded tells the tables; with it, the last of them is in doubt. *)
PhaseInv ==
  /\ IF dirtySchema
     THEN schema > First /\ tables \in {1..schema, 1..(schema - 1)}
     ELSE tables = 1..schema
  /\ phase # "down" => ValidServer(cfg) /\ cfg.storage = "postgres"
  /\ phase \in {"applying", "applied"} => dirtySchema
  /\ phase = "applied" => schema \in tables
  /\ phase = "migrated" => ~dirtySchema
  /\ phase \in {"listening", "serving"} => schema = Latest /\ ~dirtySchema

=============================================================================
