------------------------- MODULE ServerStartProofs -------------------------
(* Theorems about ServerStart, for all files, environments and edits, any
   number of migrations, attempts and failures. *)
EXTENDS ServerStart, TLAPS

USE StartAssumption

Inv == StartTypeOK /\ PhaseInv

-----------------------------------------------------------------------------
(* Each layer gives strings only, and so do the layers put together. *)
LEMMA DefaultType == ServerDefault \in [DOMAIN ServerDefault -> Text]
<1>1. \A f \in DOMAIN ServerDefault : ServerDefault[f] \in Text
  <2>1. DOMAIN ServerDefault =
          {"host", "port", "storage", "dsn", "log_level", "log_format",
           "jwt_key", "tls", "tls_cert", "tls_key"}
    BY DEF ServerDefault
  <2>2. /\ ServerDefault["host"] \in Text /\ ServerDefault["port"] \in Text
        /\ ServerDefault["storage"] \in Text /\ ServerDefault["dsn"] \in Text
        /\ ServerDefault["log_level"] \in Text
        /\ ServerDefault["log_format"] \in Text
        /\ ServerDefault["jwt_key"] \in Text /\ ServerDefault["tls"] \in Text
        /\ ServerDefault["tls_cert"] \in Text
        /\ ServerDefault["tls_key"] \in Text
    BY ConfigAssumption DEF ServerDefault
  <2>3. QED
    BY <2>1, <2>2
<1>2. ServerDefault = [f \in DOMAIN ServerDefault |-> ServerDefault[f]]
  BY DEF ServerDefault
<1>3. QED
  BY <1>1, <1>2

LEMMA LoadedType ==
  ASSUME IsLayer(env), IsLayer(flags)
  PROVE  Loaded \in [DOMAIN ServerDefault -> Text]
<1> DEFINE S == DOMAIN ServerDefault
           file == OverFile(ConfigPath(env, flags), ServerDefault)
           withEnv == OverEnv(env, file)
<1>1. ServerDefault \in [S -> Text]
  BY DefaultType
<1>2. file \in [S -> Text]
  BY <1>1, ConfigAssumption DEF OverFile, IsLayer
<1>3. withEnv \in [S -> Text]
  <2> HIDE DEF file
  <2>1. \A f : Zero(f) \in Text
    BY ConfigAssumption DEF Zero
  <2>2. \A f \in S : withEnv[f] \in {env[f], Zero(f), file[f]}
                     /\ (withEnv[f] \in {Zero(f), file[f]} \/ f \in DOMAIN env)
    BY <1>2 DEF OverEnv
  <2>3. withEnv = [f \in S |-> withEnv[f]]
    BY <1>2 DEF OverEnv
  <2> HIDE DEF withEnv
  <2>4. QED
    BY <1>2, <2>1, <2>2, <2>3 DEF IsLayer
<1>4. Loaded = OverFlags(flags, withEnv)
  BY DEF Loaded, LoadServer
<1> HIDE DEF withEnv
<1>5. QED
  BY <1>3, <1>4 DEF OverFlags, IsLayer

(* The initial states. *)
LEMMA StartInitInv == StartInit => Inv
<1> SUFFICES ASSUME StartInit PROVE Inv
  OBVIOUS
<1>1. 1..First \subseteq 1..Latest
  OBVIOUS
<1>2. schema \in First..Latest /\ tables \subseteq 1..Latest
       /\ tries \in 0..Attempts /\ changes \in Nat /\ faults \in Nat
  BY <1>1 DEF StartInit
<1>4. IsLayer(env) /\ IsLayer(flags)
  BY DEF StartInit, IsLayer
<1>5. cfg \in [DOMAIN ServerDefault -> Text]
  BY DefaultType DEF StartInit
<1>6. StartTypeOK
  BY <1>2, <1>4, <1>5 DEF StartInit, StartTypeOK, Phase, Exit
<1>3. PhaseInv
  BY DEF StartInit, PhaseInv
<1>7. QED
  BY <1>3, <1>6 DEF Inv

-----------------------------------------------------------------------------
(* The steps, one group of actions after the other. *)

LEMMA OperatorInv == Inv /\ (Reconfigure \/ Start) => Inv'
<1> SUFFICES ASSUME Inv, Reconfigure \/ Start PROVE Inv'
  OBVIOUS
<1> USE DEF Inv, StartTypeOK, PhaseInv, settingVars, processVars, dbVars, Phase,
           Exit
<1>1. CASE Reconfigure
  <2>1. \A layer, f, v :
          IsLayer(layer) /\ v \in Text => IsLayer(Set(layer, f, v))
    BY DEF IsLayer, Set
  <2>2. IsLayer(env)' /\ IsLayer(flags)'
    <3>1. PICK c \in Change :
            \/ env' = Set(env, c.field, c.value) /\ flags' = flags
            \/ flags' = Set(flags, c.field, c.value) /\ env' = env
      BY <1>1 DEF Reconfigure
    <3>2. c.value \in Text
      BY <3>1
    <3>3. IsLayer(env') /\ IsLayer(flags')
      BY <2>1, <3>1, <3>2
    <3>4. QED
      BY <3>3 DEF IsLayer
  <2>3. changes' \in Nat /\ UNCHANGED <<processVars, dbVars, faults>>
    BY <1>1 DEF Reconfigure
  <2>4. QED
    BY <2>2, <2>3 DEF ValidServer
<1>2. CASE StartRefused
  BY <1>2 DEF StartRefused, Stop
<1>3. CASE StartUnsupported
  BY <1>3 DEF StartUnsupported, Stop
<1>4. CASE StartOpening
  <2>1. cfg' \in [DOMAIN ServerDefault -> Text]
    BY <1>4, LoadedType DEF StartOpening
  <2>2. ValidServer(cfg)' /\ (cfg.storage = "postgres")'
    BY <1>4 DEF StartOpening, Startable, ValidServer
  <2>3. QED
    BY <1>4, <2>1, <2>2 DEF StartOpening
<1>5. QED
  BY <1>1, <1>2, <1>3, <1>4 DEF Start

(* Steps that leave the settings of the process alone keep them valid. *)
LEMMA ConnectInv == Inv /\ ConnectStep => Inv'
<1> SUFFICES ASSUME Inv, ConnectStep PROVE Inv'
  OBVIOUS
<1> USE DEF Inv, StartTypeOK, PhaseInv, settingVars, processVars, dbVars, Phase,
           Exit, ValidServer
<1>1. CASE Connect
  BY <1>1 DEF Connect, Go
<1>2. CASE ConnectFails
  BY <1>2 DEF ConnectFails
<1>3. CASE ConnectGivesUp
  BY <1>3 DEF ConnectGivesUp, Stop
<1>4. QED
  BY <1>1, <1>2, <1>3 DEF ConnectStep

LEMMA MigrateInv == Inv /\ (MigrateStep \/ Listen) => Inv'
<1> SUFFICES ASSUME Inv, MigrateStep \/ Listen PROVE Inv'
  OBVIOUS
<1> USE DEF Inv, StartTypeOK, PhaseInv, settingVars, processVars, dbVars, Phase,
           Exit, ValidServer
<1>1. CASE MigrateFails
  BY <1>1 DEF MigrateFails, Stop
<1>2. CASE MigrateNext
  BY <1>2 DEF MigrateNext, Go
<1>3. CASE MigrateApply
  <2>1. dirtySchema /\ schema \in Nat /\ schema > 0
    BY <1>3 DEF MigrateApply
  <2>2. 1..(schema - 1) \cup {schema} = 1..schema /\ schema \in 1..schema
    BY <2>1
  <2>3. tables' = 1..schema
    BY <1>3, <2>1, <2>2 DEF MigrateApply, Go
  <2>4. QED
    BY <1>3, <2>1, <2>2, <2>3 DEF MigrateApply, Go
<1>4. CASE MigrateClear
  <2>1. tables = 1..schema
    BY <1>4 DEF MigrateClear, Go
  <2>2. QED
    BY <1>4, <2>1 DEF MigrateClear, Go
<1>5. CASE MigrateDone
  BY <1>5 DEF MigrateDone, Go
<1>6. CASE Listen
  BY <1>6 DEF Listen, Go
<1>7. QED
  BY <1>1, <1>2, <1>3, <1>4, <1>5, <1>6 DEF MigrateStep

LEMMA FailureInv == Inv /\ (ListenFails \/ Crash \/ DbFail \/ DbRecover) => Inv'
<1> SUFFICES ASSUME Inv, ListenFails \/ Crash \/ DbFail \/ DbRecover PROVE Inv'
  OBVIOUS
<1> USE DEF Inv, StartTypeOK, PhaseInv, settingVars, processVars, dbVars, Phase,
           Exit, ValidServer, Fault
<1>1. CASE ListenFails
  BY <1>1 DEF ListenFails, Stop
<1>2. CASE Crash
  BY <1>2 DEF Crash, Stop
<1>3. CASE DbFail
  <2>1. UNCHANGED <<cfg, tries, exit, schema, dirtySchema, tables, changes,
                    env, flags>>
    BY <1>3 DEF DbFail
  <2>2. faults' \in Nat /\ dbUp' = FALSE
    BY <1>3 DEF DbFail
  <2>3. \/ phase \in {"applying", "applied", "migrated"} /\ phase' = "broken"
        \/ phase' = phase
    BY <1>3 DEF DbFail
  <2>4. QED
    BY <2>1, <2>2, <2>3
<1>4. CASE DbRecover
  <2>1. UNCHANGED <<cfg, phase, tries, exit, schema, dirtySchema, tables,
                    changes, faults, env, flags>> /\ dbUp'
    BY <1>4 DEF DbRecover
  <2>2. QED
    BY <2>1
<1>5. QED
  BY <1>1, <1>2, <1>3, <1>4

LEMMA StutterInv == Inv /\ UNCHANGED startVars => Inv'
BY DEF Inv, StartTypeOK, PhaseInv, startVars, settingVars, processVars, dbVars,
       ValidServer

LEMMA StartStepInv == Inv /\ [StartNext]_startVars => Inv'
BY OperatorInv, ConnectInv, MigrateInv, FailureInv, StutterInv
   DEF StartNext, ProcessStep

(* The inductive invariant holds of every run of the server process. *)
LEMMA StartInvariant == StartSpec => []Inv
BY StartInitInv, StartStepInv, PTL DEF StartSpec

-----------------------------------------------------------------------------
(* What a state of the process can be. *)
THEOREM StartTypeCorrect == StartSpec => []StartTypeOK
<1>1. Inv => StartTypeOK
  BY DEF Inv
<1>2. QED
  BY <1>1, StartInvariant, PTL

(* Without the mark of a migration the recorded version tells the tables that
   exist, and with it only the last of them is in doubt
   (migrate.go:25, postgres_handler.go:28-38). *)
THEOREM TablesAreRecorded == StartSpec => []PhaseInv
<1>1. Inv => PhaseInv
  BY DEF Inv
<1>2. QED
  BY <1>1, StartInvariant, PTL

(* A server that answers requests has all its tables and valid settings. *)
THEOREM ServesOnlyMigrated == StartSpec => []ServesMigrated
<1>1. Inv => ServesMigrated
  BY DEF Inv, PhaseInv, ServesMigrated
<1>2. QED
  BY <1>1, StartInvariant, PTL

-----------------------------------------------------------------------------
(* How long a start can take. *)

LEMMA StepsAreFinite == Inv => StepsLeft \in Nat
<1> SUFFICES ASSUME Inv PROVE StepsLeft \in Nat
  OBVIOUS
<1>1. /\ Latest - schema \in Nat /\ Attempts - tries \in Nat
      /\ phase \in Phase
  BY DEF Inv, StartTypeOK
<1> QED
  BY <1>1 DEF StepsLeft, Phase

(* Each step of the process brings it nearer to its end. *)
LEMMA ProcessStepsDown ==
  ASSUME Inv, ProcessStep
  PROVE  StepsLeft' < StepsLeft
<1>1. /\ schema \in Nat /\ Latest - schema \in Nat
      /\ tries \in Nat /\ Attempts - tries \in Nat
  BY DEF Inv, StartTypeOK
<1>2. CASE ConnectStep
  BY <1>1, <1>2 DEF ConnectStep, Connect, ConnectFails, ConnectGivesUp, Go, Stop,
     dbVars, StepsLeft
<1>3. CASE MigrateFails \/ MigrateDone \/ Listen
  BY <1>1, <1>3 DEF MigrateFails, MigrateDone, Listen, Go, Stop, dbVars,
     StepsLeft
<1>4. CASE MigrateNext \/ MigrateApply \/ MigrateClear
  BY <1>1, <1>4 DEF MigrateNext, MigrateApply, MigrateClear, Go, StepsLeft
<1> QED
  BY <1>2, <1>3, <1>4 DEF ProcessStep, MigrateStep

(* Nothing that befalls a process takes it back. *)
LEMMA OthersNeverUp ==
  ASSUME Inv, phase # "down", ~ProcessStep, [StartNext]_startVars
  PROVE  StepsLeft' <= StepsLeft
<1>1. /\ schema \in Nat /\ Latest - schema \in Nat
      /\ tries \in Nat /\ Attempts - tries \in Nat
      /\ phase \in Phase
  BY DEF Inv, StartTypeOK
<1>2. StepsLeft \in Nat
  BY StepsAreFinite
<1>3. CASE UNCHANGED <<phase, tries, schema>>
  <2>1. StepsLeft' = StepsLeft
    BY <1>3 DEF StepsLeft
  <2> QED
    BY <1>2, <2>1
<1>4. CASE ListenFails \/ Crash
  <2>1. phase' = "down"
    BY <1>4 DEF ListenFails, Crash, Stop
  <2>2. StepsLeft' = 0
    BY <2>1 DEF StepsLeft
  <2> QED
    BY <1>2, <2>2
<1>5. CASE DbFail
  <2>1. tries' = tries /\ schema' = schema
    BY <1>5 DEF DbFail
  <2>2. CASE phase \in {"applying", "applied", "migrated"}
    <3>1. StepsLeft' = 1 /\ StepsLeft >= 2
      BY <1>1, <1>5, <2>2 DEF DbFail, StepsLeft
    <3> QED
      BY <1>2, <3>1
  <2>3. CASE phase \notin {"applying", "applied", "migrated"}
    <3>1. phase' = phase
      BY <1>5, <2>3 DEF DbFail
    <3> QED
      BY <1>3, <2>1, <3>1
  <2> QED
    BY <2>2, <2>3
<1>6. Reconfigure \/ DbRecover \/ UNCHANGED startVars =>
        UNCHANGED <<phase, tries, schema>>
  BY DEF Reconfigure, DbRecover, startVars, processVars, dbVars
<1>7. ~Start
  BY DEF Start, StartRefused, StartUnsupported, StartOpening
<1> QED
  BY <1>3, <1>4, <1>5, <1>6, <1>7 DEF StartNext

(* Every start takes a bounded number of steps, for any number of attempts and
   migrations, and whatever fails meanwhile (postgres_handler.go:53-64,
   migrate.go:25): what StartEnds needs of the code besides fairness. *)
THEOREM StartsAreBounded == StartSpec => StartIsBounded
<1> DEFINE Nearer ==
      /\ ProcessStep => StepsLeft' < StepsLeft
      /\ phase # "down" => StepsLeft' \in 0..StepsLeft
<1>1. Inv /\ Inv' /\ [StartNext]_startVars => [Nearer]_startVars
  <2> SUFFICES ASSUME Inv, Inv', [StartNext]_startVars PROVE Nearer
    OBVIOUS
  <2>1. StepsLeft \in Nat /\ StepsLeft' \in Nat
    <3>1. (Inv => StepsLeft \in Nat)'
      BY StepsAreFinite, PTL
    <3> QED
      BY <3>1, StepsAreFinite
  <2>2. ProcessStep => StepsLeft' < StepsLeft
    BY ProcessStepsDown
  <2>3. phase # "down" => StepsLeft' <= StepsLeft
    BY <2>1, <2>2, OthersNeverUp
  <2> QED
    BY <2>1, <2>2, <2>3
<1>2. [][Nearer]_startVars => StartIsBounded
  BY PTL DEF StartIsBounded
<1> QED
  BY <1>1, <1>2, StartInvariant, PTL DEF StartSpec

(* The setting in force is that of the topmost layer that gives it, whatever
   layers there are: each of the three overlays leaves alone what its layer does
   not give (README.md:46, config.go:197-296). *)
THEOREM PriorityIsDocumented == StartSpec => []TopLayerWins
<1>1. TopLayerWins
  <2> DEFINE file == ConfigPath(env, flags)
             base == OverFile(file, ServerDefault)
             under == OverEnv(env, base)
  <2> SUFFICES ASSUME NEW f \in DOMAIN ServerDefault
      PROVE  Loaded[f] =
        CASE FlagGives(f) -> flags[f]
          [] ~FlagGives(f) /\ EnvGives(f) ->
               IF env[f] = "" THEN Zero(f) ELSE env[f]
          [] ~FlagGives(f) /\ ~EnvGives(f) /\ FileGives(file, f) ->
               Gives[file][f]
          [] OTHER -> ServerDefault[f]
    BY DEF TopLayerWins
  <2>1. DOMAIN base = DOMAIN ServerDefault /\ DOMAIN under = DOMAIN base
    BY DEF OverFile, OverEnv
  <2>2. base[f] = IF FileGives(file, f) THEN Gives[file][f]
                  ELSE ServerDefault[f]
    BY DEF OverFile, FileGives
  <2>3. under[f] = IF ~EnvGives(f) THEN base[f]
                   ELSE IF env[f] = "" THEN Zero(f) ELSE env[f]
    BY <2>1 DEF OverEnv, EnvGives
  <2>4. Loaded[f] = IF FlagGives(f) THEN flags[f] ELSE under[f]
    <3>1. Loaded = OverFlags(flags, under)
      BY DEF Loaded, LoadServer
    <3>2. OverFlags(flags, under)[f] =
            IF /\ f \in DOMAIN flags
               /\ flags[f] # "" /\ Parses(f, flags[f])
               /\ ~(f = "port" /\ flags[f] = "0")
            THEN flags[f] ELSE under[f]
      BY <2>1 DEF OverFlags
    <3>3. FlagGives(f) <=>
            /\ f \in DOMAIN flags
            /\ flags[f] # "" /\ Parses(f, flags[f])
            /\ ~(f = "port" /\ flags[f] = "0")
      BY DEF FlagGives, Given
    <3> QED
      BY <3>1, <3>2, <3>3
  <2> HIDE DEF base, under, file
  <2> QED
    BY <2>2, <2>3, <2>4
<1> QED
  BY <1>1, PTL

=============================================================================
