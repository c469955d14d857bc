--------------------------- MODULE MCServerStart ---------------------------
(* ServerStart on a small instance: the environment of docker-compose.yml, two
   config files, and an operator who sets one or two of the settings below. *)
EXTENDS ServerStart, TLC

ThePaths == {"server.yaml", "gone.yaml"}
TheReadable == {"server.yaml"}
TheFiles == [p \in TheReadable |->
  "storage" :> "memory" @@ "port" :> "8081" @@ "jwt_key" :> "change-me"]

ComposeEnv ==
  "host" :> "0.0.0.0" @@ "port" :> "8080" @@ "storage" :> "postgres" @@
  "dsn" :> "postgresql://db" @@ "jwt_key" :> "dev-secret" @@
  "log_level" :> "info" @@ "log_format" :> "text"

ChangeOf(layer, field, values) ==
  {[layer |-> layer, field |-> field, value |-> v] : v \in values}

TheChanges ==
  UNION {ChangeOf("env", "config", {"server.yaml", "gone.yaml"}),
         ChangeOf("flags", "config", {"server.yaml"}),
         ChangeOf("env", "storage", {"", "memory"}),
         ChangeOf("flags", "storage", {"postgres"}),
         ChangeOf("env", "port", {"", "junk"}),
         ChangeOf("flags", "port", {"0", "junk"}),
         ChangeOf("env", "jwt_key", {" "}),
         ChangeOf("flags", "jwt_key", {"k2"}),
         ChangeOf("env", "tls", {"true", "junk"}),
         ChangeOf("flags", "tls", {"false", "junk"}),
         ChangeOf("env", "dsn", {""})}

TheText ==
  {ServerDefault[f] : f \in DOMAIN ServerDefault}
    \cup {ClientDefault[f] : f \in DOMAIN ClientDefault}
    \cup {ComposeEnv[f] : f \in DOMAIN ComposeEnv}
    \cup UNION {{TheFiles[p][f] : f \in DOMAIN TheFiles[p]} :
                 p \in DOMAIN TheFiles}
    \cup {c.value : c \in TheChanges} \cup {"0"}

=============================================================================
