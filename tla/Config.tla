------------------------------- MODULE Config -------------------------------
(* The settings of the server and of the client (internal/config).  Built-in
   defaults are overlaid by a file, the environment and the command line, in
   this order, and the result is validated.

   A layer is a function from the settings it gives to their values, which are
   texts; "junk" stands for a text that is neither a number nor a
   Boolean, and Port for the texts of 1..65535. *)

CONSTANTS
  Text,       \* what a setting can be
  Path,       \* names of config files
  Readable,   \* those that exist, have a known extension and can be parsed
  Gives,      \* Gives[p]: the layer that file p gives
  Port        \* ports in range

IsLayer(layer) == \A f \in DOMAIN layer : layer[f] \in Text

ASSUME ConfigAssumption ==
  /\ {"", "0", "0.0.0.0", "8080", "http://127.0.0.1:8080", ".gophkeeper",
      "memory", "info", "text", "false"} \subseteq Text
  /\ "" \notin Path /\ " " \notin Path
  /\ Readable \subseteq Path
  /\ \A p \in Readable : IsLayer(Gives[p])
  /\ "8080" \in Port /\ "0" \notin Port

ServerDefault ==
  [host |-> "0.0.0.0", port |-> "8080", storage |-> "memory", dsn |-> "",
   log_level |-> "info", log_format |-> "text", jwt_key |-> "",
   tls |-> "false", tls_cert |-> "", tls_key |-> ""]

ClientDefault ==
  [server_url |-> "http://127.0.0.1:8080", data_dir |-> ".gophkeeper",
   tls |-> "false", tls_ca |-> "", log_level |-> "info",
   log_format |-> "text"]

\* Texts that strings.TrimSpace leaves nothing of.
Blank == {"", " "}

\* Atoi and ParseBool; a text needs no parsing.
Parses(f, v) == f \in {"port", "tls"} => v # "junk"

\* What an environment variable that is set and empty means.
Zero(f) ==
  IF f = "port" THEN "0" ELSE IF f = "tls" THEN "false" ELSE ""

\* A variable that cannot be parsed is passed over.
OverEnv(env, cfg) ==
  [f \in DOMAIN cfg |->
     IF f \notin DOMAIN env \/ ~Parses(f, env[f]) THEN cfg[f]
     ELSE IF env[f] = "" THEN Zero(f) ELSE env[f]]

\* An empty flag counts as none, and so does port 0.
OverFlags(flags, cfg) ==
  [f \in DOMAIN cfg |->
     IF /\ f \in DOMAIN flags
        /\ flags[f] # "" /\ Parses(f, flags[f])
        /\ ~(f = "port" /\ flags[f] = "0")
     THEN flags[f] ELSE cfg[f]]

\* A decoder leaves alone what the file does not mention.
OverFile(p, cfg) ==
  [f \in DOMAIN cfg |->
     IF p \in Readable /\ f \in DOMAIN Gives[p] THEN Gives[p][f] ELSE cfg[f]]

Given(layer, f) == IF f \in DOMAIN layer THEN layer[f] ELSE ""

ConfigPath(env, flags) ==
  LET flag == Given(flags, "config")
      var  == Given(env, "config")
  IN  IF flag \notin Blank THEN flag ELSE IF var \notin Blank THEN var ELSE ""

\* The flag package exits on a port that is no number; a file that is named
\* and cannot be used is an error.
Loads(env, flags) ==
  /\ Given(flags, "port") # "junk"
  /\ ConfigPath(env, flags) \in Readable \cup {""}

\* Mutant of LoadServer: the environment is applied last.
LoadServerEnvLast(env, flags) ==
  OverEnv(env, OverFlags(flags,
    OverFile(ConfigPath(env, flags), ServerDefault)))

LoadServer(env, flags) ==
  OverFlags(flags, OverEnv(env,
    OverFile(ConfigPath(env, flags), ServerDefault)))

LoadClient(env, flags) ==
  OverFlags(flags, OverEnv(env,
    OverFile(ConfigPath(env, flags), ClientDefault)))

ValidServer(c) ==
  /\ c.host \notin Blank
  /\ c.port \in Port
  /\ c.storage \in Blank \cup {"memory", "sqlite", "postgres"}
  /\ c.storage = "postgres" => c.dsn \notin Blank
  /\ c.log_level \notin Blank
  /\ c.log_format \in Blank \cup {"text", "json"}
  /\ c.jwt_key \notin Blank
  /\ c.tls = "true" => c.tls_cert \notin Blank /\ c.tls_key \notin Blank

ValidClient(c) ==
  /\ c.server_url \notin Blank
  /\ c.data_dir \notin Blank
  /\ c.log_format \in Blank \cup {"text", "json"}
  /\ c.log_level \notin Blank

=============================================================================
