----------------------------- MODULE MCAccounts -----------------------------
(* Accounts on a small instance: two processes on one data directory, and
   the server of docker-compose.yml, whose key may be changed once. *)
EXTENDS Accounts, TLC

CONSTANTS p1, p2

ThePaths == {}
TheFiles == [p \in {} |-> 0]
ComposeEnv ==
  "host" :> "0.0.0.0" @@ "port" :> "8080" @@ "storage" :> "postgres" @@
  "dsn" :> "postgresql://db" @@ "jwt_key" :> "dev-secret" @@
  "log_level" :> "info" @@ "log_format" :> "text"
TheChanges == {[layer |-> "env", field |-> "jwt_key", value |-> "change-me"]}

None == [f \in {} |-> ""]
\* A command run in the default directory and a terminal UI told to use it.
TheSettings == [p \in Process |->
  [env |-> None,
   flags |-> IF p = p2 THEN "data_dir" :> ".gophkeeper" ELSE None]]
TheHome == [p \in Process |-> ".gophkeeper"]

TheNorm == [e \in {"ann", "ANN", "bob"} |-> IF e = "bob" THEN "bob" ELSE "ann"]
TheCredentials ==
  p1 :> {[email |-> "ann", password |-> "pw1"]} @@
  p2 :> {[email |-> "ANN", password |-> "pw2"],
         [email |-> "bob", password |-> "pw2"]}

(* One kind of trouble at a time: an attempt that is lost on its way, a failure
   of the server or its database, with a new key or not, or a token that
   expires. *)
OneTrouble ==
  /\ losses' > 0 => faults' + changes' = 0 /\ now' = 1
  /\ faults' + changes' > 0 => now' = 1

LoginSpec == Init /\ [][Next /\ OneTrouble]_vars /\ Fairness

TheText ==
  {ServerDefault[f] : f \in DOMAIN ServerDefault}
    \cup {ClientDefault[f] : f \in DOMAIN ClientDefault}
    \cup {ComposeEnv[f] : f \in DOMAIN ComposeEnv}
    \cup UNION {{TheFiles[p][f] : f \in DOMAIN TheFiles[p]} :
                 p \in DOMAIN TheFiles}
    \cup {c.value : c \in TheChanges} \cup {"0"}

=============================================================================
