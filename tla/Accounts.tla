------------------------------ MODULE Accounts ------------------------------
(* Accounts and sessions: Register, Login, Me and the middleware of the server
   (internal/auth, internal/handlers/auth.go, middleware.go), the users table
   (internal/repository/postgres_user_store.go), and on the client the calls of
   api.Client and the token file (internal/client/store/token_store.go).

   The server is the process of ServerStart: it may end at any point, taking
   its requests with it, and come back with another signing key. *)
EXTENDS ServerStart

CONSTANTS
  Process,     \* client processes: CLI commands, terminal UIs
  NoProcess,   \* stands for the client of a request that nobody waits for
  Settings,    \* Settings[p]: the layers [env, flags] that p reads
  Home,        \* Home[p]: the data directory it works on
  Credential,  \* Credential[p]: what its user types, records [email, password]
  Norm,        \* Norm[e]: email e trimmed and in lower case
  UserId,      \* ids that newID may draw
  Ttl,         \* lifetime of a token: 24 h
  MaxTime, MaxLosses   \* bounds of the model

Directory == {Home[p] : p \in Process}
Typed == UNION {Credential[p] : p \in Process}
Password == {c.password : c \in Typed}
Email == {Norm[c.email] : c \in Typed}

\* A process whose settings do not load and validate makes no calls.
ASSUME AccountsAssumption ==
  /\ NoProcess \notin Process
  /\ \A p \in Process :
       LET config == LoadClient(Settings[p].env, Settings[p].flags)
       IN  /\ Loads(Settings[p].env, Settings[p].flags)
           /\ ValidClient(config)
           /\ Home[p] = config.data_dir
  /\ Ttl \in Nat \ {0} /\ MaxTime \in Nat /\ MaxLosses \in Nat

VARIABLES
  users,      \* the table: rows [id, email, password]
  requests,   \* calls under way, answered or not
  saving,     \* saving[p]: the token p is about to write to its file
  token,      \* token[d]: what a server could make of the file in d, if
              \* anything
  granted,    \* rows whose registration was answered with success
  now, losses

fileVars == <<saving, token>>
accountVars == <<users, requests, fileVars, granted>>
vars == <<startVars, accountVars, now, losses>>

User == [id : UserId, email : Email, password : Password]
Token == [uid : UserId, email : Email, exp : Nat, key : Text]
Request ==
  [process : Process \cup {NoProcess}, op : {"register", "login"},
   typed : Typed, token : SUBSET Token,
   status : {"running", "created", "exists", "refused", "ok", "unauthorized"}]

TypeOK ==
  /\ StartTypeOK
  /\ users \subseteq User
  /\ requests \subseteq Request
  /\ saving \in [Process -> SUBSET Token]
  /\ token \in [Directory -> SUBSET Token]
  /\ granted \subseteq User
  /\ now \in Nat \ {0} /\ losses \in Nat

Init ==
  /\ StartInit
  /\ users = {} /\ requests = {} /\ granted = {}
  /\ saving = [p \in Process |-> {}]
  /\ token = [d \in Directory |-> {}]
  /\ now = 1 /\ losses = 0

-----------------------------------------------------------------------------
(* The client: one call at a time in each process, sent when a server listens;
   otherwise the command ends with an error and nothing has happened. *)

Busy(p) == saving[p] # {} \/ \E r \in requests : r.process = p

Send(p, op, c) ==
  /\ c \in Credential[p]
  /\ phase = "serving"
  /\ ~Busy(p)
  /\ requests' = requests \cup
       {[process |-> p, op |-> op, typed |-> c, token |-> {},
         status |-> "running"]}
  /\ UNCHANGED <<startVars, users, fileVars, granted, now, losses>>

Register(p, c) == Send(p, "register", c)
Login(p, c) == Send(p, "login", c)

Answered(p, r) == r \in requests /\ r.process = p /\ r.status # "running"

\* The answer is read.  Save truncates the file before it writes the token.
Receive(p) ==
  /\ \E r \in requests :
       /\ Answered(p, r)
       /\ requests' = requests \ {r}
       /\ saving' = [saving EXCEPT ![p] = r.token]
       /\ token' = IF r.token = {} THEN token
                   ELSE [token EXCEPT ![Home[p]] = {}]
  /\ UNCHANGED <<startVars, users, granted, now, losses>>

WriteToken(p) ==
  /\ saving[p] # {}
  /\ token' = [token EXCEPT ![Home[p]] = saving[p]]
  /\ saving' = [saving EXCEPT ![p] = {}]
  /\ UNCHANGED <<startVars, users, requests, granted, now, losses>>

-----------------------------------------------------------------------------
(* The server.  A handler is one statement, or none, and an answer; an answer
   that nobody waits for is gone. *)

Answer(r, status, tok) ==
  requests' = (requests \ {r}) \cup
    IF r.process = NoProcess THEN {}
    ELSE {[r EXCEPT !.status = status, !.token = tok]}

Running(r, op) == r \in requests /\ r.op = op /\ r.status = "running"
EmailOf(r) == Norm[r.typed.email]
\* Mutant of RowOf: the row has the email as typed.
RowOfTyped(r, id) ==
  [id |-> id, email |-> r.typed.email, password |-> r.typed.password]
RowOf(r, id) ==
  [id |-> id, email |-> EmailOf(r), password |-> r.typed.password]
Taken(e) == \E u \in users : u.email = e
Complete(r) == EmailOf(r) # "" /\ r.typed.password # ""

\* Mutant of Insert: what an email column without UNIQUE would do.
InsertAgain(r, u) ==
  /\ u.id \notin {v.id : v \in users}
  /\ users' = users \cup {u}

\* The INSERT, with an id nobody has; the unique index refuses a second one.
Insert(r, u) ==
  /\ u.id \notin {v.id : v \in users}
  /\ ~Taken(u.email)
  /\ users' = users \cup {u}

RegisterNew(r) ==
  /\ Running(r, "register") /\ Complete(r) /\ dbUp
  /\ \E id \in UserId :
       /\ Insert(r, RowOf(r, id))
       /\ granted' = granted \cup {RowOf(r, id)}
  /\ Answer(r, "created", {})
  /\ UNCHANGED <<startVars, fileVars, now, losses>>

\* Mutant of RegisterTaken: a violation of the index passes for success.
RegisterTakenAnyhow(r) ==
  /\ Running(r, "register") /\ Complete(r) /\ dbUp
  /\ Taken(EmailOf(r))
  /\ \E id \in UserId : granted' = granted \cup {RowOf(r, id)}
  /\ Answer(r, "created", {})
  /\ UNCHANGED <<startVars, users, fileVars, now, losses>>
RegisterTaken(r) ==
  /\ Running(r, "register") /\ Complete(r) /\ dbUp
  /\ Taken(EmailOf(r))
  /\ Answer(r, "exists", {})
  /\ UNCHANGED <<startVars, users, fileVars, granted, now, losses>>

\* 400: a blank field, or any error of the database that is no violation.
RegisterRefused(r) ==
  /\ Running(r, "register")
  /\ ~Complete(r) \/ ~dbUp
  /\ Answer(r, "refused", {})
  /\ UNCHANGED <<startVars, users, fileVars, granted, now, losses>>

\* Mutants of Matching: any password will do; the email is taken as typed.
MatchingEmail(c) == {u \in users : u.email = Norm[c.email]}
MatchingTyped(c) ==
  {u \in users : u.email = c.email /\ u.password = c.password}

Matching(c) ==
  {u \in users : u.email = Norm[c.email] /\ u.password = c.password}

Issue(u) ==
  [uid |-> u.id, email |-> u.email, exp |-> now + Ttl, key |-> cfg.jwt_key]

LoginMatches(r) ==
  /\ Running(r, "login") /\ dbUp
  /\ \E u \in Matching(r.typed) : Answer(r, "ok", {Issue(u)})
  /\ UNCHANGED <<startVars, users, fileVars, granted, now, losses>>

\* 401: no such account, another password, or no database to ask.
LoginRefused(r) ==
  /\ Running(r, "login")
  /\ ~dbUp \/ Matching(r.typed) = {}
  /\ Answer(r, "unauthorized", {})
  /\ UNCHANGED <<startVars, users, fileVars, granted, now, losses>>

\* ParseToken: signed with the key of this process, and not expired.
Accepted(t) == t.key = cfg.jwt_key /\ now < t.exp

Handle(r) ==
  \/ RegisterNew(r) \/ RegisterTaken(r) \/ RegisterRefused(r)
  \/ LoginMatches(r) \/ LoginRefused(r)

-----------------------------------------------------------------------------
(* Failures, and time. *)

Lose == losses < MaxLosses /\ losses' = losses + 1

\* The row is committed and the connection to the database lost: 400.
CommitLost(r) ==
  /\ Running(r, "register") /\ Complete(r) /\ dbUp
  /\ Lose
  /\ \E id \in UserId : Insert(r, RowOf(r, id))
  /\ Answer(r, "refused", {})
  /\ UNCHANGED <<startVars, fileVars, granted, now>>

\* A time-out, a lost answer, a killed process: the handler goes on.
GiveUp(p) ==
  /\ \E r \in requests :
       /\ r.process = p
       /\ requests' = (requests \ {r}) \cup
            IF r.status = "running" THEN {[r EXCEPT !.process = NoProcess]}
            ELSE {}
  /\ Lose
  /\ UNCHANGED <<startVars, users, fileVars, granted, now>>

CrashInSave(p) ==
  /\ saving[p] # {}
  /\ Lose
  /\ saving' = [saving EXCEPT ![p] = {}]
  /\ UNCHANGED <<startVars, users, requests, token, granted, now>>

\* Two processes have truncated the file: the shorter of two tokens is written
\* over the longer one, and what results is no token.
WriteOver(p) ==
  /\ saving[p] # {} /\ token[Home[p]] # {}
  /\ Lose
  /\ token' = [token EXCEPT ![Home[p]] = {}]
  /\ saving' = [saving EXCEPT ![p] = {}]
  /\ UNCHANGED <<startVars, users, requests, granted, now>>

Tick ==
  /\ now < MaxTime
  /\ now' = now + 1
  /\ UNCHANGED <<startVars, accountVars, losses>>

\* A step of the server process, which takes its handlers with it.
ServerStep ==
  /\ StartNext
  /\ requests' = {r \in requests : phase' = "serving" \/ r.status # "running"}
  /\ UNCHANGED <<users, fileVars, granted, now, losses>>

ClientStep(p) == Receive(p) \/ WriteToken(p)

Next ==
  \/ ServerStep
  \/ Tick
  \/ \E p \in Process :
       \/ \E c \in Credential[p] : Register(p, c) \/ Login(p, c)
       \/ ClientStep(p)
       \/ GiveUp(p) \/ CrashInSave(p) \/ WriteOver(p)
  \/ \E r \in requests : Handle(r) \/ CommitLost(r)

Spec == Init /\ [][Next]_vars

(* Handlers and clients go on once they run, and a user who wants to log in
   tries again whenever there is a server. *)
Fairness ==
  /\ \A p \in Process :
       /\ WF_vars(\E r \in requests : r.process = p /\ Handle(r))
       /\ WF_vars(ClientStep(p))
       /\ \A c \in Credential[p] : SF_vars(Login(p, c))

FairSpec == Spec /\ Fairness

-----------------------------------------------------------------------------
(* Properties. *)

Owns(c, u) == u.email = Norm[c.email] /\ u.password = c.password

(* Of all who register an email, at once, again after a lost answer, or in
   another spelling, one at most is told that the account is theirs, and it
   stays theirs; nobody is told that an email is taken which is not
   (postgres_user_store.go:36-43, auth.go:63-73). *)
RegisteredOnce ==
  /\ granted \subseteq users
  /\ \A u, v \in users : u.email = v.email => u = v
  /\ \A r \in requests : r.status = "exists" => Taken(EmailOf(r))

(* A login opens the account whose email and password were typed, and the
   calls of a directory are made with an account that was opened there: a race
   of two logins, a crash in the middle of one, or a late answer may cost a
   session and never swaps it for that of somebody else
   (api/client.go:135-144, 290; token_store.go:23-40; auth/service.go:58-67). *)
Opens(c, t) ==
  \E u \in users : Owns(c, u) /\ t.uid = u.id /\ t.email = u.email
SessionsAreOwners ==
  /\ \A r \in requests : r.op = "login" => \A t \in r.token : Opens(r.typed, t)
  /\ \A d \in Directory : \A t \in token[d] :
       \E p \in Process : Home[p] = d /\ \E c \in Credential[p] : Opens(c, t)

(* The owner of an account who tries to log in comes to have a session that the
   server accepts, once server and database stay up: no refused, lost or
   overtaken attempt is final, nor a key that was changed
   (auth/service.go:58-67, token_store.go:23-28). *)
Session(p, c) ==
  \E t \in token[Home[p]] : t.email = Norm[c.email] /\ Accepted(t)
OwnerGetsIn ==
  <>[](phase = "serving" /\ dbUp) =>
    \A p \in Process : \A c \in Credential[p] :
      (\E u \in users : Owns(c, u)) ~> Session(p, c)

(* Accounts implements the contract of the account book: rows are the claims,
   and the tokens on devices are the sessions. *)
Claims == {[id |-> u.id, email |-> u.email] : u \in users}
Sessions ==
  {[id |-> t.uid, email |-> t.email] :
     t \in UNION {token[d] : d \in Directory}}
Book == INSTANCE AccountBook WITH book <- Claims, sessions <- Sessions
ImplementsBook == Book!Spec

-----------------------------------------------------------------------------
(* The inductive invariant behind RegisteredOnce and SessionsAreOwners: who has
   sent a request has typed what is in it, and a token on its way to a file was
   opened by the process that writes it. *)
AccountsInv ==
  /\ TypeOK
  /\ RegisteredOnce
  /\ SessionsAreOwners
  /\ \A u, v \in users : u.id = v.id => u = v
  /\ \A r \in requests :
       /\ r.process # NoProcess => r.typed \in Credential[r.process]
       /\ r.op = "register" => r.token = {}
       /\ \A t, o \in r.token : t = o
  /\ \A p \in Process :
       /\ \A t \in saving[p] : \E c \in Credential[p] : Opens(c, t)
       /\ \A t, o \in saving[p] : t = o

=============================================================================
