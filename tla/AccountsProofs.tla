--------------------------- MODULE AccountsProofs ---------------------------
(* Theorems about Accounts, for all processes, directories, credentials,
   clocks and failures, and for every server that ServerStart describes. *)
EXTENDS Accounts, ServerStartProofs

USE AccountsAssumption

(* AccountsInv, sorted by what an action changes. *)
Rows ==
  /\ users \subseteq User
  /\ granted \subseteq users
  /\ \A u, v \in users : u.email = v.email => u = v
  /\ \A u, v \in users : u.id = v.id => u = v

RequestOK(r) ==
  /\ r \in Request
  /\ r.status = "exists" => Taken(EmailOf(r))
  /\ r.op = "login" => \A t \in r.token : Opens(r.typed, t)
  /\ r.process # NoProcess => r.typed \in Credential[r.process]
  /\ r.op = "register" => r.token = {}
  /\ \A t, o \in r.token : t = o

Saved ==
  /\ saving \in [Process -> SUBSET Token]
  /\ \A p \in Process :
       /\ \A t \in saving[p] : \E c \in Credential[p] : Opens(c, t)
       /\ \A t, o \in saving[p] : t = o

OpenedIn(d, t) ==
  \E p \in Process : Home[p] = d /\ \E c \in Credential[p] : Opens(c, t)
Files ==
  /\ token \in [Directory -> SUBSET Token]
  /\ \A d \in Directory : \A t \in token[d] : OpenedIn(d, t)

Parts ==
  /\ Inv
  /\ Rows
  /\ \A r \in requests : RequestOK(r)
  /\ Saved /\ Files
  /\ now \in Nat \ {0} /\ losses \in Nat

LEMMA PartsAreInv == Parts => AccountsInv
<1> SUFFICES ASSUME Parts PROVE AccountsInv
  OBVIOUS
<1> USE DEF Parts
<1>1. TypeOK
  BY DEF TypeOK, Inv, Rows, RequestOK, Saved, Files
<1>2. RegisteredOnce
  BY DEF RegisteredOnce, Rows, RequestOK
<1>3. SessionsAreOwners
  BY DEF SessionsAreOwners, RequestOK, Files, OpenedIn
<1>4. QED
  BY <1>1, <1>2, <1>3 DEF AccountsInv, Rows, RequestOK, Saved

-----------------------------------------------------------------------------
(* What is typed, and where it is kept. *)
LEMMA TypedByProcess ==
  ASSUME NEW p \in Process, NEW c \in Credential[p]
  PROVE  c \in Typed
BY DEF Typed

LEMMA HomeIsDirectory ==
  ASSUME NEW p \in Process
  PROVE  Home[p] \in Directory
BY DEF Directory

(* A registration makes a row, and a login a token. *)
LEMMA RowType ==
  ASSUME NEW r \in Request, NEW id \in UserId
  PROVE  RowOf(r, id) \in User
<1>1. r.typed \in Typed
  BY DEF Request
<1>2. Norm[r.typed.email] \in Email /\ r.typed.password \in Password
  BY <1>1 DEF Email, Password
<1>3. QED
  BY <1>2 DEF RowOf, EmailOf, User

LEMMA IssueType ==
  ASSUME Inv, now \in Nat, NEW u \in User
  PROVE  Issue(u) \in Token
<1>1. "jwt_key" \in DOMAIN ServerDefault
  BY DEF ServerDefault
<1>2. cfg.jwt_key \in Text
  BY <1>1 DEF Inv, StartTypeOK
<1>3. now + Ttl \in Nat
  OBVIOUS
<1>4. u.id \in UserId /\ u.email \in Email
  BY DEF User
<1>5. QED
  BY <1>2, <1>3, <1>4 DEF Issue, Token

-----------------------------------------------------------------------------
(* Rows are never removed, so what they have opened stays opened. *)
LEMMA OpensStays ==
  ASSUME users \subseteq users', NEW c, NEW t, Opens(c, t)
  PROVE  Opens(c, t)'
BY DEF Opens, Owns

LEMMA RequestStays ==
  ASSUME users \subseteq users', NEW r, RequestOK(r)
  PROVE  RequestOK(r)'
<1>1. Taken(EmailOf(r)) => Taken(EmailOf(r))'
  BY DEF Taken, EmailOf
<1>2. QED
  BY <1>1, OpensStays DEF RequestOK, EmailOf

LEMMA SavedStays ==
  ASSUME users \subseteq users', Saved, UNCHANGED saving
  PROVE  Saved'
<1>1. \A p \in Process : \A t \in saving[p] : \E c \in Credential[p] :
        Opens(c, t)'
  BY OpensStays DEF Saved
<1>2. QED
  BY <1>1 DEF Saved

LEMMA FilesStay ==
  ASSUME users \subseteq users', Files, UNCHANGED token
  PROVE  Files'
<1>1. \A d \in Directory : \A t \in token[d] : OpenedIn(d, t)'
  BY OpensStays DEF Files, OpenedIn
<1>2. QED
  BY <1>1 DEF Files

(* An answer that is true of its request leaves all requests in order. *)
LEMMA AnswerKeeps ==
  ASSUME \A q \in requests : RequestOK(q),
         users \subseteq users',
         NEW r \in requests,
         NEW s \in {"created", "exists", "refused", "ok", "unauthorized"},
         NEW tok \in SUBSET Token,
         s = "exists" => Taken(EmailOf(r))',
         r.op = "register" => tok = {},
         r.op = "login" => \A t \in tok : Opens(r.typed, t)',
         \A t, o \in tok : t = o,
         Answer(r, s, tok)
  PROVE  \A q \in requests' : RequestOK(q)'
<1> DEFINE a == [r EXCEPT !.status = s, !.token = tok]
<1>1. \A q \in requests : RequestOK(q)'
  BY RequestStays
<1>2. RequestOK(a)'
  <2>1. r \in Request
    BY DEF RequestOK
  <2>2. a \in Request
    BY <2>1 DEF Request
  <2>3. /\ a.status = s /\ a.token = tok /\ a.op = r.op
        /\ a.typed = r.typed /\ a.process = r.process
    BY <2>1 DEF Request
  <2>4. r.process # NoProcess => r.typed \in Credential[r.process]
    BY DEF RequestOK
  <2> HIDE DEF a
  <2>5. QED
    BY <2>2, <2>3, <2>4 DEF RequestOK, EmailOf
<1>3. \A q \in requests' : q \in requests \/ q = a
  BY DEF Answer
<1>4. QED
  BY <1>1, <1>2, <1>3

-----------------------------------------------------------------------------
(* The initial states. *)
LEMMA InitParts == Init => Parts
<1> SUFFICES ASSUME Init PROVE Parts
  OBVIOUS
<1>1. Inv
  BY StartInitInv DEF Init
<1>2. Rows /\ (\A r \in requests : RequestOK(r)) /\ Saved /\ Files
  BY DEF Init, Rows, Saved, Files
<1>3. QED
  BY <1>1, <1>2 DEF Init, Parts

-----------------------------------------------------------------------------
(* Steps of the client. *)

LEMMA SendParts ==
  ASSUME Parts, NEW p \in Process, NEW op \in {"register", "login"}, NEW c,
         Send(p, op, c)
  PROVE  Parts'
<1> DEFINE r == [process |-> p, op |-> op, typed |-> c, token |-> {},
                 status |-> "running"]
<1>1. UNCHANGED <<startVars, users, saving, token, granted, now, losses>>
  BY DEF Send, fileVars
<1>2. Inv' /\ Rows' /\ Saved' /\ Files'
  BY <1>1, StutterInv, SavedStays, FilesStay DEF Parts, Rows
<1>3. RequestOK(r)'
  <2>1. c \in Credential[p] /\ c \in Typed
    BY TypedByProcess DEF Send
  <2>2. r \in Request
    BY <2>1 DEF Request
  <2>3. QED
    BY <2>1, <2>2 DEF RequestOK
<1>4. \A q \in requests' : q \in requests \/ q = r
  BY DEF Send
<1>5. \A q \in requests' : RequestOK(q)'
  BY <1>1, <1>3, <1>4, RequestStays DEF Parts
<1>6. QED
  BY <1>1, <1>2, <1>5 DEF Parts

LEMMA ReceiveParts ==
  ASSUME Parts, NEW p \in Process, Receive(p)
  PROVE  Parts'
<1>1. UNCHANGED <<startVars, users, granted, now, losses>>
  BY DEF Receive
<1>2. Inv' /\ Rows'
  BY <1>1, StutterInv DEF Parts, Rows
<1>3. PICK r \in requests :
        /\ r.process = p /\ RequestOK(r)
        /\ requests' = requests \ {r}
        /\ saving' = [saving EXCEPT ![p] = r.token]
        /\ \/ token' = token
           \/ token' = [token EXCEPT ![Home[p]] = {}]
  BY DEF Receive, Answered, Parts
<1>4. \A q \in requests' : RequestOK(q)'
  BY <1>1, <1>3, RequestStays DEF Parts
<1>5. Saved'
  <2>1. r.typed \in Credential[p] /\ r.token \in SUBSET Token
        /\ r.op \in {"register", "login"}
    BY <1>3, AccountsAssumption DEF RequestOK, Request
  <2>2. \A t \in r.token : Opens(r.typed, t)
    BY <1>3, <2>1 DEF RequestOK
  <2>3. \A t \in r.token : \E c \in Credential[p] : Opens(c, t)'
    BY <1>1, <2>1, <2>2, OpensStays
  <2>4. \A q \in Process : \A t \in saving[q] : \E c \in Credential[q] :
          Opens(c, t)'
    BY <1>1, OpensStays DEF Parts, Saved
  <2>5. \A t, o \in r.token : t = o
    BY <1>3 DEF RequestOK
  <2>6. \A q \in Process : saving'[q] = IF q = p THEN r.token ELSE saving[q]
    BY <1>3 DEF Parts, Saved
  <2>7. saving' \in [Process -> SUBSET Token]
    BY <1>3, <2>1 DEF Parts, Saved
  <2>8. QED
    BY <2>3, <2>4, <2>5, <2>6, <2>7 DEF Parts, Saved
<1>6. Files'
  <2>1. \A d \in Directory : \A t \in token[d] : OpenedIn(d, t)'
    BY <1>1, OpensStays DEF Parts, Files, OpenedIn
  <2>2. \A d \in Directory : token'[d] \subseteq token[d]
    BY <1>3 DEF Parts, Files
  <2>3. token' \in [Directory -> SUBSET Token]
    BY <1>3 DEF Parts, Files
  <2>4. QED
    BY <2>1, <2>2, <2>3 DEF Files
<1>7. QED
  BY <1>1, <1>2, <1>4, <1>5, <1>6 DEF Parts

(* What is written, or lost, is a token that was about to be. *)
LEMMA SaveEndsParts ==
  ASSUME Parts, NEW p \in Process,
         UNCHANGED <<startVars, users, requests, granted, now>>,
         losses' \in Nat,
         saving' = [saving EXCEPT ![p] = {}],
         NEW x \in {token[Home[p]], saving[p], {}},
         token' = [token EXCEPT ![Home[p]] = x]
  PROVE  Parts'
<1>1. users \subseteq users' /\ users' = users /\ requests' = requests
  OBVIOUS
<1>2. Inv' /\ Rows'
  BY StutterInv DEF Parts, Rows
<1>3. \A q \in requests' : RequestOK(q)'
  BY <1>1, RequestStays DEF Parts
<1>4. Saved'
  <2>1. \A q \in Process : \A t \in saving[q] : \E c \in Credential[q] :
          Opens(c, t)'
    BY <1>1, OpensStays DEF Parts, Saved
  <2>2. \A q \in Process : saving'[q] = IF q = p THEN {} ELSE saving[q]
    BY DEF Parts, Saved
  <2>3. saving' \in [Process -> SUBSET Token]
    BY DEF Parts, Saved
  <2>4. QED
    BY <2>1, <2>2, <2>3 DEF Parts, Saved
<1>5. Files'
  <2>1. Home[p] \in Directory
    BY HomeIsDirectory
  <2>2. \A d \in Directory : \A t \in token[d] : OpenedIn(d, t)'
    BY <1>1, OpensStays DEF Parts, Files, OpenedIn
  <2>3. \A t \in saving[p] : OpenedIn(Home[p], t)'
    BY <1>1, OpensStays DEF Parts, Saved, OpenedIn
  <2>4. x \in SUBSET Token /\ \A t \in x : OpenedIn(Home[p], t)'
    BY <2>1, <2>2, <2>3 DEF Parts, Saved, Files
  <2>5. \A d \in Directory : token'[d] = IF d = Home[p] THEN x ELSE token[d]
    BY DEF Parts, Files
  <2>6. token' \in [Directory -> SUBSET Token]
    BY <2>4 DEF Parts, Files
  <2>7. QED
    BY <2>2, <2>4, <2>5, <2>6 DEF Files
<1>6. QED
  BY <1>2, <1>3, <1>4, <1>5 DEF Parts

LEMMA SavingParts ==
  ASSUME Parts, NEW p \in Process,
         WriteToken(p) \/ CrashInSave(p) \/ WriteOver(p)
  PROVE  Parts'
<1>1. /\ UNCHANGED <<startVars, users, requests, granted, now>>
      /\ saving' = [saving EXCEPT ![p] = {}]
  BY DEF WriteToken, CrashInSave, WriteOver
<1>2. losses' \in Nat
  BY DEF Parts, WriteToken, CrashInSave, WriteOver, Lose
<1>3. token = [token EXCEPT ![Home[p]] = token[Home[p]]]
  BY HomeIsDirectory DEF Parts, Files
<1>4. \E x \in {token[Home[p]], saving[p], {}} :
        token' = [token EXCEPT ![Home[p]] = x]
  BY <1>3 DEF WriteToken, CrashInSave, WriteOver
<1>5. QED
  BY <1>1, <1>2, <1>4, SaveEndsParts

LEMMA GiveUpParts ==
  ASSUME Parts, NEW p \in Process, GiveUp(p)
  PROVE  Parts'
<1>1. UNCHANGED <<startVars, users, saving, token, granted, now>>
      /\ losses' \in Nat
  BY DEF Parts, GiveUp, Lose, fileVars
<1>2. Inv' /\ Rows' /\ Saved' /\ Files'
  BY <1>1, StutterInv, SavedStays, FilesStay DEF Parts, Rows
<1>3. PICK r \in requests :
        requests' \subseteq
          requests \cup {[r EXCEPT !.process = NoProcess]}
  BY DEF GiveUp
<1>4. RequestOK([r EXCEPT !.process = NoProcess])'
  <2>1. RequestOK(r)' /\ RequestOK(r)
    BY <1>1, RequestStays DEF Parts
  <2>2. r \in Request
    BY <2>1 DEF RequestOK
  <2> DEFINE a == [r EXCEPT !.process = NoProcess]
  <2>3. a \in Request
    BY <2>2 DEF Request
  <2>4. /\ a.status = r.status /\ a.token = r.token /\ a.op = r.op
        /\ a.typed = r.typed /\ a.process = NoProcess
    BY <2>2 DEF Request
  <2> HIDE DEF a
  <2>5. RequestOK(a)'
    BY <2>1, <2>3, <2>4 DEF RequestOK, EmailOf
  <2>6. QED
    BY <2>5 DEF a
<1>5. \A q \in requests' : RequestOK(q)'
  BY <1>1, <1>3, <1>4, RequestStays DEF Parts
<1>6. QED
  BY <1>1, <1>2, <1>5 DEF Parts

-----------------------------------------------------------------------------
(* Steps of the server. *)

(* A new row has an id and an email that no other has. *)
LEMMA InsertKeepsRows ==
  ASSUME Rows, NEW r \in Request, NEW id \in UserId,
         Insert(r, RowOf(r, id)),
         \/ granted' = granted \cup {RowOf(r, id)}
         \/ UNCHANGED granted
  PROVE  Rows' /\ users \subseteq users'
<1> DEFINE u == RowOf(r, id)
<1>1. u \in User
  BY RowType
<1>2. /\ users' = users \cup {u}
      /\ \A v \in users : v.id # u.id /\ v.email # u.email
  BY DEF Insert, Taken
<1> HIDE DEF u
<1>3. granted' \subseteq users'
  BY <1>2 DEF Rows, u
<1>4. QED
  BY <1>1, <1>2, <1>3 DEF Rows

LEMMA InsertParts ==
  ASSUME Parts, NEW r \in requests, RegisterNew(r) \/ CommitLost(r)
  PROVE  Parts'
<1>1. /\ r \in Request /\ r.op = "register"
      /\ UNCHANGED <<startVars, saving, token, now>> /\ losses' \in Nat
      /\ \A q \in requests : RequestOK(q)
  BY DEF Parts, RequestOK, RegisterNew, CommitLost, Running, fileVars, Lose
<1>2. PICK s \in {"created", "refused"} : Answer(r, s, {})
  BY DEF RegisterNew, CommitLost
<1>3. PICK id \in UserId :
        /\ Insert(r, RowOf(r, id))
        /\ \/ granted' = granted \cup {RowOf(r, id)}
           \/ UNCHANGED granted
  BY DEF RegisterNew, CommitLost
<1>4. Rows' /\ users \subseteq users'
  BY <1>1, <1>3, InsertKeepsRows DEF Parts
<1>5. \A q \in requests' : RequestOK(q)'
  BY <1>1, <1>2, <1>4, AnswerKeeps
<1>6. Inv' /\ Saved' /\ Files'
  BY <1>1, <1>4, StutterInv, SavedStays, FilesStay DEF Parts
<1>7. QED
  BY <1>1, <1>4, <1>5, <1>6 DEF Parts

LEMMA AnswerParts ==
  ASSUME Parts, NEW r \in requests,
         \/ RegisterTaken(r) \/ RegisterRefused(r)
         \/ LoginMatches(r) \/ LoginRefused(r)
  PROVE  Parts'
<1>1. UNCHANGED <<startVars, users, saving, token, granted, now, losses>>
  BY DEF RegisterTaken, RegisterRefused, LoginMatches, LoginRefused, fileVars
<1>2. Inv' /\ Rows' /\ Saved' /\ Files'
  BY <1>1, StutterInv, SavedStays, FilesStay DEF Parts, Rows
<1>3. \A q \in requests : RequestOK(q)
  BY DEF Parts
<1>4. \A q \in requests' : RequestOK(q)'
  <2>1. CASE RegisterTaken(r)
    <3>1. Taken(EmailOf(r))'
      BY <1>1, <2>1 DEF RegisterTaken, Taken, EmailOf
    <3>2. QED
      BY <1>1, <1>3, <2>1, <3>1, AnswerKeeps DEF RegisterTaken
  <2>2. CASE RegisterRefused(r)
    BY <1>1, <1>3, <2>2, AnswerKeeps DEF RegisterRefused
  <2>3. CASE LoginMatches(r)
    <3>0. PICK u \in Matching(r.typed) : Answer(r, "ok", {Issue(u)})
      BY <2>3 DEF LoginMatches
    <3>1. PICK t \in {Issue(u)} : Answer(r, "ok", {t})
      BY <3>0
    <3>2. u \in users /\ u \in User /\ Owns(r.typed, u)
      BY <3>1 DEF Matching, Owns, Parts, Rows
    <3>3. t \in Token /\ t.uid = u.id /\ t.email = u.email
      BY <3>1, <3>2, IssueType DEF Parts, Issue
    <3>4. Opens(r.typed, t)'
      BY <1>1, <3>2, <3>3 DEF Opens, Owns
    <3>5. r.op = "login"
      BY <2>3 DEF LoginMatches, Running
    <3>6. QED
      BY <1>1, <1>3, <3>1, <3>3, <3>4, <3>5, AnswerKeeps
  <2>4. CASE LoginRefused(r)
    BY <1>1, <1>3, <2>4, AnswerKeeps DEF LoginRefused
  <2>5. QED
    BY <2>1, <2>2, <2>3, <2>4
<1>5. QED
  BY <1>1, <1>2, <1>4 DEF Parts

LEMMA EnvironmentParts ==
  ASSUME Parts, ServerStep \/ Tick \/ UNCHANGED vars
  PROVE  Parts'
<1>1. /\ UNCHANGED <<users, saving, token, granted>>
      /\ now' \in Nat \ {0} /\ losses' \in Nat
      /\ requests' \subseteq requests
  BY DEF Parts, ServerStep, Tick, vars, accountVars, fileVars
<1>2. Inv'
  BY StartStepInv DEF Parts, ServerStep, Tick, vars
<1>3. Rows' /\ Saved' /\ Files'
  BY <1>1, SavedStays, FilesStay DEF Parts, Rows
<1>4. \A q \in requests' : RequestOK(q)'
  BY <1>1, RequestStays DEF Parts
<1>5. QED
  BY <1>1, <1>2, <1>3, <1>4 DEF Parts

-----------------------------------------------------------------------------
(* The invariant is inductive. *)
LEMMA StepParts == Parts /\ [Next]_vars => Parts'
<1> SUFFICES ASSUME Parts, [Next]_vars PROVE Parts'
  OBVIOUS
<1>1. CASE ServerStep \/ Tick \/ UNCHANGED vars
  BY <1>1, EnvironmentParts
<1>2. ASSUME NEW p \in Process, NEW c \in Credential[p],
             Register(p, c) \/ Login(p, c)
      PROVE  Parts'
  BY <1>2, SendParts DEF Register, Login
<1>3. ASSUME NEW p \in Process,
             ClientStep(p) \/ GiveUp(p) \/ CrashInSave(p) \/ WriteOver(p)
      PROVE  Parts'
  BY <1>3, ReceiveParts, SavingParts, GiveUpParts DEF ClientStep
<1>4. ASSUME NEW r \in requests, Handle(r) \/ CommitLost(r)
      PROVE  Parts'
  BY <1>4, InsertParts, AnswerParts DEF Handle
<1>5. QED
  BY <1>1, <1>2, <1>3, <1>4 DEF Next

LEMMA AccountsInvariant == Spec => []Parts
BY InitParts, StepParts, PTL DEF Spec

(* The inductive invariant: who has sent a request has typed what is in it, and
   a token on its way to a file was opened by the process that writes it
   (auth.go:43-103, token_store.go:22-28). *)
THEOREM AccountsInvHolds == Spec => []AccountsInv
BY AccountsInvariant, PartsAreInv, PTL

(* Of all who register an email, one at most is told that the account is theirs,
   and nobody is refused for an email that is free
   (postgres_user_store.go:36-43). *)
THEOREM RegistrationIsOnce == Spec => []RegisteredOnce
<1>1. AccountsInv => RegisteredOnce
  BY DEF AccountsInv
<1>2. QED
  BY <1>1, AccountsInvHolds, PTL

(* Whatever races, is lost or crashes, a session is of an account whose email
   and password were typed in its directory
   (auth/service.go:57-68, token_store.go:22-40). *)
THEOREM SessionsStayWithOwners == Spec => []SessionsAreOwners
<1>1. AccountsInv => SessionsAreOwners
  BY DEF AccountsInv
<1>2. QED
  BY <1>1, AccountsInvHolds, PTL

-----------------------------------------------------------------------------
(* Accounts implements AccountBook. *)

LEMMA BookInit == Init => Book!Init
BY DEF Init, Book!Init, Claims, Sessions

\* A registration that made a row is a claim.
LEMMA InsertIsClaim ==
  ASSUME Parts, NEW r \in requests, RegisterNew(r) \/ CommitLost(r)
  PROVE  \E id \in UserId, e \in Email : Book!Claim(id, e)
<1>1. r \in Request /\ UNCHANGED token
  BY DEF Parts, RequestOK, RegisterNew, CommitLost, fileVars
<1>2. PICK id \in UserId : Insert(r, RowOf(r, id))
  BY DEF RegisterNew, CommitLost
<1>3. PICK u \in User : u = RowOf(r, id)
  BY <1>1, RowType
<1>4. /\ users' = users \cup {u}
      /\ \A v \in users : v.id # u.id /\ v.email # u.email
  BY <1>2, <1>3 DEF Insert, Taken
<1>5. \A b \in Claims : b.id # u.id /\ b.email # u.email
  BY <1>4 DEF Claims
<1>6. Claims' = Claims \cup {[id |-> u.id, email |-> u.email]}
  BY <1>4 DEF Claims
<1>7. u.id \in UserId /\ u.email \in Email
  BY DEF User
<1>8. Sessions' = Sessions
  BY <1>1 DEF Sessions
<1>9. Book!Claim(u.id, u.email)
  BY <1>5, <1>6, <1>8 DEF Book!Claim
<1>10. QED
  BY <1>7, <1>9

\* The identities in the files after a step that writes tok into one of them.
LEMMA WrittenSessions ==
  ASSUME Parts, NEW p \in Process, NEW tok \in SUBSET Token,
         token' = [token EXCEPT ![Home[p]] = tok],
         NEW s \in Sessions'
  PROVE  s \in Sessions \/ \E t \in tok : s = [id |-> t.uid, email |-> t.email]
<1>1. PICK d \in Directory : \E t \in token'[d] :
        s = [id |-> t.uid, email |-> t.email]
  BY DEF Sessions
<1>2. PICK t \in token'[d] : s = [id |-> t.uid, email |-> t.email]
  BY <1>1
<1>3. t \in token[d] \/ t \in tok
  BY <1>2 DEF Parts, Files
<1>4. QED
  BY <1>2, <1>3 DEF Sessions

LEMMA SavingIsSession ==
  ASSUME Parts, NEW p \in Process,
         WriteToken(p) \/ WriteOver(p) \/ Receive(p) \/ CrashInSave(p)
  PROVE  [Book!Next]_<<Claims, Sessions>>
<1>1. Claims' = Claims
  BY DEF WriteToken, WriteOver, Receive, CrashInSave, Claims
<1>2. ASSUME token' = token \/ token' = [token EXCEPT ![Home[p]] = {}]
      PROVE  [Book!Next]_<<Claims, Sessions>>
  <2>1. Sessions' \subseteq Sessions
    <3>1. CASE token' = token
      BY <3>1 DEF Sessions
    <3>2. CASE token' = [token EXCEPT ![Home[p]] = {}]
      <4>1. {} \in SUBSET Token
        OBVIOUS
      <4>2. \A s \in Sessions' : s \in Sessions
        BY <3>2, <4>1, WrittenSessions
      <4>3. QED
        BY <4>2
    <3>3. QED
      BY <1>2, <3>1, <3>2
  <2>2. QED
    BY <1>1, <2>1 DEF Book!Next, Book!Leave
<1>3. CASE WriteToken(p)
  <2>1. PICK t \in Token : saving[p] = {t}
    BY <1>3 DEF WriteToken, Parts, Saved
  <2>2. \E c \in Credential[p] : Opens(c, t)
    BY <2>1 DEF Parts, Saved
  <2>3. PICK u \in users : t.uid = u.id /\ t.email = u.email
    BY <2>2 DEF Opens
  <2> DEFINE b == [id |-> t.uid, email |-> t.email]
  <2>4. b \in Claims
    BY <2>3 DEF Claims
  <2>5. Sessions' \subseteq Sessions \cup {b}
    <3>1. token' = [token EXCEPT ![Home[p]] = {t}] /\ {t} \in SUBSET Token
      BY <1>3, <2>1 DEF WriteToken
    <3>2. \A s \in Sessions' : s \in Sessions \/ s = b
      BY <3>1, WrittenSessions
    <3>3. QED
      BY <3>2
  <2>6. Book!Enter(b)
    BY <1>1, <2>4, <2>5 DEF Book!Enter
  <2>7. QED
    BY <2>4, <2>6 DEF Book!Next
<1>4. QED
  BY <1>2, <1>3 DEF WriteOver, Receive, CrashInSave

LEMMA BookStep ==
  ASSUME Parts, [Next]_vars
  PROVE  [Book!Next]_<<Claims, Sessions>>
<1>1. ASSUME UNCHANGED <<users, token>>
      PROVE  [Book!Next]_<<Claims, Sessions>>
  BY <1>1 DEF Claims, Sessions
<1>2. CASE ServerStep \/ Tick \/ UNCHANGED vars
  BY <1>1, <1>2 DEF ServerStep, Tick, vars, accountVars, fileVars
<1>3. ASSUME NEW p \in Process, NEW c, Register(p, c) \/ Login(p, c)
      PROVE  [Book!Next]_<<Claims, Sessions>>
  BY <1>1, <1>3 DEF Register, Login, Send, fileVars
<1>4. ASSUME NEW p \in Process, ClientStep(p) \/ CrashInSave(p) \/ WriteOver(p)
      PROVE  [Book!Next]_<<Claims, Sessions>>
  BY <1>4, SavingIsSession DEF ClientStep
<1>5. ASSUME NEW p \in Process, GiveUp(p)
      PROVE  [Book!Next]_<<Claims, Sessions>>
  BY <1>1, <1>5 DEF GiveUp, fileVars
<1>6. ASSUME NEW r \in requests, RegisterNew(r) \/ CommitLost(r)
      PROVE  [Book!Next]_<<Claims, Sessions>>
  BY <1>6, InsertIsClaim DEF Book!Next
<1>7. ASSUME NEW r \in requests,
             \/ RegisterTaken(r) \/ RegisterRefused(r)
             \/ LoginMatches(r) \/ LoginRefused(r)
      PROVE  [Book!Next]_<<Claims, Sessions>>
  BY <1>1, <1>7
     DEF RegisterTaken, RegisterRefused, LoginMatches, LoginRefused, fileVars
<1>8. QED
  BY <1>2, <1>3, <1>4, <1>5, <1>6, <1>7 DEF Next, Handle

(* Accounts implements the account book: an email is claimed once, keeps its
   identity, and no session has another (auth/service.go:30-68,
   postgres_user_store.go:26-68). *)
THEOREM BookImplemented == Spec => ImplementsBook
<1>1. Parts /\ [Next]_vars => [Book!Next]_<<Claims, Sessions>>
  BY BookStep
<1>2. QED
  BY <1>1, BookInit, AccountsInvariant, PTL DEF Spec, ImplementsBook, Book!Spec

-----------------------------------------------------------------------------
(* With clients, the server is still the process of ServerStart. *)
LEMMA ServerIsProcess == Spec => StartSpec
<1>1. Init => StartInit
  BY DEF Init
<1>2. [Next]_vars => [StartNext]_startVars
  BY DEF Next, ServerStep, Tick, Register, Login, Send, ClientStep, Receive,
         WriteToken, GiveUp, CrashInSave, WriteOver, Handle, RegisterNew,
         RegisterTaken, RegisterRefused, LoginMatches, LoginRefused,
         CommitLost, vars
<1>3. QED
  BY <1>1, <1>2, PTL DEF Spec, StartSpec

(* The handlers only ever run on a migrated database with a signing key
   (postgres_handler.go:28-38, main.go:44-63). *)
THEOREM HandlersMeetTheirTables == Spec => []ServesMigrated
BY ServerIsProcess, ServesOnlyMigrated, PTL

=============================================================================
