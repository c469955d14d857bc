---------------------------- MODULE SecretServer ----------------------------
(* The server's side of the secrets: the handlers of /api/secrets
   (internal/handlers/secret.go, internal/service/secret.go) and the one turn
   of a sync push (internal/handlers/sync.go), running at the same time on the
   table of SecretStore for several accounts.

   net/http runs every request in a goroutine of its own.  A handler fixes the
   stamp of its write and then waits for a database connection, so its
   statement is executed after any number of others: a request is admitted in
   one step and executed, or abandoned, in a later one.  The reads have one
   statement each and change nothing; they are operators, and the properties
   say what they return. *)
EXTENDS SecretStore

CONSTANTS
  MaxTime, MaxRequests,   \* bounds of the model
  MaxWaiting              \* requests in progress at once

ASSUME ServerAssumption ==
  MaxTime \in Nat /\ MaxRequests \in Nat /\ MaxWaiting \in Nat

VARIABLES
  now,        \* the server's clock
  admitted,   \* requests admitted so far; numbers them and their contents
  author,     \* author[n]: the account that request n was made with
  waiting,    \* requests whose statement is still to be executed
  lives,      \* lives[x]: how often secret x has come to life
  deletions   \* deletions[x]: DELETE requests answered 204

requestVars == <<now, admitted, author, waiting>>
historyVars == <<lives, deletions>>
serverVars == <<storeVars, requestVars, historyVars>>

Request == [op : {"create", "update", "delete", "upsert"}, user : User,
            item : Item]

TypeOK ==
  /\ StoreTypeOK
  /\ now \in Nat \ {0}
  /\ admitted \in Nat
  /\ author \in [1..MaxRequests -> User \cup {NoUser}]
  /\ waiting \subseteq Request
  /\ lives \in [Id -> Nat]
  /\ deletions \in [Id -> Nat]

Init ==
  /\ StoreInit
  /\ now = 1
  /\ admitted = 0
  /\ author = [n \in 1..MaxRequests |-> NoUser]
  /\ waiting = {}
  /\ lives = [x \in Id |-> 0]
  /\ deletions = [x \in Id |-> 0]

-----------------------------------------------------------------------------
(* The statements, each atomic.  UpsertRow and ListUpdatedSince are in
   SecretStore.  No statement but Upsert finds a row that is deleted. *)

Live(u, x) == Present(rows[x]) /\ owner[x] = u /\ ~rows[x].deleted

CreateRow(u, it) ==
  /\ rows' = [rows EXCEPT ![it.id] = it]
  /\ owner' = [owner EXCEPT ![it.id] = u]

\* Mutants of UpdateRow: the WHERE without owner_id, and without deleted.
UpdateRowOfAnyone(u, it) ==
  /\ Present(rows[it.id]) /\ ~rows[it.id].deleted
  /\ rows' = [rows EXCEPT ![it.id].type = it.type,
                          ![it.id].payload = it.payload,
                          ![it.id].stamp = it.stamp]
  /\ UNCHANGED owner
UpdateRowDeleted(u, it) ==
  /\ owner[it.id] = u
  /\ rows' = [rows EXCEPT ![it.id] = it]
  /\ UNCHANGED owner

UpdateRow(u, it) ==
  /\ Live(u, it.id)
  /\ rows' = [rows EXCEPT ![it.id].type = it.type,
                          ![it.id].payload = it.payload,
                          ![it.id].stamp = it.stamp]
  /\ UNCHANGED owner

\* Mutants of DeleteRow: the WHERE without deleted, and without owner_id.
DeleteRowAgain(u, it) ==
  /\ owner[it.id] = u
  /\ rows' = [rows EXCEPT ![it.id].deleted = TRUE,
                          ![it.id].stamp = it.stamp]
  /\ UNCHANGED owner
DeleteRowOfAnyone(u, it) ==
  /\ Present(rows[it.id]) /\ ~rows[it.id].deleted
  /\ rows' = [rows EXCEPT ![it.id].deleted = TRUE,
                          ![it.id].stamp = it.stamp]
  /\ UNCHANGED owner

DeleteRow(u, it) ==
  /\ Live(u, it.id)
  /\ rows' = [rows EXCEPT ![it.id].deleted = TRUE,
                          ![it.id].stamp = it.stamp]
  /\ UNCHANGED owner

GetByID(u, x) == {rows[y] : y \in {z \in {x} : Live(u, z)}}

ListByOwner(u) == UNION {GetByID(u, x) : x \in Id}

-----------------------------------------------------------------------------
(* Admission: the token is valid, the body has been decoded and checked, the
   stamp is taken. *)

Tick ==
  /\ now < MaxTime
  /\ now' = now + 1
  /\ UNCHANGED <<storeVars, admitted, author, waiting, historyVars>>

\* Mutant of Admit: the claims of the token do not reach the request.
AdmitAnonymous(op, u, it) ==
  /\ admitted < MaxRequests
  /\ Cardinality(waiting) < MaxWaiting
  /\ admitted' = admitted + 1
  /\ author' = [author EXCEPT ![admitted'] = u]
  /\ waiting' = waiting \cup {[op |-> op, user |-> NoUser, item |-> it]}
  /\ UNCHANGED <<storeVars, now, historyVars>>

Admit(op, u, it) ==
  /\ admitted < MaxRequests
  /\ Cardinality(waiting) < MaxWaiting
  /\ admitted' = admitted + 1
  /\ author' = [author EXCEPT ![admitted'] = u]
  /\ waiting' = waiting \cup {[op |-> op, user |-> u, item |-> it]}
  /\ UNCHANGED <<storeVars, now, historyVars>>

\* The content of request number admitted + 1, for secret x, stamped t.
Content(x, type, gone, t) ==
  [id |-> x, type |-> type, payload |-> admitted + 1, deleted |-> gone,
   stamp |-> t]

\* newID draws 128 random bits: no row and no request has the id.
FreshId(x) == ~Present(rows[x]) /\ \A r \in waiting : r.item.id # x

Create(u, x) ==
  /\ FreshId(x)
  /\ Admit("create", u, Content(x, "text", FALSE, now))

Update(u, x) == Admit("update", u, Content(x, "text", FALSE, now))

Delete(u, x) == Admit("delete", u, Content(x, "deleted", TRUE, now))

\* A pushed item brings the stamp it got on its device, at any time, and is
\* refused when it is blank; its id is one its device generated or was sent.
\* Nothing is done with it when another account's row has that id.
Push(u, x, gone, t) == Admit("upsert", u, Content(x, "text", gone, t))

-----------------------------------------------------------------------------
(* Execution.  A statement that finds no row is answered 404 and changes
   nothing, which is Abandon; so is a request whose client has gone. *)

Leave(r) == waiting' = waiting \ {r}

\* A row has come to life when it is live after the step and was not before.
CountLives ==
  lives' = [x \in Id |->
    lives[x] + IF (Present(rows[x]) => rows[x].deleted)
                  /\ Present(rows'[x]) /\ ~rows'[x].deleted THEN 1 ELSE 0]

Execute(r) ==
  /\ r \in waiting
  /\ \/ r.op = "create" /\ ~Present(rows[r.item.id]) /\ CreateRow(r.user, r.item)
     \/ r.op = "update" /\ UpdateRow(r.user, r.item)
     \/ r.op = "delete" /\ DeleteRow(r.user, r.item)
     \/ r.op = "upsert" /\ UpsertRow(r.user, r.item)
  /\ CountLives
  /\ deletions' = [deletions EXCEPT ![r.item.id] =
                     @ + IF r.op = "delete" THEN 1 ELSE 0]
  /\ Leave(r)
  /\ UNCHANGED <<now, admitted, author>>

Abandon(r) ==
  /\ r \in waiting
  /\ Leave(r)
  /\ UNCHANGED <<storeVars, now, admitted, author, historyVars>>

Next ==
  \/ Tick
  \/ \E u \in User, x \in Id :
       \/ Create(u, x)
       \/ Update(u, x)
       \/ Delete(u, x)
       \/ \E gone \in BOOLEAN, t \in 1..MaxTime : Push(u, x, gone, t)
  \/ \E r \in waiting : Execute(r) \/ Abandon(r)

Spec == Init /\ [][Next]_serverVars

-----------------------------------------------------------------------------
(* Properties. *)

(* No account is ever shown what another has written, by GET, by the list or
   by a pull, whatever requests of both are executed in whatever order
   (postgres_secret_store.go:53, 80, 129, 187, 213, 252). *)
ReadsAreOwn ==
  \A u \in User :
    \A it \in ListByOwner(u) \cup ListUpdatedSince(u, 0) :
      author[it.payload] = u

(* Of the DELETE requests for a secret that race each other and pushes of
   it, one is answered 204 for each time the secret came to life, and none
   while it is alive (postgres_secret_store.go:213, 227). *)
DeletedOncePerLife ==
  \A x \in Id :
    /\ deletions[x] <= lives[x]
    /\ Present(rows[x]) /\ ~rows[x].deleted => deletions[x] < lives[x]

(* A row is never lost and never changes hands; once deleted it holds against
   every PUT and DELETE that was admitted before, and only a later version,
   pushed by its owner, replaces it (postgres_secret_store.go:187, 213, 252). *)
TombstonesHold ==
  [][\A x \in Id : Present(rows[x]) =>
       /\ Present(rows'[x]) /\ owner'[x] = owner[x]
       /\ rows[x].deleted /\ rows'[x] # rows[x] =>
            rows'[x].stamp > rows[x].stamp]_serverVars

(* To each account the server is one that nobody else uses: what a pull of
   everything shows it changes only by a request it sent itself, and as that
   request says, whatever the others create, push, replace and delete between
   its admission and its execution (postgres_secret_store.go:187, 213, 252). *)
Shelf(u) == INSTANCE AccountShelf WITH
  shelf <- ListUpdatedSince(u, 0),
  asked <- {r \in waiting : r.user = u}

ImplementsShelf ==
  /\ \A u \in User : Shelf(u)!Init
  /\ [][\A u \in User : [Shelf(u)!Next]_(Shelf(u)!shelfVars)]_serverVars

-----------------------------------------------------------------------------
(* The inductive invariant behind ReadsAreOwn: every content in a request or in
   a row was written with the account of the request, or of the owner. *)

ContentIsOwn ==
  /\ admitted <= MaxRequests
  /\ \A r \in waiting :
       r.item.payload \in 1..admitted /\ author[r.item.payload] = r.user
  /\ \A x \in Id : Present(rows[x]) =>
       rows[x].payload \in 1..admitted /\ author[rows[x].payload] = owner[x]

(* ... and the one behind DeletedOncePerLife: every deletion answered has ended
   a life, and a live row has a life that none has ended. *)
LivesCount ==
  \A x \in Id :
    deletions[x] + (IF Present(rows[x]) /\ ~rows[x].deleted THEN 1 ELSE 0)
      <= lives[x]

=============================================================================
