---------------------------- MODULE SecretStore ----------------------------
(* The server's secrets table, internal/repository/postgres_secret_store.go,
   and the statements the sync service runs on it.  PostgreSQL executes each of
   them atomically, so each is one operator here.

   A secret is a record of the columns the program's decisions depend on.  The
   payload is ciphertext to the server: two writes of different content are two
   different numbers and nothing else is said of it.  meta and created_at are
   carried and never tested by any statement, so they are left out.  A stamp
   (updated_at) counts seconds from an origin before the first edit, because
   every stamp the shipped client sends has been through the RFC3339 text of
   its local store; no real stamp is 0, which marks a missing row. *)
EXTENDS Integers, FiniteSets

CONSTANTS
  Id,      \* identifiers of secrets
  User,    \* accounts
  NoUser   \* "no account": the owner of a row that does not exist

ASSUME NoUserAssumption == NoUser \notin User

VARIABLES
  rows,    \* rows[x]: the row of secret x
  owner    \* owner[x]: its owner_id

storeVars == <<rows, owner>>

(* The type column as far as the code looks at it: a kind of secret, the word
   a nameless tombstone gets, and blank. *)
SecretType == {"text", "deleted", ""}

Item == [id : Id, type : SecretType, payload : Nat, deleted : BOOLEAN,
         stamp : Nat]

NoItem(x) == [id |-> x, type |-> "", payload |-> 0, deleted |-> FALSE,
              stamp |-> 0]

Present(it) == it.stamp > 0

StoreTypeOK ==
  /\ rows \in [Id -> Item]
  /\ owner \in [Id -> User \cup {NoUser}]

StoreInit ==
  /\ rows = [x \in Id |-> NoItem(x)]
  /\ owner = [x \in Id |-> NoUser]

-----------------------------------------------------------------------------
(* Upsert: INSERT ... ON CONFLICT (id) DO UPDATE ... WHERE the row has the same
   owner and an older updated_at.  A row that fails the WHERE is left alone and
   the statement still succeeds. *)

\* Mutants of Accepts: the two conjuncts of the WHERE dropped in turn.
AcceptsAnyAge(u, it) == ~Present(rows[it.id]) \/ owner[it.id] = u
AcceptsAnyOwner(u, it) ==
  ~Present(rows[it.id]) \/ rows[it.id].stamp < it.stamp

Accepts(u, it) ==
  \/ ~Present(rows[it.id])
  \/ owner[it.id] = u /\ rows[it.id].stamp < it.stamp

UpsertRow(u, it) ==
  IF Accepts(u, it)
  THEN /\ rows' = [rows EXCEPT ![it.id] = it]
       /\ owner' = [owner EXCEPT ![it.id] = u]
  ELSE UNCHANGED storeVars

(* ListUpdatedSince: the rows of an owner, tombstones included, whose stamp is
   strictly later than since.  The zero time of a client that has never synced
   is 0: every row is later. *)
\* Mutants of ListUpdatedSince: tombstones left out, as the list leaves them;
\* the owner_id left out.
ListUpdatedSinceLive(u, since) ==
  {rows[x] : x \in {y \in Id :
     owner[y] = u /\ rows[y].stamp > since /\ ~rows[y].deleted}}

ListUpdatedSinceOfAll(u, since) ==
  {rows[x] : x \in {y \in Id : rows[y].stamp > since}}

ListUpdatedSince(u, since) ==
  {rows[x] : x \in {y \in Id : owner[y] = u /\ rows[y].stamp > since}}

=============================================================================
