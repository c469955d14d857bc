----------------------------- MODULE LocalStore -----------------------------
(* A device's data directory: the SQLite table secrets_local
   (internal/client/store/local_store.go) and the file last_sync
   (internal/client/store/sync_store.go).  Every operation is one SQL statement
   or one small file write; sequences of them are not transactions, so each is
   an operator of its own and SecretSync interleaves them. *)
EXTENDS SecretStore

CONSTANT Device   \* data directories

VARIABLES
  local,     \* local[d][x]: the row of secret x on device d
  dirty,     \* dirty[d]: ids whose dirty column is 1
  lastSync   \* lastSync[d]: content of last_sync; 0 when missing or empty

localVars == <<local, dirty, lastSync>>

LocalTypeOK ==
  /\ local \in [Device -> [Id -> Item]]
  /\ dirty \in [Device -> SUBSET Id]
  /\ lastSync \in [Device -> Nat]

LocalInit ==
  /\ local = [d \in Device |-> [x \in Id |-> NoItem(x)]]
  /\ dirty = [d \in Device |-> {}]
  /\ lastSync = [d \in Device |-> 0]

\* A tombstone without a type is given one before it is written.
Stored(it) ==
  IF it.deleted /\ it.type = "" THEN [it EXCEPT !.type = "deleted"] ELSE it

\* Upsert overwrites whatever row is there, its dirty column included.
Upsert(d, it, isDirty) ==
  /\ local' = [local EXCEPT ![d][it.id] = Stored(it)]
  /\ dirty' = [dirty EXCEPT ![d] = IF isDirty THEN @ \cup {it.id}
                                              ELSE @ \ {it.id}]

\* Mutant of ListDirty: ids in place of rows.
ListDirtyIds(d) == dirty[d]

ListDirty(d) == {local[d][x] : x \in dirty[d]}

\* Mutant of MarkClean: every row of the table, not those that were pushed.
MarkAllClean(d, ids) == dirty' = [dirty EXCEPT ![d] = {}]

\* MarkClean is told ids only: it cannot tell which version was pushed.
MarkClean(d, ids) == dirty' = [dirty EXCEPT ![d] = @ \ ids]

\* Mutant of RemoteWins: the comparison dropped.
RemoteAlwaysWins(d, it) == TRUE

\* ApplyRemote's test, on the row that Get has just returned.
RemoteWins(d, it) ==
  \/ ~Present(local[d][it.id])
  \/ it.stamp > local[d][it.id].stamp

\* SyncStore.Save: the second of the clock, as text.
SaveSyncTime(d, t) == lastSync' = [lastSync EXCEPT ![d] = t]

=============================================================================
