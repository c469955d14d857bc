----------------------------- MODULE SecretSync -----------------------------
(* Devices that edit secrets offline and synchronise them through the server:
   the client's Service (internal/client/service/service.go) and the TUI's
   doSync (internal/client/ui/ui.go) on one side, the sync handlers and
   SyncServiceImpl (internal/handlers/sync.go, internal/service/sync.go) on the
   other.  The stores they work on are LocalStore and SecretStore.

   A session is one place where a sync may run: a CLI process or a goroutine of
   the TUI.  Requests, the loop of Push at the server, the loop of ApplyRemote
   and the separate writes that end a sync are interleaved with everything
   else. *)
EXTENDS LocalStore

CONSTANTS
  Session,    \* sync runs that may be in progress at once
  Home,       \* Home[s]: the data directory session s works on
  Skew,       \* Skew[d]: by how much the clock of device d is ahead
  Overlap,    \* may a sync of a data directory overlap other uses of it?
  AddTypes,   \* types given to new secrets: the TUI accepts a blank one
  EmptyIsNull, \* does SQLite's driver read back an empty payload as none?
  MaxBody,    \* items of a push that fit the server's 1 MiB body limit
  MaxTime, MaxEdits, MaxFaults   \* bounds of the model

ASSUME SyncAssumption ==
  /\ Home \in [Session -> Device]
  /\ Skew \in [Device -> Nat]
  /\ Overlap \in BOOLEAN
  /\ AddTypes \subseteq {"text", ""}
  /\ EmptyIsNull \in BOOLEAN
  /\ MaxBody \in Nat
  /\ MaxTime \in Nat /\ MaxEdits \in Nat /\ MaxFaults \in Nat

VARIABLES
  account,    \* account[d]: the account whose token device d holds
  now,        \* real time, in seconds
  edits,      \* writes by the owner so far; numbers their contents
  faults,     \* syncs that have failed half way so far
  pc,         \* pc[s]: what session s does next
  snap,       \* snap[s]: the dirty items it read
  since,      \* since[s]: the last sync time it read
  inbox,      \* inbox[s]: pulled items ApplyRemote has not looked at yet
  chosen,     \* chosen[s]: the item ApplyRemote is about to write, if any
  pulled,     \* pulled[s]: has the pull been answered?
  push,       \* push[s]: its push request
  orphans     \* pushes that the server still runs and no client waits for

worldVars == <<account, now, edits, faults>>
pullVars == <<since, inbox, chosen, pulled>>
sessionVars == <<pc, snap, pullVars, push>>
vars == <<storeVars, localVars, worldVars, sessionVars, orphans>>

Clock(d) == now + Skew[d]

NoPush == [state |-> "none", owner |-> NoUser, todo |-> {}]
Push == {NoPush} \cup
        [state : {"running", "acked"}, owner : User, todo : SUBSET Item]

TypeOK ==
  /\ StoreTypeOK
  /\ LocalTypeOK
  /\ account \in [Device -> User]
  /\ now \in Nat \ {0} /\ edits \in Nat /\ faults \in Nat
  /\ pc \in [Session -> {"idle", "exchange", "push", "pull", "apply", "mark",
                         "save"}]
  /\ snap \in [Session -> SUBSET Item]
  /\ since \in [Session -> Nat]
  /\ inbox \in [Session -> SUBSET Item]
  /\ chosen \in [Session -> SUBSET Item]
  /\ pulled \in [Session -> BOOLEAN]
  /\ push \in [Session -> Push]
  /\ orphans \subseteq [owner : User, todo : SUBSET Item]

Init ==
  /\ StoreInit
  /\ LocalInit
  /\ account \in [Device -> User]
  /\ now = 1 /\ edits = 0 /\ faults = 0
  /\ pc = [s \in Session |-> "idle"]
  /\ snap = [s \in Session |-> {}]
  /\ since = [s \in Session |-> 0]
  /\ inbox = [s \in Session |-> {}]
  /\ chosen = [s \in Session |-> {}]
  /\ pulled = [s \in Session |-> FALSE]
  /\ push = [s \in Session |-> NoPush]
  /\ orphans = {}

-----------------------------------------------------------------------------
(* The owner at a device. *)

Quiet(d) == \A s \in Session : Home[s] = d => pc[s] = "idle"

\* May a command use data directory d now?  The model rules overlaps out when
\* Overlap is FALSE; the program has no lock that would.
Free(d) == Overlap \/ Quiet(d)

Tick ==
  /\ now < MaxTime
  /\ now' = now + 1
  /\ UNCHANGED <<storeVars, localVars, account, edits, faults, sessionVars,
                 orphans>>

\* Client.Login replaces the token file.  The local store is not touched.
Login(d, u) ==
  /\ Free(d)
  /\ account[d] # u
  /\ account' = [account EXCEPT ![d] = u]
  /\ UNCHANGED <<storeVars, localVars, now, edits, faults, sessionVars,
                 orphans>>

Write(d, it) ==
  /\ edits < MaxEdits
  /\ edits' = edits + 1
  /\ Upsert(d, it, TRUE)
  /\ UNCHANGED <<storeVars, lastSync, account, now, faults, sessionVars,
                 orphans>>

\* A random 128-bit id: no store holds it yet.
FreshId(x) ==
  /\ \A d \in Device : ~Present(local[d][x])
  /\ ~Present(rows[x])

Add(d, x, type) ==
  /\ FreshId(x)
  /\ Write(d, [id |-> x, type |-> type, payload |-> edits + 1,
               deleted |-> FALSE, stamp |-> Clock(d)])

\* Update does not ask that the secret exists, nor that it is not deleted.
Update(d, x) ==
  /\ Free(d)
  /\ Write(d, [id |-> x, type |-> "text", payload |-> edits + 1,
               deleted |-> FALSE, stamp |-> Clock(d)])

\* Mutant of Delete: the row keeps the stamp it had.
DeleteKeepsStamp(d, x) ==
  /\ Free(d)
  /\ Present(local[d][x])
  /\ Write(d, [local[d][x] EXCEPT !.deleted = TRUE])

\* Delete keeps type and payload of the row it finds, and writes a tombstone
\* even when it finds none.
Delete(d, x) ==
  /\ Free(d)
  /\ LET old == local[d][x]
         type == IF Present(old) THEN old.type ELSE "deleted"
     IN  Write(d, [id |-> x, type |-> type, payload |-> old.payload,
                   deleted |-> TRUE, stamp |-> Clock(d)])

-----------------------------------------------------------------------------
(* A sync run.  Service.Sync goes through exchange (push and pull at once),
   apply, mark, save; doSync through push, pull, apply, save and marks its
   items clean between push and pull. *)

SetPc(s, l) == pc' = [pc EXCEPT ![s] = l]

EndSession(s) ==
  /\ SetPc(s, "idle")
  /\ snap' = [snap EXCEPT ![s] = {}]
  /\ since' = [since EXCEPT ![s] = 0]
  /\ inbox' = [inbox EXCEPT ![s] = {}]
  /\ chosen' = [chosen EXCEPT ![s] = {}]
  /\ pulled' = [pulled EXCEPT ![s] = FALSE]
  /\ push' = [push EXCEPT ![s] = NoPush]

StartSession(s, first) ==
  /\ pc[s] = "idle"
  /\ Free(Home[s])
  /\ SetPc(s, first)
  /\ since' = [since EXCEPT ![s] = lastSync[Home[s]]]
  /\ snap' = [snap EXCEPT ![s] = ListDirty(Home[s])]
  /\ UNCHANGED <<storeVars, localVars, worldVars, inbox, chosen, pulled, push,
                 orphans>>

CliSync(s) == StartSession(s, "exchange")
TuiSync(s) == StartSession(s, IF dirty[Home[s]] = {} THEN "pull" ELSE "push")
SyncStart(s) == CliSync(s) \/ TuiSync(s)

\* The request is built with the token on disk at this moment.
PushSend(s) ==
  /\ pc[s] \in {"exchange", "push"}
  /\ snap[s] # {}
  /\ push[s].state = "none"
  /\ push' = [push EXCEPT ![s] = [state |-> "running",
                                  owner |-> account[Home[s]],
                                  todo |-> snap[s]]]
  /\ UNCHANGED <<storeVars, localVars, worldVars, pc, snap, pullVars, orphans>>

\* The batch is in the order of updated_at; equal stamps come in any order.
Oldest(todo) == {it \in todo : \A jt \in todo : it.stamp <= jt.stamp}

\* What the loop stops at: a blank type, which Push refuses, or no payload at
\* all, which the table's NOT NULL does.  The payload 0 is the empty one, of a
\* tombstone for an id the device does not have.
Invalid(it) ==
  \/ ~it.deleted /\ it.type = ""
  \/ EmptyIsNull /\ it.payload = 0

\* One turn of the loop in SyncServiceImpl.Push.
PushStore(s) ==
  /\ push[s].state = "running"
  /\ Cardinality(snap[s]) <= MaxBody
  /\ \E it \in Oldest(push[s].todo) :
       /\ ~Invalid(it)
       /\ UpsertRow(push[s].owner, it)
       /\ push' = [push EXCEPT ![s].todo = @ \ {it}]
  /\ UNCHANGED <<localVars, worldVars, pc, snap, pullVars, orphans>>

\* Mutant of PushDone: the answer is sent before the loop is over.
PushDoneEarly(s) ==
  /\ push[s].state = "running"
  /\ push' = [push EXCEPT ![s].state = "acked"]
  /\ UNCHANGED <<storeVars, localVars, worldVars, pc, snap, pullVars, orphans>>

\* The loop is over and the client has read the answer.
PushDone(s) ==
  /\ push[s].state = "running"
  /\ push[s].todo = {}
  /\ push' = [push EXCEPT ![s].state = "acked"]
  /\ UNCHANGED <<storeVars, localVars, worldVars, pc, snap, pullVars, orphans>>

\* A body beyond the limit is refused before the loop, an invalid item in it;
\* what the loop has stored stays stored.  Either way the client gives the sync up.
PushReject(s) ==
  /\ push[s].state = "running"
  /\ \/ Cardinality(snap[s]) > MaxBody
     \/ \E it \in Oldest(push[s].todo) : Invalid(it)
  /\ EndSession(s)
  /\ UNCHANGED <<storeVars, localVars, worldVars, orphans>>

PullServe(s) ==
  /\ pc[s] = "pull" \/ (pc[s] = "exchange" /\ ~pulled[s])
  /\ inbox' = [inbox EXCEPT ![s] =
                 ListUpdatedSince(account[Home[s]], since[s])]
  /\ pulled' = [pulled EXCEPT ![s] = TRUE]
  /\ SetPc(s, IF pc[s] = "pull" THEN "apply" ELSE "exchange")
  /\ UNCHANGED <<storeVars, localVars, worldVars, snap, since, chosen, push,
                 orphans>>

\* Mutant of Join: the answer of the push is not waited for.
JoinEarly(s) ==
  /\ pc[s] = "exchange"
  /\ pulled[s]
  /\ SetPc(s, "apply")
  /\ UNCHANGED <<storeVars, localVars, worldVars, snap, pullVars, push, orphans>>

\* g.Wait: both requests have succeeded.
Join(s) ==
  /\ pc[s] = "exchange"
  /\ pulled[s]
  /\ snap[s] # {} => push[s].state = "acked"
  /\ SetPc(s, "apply")
  /\ UNCHANGED <<storeVars, localVars, worldVars, snap, pullVars, push, orphans>>

\* ApplyRemote reads the local row of the next item and decides.
ApplyGet(s) ==
  /\ pc[s] = "apply"
  /\ chosen[s] = {}
  /\ \E it \in Oldest(inbox[s]) :
       /\ inbox' = [inbox EXCEPT ![s] = @ \ {it}]
       /\ chosen' = [chosen EXCEPT ![s] =
                       IF RemoteWins(Home[s], it) THEN {it} ELSE {}]
  /\ UNCHANGED <<storeVars, localVars, worldVars, pc, snap, since, pulled, push,
                 orphans>>

\* ... and writes the item it has decided for.
ApplyUpsert(s) ==
  /\ pc[s] = "apply"
  /\ \E it \in chosen[s] : Upsert(Home[s], it, FALSE)
  /\ chosen' = [chosen EXCEPT ![s] = {}]
  /\ UNCHANGED <<storeVars, lastSync, worldVars, pc, snap, since, inbox, pulled,
                 push, orphans>>

ApplyDone(s) ==
  /\ pc[s] = "apply"
  /\ inbox[s] = {} /\ chosen[s] = {}
  /\ SetPc(s, IF snap[s] = {} THEN "save" ELSE "mark")
  /\ UNCHANGED <<storeVars, localVars, worldVars, snap, pullVars, push, orphans>>

Ids(items) == {it.id : it \in items}

\* Service.Sync marks after it has applied, doSync before it pulls.
CliMarkClean(s) ==
  /\ pc[s] = "mark"
  /\ MarkClean(Home[s], Ids(snap[s]))
  /\ SetPc(s, "save")
  /\ UNCHANGED <<storeVars, local, lastSync, worldVars, snap, pullVars, push,
                 orphans>>

TuiMarkClean(s) ==
  /\ pc[s] = "push"
  /\ push[s].state = "acked"
  /\ MarkClean(Home[s], Ids(snap[s]))
  /\ SetPc(s, "pull")
  /\ snap' = [snap EXCEPT ![s] = {}]
  /\ UNCHANGED <<storeVars, local, lastSync, worldVars, pullVars, push, orphans>>

\* The time of the end of the sync, not that of the pull, is kept.
SaveLastSync(s) ==
  /\ pc[s] = "save"
  /\ SaveSyncTime(Home[s], Clock(Home[s]))
  /\ EndSession(s)
  /\ UNCHANGED <<storeVars, local, dirty, worldVars, orphans>>

-----------------------------------------------------------------------------
(* Failures: a crash of the client, a timeout, a lost answer, a server error.
   The client keeps nothing of the run; a push that has reached the server
   goes on there until it is finished or its request context is cancelled. *)

GiveUp(s) ==
  /\ pc[s] # "idle"
  /\ faults < MaxFaults
  /\ faults' = faults + 1
  /\ orphans' = orphans \cup
       IF push[s].state = "running"
       THEN {[owner |-> push[s].owner, todo |-> push[s].todo]} ELSE {}
  /\ EndSession(s)

\* Mutant of Abort: the time is saved however the sync ends.
AbortSaves(s) ==
  /\ GiveUp(s)
  /\ SaveSyncTime(Home[s], Clock(Home[s]))
  /\ UNCHANGED <<storeVars, local, dirty, account, now, edits>>

Abort(s) ==
  /\ GiveUp(s)
  /\ UNCHANGED <<storeVars, localVars, account, now, edits>>

\* os.WriteFile truncates before it writes: a crash may leave last_sync empty.
CrashInSave(s) ==
  /\ pc[s] = "save"
  /\ GiveUp(s)
  /\ SaveSyncTime(Home[s], 0)
  /\ UNCHANGED <<storeVars, local, dirty, account, now, edits>>

OrphanStore(o) ==
  /\ o \in orphans
  /\ \E it \in Oldest(o.todo) :
       /\ ~Invalid(it) /\ Cardinality(o.todo) <= MaxBody
       /\ UpsertRow(o.owner, it)
       /\ orphans' = (orphans \ {o}) \cup {[o EXCEPT !.todo = @ \ {it}]}
  /\ UNCHANGED <<localVars, worldVars, sessionVars>>

OrphanEnd(o) ==
  /\ o \in orphans
  /\ orphans' = orphans \ {o}
  /\ UNCHANGED <<storeVars, localVars, worldVars, sessionVars>>

-----------------------------------------------------------------------------
EditSecret(d, x) ==
  \/ \E type \in AddTypes : Add(d, x, type)
  \/ Update(d, x)
  \/ Delete(d, x)

Edit(d) == \E x \in Id : EditSecret(d, x)

PushStep(s) == PushSend(s) \/ PushStore(s) \/ PushDone(s) \/ PushReject(s)
PullStep(s) == PullServe(s) \/ Join(s)
ApplyStep(s) == ApplyGet(s) \/ ApplyUpsert(s) \/ ApplyDone(s)
EndStep(s) == CliMarkClean(s) \/ TuiMarkClean(s) \/ SaveLastSync(s)
SessionStep(s) == PushStep(s) \/ PullStep(s) \/ ApplyStep(s) \/ EndStep(s)

\* All that is not an edit.
OtherStep ==
  \/ Tick
  \/ \E d \in Device, u \in User : Login(d, u)
  \/ \E s \in Session :
       SyncStart(s) \/ SessionStep(s) \/ Abort(s) \/ CrashInSave(s)
  \/ \E o \in orphans : OrphanStore(o) \/ OrphanEnd(o)

Next == OtherStep \/ \E d \in Device : Edit(d)

Spec == Init /\ [][Next]_vars

(* A process that is running goes on, the server answers, and the owner syncs
   every device again and again.  Nothing makes time pass, an edit happen or a
   fault occur. *)
Fairness == \A s \in Session : WF_vars(SessionStep(s)) /\ WF_vars(SyncStart(s))

FairSpec == Spec /\ Fairness

(* An owner who edits at least a second apart, as every device has it: an edit
   comes when the time of every stamp on a device is past. *)
Past == \A d \in Device, x \in Id : local[d][x].stamp < now

SpacedEdit(d) == Past /\ Edit(d)
SpacedNext == OtherStep \/ \E d \in Device : SpacedEdit(d)

SpacedSpec == Init /\ [][SpacedNext]_vars

-----------------------------------------------------------------------------
(* Properties. *)

(* Among the accounts of a run: the owner uses one account on all devices. *)
OneAccount == \A u, v \in User : u = v

(* A copy that the client takes to be clean is never more recent than the
   server's row: nothing the owner wrote is silently kept off the server.
   MarkClean and ApplyRemote are what could break it (service.go:217-226). *)
CleanIsPublished ==
  \A d \in Device : \A x \in Id \ dirty[d] :
    local[d][x].stamp <= rows[x].stamp

(* An edit waiting to be pushed keeps waiting, and only a later edit of the
   same device replaces it, until the server has a version at least as recent:
   no failed, repeated or concurrent sync loses it (service.go:188-236). *)
PendingEditSurvives ==
  [][\A d \in Device : \A x \in dirty[d] :
       \/ x \in dirty'[d] /\ local'[d][x].stamp >= local[d][x].stamp
       \/ rows'[x].stamp >= local[d][x].stamp]_vars

(* A row of the server is never lost, never changes hands and is replaced only
   by a more recent version, whatever pushes are repeated, late, refused half
   way or made with another account (postgres_secret_store.go:244-253). *)
RowsMoveForward ==
  [][\A x \in Id : Present(rows[x]) =>
       /\ owner'[x] = owner[x]
       /\ rows'[x] = rows[x] \/ rows'[x].stamp > rows[x].stamp]_vars

(* If edits are spaced, a local copy never goes back to an earlier version: the
   read and the write of ApplyRemote are apart, and other devices' pushes come in
   between (local_store.go:296-310). *)
LocalMovesForward ==
  [][\A d \in Device, x \in Id :
       local'[d][x].stamp >= local[d][x].stamp]_vars

(* If edits are spaced, a clean copy with the stamp of the server's row is that
   row, content and all: MarkClean follows only what the server has stored
   (service.go:221-228). *)
CleanCopyIsTheServers ==
  \A d \in Device : \A x \in Id \ dirty[d] :
    local[d][x].stamp = rows[x].stamp => local[d][x] = rows[x]

(* Every edit reaches the server, or is overtaken there by a more recent one,
   if the owner goes on syncing: Sync pushes dirty local items
   (service.go:187). *)
DirtyReachesServer ==
  \A d \in Device, x \in Id : \A t \in 1..MaxTime :
    (x \in dirty[d] /\ local[d][x].stamp = t) ~> (rows[x].stamp >= t)

(* When nothing is edited any more, the devices of the owner come to hold the
   same secrets, those of the server (REQUIREMENTS.md:10). *)
DevicesConverge ==
  <>[](\A d \in Device : local[d] = rows)

(* Sessions implement the contract: stamps are the versions, dirty is what is
   pending. *)
Contract == INSTANCE SyncContract WITH
  server <- [x \in Id |-> rows[x].stamp],
  copy <- [d \in Device |-> [x \in Id |-> local[d][x].stamp]],
  pending <- dirty

(* Every run of the sessions, with their requests, loops and failures, is a run
   of the contract (service.go:188-236, ui.go:238-288). *)
ImplementsContract == Contract!Spec

-----------------------------------------------------------------------------
(* The inductive invariant behind CleanIsPublished and PendingEditSurvives, for
   one account and syncs that do not overlap other uses of their directory. *)

Keyed ==
  /\ \A x \in Id : rows[x].id = x
  /\ \A d \in Device, x \in Id : local[d][x].id = x

RowsOwned == \A x \in Id : Present(rows[x]) => owner[x] \in User

\* At most one sync per data directory.
SyncsApart ==
  \A s, t \in Session :
    Home[s] = Home[t] /\ pc[s] # "idle" /\ pc[t] # "idle" => s = t

\* Dirty rows exist, and their stamps are not in the future of their device.
DirtyIsPast ==
  \A d \in Device : \A x \in dirty[d] :
    Present(local[d][x]) /\ local[d][x].stamp <= Clock(d)

\* A session that is not running a sync holds nothing.
IdleIsEmpty(s) ==
  pc[s] = "idle" =>
    snap[s] = {} /\ inbox[s] = {} /\ chosen[s] = {} /\ push[s] = NoPush

\* What a sync has read of a dirty row is still what the row holds, unless the
\* row has been overwritten, and made clean, by a pulled one.
SnapIsCurrent(s) ==
  \A it \in snap[s] :
    LET mine == local[Home[s]][it.id]
    IN  Present(mine) /\ (it.id \in dirty[Home[s]] => mine = it)

\* The server has everything the push loop has been through, ...
PushProgress(s) ==
  /\ push[s].state # "none" =>
       \A it \in snap[s] \ push[s].todo : it.stamp <= rows[it.id].stamp
  /\ push[s].state = "acked" => push[s].todo = {}

\* ... and nothing is applied or marked before the push is acknowledged.
MarkAfterPush(s) ==
  /\ pc[s] \in {"apply", "mark"} /\ snap[s] # {} => push[s].state = "acked"
  /\ pc[s] = "pull" => snap[s] = {}

\* Pulled items are versions the server has had, and the one about to be
\* written is still later than the local row it was compared with.
PulledIsBehind(s) ==
  /\ \A it \in inbox[s] \cup chosen[s] :
       Present(it) /\ it.stamp <= rows[it.id].stamp
  /\ \A it \in chosen[s] : it.stamp > local[Home[s]][it.id].stamp

SessionInv(s) ==
  /\ IdleIsEmpty(s)
  /\ SnapIsCurrent(s)
  /\ PushProgress(s)
  /\ MarkAfterPush(s)
  /\ PulledIsBehind(s)

(* The reasons why no edit is lost, between any two steps of a sync: what a
   session has read, what the server has stored of it and what is still dirty
   fit together at every point (service.go:188-236, ui.go:238-288). *)
IInv ==
  /\ TypeOK
  /\ Keyed
  /\ RowsOwned
  /\ SyncsApart
  /\ DirtyIsPast
  /\ \A s \in Session : SessionInv(s)
  /\ CleanIsPublished

=============================================================================
