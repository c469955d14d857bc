# GophKeeper in TLA+

GophKeeper keeps secrets on its owner's devices, encrypted with a master
password, and synchronises them through a server.  These modules model how the
secrets move: the local stores, the sync of the CLI and of the terminal UI, the
server's handlers and its tables; how owners get and keep a session; and how the
server comes to serve, from its settings to its migrations.  TLC checks them on
small instances; TLAPS proves the central properties for all instances.

Run the checks from this directory:

    tlc -config MCManyOwners_two_devices.cfg MCManyOwners
    tlapm SecretSyncProofs.tla

## 1. The system

| Component | State | Operations | Interacts with |
|---|---|---|---|
| Secrets table, `internal/repository/postgres_secret_store.go` | rows of `secrets` (id, owner, type, payload, updated_at, deleted) | Create, GetByID, ListByOwner, ListUpdatedSince, Update, Delete, Upsert; one SQL statement each | the services, through a connection pool |
| Sync API, `internal/handlers/sync.go`, `internal/service/sync.go` | none of its own; a running push has a list of items left | Pull, Push | clients over HTTP, the table |
| Secrets API, `internal/handlers/secret.go`, `internal/service/secret.go` | none; a running request has a stamp | POST, GET, list, PUT, DELETE | clients over HTTP, the table |
| Users table, `internal/repository/postgres_user_store.go` | rows of `users` (id, email, password hash) | Create, GetByEmail; one SQL statement each | the auth service |
| Local store, `internal/client/store/local_store.go` | SQLite rows of `secrets_local` with a dirty column | Upsert, Get, List, ListDirty, MarkClean, ApplyRemote | CLI and TUI |
| Sync time, `internal/client/store/sync_store.go` | the file `last_sync` | Save, Load | Sync and doSync |
| Client service, `internal/client/service/service.go` | none; a running sync has a snapshot of the dirty rows, the last sync time and the pulled items | Register, Login, Add, Get, List, Update, Delete, Sync | local store, sync time, API client |
| Terminal UI, `internal/client/ui/ui.go` | dialogs; a goroutine for each sync | register, login, master password, add, get, list, doSync | as the client service |
| API client, `internal/client/api/client.go` | none | requests with a 10 s limit | the server, the token file |
| Token store, `internal/client/store/token_store.go` | the file `token` | Save (truncate, write), Load | API client, of every process on the directory |
| Authentication, `internal/auth`, `internal/handlers/auth.go`, `middleware.go` | none; tokens carry account, expiry and signature | Register, Login, Me, the middleware | clients over HTTP, the users table, the handlers |
| Payload encryption, `internal/client/crypto/crypto.go` | the file `salt` | NewCrypto, Encrypt, Decrypt | CLI and TUI |
| Configuration and start, `internal/config`, `internal/storage`, `cmd/server` | settings, the database connection | load and validate, connect with retries, migrate, listen | files, environment and flags; Postgres through golang-migrate and a pool |

What is hard here: a sync consists of two requests, a loop of reads and writes,
and two separate local writes, none of it in a transaction and none of it under
a lock; the CLI runs push and pull at the same time and the TUI one after the
other; the TUI starts a goroutine for each sync; versions are ordered by clocks
of different devices, cut to seconds; the server executes requests of many
clients at once and may go on with a push whose client has given up; a
registration may be committed and its answer lost; the token file is truncated
before it is written, by any process on the directory; the server may end, and
its connection be lost, between any two steps of a migration; four layers of
settings have four ideas of a setting that is not given.
`PROJECT.json` lists the hazards with the lines where they bite.

What makes each part correct:

- local store and sync: an edit is not forgotten before the server has it;
  nothing is taken to be clean that the server does not have; local copies do
  not go back; devices come to agree;
- table and sync API: rows are not lost, do not change owner and move forward;
- secrets API: accounts see their own contents only; deletes and tombstones
  hold against requests that come late;
- payload encryption: the owner can read what was encrypted, on that device and
  on others;
- authentication: one account for each email, whatever races and retries; a
  session is the one of the credentials typed in that directory, and an owner
  who keeps trying gets one;
- configuration and start: the documented order of the layers; a server that
  answers has valid settings and all its tables; a start ends, and succeeds once
  settings and database are good.

## 2. Modules

    SecretStore ── LocalStore ── SecretSync ── TurnTaking ── MCSecretSync
         │                        │  │  └───── ManyOwners ── MCManyOwners
         │                        │  └── SecretSyncProofs ── VersionProofs ──┬── TurnTakingProofs
         │                  SyncContract (abstract)                          └── ManyOwnersProofs
         └──── SecretServer ── MCSecretServer
                 │   └──────── SecretServerProofs
           AccountShelf (abstract)

    Vault ── MCVault
      └───── VaultProofs

    Config ── ServerStart ── MCServerStart
                  │  └────── ServerStartProofs ──┐
                  │                              │
               Accounts ── MCAccounts            │
                  │  └──────────────────── AccountsProofs
              AccountBook (abstract)

**SecretStore** is the server's table (`rows`, `owner`) with the statements of
the sync: `UpsertRow` is the `INSERT ... ON CONFLICT ... WHERE`, which succeeds
without effect when the row has another owner or is not older;
`ListUpdatedSince` is the pull query, strictly later than its argument and
tombstones included.

**LocalStore** is the data directory of each device: `local` (rows), `dirty`
(the dirty column) and `lastSync` (the file; 0 when it is missing or empty).
Its operators are the single statements; what happens between two of them is
left to SecretSync.

**SecretSync** composes the two.  A *session* is a place where a sync may run, a
CLI process or a TUI goroutine, on the data directory `Home[s]`.  Its variables
are the locals of `Service.Sync` and `doSync`:

| Variable | Code |
|---|---|
| `pc[s]` | the point the function has reached |
| `snap[s]` | `dirty`, the rows ListDirty returned |
| `since[s]` | `since` |
| `push[s]` | the push request and, at the server, what the loop of Push has left |
| `pulled[s]`, `inbox[s]` | the answer of the pull; what ApplyRemote has still to look at |
| `chosen[s]` | the item ApplyRemote has decided to write and not yet written |
| `orphans` | pushes the server executes and no client waits for |
| `account[d]` | the account of the token file |

`Service.Sync` (`CliSync`) goes through `exchange`, where `PushSend`,
`PushStore`, `PushDone` and `PullServe` interleave, `Join` (errgroup's Wait),
`apply` (`ApplyGet` and `ApplyUpsert`, two statements for each item), `mark` and
`save`.  `doSync` (`TuiSync`) goes through `push`, `TuiMarkClean`, `pull`,
`apply` and `save`.  `Add`, `Update`, `Delete` and `Login` are the owner's
commands; `Abort` is a crash, a time-out, a server error or a lost answer at any
point; `CrashInSave` is a crash between the truncation and the write of
`last_sync`; `OrphanStore` is a push that goes on without its client.

**SyncContract** is what a sync promises, in three variables and four actions:
`Write`, `Publish`, `Acknowledge`, `Adopt`.  No session, request, failure or
content is in it.  SecretSync implements it with stamps as versions.

**TurnTaking** is SecretSync with an owner who takes the devices in turn: a device
is edited or synchronised when the others are at rest, with nothing to push
and no sync running, and edited when its clock has passed the last sync times of the
others.  It adds no step to the program; it says how much care of the owner it
takes that the devices agree, which run `late_push` shows they do not without.
Failed syncs, lost `last_sync` files and pushes the server finishes late are all
still there.

**ManyOwners** is SecretSync with any number of accounts on one server, each with
devices and secrets of its own.  `account` never changes, and `OwnerOf[x]` is the
account that uses the id `x`: ids are random, and those of others appear on no
device of an owner, so that no command of his names one.

**SecretServer** is the server for several accounts.  A request is *admitted* (the
middleware has accepted the token, the body is decoded, the stamp taken) and
*executed* in a later step, or abandoned.  Two history variables count the lives
of a secret and the deletions answered 204; they steer nothing.

**AccountShelf** is the server as one account sees it: a shelf of secrets, the
requests it has sent, and three steps, to ask, to have a request performed and to
have it dropped.  There is no other account in it.  SecretServer implements it for
each account `u`, with the rows `u` owns as the shelf: what others do is a stutter,
and a request that names a row of somebody else is dropped, or, for POST, fails as
on a taken id.

**Vault** is the salt file of each data directory and what is encrypted with the
key that is derived from it.  A *process* is a CLI command that needs crypto, or
a terminal UI whose master password has been set.  `salt[d]` is the file: absent,
shorter than a salt, or the number of a salt; `cipher[d][x]` the key a payload
was sealed with and the directory that was on; `pc[p]` and `key[p]` the locals of
`NewCrypto`.  `Open` is its read of the file, `Create` and `WriteSalt` the
truncation and the write of `os.WriteFile`, `Encrypt` the sealing in Add and
Update, `Receive` a sync that brings a payload from another directory, `Exit` the
end of a process, a crash included.

**Config** holds the layers of settings as functions, and `LoadServer`,
`LoadClient`, `ValidServer` and `ValidClient` as the code composes and checks
them.  `OverFile`, `OverEnv` and `OverFlags` differ in what they take for a
setting that is not given, as `loadConfigFile`, `apply*Env` and `apply*Flags` do.

**ServerStart** is the server process and its database.

| Variable | Code |
|---|---|
| `env`, `flags` | what the next start will read; the operator changes them |
| `phase` | the point `run` has reached: `opening` is the loop of `openPostgresWithRetry`, `migrating` to `migrated` the call of `Up`, `listening` and `serving` the last lines of `run` |
| `cfg` | `cfg`, loaded and validated |
| `tries` | `i` of `openPostgresWithRetry` |
| `exit` | the error `run` has returned last |
| `schema`, `dirtySchema` | the row of golang-migrate's version table |
| `tables` | the migrations whose statements Postgres has committed |
| `dbUp` | does Postgres answer? |

A start is refused for its settings (`StartRefused`) or its storage
(`StartUnsupported`), or goes on (`StartOpening`) through `Connect` or
`ConnectFails`, `MigrateNext`, `MigrateApply`, `MigrateClear` for each file,
`MigrateDone` and `Listen`.  `Crash`, `DbFail` and `ListenFails` may come at any
point.

**Accounts** composes authentication with ServerStart: handlers run while `phase`
is `serving`, sign with `cfg.jwt_key` and are lost with the process
(`ServerStep`).  `users` is the table; a request (`requests`) is sent, executed
and answered in one step of its handler, and received by the process that waits
for it, if one does.  `saving[p]` is the token a process has received and not
yet written, `token[d]` what is in the file of a directory, `granted` (history)
the rows whose registration was answered with 201.  `GiveUp` is a time-out, a lost
answer or a killed client; `CommitLost` a row that is committed and a connection
lost before the server hears of it; `CrashInSave` and `WriteOver` what may become
of the two steps of `os.WriteFile`.

**AccountBook** is what accounts promise: an email is claimed once and for good,
and a session is one of a claimed account.  No request, password, key or failure
is in it.

**MCSecretSync**, **MCManyOwners**, **MCSecretServer**, **MCVault**,
**MCServerStart**, **MCAccounts** instantiate them for TLC.  **SecretSyncProofs**,
**VersionProofs**, **TurnTakingProofs**, **ManyOwnersProofs**, **SecretServerProofs**,
**VaultProofs**, **ServerStartProofs** and **AccountsProofs** hold the theorems.

### Abstractions

- A payload is a number, a new one for each write; the server and the sync never
  look into it.  0 is the empty payload of a tombstone for an unknown id.
  `EmptyIsNull` says whether the SQLite driver reads an empty blob back as nil,
  which the server's NOT NULL then refuses: that is the driver's choice, not the
  repository's, so the safety runs take both values.  Run `in_turn`, which checks liveness, takes
  FALSE: with TRUE such a tombstone blocks every push as a blank type does.
- `meta` and `created_at` are carried and never tested; left out.
- A type is "text", blank, or the "deleted" of a nameless tombstone.
- Time is in seconds, as RFC3339 text is; `now` is real time, `Skew[d]` how far
  a device's clock is ahead.
- Ids of new secrets are fresh (128 random bits).
- The body limit of 1 MiB is `MaxBody` items.
- Batches and pulled lists are ordered by stamp; equal stamps come in any order.
- Each device has a token from the start; a sync without one fails before it
  has read anything at the server.  The token is read when the request is built.
- `PullServe` is the pull's request and answer in one step: nothing of the client
  happens between them that depends on it, and the query is one statement.
- With `Overlap` FALSE a data directory is used by one command at a time, apart
  from Add.  Nothing in the program enforces it; the runs with `Overlap` TRUE
  show what happens otherwise.
- In Vault a key is the pair of password and salt, and opens what was sealed with
  it and nothing else.  Two salts drawn are never equal.  `Overlap` and `Flaky`
  are the directories that several processes use at once and those whose files
  cannot always be read; the code handles both alike, by drawing a salt.  In a
  terminal UI that has a key already and whose new salt cannot be written, the
  old key stays in use; the model takes it as restarted.  This arises in flaky
  directories only, of which ReadableHere says nothing.
- Sync is one step in Vault, since it does not look into payloads; SecretSync
  has its steps.
- In SecretServer a push has one item.  The loop over several carries no state
  from one to the next and is in SecretSync.

- A setting is a text.  `Text` are the texts there are, `Port` those of a port in
  range, and "junk" stands for one that is neither a number nor a Boolean.  A file
  is the layer it gives, if it can be read and parsed (`Readable`).  Upper case
  and spaces around storage types and log formats are left out.
- golang-migrate and Postgres are modelled from how `RunMigrations` uses them: a
  migration marks the schema dirty with its version, runs in one transaction, and
  removes the mark.  A process that is killed has sent its statement or not.
  One server runs at a time, so the advisory lock is left out.
- A password stands for its hash, and a user who types one for who can open the
  account.  `Credential[p]` are trimmed and may be blank, as the terminal UI sends
  them; that bcrypt refuses passwords of more than 72 bytes is one more 400.
- A token has an account, an expiry and a key.  `{}` is a file that is missing,
  empty or garbled: the server accepts none of them.
- A handler of Register or Login is one step: it has one statement, and nothing it
  has read before matters to it.  `RegisterRefused` and `LoginRefused` are what
  they answer without a database.
- A client sends when a server listens; otherwise the call ends at once and has
  changed nothing.

## 3. Runs

All are exhaustive.  `MaxTime`, `MaxEdits`, `MaxFaults` bound the clock, the
edits and the failed syncs; `MaxRequests`, `MaxWaiting` the requests of
SecretServer; `MaxChanges`, `MaxFaults` the settings edited and the failures of
ServerStart; `MaxLosses` what is lost in Accounts.  Sessions may sync, servers be
started and users log in any number of times.

| Run (`MC..._<run>.cfg`) | Instance | Shows |
|---|---|---|
| `two_devices` (MCManyOwners) | 2 devices of one account or of two, one clock ahead, 2 secrets of the first account and 1 of the second, 2 edits a second apart, blank types, 1 failure | `TypeOK`, `IInv`, `OwnersInv` between any two steps, batches refused half way included; `DevicesHoldOwn`; `CleanCopyIsTheServers`, `CleanIsPublished`, `PendingEditSurvives`, `LocalMovesForward`; `ImplementsContract` |
| `in_turn` | TurnTaking, fair, 2 devices, one clock ahead, 2 secrets, 2 edits, 1 failure | `TurnInv`, `NothingIsMissed`, `SyncBringsAll`; `DirtyReachesServer` while the server keeps half a batch; `DevicesConverge` |
| `accounts` | 2 accounts on one directory, 2 secrets, overlaps, 3 edits, 1 failure, room for one item in a body | `RowsMoveForward` |
| `requests` | SecretServer, 2 accounts, 1 secret, 5 requests, 3 at once | `ReadsAreOwn`, `DeletedOncePerLife`, `TombstonesHold`; `ImplementsShelf` |
| `salts` | Vault, 3 directories: one used in turn, one at once, one flaky; 5 processes, 2 passwords, 2 salts | `VaultInv`, `ReadableHere`, `SaltSettles` |
| `start` | ServerStart, the settings of `docker-compose.yml`, 2 files, 18 edits to choose 2 from, 2 migrations, 2 attempts, 2 failures | `PhaseInv`, `ServesMigrated`, `TopLayerWins`; `StartIsBounded`, `StartEnds`, `StartSucceeds` |
| `logins` | Accounts, 2 processes on one directory, 2 emails in 3 spellings, 2 passwords, 1 kind of trouble: 2 losses, or a failure of the server with or without a new key, or an expiry | `AccountsInv`, `RegisteredOnce`, `SessionsAreOwners`; `ImplementsBook`; `OwnerGetsIn` |

Why the bounds are enough to meet the interesting cases: two edits and two
seconds give versions that are older, equal and newer; two devices with a session
each give a reader and a writer, and every order of their steps; two secrets
give batches of which a part is stored; one failure, at any step of any sync,
leaves a push behind that comes after a newer one.  The initial states of
`two_devices` give each device either account, so that it has two devices of one owner,
and two owners with a device each.  `in_turn` has what it takes for one device to
change or delete what the other has pulled, and for both edits to be in one batch;
with spaced edits two seconds allow no third, and the invariants of TurnTaking are
proved without bounds.  Five requests are the
shortest history with a creation, a deletion, a revival, a second deletion and
one that comes too late.  Two salts are what it takes to lose one: in a race, after
a read error, or from another directory.  `SpacedOwnersSpec`, in `two_devices`, has
edits carry a stamp later than all local ones, which is what the program needs for
`CleanCopyIsTheServers` and does not enforce; the other runs edit twice in a
second.  Two edits of settings give a layer above another for every setting,
and two files a config path that works and one that does not; two migrations give
a schema between the first and the last; two failures a database that is lost
in a migration and again in the start after it.  Two processes on one
directory are two writers of one token file; three spellings of two emails, with
two passwords, give an owner, somebody who wants the same email, and a second
account.  Losses, failures of the server and expiry do not meet in one behaviour
of `logins` (`OneTrouble`); the proofs have no such bound.  SecretServer stops at
its bounds, as a server that nobody calls does, and a server that serves and that
nothing befalls any more does nothing in ServerStart, so `requests` and `start` do
not check for deadlock; the other runs do.

Symmetry: an account's secrets are interchangeable in the safety runs, and so are accounts in
`requests`, passwords and the processes of one directory in `salts`.  Runs with
fairness use none.

Five runs show where the program departs from what it says of itself; each is a
finding in `PROJECT.json` with the lines quoted.

| Run | Violated | How |
|---|---|---|
| `same_second` | `CleanCopyIsTheServers` | edit, sync, edit within one second, sync: the second edit is dropped at the server and marked clean |
| `edit_during_sync` | `CleanIsPublished` | edit between ListDirty and MarkClean |
| `blank_type` | `DirtyReachesServer` | a secret without a type, which the TUI accepts, blocks all pushes |
| `late_push` | `DevicesConverge` | an edit pushed after the other device's last sync is older than that sync, and never pulled |
| `other_device` | `ReadableEverywhere` | each directory draws its own salt; a payload received from another cannot be decrypted with the same master password |

More dirty items than a request body may hold block all pushes as a blank type
does: `PushReject` has it, run `accounts` takes it, and no run of
its own repeats the violation of `DirtyReachesServer`.

After a login to another account, the push of a secret the first account owns
matches no row, reports success (`postgres_secret_store.go:252-265`), and the edit
is marked clean unpushed.  `CleanIsPublished` therefore holds only where each
device keeps its account, and has no run of its own to show it, since the lines it would be held against
are those of `edit_during_sync`.  Run `accounts` has the scenario and shows that
the server's rows are safe in it.

### Fairness

`TurnFairSpec` of TurnTaking, and `FairSpec` of SecretSync, which the runs of
violated liveness use, have weak fairness of each session's steps and of starting a sync.  The
first is that a process which runs goes on and its requests are answered, or
time out, which is an action too but needs no fairness.  The second is about the
owner, who keeps syncing each device: liveness of a sync that nobody starts
cannot be expected of the program.  In TurnTaking it is strong fairness: while one
device has its turn the others may not start, and the owner turns to each of them
again and again.  Nothing is assumed of time, edits or
failures, of which there are finitely many.  The violations of liveness properties are not
for lack of fairness: in each of them the syncs go on for ever.

`StartFairSpec` has weak fairness of the process's own steps (it runs, its retries
are timed by a sleep, `Up` ends) and of `StartOpening`: an operator, or Docker,
starts the server again when it has ended and its settings are good.  Nothing
brings the database back, and nothing ends the outages or edits but their bounds:
`StartSucceeds` is about behaviours in which settings and database stay good.

`FairSpec` of Accounts adds weak fairness of the handlers of requests that are
waited for, and of clients that have an answer to read or a token to write, and
strong fairness of `Login(p, c)`: who wants to log in tries again whenever there is
a server and no other call under way, again and again, since a process may be
busy with a login to another account in between.  `OwnerGetsIn` is about behaviours
in which server and database stay up, and promises a session, not that it
stays: another login on the directory replaces it.

## 4. Proofs

`SecretSyncProofs`, for all sets of devices, sessions, secrets and accounts, all
clocks, all bounds:

- `TypeCorrect`: `Spec => []TypeOK`.
- `RowsOnlyMoveForward`: `Spec => RowsMoveForward`, with no further hypothesis.
  Only the push loop writes to the table (`OnlyPushWrites`), and the upsert
  moves forward (`UpsertRowStep`).
- `SyncInvariant`: `Spec => []IInv`, under `~Overlap` and `OneAccount`; the first
  cannot be dropped (run `edit_during_sync`), and the second only for devices that
  keep their accounts (ManyOwnersProofs, and the login to another account above).
- `CleanCopiesArePublished`, `PendingEditsSurvive`, `SyncImplementsContract`
  follow from it, under the same hypotheses.

`CleanIsPublished` is not inductive: marking clean is sound only because of what
happened steps earlier.  `IInv` adds it: what a sync has read of a row that is
still dirty is still what the row holds (`SnapIsCurrent`); what the push loop has
taken off its list the server has in that version or a later one
(`PushProgress`); nothing is marked before the push was acknowledged
(`MarkAfterPush`); pulled items are versions the server has had
(`PulledIsBehind`).  Server rows only moving forward is what makes these last
while other devices push.  The step lemmas are `StartInv`, `PushInv`, `PullInv`,
`ApplyInv`, `EndInv` for the session that moves, `RunOthers`, `EditInv` for those that do
not, and `DeviceInv` for the directories.  The refinement uses `OneStoreChanges`,
`PublishStep` and `CopyStep`: a step is one of the contract's actions or a stutter.

`VersionProofs`, under the same hypotheses and for edits that are spaced
(`SpacedSpec`: an edit comes when the time of every stamp on a device is past;
run `same_second` shows that this cannot be
dropped either):

- `CleanCopiesAreTheServers`: `SpacedSpec => []CleanCopyIsTheServers`.
- `LocalCopiesMoveForward`: `SpacedSpec => LocalMovesForward`.

The invariant added to `IInv` is `Versions`: any two copies of a secret with one
stamp, wherever they are (in a row, on a device, in a snapshot, on their way in
a push or a pull), have one content (`Agree`); each is as a local store keeps it,
so that storing it changes nothing (`StoredAsIs`); and none is later than what some
device holds, so that a new edit is later than all of them (`KnownToADevice`).

`ManyOwnersProofs`, for any number of owners, each with any number of devices that
keep their accounts, under `~Overlap` alone:

- `OwnersKeepApart`: `OwnersSpec => [](IInv /\ OwnersInv)`.  The step lemma of `IInv`
  asks that no push meets a row of another account (`PushesOwn`), which one account
  gives trivially and `OwnersInv` gives here: a device, a snapshot, a pulled list
  and a push hold secrets of their account only, and rows belong to their owners.
  The three depend on each other, through the pull's `WHERE`, the client that stores
  what it is sent, and the upsert that records who pushed.
- `NoDeviceHoldsOthers`: `OwnersSpec => []DevicesHoldOwn`.
- `OwnersCopiesArePublished`, `OwnersEditsSurvive`, `OwnersImplementContract`, and
  for spaced edits `OwnersCopiesAreTheServers` and `OwnersCopiesMoveForward`: what
  is proved for one account above holds for all owners at once.

`TurnTakingProofs`, for one account, any number of devices and sessions, any skews
and failures, under `~Overlap`:

- `TurnsKeepOrder`: `TurnSpec => [](IInv /\ TurnInv)`.
- `TurnsMissNothing`: `TurnSpec => []NothingIsMissed`, and
  `SyncsBringAll`: `TurnSpec => []SyncBringsAll`.

`NothingIsMissed` relates rows, copies and last sync times, and no step keeps it for a
reason of its own.  `TurnInv` says where it comes from: all but one device are at
rest (`OneAtATime`); edits on that one are later than the others' last syncs
(`EditsAreNews`), and so is all that is on its way in a snapshot, a push or an
orphan, unless the server has something later already (`WayIsSafe`), which is why
a late push does no harm; and a pull that was answered has everything its device
lacks still in hand (`PullIsWhole`), so that saving the time of the end loses
nothing.  `SyncBringsAll` then follows with `CleanCopyIsTheServers`.

`SecretServerProofs`, for all sets of accounts and secrets and all bounds:

- `ServerTypeCorrect`: `Spec => []TypeOK`.
- `AccountsAreApart`: `Spec => []ReadsAreOwn`.  The invariant is
  `ContentIsOwn`: every content, in a row or in a waiting request, was written
  with the account of the row's owner or of the request.
- `DeletesAreAnsweredOnce`: `Spec => []DeletedOncePerLife`, by `LivesCount`.
- `TombstonesAreKept`: `Spec => TombstonesHold`.  `Stamped`, that every write on its
  way has a stamp, is what keeps a row from being lost.
- `EachAccountHasItsOwnServer`: `Spec => ImplementsShelf`.  Each step of SecretServer is,
  for each account, a step of AccountShelf or a stutter: its own statements are the
  shelf's (`OwnStatement`, from `WriteIsPut`), those of others do not show
  (`OthersStatement`).

`VaultProofs`, for all sets of directories, processes, passwords and secrets:

- `VaultTypeCorrect`: `Spec => []TypeOK`.
- `OwnSecretsAreReadable`: `Spec => []ReadableHere`.  `VaultInv` adds what it takes:
  in a directory that can be read and that no two processes use at once, a salt is
  created only where there is none and nothing depends on one (`CreatedOnce`), a
  process that is ready has the salt of the file (`ReadyHasSalt`), and so has
  every payload sealed there, wherever it is now (`SealedWithSalt`).
- `KeysComeFromTheSalt`: `Spec => []VaultInv`.
- `SettledSaltsStay`: `Spec => SaltSettles`, in shared directories too.

`ServerStartProofs`, for all files, settings and edits, any number of
migrations, attempts and failures:

- `StartTypeCorrect`: `StartSpec => []StartTypeOK`.
- `TablesAreRecorded`: `StartSpec => []PhaseInv`, and from it
  `ServesOnlyMigrated`: `StartSpec => []ServesMigrated`.  The tables that exist are
  not known from the recorded version alone: a cut-off migration may have been
  committed or not.  `PhaseInv` says that only a schema that is marked dirty is in
  doubt, and that no process passes such a mark.
- `PriorityIsDocumented`: `StartSpec => []TopLayerWins`.
- `StartsAreBounded`: `StartSpec => StartIsBounded`.  `StepsLeft` counts what a start
  has still to go; each step of the process lowers it and nothing raises it.  This
  is what `StartEnds` needs of the code; that the process does go on is fairness.

`AccountsProofs`, for all processes, directories, emails, credentials and failures,
in any combination:

- `AccountsInvHolds`: `Spec => []AccountsInv`, with `RegistrationIsOnce` and
  `SessionsStayWithOwners`.  Strengthened are: ids are unique, a request was typed
  by the process that waits for it, and a token on its way to a file was opened by
  credentials of its writer.  One token at most is on its way in each, so that
  a session is always one that some login was answered with.
- `BookImplemented`: `Spec => ImplementsBook`.  Every step is a claim, a session
  opened or closed, or a stutter.
- `HandlersMeetTheirTables`: `Spec => []ServesMigrated`, by the lemma
  `ServerIsProcess`, that the server of Accounts is the process of ServerStart.

The only assumptions are the named ones on constants (`NoUserAssumption`,
`SyncAssumption`, `OwnersAssumption`, `ServerAssumption`, `VaultAssumption`, `ConfigAssumption`,
`StartAssumption`, `AccountsAssumption`), which TLC evaluates on every run.

Every safety property the passing runs check is a theorem.  What is only
model-checked is liveness, which this prover cannot derive from fairness:
`DirtyReachesServer`, `DevicesConverge`, `StartEnds`, `StartSucceeds`, `OwnerGetsIn`.  The
safety they rest on is proved: that an edit survives until the server has it, that
a sync which gets through brings everything, that a start is bounded, that a
session stays its owner's.

## 5. Plan

Done: SecretStore, LocalStore, SecretSync, SyncContract, TurnTaking, ManyOwners,
SecretServer, AccountShelf, Vault, Config, ServerStart, Accounts, AccountBook, with
their runs and proofs.  What could come next:

1. Vault composed with SecretSync, so that `Receive` is implemented by a sync.
2. The terminal UI's master password replaced while syncs and forms are open, and
   one different from that before.
3. TurnTaking for each of many owners: the turns of one account's devices
   need not wait for another's.
4. Accounts composed with SecretSync, so that a sync meets tokens that expire;
   today `Abort` stands for its 401.

## 6. Not modelled

The command line's parsing and printing, the TLS pool of its HTTP client, dialogs
and status lines of the terminal UI, routing, version, nginx, the OpenAPI text, and
the contents of payloads and metadata.  The in-memory user store is used by
tests only: `InitStores` opens Postgres or nothing.  `Me` only reads the claims
of an accepted token.  The server has no shutdown: it ends when it is killed,
which is `Crash`.  Timeouts are not measured: a request may fail at any moment.
