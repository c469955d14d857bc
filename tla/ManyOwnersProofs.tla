-------------------------- MODULE ManyOwnersProofs --------------------------
(* Proofs that many owners on one server do not disturb each other: no secret
   reaches a device of another account, and every owner is promised what
   SecretSync promises a single one. *)
EXTENDS ManyOwners, VersionProofs

-----------------------------------------------------------------------------
(* Steps of ManyOwners are steps of SecretSync, and keep the accounts. *)

LEMMA OwnersIsNext ==
  /\ [OwnersNext]_vars => [Next]_vars
  /\ [SpacedOwnersNext]_vars => [OwnersNext]_vars /\ [SpacedNext]_vars
BY DEF OwnersNext, SpacedOwnersNext, KeepingStep, OwnEdit, Edit, Next, OtherStep,
   SpacedNext, SpacedEdit

LEMMA RunKeepsWorld ==
  ASSUME NEW s \in Session, RunStep(s)
  PROVE  account' = account
<1>1. CASE SyncStart(s) \/ PushStep(s) \/ PullStep(s)
  BY <1>1 DEF SyncStart, CliSync, TuiSync, StartSession, PushStep, PushSend,
     PushStore, PushDone, PushReject, PullStep, PullServe, Join, worldVars
<1>2. CASE ApplyStep(s) \/ EndStep(s)
  BY <1>2 DEF ApplyStep, ApplyGet, ApplyUpsert, ApplyDone, EndStep,
     CliMarkClean, TuiMarkClean, SaveLastSync, worldVars
<1>3. CASE Abort(s) \/ CrashInSave(s)
  BY <1>3 DEF Abort, CrashInSave
<1> QED
  BY <1>1, <1>2, <1>3 DEF RunStep, SessionStep

\* No device changes its account.
LEMMA AccountsStay == [OwnersNext]_vars => account' = account
<1>1. \A s \in Session : RunStep(s) => account' = account
  BY RunKeepsWorld
<1>2. \A d \in Device : OwnEdit(d) => account' = account
  BY DEF OwnEdit, EditSecret, Add, Update, Delete, Write
<1>3. Tick \/ (\E o \in orphans : OrphanStore(o) \/ OrphanEnd(o))
        \/ UNCHANGED vars => account' = account
  BY DEF Tick, OrphanStore, OrphanEnd, vars, worldVars
<1> QED
  BY <1>1, <1>2, <1>3 DEF OwnersNext, KeepingStep, RunStep

-----------------------------------------------------------------------------
(* What is read, sent and stored is its owner's. *)

Own(u, items) == \A it \in items : OwnerOf[it.id] = u

HoldsOwn(s) == Own(account[Home[s]], snap[s] \cup inbox[s] \cup chosen[s])
PushOwn(s) == Own(push[s].owner, push[s].todo)

(* ListDirty returns rows the device has (local_store.go:198-226). *)
LEMMA DirtyIsOwn ==
  ASSUME IInv, DevicesHoldOwn, NEW d \in Device
  PROVE  Own(account[d], ListDirty(d))
<1>1. \A x \in dirty[d] :
        x \in Id /\ Present(local[d][x]) /\ local[d][x].id = x
  BY IInvTypes DEF IInv, Keyed, DirtyIsPast, LocalTypeOK
<1> QED
  BY <1>1 DEF Own, ListDirty, DevicesHoldOwn

(* The pull's WHERE (postgres_secret_store.go:129). *)
LEMMA PulledIsOwn ==
  ASSUME IInv, RowsAreOwn, NEW u, NEW n \in Nat
  PROVE  Own(u, ListUpdatedSince(u, n))
<1>1. \A x \in Id : rows[x].id = x /\ rows[x].stamp \in Nat
  BY IInvTypes DEF IInv, Keyed
<1>2. \A x \in Id : rows[x].stamp > n => Present(rows[x])
  BY <1>1 DEF Present
<1> QED
  BY <1>1, <1>2 DEF Own, ListUpdatedSince, RowsAreOwn

(* The upsert records whose row it is (postgres_secret_store.go:244-253). *)
LEMMA UpsertIsOwn ==
  ASSUME StoreTypeOK, RowsAreOwn, NEW u \in User, NEW it \in Item,
         OwnerOf[it.id] = u, UpsertRow(u, it)
  PROVE  RowsAreOwn'
<1>1. it.id \in Id
  BY DEF Item
<1>2. CASE UNCHANGED storeVars
  BY <1>2 DEF RowsAreOwn, storeVars
<1>3. CASE /\ rows' = [rows EXCEPT ![it.id] = it]
           /\ owner' = [owner EXCEPT ![it.id] = u]
  BY <1>1, <1>3 DEF StoreTypeOK, RowsAreOwn
<1> QED
  BY <1>2, <1>3 DEF UpsertRow

\* No push meets a row of another account.
LEMMA OwnPushesOwn ==
  ASSUME TypeOK, RowsAreOwn, PushesAreOwn
  PROVE  PushesOwn
<1> SUFFICES ASSUME NEW s \in Session, NEW it \in push[s].todo,
                    Present(rows[it.id])
             PROVE  owner[it.id] = push[s].owner
  BY DEF PushesOwn
<1>1. push[s].state # "none"
  BY TypeParts DEF SessionTypeOK, Push, NoPush
<1>2. it.id \in Id
  BY <1>1, TypeParts, RunningPush DEF Item
<1> QED
  BY <1>2 DEF RowsAreOwn, PushesAreOwn

-----------------------------------------------------------------------------
(* The steps of a sync. *)

LEMMA RunHoldsOwn ==
  ASSUME IInv, OwnersInv, NEW s \in Session, RunStep(s)
  PROVE  HoldsOwn(s)' /\ PushOwn(s)'
<1>1. SessionTypeOK /\ Home[s] \in Device /\ HoldsOwn(s) /\ PushOwn(s)
  BY IInvTypes, SyncAssumption
     DEF OwnersInv, SyncsHoldOwn, PushesAreOwn, HoldsOwn, PushOwn, Own
<1>2. account' = account
  BY RunKeepsWorld
<1>3. ASSUME EndSession(s) PROVE HoldsOwn(s)' /\ PushOwn(s)'
  BY <1>1, <1>3 DEF EndSession, SessionTypeOK, NoPush, HoldsOwn, PushOwn, Own
<1>4. CASE SyncStart(s)
  <2>1. /\ snap'[s] = ListDirty(Home[s])
        /\ inbox' = inbox /\ chosen' = chosen /\ push' = push
    BY <1>1, <1>4 DEF SyncStart, CliSync, TuiSync, StartSession, SessionTypeOK
  <2>2. Own(account[Home[s]], ListDirty(Home[s]))
    BY <1>1, DirtyIsOwn DEF OwnersInv
  <2> QED
    BY <1>1, <1>2, <2>1, <2>2 DEF HoldsOwn, PushOwn, Own
<1>5. CASE PushStep(s)
  <2>1. CASE PushSend(s)
    <3>1. /\ push'[s].owner = account[Home[s]] /\ push'[s].todo = snap[s]
          /\ snap' = snap /\ inbox' = inbox /\ chosen' = chosen
      BY <1>1, <2>1 DEF PushSend, SessionTypeOK, pullVars
    <3> QED
      BY <1>1, <1>2, <3>1 DEF HoldsOwn, PushOwn, Own
  <2>2. CASE PushStore(s) \/ PushDone(s)
    <3>1. push[s] \in [state : {"running", "acked"}, owner : User,
                       todo : SUBSET Item]
      BY <1>1, <2>2, RunningPush DEF PushStore, PushDone
    <3>2. /\ push'[s].owner = push[s].owner
          /\ push'[s].todo \subseteq push[s].todo
          /\ snap' = snap /\ inbox' = inbox /\ chosen' = chosen
      BY <1>1, <2>2, <3>1 DEF PushStore, PushDone, SessionTypeOK, pullVars
    <3> QED
      BY <1>1, <1>2, <3>2 DEF HoldsOwn, PushOwn, Own
  <2>3. CASE PushReject(s)
    BY <1>3, <2>3 DEF PushReject
  <2> QED
    BY <1>5, <2>1, <2>2, <2>3 DEF PushStep
<1>6. CASE PullServe(s)
  <2>1. /\ inbox'[s] = ListUpdatedSince(account[Home[s]], since[s])
        /\ snap' = snap /\ chosen' = chosen /\ push' = push
    BY <1>1, <1>6 DEF PullServe, SessionTypeOK
  <2>2. Own(account[Home[s]], inbox'[s])
    BY <1>1, <2>1, PulledIsOwn DEF OwnersInv, SessionTypeOK
  <2> QED
    BY <1>1, <1>2, <2>1, <2>2 DEF HoldsOwn, PushOwn, Own
<1>7. CASE ApplyGet(s)
  <2>1. PICK it \in inbox[s] :
          chosen'[s] = IF RemoteWins(Home[s], it) THEN {it} ELSE {}
    BY <1>1, <1>7 DEF ApplyGet, Oldest, SessionTypeOK
  <2>2. /\ inbox'[s] \subseteq inbox[s] /\ chosen'[s] \subseteq inbox[s]
        /\ snap' = snap /\ push' = push
    BY <1>1, <1>7, <2>1 DEF ApplyGet, SessionTypeOK
  <2> QED
    BY <1>1, <1>2, <2>2 DEF HoldsOwn, PushOwn, Own
<1>8. CASE Join(s) \/ ApplyUpsert(s) \/ ApplyDone(s) \/ CliMarkClean(s)
             \/ TuiMarkClean(s)
  <2>1. /\ snap'[s] \subseteq snap[s] /\ inbox' = inbox
        /\ chosen'[s] \subseteq chosen[s] /\ push' = push
    BY <1>1, <1>8 DEF Join, ApplyUpsert, ApplyDone, CliMarkClean, TuiMarkClean,
       SessionTypeOK, pullVars
  <2> QED
    BY <1>1, <1>2, <2>1 DEF HoldsOwn, PushOwn, Own
<1>9. CASE SaveLastSync(s) \/ Abort(s) \/ CrashInSave(s)
  BY <1>3, <1>9 DEF SaveLastSync, Abort, CrashInSave, GiveUp
<1> QED
  BY <1>4, <1>5, <1>6, <1>7, <1>8, <1>9
     DEF RunStep, SessionStep, PullStep, ApplyStep, EndStep

(* A sync writes to a device only what it has pulled for it
   (local_store.go:303-310). *)
LEMMA RunAppliesOwn ==
  ASSUME IInv, OwnersInv, NEW s \in Session, RunStep(s)
  PROVE  DevicesHoldOwn'
<1>1. LocalTypeOK /\ SessionTypeOK /\ Home[s] \in Device /\ account' = account
  BY IInvTypes, SyncAssumption, RunKeepsWorld
<1>2. CASE ApplyUpsert(s)
  <2>1. PICK it \in chosen[s] : Upsert(Home[s], it, FALSE)
    BY <1>2 DEF ApplyUpsert
  <2>2. it.id \in Id /\ OwnerOf[it.id] = account[Home[s]]
    BY <1>1, IInvTypes DEF OwnersInv, SyncsHoldOwn
  <2>3. \A d \in Device, x \in Id :
          (d # Home[s] \/ x # it.id) => local'[d][x] = local[d][x]
    BY <1>1, <2>1, <2>2 DEF Upsert, LocalTypeOK
  <2> QED
    BY <1>1, <2>2, <2>3 DEF OwnersInv, DevicesHoldOwn
<1>3. CASE ~ApplyUpsert(s)
  <2>1. local' = local
    BY <1>3 DEF RunStep, SyncStart, CliSync, TuiSync, StartSession, SessionStep,
       PushStep, PushSend, PushStore, PushDone, PushReject, PullStep, PullServe,
       Join, ApplyStep, ApplyGet, ApplyDone, EndStep, CliMarkClean,
       TuiMarkClean, SaveLastSync, Abort, CrashInSave, localVars
  <2> QED
    BY <1>1, <2>1 DEF OwnersInv, DevicesHoldOwn
<1> QED
  BY <1>2, <1>3

\* Only the push loop writes to the table, and only what was pushed.
LEMMA RunStoresOwn ==
  ASSUME IInv, OwnersInv, NEW s \in Session, RunStep(s)
  PROVE  RowsAreOwn'
<1>1. StoreTypeOK /\ SessionTypeOK
  BY IInvTypes
<1>2. CASE PushStore(s)
  <2>1. push[s].owner \in User /\ push[s].todo \subseteq Item
    BY <1>1, <1>2, RunningPush DEF PushStore
  <2>2. PICK it \in push[s].todo : UpsertRow(push[s].owner, it)
    BY <1>2 DEF PushStore, Oldest
  <2> QED
    BY <1>1, <2>1, <2>2, UpsertIsOwn DEF OwnersInv, PushesAreOwn
<1>3. CASE ~PushStore(s)
  <2>1. UNCHANGED storeVars
    BY <1>3 DEF RunStep, SyncStart, CliSync, TuiSync, StartSession, SessionStep,
       PushStep, PullStep, ApplyStep, EndStep, PushSend, PushDone, PushReject,
       PullServe, Join, ApplyGet, ApplyUpsert, ApplyDone, CliMarkClean,
       TuiMarkClean, SaveLastSync, Abort, CrashInSave
  <2> QED
    BY <2>1 DEF OwnersInv, RowsAreOwn, storeVars
<1> QED
  BY <1>2, <1>3

\* A push that nobody waits for any more is still its owner's.
LEMMA RunLeavesOwn ==
  ASSUME IInv, OwnersInv, NEW s \in Session, RunStep(s), NEW o \in orphans'
  PROVE  Own(o.owner, o.todo)
<1>1. CASE Abort(s) \/ CrashInSave(s)
  <2>1. \/ o \in orphans
        \/ o = [owner |-> push[s].owner, todo |-> push[s].todo]
    BY <1>1 DEF Abort, CrashInSave, GiveUp
  <2> QED
    BY <2>1 DEF OwnersInv, PushesAreOwn, Own
<1>2. CASE SyncStart(s) \/ SessionStep(s)
  <2>1. orphans' = orphans
    BY <1>2 DEF SyncStart, CliSync, TuiSync, StartSession, SessionStep,
       PushStep, PullStep, ApplyStep, EndStep, PushSend, PushStore, PushDone,
       PushReject, PullServe, Join, ApplyGet, ApplyUpsert, ApplyDone,
       CliMarkClean, TuiMarkClean, SaveLastSync
  <2> QED
    BY <2>1 DEF OwnersInv, PushesAreOwn, Own
<1> QED
  BY <1>1, <1>2 DEF RunStep

LEMMA RunIsOwn ==
  ASSUME IInv, OwnersInv, NEW s \in Session, RunStep(s)
  PROVE  OwnersInv'
<1>1. account' = account /\ SessionTypeOK
  BY RunKeepsWorld, IInvTypes
<1>2. ASSUME NEW t \in Session
      PROVE  HoldsOwn(t)' /\ PushOwn(t)'
  <2>1. CASE t = s
    BY <2>1, RunHoldsOwn
  <2>2. CASE t # s
    <3>1. Kept(t)
      BY <1>1, <2>2, RunKeepsOthers
    <3> QED
      BY <1>1, <3>1 DEF Kept, HoldsOwn, PushOwn, Own, OwnersInv, SyncsHoldOwn,
         PushesAreOwn
  <2> QED
    BY <2>1, <2>2
<1>3. SyncsHoldOwn' /\ PushesAreOwn'
  BY <1>2, RunLeavesOwn DEF SyncsHoldOwn, PushesAreOwn, HoldsOwn, PushOwn, Own
<1> QED
  BY <1>3, RunAppliesOwn, RunStoresOwn DEF OwnersInv

-----------------------------------------------------------------------------
(* Edits, and pushes that go on alone. *)

LEMMA EditIsOwn ==
  ASSUME IInv, OwnersInv, NEW d \in Device, OwnEdit(d)
  PROVE  OwnersInv'
<1>1. LocalTypeOK
  BY IInvTypes
<1>2. PICK x \in Id : OwnerOf[x] = account[d] /\ EditSecret(d, x)
  BY DEF OwnEdit
<1>3. \E it : Write(d, it) /\ it.id = x
  <2>1. ASSUME NEW type \in AddTypes, Add(d, x, type)
        PROVE  \E it : Write(d, it) /\ it.id = x
    BY <2>1 DEF Add
  <2>2. CASE Update(d, x)
    BY <2>2 DEF Update
  <2>3. CASE Delete(d, x)
    BY <2>3 DEF Delete
  <2> QED
    BY <1>2, <2>1, <2>2, <2>3 DEF EditSecret
<1>4. PICK it : Write(d, it) /\ it.id = x
  BY <1>3
<1>5. \A e \in Device, y \in Id :
        (e # d \/ y # x) => local'[e][y] = local[e][y]
  BY <1>1, <1>4 DEF Write, Upsert, LocalTypeOK
<1>6. /\ UNCHANGED <<storeVars, sessionVars, orphans>>
      /\ account' = account
  BY <1>4 DEF Write
<1>7. DevicesHoldOwn'
  BY <1>2, <1>5, <1>6 DEF OwnersInv, DevicesHoldOwn
<1> QED
  BY <1>6, <1>7 DEF OwnersInv, RowsAreOwn, SyncsHoldOwn, PushesAreOwn,
     storeVars, sessionVars, pullVars

LEMMA OrphanIsOwn ==
  ASSUME IInv, OwnersInv, NEW o \in orphans, OrphanStore(o) \/ OrphanEnd(o)
  PROVE  OwnersInv'
<1>1. StoreTypeOK /\ o.owner \in User /\ o.todo \subseteq Item
      /\ o \in [owner : User, todo : SUBSET Item]
  BY IInvTypes DEF OrphansTypeOK
<1>2. UNCHANGED <<localVars, worldVars, sessionVars>>
  BY DEF OrphanStore, OrphanEnd
<1>3. DevicesHoldOwn' /\ SyncsHoldOwn'
  BY <1>2 DEF OwnersInv, DevicesHoldOwn, SyncsHoldOwn, localVars, worldVars,
     sessionVars, pullVars
<1>4. ASSUME NEW p \in orphans'
      PROVE  Own(p.owner, p.todo)
  <2>1. p \in orphans \/ \E it : p = [o EXCEPT !.todo = @ \ {it}]
    BY DEF OrphanStore, OrphanEnd
  <2>2. ASSUME NEW it, p = [o EXCEPT !.todo = @ \ {it}]
        PROVE  p.owner = o.owner /\ p.todo \subseteq o.todo
    BY <1>1, <2>2
  <2> QED
    BY <2>1, <2>2 DEF OwnersInv, PushesAreOwn, Own
<1>5. PushesAreOwn'
  BY <1>2, <1>4 DEF OwnersInv, PushesAreOwn, Own, sessionVars
<1>6. RowsAreOwn'
  <2>1. CASE OrphanStore(o)
    <3>1. PICK it \in o.todo : UpsertRow(o.owner, it)
      BY <2>1 DEF OrphanStore, Oldest
    <3> QED
      BY <1>1, <3>1, UpsertIsOwn DEF OwnersInv, PushesAreOwn
  <2>2. CASE OrphanEnd(o)
    BY <2>2 DEF OrphanEnd, OwnersInv, RowsAreOwn, storeVars
  <2> QED
    BY <2>1, <2>2
<1> QED
  BY <1>3, <1>5, <1>6 DEF OwnersInv

-----------------------------------------------------------------------------
(* The invariant, and what follows from it. *)

LEMMA OwnersInvNext ==
  ASSUME IInv, OwnersInv, [OwnersNext]_vars
  PROVE  OwnersInv'
<1>1. CASE Tick \/ UNCHANGED vars
  BY <1>1 DEF Tick, vars, storeVars, localVars, worldVars, sessionVars, pullVars,
     OwnersInv, DevicesHoldOwn, RowsAreOwn, SyncsHoldOwn, PushesAreOwn
<1> QED
  BY <1>1, RunIsOwn, EditIsOwn, OrphanIsOwn DEF OwnersNext, KeepingStep, RunStep

LEMMA InitOwnersInv == Init => OwnersInv
<1> SUFFICES ASSUME Init PROVE OwnersInv
  OBVIOUS
<1>1. /\ \A x \in Id : rows[x].stamp = 0
      /\ \A d \in Device, x \in Id : local[d][x].stamp = 0
  BY DEF Init, StoreInit, LocalInit, NoItem
<1>2. /\ \A s \in Session : /\ snap[s] = {} /\ inbox[s] = {} /\ chosen[s] = {}
                           /\ push[s].todo = {}
      /\ orphans = {}
  BY DEF Init, NoPush
<1> QED
  BY <1>1, <1>2
     DEF OwnersInv, DevicesHoldOwn, RowsAreOwn, SyncsHoldOwn, PushesAreOwn,
         Present

(* Owners that share a server keep out of each other's way: for every number of
   them, no store, sync or push has a secret of one under the account of
   another, and IInv holds with the syncs of all (service.go:188-236). *)
THEOREM OwnersKeepApart ==
  ASSUME ~Overlap
  PROVE  OwnersSpec => [](IInv /\ OwnersInv)
<1>1. IInv /\ OwnersInv /\ [OwnersNext]_vars => IInv'
  BY OwnersIsNext, OwnPushesOwn, IInvNext DEF OwnersInv, IInv, Orderly
<1>2. IInv /\ OwnersInv /\ [OwnersNext]_vars => OwnersInv'
  BY OwnersInvNext
<1> QED
  BY <1>1, <1>2, InitIInv, InitOwnersInv, PTL DEF OwnersSpec

LEMMA SpacedIsOwners == SpacedOwnersSpec => OwnersSpec
BY OwnersIsNext, PTL DEF SpacedOwnersSpec, OwnersSpec

(* No device is ever given a secret of another account
   (postgres_secret_store.go:129). *)
THEOREM NoDeviceHoldsOthers ==
  ASSUME ~Overlap
  PROVE  OwnersSpec => []DevicesHoldOwn
<1>1. OwnersInv => DevicesHoldOwn
  BY DEF OwnersInv
<1> QED
  BY <1>1, OwnersKeepApart, PTL

(* Nothing is clean that the server lacks, for any number of owners
   (service.go:217-226). *)
THEOREM OwnersCopiesArePublished ==
  ASSUME ~Overlap
  PROVE  OwnersSpec => []CleanIsPublished
<1>1. IInv => CleanIsPublished
  BY DEF IInv
<1> QED
  BY <1>1, OwnersKeepApart, PTL

(* No edit of any owner is lost (service.go:188-236). *)
THEOREM OwnersEditsSurvive ==
  ASSUME ~Overlap
  PROVE  OwnersSpec => PendingEditSurvives
<1>1. IInv /\ [OwnersNext]_vars => [Survives]_vars
  BY SurvivesStep, OwnersIsNext
<1>2. [][Survives]_vars => PendingEditSurvives
  BY PTL DEF PendingEditSurvives, Survives
<1> QED
  BY <1>1, <1>2, OwnersKeepApart, PTL DEF OwnersSpec

(* The contract is kept with all owners at once: what others push and pull is
   nothing that it does not allow (service.go:188-236, ui.go:238-288). *)
THEOREM OwnersImplementContract ==
  ASSUME ~Overlap
  PROVE  OwnersSpec => ImplementsContract
<1>1. IInv /\ [OwnersNext]_vars => [Contract!Next]_(Contract!cvars)
  BY ContractStep, OwnersIsNext
<1> QED
  BY <1>1, InitContract, OwnersKeepApart, PTL
     DEF OwnersSpec, ImplementsContract, Contract!Spec

(* If edits are spaced, a copy with the stamp of the server's row is that row
   (local_store.go:303, postgres_secret_store.go:253), ... *)
THEOREM OwnersCopiesAreTheServers ==
  ASSUME ~Overlap, Device # {}
  PROVE  SpacedOwnersSpec => []CleanCopyIsTheServers
<1>1. SpacedOwnersSpec => []IInv
  BY OwnersKeepApart, SpacedIsOwners, PTL
<1>2. IInv /\ Versions /\ [SpacedOwnersNext]_vars => Versions'
  BY VersionsNext, OwnersIsNext
<1>3. SpacedOwnersSpec => [](IInv /\ Versions)
  BY <1>1, <1>2, InitVersions, PTL DEF SpacedOwnersSpec
<1>4. IInv /\ Versions => CleanCopyIsTheServers
  BY VersionsAgree
<1> QED
  BY <1>3, <1>4, PTL

(* ... and no local copy of any owner goes back (local_store.go:296-310). *)
THEOREM OwnersCopiesMoveForward ==
  ASSUME ~Overlap
  PROVE  SpacedOwnersSpec => LocalMovesForward
<1>1. SpacedOwnersSpec => []IInv
  BY OwnersKeepApart, SpacedIsOwners, PTL
<1>2. IInv /\ [SpacedOwnersNext]_vars => [StampsKept]_vars
  BY LocalForward, OwnersIsNext
<1>3. [][StampsKept]_vars => LocalMovesForward
  BY PTL DEF LocalMovesForward, StampsKept
<1> QED
  BY <1>1, <1>2, <1>3, PTL DEF SpacedOwnersSpec

=============================================================================
