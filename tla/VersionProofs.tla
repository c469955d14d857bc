--------------------------- MODULE VersionProofs ---------------------------
(* Stamps as versions: if the owner's edits are spaced, a stamp tells the
   content of a secret wherever a copy of it is held, in a store, a request or
   a sync run.  For every number of devices, secrets, edits and failures. *)
EXTENDS SecretSyncProofs

\* What a sync run holds.
InSession(s, it) ==
  it \in snap[s] \/ it \in inbox[s] \/ it \in chosen[s] \/ it \in push[s].todo

\* A copy held anywhere.
Held(it) ==
  \/ \E x \in Id : it = rows[x]
  \/ \E d \in Device, x \in Id : it = local[d][x]
  \/ \E s \in Session : InSession(s, it)
  \/ \E o \in orphans : it \in o.todo

StoredAsIs == \A a \in Item : Held(a) => Stored(a) = a

\* Copies of one version are equal.
Agree ==
  \A a, b \in Item :
    Held(a) /\ Held(b) /\ a.id = b.id /\ a.stamp = b.stamp => a = b

\* No copy is later than what some device holds: edits see them all.
KnownToADevice ==
  \A a \in Item : Held(a) => \E d \in Device : local[d][a.id].stamp >= a.stamp

Versions == StoredAsIs /\ Agree /\ KnownToADevice

-----------------------------------------------------------------------------
(* Steps that are no edits hand copies on and make none. *)

LEMMA SessionHolds ==
  ASSUME TypeOK, NEW s \in Session, RunStep(s), NEW a, InSession(s, a)'
  PROVE  Held(a)
<1>1. LocalTypeOK /\ SessionTypeOK /\ StoreTypeOK /\ Home[s] \in Device
  BY TypeParts, SyncAssumption
<1>2. ASSUME EndSession(s) PROVE FALSE
  BY <1>1, <1>2 DEF EndSession, SetPc, InSession, NoPush, SessionTypeOK
<1>3. CASE SyncStart(s)
  <2>1. snap'[s] = ListDirty(Home[s]) /\ UNCHANGED <<inbox, chosen, push>>
    BY <1>1, <1>3 DEF SyncStart, CliSync, TuiSync, StartSession, SessionTypeOK
  <2>2. dirty[Home[s]] \subseteq Id
    BY <1>1 DEF LocalTypeOK
  <2>3. a \in ListDirty(Home[s]) => Held(a)
    BY <1>1, <2>2 DEF ListDirty, Held
  <2>4. QED
    BY <2>1, <2>3 DEF InSession, Held
<1>4. CASE PushSend(s)
  BY <1>1, <1>4 DEF PushSend, InSession, Held, SessionTypeOK, pullVars
<1>5. CASE PushStore(s) \/ PushDone(s)
  <2>1. push'[s].todo \subseteq push[s].todo
    <3>1. push[s].state # "none"
      BY <1>5 DEF PushStore, PushDone
    <3>2. push[s] \in [state : {"running", "acked"}, owner : User,
                       todo : SUBSET Item]
      BY <1>1, <3>1, RunningPush
    <3>3. QED
      BY <1>1, <1>5, <3>2 DEF PushStore, PushDone, SessionTypeOK
  <2>2. UNCHANGED <<snap, inbox, chosen>>
    BY <1>5 DEF PushStore, PushDone, pullVars
  <2>3. QED
    BY <2>1, <2>2 DEF InSession, Held
<1>6. CASE PushReject(s)
  BY <1>2, <1>6 DEF PushReject
<1>7. CASE PullServe(s)
  <2>1. UNCHANGED <<snap, chosen, push>>
        /\ inbox'[s] = ListUpdatedSince(account[Home[s]], since[s])
    BY <1>1, <1>7 DEF PullServe, SessionTypeOK
  <2>2. a \in inbox'[s] => Held(a)
    BY <2>1 DEF ListUpdatedSince, Held
  <2>3. QED
    BY <2>1, <2>2 DEF InSession, Held
<1>8. CASE ApplyGet(s)
  BY <1>1, <1>8 DEF ApplyGet, Oldest, InSession, Held, SessionTypeOK
<1>9. CASE ApplyUpsert(s)
  BY <1>1, <1>9 DEF ApplyUpsert, InSession, Held, SessionTypeOK
<1>10. CASE Join(s) \/ ApplyDone(s) \/ CliMarkClean(s)
  BY <1>10 DEF Join, ApplyDone, CliMarkClean, InSession, Held, pullVars
<1>11. CASE TuiMarkClean(s)
  BY <1>1, <1>11 DEF TuiMarkClean, InSession, Held, SessionTypeOK, pullVars
<1>12. CASE SaveLastSync(s) \/ Abort(s) \/ CrashInSave(s)
  BY <1>2, <1>12 DEF SaveLastSync, Abort, CrashInSave, GiveUp
<1>13. QED
  BY <1>3, <1>4, <1>5, <1>6, <1>7, <1>8, <1>9, <1>10, <1>11, <1>12
     DEF RunStep, SessionStep, PushStep, PullStep, ApplyStep, EndStep

LEMMA StoreHolds ==
  ASSUME StoreTypeOK, NEW u, NEW it, it \in Item, UpsertRow(u, it), Held(it),
         NEW x \in Id
  PROVE  Held(rows'[x])
BY DEF UpsertRow, storeVars, StoreTypeOK, Held, Item

LEMMA RunHolds ==
  ASSUME TypeOK, StoredAsIs, NEW s \in Session, RunStep(s), NEW a, Held(a)'
  PROVE  Held(a)
<1>1. /\ StoreTypeOK /\ LocalTypeOK /\ SessionTypeOK /\ OrphansTypeOK
      /\ Home[s] \in Device
  BY TypeParts, SyncAssumption
<1>2. ASSUME NEW x \in Id, a = rows'[x] PROVE Held(a)
  <2>1. CASE PushStore(s)
    <3>1. PICK it \in push[s].todo : UpsertRow(push[s].owner, it)
      BY <2>1 DEF PushStore, Oldest
    <3>2. it \in Item
      BY <1>1, <2>1, <3>1, RunningPush DEF PushStore
    <3>3. Held(it)
      BY <3>1 DEF Held, InSession
    <3>4. QED
      BY <1>1, <1>2, <3>1, <3>2, <3>3, StoreHolds
  <2>2. CASE ~PushStore(s)
    <3>1. UNCHANGED rows
      BY <2>2 DEF RunStep, SyncStart, CliSync, TuiSync, StartSession,
         SessionStep, PushStep, PullStep, ApplyStep, EndStep, PushSend,
         PushDone, PushReject, PullServe, Join, ApplyGet, ApplyUpsert,
         ApplyDone, CliMarkClean, TuiMarkClean, SaveLastSync, Abort,
         CrashInSave, storeVars
    <3>2. QED
      BY <1>2, <3>1 DEF Held
  <2>3. QED
    BY <2>1, <2>2
<1>3. ASSUME NEW d \in Device, NEW x \in Id, a = local'[d][x] PROVE Held(a)
  <2>1. CASE ApplyUpsert(s)
    <3>1. PICK it \in chosen[s] : Upsert(Home[s], it, FALSE)
      BY <2>1 DEF ApplyUpsert
    <3>2. it \in Item /\ it.id \in Id /\ Held(it)
      BY <1>1, <3>1 DEF SessionTypeOK, Item, Held, InSession
    <3>3. Stored(it) = it
      BY <3>2 DEF StoredAsIs
    <3>4. a = it \/ a = local[d][x]
      BY <1>1, <1>3, <3>1, <3>2, <3>3 DEF Upsert, LocalTypeOK
    <3>5. QED
      BY <3>2, <3>4 DEF Held
  <2>2. CASE ~ApplyUpsert(s)
    <3>1. UNCHANGED local
      BY <2>2 DEF RunStep, SyncStart, CliSync, TuiSync, StartSession,
         SessionStep, PushStep, PullStep, ApplyStep, EndStep, PushSend,
         PushStore, PushDone, PushReject, PullServe, Join, ApplyGet,
         ApplyDone, CliMarkClean, TuiMarkClean, SaveLastSync, Abort,
         CrashInSave, localVars
    <3>2. QED
      BY <1>3, <3>1 DEF Held
  <2>3. QED
    BY <2>1, <2>2
<1>4. ASSUME NEW t \in Session, InSession(t, a)' PROVE Held(a)
  <2>1. CASE t = s
    BY <1>4, <2>1, SessionHolds
  <2>2. CASE t # s
    BY <1>1, <1>4, <2>2, RunKeepsOthers DEF Kept, InSession, Held
  <2>3. QED
    BY <2>1, <2>2
<1>5. ASSUME NEW o \in orphans', a \in o.todo PROVE Held(a)
  <2>1. CASE GiveUp(s)
    BY <1>5, <2>1 DEF GiveUp, Held, InSession
  <2>2. CASE ~GiveUp(s)
    <3>1. UNCHANGED orphans
      BY <2>2 DEF RunStep, SyncStart, CliSync, TuiSync, StartSession,
         SessionStep, PushStep, PullStep, ApplyStep, EndStep, PushSend,
         PushStore, PushDone, PushReject, PullServe, Join, ApplyGet,
         ApplyUpsert, ApplyDone, CliMarkClean, TuiMarkClean, SaveLastSync,
         Abort, CrashInSave
    <3>2. QED
      BY <1>5, <3>1 DEF Held
  <2>3. QED
    BY <2>1, <2>2
<1>6. QED
  BY <1>2, <1>3, <1>4, <1>5 DEF Held

LEMMA OrphanHolds ==
  ASSUME TypeOK, NEW o \in orphans, OrphanStore(o) \/ OrphanEnd(o),
         NEW a, Held(a)'
  PROVE  Held(a)
<1>1. StoreTypeOK /\ OrphansTypeOK
  BY TypeParts
<1>2. ASSUME NEW x \in Id, a = rows'[x] PROVE Held(a)
  <2>1. CASE OrphanStore(o)
    <3>1. PICK it \in o.todo : UpsertRow(o.owner, it)
      BY <2>1 DEF OrphanStore, Oldest
    <3>2. it \in Item /\ Held(it)
      BY <1>1, <3>1 DEF OrphansTypeOK, Held
    <3>3. QED
      BY <1>1, <1>2, <3>1, <3>2, StoreHolds
  <2>2. CASE OrphanEnd(o)
    BY <1>2, <2>2 DEF OrphanEnd, storeVars, Held
  <2>3. QED
    BY <2>1, <2>2
<1>3. ASSUME NEW p \in orphans', a \in p.todo PROVE Held(a)
  <2>1. CASE OrphanStore(o)
    <3>1. PICK it \in o.todo :
            orphans' = (orphans \ {o}) \cup {[o EXCEPT !.todo = @ \ {it}]}
      BY <2>1 DEF OrphanStore, Oldest
    <3>2. o \in [owner : User, todo : SUBSET Item]
      BY <1>1 DEF OrphansTypeOK
    <3>3. p \in orphans \/ p.todo = o.todo \ {it}
      BY <3>1, <3>2
    <3>4. QED
      BY <1>3, <3>3 DEF Held
  <2>2. CASE OrphanEnd(o)
    BY <1>3, <2>2 DEF OrphanEnd, Held
  <2>3. QED
    BY <2>1, <2>2
<1>4. UNCHANGED <<local, snap, inbox, chosen, push>>
  BY DEF OrphanStore, OrphanEnd, localVars, sessionVars, pullVars
<1>5. QED
  BY <1>2, <1>3, <1>4 DEF Held, InSession

\* An edit makes one copy, of the time of its device's clock.
LEMMA EditHolds ==
  ASSUME TypeOK, NEW d \in Device, Edit(d)
  PROVE  \E new \in Item :
           /\ new.stamp = Clock(d) /\ Stored(new) = new
           /\ local'[d][new.id] = new
           /\ \A e \in Device, x \in Id :
                (e # d \/ x # new.id) => local'[e][x] = local[e][x]
           /\ \A a : Held(a)' => Held(a) \/ a = new
<1>1. PICK it \in Item : Write(d, it) /\ it.stamp = Clock(d)
  BY EditIsWrite
<1> DEFINE new == Stored(it)
<1>2. /\ new \in Item /\ new.stamp = Clock(d) /\ new.id = it.id
      /\ it.id \in Id
  BY <1>1 DEF Stored, Item, SecretType
<1>3. Stored(new) = new
  <2>1. it.deleted /\ it.type = "" => new.type = "deleted"
    BY DEF Stored, Item
  <2>2. QED
    BY <2>1 DEF Stored
<1>4. LocalTypeOK /\ local' = [local EXCEPT ![d][it.id] = new]
  BY <1>1, TypeParts DEF Write, Upsert
<1> HIDE DEF new
<1>5. /\ local'[d][new.id] = new
      /\ \A e \in Device, x \in Id :
           (e # d \/ x # new.id) => local'[e][x] = local[e][x]
  BY <1>2, <1>4 DEF LocalTypeOK
<1>6. UNCHANGED <<rows, snap, inbox, chosen, push, orphans>>
  BY <1>1 DEF Write, storeVars, sessionVars, pullVars
<1>7. \A a : Held(a)' => Held(a) \/ a = new
  BY <1>5, <1>6 DEF Held, InSession
<1>8. QED
  BY <1>2, <1>3, <1>5, <1>7

-----------------------------------------------------------------------------
(* If edits are spaced, no local copy goes back. *)

StampsKept == \A d \in Device, x \in Id :
  local'[d][x].stamp >= local[d][x].stamp

LEMMA EditIsLater ==
  ASSUME TypeOK, NEW d \in Device, SpacedEdit(d)
  PROVE  \A e \in Device, x \in Id : local[e][x].stamp < Clock(d)
<1>1. \A e \in Device, x \in Id :
        local[e][x].stamp < now /\ local[e][x].stamp \in Nat
  BY DEF SpacedEdit, Past, TypeOK, LocalTypeOK, Item
<1>2. now \in Nat /\ Skew[d] \in Nat
  BY SyncAssumption DEF TypeOK
<1>3. QED
  BY <1>1, <1>2 DEF Clock

LEMMA LocalForward ==
  ASSUME IInv, [SpacedNext]_vars
  PROVE  StampsKept
<1>1. LocalTypeOK /\ TypeOK
      /\ \A d \in Device, x \in Id : local[d][x].stamp \in Nat
  BY IInvTypes DEF IInv
<1>2. ASSUME NEW d \in Device, SpacedEdit(d) PROVE StampsKept
  <2>1. PICK new \in Item :
          /\ new.stamp = Clock(d) /\ local'[d][new.id] = new
          /\ \A e \in Device, x \in Id :
               (e # d \/ x # new.id) => local'[e][x] = local[e][x]
    BY <1>1, <1>2, EditHolds DEF SpacedEdit
  <2>2. new.id \in Id /\ new.stamp \in Nat
    BY DEF Item
  <2>3. local'[d][new.id].stamp >= local[d][new.id].stamp
    BY <1>1, <1>2, <2>1, <2>2, EditIsLater
  <2>4. QED
    BY <1>1, <2>1, <2>3 DEF StampsKept
<1>3. ASSUME NEW s \in Session, RunStep(s), NEW d \in Device, NEW x \in Id
      PROVE  local'[d][x].stamp >= local[d][x].stamp
  <2>1. CASE d # Home[s]
    BY <1>1, <1>3, <2>1, RunKeepsHomes
  <2>2. CASE d = Home[s] /\ ApplyUpsert(s)
    <3>1. PICK it \in chosen[s] :
            /\ it \in Item
            /\ it.stamp > local[Home[s]][it.id].stamp
            /\ local'[Home[s]][it.id].stamp = it.stamp
            /\ \A y \in Id : y # it.id =>
                 local'[Home[s]][y] = local[Home[s]][y]
      BY <2>2, ApplyUpsertStep
    <3>2. it.id \in Id /\ it.stamp \in Nat
      BY <3>1 DEF Item
    <3>3. QED
      BY <1>1, <2>2, <3>1, <3>2
  <2>3. CASE ~ApplyUpsert(s)
    <3>1. UNCHANGED local
      BY <1>3, <2>3 DEF RunStep, SyncStart, CliSync, TuiSync, StartSession,
         SessionStep, PushStep, PullStep, ApplyStep, EndStep, PushSend,
         PushStore, PushDone, PushReject, PullServe, Join, ApplyGet,
         ApplyDone, CliMarkClean, TuiMarkClean, SaveLastSync, Abort,
         CrashInSave, localVars
    <3>2. QED
      BY <1>1, <3>1
  <2>4. QED
    BY <2>1, <2>2, <2>3
<1>4. (Tick \/ (\E e \in Device, u \in User : Login(e, u))
            \/ (\E o \in orphans : OrphanStore(o) \/ OrphanEnd(o))
            \/ UNCHANGED vars) => StampsKept
  BY <1>1 DEF Tick, Login, OrphanStore, OrphanEnd, vars, localVars, StampsKept
<1>5. QED
  BY <1>2, <1>3, <1>4 DEF SpacedNext, OtherStep, RunStep, StampsKept

-----------------------------------------------------------------------------
(* Versions is inductive. *)

LEMMA VersionsHandedOn ==
  ASSUME Versions, StampsKept, TypeOK, TypeOK',
         \A a \in Item : Held(a)' => Held(a)
  PROVE  Versions'
<1>1. StoredAsIs' /\ Agree'
  BY DEF Versions, StoredAsIs, Agree
<1>2. ASSUME NEW a \in Item, Held(a)'
      PROVE  \E d \in Device : local'[d][a.id].stamp >= a.stamp
  <2>1. PICK d \in Device : local[d][a.id].stamp >= a.stamp
    BY <1>2 DEF Versions, KnownToADevice
  <2>2. /\ a.id \in Id /\ a.stamp \in Nat
        /\ local[d][a.id].stamp \in Nat /\ local'[d][a.id].stamp \in Nat
    BY DEF TypeOK, LocalTypeOK, Item
  <2>3. QED
    BY <2>1, <2>2 DEF StampsKept
<1>3. QED
  BY <1>1, <1>2 DEF Versions, KnownToADevice

LEMMA VersionsEdited ==
  ASSUME Versions, StampsKept, TypeOK, TypeOK',
         NEW d \in Device, SpacedEdit(d)
  PROVE  Versions'
<1>1. PICK new \in Item :
        /\ new.stamp = Clock(d) /\ Stored(new) = new
        /\ local'[d][new.id] = new
        /\ \A a : Held(a)' => Held(a) \/ a = new
  BY EditHolds DEF SpacedEdit
<1>2. new.id \in Id /\ new.stamp \in Nat
  BY DEF Item
<1>3. ASSUME NEW a \in Item, Held(a), a.id = new.id PROVE a.stamp < new.stamp
  <2>1. PICK e \in Device : local[e][a.id].stamp >= a.stamp
    BY <1>3 DEF Versions, KnownToADevice
  <2>2. a.stamp \in Nat /\ local[e][a.id].stamp \in Nat
    BY <1>2, <1>3 DEF Item, TypeOK, LocalTypeOK
  <2>3. local[e][a.id].stamp < new.stamp
    BY <1>1, <1>2, <1>3, EditIsLater
  <2>4. QED
    BY <1>2, <2>1, <2>2, <2>3
<1>4. StoredAsIs'
  BY <1>1 DEF Versions, StoredAsIs
<1>5. Agree'
  <2> SUFFICES ASSUME NEW a \in Item, NEW b \in Item, Held(a)', Held(b)',
                      a.id = b.id, a.stamp = b.stamp
               PROVE  a = b
    BY DEF Agree
  <2>1. \A c \in Item : c.stamp \in Nat
    BY DEF Item
  <2>2. QED
    BY <1>1, <1>2, <1>3, <2>1 DEF Versions, Agree
<1>6. KnownToADevice'
  <2> SUFFICES ASSUME NEW a \in Item, Held(a)'
               PROVE  \E e \in Device : local'[e][a.id].stamp >= a.stamp
    BY DEF KnownToADevice
  <2>1. CASE a = new
    BY <1>1, <1>2, <2>1
  <2>2. CASE Held(a)
    <3>1. PICK e \in Device : local[e][a.id].stamp >= a.stamp
      BY <2>2 DEF Versions, KnownToADevice
    <3>2. /\ a.id \in Id /\ a.stamp \in Nat
          /\ local[e][a.id].stamp \in Nat /\ local'[e][a.id].stamp \in Nat
      BY DEF TypeOK, LocalTypeOK, Item
    <3>3. QED
      BY <3>1, <3>2 DEF StampsKept
  <2>3. QED
    BY <1>1, <2>1, <2>2
<1>7. QED
  BY <1>4, <1>5, <1>6 DEF Versions

\* Spaced steps are steps.
LEMMA SpacedIsNext == SpacedNext => Next
BY DEF SpacedNext, SpacedEdit, Next

LEMMA VersionsNext ==
  ASSUME IInv, Versions, [SpacedNext]_vars
  PROVE  Versions'
<1>1. TypeOK /\ TypeOK' /\ StampsKept
  BY SpacedIsNext, NextType, LocalForward DEF IInv
<1>2. ASSUME NEW d \in Device, SpacedEdit(d) PROVE Versions'
  BY <1>1, <1>2, VersionsEdited
<1>3. ASSUME NEW s \in Session, RunStep(s) PROVE Versions'
  BY <1>1, <1>3, RunHolds, VersionsHandedOn DEF Versions
<1>4. ASSUME NEW o \in orphans, OrphanStore(o) \/ OrphanEnd(o) PROVE Versions'
  BY <1>1, <1>4, OrphanHolds, VersionsHandedOn
<1>5. ASSUME Tick \/ (\E d \in Device, u \in User : Login(d, u))
             \/ UNCHANGED vars
      PROVE  Versions'
  <2>1. UNCHANGED <<rows, local, snap, inbox, chosen, push, orphans>>
    BY <1>5 DEF Tick, Login, vars, storeVars, localVars, sessionVars, pullVars
  <2>2. \A a : Held(a)' => Held(a)
    BY <2>1 DEF Held, InSession
  <2>3. QED
    BY <1>1, <2>2, VersionsHandedOn
<1>6. QED
  BY <1>2, <1>3, <1>4, <1>5 DEF SpacedNext, OtherStep, RunStep

\* In the beginning nothing but missing rows is held.
LEMMA InitVersions ==
  ASSUME Init, Device # {}
  PROVE  Versions
<1>1. \A a : Held(a) => \E x \in Id : a = NoItem(x)
  <2>1. /\ \A x \in Id : rows[x] = NoItem(x)
        /\ \A d \in Device, x \in Id : local[d][x] = NoItem(x)
        /\ \A s \in Session : /\ snap[s] = {} /\ inbox[s] = {}
                             /\ chosen[s] = {} /\ push[s].todo = {}
        /\ orphans = {}
    BY DEF Init, StoreInit, LocalInit, NoPush
  <2>2. QED
    BY <2>1 DEF Held, InSession
<1>2. \A x : /\ Stored(NoItem(x)) = NoItem(x)
            /\ NoItem(x).id = x /\ NoItem(x).stamp = 0
  BY DEF Stored, NoItem
<1>3. \A d \in Device, x \in Id : local[d][x].stamp = 0
  BY DEF Init, LocalInit, NoItem
<1>4. StoredAsIs
  BY <1>1, <1>2 DEF StoredAsIs
<1>5. Agree
  BY <1>1, <1>2 DEF Agree
<1>6. KnownToADevice
  BY <1>1, <1>2, <1>3 DEF KnownToADevice
<1>7. QED
  BY <1>4, <1>5, <1>6 DEF Versions

LEMMA SpacedIsSpec == SpacedSpec => Spec
BY SpacedIsNext, PTL DEF SpacedSpec, Spec

LEMMA VersionsInvariant ==
  ASSUME ~Overlap, OneAccount, Device # {}
  PROVE  SpacedSpec => [](IInv /\ Versions)
<1>1. SpacedSpec => []IInv
  BY SyncInvariant, SpacedIsSpec, PTL
<1>2. Init => Versions
  BY InitVersions
<1>3. IInv /\ Versions /\ [SpacedNext]_vars => Versions'
  BY VersionsNext
<1>4. QED
  BY <1>1, <1>2, <1>3, PTL DEF SpacedSpec

LEMMA VersionsAgree == IInv /\ Versions => CleanCopyIsTheServers
<1> SUFFICES ASSUME IInv, Versions, NEW d \in Device, NEW x \in Id,
                    local[d][x].stamp = rows[x].stamp
             PROVE  local[d][x] = rows[x]
  BY DEF CleanCopyIsTheServers
<1>1. local[d][x].id = x /\ rows[x].id = x
  BY DEF IInv, Keyed
<1>2. local[d][x] \in Item /\ rows[x] \in Item
  BY IInvTypes
<1>3. Held(local[d][x]) /\ Held(rows[x])
  BY DEF Held
<1>4. QED
  BY <1>1, <1>2, <1>3 DEF Versions, Agree

(* If edits are spaced, a copy with the stamp of the server's row is that row:
   two devices never take different contents for the same version
   (local_store.go:303, postgres_secret_store.go:253). *)
THEOREM CleanCopiesAreTheServers ==
  ASSUME ~Overlap, OneAccount, Device # {}
  PROVE  SpacedSpec => []CleanCopyIsTheServers
<1>1. IInv /\ Versions => CleanCopyIsTheServers
  BY VersionsAgree
<1>2. QED
  BY <1>1, VersionsInvariant, PTL

(* If edits are spaced, no local copy goes back to an earlier version
   (local_store.go:296-310). *)
THEOREM LocalCopiesMoveForward ==
  ASSUME ~Overlap, OneAccount
  PROVE  SpacedSpec => LocalMovesForward
<1>1. SpacedSpec => []IInv
  BY SyncInvariant, SpacedIsSpec, PTL
<1>2. IInv /\ [SpacedNext]_vars => [StampsKept]_vars
  BY LocalForward
<1>3. [][StampsKept]_vars => LocalMovesForward
  BY PTL DEF LocalMovesForward, StampsKept
<1>4. QED
  BY <1>1, <1>2, <1>3, PTL DEF SpacedSpec

=============================================================================
