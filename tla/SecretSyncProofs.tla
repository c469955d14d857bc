--------------------------- MODULE SecretSyncProofs ---------------------------
(* Theorems about SecretSync for every set of devices, sessions, secrets and
   accounts and every bound. *)
EXTENDS SecretSync, TLAPS

(* What a statement on the server's table may do to it: it stays well typed,
   every row keeps its owner, and changes only to a more recent version
   (PostgresSecretStore.Upsert). *)
LEMMA UpsertRowStep ==
  ASSUME StoreTypeOK, NEW u \in User, NEW it \in Item, UpsertRow(u, it)
  PROVE  /\ StoreTypeOK'
         /\ \A x \in Id : Present(rows[x]) =>
              /\ owner'[x] = owner[x]
              /\ rows'[x] = rows[x] \/ rows'[x].stamp > rows[x].stamp
         /\ \A x \in Id : rows'[x].stamp >= rows[x].stamp
         /\ rows'[it.id].stamp >= it.stamp \/ owner[it.id] # u
<1>1. rows \in [Id -> Item] /\ it.id \in Id /\ it.stamp \in Nat
  BY DEF StoreTypeOK, Item
<1>2. \A x \in Id : rows[x].stamp \in Nat
  BY <1>1 DEF Item
<1>3. CASE Accepts(u, it)
  <2>1. /\ rows' = [rows EXCEPT ![it.id] = it]
        /\ owner' = [owner EXCEPT ![it.id] = u]
    BY <1>3 DEF UpsertRow
  <2>2. StoreTypeOK'
    BY <2>1, <1>1 DEF StoreTypeOK
  <2>3. \A x \in Id : x # it.id => rows'[x] = rows[x] /\ owner'[x] = owner[x]
    BY <2>1, <1>1 DEF StoreTypeOK
  <2>4. rows'[it.id] = it /\ owner'[it.id] = u
    BY <2>1, <1>1 DEF StoreTypeOK
  <2>5. rows[it.id].stamp < it.stamp \/ ~Present(rows[it.id])
    BY <1>3 DEF Accepts
  <2>6. Present(rows[it.id]) => owner[it.id] = u
    BY <1>3 DEF Accepts
  <2>7. \A x \in Id : Present(rows[x]) =>
          /\ owner'[x] = owner[x]
          /\ rows'[x] = rows[x] \/ rows'[x].stamp > rows[x].stamp
    BY <2>3, <2>4, <2>5, <2>6, <1>1, <1>2
  <2>8. rows'[it.id].stamp >= rows[it.id].stamp
    BY <2>4, <2>5, <1>1, <1>2 DEF Present
  <2>9. \A x \in Id : rows'[x].stamp >= rows[x].stamp
    BY <2>3, <2>8, <1>1, <1>2
  <2> QED
    BY <2>2, <2>4, <2>7, <2>9, <1>1
<1>4. CASE ~Accepts(u, it)
  <2>1. rows' = rows /\ owner' = owner
    BY <1>4 DEF UpsertRow, storeVars
  <2>2. owner[it.id] = u => rows[it.id].stamp >= it.stamp
    BY <1>4, <1>1, <1>2 DEF Accepts
  <2> QED
    BY <2>1, <2>2, <1>1, <1>2 DEF StoreTypeOK
<1> QED
  BY <1>3, <1>4

(* The write of a local row keeps the local store well typed
   (LocalStore.Upsert). *)
LEMMA UpsertStep ==
  ASSUME LocalTypeOK, NEW d \in Device, NEW it \in Item,
         NEW isDirty \in BOOLEAN, Upsert(d, it, isDirty), lastSync' = lastSync
  PROVE  LocalTypeOK'
  BY DEF LocalTypeOK, Upsert, Stored, Item, SecretType

-----------------------------------------------------------------------------
(* Type correctness. *)

SessionTypeOK ==
  /\ pc \in [Session -> {"idle", "exchange", "push", "pull", "apply", "mark",
                         "save"}]
  /\ snap \in [Session -> SUBSET Item]
  /\ since \in [Session -> Nat]
  /\ inbox \in [Session -> SUBSET Item]
  /\ chosen \in [Session -> SUBSET Item]
  /\ pulled \in [Session -> BOOLEAN]
  /\ push \in [Session -> Push]

WorldTypeOK ==
  /\ account \in [Device -> User]
  /\ now \in Nat \ {0} /\ edits \in Nat /\ faults \in Nat

OrphansTypeOK == orphans \subseteq [owner : User, todo : SUBSET Item]

(* TypeOK, by the component whose state it is about. *)
LEMMA TypeParts ==
  TypeOK <=> /\ StoreTypeOK /\ LocalTypeOK /\ WorldTypeOK
             /\ SessionTypeOK /\ OrphansTypeOK
  BY DEF TypeOK, WorldTypeOK, SessionTypeOK, OrphansTypeOK

(* The same of the next state. *)
LEMMA TypePartsNext ==
  ASSUME StoreTypeOK', LocalTypeOK', WorldTypeOK', SessionTypeOK',
         OrphansTypeOK'
  PROVE  TypeOK'
  BY DEF TypeOK, WorldTypeOK, SessionTypeOK, OrphansTypeOK

(* The stamps a device gives are positive: Present holds of what it writes. *)
LEMMA ClockType ==
  ASSUME WorldTypeOK, NEW d \in Device
  PROVE  Clock(d) \in Nat /\ Clock(d) > 0
<1>1. Skew[d] \in Nat
  BY SyncAssumption
<1>2. now \in Nat \ {0}
  BY DEF WorldTypeOK
<1> QED
  BY <1>1, <1>2 DEF Clock

(* A request that has been sent has an account and items. *)
LEMMA RunningPush ==
  ASSUME SessionTypeOK, NEW s \in Session, push[s].state # "none"
  PROVE  /\ push[s] \in [state : {"running", "acked"}, owner : User,
                         todo : SUBSET Item]
         /\ push[s].owner \in User
         /\ push[s].todo \subseteq Item
  BY DEF SessionTypeOK, Push, NoPush

(* A sync that ends leaves well typed local variables (Service.Sync, doSync). *)
LEMMA EndSessionType ==
  ASSUME SessionTypeOK, NEW s \in Session, EndSession(s)
  PROVE  SessionTypeOK'
  BY DEF SessionTypeOK, EndSession, SetPc, Push

\* Add, Update and Delete write one item, stamped with the device's clock, into
\* a directory that is free or under an id that is new.
LEMMA EditIsWrite ==
  ASSUME TypeOK, NEW d \in Device, Edit(d)
  PROVE  \E it \in Item : /\ Write(d, it)
                          /\ it.stamp = Clock(d)
                          /\ Free(d) \/ FreshId(it.id)
<1>1. Clock(d) \in Nat /\ edits + 1 \in Nat /\ LocalTypeOK
  BY TypeParts, ClockType DEF WorldTypeOK
<1>2. ASSUME NEW x \in Id, NEW type \in AddTypes, Add(d, x, type)
      PROVE  \E it \in Item : /\ Write(d, it)
                              /\ it.stamp = Clock(d)
                              /\ Free(d) \/ FreshId(it.id)
  <2> DEFINE it == [id |-> x, type |-> type, payload |-> edits + 1,
                    deleted |-> FALSE, stamp |-> Clock(d)]
  <2>1. type \in SecretType
    BY SyncAssumption DEF SyncAssumption, SecretType
  <2>2. it \in Item
    BY <1>1, <2>1 DEF Item
  <2> QED
    BY <1>2, <2>2 DEF Add
<1>3. ASSUME NEW x \in Id, Update(d, x)
      PROVE  \E it \in Item : /\ Write(d, it)
                              /\ it.stamp = Clock(d)
                              /\ Free(d) \/ FreshId(it.id)
  <2> DEFINE it == [id |-> x, type |-> "text", payload |-> edits + 1,
                    deleted |-> FALSE, stamp |-> Clock(d)]
  <2>1. it \in Item
    BY <1>1 DEF Item, SecretType
  <2> QED
    BY <1>3, <2>1 DEF Update
<1>4. ASSUME NEW x \in Id, Delete(d, x)
      PROVE  \E it \in Item : /\ Write(d, it)
                              /\ it.stamp = Clock(d)
                              /\ Free(d) \/ FreshId(it.id)
  <2> DEFINE old == local[d][x]
             type == IF Present(old) THEN old.type ELSE "deleted"
             it == [id |-> x, type |-> type, payload |-> old.payload,
                    deleted |-> TRUE, stamp |-> Clock(d)]
  <2>1. old \in Item
    BY <1>1 DEF LocalTypeOK
  <2>2. it \in Item
    BY <1>1, <2>1 DEF Item, SecretType
  <2> QED
    BY <1>4, <2>2 DEF Delete
<1> QED
  BY <1>2, <1>3, <1>4 DEF Edit, EditSecret

(* The owner's edits keep types (Service.Add, Update, Delete). *)
LEMMA EditType ==
  ASSUME TypeOK, NEW d \in Device, Edit(d)
  PROVE  TypeOK'
<1>1. StoreTypeOK /\ LocalTypeOK /\ WorldTypeOK /\ SessionTypeOK /\ OrphansTypeOK
  BY TypeParts
<1>2. PICK it \in Item : Write(d, it)
  BY EditIsWrite
<1>3. LocalTypeOK'
  BY <1>1, <1>2, UpsertStep DEF Write
<1>4. StoreTypeOK' /\ WorldTypeOK' /\ SessionTypeOK' /\ OrphansTypeOK'
  BY <1>1, <1>2 DEF Write, storeVars, sessionVars, pullVars,
     StoreTypeOK, WorldTypeOK, SessionTypeOK, OrphansTypeOK
<1> QED
  BY <1>3, <1>4, TypePartsNext

(* Every step of a session keeps the types: requests, loops and the writes that
   end a sync (Service.Sync, doSync, SyncServiceImpl.Push). *)
LEMMA SessionType ==
  ASSUME TypeOK, NEW s \in Session, SyncStart(s) \/ SessionStep(s)
  PROVE  TypeOK'
<1>1. StoreTypeOK /\ LocalTypeOK /\ WorldTypeOK /\ SessionTypeOK /\ OrphansTypeOK
  BY TypeParts
<1>2. Home[s] \in Device
  BY SyncAssumption
<1>a. UNCHANGED storeVars => StoreTypeOK'
  BY <1>1 DEF storeVars, StoreTypeOK
<1>b. UNCHANGED localVars => LocalTypeOK'
  BY <1>1 DEF localVars, LocalTypeOK
<1>c. UNCHANGED worldVars => WorldTypeOK'
  BY <1>1 DEF worldVars, WorldTypeOK
<1>d. UNCHANGED orphans => OrphansTypeOK'
  BY <1>1 DEF OrphansTypeOK
<1>3. ASSUME NEW first \in {"exchange", "pull", "push"}, StartSession(s, first)
      PROVE  TypeOK'
  <2>1. ListDirty(Home[s]) \subseteq Item /\ lastSync[Home[s]] \in Nat
    BY <1>1, <1>2 DEF ListDirty, LocalTypeOK
  <2>2. SessionTypeOK'
    BY <1>1, <1>3, <2>1 DEF StartSession, SessionTypeOK, SetPc
  <2> QED
    BY <1>3, <1>a, <1>b, <1>c, <1>d, <2>2, TypePartsNext DEF StartSession
<1>4. CASE PushSend(s)
  <2>1. account[Home[s]] \in User /\ snap[s] \subseteq Item
    BY <1>1, <1>2 DEF WorldTypeOK, SessionTypeOK
  <2>2. SessionTypeOK'
    BY <1>1, <1>4, <2>1 DEF PushSend, SessionTypeOK, Push, pullVars
  <2> QED
    BY <1>4, <1>a, <1>b, <1>c, <1>d, <2>2, TypePartsNext DEF PushSend
<1>5. CASE PushStore(s)
  <2>1. PICK it \in Oldest(push[s].todo) :
          /\ UpsertRow(push[s].owner, it)
          /\ push' = [push EXCEPT ![s].todo = @ \ {it}]
    BY <1>5 DEF PushStore
  <2>2. push[s] \in [state : {"running", "acked"}, owner : User,
                     todo : SUBSET Item]
    BY <1>1, <1>5, RunningPush DEF PushStore
  <2>3. StoreTypeOK'
    BY <1>1, <2>1, <2>2, UpsertRowStep DEF Oldest
  <2>4. SessionTypeOK'
    BY <1>1, <1>5, <2>1, <2>2 DEF PushStore, SessionTypeOK, Push, pullVars
  <2> QED
    BY <1>5, <1>b, <1>c, <1>d, <2>3, <2>4, TypePartsNext DEF PushStore
<1>6. CASE PushDone(s)
  <2>1. push[s] \in [state : {"running", "acked"}, owner : User,
                     todo : SUBSET Item]
    BY <1>1, <1>6, RunningPush DEF PushDone
  <2>2. SessionTypeOK'
    BY <1>1, <1>6, <2>1 DEF PushDone, SessionTypeOK, Push, pullVars
  <2> QED
    BY <1>6, <1>a, <1>b, <1>c, <1>d, <2>2, TypePartsNext DEF PushDone
<1>7. CASE PushReject(s)
  <2>1. SessionTypeOK'
    BY <1>1, <1>7, EndSessionType DEF PushReject
  <2> QED
    BY <1>7, <1>a, <1>b, <1>c, <1>d, <2>1, TypePartsNext DEF PushReject
<1>8. CASE PullServe(s)
  <2>1. ListUpdatedSince(account[Home[s]], since[s]) \subseteq Item
    BY <1>1 DEF ListUpdatedSince, StoreTypeOK
  <2>2. SessionTypeOK'
    BY <1>1, <1>8, <2>1 DEF PullServe, SessionTypeOK, SetPc
  <2> QED
    BY <1>8, <1>a, <1>b, <1>c, <1>d, <2>2, TypePartsNext DEF PullServe
<1>9. CASE Join(s)
  <2>1. SessionTypeOK'
    BY <1>1, <1>9 DEF Join, SessionTypeOK, SetPc, pullVars
  <2> QED
    BY <1>9, <1>a, <1>b, <1>c, <1>d, <2>1, TypePartsNext DEF Join
<1>10. CASE ApplyGet(s)
  <2>1. SessionTypeOK'
    BY <1>1, <1>10 DEF ApplyGet, SessionTypeOK, Oldest
  <2> QED
    BY <1>10, <1>a, <1>b, <1>c, <1>d, <2>1, TypePartsNext DEF ApplyGet
<1>11. CASE ApplyUpsert(s)
  <2>1. PICK it \in chosen[s] : Upsert(Home[s], it, FALSE)
    BY <1>11 DEF ApplyUpsert
  <2>2. it \in Item
    BY <1>1 DEF SessionTypeOK
  <2>3. LocalTypeOK'
    BY <1>1, <1>2, <1>11, <2>1, <2>2, UpsertStep DEF ApplyUpsert
  <2>4. SessionTypeOK'
    BY <1>1, <1>11 DEF ApplyUpsert, SessionTypeOK
  <2> QED
    BY <1>11, <1>a, <1>c, <1>d, <2>3, <2>4, TypePartsNext DEF ApplyUpsert
<1>12. CASE ApplyDone(s)
  <2>1. SessionTypeOK'
    BY <1>1, <1>12 DEF ApplyDone, SessionTypeOK, SetPc, pullVars
  <2> QED
    BY <1>12, <1>a, <1>b, <1>c, <1>d, <2>1, TypePartsNext DEF ApplyDone
<1>13. CASE CliMarkClean(s)
  <2>1. LocalTypeOK'
    BY <1>1, <1>13 DEF CliMarkClean, MarkClean, LocalTypeOK
  <2>2. SessionTypeOK'
    BY <1>1, <1>13 DEF CliMarkClean, SessionTypeOK, SetPc, pullVars
  <2> QED
    BY <1>13, <1>a, <1>c, <1>d, <2>1, <2>2, TypePartsNext DEF CliMarkClean
<1>14. CASE TuiMarkClean(s)
  <2>1. LocalTypeOK'
    BY <1>1, <1>14 DEF TuiMarkClean, MarkClean, LocalTypeOK
  <2>2. SessionTypeOK'
    BY <1>1, <1>14 DEF TuiMarkClean, SessionTypeOK, SetPc, pullVars
  <2> QED
    BY <1>14, <1>a, <1>c, <1>d, <2>1, <2>2, TypePartsNext DEF TuiMarkClean
<1>15. CASE SaveLastSync(s)
  <2>1. LocalTypeOK'
    BY <1>1, <1>2, <1>15, ClockType DEF SaveLastSync, SaveSyncTime, LocalTypeOK
  <2>2. SessionTypeOK'
    BY <1>1, <1>15, EndSessionType DEF SaveLastSync
  <2> QED
    BY <1>15, <1>a, <1>c, <1>d, <2>1, <2>2, TypePartsNext DEF SaveLastSync
<1> QED
  BY <1>3, <1>4, <1>5, <1>6, <1>7, <1>8, <1>9, <1>10, <1>11, <1>12, <1>13,
     <1>14, <1>15
     DEF SyncStart, CliSync, TuiSync, SessionStep, PushStep, PullStep,
         ApplyStep, EndStep

(* A failed or abandoned sync, and what the server goes on doing for it. *)
LEMMA FaultType ==
  ASSUME TypeOK,
         \/ \E s \in Session : Abort(s) \/ CrashInSave(s)
         \/ \E o \in orphans : OrphanStore(o) \/ OrphanEnd(o)
  PROVE  TypeOK'
<1>1. StoreTypeOK /\ LocalTypeOK /\ WorldTypeOK /\ SessionTypeOK /\ OrphansTypeOK
  BY TypeParts
<1>2. ASSUME NEW s \in Session, GiveUp(s), account' = account, now' = now,
             edits' = edits
      PROVE  SessionTypeOK' /\ OrphansTypeOK' /\ WorldTypeOK'
  <2>1. SessionTypeOK'
    BY <1>1, <1>2, EndSessionType DEF GiveUp
  <2>2. push[s].state = "running" =>
          [owner |-> push[s].owner, todo |-> push[s].todo]
            \in [owner : User, todo : SUBSET Item]
    BY <1>1, RunningPush
  <2>3. OrphansTypeOK'
    BY <1>1, <1>2, <2>2 DEF GiveUp, OrphansTypeOK
  <2>4. WorldTypeOK'
    BY <1>1, <1>2 DEF GiveUp, WorldTypeOK
  <2> QED
    BY <2>1, <2>3, <2>4
<1>3. ASSUME NEW s \in Session, Abort(s)
      PROVE  TypeOK'
  <2>1. StoreTypeOK' /\ LocalTypeOK'
    BY <1>1, <1>3 DEF Abort, storeVars, localVars, StoreTypeOK, LocalTypeOK
  <2> QED
    BY <1>2, <1>3, <2>1, TypePartsNext DEF Abort
<1>4. ASSUME NEW s \in Session, CrashInSave(s)
      PROVE  TypeOK'
  <2>1. StoreTypeOK' /\ LocalTypeOK'
    BY <1>1, <1>4 DEF CrashInSave, SaveSyncTime, storeVars, StoreTypeOK,
       LocalTypeOK
  <2> QED
    BY <1>2, <1>4, <2>1, TypePartsNext DEF CrashInSave
<1>5. ASSUME NEW o \in orphans, OrphanStore(o)
      PROVE  TypeOK'
  <2>1. o \in [owner : User, todo : SUBSET Item]
    BY <1>1 DEF OrphansTypeOK
  <2>2. PICK it \in Oldest(o.todo) :
          /\ UpsertRow(o.owner, it)
          /\ orphans' = (orphans \ {o}) \cup {[o EXCEPT !.todo = @ \ {it}]}
    BY <1>5 DEF OrphanStore
  <2>3. StoreTypeOK'
    BY <1>1, <2>1, <2>2, UpsertRowStep DEF Oldest
  <2>4. [o EXCEPT !.todo = @ \ {it}] \in [owner : User, todo : SUBSET Item]
    BY <2>1
  <2>5. OrphansTypeOK'
    BY <1>1, <2>2, <2>4 DEF OrphansTypeOK
  <2>6. LocalTypeOK' /\ WorldTypeOK' /\ SessionTypeOK'
    BY <1>1, <1>5 DEF OrphanStore, localVars, worldVars, sessionVars, pullVars,
       LocalTypeOK, WorldTypeOK, SessionTypeOK
  <2> QED
    BY <2>3, <2>5, <2>6, TypePartsNext
<1>6. ASSUME NEW o \in orphans, OrphanEnd(o)
      PROVE  TypeOK'
  <2>1. OrphansTypeOK'
    BY <1>1, <1>6 DEF OrphanEnd, OrphansTypeOK
  <2>2. /\ StoreTypeOK' /\ LocalTypeOK' /\ WorldTypeOK' /\ SessionTypeOK'
    BY <1>1, <1>6 DEF OrphanEnd, storeVars, localVars, worldVars, sessionVars,
       pullVars, StoreTypeOK, LocalTypeOK, WorldTypeOK, SessionTypeOK
  <2> QED
    BY <2>1, <2>2, TypePartsNext
<1> QED
  BY <1>3, <1>4, <1>5, <1>6

(* Nothing changes, nothing changes type. *)
LEMMA StutterType == TypeOK /\ UNCHANGED vars => TypeOK'
  BY DEF vars, storeVars, localVars, worldVars, sessionVars, pullVars, TypeOK,
         StoreTypeOK, LocalTypeOK

(* Every step of the program keeps types: one case per group of actions. *)
LEMMA NextType == TypeOK /\ [Next]_vars => TypeOK'
<1> SUFFICES ASSUME TypeOK, [Next]_vars
             PROVE  TypeOK'
  OBVIOUS
<1>1. CASE Tick
  BY <1>1 DEF Tick, TypeOK, StoreTypeOK, LocalTypeOK, storeVars, localVars,
              sessionVars, pullVars
<1>2. ASSUME NEW d \in Device, NEW u \in User, Login(d, u)
      PROVE  TypeOK'
  BY <1>2 DEF Login, TypeOK, StoreTypeOK, LocalTypeOK, storeVars, localVars,
              sessionVars, pullVars
<1> QED
  BY <1>1, <1>2, EditType, SessionType, FaultType, StutterType
     DEF Next, OtherStep

(* Empty stores and idle sessions are well typed. *)
LEMMA InitType == Init => TypeOK
<1> SUFFICES ASSUME Init
             PROVE  TypeOK
  OBVIOUS
<1>1. \A x \in Id : NoItem(x) \in Item
  BY DEF NoItem, Item, SecretType
<1>2. StoreTypeOK
  BY <1>1 DEF Init, StoreInit, StoreTypeOK
<1>3. LocalTypeOK
  BY <1>1 DEF Init, LocalInit, LocalTypeOK
<1>4. SessionTypeOK /\ WorldTypeOK /\ OrphansTypeOK
  BY DEF Init, SessionTypeOK, WorldTypeOK, OrphansTypeOK, Push
<1> QED
  BY <1>2, <1>3, <1>4, TypeParts

(* Type correctness: whatever the devices, the server and failures do, every
   variable keeps its type; in particular only a pushed request has an owner. *)
THEOREM TypeCorrect == Spec => []TypeOK
  BY InitType, NextType, PTL DEF Spec

-----------------------------------------------------------------------------
(* The server's rows. *)

RowsForward ==
  \A x \in Id : Present(rows[x]) =>
    /\ owner'[x] = owner[x]
    /\ rows'[x] = rows[x] \/ rows'[x].stamp > rows[x].stamp

StampsForward == \A x \in Id : rows'[x].stamp >= rows[x].stamp

\* Only the push loop, of a session or of an orphan, writes to the table.
LEMMA OnlyPushWrites ==
  ASSUME TypeOK, [Next]_vars
  PROVE  \/ UNCHANGED storeVars
         \/ \E u \in User, it \in Item : UpsertRow(u, it)
<1>1. StoreTypeOK /\ SessionTypeOK /\ OrphansTypeOK
  BY TypeParts
<1>2. ASSUME NEW s \in Session, PushStore(s)
      PROVE  \E u \in User, it \in Item : UpsertRow(u, it)
  <2>1. push[s].owner \in User /\ push[s].todo \subseteq Item
    BY <1>1, <1>2, RunningPush DEF PushStore
  <2> QED
    BY <1>2, <2>1 DEF PushStore, Oldest
<1>3. ASSUME NEW o \in orphans, OrphanStore(o)
      PROVE  \E u \in User, it \in Item : UpsertRow(u, it)
  <2>1. o.owner \in User /\ o.todo \subseteq Item
    BY <1>1 DEF OrphansTypeOK
  <2> QED
    BY <1>3, <2>1 DEF OrphanStore, Oldest
<1>4. ASSUME NEW d \in Device, Edit(d)
      PROVE  UNCHANGED storeVars
  BY <1>4 DEF Edit, EditSecret, Add, Update, Delete, Write
<1>5. ASSUME NEW s \in Session,
             \/ SyncStart(s) \/ SessionStep(s) \/ Abort(s) \/ CrashInSave(s),
             ~PushStore(s)
      PROVE  UNCHANGED storeVars
  BY <1>5 DEF SyncStart, CliSync, TuiSync, StartSession, SessionStep, PushStep,
     PullStep, ApplyStep, EndStep, PushSend, PushDone, PushReject, PullServe,
     Join, ApplyGet, ApplyUpsert, ApplyDone, CliMarkClean, TuiMarkClean,
     SaveLastSync, Abort, CrashInSave
<1>6. (Tick \/ (\E d \in Device, u \in User : Login(d, u))
            \/ (\E o \in orphans : OrphanEnd(o))
            \/ UNCHANGED vars) => UNCHANGED storeVars
  BY DEF Tick, Login, OrphanEnd, vars
<1> QED
  BY <1>2, <1>3, <1>4, <1>5, <1>6 DEF Next, OtherStep

(* What one step of anything does to the server's rows
   (PostgresSecretStore.Upsert). *)
LEMMA RowsStep ==
  ASSUME TypeOK, [Next]_vars
  PROVE  RowsForward /\ StampsForward
<1>1. StoreTypeOK
  BY TypeParts
<1>2. CASE UNCHANGED storeVars
  BY <1>1, <1>2 DEF storeVars, RowsForward, StampsForward, StoreTypeOK, Item
<1>3. CASE \E u \in User, it \in Item : UpsertRow(u, it)
  BY <1>1, <1>3, UpsertRowStep DEF RowsForward, StampsForward
<1> QED
  BY <1>2, <1>3, OnlyPushWrites

(* No push, repeated, late or of another account, makes the server lose a row,
   give it away or go back to an older version of it. *)
THEOREM RowsOnlyMoveForward == Spec => RowsMoveForward
<1>1. TypeOK /\ [Next]_vars => [RowsForward]_vars
  BY RowsStep
<1>2. [][RowsForward]_vars => RowsMoveForward
  BY PTL DEF RowsMoveForward, RowsForward
<1> QED
  BY <1>1, <1>2, TypeCorrect, PTL DEF Spec

-----------------------------------------------------------------------------
(* The inductive invariant.  The hypotheses: nothing else uses a data directory
   while it is synced, and no push meets a row of another account.  The second
   is so when all devices use one account, and in ManyOwners. *)

PushesOwn ==
  \A s \in Session : \A it \in push[s].todo :
    Present(rows[it.id]) => owner[it.id] = push[s].owner

Orderly == ~Overlap /\ PushesOwn

(* With one account, all rows are that account's. *)
LEMMA OneAccountPushesOwn ==
  ASSUME TypeOK, RowsOwned, OneAccount
  PROVE  PushesOwn
<1> SUFFICES ASSUME NEW s \in Session, NEW it \in push[s].todo,
                    Present(rows[it.id])
             PROVE  owner[it.id] = push[s].owner
  BY DEF PushesOwn
<1>1. SessionTypeOK
  BY TypeParts
<1>2. push[s] # NoPush
  BY DEF NoPush
<1>3. push[s].owner \in User /\ it \in Item
  BY <1>1, <1>2 DEF SessionTypeOK, Push
<1>4. owner[it.id] \in User
  BY <1>3 DEF RowsOwned, Item
<1> QED
  BY <1>3, <1>4 DEF OneAccount

(* What the invariant says of types, in the form the later leaves need. *)
LEMMA IInvTypes ==
  ASSUME IInv
  PROVE  /\ StoreTypeOK /\ LocalTypeOK /\ WorldTypeOK
         /\ SessionTypeOK /\ OrphansTypeOK
         /\ \A x \in Id : rows[x] \in Item /\ rows[x].stamp \in Nat
         /\ \A d \in Device, x \in Id :
              local[d][x] \in Item /\ local[d][x].stamp \in Nat
         /\ \A s \in Session :
              \A it \in snap[s] \cup inbox[s] \cup chosen[s] :
                it \in Item /\ it.id \in Id /\ it.stamp \in Nat
  <1>1. /\ StoreTypeOK /\ LocalTypeOK /\ WorldTypeOK
        /\ SessionTypeOK /\ OrphansTypeOK
    BY TypeParts DEF IInv
  <1>2. /\ \A x \in Id : rows[x] \in Item
        /\ \A d \in Device, x \in Id : local[d][x] \in Item
        /\ \A s \in Session : \A it \in snap[s] \cup inbox[s] \cup chosen[s] :
             it \in Item
    BY <1>1 DEF StoreTypeOK, LocalTypeOK, SessionTypeOK
  <1>3. \A it \in Item : it.id \in Id /\ it.stamp \in Nat
    BY DEF Item
  <1> QED
    BY <1>1, <1>2, <1>3

\* What a step leaves of a session it is not about.
Kept(t) ==
  /\ pc'[t] = pc[t] /\ snap'[t] = snap[t] /\ inbox'[t] = inbox[t]
  /\ chosen'[t] = chosen[t] /\ push'[t] = push[t]

RunStep(s) == SyncStart(s) \/ SessionStep(s) \/ Abort(s) \/ CrashInSave(s)

(* A sync run has its own local variables: a step of one leaves those of the
   others alone. *)
LEMMA RunKeepsOthers ==
  ASSUME SessionTypeOK, NEW s \in Session, RunStep(s), NEW t \in Session, t # s
  PROVE  Kept(t)
<1>1. ASSUME EndSession(s) PROVE Kept(t)
  BY <1>1 DEF EndSession, SetPc, Kept, SessionTypeOK
<1>2. CASE SyncStart(s)
  BY <1>2 DEF SyncStart, CliSync, TuiSync, StartSession, SetPc, Kept,
     SessionTypeOK
<1>3. CASE PushStep(s)
  BY <1>1, <1>3 DEF PushStep, PushSend, PushStore, PushDone, PushReject, Kept,
     SessionTypeOK, pullVars
<1>4. CASE PullStep(s)
  BY <1>4 DEF PullStep, PullServe, Join, SetPc, Kept, SessionTypeOK, pullVars
<1>5. CASE ApplyStep(s)
  BY <1>5 DEF ApplyStep, ApplyGet, ApplyUpsert, ApplyDone, SetPc, Kept,
     SessionTypeOK, pullVars
<1>6. CASE EndStep(s)
  BY <1>1, <1>6 DEF EndStep, CliMarkClean, TuiMarkClean, SaveLastSync, SetPc,
     Kept, SessionTypeOK, pullVars
<1>7. CASE Abort(s) \/ CrashInSave(s)
  BY <1>1, <1>7 DEF Abort, CrashInSave, GiveUp
<1> QED
  BY <1>2, <1>3, <1>4, <1>5, <1>6, <1>7 DEF RunStep, SessionStep

\* A version the server has, or has had, stays one.
LEMMA StaysBehind ==
  ASSUME IInv, TypeOK', StampsForward, NEW it \in Item,
         it.stamp <= rows[it.id].stamp
  PROVE  it.stamp <= rows'[it.id].stamp
<1>1. it.id \in Id /\ it.stamp \in Nat
  BY DEF Item
<1>2. rows[it.id].stamp \in Nat /\ rows'[it.id].stamp \in Nat
  BY <1>1, IInvTypes DEF TypeOK, StoreTypeOK, Item
<1>3. rows'[it.id].stamp >= rows[it.id].stamp
  BY <1>1 DEF StampsForward
<1> QED
  BY <1>1, <1>2, <1>3

\* A session whose own state and rows stay put keeps its invariant.
LEMMA KeptSession ==
  ASSUME IInv, TypeOK', StampsForward, NEW t \in Session, Kept(t),
         \/ pc[t] = "idle"
         \/ local'[Home[t]] = local[Home[t]] /\ dirty'[Home[t]] = dirty[Home[t]]
  PROVE  SessionInv(t)'
<1>1. SessionInv(t)
  BY DEF IInv
<1>2. CASE pc[t] = "idle"
  BY <1>1, <1>2 DEF SessionInv, IdleIsEmpty, SnapIsCurrent, PushProgress,
     MarkAfterPush, PulledIsBehind, Kept, NoPush
<1>3. CASE /\ local'[Home[t]] = local[Home[t]]
           /\ dirty'[Home[t]] = dirty[Home[t]]
  <2>1. /\ IdleIsEmpty(t)' /\ MarkAfterPush(t)'
    BY <1>1 DEF SessionInv, IdleIsEmpty, MarkAfterPush, Kept
  <2>2. SnapIsCurrent(t)'
    BY <1>1, <1>3 DEF SessionInv, SnapIsCurrent, Kept
  <2>3. \A it \in snap[t] \cup inbox[t] \cup chosen[t] :
          it.stamp <= rows[it.id].stamp => it.stamp <= rows'[it.id].stamp
    BY IInvTypes, StaysBehind
  <2>4. PushProgress(t)'
    BY <1>1, <2>3 DEF SessionInv, PushProgress, Kept
  <2>5. PulledIsBehind(t)'
    BY <1>1, <1>3, <2>3 DEF SessionInv, PulledIsBehind, Kept
  <2> QED
    BY <2>1, <2>2, <2>4, <2>5 DEF SessionInv
<1> QED
  BY <1>2, <1>3

\* A step of a running sync is taken by a session that is not idle.
LEMMA Running ==
  ASSUME IInv, NEW s \in Session, SessionStep(s) \/ Abort(s) \/ CrashInSave(s)
  PROVE  pc[s] # "idle"
<1>1. IdleIsEmpty(s)
  BY DEF IInv, SessionInv
<1>2. CASE PushStep(s)
  BY <1>1, <1>2 DEF PushStep, PushSend, PushStore, PushDone, PushReject,
     IdleIsEmpty, NoPush
<1>3. CASE PullStep(s) \/ ApplyStep(s) \/ EndStep(s) \/ Abort(s)
           \/ CrashInSave(s)
  BY <1>3 DEF PullStep, PullServe, Join, ApplyStep, ApplyGet, ApplyUpsert,
     ApplyDone, EndStep, CliMarkClean, TuiMarkClean, SaveLastSync, Abort,
     CrashInSave, GiveUp
<1> QED
  BY <1>2, <1>3 DEF SessionStep

(* A sync run touches its own data directory only. *)
LEMMA RunKeepsHomes ==
  ASSUME LocalTypeOK, NEW s \in Session, RunStep(s), NEW d \in Device,
         d # Home[s]
  PROVE  local'[d] = local[d] /\ dirty'[d] = dirty[d]
<1>1. Home[s] \in Device
  BY SyncAssumption
<1>2. CASE SyncStart(s) \/ PushStep(s) \/ PullStep(s)
  BY <1>2 DEF SyncStart, CliSync, TuiSync, StartSession, PushStep, PushSend,
     PushStore, PushDone, PushReject, PullStep, PullServe, Join, localVars
<1>3. CASE ApplyStep(s)
  BY <1>1, <1>3 DEF ApplyStep, ApplyGet, ApplyUpsert, ApplyDone, Upsert,
     LocalTypeOK, localVars
<1>4. CASE EndStep(s) \/ Abort(s) \/ CrashInSave(s)
  BY <1>1, <1>4 DEF EndStep, CliMarkClean, TuiMarkClean, SaveLastSync,
     MarkClean, Abort, CrashInSave, LocalTypeOK, localVars
<1> QED
  BY <1>2, <1>3, <1>4 DEF RunStep, SessionStep

\* No sync disturbs what another one relies on.
LEMMA RunOthers ==
  ASSUME IInv, Orderly, TypeOK', StampsForward, NEW s \in Session, RunStep(s),
         NEW t \in Session, t # s
  PROVE  SessionInv(t)'
<1>1. Kept(t)
  BY RunKeepsOthers, IInvTypes
<1>2. Home[s] \in Device /\ Home[t] \in Device
  BY SyncAssumption
<1>3. CASE Home[t] # Home[s]
  BY <1>1, <1>2, <1>3, RunKeepsHomes, IInvTypes, KeptSession
<1>4. CASE SyncStart(s)
  <2>1. local' = local /\ dirty' = dirty
    BY <1>4 DEF SyncStart, CliSync, TuiSync, StartSession, localVars
  <2> QED
    BY <1>1, <2>1, KeptSession
<1>5. CASE Home[t] = Home[s] /\ ~SyncStart(s)
  <2>1. pc[s] # "idle"
    BY <1>5, Running DEF RunStep
  <2>2. pc[t] = "idle"
    BY <1>5, <2>1 DEF IInv, SyncsApart
  <2> QED
    BY <1>1, <2>2, KeptSession
<1> QED
  BY <1>3, <1>4, <1>5

(* A data directory that no sync uses is the only one a sync may be started
   on, when overlaps are excluded. *)
LEMMA RunSyncsApart ==
  ASSUME IInv, Orderly, NEW s \in Session, RunStep(s)
  PROVE  SyncsApart'
<1> SUFFICES ASSUME NEW t \in Session, NEW u \in Session, Home[t] = Home[u],
                    pc'[t] # "idle", pc'[u] # "idle", t # u
             PROVE  FALSE
  BY DEF SyncsApart
<1>1. \A v \in Session : v # s => pc'[v] = pc[v]
  BY RunKeepsOthers, IInvTypes DEF Kept
<1>2. SyncsApart
  BY DEF IInv
<1>3. CASE SyncStart(s)
  <2>1. \A v \in Session : Home[v] = Home[s] => pc[v] = "idle"
    BY <1>3 DEF SyncStart, CliSync, TuiSync, StartSession, Free, Quiet, Orderly
  <2> QED
    BY <1>1, <1>2, <2>1 DEF SyncsApart
<1>4. CASE ~SyncStart(s)
  <2>1. pc[s] # "idle"
    BY <1>4, Running DEF RunStep
  <2> QED
    BY <1>1, <1>2, <2>1 DEF SyncsApart
<1> QED
  BY <1>3, <1>4

-----------------------------------------------------------------------------
(* Each step of a sync keeps the invariant of its own session. *)

(* A session that has just ended holds nothing. *)
LEMMA EndSessionInv ==
  ASSUME SessionTypeOK, NEW s \in Session, EndSession(s)
  PROVE  SessionInv(s)'
<1>1. /\ pc'[s] = "idle" /\ snap'[s] = {} /\ inbox'[s] = {}
      /\ chosen'[s] = {} /\ push'[s] = NoPush
  BY DEF EndSession, SetPc, SessionTypeOK
<1> QED
  BY <1>1 DEF SessionInv, IdleIsEmpty, SnapIsCurrent, PushProgress,
     MarkAfterPush, PulledIsBehind, NoPush

(* ListDirty establishes that the snapshot is current (service.go:194). *)
LEMMA StartInv ==
  ASSUME IInv, NEW s \in Session, SyncStart(s)
  PROVE  SessionInv(s)'
<1> DEFINE d == Home[s]
<1>1. d \in Device
  BY SyncAssumption
<1>2. /\ pc[s] = "idle"
      /\ pc'[s] = "exchange"
         \/ (pc'[s] = "pull" /\ dirty[d] = {}) \/ pc'[s] = "push"
      /\ snap'[s] = ListDirty(d)
      /\ local' = local /\ dirty' = dirty
      /\ inbox' = inbox /\ chosen' = chosen /\ push' = push
  BY IInvTypes DEF SyncStart, CliSync, TuiSync, StartSession, SetPc,
     SessionTypeOK, localVars
<1>3. inbox[s] = {} /\ chosen[s] = {} /\ push[s] = NoPush
  BY <1>2 DEF IInv, SessionInv, IdleIsEmpty
<1>4. SnapIsCurrent(s)'
  <2> SUFFICES ASSUME NEW x \in dirty[d]
               PROVE  local[d][x].id = x /\ Present(local[d][x])
    BY <1>2 DEF SnapIsCurrent, ListDirty
  <2> QED
    BY <1>1, IInvTypes DEF IInv, Keyed, DirtyIsPast, LocalTypeOK
<1>5. IdleIsEmpty(s)' /\ PushProgress(s)' /\ PulledIsBehind(s)'
  BY <1>2, <1>3 DEF IdleIsEmpty, PushProgress, PulledIsBehind, NoPush
<1>6. MarkAfterPush(s)'
  BY <1>2 DEF MarkAfterPush, ListDirty
<1> QED
  BY <1>4, <1>5, <1>6 DEF SessionInv

(* The push loop stores, or finds stored, what it takes off its list
   (SyncServiceImpl.Push). *)
LEMMA PushInv ==
  ASSUME IInv, TypeOK', StampsForward, PushesOwn, NEW s \in Session,
         PushStep(s)
  PROVE  SessionInv(s)'
<1>1. SessionInv(s) /\ SessionTypeOK /\ StoreTypeOK
  BY IInvTypes DEF IInv
<1>2. CASE PushReject(s)
  BY <1>1, <1>2, EndSessionInv DEF PushReject
<1>3. ASSUME ~PushReject(s)
      PROVE  /\ pc' = pc /\ snap' = snap /\ inbox' = inbox /\ chosen' = chosen
             /\ local' = local /\ dirty' = dirty
  BY <1>3 DEF PushStep, PushSend, PushStore, PushDone, localVars, pullVars
<1>4. ASSUME ~PushReject(s) PROVE SnapIsCurrent(s)'
  BY <1>1, <1>3, <1>4 DEF SessionInv, SnapIsCurrent
<1>5. ASSUME ~PushReject(s) PROVE PulledIsBehind(s)'
  <2>1. \A it \in inbox[s] \cup chosen[s] : it.stamp <= rows'[it.id].stamp
    BY <1>1, IInvTypes, StaysBehind DEF SessionInv, PulledIsBehind
  <2> QED
    BY <1>1, <1>3, <1>5, <2>1 DEF SessionInv, PulledIsBehind
<1>6. ASSUME ~PushReject(s) PROVE IdleIsEmpty(s)'
  BY <1>3, <1>6, Running DEF SessionStep, IdleIsEmpty
<1>7. CASE PushSend(s)
  <2>1. push'[s].state = "running" /\ push'[s].todo = snap[s]
    BY <1>1, <1>7 DEF PushSend, SessionTypeOK
  <2>2. pc[s] \notin {"apply", "mark", "pull"}
    BY <1>7 DEF PushSend
  <2>3. snap' = snap /\ pc' = pc
    BY <1>7 DEF PushSend
  <2>4. PushProgress(s)' /\ MarkAfterPush(s)'
    BY <2>1, <2>2, <2>3 DEF PushProgress, MarkAfterPush
  <2>5. ~PushReject(s)
    BY <1>7 DEF PushSend, PushReject
  <2> QED
    BY <1>4, <1>5, <1>6, <2>4, <2>5 DEF SessionInv
<1>8. CASE PushStore(s) /\ ~PushReject(s)
  <2>1. PICK it \in Oldest(push[s].todo) :
          /\ UpsertRow(push[s].owner, it)
          /\ push' = [push EXCEPT ![s].todo = @ \ {it}]
    BY <1>8 DEF PushStore
  <2>2. /\ push[s] \in [state : {"running", "acked"}, owner : User,
                        todo : SUBSET Item]
        /\ push[s].owner \in User /\ it \in Item
    BY <1>1, <1>8, <2>1, RunningPush DEF PushStore, Oldest
  <2>3. push'[s].state = "running" /\ push'[s].todo = push[s].todo \ {it}
    BY <1>1, <1>8, <2>1, <2>2 DEF PushStore, SessionTypeOK
  <2>4. it.stamp <= rows'[it.id].stamp
    <3>1. rows'[it.id].stamp >= it.stamp \/ owner[it.id] # push[s].owner
      BY <1>1, <2>1, <2>2, UpsertRowStep
    <3>2. it.id \in Id /\ it.stamp \in Nat /\ rows'[it.id].stamp \in Nat
      BY <2>2 DEF TypeOK, StoreTypeOK, Item
    <3>3. CASE Present(rows[it.id])
      <4>1. owner[it.id] = push[s].owner
        BY <2>1, <3>3 DEF PushesOwn, Oldest
      <4> QED
        BY <3>1, <3>2, <4>1
    <3>4. CASE ~Present(rows[it.id])
      <4>1. rows'[it.id] = it
        BY <1>1, <2>1, <3>2, <3>4 DEF UpsertRow, Accepts, StoreTypeOK
      <4> QED
        BY <3>2, <4>1
    <3> QED
      BY <3>3, <3>4
  <2>5. \A jt \in snap[s] \ push[s].todo : jt.stamp <= rows'[jt.id].stamp
    BY <1>1, <1>8, IInvTypes, StaysBehind DEF SessionInv, PushProgress, PushStore
  <2>6. PushProgress(s)'
    BY <1>3, <1>8, <2>3, <2>4, <2>5 DEF PushProgress
  <2>7. MarkAfterPush(s)'
    BY <1>1, <1>3, <1>8, <2>3 DEF SessionInv, MarkAfterPush, PushStore
  <2> QED
    BY <1>4, <1>5, <1>6, <1>8, <2>6, <2>7 DEF SessionInv
<1>9. CASE PushDone(s) /\ ~PushReject(s)
  <2>1. push[s] \in [state : {"running", "acked"}, owner : User,
                     todo : SUBSET Item]
    BY <1>1, <1>9, RunningPush DEF PushDone
  <2>2. push'[s].state = "acked" /\ push'[s].todo = {} /\ rows' = rows
    BY <1>1, <1>9, <2>1 DEF PushDone, SessionTypeOK, storeVars
  <2>3. PushProgress(s)' /\ MarkAfterPush(s)'
    BY <1>1, <1>3, <1>9, <2>2
       DEF SessionInv, PushProgress, MarkAfterPush, PushDone
  <2> QED
    BY <1>4, <1>5, <1>6, <1>9, <2>3 DEF SessionInv
<1> QED
  BY <1>2, <1>7, <1>8, <1>9 DEF PushStep

(* What is pulled is a version the server has (SyncHandler.Pull), and nothing
   is applied before the push is acknowledged (service.go:213). *)
LEMMA PullInv ==
  ASSUME IInv, NEW s \in Session, PullStep(s)
  PROVE  SessionInv(s)'
<1>1. SessionInv(s) /\ SessionTypeOK /\ StoreTypeOK
  BY IInvTypes DEF IInv
<1>2. /\ snap' = snap /\ chosen' = chosen /\ push' = push
      /\ local' = local /\ dirty' = dirty /\ rows' = rows
  BY DEF PullStep, PullServe, Join, localVars, storeVars, pullVars
<1>3. SnapIsCurrent(s)' /\ PushProgress(s)'
  BY <1>1, <1>2 DEF SessionInv, SnapIsCurrent, PushProgress
<1>4. pc'[s] \in {"exchange", "apply"}
  BY <1>1 DEF PullStep, PullServe, Join, SetPc, SessionTypeOK
<1>5. IdleIsEmpty(s)'
  BY <1>4 DEF IdleIsEmpty
<1>6. MarkAfterPush(s)'
  <2>1. pc'[s] = "apply" =>
          (snap[s] # {} => push[s].state = "acked")
    BY <1>1 DEF PullStep, PullServe, Join, SetPc, SessionTypeOK, SessionInv,
       MarkAfterPush
  <2> QED
    BY <1>2, <1>4, <2>1 DEF MarkAfterPush
<1>7. PulledIsBehind(s)'
  <2>1. CASE Join(s)
    BY <1>1, <1>2, <2>1 DEF Join, SessionInv, PulledIsBehind, pullVars
  <2>2. CASE PullServe(s)
    <3>1. inbox'[s] = ListUpdatedSince(account[Home[s]], since[s])
      BY <1>1, <2>2 DEF PullServe, SessionTypeOK
    <3>2. \A it \in inbox'[s] : Present(it) /\ it.stamp <= rows[it.id].stamp
      <4> SUFFICES ASSUME NEW x \in Id, rows[x].stamp > since[s]
                   PROVE  /\ Present(rows[x])
                          /\ rows[x].stamp <= rows[rows[x].id].stamp
        BY <3>1 DEF ListUpdatedSince
      <4>1. rows[x].id = x /\ rows[x].stamp \in Nat /\ since[s] \in Nat
        BY <1>1, IInvTypes DEF IInv, Keyed, SessionTypeOK
      <4> QED
        BY <4>1 DEF Present
    <3> QED
      BY <1>1, <1>2, <3>2 DEF SessionInv, PulledIsBehind
  <2> QED
    BY <2>1, <2>2 DEF PullStep
<1> QED
  BY <1>3, <1>5, <1>6, <1>7 DEF SessionInv

\* What the write of a pulled item does to its device.
LEMMA ApplyUpsertStep ==
  ASSUME IInv, NEW s \in Session, ApplyUpsert(s)
  PROVE  \E it \in chosen[s] :
           /\ it \in Item /\ Present(it)
           /\ it.stamp <= rows[it.id].stamp
           /\ it.stamp > local[Home[s]][it.id].stamp
           /\ local'[Home[s]][it.id].stamp = it.stamp
           /\ local'[Home[s]][it.id].id = it.id
           /\ \A x \in Id : x # it.id =>
                local'[Home[s]][x] = local[Home[s]][x]
           /\ dirty'[Home[s]] = dirty[Home[s]] \ {it.id}
<1>1. PICK it \in chosen[s] : Upsert(Home[s], it, FALSE)
  BY DEF ApplyUpsert
<1>2. /\ it \in Item /\ Present(it) /\ it.stamp <= rows[it.id].stamp
      /\ it.stamp > local[Home[s]][it.id].stamp
  BY IInvTypes DEF IInv, SessionInv, PulledIsBehind
<1>3. Home[s] \in Device /\ it.id \in Id /\ LocalTypeOK
  BY <1>2, SyncAssumption, IInvTypes DEF Item
<1>4. Stored(it).stamp = it.stamp /\ Stored(it).id = it.id
  BY <1>2 DEF Stored, Item
<1>5. /\ local'[Home[s]][it.id] = Stored(it)
      /\ \A x \in Id : x # it.id => local'[Home[s]][x] = local[Home[s]][x]
      /\ dirty'[Home[s]] = dirty[Home[s]] \ {it.id}
  BY <1>1, <1>3 DEF Upsert, LocalTypeOK
<1> QED
  BY <1>2, <1>4, <1>5

(* ApplyRemote writes only what is later than the local row (local_store.go:303). *)
LEMMA ApplyInv ==
  ASSUME IInv, TypeOK', NEW s \in Session, ApplyStep(s)
  PROVE  SessionInv(s)'
<1>1. SessionInv(s) /\ SessionTypeOK /\ LocalTypeOK
  BY IInvTypes DEF IInv
<1>2. /\ snap' = snap /\ push' = push /\ rows' = rows
      /\ pc[s] = "apply" /\ pc'[s] \in {"apply", "mark", "save"}
  BY <1>1 DEF ApplyStep, ApplyGet, ApplyUpsert, ApplyDone, SetPc, storeVars,
     pullVars, SessionTypeOK
<1>3. IdleIsEmpty(s)' /\ PushProgress(s)' /\ MarkAfterPush(s)'
  BY <1>1, <1>2 DEF SessionInv, IdleIsEmpty, PushProgress, MarkAfterPush
<1>4. CASE ApplyDone(s)
  <2>1. SnapIsCurrent(s)' /\ PulledIsBehind(s)'
    BY <1>1, <1>4 DEF ApplyDone, SessionInv, SnapIsCurrent, PulledIsBehind,
       localVars, storeVars, pullVars
  <2> QED
    BY <1>3, <2>1 DEF SessionInv
<1>5. CASE ApplyGet(s)
  <2>1. PICK it \in Oldest(inbox[s]) :
          /\ inbox' = [inbox EXCEPT ![s] = @ \ {it}]
          /\ chosen' = [chosen EXCEPT ![s] =
                          IF RemoteWins(Home[s], it) THEN {it} ELSE {}]
    BY <1>5 DEF ApplyGet
  <2>2. /\ it \in inbox[s] /\ it.stamp \in Nat /\ it.id \in Id
        /\ Present(it) /\ it.stamp <= rows[it.id].stamp
    BY <1>1, <2>1, IInvTypes DEF Oldest, SessionInv, PulledIsBehind
  <2>3. inbox'[s] = inbox[s] \ {it} /\ local' = local /\ dirty' = dirty
    BY <1>1, <1>5, <2>1 DEF SessionTypeOK, ApplyGet, localVars
  <2>4. chosen'[s] \subseteq {it}
        /\ (chosen'[s] # {} => it.stamp > local[Home[s]][it.id].stamp)
    <3>1. local[Home[s]][it.id].stamp \in Nat
      BY <2>2, SyncAssumption, IInvTypes
    <3>2. RemoteWins(Home[s], it) => it.stamp > local[Home[s]][it.id].stamp
      BY <2>2, <3>1 DEF RemoteWins, Present
    <3> QED
      BY <1>1, <2>1, <3>2 DEF SessionTypeOK
  <2>5. PulledIsBehind(s)'
    BY <1>1, <1>2, <2>2, <2>3, <2>4 DEF SessionInv, PulledIsBehind
  <2>6. SnapIsCurrent(s)'
    BY <1>1, <1>2, <2>3 DEF SessionInv, SnapIsCurrent
  <2> QED
    BY <1>3, <2>5, <2>6 DEF SessionInv
<1>6. CASE ApplyUpsert(s)
  <2>1. PICK it \in chosen[s] :
          /\ it \in Item /\ Present(it)
          /\ local'[Home[s]][it.id].stamp = it.stamp
          /\ \A x \in Id : x # it.id =>
               local'[Home[s]][x] = local[Home[s]][x]
          /\ dirty'[Home[s]] = dirty[Home[s]] \ {it.id}
    BY <1>6, ApplyUpsertStep
  <2>2. chosen'[s] = {} /\ inbox' = inbox
    BY <1>1, <1>6 DEF ApplyUpsert, SessionTypeOK
  <2>3. PulledIsBehind(s)'
    BY <1>1, <1>2, <2>2 DEF SessionInv, PulledIsBehind
  <2>4. SnapIsCurrent(s)'
    <3> SUFFICES ASSUME NEW jt \in snap[s]
                 PROVE  /\ Present(local'[Home[s]][jt.id])
                        /\ jt.id \in dirty'[Home[s]] =>
                             local'[Home[s]][jt.id] = jt
      BY <1>2 DEF SnapIsCurrent
    <3>1. jt.id \in Id
      BY IInvTypes
    <3>2. CASE jt.id = it.id
      BY <2>1, <3>2 DEF Present
    <3>3. CASE jt.id # it.id
      BY <1>1, <2>1, <3>1, <3>3 DEF SessionInv, SnapIsCurrent
    <3> QED
      BY <3>2, <3>3
  <2> QED
    BY <1>3, <2>3, <2>4 DEF SessionInv
<1> QED
  BY <1>4, <1>5, <1>6 DEF ApplyStep

(* Marking clean and saving the time keep the invariant of the session. *)
LEMMA EndInv ==
  ASSUME IInv, NEW s \in Session, EndStep(s)
  PROVE  SessionInv(s)'
<1>1. SessionInv(s) /\ SessionTypeOK /\ LocalTypeOK /\ Home[s] \in Device
  BY IInvTypes, SyncAssumption DEF IInv
<1>2. CASE SaveLastSync(s)
  BY <1>1, <1>2, EndSessionInv DEF SaveLastSync
<1>3. CASE CliMarkClean(s)
  <2>1. /\ pc'[s] = "save" /\ snap' = snap /\ inbox' = inbox
        /\ chosen' = chosen /\ push' = push /\ rows' = rows /\ local' = local
        /\ dirty'[Home[s]] \subseteq dirty[Home[s]]
    BY <1>1, <1>3 DEF CliMarkClean, MarkClean, SetPc, SessionTypeOK,
       LocalTypeOK, storeVars, pullVars
  <2> QED
    BY <1>1, <2>1 DEF SessionInv, IdleIsEmpty, SnapIsCurrent, PushProgress,
       MarkAfterPush, PulledIsBehind
<1>4. CASE TuiMarkClean(s)
  <2>1. /\ pc'[s] = "pull" /\ snap'[s] = {} /\ inbox' = inbox
        /\ chosen' = chosen /\ push' = push /\ rows' = rows /\ local' = local
    BY <1>1, <1>4 DEF TuiMarkClean, MarkClean, SetPc, SessionTypeOK,
       storeVars, pullVars
  <2> QED
    BY <1>1, <2>1 DEF SessionInv, IdleIsEmpty, SnapIsCurrent, PushProgress,
       MarkAfterPush, PulledIsBehind
<1> QED
  BY <1>2, <1>3, <1>4 DEF EndStep

\* All sessions keep their invariants when one of them takes a step.
LEMMA RunInv ==
  ASSUME IInv, Orderly, TypeOK', StampsForward, NEW s \in Session, RunStep(s)
  PROVE  \A t \in Session : SessionInv(t)'
<1>1. CASE Abort(s) \/ CrashInSave(s)
  BY <1>1, EndSessionInv, IInvTypes, RunOthers DEF Abort, CrashInSave, GiveUp
<1>2. CASE SyncStart(s) \/ SessionStep(s)
  BY <1>2, StartInv, PushInv, PullInv, ApplyInv, EndInv, RunOthers
     DEF SessionStep, Orderly
<1> QED
  BY <1>1, <1>2 DEF RunStep

-----------------------------------------------------------------------------
(* The stores: what one step may do to the table and to one data directory. *)

(* Every row has an owner and sits under its own id. *)
LEMMA RowsInv ==
  ASSUME IInv, [Next]_vars
  PROVE  RowsOwned' /\ \A x \in Id : rows'[x].id = x
<1>1. StoreTypeOK /\ RowsOwned /\ \A x \in Id : rows[x].id = x
  BY IInvTypes DEF IInv, Keyed
<1>2. CASE UNCHANGED storeVars
  BY <1>1, <1>2 DEF storeVars, RowsOwned
<1>3. ASSUME NEW u \in User, NEW it \in Item, UpsertRow(u, it)
      PROVE  RowsOwned' /\ \A x \in Id : rows'[x].id = x
  BY <1>1, <1>3 DEF UpsertRow, RowsOwned, StoreTypeOK, Item, storeVars
<1> QED
  BY <1>2, <1>3, OnlyPushWrites DEF IInv

Untouched(d) == local'[d] = local[d] /\ dirty'[d] = dirty[d]

Edited(d) == \E x \in Id :
  /\ local'[d][x].id = x
  /\ local'[d][x].stamp = Clock(d)
  /\ \A y \in Id \ {x} : local'[d][y] = local[d][y]
  /\ dirty'[d] = dirty[d] \cup {x}

Adopted(d) == \E x \in Id :
  /\ local'[d][x].id = x
  /\ local[d][x].stamp < local'[d][x].stamp
  /\ local'[d][x].stamp <= rows[x].stamp
  /\ \A y \in Id \ {x} : local'[d][y] = local[d][y]
  /\ dirty'[d] = dirty[d] \ {x}

Acknowledged(d) == \E X \in SUBSET Id :
  /\ \A x \in X : local[d][x].stamp <= rows[x].stamp
  /\ local'[d] = local[d]
  /\ dirty'[d] = dirty[d] \ X

(* MarkClean acknowledges only rows the server has: the push was acknowledged
   before (service.go:226, ui.go:263). *)
LEMMA MarkStep ==
  ASSUME IInv, NEW s \in Session, CliMarkClean(s) \/ TuiMarkClean(s)
  PROVE  Acknowledged(Home[s])
<1>1. SessionInv(s) /\ LocalTypeOK /\ Home[s] \in Device
  BY IInvTypes, SyncAssumption DEF IInv
<1>2. /\ local' = local
      /\ dirty'[Home[s]] = dirty[Home[s]] \ Ids(snap[s])
  BY <1>1 DEF CliMarkClean, TuiMarkClean, MarkClean, LocalTypeOK
<1>3. \A it \in snap[s] : it.stamp <= rows[it.id].stamp
  BY <1>1 DEF SessionInv, CliMarkClean, TuiMarkClean, MarkAfterPush, PushProgress
<1>4. \A it \in snap[s] : it.id \in Id
  BY IInvTypes
<1> DEFINE X == {x \in Ids(snap[s]) : x \in dirty[Home[s]]}
<1>5. X \in SUBSET Id
  BY <1>4 DEF Ids
<1>6. \A x \in X : local[Home[s]][x].stamp <= rows[x].stamp
  BY <1>1, <1>3 DEF Ids, SessionInv, SnapIsCurrent
<1>7. dirty'[Home[s]] = dirty[Home[s]] \ X
  BY <1>2
<1> QED
  BY <1>2, <1>5, <1>6, <1>7 DEF Acknowledged

(* A step leaves a data directory alone, or edits, adopts or acknowledges in
   it. *)
LEMMA DeviceStep ==
  ASSUME IInv, [Next]_vars, NEW d \in Device
  PROVE  Untouched(d) \/ Edited(d) \/ Adopted(d) \/ Acknowledged(d)
<1>1. LocalTypeOK /\ TypeOK
  BY IInvTypes DEF IInv
<1>2. ASSUME NEW e \in Device, Edit(e)
      PROVE  Untouched(d) \/ Edited(d)
  <2>1. PICK it \in Item : Write(e, it) /\ it.stamp = Clock(e)
    BY <1>1, <1>2, EditIsWrite
  <2>2. it.id \in Id /\ Stored(it).id = it.id /\ Stored(it).stamp = it.stamp
    BY DEF Item, Stored
  <2> QED
    BY <1>1, <2>1, <2>2 DEF Write, Upsert, Untouched, Edited, LocalTypeOK
<1>3. ASSUME NEW s \in Session, RunStep(s)
      PROVE  Untouched(d) \/ Adopted(d) \/ Acknowledged(d)
  <2>1. CASE d # Home[s]
    BY <1>1, <1>3, <2>1, RunKeepsHomes DEF Untouched
  <2>2. CASE d = Home[s] /\ ApplyUpsert(s)
    BY <2>2, ApplyUpsertStep DEF Adopted, Item
  <2>3. CASE d = Home[s] /\ (CliMarkClean(s) \/ TuiMarkClean(s))
    BY <2>3, MarkStep
  <2>4. ASSUME ~ApplyUpsert(s), ~CliMarkClean(s), ~TuiMarkClean(s)
        PROVE  Untouched(d)
    BY <1>3, <2>4 DEF RunStep, SyncStart, CliSync, TuiSync, StartSession,
       SessionStep, PushStep, PullStep, ApplyStep, EndStep, PushSend, PushStore,
       PushDone, PushReject, PullServe, Join, ApplyGet, ApplyDone, SaveLastSync,
       Abort, CrashInSave, localVars, Untouched
  <2> QED
    BY <2>1, <2>2, <2>3, <2>4
<1>4. (Tick \/ (\E e \in Device, u \in User : Login(e, u))
            \/ (\E o \in orphans : OrphanStore(o) \/ OrphanEnd(o))
            \/ UNCHANGED vars) => Untouched(d)
  BY DEF Tick, Login, OrphanStore, OrphanEnd, vars, localVars, Untouched
<1> QED
  BY <1>2, <1>3, <1>4 DEF Next, OtherStep, RunStep

(* No device's clock goes back. *)
LEMMA ClockForward ==
  ASSUME TypeOK, [Next]_vars, NEW d \in Device
  PROVE  Clock(d)' >= Clock(d)
<1>1. now \in Nat
  BY DEF TypeOK
<1>2. now' = now \/ now' = now + 1
  BY DEF Next, OtherStep, Tick, Edit, EditSecret, Add, Update, Delete, Write,
     Login,
     SyncStart, CliSync, TuiSync, StartSession, SessionStep, PushStep, PullStep, ApplyStep,
     EndStep, PushSend, PushStore, PushDone, PushReject, PullServe, Join,
     ApplyGet, ApplyUpsert, ApplyDone, CliMarkClean, TuiMarkClean,
     SaveLastSync, Abort, CrashInSave, OrphanStore, OrphanEnd, worldVars, vars
<1>3. Skew[d] \in Nat
  BY SyncAssumption
<1> QED
  BY <1>1, <1>2, <1>3 DEF Clock

\* The parts of the invariant that are about one directory.
LEMMA DeviceInv ==
  ASSUME IInv, TypeOK', [Next]_vars, NEW d \in Device, NEW x \in Id
  PROVE  /\ local'[d][x].id = x
         /\ x \in dirty'[d] => /\ Present(local'[d][x])
                               /\ local'[d][x].stamp <= Clock(d)'
         /\ x \notin dirty'[d] => local'[d][x].stamp <= rows'[x].stamp
<1>1. /\ local[d][x].id = x
      /\ x \in dirty[d] => Present(local[d][x]) /\ local[d][x].stamp <= Clock(d)
      /\ x \notin dirty[d] => local[d][x].stamp <= rows[x].stamp
  BY DEF IInv, Keyed, DirtyIsPast, CleanIsPublished
<1>2. /\ local[d][x].stamp \in Nat /\ rows[x].stamp \in Nat
      /\ rows'[x].stamp \in Nat /\ rows'[x].stamp >= rows[x].stamp
  BY IInvTypes, RowsStep DEF IInv, StampsForward, TypeOK, StoreTypeOK, Item
<1>3. local'[d][x].stamp \in Nat
  BY DEF TypeOK, LocalTypeOK, Item
<1>4. Clock(d) \in Nat /\ Clock(d) > 0 /\ Clock(d)' \in Nat
      /\ Clock(d)' >= Clock(d)
  <2>1. WorldTypeOK /\ WorldTypeOK' /\ TypeOK
    BY IInvTypes DEF IInv, TypeOK, WorldTypeOK
  <2>2. Skew[d] \in Nat
    BY SyncAssumption
  <2>3. Clock(d)' \in Nat
    BY <2>1, <2>2 DEF Clock, WorldTypeOK
  <2> QED
    BY <2>1, <2>3, ClockType, ClockForward
<1>5. CASE Untouched(d)
  BY <1>1, <1>2, <1>4, <1>5 DEF Untouched
<1>6. CASE Edited(d)
  BY <1>1, <1>2, <1>4, <1>6 DEF Edited, Present
<1>7. CASE Adopted(d)
  BY <1>1, <1>2, <1>3, <1>4, <1>7 DEF Adopted
<1>8. CASE Acknowledged(d)
  BY <1>1, <1>2, <1>4, <1>8 DEF Acknowledged
<1> QED
  BY <1>5, <1>6, <1>7, <1>8, DeviceStep

\* An edit leaves the sessions of other directories, and those of its own that
\* are at work on other secrets, as they are.
LEMMA EditInv ==
  ASSUME IInv, Orderly, TypeOK', StampsForward, NEW d \in Device, Edit(d),
         NEW t \in Session
  PROVE  SessionInv(t)'
<1>1. PICK it \in Item : /\ Write(d, it)
                         /\ Free(d) \/ FreshId(it.id)
  BY EditIsWrite DEF IInv
<1>2. LocalTypeOK /\ SessionTypeOK /\ SessionInv(t) /\ Home[t] \in Device
  BY IInvTypes, SyncAssumption DEF IInv
<1>3. Kept(t) /\ UNCHANGED storeVars
  BY <1>1 DEF Write, Kept, sessionVars, pullVars
<1>4. \A e \in Device : e # d => Untouched(e)
  BY <1>1, <1>2 DEF Write, Upsert, LocalTypeOK, Untouched
<1>5. CASE Home[t] # d
  BY <1>2, <1>3, <1>4, <1>5, KeptSession DEF Untouched
<1>6. CASE Home[t] = d /\ Free(d)
  <2>1. pc[t] = "idle"
    BY <1>6 DEF Free, Quiet, Orderly
  <2> QED
    BY <1>3, <2>1, KeptSession
<1>7. CASE Home[t] = d /\ FreshId(it.id)
  <2>1. \A x \in Id : x # it.id =>
          /\ local'[d][x] = local[d][x]
          /\ x \in dirty'[d] <=> x \in dirty[d]
    BY <1>1, <1>2 DEF Write, Upsert, LocalTypeOK, Item
  <2>2. \A jt \in snap[t] : jt.id \in Id /\ jt.id # it.id
    BY <1>2, <1>7, IInvTypes DEF SessionInv, SnapIsCurrent, FreshId
  <2>3. \A jt \in chosen[t] : jt.id \in Id /\ jt.id # it.id
    <3> SUFFICES ASSUME NEW jt \in chosen[t], jt.id = it.id
                 PROVE  FALSE
      BY IInvTypes
    <3>1. /\ Present(jt) /\ jt.stamp <= rows[jt.id].stamp /\ jt.stamp \in Nat
          /\ ~Present(rows[jt.id]) /\ rows[jt.id].stamp \in Nat
      BY <1>2, <1>7, IInvTypes DEF SessionInv, PulledIsBehind, FreshId
    <3> QED
      BY <3>1 DEF Present
  <2>4. SnapIsCurrent(t)'
    BY <1>2, <1>3, <1>7, <2>1, <2>2 DEF SessionInv, SnapIsCurrent, Kept
  <2>5. PulledIsBehind(t)'
    BY <1>2, <1>3, <1>7, <2>1, <2>3
       DEF SessionInv, PulledIsBehind, Kept, storeVars
  <2>6. IdleIsEmpty(t)' /\ PushProgress(t)' /\ MarkAfterPush(t)'
    BY <1>2, <1>3 DEF SessionInv, IdleIsEmpty, PushProgress, MarkAfterPush,
       Kept, storeVars
  <2> QED
    BY <2>4, <2>5, <2>6 DEF SessionInv
<1> QED
  BY <1>1, <1>5, <1>6, <1>7

\* IInv is inductive.
LEMMA IInvNext ==
  ASSUME IInv, Orderly, [Next]_vars
  PROVE  IInv'
<1>1. TypeOK /\ TypeOK'
  BY NextType DEF IInv
<1>2. StampsForward
  BY <1>1, RowsStep
<1>3. RowsOwned' /\ Keyed'
  BY <1>1, RowsInv, DeviceInv DEF Keyed
<1>4. DirtyIsPast' /\ CleanIsPublished'
  <2>1. \A d \in Device : dirty'[d] \subseteq Id
    BY <1>1 DEF TypeOK, LocalTypeOK
  <2>2. DirtyIsPast'
    BY <1>1, <2>1, DeviceInv DEF DirtyIsPast, Clock
  <2>3. CleanIsPublished'
    BY <1>1, DeviceInv DEF CleanIsPublished
  <2> QED
    BY <2>2, <2>3
<1>5. ASSUME NEW s \in Session, RunStep(s)
      PROVE  SyncsApart' /\ \A t \in Session : SessionInv(t)'
  BY <1>1, <1>2, <1>5, RunInv, RunSyncsApart
<1>6. ASSUME NEW d \in Device, Edit(d)
      PROVE  SyncsApart' /\ \A t \in Session : SessionInv(t)'
  <2>1. pc' = pc
    BY <1>6 DEF Edit, EditSecret, Add, Update, Delete, Write, sessionVars
  <2> QED
    BY <1>1, <1>2, <1>6, <2>1, EditInv DEF IInv, SyncsApart
<1>7. ASSUME UNCHANGED <<sessionVars, localVars>>
      PROVE  SyncsApart' /\ \A t \in Session : SessionInv(t)'
  <2>1. \A t \in Session : Kept(t)
    BY <1>7 DEF Kept, sessionVars, pullVars
  <2>2. local' = local /\ dirty' = dirty /\ pc' = pc
    BY <1>7 DEF localVars, sessionVars
  <2>3. \A t \in Session : SessionInv(t)'
    BY <1>1, <1>2, <2>1, <2>2, KeptSession
  <2> QED
    BY <2>2, <2>3 DEF IInv, SyncsApart
<1>8. (Tick \/ (\E e \in Device, u \in User : Login(e, u))
            \/ (\E o \in orphans : OrphanStore(o) \/ OrphanEnd(o))
            \/ UNCHANGED vars) => UNCHANGED <<sessionVars, localVars>>
  BY DEF Tick, Login, OrphanStore, OrphanEnd, vars
<1>9. SyncsApart' /\ \A t \in Session : SessionInv(t)'
  BY <1>5, <1>6, <1>7, <1>8 DEF Next, OtherStep, RunStep
<1> QED
  BY <1>1, <1>3, <1>4, <1>9 DEF IInv

(* The invariant holds of empty stores and idle sessions. *)
LEMMA InitIInv == Init => IInv
<1> SUFFICES ASSUME Init
             PROVE  IInv
  OBVIOUS
<1>1. TypeOK
  BY InitType
<1>2. Keyed /\ RowsOwned /\ CleanIsPublished /\ DirtyIsPast
  <2>1. \A x \in Id : rows[x].id = x /\ rows[x].stamp = 0
    BY DEF Init, StoreInit, NoItem
  <2>2. \A d \in Device, x \in Id : local[d][x].id = x /\ local[d][x].stamp = 0
    BY DEF Init, LocalInit, NoItem
  <2>3. \A d \in Device : dirty[d] = {}
    BY DEF Init, LocalInit
  <2> QED
    BY <2>1, <2>2, <2>3 DEF Present, Keyed, RowsOwned, CleanIsPublished,
       DirtyIsPast
<1>3. SyncsApart /\ \A s \in Session : SessionInv(s)
  BY DEF Init, SyncsApart, SessionInv, IdleIsEmpty, SnapIsCurrent,
     PushProgress, MarkAfterPush, PulledIsBehind, NoPush
<1> QED
  BY <1>1, <1>2, <1>3 DEF IInv

(* Why no edit is lost, for any number of devices, secrets, edits and failures:
   the invariant that ties together what a sync has read, what the server has
   stored of it and what is still dirty. *)
THEOREM SyncInvariant ==
  ASSUME ~Overlap, OneAccount
  PROVE  Spec => []IInv
<1>1. IInv => Orderly
  BY OneAccountPushesOwn DEF IInv, Orderly
<1>2. IInv /\ [Next]_vars => IInv'
  BY <1>1, IInvNext
<1> QED
  BY <1>2, InitIInv, PTL DEF Spec

(* A copy taken to be clean is on the server, in this version or a later one. *)
THEOREM CleanCopiesArePublished ==
  ASSUME ~Overlap, OneAccount
  PROVE  Spec => []CleanIsPublished
<1>1. IInv => CleanIsPublished
  BY DEF IInv
<1> QED
  BY <1>1, SyncInvariant, PTL

Survives ==
  \A d \in Device : \A x \in dirty[d] :
    \/ x \in dirty'[d] /\ local'[d][x].stamp >= local[d][x].stamp
    \/ rows'[x].stamp >= local[d][x].stamp

(* No step of a sync, an edit or another device makes an edit that is not at
   the server forgotten. *)
LEMMA SurvivesStep ==
  ASSUME IInv, [Next]_vars
  PROVE  [Survives]_vars
<1> SUFFICES ASSUME NEW d \in Device, NEW x \in dirty[d]
             PROVE  \/ /\ x \in dirty'[d]
                       /\ local'[d][x].stamp >= local[d][x].stamp
                    \/ rows'[x].stamp >= local[d][x].stamp
  BY DEF Survives
<1>1. x \in Id
  BY IInvTypes DEF LocalTypeOK
<1>2. /\ local[d][x].stamp \in Nat /\ rows[x].stamp \in Nat
      /\ rows'[x].stamp \in Nat /\ rows'[x].stamp >= rows[x].stamp
  BY <1>1, IInvTypes, RowsStep, NextType
     DEF IInv, StampsForward, TypeOK, StoreTypeOK, Item
<1>3. local[d][x].stamp <= Clock(d) /\ Clock(d) \in Nat
  BY IInvTypes, ClockType DEF IInv, DirtyIsPast
<1>4. CASE Untouched(d)
  BY <1>1, <1>2, <1>4 DEF Untouched
<1>5. CASE Edited(d)
  BY <1>1, <1>2, <1>3, <1>5 DEF Edited
<1>6. CASE Adopted(d)
  BY <1>1, <1>2, <1>6, IInvTypes, NextType
     DEF Adopted, IInv, TypeOK, LocalTypeOK, Item
<1>7. CASE Acknowledged(d)
  BY <1>1, <1>2, <1>7 DEF Acknowledged
<1> QED
  BY <1>4, <1>5, <1>6, <1>7, DeviceStep

(* An edit stays pending until the server has it or a later one. *)
THEOREM PendingEditsSurvive ==
  ASSUME ~Overlap, OneAccount
  PROVE  Spec => PendingEditSurvives
<1>1. IInv /\ [Next]_vars => [Survives]_vars
  BY SurvivesStep
<1>2. [][Survives]_vars => PendingEditSurvives
  BY PTL DEF PendingEditSurvives, Survives
<1> QED
  BY <1>1, <1>2, SyncInvariant, PTL DEF Spec

-----------------------------------------------------------------------------
(* The contract. *)

\* A step changes the table, or one data directory, or neither.
LEMMA OneStoreChanges ==
  ASSUME LocalTypeOK, [Next]_vars
  PROVE  \/ \A e \in Device : Untouched(e)
         \/ /\ UNCHANGED storeVars
            /\ \E d \in Device : \A e \in Device \ {d} : Untouched(e)
<1>1. ASSUME NEW d \in Device, Edit(d)
      PROVE  /\ UNCHANGED storeVars
             /\ \A e \in Device \ {d} : Untouched(e)
  BY <1>1 DEF Edit, EditSecret, Add, Update, Delete, Write, Upsert, Untouched,
     LocalTypeOK
<1>2. ASSUME NEW s \in Session, RunStep(s)
      PROVE  \/ \A e \in Device : Untouched(e)
             \/ /\ UNCHANGED storeVars
                /\ \A e \in Device \ {Home[s]} : Untouched(e)
  <2>1. CASE PushStore(s)
    BY <2>1 DEF PushStore, localVars, Untouched
  <2>2. CASE ~PushStore(s)
    <3>1. UNCHANGED storeVars
      BY <1>2, <2>2 DEF RunStep, SyncStart, CliSync, TuiSync, StartSession,
         SessionStep, PushStep, PullStep, ApplyStep, EndStep, PushSend,
         PushDone, PushReject, PullServe, Join, ApplyGet, ApplyUpsert,
         ApplyDone, CliMarkClean, TuiMarkClean, SaveLastSync, Abort, CrashInSave
    <3>2. \A e \in Device \ {Home[s]} : Untouched(e)
      BY <1>2, RunKeepsHomes DEF Untouched
    <3> QED
      BY <3>1, <3>2
  <2> QED
    BY <2>1, <2>2
<1>3. (Tick \/ (\E e \in Device, u \in User : Login(e, u))
            \/ (\E o \in orphans : OrphanStore(o) \/ OrphanEnd(o))
            \/ UNCHANGED vars) => \A e \in Device : Untouched(e)
  BY DEF Tick, Login, OrphanStore, OrphanEnd, vars, localVars, Untouched
<1>4. \A s \in Session : Home[s] \in Device
  BY SyncAssumption
<1> QED
  BY <1>1, <1>2, <1>3, <1>4 DEF Next, OtherStep, RunStep

\* The versions of the contract, in terms of the stores.
server == [x \in Id |-> rows[x].stamp]
copy == [d \in Device |-> [x \in Id |-> local[d][x].stamp]]

\* A statement of the push loop publishes a version or changes none.
LEMMA PublishStep ==
  ASSUME IInv, [Next]_vars, \A e \in Device : Untouched(e)
  PROVE  \/ \E x \in Id : Contract!Publish(x, server'[x])
         \/ UNCHANGED <<server, copy, dirty>>
<1>1. TypeOK /\ LocalTypeOK /\ LocalTypeOK' /\ StoreTypeOK /\ StoreTypeOK'
  BY NextType, IInvTypes DEF IInv, TypeOK
<1>2. copy' = copy /\ dirty' = dirty
  BY <1>1 DEF Untouched, copy, LocalTypeOK
<1>3. CASE UNCHANGED storeVars
  BY <1>2, <1>3 DEF server, storeVars
<1>4. ASSUME NEW u \in User, NEW it \in Item, UpsertRow(u, it)
      PROVE  \/ \E x \in Id : Contract!Publish(x, server'[x])
             \/ UNCHANGED <<server, copy, dirty>>
  <2>1. it.id \in Id
    BY DEF Item
  <2>2. \A y \in Id : y # it.id => rows'[y] = rows[y]
    BY <1>1, <1>4, <2>1 DEF UpsertRow, StoreTypeOK, storeVars
  <2>3. /\ rows'[it.id].stamp >= rows[it.id].stamp
        /\ rows'[it.id].stamp \in Nat /\ rows[it.id].stamp \in Nat
    BY <1>1, <2>1, RowsStep DEF StampsForward, StoreTypeOK, Item
  <2>4. CASE rows'[it.id].stamp = rows[it.id].stamp
    <3>1. server' = server
      BY <2>2, <2>4 DEF server
    <3> QED
      BY <1>2, <3>1
  <2>5. CASE rows'[it.id].stamp > rows[it.id].stamp
    <3>1. server' = [server EXCEPT ![it.id] = server'[it.id]]
      BY <2>1, <2>2 DEF server
    <3>2. server'[it.id] > server[it.id]
      BY <2>1, <2>5 DEF server
    <3> QED
      BY <1>2, <2>1, <3>1, <3>2 DEF Contract!Publish, server, copy
  <2> QED
    BY <2>3, <2>4, <2>5
<1> QED
  BY <1>1, <1>3, <1>4, OnlyPushWrites

\* A change of a data directory writes, adopts or acknowledges.
LEMMA CopyStep ==
  ASSUME IInv, [Next]_vars, UNCHANGED storeVars, NEW d \in Device,
         \A e \in Device \ {d} : Untouched(e)
  PROVE  Contract!Next \/ UNCHANGED <<server, copy, dirty>>
<1>1. TypeOK /\ LocalTypeOK /\ LocalTypeOK' /\ StoreTypeOK /\ WorldTypeOK
  BY NextType, IInvTypes DEF IInv, TypeOK
<1>2. server' = server
  BY DEF server, storeVars
<1>3. dirty' = [dirty EXCEPT ![d] = dirty'[d]]
  BY <1>1 DEF Untouched, LocalTypeOK
<1>4. CASE Untouched(d)
  <2>1. copy' = copy /\ dirty' = dirty
    BY <1>1, <1>4 DEF Untouched, copy, LocalTypeOK
  <2> QED
    BY <1>2, <2>1
<1>5. ASSUME NEW x \in Id, \A y \in Id \ {x} : local'[d][y] = local[d][y]
      PROVE  copy' = [copy EXCEPT ![d][x] = copy'[d][x]]
  <2>1. copy'[d] = [copy[d] EXCEPT ![x] = copy'[d][x]]
    BY <1>5 DEF copy
  <2>2. \A e \in Device \ {d} : copy'[e] = copy[e]
    BY <1>1 DEF Untouched, copy, LocalTypeOK
  <2>3. copy' = [copy EXCEPT ![d] = copy'[d]]
    BY <2>2 DEF copy
  <2> QED
    BY <2>1, <2>3
<1>6. CASE Edited(d)
  <2>1. PICK x \in Id :
          /\ local'[d][x].stamp = Clock(d)
          /\ \A y \in Id \ {x} : local'[d][y] = local[d][y]
          /\ dirty'[d] = dirty[d] \cup {x}
    BY <1>6 DEF Edited
  <2>2. x \in dirty[d] => copy'[d][x] >= copy[d][x]
    <3>1. Clock(d) \in Nat /\ local[d][x].stamp \in Nat
      BY <1>1, <2>1, ClockType, IInvTypes
    <3>2. x \in dirty[d] => local[d][x].stamp <= Clock(d)
      BY DEF IInv, DirtyIsPast
    <3> QED
      BY <2>1, <3>1, <3>2 DEF copy
  <2>3. Contract!Write(d, x, copy'[d][x])
    BY <1>2, <1>3, <1>5, <2>1, <2>2 DEF Contract!Write, server, copy
  <2> QED
    BY <2>3 DEF Contract!Next, copy
<1>7. CASE Adopted(d)
  <2>1. PICK x \in Id :
          /\ local[d][x].stamp < local'[d][x].stamp
          /\ local'[d][x].stamp <= rows[x].stamp
          /\ \A y \in Id \ {x} : local'[d][y] = local[d][y]
          /\ dirty'[d] = dirty[d] \ {x}
    BY <1>7 DEF Adopted
  <2>2. Contract!Adopt(d, x, copy'[d][x])
    BY <1>2, <1>3, <1>5, <2>1 DEF Contract!Adopt, server, copy
  <2> QED
    BY <2>2 DEF Contract!Next, copy
<1>8. CASE Acknowledged(d)
  <2>1. PICK X \in SUBSET Id :
          /\ \A x \in X : local[d][x].stamp <= rows[x].stamp
          /\ local'[d] = local[d]
          /\ dirty'[d] = dirty[d] \ X
    BY <1>8 DEF Acknowledged
  <2>2. copy' = copy
    BY <1>1, <2>1 DEF Untouched, copy, LocalTypeOK
  <2>3. Contract!Acknowledge(d, X)
    BY <1>2, <1>3, <2>1, <2>2 DEF Contract!Acknowledge, server, copy
  <2> QED
    BY <2>3 DEF Contract!Next
<1> QED
  BY <1>4, <1>6, <1>7, <1>8, DeviceStep

(* Empty stores and idle sessions are where the contract begins, ... *)
LEMMA InitContract == Init => Contract!Init
<1> SUFFICES ASSUME Init
             PROVE  Contract!Init
  OBVIOUS
<1>1. \A x \in Id : rows[x].stamp = 0
  BY DEF Init, StoreInit, NoItem
<1>2. \A d \in Device, x \in Id : local[d][x].stamp = 0
  BY DEF Init, LocalInit, NoItem
<1>3. dirty = [d \in Device |-> {}]
  BY DEF Init, LocalInit
<1> QED
  BY <1>1, <1>2, <1>3 DEF Contract!Init

(* ... and every step of theirs is one of its, or none. *)
LEMMA ContractStep ==
  ASSUME IInv, [Next]_vars
  PROVE  [Contract!Next]_(Contract!cvars)
<1> SUFFICES Contract!Next \/ UNCHANGED <<server, copy, dirty>>
  BY DEF Contract!cvars, server, copy
<1>1. CASE \A e \in Device : Untouched(e)
  BY <1>1, PublishStep DEF Contract!Next, server
<1> QED
  BY <1>1, CopyStep, OneStoreChanges, IInvTypes

(* Sessions, requests, loops and failures implement the contract: every step of
   the system is a write, a publication, an acknowledgement or an adoption the
   contract allows, or changes nothing it speaks of. *)
THEOREM SyncImplementsContract ==
  ASSUME ~Overlap, OneAccount
  PROVE  Spec => ImplementsContract
<1>1. Init => Contract!Init
  BY InitContract
<1>2. IInv /\ [Next]_vars => [Contract!Next]_(Contract!cvars)
  BY ContractStep
<1> QED
  BY <1>1, <1>2, SyncInvariant, PTL DEF Spec, ImplementsContract, Contract!Spec

=============================================================================
