------------------------- MODULE TurnTakingProofs -------------------------
(* An owner who uses the devices in turn misses nothing: for every number of
   devices, secrets, edits, failed syncs and pushes given up, and clocks that
   are apart by any time. *)
EXTENDS TurnTaking, VersionProofs

\* A step taken in turn is a spaced step.
LEMMA TurnIsSpaced == TurnNext => SpacedNext
BY DEF TurnNext, TurnStart, TurnEdit, SpacedNext, OtherStep

LEMMA TurnIsSpacedSpec == TurnSpec => SpacedSpec
BY TurnIsSpaced, PTL DEF TurnSpec, SpacedSpec

\* Steps of a sync that has been started in turn, or is running.
TurnRun(s) == TurnStart(s) \/ SessionStep(s) \/ Abort(s) \/ CrashInSave(s)

LEMMA TurnRunIsRun == ASSUME NEW s, TurnRun(s) PROVE RunStep(s)
BY DEF TurnRun, TurnStart, RunStep

-----------------------------------------------------------------------------
(* What a step does to the parts of the state that VersionProofs and
   SecretSyncProofs do not speak of. *)

\* A sync leaves what the others have pulled, and the times they started from.
LEMMA RunKeepsPulls ==
  ASSUME SessionTypeOK, NEW s \in Session, RunStep(s), NEW t \in Session, t # s
  PROVE  pulled'[t] = pulled[t] /\ since'[t] = since[t]
<1>1. ASSUME EndSession(s) PROVE pulled'[t] = pulled[t] /\ since'[t] = since[t]
  BY <1>1 DEF EndSession, SessionTypeOK
<1>2. CASE SyncStart(s)
  BY <1>2 DEF SyncStart, CliSync, TuiSync, StartSession, SessionTypeOK
<1>3. CASE PushStep(s) \/ PullStep(s)
  BY <1>1, <1>3 DEF PushStep, PushSend, PushStore, PushDone, PushReject,
     PullStep, PullServe, Join, SessionTypeOK, pullVars
<1>4. CASE ApplyStep(s) \/ EndStep(s)
  BY <1>1, <1>4 DEF ApplyStep, ApplyGet, ApplyUpsert, ApplyDone, EndStep,
     CliMarkClean, TuiMarkClean, SaveLastSync, SessionTypeOK, pullVars
<1>5. CASE Abort(s) \/ CrashInSave(s)
  BY <1>1, <1>5 DEF Abort, CrashInSave, GiveUp
<1> QED
  BY <1>2, <1>3, <1>4, <1>5 DEF RunStep, SessionStep

\* The file last_sync changes at the end of a sync, or is lost.
LEMMA LastSyncStep ==
  ASSUME LocalTypeOK, [Next]_vars, NEW d \in Device
  PROVE  \/ lastSync'[d] = lastSync[d]
         \/ lastSync'[d] = 0
         \/ \E s \in Session : Home[s] = d /\ SaveLastSync(s)
<1>1. \A s \in Session : Home[s] \in Device
  BY SyncAssumption
<1>2. ASSUME NEW e \in Device, Edit(e) PROVE lastSync' = lastSync
  BY <1>2 DEF Edit, EditSecret, Add, Update, Delete, Write
<1>3. ASSUME NEW s \in Session, RunStep(s), ~SaveLastSync(s), ~CrashInSave(s)
      PROVE  lastSync' = lastSync
  BY <1>3 DEF RunStep, SyncStart, CliSync, TuiSync, StartSession, SessionStep,
     PushStep, PullStep, ApplyStep, EndStep, PushSend, PushStore, PushDone,
     PushReject, PullServe, Join, ApplyGet, ApplyUpsert, ApplyDone,
     CliMarkClean, TuiMarkClean, Abort, localVars
<1>4. ASSUME NEW s \in Session, SaveLastSync(s) \/ CrashInSave(s)
      PROVE  \/ lastSync'[d] = lastSync[d]
             \/ lastSync'[d] = 0
             \/ Home[s] = d /\ SaveLastSync(s)
  BY <1>1, <1>4 DEF SaveLastSync, CrashInSave, SaveSyncTime, LocalTypeOK
<1>5. (Tick \/ (\E e \in Device, u \in User : Login(e, u))
            \/ (\E o \in orphans : OrphanStore(o) \/ OrphanEnd(o))
            \/ UNCHANGED vars) => lastSync' = lastSync
  BY DEF Tick, Login, OrphanStore, OrphanEnd, vars, localVars
<1> QED
  BY <1>2, <1>3, <1>4, <1>5 DEF Next, OtherStep, RunStep

\* What is on its way, by where it is.
LEMMA WayParts ==
  /\ \A s \in Session : snap[s] \subseteq OnItsWay /\ push[s].todo \subseteq OnItsWay
  /\ \A o \in orphans : o.todo \subseteq OnItsWay
  /\ \A it \in OnItsWay :
       \/ \E s \in Session : it \in snap[s] \/ it \in push[s].todo
       \/ \E o \in orphans : it \in o.todo
<1> DEFINE ways == {snap[s] : s \in Session} \cup {push[s].todo : s \in Session}
                     \cup {o.todo : o \in orphans}
<1>1. \A X : X \in ways <=> \/ \E s \in Session : X = snap[s] \/ X = push[s].todo
                           \/ \E o \in orphans : X = o.todo
  OBVIOUS
<1>2. OnItsWay = UNION ways
  BY DEF OnItsWay
<1> HIDE DEF ways
<1>3. \A it : it \in OnItsWay <=> \E X \in ways : it \in X
  BY <1>2
<1> QED
  BY <1>1, <1>3

LEMMA WayPartsNext ==
  /\ \A s \in Session : snap'[s] \subseteq OnItsWay' /\ push'[s].todo \subseteq OnItsWay'
  /\ \A o \in orphans' : o.todo \subseteq OnItsWay'
  /\ \A it \in OnItsWay' :
       \/ \E s \in Session : it \in snap'[s] \/ it \in push'[s].todo
       \/ \E o \in orphans' : it \in o.todo
<1> DEFINE ways == {snap'[s] : s \in Session} \cup {push'[s].todo : s \in Session}
                     \cup {o.todo : o \in orphans'}
<1>1. \A X : X \in ways <=> \/ \E s \in Session : X = snap'[s] \/ X = push'[s].todo
                           \/ \E o \in orphans' : X = o.todo
  OBVIOUS
<1>2. OnItsWay' = UNION ways
  BY DEF OnItsWay
<1> HIDE DEF ways
<1>3. \A it : it \in OnItsWay' <=> \E X \in ways : it \in X
  BY <1>2
<1> QED
  BY <1>1, <1>3

\* A row changes to something that was on its way, and nothing else changes
\* that the owner or a pull sees.
LEMMA RowsWritten ==
  ASSUME TypeOK, [Next]_vars, NEW x \in Id, rows'[x] # rows[x]
  PROVE  /\ rows'[x] \in OnItsWay /\ rows'[x] \in Item /\ rows'[x].id = x
         /\ UNCHANGED <<localVars, pullVars>>
<1>1. StoreTypeOK /\ SessionTypeOK /\ OrphansTypeOK
  BY TypeParts
<1>2. ASSUME NEW u, NEW it \in Item, UpsertRow(u, it)
      PROVE  rows'[x] = it /\ rows'[x].id = x
  BY <1>1, <1>2 DEF UpsertRow, StoreTypeOK, Item, storeVars
<1>3. ASSUME NEW s \in Session, PushStore(s)
      PROVE  /\ rows'[x] \in OnItsWay /\ rows'[x] \in Item /\ rows'[x].id = x
             /\ UNCHANGED <<localVars, pullVars>>
  <2>1. PICK it \in push[s].todo : UpsertRow(push[s].owner, it)
    BY <1>3 DEF PushStore, Oldest
  <2>2. it \in Item /\ it \in OnItsWay
    BY <1>1, <1>3, <2>1, RunningPush, WayParts DEF PushStore
  <2>3. UNCHANGED <<localVars, pullVars>>
    BY <1>3 DEF PushStore
  <2> QED
    BY <1>2, <2>1, <2>2, <2>3
<1>4. ASSUME NEW o \in orphans, OrphanStore(o)
      PROVE  /\ rows'[x] \in OnItsWay /\ rows'[x] \in Item /\ rows'[x].id = x
             /\ UNCHANGED <<localVars, pullVars>>
  <2>1. PICK it \in o.todo : UpsertRow(o.owner, it)
    BY <1>4 DEF OrphanStore, Oldest
  <2>2. it \in Item /\ it \in OnItsWay
    BY <1>1, <2>1, WayParts DEF OrphansTypeOK
  <2>3. UNCHANGED <<localVars, pullVars>>
    BY <1>4 DEF OrphanStore, sessionVars
  <2> QED
    BY <1>2, <2>1, <2>2, <2>3
<1>5. ASSUME NEW d \in Device, Edit(d) PROVE FALSE
  BY <1>5 DEF Edit, EditSecret, Add, Update, Delete, Write, storeVars
<1>6. ASSUME NEW s \in Session, RunStep(s), ~PushStore(s) PROVE FALSE
  BY <1>6 DEF RunStep, SyncStart, CliSync, TuiSync, StartSession, SessionStep,
     PushStep, PullStep, ApplyStep, EndStep, PushSend, PushDone, PushReject,
     PullServe, Join, ApplyGet, ApplyUpsert, ApplyDone, CliMarkClean,
     TuiMarkClean, SaveLastSync, Abort, CrashInSave, storeVars
<1>7. (Tick \/ (\E d \in Device, u \in User : Login(d, u))
            \/ (\E o \in orphans : OrphanEnd(o)) \/ UNCHANGED vars) => FALSE
  BY DEF Tick, Login, OrphanEnd, vars, storeVars
<1> QED
  BY <1>3, <1>4, <1>5, <1>6, <1>7 DEF Next, OtherStep, RunStep

-----------------------------------------------------------------------------
(* One device acts, the others rest. *)

\* A step in turn, with what is known of it from the other proofs.
TurnStep ==
  /\ IInv /\ IInv' /\ TurnInv
  /\ [TurnNext]_vars
  /\ StampsKept /\ StampsForward

LEMMA TurnStepTypes ==
  ASSUME TurnStep
  PROVE  /\ [Next]_vars /\ TypeOK /\ TypeOK'
         /\ \A x \in Id : rows[x].stamp \in Nat /\ rows'[x].stamp \in Nat
         /\ \A d \in Device, x \in Id :
              /\ local[d][x].stamp \in Nat /\ local'[d][x].stamp \in Nat
              /\ local'[d][x].stamp >= local[d][x].stamp
         /\ \A d \in Device : lastSync[d] \in Nat /\ lastSync'[d] \in Nat
<1>1. [Next]_vars
  BY TurnIsSpaced, SpacedIsNext DEF TurnStep
<1>2. TypeOK /\ TypeOK'
  BY DEF TurnStep, IInv
<1> QED
  BY <1>1, <1>2 DEF TurnStep, StampsKept, TypeOK, StoreTypeOK, LocalTypeOK, Item

\* A sync runs while the other devices rest.
LEMMA RunAlone ==
  ASSUME IInv, OneAtATime, NEW s \in Session, TurnRun(s)
  PROVE  OthersAtRest(Home[s])
<1>1. Home[s] \in Device
  BY SyncAssumption
<1>2. CASE TurnStart(s)
  BY <1>2 DEF TurnStart
<1>3. CASE ~TurnStart(s)
  <2>1. pc[s] # "idle"
    BY <1>3, Running DEF TurnRun
  <2> QED
    BY <1>1, <2>1 DEF OneAtATime, OthersAtRest, AtRest, Quiet
<1> QED
  BY <1>2, <1>3

\* The device of a step: the others are at rest before and after it, and only an
\* edit in turn adds to what it has to push.
Acts(d) ==
  /\ OthersAtRest(d)
  /\ \A e \in Device \ {d} :
       Untouched(e) /\ lastSync'[e] = lastSync[e] /\ AtRest(e)'
  /\ TurnEdit(d) \/ dirty'[d] \subseteq dirty[d]

LEMMA RunActs ==
  ASSUME IInv, OneAtATime, NEW s \in Session, TurnRun(s)
  PROVE  Acts(Home[s])
<1> DEFINE d == Home[s]
<1>1. /\ d \in Device /\ RunStep(s) /\ OthersAtRest(d)
      /\ LocalTypeOK /\ SessionTypeOK
  BY SyncAssumption, TurnRunIsRun, RunAlone, IInvTypes
<1>2. \A t \in Session : t # s => pc'[t] = pc[t]
  BY <1>1, RunKeepsOthers DEF Kept
<1>3. \A e \in Device \ {d} : Untouched(e)
  BY <1>1, RunKeepsHomes DEF Untouched
<1>4. \A e \in Device \ {d} : AtRest(e)'
  BY <1>1, <1>2, <1>3 DEF OthersAtRest, AtRest, Quiet, Untouched
<1>5. \A e \in Device \ {d} : lastSync'[e] = lastSync[e]
  <2>1. CASE SaveLastSync(s) \/ CrashInSave(s)
    BY <1>1, <2>1 DEF SaveLastSync, CrashInSave, SaveSyncTime, LocalTypeOK
  <2>2. CASE ~SaveLastSync(s) /\ ~CrashInSave(s)
    BY <1>1, <2>2 DEF RunStep, SyncStart, CliSync, TuiSync, StartSession,
       SessionStep, PushStep, PullStep, ApplyStep, EndStep, PushSend,
       PushStore, PushDone, PushReject, PullServe, Join, ApplyGet,
       ApplyUpsert, ApplyDone, CliMarkClean, TuiMarkClean, Abort, localVars
  <2> QED
    BY <2>1, <2>2
<1>6. dirty'[d] \subseteq dirty[d]
  <2>1. CASE ApplyUpsert(s)
    BY <1>1, <2>1, ApplyUpsertStep
  <2>2. CASE ~ApplyUpsert(s)
    BY <1>1, <2>2 DEF RunStep, SyncStart, CliSync, TuiSync, StartSession,
       SessionStep, PushStep, PullStep, ApplyStep, EndStep, PushSend,
       PushStore, PushDone, PushReject, PullServe, Join, ApplyGet,
       ApplyDone, CliMarkClean, TuiMarkClean, MarkClean, SaveLastSync, Abort,
       CrashInSave, localVars, LocalTypeOK
  <2> QED
    BY <2>1, <2>2
<1> QED
  BY <1>1, <1>3, <1>4, <1>5, <1>6 DEF Acts

LEMMA EditActs ==
  ASSUME TypeOK, NEW d \in Device, TurnEdit(d)
  PROVE  Acts(d)
<1>1. LocalTypeOK /\ OthersAtRest(d) /\ Edit(d)
  BY TypeParts DEF TurnEdit, SpacedEdit
<1>2. PICK it \in Item : Write(d, it)
  BY <1>1, EditIsWrite
<1>3. \A e \in Device \ {d} : Untouched(e)
  BY <1>1, <1>2 DEF Write, Upsert, LocalTypeOK, Untouched
<1>4. lastSync' = lastSync /\ pc' = pc
  BY <1>2 DEF Write, sessionVars
<1>5. \A e \in Device \ {d} : AtRest(e)'
  BY <1>1, <1>3, <1>4 DEF OthersAtRest, AtRest, Quiet, Untouched
<1> QED
  BY <1>1, <1>3, <1>4, <1>5 DEF Acts

LEMMA SomeoneActs ==
  ASSUME TurnStep
  PROVE  \/ \E d \in Device : Acts(d)
         \/ UNCHANGED <<localVars, sessionVars>>
<1>1. IInv /\ TypeOK /\ OneAtATime
  BY TurnStepTypes DEF TurnStep, TurnInv
<1>2. \A s \in Session : Home[s] \in Device
  BY SyncAssumption
<1>3. ASSUME NEW s \in Session, TurnRun(s) PROVE \E d \in Device : Acts(d)
  BY <1>1, <1>2, <1>3, RunActs
<1>4. ASSUME NEW d \in Device, TurnEdit(d) PROVE \E e \in Device : Acts(e)
  BY <1>1, <1>4, EditActs
<1>5. (Tick \/ (\E o \in orphans : OrphanStore(o) \/ OrphanEnd(o))
            \/ UNCHANGED vars) => UNCHANGED <<localVars, sessionVars>>
  BY DEF Tick, OrphanStore, OrphanEnd, vars
<1> QED
  BY <1>3, <1>4, <1>5 DEF TurnStep, TurnNext, TurnRun

LEMMA OneAtATimeNext ==
  ASSUME TurnStep
  PROVE  OneAtATime'
<1>1. CASE \E d \in Device : Acts(d)
  BY <1>1 DEF Acts, OneAtATime
<1>2. CASE UNCHANGED <<localVars, sessionVars>>
  BY <1>2 DEF localVars, sessionVars, TurnStep, TurnInv, OneAtATime, AtRest,
              Quiet
<1> QED
  BY <1>1, <1>2, SomeoneActs

LEMMA EditsAreNewsNext ==
  ASSUME TurnStep
  PROVE  EditsAreNews'
<1>1. EditsAreNews /\ LocalTypeOK /\ LocalTypeOK'
  BY TurnStepTypes DEF TurnStep, TurnInv, TypeOK
<1>2. ASSUME NEW a \in Device, Acts(a) PROVE EditsAreNews'
  <2> SUFFICES ASSUME NEW d \in Device, NEW e \in Device, NEW x \in dirty'[d],
                      d # e
               PROVE  lastSync'[e] < local'[d][x].stamp
    BY DEF EditsAreNews
  <2>1. d = a
    BY <1>2 DEF Acts, AtRest
  <2>2. lastSync'[e] = lastSync[e]
    BY <1>2, <2>1 DEF Acts
  <2>3. /\ x \in Id /\ lastSync[e] \in Nat
        /\ local[d][x].stamp \in Nat /\ local'[d][x].stamp \in Nat
        /\ local'[d][x].stamp >= local[d][x].stamp
    BY <1>1, TurnStepTypes DEF LocalTypeOK
  <2>4. CASE x \in dirty[d]
    <3>1. lastSync[e] < local[d][x].stamp
      BY <1>1, <2>4 DEF EditsAreNews
    <3> QED
      BY <2>2, <2>3, <3>1
  <2>5. CASE x \notin dirty[d]
    <3>1. TurnEdit(d)
      BY <1>2, <2>1, <2>5 DEF Acts
    <3>2. PICK it \in Item : Write(d, it) /\ it.stamp = Clock(d)
      BY <3>1, EditIsWrite, TurnStepTypes DEF TurnEdit, SpacedEdit
    <3>3. x = it.id /\ local'[d][x] = Stored(it)
      BY <1>1, <2>5, <3>2 DEF Write, Upsert, LocalTypeOK, Item
    <3>4. local'[d][x].stamp = Clock(d)
      BY <3>2, <3>3 DEF Stored, Item
    <3>5. lastSync[e] < Clock(d)
      BY <3>1 DEF TurnEdit
    <3> QED
      BY <2>2, <3>4, <3>5
  <2> QED
    BY <2>4, <2>5
<1>3. CASE UNCHANGED <<localVars, sessionVars>>
  BY <1>1, <1>3 DEF localVars, EditsAreNews
<1> QED
  BY <1>2, <1>3, SomeoneActs

-----------------------------------------------------------------------------
(* What is on its way to the server. *)

\* Only the start of a sync puts something new on its way: rows that are dirty.
LEMMA WayStep ==
  ASSUME TurnStep, NEW it \in OnItsWay'
  PROVE  \/ it \in OnItsWay
         \/ \E s \in Session : TurnStart(s) /\ it \in ListDirty(Home[s])
<1>1. SessionTypeOK /\ OrphansTypeOK /\ TypeOK
  BY TurnStepTypes, TypeParts
<1>2. ASSUME NEW s \in Session, TurnRun(s), NEW t \in Session,
             it \in snap'[t] \/ it \in push'[t].todo
      PROVE  it \in OnItsWay \/ (TurnStart(s) /\ it \in ListDirty(Home[s]))
  <2>1. RunStep(s)
    BY <1>2, TurnRunIsRun
  <2>2. CASE t # s
    BY <1>1, <1>2, <2>1, <2>2, RunKeepsOthers, WayParts DEF Kept
  <2>3. CASE t = s /\ TurnStart(s)
    <3>1. snap'[s] = ListDirty(Home[s]) /\ push' = push
      BY <1>1, <2>3 DEF TurnStart, SyncStart, CliSync, TuiSync, StartSession,
                        SessionTypeOK
    <3> QED
      BY <1>2, <2>3, <3>1, WayParts
  <2>4. ASSUME EndSession(s) PROVE snap'[s] = {} /\ push'[s].todo = {}
    BY <1>1, <2>4 DEF EndSession, NoPush, SessionTypeOK
  <2>5. CASE t = s /\ ~TurnStart(s)
    <3>1. snap'[s] \subseteq snap[s]
      BY <1>1, <1>2, <2>4, <2>5 DEF TurnRun, SessionStep, PushStep, PullStep,
         ApplyStep, EndStep, PushSend, PushStore, PushDone, PushReject,
         PullServe, Join, ApplyGet, ApplyUpsert, ApplyDone, CliMarkClean,
         TuiMarkClean, SaveLastSync, Abort, CrashInSave, GiveUp, SessionTypeOK
    <3>2. push'[s].todo \subseteq push[s].todo \cup snap[s]
      <4>1. CASE PushSend(s)
        BY <1>1, <4>1 DEF PushSend, SessionTypeOK
      <4>2. CASE PushStore(s) \/ PushDone(s)
        <5>1. push[s].state # "none"
          BY <4>2 DEF PushStore, PushDone
        <5>2. push[s] \in [state : {"running", "acked"}, owner : User,
                           todo : SUBSET Item]
          BY <1>1, <5>1, RunningPush
        <5> QED
          BY <1>1, <4>2, <5>2 DEF PushStore, PushDone, SessionTypeOK
      <4>3. CASE ~PushSend(s) /\ ~PushStore(s) /\ ~PushDone(s)
        BY <1>1, <1>2, <2>4, <2>5, <4>3 DEF TurnRun, SessionStep, PushStep,
           PullStep, ApplyStep, EndStep, PushReject, PullServe, Join, ApplyGet,
           ApplyUpsert, ApplyDone, CliMarkClean, TuiMarkClean, SaveLastSync,
           Abort, CrashInSave, GiveUp
      <4> QED
        BY <4>1, <4>2, <4>3
    <3> QED
      BY <1>2, <2>5, <3>1, <3>2, WayParts
  <2> QED
    BY <2>2, <2>3, <2>5
<1>3. ASSUME NEW s \in Session, TurnRun(s), NEW o \in orphans', it \in o.todo
      PROVE  it \in OnItsWay
  <2>1. CASE GiveUp(s)
    BY <1>3, <2>1, WayParts DEF GiveUp
  <2>2. CASE ~GiveUp(s)
    <3>1. orphans' = orphans
      BY <1>3, <2>2 DEF TurnRun, TurnStart, SyncStart, CliSync, TuiSync,
         StartSession, SessionStep, PushStep, PullStep, ApplyStep, EndStep,
         PushSend, PushStore, PushDone, PushReject, PullServe, Join, ApplyGet,
         ApplyUpsert, ApplyDone, CliMarkClean, TuiMarkClean, SaveLastSync,
         Abort, CrashInSave
    <3> QED
      BY <1>3, <3>1, WayParts
  <2> QED
    BY <2>1, <2>2
<1>4. ASSUME NEW o \in orphans, OrphanStore(o) \/ OrphanEnd(o)
      PROVE  it \in OnItsWay
  <2>1. snap' = snap /\ push' = push
    BY <1>4 DEF OrphanStore, OrphanEnd, sessionVars
  <2>2. ASSUME NEW p \in orphans' PROVE p \in orphans \/ p.todo \subseteq o.todo
    <3>1. o \in [owner : User, todo : SUBSET Item]
      BY <1>1 DEF OrphansTypeOK
    <3>2. CASE OrphanEnd(o)
      BY <2>2, <3>2 DEF OrphanEnd
    <3>3. CASE OrphanStore(o)
      <4>1. PICK jt : orphans' = (orphans \ {o}) \cup {[o EXCEPT !.todo = @ \ {jt}]}
        BY <3>3 DEF OrphanStore
      <4>2. [o EXCEPT !.todo = @ \ {jt}].todo \subseteq o.todo
        BY <3>1
      <4> QED
        BY <2>2, <4>1, <4>2
    <3> QED
      BY <1>4, <3>2, <3>3
  <2> QED
    BY <2>1, <2>2, WayParts, WayPartsNext
<1>5. ASSUME NEW d \in Device, TurnEdit(d)
      PROVE  it \in OnItsWay
  <2>1. snap' = snap /\ push' = push /\ orphans' = orphans
    BY <1>5 DEF TurnEdit, SpacedEdit, Edit, EditSecret, Add, Update, Delete,
       Write,
                sessionVars
  <2> QED
    BY <2>1 DEF OnItsWay
<1>6. ASSUME Tick \/ UNCHANGED vars
      PROVE  it \in OnItsWay
  BY <1>6 DEF Tick, vars, sessionVars, OnItsWay
<1>7. ASSUME NEW s \in Session, TurnRun(s)
      PROVE  it \in OnItsWay \/ (TurnStart(s) /\ it \in ListDirty(Home[s]))
  BY <1>2, <1>3, <1>7, WayPartsNext
<1> QED
  BY <1>4, <1>5, <1>6, <1>7 DEF TurnStep, TurnNext, TurnRun

\* An edit that the server has not got yet stays an edit.
LEMMA EditStays ==
  ASSUME TurnStep, NEW d \in Device, NEW x \in dirty[d], NEW n \in Nat,
         local[d][x].stamp >= n, n > rows'[x].stamp
  PROVE  x \in dirty'[d] /\ local'[d][x].stamp >= n
<1>1. x \in Id /\ IInv /\ [Next]_vars
  BY TurnStepTypes DEF TurnStep, TypeOK, LocalTypeOK
<1>2. /\ rows[x].stamp \in Nat /\ rows'[x].stamp \in Nat
      /\ rows'[x].stamp >= rows[x].stamp
      /\ local[d][x].stamp \in Nat /\ local'[d][x].stamp \in Nat
      /\ local'[d][x].stamp >= local[d][x].stamp
  BY <1>1, TurnStepTypes DEF TurnStep, StampsForward
<1>3. Untouched(d) \/ Edited(d) \/ Adopted(d) \/ Acknowledged(d)
  BY <1>1, DeviceStep
<1>4. x \in dirty'[d]
  <2>1. CASE Untouched(d) \/ Edited(d)
    BY <2>1 DEF Untouched, Edited
  <2>2. CASE Adopted(d)
    BY <1>1, <1>2, <2>2 DEF Adopted
  <2>3. CASE Acknowledged(d)
    BY <1>1, <1>2, <2>3 DEF Acknowledged
  <2> QED
    BY <1>3, <2>1, <2>2, <2>3
<1> QED
  BY <1>2, <1>4

LEMMA WayIsSafeNext ==
  ASSUME TurnStep
  PROVE  WayIsSafe'
<1> SUFFICES ASSUME NEW it \in OnItsWay', it.stamp > rows'[it.id].stamp
             PROVE  /\ \E d \in Device :
                         it.id \in dirty'[d] /\ local'[d][it.id].stamp >= it.stamp
                    /\ \A e \in Device :
                         \/ it.stamp > lastSync'[e]
                         \/ local'[e][it.id].stamp >= it.stamp
  BY DEF WayIsSafe
<1>1. /\ IInv /\ WayIsSafe /\ EditsAreNews /\ OneAtATime /\ [Next]_vars
      /\ LocalTypeOK /\ LocalTypeOK' /\ SessionTypeOK'
      /\ OrphansTypeOK' /\ SessionTypeOK
  BY TurnStepTypes DEF TurnStep, TurnInv, TypeOK, SessionTypeOK, OrphansTypeOK
<1>2. it \in Item /\ it.id \in Id /\ it.stamp \in Nat
  <2>1. ASSUME NEW s \in Session, it \in snap'[s] \/ it \in push'[s].todo
        PROVE  it \in Item
    BY <1>1, <2>1 DEF SessionTypeOK, Push, NoPush
  <2>2. ASSUME NEW o \in orphans', it \in o.todo PROVE it \in Item
    BY <1>1, <2>2 DEF OrphansTypeOK
  <2>3. it \in Item
    BY <2>1, <2>2, WayPartsNext
  <2> QED
    BY <2>3 DEF Item
<1>3. it.stamp > rows[it.id].stamp
  BY <1>2, TurnStepTypes DEF TurnStep, StampsForward
<1>4. CASE it \in OnItsWay
  <2>1. PICK d \in Device :
          it.id \in dirty[d] /\ local[d][it.id].stamp >= it.stamp
    BY <1>1, <1>3, <1>4 DEF WayIsSafe
  <2>2. it.id \in dirty'[d] /\ local'[d][it.id].stamp >= it.stamp
    BY <1>2, <2>1, EditStays
  <2>3. ASSUME NEW e \in Device
        PROVE  \/ it.stamp > lastSync'[e]
               \/ local'[e][it.id].stamp >= it.stamp
    <3>1. \/ it.stamp > lastSync[e]
          \/ local[e][it.id].stamp >= it.stamp
      BY <1>1, <1>3, <1>4 DEF WayIsSafe
    <3>2. /\ local[e][it.id].stamp \in Nat /\ local'[e][it.id].stamp \in Nat
          /\ local'[e][it.id].stamp >= local[e][it.id].stamp
          /\ rows'[it.id].stamp \in Nat
      BY <1>2, TurnStepTypes
    <3>3. CASE lastSync'[e] = lastSync[e]
      BY <1>2, <3>1, <3>2, <3>3
    <3>4. CASE lastSync'[e] = 0
      BY <1>2, <3>2, <3>4
    <3>5. ASSUME NEW s \in Session, Home[s] = e, SaveLastSync(s)
          PROVE  local'[e][it.id].stamp >= it.stamp
      <4>1. TurnRun(s)
        BY <3>5 DEF TurnRun, SessionStep, EndStep
      <4>2. OthersAtRest(e)
        BY <1>1, <3>5, <4>1, RunAlone
      <4>3. d = e
        BY <2>1, <4>2 DEF OthersAtRest, AtRest
      <4> QED
        BY <2>2, <4>3
    <3> QED
      BY <1>1, <3>3, <3>4, <3>5, LastSyncStep
  <2> QED
    BY <2>1, <2>2, <2>3
<1>5. ASSUME NEW s \in Session, TurnStart(s), it \in ListDirty(Home[s])
      PROVE  /\ \E d \in Device :
                  it.id \in dirty'[d] /\ local'[d][it.id].stamp >= it.stamp
             /\ \A e \in Device :
                  \/ it.stamp > lastSync'[e]
                  \/ local'[e][it.id].stamp >= it.stamp
  <2> DEFINE d == Home[s]
  <2>1. d \in Device /\ UNCHANGED localVars
    BY <1>5, SyncAssumption
       DEF TurnStart, SyncStart, CliSync, TuiSync, StartSession
  <2>2. PICK x \in dirty[d] : it = local[d][x]
    BY <1>5 DEF ListDirty
  <2>3. it.id = x
    BY <1>1, <2>1, <2>2 DEF IInv, Keyed, LocalTypeOK
  <2>4. it.id \in dirty'[d] /\ local'[d][it.id].stamp >= it.stamp
    BY <1>2, <2>1, <2>2, <2>3 DEF localVars
  <2>5. \A e \in Device : e # d => lastSync[e] < it.stamp
    BY <1>1, <2>1, <2>2, <2>3 DEF EditsAreNews
  <2> QED
    BY <1>1, <1>2, <2>1, <2>4, <2>5 DEF localVars, LocalTypeOK
<1> QED
  BY <1>4, <1>5, WayStep

-----------------------------------------------------------------------------
(* What a sync pulls. *)

\* A sync that has pulled is running, and the others rest.
LEMMA PulledAlone ==
  ASSUME IInv, TurnInv, NEW s \in Session, pulled[s]
  PROVE  pc[s] # "idle" /\ OthersAtRest(Home[s])
<1>1. Home[s] \in Device /\ SessionTypeOK /\ OneAtATime /\ PullPhase(s)
  BY SyncAssumption, IInvTypes DEF TurnInv
<1>2. pc[s] # "idle"
  BY <1>1 DEF PullPhase, SessionTypeOK
<1> QED
  BY <1>1, <1>2 DEF OneAtATime, OthersAtRest, AtRest, Quiet

\* What arrives at the server while a sync is between its pull and its end is
\* not news to the device.
LEMMA NoNewsWhilePulled ==
  ASSUME TurnStep, NEW s \in Session, pulled[s], NEW x \in Id,
         rows'[x] # rows[x]
  PROVE  rows'[x].stamp <= local'[Home[s]][x].stamp
<1> DEFINE it == rows'[x]
<1>1. it \in OnItsWay /\ it.id = x
  BY RowsWritten, TurnStepTypes
<1>2. CASE it.stamp > rows[x].stamp
  <2>1. PICK d \in Device : x \in dirty[d] /\ local[d][x].stamp >= it.stamp
    BY <1>1, <1>2 DEF TurnStep, TurnInv, WayIsSafe
  <2>2. d = Home[s]
    BY <2>1, PulledAlone DEF TurnStep, OthersAtRest, AtRest
  <2>3. /\ local[d][x].stamp \in Nat /\ local'[d][x].stamp \in Nat
        /\ local'[d][x].stamp >= local[d][x].stamp /\ it.stamp \in Nat
    BY TurnStepTypes
  <2>4. it.stamp <= local'[d][x].stamp
    BY <2>1, <2>3
  <2> QED
    BY <2>2, <2>4
<1>3. CASE ~(it.stamp > rows[x].stamp)
  <2>1. RowsForward
    BY RowsStep, TurnStepTypes
  <2>2. ~Present(rows[x])
    BY <1>3, <2>1 DEF RowsForward
  <2>3. it.stamp = 0
    BY <1>3, <2>2, TurnStepTypes DEF Present
  <2>4. Home[s] \in Device
    BY SyncAssumption
  <2>5. local'[Home[s]][x].stamp \in Nat
    BY <2>4, TurnStepTypes
  <2> QED
    BY <2>3, <2>5
<1> QED
  BY <1>2, <1>3

\* An ended sync has pulled nothing.
LEMMA EndedPhase ==
  ASSUME SessionTypeOK, NEW s \in Session, EndSession(s)
  PROVE  PullPhase(s)' /\ ~pulled'[s]
<1>1. pc'[s] = "idle" /\ chosen'[s] = {} /\ pulled'[s] = FALSE
  BY DEF EndSession, SetPc, SessionTypeOK
<1> QED
  BY <1>1 DEF PullPhase

\* The steps of a sync keep its phase.
LEMMA OwnPhase ==
  ASSUME TurnStep, NEW s \in Session, TurnRun(s)
  PROVE  PullPhase(s)'
<1>1. SessionTypeOK /\ LocalTypeOK /\ PullPhase(s) /\ SessionInv(s)
      /\ Home[s] \in Device /\ TypeOK
  BY SyncAssumption, TurnStepTypes, TypeParts DEF TurnStep, TurnInv, IInv
<1>2. CASE EndSession(s)
  BY <1>1, <1>2, EndedPhase
<1>3. CASE TurnStart(s)
  BY <1>1, <1>3 DEF TurnStart, SyncStart, CliSync, TuiSync, StartSession, SetPc,
     localVars, SessionTypeOK, PullPhase, SessionInv, IdleIsEmpty
<1>4. CASE PushSend(s) \/ PushStore(s) \/ PushDone(s)
  BY <1>1, <1>4 DEF PushSend, PushStore, PushDone, PullPhase, localVars,
     pullVars
<1>5. CASE PullServe(s)
  BY <1>1, <1>5 DEF PullServe, SetPc, PullPhase, SessionTypeOK, localVars
<1>6. CASE Join(s) \/ ApplyDone(s)
  BY <1>1, <1>6 DEF Join, ApplyDone, SetPc, PullPhase, SessionTypeOK,
     localVars, pullVars
<1>7. CASE ApplyGet(s)
  <2>1. PICK it \in Item : chosen'[s] = IF RemoteWins(Home[s], it) THEN {it} ELSE {}
    BY <1>1, <1>7 DEF ApplyGet, Oldest, SessionTypeOK
  <2>2. /\ pc' = pc /\ pulled' = pulled /\ since' = since /\ pc[s] = "apply"
        /\ lastSync' = lastSync
    BY <1>7 DEF ApplyGet, localVars
  <2>3. \A i, j \in chosen'[s] : i = j
    BY <2>1
  <2> QED
    BY <1>1, <2>2, <2>3 DEF PullPhase
<1>8. CASE ApplyUpsert(s)
  BY <1>1, <1>8 DEF ApplyUpsert, PullPhase, SessionTypeOK
<1>9. CASE CliMarkClean(s) \/ TuiMarkClean(s)
  BY <1>1, <1>9 DEF CliMarkClean, TuiMarkClean, SetPc, PullPhase,
     SessionTypeOK, pullVars
<1> QED
  BY <1>2, <1>3, <1>4, <1>5, <1>6, <1>7, <1>8, <1>9
     DEF TurnRun, SessionStep, PushStep, PullStep, ApplyStep, EndStep,
         PushReject, SaveLastSync, Abort, CrashInSave, GiveUp

LEMMA PullPhaseNext ==
  ASSUME TurnStep, NEW t \in Session
  PROVE  PullPhase(t)'
<1>1. IInv /\ TypeOK /\ PullPhase(t) /\ SessionTypeOK /\ SyncsApart
  BY TurnStepTypes, TypeParts DEF TurnStep, TurnInv, IInv
<1>2. \A s \in Session : Home[s] \in Device
  BY SyncAssumption
<1>3. ASSUME NEW s \in Session, TurnRun(s), t # s PROVE PullPhase(t)'
  <2>1. Kept(t) /\ pulled'[t] = pulled[t] /\ since'[t] = since[t]
    BY <1>1, <1>3, TurnRunIsRun, RunKeepsOthers, RunKeepsPulls
  <2>2. pc[t] # "idle" => lastSync'[Home[t]] = lastSync[Home[t]]
    <3> SUFFICES ASSUME pc[t] # "idle"
                 PROVE  lastSync'[Home[t]] = lastSync[Home[t]]
      OBVIOUS
    <3>1. Acts(Home[s])
      BY <1>1, <1>3, RunActs DEF TurnStep, TurnInv
    <3>2. ~AtRest(Home[t])
      BY DEF AtRest, Quiet
    <3>3. Home[t] = Home[s]
      BY <1>2, <3>1, <3>2 DEF Acts, OthersAtRest
    <3>4. pc[s] = "idle"
      BY <1>1, <1>3, <3>3 DEF SyncsApart
    <3>5. TurnStart(s)
      BY <1>1, <1>3, <3>4, Running DEF TurnRun
    <3> QED
      BY <3>5 DEF TurnStart, SyncStart, CliSync, TuiSync, StartSession, localVars
  <2> QED
    BY <1>1, <2>1, <2>2 DEF PullPhase, Kept
<1>4. ASSUME NEW d \in Device, TurnEdit(d) PROVE PullPhase(t)'
  <2>1. UNCHANGED <<sessionVars, lastSync>>
    BY <1>4 DEF TurnEdit, SpacedEdit, Edit, EditSecret, Add, Update, Delete, Write
  <2> QED
    BY <1>1, <2>1 DEF PullPhase, sessionVars, pullVars
<1>5. ASSUME Tick \/ (\E o \in orphans : OrphanStore(o) \/ OrphanEnd(o))
             \/ UNCHANGED vars
      PROVE  PullPhase(t)'
  <2>1. UNCHANGED <<sessionVars, localVars>>
    BY <1>5 DEF Tick, OrphanStore, OrphanEnd, vars
  <2> QED
    BY <1>1, <2>1 DEF PullPhase, sessionVars, pullVars, localVars
<1> QED
  BY <1>3, <1>4, <1>5, OwnPhase DEF TurnStep, TurnNext, TurnRun

\* An item that a sync has pulled stays with it until its device has a version
\* at least as recent.
LEMMA PulledStays ==
  ASSUME TurnStep, NEW s \in Session, pulled[s], pulled'[s],
         NEW it \in inbox[s] \cup chosen[s]
  PROVE  \/ it \in inbox'[s] \cup chosen'[s]
         \/ local'[Home[s]][it.id].stamp >= it.stamp
<1>1. /\ IInv /\ SessionTypeOK /\ LocalTypeOK /\ Home[s] \in Device
      /\ PullPhase(s)
  BY SyncAssumption, TurnStepTypes, TypeParts DEF TurnStep, TurnInv
<1>2. it \in Item /\ it.id \in Id /\ it.stamp \in Nat
  BY <1>1, IInvTypes
<1>3. ASSUME NEW r \in Session, TurnRun(r), r # s
      PROVE  inbox'[s] = inbox[s] /\ chosen'[s] = chosen[s]
  BY <1>1, <1>3, TurnRunIsRun, RunKeepsOthers DEF Kept
<1>4. CASE ApplyGet(s)
  <2>1. PICK jt \in inbox[s] :
          /\ inbox'[s] = inbox[s] \ {jt}
          /\ chosen'[s] = IF RemoteWins(Home[s], jt) THEN {jt} ELSE {}
    BY <1>1, <1>4 DEF ApplyGet, Oldest, SessionTypeOK
  <2>2. chosen[s] = {} /\ UNCHANGED localVars
    BY <1>4 DEF ApplyGet
  <2>3. CASE it = jt /\ ~RemoteWins(Home[s], jt)
    BY <1>1, <1>2, <2>2, <2>3, IInvTypes DEF RemoteWins, localVars
  <2> QED
    BY <2>1, <2>2, <2>3
<1>5. CASE ApplyUpsert(s)
  <2>1. PICK jt \in chosen[s] : /\ local'[Home[s]][jt.id].stamp = jt.stamp
                                /\ inbox' = inbox
    BY <1>1, <1>5, ApplyUpsertStep DEF ApplyUpsert
  <2>2. CASE it \in chosen[s]
    <3>1. it = jt
      BY <1>1, <2>2 DEF PullPhase
    <3> QED
      BY <1>2, <2>1, <3>1
  <2> QED
    BY <2>1, <2>2
<1>6. ASSUME TurnStart(s) \/ EndSession(s) PROVE FALSE
  <2>1. CASE EndSession(s)
    BY <1>1, <2>1, EndedPhase
  <2>2. CASE TurnStart(s)
    BY <1>1, <2>2 DEF TurnStart, SyncStart, CliSync, TuiSync, StartSession,
       PullPhase
  <2> QED
    BY <1>6, <2>1, <2>2
<1>7. ASSUME PullServe(s) PROVE FALSE
  BY <1>1, <1>7 DEF PullServe, PullPhase
<1>8. ASSUME TurnRun(s), ~ApplyGet(s), ~ApplyUpsert(s)
      PROVE  inbox' = inbox /\ chosen' = chosen
  BY <1>6, <1>7, <1>8 DEF TurnRun, SessionStep, PushStep, PullStep, ApplyStep,
     EndStep, PushSend, PushStore, PushDone, PushReject, Join, ApplyDone,
     CliMarkClean, TuiMarkClean, SaveLastSync, Abort, CrashInSave, GiveUp,
     pullVars
<1>9. ASSUME NEW d \in Device, TurnEdit(d)
      PROVE  inbox' = inbox /\ chosen' = chosen
  BY <1>9 DEF TurnEdit, SpacedEdit, Edit, EditSecret, Add, Update, Delete,
     Write,
     sessionVars, pullVars
<1>10. ASSUME Tick \/ (\E o \in orphans : OrphanStore(o) \/ OrphanEnd(o))
              \/ UNCHANGED vars
       PROVE  inbox' = inbox /\ chosen' = chosen
  BY <1>10 DEF Tick, OrphanStore, OrphanEnd, vars, sessionVars, pullVars
<1> QED
  BY <1>3, <1>4, <1>5, <1>8, <1>9, <1>10 DEF TurnStep, TurnNext, TurnRun

\* A pull brings all the device has not got: it asks from the time of the last
\* sync on, and nothing is missed until then.
LEMMA PullServeIsWhole ==
  ASSUME TurnStep, OneAccount, NEW s \in Session, PullServe(s)
  PROVE  PullIsWhole(s)'
<1>1. /\ SessionTypeOK /\ StoreTypeOK /\ WorldTypeOK /\ LocalTypeOK
      /\ Home[s] \in Device /\ IInv
      /\ PullPhase(s) /\ NothingIsMissed
  BY SyncAssumption, TurnStepTypes, TypeParts DEF TurnStep, TurnInv
<1>2. /\ inbox'[s] = ListUpdatedSince(account[Home[s]], since[s])
      /\ UNCHANGED <<rows, owner, local>>
      /\ since[s] = lastSync[Home[s]]
  BY <1>1 DEF PullServe, SessionTypeOK, PullPhase, storeVars, localVars
<1> SUFFICES ASSUME NEW x \in Id, rows[x].stamp > local[Home[s]][x].stamp
             PROVE  rows[x] \in inbox'[s] /\ rows[x].id = x
                    /\ rows[x].stamp >= rows[x].stamp
  BY <1>2 DEF PullIsWhole
<1>3. rows[x].stamp > lastSync[Home[s]]
  BY <1>1 DEF NothingIsMissed
<1>4. rows[x].stamp \in Nat /\ local[Home[s]][x].stamp \in Nat
  BY <1>1, TurnStepTypes
<1>5. Present(rows[x])
  BY <1>4 DEF Present
<1>6. owner[x] = account[Home[s]]
  BY <1>1, <1>5 DEF IInv, RowsOwned, OneAccount, WorldTypeOK
<1>7. rows[x] \in inbox'[s]
  BY <1>2, <1>3, <1>6 DEF ListUpdatedSince
<1> QED
  BY <1>1, <1>4, <1>7 DEF IInv, Keyed

LEMMA PullIsWholeNext ==
  ASSUME TurnStep, OneAccount, NEW s \in Session
  PROVE  PullIsWhole(s)'
<1>1. /\ SessionTypeOK /\ Home[s] \in Device /\ IInv /\ TurnInv
      /\ PullIsWhole(s)
  BY SyncAssumption, TurnStepTypes, TypeParts DEF TurnStep, TurnInv
<1>2. CASE PullServe(s)
  BY <1>2, PullServeIsWhole
<1>3. CASE ~PullServe(s) /\ pulled'[s]
  <2>1. pulled[s]
    <3>1. ASSUME NEW r \in Session, TurnRun(r), r # s
          PROVE  pulled'[s] = pulled[s]
      BY <1>1, <3>1, TurnRunIsRun, RunKeepsPulls
    <3>2. ASSUME EndSession(s) PROVE FALSE
      BY <1>1, <1>3, <3>2, EndedPhase
    <3>3. ASSUME TurnRun(s) PROVE pulled' = pulled
      BY <1>3, <3>2, <3>3 DEF TurnRun, TurnStart, SyncStart, CliSync, TuiSync,
         StartSession, SessionStep, PushStep, PullStep, ApplyStep, EndStep,
         PushSend, PushStore, PushDone, PushReject, Join, ApplyGet,
         ApplyUpsert, ApplyDone, CliMarkClean, TuiMarkClean, SaveLastSync,
         Abort, CrashInSave, GiveUp, pullVars
    <3>4. ASSUME NEW d \in Device, TurnEdit(d) PROVE pulled' = pulled
      BY <3>4 DEF TurnEdit, SpacedEdit, Edit, EditSecret, Add, Update, Delete,
         Write,
         sessionVars, pullVars
    <3>5. ASSUME Tick \/ (\E o \in orphans : OrphanStore(o) \/ OrphanEnd(o))
                 \/ UNCHANGED vars
          PROVE  pulled' = pulled
      BY <3>5 DEF Tick, OrphanStore, OrphanEnd, vars, sessionVars, pullVars
    <3> QED
      BY <1>3, <3>1, <3>3, <3>4, <3>5 DEF TurnStep, TurnNext, TurnRun
  <2> SUFFICES ASSUME NEW x \in Id,
                      rows'[x].stamp > local'[Home[s]][x].stamp
               PROVE  \E it \in inbox'[s] \cup chosen'[s] :
                        it.id = x /\ it.stamp >= rows'[x].stamp
    BY DEF PullIsWhole
  <2>2. /\ rows[x].stamp \in Nat /\ rows'[x].stamp \in Nat
        /\ local[Home[s]][x].stamp \in Nat /\ local'[Home[s]][x].stamp \in Nat
        /\ local'[Home[s]][x].stamp >= local[Home[s]][x].stamp
    BY <1>1, TurnStepTypes
  <2>3. rows'[x] = rows[x]
    <3>1. rows'[x] # rows[x] => rows'[x].stamp <= local'[Home[s]][x].stamp
      BY <2>1, NoNewsWhilePulled
    <3> QED
      BY <2>2, <3>1
  <2>4. PICK it \in inbox[s] \cup chosen[s] :
          it.id = x /\ it.stamp >= rows[x].stamp
    BY <1>1, <2>1, <2>2, <2>3 DEF PullIsWhole
  <2>5. it.stamp \in Nat
    BY <1>1, IInvTypes
  <2>6. \/ it \in inbox'[s] \cup chosen'[s]
        \/ local'[Home[s]][x].stamp >= it.stamp
    BY <1>3, <2>1, <2>4, PulledStays
  <2> QED
    BY <2>2, <2>3, <2>4, <2>5, <2>6
<1>4. CASE ~pulled'[s]
  BY <1>4 DEF PullIsWhole
<1> QED
  BY <1>2, <1>3, <1>4

\* A sync about to save its time has nothing left to apply: its device has all
\* the server has.
LEMMA SavedIsWhole ==
  ASSUME IInv, TurnInv, NEW s \in Session, pc[s] = "save", NEW x \in Id
  PROVE  rows[x].stamp <= local[Home[s]][x].stamp
<1>1. Home[s] \in Device /\ PullPhase(s) /\ PullIsWhole(s)
  BY SyncAssumption DEF TurnInv
<1>2. pulled[s] /\ inbox[s] = {} /\ chosen[s] = {}
  BY <1>1 DEF PullPhase
<1>3. ~(rows[x].stamp > local[Home[s]][x].stamp)
  BY <1>1, <1>2 DEF PullIsWhole
<1> QED
  BY <1>1, <1>3, IInvTypes

LEMMA NothingIsMissedNext ==
  ASSUME TurnStep
  PROVE  NothingIsMissed'
<1> SUFFICES ASSUME NEW d \in Device, NEW x \in Id,
                    rows'[x].stamp > local'[d][x].stamp
             PROVE  rows'[x].stamp > lastSync'[d]
  BY DEF NothingIsMissed
<1>1. /\ rows[x].stamp \in Nat /\ rows'[x].stamp \in Nat
      /\ local[d][x].stamp \in Nat /\ local'[d][x].stamp \in Nat
      /\ local'[d][x].stamp >= local[d][x].stamp
      /\ lastSync[d] \in Nat /\ lastSync'[d] \in Nat
      /\ IInv /\ TurnInv /\ LocalTypeOK /\ [Next]_vars
  BY TurnStepTypes, TypeParts DEF TurnStep
<1>2. ASSUME NEW s \in Session, Home[s] = d, SaveLastSync(s) PROVE FALSE
  <2>1. pc[s] = "save" /\ UNCHANGED <<rows, local>>
    BY <1>2 DEF SaveLastSync, storeVars
  <2>2. rows[x].stamp <= local[d][x].stamp
    BY <1>1, <1>2, <2>1, SavedIsWhole
  <2> QED
    BY <1>1, <2>1, <2>2
<1>3. CASE lastSync'[d] = 0
  BY <1>1, <1>3
<1>4. CASE lastSync'[d] = lastSync[d] /\ rows'[x].stamp = rows[x].stamp
  <2>1. rows[x].stamp > lastSync[d]
    BY <1>1, <1>4 DEF TurnInv, NothingIsMissed
  <2> QED
    BY <1>4, <2>1
<1>5. CASE lastSync'[d] = lastSync[d] /\ rows'[x].stamp # rows[x].stamp
  <2>1. rows'[x].stamp > rows[x].stamp
    BY <1>1, <1>5 DEF TurnStep, StampsForward
  <2>2. rows'[x] \in OnItsWay /\ rows'[x].id = x
    BY <1>1, <1>5, RowsWritten, TurnStepTypes
  <2>3. \/ rows'[x].stamp > lastSync[d]
        \/ local[d][x].stamp >= rows'[x].stamp
    BY <1>1, <2>1, <2>2 DEF TurnInv, WayIsSafe
  <2> QED
    BY <1>1, <1>5, <2>3
<1> QED
  BY <1>1, <1>2, <1>3, <1>4, <1>5, LastSyncStep

-----------------------------------------------------------------------------
(* The theorems. *)

LEMMA TurnInvNext ==
  ASSUME ~Overlap, OneAccount, IInv, TurnInv, [TurnNext]_vars
  PROVE  TurnInv'
<1>1. [SpacedNext]_vars /\ [Next]_vars
  BY TurnIsSpaced, SpacedIsNext
<1>2. IInv'
  BY <1>1, IInvNext, OneAccountPushesOwn DEF IInv, Orderly
<1>3. StampsKept /\ StampsForward
  BY <1>1, LocalForward, RowsStep DEF IInv
<1>4. TurnStep
  BY <1>2, <1>3 DEF TurnStep
<1>5. \A s \in Session : (PullPhase(s) /\ PullIsWhole(s))'
  BY <1>4, PullPhaseNext, PullIsWholeNext
<1> QED
  BY <1>4, <1>5, OneAtATimeNext, EditsAreNewsNext, WayIsSafeNext,
     NothingIsMissedNext DEF TurnInv

LEMMA InitTurnInv == Init => TurnInv
<1> SUFFICES ASSUME Init PROVE TurnInv
  OBVIOUS
<1>1. /\ \A x \in Id : rows[x].stamp = 0
      /\ \A d \in Device, x \in Id : local[d][x].stamp = 0
      /\ \A d \in Device : dirty[d] = {} /\ lastSync[d] = 0
  BY DEF Init, StoreInit, LocalInit, NoItem
<1>2. /\ \A s \in Session : /\ pc[s] = "idle" /\ snap[s] = {} /\ pulled[s] = FALSE
                           /\ push[s].todo = {} /\ chosen[s] = {}
      /\ orphans = {}
  BY DEF Init, NoPush
<1>3. OneAtATime /\ EditsAreNews /\ NothingIsMissed
  BY <1>1, <1>2, SyncAssumption
     DEF OneAtATime, AtRest, Quiet, EditsAreNews, NothingIsMissed
<1>4. WayIsSafe
  <2>1. \A it : it \notin OnItsWay
    BY <1>2, WayParts
  <2> QED
    BY <2>1 DEF WayIsSafe
<1>5. \A s \in Session : PullPhase(s) /\ PullIsWhole(s)
  BY <1>2 DEF PullPhase, PullIsWhole
<1> QED
  BY <1>3, <1>4, <1>5 DEF TurnInv

(* An owner who uses the devices in turn keeps them in order: at every point of
   every sync, failed ones included, what is on its way is still held by a
   device, and what a device has not got is ahead of its last sync time
   (service.go:188-236, sync_store.go). *)
THEOREM TurnsKeepOrder ==
  ASSUME ~Overlap, OneAccount
  PROVE  TurnSpec => [](IInv /\ TurnInv)
<1>1. TurnSpec => []IInv
  BY SyncInvariant, SpacedIsSpec, TurnIsSpacedSpec, PTL
<1>2. IInv /\ TurnInv /\ [TurnNext]_vars => TurnInv'
  BY TurnInvNext
<1> QED
  BY <1>1, <1>2, InitTurnInv, PTL DEF TurnSpec

(* An owner who uses the devices in turn misses nothing: whatever a device has
   not got is later than its last sync time, though that is the time its last
   sync ended (service.go:231, postgres_secret_store.go:129). *)
THEOREM TurnsMissNothing ==
  ASSUME ~Overlap, OneAccount
  PROVE  TurnSpec => []NothingIsMissed
<1>1. TurnInv => NothingIsMissed
  BY DEF TurnInv
<1> QED
  BY <1>1, TurnsKeepOrder, PTL

(* ... and every sync that comes to its end leaves its device with the very rows
   of the server (service.go:188-236, ui.go:238-288). *)
THEOREM SyncsBringAll ==
  ASSUME ~Overlap, OneAccount, Device # {}
  PROVE  TurnSpec => []SyncBringsAll
<1>1. IInv /\ TurnInv /\ CleanCopyIsTheServers => SyncBringsAll
  <2> SUFFICES ASSUME IInv, TurnInv, CleanCopyIsTheServers,
                      NEW s \in Session, pc[s] = "save",
                      NEW x \in Id \ dirty[Home[s]]
               PROVE  local[Home[s]][x] = rows[x]
    BY DEF SyncBringsAll
  <2>1. Home[s] \in Device
    BY SyncAssumption
  <2>2. /\ rows[x].stamp <= local[Home[s]][x].stamp
        /\ local[Home[s]][x].stamp <= rows[x].stamp
    BY <2>1, SavedIsWhole DEF IInv, CleanIsPublished
  <2>3. local[Home[s]][x].stamp = rows[x].stamp
    BY <2>1, <2>2, IInvTypes
  <2> QED
    BY <2>1, <2>3 DEF CleanCopyIsTheServers
<1> QED
  BY <1>1, TurnsKeepOrder, CleanCopiesAreTheServers, TurnIsSpacedSpec, PTL

=============================================================================
