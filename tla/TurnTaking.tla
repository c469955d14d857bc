----------------------------- MODULE TurnTaking -----------------------------
(* SecretSync as used by an owner who takes up one device at a time and leaves
   it synchronised.  The program keeps the time a sync ended (service.go:231),
   not the time it pulled at, and a pull asks for what is later: used freely,
   the devices may drift apart for ever, as the run late_push shows.  This
   module says how much care of the owner it takes that they do not. *)
EXTENDS SecretSync

\* Device d has nothing to push, and no sync of it is running.  A push of it
\* that was given up may still be running at the server.
AtRest(d) == dirty[d] = {} /\ Quiet(d)

OthersAtRest(d) == \A e \in Device \ {d} : AtRest(e)

\* The owner turns to a device when the others are at rest, and edits when its
\* clock has passed the times their last syncs ended at.
TurnEdit(d) ==
  /\ OthersAtRest(d)
  /\ \A e \in Device \ {d} : lastSync[e] < Clock(d)
  /\ SpacedEdit(d)

TurnStart(s) == OthersAtRest(Home[s]) /\ SyncStart(s)

TurnNext ==
  \/ Tick
  \/ \E s \in Session :
       TurnStart(s) \/ SessionStep(s) \/ Abort(s) \/ CrashInSave(s)
  \/ \E o \in orphans : OrphanStore(o) \/ OrphanEnd(o)
  \/ \E d \in Device : TurnEdit(d)

TurnSpec == Init /\ [][TurnNext]_vars

(* A sync that has begun goes on, and the owner turns to every device again and
   again: while others have their turns a device may not start. *)
TurnFairness ==
  \A s \in Session : WF_vars(SessionStep(s)) /\ SF_vars(TurnStart(s))

TurnFairSpec == TurnSpec /\ TurnFairness

-----------------------------------------------------------------------------
(* What the server has and a device has not is later than the device's last
   sync time, so that its next pull brings it; failed and repeated syncs, lost
   last_sync files and late pushes do not change that (service.go:193, 231;
   postgres_secret_store.go:129). *)
NothingIsMissed ==
  \A d \in Device, x \in Id :
    rows[x].stamp > local[d][x].stamp => rows[x].stamp > lastSync[d]

(* A sync that is about to save its time leaves the device with the very rows of
   the server, except for what was added meanwhile: whatever devices edited,
   deleted and pushed before, and however often it failed (service.go:188-236,
   ui.go:238-288). *)
SyncBringsAll ==
  \A s \in Session : pc[s] = "save" =>
    \A x \in Id \ dirty[Home[s]] : local[Home[s]][x] = rows[x]

-----------------------------------------------------------------------------
(* The inductive invariant behind NothingIsMissed, on top of IInv. *)

OneAtATime == \A d, e \in Device : d = e \/ AtRest(d) \/ AtRest(e)

\* Edits waiting to be pushed are news to the other devices' next pulls, ...
EditsAreNews ==
  \A d, e \in Device : \A x \in dirty[d] :
    d # e => lastSync[e] < local[d][x].stamp

\* What is on its way to the server, in a sync or in an abandoned push.
OnItsWay ==
  UNION ({snap[s] : s \in Session} \cup {push[s].todo : s \in Session}
           \cup {o.todo : o \in orphans})

\* ... and so is what is on its way, unless it comes too late to be stored.  No
\* push brings anything that a device does not still hold as an edit.
WayIsSafe ==
  \A it \in OnItsWay : it.stamp > rows[it.id].stamp =>
    /\ \E d \in Device :
         it.id \in dirty[d] /\ local[d][it.id].stamp >= it.stamp
    /\ \A e \in Device :
         it.stamp > lastSync[e] \/ local[e][it.id].stamp >= it.stamp

\* When a sync saves its time, it has brought everything the server has.
PullIsWhole(s) ==
  pulled[s] =>
    \A x \in Id : rows[x].stamp > local[Home[s]][x].stamp =>
      \E it \in inbox[s] \cup chosen[s] :
        it.id = x /\ it.stamp >= rows[x].stamp

\* What a sync has done at each of its points.
PullPhase(s) ==
  /\ pc[s] \in {"idle", "push", "pull"} => ~pulled[s]
  /\ pc[s] \in {"apply", "mark", "save"} => pulled[s]
  /\ pc[s] \in {"mark", "save"} => inbox[s] = {} /\ chosen[s] = {}
  /\ pc[s] # "idle" => since[s] = lastSync[Home[s]]
  /\ \A i, j \in chosen[s] : i = j

TurnInv ==
  /\ OneAtATime
  /\ EditsAreNews
  /\ WayIsSafe
  /\ \A s \in Session : PullPhase(s) /\ PullIsWhole(s)
  /\ NothingIsMissed

=============================================================================
