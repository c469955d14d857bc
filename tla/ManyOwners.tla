----------------------------- MODULE ManyOwners -----------------------------
(* SecretSync with many owners on one server, each with devices of their own.
   A device stays with its account, and its owner edits no secret of somebody
   else: ids are 128 random bits, and those of others appear on no device.
   The properties of SecretSync that hold for a single account hold here for
   every owner at once. *)
EXTENDS SecretSync

CONSTANT OwnerOf   \* OwnerOf[x]: the account whose secret x is, or will be

ASSUME OwnersAssumption == OwnerOf \in [Id -> User]

OwnEdit(d) == \E x \in Id : OwnerOf[x] = account[d] /\ EditSecret(d, x)

\* All that is neither an edit nor a login.
KeepingStep ==
  \/ Tick
  \/ \E s \in Session :
       SyncStart(s) \/ SessionStep(s) \/ Abort(s) \/ CrashInSave(s)
  \/ \E o \in orphans : OrphanStore(o) \/ OrphanEnd(o)

OwnersNext == KeepingStep \/ \E d \in Device : OwnEdit(d)

OwnersSpec == Init /\ [][OwnersNext]_vars

\* ... and with edits that are spaced, as in SpacedSpec.
SpacedOwnersNext == KeepingStep \/ \E d \in Device : Past /\ OwnEdit(d)

SpacedOwnersSpec == Init /\ [][SpacedOwnersNext]_vars

-----------------------------------------------------------------------------
(* A device holds secrets of its own account only, tombstones included, whoever
   else pushes, fails or is pulled for at the same time: a client puts away all
   it is sent, and the owner_id in the pull's WHERE is what keeps the others'
   secrets off it (postgres_secret_store.go:129, local_store.go:291-312). *)
DevicesHoldOwn ==
  \A d \in Device, x \in Id :
    Present(local[d][x]) => OwnerOf[x] = account[d]

(* The inductive invariant behind it, on top of IInv. *)

RowsAreOwn == \A x \in Id : Present(rows[x]) => owner[x] = OwnerOf[x]

\* What a sync has read or been sent is its device's.
SyncsHoldOwn ==
  \A s \in Session : \A it \in snap[s] \cup inbox[s] \cup chosen[s] :
    OwnerOf[it.id] = account[Home[s]]

\* A push carries secrets of the account it is made with.
PushesAreOwn ==
  /\ \A s \in Session : \A it \in push[s].todo : OwnerOf[it.id] = push[s].owner
  /\ \A o \in orphans : \A it \in o.todo : OwnerOf[it.id] = o.owner

OwnersInv ==
  /\ DevicesHoldOwn
  /\ RowsAreOwn
  /\ SyncsHoldOwn
  /\ PushesAreOwn

=============================================================================
