---------------------------- MODULE AccountShelf ----------------------------
(* What the server of secrets is to one account: a shelf of its secrets and
   tombstones, as a pull of everything shows it, and the requests it has sent.
   There is no other account here.  A server of many accounts implements it for
   each of them: what others do to the table never shows. *)

EXTENDS Integers

VARIABLES
  shelf,   \* the account's secrets and tombstones
  asked    \* its requests that are in progress

shelfVars == <<shelf, asked>>

Init == shelf = {} /\ asked = {}

\* One request more is in progress, stamped.
Ask ==
  /\ \E r \in asked' : asked' = asked \cup {r} /\ r.item.stamp > 0
  /\ UNCHANGED shelf

\* The version takes the place of the one the shelf has of that secret.
Put(it) == shelf' = {o \in shelf : o.id # it.id} \cup {it}

\* The live version of a secret.
Found(o, x) == o.id = x /\ ~o.deleted

Perform(r) ==
  /\ asked' = asked \ {r}
  /\ \/ /\ r.op = "create"
        /\ \A o \in shelf : o.id # r.item.id
        /\ Put(r.item)
     \/ /\ r.op = "update"
        /\ \E o \in shelf :
             /\ Found(o, r.item.id)
             /\ Put([o EXCEPT !.type = r.item.type, !.payload = r.item.payload,
                              !.stamp = r.item.stamp])
     \/ /\ r.op = "delete"
        /\ \E o \in shelf :
             /\ Found(o, r.item.id)
             /\ Put([o EXCEPT !.deleted = TRUE, !.stamp = r.item.stamp])
     \/ /\ r.op = "upsert"
        /\ \A o \in shelf : o.id = r.item.id => o.stamp < r.item.stamp
        /\ Put(r.item)

\* The request ends without an effect: it found nothing, came too late, named a
\* secret that is not the account's, or was given up.
Drop(r) == asked' = asked \ {r} /\ UNCHANGED shelf

Next == Ask \/ \E r \in asked : Perform(r) \/ Drop(r)

=============================================================================
