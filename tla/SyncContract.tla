---------------------------- MODULE SyncContract ----------------------------
(* What synchronisation promises the owner, with no session, request or failure
   in it: each device has a copy of each secret, some copies carry writes the
   server may not have, and the server has a version of each secret.  Versions
   are the stamps the program orders writes by.

   A pending write stays pending, and can only be replaced by a later write on
   the same device, until the server has a version at least as recent; a clean
   copy is replaced by a later version of the server only; the server goes
   forward only. *)
EXTENDS Integers

CONSTANTS Device, Id

VARIABLES
  server,    \* server[x]: the server's version of secret x; 0 for none
  copy,      \* copy[d][x]: device d's version
  pending    \* pending[d]: secrets with a write the server may not have

cvars == <<server, copy, pending>>

Init ==
  /\ server = [x \in Id |-> 0]
  /\ copy = [d \in Device |-> [x \in Id |-> 0]]
  /\ pending = [d \in Device |-> {}]

Write(d, x, t) ==
  /\ x \in pending[d] => t >= copy[d][x]
  /\ copy' = [copy EXCEPT ![d][x] = t]
  /\ pending' = [pending EXCEPT ![d] = @ \cup {x}]
  /\ UNCHANGED server

Publish(x, t) ==
  /\ t > server[x]
  /\ server' = [server EXCEPT ![x] = t]
  /\ UNCHANGED <<copy, pending>>

Acknowledge(d, X) ==
  /\ \A x \in X : copy[d][x] <= server[x]
  /\ pending' = [pending EXCEPT ![d] = @ \ X]
  /\ UNCHANGED <<server, copy>>

Adopt(d, x, t) ==
  /\ copy[d][x] < t
  /\ t <= server[x]
  /\ copy' = [copy EXCEPT ![d][x] = t]
  /\ pending' = [pending EXCEPT ![d] = @ \ {x}]
  /\ UNCHANGED server

\* Any version may be written, published or adopted: a step is one of these
\* with the version it leads to.
Next ==
  \/ \E x \in Id : Publish(x, server'[x])
  \/ \E d \in Device :
       \/ \E x \in Id : Write(d, x, copy'[d][x]) \/ Adopt(d, x, copy'[d][x])
       \/ \E X \in SUBSET Id : Acknowledge(d, X)

Spec == Init /\ [][Next]_cvars

=============================================================================
