---------------------------- MODULE AccountBook ----------------------------
(* What registration and login promise: an email is claimed once, whoever else
   asks for it and whatever fails, keeps its identity for ever, and no session
   has an identity but of an email that is claimed. *)
CONSTANTS
  UserId, Email

VARIABLES
  book,      \* claims: records [id, email]
  sessions   \* identities that tokens carry

Claim(id, e) ==
  /\ \A b \in book : b.id # id /\ b.email # e
  /\ book' = book \cup {[id |-> id, email |-> e]}
  /\ UNCHANGED sessions

\* Others may end in the same step.
Enter(b) ==
  /\ b \in book
  /\ sessions' \in SUBSET (sessions \cup {b})
  /\ UNCHANGED book

Leave ==
  /\ sessions' \in SUBSET sessions
  /\ UNCHANGED book

Init == book = {} /\ sessions = {}

Next ==
  \/ \E id \in UserId, e \in Email : Claim(id, e)
  \/ \E b \in book : Enter(b)
  \/ Leave

Spec == Init /\ [][Next]_<<book, sessions>>

=============================================================================
