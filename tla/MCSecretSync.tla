---------------------------- MODULE MCSecretSync ----------------------------
(* SecretSync on small instances.  Each cfg gives the sets; the functions that
   place sessions on devices and set their clocks are here. *)
EXTENDS TurnTaking, TLC

CONSTANTS d1, d2, s1, s2

\* One session per device ...
HomeApart == s1 :> d1 @@ s2 :> d2
\* ... or both on the first, as when the TUI's Sync is chosen twice.
HomeShared == [s \in Session |-> d1]

NoSkew == [d \in Device |-> 0]
\* The second device's clock is one second ahead.
SecondAhead == [d \in Device |-> IF d = d2 THEN 1 ELSE 0]

\* Secrets are interchangeable.
Symmetric == Permutations(Id)

=============================================================================
