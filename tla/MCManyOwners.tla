---------------------------- MODULE MCManyOwners ----------------------------
(* ManyOwners on two devices, of one owner or of two, as Init has it. *)
EXTENDS ManyOwners, TLC

CONSTANTS d1, d2, s1, s2, u1, u2, x1, x2, x3

HomeApart == s1 :> d1 @@ s2 :> d2

\* The second device's clock is one second ahead.
SecondAhead == [d \in Device |-> IF d = d2 THEN 1 ELSE 0]

\* A batch of two for one owner, and something of somebody else.
TwoAndOne == [x \in Id |-> IF x = x3 THEN u2 ELSE u1]

\* An owner's secrets are interchangeable.
Symmetric == Permutations({x1, x2})

=============================================================================
