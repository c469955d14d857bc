--------------------------- MODULE MCSecretServer ---------------------------
(* SecretServer with two accounts; accounts and secrets are interchangeable. *)
EXTENDS SecretServer, TLC

Symmetric == {p @@ q : p \in Permutations(Id), q \in Permutations(User)}

=============================================================================
