------------------------------ MODULE MCVault ------------------------------
(* Vault on three directories: one used by two processes in turn, one by two at
   once, and one whose files cannot always be read. *)
EXTENDS Vault, TLC

CONSTANTS d1, d2, d3, p1, p2, p3, p4, p5, w1, w2

HomeOfAll == p1 :> d1 @@ p2 :> d1 @@ p3 :> d2 @@ p4 :> d2 @@ p5 :> d3
\* Or one process on each of two directories.
HomeOfTwo == p1 :> d1 @@ p3 :> d2

\* Passwords are interchangeable, and so are the processes of one directory.
Symmetric ==
  {f @@ g @@ h : f \in Permutations({p1, p2}), g \in Permutations({p3, p4}),
                 h \in Permutations({w1, w2})}

=============================================================================
