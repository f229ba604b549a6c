---------------------------- MODULE MCThreadAio -----------------------------
(***************************************************************************)
(* For TLC's runs on ThreadAio: the threads of the program, the Contexts   *)
(* and the Operations that are not writes are interchangeable.             *)
(***************************************************************************)
EXTENDS ThreadAio, TLC

Symmetry ==
  Permutations(Client) \cup Permutations(Context) \cup Permutations(Op \ WriteOp)
=============================================================================
