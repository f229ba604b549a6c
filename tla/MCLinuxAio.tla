----------------------------- MODULE MCLinuxAio -----------------------------
(***************************************************************************)
(* For TLC's runs on LinuxAio: Contexts, Operations and threads are        *)
(* interchangeable.                                                        *)
(***************************************************************************)
EXTENDS LinuxAio, TLC

Symmetry == Permutations(Context) \cup Permutations(Op) \cup Permutations(Client)
=============================================================================
