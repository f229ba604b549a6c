---------------------------- MODULE MCLinuxUring ----------------------------
(***************************************************************************)
(* For TLC's run on LinuxUring without the GIL: Contexts are               *)
(* interchangeable, and so are the threads that wait and those that do     *)
(* not, the Operations that read and those that do not.  The runs with     *)
(* liveness properties use LinuxUring itself: symmetry is not sound there. *)
(***************************************************************************)
EXTENDS LinuxUring, TLC

Symmetry ==
  Permutations(Context) \cup Permutations(Waiter) \cup Permutations(Client \ Waiter)
  \cup Permutations(ReadOp) \cup Permutations(Op \ ReadOp)
=============================================================================
