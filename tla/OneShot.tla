------------------------------ MODULE OneShot -------------------------------
(***************************************************************************)
(* What every backend of caio promises of its Operations, whatever the     *)
(* Contexts, threads and callbacks do: an Operation is claimed by one      *)
(* submit(), for one Context; the claim is either taken back, and then the *)
(* Operation is as new, or it ends with one completion and one delivery.   *)
(* Nothing happens to the Operation after that.                            *)
(***************************************************************************)
CONSTANTS Op, Context, NoContext

VARIABLES
  state,      (* "new", "claimed", "completed" or "delivered"              *)
  owner       (* the Context that has claimed it and is to complete it     *)

vars == <<state, owner>>

Init ==
  /\ state = [o \in Op |-> "new"]
  /\ owner = [o \in Op |-> NoContext]

(* One Operation goes from one state to another.                           *)
Becomes(o, from, to, c) ==
  /\ state[o] = from
  /\ state' = [state EXCEPT ![o] = to]
  /\ owner' = [owner EXCEPT ![o] = c]

(* in_progress is exchanged: 0 was found.                                  *)
Claim(o, c) == Becomes(o, "new", "claimed", c)

(* The kernel, the pool or the ring refuses it.                            *)
GiveBack(o) == Becomes(o, "claimed", "new", NoContext)

(* done is published and, after that, the callback is called: it finds an  *)
(* Operation that is complete.                                             *)
Complete(o) == Becomes(o, "claimed", "completed", NoContext)
Deliver(o) == Becomes(o, "completed", "delivered", NoContext)

(* Several Operations of a batch may be settled at once.                   *)
CompleteAll(ops) ==
  /\ \A o \in ops : state[o] = "claimed"
  /\ state' = [o \in Op |-> IF o \in ops THEN "completed" ELSE state[o]]
  /\ owner' = [o \in Op |-> IF o \in ops THEN NoContext ELSE owner[o]]

Next ==
  \/ \E o \in Op :
       \/ \E c \in Context : Claim(o, c)
       \/ GiveBack(o) \/ Complete(o) \/ Deliver(o)
  \/ \E ops \in SUBSET Op : CompleteAll(ops)

Spec == Init /\ [][Next]_vars
=============================================================================
