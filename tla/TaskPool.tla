------------------------------ MODULE TaskPool ------------------------------
(***************************************************************************)
(* What caio's thread pool promises to its one client, AIOContext in       *)
(* thread_aio.c, with the mutex, the condition variable and the ring       *)
(* buffer of threadpool.c forgotten: a bounded FIFO of accepted tasks, at  *)
(* most Capacity of them waiting, each one handed to exactly one of at     *)
(* most Width threads, and a shutdown that drains the queue (graceful) or  *)
(* forgets it (immediate) before the pool's memory goes away.              *)
(***************************************************************************)
EXTENDS Naturals, Sequences, FiniteSets

CONSTANTS
  Task,     (* the submissions made to the pool                            *)
  Capacity, (* how many accepted tasks may wait                            *)
  Width     (* how many tasks may run at once                              *)

VARIABLES
  pending,  (* the accepted tasks that no thread has taken, oldest first   *)
  active,   (* the tasks that are running                                  *)
  finished, (* the tasks that have returned                                *)
  mode      (* "open", "graceful", "immediate" or "gone"                   *)

vars == <<pending, active, finished, mode>>

Mode == {"open", "graceful", "immediate", "gone"}

Waiting == {pending[i] : i \in DOMAIN pending}

Init ==
  /\ pending = <<>>
  /\ active = {}
  /\ finished = {}
  /\ mode = "open"

(* A task is accepted once, while the pool is open and has room.           *)
Accept(t) ==
  /\ mode = "open"
  /\ Len(pending) < Capacity
  /\ t \notin Waiting \cup active \cup finished
  /\ pending' = Append(pending, t)
  /\ UNCHANGED <<active, finished, mode>>

(* The oldest waiting task starts, also while the pool drains.             *)
Start ==
  /\ mode \in {"open", "graceful"}
  /\ pending # <<>>
  /\ Cardinality(active) < Width
  /\ active' = active \cup {Head(pending)}
  /\ pending' = Tail(pending)
  /\ UNCHANGED <<finished, mode>>

Finish(t) ==
  /\ t \in active
  /\ active' = active \ {t}
  /\ finished' = finished \cup {t}
  /\ UNCHANGED <<pending, mode>>

Close(m) ==
  /\ mode = "open"
  /\ m \in {"graceful", "immediate"}
  /\ mode' = m
  /\ UNCHANGED <<pending, active, finished>>

(* The memory goes away only when no task runs, and after a graceful       *)
(* shutdown only when none is waiting either.                              *)
Vanish ==
  /\ mode \in {"graceful", "immediate"}
  /\ active = {}
  /\ mode = "graceful" => pending = <<>>
  /\ mode' = "gone"
  /\ UNCHANGED <<pending, active, finished>>

Next ==
  \/ \E t \in Task : Accept(t) \/ Finish(t)
  \/ Start
  \/ \E m \in {"graceful", "immediate"} : Close(m)
  \/ Vanish

Spec == Init /\ [][Next]_vars
=============================================================================
