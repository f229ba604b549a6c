----------------------------- MODULE ThreadPool -----------------------------
(***************************************************************************)
(* The pthread pool of caio/src/threadpool/threadpool.c: a ring buffer of  *)
(* tasks, one mutex, one condition variable, ThreadCount worker threads,   *)
(* and the threads of the program that create, feed and destroy the pool.  *)
(*                                                                         *)
(* Everything between a pthread_mutex_lock and the matching unlock (or     *)
(* pthread_cond_wait, which unlocks) is one step, because every field of   *)
(* the pool that two threads share is accessed under the mutex only.  The  *)
(* variable lock says who owns the mutex between two steps: nobody, except *)
(* after the one path of the code that returns without unlocking.          *)
(***************************************************************************)
EXTENDS Integers, FiniteSets

CONSTANTS
  ThreadCount,  (* the pool's thread_count                                 *)
  QueueSize,    (* the pool's queue_size                                   *)
  Task,         (* the submissions: (function, argument) pairs             *)
  Caller,       (* the program's own threads, none of them a worker        *)
  NoTask,
  NoThread,
  DestroyOnce   (* TRUE: the clients call threadpool_destroy at most once  *)
                (* per pool, which AIOContext_close_pool sees to           *)

Worker == 0 .. ThreadCount - 1
Thread == Worker \cup Caller
Slot == 0 .. QueueSize - 1

(* threadpool_create refuses a size that is not positive.                  *)
ASSUME SizeAssumption ==
  /\ ThreadCount \in Nat \ {0}
  /\ QueueSize \in Nat \ {0}
ASSUME NameAssumption ==
  /\ NoTask \notin Task
  /\ NoThread \notin Thread
  /\ Worker \cap Caller = {}
  /\ DestroyOnce \in BOOLEAN

VARIABLES
  lock,         (* who owns pool->lock                                     *)
  phase,        (* "creating", "ready" once the pointer is returned,       *)
                (* "failed" once a pthread_create has failed               *)
  thread_count, (* the threads started so far                              *)
  started,      (* the threads started and not exited                      *)
  queue, head, tail, count,
  shutdown,     (* "no", "immediate" or "graceful"                         *)
  pc,           (* per worker: "unborn", "lock" (wants the mutex, in the   *)
                (* loop or woken up), "wait" (in pthread_cond_wait),       *)
                (* "run" (in the task's function), "exited"                *)
  task,         (* per worker: the task whose function it runs             *)
  destroyer,    (* the thread that is joining in threadpool_destroy        *)
  joining,      (* its loop index                                          *)
  joinFailed,   (* its err is threadpool_thread_failure                    *)
  freed,        (* threadpool_free has released the pool                   *)
  result,       (* history: what the last threadpool_add(t) returned       *)
  finished      (* history: the tasks whose function has returned          *)

ring == <<queue, head, tail, count>>
creation == <<phase, thread_count>>
destruction == <<destroyer, joining, joinFailed, freed>>
vars == <<lock, creation, started, ring, shutdown, pc, task, destruction,
          result, finished>>

-----------------------------------------------------------------------------
Init ==
  /\ lock = NoThread
  /\ phase = "creating"
  /\ thread_count = 0
  /\ started = 0
  /\ queue = [s \in Slot |-> NoTask]
  /\ head = 0
  /\ tail = 0
  /\ count = 0
  /\ shutdown = "no"
  /\ pc = [w \in Worker |-> "unborn"]
  /\ task = [w \in Worker |-> NoTask]
  /\ destroyer = NoThread
  /\ joining = 0
  /\ joinFailed = FALSE
  /\ freed = FALSE
  /\ result = [t \in Task |-> "none"]
  /\ finished = {}

(* The mutants next to a definition are bugs it could have; no action uses  *)
(* them, PROJECT.json says which property notices which.                   *)
AfterWithoutWrap(s) == s + 1
After(s) == (s + 1) % QueueSize

Sleeping == {w \in Worker : pc[w] = "wait"}

WakeNobody == pc' = pc

(* pthread_cond_signal wakes one of the waiting threads, if there is one.  *)
Signal ==
  IF Sleeping = {} THEN pc' = pc
  ELSE \E w \in Sleeping : pc' = [pc EXCEPT ![w] = "lock"]

(* pthread_cond_broadcast wakes them all.                                  *)
Broadcast == pc' = [w \in Worker |-> IF pc[w] = "wait" THEN "lock" ELSE pc[w]]

-----------------------------------------------------------------------------
(* threadpool_create: the next worker thread is started; with the last one *)
(* the pool is returned to the caller.                                     *)
CreateThread ==
  /\ phase = "creating"
  /\ pc' = [pc EXCEPT ![thread_count] = "lock"]
  /\ thread_count' = thread_count + 1
  /\ started' = started + 1
  /\ phase' = IF thread_count + 1 = ThreadCount THEN "ready" ELSE "creating"
  /\ UNCHANGED <<lock, ring, shutdown, task, destruction, result, finished>>

(* The locked part of threadpool_destroy, when it is the first call.       *)
BeginShutdown(d, flag) ==
  /\ shutdown' = flag
  /\ Broadcast
  /\ destroyer' = d
  /\ joining' = 0
  /\ UNCHANGED <<lock, joinFailed, freed>>

(* threadpool_create: pthread_create fails, and the pool is destroyed with *)
(* no flag by the thread that was creating it.                             *)
CreateFails(c) ==
  /\ phase = "creating"
  /\ lock = NoThread
  /\ phase' = "failed"
  /\ BeginShutdown(c, "immediate")
  /\ UNCHANGED <<thread_count, started, ring, task, result, finished>>

FullTooLate == count > QueueSize
Full == count = QueueSize

OpenWhileDraining == shutdown # "immediate"
Open == shutdown = "no"

(* threadpool_add, by any thread that still may use the pool.  The clients *)
(* do not submit again what was accepted: an Operation is one-shot.  When  *)
(* the queue is full the code says so before it looks at shutdown.         *)
Add(t) ==
  /\ phase = "ready" /\ ~freed
  /\ lock = NoThread
  /\ result[t] # "ok"
  /\ \/ /\ Full
        /\ result' = [result EXCEPT ![t] = "full"]
        /\ UNCHANGED <<ring, pc>>
     \/ /\ ~Full /\ ~Open
        /\ result' = [result EXCEPT ![t] = "shutdown"]
        /\ UNCHANGED <<ring, pc>>
     \/ /\ ~Full /\ Open
        /\ queue' = [queue EXCEPT ![tail] = t]
        /\ tail' = After(tail)
        /\ count' = count + 1
        /\ Signal
        /\ result' = [result EXCEPT ![t] = "ok"]
        /\ UNCHANGED head
  /\ UNCHANGED <<lock, creation, started, shutdown, task, destruction,
                 finished>>

(* A thread may call threadpool_destroy if it is one of the program's own, *)
(* or a worker from inside a task: the last reference to a Context can be  *)
(* dropped by worker(), and a callback can close its Context.              *)
MayDestroy(d) ==
  /\ phase = "ready" /\ ~freed
  /\ d \in Worker => pc[d] = "run"
  /\ destroyer # d
  /\ lock = NoThread

DestroyFirst(d, flag) ==
  /\ MayDestroy(d)
  /\ shutdown = "no"
  /\ BeginShutdown(d, flag)
  /\ UNCHANGED <<creation, started, ring, task, result, finished>>

(* The second call finds shutdown set and leaves by `break`: it returns    *)
(* threadpool_shutdown without having unlocked the mutex.                  *)
DestroyAgain(d) ==
  /\ ~DestroyOnce
  /\ MayDestroy(d)
  /\ shutdown # "no"
  /\ lock' = d
  /\ UNCHANGED <<creation, started, ring, shutdown, pc, task, destruction,
                 result, finished>>

(* pthread_join of the next thread: it waits for the thread's end, except  *)
(* that joining oneself fails at once with EDEADLK.                        *)
JoinNext ==
  /\ destroyer # NoThread
  /\ joining < thread_count
  /\ joining = destroyer \/ pc[joining] = "exited"
  /\ joining' = joining + 1
  /\ joinFailed' = (joinFailed \/ joining = destroyer)
  /\ UNCHANGED <<lock, creation, started, ring, shutdown, pc, task,
                 destroyer, freed, result, finished>>

FreeAnyway == TRUE
MayFree == ~joinFailed /\ started = 0

(* The end of threadpool_destroy, with threadpool_free when there was no   *)
(* error.  threadpool_free refuses while a thread is started, and takes    *)
(* the mutex before it destroys it.                                        *)
DestroyReturn ==
  /\ destroyer # NoThread
  /\ joining = thread_count
  /\ destroyer' = NoThread
  /\ \/ /\ MayFree
        /\ lock = NoThread
        /\ freed' = TRUE
     \/ /\ ~MayFree
        /\ UNCHANGED freed
  /\ UNCHANGED <<lock, creation, started, ring, shutdown, pc, task,
                 joining, joinFailed, result, finished>>

-----------------------------------------------------------------------------
(* threadpool_thread, from pthread_mutex_lock (or the return from          *)
(* pthread_cond_wait) to the next point where it gives the mutex away.     *)
Owns(w) == pc[w] = "lock" /\ lock = NoThread

MustWait == count = 0 /\ shutdown = "no"

ExitOnAnyShutdown == shutdown # "no"
MustExit == shutdown = "immediate" \/ (shutdown = "graceful" /\ count = 0)

Wait(w) ==
  /\ Owns(w)
  /\ MustWait
  /\ pc' = [pc EXCEPT ![w] = "wait"]
  /\ UNCHANGED <<lock, creation, started, ring, shutdown, task, destruction,
                 result, finished>>

Exit(w) ==
  /\ Owns(w)
  /\ MustExit
  /\ started' = started - 1
  /\ pc' = [pc EXCEPT ![w] = "exited"]
  /\ UNCHANGED <<lock, creation, ring, shutdown, task, destruction,
                 result, finished>>

Take(w) ==
  /\ Owns(w)
  /\ ~MustWait /\ ~MustExit
  /\ task' = [task EXCEPT ![w] = queue[head]]
  /\ head' = After(head)
  /\ count' = count - 1
  /\ pc' = [pc EXCEPT ![w] = "run"]
  /\ UNCHANGED <<lock, creation, started, queue, tail, shutdown, destruction,
                 result, finished>>

(* The task's function returns, and the loop goes back to the mutex.       *)
Return(w) ==
  /\ pc[w] = "run"
  /\ destroyer # w
  /\ finished' = finished \cup {task[w]}
  /\ task' = [task EXCEPT ![w] = NoTask]
  /\ pc' = [pc EXCEPT ![w] = "lock"]
  /\ UNCHANGED <<lock, creation, started, ring, shutdown, destruction, result>>

(* pthread_cond_wait may return without a signal.                          *)
SpuriousWakeup(w) ==
  /\ pc[w] = "wait"
  /\ pc' = [pc EXCEPT ![w] = "lock"]
  /\ UNCHANGED <<lock, creation, started, ring, shutdown, task, destruction,
                 result, finished>>

(* Nothing is left to do: the pool is freed, or it is leaked because a     *)
(* worker destroyed it and could not join itself.                          *)
Over ==
  /\ shutdown # "no" /\ destroyer = NoThread
  /\ \A w \in Worker : pc[w] \in {"unborn", "exited"}
  /\ UNCHANGED vars

WorkerStep(w) == Wait(w) \/ Exit(w) \/ Take(w) \/ Return(w)

Next ==
  \/ CreateThread
  \/ \E c \in Caller : CreateFails(c)
  \/ \E t \in Task : Add(t)
  \/ \E d \in Thread, flag \in {"graceful", "immediate"} : DestroyFirst(d, flag)
  \/ \E d \in Thread : DestroyAgain(d)
  \/ JoinNext
  \/ DestroyReturn
  \/ \E w \in Worker : WorkerStep(w) \/ SpuriousWakeup(w)
  \/ Over

Spec == Init /\ [][Next]_vars

(* The operating system runs every thread that can run, and every task's   *)
(* function (one system call and one callback) returns.                    *)
Fairness ==
  /\ WF_vars(CreateThread)
  /\ WF_vars(JoinNext)
  /\ WF_vars(DestroyReturn)
  /\ \A w \in Worker : WF_vars(WorkerStep(w))

FairSpec == Spec /\ Fairness

-----------------------------------------------------------------------------
(* The slots that hold a task nobody has taken: count of them from head,   *)
(* around the end of the array.                                            *)
Queued(s) ==
  IF head + count <= QueueSize
  THEN head <= s /\ s < head + count
  ELSE head <= s \/ s < head + count - QueueSize

Running == {w \in Worker : pc[w] = "run"}
Awake == {w \in Worker : pc[w] = "lock"}

(* The type of every variable, and the two counters in their range.        *)
TypeOK ==
  /\ lock \in Thread \cup {NoThread}
  /\ phase \in {"creating", "ready", "failed"}
  /\ thread_count \in 0 .. ThreadCount
  /\ started \in 0 .. ThreadCount
  /\ queue \in [Slot -> Task \cup {NoTask}]
  /\ head \in Slot /\ tail \in Slot
  /\ count \in 0 .. QueueSize
  /\ shutdown \in {"no", "immediate", "graceful"}
  /\ pc \in [Worker -> {"unborn", "lock", "wait", "run", "exited"}]
  /\ task \in [Worker -> Task \cup {NoTask}]
  /\ destroyer \in Thread \cup {NoThread}
  /\ joining \in 0 .. ThreadCount
  /\ joinFailed \in BOOLEAN
  /\ freed \in BOOLEAN
  /\ result \in [Task -> {"none", "ok", "full", "shutdown"}]
  /\ finished \in SUBSET Task

(* While a worker sleeps in pthread_cond_wait, every queued task has a     *)
(* woken worker coming for it: one pthread_cond_signal per threadpool_add  *)
(* is enough, and the shutdown broadcast leaves nobody asleep.             *)
NoLostWakeup ==
  Sleeping # {} => /\ shutdown = "no"
                   /\ count <= Cardinality(Awake)

(* An accepted task is in exactly one place - one slot of the queue, one   *)
(* worker, or the past - and a task whose threadpool_add was refused is in *)
(* none, so the caller may drop its references or submit it again.         *)
HeldOnce ==
  /\ \A s \in Slot : Queued(s) =>
       /\ queue[s] \in Task \ finished
       /\ result[queue[s]] = "ok"
       /\ \A r \in Slot : Queued(r) /\ queue[r] = queue[s] => r = s
       /\ \A w \in Running : task[w] # queue[s]
  /\ \A w \in Running :
       /\ task[w] \in Task \ finished
       /\ result[task[w]] = "ok"
       /\ \A v \in Running : task[v] = task[w] => v = w
  /\ \A t \in finished : result[t] = "ok"
  /\ \A t \in Task : result[t] = "ok" =>
       \/ t \in finished
       \/ \E s \in Slot : Queued(s) /\ queue[s] = t
       \/ \E w \in Running : task[w] = t

(* The pool's memory, its mutex and its condition variable are released    *)
(* only when no thread can touch them any more: no worker is left, nobody  *)
(* owns the mutex and nobody is joining.                                   *)
SafeFree ==
  freed => /\ \A w \in Worker : pc[w] \in {"unborn", "exited"}
           /\ lock = NoThread
           /\ destroyer = NoThread

(* When a graceful threadpool_destroy has returned, nothing is queued and  *)
(* no task runs but the one that made the call.                            *)
GracefulReturn ==
  shutdown = "graceful" /\ destroyer = NoThread =>
    /\ count = 0
    /\ Cardinality(Running) <= (IF joinFailed THEN 1 ELSE 0)

(* The pool implements its promise: the ring buffer is a FIFO of the       *)
(* accepted tasks, and its memory vanishes only when nothing runs.         *)
Promise == INSTANCE TaskPool WITH
  Capacity <- QueueSize,
  Width    <- ThreadCount,
  pending  <- [i \in 1 .. count |-> queue[(head + i - 1) % QueueSize]],
  active   <- {task[w] : w \in Running},
  finished <- finished,
  mode     <- IF freed THEN "gone" ELSE IF shutdown = "no" THEN "open"
              ELSE shutdown
ImplementsTaskPool == Promise!Spec

(* Every accepted task runs to its end, unless the pool is shut down with  *)
(* no flag: "processes all pending tasks before shutdown" (threadpool.h).  *)
(* And unless a second threadpool_destroy leaves the mutex locked.         *)
AcceptedTasksRun ==
  \A t \in Task :
    result[t] = "ok" ~>
      (t \in finished \/ shutdown = "immediate" \/ lock # NoThread)

(* threadpool_destroy returns, also when a worker calls it from its task.  *)
DestroyReturns ==
  destroyer # NoThread ~> (destroyer = NoThread \/ lock # NoThread)
=============================================================================
