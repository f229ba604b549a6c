--------------------------- MODULE AsyncioAdapter ---------------------------
(***************************************************************************)
(* caio/asyncio_base.py with linux_uring_asyncio.py, linux_aio_asyncio.py, *)
(* thread_aio_asyncio.py and python_aio_asyncio.py: one AsyncioContext in  *)
(* one event loop.  The tasks of the program await submit(); the adapter   *)
(* counts permits, submits to the backend at once or in a deferred batch,  *)
(* and resolves a future per call from the backend's callbacks, which the  *)
(* eventfd's reader runs in the loop, or a pool's thread hands to it.      *)
(*                                                                         *)
(* The backend is what LinuxAio, LinuxUring, ThreadAio and PythonAio       *)
(* implement (OneShot), with its queues and its refusals.  An action is    *)
(* what the loop runs from one await to the next; the kernel and the pool  *)
(* act between any two.                                                    *)
(***************************************************************************)
EXTENDS Batches, FiniteSets

CONSTANTS
  Task,          (* bound: calls of submit(), each by a task of its own    *)
  Op, operation, (* the Operation each of them submits                     *)
  Kind,          (* bound: backends, of "uring", "sqpoll", "linux", "pool" *)
  MaxRequests,   (* bound: what max_requests may be                        *)
  Entries,       (* of the submission ring the kernel makes for each       *)
  MaxCancels,    (* bound: calls of Task.cancel()                          *)
  Fails,         (* bound: what the kernel refuses, of "submit", "flush",  *)
                 (* "deferred flush"                                       *)
  NoTask

ASSUME AdapterAssumption ==
  /\ operation \in [Task -> Op] /\ NoTask \notin Task \cup Op
  /\ Kind \subseteq {"uring", "sqpoll", "linux", "pool"}
  /\ MaxRequests \subseteq Nat \ {0} /\ MaxCancels \in Nat
  /\ Entries \in [MaxRequests -> Nat] /\ \A n \in MaxRequests : Entries[n] > n
  /\ Fails \subseteq {"submit", "flush", "deferred flush"}

VARIABLES
  kind, deferred, max_requests, (* what the AsyncioContext is made with    *)
  permits,            (* self.semaphore                                    *)
  pc,                 (* per task: how far its submit() is                 *)
  future,             (* per task: its future                              *)
  cancelling,         (* tasks with a CancelledError to be thrown          *)
  cancels,            (* history: the calls of Task.cancel()               *)
  callback,           (* per Operation: the task whose future it resolves  *)
  stage,              (* per Operation: where the backend has it           *)
  sq,                 (* the submission ring, NoTask for a cancel entry    *)
  pending,            (* self._pending, as tasks                           *)
  scheduled,          (* self._flush_scheduled, self._submit_scheduled     *)
  signalled,          (* the eventfd's counter is not zero                 *)
  loop,               (* "drain" while _on_read_event empties the ring     *)
  handoff,            (* per task: its result on the way to the loop       *)
  closed

config == <<kind, deferred, max_requests>>
tasks == <<permits, pc, future, cancelling, cancels>>
batch == <<pending, scheduled>>
backend == <<callback, stage, sq, signalled>>
vars == <<config, tasks, batch, backend, loop, handoff, closed>>

Init ==
  /\ kind \in Kind
  /\ deferred \in BOOLEAN
  /\ max_requests \in MaxRequests
  /\ permits = max_requests
  /\ pc = [t \in Task |-> "new"]
  /\ future = [t \in Task |-> "none"]
  /\ cancelling = {} /\ cancels = 0
  /\ callback = [o \in Op |-> NoTask]
  /\ stage = [o \in Op |-> "new"]
  /\ sq = <<>> /\ pending = <<>>
  /\ scheduled = FALSE /\ signalled = FALSE /\ closed = FALSE
  /\ loop = "idle"
  /\ handoff = [t \in Task |-> "none"]

Set(f, x, v) == f' = [f EXCEPT ![x] = v]
SetAll(f, S, v) == [x \in DOMAIN f |-> IF x \in S THEN v ELSE f[x]]
Elements(s) == {s[i] : i \in 1 .. Len(s)}

Idle == loop = "idle"
InFlight(o) == stage[o] \in {"staged", "kernel", "ring"}

(* Room in the submission ring: for one more than max_requests, which the *)
(* kernel rounds up.                                                       *)
RingSize == Entries[max_requests]

Outcomes == {"returned", "refused", "raised", "cancelled"}

(* The tasks whose futures the callbacks of S resolve.                     *)
Resolved(S) == {t \in Task : future[t] = "pending" /\ \E o \in S : callback[o] = t}

(* `async with self.semaphore` is left: BoundedSemaphore.release().        *)
Leaves(t, outcome) == Set(pc, t, outcome) /\ permits' = permits + 1

-----------------------------------------------------------------------------
(* submit(op) begins: a future, and the callback that will resolve it.     *)
(* (The task takes a permit in a step of its own, as when it has to wait.) *)
Begin(t) ==
  /\ Idle
  /\ pc[t] = "new"
  /\ Set(pc, t, "wait")
  /\ Set(future, t, "pending")
  /\ Set(callback, operation[t], t)
  /\ UNCHANGED <<config, permits, cancelling, cancels, batch, stage, sq,
                 signalled, loop, handoff, closed>>

(* It has a permit and awaits its future.                                  *)
Awaits(t) == Set(pc, t, "await") /\ permits' = permits - 1

(* It has a permit, and what it calls raises or returns 0.                 *)
Ends(t, outcome) == Set(pc, t, outcome) /\ UNCHANGED permits

Entering(t) == Idle /\ pc[t] = "wait" /\ permits > 0

(* The backend does not take the Operation: "Operation was not submitted". *)
Refuses(o) ==
  \/ stage[o] # "new"
  \/ kind = "linux" /\ ~deferred /\ "submit" \in Fails
  \/ kind \in {"uring", "sqpoll"} /\ Len(sq) >= RingSize
  \/ kind = "pool" /\ \/ closed
                      \/ Cardinality({x \in Op : InFlight(x)}) >= max_requests
Refused(t) ==
  /\ Entering(t)
  /\ Refuses(operation[t])
  /\ ~(kind = "linux" /\ deferred)
  /\ Ends(t, "refused")
  /\ UNCHANGED <<config, future, cancelling, cancels, batch, backend, loop,
                 handoff, closed>>

(* linux_aio, deferred: it joins the batch.                                *)
Queue(t) ==
  /\ Entering(t)
  /\ kind = "linux" /\ deferred
  /\ Awaits(t)
  /\ pending' = Append(pending, t)
  /\ scheduled' = TRUE
  /\ UNCHANGED <<config, future, cancelling, cancels, backend, loop, handoff, closed>>

(* linux_aio, and the thread pools: the backend has it at once.            *)
Submit(t) ==
  /\ Entering(t)
  /\ \/ kind = "pool" /\ ~closed
     \/ kind = "linux" /\ ~deferred
  /\ stage[operation[t]] = "new"
  /\ Awaits(t)
  /\ Set(stage, operation[t], "kernel")
  /\ UNCHANGED <<config, future, cancelling, cancels, batch, callback, sq,
                 signalled, loop, handoff, closed>>

Stageable(o) == stage[o] = "new" /\ Len(sq) < RingSize

(* linux_uring, deferred: the entry is staged, a flush is to come.         *)
Stage(t) ==
  /\ Entering(t)
  /\ kind = "uring" /\ deferred
  /\ Stageable(operation[t])
  /\ Awaits(t)
  /\ Set(stage, operation[t], "staged")
  /\ sq' = Append(sq, operation[t])
  /\ scheduled' = TRUE
  /\ UNCHANGED <<config, future, cancelling, cancels, pending, callback,
                 signalled, loop, handoff, closed>>

(* flush(): the entries given go to the kernel, which completes some of    *)
(* them, `inline`, in the call; these and all completed before are settled *)
(* and their callbacks called.                                             *)
Flushes(entries, inline) ==
  LET done == inline \cup {o \in Op : stage[o] = "ring"} IN
  /\ inline \subseteq Elements(entries)
  /\ stage' = [o \in Op |-> IF o \in done THEN "done"
                            ELSE IF o \in Elements(entries) THEN "kernel"
                            ELSE stage[o]]
  /\ future' = SetAll(future, Resolved(done), "result")
  /\ signalled' = (signalled \/ inline # {})

(* linux_uring, not deferred: staged and flushed.  A future resolved by    *)
(* the flush is not waited for.                                            *)
StageAndFlush(t) ==
  LET o == operation[t] IN
  /\ Entering(t)
  /\ kind = "uring" /\ ~deferred
  /\ Stageable(o)
  /\ \/ /\ \E inline \in SUBSET Op :
             /\ Flushes(Append(sq, o), inline)
             /\ IF o \in inline THEN Ends(t, "returned") ELSE Awaits(t)
        /\ sq' = <<>>
     \/ /\ "flush" \in Fails
        /\ Set(stage, o, "staged")
        /\ sq' = Append(sq, o)
        /\ Ends(t, "raised")
        /\ UNCHANGED <<future, signalled>>
  /\ UNCHANGED <<config, cancelling, cancels, batch, callback, loop, handoff, closed>>

(* The same with SQPOLL, deferred or not: flush() wakes the kernel's       *)
(* thread, which takes the entries in its own time, and settles what is    *)
(* complete.                                                               *)
StageForThread(t) ==
  LET o == operation[t]
      done == {x \in Op : stage[x] = "ring"}
  IN  /\ Entering(t)
      /\ kind = "sqpoll"
      /\ Stageable(o)
      /\ sq' = Append(sq, o)
      /\ stage' = [x \in Op |-> IF x = o THEN "staged"
                                ELSE IF x \in done THEN "done" ELSE stage[x]]
      /\ future' = SetAll(future, Resolved(done), "result")
      /\ Awaits(t)
      /\ UNCHANGED <<config, cancelling, cancels, batch, callback, signalled,
                     loop, handoff, closed>>

KernelTakes ==
  /\ kind = "sqpoll" /\ sq # <<>>
  /\ stage' = SetAll(stage, Elements(sq), "kernel")
  /\ sq' = <<>>
  /\ UNCHANGED <<config, tasks, batch, callback, signalled, loop, handoff, closed>>

-----------------------------------------------------------------------------
(* linux_uring's _deferred_flush, in a pass of the loop of its own.        *)
DeferredFlush ==
  /\ Idle
  /\ kind = "uring" /\ scheduled
  /\ scheduled' = FALSE
  /\ \/ /\ \E inline \in SUBSET Op : Flushes(sq, inline)
        /\ sq' = <<>>
     \/ /\ "deferred flush" \in Fails
        /\ UNCHANGED <<stage, sq, future, signalled>>
  /\ UNCHANGED <<config, permits, pc, cancelling, cancels, pending, callback,
                 loop, handoff, closed>>

(* The Operations a batch claims, in its order: those that are new.        *)
Claimed(ts) ==
  LET new == {i \in 1 .. Len(ts) :
                /\ stage[operation[ts[i]]] = "new"
                /\ \A j \in 1 .. i - 1 : operation[ts[j]] # operation[ts[i]]}
  IN  Only([i \in 1 .. Len(ts) |-> IF i \in new THEN ts[i] ELSE NoTask], Task)

NoneOf(ts, n) == {}
FromAccepted(ts, n) == {ts[i] : i \in {j \in 1 .. Len(ts) : j >= n}}
PastAccepted(ts, n) == {ts[i] : i \in n + 1 .. Len(ts)}

(* linux_aio's _deferred_submit: of the batch, less what was cancelled,    *)
(* io_submit takes a prefix or raises; the futures past the count are      *)
(* failed.                                                                 *)
DeferredSubmit ==
  LET ts == Only(pending, {t \in Task : future[t] = "pending"})
      claimed == Claimed(ts)
  IN  /\ Idle
      /\ kind = "linux" /\ scheduled
      /\ scheduled' = FALSE
      /\ pending' = <<>>
      /\ \E n \in 0 .. Len(claimed) :
           /\ n = Len(claimed) \/ "submit" \in Fails
           /\ stage' = SetAll(stage, {operation[claimed[i]] : i \in 1 .. n}, "kernel")
           /\ future' = SetAll(future, PastAccepted(ts, n), "error")
      /\ UNCHANGED <<config, permits, pc, cancelling, cancels, callback, sq,
                     signalled, loop, handoff, closed>>

-----------------------------------------------------------------------------
(* The kernel completes an Operation and signals the eventfd.              *)
Complete(o) ==
  /\ kind # "pool" /\ stage[o] = "kernel"
  /\ Set(stage, o, "ring")
  /\ signalled' = TRUE
  /\ UNCHANGED <<config, tasks, batch, callback, sq, loop, handoff, closed>>

(* A thread of the pool does: it calls _on_done, which looks at the future *)
CompleteInPool(o) ==
  /\ kind = "pool" /\ stage[o] = "kernel"
  /\ Set(stage, o, "done")
  /\ handoff' = SetAll(handoff, Resolved({o}), "checked")
  /\ UNCHANGED <<config, tasks, batch, callback, sq, signalled, loop, closed>>

(* and then hands a function to the loop, call_soon_threadsafe,            *)
HandOver(t) ==
  /\ handoff[t] = "checked"
  /\ Set(handoff, t, "posted")
  /\ UNCHANGED <<config, tasks, batch, backend, loop, closed>>

ResolvedAnyway(t) == TRUE
ResolvedIfNotDone(t) == future[t] = "pending"

(* which resolves the future unless it is done.                            *)
RunHandedOver(t) ==
  /\ Idle
  /\ handoff[t] = "posted"
  /\ Set(handoff, t, "none")
  /\ IF ResolvedIfNotDone(t) THEN Set(future, t, "result") ELSE UNCHANGED future
  /\ UNCHANGED <<config, permits, pc, cancelling, cancels, batch, backend,
                 loop, closed>>

(* _on_read_event: the eventfd is readable, poll() clears it,              *)
Poll ==
  /\ Idle /\ ~closed
  /\ signalled
  /\ signalled' = FALSE
  /\ loop' = "drain"
  /\ UNCHANGED <<config, tasks, batch, callback, stage, sq, handoff, closed>>

(* and process_events() is called until it finds nothing.                  *)
ProcessEvents ==
  LET done == {o \in Op : stage[o] = "ring"} IN
  /\ loop = "drain"
  /\ stage' = SetAll(stage, done, "done")
  /\ future' = SetAll(future, Resolved(done), "result")
  /\ loop' = IF done = {} THEN "idle" ELSE "drain"
  /\ UNCHANGED <<config, permits, pc, cancelling, cancels, batch, callback, sq,
                 signalled, handoff, closed>>

-----------------------------------------------------------------------------
(* The program cancels a task: before its first step and while it waits    *)
(* for a permit submit() ends there, while it awaits the future is         *)
(* cancelled, unless it is done, and CancelledError is to be thrown.       *)
Cancel(t) ==
  /\ Idle
  /\ cancels < MaxCancels /\ t \notin cancelling
  /\ cancels' = cancels + 1
  /\ \/ /\ pc[t] \in {"new", "wait"}
        /\ Set(pc, t, "cancelled")
        /\ UNCHANGED <<future, cancelling>>
     \/ /\ pc[t] = "await"
        /\ IF future[t] = "pending" THEN Set(future, t, "cancelled")
           ELSE UNCHANGED future
        /\ cancelling' = cancelling \cup {t}
        /\ UNCHANGED pc
  /\ UNCHANGED <<config, permits, batch, backend, loop, handoff, closed>>

(* The awaiting task goes on: with the result, or the error of the batch.  *)
Resume(t) ==
  /\ Idle
  /\ pc[t] = "await" /\ t \notin cancelling
  /\ \/ future[t] = "result" /\ Leaves(t, "returned")
     \/ future[t] = "error" /\ Leaves(t, "refused")
  /\ UNCHANGED <<config, future, cancelling, cancels, batch, backend, loop,
                 handoff, closed>>

Cancelling(t) == Idle /\ pc[t] = "await" /\ t \in cancelling

(* The handler of CancelledError calls context.cancel(op), which does      *)
(* nothing, or finds nothing to cancel (ValueError),                       *)
CancelsNothing(t) ==
  /\ Cancelling(t)
  /\ kind \in {"pool", "linux"}
  /\ Leaves(t, "cancelled")
  /\ cancelling' = cancelling \ {t}
  /\ UNCHANGED <<config, future, cancels, batch, backend, loop, handoff, closed>>

(* has the kernel let go of the Operation, or raises SystemError when the  *)
(* kernel cannot,                                                          *)
CancelsInKernel(t) ==
  /\ Cancelling(t)
  /\ kind = "linux" /\ stage[operation[t]] = "kernel"
  /\ cancelling' = cancelling \ {t}
  /\ \/ /\ Leaves(t, "cancelled")
        /\ Set(stage, operation[t], "done")
        /\ future' = SetAll(future, Resolved({operation[t]}), "result")
     \/ Leaves(t, "raised") /\ UNCHANGED <<stage, future>>
  /\ UNCHANGED <<config, cancels, batch, callback, sq, signalled, loop, handoff, closed>>

(* or stages an entry and has the kernel take one, the oldest, or raises   *)
(* OverflowError on a full ring.                                           *)
CancelsByRing(t) ==
  /\ Cancelling(t)
  /\ kind \in {"uring", "sqpoll"}
  /\ cancelling' = cancelling \ {t}
  /\ IF Len(sq) >= RingSize
       THEN Leaves(t, "raised") /\ UNCHANGED <<sq, stage>>
       ELSE LET ring == Append(sq, NoTask) IN
            /\ Leaves(t, "cancelled")
            /\ IF kind = "sqpoll" THEN sq' = ring /\ UNCHANGED stage
               ELSE sq' = Tail(ring) /\ stage' = SetAll(stage, {Head(ring)}, "kernel")
  /\ UNCHANGED <<config, future, cancels, batch, callback, signalled, loop,
                 handoff, closed>>

(* close(): the reader is removed, the pools take nothing more.            *)
Close ==
  /\ Idle /\ ~closed
  /\ closed' = TRUE
  /\ UNCHANGED <<config, tasks, batch, backend, loop, handoff>>

-----------------------------------------------------------------------------
Enter(t) ==
  Refused(t) \/ Queue(t) \/ Submit(t) \/ Stage(t) \/ StageAndFlush(t) \/ StageForThread(t)

(* What the loop, the kernel and the pool's threads do of themselves.      *)
Progress ==
  \/ \E t \in Task :
       \/ Enter(t) \/ Resume(t) \/ HandOver(t) \/ RunHandedOver(t)
       \/ CancelsNothing(t) \/ CancelsInKernel(t) \/ CancelsByRing(t)
  \/ \E o \in Op : Complete(o) \/ CompleteInPool(o)
  \/ KernelTakes \/ DeferredFlush \/ DeferredSubmit \/ Poll \/ ProcessEvents

Next ==
  \/ Progress
  \/ \E t \in Task : Begin(t) \/ Cancel(t)
  \/ Close

(* The loop runs what is ready, the kernel and the pool complete what they *)
(* have taken: none of them stops while there is something to do.          *)
Spec == Init /\ [][Next]_vars /\ WF_vars(Progress)

-----------------------------------------------------------------------------
TypeOK ==
  /\ kind \in Kind /\ deferred \in BOOLEAN /\ max_requests \in MaxRequests
  /\ permits \in 0 .. max_requests
  /\ permits + Cardinality({t \in Task : pc[t] = "await"}) = max_requests
  /\ pc \in [Task -> {"new", "wait", "await"} \cup Outcomes]
  /\ future \in [Task -> {"none", "pending", "result", "error", "cancelled"}]
  /\ cancelling \subseteq Task /\ cancels \in 0 .. MaxCancels
  /\ callback \in [Op -> Task \cup {NoTask}]
  /\ stage \in [Op -> {"new", "staged", "kernel", "ring", "done"}]
  /\ sq \in Seq(Op \cup {NoTask}) /\ Len(sq) <= RingSize
  /\ pending \in Seq(Task)
  /\ {scheduled, signalled, closed} \subseteq BOOLEAN
  /\ loop \in {"idle", "drain"}
  /\ handoff \in [Task -> {"none", "checked", "posted"}]

(* What submit() reports is so: it returns the value of an Operation that  *)
(* is complete, and "Operation was not submitted" is said of one of which  *)
(* no backend has anything.                                                *)
OutcomeTrue ==
  \A t \in Task :
    /\ pc[t] = "returned" => stage[operation[t]] = "done"
    /\ pc[t] = "refused" => ~InFlight(operation[t])

(* A future is settled once: a result that arrives after the task was      *)
(* cancelled, or after another one, is dropped.                            *)
SettledOnce ==
  [][\A t \in Task : future[t] \notin {"none", "pending"} => future'[t] = future[t]]_vars

(* Whoever awaits goes on, whatever the others do and however completions  *)
(* and signals interleave with the reader: "silently stranding whatever    *)
(* was already completed" does not happen.  Only closing the Context of a  *)
(* kernel backend, which removes its reader, may leave a task behind.      *)
AwaiterResumes ==
  \A t \in Task :
    pc[t] \in {"wait", "await"} ~> (pc[t] \in Outcomes \/ (closed /\ kind # "pool"))

(* "the asyncio-level semaphore is responsible for never handing the       *)
(* backend more in-flight operations than it was configured for"           *)
InFlightBounded == Cardinality({o \in Op : InFlight(o)}) <= max_requests
=============================================================================
