# A verification project for caio

`caio` gives Python programs asynchronous file I/O through four interchangeable
backends and an asyncio adapter for each. This directory holds TLA+ models of
its parts, TLC configurations that check them on small instances, and theorems
about them that TLAPS checks for every instance. All line numbers are those of
the sources under `caio/`.

## 1. Inventory

| Component | State | Operations | Interacts with |
|---|---|---|---|
| **Thread pool** `caio/src/threadpool/threadpool.c` | ring buffer (`queue`, `head`, `tail`, `count`), `shutdown`, `started`, `thread_count`, a mutex, a condition variable | `threadpool_create`, `_add`, `_destroy`, `_free`, the worker loop `threadpool_thread` | called by `thread_aio`, calls its `worker()` |
| **thread_aio** `caio/thread_aio.c` | per Context: `pool`; per Operation: `in_progress`, `done`, `ctx`, `result`, `error`, buffer, `callback`; reference counts of both | `Context()`, `submit`, `cancel` (returns 0), `close`, dealloc; `Operation.read/write/fsync/fdsync`, `set_callback`, `get_value`, `payload`; `worker()` on a pool thread | thread pool; Python callbacks run on the worker's thread with the GIL and may call back in |
| **linux_uring** `caio/linux_uring.c` | per Context: the submission and completion rings shared with the kernel, an eventfd; per Operation as above plus `context` | `submit`, `flush`, `cancel`, `process_events`, `poll`, dealloc | the kernel; callbacks run inside `flush`/`process_events` and may re-enter them |
| **linux_aio** `caio/linux_aio.c` | per Context: the kernel `aio_context`, an eventfd; per Operation as above plus an `iocb` | `submit`, `cancel`, `process_events`, `poll`, dealloc | the kernel; callbacks as for linux_uring |
| **python_aio** `caio/python_aio.py` | `_in_progress` under a lock, a `ThreadPool`, per Operation a flag, a result and an exception | `submit`, `cancel`, `close`, the pool's functions | `multiprocessing.pool.ThreadPool`; callbacks run on the pool's result thread |
| **asyncio adapter** `caio/asyncio_base.py` and the four `caio/*_asyncio.py` | a semaphore of `max_requests`, one future per submission, the deferred batch | `submit`, `close`, `_on_done`, `_on_read_event`, `_deferred_flush`, `_deferred_submit` | the event loop (eventfd reader, `call_soon`), a backend Context |
| **Selector** `caio/__init__.py` | `preferred`, `preferred_asyncio` | import probing, `CAIO_IMPL`, the `default_implementation` file | all backends |
| `caio/abstract.py`, type stubs, `setup.py`, benchmarks, examples | none | interface declarations, packaging | - |

What is hard about it, and what makes each part correct:

* **Thread pool.** One condition variable, one `pthread_cond_signal` per task,
  two ways to shut down, and a caller of `threadpool_destroy` that may be one of
  the pool's own workers. No accepted task is lost, run twice or left with every
  worker asleep; a graceful shutdown drains the queue; memory outlives its users.
* **The native backends.** An Operation is handed to a thread or to the kernel
  and comes back on another thread or in a later call, while the program goes on
  submitting, reading and dropping objects, from callbacks too. Each Operation is
  executed and completed once, in any order of calls on any number of Contexts;
  references are exact, so nothing is freed in use and nothing leaks; an
  Operation that was refused is as new; what a getter reads is not being written.
  On a free-threaded build of CPython a critical section per Context and atomic
  exchanges on `in_progress` are to do all of this without the GIL.
* **linux_uring.** Two rings of fixed size, a kernel thread that may sleep, an
  eventfd whose counter several parties read, drains that nest through callbacks.
* **asyncio adapter.** Cancellation at any `await`, permits against Operations in
  flight, a batch that is rejected or accepted in part, a wake-up per completion.

## 2. Plan, and where it stands

1. `TaskPool` - what a thread pool promises: a bounded FIFO. Done.
2. `ThreadPool` - threadpool.c in detail; implements `TaskPool`. Done.
3. `ThreadPoolProofs`, `ThreadPoolRefinement` - its theorems. Done.
4. `OneShot` - what every backend promises of its Operations. Done.
5. `ThreadAio` - thread_aio.c, over the pool that `TaskPool` describes; implements
   `OneShot`. Done.
6. `LinuxUring` - linux_uring.c and the kernel's side of the rings; implements
   `OneShot`. Done.
7. `LinuxAio` - linux_aio.c and the kernel's AIO; implements `OneShot`. Done.
8. `PythonAio` - python_aio.py and its pool; implements `OneShot`. Done.
9. `PythonAioProofs` - its types, its slots and that it keeps `OneShot`'s promise,
   proved. Done.
10. `ThreadAioProofs` - on any build no submit reaches a dying pool, each Operation is
    dispatched once and stays retryable when it is refused, the references are exact and
    every Context keeps to what `TaskPool` allows;
    with the GIL also its pointers, its readers and `OneShot`'s promise, proved. Done.
11. `AsyncioAdapter` - asyncio_base.py with its four variants, over a backend that
    does what the four do. Done.

12. `SequenceLemmas` - what appending, splitting, joining and filtering do to the
    elements of a sequence, and an induction principle; `LinuxAioProofs` - with
    refusals only under the GIL, types, places, references and `OneShot`'s promise,
    proved. Done.
13. `AsyncioAdapterProofs` - the permits, the futures and the outcomes, proved. Done.
14. `LinuxUringProofs` - every safety property of the runs, proved. Done.

Every safety property of the passing runs is now a theorem; what is left to the
model checker alone is liveness (section 12). The modules declare no RECURSIVE
operator, so that they can be proved about.

The layers fit together as follows. `AsyncioAdapter` drives a backend that claims,
refuses, completes and cancels; the four backends are checked to implement
`OneShot`; `ThreadAio` uses the pools that `TaskPool` describes as they may be used, and
`ThreadPool` is one: both are proved.

## 3. The thread pool

`ThreadPool` takes the code at the grain of its mutex: every critical section is
one action. `Add` is `threadpool_add`; `DestroyFirst`, `DestroyAgain`, `JoinNext`
and `DestroyReturn` are the stages of `threadpool_destroy`; `Wait`, `Exit`,
`Take` and `Return` are the worker's loop; `SpuriousWakeup` is what
`pthread_cond_wait` may do; `CreateThread` and `CreateFails` are the loop of
`threadpool_create`. `queue`, `head`, `tail`, `count`, `started` and `shutdown`
have their names; a worker's program counter is `pc`, and the set of workers in
`pthread_cond_wait` is derived from it. Tasks are model values, accepted at most
once each, so that "lost" and "run twice" can be said. A task may call
`threadpool_destroy`, which is what a callback that closes its Context does.

| Run | Instance | Shows |
|---|---|---|
| `pool` | 3 workers, queue of 2, 3 tasks, `pthread_create` may fail, fair threads | `TypeOK`, `NoLostWakeup`, `HeldOnce`, `SafeFree`, `GracefulReturn`, that it implements `TaskPool`, `AcceptedTasksRun`, `DestroyReturns` |

The bounds: three workers are needed for one worker to sleep, one to run and one
to leave; a queue of two wraps, is full and is empty within three tasks. Two
limits of the code show in the properties. The second of two calls of
`threadpool_destroy` returns with the mutex locked (threadpool.c:213, `break`
before the unlock), so both liveness properties end with "or the mutex is left
locked"; `AIOContext_close_pool` never makes that call. And the only worker of a
pool that destroys it gracefully cannot join itself and returns with tasks queued:
`GracefulReturn` needs two workers, and `GracefulShutdownDrains` says so.

**Proved** (`ThreadPoolProofs`, for every number of workers, size of queue and set
of tasks). `PoolInvariant` is `TypeOK` and three named parts: `Creation` (which
workers are born in which phase, and that a shutdown comes after creation),
`Counting` (`started` is the number of live workers) and `RingFilled` (`tail` is
`count` slots after `head`, and the slots between them hold tasks). `TypeOK` alone
is not inductive: that `started` stays a natural number needs `Counting`, that a
worker takes a task and not an empty slot needs `RingFilled`, and both need to know
from `Creation` which workers there are. On top of it `NoLostWakeup`, `SafeFree` and
`HeldOnce` are each preserved by every step, and `Joined` adds what
`threadpool_destroy` knows of the workers it has joined, for `GracefulReturn`. The
results are `TypeCorrect`, `WakeupsAreNotLost`, `AcceptedTasksAreHeldOnce`,
`FreeIsSafe` and, for two workers or more, `GracefulShutdownDrains`.
`ThreadPoolRefinement` proves `PoolKeepsItsPromise`: every step of `ThreadPool` is
one of `TaskPool` or leaves its queue alone, where the abstract queue is the ring
read from `head`; the lemmas there say how `After` moves the reading window.
The assumptions are those the module states on its constants (a finite number of
workers, a queue of one or more). Liveness is only model-checked.

## 4. OneShot

The abstract specification of an Operation under any of the backends, with two
variables: `state`, from `"new"` by `"claimed"` and `"completed"` to
`"delivered"`, and `owner`, the Context that has claimed it. A claim may be given
back (`GiveBack`), and then the Operation is as new; otherwise it has one
completion and, after that, one delivery, for good. Each backend's
`ImplementsOneShot` substitutes its own variables: `state` is read off
`in_progress`, `done` and where the callback is, `owner` off the Context's pointer.
It says more than a count of callbacks does: no completion before a claim, no
delivery of an Operation that is not done (its callback must find a result), no
claim of one that has been used, no Context that changes while a claim stands.

## 5. thread_aio

One action per stretch of code between two points where another thread can come
in. With the GIL these are the points where it is released; on a free-threaded
build (`freeThreaded`, chosen by `Init` from `Build`) the GIL is never held and the
critical section of `AIOContext_submit` (`section`) and the exchange on
`in_progress` are all there is. `SubmitBegin`, `Skip`, `Accept`, `Refuse`,
`GiveBack`, `Forget`, `SubmitEnd` are `AIOContext_submit` on a batch; `Start`,
`Perform`, `Publish`, `CallbackReturns`, `ReleaseContext`, `ReleaseOperation` are
`worker()`; `ClosePool`, `Close`, `Dealloc`, `Drop`, `DestroyReturn` end a Context;
`ReadBegin` and `ReadEnd` are the getters. `Refuse`, `GiveBack` and `Forget` are
three actions because the code stores `in_progress = 0` before it clears `op->ctx`,
and on a free-threaded build another thread may come in between. A callback is a
stretch of a worker's life in which it may make any call the program may.

| Run | Instance | Shows |
|---|---|---|
| `thread_gil` | GIL, two threads, two Contexts, three Operations, queues of one | `TypeOK`, `RefsExact`, `ReadersUndisturbed`, `RefusedIsRetryable`, `ImplementsOneShot` |
| `thread_live` | both builds, a thread and its callbacks, two Contexts, two Operations, queues of two, fair threads and GIL | `DispatchedOnce`, `DispatchedWithContext`, that each Context uses its pool as `TaskPool` allows (`ImplementsTaskPool`), `AcceptedCompletes`, `CallsReturn` |
| `thread_refuse_race` | free-threaded, queues of one | *violation* of `DispatchedWithContext`: a refused submit clears the pointer another Context has just set |

Two Contexts, two threads and two or three Operations are what it takes for two
submits to race on one Operation, one of them refused; in `thread_live` a callback
on a worker is the second thread. A Context's pool is a queue with its workers, as
`TaskPool` has it; its shutdown is the graceful one, the only one the code asks
for. `ReadersUndisturbed` is checked with the GIL only: on a free-threaded build a
getter that has passed its check (thread_aio.c:860) reads `error`, `result` and the
buffer with nothing to keep a worker out. What `Publish` does in one step (drop a
write's buffer, store `done`) are stores that no other thread tells apart: only
`done` is read without the Operation's cooperation.

**Proved** (`ThreadAioProofs`), for any Contexts, threads, Operations and sizes. The
proofs keep apart what the critical section and the atomic exchange do on every build
and what only the GIL does. `DispatchInvariant` holds on every build. Its parts are
`InSection` (a thread in `submit()` holds the critical section of an open Context; one
that destroys a pool has closed it first), `Callers` (when a worker is in a method),
`Stages` (for each stage of an Operation what `done` and the number of runs are, that a
queued Operation stays claimed, and that its pointers name its pool or nothing),
`Claimants` (an Operation that is claimed and new is claimed by one `submit()`, between
`Refuse` and `GiveBack`; one that is new and points to a Context has a `submit()` that
is to clear it) and `Queued` (what the queues hold is in stage `"queued"`, at home
there and held once). From it follow `DispatchedOnce`, `RefusedIsRetryable` and, stated
with the theorem, `SubmitsToOpenPool`. None of them is inductive alone: that a second `submit()` skips a
queued Operation needs `Stages`, that a popped Operation is in no other queue needs
`Queued`, and that `GiveBack` does not open an Operation that another thread has claimed
meanwhile needs `Claimants`.

`ImplementsTaskPool` ties the layers together, also on every build: seen through
`TaskPool`, with the Context's queue, the Operations its workers run and those that are
over, every step is one the pool allows or one it does not see
(`ContextsKeepToTheirPools`). It needs `Destroying`, that a pool which is being destroyed
is destroyed by one method, which closed it, and `Drained`, that nothing waits in a pool
that is gone. A pool whose threads were not all joined, because one of them is the
caller, stays in its graceful shutdown and is never freed, as in `ThreadPool`.

`RefsExact` and `TypeOK` hold on every build too, when there are finitely many threads
and Operations; that the counts are natural numbers follows from their being exact and
from nothing less. `Counted` says what each is for: a Context's for the program's
handle, for what its pool has not released and for the one `submit()` in its critical
section that has been refused; an Operation's for the program, its worker, and the
`submit()`s that have been refused it and not let go, of which a free-threaded build
may have several at once (`Refusers`). `ReleaseContext` releases the right Context
there although `DispatchedWithContext` fails: the pointer a worker took is its own
Context's or NULL, never another's (`Stages`). A worker that took NULL would hand it to
`Py_DECREF` (thread_aio.c:289); the model has no step after that, so the counts are
exact up to there and section 11 has the finding.

`GilInvariant` adds what needs the assumption `Build \subseteq {FALSE}`, builds with
the GIL: `Exclusive`, a method in progress has the GIL, so that no other thread takes a
step that needs it (`StepAlone`); `Refusals`, the refusing `submit()` is the only one
that has anything to do with its Operation until it has cleared the pointer;
`Pointers`, the pointer of a dispatched Operation names its pool; `Readers`, what a
getter has checked still holds when it reads. From it follow `DispatchedWithContext`,
`ReadersUndisturbed` and the refinement of `OneShot`. The assumption is needed:
`thread_refuse_race` refutes `DispatchedWithContext` without it, and a getter that has
passed its check has nothing to keep a worker out.

## 6. linux_uring

The rings are sequences: `sq` holds the entries between `sq_head` and `sq_tail`,
`cq` the completions between `cq_head` and `cq_tail`; `staging` holds what a
`submit()` has written beyond `sq_tail`. The kernel is external and modelled by what
the code relies on: without SQPOLL it takes entries only in `io_uring_enter`, the
oldest first and perhaps fewer than asked for; with SQPOLL its thread takes them
while it is awake, and before it sleeps it sets `NEED_WAKEUP` and looks once more
(`PollerTakes`, `PollerRests`). Completions come in any order at any time and
signal the eventfd. `hidden` counts the newest entries whose store to `sq_tail` is
still in a store buffer, and `storer` names the thread whose buffer it is: a system call
empties the buffers of its own thread only (`EmptiesBuffer`), `StoreVisible` any at any
time. Whoever enters the critical section sees the stores made in it before, so a store
that follows another thread's delays its own entries only. That a thread must let go of
the GIL before another flushes would empty the buffer as well; the model lets it stay
full, which allows more. A getter is two steps, the look at the flags (`ReadBegin`) and the
hand-over of the object (`ReadEnd`), because no critical section joins them. `frames` is a thread's stack of drains: `Drain` takes a whole batch out of
the ring and settles it, as `uring_drain_cq` does before the first callback, and
`CallbackReturns` ends a callback, which may have called any method itself. Whether
SQPOLL was negotiated is a variable that `Init` chooses per Context, because the
set-up may fall back.

| Run | Instance | Shows |
|---|---|---|
| `uring_gil` | GIL, no SQPOLL, two threads that submit, flush and cancel, one of which also waits, a ring of two, a Context that may be dropped, `io_uring_enter` may take fewer or fail, drains nest once, fair threads and GIL | `TypeOK` (no entry beyond the ring's size, staged ones included), `CompletedOnce`, `RefsExact`, `ClaimedIsInFlight`, `FlushReaches`, `NotReadInFlight`, `FlushReturns` |
| `uring_free` | free-threaded, two Contexts with or without SQPOLL, rings of one, store buffers | `RefsExact`, `ImplementsOneShot` |
| `uring_sqpoll` | one thread, one entry, SQPOLL, a store buffer | *violation* of `FlushReaches`: the kernel's thread sleeps on a flushed entry |
| `uring_flush_race` | free-threaded, two threads | *violation* of `FlushReturns`: `flush()` never ends |

Two Operations and a cancellation fill a ring of two with a batch half staged; a
ring of one is full as soon as two threads submit; one level of nesting lets a
callback drain, flush and submit inside a drain that still has callbacks to run.
With two entries in the ring the loop of `flush()` runs twice when `io_uring_enter`
takes one, and the other thread, a cancellation or a callback has flushed or entered
before it; `FlushReturns` says that the loop ends in each case with the GIL, which
nobody else gets between its look at `sq_head` and its last call. `FlushReaches` is about
two designs. Without SQPOLL, what was pending has been consumed when the loop ends: that
is `uring_gil`. With it, the kernel's thread must see the entry or have been woken: that
does not hold as the code is compiled, `uring_sqpoll`.
`NotReadInFlight` is about the moment of the call, with the GIL: `payload` of a read that
is not yet submitted hands out the very bytes object the kernel later fills
(linux_uring.c:467), and on a free-threaded build a `submit()` may come between the look
and the hand-over (section 11).
What a thread that waits in `process_events` may expect is left to section 11: with a
second reader of the eventfd it may sleep on, and with a cancellation it returns early. The
runs have the waiting itself, for what it does to the rest.

**Proved** (`LinuxUringProofs`, for any Contexts, threads, Operations and sizes, with
and without the GIL, except that `NotReadInFlight` needs it). Where references are
counted the Operations are finitely many, and `FlushReaches` is proved for instances in
which a store to `sq_tail` is seen before the look at `NEED_WAKEUP`, or no Context has an
SQPOLL thread: section 11 has the counterexample without that, `uring_sqpoll`. Nothing
else is assumed. The inductive invariant is `Placing`, with the parts of that of `LinuxAio` (section 7): `At(o, c, k, x, i)` says
that Operation o, which refers to c, is staged by thread x, in x's hands because the
ring was full, in the submission ring, with the kernel or in the completion ring of
Context x, or in frame i of thread x with its callback still to return. `Good` is that
it is in at most one place, which determines its fields. `Control` is that whoever is in
`submit()` owns its Context's critical section, that the number of used entries it has
read (`arg.n`) still covers what is in the ring and what it has staged, whatever the
kernel has consumed since, and how deep its callbacks are. `NoRepeats` is that no ring,
batch or frame holds an Operation twice; cancellations may be there often (`OnceIn`).
The hard steps are those that move many Operations at once. `Consumes` takes a prefix
of the ring and leaves the entries of cancellations out; `Drain` takes a prefix of the
completions, leaves them out too and settles the rest: `SplitElements`, `SplitOnceIn`
and `OnlyElements` of `SequenceLemmas` say what such a prefix, rest and filter contain.
`CompletedOnce` and `ClaimedIsInFlight` follow by counting the places (`Accounts`);
`NotReadInFlight` also needs `Reading`, that with the GIL a thread that is in a method
which keeps it is its holder, so that what a getter has seen of the flags still holds
when it hands the object out. `RefsExact` and `TypeOK` also need `Held`, that a Context's count is
the number of Operations that point to it and the program's reference: a drain gives
back as many as its batch is long (`LengthOnce`). `Filled` bounds what is hidden in a
store buffer and what a flush() without SQPOLL may still have to submit (`Flushes`: the
tail it has read is at most the head and what remains); with it `Reached`, the
invariant behind `FlushReaches`, is inductive: the kernel's thread falls asleep only
after it has seen an empty ring. In the refinement a `submit()` that finds the ring full
is the one claim whose owner no field names: it is the Context that thread is on, and
it is unique because the place is (`RefusedIs`). `FlushReturns` is
only model-checked.

## 7. linux_aio

`kernel` is the set of Operations that `io_submit` has taken, `ring` the completions
that `io_getevents` has not handed out; the kernel is external and completes at any
time. `SubmitBegin`, `Skip` and `Claim` walk the batch, `IoSubmit` makes the call, of
which the kernel takes any prefix where `MayRefuse` allows it, and `Reopen` and
`Forget` roll the others back, one by one. `ProcessEvents` and `GetEvents` are the
two halves of `process_events()`, with `io_getevents` outside the GIL between them;
what it gathered lies in the thread's innermost frame, and `Settle` and
`CallbackReturns` take it one Operation at a time: unlike `uring_drain_cq` this code
settles an Operation only right before its own callback. `Cancel` is `io_cancel`
with the settling and the callback that `AIOContext_cancel` does itself.

| Run | Instance | Shows |
|---|---|---|
| `linux_aio` | both builds, two threads, two Contexts, two Operations in batches of two, prefixes refused with the GIL, one level of nesting | `TypeOK`, `ClaimedIsInFlight`, `RefsExact`, `ImplementsOneShot` |

Two completions gathered at once are what it takes for the callback of the first
to call anything while the second is taken out of the kernel and not yet settled;
two threads gather from one Context at the same time. Refusals are left out of the
free-threaded half because of the race in section 11.

**Proved** (`LinuxAioProofs`, for any Contexts, threads, Operations, batches and depth
of callbacks). The assumption `RefusalsHoldGil`, that io_submit refuses Operations
only on builds with the GIL, is that of the run and is needed: section 11. Where
references are counted the Operations are finitely many. The invariant, `Placing`,
follows an Operation instead of counting: `At(o, c, k, x, i)` says that o, which refers
to c, is in place k (with a `submit()`, on the way back, with its pointer still to be
cleared, in the kernel, completed, gathered, in a callback) of thread or Context x,
in frame i of its stack. `Good` is that an Operation is in at most one place, that
the place determines its fields, and that one in no place is as new or over.
`ClaimedIsInFlight`, a statement about counts, is not inductive: that `Settle` finds
its Operation in nobody else's frame, that a rollback gives back its own claim and
nobody else's, that `io_getevents` cannot hand out an Operation twice all need the
whole of `Good`, and the parts `Control` (which thread has the GIL in which method,
how deep its stack is) and `NoRepeats` (no ring, batch or frame has an Operation
twice). A step of an action leaves every Operation where it is (`Unmoved`) or moves
one. The results are `ClaimsAreInOnePlace`, `ReferencesAreHeld` and `TypesHold`, which
need the invariant `Held` on top of it (a Context's count is the number of Operations
that point to it, and the program's reference), and `KernelKeepsItsPromise`.

## 8. python_aio

One action per stretch between two acquisitions of a lock. `_execute` takes the
Operation's lock and then the Context's (`LockOperation`, `LockContext`), decides
between leaving the Operation out, raising and claiming it with a slot, and calls
`apply_async` after it has left both (`Schedule`); if the pool has been closed by
then, `_rollback_claim` takes them again (`RollbackBegin`, `RollbackEnd`). `close()`
looks at the state without the lock and again with it (`CloseBegin`, `CloseLocks`,
`ClosePool`). `multiprocessing.pool.ThreadPool` is external: workers that take tasks
until it is terminated, and one result thread per pool, which runs `Release`,
`Store`, `InvokeCallback` and `CallbackReturns`, the last one after a callback that
may call submit() and close() on any Context. Whether a result or an exception was
stored is one flag, `written`: the code treats them alike.

| Run | Instance | Shows |
|---|---|---|
| `python_aio` | a thread and the callbacks of one Context, two Contexts with one slot and one worker each, batches of two, fair threads and locks | `TypeOK`, `SlotsExact`, `ImplementsOneShot`, `ClaimsSettle` |

One slot makes a Context full with one Operation, so the second of a batch raises
and a callback finds the slot its own Operation has left. `ClaimsSettle` says that
`close()` neither strands a claim that is on its way to the pool nor one the pool
has: it relies on `close()` calling `pool.close()`, after which the pool still works
its queue off.

**Proved** (`PythonAioProofs`, for every set of Contexts and threads, every finite set
of Operations, every `max_requests`, pool size and batch). `TypeOK` holds the count of
slots between 0 and `max_requests`, and is not inductive: a release keeps it above 0
only if the count is of something (`SlotsExact`), a claim below the limit only if no
other thread can claim between the look and the claim. `PythonInvariant` therefore
has four more parts: `Locking` (what a thread in each method holds, and that under
both locks what it has seen is still so), `Scheduling` (an Operation on its way to
the pool is in the hands of one submit(), so a rollback takes back its own claim and
nobody else's), `Stages` (what `in_progress`, the Context's pointer and the result say
of where an Operation is) and `SlotsExact`. From it follow `TypeCorrect`,
`SlotsAreExact` and `PythonKeepsItsPromise`: `Claim`, `RollbackEnd`, `Store` and
`InvokeCallback` are `OneShot`'s `Claim`, `GiveBack`, `Complete` and `Deliver`, and
every other step is one it does not see. `ClaimsSettle` is only model-checked.

## 9. The asyncio adapter

An action is what the event loop runs between two awaits; the kernel, and the
threads of a pool, act between any two. `Begin` is `submit()` up to the semaphore,
`Enter` (one action per backend and mode: `Refused`, `Queue`, `Submit`, `Stage`,
`StageAndFlush`, `StageForThread`) its way to `await future`, `Resume` and the three
`Cancels...` its end. `DeferredFlush` and `DeferredSubmit` are the `call_soon`
callbacks, `Poll` and `ProcessEvents` the eventfd's reader, `CompleteInPool`,
`HandOver` and `RunHandedOver` the way of a result from a pool's thread through
`call_soon_threadsafe`. The backend is kept to what the adapter can see of it:
where each Operation is (`stage`), the submission ring, the eventfd. `kind`,
`deferred` and `max_requests` are variables that `Init` chooses, so that one run
covers every combination.

| Run | Instance | Shows |
|---|---|---|
| `asyncio` | three tasks, each with an Operation of its own, one or two permits, all backends, eager and deferred, two cancellations, failing submissions and flushes, `close()` at any time | `TypeOK` (permits and awaiting tasks add up to `max_requests`), `OutcomeTrue`, `SettledOnce`, `AwaiterResumes` |
| `asyncio_permit` | the pools, one permit | *violation* of `InFlightBounded`: a cancelled `submit()` leaves the semaphore while its Operation is still being executed |

Three tasks with two permits are what it takes for one to wait while two are in
one deferred batch, of which one is cancelled and one refused. `AwaiterResumes`
makes one exception: a Context of a kernel backend that was closed removes its
reader from the loop and leaves who still awaits to itself. Begin and the permit
are two steps although asyncio takes a free permit without suspending, which only
adds behaviours; the completion of a cancellation's own entry is left out, because
all it causes is a read of the eventfd that finds nothing to settle; `close()` of a
native pool blocks the loop until its workers are joined, in the model it does not.
`Entries`, the size of the ring io_uring makes for a `max_requests`, is any that has
room for one more in the module, the kernel's power of two in the runs.

**Proved** (`AsyncioAdapterProofs`, for every finite set of tasks, all backends, any
`max_requests`, number of cancellations and set of failures). `TypeOK` holds the
balance of permits and is inductive once it is said in the order of its parts:
every step that changes a permit or a task's `pc` is one of `Takes`, `Returns` and
`Moves` (`PermitSteps`), and the count of awaiting tasks follows. `SettledOnce` needs
one fact more, that a task which has not begun has no future (`NoneYet`). `OutcomeTrue`
is proved for programs that make an Operation for every call (`Fresh`), as `read()`,
`write()`, `fsync()` and `fdsync()` do: a second `submit()` of an Operation in flight is
told "not submitted" while it is. Its invariant is `Truthful`: a callback resolves the
future of the task whose Operation it is; what is in the submission ring is staged and
there once; a result, in a future, on its way from a pool's thread or returned, is of
an Operation that is done; a task that has yet to submit, one in the batch and one that
was denied are three different tasks, and the backend has nothing of any of them. From
the last two parts follows the step that a test would hardly reach, `_deferred_submit`
after cancellations: what is left of the batch is claimed whole (`BatchIsClaimed`), so
the futures past the count are exactly those of Operations io_submit did not take.
`AwaiterResumes` is only model-checked.

## 10. Fairness

`ThreadPool`: weak fairness of `CreateThread`, `JoinNext`, `DestroyReturn` and of each
worker's steps. A thread that is not blocked runs, a mutex that is free is
obtained, and a task's function returns (nothing can be promised of one that does
not). `ThreadAio`: weak fairness of the steps that need nothing another thread may
hold; strong fairness of a worker's steps and of the return from
`threadpool_destroy`, which must get the GIL: a thread that waits for it makes the
holder let go after the switch interval, again and again until it is served.
`LinuxUring`: strong fairness of each thread's next step and of a callback's return,
for the same reason; a step in which `io_uring_enter` fails is never forced, or an error
would end a loop of `flush()` that makes no progress. `PythonAio`: strong fairness of each thread's next step and of
the result threads, which compete for locks that others take and leave again; weak
fairness of the pool's workers. `AsyncioAdapter`: weak fairness of `Progress` as a
whole is enough, because every task, Operation and hand-over advances a bounded
number of times: a loop that does not stop while something is ready gets to
everything. Nothing forces the program to make a call, to cancel or to close, nor,
in `LinuxUring`, an Operation to complete.

## 11. Known behaviours

What the models show the code to do and no passing run promises otherwise; the
four runs marked *violation* in this file are findings, the others are reproduced by the
change of a constant given here.

* **A refused submission on a free-threaded build** (thread_aio.c:408, run
  `thread_refuse_race`) gives `in_progress` back before it clears `op->ctx`. The
  rollback in linux_aio.c (351-352, 367-368) has the same order: `linux_aio` with
  `Build = {TRUE}` and `MayRefuse = {TRUE}` violates `RefsExact` and
  `ClaimedIsInFlight`.
* **Two flushes of one entry on a free-threaded build** (linux_uring.c:1120, run
  `uring_flush_race`): the one that submits nothing subtracts 0 for ever.
* **A permit freed by a cancellation** (asyncio_base.py:50, run `asyncio_permit`).
* **A sleeping SQPOLL thread** (linux_uring.c:1091, run `uring_sqpoll`). Between the
  store to `sq_tail` and the load of `NEED_WAKEUP` the code has no full barrier. The
  next flush() wakes the thread, if there is one. With `StoreBuffer = FALSE` the run
  finds no violation.
* **A cancellation behind staged entries** (linux_uring.c:1172): `cancel()` enters one
  entry, the oldest, so its own stays in the ring until the next `flush()`.
* **A wait ended by a cancellation** (linux_uring.c:1248): the completions of
  cancellations count towards `min_requests` (`Enough`), so
  `process_events(min_requests=1)` may return 0, although
  tests/test_raw_low_level.py:1100 says that it "must wait for N *real* completions, not
  N raw CQEs".
* **Two readers of the eventfd** (linux_uring.c:1285-1293). Thread q finds one
  completion where it needs two, and before its poll(2) another thread, in
  `process_events` or `poll()`, reads the counter: q sleeps on although the second
  completion may be in the ring already. The comment there argues that a waiter
  that has observed the counter is not un-woken; this one has not observed it yet.
* **A getter that is overtaken on a free-threaded build** (linux_uring.c:382, 451): it
  finds the Operation free, a `submit()` stages it, and the getter hands out the
  buffer. `uring_gil` with `FreeThreaded = TRUE` violates `NotReadInFlight`.
* **Callbacks that close each other's Contexts** (thread_aio.c:112): each `close()`
  joins the worker that runs the other, for ever. `thread_live` with
  `CrossClose = TRUE` violates `CallsReturn`.
* **A deferred flush that raises** (linux_uring_asyncio.py:53): nothing tries again and
  no future fails. `asyncio` with `"deferred flush"` in `Fails` violates
  `AwaiterResumes`.
* **One Operation in two calls of `AsyncioContextBase.submit`** (asyncio_base.py:48):
  the second replaces the callback, is refused, and the first waits for ever.
  `asyncio` with an `operation` that maps two tasks to one violates
  `AwaiterResumes`.
* **An error in the place of `CancelledError`** (asyncio_base.py:59): the handler
  ignores `ValueError` only; `OverflowError` of linux_uring and `SystemError` of
  linux_aio leave `submit()` (outcome `"raised"`).

## 12. What is not modelled

* thread_aio, linux_uring, linux_aio: parsing of arguments and the constructors'
  arithmetic, allocation failures, `repr`, weak references and the cycle collector's
  `tp_clear`/`tp_traverse`, which reaches only objects nothing refers to; of the two
  kernel backends also `set_callback`, an assignment that `ThreadAio` has as
  `SetCallback`.
* linux_uring: the set-up of the rings (mmap, flags, the fallback out of SQPOLL) and
  the probing at import, an overflow of the completion ring, request priorities.
  linux_aio: `io_setup` and `io_destroy`, which happen before and after everything
  that is modelled.
* python_aio: the lock per file of systems without `pread`, and a `close()` inside
  `apply_async`, between the pool's check of its state and its queue.
* The selector `caio/__init__.py`: a choice made once, at import, with no state after
  that. Interfaces, stubs, packaging, benchmarks and examples have no behaviour of
  the running program.

The data that is read and written is abstracted to whether it is there.
Model-checked but not proved: all liveness, because fairness and ENABLED are beyond the
prover (`AcceptedTasksRun`, `DestroyReturns`, `AcceptedCompletes`, `CallsReturn`,
`FlushReturns`, `ClaimsSettle`, `AwaiterResumes`). The library's induction
theorems, which take an operator as a parameter, cannot be used with the provers at
hand; what `SequenceLemmas` proves of the recursive function `Only` for sequences of
every length rests on a least counterexample instead (`LeastNatural`, from the
library's `WFMin`).
