----------------------------- MODULE ThreadAio ------------------------------
(***************************************************************************)
(* caio/thread_aio.c: Contexts that hand one-shot Operations to a thread   *)
(* pool each.  The pool is the one TaskPool promises and ThreadPool        *)
(* implements, with its worker threads named by the Operation they run.    *)
(*                                                                         *)
(* Actors are the Python threads (Client) and the workers, which run       *)
(* Python code too while they are in an Operation's callback.  With the    *)
(* GIL a method of the module is not interrupted; on a free-threaded build *)
(* only a Context's critical section and the atomic accesses order things. *)
(* What one thread does between two accesses that another can see is one   *)
(* step.                                                                   *)
(***************************************************************************)
EXTENDS Naturals, Sequences, FiniteSets

CONSTANTS
  Context, Op, Client,
  WriteOp,       (* the Operations made by Operation.write                 *)
  QueueSize,     (* max_requests, the size of a pool's queue               *)
  PoolSize,      (* pool_size                                              *)
  MaxBatch,      (* bound: Operations in one submit()                      *)
  Method,        (* bound: the methods the program uses                    *)
  Build,         (* what Py_GIL_DISABLED may be: a subset of BOOLEAN       *)
  CrossClose,    (* bound: a callback may close another Context            *)
  NoContext, NoOne

Actor == Client \cup Op

ASSUME AioAssumption ==
  /\ QueueSize \in Nat \ {0} /\ PoolSize \in Nat \ {0} /\ MaxBatch \in Nat
  /\ WriteOp \subseteq Op /\ Client \cap Op = {}
  /\ Build \subseteq BOOLEAN /\ CrossClose \in BOOLEAN
  /\ NoContext \notin Context /\ NoOne \notin Actor

VARIABLES
  freeThreaded, (* Py_GIL_DISABLED                                         *)
  gil,          (* the actor that keeps the GIL from one step to the next  *)
  section,      (* who is in the Context's critical section                *)
  pool,         (* "open" while self->pool is set; then what became of the *)
                (* pool: "draining", "freed" or, not all joined, "leaked"  *)
  queue,        (* the pool's queue of Operations                          *)
  handle,       (* the program still refers to the Context                 *)
  ctxRefs, opRefs,    (* reference counts                                  *)
  in_progress, done, ctx, payload, result, callback, (* AIOOperation       *)
  stage,        (* per Operation: "new", "queued", then where its worker   *)
                (* is: "started", "performed", "callback", "release",      *)
                (* "drop", and "over" when worker() has returned           *)
  local,        (* worker()'s own ctx pointer                              *)
  home,         (* the Context whose pool took the Operation               *)
  runs,         (* history: how often a worker started it                  *)
  pc, on, todo  (* per actor: the method it is in, its Context, the        *)
                (* Operations still to be treated                          *)

context == <<section, pool, queue, handle, ctxRefs>>
operation == <<opRefs, in_progress, done, ctx, payload, result, callback>>
workers == <<stage, local, home, runs>>
calls == <<pc, on, todo>>
vars == <<freeThreaded, gil, context, operation, workers, calls>>

Batch == UNION {[1 .. n -> Op] : n \in 1 .. MaxBatch}

InitContext ==
  /\ section = [c \in Context |-> NoOne]
  /\ pool = [c \in Context |-> "open"]
  /\ queue = [c \in Context |-> <<>>]
  /\ handle = [c \in Context |-> TRUE]
  /\ ctxRefs = [c \in Context |-> 1]

(* Made by Operation.read, write, fsync or fdsync.                         *)
InitOperation ==
  /\ opRefs = [o \in Op |-> 1]
  /\ in_progress = [o \in Op |-> FALSE]
  /\ done = [o \in Op |-> FALSE]
  /\ ctx = [o \in Op |-> NoContext]
  /\ payload = [o \in Op |-> TRUE]
  /\ result = [o \in Op |-> "none"]
  /\ callback = [o \in Op |-> FALSE]
  /\ stage = [o \in Op |-> "new"]
  /\ local = [o \in Op |-> NoContext]
  /\ home = [o \in Op |-> NoContext]
  /\ runs = [o \in Op |-> 0]

Init ==
  /\ freeThreaded \in Build
  /\ gil = NoOne
  /\ InitContext
  /\ InitOperation
  /\ pc = [a \in Actor |-> "idle"]
  /\ on = [a \in Actor |-> NoContext]
  /\ todo = [a \in Actor |-> <<>>]

Set(f, x, v) == f' = [f EXCEPT ![x] = v]

(* Actor a enters a method, and leaves it.                                 *)
Enters(a, method, c, ops) == Set(pc, a, method) /\ Set(on, a, c) /\ Set(todo, a, ops)
Leaves(a) == Enters(a, "idle", NoContext, <<>>)

-----------------------------------------------------------------------------
(* The GIL: a step that runs Python objects needs it, and a method keeps   *)
(* it until it returns or releases it.                                     *)
HasGil(a) == gil \in {a, NoOne}
KeepGil(a) == gil' = IF freeThreaded THEN NoOne ELSE a
LeaveGil == gil' = NoOne

(* An actor can call a method: a thread of the program at any time, a      *)
(* worker from inside the callback it runs.                                *)
MayCall(a, method) ==
  /\ method \in Method
  /\ pc[a] = "idle" /\ HasGil(a)
  /\ a \in Op => stage[a] = "callback"

-----------------------------------------------------------------------------
(* AIOContext_submit, the types of the arguments checked.  Under the GIL   *)
(* the critical section is a no-op, and nobody else can be in one.         *)
SubmitBegin(a, c, ops) ==
  /\ MayCall(a, "submit")
  /\ handle[c]
  /\ section[c] = NoOne
  /\ pool[c] = "open"
  /\ Set(section, c, a)
  /\ Enters(a, "submit", c, ops)
  /\ KeepGil(a)
  /\ UNCHANGED <<pool, queue, handle, ctxRefs, operation, workers>>

(* The exchange on in_progress found 1: the Operation is left out.         *)
Skip(a) ==
  /\ pc[a] = "submit" /\ todo[a] # <<>>
  /\ in_progress[Head(todo[a])]
  /\ Set(todo, a, Tail(todo[a]))
  /\ UNCHANGED <<gil, context, operation, workers, pc, on>>

ClaimUntilDone(o) == ~done[o]
ClaimAgain(o) == ~in_progress[o] \/ done[o]
Claim(o) == ~in_progress[o]

RoomForOneMore(c) == Len(queue[c]) <= QueueSize
Room(c) == Len(queue[c]) < QueueSize

LeaksRef(c) == ctxRefs' = ctxRefs
Unref(c) == Set(ctxRefs, c, ctxRefs[c] - 1)

KeepsContext(o) == ctx' = ctx
ForgetsContext(o) == Set(ctx, o, NoContext)

(* The exchange found 0, and the Operation refers to the Context and the   *)
(* pool to both before threadpool_add is called.                           *)
Claims(a, o, c) ==
  /\ pc[a] = "submit" /\ todo[a] # <<>>
  /\ o = Head(todo[a]) /\ c = on[a]
  /\ Claim(o)
  /\ Set(in_progress, o, TRUE)
  /\ Set(ctx, o, c)
  /\ Set(opRefs, o, opRefs[o] + 1)
  /\ Set(ctxRefs, c, ctxRefs[c] + 1)

(* threadpool_add takes the Operation.                                     *)
Accept(a, o, c) ==
  /\ Claims(a, o, c)
  /\ Room(c)
  /\ Set(queue, c, Append(queue[c], o))
  /\ Set(stage, o, "queued")
  /\ Set(home, o, c)
  /\ Set(todo, a, Tail(todo[a]))
  /\ UNCHANGED <<gil, section, pool, handle, done, payload, result, callback,
                 local, runs, pc, on>>

(* threadpool_add fails: the claim is given back,                          *)
Refuse(a, o, c) ==
  /\ Claims(a, o, c)
  /\ ~Room(c)
  /\ Set(pc, a, "refuse")
  /\ UNCHANGED <<gil, section, pool, queue, handle, done, payload, result,
                 callback, workers, on, todo>>

GiveBack(a) ==
  /\ pc[a] = "refuse"
  /\ Set(in_progress, Head(todo[a]), FALSE)
  /\ Set(pc, a, "forget")
  /\ UNCHANGED <<gil, context, opRefs, done, ctx, payload, result, callback,
                 workers, on, todo>>

(* and after that the pointer and the references are; submit() raises.     *)
Forget(a) ==
  /\ pc[a] = "forget"
  /\ LET o == Head(todo[a]) IN
       /\ ForgetsContext(o)
       /\ Set(opRefs, o, opRefs[o] - 1)
  /\ Unref(on[a])
  /\ Set(section, on[a], NoOne)
  /\ Leaves(a)
  /\ LeaveGil
  /\ UNCHANGED <<pool, queue, handle, in_progress, done, payload, result,
                 callback, workers>>

SubmitEnd(a) ==
  /\ pc[a] = "submit" /\ todo[a] = <<>>
  /\ Set(section, on[a], NoOne)
  /\ Leaves(a)
  /\ LeaveGil
  /\ UNCHANGED <<pool, queue, handle, ctxRefs, operation, workers>>

-----------------------------------------------------------------------------
EvenDuringSubmit(c) == TRUE
OutsideSubmit(c) == section[c] = NoOne

JoinWithGil(a) == KeepGil(a)
JoinWithoutGil(a) == LeaveGil

(* AIOContext_close_pool as far as threadpool_destroy, where the GIL is    *)
(* released: the pointer is swapped for NULL in the critical section.      *)
ClosePool(a, c, method) ==
  /\ OutsideSubmit(c)
  /\ pool[c] = "open"
  /\ Set(pool, c, "draining")
  /\ Enters(a, method, c, <<>>)
  /\ JoinWithoutGil(a)

(* AIOContext_close.  The second one finds NULL and changes nothing.       *)
Close(a, c) ==
  /\ MayCall(a, "close")
  /\ handle[c]
  /\ a \in Op /\ home[a] # c => CrossClose
  /\ ClosePool(a, c, "close")
  /\ UNCHANGED <<section, queue, handle, ctxRefs, operation, workers>>

(* The last reference to the Context is gone: AIOContext_dealloc.          *)
Dealloc(a, c) ==
  \/ ClosePool(a, c, "dealloc")
  \/ /\ pool[c] # "open"
     /\ LeaveGil
     /\ UNCHANGED <<pool, calls>>

(* The program drops its reference, while no method of the Context runs:   *)
(* a call holds a reference of its own.                                    *)
Drop(a, c) ==
  /\ MayCall(a, "drop")
  /\ handle[c]
  /\ \A b \in Actor : on[b] # c
  /\ Set(handle, c, FALSE)
  /\ Unref(c)
  /\ IF ctxRefs[c] = 1 THEN Dealloc(a, c) ELSE UNCHANGED <<gil, pool, calls>>
  /\ UNCHANGED <<section, queue, operation, workers>>

Busy == {"started", "performed", "callback", "release", "drop"}
RunsIn(c) == {o \in Op : home[o] = c /\ stage[o] \in Busy}

(* threadpool_destroy(graceful) returns: the workers have been joined, all *)
(* but the caller if it is one of them, which cannot join itself.  If it   *)
(* is the only one, nothing has been waited for.                           *)
DestroyReturn(a) ==
  /\ pc[a] \in {"close", "dealloc"}
  /\ HasGil(a)
  /\ LET c == on[a]
         self == a \in RunsIn(c)
     IN  /\ RunsIn(c) \subseteq {a}
         /\ queue[c] = <<>> \/ (self /\ PoolSize = 1)
         /\ Set(pool, c, IF self THEN "leaked" ELSE "freed")
  /\ Leaves(a)
  /\ UNCHANGED <<gil, section, queue, handle, ctxRefs, operation, workers>>

-----------------------------------------------------------------------------
(* AIOOperation_set_callback.                                              *)
SetCallback(a, o) ==
  /\ MayCall(a, "set_callback")
  /\ ~callback[o]
  /\ Set(callback, o, TRUE)
  /\ UNCHANGED <<gil, context, opRefs, in_progress, done, ctx, payload, result,
                 workers, calls>>

ReadableAlways(o) == TRUE
Readable(o) == ~in_progress[o] \/ done[o]

(* get_value() and payload: the check, and then the reading of the fields. *)
ReadBegin(a, o) ==
  /\ MayCall(a, "get_value")
  /\ Readable(o)
  /\ Enters(a, "read", NoContext, <<o>>)
  /\ KeepGil(a)
  /\ UNCHANGED <<context, operation, workers>>

ReadEnd(a) ==
  /\ pc[a] = "read"
  /\ Leaves(a)
  /\ LeaveGil
  /\ UNCHANGED <<context, operation, workers>>

-----------------------------------------------------------------------------
ServesWhileOpen(c) == queue[c] # <<>> /\ pool[c] = "open"
Serves(c) == queue[c] # <<>>

TakesClearedContext(o) == Set(local, o, NoContext)
TakesContext(o) == Set(local, o, ctx[o])

(* A worker of the pool takes the oldest Operation; worker() begins, with  *)
(* no GIL, by taking the Context out of it and by resetting its error.     *)
Start(c) ==
  /\ Serves(c)
  /\ Cardinality(RunsIn(c)) < PoolSize
  /\ LET o == Head(queue[c]) IN
       /\ TakesContext(o)
       /\ Set(ctx, o, NoContext)
       /\ Set(result, o, "none")
       /\ Set(stage, o, "started")
       /\ Set(runs, o, runs[o] + 1)
  /\ Set(queue, c, Tail(queue[c]))
  /\ UNCHANGED <<gil, section, pool, handle, ctxRefs, opRefs, in_progress, done,
                 payload, callback, home, calls>>

(* The system call returns and its result is written, still with no GIL.   *)
Perform(o) ==
  /\ stage[o] = "started"
  /\ Set(ctx, o, NoContext)
  /\ Set(result, o, "written")
  /\ Set(stage, o, "performed")
  /\ UNCHANGED <<gil, context, opRefs, in_progress, done, payload, callback,
                 local, home, runs, calls>>

ClearWritten(o) == payload' = [payload EXCEPT ![o] = @ /\ o \notin WriteOp]

(* With the GIL: a write's buffer is dropped, done is published, and the   *)
(* callback is called if there is one.                                     *)
Publish(o) ==
  /\ stage[o] = "performed"
  /\ HasGil(o)
  /\ ClearWritten(o)
  /\ Set(done, o, TRUE)
  /\ IF callback[o] THEN Set(stage, o, "callback") /\ LeaveGil
                    ELSE Set(stage, o, "release") /\ KeepGil(o)
  /\ UNCHANGED <<context, opRefs, in_progress, ctx, result, callback, local,
                 home, runs, calls>>

CallbackReturns(o) ==
  /\ stage[o] = "callback" /\ pc[o] = "idle"
  /\ HasGil(o)
  /\ Set(stage, o, "release")
  /\ KeepGil(o)
  /\ UNCHANGED <<context, operation, local, home, runs, calls>>

(* Py_DECREF(ctx): it may be the last reference, and then the worker tears *)
(* its own pool down.                                                      *)
ReleaseContext(o) ==
  /\ stage[o] = "release"
  /\ HasGil(o)
  /\ local[o] # NoContext
  /\ LET c == local[o] IN
       /\ Unref(c)
       /\ IF ctxRefs[c] = 1 THEN Dealloc(o, c)
          ELSE UNCHANGED <<pool, calls>> /\ KeepGil(o)
  /\ Set(local, o, NoContext)
  /\ Set(stage, o, "drop")
  /\ UNCHANGED <<section, queue, handle, operation, home, runs>>

(* Py_DECREF(op), and back to the pool.                                    *)
ReleaseOperation(o) ==
  /\ stage[o] = "drop" /\ pc[o] = "idle"
  /\ HasGil(o)
  /\ Set(opRefs, o, opRefs[o] - 1)
  /\ Set(stage, o, "over")
  /\ LeaveGil
  /\ UNCHANGED <<context, in_progress, done, ctx, payload, result, callback,
                 local, home, runs, calls>>

-----------------------------------------------------------------------------
SubmitStep(a) ==
  \/ Skip(a) \/ GiveBack(a) \/ Forget(a) \/ SubmitEnd(a)
  \/ \E o \in Op, c \in Context : Accept(a, o, c) \/ Refuse(a, o, c)

Call(a) ==
  \/ \E c \in Context :
       \/ \E ops \in Batch : SubmitBegin(a, c, ops)
       \/ Close(a, c) \/ Drop(a, c)
  \/ \E o \in Op : SetCallback(a, o) \/ ReadBegin(a, o)

WorkerStep(o) ==
  \/ Perform(o) \/ Publish(o) \/ CallbackReturns(o)
  \/ ReleaseContext(o) \/ ReleaseOperation(o)

Next ==
  /\ \/ \E a \in Actor : Call(a) \/ SubmitStep(a) \/ ReadEnd(a) \/ DestroyReturn(a)
     \/ \E c \in Context : Start(c)
     \/ \E o \in Op : WorkerStep(o)
  /\ UNCHANGED freeThreaded

Spec == Init /\ [][Next]_vars

(* The operating system runs every thread; the GIL goes to each thread     *)
(* that keeps asking for it (ceval_gil.c forces the switch); callbacks and *)
(* system calls return.  Nothing forces the program to make a call.        *)
OnBuild(step) == step /\ UNCHANGED freeThreaded
Fairness ==
  /\ \A a \in Actor : /\ WF_vars(OnBuild(SubmitStep(a)))
                      /\ WF_vars(OnBuild(ReadEnd(a)))
                      /\ SF_vars(OnBuild(DestroyReturn(a)))
  /\ \A c \in Context : WF_vars(OnBuild(Start(c)))
  /\ \A o \in Op : SF_vars(OnBuild(WorkerStep(o)))

FairSpec == Spec /\ Fairness

-----------------------------------------------------------------------------
TypeOK ==
  /\ freeThreaded \in BOOLEAN
  /\ gil \in Actor \cup {NoOne}
  /\ section \in [Context -> Actor \cup {NoOne}]
  /\ pool \in [Context -> {"open", "draining", "freed", "leaked"}]
  /\ \A c \in Context : queue[c] \in Seq(Op) /\ Len(queue[c]) <= QueueSize
  /\ handle \in [Context -> BOOLEAN]
  /\ ctxRefs \in [Context -> Nat] /\ opRefs \in [Op -> Nat]
  /\ in_progress \in [Op -> BOOLEAN] /\ done \in [Op -> BOOLEAN]
  /\ callback \in [Op -> BOOLEAN] /\ payload \in [Op -> BOOLEAN]
  /\ result \in [Op -> {"none", "written"}]
  /\ stage \in [Op -> Busy \cup {"new", "queued", "over"}]
  /\ {ctx, local, home} \subseteq [Op -> Context \cup {NoContext}]
  /\ runs \in [Op -> Nat]
  /\ pc \in [Actor -> {"idle", "submit", "refuse", "forget", "close",
                       "dealloc", "read"}]
  /\ on \in [Actor -> Context \cup {NoContext}]
  /\ \A a \in Actor : todo[a] \in Seq(Op)

Places(o) ==
  {p \in Context \X (1 .. QueueSize) :
     p[2] <= Len(queue[p[1]]) /\ queue[p[1]][p[2]] = o}

(* One-shot: an Operation is dispatched to one worker once, whatever the   *)
(* Contexts it is submitted to, concurrently or again, and however often   *)
(* it is named in one submit().                                            *)
DispatchedOnce == \A o \in Op : Cardinality(Places(o)) + runs[o] <= 1

(* What worker() will find in op->ctx, and keeps, is the Context whose     *)
(* pool runs it, "still set" in the "submit()-to-dispatch window"          *)
(* (AIOOperation_clear).                                                   *)
DispatchedWithContext ==
  \A o \in Op :
    /\ stage[o] = "queued" => ctx[o] = home[o]
    /\ stage[o] \in {"started", "performed", "callback", "release"} =>
         local[o] = home[o]

(* Every reference is the program's, a pool's, or a submit()'s that is     *)
(* about to give it back: none leaks and none is released twice, so a      *)
(* Context outlives its accepted Operations and these their workers.       *)
Refusing(c, o) ==
  {a \in Actor : pc[a] \in {"refuse", "forget"} /\ on[a] = c
                                              /\ Head(todo[a]) = o}
RefsExact ==
  /\ \A c \in Context :
       ctxRefs[c] =
         (IF handle[c] THEN 1 ELSE 0)
         + Cardinality({o \in Op : home[o] = c /\ stage[o] \notin {"drop", "over"}})
         + Cardinality(UNION {Refusing(c, o) : o \in Op})
  /\ \A o \in Op :
       opRefs[o] = 1 + (IF stage[o] \in {"new", "over"} THEN 0 ELSE 1)
                   + Cardinality(UNION {Refusing(c, o) : c \in Context})

(* No worker writes an Operation's fields while a getter that has passed   *)
(* its check reads them: "not available while the operation is in flight". *)
ReadersUndisturbed ==
  \A a \in Actor : pc[a] = "read" =>
    stage[todo[a][1]] \notin {"started", "performed"}

(* "An operation rejected because the worker pool's queue is full must     *)
(* remain fully retryable": once the refusing submit() is over the         *)
(* Operation is as it was made.                                            *)
RefusedIsRetryable ==
  \A o \in Op :
    ~in_progress[o] /\ (\A c \in Context : Refusing(c, o) = {}) =>
      stage[o] = "new" /\ ctx[o] = NoContext /\ payload[o] /\ result[o] = "none"

(* The backend implements OneShot: an Operation claimed for one Context is *)
(* given back, or ends with one completion and one delivery; it never      *)
(* changes after that and is never new again.                              *)
Promise ==
  INSTANCE OneShot WITH
    state <- [o \in Op |-> IF stage[o] \in {"drop", "over"} THEN "delivered"
                           ELSE IF done[o] THEN "completed"
                           ELSE IF in_progress[o] THEN "claimed" ELSE "new"],
    owner <- [o \in Op |-> IF ~in_progress[o] \/ done[o] THEN NoContext
                           ELSE IF local[o] # NoContext THEN local[o] ELSE ctx[o]]
ImplementsOneShot == Promise!Spec

(* Each Context keeps to what its pool promises: threadpool_add is never   *)
(* called on a pool that is shut down, threadpool_destroy is called once,  *)
(* and the memory goes away when nothing is queued or runs.  A pool whose  *)
(* threads were not all joined ("leaked") drains and is never freed.       *)
Pool(c) ==
  INSTANCE TaskPool WITH
    Task <- Op, Capacity <- QueueSize, Width <- PoolSize,
    pending <- queue[c],
    active <- RunsIn(c),
    finished <- {o \in Op : home[o] = c /\ stage[o] = "over"},
    mode <- IF pool[c] = "open" THEN "open"
            ELSE IF pool[c] = "freed" THEN "gone" ELSE "graceful"
ImplementsTaskPool ==
  /\ \A c \in Context : Pool(c)!Init
  /\ [][\A c \in Context : Pool(c)!Next \/ UNCHANGED Pool(c)!vars]_vars

(* Every accepted Operation completes, close() or not, and its worker lets *)
(* go of it.                                                               *)
AcceptedCompletes == \A o \in Op : stage[o] = "queued" ~> done[o] /\ stage[o] = "over"

(* Every method returns: close() from a callback joins all the workers but *)
(* its own, and none of them waits for it.                                 *)
CallsReturn == \A a \in Actor : pc[a] # "idle" ~> pc[a] = "idle"
=============================================================================
