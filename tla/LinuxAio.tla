------------------------------ MODULE LinuxAio ------------------------------
(***************************************************************************)
(* caio/linux_aio.c: Contexts of the kernel's AIO.  submit() claims the    *)
(* Operations of a batch and hands them to io_submit, which takes a prefix *)
(* of them; process_events() takes completions out of the kernel without   *)
(* the GIL, and then settles them one at a time, each before its own       *)
(* callback, which may call all of this again; cancel() settles the        *)
(* Operation itself when the kernel lets go of it.                         *)
(*                                                                         *)
(* submit() has no critical section: on a free-threaded build the atomic   *)
(* accesses to in_progress and done alone order what threads do.           *)
(***************************************************************************)
EXTENDS Naturals, Sequences, FiniteSets

CONSTANTS
  Context, Op, Client,
  MaxBatch,      (* bound: Operations in one submit()                      *)
  MaxDepth,      (* bound: process_events() and cancel() within callbacks  *)
  Method,        (* bound: the methods the program uses                    *)
  MinRequests, MaxRequests, (* bound: the arguments of process_events      *)
  Build,         (* what Py_GIL_DISABLED may be: a subset of BOOLEAN       *)
  MayRefuse,     (* bound: the builds on which io_submit takes fewer       *)
  NoContext, NoOne

ASSUME LinuxAssumption ==
  /\ MaxBatch \in Nat /\ MaxDepth \in Nat
  /\ MinRequests \subseteq Nat /\ MaxRequests \subseteq Nat \ {0}
  /\ Build \subseteq BOOLEAN /\ MayRefuse \subseteq Build
  /\ NoContext \notin Context /\ NoOne \notin Client

VARIABLES
  freeThreaded,       (* Py_GIL_DISABLED                                   *)
  gil,                (* as in ThreadAio                                   *)
  handle, ctxRefs, opRefs,
  kernel,     (* per Context: the Operations io_submit has taken           *)
  ring,       (* per Context: their completions, not yet gathered          *)
  signalled,  (* per Context: the eventfd's counter is not zero            *)
  in_progress, done, context,      (* AIOOperation                         *)
  called,     (* history: how often the callback has run                   *)
  pc, on, todo, claimed, arg,  (* per thread: the method it is in, its     *)
              (* Context, the Operations still to be treated, those it has *)
              (* claimed, and the call's numbers                           *)
  frames      (* per thread: the batches with callbacks still to run,      *)
              (* innermost last                                            *)

queues == <<kernel, ring, signalled>>
operation == <<opRefs, in_progress, done, context, called>>
references == <<handle, ctxRefs>>
calls == <<pc, on, todo, claimed, arg, frames>>
vars == <<freeThreaded, gil, references, queues, operation, calls>>

Batch == UNION {[1 .. n -> Op] : n \in 1 .. MaxBatch}
NoArg == [min |-> 0, max |-> 0, timed |-> TRUE]

InitContext ==
  /\ handle = [c \in Context |-> TRUE]
  /\ ctxRefs = [c \in Context |-> 1]
  /\ kernel = [c \in Context |-> {}]
  /\ ring = [c \in Context |-> <<>>]
  /\ signalled = [c \in Context |-> FALSE]

InitOperation ==
  /\ opRefs = [o \in Op |-> 1]
  /\ in_progress = [o \in Op |-> FALSE]
  /\ done = [o \in Op |-> FALSE]
  /\ context = [o \in Op |-> NoContext]
  /\ called = [o \in Op |-> 0]

Init ==
  /\ freeThreaded \in Build
  /\ gil = NoOne
  /\ InitContext
  /\ InitOperation
  /\ pc = [a \in Client |-> "idle"]
  /\ on = [a \in Client |-> NoContext]
  /\ todo = [a \in Client |-> <<>>]
  /\ claimed = [a \in Client |-> <<>>]
  /\ arg = [a \in Client |-> NoArg]
  /\ frames = [a \in Client |-> <<>>]

Set(f, x, v) == f' = [f EXCEPT ![x] = v]

Enters(a, method, c) == Set(pc, a, method) /\ Set(on, a, c)
Leaves(a) == Enters(a, "idle", NoContext)

HasGil(a) == gil \in {a, NoOne}
KeepGil(a) == gil' = IF freeThreaded THEN NoOne ELSE a
LeaveGil == gil' = NoOne

(* A thread in no method runs Python code, a callback's if it has frames.  *)
MayCall(a, method) == method \in Method /\ pc[a] = "idle" /\ HasGil(a)
Reachable(c) == handle[c] \/ \E o \in Op : context[o] = c

Elements(s) == {s[i] : i \in 1 .. Len(s)}
After(s, n) == SubSeq(s, n + 1, Len(s))

-----------------------------------------------------------------------------
(* submit(), the types of its arguments checked.                           *)
SubmitBegin(a, c, ops) ==
  /\ MayCall(a, "submit") /\ Reachable(c)
  /\ Enters(a, "submit", c)
  /\ Set(todo, a, ops)
  /\ KeepGil(a)
  /\ UNCHANGED <<references, queues, operation, claimed, arg, frames>>

NextInBatch(a, o) == pc[a] = "submit" /\ todo[a] # <<>> /\ o = Head(todo[a])

(* The exchange on in_progress found 1.                                    *)
Skip(a, o) ==
  /\ NextInBatch(a, o)
  /\ in_progress[o]
  /\ Set(todo, a, Tail(todo[a]))
  /\ UNCHANGED <<gil, references, queues, operation, pc, on, claimed, arg, frames>>

ClaimUntilDone(o) == ~done[o]
Free(o) == ~in_progress[o]

(* op->context is set to c, or to NULL, and the references follow.         *)
BorrowsContext(o, c) ==
  /\ Set(context, o, c)
  /\ ctxRefs' = [x \in Context |-> ctxRefs[x] - (IF x = context[o] THEN 1 ELSE 0)]
RefersTo(o, c) ==
  /\ Set(context, o, c)
  /\ ctxRefs' = [x \in Context |-> ctxRefs[x] + (IF x = c THEN 1 ELSE 0)
                                     - (IF x = context[o] THEN 1 ELSE 0)]

(* It found 0.                                                             *)
Claim(a, o) ==
  /\ NextInBatch(a, o)
  /\ Free(o)
  /\ Set(in_progress, o, TRUE)
  /\ RefersTo(o, on[a])
  /\ Set(opRefs, o, opRefs[o] + 1)
  /\ Set(claimed, a, Append(claimed[a], o))
  /\ Set(todo, a, Tail(todo[a]))
  /\ UNCHANGED <<gil, handle, queues, done, called, pc, on, arg, frames>>

(* io_submit takes the first n Operations, or fails and takes none.        *)
Accepted(n) ==
  {k \in 0 .. n : k = n \/ freeThreaded \in MayRefuse}

RollsBack(s, n) == After(s, n)

IoSubmit(a) ==
  /\ pc[a] = "submit" /\ todo[a] = <<>>
  /\ \E n \in Accepted(Len(claimed[a])) :
       LET rest == RollsBack(claimed[a], n) IN
       /\ Set(kernel, on[a],
              kernel[on[a]] \cup Elements(SubSeq(claimed[a], 1, n)))
       /\ Set(todo, a, rest)
       /\ IF rest = <<>> THEN Leaves(a) /\ LeaveGil
          ELSE Set(pc, a, "reopen") /\ UNCHANGED <<on, gil>>
  /\ Set(claimed, a, <<>>)
  /\ UNCHANGED <<references, ring, signalled, operation, arg, frames>>

(* The others are rolled back one by one: the claim is given back,         *)
Reopen(a) ==
  /\ pc[a] = "reopen"
  /\ Set(in_progress, Head(todo[a]), FALSE)
  /\ Set(pc, a, "forget")
  /\ UNCHANGED <<gil, references, queues, opRefs, done, context, called, on,
                 todo, claimed, arg, frames>>

(* and after that the pointer to the Context, and the reference.           *)
Forget(a) ==
  /\ pc[a] = "forget"
  /\ LET o == Head(todo[a]) IN
       /\ RefersTo(o, NoContext)
       /\ Set(opRefs, o, opRefs[o] - 1)
  /\ Set(todo, a, Tail(todo[a]))
  /\ IF Len(todo[a]) = 1 THEN Leaves(a) /\ LeaveGil
     ELSE Set(pc, a, "reopen") /\ UNCHANGED <<on, gil>>
  /\ UNCHANGED <<handle, queues, in_progress, done, called, claimed, arg, frames>>

-----------------------------------------------------------------------------
(* The kernel completes an Operation, with its result, an error or         *)
(* ECANCELED, and signals the eventfd given at submission.                 *)
Complete(c, o) ==
  /\ o \in kernel[c]
  /\ Set(kernel, c, kernel[c] \ {o})
  /\ Set(ring, c, Append(ring[c], o))
  /\ Set(signalled, c, TRUE)
  /\ UNCHANGED <<gil, references, operation, calls>>

-----------------------------------------------------------------------------
(* process_events(max, min, timeout): io_getevents runs without the GIL.   *)
ProcessEvents(a, c, min, max, timed) ==
  /\ MayCall(a, "process_events") /\ Reachable(c)
  /\ min <= max
  /\ Enters(a, "getevents", c)
  /\ Set(arg, a, [min |-> min, max |-> max, timed |-> timed])
  /\ LeaveGil
  /\ UNCHANGED <<references, queues, operation, todo, claimed, frames>>

Gathered(s, max) == IF Len(s) <= max THEN Len(s) ELSE max

(* It returns when there is enough, or at the deadline, with as many       *)
(* completions as there are, up to max.                                    *)
GetEvents(a) ==
  /\ pc[a] = "getevents"
  /\ LET c == on[a]
         n == Gathered(ring[c], arg[a].max)
     IN  /\ n >= arg[a].min \/ arg[a].timed
         /\ Set(ring, c, After(ring[c], n))
         /\ IF n = 0 THEN Leaves(a) /\ UNCHANGED frames
            ELSE /\ Enters(a, "settle", c)
                 /\ Set(frames, a, Append(frames[a],
                          [ctx |-> c, ops |-> SubSeq(ring[c], 1, n)]))
  /\ Set(arg, a, NoArg)
  /\ UNCHANGED <<gil, references, kernel, signalled, operation, todo, claimed>>

(* It fails, interrupted by a signal: nothing has been taken.              *)
GetEventsFails(a) ==
  /\ pc[a] = "getevents" /\ HasGil(a)
  /\ Leaves(a)
  /\ Set(arg, a, NoArg)
  /\ UNCHANGED <<gil, references, queues, operation, todo, claimed, frames>>

Top(a) == frames[a][Len(frames[a])]

SettlesWithContext(o) == Set(done, o, TRUE) /\ UNCHANGED <<context, ctxRefs>>
Settles(o) == RefersTo(o, NoContext) /\ Set(done, o, TRUE)

(* The next completion of the batch is settled and its callback begins.    *)
Settle(a) ==
  /\ pc[a] = "settle" /\ HasGil(a)
  /\ Settles(Head(Top(a).ops))
  /\ Leaves(a)
  /\ LeaveGil
  /\ UNCHANGED <<handle, queues, opRefs, in_progress, called, todo, claimed,
                 arg, frames>>

AbandonsBatch(ops) == <<>>
Remaining(ops) == Tail(ops)

(* The callback returns, raising or not, the kernel's reference is         *)
(* released, and it is the next one's turn.                                *)
CallbackReturns(a) ==
  /\ pc[a] = "idle" /\ HasGil(a)
  /\ frames[a] # <<>>
  /\ LET depth == Len(frames[a])
         o == Head(Top(a).ops)
         ops == Remaining(Top(a).ops)
     IN  /\ Set(opRefs, o, opRefs[o] - 1)
         /\ Set(called, o, called[o] + 1)
         /\ IF ops = <<>>
              THEN /\ Set(frames, a, SubSeq(frames[a], 1, depth - 1))
                   /\ LeaveGil
                   /\ UNCHANGED <<pc, on>>
              ELSE /\ Set(frames, a, [frames[a] EXCEPT ![depth].ops = ops])
                   /\ Enters(a, "settle", Top(a).ctx)
                   /\ KeepGil(a)
  /\ UNCHANGED <<references, queues, in_progress, done, context, todo, claimed, arg>>

-----------------------------------------------------------------------------
(* cancel(): io_cancel lets go of an Operation in the kernel, which is     *)
(* settled here and has its callback run by cancel().  When io_cancel      *)
(* fails nothing changes.                                                  *)
Cancel(a, c, o) ==
  /\ MayCall(a, "cancel") /\ Reachable(c)
  /\ o \in kernel[c]
  /\ Set(kernel, c, kernel[c] \ {o})
  /\ Settles(o)
  /\ Set(frames, a, Append(frames[a], [ctx |-> c, ops |-> <<o>>]))
  /\ UNCHANGED <<gil, handle, ring, signalled, opRefs, in_progress, called, pc,
                 on, todo, claimed, arg>>

(* What get_value() and payload ask before they read the Operation.        *)
Readable(o) == ~in_progress[o] \/ done[o]

(* poll(): the counter is read; it raises when that is zero.               *)
PollCounter(a, c) ==
  /\ MayCall(a, "poll") /\ Reachable(c)
  /\ signalled[c]
  /\ Set(signalled, c, FALSE)
  /\ UNCHANGED <<gil, references, kernel, ring, operation, calls>>

(* The program drops its reference to the Context.                         *)
Drop(a, c) ==
  /\ MayCall(a, "drop")
  /\ handle[c]
  /\ Set(handle, c, FALSE)
  /\ Set(ctxRefs, c, ctxRefs[c] - 1)
  /\ UNCHANGED <<gil, queues, operation, calls>>

-----------------------------------------------------------------------------
Call(a) ==
  \E c \in Context :
    \/ \E ops \in Batch : SubmitBegin(a, c, ops)
    \/ /\ Len(frames[a]) <= MaxDepth
       /\ \/ \E o \in Op : Cancel(a, c, o)
          \/ \E min \in MinRequests, max \in MaxRequests, timed \in BOOLEAN :
               ProcessEvents(a, c, min, max, timed)
    \/ PollCounter(a, c) \/ Drop(a, c)

Proceed(a) ==
  \/ \E o \in Op : Skip(a, o) \/ Claim(a, o)
  \/ IoSubmit(a) \/ Reopen(a) \/ Forget(a)
  \/ GetEvents(a) \/ GetEventsFails(a) \/ Settle(a) \/ CallbackReturns(a)

Next ==
  /\ \/ \E a \in Client : Call(a) \/ Proceed(a)
     \/ \E c \in Context, o \in Op : Complete(c, o)
  /\ UNCHANGED freeThreaded

Spec == Init /\ [][Next]_vars

-----------------------------------------------------------------------------
TypeOK ==
  /\ freeThreaded \in BOOLEAN
  /\ gil \in Client \cup {NoOne}
  /\ {handle, signalled} \subseteq [Context -> BOOLEAN]
  /\ ctxRefs \in [Context -> Nat] /\ opRefs \in [Op -> Nat]
  /\ kernel \in [Context -> SUBSET Op]
  /\ \A c \in Context : ring[c] \in Seq(Op)
  /\ {in_progress, done} \subseteq [Op -> BOOLEAN]
  /\ context \in [Op -> Context \cup {NoContext}]
  /\ called \in [Op -> Nat]
  /\ pc \in [Client -> {"idle", "submit", "reopen", "forget", "getevents", "settle"}]
  /\ on \in [Client -> Context \cup {NoContext}]
  /\ \A a \in Client :
       /\ todo[a] \in Seq(Op) /\ claimed[a] \in Seq(Op)
       /\ Len(frames[a]) <= MaxDepth + 1
       /\ \A i \in 1 .. Len(frames[a]) : frames[a][i].ops \in Seq(Op) \ {<<>>}

Count(s, o) == Cardinality({i \in 1 .. Len(s) : s[i] = o})

(* Where o is for c while it is claimed: with a submit(), in the kernel,   *)
(* completed there, or gathered and not yet settled.  Only the head of a   *)
(* batch can be settled, and it is unless its thread is about to.          *)
Submitting(c, o) == {a \in Client : on[a] = c /\ Count(claimed[a], o) > 0}
Gathering(c, o) ==
  {f \in Client \X (1 .. MaxDepth + 1) :
     /\ f[2] <= Len(frames[f[1]])
     /\ LET frame == frames[f[1]][f[2]]
            last == f[2] = Len(frames[f[1]]) /\ pc[f[1]] = "settle"
        IN  /\ frame.ctx = c
            /\ Count(frame.ops, o) > (IF o = Head(frame.ops) /\ ~last THEN 1 ELSE 0)}
InFlight(c, o) ==
  Cardinality(Submitting(c, o)) + (IF o \in kernel[c] THEN 1 ELSE 0)
  + Count(ring[c], o) + Cardinality(Gathering(c, o))

(* The thread that rolls o back from c, from io_submit on.                 *)
RollingBack(c, o) ==
  {a \in Client : pc[a] \in {"reopen", "forget"} /\ on[a] = c /\ Count(todo[a], o) > 0}

InCallback(o) ==
  {f \in Client \X (1 .. MaxDepth + 1) :
     /\ f[2] <= Len(frames[f[1]])
     /\ Head(frames[f[1]][f[2]].ops) = o
     /\ ~(f[2] = Len(frames[f[1]]) /\ pc[f[1]] = "settle")}

(* A claim is never lost and never doubled: an Operation claimed and not   *)
(* done is in one place, with the Context it refers to, until it is        *)
(* settled; and one that may be read is in none.  A claim the kernel has   *)
(* not taken is on its way back instead of "leaking its claim forever",    *)
(* and then refers to no Context.                                          *)
ClaimedIsInFlight ==
  \A o \in Op :
    LET places(c) == InFlight(c, o) + Cardinality({a \in RollingBack(c, o) :
                                        ~(pc[a] = "forget" /\ Head(todo[a]) = o)})
    IN  \A c \in Context :
          /\ places(c) = (IF ~Readable(o) /\ context[o] = c THEN 1 ELSE 0)
          /\ ~Readable(o) => context[o] # NoContext
          /\ ~in_progress[o] /\ RollingBack(c, o) = {} => context[o] # c

(* A Context is held by the program and by its claimed Operations, an      *)
(* Operation by the program and from its claim to the return of its        *)
(* callback: "released exactly once", set or not, raising or not.          *)
RefsExact ==
  /\ \A c \in Context :
       ctxRefs[c] = (IF handle[c] THEN 1 ELSE 0)
                    + Cardinality({o \in Op : InFlight(c, o) > 0
                                              \/ RollingBack(c, o) # {}})
  /\ \A o \in Op :
       opRefs[o] = 1 + Cardinality(InCallback(o))
         + Cardinality({c \in Context : InFlight(c, o) > 0 \/ RollingBack(c, o) # {}})

(* The backend implements OneShot: each Operation has one completion and   *)
(* one delivery, by process_events() or by cancel(), by one thread.        *)
Promise ==
  INSTANCE OneShot WITH
    state <- [o \in Op |-> IF called[o] > 0 THEN "delivered"
                           ELSE IF done[o] THEN "completed"
                           ELSE IF in_progress[o] THEN "claimed" ELSE "new"],
    owner <- [o \in Op |-> IF in_progress[o] /\ ~done[o] THEN context[o]
                           ELSE NoContext]
ImplementsOneShot == Promise!Spec
=============================================================================
