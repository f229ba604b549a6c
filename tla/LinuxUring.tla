----------------------------- MODULE LinuxUring -----------------------------
(***************************************************************************)
(* caio/linux_uring.c: Contexts that share a submission ring and a         *)
(* completion ring with the kernel.  submit() stages Operations, flush()   *)
(* hands what is staged to the kernel, and flush() and process_events()    *)
(* drain completions and run the callbacks, which may call all of these    *)
(* again.                                                                  *)
(*                                                                         *)
(* The rings are sequences; what counts is which entries the kernel has    *)
(* consumed and which completions have been drained.  A thread's stack of  *)
(* drains with callbacks still to run is its frames.  The kernel submits,  *)
(* completes and signals the eventfd between any two steps.                *)
(***************************************************************************)
EXTENDS Batches, Integers, FiniteSets

CONSTANTS
  Context, Op, Client,
  ReadOp,        (* the Operations made by Operation.read                  *)
  Entries,       (* sq_ring_entries                                        *)
  MaxBatch,      (* bound: Operations in one submit()                      *)
  MaxCancels,    (* bound: calls of cancel()                               *)
  MaxDepth,      (* bound: drains nested in callbacks                      *)
  Method,        (* bound: the methods the program uses                    *)
  Waiter,        (* bound: the threads that wait in process_events         *)
  MinRequests, MaxRequests, (* bound: the arguments of process_events      *)
  FreeThreaded,  (* Py_GIL_DISABLED                                        *)
  MaySqpoll,     (* what the set-up of a Context may negotiate: a subset   *)
                 (* of BOOLEAN, TRUE for IORING_SETUP_SQPOLL               *)
  StoreBuffer,   (* a store to sq_tail may become visible after a later    *)
                 (* load of sq_flags, as on every common processor         *)
  EnterFails,    (* io_uring_enter may return an error                     *)
  Sentinel,      (* an entry or completion of a cancellation               *)
  NoContext, NoOne

ASSUME UringAssumption ==
  /\ Entries \in Nat \ {0} /\ MaxBatch \in Nat /\ MaxCancels \in Nat
  /\ MaxDepth \in Nat
  /\ ReadOp \subseteq Op /\ Waiter \subseteq Client
  /\ MinRequests \subseteq Nat /\ MaxRequests \subseteq Nat \ {0}
  /\ {FreeThreaded, StoreBuffer, EnterFails} \cup MaySqpoll \subseteq BOOLEAN
  /\ NoContext \notin Context /\ NoOne \notin Client /\ Sentinel \notin Op

VARIABLES
  gil, section,       (* as in ThreadAio                                   *)
  handle, ctxRefs, opRefs,
  sqpoll,     (* per Context: IORING_SETUP_SQPOLL was negotiated           *)
  sq,         (* the entries up to sq_tail the kernel has not consumed     *)
  sqHead,     (* how many it has consumed                                  *)
  hidden,     (* how many of sq, the last ones, are in a store buffer, ... *)
  storer,     (* ... and in which thread's                                 *)
  kernel,     (* the Operations the kernel works on                        *)
  poller,     (* SQPOLL: the kernel thread is "awake", "drowsy" (it has    *)
              (* set NEED_WAKEUP and looks once more) or "asleep"          *)
  cq,         (* the completions from cq_head to cq_tail                   *)
  signalled,  (* the eventfd's counter is not zero                         *)
  in_progress, done, context,      (* AIOOperation                         *)
  exposed,    (* the program holds the bytes object a read fills           *)
  called,     (* history: how often the callback has run                   *)
  flushed,    (* history: flush() has seen to the entries before this one  *)
  cancels,    (* how often cancel() was called                             *)
  pc, on, todo, staging, arg,  (* per thread: the method it is in, its     *)
              (* Context, the Operations still to be treated, those in     *)
              (* SQEs but not before sq_tail, and the call's numbers       *)
  frames      (* per thread: its drains, innermost last, with the          *)
              (* Operations whose callbacks have not returned              *)

rings == <<sq, sqHead, hidden, storer, kernel, poller, cq, signalled>>
operation == <<opRefs, in_progress, done, context, exposed, called>>
references == <<handle, ctxRefs>>
calls == <<pc, on, todo, staging, arg, frames>>
vars == <<sqpoll, gil, section, references, rings, operation, flushed, cancels, calls>>

Batch == UNION {[1 .. n -> Op] : n \in 1 .. MaxBatch}
NoArg == [n |-> 0, goal |-> 0, max |-> 0, timed |-> FALSE]

InitContext ==
  /\ sqpoll \in [Context -> MaySqpoll]
  /\ section = [c \in Context |-> NoOne]
  /\ handle = [c \in Context |-> TRUE]
  /\ ctxRefs = [c \in Context |-> 1]
  /\ sq = [c \in Context |-> <<>>]
  /\ sqHead = [c \in Context |-> 0]
  /\ hidden = [c \in Context |-> 0]
  /\ storer = [c \in Context |-> NoOne]
  /\ kernel = [c \in Context |-> {}]
  /\ poller = [c \in Context |-> "awake"]
  /\ cq = [c \in Context |-> <<>>]
  /\ signalled = [c \in Context |-> FALSE]

(* Made by Operation.read, write, fsync or fdsync.                         *)
InitOperation ==
  /\ opRefs = [o \in Op |-> 1]
  /\ in_progress = [o \in Op |-> FALSE]
  /\ done = [o \in Op |-> FALSE]
  /\ context = [o \in Op |-> NoContext]
  /\ exposed = [o \in Op |-> FALSE]

Init ==
  /\ gil = NoOne
  /\ InitContext
  /\ InitOperation
  /\ called = [o \in Op |-> 0]
  /\ flushed = [c \in Context |-> 0]
  /\ cancels = 0
  /\ pc = [a \in Client |-> "idle"]
  /\ on = [a \in Client |-> NoContext]
  /\ todo = [a \in Client |-> <<>>]
  /\ staging = [a \in Client |-> <<>>]
  /\ arg = [a \in Client |-> NoArg]
  /\ frames = [a \in Client |-> <<>>]

Set(f, x, v) == f' = [f EXCEPT ![x] = v]

Enters(a, method, c, numbers) ==
  Set(pc, a, method) /\ Set(on, a, c) /\ Set(arg, a, numbers)
Leaves(a) == Enters(a, "idle", NoContext, NoArg)

HasGil(a) == gil \in {a, NoOne}
KeepGil(a) == gil' = IF FreeThreaded THEN NoOne ELSE a
LeaveGil == gil' = NoOne

(* A thread that is in no method runs Python code, a callback's if it has  *)
(* frames.  It can call any method of a Context it can reach, through its  *)
(* own reference or as the context of an Operation in flight.              *)
MayCall(a, method) == method \in Method /\ pc[a] = "idle" /\ HasGil(a)
Reachable(c) == handle[c] \/ \E o \in Op : context[o] = c

-----------------------------------------------------------------------------
(* submit(), the types of its arguments checked: sq_head is read once.     *)
SubmitBegin(a, c, ops) ==
  /\ MayCall(a, "submit") /\ Reachable(c)
  /\ section[c] = NoOne
  /\ Set(section, c, a)
  /\ Enters(a, "submit", c, [NoArg EXCEPT !.n = Len(sq[c])])
  /\ Set(todo, a, ops)
  /\ KeepGil(a)
  /\ UNCHANGED <<references, rings, operation, flushed, cancels, staging,
                 frames>>

NextInBatch(a, o) == pc[a] = "submit" /\ todo[a] # <<>> /\ o = Head(todo[a])

(* The exchange on in_progress found 1.                                    *)
Skip(a, o) ==
  /\ NextInBatch(a, o)
  /\ in_progress[o]
  /\ Set(todo, a, Tail(todo[a]))
  /\ UNCHANGED <<gil, section, references, rings, operation, flushed, cancels,
                 pc, on, staging, arg, frames>>

ClaimUntilDone(o) == ~done[o]
Claim(o) == ~in_progress[o]

RoomForOneMore(used) == used <= Entries
Room(used) == used < Entries

BorrowsContext(c) == ctxRefs' = ctxRefs
HoldsContext(c) == Set(ctxRefs, c, ctxRefs[c] + 1)

(* It found 0 and there is a free SQE: it is filled.                       *)
Stage(a, o) ==
  /\ NextInBatch(a, o)
  /\ Claim(o)
  /\ Room(arg[a].n)
  /\ Set(in_progress, o, TRUE)
  /\ Set(staging, a, Append(staging[a], o))
  /\ Set(arg, a, [arg[a] EXCEPT !.n = @ + 1])
  /\ Set(opRefs, o, opRefs[o] + 1)
  /\ Set(context, o, on[a])
  /\ HoldsContext(on[a])
  /\ Set(todo, a, Tail(todo[a]))
  /\ UNCHANGED <<gil, section, handle, rings, done, exposed, called, flushed,
                 cancels, pc, on, frames>>

(* It found 0 and there is none: the claim is given back, ...              *)
Full(a, o) ==
  /\ NextInBatch(a, o)
  /\ Claim(o)
  /\ ~Room(arg[a].n)
  /\ Set(in_progress, o, TRUE)
  /\ Set(pc, a, "full")
  /\ UNCHANGED <<gil, section, references, rings, opRefs, done, context,
                 exposed, called, flushed, cancels, on, todo, staging, arg,
                 frames>>

KeepsClaim(o) == in_progress' = in_progress
GivesBack(o) == Set(in_progress, o, FALSE)

(* The store to sq_tail that covers n more entries.  A thread that is in   *)
(* the critical section sees what others have stored, and so do all.       *)
StoresTail(a, c, n) ==
  LET delayed == n + IF storer[c] = a THEN hidden[c] ELSE 0
  IN  IF sqpoll[c] /\ StoreBuffer
        THEN /\ Set(hidden, c, delayed)
             /\ Set(storer, c, IF delayed = 0 THEN NoOne ELSE a)
        ELSE UNCHANGED <<hidden, storer>>

CommitsStaged(a) == Set(sq, on[a], sq[on[a]] \o staging[a])

(* sq_tail is stored and the critical section left.                        *)
Commit(a) ==
  /\ CommitsStaged(a)
  /\ StoresTail(a, on[a], Len(staging[a]))
  /\ Set(section, on[a], NoOne)
  /\ Set(staging, a, <<>>)
  /\ Set(todo, a, <<>>)
  /\ Leaves(a)
  /\ LeaveGil
  /\ UNCHANGED <<references, sqHead, kernel, poller, cq, signalled, opRefs,
                 done, context, exposed, called, flushed, cancels, frames>>

(* ... what was staged before it is committed, and submit() raises.        *)
SubmitRaises(a) ==
  /\ pc[a] = "full"
  /\ GivesBack(Head(todo[a]))
  /\ Commit(a)

SubmitEnd(a) ==
  /\ pc[a] = "submit" /\ todo[a] = <<>>
  /\ Commit(a)
  /\ UNCHANGED in_progress

(* A store buffer empties by itself, or with a system call of its thread.  *)
StoreVisible(c) ==
  /\ hidden[c] > 0
  /\ Set(hidden, c, 0) /\ Set(storer, c, NoOne)
  /\ UNCHANGED <<gil, section, references, sq, sqHead, kernel, poller, cq,
                 signalled, operation, flushed, cancels, calls>>

EmptiesBuffer(a) ==
  /\ hidden' = [c \in Context |-> IF storer[c] = a THEN 0 ELSE hidden[c]]
  /\ storer' = [c \in Context |-> IF storer[c] = a THEN NoOne ELSE storer[c]]

-----------------------------------------------------------------------------
(* The kernel consumes the first k entries: an Operation goes to work, a   *)
(* cancellation is executed at once and completes.                         *)
Consumes(c, k) ==
  LET taken == SubSeq(sq[c], 1, k)
      sentinels == Only(taken, {Sentinel})
  IN  /\ Set(sq, c, SubSeq(sq[c], k + 1, Len(sq[c])))
      /\ Set(sqHead, c, sqHead[c] + k)
      /\ Set(kernel, c, kernel[c] \cup ({taken[i] : i \in 1 .. k} \ {Sentinel}))
      /\ Set(cq, c, cq[c] \o sentinels)
      /\ Set(signalled, c, signalled[c] \/ sentinels # <<>>)

(* How many entries io_uring_enter(to_submit) consumes, at least one if it *)
(* can.  A negative number is a huge unsigned one.                         *)
Submittable(c, n) ==
  LET most == IF sqpoll[c] THEN 0
              ELSE IF n < 0 \/ n > Len(sq[c]) THEN Len(sq[c]) ELSE n
  IN  IF most = 0 THEN {0} ELSE 1 .. most

(* An Operation completes, with its result, an error or ECANCELED.         *)
Complete(c, o) ==
  /\ o \in kernel[c]
  /\ Set(kernel, c, kernel[c] \ {o})
  /\ Set(cq, c, Append(cq[c], o))
  /\ Set(signalled, c, TRUE)
  /\ UNCHANGED <<gil, section, references, sq, sqHead, hidden, storer,
                 poller, operation, flushed, cancels, calls>>

(* The SQPOLL thread takes entries while it is awake; before it sleeps it  *)
(* sets NEED_WAKEUP and then looks at sq_tail once more.                   *)
Visible(c) == Len(sq[c]) - hidden[c]

PollerTakes(c) ==
  /\ sqpoll[c] /\ poller[c] = "awake" /\ Visible(c) > 0
  /\ Consumes(c, 1)
  /\ UNCHANGED <<gil, section, references, hidden, storer, poller,
                 operation, flushed, cancels, calls>>

PollerRests(c) ==
  /\ sqpoll[c]
  /\ \/ /\ poller[c] = "awake" /\ Visible(c) = 0
        /\ Set(poller, c, "drowsy")
     \/ /\ poller[c] = "drowsy"
        /\ Set(poller, c, IF Visible(c) > 0 THEN "awake" ELSE "asleep")
  /\ UNCHANGED <<gil, section, references, sq, sqHead, hidden, storer,
                 kernel, cq, signalled, operation, flushed, cancels, calls>>

-----------------------------------------------------------------------------
(* flush() without SQPOLL: sq_tail is read, then sq_head, ...              *)
FlushBegin(a, c) ==
  /\ MayCall(a, "flush") /\ Reachable(c) /\ ~sqpoll[c]
  /\ Enters(a, "flush-head", c, [NoArg EXCEPT !.goal = sqHead[c] + Len(sq[c])])
  /\ KeepGil(a)
  /\ UNCHANGED <<section, references, rings, operation, flushed, cancels,
                 todo, staging, frames>>

FlushReadsHead(a) ==
  /\ pc[a] = "flush-head"
  /\ LET pending == arg[a].goal - sqHead[on[a]] IN
       IF pending = 0
         THEN Leaves(a) /\ LeaveGil
         ELSE /\ Enters(a, "flush", on[a], [arg[a] EXCEPT !.n = pending])
              /\ UNCHANGED gil
  /\ UNCHANGED <<section, references, rings, operation, flushed, cancels,
                 todo, staging, frames>>

EntersOnce(n, k) == 0
ForgetsConsumed(n, k) == n
Remaining(n, k) == n - k

(* ... and io_uring_enter is called until as many entries are consumed.    *)
FlushEnters(a) ==
  /\ pc[a] = "flush"
  /\ \E k \in Submittable(on[a], arg[a].n) :
       /\ Consumes(on[a], k)
       /\ LET left == Remaining(arg[a].n, k) IN
            /\ Set(arg, a, [arg[a] EXCEPT !.n = left])
            /\ IF left # 0 THEN UNCHANGED <<pc, flushed>>
               ELSE /\ Set(pc, a, "drain")
                    /\ Set(flushed, on[a],
                           IF arg[a].goal > flushed[on[a]] THEN arg[a].goal
                           ELSE flushed[on[a]])
  /\ UNCHANGED <<gil, section, references, hidden, storer, poller,
                 operation, cancels, on, todo, staging, frames>>

(* An error of io_uring_enter is raised, and nothing is drained.           *)
FlushFails(a) ==
  /\ EnterFails
  /\ pc[a] = "flush"
  /\ Leaves(a)
  /\ LeaveGil
  /\ UNCHANGED <<section, references, rings, operation, flushed, cancels,
                 todo, staging, frames>>

Wakes(c) == "awake"

(* flush() with SQPOLL: the thread is woken if it has set NEED_WAKEUP; an  *)
(* error of that call is raised and changes nothing.                       *)
FlushWakes(a, c) ==
  /\ MayCall(a, "flush") /\ Reachable(c) /\ sqpoll[c]
  /\ Set(poller, c, Wakes(c))
  /\ IF poller[c] = "awake" THEN UNCHANGED <<hidden, storer>> ELSE EmptiesBuffer(a)
  /\ Set(flushed, c, sqHead[c] + Len(sq[c]))
  /\ Enters(a, "drain", c, NoArg)
  /\ KeepGil(a)
  /\ UNCHANGED <<section, references, sq, sqHead, kernel, cq, signalled,
                 operation, cancels, todo, staging, frames>>

-----------------------------------------------------------------------------
(* cancel(): an entry is staged and committed, and io_uring_enter is       *)
(* called for one entry, its result ignored.                               *)
Cancel(a, c) ==
  /\ MayCall(a, "cancel") /\ Reachable(c)
  /\ section[c] = NoOne
  /\ cancels < MaxCancels
  /\ Room(Len(sq[c]))
  /\ Set(sq, c, Append(sq[c], Sentinel))
  /\ StoresTail(a, c, 1)
  /\ cancels' = cancels + 1
  /\ Enters(a, "cancel", c, NoArg)
  /\ KeepGil(a)
  /\ UNCHANGED <<section, references, sqHead, kernel, poller, cq, signalled,
                 operation, flushed, todo, staging, frames>>

CancelEnters(a) ==
  /\ pc[a] = "cancel"
  /\ \E k \in Submittable(on[a], 1) \cup (IF EnterFails THEN {0} ELSE {}) :
       Consumes(on[a], k)
  /\ EmptiesBuffer(a)
  /\ Leaves(a)
  /\ LeaveGil
  /\ UNCHANGED <<section, references, poller, operation, flushed, cancels,
                 todo, staging, frames>>

-----------------------------------------------------------------------------
(* process_events(max, min, timeout): with min = 0, or a timeout of 0, it  *)
(* drains at once; else it waits, without the GIL.                         *)
ProcessEvents(a, c, min, max, timed) ==
  /\ MayCall(a, "process_events") /\ Reachable(c)
  /\ min <= max
  /\ Enters(a, IF min = 0 THEN "drain" ELSE "check", c,
            [NoArg EXCEPT !.n = min, !.max = max, !.timed = timed])
  /\ IF min = 0 THEN KeepGil(a) ELSE a \in Waiter /\ LeaveGil
  /\ UNCHANGED <<section, references, rings, operation, flushed, cancels,
                 todo, staging, frames>>

(* The completions of cancellations are counted as well.                   *)
Enough(c, min) == Len(cq[c]) >= min

WaitChecks(a) ==
  /\ pc[a] = "check"
  /\ Set(pc, a, IF Enough(on[a], arg[a].n) THEN "drain" ELSE "sleep")
  /\ UNCHANGED <<gil, section, references, rings, operation, flushed, cancels,
                 on, todo, staging, arg, frames>>

WaitFails(a) ==
  /\ EnterFails
  /\ pc[a] = "check" /\ HasGil(a)
  /\ Leaves(a)
  /\ UNCHANGED <<gil, section, references, rings, operation, flushed, cancels,
                 todo, staging, frames>>

(* poll(2) on the eventfd returns because of the counter or of the         *)
(* deadline; the counter is read after that.                               *)
WaitWakes(a) ==
  /\ pc[a] = "sleep"
  /\ \/ signalled[on[a]] /\ Set(pc, a, "woken")
     \/ arg[a].timed /\ Set(pc, a, "drain")
  /\ UNCHANGED <<gil, section, references, rings, operation, flushed, cancels,
                 on, todo, staging, arg, frames>>

ClearsCounter(c) == Set(signalled, c, FALSE)

WaitReads(a) ==
  /\ pc[a] = "woken"
  /\ ClearsCounter(on[a])
  /\ Set(pc, a, "check")
  /\ UNCHANGED <<gil, section, references, sq, sqHead, hidden, storer,
                 kernel, poller, cq, operation, flushed, cancels, on, todo,
                 staging, arg, frames>>

(* poll(): the counter is read; it raises when that is zero.               *)
PollCounter(a, c) ==
  /\ MayCall(a, "poll") /\ Reachable(c)
  /\ signalled[c]
  /\ ClearsCounter(c)
  /\ UNCHANGED <<gil, section, references, sq, sqHead, hidden, storer,
                 kernel, poller, cq, operation, flushed, cancels, calls>>

-----------------------------------------------------------------------------
Real(s) == Only(s, Op)

(* uring_drain_cq scans up to the max-th completion of an Operation, or to *)
(* the end.  A max of 0 stands for UINT32_MAX.                             *)
Scanned(s, max) ==
  LET ends == {n \in 0 .. Len(s) :
                 \/ n = Len(s)
                 \/ max # 0 /\ Len(Real(SubSeq(s, 1, n))) >= max}
  IN  CHOOSE n \in ends : \A m \in ends : n <= m

LeavesLast(s, n) == IF n = 0 THEN s ELSE SubSeq(s, n, Len(s))
After(s, n) == SubSeq(s, n + 1, Len(s))

ReleasesLater(c, n) == ctxRefs' = ctxRefs
Releases(c, n) == Set(ctxRefs, c, ctxRefs[c] - n)

(* It takes the whole batch out of the ring and settles its Operations in  *)
(* the critical section, before it runs the first callback.                *)
Drain(a) ==
  /\ pc[a] = "drain" /\ HasGil(a)
  /\ LET c == on[a]
         n == Scanned(cq[c], arg[a].max)
         batch == Real(SubSeq(cq[c], 1, n))
         settled == {batch[i] : i \in 1 .. Len(batch)}
     IN  /\ section[c] = NoOne
         /\ Set(cq, c, After(cq[c], n))
         /\ done' = [o \in Op |-> done[o] \/ o \in settled]
         /\ context' = [o \in Op |-> IF o \in settled THEN NoContext
                                     ELSE context[o]]
         /\ Releases(c, Len(batch))
         /\ IF batch = <<>> THEN UNCHANGED frames
            ELSE Set(frames, a, Append(frames[a], [ctx |-> c, ops |-> batch]))
  /\ Leaves(a)
  /\ LeaveGil
  /\ UNCHANGED <<section, handle, sq, sqHead, hidden, storer, kernel,
                 poller, signalled, opRefs, in_progress, exposed, called,
                 flushed, cancels, todo, staging>>

(* A callback returns, raising or not, and the ring's reference to its     *)
(* Operation is released; the next callback of the batch begins.           *)
CallbackReturns(a) ==
  /\ pc[a] = "idle" /\ HasGil(a)
  /\ frames[a] # <<>>
  /\ LET depth == Len(frames[a])
         ops == frames[a][depth].ops
         o == Head(ops)
     IN  /\ Set(opRefs, o, opRefs[o] - 1)
         /\ Set(called, o, called[o] + 1)
         /\ Set(frames, a, IF Len(ops) = 1 THEN SubSeq(frames[a], 1, depth - 1)
                           ELSE [frames[a] EXCEPT ![depth].ops = Tail(ops)])
  /\ UNCHANGED <<gil, section, references, rings, in_progress, done, context,
                 exposed, flushed, cancels, pc, on, todo, staging, arg>>

-----------------------------------------------------------------------------
ReadableAlways(o) == TRUE
Readable(o) == ~in_progress[o] \/ done[o]

(* get_value() or payload: the flags are looked at, ...                    *)
ReadBegin(a, o) ==
  /\ MayCall(a, "get_value")
  /\ Readable(o)
  /\ Enters(a, "read", NoContext, NoArg)
  /\ Set(todo, a, <<o>>)
  /\ KeepGil(a)
  /\ UNCHANGED <<section, references, rings, operation, flushed, cancels,
                 staging, frames>>

(* ... and then the bytes object itself is handed out, not a copy.         *)
ReadEnd(a) ==
  /\ pc[a] = "read"
  /\ LET o == Head(todo[a]) IN Set(exposed, o, exposed[o] \/ o \in ReadOp)
  /\ Set(todo, a, <<>>)
  /\ Leaves(a)
  /\ LeaveGil
  /\ UNCHANGED <<section, references, rings, opRefs, in_progress, done,
                 context, called, flushed, cancels, staging, frames>>

(* The program drops its reference to the Context.                         *)
Drop(a, c) ==
  /\ MayCall(a, "drop")
  /\ handle[c]
  /\ Set(handle, c, FALSE)
  /\ Set(ctxRefs, c, ctxRefs[c] - 1)
  /\ UNCHANGED <<gil, section, rings, operation, flushed, cancels, calls>>

-----------------------------------------------------------------------------
Call(a) ==
  /\ \/ \E c \in Context :
          \/ \E ops \in Batch : SubmitBegin(a, c, ops)
          \/ /\ Len(frames[a]) <= MaxDepth
             /\ \/ FlushBegin(a, c) \/ FlushWakes(a, c)
                \/ \E min \in MinRequests, max \in MaxRequests, timed \in BOOLEAN :
                     ProcessEvents(a, c, min, max, timed)
          \/ Cancel(a, c) \/ PollCounter(a, c) \/ Drop(a, c)
     \/ \E o \in Op : ReadBegin(a, o)
  /\ UNCHANGED sqpoll

(* What a thread does by itself once it has made a call.                   *)
Proceed(a) ==
  /\ \/ \E o \in Op : Skip(a, o) \/ Stage(a, o) \/ Full(a, o)
     \/ SubmitRaises(a) \/ SubmitEnd(a)
     \/ FlushReadsHead(a) \/ FlushEnters(a) \/ FlushFails(a)
     \/ CancelEnters(a)
     \/ WaitChecks(a) \/ WaitFails(a) \/ WaitWakes(a) \/ WaitReads(a)
     \/ Drain(a) \/ ReadEnd(a)
  /\ UNCHANGED sqpoll

Returns(a) == CallbackReturns(a) /\ UNCHANGED sqpoll

Kernel(c) ==
  /\ \/ \E o \in Op : Complete(c, o)
     \/ PollerTakes(c) \/ PollerRests(c) \/ StoreVisible(c)
  /\ UNCHANGED sqpoll

Next ==
  \/ \E a \in Client : Call(a) \/ Proceed(a) \/ Returns(a)
  \/ \E c \in Context : Kernel(c)

Spec == Init /\ [][Next]_vars

(* Every thread runs and gets the GIL when it keeps asking for it, and     *)
(* callbacks return.  Nothing forces an Operation to complete, or          *)
(* io_uring_enter to fail.                                                 *)
Fails(a) == FlushFails(a) \/ WaitFails(a)

Fairness ==
  \A a \in Client : SF_vars(Proceed(a) /\ ~Fails(a)) /\ SF_vars(Returns(a))

FairSpec == Spec /\ Fairness

-----------------------------------------------------------------------------
Entry == Op \cup {Sentinel}

TypeOK ==
  /\ sqpoll \in [Context -> BOOLEAN]
  /\ gil \in Client \cup {NoOne}
  /\ section \in [Context -> Client \cup {NoOne}]
  /\ handle \in [Context -> BOOLEAN] /\ signalled \in [Context -> BOOLEAN]
  /\ ctxRefs \in [Context -> Nat] /\ opRefs \in [Op -> Nat]
  /\ \A c \in Context : /\ sq[c] \in Seq(Entry) /\ Len(sq[c]) <= Entries
                        /\ \A a \in Client : section[c] = a =>
                             Len(sq[c]) + Len(staging[a]) <= Entries
                        /\ cq[c] \in Seq(Entry)
                        /\ hidden[c] \in 0 .. Len(sq[c])
                        /\ flushed[c] <= sqHead[c] + Len(sq[c])
  /\ storer \in [Context -> Client \cup {NoOne}]
  /\ sqHead \in [Context -> Nat] /\ flushed \in [Context -> Nat]
  /\ kernel \in [Context -> SUBSET Op]
  /\ poller \in [Context -> {"awake", "drowsy", "asleep"}]
  /\ {in_progress, done, exposed} \subseteq [Op -> BOOLEAN]
  /\ context \in [Op -> Context \cup {NoContext}]
  /\ called \in [Op -> Nat] /\ cancels \in 0 .. MaxCancels
  /\ pc \in [Client -> {"idle", "submit", "full", "flush-head", "flush", "cancel",
                        "check", "sleep", "woken", "drain", "read"}]
  /\ on \in [Client -> Context \cup {NoContext}]
  /\ \A a \in Client : /\ todo[a] \in Seq(Op) /\ staging[a] \in Seq(Op)
                       /\ Len(frames[a]) <= MaxDepth + 1

Count(s, e) == Cardinality({i \in 1 .. Len(s) : s[i] = e})

(* How often Operation o is staged for c, in c's rings or with the kernel. *)
InFlight(c, o) ==
  Count(sq[c], o) + Count(cq[c], o) + (IF o \in kernel[c] THEN 1 ELSE 0)
  + Cardinality({a \in Client : on[a] = c /\ Count(staging[a], o) > 0})

Awaiting(o) ==
  {f \in Client \X (1 .. MaxDepth + 1) :
     f[2] <= Len(frames[f[1]]) /\ Count(frames[f[1]][f[2]].ops, o) > 0}

(* A claimed Operation is in one place, from its SQE to the return of its  *)
(* callback, which runs once, however drains nest and race ("drain must    *)
(* reclaim exactly one leaked reference for this completion").             *)
CompletedOnce ==
  \A o \in Op :
    LET flights == Cardinality({c \in Context : InFlight(c, o) > 0})
    IN  /\ \A c \in Context : InFlight(c, o) <= 1
        /\ flights + Cardinality(Awaiting(o)) + called[o] <= 1
        /\ done[o] => Cardinality(Awaiting(o)) + called[o] = 1

(* A Context is held by the program and by its Operations in flight, an    *)
(* Operation by the program and by the ring until its callback returns.    *)
RefsExact ==
  /\ \A c \in Context :
       ctxRefs[c] = (IF handle[c] THEN 1 ELSE 0)
                    + Cardinality({o \in Op : InFlight(c, o) > 0})
  /\ \A o \in Op :
       opRefs[o] = 1 + Cardinality({c \in Context : InFlight(c, o) > 0})
                   + Cardinality(Awaiting(o))

(* op.context says in whose rings the Operation is, so the mappings stay   *)
(* in place "while the kernel may still be touching them"; and one that is *)
(* claimed and not done is in a ring, or a submit() is giving it back:     *)
(* none is lost, or free and staged, when the ring is full.                *)
ClaimedIsInFlight ==
  \A o \in Op :
    /\ \A c \in Context : context[o] = c <=> InFlight(c, o) = 1
    /\ (in_progress[o] /\ ~done[o]) <=>
         \/ \E c \in Context : InFlight(c, o) = 1
         \/ \E a \in Client : pc[a] = "full" /\ Head(todo[a]) = o

(* What a flush() has seen to is with the kernel, or the kernel's thread   *)
(* is on its way: it never sleeps on entries it was to be woken for.  This *)
(* is so without SQPOLL and, with it, where stores are not delayed.        *)
FlushReaches ==
  \A c \in Context :
    flushed[c] <= sqHead[c] \/ (sqpoll[c] /\ poller[c] # "asleep")

(* With the GIL, get_value() and payload never hand out the bytes object   *)
(* of an Operation that is in flight, although they look at its flags      *)
(* first ("not available while the operation is in flight").               *)
NotReadInFlight ==
  [][\A o \in Op : exposed'[o] /\ ~exposed[o] =>
       \A c \in Context : InFlight(c, o) = 0]_vars

(* The backend implements OneShot: an Operation claimed by submit() ends   *)
(* with one completion and one delivery, or is given back as new.          *)
Promise ==
  INSTANCE OneShot WITH
    state <- [o \in Op |-> IF called[o] > 0 THEN "delivered"
                           ELSE IF done[o] THEN "completed"
                           ELSE IF in_progress[o] THEN "claimed" ELSE "new"],
    owner <- [o \in Op |->
                IF ~in_progress[o] \/ done[o] THEN NoContext
                ELSE IF context[o] # NoContext THEN context[o]
                ELSE on[CHOOSE a \in Client : pc[a] = "full" /\ Head(todo[a]) = o]]
ImplementsOneShot == Promise!Spec

(* With the GIL, the loop of flush() ends, however few entries each call   *)
(* of io_uring_enter takes, and whatever ran before it ("Submit all        *)
(* pending SQEs to the kernel").                                           *)
FlushReturns ==
  \A a \in Client : pc[a] = "flush" ~> pc[a] # "flush"
=============================================================================
