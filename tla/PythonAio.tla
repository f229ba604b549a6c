----------------------------- MODULE PythonAio ------------------------------
(***************************************************************************)
(* caio/python_aio.py: Contexts over multiprocessing.pool.ThreadPool.      *)
(* submit() claims an Operation and reserves a slot of the Context under   *)
(* the locks of both, and hands it to the pool after it has left them; a   *)
(* worker performs it; the pool's one result thread releases the slot,     *)
(* stores the result and runs the callback, which may call all of this.    *)
(*                                                                         *)
(* Actors are the program's threads and each Context's result thread,      *)
(* named by the Context.  A lock that is taken and released with nothing   *)
(* another thread can see in between is one step.                          *)
(***************************************************************************)
EXTENDS Naturals, Sequences, FiniteSets

CONSTANTS
  Context, Op, Client,
  MaxRequests,   (* max_requests                                           *)
  PoolSize,      (* pool_size                                              *)
  MaxBatch,      (* bound: Operations in one submit()                      *)
  Caller,        (* bound: the actors that call submit() and close()       *)
  NoContext, NoOne, NoOp

Actor == Client \cup Context

ASSUME PythonAssumption ==
  /\ MaxRequests \in Nat \ {0} /\ PoolSize \in Nat \ {0} /\ MaxBatch \in Nat
  /\ NoContext \notin Context /\ NoOne \notin Actor /\ NoOp \notin Op
  /\ Client \cap Context = {} /\ Caller \subseteq Actor
  /\ IsFiniteSet(Op)

VARIABLES
  opLock, ctxLock,    (* who holds operation._lock and context._lock       *)
  state,        (* _state of a Context                                     *)
  pool,         (* the state of its ThreadPool                             *)
  slots,        (* _in_progress of a Context                               *)
  in_progress,  (* of an Operation                                         *)
  stage,        (* where an Operation is: "new", "claimed", "queued" in    *)
                (* the pool, "performed" by a worker, "finished" (in the   *)
                (* pool's result queue), "released", "stored", "callback"  *)
                (* and "over"                                              *)
  home,         (* the Context that has claimed it                         *)
  written,      (* what get_value() goes by is there: written, exception   *)
  handling,     (* the Operation a Context's result thread is treating     *)
  pc, on, todo  (* per actor: the method it is in, its Context, the        *)
                (* Operations still to be treated                          *)

locks == <<opLock, ctxLock>>
context == <<state, pool, slots>>
operation == <<in_progress, stage, home, written, handling>>
calls == <<pc, on, todo>>
vars == <<locks, context, operation, calls>>

Batch == UNION {[1 .. n -> Op] : n \in 1 .. MaxBatch}

InitContext ==
  /\ ctxLock = [c \in Context |-> NoOne]
  /\ state = [c \in Context |-> "OPEN"]
  /\ pool = [c \in Context |-> "RUN"]
  /\ slots = [c \in Context |-> 0]
  /\ handling = [c \in Context |-> NoOp]

InitOperation ==
  /\ opLock = [o \in Op |-> NoOne]
  /\ in_progress = [o \in Op |-> FALSE]
  /\ stage = [o \in Op |-> "new"]
  /\ home = [o \in Op |-> NoContext]
  /\ written = [o \in Op |-> FALSE]

Init ==
  /\ InitContext
  /\ InitOperation
  /\ pc = [a \in Actor |-> "idle"]
  /\ on = [a \in Actor |-> NoContext]
  /\ todo = [a \in Actor |-> <<>>]

Set(f, x, v) == f' = [f EXCEPT ![x] = v]

Enters(a, method, c, ops) == Set(pc, a, method) /\ Set(on, a, c) /\ Set(todo, a, ops)
Leaves(a) == Enters(a, "idle", NoContext, <<>>)

InCallback(c) == handling[c] # NoOp /\ stage[handling[c]] = "callback"
MayCall(a) == a \in Caller /\ pc[a] = "idle" /\ (a \in Context => InCallback(a))

-----------------------------------------------------------------------------
(* submit(), the types of its arguments checked.                           *)
Submit(a, c, ops) ==
  /\ MayCall(a)
  /\ Enters(a, "execute", c, ops)
  /\ UNCHANGED <<locks, context, operation>>

SubmitEnd(a) ==
  /\ pc[a] = "execute" /\ todo[a] = <<>>
  /\ Leaves(a)
  /\ UNCHANGED <<locks, context, operation>>

IgnoresLock(o) == TRUE
Unlocked(o) == opLock[o] = NoOne

(* _execute takes the lock of the Operation, ...                           *)
LockOperation(a) ==
  /\ pc[a] = "execute" /\ todo[a] # <<>>
  /\ Unlocked(Head(todo[a]))
  /\ Set(opLock, Head(todo[a]), a)
  /\ Set(pc, a, "lock")
  /\ UNCHANGED <<ctxLock, context, operation, on, todo>>

OverFull(c) == slots[c] > MaxRequests
Full(c) == slots[c] >= MaxRequests

(* ... then that of the Context, and looks at both, ...                    *)
LockContext(a) ==
  /\ pc[a] = "lock"
  /\ ctxLock[on[a]] = NoOne
  /\ Set(ctxLock, on[a], a)
  /\ Set(pc, a, IF in_progress[Head(todo[a])] THEN "skip"
                ELSE IF state[on[a]] # "OPEN" \/ Full(on[a]) THEN "raise"
                ELSE "claim")
  /\ UNCHANGED <<opLock, context, operation, on, todo>>

Unlocks(a) ==
  /\ opLock' = [o \in Op |-> IF opLock[o] = a THEN NoOne ELSE opLock[o]]
  /\ ctxLock' = [c \in Context |-> IF ctxLock[c] = a THEN NoOne ELSE ctxLock[c]]

(* ... and leaves it out, or raises, which ends submit(), ...              *)
Skip(a) ==
  /\ pc[a] = "skip"
  /\ Unlocks(a)
  /\ Enters(a, "execute", on[a], Tail(todo[a]))
  /\ UNCHANGED <<context, operation>>

Raise(a) ==
  /\ pc[a] = "raise"
  /\ Unlocks(a)
  /\ Leaves(a)
  /\ UNCHANGED <<context, operation>>

(* ... or claims the Operation and reserves a slot.                        *)
Claim(a) ==
  /\ pc[a] = "claim"
  /\ LET o == Head(todo[a]) IN
       /\ Set(in_progress, o, TRUE)
       /\ Set(stage, o, "claimed")
       /\ Set(home, o, on[a])
  /\ Set(slots, on[a], slots[on[a]] + 1)
  /\ Unlocks(a)
  /\ Set(pc, a, "schedule")
  /\ UNCHANGED <<state, pool, written, handling, on, todo>>

(* apply_async, outside the locks: the pool takes it, or it is closed.     *)
Schedule(a) ==
  /\ pc[a] = "schedule"
  /\ IF pool[on[a]] = "RUN"
       THEN /\ Set(stage, Head(todo[a]), "queued")
            /\ Enters(a, "execute", on[a], Tail(todo[a]))
       ELSE /\ Set(pc, a, "rollback")
            /\ UNCHANGED <<stage, on, todo>>
  /\ UNCHANGED <<locks, context, in_progress, home, written, handling>>

KeepsSlot(c) == slots' = slots
ReleasesSlot(c) == Set(slots, c, slots[c] - 1)

(* _rollback_claim takes both locks again, and submit() raises.            *)
RollbackBegin(a) ==
  /\ pc[a] = "rollback"
  /\ Unlocked(Head(todo[a]))
  /\ Set(opLock, Head(todo[a]), a)
  /\ Set(pc, a, "unclaim")
  /\ UNCHANGED <<ctxLock, context, operation, on, todo>>

RollbackEnd(a) ==
  /\ pc[a] = "unclaim"
  /\ ctxLock[on[a]] = NoOne
  /\ LET o == Head(todo[a]) IN
       /\ Set(in_progress, o, FALSE)
       /\ Set(stage, o, "new")
       /\ Set(home, o, NoContext)
  /\ ReleasesSlot(on[a])
  /\ Unlocks(a)
  /\ Leaves(a)
  /\ UNCHANGED <<state, pool, written, handling>>

-----------------------------------------------------------------------------
(* close(): the state is looked at without the lock, and again with it.    *)
CloseBegin(a, c) ==
  /\ MayCall(a)
  /\ state[c] = "OPEN"
  /\ Enters(a, "close", c, <<>>)
  /\ UNCHANGED <<locks, context, operation>>

CloseLocks(a) ==
  /\ pc[a] = "close"
  /\ ctxLock[on[a]] = NoOne
  /\ IF state[on[a]] # "OPEN"
       THEN Leaves(a) /\ UNCHANGED <<ctxLock, state>>
       ELSE /\ Set(ctxLock, on[a], a)
            /\ Set(state, on[a], "CLOSING")
            /\ Set(pc, a, "closing")
            /\ UNCHANGED <<on, todo>>
  /\ UNCHANGED <<opLock, pool, slots, operation>>

TerminatesPool(c) == Set(pool, c, "TERMINATE")
ClosesPool(c) == Set(pool, c, "CLOSE")

ClosePool(a) ==
  /\ pc[a] = "closing"
  /\ ClosesPool(on[a])
  /\ Set(state, on[a], "CLOSED")
  /\ Unlocks(a)
  /\ Leaves(a)
  /\ UNCHANGED <<slots, operation>>

-----------------------------------------------------------------------------
Goes(o, from, to) == stage[o] = from /\ Set(stage, o, to)

(* A worker of the pool takes an Operation, unless the pool is terminated. *)
Start(c, o) ==
  /\ pool[c] # "TERMINATE"
  /\ home[o] = c
  /\ Cardinality({x \in Op : home[x] = c /\ stage[x] = "performed"}) < PoolSize
  /\ Goes(o, "queued", "performed")
  /\ UNCHANGED <<locks, context, in_progress, home, written, handling, calls>>

(* The system call returns, or raises, and the worker posts that.          *)
Finish(o) ==
  /\ Goes(o, "performed", "finished")
  /\ UNCHANGED <<locks, context, in_progress, home, written, handling, calls>>

-----------------------------------------------------------------------------
(* The result thread takes a result: on_success or on_error releases the   *)
(* slot first,                                                             *)
Release(c, o) ==
  /\ handling[c] = NoOp
  /\ home[o] = c
  /\ ctxLock[c] = NoOne
  /\ Goes(o, "finished", "released")
  /\ ReleasesSlot(c)
  /\ Set(handling, c, o)
  /\ UNCHANGED <<locks, state, pool, in_progress, home, written, calls>>

(* then stores what get_value() returns,                                   *)
Store(c) ==
  /\ handling[c] # NoOp
  /\ Goes(handling[c], "released", "stored")
  /\ Set(written, handling[c], TRUE)
  /\ UNCHANGED <<locks, context, in_progress, home, handling, calls>>

(* and takes the callback out of the Operation, to call it.                *)
InvokeCallback(c) ==
  /\ handling[c] # NoOp
  /\ opLock[handling[c]] = NoOne
  /\ Goes(handling[c], "stored", "callback")
  /\ UNCHANGED <<locks, context, in_progress, home, written, handling, calls>>

(* It returns, or what it raises goes to the excepthook.                   *)
CallbackReturns(c) ==
  /\ pc[c] = "idle"
  /\ handling[c] # NoOp
  /\ Goes(handling[c], "callback", "over")
  /\ Set(handling, c, NoOp)
  /\ UNCHANGED <<locks, context, in_progress, home, written, calls>>

-----------------------------------------------------------------------------
Call(a) ==
  \E c \in Context : CloseBegin(a, c) \/ \E ops \in Batch : Submit(a, c, ops)

Proceed(a) ==
  \/ SubmitEnd(a) \/ LockOperation(a) \/ LockContext(a) \/ Skip(a) \/ Raise(a)
  \/ Claim(a) \/ Schedule(a) \/ RollbackBegin(a) \/ RollbackEnd(a)
  \/ CloseLocks(a) \/ ClosePool(a)

Perform(o) == Finish(o) \/ \E c \in Context : Start(c, o)

Handle(c) ==
  \/ \E o \in Op : Release(c, o)
  \/ Store(c) \/ InvokeCallback(c) \/ CallbackReturns(c)

Next ==
  \/ \E a \in Actor : Call(a) \/ Proceed(a)
  \/ \E o \in Op : Perform(o)
  \/ \E c \in Context : Handle(c)

Spec == Init /\ [][Next]_vars

(* Every thread runs, and gets a lock it keeps asking for; system calls    *)
(* and callbacks return.  Nothing forces the program to make a call.       *)
Fairness ==
  /\ \A a \in Actor : SF_vars(Proceed(a))
  /\ \A o \in Op : WF_vars(Perform(o))
  /\ \A c \in Context : SF_vars(Handle(c))

FairSpec == Spec /\ Fairness

-----------------------------------------------------------------------------
TypeOK ==
  /\ opLock \in [Op -> Actor \cup {NoOne}]
  /\ ctxLock \in [Context -> Actor \cup {NoOne}]
  /\ state \in [Context -> {"OPEN", "CLOSING", "CLOSED"}]
  /\ pool \in [Context -> {"RUN", "CLOSE", "TERMINATE"}]
  /\ slots \in [Context -> 0 .. MaxRequests]
  /\ in_progress \in [Op -> BOOLEAN] /\ written \in [Op -> BOOLEAN]
  /\ stage \in [Op -> {"new", "claimed", "queued", "performed", "finished",
                       "released", "stored", "callback", "over"}]
  /\ home \in [Op -> Context \cup {NoContext}]
  /\ handling \in [Context -> Op \cup {NoOp}]
  /\ pc \in [Actor -> {"idle", "execute", "lock", "skip", "raise", "claim",
                       "schedule", "rollback", "unclaim", "close", "closing"}]
  /\ on \in [Actor -> Context \cup {NoContext}]
  /\ todo \in [Actor -> Seq(Op)]

Holding == {"claimed", "queued", "performed", "finished"}

(* A Context's count is the number of Operations it has claimed, and not   *)
(* rolled back and not got the result of: no slot leaks or is given back   *)
(* twice, whatever close() and other Contexts do, and an Operation has let *)
(* go of its slot before its callback, which may submit() the next.        *)
SlotsExact ==
  \A c \in Context :
    slots[c] = Cardinality({o \in Op : home[o] = c /\ stage[o] \in Holding})

(* The backend implements OneShot: two Contexts never both run an          *)
(* Operation, one whose scheduling failed is "retryable", and a callback   *)
(* finds the result get_value() returns.                                   *)
Promise ==
  INSTANCE OneShot WITH
    state <- [o \in Op |-> IF stage[o] \in {"callback", "over"} THEN "delivered"
                           ELSE IF written[o] THEN "completed"
                           ELSE IF in_progress[o] THEN "claimed" ELSE "new"],
    owner <- [o \in Op |-> IF ~written[o] THEN home[o] ELSE NoContext]
ImplementsOneShot == Promise!Spec

(* A claim is settled: the Operation is performed and its callback returns *)
(* although the Context is closed, or submit() rolls it back.              *)
ClaimsSettle == \A o \in Op : stage[o] = "claimed" ~> stage[o] \in {"new", "over"}
=============================================================================
