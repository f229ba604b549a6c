-------------------------- MODULE PythonAioProofs ---------------------------
(***************************************************************************)
(* Theorems about PythonAio, for every set of Contexts, threads and        *)
(* Operations, every max_requests and every size of a batch.               *)
(*                                                                         *)
(* PythonInvariant is inductive: TypeOK alone is not, because a count of   *)
(* slots stays in its range only if it counts what it stands for           *)
(* (SlotsExact); that needs a claim to be made under the locks whose       *)
(* holder has seen a free slot and a free Operation (Locking), and to be   *)
(* taken back by nobody but the submit() that made it (Scheduling).        *)
(***************************************************************************)
EXTENDS PythonAio, FiniteSetTheorems, SequenceTheorems, TLAPS

Current(a) == Head(todo[a])

InScheduling(a) == pc[a] \in {"schedule", "rollback", "unclaim"}
InExecute(a) == pc[a] \in {"lock", "skip", "raise", "claim"} \/ InScheduling(a)

(* What a thread in a method holds, and has seen under its locks.          *)
Holds(a) ==
  /\ pc[a] # "idle" => on[a] \in Context
  /\ InExecute(a) => todo[a] # <<>>
  /\ pc[a] \in {"lock", "skip", "raise", "claim", "unclaim"} => opLock[Current(a)] = a
  /\ pc[a] \in {"skip", "raise", "claim", "closing"} => ctxLock[on[a]] = a
  /\ pc[a] = "claim" => ~in_progress[Current(a)] /\ slots[on[a]] < MaxRequests
Locking == \A a \in Actor : Holds(a)

(* An Operation between its claim and the pool belongs to one submit().    *)
Schedules(a) ==
  InScheduling(a) =>
    /\ stage[Current(a)] = "claimed" /\ home[Current(a)] = on[a]
    /\ \A b \in Actor : InScheduling(b) /\ Current(b) = Current(a) => a = b
Scheduling == \A a \in Actor : Schedules(a)

(* What the flags and pointers say of where an Operation is.               *)
Stages ==
  /\ \A o \in Op :
       /\ in_progress[o] <=> stage[o] # "new"
       /\ home[o] \in Context <=> stage[o] # "new"
       /\ written[o] <=> stage[o] \in {"stored", "callback", "over"}
  /\ \A c \in Context : handling[c] # NoOp =>
       /\ home[handling[c]] = c
       /\ stage[handling[c]] \in {"released", "stored", "callback"}

PythonInvariant == TypeOK /\ Locking /\ Scheduling /\ Stages /\ SlotsExact

-----------------------------------------------------------------------------
(* The Operation a method is treating, and those after it.                 *)
LEMMA CurrentType ==
  ASSUME NEW a \in Actor, todo \in [Actor -> Seq(Op)], todo[a] # <<>>
  PROVE  Current(a) \in Op /\ Tail(todo[a]) \in Seq(Op)
<1>1. todo[a] \in Seq(Op)
  OBVIOUS
<1> QED
  BY <1>1, HeadTailProperties DEF Current

(* The argument of a submit() is a sequence of Operations.                 *)
LEMMA BatchType ==
  ASSUME NEW ops \in Batch
  PROVE  ops \in Seq(Op)
<1>1. PICK n \in 1 .. MaxBatch : ops \in [1 .. n -> Op]
  BY DEF Batch
<1>2. n \in Nat
  BY <1>1, PythonAssumption
<1> QED
  BY <1>1, <1>2, SeqDef

(* The Operations that hold a slot of a Context are finitely many.         *)
Held(c) == {o \in Op : home[o] = c /\ stage[o] \in Holding}

LEMMA HeldCount ==
  ASSUME NEW H \in SUBSET Op
  PROVE  /\ Cardinality(H) \in Nat
         /\ \A o \in Op \ H : Cardinality(H \cup {o}) = Cardinality(H) + 1
         /\ \A o \in H : /\ Cardinality(H \ {o}) = Cardinality(H) - 1
                         /\ Cardinality(H) > 0
<1>1. IsFiniteSet(H)
  BY FS_Subset, PythonAssumption
<1>2. Cardinality(H) \in Nat
  BY <1>1, FS_CardinalityType
<1>3. \A o \in Op \ H : Cardinality(H \cup {o}) = Cardinality(H) + 1
  BY <1>1, FS_AddElement
<1>4. \A o \in H : Cardinality(H \ {o}) = Cardinality(H) - 1
  BY <1>1, FS_RemoveElement
<1>5. \A o \in H : Cardinality(H) > 0
  BY <1>1, <1>2, FS_EmptySet
<1> QED
  BY <1>2, <1>3, <1>4, <1>5

LEMMA SlotsOfHeld ==
  /\ SlotsExact <=> \A c \in Context : slots[c] = Cardinality(Held(c))
  /\ \A c \in Context : Held(c) \in SUBSET Op
BY DEF SlotsExact, Held

(* A Context that has counted an Operation has a slot to give back.        *)
LEMMA HeldSlots ==
  ASSUME NEW c \in Context, NEW o \in Held(c), TypeOK, SlotsExact
  PROVE  slots[c] - 1 \in 0 .. MaxRequests
<1>1. slots[c] = Cardinality(Held(c)) /\ Held(c) \in SUBSET Op
  BY SlotsOfHeld
<1>2. slots[c] > 0
  BY <1>1, HeldCount
<1>3. slots[c] \in 0 .. MaxRequests
  BY DEF TypeOK
<1> QED
  BY <1>2, <1>3, PythonAssumption

-----------------------------------------------------------------------------
(* Every step keeps the types; a count stays in its range because a claim  *)
(* has seen room for it and a release finds what it lets go of counted.    *)
LEMMA NextTypeOK == PythonInvariant /\ [Next]_vars => TypeOK'
<1> SUFFICES ASSUME PythonInvariant, [Next]_vars PROVE TypeOK'
  OBVIOUS
<1> USE PythonAssumption DEF PythonInvariant, TypeOK, Actor, Set
<1>1. ASSUME NEW a \in Actor, NEW c \in Context, NEW ops \in Batch, Submit(a, c, ops)
      PROVE  TypeOK'
  <2>1. ops \in Seq(Op)
    BY BatchType
  <2> QED
    BY <1>1, <2>1 DEF Submit, Enters, locks, context, operation
<1>2. ASSUME NEW a \in Actor, SubmitEnd(a) \/ LockOperation(a) \/ LockContext(a)
                              \/ Raise(a) \/ RollbackBegin(a)
      PROVE  TypeOK'
  <2>1. CASE SubmitEnd(a)
    BY <2>1, EmptySeq DEF SubmitEnd, Leaves, Enters, locks, context, operation
  <2>2. CASE LockOperation(a)
    BY <2>2 DEF LockOperation, Unlocked, context, operation
  <2>3. CASE LockContext(a)
    BY <2>3 DEF LockContext, context, operation
  <2>4. CASE Raise(a)
    BY <2>4, EmptySeq DEF Raise, Unlocks, Leaves, Enters, context, operation
  <2>5. CASE RollbackBegin(a)
    BY <2>5 DEF RollbackBegin, Unlocked, context, operation
  <2> QED
    BY <1>2, <2>1, <2>2, <2>3, <2>4, <2>5
<1>3. ASSUME NEW a \in Actor, Skip(a) PROVE TypeOK'
  <2>1. on[a] \in Context /\ Tail(todo[a]) \in Seq(Op)
    BY <1>3, CurrentType DEF Skip, Locking, Holds, InExecute
  <2> QED
    BY <1>3, <2>1 DEF Skip, Unlocks, Enters, context, operation
<1>4. ASSUME NEW a \in Actor, Claim(a) PROVE TypeOK'
  <2>1. on[a] \in Context /\ Current(a) \in Op /\ slots[on[a]] < MaxRequests
    BY <1>4, CurrentType DEF Claim, Locking, Holds, InExecute
  <2>2. slots[on[a]] + 1 \in 0 .. MaxRequests
    BY <2>1
  <2> QED
    BY <1>4, <2>1, <2>2 DEF Claim, Unlocks, Current
<1>5. ASSUME NEW a \in Actor, Schedule(a) PROVE TypeOK'
  <2>1. on[a] \in Context /\ Current(a) \in Op /\ Tail(todo[a]) \in Seq(Op)
    BY <1>5, CurrentType DEF Schedule, Locking, Holds, InExecute, InScheduling
  <2>2. CASE pool[on[a]] = "RUN"
    <3>1. /\ stage' = [stage EXCEPT ![Current(a)] = "queued"]
          /\ pc' = [pc EXCEPT ![a] = "execute"]
          /\ on' = [on EXCEPT ![a] = on[a]]
          /\ todo' = [todo EXCEPT ![a] = Tail(todo[a])]
      BY <1>5, <2>2 DEF Schedule, Current, Enters
    <3> QED
      BY <1>5, <2>1, <3>1 DEF Schedule, locks, context
  <2>3. CASE pool[on[a]] # "RUN"
    <3>1. /\ UNCHANGED <<locks, context, operation, on, todo>>
          /\ pc' = [pc EXCEPT ![a] = "rollback"]
      BY <1>5, <2>3 DEF Schedule, operation
    <3> QED
      BY <3>1 DEF locks, context, operation
  <2> QED
    BY <2>2, <2>3
<1>6. ASSUME NEW a \in Actor, RollbackEnd(a) PROVE TypeOK'
  <2>1. on[a] \in Context /\ Current(a) \in Op
    BY <1>6, CurrentType DEF RollbackEnd, Locking, Holds, InExecute, InScheduling
  <2>2. Current(a) \in Held(on[a])
    BY <1>6, <2>1 DEF RollbackEnd, Scheduling, Schedules, InScheduling, Held, Holding
  <2>3. slots[on[a]] - 1 \in 0 .. MaxRequests
    BY <2>1, <2>2, HeldSlots
  <2> QED
    BY <1>6, <2>1, <2>3, EmptySeq
    DEF RollbackEnd, ReleasesSlot, Unlocks, Leaves, Enters, Current
<1>7. ASSUME NEW a \in Actor, NEW c \in Context, CloseBegin(a, c) PROVE TypeOK'
  BY <1>7, EmptySeq DEF CloseBegin, Enters, locks, context, operation
<1>8. ASSUME NEW a \in Actor, CloseLocks(a) \/ ClosePool(a) PROVE TypeOK'
  <2>1. on[a] \in Context
    BY <1>8 DEF CloseLocks, ClosePool, Locking, Holds
  <2>2. CASE CloseLocks(a) /\ state[on[a]] = "OPEN"
    <3>1. /\ ctxLock' = [ctxLock EXCEPT ![on[a]] = a]
          /\ state' = [state EXCEPT ![on[a]] = "CLOSING"]
          /\ pc' = [pc EXCEPT ![a] = "closing"]
          /\ UNCHANGED <<on, todo>>
      BY <2>2 DEF CloseLocks
    <3> QED
      BY <2>1, <2>2, <3>1 DEF CloseLocks, operation
  <2>4. CASE CloseLocks(a) /\ state[on[a]] # "OPEN"
    <3>1. Leaves(a) /\ UNCHANGED <<ctxLock, state>>
      BY <2>4 DEF CloseLocks
    <3> QED
      BY <2>4, <3>1, EmptySeq DEF CloseLocks, Leaves, Enters, operation
  <2>3. CASE ClosePool(a)
    BY <2>1, <2>3, EmptySeq DEF ClosePool, ClosesPool, Unlocks, Leaves, Enters, operation
  <2> QED
    BY <1>8, <2>2, <2>3, <2>4
<1>9. ASSUME NEW o \in Op, Perform(o) PROVE TypeOK'
  <2>1. /\ UNCHANGED <<locks, context, in_progress, home, written, handling, calls>>
        /\ \E to \in {"performed", "finished"} : stage' = [stage EXCEPT ![o] = to]
    BY <1>9 DEF Perform, Start, Finish, Goes
  <2> QED
    BY <2>1 DEF locks, context, calls
<1>10. ASSUME NEW c \in Context, NEW o \in Op, Release(c, o) PROVE TypeOK'
  <2>1. o \in Held(c)
    BY <1>10 DEF Release, Goes, Held, Holding
  <2>2. slots[c] - 1 \in 0 .. MaxRequests
    BY <2>1, HeldSlots
  <2> QED
    BY <1>10, <2>2 DEF Release, Goes, ReleasesSlot, locks, calls
<1>11. ASSUME NEW c \in Context, Store(c) \/ InvokeCallback(c) \/ CallbackReturns(c)
       PROVE  TypeOK'
  <2>1. handling[c] \in Op
    BY <1>11 DEF Store, InvokeCallback, CallbackReturns
  <2>2. CASE Store(c)
    BY <2>1, <2>2 DEF Store, Goes, locks, context, calls
  <2>3. CASE InvokeCallback(c)
    BY <2>1, <2>3 DEF InvokeCallback, Goes, locks, context, calls
  <2>4. CASE CallbackReturns(c)
    BY <2>1, <2>4 DEF CallbackReturns, Goes, locks, context, calls
  <2> QED
    BY <1>11, <2>2, <2>3, <2>4
<1>12. CASE UNCHANGED vars
  BY <1>12 DEF vars, locks, context, operation, calls
<1> QED
  BY <1>1, <1>2, <1>3, <1>4, <1>5, <1>6, <1>7, <1>8, <1>9, <1>10, <1>11, <1>12
  DEF Next, Call, Proceed, Handle

-----------------------------------------------------------------------------
(* What the others do leaves a thread what it holds and has seen, if they  *)
(* do not touch its locks, its Operation's claim and its Context's count.  *)
LEMMA OthersHold ==
  ASSUME NEW b \in Actor, TypeOK, Holds(b),
         pc'[b] = pc[b], on'[b] = on[b], todo'[b] = todo[b],
         \A o \in Op : opLock[o] = b => opLock'[o] = b,
         \A c \in Context : ctxLock[c] = b => ctxLock'[c] = b,
         pc[b] = "claim" => /\ ~in_progress'[Current(b)]
                            /\ slots'[on[b]] < MaxRequests
  PROVE  Holds(b)'
<1>1. InExecute(b) => Current(b) \in Op
  BY CurrentType DEF TypeOK, Holds
<1>2. Current(b)' = Current(b) /\ (InExecute(b)' <=> InExecute(b))
  BY DEF Current, InExecute, InScheduling
<1> QED
  BY <1>1, <1>2 DEF Holds, InExecute, InScheduling

(* A step of one thread takes locks that are free and leaves its own.      *)
LEMMA OthersKeepLocks ==
  ASSUME NEW a \in Actor, NEW b \in Actor, a # b, TypeOK,
         \/ UNCHANGED locks
         \/ Unlocks(a)
         \/ \E o \in Op : /\ opLock[o] = NoOne
                          /\ opLock' = [opLock EXCEPT ![o] = a]
                          /\ UNCHANGED ctxLock
         \/ \E c \in Context : /\ ctxLock[c] = NoOne
                               /\ ctxLock' = [ctxLock EXCEPT ![c] = a]
                               /\ UNCHANGED opLock
  PROVE  /\ \A o \in Op : opLock[o] = b => opLock'[o] = b
         /\ \A c \in Context : ctxLock[c] = b => ctxLock'[c] = b
BY PythonAssumption DEF TypeOK, Unlocks, locks

(* Every step keeps what threads hold and have seen.                       *)
LEMMA NextLocking == PythonInvariant /\ [Next]_vars => Locking'
<1> SUFFICES ASSUME PythonInvariant, [Next]_vars, NEW b \in Actor
             PROVE  Holds(b)'
  BY DEF Locking
<1> USE PythonAssumption
<1>a. TypeOK /\ Holds(b) /\ \A a \in Actor : Holds(a)
  BY DEF PythonInvariant, Locking
<1>b. ASSUME NEW a \in Actor, InExecute(a)
      PROVE  Current(a) \in Op /\ Tail(todo[a]) \in Seq(Op) /\ on[a] \in Context
  BY <1>a, <1>b, CurrentType DEF TypeOK, Holds, InExecute, InScheduling
<1>c. ASSUME UNCHANGED <<locks, calls, in_progress>>,
             \A c \in Context : slots'[c] <= slots[c] /\ slots'[c] \in Int
      PROVE  Holds(b)'
  <2>1. pc[b] = "claim" => slots'[on[b]] < MaxRequests
    BY <1>a, <1>c DEF TypeOK, Holds
  <2> QED
    BY <1>a, <1>c, <2>1, OthersHold DEF locks, calls, Holds
<1>d. ASSUME UNCHANGED <<locks, calls, in_progress, slots>> PROVE Holds(b)'
  <2>1. \A c \in Context : slots'[c] <= slots[c] /\ slots'[c] \in Int
    BY <1>a, <1>d DEF TypeOK
  <2> QED
    BY <1>c, <1>d, <2>1
<1>1. ASSUME NEW a \in Actor, NEW c \in Context,
             CloseBegin(a, c) \/ \E ops \in Batch : Submit(a, c, ops)
      PROVE  Holds(b)'
  <2>1. CASE a = b
    BY <1>a, <1>1, <2>1
    DEF Submit, CloseBegin, Set, Enters, locks, Holds, TypeOK, InExecute, InScheduling
  <2>2. CASE a # b
    <3>1. /\ pc'[b] = pc[b] /\ on'[b] = on[b] /\ todo'[b] = todo[b]
          /\ UNCHANGED <<in_progress, slots, opLock, ctxLock>>
      BY <1>a, <1>1, <2>2
      DEF Submit, CloseBegin, Set, Enters, locks, context, operation, TypeOK
    <3> QED
      BY <1>a, <3>1, OthersHold DEF Holds
  <2> QED
    BY <2>1, <2>2
<1>2. ASSUME NEW a \in Actor,
             \/ SubmitEnd(a) \/ LockOperation(a) \/ LockContext(a) \/ Skip(a)
             \/ Raise(a) \/ RollbackBegin(a) \/ CloseLocks(a) \/ ClosePool(a)
      PROVE  Holds(b)'
  <2>1. CASE a # b
    <3>1. /\ pc'[b] = pc[b] /\ on'[b] = on[b] /\ todo'[b] = todo[b]
          /\ UNCHANGED <<in_progress, slots>>
      BY <1>a, <1>2, <2>1
      DEF SubmitEnd, LockOperation, LockContext, Skip, Raise, RollbackBegin,
          CloseLocks, ClosePool, Set, Enters, Leaves, context, operation, TypeOK
    <3>2. /\ \A o \in Op : opLock[o] = b => opLock'[o] = b
          /\ \A c \in Context : ctxLock[c] = b => ctxLock'[c] = b
      <4>1. CASE SubmitEnd(a)
        BY <4>1 DEF SubmitEnd, locks
      <4>2. CASE LockOperation(a) \/ RollbackBegin(a)
        BY <1>a, <2>1, <4>2 DEF LockOperation, RollbackBegin, Unlocked, Set, TypeOK
      <4>3. CASE LockContext(a)
        BY <1>a, <2>1, <4>3 DEF LockContext, Set, TypeOK
      <4>4. CASE Skip(a) \/ Raise(a) \/ ClosePool(a)
        BY <1>a, <2>1, <4>4, OthersKeepLocks DEF Skip, Raise, ClosePool
      <4>5. CASE CloseLocks(a)
        BY <1>a, <2>1, <4>5 DEF CloseLocks, Set, TypeOK
      <4> QED
        BY <1>2, <4>1, <4>2, <4>3, <4>4, <4>5
    <3> QED
      BY <1>a, <3>1, <3>2, OthersHold DEF Holds
  <2>2. CASE a = b
    <3>1. CASE SubmitEnd(b) \/ Raise(b) \/ ClosePool(b)
      BY <1>a, <3>1
      DEF SubmitEnd, Raise, ClosePool, Set, Enters, Leaves, Holds, TypeOK, InExecute,
          InScheduling
    <3>2. CASE LockOperation(b)
      BY <1>a, <3>2, CurrentType
      DEF LockOperation, Set, Holds, TypeOK, InExecute, InScheduling, Current
    <3>3. CASE LockContext(b)
      BY <1>a, <1>b, <3>3
      DEF LockContext, Set, Full, Holds, TypeOK, InExecute, InScheduling, Current,
          context, operation
    <3>4. CASE Skip(b)
      BY <1>a, <3>4 DEF Skip, Set, Enters, Holds, TypeOK, InExecute, InScheduling
    <3>5. CASE RollbackBegin(b)
      BY <1>a, <1>b, <3>5
      DEF RollbackBegin, Set, Holds, TypeOK, InExecute, InScheduling, Current
    <3>6. CASE CloseLocks(b)
      <4>1. CASE state[on[b]] # "OPEN"
        BY <1>a, <3>6, <4>1
        DEF CloseLocks, Set, Enters, Leaves, Holds, TypeOK, InExecute, InScheduling
      <4>2. CASE state[on[b]] = "OPEN"
        BY <1>a, <3>6, <4>2
        DEF CloseLocks, Set, Holds, TypeOK, InExecute, InScheduling
      <4> QED
        BY <4>1, <4>2
    <3> QED
      BY <1>2, <2>2, <3>1, <3>2, <3>3, <3>4, <3>5, <3>6
  <2> QED
    BY <2>1, <2>2
<1>3. ASSUME NEW a \in Actor, Claim(a) PROVE Holds(b)'
  <2>1. CASE a # b
    <3>1. pc[b] = "claim" => Current(a) # Current(b) /\ on[a] # on[b]
      BY <1>a, <1>3, <2>1 DEF Claim, Holds
    <3>2. /\ pc'[b] = pc[b] /\ on'[b] = on[b] /\ todo'[b] = todo[b]
          /\ in_progress' = [in_progress EXCEPT ![Current(a)] = TRUE]
          /\ slots' = [slots EXCEPT ![on[a]] = slots[on[a]] + 1]
      BY <1>a, <1>3, <2>1 DEF Claim, Set, TypeOK, Current
    <3>3. pc[b] = "claim" => /\ ~in_progress'[Current(b)]
                             /\ slots'[on[b]] < MaxRequests
      BY <1>a, <1>b, <3>1, <3>2 DEF TypeOK, Holds, InExecute
    <3> QED
      BY <1>a, <1>3, <2>1, <3>2, <3>3, OthersHold, OthersKeepLocks DEF Claim
  <2>2. CASE a = b
    BY <1>a, <1>3, <2>2 DEF Claim, Set, Holds, TypeOK, InExecute, InScheduling
  <2> QED
    BY <2>1, <2>2
<1>4. ASSUME NEW a \in Actor, Schedule(a) PROVE Holds(b)'
  <2>1. CASE a # b
    <3>1. /\ pc'[b] = pc[b] /\ on'[b] = on[b] /\ todo'[b] = todo[b]
          /\ UNCHANGED <<in_progress, slots, opLock, ctxLock>>
      BY <1>a, <1>4, <2>1 DEF Schedule, Set, Enters, locks, context, TypeOK
    <3> QED
      BY <1>a, <3>1, OthersHold DEF Holds
  <2>2. CASE a = b
    BY <1>a, <1>4, <2>2
    DEF Schedule, Set, Enters, locks, context, TypeOK, Holds, InExecute, InScheduling
  <2> QED
    BY <2>1, <2>2
<1>5. ASSUME NEW a \in Actor, RollbackEnd(a) PROVE Holds(b)'
  <2>1. CASE a # b
    <3>1. /\ pc'[b] = pc[b] /\ on'[b] = on[b] /\ todo'[b] = todo[b]
          /\ in_progress' = [in_progress EXCEPT ![Current(a)] = FALSE]
          /\ slots' = [slots EXCEPT ![on[a]] = slots[on[a]] - 1]
      BY <1>a, <1>5, <2>1
      DEF RollbackEnd, ReleasesSlot, Set, Enters, Leaves, TypeOK, Current
    <3>2. pc[b] = "claim" => /\ ~in_progress'[Current(b)]
                             /\ slots'[on[b]] < MaxRequests
      BY <1>a, <1>b, <3>1 DEF TypeOK, Holds, InExecute
    <3> QED
      BY <1>a, <1>5, <2>1, <3>1, <3>2, OthersHold, OthersKeepLocks DEF RollbackEnd
  <2>2. CASE a = b
    BY <1>a, <1>5, <2>2
    DEF RollbackEnd, Set, Enters, Leaves, Holds, TypeOK, InExecute, InScheduling
  <2> QED
    BY <2>1, <2>2
<1>6. ASSUME NEW o \in Op, Perform(o) PROVE Holds(b)'
  BY <1>d, <1>6 DEF Perform, Start, Finish, context
<1>7. ASSUME NEW c \in Context, NEW o \in Op, Release(c, o) PROVE Holds(b)'
  <2>1. \A x \in Context : slots'[x] <= slots[x] /\ slots'[x] \in Int
    BY <1>a, <1>7 DEF Release, ReleasesSlot, Set, TypeOK
  <2> QED
    BY <1>c, <1>7, <2>1 DEF Release
<1>8. ASSUME NEW c \in Context, Store(c) \/ InvokeCallback(c) \/ CallbackReturns(c)
      PROVE  Holds(b)'
  BY <1>d, <1>8 DEF Store, InvokeCallback, CallbackReturns, context
<1>9. CASE UNCHANGED vars
  BY <1>d, <1>9 DEF vars, context, operation
<1>10. ASSUME NEW a \in Actor, Call(a) \/ Proceed(a) PROVE Holds(b)'
  <2>1. CASE Call(a)
    BY <1>1, <2>1 DEF Call
  <2>2. CASE Proceed(a)
    BY <1>2, <1>3, <1>4, <1>5, <2>2 DEF Proceed
  <2> QED
    BY <1>10, <2>1, <2>2
<1>11. ASSUME NEW c \in Context, Handle(c) PROVE Holds(b)'
  BY <1>7, <1>8, <1>11 DEF Handle
<1> QED
  BY <1>6, <1>9, <1>10, <1>11 DEF Next

-----------------------------------------------------------------------------
(* A claim stays with the submit() that made it.                           *)
LEMMA NextScheduling == PythonInvariant /\ [Next]_vars => Scheduling'
<1> SUFFICES ASSUME PythonInvariant, [Next]_vars PROVE Scheduling'
  OBVIOUS
<1> USE PythonAssumption
<1>a. TypeOK /\ \A a \in Actor : Holds(a) /\ Schedules(a)
  BY DEF PythonInvariant, Locking, Scheduling
<1>b. ASSUME NEW a \in Actor, InExecute(a)
      PROVE  Current(a) \in Op /\ on[a] \in Context
  BY <1>a, <1>b, CurrentType DEF TypeOK, Holds, InExecute, InScheduling
<1>c. ASSUME \A a \in Actor : InScheduling(a)' =>
               /\ InScheduling(a) /\ todo'[a] = todo[a] /\ on'[a] = on[a]
               /\ stage'[Current(a)] = stage[Current(a)]
               /\ home'[Current(a)] = home[Current(a)]
      PROVE  Scheduling'
  BY <1>a, <1>c DEF Scheduling, Schedules, Current
<1>1. ASSUME UNCHANGED <<stage, home>>, NEW a \in Actor,
             InScheduling(a)' =>
               InScheduling(a) /\ todo'[a] = todo[a] /\ on'[a] = on[a],
             \A b \in Actor \ {a} :
               pc'[b] = pc[b] /\ todo'[b] = todo[b] /\ on'[b] = on[b]
      PROVE  Scheduling'
  BY <1>c, <1>1 DEF InScheduling
<1>2. ASSUME NEW a \in Actor, NEW c \in Context,
             CloseBegin(a, c) \/ \E ops \in Batch : Submit(a, c, ops)
      PROVE  Scheduling'
  <2>1. UNCHANGED <<stage, home>> /\ ~InScheduling(a)'
    BY <1>a, <1>2
    DEF Submit, CloseBegin, Set, Enters, operation, InScheduling, TypeOK
  <2>2. \A b \in Actor \ {a} :
          pc'[b] = pc[b] /\ todo'[b] = todo[b] /\ on'[b] = on[b]
    BY <1>a, <1>2 DEF Submit, CloseBegin, Set, Enters, TypeOK
  <2> QED
    BY <1>1, <2>1, <2>2
<1>3. ASSUME NEW a \in Actor,
             \/ SubmitEnd(a) \/ LockOperation(a) \/ LockContext(a) \/ Skip(a)
             \/ Raise(a) \/ CloseLocks(a) \/ ClosePool(a)
      PROVE  Scheduling'
  <2>1. UNCHANGED <<stage, home>>
    BY <1>3 DEF SubmitEnd, LockOperation, LockContext, Skip, Raise, CloseLocks,
                ClosePool, operation
  <2>2. \A b \in Actor \ {a} :
          pc'[b] = pc[b] /\ todo'[b] = todo[b] /\ on'[b] = on[b]
    BY <1>a, <1>3
    DEF SubmitEnd, LockOperation, LockContext, Skip, Raise, CloseLocks, ClosePool,
        Set, Enters, Leaves, TypeOK
  <2>3. ~InScheduling(a)'
    BY <1>a, <1>3
    DEF SubmitEnd, LockOperation, LockContext, Skip, Raise, CloseLocks, ClosePool,
        Set, Enters, Leaves, InScheduling, TypeOK
  <2> QED
    BY <1>1, <2>1, <2>2, <2>3
<1>4. ASSUME NEW a \in Actor, RollbackBegin(a) PROVE Scheduling'
  BY <1>a, <1>1, <1>4 DEF RollbackBegin, Set, InScheduling, operation, TypeOK
<1>5. ASSUME NEW a \in Actor, Claim(a) PROVE Scheduling'
  <2>1. Current(a) \in Op /\ on[a] \in Context
    BY <1>b, <1>5 DEF Claim, InExecute
  <2>2. /\ stage' = [stage EXCEPT ![Current(a)] = "claimed"]
        /\ home' = [home EXCEPT ![Current(a)] = on[a]]
        /\ pc' = [pc EXCEPT ![a] = "schedule"]
        /\ UNCHANGED <<on, todo>>
    BY <1>5 DEF Claim, Set, Current
  <2>3. stage[Current(a)] = "new"
    BY <1>a, <1>5, <2>1 DEF Claim, Holds, PythonInvariant, Stages
  <2>4. \A b \in Actor : InScheduling(b) => Current(b) # Current(a)
    BY <1>a, <2>3 DEF Schedules
  <2>5. \A b \in Actor : Current(b)' = Current(b)
    BY <2>2 DEF Current
  <2>6. \A b \in Actor \ {a} : InScheduling(b)' = InScheduling(b)
    BY <1>a, <2>2 DEF InScheduling, TypeOK
  <2>7. Schedules(a)'
    BY <1>a, <2>1, <2>2, <2>4, <2>5, <2>6 DEF Schedules, TypeOK
  <2>8. ASSUME NEW b \in Actor, b # a PROVE Schedules(b)'
    <3>1. SUFFICES ASSUME InScheduling(b) PROVE Schedules(b)'
      BY <2>6, <2>8 DEF Schedules
    <3>2. Current(b) \in Op
      BY <1>b, <3>1 DEF InExecute
    <3>3. stage'[Current(b)] = "claimed" /\ home'[Current(b)] = on[b]
      BY <1>a, <2>2, <2>4, <3>1, <3>2 DEF Schedules, TypeOK
    <3> QED
      BY <1>a, <2>2, <2>4, <2>5, <2>6, <2>8, <3>1, <3>3 DEF Schedules
  <2> QED
    BY <2>7, <2>8 DEF Scheduling
<1>6. ASSUME NEW a \in Actor, Schedule(a) \/ RollbackEnd(a) PROVE Scheduling'
  <2>1. Current(a) \in Op /\ InScheduling(a)
    BY <1>b, <1>6 DEF Schedule, RollbackEnd, InExecute, InScheduling
  <2>2. \A o \in Op : o # Current(a) => stage'[o] = stage[o] /\ home'[o] = home[o]
    BY <1>a, <1>6, <2>1 DEF Schedule, RollbackEnd, Set, Current, TypeOK
  <2>3. \A b \in Actor \ {a} :
          pc'[b] = pc[b] /\ todo'[b] = todo[b] /\ on'[b] = on[b]
    BY <1>a, <1>6 DEF Schedule, RollbackEnd, Set, Enters, Leaves, TypeOK
  <2>4. ASSUME NEW b \in Actor \ {a}, InScheduling(b)
        PROVE  Current(b) \in Op /\ Current(b) # Current(a)
    BY <1>a, <1>b, <2>1, <2>4 DEF Schedules, InExecute
  <2>5. InScheduling(a)' => UNCHANGED <<stage, home, todo, on>>
    BY <1>a, <1>6
    DEF Schedule, RollbackEnd, Set, Enters, Leaves, InScheduling, TypeOK
  <2> QED
    BY <1>c, <2>1, <2>2, <2>3, <2>4, <2>5 DEF InScheduling
<1>7. ASSUME UNCHANGED <<calls, home>>,
             \A o \in Op : stage[o] = "claimed" => stage'[o] = stage[o]
      PROVE  Scheduling'
  <2>1. \A a \in Actor : InScheduling(a)' <=> InScheduling(a)
    BY <1>7 DEF InScheduling, calls
  <2>2. \A a \in Actor : InScheduling(a) => stage'[Current(a)] = stage[Current(a)]
    BY <1>a, <1>b, <1>7 DEF Schedules, InExecute
  <2> QED
    BY <1>c, <1>7, <2>1, <2>2 DEF calls
<1>8. ASSUME NEW o \in Op, Perform(o) PROVE Scheduling'
  BY <1>a, <1>7, <1>8 DEF Perform, Start, Finish, Goes, Set, TypeOK
<1>9. ASSUME NEW c \in Context, NEW o \in Op, Release(c, o) PROVE Scheduling'
  BY <1>a, <1>7, <1>9 DEF Release, Goes, Set, TypeOK
<1>10. ASSUME NEW c \in Context, Store(c) \/ InvokeCallback(c) \/ CallbackReturns(c)
       PROVE  Scheduling'
  BY <1>a, <1>7, <1>10
  DEF Store, InvokeCallback, CallbackReturns, Goes, Set, TypeOK
<1>11. CASE UNCHANGED vars
  BY <1>7, <1>11 DEF vars, operation
<1>12. ASSUME NEW a \in Actor, Call(a) \/ Proceed(a) PROVE Scheduling'
  <2>1. CASE Call(a)
    BY <1>2, <2>1 DEF Call
  <2>2. CASE Proceed(a)
    BY <1>3, <1>4, <1>5, <1>6, <2>2 DEF Proceed
  <2> QED
    BY <1>12, <2>1, <2>2
<1>13. ASSUME NEW c \in Context, Handle(c) PROVE Scheduling'
  BY <1>9, <1>10, <1>13 DEF Handle
<1> QED
  BY <1>8, <1>11, <1>12, <1>13 DEF Next

-----------------------------------------------------------------------------
(* Flags and pointers keep up with where an Operation is.                  *)
LEMMA NextStages == PythonInvariant /\ [Next]_vars => Stages'
<1> SUFFICES ASSUME PythonInvariant, [Next]_vars PROVE Stages'
  OBVIOUS
<1> USE PythonAssumption
<1>a. TypeOK /\ Stages /\ \A a \in Actor : Holds(a) /\ Schedules(a)
  BY DEF PythonInvariant, Locking, Scheduling
<1>b. ASSUME NEW a \in Actor, InExecute(a)
      PROVE  Current(a) \in Op /\ on[a] \in Context
  BY <1>a, <1>b, CurrentType DEF TypeOK, Holds, InExecute, InScheduling
<1>1. ASSUME UNCHANGED operation PROVE Stages'
  BY <1>a, <1>1 DEF operation, Stages
<1>p. ASSUME UNCHANGED <<in_progress, home, written, handling>>, NEW o \in Op,
             stage[o] \in Holding, NEW s \in Holding,
             stage' = [stage EXCEPT ![o] = s]
      PROVE  Stages'
  <2>1. \A x \in Op : x # o => stage'[x] = stage[x]
    BY <1>a, <1>p DEF TypeOK
  <2>2. stage'[o] = s
    BY <1>a, <1>p DEF TypeOK
  <2>3. \A c \in Context : handling[c] # NoOp => handling[c] \in Op /\ handling[c] # o
    <3>1. stage[o] \notin {"released", "stored", "callback"}
      BY <1>p DEF Holding
    <3>2. handling \in [Context -> Op \cup {NoOp}]
      BY <1>a DEF TypeOK
    <3>3. \A c \in Context :
            handling[c] # NoOp => stage[handling[c]] \in {"released", "stored", "callback"}
      BY <1>a DEF Stages
    <3> QED
      BY <3>1, <3>2, <3>3
  <2> QED
    BY <1>a, <1>p, <2>1, <2>2, <2>3 DEF Stages, Holding
<1>2. ASSUME NEW a \in Actor, Claim(a) PROVE Stages'
  <2>1. Current(a) \in Op /\ on[a] \in Context /\ ~in_progress[Current(a)]
    BY <1>a, <1>b, <1>2 DEF Claim, Holds, InExecute
  <2>2. stage[Current(a)] = "new"
    BY <1>a, <2>1 DEF Stages
  <2> QED
    BY <1>a, <1>2, <2>1, <2>2 DEF Claim, Set, Current, Stages, TypeOK
<1>3. ASSUME NEW a \in Actor, Schedule(a) PROVE Stages'
  <2>1. Current(a) \in Op /\ stage[Current(a)] = "claimed"
    BY <1>a, <1>b, <1>3 DEF Schedule, Schedules, InExecute, InScheduling
  <2>2. /\ UNCHANGED <<in_progress, home, written, handling>>
        /\ stage' = stage \/ stage' = [stage EXCEPT ![Current(a)] = "queued"]
    BY <1>3 DEF Schedule, Set, Current
  <2>3. CASE stage' = stage
    BY <1>1, <2>2, <2>3 DEF operation
  <2>4. CASE stage' = [stage EXCEPT ![Current(a)] = "queued"]
    BY <1>p, <2>1, <2>2, <2>4 DEF Holding
  <2> QED
    BY <2>2, <2>3, <2>4
<1>4. ASSUME NEW a \in Actor, RollbackEnd(a) PROVE Stages'
  <2>1. Current(a) \in Op /\ stage[Current(a)] = "claimed"
    BY <1>a, <1>b, <1>4 DEF RollbackEnd, Schedules, InExecute, InScheduling
  <2> QED
    BY <1>a, <1>4, <2>1 DEF RollbackEnd, Set, Current, Stages, TypeOK
<1>5. ASSUME NEW o \in Op, Perform(o) PROVE Stages'
  <2>1. /\ UNCHANGED <<in_progress, home, written, handling>>
        /\ \/ stage[o] = "queued" /\ stage' = [stage EXCEPT ![o] = "performed"]
           \/ stage[o] = "performed" /\ stage' = [stage EXCEPT ![o] = "finished"]
    BY <1>5 DEF Perform, Start, Finish, Goes, Set
  <2> QED
    BY <1>p, <2>1 DEF Holding
<1>6. ASSUME NEW c \in Context, NEW o \in Op, Release(c, o) PROVE Stages'
  BY <1>a, <1>6 DEF Release, Goes, Set, Stages, TypeOK
<1>7. ASSUME NEW c \in Context, Store(c) \/ InvokeCallback(c) \/ CallbackReturns(c)
      PROVE  Stages'
  <2>a. handling[c] # NoOp
    BY <1>7 DEF Store, InvokeCallback, CallbackReturns
  <2>1. handling[c] \in Op /\ home[handling[c]] = c
    BY <1>a, <2>a DEF Stages, TypeOK
  <2>2. CASE Store(c)
    BY <1>a, <2>1, <2>2 DEF Store, Goes, Set, Stages, TypeOK
  <2>3. CASE InvokeCallback(c)
    BY <1>a, <2>1, <2>3 DEF InvokeCallback, Goes, Set, Stages, TypeOK
  <2>4. CASE CallbackReturns(c)
    BY <1>a, <2>1, <2>4 DEF CallbackReturns, Goes, Set, Stages, TypeOK
  <2> QED
    BY <1>7, <2>2, <2>3, <2>4
<1>8. ASSUME NEW a \in Actor, Call(a) \/ Proceed(a) PROVE Stages'
  <2>1. CASE Call(a)
    BY <1>1, <2>1 DEF Call, CloseBegin, Submit
  <2>2. CASE \/ SubmitEnd(a) \/ LockOperation(a) \/ LockContext(a) \/ Skip(a)
             \/ Raise(a) \/ RollbackBegin(a) \/ CloseLocks(a) \/ ClosePool(a)
    BY <1>1, <2>2
    DEF SubmitEnd, LockOperation, LockContext, Skip, Raise, RollbackBegin,
        CloseLocks, ClosePool
  <2> QED
    BY <1>2, <1>3, <1>4, <1>8, <2>1, <2>2 DEF Proceed
<1>9. ASSUME NEW c \in Context, Handle(c) PROVE Stages'
  BY <1>6, <1>7, <1>9 DEF Handle
<1>10. CASE UNCHANGED vars
  BY <1>1, <1>10 DEF vars
<1> QED
  BY <1>5, <1>8, <1>9, <1>10 DEF Next

(* A claim, a rollback and a result change the count of one Context by the *)
(* Operation they are about.                                               *)
LEMMA NextSlotsExact == PythonInvariant /\ [Next]_vars => SlotsExact'
<1> SUFFICES ASSUME PythonInvariant, [Next]_vars PROVE SlotsExact'
  OBVIOUS
<1> USE PythonAssumption
<1>a. /\ TypeOK /\ Stages /\ SlotsExact
      /\ \A a \in Actor : Holds(a) /\ Schedules(a)
  BY DEF PythonInvariant, Locking, Scheduling
<1>b. ASSUME NEW a \in Actor, InExecute(a)
      PROVE  Current(a) \in Op /\ on[a] \in Context
  BY <1>a, <1>b, CurrentType DEF TypeOK, Holds, InExecute, InScheduling
<1>c. ASSUME \A c \in Context : slots'[c] = Cardinality(Held(c)') PROVE SlotsExact'
  BY <1>c DEF SlotsExact, Held
<1>1. ASSUME UNCHANGED <<slots, home>>,
             \A o \in Op : stage'[o] \in Holding <=> stage[o] \in Holding
      PROVE  SlotsExact'
  <2>1. \A c \in Context : Held(c)' = Held(c)
    BY <1>1 DEF Held
  <2> QED
    BY <1>a, <1>c, <1>1, <2>1, SlotsOfHeld
<1>2. ASSUME NEW c \in Context, NEW o \in Op, o \in Held(c),
             slots' = [slots EXCEPT ![c] = slots[c] - 1],
             \A x \in Op : x # o => stage'[x] = stage[x] /\ home'[x] = home[x],
             home'[o] = c => stage'[o] \notin Holding,
             home'[o] \notin Context \ {c}
      PROVE  SlotsExact'
  <2>1. Held(c)' = Held(c) \ {o}
    BY <1>2 DEF Held
  <2>2. \A x \in Context \ {c} : Held(x)' = Held(x)
    BY <1>2 DEF Held
  <2>a. Held(c) \in SUBSET Op /\ slots[c] = Cardinality(Held(c))
    BY <1>a, SlotsOfHeld
  <2>b. Cardinality(Held(c) \ {o}) = slots[c] - 1
    BY <1>2, <2>a, HeldCount
  <2>3. slots'[c] = Cardinality(Held(c)')
    BY <1>a, <1>2, <2>1, <2>b DEF TypeOK
  <2>4. \A x \in Context \ {c} : slots'[x] = Cardinality(Held(x)')
    BY <1>a, <1>2, <2>2, SlotsOfHeld DEF TypeOK
  <2> QED
    BY <1>c, <2>3, <2>4
<1>3. ASSUME NEW a \in Actor, Claim(a) PROVE SlotsExact'
  <2>1. Current(a) \in Op /\ on[a] \in Context /\ ~in_progress[Current(a)]
    BY <1>a, <1>b, <1>3 DEF Claim, Holds, InExecute
  <2>2. PICK o \in Op, c \in Context : o = Current(a) /\ c = on[a]
    BY <2>1
  <2>3. /\ stage' = [stage EXCEPT ![o] = "claimed"]
        /\ home' = [home EXCEPT ![o] = c]
        /\ slots' = [slots EXCEPT ![c] = slots[c] + 1]
    BY <1>3, <2>2 DEF Claim, Set, Current
  <2>4. \A x \in Context : o \notin Held(x)
    BY <1>a, <2>1, <2>2 DEF Stages, Held, Holding
  <2>5. Held(c)' = Held(c) \cup {o}
    BY <1>a, <2>3 DEF Held, Holding, TypeOK
  <2>6. \A x \in Context \ {c} : Held(x)' = Held(x)
    BY <1>a, <2>3, <2>4 DEF Held, TypeOK
  <2>7. Held(c) \in SUBSET Op /\ slots[c] = Cardinality(Held(c))
    BY <1>a, SlotsOfHeld
  <2>8. Cardinality(Held(c) \cup {o}) = slots[c] + 1
    BY <2>4, <2>7, HeldCount
  <2>9. slots'[c] = Cardinality(Held(c)')
    BY <1>a, <2>3, <2>5, <2>8 DEF TypeOK
  <2>10. \A x \in Context \ {c} : slots'[x] = Cardinality(Held(x)')
    BY <1>a, <2>3, <2>6, SlotsOfHeld DEF TypeOK
  <2> QED
    BY <1>c, <2>9, <2>10
<1>4. ASSUME NEW a \in Actor, Schedule(a) PROVE SlotsExact'
  <2>1. Current(a) \in Op /\ stage[Current(a)] = "claimed"
    BY <1>a, <1>b, <1>4 DEF Schedule, Schedules, InExecute, InScheduling
  <2>2. /\ UNCHANGED <<slots, home>>
        /\ stage' = stage \/ stage' = [stage EXCEPT ![Current(a)] = "queued"]
    BY <1>4 DEF Schedule, Set, Current, context
  <2> QED
    BY <1>a, <1>1, <2>1, <2>2 DEF Holding, TypeOK
<1>5. ASSUME NEW a \in Actor, RollbackEnd(a) PROVE SlotsExact'
  <2>1. /\ Current(a) \in Op /\ on[a] \in Context
        /\ stage[Current(a)] = "claimed" /\ home[Current(a)] = on[a]
    BY <1>a, <1>b, <1>5 DEF RollbackEnd, Schedules, InExecute, InScheduling
  <2>2. /\ stage' = [stage EXCEPT ![Current(a)] = "new"]
        /\ home' = [home EXCEPT ![Current(a)] = NoContext]
        /\ slots' = [slots EXCEPT ![on[a]] = slots[on[a]] - 1]
    BY <1>5 DEF RollbackEnd, ReleasesSlot, Set, Current
  <2>3. Current(a) \in Held(on[a])
    BY <2>1 DEF Held, Holding
  <2>4. home'[Current(a)] \notin Context
    BY <1>a, <2>1, <2>2 DEF TypeOK
  <2>5. \A x \in Op : x # Current(a) => stage'[x] = stage[x] /\ home'[x] = home[x]
    BY <1>a, <2>1, <2>2 DEF TypeOK
  <2> QED
    BY <1>2, <2>1, <2>2, <2>3, <2>4, <2>5
<1>6. ASSUME NEW o \in Op, Perform(o) PROVE SlotsExact'
  BY <1>a, <1>1, <1>6 DEF Perform, Start, Finish, Goes, Set, Holding, context, TypeOK
<1>7. ASSUME NEW c \in Context, NEW o \in Op, Release(c, o) PROVE SlotsExact'
  <2>1. o \in Held(c)
    BY <1>7 DEF Release, Goes, Held, Holding
  <2>2. /\ stage' = [stage EXCEPT ![o] = "released"] /\ home' = home /\ home[o] = c
        /\ slots' = [slots EXCEPT ![c] = slots[c] - 1]
    BY <1>7 DEF Release, ReleasesSlot, Goes, Set
  <2>3. stage'[o] \notin Holding /\ \A x \in Op : x # o => stage'[x] = stage[x]
    BY <1>a, <2>2 DEF Holding, TypeOK
  <2> QED
    BY <1>2, <2>1, <2>2, <2>3
<1>8. ASSUME NEW c \in Context, Store(c) \/ InvokeCallback(c) \/ CallbackReturns(c)
      PROVE  SlotsExact'
  <2>1. handling[c] \in Op /\ UNCHANGED <<slots, home>>
    BY <1>a, <1>8 DEF Store, InvokeCallback, CallbackReturns, context, TypeOK
  <2>2. \A o \in Op : stage'[o] \in Holding <=> stage[o] \in Holding
    BY <1>a, <1>8, <2>1
    DEF Store, InvokeCallback, CallbackReturns, Goes, Set, Holding, TypeOK
  <2> QED
    BY <1>1, <2>1, <2>2
<1>9. ASSUME NEW a \in Actor, Call(a) \/ Proceed(a) PROVE SlotsExact'
  <2>1. CASE Call(a)
    BY <1>1, <2>1 DEF Call, CloseBegin, Submit, context, operation
  <2>2. CASE \/ SubmitEnd(a) \/ LockOperation(a) \/ LockContext(a) \/ Skip(a)
             \/ Raise(a) \/ RollbackBegin(a) \/ CloseLocks(a) \/ ClosePool(a)
    BY <1>1, <2>2
    DEF SubmitEnd, LockOperation, LockContext, Skip, Raise, RollbackBegin,
        CloseLocks, ClosePool, context, operation
  <2> QED
    BY <1>3, <1>4, <1>5, <1>9, <2>1, <2>2 DEF Proceed
<1>10. ASSUME NEW c \in Context, Handle(c) PROVE SlotsExact'
  BY <1>7, <1>8, <1>10 DEF Handle
<1>11. CASE UNCHANGED vars
  BY <1>1, <1>11 DEF vars, context, operation
<1> QED
  BY <1>6, <1>9, <1>10, <1>11 DEF Next

-----------------------------------------------------------------------------
(* Nothing is claimed, locked or counted at the start.                     *)
LEMMA InitInvariant == Init => PythonInvariant
<1> SUFFICES ASSUME Init PROVE PythonInvariant
  OBVIOUS
<1> USE PythonAssumption DEF Init, InitContext, InitOperation
<1>1. TypeOK
  BY EmptySeq DEF TypeOK
<1>2. Locking /\ Scheduling
  BY DEF Locking, Holds, Scheduling, Schedules, InExecute, InScheduling
<1>3. Stages
  BY DEF Stages
<1>4. SlotsExact
  <2>1. \A c \in Context : Held(c) = {}
    BY DEF Held, Holding
  <2>2. Cardinality({}) = 0
    BY FS_EmptySet
  <2> QED
    BY <2>1, <2>2, SlotsOfHeld
<1> QED
  BY <1>1, <1>2, <1>3, <1>4 DEF PythonInvariant

LEMMA PythonInvariance == Spec => []PythonInvariant
<1>1. PythonInvariant /\ [Next]_vars => PythonInvariant'
  BY NextTypeOK, NextLocking, NextScheduling, NextStages, NextSlotsExact
  DEF PythonInvariant
<1> QED
  BY <1>1, InitInvariant, PTL DEF Spec

(* Every variable keeps its type; the count of a Context stays between 0   *)
(* and max_requests, however submit(), close() and results interleave.     *)
THEOREM TypeCorrect == Spec => []TypeOK
<1>1. PythonInvariant => TypeOK
  BY DEF PythonInvariant
<1> QED
  BY <1>1, PythonInvariance, PTL

(* _in_progress of a Context counts the Operations that hold a slot, no    *)
(* more and no less, whatever close(), rollbacks and callbacks do.         *)
THEOREM SlotsAreExact == Spec => []SlotsExact
<1>1. PythonInvariant => SlotsExact
  BY DEF PythonInvariant
<1> QED
  BY <1>1, PythonInvariance, PTL

-----------------------------------------------------------------------------
(* What OneShot sees of an Operation, and of the Context it belongs to.    *)
Seen(o) ==
  IF stage[o] \in {"callback", "over"} THEN "delivered"
  ELSE IF written[o] THEN "completed"
  ELSE IF in_progress[o] THEN "claimed" ELSE "new"
Owner(o) == IF ~written[o] THEN home[o] ELSE NoContext

(* It sees a step of the one Operation it changes the look of, ...         *)
LEMMA SeenBecomes ==
  ASSUME NEW o \in Op, NEW from, NEW to, NEW c,
         Seen(o) = from, Seen(o)' = to, Owner(o)' = c,
         \A x \in Op : x # o => Seen(x)' = Seen(x) /\ Owner(x)' = Owner(x)
  PROVE  Promise!Becomes(o, from, to, c)
BY DEF Promise!Becomes, Seen, Owner

(* ... or nothing.                                                         *)
Same == /\ \A o \in Op : Seen(o)' = Seen(o) /\ Owner(o)' = Owner(o)
LEMMA SeenStutters ==
  ASSUME Same PROVE UNCHANGED Promise!vars
BY DEF Same, Seen, Owner, Promise!vars

LEMMA InitRefines == Init => Promise!Init
BY DEF Init, InitOperation, Promise!Init

(* Every step is one of OneShot's, or one it does not see.                 *)
LEMMA NextRefines ==
  PythonInvariant /\ [Next]_vars => Promise!Next \/ UNCHANGED Promise!vars
<1> DEFINE Goal == Promise!Next \/ UNCHANGED Promise!vars
<1> SUFFICES ASSUME PythonInvariant, [Next]_vars PROVE Goal
  OBVIOUS
<1> USE PythonAssumption
<1>a. TypeOK /\ Stages /\ \A a \in Actor : Holds(a) /\ Schedules(a)
  BY DEF PythonInvariant, Locking, Scheduling
<1>b. ASSUME NEW a \in Actor, InExecute(a)
      PROVE  Current(a) \in Op /\ on[a] \in Context
  BY <1>a, <1>b, CurrentType DEF TypeOK, Holds, InExecute, InScheduling
<1>1. ASSUME UNCHANGED <<in_progress, home, written>>,
             \A o \in Op : stage'[o] \in {"callback", "over"}
                             <=> stage[o] \in {"callback", "over"}
      PROVE  Goal
  <2>1. Same
    BY <1>1 DEF Same, Seen, Owner
  <2> QED
    BY <2>1, SeenStutters
<1>2. ASSUME NEW a \in Actor, Claim(a) PROVE Goal
  <2>1. Current(a) \in Op /\ on[a] \in Context /\ ~in_progress[Current(a)]
    BY <1>a, <1>b, <1>2 DEF Claim, Holds, InExecute
  <2>2. PICK o \in Op, c \in Context : o = Current(a) /\ c = on[a]
    BY <2>1
  <2>3. /\ in_progress' = [in_progress EXCEPT ![o] = TRUE]
        /\ stage' = [stage EXCEPT ![o] = "claimed"]
        /\ home' = [home EXCEPT ![o] = c]
        /\ written' = written
    BY <1>2, <2>2 DEF Claim, Set, Current
  <2>4. stage[o] = "new" /\ ~written[o] /\ ~in_progress[o]
    BY <1>a, <2>1, <2>2 DEF Stages
  <2>5. Promise!Becomes(o, "new", "claimed", c)
    <3>1. Seen(o) = "new" /\ Seen(o)' = "claimed" /\ Owner(o)' = c
      BY <1>a, <2>3, <2>4 DEF Seen, Owner, TypeOK
    <3>2. \A x \in Op : x # o => Seen(x)' = Seen(x) /\ Owner(x)' = Owner(x)
      BY <1>a, <2>3 DEF Seen, Owner, TypeOK
    <3> QED
      BY <3>1, <3>2, SeenBecomes
  <2> QED
    BY <2>5 DEF Promise!Next, Promise!Claim
<1>3. ASSUME NEW a \in Actor, RollbackEnd(a) PROVE Goal
  <2>1. Current(a) \in Op /\ stage[Current(a)] = "claimed"
    BY <1>a, <1>b, <1>3 DEF RollbackEnd, Schedules, InExecute, InScheduling
  <2>2. PICK o \in Op : o = Current(a)
    BY <2>1
  <2>3. /\ in_progress' = [in_progress EXCEPT ![o] = FALSE]
        /\ stage' = [stage EXCEPT ![o] = "new"]
        /\ home' = [home EXCEPT ![o] = NoContext]
        /\ written' = written
    BY <1>3, <2>2 DEF RollbackEnd, Set, Current
  <2>4. stage[o] = "claimed" /\ ~written[o] /\ in_progress[o]
    BY <1>a, <2>1, <2>2 DEF Stages
  <2>5. Promise!Becomes(o, "claimed", "new", NoContext)
    <3>1. Seen(o) = "claimed" /\ Seen(o)' = "new" /\ Owner(o)' = NoContext
      BY <1>a, <2>3, <2>4 DEF Seen, Owner, TypeOK
    <3>2. \A x \in Op : x # o => Seen(x)' = Seen(x) /\ Owner(x)' = Owner(x)
      BY <1>a, <2>3 DEF Seen, Owner, TypeOK
    <3> QED
      BY <3>1, <3>2, SeenBecomes
  <2> QED
    BY <2>5 DEF Promise!Next, Promise!GiveBack
<1>4. ASSUME NEW c \in Context, NEW o \in Op, o = handling[c],
             Store(c) \/ InvokeCallback(c)
      PROVE  Goal
  <2>1. UNCHANGED <<in_progress, home>>
    BY <1>4 DEF Store, InvokeCallback
  <2>2. CASE Store(c)
    <3>1. /\ stage[o] = "released" /\ stage' = [stage EXCEPT ![o] = "stored"]
          /\ written' = [written EXCEPT ![o] = TRUE]
      BY <1>4, <2>2 DEF Store, Goes, Set
    <3>2. ~written[o] /\ in_progress[o]
      BY <1>a, <3>1 DEF Stages
    <3>3. /\ Seen(o) = "claimed" /\ Seen(o)' = "completed"
          /\ Owner(o)' = NoContext
      BY <1>a, <3>1, <3>2 DEF Seen, Owner, TypeOK
    <3>4. \A x \in Op : x # o => Seen(x)' = Seen(x) /\ Owner(x)' = Owner(x)
      BY <1>a, <2>1, <3>1 DEF Seen, Owner, TypeOK
    <3>5. Promise!Becomes(o, "claimed", "completed", NoContext)
      BY <3>3, <3>4, SeenBecomes
    <3> QED
      BY <3>5 DEF Promise!Next, Promise!Complete
  <2>3. CASE InvokeCallback(c)
    <3>1. /\ stage[o] = "stored" /\ stage' = [stage EXCEPT ![o] = "callback"]
          /\ written' = written
      BY <1>4, <2>3 DEF InvokeCallback, Goes, Set
    <3>2. written[o]
      BY <1>a, <3>1 DEF Stages
    <3>3. /\ Seen(o) = "completed" /\ Seen(o)' = "delivered"
          /\ Owner(o)' = NoContext
      BY <1>a, <3>1, <3>2 DEF Seen, Owner, TypeOK
    <3>4. \A x \in Op : x # o => Seen(x)' = Seen(x) /\ Owner(x)' = Owner(x)
      BY <1>a, <2>1, <3>1 DEF Seen, Owner, TypeOK
    <3>5. Promise!Becomes(o, "completed", "delivered", NoContext)
      BY <3>3, <3>4, SeenBecomes
    <3> QED
      BY <3>5 DEF Promise!Next, Promise!Deliver
  <2> QED
    BY <1>4, <2>2, <2>3
<1>5. ASSUME NEW a \in Actor, Schedule(a) PROVE Goal
  <2>1. Current(a) \in Op /\ stage[Current(a)] = "claimed"
    BY <1>a, <1>b, <1>5 DEF Schedule, Schedules, InExecute, InScheduling
  <2>2. /\ UNCHANGED <<in_progress, home, written>>
        /\ stage' = stage \/ stage' = [stage EXCEPT ![Current(a)] = "queued"]
    BY <1>5 DEF Schedule, Set, Current
  <2> QED
    BY <1>a, <1>1, <2>1, <2>2 DEF TypeOK
<1>6. ASSUME NEW o \in Op, Perform(o) \/ \E c \in Context : Release(c, o) PROVE Goal
  BY <1>a, <1>1, <1>6 DEF Perform, Start, Finish, Release, Goes, Set, TypeOK
<1>7. ASSUME NEW c \in Context, CallbackReturns(c) PROVE Goal
  <2>1. handling[c] \in Op
    BY <1>a, <1>7 DEF CallbackReturns, TypeOK
  <2> QED
    BY <1>a, <1>1, <1>7, <2>1 DEF CallbackReturns, Goes, Set, TypeOK
<1>8. ASSUME NEW c \in Context, Store(c) \/ InvokeCallback(c) PROVE Goal
  <2>1. handling[c] # NoOp
    BY <1>8 DEF Store, InvokeCallback
  <2>2. handling[c] \in Op
    BY <1>a, <2>1 DEF TypeOK
  <2>3. PICK o \in Op : o = handling[c]
    BY <2>2
  <2> QED
    BY <1>4, <1>8, <2>3
<1>9. ASSUME NEW a \in Actor, Call(a) \/ Proceed(a) PROVE Goal
  <2>1. CASE Call(a)
    BY <1>1, <2>1 DEF Call, CloseBegin, Submit, operation
  <2>2. CASE \/ SubmitEnd(a) \/ LockOperation(a) \/ LockContext(a) \/ Skip(a)
             \/ Raise(a) \/ RollbackBegin(a) \/ CloseLocks(a) \/ ClosePool(a)
    BY <1>1, <2>2
    DEF SubmitEnd, LockOperation, LockContext, Skip, Raise, RollbackBegin,
        CloseLocks, ClosePool, operation
  <2> QED
    BY <1>2, <1>3, <1>5, <1>9, <2>1, <2>2 DEF Proceed
<1>10. ASSUME NEW c \in Context, Handle(c) PROVE Goal
  BY <1>6, <1>7, <1>8, <1>10 DEF Handle
<1>11. CASE UNCHANGED vars
  BY <1>1, <1>11 DEF vars, operation
<1> QED
  BY <1>6, <1>9, <1>10, <1>11 DEF Next

(* The thread-pool backend in Python keeps what OneShot promises: a claim  *)
(* belongs to one submit() and one Context, a failed one is taken back, a  *)
(* performed one is completed and then delivered once, for all sizes.      *)
THEOREM PythonKeepsItsPromise == Spec => ImplementsOneShot
BY PythonInvariance, InitRefines, NextRefines, PTL
DEF Spec, ImplementsOneShot, Promise!Spec
=============================================================================
