-------------------------- MODULE ThreadAioProofs ---------------------------
(***************************************************************************)
(* Theorems about ThreadAio, for every set of Contexts, threads and        *)
(* Operations, every size of the queue, of the pool and of a batch.        *)
(*                                                                         *)
(* DispatchInvariant holds on any build.  The critical section keeps       *)
(* close() out of submit() (InSection) and in_progress, exchanged at once, *)
(* makes each claim one thread's (Claimants), so that an Operation has one *)
(* stage (Stages) and one place in one queue (Queued), whoever else is     *)
(* still giving back an older claim to it.                                 *)
(*                                                                         *)
(* GilInvariant is what the GIL adds: a method that keeps it from its      *)
(* first step to its last is alone (Exclusive), so a refused claim is gone *)
(* before anyone else acts (Refusals), the pointer to the Context is where *)
(* it is looked for (Pointers) and getters read undisturbed (Readers).     *)
(***************************************************************************)
EXTENDS ThreadAio, Integers, FiniteSetTheorems, SequenceTheorems, TLAPS

Typed ==
  /\ gil \in Actor \cup {NoOne}
  /\ section \in [Context -> Actor \cup {NoOne}]
  /\ pool \in [Context -> {"open", "draining", "freed", "leaked"}]
  /\ queue \in [Context -> Seq(Op)]
  /\ in_progress \in [Op -> BOOLEAN] /\ done \in [Op -> BOOLEAN]
  /\ callback \in [Op -> BOOLEAN] /\ payload \in [Op -> BOOLEAN]
  /\ result \in [Op -> {"none", "written"}]
  /\ stage \in [Op -> Busy \cup {"new", "queued", "over"}]
  /\ ctx \in [Op -> Context \cup {NoContext}]
  /\ local \in [Op -> Context \cup {NoContext}]
  /\ home \in [Op -> Context \cup {NoContext}]
  /\ runs \in [Op -> Nat]
  /\ pc \in [Actor -> {"idle", "submit", "refuse", "forget", "close",
                       "dealloc", "read"}]
  /\ on \in [Actor -> Context \cup {NoContext}]
  /\ todo \in [Actor -> Seq(Op)]

Current(a) == Head(todo[a])
Submits(a) == pc[a] \in {"submit", "refuse", "forget"}
Refused(a) == pc[a] \in {"refuse", "forget"}

(* A thread in submit() is in the critical section of an open Context, and *)
(* one that destroys a pool has closed it.                                 *)
Sound(a) ==
  /\ Submits(a) => on[a] \in Context /\ section[on[a]] = a /\ pool[on[a]] = "open"
  /\ Refused(a) \/ pc[a] = "read" => todo[a] # <<>>
  /\ pc[a] \in {"close", "dealloc"} => on[a] \in Context /\ pool[on[a]] # "open"
InSection == \A a \in Actor : Sound(a)

(* A worker calls methods from its callback and from the end of its        *)
(* Context.                                                                *)
Callers == \A o \in Op : pc[o] # "idle" => stage[o] \in {"callback", "drop"}

Stages ==
  \A o \in Op :
    /\ done[o] <=> stage[o] \in {"callback", "release", "drop", "over"}
    /\ runs[o] = IF stage[o] \in {"new", "queued"} THEN 0 ELSE 1
    /\ stage[o] = "new" => /\ home[o] = NoContext /\ local[o] = NoContext
                           /\ payload[o] /\ result[o] = "none"
    /\ stage[o] # "new" => in_progress[o] /\ home[o] \in Context
    /\ stage[o] = "queued" => ctx[o] \in {home[o], NoContext} /\ local[o] = NoContext
    /\ stage[o] \in {"started", "performed", "callback", "release"} =>
         local[o] \in {home[o], NoContext}

(* A new Operation is claimed by the one submit() that has been refused    *)
(* and not given it back yet; its pointer is set while some submit() that  *)
(* has been refused is to clear it.                                        *)
Claimants ==
  /\ \A a \in Actor : pc[a] = "refuse" =>
       stage[Current(a)] = "new" /\ in_progress[Current(a)]
  /\ \A a, b \in Actor :
       pc[a] = "refuse" /\ pc[b] = "refuse" /\ Current(a) = Current(b) => a = b
  /\ \A o \in Op : stage[o] = "new" /\ in_progress[o] =>
       \E a \in Actor : pc[a] = "refuse" /\ Current(a) = o
  /\ \A o \in Op : stage[o] = "new" /\ ctx[o] # NoContext =>
       \E a \in Actor : Refused(a) /\ Current(a) = o

Queued ==
  \A c \in Context : \A i \in 1 .. Len(queue[c]) :
    /\ stage[queue[c][i]] = "queued" /\ home[queue[c][i]] = c
    /\ \A j \in 1 .. Len(queue[c]) : queue[c][i] = queue[c][j] => i = j

DispatchInvariant == Typed /\ InSection /\ Callers /\ Stages /\ Claimants /\ Queued

(* With the GIL, submit() and the getters are not interrupted.             *)
Exclusive ==
  /\ ~freeThreaded
  /\ \A a \in Actor : Submits(a) \/ pc[a] = "read" => gil = a

Pointers ==
  \A o \in Op :
    /\ stage[o] = "queued" => ctx[o] = home[o]
    /\ stage[o] \in {"started", "performed", "callback", "release"} =>
         local[o] = home[o]

Refusals ==
  /\ \A a \in Actor : Refused(a) =>
       /\ stage[Current(a)] = "new" /\ ctx[Current(a)] = on[a]
       /\ in_progress[Current(a)] <=> pc[a] = "refuse"
  /\ \A o \in Op : stage[o] = "new" /\ (\A a \in Actor : Refused(a) => Current(a) # o) =>
       ~in_progress[o] /\ ctx[o] = NoContext

Readers == \A a \in Actor : pc[a] = "read" => Readable(Current(a))

GilInvariant == DispatchInvariant /\ Exclusive /\ Pointers /\ Refusals /\ Readers

-----------------------------------------------------------------------------
(* The Operation a method is treating, and those after it.                 *)
LEMMA CurrentType ==
  ASSUME NEW a \in Actor, Typed, todo[a] # <<>>
  PROVE  Current(a) \in Op /\ Tail(todo[a]) \in Seq(Op)
<1>1. todo[a] \in Seq(Op)
  BY DEF Typed
<1> QED
  BY <1>1, HeadTailProperties DEF Current

(* The argument of a submit() is a sequence of Operations.                 *)
LEMMA BatchType ==
  ASSUME NEW ops \in Batch
  PROVE  ops \in Seq(Op)
<1>1. PICK n \in 1 .. MaxBatch : ops \in [1 .. n -> Op]
  BY DEF Batch
<1>2. n \in Nat
  BY <1>1, AioAssumption
<1> QED
  BY <1>1, <1>2, SeqDef

(* The oldest Operation of a pool, and those after it.                     *)
LEMMA OldestType ==
  ASSUME NEW c \in Context, Typed, queue[c] # <<>>
  PROVE  /\ Head(queue[c]) \in Op /\ Tail(queue[c]) \in Seq(Op)
         /\ Head(queue[c]) = queue[c][1] /\ Len(queue[c]) \in Nat \ {0}
         /\ Len(Tail(queue[c])) = Len(queue[c]) - 1
         /\ \A i \in 1 .. Len(queue[c]) - 1 : Tail(queue[c])[i] = queue[c][i + 1]
<1>1. queue[c] \in Seq(Op)
  BY DEF Typed
<1> QED
  BY <1>1, HeadTailProperties, EmptySeq, LenProperties

(* What the tear-down of a Context changes.                                *)
CallTypes ==
  /\ gil \in Actor \cup {NoOne}
  /\ pool \in [Context -> {"open", "draining", "freed", "leaked"}]
  /\ pc \in [Actor -> {"idle", "submit", "refuse", "forget", "close",
                       "dealloc", "read"}]
  /\ on \in [Actor -> Context \cup {NoContext}]
  /\ todo \in [Actor -> Seq(Op)]

LEMMA DeallocTypes ==
  ASSUME Typed, NEW a \in Actor, NEW c \in Context, Dealloc(a, c)
  PROVE  CallTypes'
<1> USE DEF Typed, CallTypes
<1>1. CASE ClosePool(a, c, "dealloc")
  BY <1>1, EmptySeq DEF ClosePool, JoinWithoutGil, LeaveGil, Enters, Set
<1>2. CASE LeaveGil /\ UNCHANGED <<pool, calls>>
  BY <1>2 DEF LeaveGil, calls
<1> QED
  BY <1>1, <1>2 DEF Dealloc

(* Every variable keeps its type, but for the reference counts, which stay *)
(* natural numbers only because they are exact.                            *)
LEMMA NextTyped == Typed /\ [Next]_vars => Typed'
<1> SUFFICES ASSUME Typed, [Next]_vars PROVE Typed'
  OBVIOUS
<1> USE AioAssumption DEF Typed, Set, HasGil, KeepGil, LeaveGil
<1>1. ASSUME NEW a \in Actor, NEW c \in Context, NEW ops \in Batch,
             SubmitBegin(a, c, ops)
      PROVE  Typed'
  <2>1. ops \in Seq(Op)
    BY BatchType
  <2> QED
    BY <1>1, <2>1 DEF SubmitBegin, MayCall, Enters, operation, workers
<1>2. ASSUME NEW a \in Actor, Skip(a) \/ GiveBack(a) \/ Forget(a) \/ SubmitEnd(a)
      PROVE  Typed'
  <2>1. CASE Skip(a)
    <3>1. Tail(todo[a]) \in Seq(Op)
      BY <2>1, CurrentType DEF Skip
    <3> QED
      BY <2>1, <3>1 DEF Skip, context, operation, workers
  <2>2. CASE GiveBack(a)
    BY <2>2 DEF GiveBack, context, workers
  <2>3. CASE Forget(a)
    BY <2>3, EmptySeq DEF Forget, ForgetsContext, Leaves, Enters, workers
  <2>4. CASE SubmitEnd(a)
    BY <2>4, EmptySeq DEF SubmitEnd, Leaves, Enters, operation, workers
  <2> QED
    BY <1>2, <2>1, <2>2, <2>3, <2>4
<1>3. ASSUME NEW a \in Actor, NEW o \in Op, NEW c \in Context,
             Accept(a, o, c) \/ Refuse(a, o, c)
      PROVE  Typed'
  <2>1. CASE Accept(a, o, c)
    <3>1. Tail(todo[a]) \in Seq(Op)
      BY <2>1, CurrentType DEF Accept, Claims
    <3>2. Append(queue[c], o) \in Seq(Op)
      OBVIOUS
    <3> QED
      BY <2>1, <3>1, <3>2 DEF Accept, Claims
  <2>2. CASE Refuse(a, o, c)
    BY <2>2 DEF Refuse, Claims, workers
  <2> QED
    BY <1>3, <2>1, <2>2
<1>4. ASSUME NEW a \in Actor, NEW c \in Context, Close(a, c) \/ Drop(a, c)
      PROVE  Typed'
  <2>1. CASE Close(a, c)
    BY <2>1, EmptySeq
    DEF Close, MayCall, ClosePool, JoinWithoutGil, Enters, operation, workers
  <2>2. CASE Drop(a, c)
    <3>1. CallTypes'
      BY <2>2, DeallocTypes DEF Drop, CallTypes, calls
    <3> QED
      BY <2>2, <3>1 DEF Drop, CallTypes, operation, workers
  <2> QED
    BY <1>4, <2>1, <2>2
<1>5. ASSUME NEW a \in Actor, NEW o \in Op, SetCallback(a, o) \/ ReadBegin(a, o)
      PROVE  Typed'
  <2>1. CASE SetCallback(a, o)
    BY <2>1 DEF SetCallback, context, workers, calls
  <2>2. CASE ReadBegin(a, o)
    <3>1. <<o>> \in Seq(Op)
      OBVIOUS
    <3> QED
      BY <2>2, <3>1 DEF ReadBegin, MayCall, Enters, context, operation, workers
  <2> QED
    BY <1>5, <2>1, <2>2
<1>6. ASSUME NEW a \in Actor, ReadEnd(a) \/ DestroyReturn(a) PROVE Typed'
  <2>1. CASE ReadEnd(a)
    BY <2>1, EmptySeq DEF ReadEnd, Leaves, Enters, context, operation, workers
  <2>2. CASE DestroyReturn(a)
    BY <2>2, EmptySeq DEF DestroyReturn, Leaves, Enters, operation, workers
  <2> QED
    BY <1>6, <2>1, <2>2
<1>7. ASSUME NEW c \in Context, Start(c) PROVE Typed'
  <2>1. Head(queue[c]) \in Op /\ Tail(queue[c]) \in Seq(Op)
    BY <1>7, OldestType DEF Start, Serves
  <2> QED
    BY <1>7, <2>1 DEF Start, TakesContext, Busy, calls
<1>8. ASSUME NEW o \in Op, WorkerStep(o) PROVE Typed'
  <2>1. CASE Perform(o)
    BY <2>1 DEF Perform, Busy, context, calls
  <2>2. CASE Publish(o)
    <3>1. payload' \in [Op -> BOOLEAN]
      BY <2>2 DEF Publish, ClearWritten
    <3>2. gil' \in Actor \cup {NoOne}
      BY <2>2 DEF Publish, Actor
    <3>3. \E s \in {"callback", "release"} : stage' = [stage EXCEPT ![o] = s]
      BY <2>2 DEF Publish
    <3>4. stage' \in [Op -> Busy \cup {"new", "queued", "over"}]
      BY <3>3 DEF Busy
    <3> QED
      BY <2>2, <3>1, <3>2, <3>4 DEF Publish, context, calls
  <2>3. CASE CallbackReturns(o)
    BY <2>3 DEF CallbackReturns, Busy, context, operation, calls, Actor
  <2>4. CASE ReleaseContext(o)
    <3>1. PICK c \in Context : c = local[o]
      BY <2>4 DEF ReleaseContext
    <3>2. CallTypes'
      BY <2>4, <3>1, DeallocTypes DEF ReleaseContext, CallTypes, calls, Actor
    <3> QED
      BY <2>4, <3>2 DEF ReleaseContext, CallTypes, Busy, operation
  <2>5. CASE ReleaseOperation(o)
    BY <2>5 DEF ReleaseOperation, context, calls
  <2> QED
    BY <1>8, <2>1, <2>2, <2>3, <2>4, <2>5 DEF WorkerStep
<1>9. CASE UNCHANGED vars
  BY <1>9 DEF vars, context, operation, workers, calls
<1> QED
  BY <1>1, <1>2, <1>3, <1>4, <1>5, <1>6, <1>7, <1>8, <1>9
  DEF Next, Call, SubmitStep

-----------------------------------------------------------------------------
(* What the others do leaves a thread in its section.                      *)
LEMMA OthersSound ==
  ASSUME NEW b \in Actor, Typed, Sound(b),
         pc'[b] = pc[b], on'[b] = on[b], todo'[b] = todo[b],
         \A c \in Context : section[c] = b => section'[c] = b,
         \A c \in Context : section[c] = b \/ pool[c] # "open" =>
                              (pool'[c] = "open" <=> pool[c] = "open")
  PROVE  Sound(b)'
BY DEF Sound, Submits, Refused

(* A pool is torn down outside the critical section only.                  *)
LEMMA DeallocSound ==
  ASSUME Typed, NEW a \in Actor, NEW c \in Context, NEW method \in {"close", "dealloc"},
         ClosePool(a, c, method)
  PROVE  /\ pc'[a] = method /\ on'[a] = c /\ pool'[c] = "draining"
         /\ \A b \in Actor \ {a} :
              pc'[b] = pc[b] /\ on'[b] = on[b] /\ todo'[b] = todo[b]
         /\ \A x \in Context : section[x] # NoOne \/ pool[x] # "open" =>
                                 pool'[x] = pool[x]
BY DEF Typed, ClosePool, OutsideSubmit, Enters, Set

(* Threads stay in the critical section until they leave the method.       *)
LEMMA NextInSection == Typed /\ InSection /\ [Next]_vars => InSection'
<1> SUFFICES ASSUME Typed, InSection, [Next]_vars, NEW b \in Actor
             PROVE  Sound(b)'
  BY DEF InSection
<1> USE AioAssumption
<1>a. Sound(b) /\ \A a \in Actor : Sound(a)
  BY DEF InSection
<1>1. ASSUME UNCHANGED <<section, pool, calls>> PROVE Sound(b)'
  BY <1>a, <1>1, OthersSound DEF calls
<1>2. ASSUME NEW a \in Actor, NEW c \in Context, NEW method \in {"close", "dealloc"},
             ClosePool(a, c, method), section' = section
      PROVE  Sound(b)'
  <2>1. CASE a = b
    BY <1>a, <1>2, <2>1, DeallocSound DEF Sound, Submits, Refused
  <2>2. CASE a # b
    BY <1>a, <1>2, <2>2, DeallocSound, OthersSound
  <2> QED
    BY <2>1, <2>2
<1>3. ASSUME NEW a \in Actor, NEW c \in Context, Dealloc(a, c), section' = section
      PROVE  Sound(b)'
  BY <1>1, <1>2, <1>3 DEF Dealloc
<1>4. ASSUME NEW a \in Actor, NEW c \in Context,
             \/ \E ops \in Batch : SubmitBegin(a, c, ops)
             \/ Close(a, c) \/ Drop(a, c)
      PROVE  Sound(b)'
  <2>1. ASSUME NEW ops \in Batch, SubmitBegin(a, c, ops) PROVE Sound(b)'
    <3>1. CASE a = b
      BY <2>1, <3>1
      DEF Typed, SubmitBegin, Enters, Set, Sound, Submits, Refused
    <3>2. CASE a # b
      <4>1. /\ pc'[b] = pc[b] /\ on'[b] = on[b] /\ todo'[b] = todo[b]
            /\ pool' = pool /\ \A x \in Context : section[x] = b => section'[x] = b
        BY <2>1, <3>2 DEF Typed, SubmitBegin, Enters, Set
      <4> QED
        BY <1>a, <4>1, OthersSound
    <3> QED
      BY <3>1, <3>2
  <2>2. CASE Close(a, c)
    BY <1>2, <2>2 DEF Close
  <2>3. CASE Drop(a, c)
    BY <1>1, <1>3, <2>3 DEF Drop
  <2> QED
    BY <1>4, <2>1, <2>2, <2>3
<1>5. ASSUME NEW a \in Actor, Skip(a) \/ GiveBack(a) \/ Forget(a) \/ SubmitEnd(a)
      PROVE  Sound(b)'
  <2>1. CASE a = b
    <3>1. CASE Skip(b)
      BY <1>a, <3>1 DEF Typed, Skip, Set, Sound, Submits, Refused, context
    <3>2. CASE GiveBack(b)
      BY <1>a, <3>2 DEF Typed, GiveBack, Set, Sound, Submits, Refused, context
    <3>3. CASE Forget(b) \/ SubmitEnd(b)
      BY <1>a, <3>3
      DEF Typed, Forget, SubmitEnd, Leaves, Enters, Set, Sound, Submits, Refused
    <3> QED
      BY <1>5, <2>1, <3>1, <3>2, <3>3
  <2>2. CASE a # b
    <3>1. /\ pc'[b] = pc[b] /\ on'[b] = on[b] /\ todo'[b] = todo[b] /\ pool' = pool
      BY <1>5, <2>2
      DEF Typed, Skip, GiveBack, Forget, SubmitEnd, Leaves, Enters, Set, context
    <3>2. section' = section \/ section' = [section EXCEPT ![on[a]] = NoOne]
      BY <1>5 DEF Skip, GiveBack, Forget, SubmitEnd, Set, context
    <3>3. section' # section => section[on[a]] = a /\ on[a] \in Context
      BY <1>a, <1>5
      DEF Skip, GiveBack, Forget, SubmitEnd, Sound, Submits, context
    <3>4. \A x \in Context : section[x] = b => section'[x] = b
      BY <2>2, <3>2, <3>3 DEF Typed
    <3> QED
      BY <1>a, <3>1, <3>4, OthersSound
  <2> QED
    BY <2>1, <2>2
<1>6. ASSUME NEW a \in Actor, NEW o \in Op, NEW c \in Context,
             Accept(a, o, c) \/ Refuse(a, o, c)
      PROVE  Sound(b)'
  <2>1. CASE a = b
    BY <1>a, <1>6, <2>1
    DEF Typed, Accept, Refuse, Claims, Set, Sound, Submits, Refused
  <2>2. CASE a # b
    <3>1. /\ pc'[b] = pc[b] /\ on'[b] = on[b] /\ todo'[b] = todo[b]
          /\ pool' = pool /\ section' = section
      BY <1>6, <2>2 DEF Typed, Accept, Refuse, Claims, Set
    <3> QED
      BY <1>a, <3>1, OthersSound
  <2> QED
    BY <2>1, <2>2
<1>7. ASSUME NEW a \in Actor, NEW o \in Op, SetCallback(a, o) \/ ReadBegin(a, o)
      PROVE  Sound(b)'
  <2>1. CASE SetCallback(a, o)
    BY <1>1, <2>1 DEF SetCallback, context
  <2>2. CASE ReadBegin(a, o)
    BY <1>a, <2>2
    DEF Typed, ReadBegin, MayCall, Enters, Set, Sound, Submits, Refused,
        context
  <2> QED
    BY <1>7, <2>1, <2>2
<1>8. ASSUME NEW a \in Actor, ReadEnd(a) \/ DestroyReturn(a) PROVE Sound(b)'
  <2>1. CASE ReadEnd(a)
    BY <1>a, <2>1
    DEF Typed, ReadEnd, Leaves, Enters, Set, Sound, Submits, Refused, context
  <2>2. CASE DestroyReturn(a)
    <3>1. on[a] \in Context /\ pool[on[a]] # "open"
      BY <1>a, <2>2 DEF DestroyReturn, Sound
    <3>2. /\ section' = section
          /\ \E p \in {"leaked", "freed"} : pool' = [pool EXCEPT ![on[a]] = p]
          /\ Leaves(a)
      BY <2>2 DEF DestroyReturn, Set
    <3>3. CASE a = b
      BY <3>2, <3>3 DEF Typed, Leaves, Enters, Set, Sound, Submits, Refused
    <3>4. CASE a # b
      <4>1. pc'[b] = pc[b] /\ on'[b] = on[b] /\ todo'[b] = todo[b]
        BY <3>2, <3>4 DEF Typed, Leaves, Enters, Set
      <4>2. \A x \in Context : pool'[x] = "open" <=> pool[x] = "open"
        BY <3>1, <3>2 DEF Typed
      <4> QED
        BY <1>a, <3>2, <4>1, <4>2, OthersSound
    <3> QED
      BY <3>3, <3>4
  <2> QED
    BY <1>8, <2>1, <2>2
<1>9. ASSUME NEW c \in Context, Start(c) PROVE Sound(b)'
  BY <1>1, <1>9 DEF Start
<1>10. ASSUME NEW o \in Op, WorkerStep(o) PROVE Sound(b)'
  <2>1. CASE Perform(o) \/ Publish(o) \/ CallbackReturns(o) \/ ReleaseOperation(o)
    BY <1>1, <2>1
    DEF Perform, Publish, CallbackReturns, ReleaseOperation, context
  <2>2. CASE ReleaseContext(o)
    <3>1. PICK c \in Context : c = local[o]
      BY <2>2 DEF ReleaseContext, Typed
    <3>2. section' = section /\ (Dealloc(o, c) \/ UNCHANGED <<pool, calls>>)
      BY <2>2, <3>1
      DEF ReleaseContext, Dealloc, ClosePool, OutsideSubmit, Enters, Set
    <3>3. o \in Actor
      BY DEF Actor
    <3> QED
      BY <1>1, <1>3, <3>2, <3>3
  <2> QED
    BY <1>10, <2>1, <2>2 DEF WorkerStep
<1>11. CASE UNCHANGED vars
  BY <1>1, <1>11 DEF vars, context
<1> QED
  BY <1>4, <1>5, <1>6, <1>7, <1>8, <1>9, <1>10, <1>11
  DEF Next, Call, SubmitStep

-----------------------------------------------------------------------------
(* The steps that run Python code and need the GIL where there is one.     *)
Python(o) == Publish(o) \/ CallbackReturns(o) \/ ReleaseContext(o) \/ ReleaseOperation(o)
TakesGil(a) ==
  \/ Call(a) \/ SubmitStep(a) \/ ReadEnd(a) \/ DestroyReturn(a)
  \/ a \in Op /\ Python(a)

(* Such a step enters and leaves methods for its own thread only.          *)
LEMMA OwnCalls ==
  ASSUME Typed, NEW a \in Actor, TakesGil(a), NEW b \in Actor, a # b
  PROVE  pc'[b] = pc[b] /\ on'[b] = on[b] /\ todo'[b] = todo[b]
<1>1. ASSUME NEW c \in Context, Dealloc(a, c)
      PROVE  pc'[b] = pc[b] /\ on'[b] = on[b] /\ todo'[b] = todo[b]
  BY <1>1 DEF Typed, Dealloc, ClosePool, Enters, Set, calls
<1>2. pc'[b] = pc[b] /\ on'[b] = on[b] /\ todo'[b] = todo[b]
  <2>1. CASE SubmitStep(a)
    BY <2>1
    DEF Typed, SubmitStep, Skip, GiveBack, Forget, SubmitEnd, Accept, Refuse,
        Claims, Leaves, Enters, Set
  <2>2. CASE ReadEnd(a) \/ DestroyReturn(a)
    BY <2>2 DEF Typed, ReadEnd, DestroyReturn, Leaves, Enters, Set
  <2>3. CASE Call(a)
    <3>1. ASSUME NEW c \in Context, NEW ops \in Batch, SubmitBegin(a, c, ops)
          PROVE  pc'[b] = pc[b] /\ on'[b] = on[b] /\ todo'[b] = todo[b]
      BY <3>1 DEF Typed, SubmitBegin, Enters, Set
    <3>2. ASSUME NEW c \in Context, Close(a, c)
          PROVE  pc'[b] = pc[b] /\ on'[b] = on[b] /\ todo'[b] = todo[b]
      BY <3>2 DEF Typed, Close, ClosePool, Enters, Set
    <3>3. ASSUME NEW c \in Context, Drop(a, c)
          PROVE  pc'[b] = pc[b] /\ on'[b] = on[b] /\ todo'[b] = todo[b]
      BY <1>1, <3>3 DEF Drop, calls
    <3>4. ASSUME NEW o \in Op, SetCallback(a, o) \/ ReadBegin(a, o)
          PROVE  pc'[b] = pc[b] /\ on'[b] = on[b] /\ todo'[b] = todo[b]
      BY <3>4 DEF Typed, SetCallback, ReadBegin, Enters, Set, calls
    <3> QED
      BY <2>3, <3>1, <3>2, <3>3, <3>4 DEF Call
  <2>4. CASE a \in Op /\ Python(a)
    <3>1. CASE ReleaseContext(a)
      BY <2>4, <3>1
      DEF Typed, ReleaseContext, Dealloc, ClosePool, Enters, Set, calls
    <3>2. CASE Publish(a) \/ CallbackReturns(a) \/ ReleaseOperation(a)
      BY <3>2 DEF Publish, CallbackReturns, ReleaseOperation, calls
    <3> QED
      BY <2>4, <3>1, <3>2 DEF Python
  <2> QED
    BY <2>1, <2>2, <2>3, <2>4 DEF TakesGil
<1> QED
  BY <1>2

(* With the GIL it is taken with no other thread in a method that keeps it.*)
LEMMA StepAlone ==
  ASSUME GilInvariant, NEW a \in Actor, TakesGil(a), NEW b \in Actor, a # b
  PROVE  /\ ~Submits(b) /\ pc[b] # "read"
         /\ pc'[b] = pc[b] /\ on'[b] = on[b] /\ todo'[b] = todo[b]
<1> USE AioAssumption DEF GilInvariant, DispatchInvariant
<1>1. HasGil(a)
  <2>1. CASE SubmitStep(a) \/ ReadEnd(a)
    BY <2>1
    DEF SubmitStep, Skip, GiveBack, Forget, SubmitEnd, Accept, Refuse, Claims,
        ReadEnd, HasGil, Exclusive, Submits
  <2>2. CASE Call(a)
    BY <2>2 DEF Call, SubmitBegin, Close, Drop, SetCallback, ReadBegin, MayCall
  <2>3. CASE DestroyReturn(a) \/ Python(a)
    BY <2>3
    DEF DestroyReturn, Python, Publish, CallbackReturns, ReleaseContext,
        ReleaseOperation
  <2> QED
    BY <2>1, <2>2, <2>3 DEF TakesGil
<1>2. ~Submits(b) /\ pc[b] # "read"
  BY <1>1 DEF HasGil, Exclusive
<1> QED
  BY <1>2, OwnCalls

(* The other steps are those of the pools' threads outside Python.         *)
LEMMA NextSteps ==
  ASSUME [Next]_vars
  PROVE  \/ \E a \in Actor : TakesGil(a)
         \/ \E c \in Context : Start(c)
         \/ \E o \in Op : Perform(o)
         \/ UNCHANGED vars
BY DEF Next, WorkerStep, TakesGil, Python, Actor

(* What an Operation is while one of its worker's steps is still to come.  *)
LEMMA ClaimedIsNew ==
  ASSUME DispatchInvariant, NEW a \in Actor, NEW o \in Op, NEW c \in Context,
         Accept(a, o, c) \/ Refuse(a, o, c)
  PROVE  /\ stage[o] = "new" /\ ~done[o] /\ local[o] = NoContext
         /\ o = Current(a) /\ c = on[a] /\ pc[a] = "submit"
BY DEF DispatchInvariant, Stages, Accept, Refuse, Claims, Claim, Current

-----------------------------------------------------------------------------
(* A worker is in a method only while it runs the callback or tears its    *)
(* Context down.                                                           *)
LEMMA NextCallers == DispatchInvariant /\ [Next]_vars => Callers'
<1> SUFFICES ASSUME DispatchInvariant, [Next]_vars PROVE Callers'
  OBVIOUS
<1> USE AioAssumption
<1>a. Typed /\ Callers /\ Stages /\ Queued
  BY DEF DispatchInvariant
<1>1. ASSUME NEW o \in Op, pc'[o] # "idle"
      PROVE stage'[o] \in {"callback", "drop"}
  <2>1. ASSUME UNCHANGED stage, pc[o] # "idle"
        PROVE stage'[o] \in {"callback", "drop"}
    BY <1>a, <2>1 DEF Callers
  <2>2. CASE UNCHANGED pc /\ stage'[o] = stage[o]
    BY <1>a, <1>1, <2>2 DEF Callers
  <2>3. ASSUME NEW a \in Actor, TakesGil(a), a # o
        PROVE stage'[o] \in {"callback", "drop"}
    <3>1. pc[o] # "idle"
      BY <1>a, <1>1, <2>3, OwnCalls DEF Actor
    <3>2. stage[o] \in {"callback", "drop"}
      BY <1>a, <3>1 DEF Callers
    <3>3. stage'[o] = stage[o]
      <4>1. CASE Call(a) \/ ReadEnd(a) \/ DestroyReturn(a)
        BY <4>1
        DEF Call, SubmitBegin, Close, Drop, SetCallback, ReadBegin, ReadEnd,
            DestroyReturn, workers
      <4>2. CASE Skip(a) \/ GiveBack(a) \/ Forget(a) \/ SubmitEnd(a)
        BY <4>2 DEF Skip, GiveBack, Forget, SubmitEnd, workers
      <4>3. ASSUME NEW x \in Op, NEW c \in Context, Accept(a, x, c) \/ Refuse(a, x, c)
            PROVE  stage'[o] = stage[o]
        <5>1. x # o
          BY <3>2, <4>3, ClaimedIsNew
        <5> QED
          BY <1>a, <4>3, <5>1 DEF Typed, Accept, Refuse, Set, workers
      <4>4. CASE a \in Op /\ Python(a)
        BY <1>a, <2>3, <4>4
        DEF Typed, Python, Publish, CallbackReturns, ReleaseContext,
            ReleaseOperation, Set
      <4> QED
        BY <2>3, <4>1, <4>2, <4>3, <4>4 DEF TakesGil, SubmitStep
    <3> QED
      BY <3>2, <3>3
  <2>4. CASE TakesGil(o)
    <3>1. CASE Call(o)
      BY <1>a, <3>1
      DEF Call, SubmitBegin, Close, Drop, SetCallback, ReadBegin, MayCall, workers,
          calls, Callers
    <3>2. CASE ReadEnd(o) \/ DestroyReturn(o)
      BY <2>1, <3>2 DEF ReadEnd, DestroyReturn, workers
    <3>3. CASE Skip(o) \/ GiveBack(o) \/ Forget(o) \/ SubmitEnd(o)
      BY <2>1, <3>3 DEF Skip, GiveBack, Forget, SubmitEnd, workers
    <3>4. ASSUME NEW x \in Op, NEW c \in Context, Accept(o, x, c) \/ Refuse(o, x, c)
          PROVE  stage'[o] \in {"callback", "drop"}
      <4>1. pc[o] = "submit" /\ stage[x] = "new"
        BY <3>4, ClaimedIsNew DEF Actor
      <4>2. stage[o] \in {"callback", "drop"} /\ x # o
        BY <1>a, <4>1 DEF Callers
      <4> QED
        BY <1>a, <3>4, <4>2 DEF Typed, Accept, Refuse, Set, workers
    <3>5. CASE Python(o)
      BY <1>a, <1>1, <3>5
      DEF Typed, Python, Publish, CallbackReturns, ReleaseContext,
          ReleaseOperation, Set, calls, Callers
    <3> QED
      BY <2>4, <3>1, <3>2, <3>3, <3>4, <3>5 DEF TakesGil, SubmitStep
  <2>5. ASSUME NEW c \in Context, Start(c)
        PROVE stage'[o] \in {"callback", "drop"}
    <3>1. /\ Head(queue[c]) \in Op /\ Head(queue[c]) = queue[c][1]
          /\ 1 \in 1 .. Len(queue[c])
      BY <1>a, <2>5, OldestType DEF Start, Serves
    <3>2. stage[Head(queue[c])] = "queued"
      BY <1>a, <3>1 DEF Queued
    <3>3. UNCHANGED pc /\ stage' = [stage EXCEPT ![Head(queue[c])] = "started"]
      BY <2>5 DEF Start, Set, calls
    <3> QED
      BY <1>a, <1>1, <3>1, <3>2, <3>3 DEF Typed, Callers
  <2>6. ASSUME NEW x \in Op, Perform(x)
        PROVE stage'[o] \in {"callback", "drop"}
    BY <1>a, <1>1, <2>6 DEF Typed, Perform, Set, calls, Callers
  <2>7. CASE UNCHANGED vars
    BY <2>2, <2>7 DEF vars, workers, calls
  <2> QED
    BY <2>3, <2>4, <2>5, <2>6, <2>7, NextSteps
<1> QED
  BY <1>1 DEF Callers

-----------------------------------------------------------------------------
(* The steps that leave the Operations and the queues alone.               *)
Quiet(a) == Call(a) \/ Skip(a) \/ SubmitEnd(a) \/ ReadEnd(a) \/ DestroyReturn(a)

LEMMA QuietSteps ==
  ASSUME NEW a \in Actor, Quiet(a)
  PROVE  UNCHANGED <<in_progress, done, ctx, payload, result, workers, queue>>
BY DEF Quiet, Call, SubmitBegin, Close, Drop, SetCallback, ReadBegin, Skip,
       SubmitEnd, ReadEnd, DestroyReturn, context, operation, workers

(* None of them is in a refusal.                                           *)
LEMMA QuietRefusesNone ==
  ASSUME Typed, NEW a \in Actor, Quiet(a)
  PROVE  ~Refused(a) /\ ~Refused(a)'
<1>1. CASE Call(a)
  <2>1. pc[a] = "idle"
    BY <1>1
    DEF Call, SubmitBegin, Close, Drop, SetCallback, ReadBegin, MayCall
  <2>2. ASSUME NEW c \in Context,
               (\E ops \in Batch : SubmitBegin(a, c, ops)) \/ Close(a, c)
        PROVE  ~Refused(a)'
    BY <2>2
    DEF Typed, SubmitBegin, Close, ClosePool, Enters, Set, Refused
  <2>3. ASSUME NEW c \in Context, Drop(a, c) PROVE ~Refused(a)'
    BY <2>1, <2>3
    DEF Typed, Drop, Dealloc, ClosePool, Enters, Set, Refused, calls
  <2>4. ASSUME NEW o \in Op, SetCallback(a, o) \/ ReadBegin(a, o)
        PROVE  ~Refused(a)'
    BY <2>1, <2>4
    DEF Typed, SetCallback, ReadBegin, Enters, Set, Refused, calls
  <2> QED
    BY <1>1, <2>1, <2>2, <2>3, <2>4 DEF Call, Refused
<1>2. CASE Skip(a) \/ SubmitEnd(a) \/ ReadEnd(a) \/ DestroyReturn(a)
  BY <1>2
  DEF Typed, Skip, SubmitEnd, ReadEnd, DestroyReturn, Leaves, Enters, Set, Refused
<1> QED
  BY <1>1, <1>2 DEF Quiet

(* Nor is a worker, while it goes on.                                      *)
LEMMA WorkerIdle ==
  ASSUME DispatchInvariant, NEW o \in Op, Python(o)
  PROVE  ~Refused(o) /\ ~Refused(o)'
<1>1. Typed /\ Callers /\ o \in Actor
  BY DEF DispatchInvariant, Actor
<1>2. ~Refused(o)
  BY <1>1
  DEF Python, Publish, CallbackReturns, ReleaseContext, ReleaseOperation, Callers, Refused
<1>3. ~Refused(o)'
  BY <1>1, <1>2
  DEF Typed, Python, Publish, CallbackReturns, ReleaseContext, ReleaseOperation,
      Dealloc, ClosePool, Enters, Set, Refused, calls
<1> QED
  BY <1>2, <1>3

(* The Operation a worker is to start waits in its Context's pool.         *)
LEMMA OldestQueued ==
  ASSUME DispatchInvariant, NEW c \in Context, Start(c)
  PROVE  /\ Head(queue[c]) \in Op
         /\ stage[Head(queue[c])] = "queued" /\ home[Head(queue[c])] = c
<1>1. Typed /\ Queued
  BY DEF DispatchInvariant
<1>2. /\ Head(queue[c]) \in Op /\ Head(queue[c]) = queue[c][1]
      /\ 1 \in 1 .. Len(queue[c])
  BY <1>1, OldestType DEF Start, Serves
<1> QED
  BY <1>1, <1>2 DEF Queued

(* The flags and pointers follow an Operation through its stages.          *)
LEMMA NextStages == DispatchInvariant /\ [Next]_vars => Stages'
<1> SUFFICES ASSUME DispatchInvariant, [Next]_vars PROVE Stages'
  OBVIOUS
<1> USE AioAssumption
<1>a. Typed /\ InSection /\ Stages /\ Claimants
  BY DEF DispatchInvariant
<1>1. ASSUME UNCHANGED <<in_progress, done, ctx, payload, result, workers>>
      PROVE  Stages'
  BY <1>a, <1>1 DEF Stages, workers
<1>2. ASSUME NEW a \in Actor, NEW o \in Op, NEW c \in Context,
             Accept(a, o, c) \/ Refuse(a, o, c)
      PROVE  Stages'
  <2>a. stage[o] = "new" /\ ~done[o] /\ local[o] = NoContext
    BY <1>2, ClaimedIsNew
  <2>1. /\ UNCHANGED <<done, payload, result, local, runs>>
        /\ in_progress' = [in_progress EXCEPT ![o] = TRUE]
        /\ ctx' = [ctx EXCEPT ![o] = c]
    BY <1>2 DEF Accept, Refuse, Claims, Set, workers
  <2>2. CASE Accept(a, o, c)
    <3>1. stage' = [stage EXCEPT ![o] = "queued"] /\ home' = [home EXCEPT ![o] = c]
      BY <2>2 DEF Accept, Set
    <3> QED
      BY <1>a, <2>a, <2>1, <3>1 DEF Typed, Stages
  <2>3. CASE Refuse(a, o, c)
    <3>1. UNCHANGED <<stage, home>>
      BY <2>3 DEF Refuse, workers
    <3> QED
      BY <1>a, <2>a, <2>1, <3>1 DEF Typed, Stages
  <2> QED
    BY <1>2, <2>2, <2>3
<1>3. ASSUME NEW a \in Actor, GiveBack(a) \/ Forget(a) PROVE Stages'
  <2>1. PICK o \in Op : o = Current(a)
    <3>1. todo[a] # <<>>
      BY <1>a, <1>3 DEF GiveBack, Forget, InSection, Sound, Refused
    <3> QED
      BY <1>a, <3>1, CurrentType
  <2>2. UNCHANGED <<workers, done, payload, result>>
    BY <1>3 DEF GiveBack, Forget
  <2>3. CASE GiveBack(a)
    <3>1. in_progress' = [in_progress EXCEPT ![o] = FALSE] /\ UNCHANGED ctx
      BY <2>1, <2>3 DEF GiveBack, Set, Current
    <3>2. stage[o] = "new"
      BY <1>a, <2>1, <2>3 DEF GiveBack, Claimants
    <3> QED
      BY <1>a, <2>2, <3>1, <3>2 DEF Typed, Stages, workers
  <2>4. CASE Forget(a)
    <3>1. ctx' = [ctx EXCEPT ![o] = NoContext] /\ UNCHANGED in_progress
      BY <2>1, <2>4 DEF Forget, ForgetsContext, Set, Current
    <3> QED
      BY <1>a, <2>2, <3>1 DEF Typed, Stages, workers
  <2> QED
    BY <1>3, <2>3, <2>4
<1>4. ASSUME NEW c \in Context, Start(c) PROVE Stages'
  <2>1. PICK o \in Op : o = Head(queue[c])
    BY <1>4, OldestQueued
  <2>2. stage[o] = "queued"
    BY <1>4, <2>1, OldestQueued
  <2>3. /\ UNCHANGED <<in_progress, done, payload, home>>
        /\ local' = [local EXCEPT ![o] = ctx[o]]
        /\ ctx' = [ctx EXCEPT ![o] = NoContext]
        /\ result' = [result EXCEPT ![o] = "none"]
        /\ runs' = [runs EXCEPT ![o] = runs[o] + 1]
        /\ stage' = [stage EXCEPT ![o] = "started"]
    BY <1>4, <2>1 DEF Start, TakesContext, Set
  <2>4. /\ in_progress[o] /\ home[o] \in Context /\ ~done[o]
        /\ ctx[o] \in {home[o], NoContext}
    BY <1>a, <2>2 DEF Stages
  <2> QED
    <3>1. /\ stage'[o] = "started" /\ local'[o] \in {home[o], NoContext} /\ runs'[o] = 1
          /\ in_progress'[o] /\ home'[o] \in Context /\ ~done'[o]
      BY <1>a, <2>2, <2>3, <2>4 DEF Typed, Stages
    <3>2. \A x \in Op \ {o} :
            /\ stage'[x] = stage[x] /\ local'[x] = local[x] /\ runs'[x] = runs[x]
            /\ ctx'[x] = ctx[x] /\ result'[x] = result[x]
      BY <1>a, <2>3 DEF Typed
    <3> QED
      BY <1>a, <2>3, <3>1, <3>2 DEF Stages
<1>5. ASSUME NEW o \in Op, Perform(o) \/ Publish(o) PROVE Stages'
  <2>1. CASE Perform(o)
    <3>1. /\ UNCHANGED <<in_progress, done, payload, home, local, runs>>
          /\ stage[o] = "started"
          /\ ctx' = [ctx EXCEPT ![o] = NoContext]
          /\ result' = [result EXCEPT ![o] = "written"]
          /\ stage' = [stage EXCEPT ![o] = "performed"]
      BY <2>1 DEF Perform, Set
    <3> QED
      BY <1>a, <3>1 DEF Typed, Stages
  <2>2. CASE Publish(o)
    <3>1. PICK s \in {"callback", "release"} : stage' = [stage EXCEPT ![o] = s]
      BY <2>2 DEF Publish, Set
    <3>2. /\ UNCHANGED <<in_progress, result, home, local, runs, ctx>>
          /\ stage[o] = "performed"
          /\ done' = [done EXCEPT ![o] = TRUE]
          /\ \A x \in Op : x # o => payload'[x] = payload[x]
      BY <1>a, <2>2 DEF Typed, Publish, ClearWritten, Set
    <3> QED
      BY <1>a, <3>1, <3>2 DEF Typed, Stages
  <2> QED
    BY <1>5, <2>1, <2>2
<1>6. ASSUME NEW o \in Op,
             CallbackReturns(o) \/ ReleaseContext(o) \/ ReleaseOperation(o)
      PROVE  Stages'
  <2>1. UNCHANGED <<in_progress, done, payload, result, home, runs, ctx>>
    BY <1>6 DEF CallbackReturns, ReleaseContext, ReleaseOperation, operation
  <2>2. CASE CallbackReturns(o)
    <3>1. /\ stage[o] = "callback" /\ UNCHANGED local
          /\ stage' = [stage EXCEPT ![o] = "release"]
      BY <2>2 DEF CallbackReturns, Set
    <3> QED
      BY <1>a, <2>1, <3>1 DEF Typed, Stages
  <2>3. CASE ReleaseContext(o)
    <3>1. /\ stage[o] = "release" /\ local' = [local EXCEPT ![o] = NoContext]
          /\ stage' = [stage EXCEPT ![o] = "drop"]
      BY <2>3 DEF ReleaseContext, Set
    <3> QED
      BY <1>a, <2>1, <3>1 DEF Typed, Stages
  <2>4. CASE ReleaseOperation(o)
    <3>1. /\ stage[o] = "drop" /\ UNCHANGED local
          /\ stage' = [stage EXCEPT ![o] = "over"]
      BY <2>4 DEF ReleaseOperation, Set
    <3> QED
      BY <1>a, <2>1, <3>1 DEF Typed, Stages
  <2> QED
    BY <1>6, <2>2, <2>3, <2>4
<1>7. ASSUME NEW a \in Actor, Quiet(a) PROVE Stages'
  BY <1>1, <1>7, QuietSteps
<1>8. CASE UNCHANGED vars
  BY <1>1, <1>8 DEF vars, operation
<1>9. ASSUME NEW a \in Actor, TakesGil(a) PROVE Stages'
  BY <1>2, <1>3, <1>5, <1>6, <1>7, <1>9 DEF TakesGil, SubmitStep, Quiet, Python
<1> QED
  BY <1>4, <1>5, <1>8, <1>9, NextSteps

(* A claim on a new Operation is that of one submit(), and its pointer is  *)
(* cleared by the last one to give it back.                                *)
LEMMA NextClaimants == DispatchInvariant /\ [Next]_vars => Claimants'
<1> SUFFICES ASSUME DispatchInvariant, [Next]_vars PROVE Claimants'
  OBVIOUS
<1> USE AioAssumption
<1>a. Typed /\ InSection /\ Stages /\ Claimants
  BY DEF DispatchInvariant
<1>b. ASSUME NEW a \in Actor, Refused(a) PROVE Current(a) \in Op
  BY <1>a, <1>b, CurrentType DEF InSection, Sound
<1>1. ASSUME \A o \in Op : stage'[o] = "new" <=> stage[o] = "new",
             \A o \in Op : stage[o] = "new" =>
                             in_progress'[o] = in_progress[o] /\ ctx'[o] = ctx[o],
             \A a \in Actor : /\ Refused(a)' <=> Refused(a)
                              /\ Refused(a) => pc'[a] = pc[a] /\ todo'[a] = todo[a]
      PROVE  Claimants'
  <2>1. \A a \in Actor : /\ Refused(a) => Current(a)' = Current(a)
                         /\ pc'[a] = "refuse" <=> pc[a] = "refuse"
                         /\ pc[a] = "refuse" => Refused(a)
    BY <1>1 DEF Current, Refused
  <2> QED
    BY <1>a, <1>b, <1>1, <2>1 DEF Claimants
<1>2. ASSUME NEW a \in Actor, TakesGil(a), ~Refused(a), ~Refused(a)',
             \A o \in Op : stage'[o] = "new" <=> stage[o] = "new",
             \A o \in Op : stage[o] = "new" =>
                             in_progress'[o] = in_progress[o] /\ ctx'[o] = ctx[o]
      PROVE  Claimants'
  <2>1. \A b \in Actor \ {a} : pc'[b] = pc[b] /\ on'[b] = on[b] /\ todo'[b] = todo[b]
    BY <1>a, <1>2, OwnCalls
  <2> QED
    BY <1>1, <1>2, <2>1 DEF Refused
<1>3. ASSUME NEW a \in Actor, Quiet(a) PROVE Claimants'
  <2>1. ~Refused(a) /\ ~Refused(a)'
    BY <1>a, <1>3, QuietRefusesNone
  <2>2. TakesGil(a)
    BY <1>3 DEF Quiet, TakesGil, SubmitStep
  <2> QED
    BY <1>2, <1>3, <2>1, <2>2, QuietSteps DEF workers
<1>4. ASSUME NEW a \in Actor, NEW o \in Op, NEW c \in Context,
             Accept(a, o, c) \/ Refuse(a, o, c)
      PROVE  Claimants'
  <2>1. /\ stage[o] = "new" /\ o = Current(a) /\ pc[a] = "submit" /\ ~in_progress[o]
        /\ in_progress' = [in_progress EXCEPT ![o] = TRUE]
        /\ ctx' = [ctx EXCEPT ![o] = c]
    BY <1>4, ClaimedIsNew DEF Accept, Refuse, Claims, Claim, Set
  <2>2. \A b \in Actor \ {a} : pc'[b] = pc[b] /\ todo'[b] = todo[b]
    <3>1. TakesGil(a)
      BY <1>4 DEF TakesGil, SubmitStep
    <3> QED
      BY <1>a, <3>1, OwnCalls
  <2>3. ~Refused(a)
    BY <2>1 DEF Refused
  <2>4. \A b \in Actor \ {a} : /\ Refused(b)' <=> Refused(b)
                               /\ Current(b)' = Current(b)
    BY <2>2 DEF Refused, Current
  <2>5. \A b \in Actor : pc[b] = "refuse" => Current(b) \in Op \ {o} /\ b # a
    BY <1>a, <1>b, <2>1 DEF Claimants, Refused
  <2>6. \A x \in Op \ {o} : in_progress'[x] = in_progress[x] /\ ctx'[x] = ctx[x]
    BY <1>a, <2>1 DEF Typed
  <2>7. CASE Accept(a, o, c)
    <3>1. /\ stage'[o] = "queued" /\ \A x \in Op \ {o} : stage'[x] = stage[x]
          /\ pc'[a] = pc[a]
      BY <1>a, <2>7 DEF Typed, Accept, Set
    <3>2. \A b \in Actor : pc'[b] = "refuse" => b # a /\ pc[b] = "refuse"
      BY <2>1, <2>2, <3>1
    <3>3. \A b \in Actor : Refused(b) => b # a
      BY <2>3
    <3> QED
      BY <1>a, <2>2, <2>4, <2>5, <2>6, <3>1, <3>2, <3>3 DEF Claimants
  <2>8. CASE Refuse(a, o, c)
    <3>1. /\ UNCHANGED stage /\ pc'[a] = "refuse" /\ Current(a)' = o
          /\ in_progress'[o]
      BY <1>a, <2>1, <2>8 DEF Typed, Refuse, Set, Current, workers
    <3>2. Refused(a)'
      BY <3>1 DEF Refused
    <3>3. \A b \in Actor : Refused(b) => b # a
      BY <2>3
    <3>4. \A b \in Actor : pc'[b] = "refuse" =>
            stage'[Current(b)'] = "new" /\ in_progress'[Current(b)']
      BY <1>a, <2>1, <2>2, <2>4, <2>5, <2>6, <3>1 DEF Claimants
    <3>5. \A b, d \in Actor :
            pc'[b] = "refuse" /\ pc'[d] = "refuse" /\ Current(b)' = Current(d)' => b = d
      BY <1>a, <2>2, <2>4, <2>5, <3>1 DEF Claimants
    <3>6. \A x \in Op : stage'[x] = "new" /\ in_progress'[x] =>
            \E b \in Actor : pc'[b] = "refuse" /\ Current(b)' = x
      BY <1>a, <2>2, <2>4, <2>5, <2>6, <3>1 DEF Claimants
    <3>7. \A x \in Op : stage'[x] = "new" /\ ctx'[x] # NoContext =>
            \E b \in Actor : Refused(b)' /\ Current(b)' = x
      BY <1>a, <2>4, <2>6, <3>1, <3>2, <3>3 DEF Claimants
    <3> QED
      BY <3>4, <3>5, <3>6, <3>7 DEF Claimants
  <2> QED
    BY <1>4, <2>7, <2>8
<1>5. ASSUME NEW a \in Actor, GiveBack(a) \/ Forget(a) PROVE Claimants'
  <2>1. PICK o \in Op : o = Current(a)
    BY <1>b, <1>5 DEF GiveBack, Forget, Refused
  <2>2. \A b \in Actor \ {a} : pc'[b] = pc[b] /\ todo'[b] = todo[b]
    <3>1. TakesGil(a)
      BY <1>5 DEF TakesGil, SubmitStep
    <3> QED
      BY <1>a, <3>1, OwnCalls
  <2>3. \A b \in Actor \ {a} : /\ Refused(b)' <=> Refused(b)
                               /\ Current(b)' = Current(b)
    BY <2>2 DEF Refused, Current
  <2>4. CASE GiveBack(a)
    <3>1. /\ UNCHANGED <<stage, ctx>> /\ pc[a] = "refuse" /\ pc'[a] = "forget"
          /\ ~in_progress'[o] /\ \A x \in Op \ {o} : in_progress'[x] = in_progress[x]
          /\ Current(a)' = o
      BY <1>a, <2>1, <2>4 DEF Typed, GiveBack, Set, Current, workers
    <3>2. Refused(a) /\ Refused(a)'
      BY <3>1 DEF Refused
    <3>3. \A b \in Actor : pc'[b] = "refuse" =>
            b # a /\ pc[b] = "refuse" /\ Current(b) \in Op \ {o}
      BY <1>a, <1>b, <2>1, <2>2, <3>1 DEF Claimants, Refused
    <3>4. \A b \in Actor : pc'[b] = "refuse" =>
            stage'[Current(b)'] = "new" /\ in_progress'[Current(b)']
      BY <1>a, <2>3, <3>1, <3>3 DEF Claimants
    <3>5. \A b, d \in Actor :
            pc'[b] = "refuse" /\ pc'[d] = "refuse" /\ Current(b)' = Current(d)' => b = d
      BY <1>a, <2>3, <3>3 DEF Claimants
    <3>6. \A x \in Op : stage'[x] = "new" /\ in_progress'[x] =>
            \E b \in Actor : pc'[b] = "refuse" /\ Current(b)' = x
      BY <1>a, <2>1, <2>2, <2>3, <3>1 DEF Claimants
    <3>7. \A x \in Op : stage'[x] = "new" /\ ctx'[x] # NoContext =>
            \E b \in Actor : Refused(b)' /\ Current(b)' = x
      BY <1>a, <2>1, <2>3, <3>1, <3>2 DEF Claimants
    <3> QED
      BY <3>4, <3>5, <3>6, <3>7 DEF Claimants
  <2>5. CASE Forget(a)
    <3>1. /\ UNCHANGED <<stage, in_progress>> /\ pc[a] = "forget" /\ pc'[a] = "idle"
          /\ ctx' = [ctx EXCEPT ![o] = NoContext]
      BY <1>a, <2>1, <2>5
      DEF Typed, Forget, ForgetsContext, Leaves, Enters, Set, Current, workers
    <3>2. ctx'[o] = NoContext /\ \A x \in Op \ {o} : ctx'[x] = ctx[x]
      BY <1>a, <3>1 DEF Typed
    <3>3. \A b \in Actor : pc[b] = "refuse" \/ pc'[b] = "refuse" =>
            b # a /\ pc'[b] = pc[b] /\ Current(b)' = Current(b)
      BY <2>2, <2>3, <3>1
    <3>4. \A x \in Op \ {o} : \A b \in Actor :
            Refused(b) /\ Current(b) = x => Refused(b)' /\ Current(b)' = x
      BY <2>1, <2>3
    <3>5. \A x \in Op : stage'[x] = "new" /\ ctx'[x] # NoContext =>
            \E b \in Actor : Refused(b)' /\ Current(b)' = x
      BY <1>a, <3>1, <3>2, <3>4 DEF Claimants
    <3> QED
      BY <1>a, <3>1, <3>3, <3>5 DEF Claimants
  <2> QED
    BY <1>5, <2>4, <2>5
<1>6. ASSUME NEW c \in Context, Start(c) PROVE Claimants'
  <2>1. PICK o \in Op : o = Head(queue[c]) /\ stage[o] = "queued"
    BY <1>6, OldestQueued
  <2>2. /\ UNCHANGED <<in_progress, calls>>
        /\ ctx' = [ctx EXCEPT ![o] = NoContext]
        /\ stage' = [stage EXCEPT ![o] = "started"]
    BY <1>6, <2>1 DEF Start, Set
  <2> QED
    BY <1>a, <1>1, <2>1, <2>2 DEF Typed, Refused, calls
<1>7. ASSUME NEW o \in Op, Perform(o) PROVE Claimants'
  BY <1>a, <1>1, <1>7 DEF Typed, Perform, Set, Refused, calls
<1>8. ASSUME NEW o \in Op, Python(o) PROVE Claimants'
  <2>1. ~Refused(o) /\ ~Refused(o)'
    BY <1>8, WorkerIdle
  <2>2. UNCHANGED <<in_progress, ctx>>
    BY <1>8
    DEF Python, Publish, CallbackReturns, ReleaseContext, ReleaseOperation, operation
  <2>3. \A x \in Op : stage'[x] = "new" <=> stage[x] = "new"
    BY <1>a, <1>8
    DEF Typed, Python, Publish, CallbackReturns, ReleaseContext, ReleaseOperation, Set
  <2>4. TakesGil(o) /\ o \in Actor
    BY <1>8 DEF TakesGil, Actor
  <2> QED
    BY <1>2, <2>1, <2>2, <2>3, <2>4
<1>9. CASE UNCHANGED vars
  BY <1>1, <1>9 DEF vars, operation, workers, calls, Refused
<1>10. ASSUME NEW a \in Actor, TakesGil(a) PROVE Claimants'
  BY <1>3, <1>4, <1>5, <1>8, <1>10 DEF TakesGil, SubmitStep, Quiet
<1> QED
  BY <1>6, <1>7, <1>9, <1>10, NextSteps

(* A queue gets what is new and loses what is started.                     *)
LEMMA NextQueued == DispatchInvariant /\ [Next]_vars => Queued'
<1> SUFFICES ASSUME DispatchInvariant, [Next]_vars PROVE Queued'
  OBVIOUS
<1> USE AioAssumption
<1>a. Typed /\ Queued
  BY DEF DispatchInvariant
<1>b. \A c \in Context : queue[c] \in Seq(Op) /\ Len(queue[c]) \in Nat
  BY <1>a, LenProperties DEF Typed
<1>c. \A c \in Context : \A i \in 1 .. Len(queue[c]) : queue[c][i] \in Op
  BY <1>b, ElementOfSeq
<1>1. ASSUME UNCHANGED <<queue, home>>,
             \A o \in Op : stage[o] = "queued" => stage'[o] = "queued"
      PROVE  Queued'
  BY <1>a, <1>c, <1>1 DEF Queued
<1>2. ASSUME NEW a \in Actor, NEW o \in Op, NEW c \in Context, Accept(a, o, c)
      PROVE  Queued'
  <2>1. stage[o] = "new"
    BY <1>2, ClaimedIsNew
  <2>2. /\ queue' = [queue EXCEPT ![c] = Append(queue[c], o)]
        /\ stage' = [stage EXCEPT ![o] = "queued"]
        /\ home' = [home EXCEPT ![o] = c]
    BY <1>2 DEF Accept, Set
  <2>3. \A x \in Context : \A i \in 1 .. Len(queue[x]) :
          /\ queue[x][i] # o
          /\ stage'[queue[x][i]] = "queued" /\ home'[queue[x][i]] = x
    BY <1>a, <1>c, <2>1, <2>2 DEF Typed, Queued
  <2>4. /\ Len(Append(queue[c], o)) = Len(queue[c]) + 1
        /\ \A i \in 1 .. Len(queue[c]) : Append(queue[c], o)[i] = queue[c][i]
        /\ Append(queue[c], o)[Len(queue[c]) + 1] = o
    BY <1>b, AppendProperties
  <2>5. stage'[o] = "queued" /\ home'[o] = c
    BY <1>a, <2>2 DEF Typed
  <2>6. \A x \in Context \ {c} : queue'[x] = queue[x]
    BY <1>a, <2>2 DEF Typed
  <2>7. queue'[c] = Append(queue[c], o)
    BY <1>a, <2>2 DEF Typed
  <2>8. ASSUME NEW i \in 1 .. Len(queue'[c]), NEW j \in 1 .. Len(queue'[c])
        PROVE  /\ stage'[queue'[c][i]] = "queued" /\ home'[queue'[c][i]] = c
               /\ queue'[c][i] = queue'[c][j] => i = j
    <3>1. \A k \in {i, j} : \/ k \in 1 .. Len(queue[c]) /\ queue'[c][k] = queue[c][k]
                            \/ k = Len(queue[c]) + 1 /\ queue'[c][k] = o
      BY <1>b, <2>4, <2>7
    <3> QED
      BY <1>a, <2>3, <2>5, <3>1 DEF Queued
  <2>9. ASSUME NEW x \in Context \ {c}, NEW i \in 1 .. Len(queue'[x])
        PROVE  /\ stage'[queue'[x][i]] = "queued" /\ home'[queue'[x][i]] = x
               /\ \A j \in 1 .. Len(queue'[x]) : queue'[x][i] = queue'[x][j] => i = j
    BY <1>a, <2>3, <2>6 DEF Queued
  <2>10. \A i \in 1 .. Len(queue'[c]) :
           /\ stage'[queue'[c][i]] = "queued" /\ home'[queue'[c][i]] = c
           /\ \A j \in 1 .. Len(queue'[c]) : queue'[c][i] = queue'[c][j] => i = j
    BY <2>8
  <2> QED
    BY <2>9, <2>10 DEF Queued
<1>3. ASSUME NEW c \in Context, Start(c) PROVE Queued'
  <2>1. PICK o \in Op : o = Head(queue[c])
    BY <1>3, OldestQueued
  <2>2. /\ queue' = [queue EXCEPT ![c] = Tail(queue[c])]
        /\ stage' = [stage EXCEPT ![o] = "started"]
        /\ home' = home
    BY <1>3, <2>1 DEF Start, Set
  <2>3. /\ o = queue[c][1] /\ Len(queue[c]) \in Nat \ {0}
        /\ Len(Tail(queue[c])) = Len(queue[c]) - 1
        /\ \A i \in 1 .. Len(queue[c]) - 1 : Tail(queue[c])[i] = queue[c][i + 1]
    BY <1>3, <1>a, <2>1, OldestType DEF Start, Serves
  <2>4. home[o] = c
    BY <1>3, <2>1, OldestQueued
  <2>5. queue'[c] = Tail(queue[c]) /\ \A x \in Context \ {c} : queue'[x] = queue[x]
    BY <1>a, <2>2 DEF Typed
  <2>6. \A x \in Op \ {o} : stage'[x] = stage[x]
    BY <1>a, <2>2 DEF Typed
  <2>7. ASSUME NEW i \in 1 .. Len(queue'[c])
        PROVE  /\ stage'[queue'[c][i]] = "queued" /\ home'[queue'[c][i]] = c
               /\ \A j \in 1 .. Len(queue'[c]) : queue'[c][i] = queue'[c][j] => i = j
    <3>1. \A k \in 1 .. Len(queue'[c]) :
            k + 1 \in 2 .. Len(queue[c]) /\ queue'[c][k] = queue[c][k + 1]
      BY <2>3, <2>5
    <3>2. queue[c][i + 1] \in Op \ {o}
      BY <1>a, <1>c, <2>3, <3>1 DEF Queued
    <3>3. stage[queue[c][i + 1]] = "queued" /\ home[queue[c][i + 1]] = c
      BY <1>a, <3>1 DEF Queued
    <3>4. \A j \in 1 .. Len(queue'[c]) : queue[c][i + 1] = queue[c][j + 1] => i = j
      BY <1>a, <3>1 DEF Queued
    <3> QED
      BY <2>2, <2>6, <3>1, <3>2, <3>3, <3>4
  <2>8. ASSUME NEW x \in Context \ {c}, NEW i \in 1 .. Len(queue'[x])
        PROVE  /\ stage'[queue'[x][i]] = "queued" /\ home'[queue'[x][i]] = x
               /\ \A j \in 1 .. Len(queue'[x]) : queue'[x][i] = queue'[x][j] => i = j
    <3>1. queue[x][i] \in Op /\ home[queue[x][i]] = x /\ stage[queue[x][i]] = "queued"
      BY <1>a, <1>c, <2>5, <2>8 DEF Queued
    <3>2. queue[x][i] # o
      BY <2>4, <2>8, <3>1
    <3> QED
      BY <1>a, <2>2, <2>5, <2>6, <2>8, <3>1, <3>2 DEF Queued
  <2> QED
    BY <2>7, <2>8 DEF Queued
<1>4. ASSUME NEW a \in Actor, Quiet(a) PROVE Queued'
  BY <1>1, <1>4, QuietSteps DEF workers
<1>5. ASSUME NEW a \in Actor, \/ GiveBack(a) \/ Forget(a)
                              \/ \E o \in Op, c \in Context : Refuse(a, o, c)
      PROVE  Queued'
  BY <1>1, <1>5 DEF GiveBack, Forget, Refuse, context, workers
<1>6. ASSUME NEW o \in Op, Perform(o) \/ Python(o) PROVE Queued'
  <2>1. UNCHANGED <<queue, home>>
    BY <1>6 DEF Perform, Python, Publish, CallbackReturns, ReleaseContext,
                ReleaseOperation, context
  <2>2. stage[o] # "queued" /\ \A x \in Op \ {o} : stage'[x] = stage[x]
    BY <1>a, <1>6
    DEF Typed, Perform, Python, Publish, CallbackReturns, ReleaseContext,
        ReleaseOperation, Set
  <2> QED
    BY <1>1, <2>1, <2>2
<1>7. CASE UNCHANGED vars
  BY <1>1, <1>7 DEF vars, context, workers
<1>8. ASSUME NEW a \in Actor, TakesGil(a) PROVE Queued'
  BY <1>2, <1>4, <1>5, <1>6, <1>8 DEF TakesGil, SubmitStep, Quiet
<1> QED
  BY <1>3, <1>6, <1>7, <1>8, NextSteps

-----------------------------------------------------------------------------
(* With the GIL, whoever is in a method has it.                            *)
LEMMA NextExclusive == GilInvariant /\ [Next]_vars => Exclusive'
<1> SUFFICES ASSUME GilInvariant, [Next]_vars PROVE Exclusive'
  OBVIOUS
<1> USE AioAssumption
<1>a. Typed /\ Exclusive /\ Callers
  BY DEF GilInvariant, DispatchInvariant
<1>b. ~freeThreaded'
  BY <1>a DEF Exclusive, Next, vars
<1>c. ASSUME UNCHANGED pc, NEW b \in Actor, Submits(b)' \/ pc'[b] = "read"
      PROVE  gil = b
  BY <1>a, <1>c DEF Exclusive, Submits
<1>1. ASSUME NEW a \in Actor, TakesGil(a), Submits(a)' \/ pc'[a] = "read"
      PROVE  gil' = a
  <2>1. CASE SubmitStep(a)
    BY <1>a, <1>1, <2>1
    DEF Typed, Exclusive, Submits, SubmitStep, Skip, GiveBack, Forget, SubmitEnd,
        Accept, Refuse, Claims, Leaves, Enters, Set
  <2>2. CASE ReadEnd(a) \/ DestroyReturn(a)
    BY <1>a, <1>1, <2>2
    DEF Typed, ReadEnd, DestroyReturn, Leaves, Enters, Set, Submits
  <2>3. CASE Call(a)
    <3>1. ASSUME NEW c \in Context, NEW ops \in Batch, SubmitBegin(a, c, ops)
          PROVE  gil' = a
      BY <1>a, <3>1 DEF SubmitBegin, KeepGil, Exclusive
    <3>2. ASSUME NEW c \in Context, Close(a, c) PROVE FALSE
      BY <1>a, <1>1, <3>2 DEF Typed, Close, ClosePool, Enters, Set, Submits
    <3>3. ASSUME NEW c \in Context, Drop(a, c) PROVE FALSE
      BY <1>a, <1>1, <3>3
      DEF Typed, Drop, MayCall, Dealloc, ClosePool, Enters, Set, Submits, calls
    <3>4. ASSUME NEW o \in Op, SetCallback(a, o) \/ ReadBegin(a, o)
          PROVE gil' = a
      BY <1>a, <1>1, <3>4
      DEF SetCallback, ReadBegin, KeepGil, MayCall, Exclusive, Submits, calls
    <3> QED
      BY <2>3, <3>1, <3>2, <3>3, <3>4 DEF Call
  <2>4. CASE a \in Op /\ Python(a)
    <3>1. stage[a] # "drop" /\ pc[a] # "idle" => stage[a] = "callback"
      BY <1>a, <2>4 DEF Callers
    <3>2. CASE ReleaseContext(a)
      BY <1>a, <1>1, <2>4, <3>1, <3>2
      DEF Typed, ReleaseContext, Dealloc, ClosePool, Enters, Set, Submits, calls
    <3>3. CASE Publish(a) \/ CallbackReturns(a) \/ ReleaseOperation(a)
      BY <1>1, <3>1, <3>3
      DEF Publish, CallbackReturns, ReleaseOperation, Submits, calls
    <3> QED
      BY <2>4, <3>2, <3>3 DEF Python
  <2> QED
    BY <1>1, <2>1, <2>2, <2>3, <2>4 DEF TakesGil
<1>2. ASSUME NEW b \in Actor, Submits(b)' \/ pc'[b] = "read" PROVE gil' = b
  <2>1. ASSUME NEW a \in Actor, TakesGil(a) PROVE gil' = b
    <3>1. CASE a = b
      BY <1>1, <1>2, <2>1, <3>1
    <3>2. CASE a # b
      BY <1>2, <2>1, <3>2, StepAlone DEF Submits
    <3> QED
      BY <3>1, <3>2
  <2>2. CASE \/ \E c \in Context : Start(c)
             \/ \E o \in Op : Perform(o)
             \/ UNCHANGED vars
    <3>1. UNCHANGED <<gil, pc>>
      BY <2>2 DEF Start, Perform, vars, calls
    <3> QED
      BY <1>c, <1>2, <3>1
  <2> QED
    BY <2>1, <2>2, NextSteps
<1> QED
  BY <1>b, <1>2 DEF Exclusive

(* With the GIL, no refusal is left to clear the pointer of an Operation   *)
(* that has been accepted.                                                 *)
LEMMA NextPointers == GilInvariant /\ [Next]_vars => Pointers'
<1> SUFFICES ASSUME GilInvariant, [Next]_vars PROVE Pointers'
  OBVIOUS
<1> USE AioAssumption
<1>a. DispatchInvariant /\ Typed /\ InSection /\ Stages /\ Pointers /\ Refusals
  BY DEF GilInvariant, DispatchInvariant
<1>1. ASSUME UNCHANGED <<ctx, workers>> PROVE Pointers'
  BY <1>a, <1>1 DEF Pointers, workers
<1>2. ASSUME NEW a \in Actor, NEW o \in Op, NEW c \in Context, Accept(a, o, c)
      PROVE  Pointers'
  <2>1. /\ ctx' = [ctx EXCEPT ![o] = c] /\ UNCHANGED local
        /\ stage' = [stage EXCEPT ![o] = "queued"] /\ home' = [home EXCEPT ![o] = c]
    BY <1>2 DEF Accept, Claims, Set
  <2> QED
    BY <1>a, <2>1 DEF Typed, Pointers
<1>3. ASSUME NEW a \in Actor, NEW o \in Op, NEW c \in Context, Refuse(a, o, c)
      PROVE  Pointers'
  <2>1. ctx' = [ctx EXCEPT ![o] = c] /\ UNCHANGED workers /\ stage[o] = "new"
    BY <1>a, <1>3, ClaimedIsNew DEF Refuse, Claims, Set
  <2> QED
    BY <1>a, <2>1 DEF Typed, Pointers, workers
<1>4. ASSUME NEW a \in Actor, Forget(a) PROVE Pointers'
  <2>1. stage[Current(a)] = "new"
    BY <1>a, <1>4 DEF Forget, Refusals, Refused
  <2>2. UNCHANGED workers /\ \A x \in Op : x # Current(a) => ctx'[x] = ctx[x]
    BY <1>a, <1>4 DEF Typed, Forget, ForgetsContext, Set, Current
  <2> QED
    BY <1>a, <2>1, <2>2 DEF Pointers, workers
<1>5. ASSUME NEW c \in Context, Start(c) PROVE Pointers'
  <2>1. PICK o \in Op : o = Head(queue[c]) /\ stage[o] = "queued"
    BY <1>a, <1>5, OldestQueued
  <2>2. /\ local' = [local EXCEPT ![o] = ctx[o]]
        /\ ctx' = [ctx EXCEPT ![o] = NoContext]
        /\ stage' = [stage EXCEPT ![o] = "started"] /\ UNCHANGED home
    BY <1>5, <2>1 DEF Start, TakesContext, Set
  <2> QED
    BY <1>a, <2>1, <2>2 DEF Typed, Pointers
<1>6. ASSUME NEW o \in Op, Perform(o) PROVE Pointers'
  <2>1. /\ UNCHANGED <<local, home>> /\ stage[o] = "started"
        /\ ctx' = [ctx EXCEPT ![o] = NoContext]
        /\ stage' = [stage EXCEPT ![o] = "performed"]
    BY <1>6 DEF Perform, Set
  <2> QED
    BY <1>a, <2>1 DEF Typed, Pointers
<1>7. ASSUME NEW o \in Op, Publish(o) \/ CallbackReturns(o) PROVE Pointers'
  <2>1. UNCHANGED <<ctx, local, home>> /\ stage[o] \in {"performed", "callback"}
    BY <1>7 DEF Publish, CallbackReturns, operation
  <2>2. \E s \in {"callback", "release"} : stage' = [stage EXCEPT ![o] = s]
    BY <1>7 DEF Publish, CallbackReturns, Set
  <2> QED
    BY <1>a, <2>1, <2>2 DEF Typed, Pointers
<1>8. ASSUME NEW o \in Op, ReleaseContext(o) \/ ReleaseOperation(o) PROVE Pointers'
  <2>1. UNCHANGED <<ctx, home>> /\ \A x \in Op \ {o} : local'[x] = local[x]
    BY <1>a, <1>8 DEF Typed, ReleaseContext, ReleaseOperation, operation, Set
  <2>2. \E s \in {"drop", "over"} : stage' = [stage EXCEPT ![o] = s]
    BY <1>8 DEF ReleaseContext, ReleaseOperation, Set
  <2> QED
    BY <1>a, <2>1, <2>2 DEF Typed, Pointers
<1>9. ASSUME NEW a \in Actor, Quiet(a) \/ GiveBack(a) PROVE Pointers'
  BY <1>1, <1>9, QuietSteps DEF GiveBack
<1>10. CASE UNCHANGED vars
  BY <1>1, <1>10 DEF vars, operation
<1>11. ASSUME NEW a \in Actor, TakesGil(a) PROVE Pointers'
  BY <1>2, <1>3, <1>4, <1>7, <1>8, <1>9, <1>11 DEF TakesGil, SubmitStep, Quiet, Python
<1> QED
  BY <1>5, <1>6, <1>10, <1>11, NextSteps

(* Only the submit() that was refused has a new Operation claimed.         *)
LEMMA NextRefusals == GilInvariant /\ [Next]_vars => Refusals'
<1> SUFFICES ASSUME GilInvariant, [Next]_vars PROVE Refusals'
  OBVIOUS
<1> USE AioAssumption
<1>a. DispatchInvariant /\ Typed /\ InSection /\ Stages /\ Refusals
  BY DEF GilInvariant, DispatchInvariant
<1>b. ASSUME NEW a \in Actor, Refused(a) PROVE Current(a) \in Op
  BY <1>a, <1>b, CurrentType DEF InSection, Sound
<1>1. ASSUME \A o \in Op : stage'[o] = "new" <=> stage[o] = "new",
             \A o \in Op : stage[o] = "new" =>
                             in_progress'[o] = in_progress[o] /\ ctx'[o] = ctx[o],
             \A a \in Actor : /\ Refused(a)' <=> Refused(a)
                              /\ Refused(a) => /\ pc'[a] = pc[a] /\ on'[a] = on[a]
                                               /\ todo'[a] = todo[a]
      PROVE  Refusals'
  <2>1. \A a \in Actor : Refused(a) => Current(a)' = Current(a)
    BY <1>1 DEF Current
  <2> QED
    BY <1>a, <1>b, <1>1, <2>1 DEF Refusals
<1>2. ASSUME NEW a \in Actor, TakesGil(a), ~Refused(a), ~Refused(a)',
             \A o \in Op : stage'[o] = "new" <=> stage[o] = "new",
             \A o \in Op : stage[o] = "new" =>
                             in_progress'[o] = in_progress[o] /\ ctx'[o] = ctx[o]
      PROVE  Refusals'
  <2>1. \A b \in Actor \ {a} :
          ~Refused(b) /\ pc'[b] = pc[b] /\ on'[b] = on[b] /\ todo'[b] = todo[b]
    BY <1>2, StepAlone DEF Submits, Refused
  <2> QED
    BY <1>1, <1>2, <2>1 DEF Refused
<1>3. ASSUME NEW a \in Actor, Quiet(a) PROVE Refusals'
  <2>1. ~Refused(a) /\ ~Refused(a)'
    BY <1>a, <1>3, QuietRefusesNone
  <2>2. TakesGil(a)
    BY <1>3 DEF Quiet, TakesGil, SubmitStep
  <2> QED
    BY <1>2, <1>3, <2>1, <2>2, QuietSteps DEF workers
<1>4. ASSUME NEW a \in Actor, NEW o \in Op, NEW c \in Context,
             Accept(a, o, c) \/ Refuse(a, o, c)
      PROVE  Refusals'
  <2>1. /\ stage[o] = "new" /\ o = Current(a) /\ c = on[a] /\ pc[a] = "submit"
        /\ in_progress' = [in_progress EXCEPT ![o] = TRUE]
        /\ ctx' = [ctx EXCEPT ![o] = c]
    BY <1>4, <1>a, ClaimedIsNew DEF Accept, Refuse, Claims, Set
  <2>2. TakesGil(a)
    BY <1>4 DEF TakesGil, SubmitStep
  <2>3. \A b \in Actor \ {a} : ~Refused(b) /\ ~Refused(b)'
    BY <2>2, StepAlone DEF Submits, Refused
  <2>4. ~Refused(a)
    BY <2>1 DEF Refused
  <2>5. CASE Accept(a, o, c)
    <3>1. stage' = [stage EXCEPT ![o] = "queued"] /\ ~Refused(a)'
      BY <2>4, <2>5 DEF Accept, Set, Refused
    <3> QED
      BY <1>a, <2>1, <2>3, <2>4, <3>1 DEF Typed, Refusals
  <2>6. CASE Refuse(a, o, c)
    <3>1. /\ UNCHANGED <<stage, on, todo>> /\ pc'[a] = "refuse"
          /\ Current(a)' = o /\ on'[a] = c
      BY <1>a, <2>1, <2>6 DEF Typed, Refuse, Set, Current, workers
    <3>2. \A x \in Op \ {o} : stage[x] = "new" => ~in_progress[x] /\ ctx[x] = NoContext
      BY <1>a, <2>3, <2>4 DEF Refusals
    <3>3. Refused(a)'
      BY <3>1 DEF Refused
    <3> QED
      BY <1>a, <2>1, <2>3, <3>1, <3>2, <3>3 DEF Typed, Refusals
  <2> QED
    BY <1>4, <2>5, <2>6
<1>5. ASSUME NEW a \in Actor, GiveBack(a) \/ Forget(a) PROVE Refusals'
  <2>1. PICK o \in Op : o = Current(a)
    BY <1>b, <1>5 DEF GiveBack, Forget, Refused
  <2>2. TakesGil(a)
    BY <1>5 DEF TakesGil, SubmitStep
  <2>3. \A b \in Actor \ {a} : ~Refused(b) /\ ~Refused(b)'
    BY <2>2, StepAlone DEF Submits, Refused
  <2>4. \A x \in Op \ {o} : stage[x] = "new" => ~in_progress[x] /\ ctx[x] = NoContext
    BY <1>a, <2>1, <2>3 DEF Refusals
  <2>5. CASE GiveBack(a)
    <3>1. /\ UNCHANGED <<stage, ctx, on, todo>> /\ pc'[a] = "forget"
          /\ in_progress' = [in_progress EXCEPT ![o] = FALSE]
          /\ Current(a)' = o /\ on'[a] = on[a]
      BY <1>a, <2>1, <2>5 DEF Typed, GiveBack, Set, Current, workers
    <3>2. Refused(a) /\ Refused(a)'
      BY <2>5, <3>1 DEF GiveBack, Refused
    <3> QED
      BY <1>a, <2>1, <2>3, <2>4, <3>1, <3>2 DEF Typed, Refusals
  <2>6. CASE Forget(a)
    <3>1. /\ UNCHANGED <<stage, in_progress>> /\ pc'[a] = "idle"
          /\ ctx' = [ctx EXCEPT ![o] = NoContext]
      BY <1>a, <2>1, <2>6
      DEF Typed, Forget, ForgetsContext, Leaves, Enters, Set, Current, workers
    <3>2. ~in_progress[o]
      BY <1>a, <2>1, <2>6 DEF Forget, Refusals, Refused
    <3>3. ~Refused(a)'
      BY <3>1 DEF Refused
    <3> QED
      BY <1>a, <2>3, <2>4, <3>1, <3>2, <3>3 DEF Typed, Refusals
  <2> QED
    BY <1>5, <2>5, <2>6
<1>6. ASSUME NEW c \in Context, Start(c) PROVE Refusals'
  <2>1. PICK o \in Op : o = Head(queue[c]) /\ stage[o] = "queued"
    BY <1>a, <1>6, OldestQueued
  <2>2. /\ UNCHANGED <<in_progress, calls>>
        /\ ctx' = [ctx EXCEPT ![o] = NoContext]
        /\ stage' = [stage EXCEPT ![o] = "started"]
    BY <1>6, <2>1 DEF Start, Set
  <2> QED
    BY <1>a, <1>1, <2>1, <2>2 DEF Typed, Refused, calls
<1>7. ASSUME NEW o \in Op, Perform(o) PROVE Refusals'
  BY <1>a, <1>1, <1>7 DEF Typed, Perform, Set, Refused, calls
<1>8. ASSUME NEW o \in Op, Python(o) PROVE Refusals'
  <2>1. ~Refused(o)
    BY <1>a, <1>8, WorkerIdle
  <2>2. ~Refused(o)'
    BY <1>a, <1>8, WorkerIdle
  <2>3. UNCHANGED <<in_progress, ctx>>
    BY <1>8
    DEF Python, Publish, CallbackReturns, ReleaseContext, ReleaseOperation, operation
  <2>4. \A x \in Op : stage'[x] = "new" <=> stage[x] = "new"
    BY <1>a, <1>8
    DEF Typed, Python, Publish, CallbackReturns, ReleaseContext, ReleaseOperation, Set
  <2>5. TakesGil(o) /\ o \in Actor
    BY <1>8 DEF TakesGil, Actor
  <2> QED
    BY <1>2, <2>1, <2>2, <2>3, <2>4, <2>5
<1>9. CASE UNCHANGED vars
  BY <1>1, <1>9 DEF vars, operation, workers, calls, Refused
<1>10. ASSUME NEW a \in Actor, TakesGil(a) PROVE Refusals'
  BY <1>3, <1>4, <1>5, <1>8, <1>10 DEF TakesGil, SubmitStep, Quiet
<1> QED
  BY <1>6, <1>7, <1>9, <1>10, NextSteps

-----------------------------------------------------------------------------
(* What a getter has found stays so until it has read.                     *)
LEMMA NextReaders == GilInvariant /\ [Next]_vars => Readers'
<1> SUFFICES ASSUME GilInvariant, [Next]_vars, NEW b \in Actor, pc'[b] = "read"
             PROVE  Readable(Current(b))'
  BY DEF Readers
<1> USE AioAssumption
<1>a. Typed /\ InSection /\ Callers /\ Exclusive /\ Readers
  BY DEF GilInvariant, DispatchInvariant
<1>1. ASSUME UNCHANGED <<in_progress, done, pc, todo>>
      PROVE  Readable(Current(b))'
  BY <1>a, <1>1 DEF Readers, Readable, Current
<1>2. ASSUME NEW a \in Actor, TakesGil(a), a # b PROVE FALSE
  BY <1>2, StepAlone
<1>3. CASE Call(b)
  <2>1. pc[b] = "idle"
    BY <1>3 DEF Call, SubmitBegin, Close, Drop, SetCallback, ReadBegin, MayCall
  <2>2. ASSUME NEW o \in Op, ReadBegin(b, o) PROVE Readable(Current(b))'
    <3>1. UNCHANGED <<in_progress, done>> /\ todo'[b] = <<o>> /\ Readable(o)
      BY <1>a, <2>2 DEF Typed, ReadBegin, Enters, Set, operation
    <3>2. Head(<<o>>) = o
      OBVIOUS
    <3> QED
      BY <3>1, <3>2 DEF Readable, Current
  <2>3. ASSUME NEW c \in Context, NEW ops \in Batch, SubmitBegin(b, c, ops)
        PROVE FALSE
    BY <1>a, <2>3 DEF Typed, SubmitBegin, Enters, Set
  <2>4. ASSUME NEW c \in Context, Close(b, c) PROVE FALSE
    BY <1>a, <2>4 DEF Typed, Close, ClosePool, Enters, Set
  <2>5. ASSUME NEW c \in Context, Drop(b, c) PROVE FALSE
    BY <1>a, <2>1, <2>5 DEF Typed, Drop, Dealloc, ClosePool, Enters, Set, calls
  <2>6. ASSUME NEW o \in Op, SetCallback(b, o) PROVE FALSE
    BY <2>1, <2>6 DEF SetCallback, calls
  <2> QED
    BY <1>3, <2>2, <2>3, <2>4, <2>5, <2>6 DEF Call
<1>4. CASE SubmitStep(b) \/ ReadEnd(b) \/ DestroyReturn(b)
  BY <1>a, <1>4
  DEF Typed, SubmitStep, Skip, GiveBack, Forget, SubmitEnd, Accept, Refuse, Claims,
      ReadEnd, DestroyReturn, Leaves, Enters, Set
<1>5. CASE b \in Op /\ Python(b)
  <2>1. pc[b] = "idle" \/ stage[b] \in {"callback", "drop"}
    BY <1>a, <1>5 DEF Callers
  <2>2. CASE ReleaseContext(b)
    BY <1>a, <1>5, <2>1, <2>2
    DEF Typed, ReleaseContext, Dealloc, ClosePool, Enters, Set, calls
  <2>3. CASE Publish(b) \/ CallbackReturns(b) \/ ReleaseOperation(b)
    BY <2>1, <2>3 DEF Publish, CallbackReturns, ReleaseOperation, calls
  <2> QED
    BY <1>5, <2>2, <2>3 DEF Python
<1>6. CASE \/ \E c \in Context : Start(c)
           \/ \E o \in Op : Perform(o)
           \/ UNCHANGED vars
  BY <1>1, <1>6 DEF Start, Perform, vars, operation, calls
<1> QED
  BY <1>2, <1>3, <1>4, <1>5, <1>6, NextSteps DEF TakesGil
-----------------------------------------------------------------------------
(* Nothing is claimed, queued or kept at the start.                        *)
LEMMA InitTyped == Init => Typed /\ InSection
<1> SUFFICES ASSUME Init PROVE Typed /\ InSection
  OBVIOUS
<1>1. Typed
  BY AioAssumption, EmptySeq DEF Init, InitContext, InitOperation, Typed
<1>2. InSection
  BY DEF Init, InSection, Sound, Submits, Refused
<1> QED
  BY <1>1, <1>2

LEMMA InitDispatch == Init => DispatchInvariant
<1> SUFFICES ASSUME Init PROVE DispatchInvariant
  OBVIOUS
<1>1. Callers
  BY DEF Init, Callers, Actor
<1>2. Stages
  BY DEF Init, InitOperation, Stages
<1>3. Claimants
  BY DEF Init, InitOperation, Claimants
<1>4. Queued
  BY DEF Init, InitContext, Queued
<1> QED
  BY <1>1, <1>2, <1>3, <1>4, InitTyped DEF DispatchInvariant

LEMMA InitGil ==
  ASSUME Build \subseteq {FALSE}
  PROVE  Init => GilInvariant
<1> SUFFICES ASSUME Init PROVE GilInvariant
  OBVIOUS
<1>1. Exclusive
  BY DEF Init, Exclusive, Submits
<1>2. Pointers
  BY DEF Init, InitOperation, Pointers
<1>3. Refusals /\ Readers
  BY DEF Init, InitOperation, Refusals, Readers, Refused
<1> QED
  BY <1>1, <1>2, <1>3, InitDispatch DEF GilInvariant

LEMMA SectionInvariance == Spec => [](Typed /\ InSection)
<1>1. (Typed /\ InSection) /\ [Next]_vars => (Typed /\ InSection)'
  BY NextTyped, NextInSection
<1> QED
  BY <1>1, InitTyped, PTL DEF Spec

LEMMA DispatchInvariance == Spec => []DispatchInvariant
<1>1. DispatchInvariant /\ [Next]_vars => DispatchInvariant'
  BY NextTyped, NextInSection, NextCallers, NextStages, NextClaimants, NextQueued
  DEF DispatchInvariant
<1> QED
  BY <1>1, InitDispatch, PTL DEF Spec

LEMMA GilInvariance ==
  ASSUME Build \subseteq {FALSE}
  PROVE  Spec => []GilInvariant
<1>1. DispatchInvariant /\ [Next]_vars => DispatchInvariant'
  BY NextTyped, NextInSection, NextCallers, NextStages, NextClaimants, NextQueued
  DEF DispatchInvariant
<1>2. GilInvariant /\ [Next]_vars => GilInvariant'
  BY <1>1, NextExclusive, NextPointers, NextRefusals, NextReaders DEF GilInvariant
<1> QED
  BY <1>2, InitGil, PTL DEF Spec

(* On any build, submit() never hands an Operation to a pool that is being *)
(* destroyed: the critical section keeps close() and dealloc away.         *)
SubmitsToOpenPool ==
  \A a \in Actor : pc[a] = "submit" => pool[on[a]] = "open"
THEOREM SubmitsFindThePool == Spec => []SubmitsToOpenPool
<1>1. Typed /\ InSection => SubmitsToOpenPool
  BY DEF InSection, Sound, Submits, SubmitsToOpenPool
<1> QED
  BY <1>1, SectionInvariance, PTL

(* With the GIL, worker() finds and keeps the Context whose pool runs it.  *)
THEOREM WorkersKeepTheirContext ==
  ASSUME Build \subseteq {FALSE}
  PROVE  Spec => []DispatchedWithContext
<1>1. GilInvariant => DispatchedWithContext
  BY DEF GilInvariant, Pointers, DispatchedWithContext
<1> QED
  BY <1>1, GilInvariance, PTL

(* On any build, an Operation is given to one worker, once, however often  *)
(* and in whatever Contexts it is submitted.                               *)
THEOREM OperationsRunOnce == Spec => []DispatchedOnce
<1>1. ASSUME DispatchInvariant, NEW o \in Op
      PROVE  Cardinality(Places(o)) + runs[o] <= 1
  <2>1. Queued /\ Stages
    BY <1>1 DEF DispatchInvariant
  <2>2. \A p \in Places(o) : stage[o] = "queued" /\ p[1] = home[o]
    BY <2>1 DEF Places, Queued
  <2>3. \A p, q \in Places(o) : p = q
    <3> SUFFICES ASSUME NEW p \in Places(o), NEW q \in Places(o) PROVE p = q
      OBVIOUS
    <3>1. /\ p[1] \in Context /\ p[2] \in 1 .. Len(queue[p[1]])
          /\ q[2] \in 1 .. Len(queue[p[1]]) /\ p[1] = q[1]
          /\ queue[p[1]][p[2]] = queue[p[1]][q[2]]
          /\ p = <<p[1], p[2]>> /\ q = <<q[1], q[2]>>
      BY <2>2 DEF Places
    <3>2. p[2] = q[2]
      BY <2>1, <3>1 DEF Queued
    <3> QED
      BY <3>1, <3>2
  <2>4. CASE Places(o) = {}
    BY <2>1, <2>4, FS_EmptySet DEF Stages
  <2>5. ASSUME NEW p \in Places(o)
        PROVE  Cardinality(Places(o)) + runs[o] <= 1
    <3>1. Places(o) = {p}
      BY <2>3
    <3>2. Cardinality({p}) = 1
      BY FS_Singleton
    <3> QED
      BY <2>1, <2>2, <3>1, <3>2 DEF Stages
  <2> QED
    BY <2>4, <2>5
<1>2. DispatchInvariant => DispatchedOnce
  BY <1>1 DEF DispatchedOnce
<1> QED
  BY <1>2, DispatchInvariance, PTL

(* With the GIL, no worker writes the fields of an Operation that a getter *)
(* is reading.                                                             *)
THEOREM ReadersAreUndisturbed ==
  ASSUME Build \subseteq {FALSE}
  PROVE  Spec => []ReadersUndisturbed
<1>1. ASSUME GilInvariant, NEW a \in Actor, pc[a] = "read"
      PROVE  stage[todo[a][1]] \notin {"started", "performed"}
  <2>1. Typed /\ InSection /\ Stages /\ Readers
    BY <1>1 DEF GilInvariant, DispatchInvariant
  <2>2. todo[a] # <<>> /\ todo[a] \in Seq(Op)
    BY <1>1, <2>1 DEF InSection, Sound, Typed
  <2>3. Current(a) \in Op /\ Current(a) = todo[a][1]
    BY <2>2, HeadTailProperties DEF Current
  <2>4. ~in_progress[Current(a)] \/ done[Current(a)]
    BY <1>1, <2>1 DEF Readers, Readable
  <2> QED
    BY <2>1, <2>3, <2>4 DEF Stages
<1>2. GilInvariant => ReadersUndisturbed
  BY <1>1 DEF ReadersUndisturbed
<1> QED
  BY <1>2, GilInvariance, PTL

(* On any build, an Operation refused by a full queue is as it was made    *)
(* once the refusing submit() is over.                                     *)
THEOREM RefusedStayRetryable == Spec => []RefusedIsRetryable
<1>1. ASSUME DispatchInvariant, NEW o \in Op, ~in_progress[o],
             \A c \in Context : Refusing(c, o) = {}
      PROVE  stage[o] = "new" /\ ctx[o] = NoContext /\ payload[o] /\ result[o] = "none"
  <2>1. InSection /\ Stages /\ Claimants
    BY <1>1 DEF DispatchInvariant
  <2>2. \A a \in Actor : Refused(a) => Current(a) # o
    BY <1>1, <2>1 DEF InSection, Sound, Submits, Refused, Refusing, Current
  <2>3. stage[o] = "new"
    BY <1>1, <2>1 DEF Stages
  <2>4. ctx[o] = NoContext
    BY <2>1, <2>2, <2>3 DEF Claimants
  <2> QED
    BY <2>1, <2>3, <2>4 DEF Stages
<1>2. DispatchInvariant => RefusedIsRetryable
  BY <1>1 DEF RefusedIsRetryable
<1> QED
  BY <1>2, DispatchInvariance, PTL
-----------------------------------------------------------------------------
(* What OneShot sees of an Operation, and of the Context it belongs to.    *)
Seen(o) ==
  IF stage[o] \in {"drop", "over"} THEN "delivered"
  ELSE IF done[o] THEN "completed"
  ELSE IF in_progress[o] THEN "claimed" ELSE "new"
Owner(o) ==
  IF ~in_progress[o] \/ done[o] THEN NoContext
  ELSE IF local[o] # NoContext THEN local[o] ELSE ctx[o]

(* It sees a step of the one Operation it changes the look of, ...         *)
LEMMA SeenBecomes ==
  ASSUME NEW o \in Op, NEW from, NEW to, NEW c,
         Seen(o) = from, Seen(o)' = to, Owner(o)' = c,
         \A x \in Op : x # o => Seen(x)' = Seen(x) /\ Owner(x)' = Owner(x)
  PROVE  Promise!Becomes(o, from, to, c)
BY DEF Promise!Becomes, Seen, Owner

(* ... or nothing.                                                         *)
Same == \A o \in Op : Seen(o)' = Seen(o) /\ Owner(o)' = Owner(o)
LEMMA SeenStutters ==
  ASSUME Same
  PROVE  UNCHANGED Promise!vars
BY DEF Same, Seen, Owner, Promise!vars

LEMMA InitRefines == Init => Promise!Init
BY DEF Init, InitOperation, Promise!Init

(* Every step is one of OneShot's, or one it does not see.                 *)
LEMMA NextRefines ==
  GilInvariant /\ [Next]_vars => Promise!Next \/ UNCHANGED Promise!vars
<1> DEFINE Goal == Promise!Next \/ UNCHANGED Promise!vars
<1> SUFFICES ASSUME GilInvariant, [Next]_vars PROVE Goal
  OBVIOUS
<1> USE AioAssumption
<1>a. DispatchInvariant /\ Typed /\ InSection /\ Stages /\ Refusals /\ Pointers
  BY DEF GilInvariant, DispatchInvariant
<1>1. ASSUME Same PROVE Goal
  BY <1>1, SeenStutters
<1>2. ASSUME NEW a \in Actor, NEW o \in Op, NEW c \in Context,
             Accept(a, o, c) \/ Refuse(a, o, c)
      PROVE  Goal
  <2>1. stage[o] = "new" /\ ~done[o] /\ local[o] = NoContext /\ ~in_progress[o]
    BY <1>a, <1>2, ClaimedIsNew DEF Accept, Refuse, Claims, Claim
  <2>2. /\ in_progress' = [in_progress EXCEPT ![o] = TRUE]
        /\ ctx' = [ctx EXCEPT ![o] = c]
        /\ UNCHANGED <<done, local>>
        /\ stage' = stage \/ stage' = [stage EXCEPT ![o] = "queued"]
    BY <1>2 DEF Accept, Refuse, Claims, Set, workers
  <2>3. stage'[o] \in {"new", "queued"} /\ \A x \in Op \ {o} : stage'[x] = stage[x]
    BY <1>a, <2>1, <2>2 DEF Typed
  <2>4. Seen(o) = "new" /\ Seen(o)' = "claimed" /\ Owner(o)' = c
    BY <1>a, <2>1, <2>2, <2>3 DEF Typed, Seen, Owner
  <2>5. \A x \in Op : x # o => Seen(x)' = Seen(x) /\ Owner(x)' = Owner(x)
    BY <1>a, <2>2, <2>3 DEF Typed, Seen, Owner
  <2>6. Promise!Becomes(o, "new", "claimed", c)
    BY <2>4, <2>5, SeenBecomes
  <2> QED
    BY <2>6 DEF Promise!Next, Promise!Claim
<1>3. ASSUME NEW a \in Actor, GiveBack(a) PROVE Goal
  <2>1. Refused(a) /\ todo[a] # <<>>
    BY <1>a, <1>3 DEF GiveBack, Refused, InSection, Sound
  <2>2. PICK o \in Op : o = Current(a)
    BY <1>a, <2>1, CurrentType
  <2>3. stage[o] = "new" /\ in_progress[o] /\ ~done[o]
    BY <1>a, <1>3, <2>1, <2>2 DEF GiveBack, Refusals, Stages
  <2>4. /\ in_progress' = [in_progress EXCEPT ![o] = FALSE]
        /\ UNCHANGED <<done, ctx, local, stage>>
    BY <1>3, <2>2 DEF GiveBack, Set, Current, workers
  <2>5. Seen(o) = "claimed" /\ Seen(o)' = "new" /\ Owner(o)' = NoContext
    BY <1>a, <2>3, <2>4 DEF Typed, Seen, Owner
  <2>6. \A x \in Op : x # o => Seen(x)' = Seen(x) /\ Owner(x)' = Owner(x)
    BY <1>a, <2>4 DEF Typed, Seen, Owner
  <2>7. Promise!Becomes(o, "claimed", "new", NoContext)
    BY <2>5, <2>6, SeenBecomes
  <2> QED
    BY <2>7 DEF Promise!Next, Promise!GiveBack
<1>4. ASSUME NEW a \in Actor, Forget(a) PROVE Goal
  <2>1. Refused(a) /\ todo[a] # <<>>
    BY <1>a, <1>4 DEF Forget, Refused, InSection, Sound
  <2>2. PICK o \in Op : o = Current(a)
    BY <1>a, <2>1, CurrentType
  <2>3. ~in_progress[o]
    BY <1>a, <1>4, <2>1, <2>2 DEF Forget, Refusals
  <2>4. /\ ctx' = [ctx EXCEPT ![o] = NoContext]
        /\ UNCHANGED <<done, in_progress, local, stage>>
    BY <1>4, <2>2 DEF Forget, ForgetsContext, Set, Current, workers
  <2>5. Same
    BY <1>a, <2>3, <2>4 DEF Typed, Same, Seen, Owner
  <2> QED
    BY <1>1, <2>5
<1>5. ASSUME NEW c \in Context, Start(c) PROVE Goal
  <2>1. PICK o \in Op : o = Head(queue[c]) /\ stage[o] = "queued"
    BY <1>a, <1>5, OldestQueued
  <2>2. /\ UNCHANGED <<in_progress, done>>
        /\ local' = [local EXCEPT ![o] = ctx[o]]
        /\ ctx' = [ctx EXCEPT ![o] = NoContext]
        /\ stage' = [stage EXCEPT ![o] = "started"]
    BY <1>5, <2>1 DEF Start, TakesContext, Set
  <2>3. local[o] = NoContext
    BY <1>a, <2>1 DEF Stages
  <2>4. Same
    BY <1>a, <2>1, <2>2, <2>3 DEF Typed, Same, Seen, Owner
  <2> QED
    BY <1>1, <2>4
<1>6. ASSUME NEW o \in Op, Perform(o) PROVE Goal
  <2>1. /\ UNCHANGED <<in_progress, done, local>> /\ stage[o] = "started"
        /\ ctx' = [ctx EXCEPT ![o] = NoContext]
        /\ stage' = [stage EXCEPT ![o] = "performed"]
    BY <1>6 DEF Perform, Set
  <2>2. local[o] # NoContext
    BY <1>a, <2>1 DEF Stages, Pointers
  <2>3. Same
    BY <1>a, <2>1, <2>2 DEF Typed, Same, Seen, Owner
  <2> QED
    BY <1>1, <2>3
<1>7. ASSUME NEW o \in Op, Publish(o) PROVE Goal
  <2>1. PICK s \in {"callback", "release"} : stage' = [stage EXCEPT ![o] = s]
    BY <1>7 DEF Publish, Set
  <2>2. /\ UNCHANGED <<in_progress, local, ctx>> /\ stage[o] = "performed"
        /\ done' = [done EXCEPT ![o] = TRUE]
    BY <1>7 DEF Publish, Set
  <2>3. in_progress[o] /\ ~done[o]
    BY <1>a, <2>2 DEF Stages
  <2>4. Seen(o) = "claimed" /\ Seen(o)' = "completed" /\ Owner(o)' = NoContext
    BY <1>a, <2>1, <2>2, <2>3 DEF Typed, Seen, Owner
  <2>5. \A x \in Op : x # o => Seen(x)' = Seen(x) /\ Owner(x)' = Owner(x)
    BY <1>a, <2>1, <2>2 DEF Typed, Seen, Owner
  <2>6. Promise!Becomes(o, "claimed", "completed", NoContext)
    BY <2>4, <2>5, SeenBecomes
  <2> QED
    BY <2>6 DEF Promise!Next, Promise!Complete
<1>8. ASSUME NEW o \in Op, ReleaseContext(o) PROVE Goal
  <2>1. /\ UNCHANGED <<in_progress, done, ctx>> /\ stage[o] = "release"
        /\ local' = [local EXCEPT ![o] = NoContext]
        /\ stage' = [stage EXCEPT ![o] = "drop"]
    BY <1>8 DEF ReleaseContext, Set, operation
  <2>2. in_progress[o] /\ done[o]
    BY <1>a, <2>1 DEF Stages
  <2>3. Seen(o) = "completed" /\ Seen(o)' = "delivered" /\ Owner(o)' = NoContext
    BY <1>a, <2>1, <2>2 DEF Typed, Seen, Owner
  <2>4. \A x \in Op : x # o => Seen(x)' = Seen(x) /\ Owner(x)' = Owner(x)
    BY <1>a, <2>1 DEF Typed, Seen, Owner
  <2>5. Promise!Becomes(o, "completed", "delivered", NoContext)
    BY <2>3, <2>4, SeenBecomes
  <2> QED
    BY <2>5 DEF Promise!Next, Promise!Deliver
<1>9. ASSUME NEW o \in Op, CallbackReturns(o) \/ ReleaseOperation(o) PROVE Goal
  <2>1. UNCHANGED <<in_progress, done, ctx, local>>
    BY <1>9 DEF CallbackReturns, ReleaseOperation, operation
  <2>2. \A x \in Op : stage'[x] \in {"drop", "over"} <=> stage[x] \in {"drop", "over"}
    BY <1>a, <1>9 DEF Typed, CallbackReturns, ReleaseOperation, Set
  <2>3. Same
    BY <2>1, <2>2 DEF Same, Seen, Owner
  <2> QED
    BY <1>1, <2>3
<1>10. ASSUME NEW a \in Actor, Quiet(a) PROVE Goal
  <2>1. Same
    BY <1>10, QuietSteps DEF Same, Seen, Owner, workers
  <2> QED
    BY <1>1, <2>1
<1>11. CASE UNCHANGED vars
  <2>1. Same
    BY <1>11 DEF Same, Seen, Owner, vars, operation, workers
  <2> QED
    BY <1>1, <2>1
<1>12. ASSUME NEW a \in Actor, TakesGil(a) PROVE Goal
  BY <1>2, <1>3, <1>4, <1>7, <1>8, <1>9, <1>10, <1>12
  DEF TakesGil, SubmitStep, Quiet, Python
<1> QED
  BY <1>5, <1>6, <1>11, <1>12, NextSteps

(* With the GIL, thread_aio keeps what OneShot promises, whatever Contexts *)
(* an Operation is submitted to and whatever closes them: one claim, given *)
(* back by the submit() that made it or completed and delivered once.      *)
THEOREM ThreadsKeepTheirPromise ==
  ASSUME Build \subseteq {FALSE}
  PROVE  Spec => ImplementsOneShot
BY GilInvariance, InitRefines, NextRefines, PTL
DEF Spec, ImplementsOneShot, Promise!Spec
-----------------------------------------------------------------------------
(* What the references are held for: the program's handle, a pool that has *)
(* not released the Context yet, and the submit()s that have been refused: *)
(* one in a Context, whose critical section it is in, but on a free-       *)
(* threaded build perhaps several of one Operation.                        *)
One(held) == IF held THEN 1 ELSE 0
Held(c) == {o \in Op : home[o] = c /\ stage[o] \notin {"drop", "over"}}
Gives(c) == \E a \in Actor : Refused(a) /\ on[a] = c
Refusers(o) == {a \in Actor : Refused(a) /\ Current(a) = o}

Counted ==
  /\ handle \in [Context -> BOOLEAN]
  /\ ctxRefs \in [Context -> Int] /\ opRefs \in [Op -> Int]
  /\ \A c \in Context :
       ctxRefs[c] = One(handle[c]) + Cardinality(Held(c)) + One(Gives(c))
  /\ \A o \in Op :
       opRefs[o] = 1 + One(stage[o] \notin {"new", "over"}) + Cardinality(Refusers(o))

Finite == IsFiniteSet(Op) /\ IsFiniteSet(Client)

(* The queues keep to their size.                                          *)
Bounded == \A c \in Context : Len(queue[c]) <= QueueSize

LEMMA SingleOrNone ==
  ASSUME NEW S, \A x, y \in S : x = y
  PROVE  Cardinality(S) = One(S # {})
<1>1. CASE S = {}
  BY <1>1, FS_EmptySet DEF One
<1>2. CASE S # {}
  <2>1. PICK x \in S : TRUE
    BY <1>2
  <2>2. S = {x}
    BY <2>1
  <2> QED
    BY <1>2, <2>2, FS_Singleton DEF One
<1> QED
  BY <1>1, <1>2

LEMMA HeldFinite ==
  ASSUME Finite, NEW c
  PROVE  IsFiniteSet(Held(c)) /\ Cardinality(Held(c)) \in Nat
<1>1. Held(c) \in SUBSET Op
  BY DEF Held
<1> QED
  BY <1>1, FS_Subset, FS_CardinalityType DEF Finite

LEMMA RefusersFinite ==
  ASSUME Finite, NEW o
  PROVE  IsFiniteSet(Refusers(o)) /\ Cardinality(Refusers(o)) \in Nat
<1>1. IsFiniteSet(Actor)
  BY FS_Union DEF Actor, Finite
<1>2. Refusers(o) \in SUBSET Actor
  BY DEF Refusers
<1> QED
  BY <1>1, <1>2, FS_Subset, FS_CardinalityType

-----------------------------------------------------------------------------
(* A step that begins, moves on or ends no refusal, ...                    *)
SameRefusals ==
  \A b \in Actor : /\ Refused(b)' <=> Refused(b)
                   /\ Refused(b) => on'[b] = on[b] /\ todo'[b] = todo[b]

(* and one that leaves what the pools hold as it is.                       *)
SameHeld ==
  /\ home' = home
  /\ \A o \in Op : /\ stage'[o] \in {"drop", "over"} <=> stage[o] \in {"drop", "over"}
                   /\ stage'[o] \in {"new", "over"} <=> stage[o] \in {"new", "over"}

LEMMA RefusalsStay ==
  ASSUME SameRefusals
  PROVE  /\ \A c : Gives(c)' <=> Gives(c)
         /\ \A o : Refusers(o)' = Refusers(o)
<1>1. \A b \in Actor : Refused(b)' <=> Refused(b)
  BY DEF SameRefusals
<1>2. \A b \in Actor : Refused(b) => on'[b] = on[b] /\ Current(b)' = Current(b)
  BY DEF SameRefusals, Current
<1> QED
  BY <1>1, <1>2 DEF Gives, Refusers

LEMMA HeldStays ==
  ASSUME SameHeld
  PROVE  \A c : Held(c)' = Held(c)
BY DEF SameHeld, Held

LEMMA NothingCounted ==
  ASSUME Counted, SameRefusals, SameHeld, UNCHANGED <<handle, ctxRefs, opRefs>>
  PROVE  Counted'
<1>1. \A c \in Context :
        One(handle[c])' = One(handle[c]) /\ Cardinality(Held(c))' = Cardinality(Held(c))
          /\ One(Gives(c))' = One(Gives(c))
  BY HeldStays, RefusalsStay DEF One
<1>2. \A o \in Op :
        /\ Cardinality(Refusers(o))' = Cardinality(Refusers(o))
        /\ One(stage[o] \notin {"new", "over"})' = One(stage[o] \notin {"new", "over"})
  BY RefusalsStay DEF One, SameHeld
<1> QED
  BY <1>1, <1>2 DEF Counted

(* A step of Python code is in a refusal of its own thread only.           *)
LEMMA OwnRefusal ==
  ASSUME Typed, NEW a \in Actor, TakesGil(a)
  PROVE  /\ \A b \in Actor : a # b =>
              (Refused(b)' <=> Refused(b)) /\ on'[b] = on[b] /\ todo'[b] = todo[b]
         /\ (Refused(a) <=> Refused(a)') /\ UNCHANGED <<on[a], todo[a]>> => SameRefusals
         /\ ~Refused(a) /\ ~Refused(a)' => SameRefusals
<1>1. \A b \in Actor : a # b =>
        (Refused(b)' <=> Refused(b)) /\ on'[b] = on[b] /\ todo'[b] = todo[b]
  BY OwnCalls DEF Refused
<1> QED
  BY <1>1 DEF SameRefusals

(* The steps of Python code that take and release no reference.            *)
LEMMA StepsNotCounted ==
  ASSUME DispatchInvariant, Counted, NEW a \in Actor,
         \/ \E c \in Context, ops \in Batch : SubmitBegin(a, c, ops)
         \/ \E c \in Context : Close(a, c)
         \/ \E o \in Op : SetCallback(a, o) \/ ReadBegin(a, o)
         \/ Skip(a) \/ GiveBack(a) \/ SubmitEnd(a) \/ ReadEnd(a) \/ DestroyReturn(a)
  PROVE  Counted'
<1> USE DEF DispatchInvariant
<1>1. TakesGil(a) /\ a \in Actor /\ Typed
  BY DEF TakesGil, Call, SubmitStep
<1>2. UNCHANGED <<handle, ctxRefs, opRefs, workers>>
  BY DEF SubmitBegin, Close, SetCallback, ReadBegin, Skip, GiveBack, SubmitEnd,
         ReadEnd, DestroyReturn, context, operation
<1>3. \/ ~Refused(a) /\ ~Refused(a)'
      \/ (Refused(a) <=> Refused(a)') /\ UNCHANGED <<on[a], todo[a]>>
  <2>1. CASE GiveBack(a)
    BY <1>1, <2>1 DEF Typed, GiveBack, Set, Refused
  <2>2. CASE \/ \E o \in Op : SetCallback(a, o)
             \/ Skip(a)
    BY <2>2 DEF SetCallback, Skip, Refused, calls
  <2>3. CASE \/ \E c \in Context, ops \in Batch : SubmitBegin(a, c, ops)
             \/ \E c \in Context : Close(a, c)
             \/ \E o \in Op : ReadBegin(a, o)
    BY <1>1, <2>3
    DEF Typed, SubmitBegin, Close, ReadBegin, MayCall, ClosePool, Enters, Set, Refused
  <2>4. CASE SubmitEnd(a) \/ ReadEnd(a) \/ DestroyReturn(a)
    BY <1>1, <2>4
    DEF Typed, SubmitEnd, ReadEnd, DestroyReturn, Leaves, Enters, Set, Refused
  <2> QED
    BY <2>1, <2>2, <2>3, <2>4
<1>4. SameRefusals
  BY <1>1, <1>3, OwnRefusal
<1>5. SameHeld
  BY <1>2 DEF SameHeld, workers
<1> QED
  BY <1>2, <1>4, <1>5, NothingCounted

(* A worker that starts, performs, publishes or calls back releases none.  *)
LEMMA WorkNotCounted ==
  ASSUME DispatchInvariant, Counted,
         \/ \E c \in Context : Start(c)
         \/ \E o \in Op : Perform(o) \/ Publish(o) \/ CallbackReturns(o)
         \/ UNCHANGED vars
  PROVE  Counted'
<1>1. Typed
  BY DEF DispatchInvariant
<1>2. UNCHANGED <<handle, ctxRefs, opRefs, home, calls>>
  BY DEF Start, Perform, Publish, CallbackReturns, context, operation, workers, vars
<1>3. SameRefusals
  BY <1>2 DEF SameRefusals, Refused, calls
<1>4. SameHeld
  <2>1. CASE \E c \in Context : Start(c)
    <3>1. PICK c \in Context : Start(c)
      BY <2>1
    <3>2. PICK o \in Op : o = Head(queue[c]) /\ stage[o] = "queued"
      BY <3>1, OldestQueued
    <3>3. stage' = [stage EXCEPT ![o] = "started"]
      BY <3>1, <3>2 DEF Start, Set
    <3> QED
      BY <1>1, <1>2, <3>2, <3>3 DEF Typed, SameHeld
  <2>2. CASE \E o \in Op : Perform(o) \/ Publish(o) \/ CallbackReturns(o)
    <3>1. PICK o \in Op : Perform(o) \/ Publish(o) \/ CallbackReturns(o)
      BY <2>2
    <3>2. /\ stage[o] \in {"started", "performed", "callback"}
          /\ \E s \in {"performed", "callback", "release"} : stage' = [stage EXCEPT ![o] = s]
      BY <3>1 DEF Perform, Publish, CallbackReturns, Set
    <3> QED
      BY <1>1, <1>2, <3>2 DEF Typed, SameHeld
  <2>3. CASE UNCHANGED vars
    BY <2>3 DEF vars, workers, SameHeld
  <2> QED
    BY <2>1, <2>2, <2>3
<1> QED
  BY <1>2, <1>3, <1>4, NothingCounted

(* In a Context nobody else is, the critical section being its own.        *)
LEMMA OneRefuser ==
  ASSUME Typed, InSection, NEW a \in Actor, TakesGil(a), Submits(a), NEW c, c = on[a]
  PROVE  /\ Gives(c) <=> Refused(a)
         /\ ~(Refused(a)' /\ on'[a] = c) => ~Gives(c)'
         /\ \A d : d # c /\ (Refused(a)' => on'[a] # d) => (Gives(d)' <=> Gives(d))
         /\ \A p : (Refused(a) => Current(a) # p) /\ (Refused(a)' => Current(a)' # p) =>
              Refusers(p)' = Refusers(p)
<1>1. \A b \in Actor : a # b =>
        /\ (Refused(b)' <=> Refused(b)) /\ on'[b] = on[b]
        /\ Current(b)' = Current(b)
  BY OwnRefusal DEF Current
<1>2. \A b \in Actor : Refused(b) /\ on[b] = c => b = a
  BY DEF InSection, Sound, Submits, Refused
<1> QED
  BY <1>1, <1>2 DEF Gives, Refusers

(* threadpool_add takes the Operation: the pool holds both.                *)
LEMMA AcceptCounted ==
  ASSUME Finite, DispatchInvariant, Counted,
         NEW a \in Actor, NEW o \in Op, NEW c \in Context, Accept(a, o, c)
  PROVE  Counted'
<1>1. Typed /\ Stages /\ TakesGil(a) /\ stage[o] = "new" /\ home[o] = NoContext
  BY ClaimedIsNew DEF DispatchInvariant, Stages, TakesGil, SubmitStep
<1>2. /\ ctxRefs' = [ctxRefs EXCEPT ![c] = ctxRefs[c] + 1]
      /\ opRefs' = [opRefs EXCEPT ![o] = opRefs[o] + 1]
      /\ stage' = [stage EXCEPT ![o] = "queued"]
      /\ home' = [home EXCEPT ![o] = c]
      /\ handle' = handle /\ pc' = pc /\ pc[a] = "submit"
  BY DEF Accept, Claims, Set
<1>3. SameRefusals
  BY <1>1, <1>2, OwnRefusal DEF Refused
<1>4. /\ stage'[o] = "queued" /\ home'[o] = c
      /\ \A p \in Op \ {o} : stage'[p] = stage[p] /\ home'[p] = home[p]
      /\ ctxRefs'[c] = ctxRefs[c] + 1 /\ opRefs'[o] = opRefs[o] + 1
      /\ \A d \in Context \ {c} : ctxRefs'[d] = ctxRefs[d]
      /\ \A p \in Op \ {o} : opRefs'[p] = opRefs[p]
  BY <1>1, <1>2 DEF Typed, Counted
<1>5. /\ Held(c)' = Held(c) \cup {o} /\ o \notin Held(c)
      /\ \A d \in Context \ {c} : Held(d)' = Held(d)
  BY <1>1, <1>4, AioAssumption DEF Held
<1>6. Cardinality(Held(c))' = Cardinality(Held(c)) + 1 /\ Cardinality(Held(c)) \in Nat
  BY <1>5, HeldFinite, FS_AddElement
<1>7. ctxRefs' \in [Context -> Int] /\ opRefs' \in [Op -> Int]
  BY <1>2 DEF Counted
<1>8. ASSUME NEW d \in Context
      PROVE  ctxRefs'[d] = One(handle[d])' + Cardinality(Held(d))' + One(Gives(d))'
  <2>1. One(handle[d])' = One(handle[d]) /\ One(Gives(d))' = One(Gives(d))
    BY <1>2, <1>3, RefusalsStay DEF One
  <2>2. One(handle[d]) \in Int /\ One(Gives(d)) \in Int
    BY DEF One
  <2>3. ctxRefs[d] = One(handle[d]) + Cardinality(Held(d)) + One(Gives(d))
    BY DEF Counted
  <2>4. CASE d = c
    BY <1>4, <1>6, <2>1, <2>2, <2>3, <2>4
  <2>5. CASE d # c
    BY <1>4, <1>5, <2>1, <2>3, <2>5
  <2> QED
    BY <2>4, <2>5
<1>9. ASSUME NEW p \in Op
      PROVE  opRefs'[p] = 1 + One(stage[p] \notin {"new", "over"})' + Cardinality(Refusers(p))'
  <2>1. Cardinality(Refusers(p))' = Cardinality(Refusers(p)) /\ Cardinality(Refusers(p)) \in Int
    BY <1>3, RefusalsStay, RefusersFinite
  <2>2. opRefs[p] = 1 + One(stage[p] \notin {"new", "over"}) + Cardinality(Refusers(p))
    BY DEF Counted
  <2>3. CASE p = o
    <3>1. One(stage[o] \notin {"new", "over"}) = 0 /\ One(stage[o] \notin {"new", "over"})' = 1
      BY <1>1, <1>4 DEF One
    <3> QED
      BY <1>4, <2>1, <2>2, <2>3, <3>1
  <2>4. CASE p # o
    BY <1>4, <2>1, <2>2, <2>4 DEF One
  <2> QED
    BY <2>3, <2>4
<1> QED
  BY <1>2, <1>7, <1>8, <1>9 DEF Counted

(* threadpool_add fails: submit() holds both until it gives them back.     *)
LEMMA RefuseCounted ==
  ASSUME DispatchInvariant, Counted, Finite,
         NEW a \in Actor, NEW o \in Op, NEW c \in Context, Refuse(a, o, c)
  PROVE  Counted'
<1>1. Typed /\ InSection /\ TakesGil(a)
  BY DEF DispatchInvariant, TakesGil, SubmitStep
<1>2. /\ ctxRefs' = [ctxRefs EXCEPT ![c] = ctxRefs[c] + 1]
      /\ opRefs' = [opRefs EXCEPT ![o] = opRefs[o] + 1]
      /\ pc' = [pc EXCEPT ![a] = "refuse"] /\ pc[a] = "submit"
      /\ c = on[a] /\ o = Current(a)
      /\ UNCHANGED <<handle, workers, on, todo>>
  BY DEF Refuse, Claims, Set, Current
<1>3. ~Refused(a) /\ Refused(a)' /\ on'[a] = c /\ Current(a)' = o
  BY <1>1, <1>2 DEF Typed, Refused, Current
<1>4. /\ ~Gives(c) /\ Gives(c)' /\ \A d : d # c => (Gives(d)' <=> Gives(d))
      /\ \A p : p # o => Refusers(p)' = Refusers(p)
  <2>1. Submits(a)
    BY <1>2 DEF Submits
  <2>2. Gives(c)'
    BY <1>3 DEF Gives
  <2> QED
    BY <1>1, <1>2, <1>3, <2>1, <2>2, OneRefuser
<1>9. Refusers(o)' = Refusers(o) \cup {a} /\ a \notin Refusers(o)
  BY <1>1, <1>3, OwnRefusal DEF Refusers, Current
<1>10. Cardinality(Refusers(o))' = Cardinality(Refusers(o)) + 1
  BY <1>9, RefusersFinite, FS_AddElement
<1>5. /\ ctxRefs'[c] = ctxRefs[c] + 1 /\ opRefs'[o] = opRefs[o] + 1
      /\ \A d \in Context \ {c} : ctxRefs'[d] = ctxRefs[d]
      /\ \A p \in Op \ {o} : opRefs'[p] = opRefs[p]
      /\ ctxRefs' \in [Context -> Int] /\ opRefs' \in [Op -> Int]
  BY <1>2 DEF Counted
<1>6. SameHeld
  BY <1>2 DEF SameHeld, workers
<1>7. ASSUME NEW d \in Context
      PROVE  ctxRefs'[d] = One(handle[d])' + Cardinality(Held(d))' + One(Gives(d))'
  <2>1. One(handle[d])' = One(handle[d]) /\ Cardinality(Held(d))' = Cardinality(Held(d))
    BY <1>2, <1>6, HeldStays DEF One
  <2>2. One(handle[d]) \in Int /\ Cardinality(Held(d)) \in Int
    BY HeldFinite DEF One
  <2>3. /\ d = c => One(Gives(d)) = 0 /\ One(Gives(d))' = 1
        /\ d # c => One(Gives(d))' = One(Gives(d))
        /\ One(Gives(d)) \in Int
    BY <1>4 DEF One
  <2>4. ctxRefs[d] = One(handle[d]) + Cardinality(Held(d)) + One(Gives(d))
    BY DEF Counted
  <2> QED
    BY <1>5, <2>1, <2>2, <2>3, <2>4
<1>8. ASSUME NEW p \in Op
      PROVE  opRefs'[p] = 1 + One(stage[p] \notin {"new", "over"})' + Cardinality(Refusers(p))'
  <2>1. /\ One(stage[p] \notin {"new", "over"})' = One(stage[p] \notin {"new", "over"})
        /\ One(stage[p] \notin {"new", "over"}) \in Int
    BY <1>2 DEF One, workers
  <2>2. /\ Cardinality(Refusers(p)) \in Int
        /\ Cardinality(Refusers(p))' = Cardinality(Refusers(p)) + IF p = o THEN 1 ELSE 0
    BY <1>4, <1>10, RefusersFinite
  <2>3. opRefs[p] = 1 + One(stage[p] \notin {"new", "over"}) + Cardinality(Refusers(p))
    BY DEF Counted
  <2> QED
    BY <1>5, <2>1, <2>2, <2>3
<1> QED
  BY <1>2, <1>5, <1>7, <1>8 DEF Counted

(* The refusing submit() lets go of both.                                  *)
LEMMA ForgetCounted ==
  ASSUME DispatchInvariant, Counted, Finite, NEW a \in Actor, Forget(a)
  PROVE  Counted'
<1>1. Typed /\ InSection /\ TakesGil(a)
  BY DEF DispatchInvariant, TakesGil, SubmitStep
<1>2. PICK o \in Op, c \in Context : o = Current(a) /\ c = on[a]
  <2>1. todo[a] # <<>> /\ on[a] \in Context
    BY <1>1 DEF InSection, Sound, Submits, Refused, Forget
  <2> QED
    BY <1>1, <2>1, CurrentType
<1>3. /\ ctxRefs' = [ctxRefs EXCEPT ![c] = ctxRefs[c] - 1]
      /\ opRefs' = [opRefs EXCEPT ![o] = opRefs[o] - 1]
      /\ pc[a] = "forget" /\ pc' = [pc EXCEPT ![a] = "idle"]
      /\ UNCHANGED <<handle, workers>>
  BY <1>2 DEF Forget, Unref, Leaves, Enters, Set, Current
<1>4. Refused(a) /\ ~Refused(a)'
  BY <1>1, <1>3 DEF Typed, Refused
<1>5. /\ Gives(c) /\ ~Gives(c)' /\ \A d : d # c => (Gives(d)' <=> Gives(d))
      /\ \A p : p # o => Refusers(p)' = Refusers(p)
  <2>1. Submits(a)
    BY <1>3 DEF Submits
  <2> QED
    BY <1>1, <1>2, <1>4, <2>1, OneRefuser
<1>10. Refusers(o)' = Refusers(o) \ {a} /\ a \in Refusers(o)
  BY <1>1, <1>2, <1>4, OwnRefusal DEF Refusers, Current
<1>11. Cardinality(Refusers(o))' = Cardinality(Refusers(o)) - 1
  BY <1>10, RefusersFinite, FS_RemoveElement
<1>6. /\ ctxRefs'[c] = ctxRefs[c] - 1 /\ opRefs'[o] = opRefs[o] - 1
      /\ \A d \in Context \ {c} : ctxRefs'[d] = ctxRefs[d]
      /\ \A p \in Op \ {o} : opRefs'[p] = opRefs[p]
      /\ ctxRefs' \in [Context -> Int] /\ opRefs' \in [Op -> Int]
  BY <1>3 DEF Counted
<1>7. SameHeld
  BY <1>3 DEF SameHeld, workers
<1>8. ASSUME NEW d \in Context
      PROVE  ctxRefs'[d] = One(handle[d])' + Cardinality(Held(d))' + One(Gives(d))'
  <2>1. One(handle[d])' = One(handle[d]) /\ Cardinality(Held(d))' = Cardinality(Held(d))
    BY <1>3, <1>7, HeldStays DEF One
  <2>2. One(handle[d]) \in Int /\ Cardinality(Held(d)) \in Int
    BY HeldFinite DEF One
  <2>3. /\ d = c => One(Gives(d)) = 1 /\ One(Gives(d))' = 0
        /\ d # c => One(Gives(d))' = One(Gives(d))
        /\ One(Gives(d)) \in Int
    BY <1>5 DEF One
  <2>4. ctxRefs[d] = One(handle[d]) + Cardinality(Held(d)) + One(Gives(d))
    BY DEF Counted
  <2> QED
    BY <1>6, <2>1, <2>2, <2>3, <2>4
<1>9. ASSUME NEW p \in Op
      PROVE  opRefs'[p] = 1 + One(stage[p] \notin {"new", "over"})' + Cardinality(Refusers(p))'
  <2>1. /\ One(stage[p] \notin {"new", "over"})' = One(stage[p] \notin {"new", "over"})
        /\ One(stage[p] \notin {"new", "over"}) \in Int
    BY <1>3 DEF One, workers
  <2>2. /\ Cardinality(Refusers(p)) \in Int
        /\ Cardinality(Refusers(p))' = Cardinality(Refusers(p)) - IF p = o THEN 1 ELSE 0
    BY <1>5, <1>11, RefusersFinite
  <2>3. opRefs[p] = 1 + One(stage[p] \notin {"new", "over"}) + Cardinality(Refusers(p))
    BY DEF Counted
  <2> QED
    BY <1>6, <2>1, <2>2, <2>3
<1> QED
  BY <1>3, <1>6, <1>8, <1>9 DEF Counted

(* A tear-down is no refusal.                                              *)
LEMMA DeallocRefusesNone ==
  ASSUME Typed, NEW a \in Actor, NEW c \in Context, pc[a] = "idle",
         Dealloc(a, c) \/ UNCHANGED calls
  PROVE  ~Refused(a) /\ ~Refused(a)'
BY DEF Typed, Dealloc, ClosePool, Enters, Set, Refused, calls

(* The program drops its handle.                                           *)
LEMMA DropCounted ==
  ASSUME DispatchInvariant, Counted, Finite,
         NEW a \in Actor, NEW c \in Context, Drop(a, c)
  PROVE  Counted'
<1>1. Typed /\ TakesGil(a) /\ pc[a] = "idle"
  BY DEF DispatchInvariant, TakesGil, Call, Drop, MayCall
<1>2. /\ ctxRefs' = [ctxRefs EXCEPT ![c] = ctxRefs[c] - 1]
      /\ handle[c] /\ handle' = [handle EXCEPT ![c] = FALSE]
      /\ UNCHANGED <<opRefs, workers>>
      /\ Dealloc(a, c) \/ UNCHANGED calls
  BY DEF Drop, Unref, Set, operation
<1>3. SameRefusals
  BY <1>1, <1>2, DeallocRefusesNone, OwnRefusal
<1>4. SameHeld
  BY <1>2 DEF SameHeld, workers
<1>5. /\ ctxRefs'[c] = ctxRefs[c] - 1 /\ ctxRefs' \in [Context -> Int]
      /\ \A d \in Context \ {c} : ctxRefs'[d] = ctxRefs[d]
  BY <1>2 DEF Counted
<1>6. ASSUME NEW d \in Context
      PROVE  ctxRefs'[d] = One(handle[d])' + Cardinality(Held(d))' + One(Gives(d))'
  <2>1. One(Gives(d))' = One(Gives(d)) /\ Cardinality(Held(d))' = Cardinality(Held(d))
    BY <1>3, <1>4, HeldStays, RefusalsStay DEF One
  <2>2. One(Gives(d)) \in Int /\ Cardinality(Held(d)) \in Int
    BY HeldFinite DEF One
  <2>3. ctxRefs[d] = One(handle[d]) + Cardinality(Held(d)) + One(Gives(d))
    BY DEF Counted
  <2>4. CASE d = c
    <3>1. One(handle[d]) = 1
      BY <1>2, <2>4 DEF One
    <3>2. One(handle[d])' = 0
      BY <1>2, <2>4 DEF Counted, One
    <3> QED
      BY <1>5, <2>1, <2>2, <2>3, <2>4, <3>1, <3>2
  <2>5. CASE d # c
    <3>1. One(handle[d])' = One(handle[d])
      BY <1>2, <2>5 DEF One
    <3> QED
      BY <1>5, <2>1, <2>3, <2>5, <3>1
  <2> QED
    BY <2>4, <2>5
<1>7. ASSUME NEW p \in Op
      PROVE  opRefs'[p] = 1 + One(stage[p] \notin {"new", "over"})' + Cardinality(Refusers(p))'
  BY <1>2, <1>3, RefusalsStay DEF Counted, One, workers
<1> QED
  BY <1>2, <1>5, <1>6, <1>7 DEF Counted

(* worker() releases the Context its own pool held, ...                    *)
LEMMA ReleaseContextCounted ==
  ASSUME DispatchInvariant, Counted, Finite, NEW o \in Op, ReleaseContext(o)
  PROVE  Counted'
<1>1. Typed /\ Stages /\ o \in Actor /\ TakesGil(o) /\ pc[o] = "idle"
  BY DEF DispatchInvariant, Callers, TakesGil, Python, Actor, ReleaseContext, Typed
<1>2. PICK c \in Context : c = local[o] /\ c = home[o]
  BY <1>1 DEF Typed, Stages, ReleaseContext
<1>3. /\ ctxRefs' = [ctxRefs EXCEPT ![c] = ctxRefs[c] - 1]
      /\ stage[o] = "release" /\ stage' = [stage EXCEPT ![o] = "drop"]
      /\ UNCHANGED <<handle, opRefs, home>>
      /\ Dealloc(o, c) \/ UNCHANGED calls
  BY <1>2 DEF ReleaseContext, Unref, Set, operation
<1>4. SameRefusals
  BY <1>1, <1>2, <1>3, DeallocRefusesNone, OwnRefusal
<1>5. /\ ctxRefs'[c] = ctxRefs[c] - 1 /\ ctxRefs' \in [Context -> Int]
      /\ \A d \in Context \ {c} : ctxRefs'[d] = ctxRefs[d]
      /\ stage'[o] = "drop" /\ \A p \in Op \ {o} : stage'[p] = stage[p]
  BY <1>1, <1>3 DEF Typed, Counted
<1>6. /\ Held(c)' = Held(c) \ {o} /\ o \in Held(c)
      /\ \A d \in Context \ {c} : Held(d)' = Held(d)
  BY <1>2, <1>3, <1>5 DEF Held
<1>7. Cardinality(Held(c))' = Cardinality(Held(c)) - 1 /\ Cardinality(Held(c)) \in Int
  <2>1. IsFiniteSet(Held(c)) /\ Cardinality(Held(c)) \in Int
    BY HeldFinite
  <2>2. Cardinality(Held(c) \ {o}) = Cardinality(Held(c)) - 1
    BY <1>6, <2>1, FS_RemoveElement
  <2> QED
    BY <1>6, <2>1, <2>2
<1>8. ASSUME NEW d \in Context
      PROVE  ctxRefs'[d] = One(handle[d])' + Cardinality(Held(d))' + One(Gives(d))'
  <2>1. One(handle[d])' = One(handle[d]) /\ One(Gives(d))' = One(Gives(d))
    BY <1>3, <1>4, RefusalsStay DEF One
  <2>2. One(handle[d]) \in Int /\ One(Gives(d)) \in Int
    BY DEF One
  <2>3. ctxRefs[d] = One(handle[d]) + Cardinality(Held(d)) + One(Gives(d))
    BY DEF Counted
  <2>4. CASE d = c
    BY <1>5, <1>7, <2>1, <2>2, <2>3, <2>4
  <2>5. CASE d # c
    BY <1>5, <1>6, <2>1, <2>3, <2>5
  <2> QED
    BY <2>4, <2>5
<1>9. ASSUME NEW p \in Op
      PROVE  opRefs'[p] = 1 + One(stage[p] \notin {"new", "over"})' + Cardinality(Refusers(p))'
  <2>1. Cardinality(Refusers(p))' = Cardinality(Refusers(p))
    BY <1>4, RefusalsStay DEF One
  <2>2. One(stage[p] \notin {"new", "over"})' = One(stage[p] \notin {"new", "over"})
    BY <1>3, <1>5 DEF One
  <2> QED
    BY <1>3, <2>1, <2>2 DEF Counted
<1> QED
  BY <1>3, <1>5, <1>8, <1>9 DEF Counted

(* and then the Operation.                                                 *)
LEMMA ReleaseOperationCounted ==
  ASSUME DispatchInvariant, Counted, Finite, NEW o \in Op, ReleaseOperation(o)
  PROVE  Counted'
<1>1. Typed
  BY DEF DispatchInvariant
<1>2. /\ opRefs' = [opRefs EXCEPT ![o] = opRefs[o] - 1]
      /\ stage[o] = "drop" /\ stage' = [stage EXCEPT ![o] = "over"]
      /\ UNCHANGED <<handle, ctxRefs, home, calls>>
  BY DEF ReleaseOperation, Set, context
<1>3. SameRefusals
  BY <1>2 DEF SameRefusals, Refused, calls
<1>4. /\ opRefs'[o] = opRefs[o] - 1 /\ opRefs' \in [Op -> Int]
      /\ \A p \in Op \ {o} : opRefs'[p] = opRefs[p]
      /\ stage'[o] = "over" /\ \A p \in Op \ {o} : stage'[p] = stage[p]
  BY <1>1, <1>2 DEF Typed, Counted
<1>5. \A d \in Context : Held(d)' = Held(d)
  BY <1>2, <1>4 DEF Held
<1>6. ASSUME NEW d \in Context
      PROVE  ctxRefs'[d] = One(handle[d])' + Cardinality(Held(d))' + One(Gives(d))'
  <2>1. One(handle[d])' = One(handle[d]) /\ One(Gives(d))' = One(Gives(d))
    BY <1>2, <1>3, RefusalsStay DEF One
  <2> QED
    BY <1>2, <1>5, <2>1 DEF Counted
<1>7. ASSUME NEW p \in Op
      PROVE  opRefs'[p] = 1 + One(stage[p] \notin {"new", "over"})' + Cardinality(Refusers(p))'
  <2>1. Cardinality(Refusers(p))' = Cardinality(Refusers(p)) /\ Cardinality(Refusers(p)) \in Int
    BY <1>3, RefusalsStay, RefusersFinite
  <2>2. opRefs[p] = 1 + One(stage[p] \notin {"new", "over"}) + Cardinality(Refusers(p))
    BY DEF Counted
  <2>3. CASE p = o
    <3>1. One(stage[o] \notin {"new", "over"}) = 1 /\ One(stage[o] \notin {"new", "over"})' = 0
      BY <1>2, <1>4 DEF One
    <3> QED
      BY <1>4, <2>1, <2>2, <2>3, <3>1
  <2>4. CASE p # o
    BY <1>4, <2>1, <2>2, <2>4 DEF One
  <2> QED
    BY <2>3, <2>4
<1> QED
  BY <1>2, <1>4, <1>6, <1>7 DEF Counted

-----------------------------------------------------------------------------
(* threadpool_add refuses at the bound, and nobody else fills a queue.     *)
LEMMA NextBounded == Typed /\ Bounded /\ [Next]_vars => Bounded'
<1> SUFFICES ASSUME Typed, Bounded, [Next]_vars PROVE Bounded'
  OBVIOUS
<1> USE AioAssumption
<1>1. ASSUME NEW a \in Actor, NEW o \in Op, NEW c \in Context, Accept(a, o, c)
      PROVE  Bounded'
  <2>1. /\ queue' = [queue EXCEPT ![c] = Append(queue[c], o)]
        /\ queue[c] \in Seq(Op) /\ Len(queue[c]) < QueueSize
    BY <1>1 DEF Accept, Room, Set, Typed
  <2>2. Len(Append(queue[c], o)) = Len(queue[c]) + 1 /\ Len(queue[c]) \in Nat
    BY <2>1, AppendProperties, LenProperties
  <2> QED
    BY <2>1, <2>2 DEF Bounded, Typed
<1>2. ASSUME NEW c \in Context, Start(c)
      PROVE  Bounded'
  <2>1. queue' = [queue EXCEPT ![c] = Tail(queue[c])] /\ queue[c] # <<>>
    BY <1>2 DEF Start, Serves, Set
  <2>2. Len(Tail(queue[c])) = Len(queue[c]) - 1 /\ Len(queue[c]) \in Nat
    BY <2>1, OldestType
  <2> QED
    BY <2>1, <2>2 DEF Bounded, Typed
<1>3. ASSUME UNCHANGED queue
      PROVE  Bounded'
  BY <1>3 DEF Bounded
<1>4. ASSUME NEW a \in Actor, Quiet(a) \/ GiveBack(a) \/ Forget(a)
      PROVE  Bounded'
  BY <1>3, <1>4, QuietSteps DEF GiveBack, Forget, context
<1>5. ASSUME NEW a \in Actor, NEW o \in Op, NEW c \in Context, Refuse(a, o, c)
      PROVE  Bounded'
  BY <1>3, <1>5 DEF Refuse
<1>6. ASSUME NEW o \in Op, WorkerStep(o)
      PROVE  Bounded'
  <2>1. UNCHANGED queue
    BY <1>6
    DEF WorkerStep, Perform, Publish, CallbackReturns, ReleaseContext,
        ReleaseOperation, context
  <2> QED
    BY <1>3, <2>1
<1>7. CASE UNCHANGED vars
  BY <1>3, <1>7 DEF vars, context
<1> QED
  BY <1>1, <1>2, <1>4, <1>5, <1>6, <1>7 DEF Next, SubmitStep, Quiet

LEMMA NextCounted ==
  ASSUME Finite, DispatchInvariant, Counted, [Next]_vars
  PROVE  Counted'
<1>1. ASSUME NEW a \in Actor, Call(a) \/ SubmitStep(a) \/ ReadEnd(a) \/ DestroyReturn(a)
      PROVE  Counted'
  <2>1. \/ \E c \in Context, ops \in Batch : SubmitBegin(a, c, ops)
        \/ \E c \in Context : Close(a, c)
        \/ \E o \in Op : SetCallback(a, o) \/ ReadBegin(a, o)
        \/ Skip(a) \/ GiveBack(a) \/ SubmitEnd(a) \/ ReadEnd(a) \/ DestroyReturn(a)
        \/ \E c \in Context : Drop(a, c)
        \/ \E o \in Op, c \in Context : Accept(a, o, c) \/ Refuse(a, o, c)
        \/ Forget(a)
    BY <1>1 DEF Call, SubmitStep
  <2> QED
    BY <2>1, StepsNotCounted, DropCounted, AcceptCounted, RefuseCounted, ForgetCounted
<1>2. ASSUME NEW o \in Op, WorkerStep(o)
      PROVE  Counted'
  BY <1>2, WorkNotCounted, ReleaseContextCounted, ReleaseOperationCounted DEF WorkerStep
<1>3. ASSUME NEW c \in Context, Start(c)
      PROVE  Counted'
  BY <1>3, WorkNotCounted
<1>4. CASE UNCHANGED vars
  BY <1>4, WorkNotCounted
<1> QED
  BY <1>1, <1>2, <1>3, <1>4 DEF Next

LEMMA InitCounted == Init => Counted /\ Bounded
<1> SUFFICES ASSUME Init PROVE Counted /\ Bounded
  OBVIOUS
<1>1. /\ handle = [c \in Context |-> TRUE] /\ queue = [c \in Context |-> <<>>]
      /\ ctxRefs = [c \in Context |-> 1] /\ opRefs = [o \in Op |-> 1]
      /\ stage = [o \in Op |-> "new"] /\ home = [o \in Op |-> NoContext]
      /\ \A a \in Actor : pc[a] = "idle"
  BY DEF Init, InitContext, InitOperation
<1>2. \A c \in Context : Held(c) = {}
  BY <1>1, AioAssumption DEF Held
<1>3. (\A c : ~Gives(c)) /\ (\A o : Refusers(o) = {})
  BY <1>1 DEF Gives, Refusers, Refused
<1>4. /\ \A c \in Context : Cardinality(Held(c)) = 0
      /\ \A o \in Op : Cardinality(Refusers(o)) = 0
  BY <1>2, <1>3, FS_EmptySet
<1>5. Counted
  BY <1>1, <1>3, <1>4 DEF Counted, One
<1>6. Bounded
  BY <1>1, AioAssumption, EmptySeq DEF Bounded
<1> QED
  BY <1>5, <1>6

Accounted == DispatchInvariant /\ Counted /\ Bounded /\ freeThreaded \in BOOLEAN

LEMMA AccountedInvariance ==
  ASSUME Finite
  PROVE  Spec => []Accounted
<1>1. Init => Accounted
  BY InitDispatch, InitCounted, AioAssumption DEF Init, Accounted
<1>2. Accounted /\ [Next]_vars => Accounted'
  <2>1. [Next]_vars => UNCHANGED freeThreaded
    BY DEF Next, vars
  <2>2. DispatchInvariant /\ [Next]_vars => DispatchInvariant'
    BY NextTyped, NextInSection, NextCallers, NextStages, NextClaimants, NextQueued
    DEF DispatchInvariant
  <2> QED
    BY <2>1, <2>2, NextCounted, NextBounded DEF Accounted, DispatchInvariant
<1> QED
  BY <1>1, <1>2, PTL DEF Spec

(* The threads in a refusal of a Context, one at most, and of an Operation.*)
LEMMA RefusingCount ==
  ASSUME DispatchInvariant
  PROVE  /\ \A c \in Context :
              Cardinality(UNION {Refusing(c, o) : o \in Op}) = One(Gives(c))
         /\ \A o \in Op : UNION {Refusing(c, o) : c \in Context} = Refusers(o)
<1>1. \A a \in Actor : Refused(a) =>
        on[a] \in Context /\ section[on[a]] = a /\ Current(a) \in Op
  BY CurrentType DEF DispatchInvariant, InSection, Sound, Submits, Refused
<1>2. ASSUME NEW c \in Context
      PROVE  Cardinality(UNION {Refusing(c, o) : o \in Op}) = One(Gives(c))
  <2> DEFINE S == UNION {Refusing(c, o) : o \in Op}
  <2>1. \A a : a \in S <=> a \in Actor /\ Refused(a) /\ on[a] = c
    BY <1>1 DEF Refusing, Refused, Current
  <2> HIDE DEF S
  <2>2. \A a, b \in S : a = b
    BY <1>1, <2>1
  <2>3. S # {} <=> Gives(c)
    BY <2>1 DEF Gives
  <2>4. Cardinality(S) = One(S # {})
    BY <2>2, SingleOrNone
  <2> QED
    BY <2>3, <2>4 DEF One, S
<1>3. ASSUME NEW o \in Op
      PROVE  UNION {Refusing(c, o) : c \in Context} = Refusers(o)
  BY <1>1 DEF Refusing, Refusers, Refused, Current
<1> QED
  BY <1>2, <1>3

(* On any build, every reference is the program's, a pool's, or a refusing *)
(* submit()'s: none leaks, and none is released twice.  A worker that took *)
(* a cleared pointer has no step after its callback (ReleaseContext).      *)
THEOREM ReferencesAreHeld ==
  ASSUME IsFiniteSet(Op), IsFiniteSet(Client)
  PROVE  Spec => []RefsExact
<1>a. Finite
  BY DEF Finite
<1>1. Accounted => RefsExact
  <2> SUFFICES ASSUME Accounted PROVE RefsExact
    OBVIOUS
  <2>1. Counted /\ DispatchInvariant
    BY DEF Accounted
  <2>2. ASSUME NEW c \in Context
        PROVE  ctxRefs[c] =
                 (IF handle[c] THEN 1 ELSE 0)
                 + Cardinality({o \in Op : home[o] = c /\ stage[o] \notin {"drop", "over"}})
                 + Cardinality(UNION {Refusing(c, o) : o \in Op})
    <3>1. ctxRefs[c] = One(handle[c]) + Cardinality(Held(c)) + One(Gives(c))
      BY <2>1 DEF Counted
    <3>2. Cardinality(UNION {Refusing(c, o) : o \in Op}) = One(Gives(c))
      BY <2>1, RefusingCount
    <3>3. One(handle[c]) = IF handle[c] THEN 1 ELSE 0
      BY DEF One
    <3>4. Held(c) = {o \in Op : home[o] = c /\ stage[o] \notin {"drop", "over"}}
      BY DEF Held
    <3> QED
      BY <3>1, <3>2, <3>3, <3>4
  <2>3. ASSUME NEW o \in Op
        PROVE  opRefs[o] = 1 + (IF stage[o] \in {"new", "over"} THEN 0 ELSE 1)
                           + Cardinality(UNION {Refusing(c, o) : c \in Context})
    <3>1. opRefs[o] = 1 + One(stage[o] \notin {"new", "over"}) + Cardinality(Refusers(o))
      BY <2>1 DEF Counted
    <3>2. Cardinality(UNION {Refusing(c, o) : c \in Context}) = Cardinality(Refusers(o))
      BY <2>1, RefusingCount
    <3>3. One(stage[o] \notin {"new", "over"}) = IF stage[o] \in {"new", "over"} THEN 0 ELSE 1
      BY DEF One
    <3> QED
      BY <3>1, <3>2, <3>3
  <2> QED
    BY <2>2, <2>3 DEF RefsExact
<1> QED
  BY <1>1, <1>a, AccountedInvariance, PTL

(* On any build, every variable keeps its type: no queue outgrows          *)
(* max_requests, and no reference count goes below zero.                   *)
THEOREM TypesHold ==
  ASSUME IsFiniteSet(Op), IsFiniteSet(Client)
  PROVE  Spec => []TypeOK
<1>a. Finite
  BY DEF Finite
<1>1. Accounted => TypeOK
  <2> SUFFICES ASSUME Accounted PROVE TypeOK
    OBVIOUS
  <2>1. Typed /\ Counted /\ Bounded /\ freeThreaded \in BOOLEAN
    BY DEF Accounted, DispatchInvariant
  <2>2. ctxRefs \in [Context -> Nat]
    <3>1. \A c \in Context : ctxRefs[c] = One(handle[c]) + Cardinality(Held(c)) + One(Gives(c))
      BY <2>1 DEF Counted
    <3>2. \A c \in Context : /\ Cardinality(Held(c)) \in Nat
                             /\ One(handle[c]) \in Nat /\ One(Gives(c)) \in Nat
      BY <1>a, HeldFinite DEF One
    <3>3. \A c \in Context : ctxRefs[c] \in Nat
      BY <3>1, <3>2
    <3> QED
      BY <2>1, <3>3 DEF Counted
  <2>3. opRefs \in [Op -> Nat]
    <3>1. \A o \in Op : opRefs[o] \in Nat
      BY <1>a, <2>1, RefusersFinite DEF Counted, One
    <3> QED
      BY <2>1, <3>1 DEF Counted
  <2>4. \A c \in Context : queue[c] \in Seq(Op) /\ Len(queue[c]) <= QueueSize
    BY <2>1 DEF Typed, Bounded
  <2>5. /\ gil \in Actor \cup {NoOne}
        /\ section \in [Context -> Actor \cup {NoOne}]
        /\ pool \in [Context -> {"open", "draining", "freed", "leaked"}]
        /\ handle \in [Context -> BOOLEAN]
        /\ in_progress \in [Op -> BOOLEAN] /\ done \in [Op -> BOOLEAN]
        /\ callback \in [Op -> BOOLEAN] /\ payload \in [Op -> BOOLEAN]
        /\ result \in [Op -> {"none", "written"}]
        /\ stage \in [Op -> Busy \cup {"new", "queued", "over"}]
        /\ {ctx, local, home} \subseteq [Op -> Context \cup {NoContext}]
        /\ runs \in [Op -> Nat]
        /\ pc \in [Actor -> {"idle", "submit", "refuse", "forget", "close",
                             "dealloc", "read"}]
        /\ on \in [Actor -> Context \cup {NoContext}]
        /\ \A a \in Actor : todo[a] \in Seq(Op)
    BY <2>1 DEF Typed, Counted
  <2> QED
    BY <2>1, <2>2, <2>3, <2>4, <2>5 DEF TypeOK
<1> QED
  BY <1>1, <1>a, AccountedInvariance, PTL
-----------------------------------------------------------------------------
(* Whoever destroys a pool has closed it alone, and a pool that has been   *)
(* freed has nothing left to run.                                          *)
Destroys(a) == pc[a] \in {"close", "dealloc"}
Destroying ==
  /\ \A a \in Actor : Destroys(a) => pool[on[a]] = "draining"
  /\ \A a, b \in Actor : Destroys(a) /\ Destroys(b) /\ on[a] = on[b] => a = b
Drained == \A c \in Context : pool[c] = "freed" => queue[c] = <<>>

(* Pools are closed, by a method that begins, and destroyed, by one that   *)
(* ends; nothing else changes them.                                        *)
Shuts(a, c) == ClosePool(a, c, "close") \/ ClosePool(a, c, "dealloc")
LEMMA PoolSteps ==
  ASSUME DispatchInvariant, NEW a \in Actor, TakesGil(a)
  PROVE  \/ \E c \in Context : Shuts(a, c)
         \/ DestroyReturn(a)
         \/ pool' = pool /\ ~Destroys(a)'
<1> DEFINE Goal == \/ \E c \in Context : Shuts(a, c)
                   \/ DestroyReturn(a)
                   \/ pool' = pool /\ ~Destroys(a)'
<1>a. Typed /\ Callers
  BY DEF DispatchInvariant
<1>1. CASE SubmitStep(a)
  <2>1. pool' = pool
    BY <1>1 DEF SubmitStep, Skip, GiveBack, Forget, SubmitEnd, Accept, Refuse, context
  <2>2. ~Destroys(a)'
    BY <1>a, <1>1
    DEF Typed, SubmitStep, Skip, GiveBack, Forget, SubmitEnd, Accept, Refuse, Claims,
        Leaves, Enters, Set, Destroys
  <2> QED
    BY <2>1, <2>2
<1>2. CASE ReadEnd(a)
  BY <1>a, <1>2 DEF Typed, ReadEnd, Leaves, Enters, Set, Destroys, context
<1>3. ASSUME NEW c \in Context, pc[a] = "idle", Dealloc(a, c) PROVE Goal
  BY <1>3 DEF Dealloc, Shuts, Destroys, calls
<1>4. ASSUME pc[a] = "idle", UNCHANGED <<pool, calls>> PROVE Goal
  BY <1>4 DEF Destroys, calls
<1>5. CASE Call(a)
  <2>1. ASSUME NEW c \in Context, NEW ops \in Batch, SubmitBegin(a, c, ops) PROVE Goal
    BY <1>a, <2>1 DEF Typed, SubmitBegin, Enters, Set, Destroys
  <2>2. ASSUME NEW c \in Context, Close(a, c) PROVE Goal
    BY <2>2 DEF Close, Shuts
  <2>3. ASSUME NEW c \in Context, Drop(a, c) PROVE Goal
    <3>1. pc[a] = "idle" /\ (Dealloc(a, c) \/ UNCHANGED <<pool, calls>>)
      BY <2>3 DEF Drop, MayCall
    <3> QED
      BY <1>3, <1>4, <3>1
  <2>4. ASSUME NEW o \in Op, SetCallback(a, o) PROVE Goal
    <3>1. pc[a] = "idle" /\ UNCHANGED <<pool, calls>>
      BY <2>4 DEF SetCallback, MayCall, context
    <3> QED
      BY <1>4, <3>1
  <2>5. ASSUME NEW o \in Op, ReadBegin(a, o) PROVE Goal
    BY <1>a, <2>5 DEF Typed, ReadBegin, Enters, Set, Destroys, context
  <2> QED
    BY <1>5, <2>1, <2>2, <2>3, <2>4, <2>5 DEF Call
<1>6. CASE a \in Op /\ Python(a)
  <2>1. pc[a] = "idle"
    BY <1>a, <1>6
    DEF Typed, Callers, Python, Publish, CallbackReturns, ReleaseContext,
        ReleaseOperation
  <2>2. CASE ReleaseContext(a)
    <3>1. PICK c \in Context : c = local[a]
      BY <1>a, <1>6, <2>2 DEF Typed, ReleaseContext
    <3>2. Dealloc(a, c) \/ UNCHANGED <<pool, calls>>
      BY <2>2, <3>1 DEF ReleaseContext, Dealloc, ClosePool, Enters, JoinWithoutGil
    <3> QED
      BY <1>3, <1>4, <2>1, <3>2
  <2>3. CASE Publish(a) \/ CallbackReturns(a) \/ ReleaseOperation(a)
    <3>1. UNCHANGED <<pool, calls>>
      BY <2>3 DEF Publish, CallbackReturns, ReleaseOperation, context
    <3> QED
      BY <1>4, <2>1, <3>1
  <2> QED
    BY <1>6, <2>2, <2>3 DEF Python
<1> QED
  BY <1>1, <1>2, <1>5, <1>6 DEF TakesGil

LEMMA NextDestroying ==
  DispatchInvariant /\ Destroying /\ [Next]_vars => Destroying'
<1> SUFFICES ASSUME DispatchInvariant, Destroying, [Next]_vars PROVE Destroying'
  OBVIOUS
<1>a. Typed /\ InSection
  BY DEF DispatchInvariant
<1>1. ASSUME UNCHANGED <<pool, calls>> PROVE Destroying'
  BY <1>1 DEF Destroying, Destroys, calls
<1>2. ASSUME NEW a \in Actor, TakesGil(a) PROVE Destroying'
  <2>1. \A b \in Actor : a # b => (Destroys(b)' <=> Destroys(b)) /\ on'[b] = on[b]
    BY <1>a, <1>2, OwnCalls DEF Destroys
  <2>2. ASSUME NEW c \in Context, Shuts(a, c) PROVE Destroying'
    <3>1. pool[c] = "open" /\ pool' = [pool EXCEPT ![c] = "draining"]
          /\ on' = [on EXCEPT ![a] = c]
      BY <2>2 DEF Shuts, ClosePool, Enters, Set
    <3>2. pool'[c] = "draining" /\ on'[a] = c /\ \A d \in Context \ {c} : pool'[d] = pool[d]
      BY <1>a, <3>1 DEF Typed
    <3>3. \A b \in Actor : Destroys(b) => on[b] \in Context \ {c}
      BY <1>a, <3>1 DEF Destroying, InSection, Sound, Destroys
    <3> QED
      BY <2>1, <3>2, <3>3 DEF Destroying
  <2>3. CASE DestroyReturn(a)
    <3>1. PICK c \in Context : c = on[a]
      BY <1>a, <2>3 DEF DestroyReturn, InSection, Sound
    <3>2. Destroys(a) /\ ~Destroys(a)'
      BY <1>a, <2>3 DEF Typed, DestroyReturn, Leaves, Enters, Set, Destroys
    <3>3. \A d \in Context \ {c} : pool'[d] = pool[d]
      BY <1>a, <2>3, <3>1 DEF Typed, DestroyReturn, Set
    <3>4. \A b \in Actor : a # b /\ Destroys(b) => on[b] \in Context \ {c}
      BY <1>a, <3>1, <3>2 DEF Destroying, InSection, Sound, Destroys
    <3> QED
      BY <2>1, <3>2, <3>3, <3>4 DEF Destroying
  <2>4. CASE pool' = pool /\ ~Destroys(a)'
    BY <2>1, <2>4 DEF Destroying
  <2> QED
    BY <1>2, <2>2, <2>3, <2>4, PoolSteps
<1>3. CASE \/ \E c \in Context : Start(c)
           \/ \E o \in Op : Perform(o)
           \/ UNCHANGED vars
  BY <1>1, <1>3 DEF Start, Perform, context, vars
<1> QED
  BY <1>2, <1>3, NextSteps

LEMMA NextDrained == DispatchInvariant /\ Destroying /\ Drained /\ [Next]_vars => Drained'
<1> SUFFICES ASSUME DispatchInvariant, Destroying, Drained, [Next]_vars,
                    NEW c \in Context, pool'[c] = "freed"
             PROVE  queue'[c] = <<>>
  BY DEF Drained
<1>a. Typed /\ InSection
  BY DEF DispatchInvariant
<1>1. ASSUME pool[c] = "freed", queue'[c] = queue[c] PROVE queue'[c] = <<>>
  BY <1>1 DEF Drained
<1>2. ASSUME NEW a \in Actor, TakesGil(a) PROVE queue'[c] = <<>>
  <2>1. CASE DestroyReturn(a)
    <3>1. PICK d \in Context : d = on[a]
      BY <1>a, <2>1 DEF DestroyReturn, InSection, Sound
    <3>2. queue' = queue /\ (d = c => queue[c] = <<>>)
      BY <1>a, <2>1, <3>1 DEF Typed, DestroyReturn, Set
    <3>3. d # c => pool'[c] = pool[c]
      BY <1>a, <2>1, <3>1 DEF Typed, DestroyReturn, Set
    <3> QED
      BY <1>1, <3>2, <3>3
  <2>2. ASSUME ~DestroyReturn(a) PROVE queue'[c] = <<>>
    <3>1. pool[c] = "freed"
      <4>1. ASSUME NEW d \in Context, Shuts(a, d) PROVE pool[c] = "freed"
        BY <1>a, <4>1 DEF Typed, Shuts, ClosePool, Set
      <4> QED
        BY <1>2, <2>2, <4>1, PoolSteps
    <3>2. ASSUME NEW o \in Op, NEW d \in Context, Accept(a, o, d)
          PROVE  queue'[c] = queue[c]
      <4>1. d = on[a] /\ pc[a] = "submit" /\ queue' = [queue EXCEPT ![d] = Append(queue[d], o)]
        BY <3>2 DEF Accept, Claims, Set
      <4>2. pool[d] = "open"
        BY <1>a, <4>1 DEF InSection, Sound, Submits
      <4> QED
        BY <1>a, <3>1, <4>1, <4>2 DEF Typed
    <3>3. CASE \/ Quiet(a) \/ GiveBack(a) \/ Forget(a)
               \/ \E o \in Op, d \in Context : Refuse(a, o, d)
               \/ a \in Op /\ Python(a)
      <4>1. queue' = queue
        BY <3>3, QuietSteps
        DEF GiveBack, Forget, Refuse, Python, Publish, CallbackReturns, ReleaseContext,
            ReleaseOperation, context
      <4> QED
        BY <1>1, <3>1, <4>1
    <3> QED
      BY <1>1, <1>2, <3>1, <3>2, <3>3 DEF TakesGil, SubmitStep, Quiet
  <2> QED
    BY <2>1, <2>2
<1>3. ASSUME NEW d \in Context, Start(d) PROVE queue'[c] = <<>>
  <2>1. pool' = pool /\ queue' = [queue EXCEPT ![d] = Tail(queue[d])] /\ queue[d] # <<>>
    BY <1>3 DEF Start, Serves, Set
  <2>2. queue[c] = <<>> /\ c # d
    BY <2>1 DEF Drained
  <2> QED
    BY <1>a, <2>1, <2>2 DEF Typed
<1>4. CASE (\E o \in Op : Perform(o)) \/ UNCHANGED vars
  BY <1>1, <1>4 DEF Perform, context, vars
<1> QED
  BY <1>2, <1>3, <1>4, NextSteps

-----------------------------------------------------------------------------
(* What TaskPool sees of a Context: what runs, what has returned, and how  *)
(* far the shutdown has got.                                               *)
Over(c) == {o \in Op : home[o] = c /\ stage[o] = "over"}
Mode(c) ==
  IF pool[c] = "open" THEN "open" ELSE IF pool[c] = "freed" THEN "gone" ELSE "graceful"
SameWork(c) == RunsIn(c)' = RunsIn(c) /\ Over(c)' = Over(c)

LEMMA PoolStutters ==
  ASSUME NEW c \in Context, SameWork(c), queue'[c] = queue[c], pool'[c] = pool[c]
  PROVE  UNCHANGED Pool(c)!vars
BY DEF SameWork, Over, Pool!vars

(* A worker that goes on, short of its end, is still running.              *)
LEMMA WorkGoesOn ==
  ASSUME home' = home,
         \A o \in Op : /\ stage'[o] \in Busy <=> stage[o] \in Busy
                       /\ stage'[o] = "over" <=> stage[o] = "over"
  PROVE  \A c \in Context : SameWork(c)
BY DEF SameWork, RunsIn, Over

LEMMA StepsOfWork ==
  ASSUME DispatchInvariant, NEW a \in Actor, TakesGil(a),
         ~ \E o \in Op, c \in Context : Accept(a, o, c), ~(a \in Op /\ ReleaseOperation(a))
  PROVE  queue' = queue /\ \A c \in Context : SameWork(c)
<1>a. Typed
  BY DEF DispatchInvariant
<1>1. ASSUME UNCHANGED workers PROVE \A c \in Context : SameWork(c)
  BY <1>1, WorkGoesOn DEF workers
<1>2. CASE Quiet(a)
  BY <1>1, <1>2, QuietSteps
<1>3. CASE GiveBack(a) \/ Forget(a) \/ \E o \in Op, c \in Context : Refuse(a, o, c)
  <2>1. queue' = queue /\ UNCHANGED workers
    BY <1>3 DEF GiveBack, Forget, Refuse, context
  <2> QED
    BY <1>1, <2>1
<1>4. CASE a \in Op /\ (Publish(a) \/ CallbackReturns(a) \/ ReleaseContext(a))
  <2>1. /\ queue' = queue /\ home' = home
        /\ stage[a] \in {"performed", "callback", "release"}
        /\ \E s \in {"callback", "release", "drop"} : stage' = [stage EXCEPT ![a] = s]
    BY <1>4 DEF Publish, CallbackReturns, ReleaseContext, Set, context
  <2>2. \A o \in Op : /\ stage'[o] \in Busy <=> stage[o] \in Busy
                      /\ stage'[o] = "over" <=> stage[o] = "over"
    BY <1>a, <1>4, <2>1 DEF Typed, Busy
  <2> QED
    BY <2>1, <2>2, WorkGoesOn
<1> QED
  BY <1>2, <1>3, <1>4 DEF TakesGil, SubmitStep, Python, Quiet

(* threadpool_add is called on an open pool only, and adds what is new.    *)
LEMMA AcceptUses ==
  ASSUME DispatchInvariant, NEW a \in Actor, NEW o \in Op, NEW d \in Context,
         Accept(a, o, d), NEW c \in Context
  PROVE  Pool(c)!Accept(o) \/ UNCHANGED Pool(c)!vars
<1> USE AioAssumption
<1>a. Typed /\ InSection /\ Queued /\ Stages
  BY DEF DispatchInvariant
<1>1. /\ stage[o] = "new" /\ home[o] = NoContext /\ pool[d] = "open"
      /\ Len(queue[d]) < QueueSize
  BY <1>a, ClaimedIsNew DEF Stages, InSection, Sound, Submits, Accept, Room
<1>2. /\ queue' = [queue EXCEPT ![d] = Append(queue[d], o)] /\ pool' = pool
      /\ stage' = [stage EXCEPT ![o] = "queued"]
      /\ home' = [home EXCEPT ![o] = d]
  BY DEF Accept, Set
<1>3. SameWork(c)
  BY <1>a, <1>1, <1>2 DEF Typed, SameWork, RunsIn, Over, Busy
<1>4. CASE d = c
  <2>1. queue'[c] = Append(queue[c], o)
    BY <1>a, <1>2, <1>4 DEF Typed
  <2>2. \A i \in DOMAIN queue[c] : stage[queue[c][i]] = "queued"
    BY <1>a DEF Typed, Queued
  <2>3. o \notin {queue[c][i] : i \in DOMAIN queue[c]} \cup RunsIn(c) \cup Over(c)
    BY <1>1, <2>2 DEF RunsIn, Over, Busy
  <2>4. Pool(c)!Accept(o)
    BY <1>1, <1>2, <1>3, <1>4, <2>1, <2>3 DEF Pool!Accept, Pool!Waiting, SameWork, Over
  <2> QED
    BY <2>4
<1>5. CASE d # c
  <2>1. queue'[c] = queue[c]
    BY <1>a, <1>2, <1>5 DEF Typed
  <2> QED
    BY <1>2, <1>3, <2>1, PoolStutters
<1> QED
  BY <1>4, <1>5

(* A pool takes its oldest Operation while it is there to take it.         *)
LEMMA StartUses ==
  ASSUME DispatchInvariant, Drained, NEW d \in Context, Start(d), NEW c \in Context
  PROVE  Pool(c)!Start \/ UNCHANGED Pool(c)!vars
<1>a. Typed
  BY DEF DispatchInvariant
<1>1. PICK o \in Op : o = Head(queue[d]) /\ stage[o] = "queued" /\ home[o] = d
  BY OldestQueued
<1>2. /\ queue' = [queue EXCEPT ![d] = Tail(queue[d])] /\ pool' = pool
      /\ stage' = [stage EXCEPT ![o] = "started"] /\ home' = home
      /\ queue[d] # <<>> /\ Cardinality(RunsIn(d)) < PoolSize
  BY <1>1 DEF Start, Serves, Set
<1>3. stage'[o] = "started" /\ \A p \in Op \ {o} : stage'[p] = stage[p]
  BY <1>a, <1>2 DEF Typed
<1>4. Over(c)' = Over(c)
  BY <1>1, <1>2, <1>3 DEF Over
<1>5. CASE d = c
  <2>1. queue'[c] = Tail(queue[c]) /\ RunsIn(c)' = RunsIn(c) \cup {Head(queue[c])}
    BY <1>a, <1>1, <1>2, <1>3, <1>5 DEF Typed, RunsIn, Busy
  <2>2. pool[c] # "freed" /\ queue[c] # <<>> /\ Cardinality(RunsIn(c)) < PoolSize
    BY <1>2, <1>5 DEF Drained
  <2>3. pool'[c] = pool[c]
    BY <1>2
  <2>4. Pool(c)!Cardinality(RunsIn(c)) = Cardinality(RunsIn(c))
    BY Zenon DEF Pool!Cardinality, Cardinality
  <2>5. Pool(c)!Start
    BY <1>4, <2>1, <2>2, <2>3, <2>4 DEF Pool!Start, Over
  <2> QED
    BY <2>5
<1>6. CASE d # c
  <2>1. queue'[c] = queue[c] /\ RunsIn(c)' = RunsIn(c)
    BY <1>a, <1>1, <1>2, <1>3, <1>6 DEF Typed, RunsIn, Busy
  <2> QED
    BY <1>2, <1>4, <2>1, PoolStutters DEF SameWork
<1> QED
  BY <1>5, <1>6

(* worker() returns to it.                                                 *)
LEMMA FinishUses ==
  ASSUME DispatchInvariant, NEW o \in Op, ReleaseOperation(o), NEW c \in Context
  PROVE  Pool(c)!Finish(o) \/ UNCHANGED Pool(c)!vars
<1>a. Typed
  BY DEF DispatchInvariant
<1>1. /\ stage[o] = "drop" /\ stage' = [stage EXCEPT ![o] = "over"]
      /\ UNCHANGED <<queue, pool, home>>
  BY DEF ReleaseOperation, Set, context
<1>2. stage'[o] = "over" /\ \A p \in Op \ {o} : stage'[p] = stage[p]
  BY <1>a, <1>1 DEF Typed
<1>3. CASE home[o] = c
  <2>1. /\ o \in RunsIn(c) /\ RunsIn(c)' = RunsIn(c) \ {o}
        /\ Over(c)' = Over(c) \cup {o}
    BY <1>1, <1>2, <1>3 DEF RunsIn, Over, Busy
  <2>2. Pool(c)!Finish(o)
    BY <1>1, <2>1 DEF Pool!Finish, Over
  <2> QED
    BY <2>2
<1>4. CASE home[o] # c
  <2>1. SameWork(c)
    BY <1>1, <1>2, <1>4 DEF SameWork, RunsIn, Over, Busy
  <2> QED
    BY <1>1, <2>1, PoolStutters
<1> QED
  BY <1>3, <1>4

(* threadpool_destroy is called on an open pool.                           *)
LEMMA ShutUses ==
  ASSUME Typed, NEW a \in Actor, NEW d \in Context, Shuts(a, d), NEW c \in Context,
         queue' = queue, SameWork(c)
  PROVE  Pool(c)!Close("graceful") \/ UNCHANGED Pool(c)!vars
<1>1. pool[d] = "open" /\ pool' = [pool EXCEPT ![d] = "draining"]
  BY DEF Shuts, ClosePool, Set
<1>2. CASE d = c
  <2>1. pool'[c] = "draining"
    BY <1>1, <1>2 DEF Typed
  <2>2. Pool(c)!Close("graceful")
    BY <1>1, <1>2, <2>1 DEF Pool!Close, SameWork, Over
  <2> QED
    BY <2>2
<1>3. CASE d # c
  BY <1>1, <1>3, PoolStutters DEF Typed
<1> QED
  BY <1>2, <1>3

(* It frees a pool when nothing is left of its work.                       *)
LEMMA DestroyUses ==
  ASSUME DispatchInvariant, Destroying, NEW a \in Actor, DestroyReturn(a),
         NEW c \in Context, queue' = queue, SameWork(c)
  PROVE  Pool(c)!Vanish \/ UNCHANGED Pool(c)!vars
<1>a. Typed /\ InSection
  BY DEF DispatchInvariant
<1>1. PICK d \in Context : d = on[a]
  BY <1>a DEF DestroyReturn, InSection, Sound
<1>2. /\ pool[d] = "draining"
      /\ RunsIn(d) \subseteq {a} /\ (queue[d] = <<>> \/ a \in RunsIn(d))
      /\ pool' = [pool EXCEPT ![d] = IF a \in RunsIn(d) THEN "leaked" ELSE "freed"]
  BY <1>1 DEF DestroyReturn, Destroying, Destroys, Set
<1>3. CASE d = c /\ a \notin RunsIn(d)
  <2>1. pool'[c] = "freed" /\ RunsIn(c) = {} /\ queue[c] = <<>>
    BY <1>a, <1>2, <1>3 DEF Typed
  <2>2. Pool(c)!Vanish
    BY <1>2, <1>3, <2>1 DEF Pool!Vanish, SameWork, Over
  <2> QED
    BY <2>2
<1>4. CASE d = c /\ a \in RunsIn(d)
  <2>1. pool'[c] = "leaked"
    BY <1>a, <1>2, <1>4 DEF Typed
  <2> QED
    BY <1>2, <1>4, <2>1 DEF Pool!vars, SameWork, Over
<1>5. CASE d # c
  <2>1. pool'[c] = pool[c]
    BY <1>a, <1>2, <1>5 DEF Typed
  <2> QED
    BY <2>1, PoolStutters
<1> QED
  BY <1>3, <1>4, <1>5

LEMMA NextUses ==
  ASSUME DispatchInvariant, Destroying, Drained, [Next]_vars, NEW c \in Context
  PROVE  Pool(c)!Next \/ UNCHANGED Pool(c)!vars
<1> DEFINE Goal == Pool(c)!Next \/ UNCHANGED Pool(c)!vars
<1>a. Typed
  BY DEF DispatchInvariant
<1>1. ASSUME NEW a \in Actor, TakesGil(a) PROVE Goal
  <2>1. ASSUME NEW o \in Op, NEW d \in Context, Accept(a, o, d) PROVE Goal
    BY <2>1, AcceptUses DEF Pool!Next
  <2>2. CASE a \in Op /\ ReleaseOperation(a)
    BY <2>2, FinishUses DEF Pool!Next
  <2>3. CASE /\ ~ \E o \in Op, d \in Context : Accept(a, o, d)
             /\ ~(a \in Op /\ ReleaseOperation(a))
    <3>1. queue' = queue /\ SameWork(c)
      BY <1>1, <2>3, StepsOfWork
    <3>2. ASSUME NEW d \in Context, Shuts(a, d) PROVE Goal
      BY <1>a, <3>1, <3>2, ShutUses DEF Pool!Next
    <3>3. CASE DestroyReturn(a)
      BY <3>1, <3>3, DestroyUses DEF Pool!Next
    <3>4. CASE pool' = pool
      BY <3>1, <3>4, PoolStutters
    <3> QED
      BY <1>1, <3>2, <3>3, <3>4, PoolSteps
  <2> QED
    BY <2>1, <2>2, <2>3
<1>2. ASSUME NEW d \in Context, Start(d) PROVE Goal
  BY <1>2, StartUses DEF Pool!Next
<1>3. ASSUME NEW o \in Op, Perform(o) PROVE Goal
  <2>1. /\ stage[o] = "started" /\ stage' = [stage EXCEPT ![o] = "performed"]
        /\ UNCHANGED <<queue, pool, home>>
    BY <1>3 DEF Perform, Set, context
  <2>2. \A p \in Op : /\ stage'[p] \in Busy <=> stage[p] \in Busy
                      /\ stage'[p] = "over" <=> stage[p] = "over"
    BY <1>a, <2>1 DEF Typed, Busy
  <2> QED
    BY <2>1, <2>2, WorkGoesOn, PoolStutters
<1>4. CASE UNCHANGED vars
  <2>1. UNCHANGED <<queue, pool, workers>>
    BY <1>4 DEF vars, context
  <2>2. SameWork(c)
    BY <2>1, WorkGoesOn DEF workers
  <2> QED
    BY <2>1, <2>2, PoolStutters
<1> QED
  BY <1>1, <1>2, <1>3, <1>4, NextSteps

(* On any build, every Context uses its pool as TaskPool, which ThreadPool *)
(* implements, allows it: threadpool_add is called on no pool that has     *)
(* been shut down, however submit(), close() and dealloc of different      *)
(* threads and callbacks meet, threadpool_destroy is called once, and a    *)
(* pool is freed when no worker can still reach it.                        *)
THEOREM ContextsKeepToTheirPools == Spec => ImplementsTaskPool
<1> DEFINE Inv == DispatchInvariant /\ Destroying /\ Drained
           Uses == \A c \in Context : Pool(c)!Next \/ UNCHANGED Pool(c)!vars
<1>1. Init => Inv
  <2>1. Init => Destroying
    BY DEF Init, Destroying, Destroys
  <2>2. Init => Drained
    BY DEF Init, InitContext, Drained
  <2> QED
    BY <2>1, <2>2, InitDispatch
<1>2. Inv /\ [Next]_vars => Inv'
  <2>1. DispatchInvariant /\ [Next]_vars => DispatchInvariant'
    BY NextTyped, NextInSection, NextCallers, NextStages, NextClaimants, NextQueued
    DEF DispatchInvariant
  <2> QED
    BY <2>1, NextDestroying, NextDrained
<1>3. Inv /\ [Next]_vars => Uses
  BY NextUses
<1>4. Init => \A c \in Context : Pool(c)!Init
  <2> SUFFICES ASSUME Init, NEW c \in Context PROVE Pool(c)!Init
    OBVIOUS
  <2>1. /\ queue[c] = <<>> /\ pool[c] = "open" /\ RunsIn(c) = {}
        /\ {o \in Op : home[o] = c /\ stage[o] = "over"} = {}
    BY AioAssumption DEF Init, InitContext, InitOperation, RunsIn, Busy
  <2> QED
    BY <2>1 DEF Pool!Init
<1> QED
  BY <1>1, <1>2, <1>3, <1>4, PTL DEF Spec, ImplementsTaskPool
=============================================================================
