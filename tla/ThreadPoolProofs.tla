-------------------------- MODULE ThreadPoolProofs --------------------------
(***************************************************************************)
(* Theorems about ThreadPool, for every number of threads, queue size, set *)
(* of tasks and set of callers.                                            *)
(*                                                                         *)
(* PoolInvariant is inductive: TypeOK alone is not, because a counter      *)
(* stays in its range only if it counts what it stands for (Counting), a   *)
(* thread index only if creation is in step with it (Creation), and a      *)
(* taken task is a task only if the slots between head and tail hold some  *)
(* (RingFilled).                                                           *)
(***************************************************************************)
EXTENDS ThreadPool, FiniteSetTheorems, TLAPS

Live == {w \in Worker : pc[w] \notin {"unborn", "exited"}}

(* The workers below thread_count were born; shutdown and its aftermath    *)
(* come after creation.                                                    *)
Creation ==
  /\ phase = "creating" => thread_count < ThreadCount /\ shutdown = "no"
  /\ phase = "ready" => thread_count = ThreadCount
  /\ phase = "failed" => shutdown = "immediate"
  /\ \A w \in Worker : pc[w] = "unborn" <=> w >= thread_count
  /\ \A w \in Worker : pc[w] = "exited" => shutdown # "no"
  /\ destroyer # NoThread \/ freed => shutdown # "no"
  /\ joining <= thread_count

Counting == started = Cardinality(Live)

(* tail is count slots after head, and the slots between them hold tasks.  *)
RingFilled ==
  /\ tail = IF head + count < QueueSize THEN head + count
            ELSE head + count - QueueSize
  /\ \A s \in Slot : Queued(s) => queue[s] \in Task
  /\ \A w \in Worker : pc[w] = "run" => task[w] \in Task

PoolInvariant == TypeOK /\ Creation /\ Counting /\ RingFilled

-----------------------------------------------------------------------------
(* The slot after s, without the modulus.                                  *)
LEMMA AfterSlot ==
  ASSUME NEW s \in Slot
  PROVE  After(s) = (IF s + 1 = QueueSize THEN 0 ELSE s + 1)
BY SizeAssumption, SMT DEF After, Slot

(* The workers are finitely many, and so is any set of them.               *)
LEMMA FiniteWorkers ==
  ASSUME NEW S \in SUBSET Worker
  PROVE  /\ IsFiniteSet(S)
         /\ Cardinality(S) \in Nat
         /\ Cardinality(S) <= ThreadCount
         /\ S = {} <=> Cardinality(S) = 0
         /\ \A w \in Worker \ S : Cardinality(S \cup {w}) = Cardinality(S) + 1
         /\ \A w \in S : Cardinality(S \ {w}) = Cardinality(S) - 1
<1>1. IsFiniteSet(Worker) /\ Cardinality(Worker) = ThreadCount
  <2>1. 0 \in Int /\ ThreadCount - 1 \in Int
    BY SizeAssumption
  <2>2. IsFiniteSet(Worker)
    BY <2>1, FS_Interval DEF Worker
  <2>3. Cardinality(Worker) = (IF 0 > ThreadCount - 1 THEN 0
                               ELSE (ThreadCount - 1) - 0 + 1)
    BY <2>1, FS_Interval DEF Worker
  <2> QED
    BY <2>2, <2>3, SizeAssumption
<1>2. IsFiniteSet(S) /\ Cardinality(S) <= Cardinality(Worker)
  BY <1>1, FS_Subset
<1>3. Cardinality(S) \in Nat
  BY <1>2, FS_CardinalityType
<1>4. S = {} <=> Cardinality(S) = 0
  BY <1>2, FS_EmptySet
<1>5. \A w \in Worker \ S : Cardinality(S \cup {w}) = Cardinality(S) + 1
  BY <1>2, FS_AddElement
<1>6. \A w \in S : Cardinality(S \ {w}) = Cardinality(S) - 1
  BY <1>2, FS_RemoveElement
<1> QED
  BY <1>1, <1>2, <1>3, <1>4, <1>5, <1>6

-----------------------------------------------------------------------------
(* threadpool_create starts from a pool that satisfies it.                 *)
LEMMA InitInvariant == Init => PoolInvariant
<1> SUFFICES ASSUME Init PROVE PoolInvariant
  OBVIOUS
<1> USE SizeAssumption, NameAssumption DEF Init
<1>1. TypeOK
  <2>1. joinFailed \in BOOLEAN /\ freed \in BOOLEAN
    BY Zenon
  <2>2. /\ thread_count \in 0 .. ThreadCount /\ started \in 0 .. ThreadCount
        /\ head \in Slot /\ tail \in Slot /\ count \in 0 .. QueueSize
        /\ joining \in 0 .. ThreadCount
    BY DEF Slot
  <2> QED
    BY <2>1, <2>2 DEF TypeOK
<1>2. Creation
  BY DEF Creation, Worker
<1>3. Counting
  <2>1. Live = {}
    BY DEF Live
  <2> QED
    BY <2>1, FS_EmptySet DEF Counting
<1>4. RingFilled
  BY DEF RingFilled, Queued, Slot, Worker
<1> QED
  BY <1>1, <1>2, <1>3, <1>4 DEF PoolInvariant

(* Every step of the pool, of its workers and of its callers preserves the *)
(* invariant.                                                              *)
LEMMA NextInvariant == PoolInvariant /\ [Next]_vars => PoolInvariant'
<1> SUFFICES ASSUME PoolInvariant, [Next]_vars PROVE PoolInvariant'
  OBVIOUS
<1> USE SizeAssumption, NameAssumption DEF PoolInvariant
<1>1. CASE CreateThread
  <2> USE DEF CreateThread, vars, ring, creation, destruction
  <2>1. Creation'
    BY <1>1 DEF TypeOK, Creation, Worker
  <2>2. Counting' /\ started' \in 0 .. ThreadCount
    <3>1. Live \in SUBSET Worker /\ Live' \in SUBSET Worker
      BY DEF Live
    <3>2. thread_count \in Worker \ Live
      BY <1>1 DEF TypeOK, Creation, Live, Worker
    <3>3. Live' = Live \cup {thread_count}
      BY <1>1, <3>2 DEF TypeOK, Live
    <3>4. Cardinality(Live') = Cardinality(Live) + 1
      BY <3>1, <3>2, <3>3, FiniteWorkers
    <3>5. Cardinality(Live') \in Nat /\ Cardinality(Live') <= ThreadCount
      BY <3>1, FiniteWorkers
    <3> QED
      BY <1>1, <3>4, <3>5 DEF Counting
  <2>3. TypeOK'
    <3>1. thread_count' \in 0 .. ThreadCount
      BY <1>1 DEF TypeOK, Creation
    <3>2. pc' \in [Worker -> {"unborn", "lock", "wait", "run", "exited"}]
      BY <1>1 DEF TypeOK
    <3> QED
      BY <1>1, <2>2, <3>1, <3>2 DEF TypeOK
  <2>4. RingFilled'
    BY <1>1 DEF TypeOK, RingFilled, Queued, Slot
  <2> QED
    BY <2>1, <2>2, <2>3, <2>4
<1>2. ASSUME NEW c \in Caller, CreateFails(c) PROVE PoolInvariant'
  <2> USE DEF CreateFails, BeginShutdown, Broadcast, vars, ring, creation, destruction
  <2>1. TypeOK'
    BY <1>2, AfterSlot, FiniteWorkers DEF TypeOK, Creation, Counting, RingFilled, Slot, Thread, Worker
  <2>2. Creation'
    BY <1>2 DEF TypeOK, Creation, Worker
  <2>3. Counting'
    BY <1>2, FiniteWorkers DEF TypeOK, Creation, Counting, Live, Worker
  <2>4. RingFilled'
    BY <1>2, AfterSlot DEF TypeOK, RingFilled, Queued, Slot
  <2> QED
    BY <2>1, <2>2, <2>3, <2>4
<1>3. ASSUME NEW t \in Task, Add(t) PROVE PoolInvariant'
  <2> USE DEF Add, Signal, vars, ring, creation, destruction
  <2>1. CASE Full \/ ~Open
    <3>1. UNCHANGED <<ring, pc, lock, creation, started, shutdown, task,
                      destruction, finished>>
      BY <1>3, <2>1
    <3>2. result' \in [Task -> {"none", "ok", "full", "shutdown"}]
      BY <1>3, <2>1 DEF TypeOK
    <3>3. TypeOK'
      BY <3>1, <3>2 DEF TypeOK
    <3> QED
      BY <3>1, <3>3 DEF Creation, Counting, Live, RingFilled, Queued
  <2>2. CASE ~Full /\ Open
    <3>1. /\ queue' = [queue EXCEPT ![tail] = t]
          /\ tail' = After(tail)
          /\ count' = count + 1
          /\ result' = [result EXCEPT ![t] = "ok"]
          /\ UNCHANGED <<head, lock, creation, started, shutdown, task,
                         destruction, finished>>
      BY <1>3, <2>2
    <3>2. count' \in 0 .. QueueSize
      BY <2>2, <3>1 DEF TypeOK, Full
    <3>3. /\ pc' \in [Worker -> {"unborn", "lock", "wait", "run", "exited"}]
          /\ \A w \in Worker :
               pc'[w] = pc[w] \/ (pc[w] = "wait" /\ pc'[w] = "lock")
      <4>1. CASE Sleeping = {}
        BY <1>3, <2>2, <4>1 DEF TypeOK
      <4>2. CASE \E v \in Sleeping : pc' = [pc EXCEPT ![v] = "lock"]
        BY <4>2 DEF TypeOK, Sleeping
      <4> QED
        BY <1>3, <2>2, <4>1, <4>2
    <3>4. tail' = (IF tail + 1 = QueueSize THEN 0 ELSE tail + 1)
      BY <3>1, AfterSlot DEF TypeOK
    <3>5. TypeOK'
      <4>1. tail' \in Slot
        BY <3>4 DEF TypeOK, Slot
      <4>2. queue' \in [Slot -> Task \cup {NoTask}]
        BY <3>1 DEF TypeOK
      <4>3. result' \in [Task -> {"none", "ok", "full", "shutdown"}]
        BY <3>1 DEF TypeOK
      <4> QED
        BY <3>1, <3>2, <3>3, <4>1, <4>2, <4>3 DEF TypeOK
    <3>6. Creation'
      BY <3>1, <3>3 DEF Creation
    <3>7. Counting'
      <4>1. Live' = Live
        BY <3>3 DEF Live
      <4> QED
        BY <3>1, <4>1 DEF Counting
    <3>8. RingFilled'
      <4>1. \A s \in Slot : Queued(s)' => s = tail \/ Queued(s)
        BY <2>2, <3>1 DEF TypeOK, RingFilled, Queued, Slot, Full
      <4>2. \A s \in Slot : Queued(s)' => queue'[s] \in Task
        BY <3>1, <4>1 DEF TypeOK, RingFilled
      <4>3. \A w \in Worker : pc'[w] = "run" => task'[w] \in Task
        BY <3>1, <3>3 DEF RingFilled
      <4>4. tail' = IF head' + count' < QueueSize THEN head' + count'
                    ELSE head' + count' - QueueSize
        BY <2>2, <3>1, <3>4 DEF TypeOK, RingFilled, Slot, Full
      <4> QED
        BY <4>2, <4>3, <4>4 DEF RingFilled
    <3> QED
      BY <3>5, <3>6, <3>7, <3>8
  <2> QED
    BY <2>1, <2>2
<1>4. ASSUME NEW d \in Thread, NEW flag \in {"graceful", "immediate"},
             DestroyFirst(d, flag)
      PROVE  PoolInvariant'
  <2> USE DEF DestroyFirst, MayDestroy, BeginShutdown, Broadcast, vars, ring, creation, destruction
  <2>1. TypeOK'
    BY <1>4, AfterSlot, FiniteWorkers DEF TypeOK, Creation, Counting, RingFilled, Slot, Thread, Worker
  <2>2. Creation'
    BY <1>4 DEF TypeOK, Creation, Worker
  <2>3. Counting'
    BY <1>4, FiniteWorkers DEF TypeOK, Creation, Counting, Live, Worker
  <2>4. RingFilled'
    BY <1>4, AfterSlot DEF TypeOK, RingFilled, Queued, Slot
  <2> QED
    BY <2>1, <2>2, <2>3, <2>4
<1>5. ASSUME NEW d \in Thread, DestroyAgain(d) PROVE PoolInvariant'
  <2> USE DEF DestroyAgain, vars, ring, creation, destruction
  <2>1. TypeOK'
    BY <1>5, AfterSlot, FiniteWorkers DEF TypeOK, Creation, Counting, RingFilled, Slot, Thread, Worker
  <2>2. Creation'
    BY <1>5 DEF TypeOK, Creation, Worker
  <2>3. Counting'
    BY <1>5, FiniteWorkers DEF TypeOK, Creation, Counting, Live, Worker
  <2>4. RingFilled'
    BY <1>5, AfterSlot DEF TypeOK, RingFilled, Queued, Slot
  <2> QED
    BY <2>1, <2>2, <2>3, <2>4
<1>6. CASE JoinNext
  <2> USE DEF JoinNext, vars, ring, creation, destruction
  <2>1. TypeOK'
    BY <1>6, AfterSlot, FiniteWorkers DEF TypeOK, Creation, Counting, RingFilled, Slot, Thread, Worker
  <2>2. Creation'
    BY <1>6 DEF TypeOK, Creation, Worker
  <2>3. Counting'
    BY <1>6, FiniteWorkers DEF TypeOK, Creation, Counting, Live, Worker
  <2>4. RingFilled'
    BY <1>6, AfterSlot DEF TypeOK, RingFilled, Queued, Slot
  <2> QED
    BY <2>1, <2>2, <2>3, <2>4
<1>7. CASE DestroyReturn
  <2> USE DEF DestroyReturn, vars, ring, creation, destruction
  <2>1. TypeOK'
    BY <1>7, AfterSlot, FiniteWorkers DEF TypeOK, Creation, Counting, RingFilled, Slot, Thread, Worker
  <2>2. Creation'
    BY <1>7 DEF TypeOK, Creation, Worker
  <2>3. Counting'
    BY <1>7, FiniteWorkers DEF TypeOK, Creation, Counting, Live, Worker
  <2>4. RingFilled'
    BY <1>7, AfterSlot DEF TypeOK, RingFilled, Queued, Slot
  <2> QED
    BY <2>1, <2>2, <2>3, <2>4
<1>8. ASSUME NEW w \in Worker, Wait(w) PROVE PoolInvariant'
  <2> USE DEF Wait, Owns, vars, ring, creation, destruction
  <2>1. TypeOK'
    BY <1>8, AfterSlot, FiniteWorkers DEF TypeOK, Creation, Counting, RingFilled, Slot, Thread, Worker
  <2>2. Creation'
    BY <1>8 DEF TypeOK, Creation, Worker
  <2>3. Counting'
    BY <1>8, FiniteWorkers DEF TypeOK, Creation, Counting, Live, Worker
  <2>4. RingFilled'
    BY <1>8, AfterSlot DEF TypeOK, RingFilled, Queued, Slot
  <2> QED
    BY <2>1, <2>2, <2>3, <2>4
<1>9. ASSUME NEW w \in Worker, Exit(w) PROVE PoolInvariant'
  <2> USE DEF Exit, Owns, MustExit, vars, ring, creation, destruction
  <2>1. Creation'
    BY <1>9 DEF TypeOK, Creation, Worker
  <2>2. Counting' /\ started' \in 0 .. ThreadCount
    <3>1. Live \in SUBSET Worker /\ Live' \in SUBSET Worker
      BY DEF Live
    <3>2. w \in Live /\ Live' = Live \ {w}
      BY <1>9 DEF TypeOK, Live
    <3>3. Cardinality(Live') = Cardinality(Live) - 1
      BY <3>1, <3>2, FiniteWorkers
    <3>4. Cardinality(Live') \in Nat /\ Cardinality(Live') <= ThreadCount
      BY <3>1, FiniteWorkers
    <3>5. started \in Int
      BY DEF TypeOK
    <3> QED
      BY <1>9, <3>3, <3>4, <3>5 DEF Counting
  <2>3. TypeOK'
    BY <1>9, <2>2 DEF TypeOK
  <2>4. RingFilled'
    BY <1>9 DEF TypeOK, RingFilled, Queued, Slot
  <2> QED
    BY <2>1, <2>2, <2>3, <2>4
<1>10. ASSUME NEW w \in Worker, Take(w) PROVE PoolInvariant'
  <2> USE DEF Take, Owns, MustExit, MustWait, vars, ring, creation, destruction
  <2>1. TypeOK'
    BY <1>10, AfterSlot, FiniteWorkers DEF TypeOK, Creation, Counting, RingFilled, Slot, Thread, Worker
  <2>2. Creation'
    BY <1>10 DEF TypeOK, Creation, Worker
  <2>3. Counting'
    BY <1>10, FiniteWorkers DEF TypeOK, Creation, Counting, Live, Worker
  <2>4. RingFilled'
    <3>1. /\ count > 0 /\ Queued(head) /\ head \in Slot /\ count \in Nat
          /\ head' = (IF head + 1 = QueueSize THEN 0 ELSE head + 1)
          /\ count' = count - 1 /\ UNCHANGED <<tail, queue>>
      BY <1>10, AfterSlot, SizeAssumption DEF TypeOK, Creation, Queued, Slot
    <3>2. \A s \in Slot : Queued(s)' => Queued(s)
      BY <3>1, SizeAssumption DEF TypeOK, Queued, Slot
    <3>3. tail' = IF head' + count' < QueueSize THEN head' + count'
                  ELSE head' + count' - QueueSize
      BY <3>1, SizeAssumption DEF TypeOK, RingFilled, Slot
    <3>4. queue[head] \in Task
      BY <3>1 DEF RingFilled
    <3>5. \A v \in Worker : pc'[v] = "run" => task'[v] \in Task
      BY <1>10, <3>4 DEF TypeOK, RingFilled
    <3> QED
      BY <3>1, <3>2, <3>3, <3>5 DEF RingFilled
  <2> QED
    BY <2>1, <2>2, <2>3, <2>4
<1>11. ASSUME NEW w \in Worker, Return(w) PROVE PoolInvariant'
  <2> USE DEF Return, vars, ring, creation, destruction
  <2>1. TypeOK'
    BY <1>11, AfterSlot, FiniteWorkers DEF TypeOK, Creation, Counting, RingFilled, Slot, Thread, Worker
  <2>2. Creation'
    BY <1>11 DEF TypeOK, Creation, Worker
  <2>3. Counting'
    BY <1>11, FiniteWorkers DEF TypeOK, Creation, Counting, Live, Worker
  <2>4. RingFilled'
    BY <1>11, AfterSlot DEF TypeOK, RingFilled, Queued, Slot
  <2> QED
    BY <2>1, <2>2, <2>3, <2>4
<1>12. ASSUME NEW w \in Worker, SpuriousWakeup(w) PROVE PoolInvariant'
  <2> USE DEF SpuriousWakeup, vars, ring, creation, destruction
  <2>1. TypeOK'
    BY <1>12, AfterSlot, FiniteWorkers DEF TypeOK, Creation, Counting, RingFilled, Slot, Thread, Worker
  <2>2. Creation'
    BY <1>12 DEF TypeOK, Creation, Worker
  <2>3. Counting'
    BY <1>12, FiniteWorkers DEF TypeOK, Creation, Counting, Live, Worker
  <2>4. RingFilled'
    BY <1>12, AfterSlot DEF TypeOK, RingFilled, Queued, Slot
  <2> QED
    BY <2>1, <2>2, <2>3, <2>4
<1>13. CASE Over \/ UNCHANGED vars
  <2> USE DEF Over, vars, ring, creation, destruction
  <2>1. TypeOK'
    BY <1>13 DEF TypeOK
  <2>2. Creation'
    BY <1>13 DEF TypeOK, Creation, Worker
  <2>3. Counting'
    BY <1>13, FiniteWorkers DEF TypeOK, Creation, Counting, Live, Worker
  <2>4. RingFilled'
    BY <1>13, AfterSlot DEF TypeOK, RingFilled, Queued, Slot
  <2> QED
    BY <2>1, <2>2, <2>3, <2>4
<1> QED
  BY <1>1, <1>2, <1>3, <1>4, <1>5, <1>6, <1>7, <1>8, <1>9, <1>10, <1>11, <1>12, <1>13 DEF Next, WorkerStep

-----------------------------------------------------------------------------
(* The inductive invariant of the pool.                                    *)
THEOREM PoolInvariance == Spec => []PoolInvariant
<1> QED
  BY InitInvariant, NextInvariant, PTL DEF Spec

(* Every variable of the pool keeps its type: the counters stay in range   *)
(* and head and tail stay inside the array.                                *)
THEOREM TypeCorrect == Spec => []TypeOK
<1>1. PoolInvariant => TypeOK
  BY DEF PoolInvariant
<1> QED
  BY PoolInvariance, <1>1, PTL

-----------------------------------------------------------------------------
(* Moving one worker from asleep to awake, when nothing else changes.      *)
LEMMA OneAwakes ==
  ASSUME pc \in [Worker -> {"unborn", "lock", "wait", "run", "exited"}],
         NEW w \in Worker, pc[w] # "lock",
         pc' = [pc EXCEPT ![w] = "lock"]
  PROVE  Cardinality(Awake)' = Cardinality(Awake) + 1
<1>1. Awake \in SUBSET Worker /\ w \in Worker \ Awake
  BY DEF Awake
<1>2. Awake' = Awake \cup {w}
  BY DEF Awake
<1> QED
  BY <1>1, <1>2, FiniteWorkers

(* While a worker sleeps, each queued task has an awake worker: Add adds   *)
(* one of both, Take takes one of both, Wait happens only when the queue   *)
(* is empty.                                                               *)
LEMMA NextNoLostWakeup ==
  PoolInvariant /\ NoLostWakeup /\ [Next]_vars => NoLostWakeup'
<1> SUFFICES ASSUME PoolInvariant, NoLostWakeup, [Next]_vars,
                    Sleeping' # {}
             PROVE  /\ shutdown' = "no"
                    /\ count' <= Cardinality(Awake)'
  BY DEF NoLostWakeup
<1> USE SizeAssumption, NameAssumption
<1> DEFINE Goal == shutdown' = "no" /\ count' <= Cardinality(Awake)'
<1>1. /\ pc \in [Worker -> {"unborn", "lock", "wait", "run", "exited"}]
      /\ count \in Nat
      /\ Sleeping # {} => shutdown = "no" /\ count <= Cardinality(Awake)
  BY DEF PoolInvariant, TypeOK, NoLostWakeup
<1>2. Cardinality(Awake) \in Nat /\ Cardinality(Awake)' \in Nat
  <2>1. Awake \in SUBSET Worker /\ Awake' \in SUBSET Worker
    BY DEF Awake
  <2> QED
    BY <2>1, FiniteWorkers
<1>3. ASSUME UNCHANGED <<pc, count, shutdown>> PROVE Goal
  <2>1. Sleeping' = Sleeping /\ Awake' = Awake
    BY <1>3 DEF Sleeping, Awake
  <2> QED
    BY <1>1, <1>3, <2>1
<1>4. CASE CreateThread
  <2>1. /\ thread_count \in Worker /\ pc[thread_count] = "unborn"
        /\ pc' = [pc EXCEPT ![thread_count] = "lock"]
        /\ UNCHANGED <<count, shutdown>>
    BY <1>4 DEF PoolInvariant, TypeOK, Creation, Worker, CreateThread, ring
  <2>2. Sleeping' = Sleeping
    BY <1>1, <2>1 DEF Sleeping
  <2>3. Cardinality(Awake)' = Cardinality(Awake) + 1
    BY <1>1, <2>1, OneAwakes
  <2> QED
    BY <1>1, <1>2, <2>1, <2>2, <2>3
<1>5. ASSUME Broadcast PROVE Goal
  <2>1. Sleeping' = {}
    BY <1>1, <1>5 DEF Sleeping, Broadcast
  <2> QED
    BY <2>1
<1>6. ASSUME NEW t \in Task, Add(t) PROVE Goal
  <2>1. CASE UNCHANGED <<ring, pc>>
    BY <1>3, <1>6, <2>1 DEF Add, ring
  <2>2. CASE Signal /\ count' = count + 1 /\ shutdown' = shutdown
    <3>1. Sleeping # {}
      BY <1>1, <2>2 DEF Signal, Sleeping
    <3>2. PICK w \in Sleeping : pc' = [pc EXCEPT ![w] = "lock"]
      BY <2>2, <3>1 DEF Signal
    <3>3. Cardinality(Awake)' = Cardinality(Awake) + 1
      BY <1>1, <3>2, OneAwakes DEF Sleeping
    <3> QED
      BY <1>1, <1>2, <2>2, <3>1, <3>3
  <2> QED
    BY <1>6, <2>1, <2>2 DEF Add
<1>7. ASSUME NEW w \in Worker, Wait(w) PROVE Goal
  BY <1>2, <1>7 DEF Wait, MustWait, ring
<1>8. ASSUME NEW w \in Worker, Exit(w) PROVE Goal
  <2>1. Sleeping' = Sleeping /\ shutdown # "no"
    BY <1>1, <1>8 DEF Exit, MustExit, Owns, Sleeping
  <2> QED
    BY <1>1, <2>1
<1>9. ASSUME NEW w \in Worker, Take(w) PROVE Goal
  <2>1. /\ count' = count - 1
        /\ shutdown' = shutdown
        /\ pc[w] = "lock"
        /\ pc' = [pc EXCEPT ![w] = "run"]
    BY <1>9 DEF Take, Owns
  <2>2. Sleeping' = Sleeping
    BY <1>1, <2>1 DEF Sleeping
  <2>3. Awake \in SUBSET Worker /\ w \in Awake /\ Awake' = Awake \ {w}
    BY <1>1, <2>1 DEF Awake
  <2>4. Cardinality(Awake)' = Cardinality(Awake) - 1
    BY <2>3, FiniteWorkers
  <2> QED
    BY <1>1, <1>2, <2>1, <2>2, <2>4
<1>10. ASSUME NEW w \in Worker, Return(w) \/ SpuriousWakeup(w) PROVE Goal
  <2>1. /\ UNCHANGED <<count, shutdown>>
        /\ pc[w] # "lock"
        /\ pc' = [pc EXCEPT ![w] = "lock"]
    BY <1>10 DEF Return, SpuriousWakeup, ring
  <2>2. Sleeping # {}
    BY <1>1, <2>1 DEF Sleeping
  <2>3. Cardinality(Awake)' = Cardinality(Awake) + 1
    BY <1>1, <2>1, OneAwakes
  <2> QED
    BY <1>1, <1>2, <2>1, <2>2, <2>3
<1>11. CASE \/ \E c \in Caller : CreateFails(c)
           \/ \E d \in Thread, flag \in {"graceful", "immediate"} :
                DestroyFirst(d, flag)
  BY <1>5, <1>11 DEF CreateFails, DestroyFirst, BeginShutdown
<1>12. CASE \/ \E d \in Thread : DestroyAgain(d)
           \/ JoinNext \/ DestroyReturn \/ Over \/ UNCHANGED vars
  BY <1>3, <1>12 DEF DestroyAgain, JoinNext, DestroyReturn, Over, vars, ring
<1> QED
  BY <1>4, <1>6, <1>7, <1>8, <1>9, <1>10, <1>11, <1>12 DEF Next, WorkerStep

(* One signal per accepted task is enough for any number of workers and    *)
(* any interleaving of adds, takes and spurious wake-ups, and a shutdown   *)
(* leaves no worker asleep.                                                *)
THEOREM WakeupsAreNotLost == Spec => []NoLostWakeup
<1>1. Init => NoLostWakeup
  BY SizeAssumption DEF Init, NoLostWakeup, Sleeping
<1> QED
  BY <1>1, NextNoLostWakeup, PoolInvariance, PTL DEF Spec

-----------------------------------------------------------------------------
(* What SafeFree needs: nothing that would touch a freed pool is enabled,  *)
(* and threadpool_free has seen started at zero.                           *)
LEMMA NextSafeFree == PoolInvariant /\ SafeFree /\ [Next]_vars => SafeFree'
<1> SUFFICES ASSUME PoolInvariant, SafeFree, [Next]_vars, freed'
             PROVE  /\ \A w \in Worker : pc'[w] \in {"unborn", "exited"}
                    /\ lock' = NoThread
                    /\ destroyer' = NoThread
  BY DEF SafeFree
<1> USE SizeAssumption, NameAssumption
<1> DEFINE Quiet == /\ \A w \in Worker : pc[w] \in {"unborn", "exited"}
                    /\ lock = NoThread
                    /\ destroyer = NoThread
<1>1. freed => Quiet /\ phase # "creating"
  BY DEF SafeFree, PoolInvariant, Creation
<1>2. CASE DestroyReturn /\ ~freed
  <2>1. started = 0 /\ lock' = NoThread /\ destroyer' = NoThread /\ pc' = pc
    BY <1>2 DEF DestroyReturn, MayFree
  <2>2. Live \in SUBSET Worker
    BY DEF Live
  <2>3. Live = {}
    BY <2>1, <2>2, FiniteWorkers DEF PoolInvariant, Counting
  <2> QED
    BY <2>1, <2>3 DEF Live
<1>3. CASE freed
  <2>1. UNCHANGED <<pc, lock, destroyer>>
    BY <1>1, <1>3
    DEF Next, CreateThread, CreateFails, Add, DestroyFirst, DestroyAgain,
        MayDestroy, JoinNext, DestroyReturn, WorkerStep, Wait, Exit, Take,
        Return, SpuriousWakeup, Owns, Over, vars, destruction
  <2> QED
    BY <1>1, <1>3, <2>1
<1>4. CASE ~freed /\ ~DestroyReturn
  BY <1>4
  DEF Next, CreateThread, CreateFails, Add, DestroyFirst, DestroyAgain,
      BeginShutdown, JoinNext, WorkerStep, Wait, Exit, Take,
      Return, SpuriousWakeup, Over, vars, destruction
<1> QED
  BY <1>2, <1>3, <1>4

(* The pool, its mutex and its condition variable outlive every thread     *)
(* that uses them, whoever destroys the pool and however often.            *)
THEOREM FreeIsSafe == Spec => []SafeFree
<1>1. Init => SafeFree
  BY DEF Init, SafeFree
<1> QED
  BY <1>1, NextSafeFree, PoolInvariance, PTL DEF Spec

-----------------------------------------------------------------------------
(* Adding a task puts the slot at tail into the window of queued slots.    *)
LEMMA WindowGrows ==
  ASSUME PoolInvariant, count # QueueSize,
         head' = head, count' = count + 1
  PROVE  /\ ~Queued(tail)
         /\ \A s \in Slot : Queued(s)' <=> Queued(s) \/ s = tail
BY SizeAssumption DEF PoolInvariant, TypeOK, RingFilled, Queued, Slot

(* Taking a task removes the slot at head from the window.                 *)
LEMMA WindowShrinks ==
  ASSUME PoolInvariant, count # 0,
         head' = After(head), count' = count - 1
  PROVE  /\ Queued(head)
         /\ \A s \in Slot : Queued(s)' <=> Queued(s) /\ s # head
<1>1. head' = (IF head + 1 = QueueSize THEN 0 ELSE head + 1)
  BY AfterSlot DEF PoolInvariant, TypeOK
<1> QED
  BY <1>1, SizeAssumption DEF PoolInvariant, TypeOK, Queued, Slot

(* A step of the pool moves a task from one place to the next, never to    *)
(* two places and never out of sight.                                      *)
LEMMA NextHeldOnce == PoolInvariant /\ HeldOnce /\ [Next]_vars => HeldOnce'
<1> SUFFICES ASSUME PoolInvariant, HeldOnce, [Next]_vars PROVE HeldOnce'
  OBVIOUS
<1> USE SizeAssumption, NameAssumption
<1>1. /\ pc \in [Worker -> {"unborn", "lock", "wait", "run", "exited"}]
      /\ task \in [Worker -> Task \cup {NoTask}]
      /\ queue \in [Slot -> Task \cup {NoTask}]
      /\ result \in [Task -> {"none", "ok", "full", "shutdown"}]
      /\ head \in Slot /\ tail \in Slot
  BY DEF PoolInvariant, TypeOK
<1>2. ASSUME UNCHANGED <<ring, task, result, finished>>,
             \A w \in Worker : pc'[w] = "run" <=> pc[w] = "run"
      PROVE  HeldOnce'
  <2>1. Running' = Running
    BY <1>2 DEF Running
  <2>2. \A s \in Slot : Queued(s)' <=> Queued(s)
    BY <1>2 DEF Queued, ring
  <2> QED
    BY <1>2, <2>1, <2>2 DEF HeldOnce, ring
<1>3. ASSUME NEW t \in Task, Add(t) PROVE HeldOnce'
  <2>1. Running' = Running
    BY <1>1, <1>3 DEF Add, Signal, Sleeping, Running
  <2>2. result[t] # "ok" /\ UNCHANGED <<task, finished>>
    BY <1>3 DEF Add
  <2>3. CASE UNCHANGED ring /\ \E r \in {"full", "shutdown"} :
               result' = [result EXCEPT ![t] = r]
    <3>1. \A s \in Slot : Queued(s)' <=> Queued(s)
      BY <2>3 DEF Queued, ring
    <3>2. \A u \in Task : result'[u] = "ok" <=> result[u] = "ok"
      BY <1>1, <2>2, <2>3
    <3>3. /\ \A s \in Slot : Queued(s) => queue[s] \in Task
          /\ \A w \in Running : task[w] \in Task
          /\ finished \in SUBSET Task
      BY DEF HeldOnce, PoolInvariant, TypeOK
    <3> QED
      BY <2>1, <2>2, <2>3, <3>1, <3>2, <3>3 DEF HeldOnce, ring
  <2>4. CASE /\ count # QueueSize
             /\ queue' = [queue EXCEPT ![tail] = t]
             /\ count' = count + 1 /\ head' = head
             /\ result' = [result EXCEPT ![t] = "ok"]
    <3>1. /\ ~Queued(tail)
          /\ \A s \in Slot : Queued(s)' <=> Queued(s) \/ s = tail
      BY <2>4, WindowGrows
    <3>2. /\ queue'[tail] = t
          /\ \A s \in Slot : Queued(s) => queue'[s] = queue[s]
      BY <1>1, <2>4, <3>1
    <3>3. /\ result'[t] = "ok"
          /\ \A u \in Task : u # t => result'[u] = result[u]
      BY <1>1, <2>4
    <3>4. /\ \A s \in Slot : Queued(s) => queue[s] # t
          /\ \A w \in Running : task[w] # t
          /\ t \notin finished
      BY <2>2 DEF HeldOnce
    <3>5. \A s \in Slot : Queued(s)' =>
            /\ queue'[s] \in Task \ finished'
            /\ result'[queue'[s]] = "ok"
            /\ \A r \in Slot : Queued(r)' /\ queue'[r] = queue'[s] => r = s
            /\ \A w \in Running' : task'[w] # queue'[s]
      BY <2>1, <2>2, <3>1, <3>2, <3>3, <3>4 DEF HeldOnce
    <3>6. \A w \in Running' :
            /\ task'[w] \in Task \ finished'
            /\ result'[task'[w]] = "ok"
            /\ \A v \in Running' : task'[v] = task'[w] => v = w
      BY <2>1, <2>2, <3>3, <3>4 DEF HeldOnce
    <3>7. \A u \in finished' : result'[u] = "ok"
      BY <2>2, <3>3, <3>4 DEF HeldOnce, PoolInvariant, TypeOK
    <3>8. \A u \in Task : result'[u] = "ok" =>
            \/ u \in finished'
            \/ \E s \in Slot : Queued(s)' /\ queue'[s] = u
            \/ \E w \in Running' : task'[w] = u
      BY <1>1, <2>1, <2>2, <3>1, <3>2, <3>3 DEF HeldOnce
    <3> QED
      BY <3>5, <3>6, <3>7, <3>8 DEF HeldOnce
  <2> QED
    BY <1>3, <2>3, <2>4 DEF Add, Full, ring
<1>4. ASSUME NEW w \in Worker, Take(w) PROVE HeldOnce'
  <2>1. /\ pc' = [pc EXCEPT ![w] = "run"] /\ pc[w] = "lock"
        /\ task' = [task EXCEPT ![w] = queue[head]]
        /\ head' = After(head) /\ count' = count - 1
        /\ UNCHANGED <<queue, result, finished>>
    BY <1>4 DEF Take, Owns
  <2>2. count # 0
    BY <1>4 DEF Take, MustWait, MustExit, PoolInvariant, TypeOK
  <2>3. /\ Queued(head)
        /\ \A s \in Slot : Queued(s)' <=> Queued(s) /\ s # head
    BY <2>1, <2>2, WindowShrinks
  <2>4. Running' = Running \cup {w} /\ w \notin Running
    BY <1>1, <2>1 DEF Running
  <2>5. task'[w] = queue[head] /\ \A v \in Running : task'[v] = task[v]
    BY <1>1, <2>1, <2>4 DEF Running
  <2>6. \A s \in Slot : Queued(s)' =>
          /\ queue'[s] \in Task \ finished'
          /\ result'[queue'[s]] = "ok"
          /\ \A r \in Slot : Queued(r)' /\ queue'[r] = queue'[s] => r = s
          /\ \A v \in Running' : task'[v] # queue'[s]
    BY <1>1, <2>1, <2>3, <2>4, <2>5 DEF HeldOnce
  <2>7. \A x \in Running' :
          /\ task'[x] \in Task \ finished'
          /\ result'[task'[x]] = "ok"
          /\ \A v \in Running' : task'[v] = task'[x] => v = x
    BY <1>1, <2>1, <2>3, <2>4, <2>5 DEF HeldOnce
  <2>8. \A u \in Task : result'[u] = "ok" =>
          \/ u \in finished'
          \/ \E s \in Slot : Queued(s)' /\ queue'[s] = u
          \/ \E v \in Running' : task'[v] = u
    BY <1>1, <2>1, <2>3, <2>4, <2>5 DEF HeldOnce
  <2> QED
    BY <2>1, <2>6, <2>7, <2>8 DEF HeldOnce
<1>5. ASSUME NEW w \in Worker, Return(w) PROVE HeldOnce'
  <2>1. /\ pc[w] = "run" /\ pc' = [pc EXCEPT ![w] = "lock"]
        /\ finished' = finished \cup {task[w]}
        /\ task' = [task EXCEPT ![w] = NoTask]
        /\ UNCHANGED <<ring, result>>
    BY <1>5 DEF Return
  <2>2. w \in Running /\ Running' = Running \ {w}
    BY <1>1, <2>1 DEF Running
  <2>3. \A v \in Running' : v \in Running /\ task'[v] = task[v]
    BY <1>1, <2>1, <2>2 DEF Running
  <2>4. \A s \in Slot : Queued(s)' <=> Queued(s)
    BY <2>1 DEF Queued, ring
  <2> QED
    BY <1>1, <2>1, <2>2, <2>3, <2>4 DEF HeldOnce, ring
<1>6. ASSUME NEW w \in Worker,
             Wait(w) \/ Exit(w) \/ SpuriousWakeup(w)
      PROVE  HeldOnce'
  BY <1>1, <1>2, <1>6 DEF Wait, Exit, SpuriousWakeup, Owns
<1>7. CASE CreateThread
  BY <1>1, <1>2, <1>7
  DEF CreateThread, PoolInvariant, TypeOK, Creation, Worker
<1>8. CASE \/ \E c \in Caller : CreateFails(c)
          \/ \E d \in Thread, flag \in {"graceful", "immediate"} :
               DestroyFirst(d, flag)
  BY <1>1, <1>2, <1>8 DEF CreateFails, DestroyFirst, BeginShutdown, Broadcast
<1>9. CASE \/ \E d \in Thread : DestroyAgain(d)
          \/ JoinNext \/ DestroyReturn \/ Over \/ UNCHANGED vars
  BY <1>2, <1>9 DEF DestroyAgain, JoinNext, DestroyReturn, Over, vars
<1> QED
  BY <1>3, <1>4, <1>5, <1>6, <1>7, <1>8, <1>9 DEF Next, WorkerStep

(* No accepted task is ever lost, run twice or run by two workers, whatever *)
(* the queue size, the number of workers and the order of their steps, and  *)
(* no refused one is kept.                                                  *)
THEOREM AcceptedTasksAreHeldOnce == Spec => []HeldOnce
<1>1. Init => HeldOnce
  BY SizeAssumption DEF Init, HeldOnce, Queued, Running, Slot
<1> QED
  BY <1>1, NextHeldOnce, PoolInvariance, PTL DEF Spec

-----------------------------------------------------------------------------
(* How far the joins have come: the threads below joining have exited, but *)
(* for the destroyer itself; and a worker exits a graceful shutdown only   *)
(* when the queue is empty, which it then stays.                           *)
Joined ==
  /\ shutdown = "no" => joining = 0 /\ ~joinFailed
  /\ shutdown # "no" /\ destroyer = NoThread => joining = thread_count
  /\ joinFailed /\ destroyer # NoThread =>
       destroyer \in Worker /\ destroyer < joining
  /\ \A w \in Worker : w < joining /\ pc[w] # "exited" =>
       joinFailed /\ (destroyer # NoThread => w = destroyer)
  /\ \A v, w \in Worker :
       /\ v < joining /\ pc[v] # "exited"
       /\ w < joining /\ pc[w] # "exited"
       => v = w
  /\ \A w \in Worker :
       shutdown = "graceful" /\ pc[w] = "exited" => count = 0

(* Every step of the pool keeps the joins in order.                        *)
LEMMA NextJoined == PoolInvariant /\ Joined /\ [Next]_vars => Joined'
<1> SUFFICES ASSUME PoolInvariant, Joined, [Next]_vars PROVE Joined'
  OBVIOUS
<1> USE SizeAssumption, NameAssumption DEF PoolInvariant, Joined, Worker
<1>1. CASE CreateThread
  BY <1>1 DEF CreateThread, TypeOK, Creation, destruction, ring
<1>2. CASE \/ \E c \in Caller : CreateFails(c)
          \/ \E d \in Thread, flag \in {"graceful", "immediate"} :
               DestroyFirst(d, flag)
  <2>1. /\ shutdown = "no" /\ shutdown' # "no" /\ joining' = 0
        /\ UNCHANGED <<joinFailed, count>>
        /\ destroyer' # NoThread
        /\ \A w \in Worker : pc'[w] = "exited" => pc[w] = "exited"
    BY <1>2 DEF CreateFails, DestroyFirst, BeginShutdown, Broadcast, TypeOK,
                Creation, Thread, ring
  <2>2. \A w \in Worker : w >= 0 /\ pc[w] # "exited"
    BY <2>1 DEF Creation
  <2> QED
    BY <2>1, <2>2
<1>3. ASSUME NEW t \in Task, Add(t) PROVE Joined'
  <2>1. /\ UNCHANGED <<shutdown, destruction, thread_count>>
        /\ \A w \in Worker : pc'[w] = "exited" <=> pc[w] = "exited"
    BY <1>3 DEF Add, Signal, Sleeping, TypeOK, creation
  <2>2. count' = count \/ shutdown = "no"
    BY <1>3 DEF Add, Open, ring
  <2> QED
    BY <2>1, <2>2 DEF destruction
<1>4. CASE JoinNext
  <2>1. /\ destroyer # NoThread /\ destroyer' = destroyer
        /\ joining < thread_count /\ joining' = joining + 1
        /\ joining = destroyer \/ pc[joining] = "exited"
        /\ UNCHANGED <<shutdown, thread_count, pc, count>>
    BY <1>4 DEF JoinNext, creation, ring
  <2>2. joinFailed' <=> joinFailed \/ joining = destroyer
    BY <1>4, Zenon DEF JoinNext
  <2>3. joining \in Worker /\ joining' \in Nat /\ shutdown # "no"
    BY <2>1 DEF TypeOK, Creation
  <2>4. \A w \in Worker : w < joining' => w < joining \/ w = joining
    BY <2>1, <2>3
  <2> QED
    BY <2>1, <2>2, <2>3, <2>4
<1>5. CASE DestroyReturn
  <2>1. /\ destroyer # NoThread /\ destroyer' = NoThread
        /\ joining = thread_count
        /\ UNCHANGED <<shutdown, joining, joinFailed, thread_count, pc, count>>
    BY <1>5 DEF DestroyReturn, creation, ring
  <2> QED
    BY <2>1 DEF Creation
<1>6. ASSUME NEW w \in Worker, Exit(w) PROVE Joined'
  BY <1>6 DEF Exit, MustExit, Owns, TypeOK, Creation, creation, destruction,
              ring
<1>7. ASSUME NEW w \in Worker,
             Wait(w) \/ Take(w) \/ Return(w) \/ SpuriousWakeup(w)
      PROVE  Joined'
  <2>1. /\ UNCHANGED <<shutdown, destruction, thread_count>>
        /\ \A v \in Worker : pc'[v] = "exited" <=> pc[v] = "exited"
    BY <1>7 DEF Wait, Take, Return, SpuriousWakeup, Owns, TypeOK, creation
  <2>2. count' = count \/ count # 0
    BY <1>7 DEF Wait, Take, Return, SpuriousWakeup, MustWait, MustExit,
                TypeOK, ring
  <2> QED
    BY <2>1, <2>2 DEF destruction
<1>8. CASE (\E d \in Thread : DestroyAgain(d)) \/ Over \/ UNCHANGED vars
  BY <1>8 DEF DestroyAgain, Over, vars, creation, destruction, ring
<1> QED
  BY <1>1, <1>2, <1>3, <1>4, <1>5, <1>6, <1>7, <1>8 DEF Next, WorkerStep

(* With two workers or more a graceful shutdown keeps its word whoever     *)
(* makes the call: a worker that closes the pool from its task cannot join *)
(* itself, but it joins another, which exits only when the queue is empty. *)
(* With one worker it does not hold.                                       *)
THEOREM GracefulShutdownDrains ==
  ASSUME ThreadCount > 1
  PROVE  Spec => []GracefulReturn
<1>1. Init => Joined
  BY SizeAssumption DEF Init, Joined, Worker
<1>2. PoolInvariant /\ Joined => GracefulReturn
  <2> SUFFICES ASSUME PoolInvariant, Joined,
                      shutdown = "graceful", destroyer = NoThread
               PROVE  /\ count = 0
                      /\ Cardinality(Running) <=
                           (IF joinFailed THEN 1 ELSE 0)
    BY DEF GracefulReturn
  <2>1. \A w \in Worker : w < joining
    BY SizeAssumption
    DEF PoolInvariant, TypeOK, Creation, Joined, Worker
  <2>2. \A v, w \in Worker : pc[v] # "exited" /\ pc[w] # "exited" => v = w
    BY <2>1 DEF Joined
  <2>3. 0 \in Worker /\ 1 \in Worker
    BY SizeAssumption DEF Worker
  <2>4. count = 0
    BY <2>2, <2>3 DEF Joined
  <2>5. Running \in SUBSET Worker
    BY DEF Running
  <2>6. CASE Running = {}
    BY <2>4, <2>5, <2>6, FiniteWorkers
  <2>7. CASE Running # {}
    <3>1. PICK w \in Running : TRUE
      BY <2>7
    <3>2. Running = {w} /\ joinFailed
      BY <2>1, <2>2, <3>1 DEF Running, Joined
    <3>3. Cardinality({w}) = 1
      BY FS_Singleton
    <3> QED
      BY <2>4, <3>2, <3>3
  <2> QED
    BY <2>6, <2>7
<1> QED
  BY <1>1, <1>2, NextJoined, PoolInvariance, PTL DEF Spec

=============================================================================
