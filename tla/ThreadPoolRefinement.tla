------------------------ MODULE ThreadPoolRefinement ------------------------
(***************************************************************************)
(* The theorem that ThreadPool implements TaskPool: each step of the ring  *)
(* buffer, the mutex and the joins is a step of the bounded FIFO, or none. *)
(***************************************************************************)
EXTENDS ThreadPoolProofs, Sequences

(* The slot of the i-th oldest task.                                       *)
Place(i) == (head + i - 1) % QueueSize

Pending == [i \in 1 .. count |-> queue[Place(i)]]
Active == {task[w] : w \in Running}
Mode == IF freed THEN "gone" ELSE IF shutdown = "no" THEN "open" ELSE shutdown

-----------------------------------------------------------------------------
(* The modulus spelled out, for every place in or just after the window.   *)
LEMMA PlaceSlot ==
  ASSUME NEW h \in Slot, NEW i \in 1 .. QueueSize
  PROVE  (h + i - 1) % QueueSize =
           (IF h + i - 1 < QueueSize THEN h + i - 1 ELSE h + i - 1 - QueueSize)
BY SizeAssumption, SMT DEF Slot

(* The places of the pending tasks are exactly the queued slots.           *)
PendingShape ==
  /\ \A i \in 1 .. count : Place(i) \in Slot /\ Queued(Place(i))
  /\ \A s \in Slot : Queued(s) => \E i \in 1 .. count : Place(i) = s
  /\ Pending \in Seq(Task) /\ Len(Pending) = count
  /\ \A i \in 1 .. count : Pending[i] = queue[Place(i)]

LEMMA PlacesAreQueued == PoolInvariant => PendingShape
<1> SUFFICES ASSUME PoolInvariant PROVE PendingShape
  OBVIOUS
<1> USE SizeAssumption DEF PoolInvariant, TypeOK
<1>1. \A i \in 1 .. QueueSize :
        Place(i) = (IF head + i - 1 < QueueSize THEN head + i - 1
                    ELSE head + i - 1 - QueueSize)
  BY PlaceSlot DEF Place
<1>2. \A i \in 1 .. count : Place(i) \in Slot /\ Queued(Place(i))
  BY <1>1 DEF Queued, Slot
<1>3. ASSUME NEW s \in Slot, Queued(s)
      PROVE  \E i \in 1 .. count : Place(i) = s
  <2>1. CASE head <= s
    <3>1. s - head + 1 \in 1 .. count /\ Place(s - head + 1) = s
      BY <1>1, <1>3, <2>1 DEF Queued, Slot
    <3> QED
      BY <3>1
  <2>2. CASE s < head
    <3>1. /\ s - head + 1 + QueueSize \in 1 .. count
          /\ Place(s - head + 1 + QueueSize) = s
      BY <1>1, <1>3, <2>2 DEF Queued, Slot
    <3> QED
      BY <3>1
  <2> QED
    BY <2>1, <2>2 DEF Slot
<1>4. \A i \in 1 .. count : queue[Place(i)] \in Task
  BY <1>2 DEF RingFilled
<1>5. Pending \in Seq(Task) /\ Len(Pending) = count
  BY <1>4 DEF Pending
<1> QED
  BY <1>2, <1>3, <1>5 DEF PendingShape, Pending

(* The same after a step.                                                  *)
LEMMA PlacesAreQueuedNext == PoolInvariant' => PendingShape'
BY PlacesAreQueued, PTL

(* What the refinement rests on: every invariant of ThreadPoolProofs.      *)
Sound == PoolInvariant /\ HeldOnce /\ SafeFree /\ Joined

(* Steps that leave the queue, the running tasks and the mode alone.       *)
LEMMA Stutter ==
  ASSUME UNCHANGED <<ring, task, finished, freed, shutdown>>,
         \A w \in Worker : pc'[w] = "run" <=> pc[w] = "run"
  PROVE  UNCHANGED Promise!vars
<1>1. Running' = Running
  BY DEF Running
<1>2. UNCHANGED <<queue, head, count, task, finished, freed, shutdown>>
  BY DEF ring
<1> QED
  BY <1>1, <1>2 DEF Promise!vars

(* A threadpool_add that returns 0 appends the task to the FIFO.           *)
LEMMA AddAccepts ==
  ASSUME Sound, Sound', NEW t \in Task, Add(t), ~Full /\ Open
  PROVE  Promise!Accept(t)
<1> USE SizeAssumption, NameAssumption
<1>1. /\ ~freed /\ freed' = freed /\ shutdown = "no" /\ shutdown' = "no"
      /\ count < QueueSize /\ count' = count + 1 /\ count \in Nat
      /\ head' = head /\ queue' = [queue EXCEPT ![tail] = t]
      /\ UNCHANGED <<task, finished>>
      /\ result[t] # "ok"
  BY DEF Add, Full, Open, Sound, PoolInvariant, TypeOK, destruction
<1>2. Running' = Running
  BY DEF Add, Signal, Sleeping, Running, Full, Open, Sound, PoolInvariant,
         TypeOK
<1>3. \A i \in 1 .. count : Place(i)' = Place(i)
  BY <1>1 DEF Place
<1>4. Place(count + 1) = tail
  <2>1. head \in Slot /\ count + 1 \in 1 .. QueueSize
    BY <1>1 DEF Sound, PoolInvariant, TypeOK
  <2>2. (head + (count + 1) - 1) % QueueSize =
          (IF head + (count + 1) - 1 < QueueSize THEN head + (count + 1) - 1
           ELSE head + (count + 1) - 1 - QueueSize)
    BY <2>1, PlaceSlot
  <2> QED
    BY <1>1, <2>1, <2>2
    DEF Place, Sound, PoolInvariant, TypeOK, RingFilled, Slot
<1>5. /\ \A i \in 1 .. count : Place(i) \in Slot /\ Queued(Place(i))
      /\ Pending \in Seq(Task) /\ Len(Pending) = count
      /\ Pending' \in Seq(Task) /\ Len(Pending)' = count + 1
      /\ \A i \in 1 .. count : Pending[i] = queue[Place(i)]
      /\ \A i \in 1 .. count + 1 : Pending'[i] = queue'[Place(i)']
  BY <1>1, PlacesAreQueued, PlacesAreQueuedNext DEF Sound, PendingShape
<1>6. ~Queued(tail) /\ tail \in Slot /\ queue \in [Slot -> Task \cup {NoTask}]
  BY <1>1, WindowGrows DEF Sound, PoolInvariant, TypeOK
<1>7. Pending' = Append(Pending, t)
  <2>1. \A i \in 1 .. count : Pending'[i] = Pending[i]
    BY <1>1, <1>3, <1>5, <1>6
  <2>2. Pending'[count + 1] = t
    BY <1>1, <1>4, <1>5, <1>6 DEF Place
  <2> QED
    BY <1>1, <1>5, <2>1, <2>2
<1>8. t \notin {Pending[i] : i \in DOMAIN Pending} \cup Active \cup finished
  BY <1>1, <1>5 DEF Sound, HeldOnce, Active
<1>9. Active' = Active
  BY <1>1, <1>2 DEF Active
<1> QED
  BY <1>1, <1>5, <1>7, <1>8, <1>9
  DEF Promise!Accept, Promise!Waiting, Pending, Place, Active

(* A worker takes the oldest task, and one of the Width places was free.   *)
LEMMA TakeStarts ==
  ASSUME Sound, Sound', NEW w \in Worker, Take(w)
  PROVE  Promise!Start
<1> USE SizeAssumption, NameAssumption
<1>1. /\ pc[w] = "lock" /\ pc' = [pc EXCEPT ![w] = "run"]
      /\ task' = [task EXCEPT ![w] = queue[head]]
      /\ head' = After(head) /\ count' = count - 1 /\ count \in Nat \ {0}
      /\ UNCHANGED <<queue, finished, freed, shutdown>>
      /\ shutdown # "immediate"
      /\ pc \in [Worker -> {"unborn", "lock", "wait", "run", "exited"}]
      /\ task \in [Worker -> Task \cup {NoTask}]
  BY DEF Take, Owns, MustWait, MustExit, Sound, PoolInvariant, TypeOK,
         destruction
<1>2. ~freed
  BY <1>1 DEF Sound, SafeFree
<1>3. Running' = Running \cup {w} /\ w \notin Running
  BY <1>1 DEF Running
<1>4. Place(1) = head /\ \A i \in 1 .. count - 1 : Place(i)' = Place(i + 1)
  <2>1. head \in Slot /\ head' \in Slot /\ count <= QueueSize
    BY DEF Sound, PoolInvariant, TypeOK
  <2>2. head' = (IF head + 1 = QueueSize THEN 0 ELSE head + 1)
    BY <1>1, <2>1, AfterSlot
  <2>3. \A h \in Slot, i \in 1 .. QueueSize :
          (h + i - 1) % QueueSize =
            (IF h + i - 1 < QueueSize THEN h + i - 1 ELSE h + i - 1 - QueueSize)
    BY PlaceSlot
  <2>4. Place(1) = head
    BY <1>1, <2>1, <2>3 DEF Place, Slot
  <2>5. ASSUME NEW i \in 1 .. count - 1 PROVE Place(i)' = Place(i + 1)
    <3>1. i \in 1 .. QueueSize /\ i + 1 \in 1 .. QueueSize
      BY <1>1, <2>1
    <3>2. Place(i)' = (IF head' + i - 1 < QueueSize THEN head' + i - 1
                       ELSE head' + i - 1 - QueueSize)
      BY <2>1, <2>3, <3>1 DEF Place
    <3>3. Place(i + 1) =
            (IF head + (i + 1) - 1 < QueueSize THEN head + (i + 1) - 1
             ELSE head + (i + 1) - 1 - QueueSize)
      BY <2>1, <2>3, <3>1 DEF Place
    <3> QED
      BY <2>1, <2>2, <3>1, <3>2, <3>3 DEF Slot
  <2> QED
    BY <2>4, <2>5
<1>5. /\ Pending \in Seq(Task) /\ Len(Pending) = count
      /\ Pending' \in Seq(Task) /\ Len(Pending)' = count - 1
      /\ \A i \in 1 .. count : Pending[i] = queue[Place(i)]
      /\ \A i \in 1 .. count - 1 : Pending'[i] = queue[Place(i)']
  BY <1>1, PlacesAreQueued, PlacesAreQueuedNext DEF Sound, PendingShape
<1>6. Head(Pending) = queue[head] /\ Pending # <<>>
  BY <1>1, <1>4, <1>5
<1>7. Pending' = Tail(Pending)
  <2>1. /\ Tail(Pending) \in Seq(Task) /\ Len(Tail(Pending)) = count - 1
        /\ \A i \in 1 .. count - 1 : Tail(Pending)[i] = Pending[i + 1]
    BY <1>1, <1>5, <1>6
  <2>2. \A i \in 1 .. count - 1 : Pending'[i] = Tail(Pending)[i]
    <3> TAKE i \in 1 .. count - 1
    <3>1. i + 1 \in 1 .. count
      BY <1>1
    <3>2. Pending[i + 1] = queue[Place(i + 1)]
      BY <1>5, <3>1
    <3> QED
      BY <1>4, <1>5, <2>1, <3>2
  <2> QED
    BY <1>1, <1>5, <2>1, <2>2
<1>8. Active' = Active \cup {queue[head]}
  BY <1>1, <1>3 DEF Active, Running
<1>9. Cardinality(Active) < ThreadCount
  <2>1. /\ Running \in SUBSET Worker /\ w \in Worker \ Running
        /\ Running \cup {w} \in SUBSET Worker
    BY <1>3 DEF Running
  <2>2. IsFiniteSet(Running) /\ Cardinality(Running) + 1 <= ThreadCount
    BY <2>1, FiniteWorkers
  <2>3. IsFiniteSet(Active) /\ Cardinality(Active) <= Cardinality(Running)
    <3> DEFINE f == [v \in Running |-> task[v]]
    <3>1. f \in Surjection(Running, Active)
      BY DEF Surjection, Active
    <3> QED
      BY <2>2, <3>1, FS_Surjection
  <2>4. Cardinality(Active) \in Nat /\ Cardinality(Running) \in Nat
    BY <2>2, <2>3, FS_CardinalityType
  <2> QED
    BY <2>2, <2>3, <2>4
<1>10. shutdown \in {"no", "graceful"} /\ shutdown' = shutdown
  BY <1>1 DEF Sound, PoolInvariant, TypeOK
<1>11. ~freed'
  BY <1>1, <1>2
<1>12. finished' = finished
  BY <1>1
<1>13. Mode \in {"open", "graceful"} /\ Mode' = Mode
  BY <1>2, <1>10, <1>11 DEF Mode
<1>14. /\ Mode \in {"open", "graceful"}
      /\ Pending # <<>>
      /\ Cardinality(Active) < ThreadCount
      /\ Active' = Active \cup {Head(Pending)}
      /\ Pending' = Tail(Pending)
      /\ UNCHANGED <<finished, Mode>>
  BY <1>6, <1>7, <1>8, <1>9, <1>12, <1>13
<1> QED
  BY <1>14, Zenon
  DEF Promise!Start, Promise!Cardinality, Cardinality, Pending, Place, Active, Mode

(* A task's function returns.                                              *)
LEMMA ReturnFinishes ==
  ASSUME Sound, NEW w \in Worker, Return(w), NEW t \in Task, t = task[w]
  PROVE  Promise!Finish(t)
<1>1. /\ pc[w] = "run" /\ pc' = [pc EXCEPT ![w] = "lock"]
      /\ task' = [task EXCEPT ![w] = NoTask]
      /\ finished' = finished \cup {t}
      /\ UNCHANGED <<queue, head, count, freed, shutdown>>
      /\ pc \in [Worker -> {"unborn", "lock", "wait", "run", "exited"}]
      /\ task \in [Worker -> Task \cup {NoTask}]
  BY DEF Return, ring, destruction, Sound, PoolInvariant, TypeOK
<1>2. w \in Running /\ Running' = Running \ {w}
  BY <1>1 DEF Running
<1>3. t \in Active
  BY <1>2 DEF Active
<1>4. \A v \in Running' : v \in Running /\ task'[v] = task[v]
                          /\ task[v] # t
  BY <1>1, <1>2 DEF Sound, HeldOnce, Running
<1>5. Active' = Active \ {t}
  BY <1>2, <1>4 DEF Active
<1> QED
  BY <1>1, <1>3, <1>5 DEF Promise!Finish, Active

(* The locked part of the first threadpool_destroy closes the FIFO.        *)
LEMMA ShutdownCloses ==
  ASSUME Sound, NEW d \in Thread, NEW flag \in {"graceful", "immediate"},
         shutdown = "no", BeginShutdown(d, flag), UNCHANGED <<ring, task, finished>>
  PROVE  Promise!Close(flag)
<1>1. shutdown' = flag /\ freed' = freed /\ UNCHANGED <<queue, head, count>>
  BY DEF BeginShutdown, ring
<1>2. ~freed
  BY DEF Sound, PoolInvariant, Creation
<1>3. Running' = Running
  BY DEF BeginShutdown, Broadcast, Running, Sound, PoolInvariant, TypeOK
<1>4. Mode = "open" /\ Mode' = flag
  BY <1>1, <1>2 DEF Mode
<1>5. UNCHANGED <<Pending, Active, finished>>
  BY <1>1, <1>3 DEF Pending, Place, Active
<1> QED
  BY <1>4, <1>5, Zenon DEF Promise!Close, Pending, Place, Active, Mode

(* threadpool_free happens when nothing runs, and after a graceful         *)
(* shutdown when nothing waits: every thread has been joined.              *)
LEMMA FreeVanishes ==
  ASSUME Sound, DestroyReturn, MayFree
  PROVE  Promise!Vanish
<1> USE SizeAssumption, NameAssumption
<1>1. /\ destroyer # NoThread /\ joining = thread_count /\ ~joinFailed
      /\ freed' /\ UNCHANGED <<queue, head, count, shutdown, pc, task, finished>>
  BY DEF DestroyReturn, MayFree, ring
<1>2. /\ ~freed
      /\ shutdown \in {"graceful", "immediate"}
      /\ shutdown = "graceful" => thread_count = ThreadCount
  BY <1>1 DEF Sound, SafeFree, PoolInvariant, TypeOK, Creation
<1>3. \A w \in Worker : w < thread_count => pc[w] = "exited"
  BY <1>1 DEF Sound, Joined
<1>4. Running = {}
  <2>1. \A w \in Worker : pc[w] = "unborn" <=> ~(w < thread_count)
    BY DEF Sound, PoolInvariant, TypeOK, Creation, Worker
  <2> QED
    BY <1>3, <2>1 DEF Running
<1>5. shutdown = "graceful" => count = 0
  <2>1. 0 \in Worker /\ 0 < ThreadCount
    BY DEF Worker
  <2> QED
    BY <1>2, <1>3, <2>1 DEF Sound, Joined
<1>6. Active = {} /\ UNCHANGED <<Pending, Active, finished>>
  BY <1>1, <1>4 DEF Active, Running, Pending, Place
<1>7. /\ Mode \in {"graceful", "immediate"} /\ Mode' = "gone"
      /\ Mode = "graceful" => count = 0
  BY <1>1, <1>2, <1>5 DEF Mode
<1>8. count = 0 => Pending = <<>>
  <2>1. Pending \in Seq(Task) /\ Len(Pending) = count
    BY PlacesAreQueued DEF Sound, PendingShape
  <2> QED
    BY <2>1
<1>9. /\ Mode \in {"graceful", "immediate"}
      /\ Active = {}
      /\ Mode = "graceful" => Pending = <<>>
      /\ Mode' = "gone"
      /\ UNCHANGED <<Pending, Active, finished>>
  BY <1>6, <1>7, <1>8
<1> QED
  BY <1>9, Zenon DEF Promise!Vanish, Pending, Place, Active, Mode

-----------------------------------------------------------------------------
(* The pool is born as an empty, open FIFO.                                *)
LEMMA InitRefines == Init => Promise!Init
<1> SUFFICES ASSUME Init PROVE Promise!Init
  OBVIOUS
<1>1. PoolInvariant
  BY InitInvariant
<1>2. count = 0 /\ Running = {} /\ finished = {} /\ ~freed /\ shutdown = "no"
  BY DEF Init, Running
<1>3. Pending \in Seq(Task) /\ Len(Pending) = 0
  BY <1>1, <1>2, PlacesAreQueued DEF PendingShape
<1>4. Pending = <<>> /\ Active = {} /\ finished = {} /\ Mode = "open"
  BY <1>2, <1>3 DEF Active, Mode
<1> QED
  BY <1>4, Zenon DEF Promise!Init, Pending, Place, Active, Mode

(* Every step of the pool is a step of the FIFO, or none.                  *)
LEMMA NextRefines ==
  Sound /\ Sound' /\ [Next]_vars => [Promise!Next]_(Promise!vars)
<1> SUFFICES ASSUME Sound, Sound', [Next]_vars
             PROVE  Promise!Next \/ UNCHANGED Promise!vars
  OBVIOUS
<1> DEFINE Goal == Promise!Next \/ UNCHANGED Promise!vars
<1> USE SizeAssumption, NameAssumption
<1>1. /\ pc \in [Worker -> {"unborn", "lock", "wait", "run", "exited"}]
      /\ shutdown \in {"no", "immediate", "graceful"}
  BY DEF Sound, PoolInvariant, TypeOK
<1>2. ASSUME UNCHANGED <<ring, task, finished, freed, shutdown>>,
             \A w \in Worker : pc'[w] = "run" <=> pc[w] = "run"
      PROVE  Goal
  BY <1>2, Stutter
<1>3. CASE CreateThread
  <2>1. \A w \in Worker : pc'[w] = "run" <=> pc[w] = "run"
    BY <1>1, <1>3 DEF CreateThread, Sound, PoolInvariant, TypeOK, Creation,
                      Worker
  <2> QED
    BY <1>2, <1>3, <2>1 DEF CreateThread, destruction
<1>4. ASSUME NEW c \in Caller, CreateFails(c) PROVE Goal
  <2>1. c \in Thread /\ shutdown = "no"
    BY <1>4 DEF CreateFails, Thread, Sound, PoolInvariant, Creation
  <2>2. Promise!Close("immediate")
    BY <1>4, <2>1, ShutdownCloses DEF CreateFails
  <2> QED
    BY <2>2 DEF Promise!Next
<1>5. ASSUME NEW d \in Thread, NEW flag \in {"graceful", "immediate"},
             DestroyFirst(d, flag)
      PROVE  Goal
  <2>1. Promise!Close(flag)
    BY <1>5, ShutdownCloses DEF DestroyFirst
  <2> QED
    BY <2>1 DEF Promise!Next
<1>6. ASSUME NEW t \in Task, Add(t) PROVE Goal
  <2>1. CASE ~Full /\ Open
    <3>1. Promise!Accept(t)
      BY <1>6, <2>1, AddAccepts
    <3> QED
      BY <3>1 DEF Promise!Next
  <2>2. CASE Full \/ ~Open
    BY <1>2, <1>6, <2>2 DEF Add, destruction
  <2> QED
    BY <2>1, <2>2
<1>7. ASSUME NEW w \in Worker, Take(w) PROVE Goal
  BY <1>7, TakeStarts DEF Promise!Next
<1>8. ASSUME NEW w \in Worker, Return(w) PROVE Goal
  <2>1. task[w] \in Task
    BY <1>8 DEF Return, Running, Sound, HeldOnce
  <2>2. PICK t \in Task : t = task[w]
    BY <2>1
  <2>3. Promise!Finish(t)
    BY <1>8, <2>2, ReturnFinishes
  <2> QED
    BY <2>3 DEF Promise!Next
<1>9. ASSUME NEW w \in Worker,
             Wait(w) \/ Exit(w) \/ SpuriousWakeup(w)
      PROVE  Goal
  BY <1>1, <1>2, <1>9 DEF Wait, Exit, SpuriousWakeup, Owns, destruction
<1>10. CASE DestroyReturn
  <2>1. CASE MayFree
    BY <1>10, <2>1, FreeVanishes DEF Promise!Next
  <2>2. CASE ~MayFree
    BY <1>2, <1>10, <2>2 DEF DestroyReturn
  <2> QED
    BY <2>1, <2>2
<1>11. CASE \/ \E d \in Thread : DestroyAgain(d)
           \/ JoinNext \/ Over \/ UNCHANGED vars
  BY <1>2, <1>11 DEF DestroyAgain, JoinNext, Over, vars, destruction
<1> QED
  BY <1>3, <1>4, <1>5, <1>6, <1>7, <1>8, <1>9, <1>10, <1>11
  DEF Next, WorkerStep

(* The ring buffer with its mutex, its condition variable and its joins    *)
(* implements the bounded FIFO of TaskPool, for every size of both.        *)
THEOREM PoolKeepsItsPromise == Spec => ImplementsTaskPool
<1>1. Init => HeldOnce /\ SafeFree /\ Joined
  BY SizeAssumption
  DEF Init, HeldOnce, Queued, Running, Slot, SafeFree, Joined, Worker
<1>2. Sound /\ [Next]_vars => HeldOnce' /\ SafeFree' /\ Joined'
  BY NextHeldOnce, NextSafeFree, NextJoined DEF Sound
<1>3. Spec => []Sound
  <2>1. Init => Sound
    BY <1>1, InitInvariant DEF Sound
  <2>2. Sound /\ [Next]_vars => Sound'
    BY <1>2, NextInvariant DEF Sound
  <2> QED
    BY <2>1, <2>2, PTL DEF Spec
<1> QED
  BY <1>3, InitRefines, NextRefines, PTL
  DEF Spec, ImplementsTaskPool, Promise!Spec

=============================================================================
