------------------------- MODULE AsyncioAdapterProofs ------------------------
(***************************************************************************)
(* What holds of AsyncioAdapter for every set of tasks and every backend:  *)
(* the permits add up, futures are settled once and outcomes are true.     *)
(***************************************************************************)
EXTENDS AsyncioAdapter, SequenceLemmas

(* read(), write(), fsync() and fdsync() make an Operation per call.       *)
Fresh == \A t, u \in Task : operation[t] = operation[u] => t = u

-----------------------------------------------------------------------------
(* The invariant.  Types, but for the permits;                             *)
TasksTyped ==
  /\ permits \in Nat
  /\ pc \in [Task -> {"new", "wait", "await"} \cup Outcomes]
  /\ future \in [Task -> {"none", "pending", "result", "error", "cancelled"}]
  /\ cancelling \subseteq Task /\ cancels \in 0 .. MaxCancels
  /\ handoff \in [Task -> {"none", "checked", "posted"}]

QueuesTyped ==
  /\ max_requests \in MaxRequests
  /\ sq \in Seq(Op \cup {NoTask}) /\ Len(sq) <= RingSize
  /\ pending \in Seq(Task)

BackendTyped ==
  /\ kind \in Kind /\ deferred \in BOOLEAN
  /\ callback \in [Op -> Task \cup {NoTask}]
  /\ stage \in [Op -> {"new", "staged", "kernel", "ring", "done"}]
  /\ scheduled \in BOOLEAN /\ signalled \in BOOLEAN /\ closed \in BOOLEAN
  /\ loop \in {"idle", "drain"}

Typed == TasksTyped /\ QueuesTyped /\ BackendTyped

Awaiting == {t \in Task : pc[t] = "await"}
PermitsAddUp == permits + Cardinality(Awaiting) = max_requests

(* a task's future is made when submit() begins;                           *)
NoneYet == \A t \in Task : pc[t] = "new" => future[t] = "none"

(* a callback resolves the future of the task whose Operation it is;       *)
CallsBack(o) == callback[o] # NoTask => operation[callback[o]] = o

(* what is in the submission ring is staged, and in it once;               *)
StagedOnce ==
  /\ \A o \in Op : Has(sq, o) => stage[o] = "staged"
  /\ \A i, j \in 1 .. Len(sq) : sq[i] = sq[j] /\ sq[i] \in Op => i = j

(* no result before the Operation is done;                                 *)
ResultsAreDone(t) ==
  future[t] = "result" \/ handoff[t] # "none" \/ pc[t] = "returned" =>
    stage[operation[t]] = "done"

(* and a task that has yet to submit, that is in the batch, or that was    *)
(* told its Operation was not submitted is one of the three, and the       *)
(* backend has nothing of it.                                              *)
Before(t) == pc[t] \in {"new", "wait"}
Batched(t) == Has(pending, t)
Denied(t) == future[t] = "error" \/ pc[t] = "refused"
NotWithBackend(t) ==
  /\ Before(t) \/ Batched(t) \/ Denied(t) => stage[operation[t]] = "new"
  /\ ~(Before(t) /\ Batched(t)) /\ ~(Before(t) /\ Denied(t)) /\ ~(Batched(t) /\ Denied(t))

Truthful ==
  /\ \A o \in Op : CallsBack(o)
  /\ StagedOnce
  /\ Once(pending)
  /\ \A t \in Task : ResultsAreDone(t) /\ NotWithBackend(t)

-----------------------------------------------------------------------------
(* The actions by name, as every proof below splits Next.                  *)
LEMMA Steps ==
  ASSUME NEW P, Next,
         \A t \in Task :
           /\ Begin(t) => P
           /\ Refused(t) => P
           /\ Queue(t) => P
           /\ Submit(t) => P
           /\ Stage(t) => P
           /\ StageAndFlush(t) => P
           /\ StageForThread(t) => P
           /\ HandOver(t) => P
           /\ RunHandedOver(t) => P
           /\ Cancel(t) => P
           /\ Resume(t) => P
           /\ CancelsNothing(t) => P
           /\ CancelsInKernel(t) => P
           /\ CancelsByRing(t) => P,
         \A o \in Op : (Complete(o) => P) /\ (CompleteInPool(o) => P),
         KernelTakes => P, DeferredFlush => P, DeferredSubmit => P,
         Poll => P, ProcessEvents => P, Close => P
  PROVE  P
BY DEF Next, Progress, Enter

LEMMA RingHasRoom ==
  ASSUME max_requests \in MaxRequests
  PROVE  max_requests \in Nat /\ RingSize \in Nat /\ RingSize > 0
<1>1. max_requests \in Nat /\ max_requests # 0
  BY AdapterAssumption
<1>2. RingSize \in Nat
  BY AdapterAssumption DEF RingSize
<1>3. Entries[max_requests] > max_requests
  BY AdapterAssumption
<1> QED
  BY <1>1, <1>2, <1>3 DEF RingSize

LEMMA RingGrows ==
  ASSUME sq \in Seq(Op \cup {NoTask}), NEW e \in Op \cup {NoTask}
  PROVE  /\ Append(sq, e) \in Seq(Op \cup {NoTask})
         /\ Len(Append(sq, e)) = Len(sq) + 1 /\ Len(sq) \in Nat
         /\ Tail(Append(sq, e)) \in Seq(Op \cup {NoTask})
         /\ Len(Tail(Append(sq, e))) = Len(sq)
<1> DEFINE ring == Append(sq, e)
<1>1. ring \in Seq(Op \cup {NoTask}) /\ Len(ring) = Len(sq) + 1 /\ Len(sq) \in Nat
  OBVIOUS
<1>2. ring # <<>>
  <2> HIDE DEF ring
  <2> QED
    BY <1>1, EmptySeq
<1>3. Tail(ring) \in Seq(Op \cup {NoTask}) /\ Len(Tail(ring)) = Len(ring) - 1
  <2> HIDE DEF ring
  <2> QED
    BY <1>1, <1>2, HeadElements
<1> HIDE DEF ring
<1>4. Len(Tail(ring)) = Len(sq)
  BY <1>1, <1>3
<1> QED
  BY <1>1, <1>3, <1>4 DEF ring

LEMMA QueuesStep ==
  ASSUME QueuesTyped, UNCHANGED max_requests, Len(sq) \in Nat,
         \/ sq' \in {sq, <<>>}
         \/ \E e \in Op \cup {NoTask} : sq' = Append(sq, e) /\ Len(sq) < RingSize
         \/ \E e \in Op \cup {NoTask} : sq' = Tail(Append(sq, e)),
         pending' \in {pending, <<>>} \/ \E t \in Task : pending' = Append(pending, t)
  PROVE  QueuesTyped'
<1>1. RingSize \in Nat
  BY RingHasRoom DEF QueuesTyped
<1>2. /\ sq' \in Seq(Op \cup {NoTask}) /\ Len(sq') \in Nat
      /\ Len(sq') <= RingSize
  <2>1. CASE sq' = sq
    BY <2>1 DEF QueuesTyped
  <2>2. CASE sq' = <<>>
    BY <1>1, <2>2
  <2>3. ASSUME NEW e \in Op \cup {NoTask}, sq' = Append(sq, e), Len(sq) < RingSize
        PROVE  sq' \in Seq(Op \cup {NoTask}) /\ Len(sq') \in Nat /\ Len(sq') <= RingSize
    BY <1>1, <2>3, RingGrows DEF QueuesTyped
  <2>4. ASSUME NEW e \in Op \cup {NoTask}, sq' = Tail(Append(sq, e))
        PROVE  sq' \in Seq(Op \cup {NoTask}) /\ Len(sq') \in Nat /\ Len(sq') <= RingSize
    BY <2>4, RingGrows DEF QueuesTyped
  <2> QED
    BY <2>1, <2>2, <2>3, <2>4
<1>3. pending' \in Seq(Task)
  <2>1. ASSUME NEW t \in Task PROVE Append(pending, t) \in Seq(Task)
    BY DEF QueuesTyped
  <2>2. pending \in Seq(Task) /\ <<>> \in Seq(Task)
    BY DEF QueuesTyped
  <2> QED
    BY <2>1, <2>2
<1>4. RingSize' = RingSize
  BY DEF RingSize
<1> QED
  BY <1>2, <1>3, <1>4 DEF QueuesTyped

(* An eager submit() that flushes keeps its permit, or takes it along.      *)
LEMMA FlushPermits ==
  ASSUME NEW t \in Task, StageAndFlush(t)
  PROVE  /\ permits > 0 /\ permits' \in {permits, permits - 1}
         /\ \E s \in {"await", "returned", "raised"} : pc' = [pc EXCEPT ![t] = s]
BY DEF StageAndFlush, Entering, Awaits, Ends, Set

(* The variables an action changes have their types.                       *)
LEMMA TypesStep ==
  ASSUME Typed, Next
  PROVE  Typed'
<1>1. max_requests \in Nat /\ RingSize \in Nat /\ RingSize > 0 /\ MaxCancels \in Nat
      /\ Len(sq) \in Nat /\ operation \in [Task -> Op]
  <2>1. max_requests \in MaxRequests /\ Len(sq) \in Nat
    BY DEF Typed, QueuesTyped
  <2>2. MaxCancels \in Nat /\ operation \in [Task -> Op]
    BY AdapterAssumption
  <2> QED
    BY <2>1, <2>2, RingHasRoom
<1> USE <1>1 DEF Typed, TasksTyped, QueuesTyped, BackendTyped, Set, Outcomes, config,
           tasks, batch, backend
<1>2. ASSUME NEW t \in Task, Begin(t) PROVE Typed'
  BY <1>2 DEF Begin, RingSize
<1>3. ASSUME NEW t \in Task, Refused(t) PROVE Typed'
  BY <1>3 DEF Refused, Ends, RingSize
<1>4. ASSUME NEW t \in Task, Queue(t) PROVE Typed'
  BY <1>4 DEF Queue, Entering, Awaits, RingSize
<1>5. ASSUME NEW t \in Task, Submit(t) PROVE Typed'
  <2>1. TasksTyped'
    BY <1>5 DEF Submit, Entering, Awaits, RingSize
  <2>2. QueuesTyped'
    BY <1>5 DEF Submit, Entering, Awaits, RingSize
  <2>3. BackendTyped'
    BY <1>5 DEF Submit, Entering, Awaits, RingSize
  <2> QED
    BY <2>1, <2>2, <2>3
<1>6. ASSUME NEW t \in Task, Stage(t) PROVE Typed'
  <2>1. TasksTyped'
    BY <1>6, <1>1 DEF Stage, Entering, Awaits, Stageable, RingSize
  <2>2. QueuesTyped'
    BY <1>6, QueuesStep DEF Stage, Stageable
  <2>3. BackendTyped'
    BY <1>6, <1>1 DEF Stage, Entering, Awaits, Stageable, RingSize
  <2> QED
    BY <2>1, <2>2, <2>3
<1>7. ASSUME NEW t \in Task, StageAndFlush(t) PROVE Typed'
  <2>1. TasksTyped'
    <3>1. permits' \in Nat /\ pc' \in [Task -> {"new", "wait", "await"} \cup Outcomes]
      <4>1. permits > 0 /\ permits' \in {permits, permits - 1}
        BY <1>7, FlushPermits
      <4>2. PICK s \in {"await", "returned", "raised"} : pc' = [pc EXCEPT ![t] = s]
        BY <1>7, FlushPermits
      <4> QED
        BY <4>1, <4>2
    <3>2. future' \in [Task -> {"none", "pending", "result", "error", "cancelled"}]
      BY <1>7 DEF StageAndFlush, Flushes, SetAll
    <3>3. UNCHANGED <<cancelling, cancels, handoff>>
      BY <1>7 DEF StageAndFlush
    <3> QED
      BY <3>1, <3>2, <3>3
  <2>2. QueuesTyped'
    BY <1>7, QueuesStep DEF StageAndFlush, Stageable
  <2>3. BackendTyped'
    <3>1. stage' \in [Op -> {"new", "staged", "kernel", "ring", "done"}]
      BY <1>7 DEF StageAndFlush, Flushes
    <3>2. signalled' \in BOOLEAN /\ UNCHANGED <<config, batch, callback, loop, closed>>
      BY <1>7 DEF StageAndFlush, Flushes
    <3> QED
      BY <3>1, <3>2
  <2> QED
    BY <2>1, <2>2, <2>3
<1>8. ASSUME NEW t \in Task, StageForThread(t) PROVE Typed'
  <2>1. TasksTyped'
    BY <1>8, <1>1 DEF StageForThread, SetAll, Entering, Awaits, Stageable, RingSize
  <2>2. QueuesTyped'
    BY <1>8, QueuesStep DEF StageForThread, Stageable
  <2>3. BackendTyped'
    BY <1>8, <1>1 DEF StageForThread, SetAll, Entering, Awaits, Stageable, RingSize
  <2> QED
    BY <2>1, <2>2, <2>3
<1>9. ASSUME NEW t \in Task, HandOver(t) PROVE Typed'
  BY <1>9 DEF HandOver, RingSize
<1>10. ASSUME NEW t \in Task, RunHandedOver(t) PROVE Typed'
  BY <1>10 DEF RunHandedOver, RingSize
<1>11. ASSUME NEW t \in Task, Cancel(t) PROVE Typed'
  BY <1>11 DEF Cancel, RingSize
<1>12. ASSUME NEW t \in Task, Resume(t) PROVE Typed'
  BY <1>12 DEF Resume, Leaves, RingSize
<1>13. ASSUME NEW t \in Task, CancelsNothing(t) PROVE Typed'
  BY <1>13 DEF CancelsNothing, Leaves, RingSize
<1>14. ASSUME NEW t \in Task, CancelsInKernel(t) PROVE Typed'
  <2>1. TasksTyped'
    <3>1. permits' \in Nat /\ pc' \in [Task -> {"new", "wait", "await"} \cup Outcomes]
      BY <1>14 DEF CancelsInKernel, Leaves
    <3>2. future' \in [Task -> {"none", "pending", "result", "error", "cancelled"}]
      BY <1>14 DEF CancelsInKernel, SetAll
    <3>3. cancelling' = cancelling \ {t} /\ UNCHANGED <<cancels, handoff>>
      BY <1>14 DEF CancelsInKernel
    <3> QED
      BY <3>1, <3>2, <3>3
  <2>2. QueuesTyped'
    BY <1>14, QueuesStep DEF CancelsInKernel
  <2>3. BackendTyped'
    BY <1>14 DEF CancelsInKernel, SetAll, Leaves, RingSize
  <2> QED
    BY <2>1, <2>2, <2>3
<1>15. ASSUME NEW t \in Task, CancelsByRing(t) PROVE Typed'
  <2>1. TasksTyped'
    BY <1>15 DEF CancelsByRing, Leaves
  <2>2. QueuesTyped'
    <3>1. \/ sq' = sq
          \/ sq' = Append(sq, NoTask) /\ Len(sq) < RingSize
          \/ sq' = Tail(Append(sq, NoTask))
      BY <1>15 DEF CancelsByRing
    <3>2. pending' = pending /\ max_requests' = max_requests
      BY <1>15 DEF CancelsByRing
    <3>3. NoTask \in Op \cup {NoTask}
      OBVIOUS
    <3> QED
      BY <3>1, <3>2, <3>3, QueuesStep
  <2>3. BackendTyped'
    BY <1>15 DEF CancelsByRing, SetAll
  <2> QED
    BY <2>1, <2>2, <2>3
<1>16. ASSUME NEW o \in Op, Complete(o) PROVE Typed'
  BY <1>16 DEF Complete, RingSize
<1>17. ASSUME NEW o \in Op, CompleteInPool(o) PROVE Typed'
  BY <1>17 DEF CompleteInPool, SetAll, RingSize
<1>18. CASE KernelTakes
  BY <1>18, <1>1 DEF KernelTakes, SetAll, RingSize
<1>19. CASE DeferredFlush
  <2>1. TasksTyped'
    BY <1>19, <1>1 DEF DeferredFlush, Flushes, SetAll, RingSize
  <2>2. QueuesTyped'
    BY <1>19, QueuesStep DEF DeferredFlush
  <2>3. BackendTyped'
    BY <1>19, <1>1 DEF DeferredFlush, Flushes, SetAll, RingSize
  <2> QED
    BY <2>1, <2>2, <2>3
<1>20. CASE DeferredSubmit
  <2>1. TasksTyped'
    BY <1>20 DEF DeferredSubmit, SetAll
  <2>2. QueuesTyped'
    BY <1>20, QueuesStep DEF DeferredSubmit
  <2>3. BackendTyped'
    BY <1>20 DEF DeferredSubmit, SetAll
  <2> QED
    BY <2>1, <2>2, <2>3
<1>21. CASE Poll
  BY <1>21 DEF Poll, RingSize
<1>22. CASE ProcessEvents
  BY <1>22 DEF ProcessEvents, SetAll, RingSize
<1>23. CASE Close
  BY <1>23 DEF Close, RingSize
<1> QED
  BY <1>2, <1>3, <1>4, <1>5, <1>6, <1>7, <1>8, <1>9, <1>10, <1>11, <1>12, <1>13,
     <1>14, <1>15, <1>16, <1>17, <1>18, <1>19, <1>20, <1>21, <1>22, <1>23, Steps

-----------------------------------------------------------------------------
(* A permit is out exactly while its task awaits.                          *)
LEMMA AwaitingChanges ==
  ASSUME IsFiniteSet(Task), Typed, NEW t \in Task, NEW v, Set(pc, t, v)
  PROVE  /\ Cardinality(Awaiting) \in Nat
         /\ pc[t] # "await" /\ v = "await" =>
              Cardinality(Awaiting') = Cardinality(Awaiting) + 1
         /\ pc[t] = "await" /\ v # "await" =>
              Cardinality(Awaiting') = Cardinality(Awaiting) - 1
         /\ pc[t] # "await" /\ v # "await" => Awaiting' = Awaiting
<1>1. pc' = [pc EXCEPT ![t] = v] /\ DOMAIN pc = Task
  BY DEF Set, Typed, TasksTyped
<1>2. IsFiniteSet(Awaiting) /\ Awaiting \in SUBSET Task
  <2>1. Awaiting \in SUBSET Task
    BY DEF Awaiting
  <2> QED
    BY <2>1, FS_Subset
<1>3. Cardinality(Awaiting) \in Nat
  BY <1>2, FS_CardinalityType
<1>4. CASE pc[t] # "await" /\ v = "await"
  <2>1. Awaiting' = Awaiting \cup {t} /\ t \notin Awaiting
    BY <1>1, <1>4 DEF Awaiting
  <2> QED
    BY <1>2, <1>3, <1>4, <2>1, FS_AddElement
<1>5. CASE pc[t] = "await" /\ v # "await"
  <2>1. Awaiting' = Awaiting \ {t} /\ t \in Awaiting
    BY <1>1, <1>5 DEF Awaiting
  <2> QED
    BY <1>2, <1>3, <1>5, <2>1, FS_RemoveElement
<1>6. CASE pc[t] # "await" /\ v # "await"
  BY <1>1, <1>3, <1>6 DEF Awaiting
<1>7. CASE pc[t] = "await" /\ v = "await"
  BY <1>3, <1>7
<1> QED
  BY <1>4, <1>5, <1>6, <1>7

(* What a step does to a task's pc, and to the permits with it.            *)
Takes(t) == pc[t] = "wait" /\ Awaits(t)
Returns(t) == pc[t] = "await" /\ \E outcome \in Outcomes : Leaves(t, outcome)
Moves(t) ==
  /\ pc[t] # "await" /\ UNCHANGED permits
  /\ \E v \in {"wait"} \cup Outcomes : Set(pc, t, v)

LEMMA PermitSteps ==
  ASSUME Next
  PROVE  /\ UNCHANGED max_requests
         /\ \/ UNCHANGED <<pc, permits>>
            \/ \E t \in Task : Takes(t) \/ Returns(t) \/ Moves(t)
<1> DEFINE P == /\ UNCHANGED max_requests
                /\ \/ UNCHANGED <<pc, permits>>
                   \/ \E t \in Task : Takes(t) \/ Returns(t) \/ Moves(t)
<1> USE DEF Takes, Returns, Moves, Outcomes, config, tasks
<1>1. ASSUME NEW t \in Task, Begin(t) PROVE P
  BY <1>1 DEF Begin
<1>2. ASSUME NEW t \in Task, Refused(t) PROVE P
  BY <1>2 DEF Refused, Entering, Ends
<1>3. ASSUME NEW t \in Task, Queue(t) PROVE P
  BY <1>3 DEF Queue, Entering
<1>4. ASSUME NEW t \in Task, Submit(t) PROVE P
  BY <1>4 DEF Submit, Entering
<1>5. ASSUME NEW t \in Task, Stage(t) PROVE P
  BY <1>5 DEF Stage, Entering
<1>6. ASSUME NEW t \in Task, StageAndFlush(t) PROVE P
  <2>1. pc[t] = "wait" /\ UNCHANGED max_requests
    BY <1>6 DEF StageAndFlush, Entering
  <2>2. Awaits(t) \/ Ends(t, "returned") \/ Ends(t, "raised")
    BY <1>6 DEF StageAndFlush
  <2> QED
    BY <2>1, <2>2 DEF Ends
<1>7. ASSUME NEW t \in Task, StageForThread(t) PROVE P
  BY <1>7 DEF StageForThread, Entering
<1>8. ASSUME NEW t \in Task, HandOver(t) \/ RunHandedOver(t) PROVE P
  BY <1>8 DEF HandOver, RunHandedOver
<1>9. ASSUME NEW t \in Task, Cancel(t) PROVE P
  BY <1>9 DEF Cancel
<1>10. ASSUME NEW t \in Task, Resume(t) PROVE P
  BY <1>10 DEF Resume
<1>11. ASSUME NEW t \in Task, CancelsNothing(t) PROVE P
  BY <1>11 DEF CancelsNothing, Cancelling
<1>12. ASSUME NEW t \in Task, CancelsInKernel(t) PROVE P
  BY <1>12 DEF CancelsInKernel, Cancelling
<1>13. ASSUME NEW t \in Task, CancelsByRing(t) PROVE P
  <2>1. pc[t] = "await" /\ UNCHANGED max_requests
    BY <1>13 DEF CancelsByRing, Cancelling
  <2>2. Leaves(t, "raised") \/ Leaves(t, "cancelled")
    BY <1>13 DEF CancelsByRing
  <2> QED
    BY <2>1, <2>2
<1>14. ASSUME NEW o \in Op, Complete(o) \/ CompleteInPool(o) PROVE P
  BY <1>14 DEF Complete, CompleteInPool
<1>15. CASE KernelTakes \/ Poll \/ ProcessEvents \/ Close
  BY <1>15 DEF KernelTakes, Poll, ProcessEvents, Close
<1>16. CASE DeferredFlush \/ DeferredSubmit
  BY <1>16 DEF DeferredFlush, DeferredSubmit
<1> HIDE DEF P
<1> QED
  BY <1>1, <1>2, <1>3, <1>4, <1>5, <1>6, <1>7, <1>8, <1>9, <1>10, <1>11, <1>12,
     <1>13, <1>14, <1>15, <1>16, Steps DEF P

LEMMA PermitsStep ==
  ASSUME IsFiniteSet(Task), Typed, Typed', PermitsAddUp, Next
  PROVE  PermitsAddUp'
<1>1. permits \in Nat /\ permits' \in Nat
  BY DEF Typed, TasksTyped
<1>2. UNCHANGED max_requests
  BY PermitSteps
<1>3. CASE UNCHANGED <<pc, permits>>
  BY <1>2, <1>3 DEF PermitsAddUp, Awaiting
<1>4. ASSUME NEW t \in Task, Takes(t) PROVE PermitsAddUp'
  <2>1. pc[t] = "wait" /\ Set(pc, t, "await") /\ permits' = permits - 1
    BY <1>4 DEF Takes, Awaits
  <2>2. Cardinality(Awaiting) \in Nat /\ Cardinality(Awaiting') = Cardinality(Awaiting) + 1
    BY <2>1, AwaitingChanges
  <2> QED
    BY <1>1, <1>2, <2>1, <2>2 DEF PermitsAddUp
<1>5. ASSUME NEW t \in Task, Returns(t) PROVE PermitsAddUp'
  <2>1. PICK v \in Outcomes : Set(pc, t, v)
    BY <1>5 DEF Returns, Leaves
  <2>2. pc[t] = "await" /\ v # "await" /\ permits' = permits + 1
    BY <1>5 DEF Returns, Leaves, Outcomes
  <2>3. Cardinality(Awaiting) \in Nat /\ Cardinality(Awaiting') = Cardinality(Awaiting) - 1
    BY <2>1, <2>2, AwaitingChanges
  <2> QED
    BY <1>1, <1>2, <2>2, <2>3 DEF PermitsAddUp
<1>6. ASSUME NEW t \in Task, Moves(t) PROVE PermitsAddUp'
  <2>1. PICK v \in {"wait"} \cup Outcomes : Set(pc, t, v)
    BY <1>6 DEF Moves
  <2>2. pc[t] # "await" /\ v # "await" /\ permits' = permits
    BY <1>6 DEF Moves, Outcomes
  <2>3. Awaiting' = Awaiting
    BY <2>1, <2>2, AwaitingChanges
  <2> QED
    BY <1>2, <2>2, <2>3 DEF PermitsAddUp
<1> QED
  BY <1>3, <1>4, <1>5, <1>6, PermitSteps

LEMMA TypedInit ==
  ASSUME IsFiniteSet(Task), Init
  PROVE  Typed /\ PermitsAddUp
<1>1. max_requests \in Nat /\ RingSize \in Nat /\ RingSize > 0 /\ max_requests \in MaxRequests
  BY RingHasRoom DEF Init
<1>2. TasksTyped
  <2>1. MaxCancels \in Nat
    BY AdapterAssumption
  <2> QED
    BY <1>1, <2>1 DEF Init, TasksTyped
<1>3. QueuesTyped
  BY <1>1 DEF Init, QueuesTyped
<1>4. BackendTyped
  BY DEF Init, BackendTyped
<1>5. Awaiting = {}
  BY DEF Init, Awaiting
<1>6. PermitsAddUp
  BY <1>1, <1>5, FS_EmptySet DEF Init, PermitsAddUp
<1> QED
  BY <1>2, <1>3, <1>4, <1>6 DEF Typed

LEMMA TypedStutter ==
  ASSUME Typed, PermitsAddUp, UNCHANGED vars
  PROVE  Typed' /\ PermitsAddUp'
<1> USE DEF vars, config, tasks, batch, backend
<1>1. TasksTyped' /\ BackendTyped'
  BY DEF Typed, TasksTyped, BackendTyped
<1>2. QueuesTyped'
  BY DEF Typed, QueuesTyped, RingSize
<1>3. PermitsAddUp'
  BY DEF PermitsAddUp, Awaiting
<1> QED
  BY <1>1, <1>2, <1>3 DEF Typed

(* The variables have their types, and the permits and the tasks that      *)
(* await add up to max_requests: no path of submit() loses a permit or     *)
(* gives one back twice.                                                   *)
THEOREM PermitsAreKept ==
  ASSUME IsFiniteSet(Task)
  PROVE  Spec => []TypeOK
<1> DEFINE Inv == Typed /\ PermitsAddUp
<1>1. Init => Inv
  BY TypedInit
<1>2. Inv /\ [Next]_vars => Inv'
  BY TypesStep, PermitsStep, TypedStutter
<1>3. Inv => TypeOK
  <2> SUFFICES ASSUME Inv PROVE TypeOK
    OBVIOUS
  <2>1. Cardinality(Awaiting) \in Nat
    <3>1. Awaiting \in SUBSET Task
      BY DEF Awaiting
    <3> QED
      BY <3>1, FS_Subset, FS_CardinalityType
  <2>2. permits \in 0 .. max_requests /\ permits + Cardinality(Awaiting) = max_requests
    BY <2>1 DEF PermitsAddUp, Typed, TasksTyped
  <2>3. {scheduled, signalled, closed} \subseteq BOOLEAN
    BY DEF Typed, BackendTyped
  <2> QED
    BY <2>2, <2>3 DEF TypeOK, Awaiting, Typed, TasksTyped, QueuesTyped, BackendTyped
<1> QED
  BY <1>1, <1>2, <1>3, PTL DEF Spec

-----------------------------------------------------------------------------
(* What a step does to a future: it is made when submit() begins, changed  *)
(* while it is pending, and left alone otherwise.                          *)
Made(t) == pc[t] = "new" /\ pc'[t] = "wait" /\ future'[t] = "pending"
Left(t) == future'[t] = future[t]

LEMMA FutureSteps ==
  ASSUME Typed, NEW u \in Task, Next
  PROVE  Made(u) \/ Left(u) \/ future[u] = "pending"
<1> DEFINE P == Made(u) \/ Left(u) \/ future[u] = "pending"
<1> USE DEF Typed, TasksTyped, Left, tasks, Set, SetAll, Resolved
<1>1. ASSUME NEW t \in Task, Begin(t) PROVE P
  BY <1>1 DEF Begin, Made
<1>2. ASSUME NEW t \in Task, StageAndFlush(t) PROVE P
  BY <1>2 DEF StageAndFlush, Flushes
<1>3. ASSUME NEW t \in Task, StageForThread(t) PROVE P
  BY <1>3 DEF StageForThread
<1>4. ASSUME NEW t \in Task, RunHandedOver(t) PROVE P
  BY <1>4 DEF RunHandedOver, ResolvedIfNotDone
<1>5. ASSUME NEW t \in Task, Cancel(t) PROVE P
  BY <1>5 DEF Cancel
<1>6. ASSUME NEW t \in Task, CancelsInKernel(t) PROVE P
  BY <1>6 DEF CancelsInKernel
<1>7. ASSUME NEW t \in Task,
             Refused(t) \/ Queue(t) \/ Submit(t) \/ Stage(t) \/ HandOver(t) \/ Resume(t)
               \/ CancelsNothing(t) \/ CancelsByRing(t)
      PROVE  P
  BY <1>7 DEF Refused, Queue, Submit, Stage, HandOver, Resume, CancelsNothing, CancelsByRing
<1>8. ASSUME NEW o \in Op, Complete(o) \/ CompleteInPool(o) PROVE P
  BY <1>8 DEF Complete, CompleteInPool
<1>9. CASE KernelTakes \/ Poll \/ Close
  BY <1>9 DEF KernelTakes, Poll, Close
<1>10. CASE DeferredFlush
  BY <1>10 DEF DeferredFlush, Flushes
<1>11. CASE ProcessEvents
  BY <1>11 DEF ProcessEvents
<1>12. CASE DeferredSubmit
  <2> DEFINE waiting == {t \in Task : future[t] = "pending"}
             ts == Only(pending, waiting)
  <2>1. /\ ts \in Seq(Task \cap waiting)
    <3> HIDE DEF waiting
    <3> QED
      BY OnlyElements DEF QueuesTyped
  <2> HIDE DEF ts
  <2>2. \E n \in 0 .. Len(Claimed(ts)) : future' = SetAll(future, PastAccepted(ts, n), "error")
    BY <1>12 DEF DeferredSubmit, ts
  <2>3. ASSUME NEW n \in 0 .. Len(Claimed(ts)) PROVE PastAccepted(ts, n) \subseteq waiting
    <3>1. \A i \in 1 .. Len(ts) : ts[i] \in waiting
      BY <2>1
    <3>2. Len(ts) \in Nat /\ \A i \in n + 1 .. Len(ts) : i \in 1 .. Len(ts)
      BY <2>1
    <3> HIDE DEF waiting
    <3> QED
      BY <3>1, <3>2 DEF PastAccepted
  <2> QED
    BY <2>2, <2>3
<1> HIDE DEF P
<1> QED
  BY <1>1, <1>2, <1>3, <1>4, <1>5, <1>6, <1>7, <1>8, <1>9, <1>10, <1>11, <1>12,
     Steps DEF P

LEMMA NoneYetStep ==
  ASSUME Typed, NoneYet, Next
  PROVE  NoneYet'
<1> SUFFICES ASSUME NEW u \in Task, pc'[u] = "new" PROVE future'[u] = "none"
  BY DEF NoneYet
<1>1. pc[u] = "new"
  <2>1. CASE UNCHANGED <<pc, permits>>
    BY <2>1
  <2>2. ASSUME NEW t \in Task, Takes(t) \/ Returns(t) \/ Moves(t) PROVE pc[u] = "new"
    <3>1. \E v \in {"await", "wait"} \cup Outcomes : Set(pc, t, v)
      BY <2>2 DEF Takes, Returns, Moves, Awaits, Leaves
    <3> QED
      BY <3>1 DEF Set, Outcomes, Typed, TasksTyped
  <2> QED
    BY <2>1, <2>2, PermitSteps
<1>2. future[u] = "none"
  BY <1>1 DEF NoneYet
<1> QED
  BY <1>2, FutureSteps DEF Made, Left

(* A future is settled once, whoever else has a result for it.             *)
THEOREM FuturesSettleOnce ==
  ASSUME IsFiniteSet(Task)
  PROVE  Spec => SettledOnce
<1> DEFINE Inv == Typed /\ PermitsAddUp /\ NoneYet
           Stays == \A t \in Task : future[t] \notin {"none", "pending"} => future'[t] = future[t]
<1>1. Init => Inv
  BY TypedInit DEF Init, NoneYet
<1>2. Inv /\ [Next]_vars => Inv'
  BY TypesStep, PermitsStep, TypedStutter, NoneYetStep DEF vars, tasks, NoneYet
<1>3. Inv /\ [Next]_vars => [Stays]_vars
  <2>1. ASSUME Inv, Next PROVE Stays
    BY <2>1, FutureSteps DEF Made, Left, NoneYet
  <2> QED
    BY <2>1
<1> QED
  BY <1>1, <1>2, <1>3, PTL DEF Spec, SettledOnce

-----------------------------------------------------------------------------
(* What the actions are made of does to the stages of the Operations.      *)
LEMMA ResolvedAreDone ==
  ASSUME \A o \in Op : CallsBack(o), NoTask \notin Task, NEW S \in SUBSET Op,
         \A o \in S : stage'[o] = "done", NEW t \in Resolved(S)
  PROVE  stage'[operation[t]] = "done"
<1>1. PICK o \in S : callback[o] = t
  BY DEF Resolved
<1>2. t \in Task
  BY DEF Resolved
<1>3. operation[t] = o
  BY <1>1, <1>2 DEF CallsBack
<1> QED
  BY <1>1, <1>3

(* An Operation that is done stays so, and one that is new goes on only    *)
(* for a task that is then neither about to submit it, nor in the batch,   *)
(* nor denied.                                                             *)
Gone(t) == ~Before(t)' /\ ~Batched(t)' /\ ~Denied(t)'
Keeps(o) ==
  /\ stage[o] = "done" => stage'[o] = "done"
  /\ stage[o] = "new" => stage'[o] = "new" \/ \E t \in Task : operation[t] = o /\ Gone(t)

LEMMA FlushStages ==
  ASSUME Typed, \A o \in Op : CallsBack(o), NoTask \notin Task \cup Op,
         NEW entries \in Seq(Op \cup {NoTask}), NEW inline \in SUBSET Op,
         \A o \in Op : Has(entries, o) => stage[o] \in {"new", "staged"},
         Flushes(entries, inline)
  PROVE  /\ \A o \in Op : stage[o] = "done" => stage'[o] = "done"
         /\ \A o \in Op : ~Has(entries, o) /\ stage[o] # "ring" => stage'[o] = stage[o]
         /\ \A o \in inline : stage'[o] = "done"
         /\ \A t \in Task : \/ future'[t] = future[t]
                            \/ /\ future'[t] = "result" /\ future[t] = "pending"
                               /\ stage'[operation[t]] = "done"
<1> DEFINE done == inline \cup {o \in Op : stage[o] = "ring"}
<1>1. \A o : o \in Elements(entries) <=> Has(entries, o)
  BY DEF Elements, Has
<1>2. inline \subseteq Elements(entries)
  BY DEF Flushes
<1>3. \A o \in Op : stage'[o] = IF o \in done THEN "done"
                                ELSE IF o \in Elements(entries) THEN "kernel"
                                ELSE stage[o]
  BY DEF Flushes
<1>4. future' = SetAll(future, Resolved(done), "result")
  BY DEF Flushes
<1>5. \A o \in done : o \in Op /\ stage'[o] = "done"
  BY <1>3
<1>6. \A o \in Op : stage[o] = "done" => stage'[o] = "done"
  BY <1>1, <1>3
<1>7. \A o \in Op : ~Has(entries, o) /\ stage[o] # "ring" => stage'[o] = stage[o]
  BY <1>1, <1>2, <1>3
<1> HIDE DEF done
<1>8. ASSUME NEW t \in Task
      PROVE  \/ future'[t] = future[t]
             \/ /\ future'[t] = "result" /\ future[t] = "pending"
                /\ stage'[operation[t]] = "done"
  <2>1. CASE t \in Resolved(done)
    <3>1. future'[t] = "result"
      BY <1>4, <2>1 DEF SetAll, Typed, TasksTyped
    <3>2. future[t] = "pending"
      BY <2>1 DEF Resolved
    <3>3. stage'[operation[t]] = "done"
      BY <1>5, <2>1, ResolvedAreDone
    <3> QED
      BY <3>1, <3>2, <3>3
  <2>2. CASE t \notin Resolved(done)
    BY <1>4, <2>2 DEF SetAll, Typed, TasksTyped
  <2> QED
    BY <2>1, <2>2
<1> QED
  BY <1>5, <1>6, <1>7, <1>8 DEF done

LEMMA StagedAppend ==
  ASSUME Typed, StagedOnce, NEW e \in Op \cup {NoTask}
  PROVE  \A x : Has(Append(sq, e), x) <=> Has(sq, x) \/ x = e
BY AppendElements DEF Typed, QueuesTyped

(* _deferred_submit: what is left of the batch is claimed as it is; a part *)
(* of it is accepted, and the others are denied.                           *)
Accepts(accepted, denied) ==
  /\ accepted \cap denied = {}
  /\ \A t \in accepted \cup denied : Batched(t) /\ future[t] = "pending"
  /\ \A o \in Op : stage'[o] = IF \E t \in accepted : operation[t] = o THEN "kernel" ELSE stage[o]
  /\ \A t \in Task : future'[t] = IF t \in denied THEN "error" ELSE future[t]
  /\ pending' = <<>>

LEMMA BatchIsClaimed ==
  ASSUME Fresh, Typed, Truthful, operation \in [Task -> Op]
  PROVE  LET ts == Only(pending, {t \in Task : future[t] = "pending"}) IN
         /\ ts \in Seq(Task) /\ Once(ts) /\ Claimed(ts) = ts
         /\ \A t : Has(ts, t) => t \in Task /\ Batched(t) /\ future[t] = "pending"
<1> DEFINE waiting == {t \in Task : future[t] = "pending"}
           ts == Only(pending, waiting)
<1>1. /\ ts \in Seq(Task \cap waiting) /\ Once(ts)
      /\ \A t : Has(ts, t) <=> Has(pending, t) /\ t \in waiting
  <2> HIDE DEF waiting
  <2> QED
    BY OnlyElements DEF Typed, QueuesTyped, Truthful
<1>2. \A t : Has(ts, t) => t \in Task /\ Batched(t) /\ future[t] = "pending"
  BY <1>1 DEF Batched
<1> HIDE DEF ts, waiting
<1>3. ts \in Seq(Task) /\ Len(ts) \in Nat /\ \A i \in 1 .. Len(ts) : ts[i] \in Task
  BY <1>1
<1>4. ASSUME NEW i \in 1 .. Len(ts)
      PROVE  /\ stage[operation[ts[i]]] = "new"
             /\ \A j \in 1 .. i - 1 : operation[ts[j]] # operation[ts[i]]
  <2>1. Batched(ts[i])
    BY <1>2 DEF Has
  <2>2. stage[operation[ts[i]]] = "new"
    BY <1>3, <2>1 DEF Truthful, NotWithBackend
  <2>3. ASSUME NEW j \in 1 .. i - 1 PROVE operation[ts[j]] # operation[ts[i]]
    <3>1. j \in 1 .. Len(ts) /\ j # i
      BY <1>3
    <3>2. ts[j] # ts[i]
      BY <1>1, <3>1 DEF Once
    <3> QED
      BY <1>3, <3>1, <3>2 DEF Fresh
  <2> QED
    BY <2>2, <2>3
<1>5. Claimed(ts) = Only(ts, Task)
  <2> DEFINE new == {i \in 1 .. Len(ts) :
                       /\ stage[operation[ts[i]]] = "new"
                       /\ \A j \in 1 .. i - 1 : operation[ts[j]] # operation[ts[i]]}
  <2>1. new = 1 .. Len(ts)
    BY <1>4
  <2> HIDE DEF new
  <2>2. [i \in 1 .. Len(ts) |-> IF i \in new THEN ts[i] ELSE NoTask] = [i \in 1 .. Len(ts) |-> ts[i]]
    BY <2>1
  <2>3. ts = [i \in 1 .. Len(ts) |-> ts[i]]
    BY <1>3
  <2> QED
    BY <2>2, <2>3 DEF Claimed, new
<1>6. Only(ts, Task) = ts
  BY <1>3, OnlyAll
<1> QED
  BY <1>1, <1>2, <1>3, <1>5, <1>6 DEF ts, waiting

LEMMA DeferredSubmitAccepts ==
  ASSUME Fresh, Typed, Truthful, operation \in [Task -> Op], DeferredSubmit
  PROVE  \E accepted, denied \in SUBSET Task : Accepts(accepted, denied)
<1> DEFINE ts == Only(pending, {t \in Task : future[t] = "pending"})
<1>1. /\ ts \in Seq(Task) /\ Once(ts) /\ Claimed(ts) = ts
      /\ \A t : Has(ts, t) => t \in Task /\ Batched(t) /\ future[t] = "pending"
  BY BatchIsClaimed
<1> HIDE DEF ts
<1>2. PICK n \in 0 .. Len(ts) :
        /\ stage' = SetAll(stage, {operation[ts[i]] : i \in 1 .. n}, "kernel")
        /\ future' = SetAll(future, PastAccepted(ts, n), "error")
  <2>1. \E n \in 0 .. Len(Claimed(ts)) :
          /\ stage' = SetAll(stage, {operation[Claimed(ts)[i]] : i \in 1 .. n}, "kernel")
          /\ future' = SetAll(future, PastAccepted(ts, n), "error")
    BY DEF DeferredSubmit, ts
  <2> QED
    BY <1>1, <2>1
<1>3. pending' = <<>>
  BY DEF DeferredSubmit
<1> DEFINE accepted == {ts[i] : i \in 1 .. n}
           denied == {ts[i] : i \in n + 1 .. Len(ts)}
<1>4. /\ Len(ts) \in Nat /\ n \in Nat /\ n <= Len(ts)
      /\ \A i \in 1 .. n : i \in 1 .. Len(ts)
      /\ \A i \in n + 1 .. Len(ts) : i \in 1 .. Len(ts) /\ i \notin 1 .. n
  BY <1>1
<1>5. \A t \in accepted \cup denied : Has(ts, t)
  BY <1>4 DEF Has
<1>6. accepted \cap denied = {}
  BY <1>1, <1>4 DEF Once
<1>7. accepted \in SUBSET Task /\ denied \in SUBSET Task
  BY <1>1, <1>5
<1>8. \A o \in Op : stage'[o] = IF \E t \in accepted : operation[t] = o THEN "kernel" ELSE stage[o]
  BY <1>2 DEF SetAll, Typed, BackendTyped
<1>9. \A t \in Task : future'[t] = IF t \in denied THEN "error" ELSE future[t]
  BY <1>2 DEF SetAll, PastAccepted, Typed, TasksTyped
<1> HIDE DEF accepted, denied
<1>10. Accepts(accepted, denied)
  BY <1>1, <1>3, <1>5, <1>6, <1>8, <1>9 DEF Accepts
<1> QED
  BY <1>7, <1>10

-----------------------------------------------------------------------------
LEMMA CallsBackStep ==
  ASSUME Typed, operation \in [Task -> Op], \A o \in Op : CallsBack(o), Next
  PROVE  \A o \in Op : CallsBack(o)'
<1> DEFINE P == \A o \in Op : CallsBack(o)'
<1> USE DEF CallsBack, backend
<1>1. ASSUME NEW t \in Task, Begin(t) PROVE P
  BY <1>1 DEF Begin, Set, Typed, BackendTyped
<1>2. ASSUME NEW t \in Task,
             Refused(t) \/ Queue(t) \/ Submit(t) \/ Stage(t) \/ StageAndFlush(t)
               \/ StageForThread(t) \/ HandOver(t) \/ RunHandedOver(t) \/ Cancel(t) \/ Resume(t)
               \/ CancelsNothing(t) \/ CancelsInKernel(t) \/ CancelsByRing(t)
      PROVE  callback' = callback
  BY <1>2 DEF Refused, Queue, Submit, Stage, StageAndFlush, StageForThread, HandOver,
              RunHandedOver, Cancel, Resume, CancelsNothing, CancelsInKernel, CancelsByRing
<1>3. ASSUME NEW o \in Op, Complete(o) \/ CompleteInPool(o) PROVE callback' = callback
  BY <1>3 DEF Complete, CompleteInPool
<1>4. ASSUME KernelTakes \/ DeferredFlush \/ DeferredSubmit \/ Poll \/ ProcessEvents \/ Close
      PROVE  callback' = callback
  BY <1>4 DEF KernelTakes, DeferredFlush, DeferredSubmit, Poll, ProcessEvents, Close
<1>5. ASSUME callback' = callback PROVE P
  BY <1>5
<1> HIDE DEF P
<1> QED
  BY <1>1, <1>2, <1>3, <1>4, <1>5, Steps DEF P

LEMMA PendingOnceStep ==
  ASSUME Typed, Truthful, Next
  PROVE  Once(pending')
<1> DEFINE P == Once(pending')
<1> USE DEF batch
<1>1. ASSUME NEW t \in Task, Queue(t) PROVE P
  <2>1. Before(t) /\ pending' = Append(pending, t)
    BY <1>1 DEF Queue, Entering, Before
  <2>2. ~Has(pending, t) /\ Once(pending) /\ pending \in Seq(Task)
    BY <2>1 DEF Truthful, NotWithBackend, Batched, Typed, QueuesTyped
  <2> QED
    BY <2>1, <2>2, AppendElements
<1>2. CASE DeferredSubmit
  BY <1>2, OnceEmpty DEF DeferredSubmit
<1>3. ASSUME NEW t \in Task,
             Begin(t) \/ Refused(t) \/ Submit(t) \/ Stage(t) \/ StageAndFlush(t)
               \/ StageForThread(t) \/ HandOver(t) \/ RunHandedOver(t) \/ Cancel(t) \/ Resume(t)
               \/ CancelsNothing(t) \/ CancelsInKernel(t) \/ CancelsByRing(t)
      PROVE  pending' = pending
  BY <1>3 DEF Begin, Refused, Submit, Stage, StageAndFlush, StageForThread, HandOver,
              RunHandedOver, Cancel, Resume, CancelsNothing, CancelsInKernel, CancelsByRing
<1>4. ASSUME NEW o \in Op, Complete(o) \/ CompleteInPool(o) PROVE pending' = pending
  BY <1>4 DEF Complete, CompleteInPool
<1>5. ASSUME KernelTakes \/ DeferredFlush \/ Poll \/ ProcessEvents \/ Close
      PROVE  pending' = pending
  BY <1>5 DEF KernelTakes, DeferredFlush, Poll, ProcessEvents, Close
<1>6. ASSUME pending' = pending PROVE P
  BY <1>6 DEF Truthful
<1> HIDE DEF P
<1> QED
  BY <1>1, <1>2, <1>3, <1>4, <1>5, <1>6, Steps DEF P

(* Nothing but a flush, the kernel's thread and cancel() takes entries out *)
(* of the ring, and all of them take what they hand over.                  *)
LEMMA StagedOnceAppend ==
  ASSUME Typed, StagedOnce, NEW o \in Op, stage[o] # "staged",
         sq' = Append(sq, o), stage'[o] = "staged",
         \A x \in Op : stage[x] = "staged" => stage'[x] = "staged"
  PROVE  StagedOnce'
<1>1. sq \in Seq(Op \cup {NoTask}) /\ Len(sq) \in Nat
  BY DEF Typed, QueuesTyped
<1>2. /\ Len(sq') = Len(sq) + 1 /\ sq'[Len(sq) + 1] = o
      /\ \A i \in 1 .. Len(sq) : sq'[i] = sq[i]
  BY <1>1
<1>3. ASSUME NEW x \in Op, Has(sq', x) PROVE stage'[x] = "staged"
  BY <1>3, StagedAppend DEF StagedOnce
<1>4. \A i \in 1 .. Len(sq) : sq[i] # o
  BY DEF StagedOnce, Has
<1>5. ASSUME NEW i \in 1 .. Len(sq'), NEW j \in 1 .. Len(sq'), sq'[i] = sq'[j], sq'[i] \in Op
      PROVE  i = j
  <2>1. CASE i <= Len(sq) /\ j <= Len(sq)
    BY <1>1, <1>2, <1>5, <2>1 DEF StagedOnce
  <2>2. CASE i = Len(sq) + 1 \/ j = Len(sq) + 1
    BY <1>1, <1>2, <1>4, <1>5, <2>2
  <2> QED
    BY <1>1, <1>2, <2>1, <2>2
<1> QED
  BY <1>3, <1>5 DEF StagedOnce

LEMMA StagedOnceTail ==
  ASSUME Typed, StagedOnce, NoTask \notin Op, sq' = Tail(Append(sq, NoTask)),
         stage' = SetAll(stage, {Head(Append(sq, NoTask))}, "kernel")
  PROVE  StagedOnce'
<1> DEFINE ring == Append(sq, NoTask)
<1>1. sq \in Seq(Op \cup {NoTask}) /\ Len(sq) \in Nat
  BY DEF Typed, QueuesTyped
<1>2. /\ ring \in Seq(Op \cup {NoTask}) /\ Len(ring) = Len(sq) + 1
      /\ \A i \in 1 .. Len(sq) : ring[i] = sq[i]
      /\ ring[Len(sq) + 1] = NoTask
  BY <1>1
<1>3. ring # <<>>
  <2> HIDE DEF ring
  <2> QED
    BY <1>1, <1>2, EmptySeq
<1> HIDE DEF ring
<1>4. /\ Len(Tail(ring)) = Len(sq) /\ Head(ring) = ring[1]
      /\ \A i \in 1 .. Len(sq) : Tail(ring)[i] = ring[i + 1]
  BY <1>1, <1>2, <1>3
<1>5. ASSUME NEW i \in 1 .. Len(ring), ring[i] \in Op
      PROVE  i \in 1 .. Len(sq) /\ ring[i] = sq[i] /\ Has(sq, ring[i])
  BY <1>1, <1>2, <1>5 DEF Has
<1>6. ASSUME NEW i \in 1 .. Len(ring), NEW j \in 1 .. Len(ring), ring[i] = ring[j], ring[i] \in Op
      PROVE  i = j
  BY <1>5, <1>6 DEF StagedOnce
<1>7. sq' = Tail(ring) /\ Len(sq') = Len(sq)
  BY <1>4 DEF ring
<1>8. \A i \in 1 .. Len(sq') : i + 1 \in 1 .. Len(ring) /\ sq'[i] = ring[i + 1]
  BY <1>1, <1>2, <1>4, <1>7
<1>9. \A x \in Op : stage'[x] = IF x = Head(ring) THEN "kernel" ELSE stage[x]
  BY DEF SetAll, ring, Typed, BackendTyped
<1>10. ASSUME NEW i \in 1 .. Len(sq'), sq'[i] \in Op PROVE stage'[sq'[i]] = "staged"
  <2>1. i + 1 \in 1 .. Len(ring) /\ 1 \in 1 .. Len(ring) /\ sq'[i] = ring[i + 1]
    BY <1>1, <1>2, <1>8
  <2>2. stage[sq'[i]] = "staged"
    BY <1>5, <1>10, <2>1 DEF StagedOnce
  <2>3. sq'[i] # Head(ring)
    <3>1. i + 1 # 1
      BY <1>1, <1>7
    <3> QED
      BY <1>4, <1>6, <1>10, <2>1, <3>1
  <2> QED
    BY <1>9, <1>10, <2>2, <2>3
<1>11. ASSUME NEW i \in 1 .. Len(sq'), NEW j \in 1 .. Len(sq'), sq'[i] = sq'[j], sq'[i] \in Op
       PROVE  i = j
  <2>2. i + 1 = j + 1
    BY <1>6, <1>11, <1>8
  <2> QED
    BY <1>1, <1>7, <2>2
<1> QED
  BY <1>10, <1>11 DEF StagedOnce, Has

LEMMA StagedOnceStep ==
  ASSUME Fresh, Typed, Truthful, operation \in [Task -> Op], NoTask \notin Op, Next
  PROVE  StagedOnce'
<1> DEFINE P == StagedOnce'
<1>1. StagedOnce
  BY DEF Truthful
<1>2. ASSUME sq' = sq, \A x \in Op : stage[x] = "staged" => stage'[x] = "staged" PROVE P
  BY <1>1, <1>2 DEF StagedOnce, Has
<1>3. ASSUME sq' = <<>> PROVE P
  BY <1>3 DEF StagedOnce, Has
<1> HIDE DEF P
<1> USE DEF Set, SetAll, backend, Typed, BackendTyped
<1>4. ASSUME NEW t \in Task,
             Begin(t) \/ Refused(t) \/ Queue(t) \/ HandOver(t) \/ RunHandedOver(t) \/ Cancel(t)
               \/ Resume(t) \/ CancelsNothing(t)
      PROVE  P
  <2>1. sq' = sq /\ stage' = stage
    BY <1>4 DEF Begin, Refused, Queue, HandOver, RunHandedOver, Cancel, Resume, CancelsNothing
  <2> QED
    BY <1>2, <2>1
<1>5. ASSUME NEW t \in Task, Submit(t) PROVE P
  BY <1>2, <1>5 DEF Submit
<1>6. ASSUME NEW t \in Task, Stage(t) PROVE P
  <2>1. P = StagedOnce'
    BY DEF P
  <2> QED
    BY <1>1, <1>6, <2>1, StagedOnceAppend DEF Stage, Stageable
<1>7. ASSUME NEW t \in Task, StageAndFlush(t) PROVE P
  <2>1. CASE sq' = <<>>
    BY <1>3, <2>1
  <2>2. CASE Set(stage, operation[t], "staged") /\ sq' = Append(sq, operation[t])
    BY <1>1, <1>7, <2>2, StagedOnceAppend DEF StageAndFlush, Stageable, P
  <2> QED
    BY <1>7, <2>1, <2>2 DEF StageAndFlush
<1>8. ASSUME NEW t \in Task, StageForThread(t) PROVE P
  BY <1>1, <1>8, StagedOnceAppend DEF StageForThread, Stageable, P
<1>9. ASSUME NEW t \in Task, CancelsInKernel(t) PROVE P
  BY <1>2, <1>9 DEF CancelsInKernel
<1>10. ASSUME NEW t \in Task, CancelsByRing(t) PROVE P
  <2>1. CASE UNCHANGED <<sq, stage>>
    BY <1>2, <2>1
  <2>2. CASE sq' = Append(sq, NoTask) /\ UNCHANGED stage
    <3>1. /\ sq \in Seq(Op \cup {NoTask}) /\ Len(sq) \in Nat
          /\ Len(sq') = Len(sq) + 1 /\ sq'[Len(sq) + 1] = NoTask
          /\ \A i \in 1 .. Len(sq) : sq'[i] = sq[i]
      BY <2>2 DEF QueuesTyped
    <3>2. \A i \in 1 .. Len(sq') : sq'[i] \in Op => i \in 1 .. Len(sq) /\ sq'[i] = sq[i]
      BY <3>1
    <3>3. \A x \in Op : Has(sq', x) => Has(sq, x)
      BY <3>2 DEF Has
    <3>4. \A x \in Op : Has(sq', x) => stage'[x] = "staged"
      BY <1>1, <2>2, <3>3 DEF StagedOnce
    <3>5. \A i, j \in 1 .. Len(sq') : sq'[i] = sq'[j] /\ sq'[i] \in Op => i = j
      BY <1>1, <3>2 DEF StagedOnce
    <3> QED
      BY <3>4, <3>5 DEF P, StagedOnce
  <2>3. CASE /\ sq' = Tail(Append(sq, NoTask))
             /\ stage' = SetAll(stage, {Head(Append(sq, NoTask))}, "kernel")
    BY <1>1, <2>3, StagedOnceTail DEF P
  <2> QED
    BY <1>10, <2>1, <2>2, <2>3 DEF CancelsByRing
<1>11. ASSUME NEW o \in Op, Complete(o) \/ CompleteInPool(o) PROVE P
  BY <1>2, <1>11 DEF Complete, CompleteInPool
<1>12. ASSUME KernelTakes PROVE P
  BY <1>3, <1>12 DEF KernelTakes
<1>13. ASSUME DeferredFlush PROVE P
  BY <1>2, <1>3, <1>13 DEF DeferredFlush
<1>14. ASSUME DeferredSubmit PROVE P
  <2>1. PICK accepted, denied \in SUBSET Task : Accepts(accepted, denied)
    BY <1>14, DeferredSubmitAccepts
  <2>2. \A t \in accepted : stage[operation[t]] = "new"
    BY <2>1 DEF Accepts, Truthful, NotWithBackend
  <2>3. sq' = sq
    BY <1>14 DEF DeferredSubmit
  <2> QED
    BY <1>2, <2>1, <2>2, <2>3 DEF Accepts
<1>15. ASSUME Poll \/ Close PROVE P
  BY <1>2, <1>15 DEF Poll, Close
<1>16. ASSUME ProcessEvents PROVE P
  BY <1>2, <1>16 DEF ProcessEvents
<1> QED
  BY <1>4, <1>5, <1>6, <1>7, <1>8, <1>9, <1>10, <1>11, <1>12, <1>13, <1>14, <1>15,
     <1>16, Steps DEF P

-----------------------------------------------------------------------------
(* Who enters the backend was about to, and is neither queued nor denied.  *)
LEMMA GoesOn ==
  ASSUME Typed, NEW t \in Task, NotWithBackend(t), Before(t),
         \E v \in {"await", "returned", "raised"} : Set(pc, t, v),
         pending' = pending, future'[t] \in {future[t], "result"}
  PROVE  Gone(t)
<1>1. pc'[t] \in {"await", "returned", "raised"}
  BY DEF Set, Typed, TasksTyped
<1>2. ~Batched(t) /\ ~Denied(t)
  BY DEF NotWithBackend
<1> QED
  BY <1>1, <1>2 DEF Gone, Before, Batched, Denied

LEMMA StageSteps ==
  ASSUME Fresh, Typed, Truthful, operation \in [Task -> Op], NoTask \notin Task \cup Op, Next
  PROVE  \A o \in Op : Keeps(o)
<1> DEFINE P == \A o \in Op : Keeps(o)
<1>1. ASSUME stage' = stage PROVE P
  BY <1>1 DEF Keeps
<1>2. /\ \A o \in Op : CallsBack(o)
      /\ \A o \in Op : Has(sq, o) => stage[o] = "staged"
      /\ \A t \in Task : NotWithBackend(t)
      /\ sq \in Seq(Op \cup {NoTask})
  BY DEF Truthful, StagedOnce, Typed, QueuesTyped
<1>3. ASSUME \A o \in Op : stage[o] \in {"new", "done"} => stage'[o] = stage[o] PROVE P
  BY <1>3 DEF Keeps
<1>4. ASSUME NEW t \in Task, Gone(t),
             \A o \in Op : o # operation[t] /\ stage[o] \in {"new", "done"} => stage'[o] = stage[o],
             stage[operation[t]] = "new"
      PROVE  P
  BY <1>4 DEF Keeps
<1> HIDE DEF P
<1> USE DEF Set, SetAll, backend, batch, Typed, BackendTyped, TasksTyped
<1>5. ASSUME NEW t \in Task,
             Begin(t) \/ Refused(t) \/ Queue(t) \/ HandOver(t) \/ RunHandedOver(t) \/ Cancel(t)
               \/ Resume(t) \/ CancelsNothing(t)
      PROVE  stage' = stage
  BY <1>5 DEF Begin, Refused, Queue, HandOver, RunHandedOver, Cancel, Resume, CancelsNothing
<1>6. ASSUME NEW t \in Task, Submit(t) PROVE P
  <2>1. Before(t) /\ Set(pc, t, "await") /\ pending' = pending /\ future' = future
    BY <1>6 DEF Submit, Entering, Awaits, Before
  <2>2. Gone(t)
    BY <1>2, <2>1, GoesOn
  <2> QED
    BY <1>4, <1>6, <2>2 DEF Submit
<1>7. ASSUME NEW t \in Task, Stage(t) PROVE P
  <2>1. Before(t) /\ Set(pc, t, "await") /\ pending' = pending /\ future' = future
    BY <1>7 DEF Stage, Entering, Awaits, Before
  <2>2. Gone(t)
    BY <1>2, <2>1, GoesOn
  <2> QED
    BY <1>4, <1>7, <2>2 DEF Stage, Stageable
<1>8. ASSUME NEW t \in Task, StageAndFlush(t) PROVE P
  <2> DEFINE o == operation[t]
             entries == Append(sq, o)
  <2>1. Before(t) /\ pending' = pending /\ stage[o] = "new" /\ o \in Op
    BY <1>8 DEF StageAndFlush, Entering, Before, Stageable
  <2>2. \E v \in {"await", "returned", "raised"} : Set(pc, t, v)
    BY <1>8 DEF StageAndFlush, Awaits, Ends
  <2>3. ASSUME NEW inline \in SUBSET Op, Flushes(entries, inline) PROVE P
    <3>1. \A x : Has(entries, x) <=> Has(sq, x) \/ x = o
      BY <1>2, <2>1, StagedAppend DEF Truthful
    <3>2. entries \in Seq(Op \cup {NoTask})
      BY <1>2, <2>1
    <3> HIDE DEF entries, o
    <3>3. \A x \in Op : Has(entries, x) => stage[x] \in {"new", "staged"}
      BY <1>2, <2>1, <3>1
    <3>4. /\ \A x \in Op : stage[x] = "done" => stage'[x] = "done"
          /\ \A x \in Op : ~Has(entries, x) /\ stage[x] # "ring" => stage'[x] = stage[x]
          /\ future'[t] \in {future[t], "result"}
      BY <1>2, <2>3, <3>2, <3>3, FlushStages
    <3>5. \A x \in Op : x # o /\ stage[x] \in {"new", "done"} => stage'[x] = stage[x]
      BY <1>2, <3>1, <3>4
    <3>6. Gone(t)
      BY <1>2, <2>1, <2>2, <3>4, GoesOn
    <3> QED
      BY <1>4, <2>1, <3>5, <3>6 DEF o
  <2>4. ASSUME Set(stage, o, "staged"), UNCHANGED future PROVE P
    <3>1. Gone(t)
      BY <1>2, <2>1, <2>2, <2>4, GoesOn
    <3> QED
      BY <1>4, <2>1, <2>4, <3>1
  <2> QED
    BY <1>8, <2>3, <2>4 DEF StageAndFlush
<1>9. ASSUME NEW t \in Task, StageForThread(t) PROVE P
  <2>1. Before(t) /\ Set(pc, t, "await") /\ pending' = pending
        /\ stage[operation[t]] = "new"
    BY <1>9 DEF StageForThread, Entering, Awaits, Before, Stageable
  <2>2. future'[t] \in {future[t], "result"}
    BY <1>9 DEF StageForThread
  <2>3. Gone(t)
    BY <1>2, <2>1, <2>2, GoesOn
  <2>4. \A o \in Op : o # operation[t] /\ stage[o] \in {"new", "done"} => stage'[o] = stage[o]
    BY <1>9 DEF StageForThread
  <2> QED
    BY <1>4, <2>1, <2>3, <2>4
<1>10. ASSUME NEW t \in Task, CancelsInKernel(t) PROVE P
  BY <1>1, <1>3, <1>10 DEF CancelsInKernel
<1>11. ASSUME NEW t \in Task, CancelsByRing(t) PROVE P
  <2>1. CASE UNCHANGED stage
    BY <1>1, <2>1
  <2>2. CASE stage' = SetAll(stage, {Head(Append(sq, NoTask))}, "kernel")
    <3> DEFINE ring == Append(sq, NoTask)
    <3>1. \A x : Has(ring, x) <=> Has(sq, x) \/ x = NoTask
      BY StagedAppend DEF Truthful
    <3>2. ring \in Seq(Op \cup {NoTask}) /\ Len(ring) = Len(sq) + 1 /\ Len(sq) \in Nat
      BY <1>2, RingGrows
    <3>3. stage' = SetAll(stage, {Head(ring)}, "kernel")
      BY <2>2
    <3> HIDE DEF ring
    <3>4. Has(ring, Head(ring))
      <4>1. ring # <<>>
        BY <3>2, EmptySeq
      <4> QED
        BY <3>2, <4>1, HeadElements
    <3>5. Head(ring) \in Op => stage[Head(ring)] = "staged"
      BY <1>2, <3>1, <3>4
    <3> QED
      BY <1>3, <3>3, <3>5
  <2> QED
    BY <1>11, <2>1, <2>2 DEF CancelsByRing
<1>12. ASSUME NEW o \in Op, Complete(o) PROVE P
  BY <1>3, <1>12 DEF Complete
<1>13. ASSUME NEW o \in Op, CompleteInPool(o) PROVE P
  BY <1>3, <1>13 DEF CompleteInPool
<1>14. ASSUME KernelTakes PROVE P
  <2>1. \A x : x \in Elements(sq) <=> Has(sq, x)
    BY DEF Elements, Has
  <2>2. \A x \in Op : stage'[x] = IF Has(sq, x) THEN "kernel" ELSE stage[x]
    BY <1>14, <2>1 DEF KernelTakes
  <2> QED
    BY <1>2, <1>3, <2>2
<1>15. ASSUME DeferredFlush PROVE P
  <2>1. CASE stage' = stage
    BY <1>1, <2>1
  <2>2. ASSUME NEW inline \in SUBSET Op, Flushes(sq, inline) PROVE P
    <3>1. \A x \in Op : Has(sq, x) => stage[x] \in {"new", "staged"}
      BY <1>2
    <3>2. /\ \A x \in Op : stage[x] = "done" => stage'[x] = "done"
          /\ \A x \in Op : ~Has(sq, x) /\ stage[x] # "ring" => stage'[x] = stage[x]
      BY <1>2, <2>2, <3>1, FlushStages
    <3>3. \A x \in Op : stage[x] \in {"new", "done"} => stage'[x] = stage[x]
      BY <1>2, <3>2
    <3> QED
      BY <1>3, <3>3
  <2> QED
    BY <1>15, <2>1, <2>2 DEF DeferredFlush
<1>16. ASSUME DeferredSubmit PROVE P
  <2>1. PICK accepted, denied \in SUBSET Task : Accepts(accepted, denied)
    BY <1>16, DeferredSubmitAccepts
  <2>2. \A t \in accepted : stage[operation[t]] = "new" /\ ~Before(t) /\ ~Denied(t)
    BY <1>2, <2>1 DEF Accepts, NotWithBackend
  <2>3. pc' = pc /\ pending' = <<>>
    BY <1>16 DEF DeferredSubmit
  <2>4. \A t \in accepted : Gone(t)
    BY <2>1, <2>2, <2>3, HasEmpty DEF Accepts, Gone, Before, Batched, Denied
  <2> QED
    BY <2>1, <2>2, <2>4 DEF Accepts, Keeps, P
<1>17. ASSUME Poll \/ Close PROVE stage' = stage
  BY <1>17 DEF Poll, Close
<1>18. ASSUME ProcessEvents PROVE P
  BY <1>3, <1>18 DEF ProcessEvents
<1> QED
  BY <1>1, <1>5, <1>6, <1>7, <1>8, <1>9, <1>10, <1>11, <1>12, <1>13, <1>14, <1>15,
     <1>16, <1>17, <1>18, Steps DEF P

(* A result, in a future or on its way to one, is of an Operation that is  *)
(* done; and submit() returns with no other.                               *)
DoneNow(t) == stage'[operation[t]] = "done"

LEMMA ResultSteps ==
  ASSUME Typed, Truthful, operation \in [Task -> Op], NoTask \notin Task \cup Op,
         NEW u \in Task, Next
  PROVE  future'[u] = "result" => future[u] = "result" \/ handoff[u] # "none" \/ DoneNow(u)
<1> DEFINE P == future'[u] = "result" =>
                  future[u] = "result" \/ handoff[u] # "none" \/ DoneNow(u)
<1>1. Made(u) \/ Left(u) \/ future[u] = "pending"
  BY FutureSteps
<1>2. ASSUME future'[u] = future[u] PROVE P
  BY <1>2
<1>3. /\ \A o \in Op : CallsBack(o)
      /\ \A o \in Op : Has(sq, o) => stage[o] = "staged"
      /\ sq \in Seq(Op \cup {NoTask})
  BY DEF Truthful, StagedOnce, Typed, QueuesTyped
<1>4. ASSUME NEW S \in SUBSET Op, \A o \in S : stage'[o] = "done",
             future' = SetAll(future, Resolved(S), "result")
      PROVE  P
  <2>1. CASE u \in Resolved(S)
    BY <1>3, <1>4, <2>1, ResolvedAreDone DEF DoneNow
  <2>2. CASE u \notin Resolved(S)
    BY <1>2, <1>4, <2>2 DEF SetAll, Typed, TasksTyped
  <2> QED
    BY <2>1, <2>2
<1> HIDE DEF P
<1> USE DEF Set, tasks, Typed, BackendTyped, TasksTyped
<1>5. ASSUME NEW t \in Task, Begin(t) PROVE P
  BY <1>5 DEF Begin, P
<1>6. ASSUME NEW t \in Task,
             Refused(t) \/ Queue(t) \/ Submit(t) \/ Stage(t) \/ HandOver(t) \/ Resume(t)
               \/ CancelsNothing(t) \/ CancelsByRing(t)
      PROVE  future'[u] = future[u]
  BY <1>6 DEF Refused, Queue, Submit, Stage, HandOver, Resume, CancelsNothing, CancelsByRing
<1>7. ASSUME NEW t \in Task, StageAndFlush(t) PROVE P
  <2> DEFINE o == operation[t]
             entries == Append(sq, o)
  <2>1. stage[o] = "new" /\ o \in Op
    BY <1>7 DEF StageAndFlush, Stageable
  <2>2. ASSUME NEW inline \in SUBSET Op, Flushes(entries, inline) PROVE P
    <3>1. \A x : Has(entries, x) <=> Has(sq, x) \/ x = o
      BY <2>1, StagedAppend DEF Truthful
    <3>2. entries \in Seq(Op \cup {NoTask})
      BY <1>3, <2>1
    <3> HIDE DEF entries, o
    <3>3. \A x \in Op : Has(entries, x) => stage[x] \in {"new", "staged"}
      BY <1>3, <2>1, <3>1
    <3>4. future'[u] = future[u] \/ DoneNow(u)
      BY <1>3, <2>2, <3>2, <3>3, FlushStages DEF DoneNow
    <3> QED
      BY <1>2, <3>4 DEF P
  <2>3. ASSUME UNCHANGED future PROVE P
    BY <1>2, <2>3
  <2> QED
    BY <1>7, <2>2, <2>3 DEF StageAndFlush
<1>8. ASSUME NEW t \in Task, StageForThread(t) PROVE P
  <2> DEFINE done == {o \in Op : stage[o] = "ring"}
  <2>1. stage[operation[t]] = "new"
    BY <1>8 DEF StageForThread, Stageable
  <2>2. \A o \in done : stage'[o] = "done"
    BY <1>8, <2>1 DEF StageForThread
  <2>3. future' = SetAll(future, Resolved(done), "result") /\ done \in SUBSET Op
    BY <1>8 DEF StageForThread
  <2> HIDE DEF done
  <2> QED
    BY <1>4, <2>2, <2>3
<1>9. ASSUME NEW t \in Task, RunHandedOver(t) PROVE P
  BY <1>9 DEF RunHandedOver, P
<1>10. ASSUME NEW t \in Task, Cancel(t) PROVE P
  BY <1>10 DEF Cancel, P
<1>11. ASSUME NEW t \in Task, CancelsInKernel(t) PROVE P
  <2>1. CASE UNCHANGED future
    BY <1>2, <2>1
  <2>2. CASE Set(stage, operation[t], "done") /\ future' = SetAll(future, Resolved({operation[t]}), "result")
    BY <1>4, <2>2
  <2> QED
    BY <1>11, <2>1, <2>2 DEF CancelsInKernel
<1>12. ASSUME NEW o \in Op, Complete(o) \/ CompleteInPool(o) PROVE future'[u] = future[u]
  BY <1>12 DEF Complete, CompleteInPool
<1>13. ASSUME KernelTakes \/ Poll \/ Close PROVE future'[u] = future[u]
  BY <1>13 DEF KernelTakes, Poll, Close
<1>14. ASSUME DeferredFlush PROVE P
  <2>1. CASE UNCHANGED future
    BY <1>2, <2>1
  <2>2. ASSUME NEW inline \in SUBSET Op, Flushes(sq, inline) PROVE P
    <3>1. \A x \in Op : Has(sq, x) => stage[x] \in {"new", "staged"}
      BY <1>3
    <3>2. future'[u] = future[u] \/ DoneNow(u)
      BY <1>3, <2>2, <3>1, FlushStages DEF DoneNow
    <3> QED
      BY <1>2, <3>2 DEF P
  <2> QED
    BY <1>14, <2>1, <2>2 DEF DeferredFlush
<1>15. ASSUME DeferredSubmit PROVE P
  <2>1. future'[u] \in {future[u], "error"}
    BY <1>15 DEF DeferredSubmit, SetAll
  <2> QED
    BY <1>2, <2>1 DEF P
<1>16. ASSUME ProcessEvents PROVE P
  <2> DEFINE done == {o \in Op : stage[o] = "ring"}
  <2>1. /\ \A o \in done : stage'[o] = "done"
        /\ future' = SetAll(future, Resolved(done), "result") /\ done \in SUBSET Op
    BY <1>16 DEF ProcessEvents, SetAll
  <2> HIDE DEF done
  <2> QED
    BY <1>4, <2>1
<1> QED
  BY <1>2, <1>5, <1>6, <1>7, <1>8, <1>9, <1>10, <1>11, <1>12, <1>13, <1>14, <1>15,
     <1>16, Steps DEF P

LEMMA HandoffSteps ==
  ASSUME Typed, Truthful, operation \in [Task -> Op], NoTask \notin Task \cup Op,
         NEW u \in Task, Next
  PROVE  handoff'[u] # "none" => handoff[u] # "none" \/ DoneNow(u)
<1> DEFINE P == handoff'[u] # "none" => handoff[u] # "none" \/ DoneNow(u)
<1>1. ASSUME NEW o \in Op, CompleteInPool(o) PROVE P
  <2>1. \A x \in {o} : stage'[x] = "done"
    BY <1>1 DEF CompleteInPool, Set, Typed, BackendTyped
  <2>2. handoff' = SetAll(handoff, Resolved({o}), "checked")
    BY <1>1 DEF CompleteInPool
  <2>3. CASE u \in Resolved({o})
    BY <2>1, <2>3, ResolvedAreDone DEF DoneNow, Truthful
  <2>4. CASE u \notin Resolved({o})
    BY <2>2, <2>4 DEF SetAll, Typed, TasksTyped
  <2> QED
    BY <2>3, <2>4
<1>2. ASSUME NEW t \in Task, HandOver(t) \/ RunHandedOver(t) PROVE P
  BY <1>2 DEF HandOver, RunHandedOver, Set, Typed, TasksTyped
<1>3. ASSUME NEW t \in Task,
             Begin(t) \/ Refused(t) \/ Queue(t) \/ Submit(t) \/ Stage(t) \/ StageAndFlush(t)
               \/ StageForThread(t) \/ Cancel(t) \/ Resume(t)
               \/ CancelsNothing(t) \/ CancelsInKernel(t) \/ CancelsByRing(t)
      PROVE  handoff' = handoff
  BY <1>3 DEF Begin, Refused, Queue, Submit, Stage, StageAndFlush, StageForThread,
              Cancel, Resume, CancelsNothing, CancelsInKernel, CancelsByRing
<1>4. ASSUME NEW o \in Op, Complete(o) PROVE handoff' = handoff
  BY <1>4 DEF Complete
<1>5. ASSUME KernelTakes \/ DeferredFlush \/ DeferredSubmit \/ Poll \/ ProcessEvents \/ Close
      PROVE  handoff' = handoff
  BY <1>5 DEF KernelTakes, DeferredFlush, DeferredSubmit, Poll, ProcessEvents, Close
<1>6. ASSUME handoff' = handoff PROVE P
  BY <1>6
<1> HIDE DEF P
<1> QED
  BY <1>1, <1>2, <1>3, <1>4, <1>5, <1>6, Steps DEF P

LEMMA ReturnSteps ==
  ASSUME Typed, Truthful, operation \in [Task -> Op], NoTask \notin Task \cup Op,
         NEW u \in Task, Next
  PROVE  pc'[u] = "returned" => pc[u] = "returned" \/ future[u] = "result" \/ DoneNow(u)
<1> DEFINE P == pc'[u] = "returned" => pc[u] = "returned" \/ future[u] = "result" \/ DoneNow(u)
<1>1. ASSUME pc' = pc PROVE P
  BY <1>1
<1>2. ASSUME NEW t \in Task, NEW v, Set(pc, t, v), v # "returned" PROVE P
  BY <1>2 DEF Set, Typed, TasksTyped
<1> HIDE DEF P
<1>3. ASSUME NEW t \in Task,
             Begin(t) \/ Refused(t) \/ Queue(t) \/ Submit(t) \/ Stage(t) \/ StageForThread(t)
      PROVE  P
  <2>1. \E v \in {"wait", "refused", "await"} : Set(pc, t, v)
    BY <1>3 DEF Begin, Refused, Queue, Submit, Stage, StageForThread, Awaits, Ends
  <2> QED
    BY <1>2, <2>1
<1>4. ASSUME NEW t \in Task, Cancel(t) \/ CancelsNothing(t) PROVE P
  <2>1. pc' = pc \/ Set(pc, t, "cancelled")
    BY <1>4 DEF Cancel, CancelsNothing, Leaves
  <2> QED
    BY <1>1, <1>2, <2>1
<1>5. ASSUME NEW t \in Task, CancelsInKernel(t) \/ CancelsByRing(t) PROVE P
  <2>1. Leaves(t, "raised") \/ Leaves(t, "cancelled")
    BY <1>5 DEF CancelsInKernel, CancelsByRing
  <2>2. \E v \in {"raised", "cancelled"} : Set(pc, t, v)
    BY <2>1 DEF Leaves
  <2> QED
    BY <1>2, <2>2
<1>6. ASSUME NEW t \in Task, Resume(t) PROVE P
  <2>1. future[t] = "result" \/ Set(pc, t, "refused")
    BY <1>6 DEF Resume, Leaves
  <2>2. u # t => pc'[u] = pc[u]
    BY <1>6 DEF Resume, Leaves, Set, Typed, TasksTyped
  <2> QED
    BY <1>2, <2>1, <2>2 DEF P
<1>7. ASSUME NEW t \in Task, StageAndFlush(t) PROVE P
  <2> DEFINE o == operation[t]
             entries == Append(sq, o)
  <2>1. stage[o] = "new" /\ o \in Op
    BY <1>7 DEF StageAndFlush, Stageable
  <2>2. ASSUME NEW inline \in SUBSET Op, Flushes(entries, inline), o \in inline, Set(pc, t, "returned")
        PROVE  P
    <3>1. \A x : Has(entries, x) <=> Has(sq, x) \/ x = o
      BY <2>1, StagedAppend DEF Truthful
    <3>2. entries \in Seq(Op \cup {NoTask})
      BY <2>1 DEF Typed, QueuesTyped
    <3>3. \A x \in Op : Has(sq, x) => stage[x] = "staged"
      BY DEF Truthful, StagedOnce
    <3> HIDE DEF entries, o
    <3>4. \A x \in Op : Has(entries, x) => stage[x] \in {"new", "staged"}
      BY <2>1, <3>1, <3>3
    <3>5. stage'[o] = "done"
      BY <2>2, <3>2, <3>4, FlushStages DEF Truthful
    <3>6. u = t \/ pc'[u] = pc[u]
      BY <2>2 DEF Set, Typed, TasksTyped
    <3> QED
      BY <3>5, <3>6 DEF DoneNow, o, P
  <2>3. \/ \E inline \in SUBSET Op :
             Flushes(entries, inline) /\ (IF o \in inline THEN Ends(t, "returned") ELSE Awaits(t))
        \/ Ends(t, "raised")
    BY <1>7 DEF StageAndFlush
  <2> HIDE DEF entries, o
  <2>4. \/ \E inline \in SUBSET Op :
             Flushes(entries, inline) /\ o \in inline /\ Set(pc, t, "returned")
        \/ \E v \in {"await", "raised"} : Set(pc, t, v)
    BY <2>3 DEF Ends, Awaits
  <2> QED
    BY <1>2, <2>2, <2>4
<1>8. ASSUME NEW t \in Task, HandOver(t) \/ RunHandedOver(t) PROVE pc' = pc
  BY <1>8 DEF HandOver, RunHandedOver, tasks
<1>9. ASSUME NEW o \in Op, Complete(o) \/ CompleteInPool(o) PROVE pc' = pc
  BY <1>9 DEF Complete, CompleteInPool, tasks
<1>10. ASSUME KernelTakes \/ DeferredFlush \/ DeferredSubmit \/ Poll \/ ProcessEvents \/ Close
       PROVE  pc' = pc
  BY <1>10 DEF KernelTakes, DeferredFlush, DeferredSubmit, Poll, ProcessEvents, Close, tasks
<1> QED
  BY <1>1, <1>3, <1>4, <1>5, <1>6, <1>7, <1>8, <1>9, <1>10, Steps DEF P

-----------------------------------------------------------------------------
(* A task goes from submitting at once to the batch or to a refusal, and   *)
(* from the batch to a refusal, and there is no other way to these.        *)
Outside(t) == Before(t) \/ Batched(t) \/ Denied(t)
Apart(t) ==
  ~(Before(t) /\ Batched(t)) /\ ~(Before(t) /\ Denied(t)) /\ ~(Batched(t) /\ Denied(t))
Proceeds(t) == (Outside(t)' => Outside(t)) /\ Apart(t)'

LEMMA Proceeding ==
  ASSUME Typed, Truthful, operation \in [Task -> Op], Fresh, NoTask \notin Task \cup Op,
         NEW u \in Task, Next
  PROVE  Proceeds(u)
<1> DEFINE P == Proceeds(u)
<1>1. /\ Apart(u) /\ (Outside(u) => stage[operation[u]] = "new")
      /\ (future[u] = "result" \/ handoff[u] # "none" => stage[operation[u]] = "done")
      /\ \A t : Has(pending, t) => t \in Task
  <2>1. \A t : Has(pending, t) => t \in Task
    BY DEF Has, Typed, QueuesTyped
  <2> QED
    BY <2>1 DEF Truthful, NotWithBackend, ResultsAreDone, Apart, Outside
<1>2. pending \in Seq(Task)
  BY DEF Typed, QueuesTyped
<1>3. Made(u) \/ Left(u) \/ future[u] = "pending"
  BY FutureSteps
<1> USE DEF Proceeds, Outside, Apart, Before, Batched, Denied
(* Those that leave the pc and the batch alone.                            *)
<1>4. ASSUME pc' = pc, pending' = pending, future'[u] # "error" \/ future'[u] = future[u] PROVE P
  BY <1>1, <1>4
<1> HIDE DEF P
<1>5. ASSUME NEW t \in Task, NEW v \in {"await", "wait"} \cup Outcomes, Set(pc, t, v),
             pending' = pending, future'[u] # "error" \/ future'[u] = future[u],
             v = "wait" => pc[t] = "new" /\ future'[t] = "pending",
             v = "refused" => \/ Before(t)
                              \/ future[t] = "error"
      PROVE  P
  <2>1. pc'[u] = IF u = t THEN v ELSE pc[u]
    BY <1>5 DEF Set, Typed, TasksTyped
  <2> QED
    BY <1>1, <1>5, <2>1 DEF P, Outcomes
<1> USE DEF Outcomes, tasks, batch
<1>6. ASSUME NEW t \in Task, Begin(t) PROVE P
  <2>1. Set(pc, t, "wait") /\ pc[t] = "new" /\ pending' = pending /\ Set(future, t, "pending")
    BY <1>6 DEF Begin
  <2>2. future'[t] = "pending" /\ (future'[u] # "error" \/ future'[u] = future[u])
    BY <2>1 DEF Set, Typed, TasksTyped
  <2> QED
    BY <1>5, <2>1, <2>2
<1>7. ASSUME NEW t \in Task, Refused(t) PROVE P
  <2>1. Set(pc, t, "refused") /\ Before(t) /\ pending' = pending /\ future' = future
    BY <1>7 DEF Refused, Entering, Ends
  <2> QED
    BY <1>5, <2>1
<1>8. ASSUME NEW t \in Task, Queue(t) PROVE P
  <2>1. /\ pc[t] = "wait" /\ Set(pc, t, "await") /\ future' = future
        /\ pending' = Append(pending, t)
    BY <1>8 DEF Queue, Entering, Awaits
  <2>2. \A x : Has(pending', x) <=> Has(pending, x) \/ x = t
    BY <1>2, <2>1, AppendElements
  <2>3. pc'[u] = IF u = t THEN "await" ELSE pc[u]
    BY <2>1 DEF Set, Typed, TasksTyped
  <2> QED
    BY <1>1, <2>1, <2>2, <2>3 DEF P
<1>9. ASSUME NEW t \in Task, Submit(t) \/ Stage(t) PROVE P
  <2>1. Set(pc, t, "await") /\ pending' = pending /\ future' = future
    BY <1>9 DEF Submit, Stage, Awaits
  <2> QED
    BY <1>5, <2>1
<1>10. ASSUME NEW t \in Task, StageForThread(t) PROVE P
  <2>1. Set(pc, t, "await") /\ pending' = pending
    BY <1>10 DEF StageForThread, Awaits
  <2>2. future'[u] # "error" \/ future'[u] = future[u]
    BY <1>10 DEF StageForThread, SetAll, Typed, TasksTyped
  <2> QED
    BY <1>5, <2>1, <2>2
<1>11. ASSUME NEW t \in Task, StageAndFlush(t) PROVE P
  <2>1. \E v \in {"await", "returned", "raised"} : Set(pc, t, v)
    BY <1>11 DEF StageAndFlush, Awaits, Ends
  <2>2. pending' = pending
    BY <1>11 DEF StageAndFlush
  <2>3. future'[u] # "error" \/ future'[u] = future[u]
    BY <1>11 DEF StageAndFlush, Flushes, SetAll, Typed, TasksTyped
  <2> QED
    BY <1>5, <2>1, <2>2, <2>3
<1>12. ASSUME NEW t \in Task, Cancel(t) PROVE P
  <2>1. pending' = pending
    BY <1>12 DEF Cancel
  <2>2. future'[u] # "error" \/ future'[u] = future[u]
    BY <1>12 DEF Cancel, Set, Typed, TasksTyped
  <2>3. pc' = pc \/ Set(pc, t, "cancelled")
    BY <1>12 DEF Cancel
  <2> QED
    BY <1>4, <1>5, <2>1, <2>2, <2>3
<1>13. ASSUME NEW t \in Task, Resume(t) PROVE P
  <2>1. pending' = pending /\ future' = future
    BY <1>13 DEF Resume
  <2>2. Set(pc, t, "returned") \/ (future[t] = "error" /\ Set(pc, t, "refused"))
    BY <1>13 DEF Resume, Leaves
  <2> QED
    BY <1>5, <2>1, <2>2
<1>14. ASSUME NEW t \in Task, CancelsNothing(t) \/ CancelsByRing(t) PROVE P
  <2>1. pending' = pending /\ future' = future
    BY <1>14 DEF CancelsNothing, CancelsByRing
  <2>2. \E v \in {"cancelled", "raised"} : Set(pc, t, v)
    BY <1>14 DEF CancelsNothing, CancelsByRing, Leaves
  <2> QED
    BY <1>5, <2>1, <2>2
<1>15. ASSUME NEW t \in Task, CancelsInKernel(t) PROVE P
  <2>1. pending' = pending
    BY <1>15 DEF CancelsInKernel
  <2>2. future'[u] # "error" \/ future'[u] = future[u]
    BY <1>15 DEF CancelsInKernel, SetAll, Typed, TasksTyped
  <2>3. \E v \in {"cancelled", "raised"} : Set(pc, t, v)
    BY <1>15 DEF CancelsInKernel, Leaves
  <2> QED
    BY <1>5, <2>1, <2>2, <2>3
<1>16. ASSUME NEW t \in Task, HandOver(t) \/ RunHandedOver(t) PROVE P
  <2>1. pending' = pending /\ pc' = pc
    BY <1>16 DEF HandOver, RunHandedOver
  <2>2. future'[u] # "error" \/ future'[u] = future[u]
    BY <1>16 DEF HandOver, RunHandedOver, Set, Typed, TasksTyped
  <2> QED
    BY <1>4, <2>1, <2>2
<1>17. ASSUME NEW o \in Op, Complete(o) \/ CompleteInPool(o) PROVE P
  <2>1. pending' = pending /\ pc' = pc /\ future' = future
    BY <1>17 DEF Complete, CompleteInPool
  <2> QED
    BY <1>4, <2>1
<1>18. ASSUME KernelTakes \/ Poll \/ Close PROVE P
  <2>1. pending' = pending /\ pc' = pc /\ future' = future
    BY <1>18 DEF KernelTakes, Poll, Close
  <2> QED
    BY <1>4, <2>1
<1>19. ASSUME DeferredFlush \/ ProcessEvents PROVE P
  <2>1. pending' = pending /\ pc' = pc
    BY <1>19 DEF DeferredFlush, ProcessEvents
  <2>2. future'[u] # "error" \/ future'[u] = future[u]
    BY <1>19 DEF DeferredFlush, Flushes, ProcessEvents, SetAll, Typed, TasksTyped
  <2> QED
    BY <1>4, <2>1, <2>2
<1>20. ASSUME DeferredSubmit PROVE P
  <2>1. PICK accepted, denied \in SUBSET Task : Accepts(accepted, denied)
    BY <1>20, DeferredSubmitAccepts
  <2>2. pc' = pc
    BY <1>20 DEF DeferredSubmit
  <2>3. ~Has(pending', u)
    BY <2>1, HasEmpty DEF Accepts
  <2>4. future'[u] = IF u \in denied THEN "error" ELSE future[u]
    BY <2>1 DEF Accepts
  <2>5. u \in denied => Has(pending, u)
    BY <2>1 DEF Accepts
  <2> QED
    BY <1>1, <2>2, <2>3, <2>4, <2>5 DEF P
<1> QED
  BY <1>6, <1>7, <1>8, <1>9, <1>10, <1>11, <1>12, <1>13, <1>14, <1>15, <1>16, <1>17,
     <1>18, <1>19, <1>20, Steps DEF P

-----------------------------------------------------------------------------
LEMMA TruthfulStep ==
  ASSUME Fresh, Typed, Truthful, Next
  PROVE  Truthful'
<1>1. operation \in [Task -> Op] /\ NoTask \notin Task \cup Op
  BY AdapterAssumption
<1>2. (\A o \in Op : CallsBack(o)') /\ StagedOnce' /\ Once(pending')
  BY <1>1, CallsBackStep, StagedOnceStep, PendingOnceStep DEF Truthful
<1>3. \A o \in Op : Keeps(o)
  BY <1>1, StageSteps
<1>4. ASSUME NEW u \in Task PROVE ResultsAreDone(u)'
  <2>1. operation[u] \in Op
    BY <1>1
  <2>2. ResultsAreDone(u)
    BY DEF Truthful
  <2>3. stage[operation[u]] = "done" => DoneNow(u)
    BY <1>3, <2>1 DEF Keeps, DoneNow
  <2>4. \/ future'[u] = "result" \/ handoff'[u] # "none" \/ pc'[u] = "returned"
        => \/ future[u] = "result" \/ handoff[u] # "none" \/ pc[u] = "returned" \/ DoneNow(u)
    BY <1>1, ResultSteps, HandoffSteps, ReturnSteps
  <2> QED
    BY <2>2, <2>3, <2>4 DEF ResultsAreDone, DoneNow
<1>5. ASSUME NEW u \in Task PROVE NotWithBackend(u)'
  <2>1. NotWithBackend(u) /\ Proceeds(u) /\ operation[u] \in Op
    BY <1>1, Proceeding DEF Truthful
  <2>2. ASSUME Outside(u)' PROVE stage'[operation[u]] = "new"
    <3>1. stage[operation[u]] = "new"
      BY <2>1, <2>2 DEF NotWithBackend, Proceeds, Outside
    <3>2. ~Gone(u)
      BY <2>2 DEF Gone, Outside
    <3>3. \A t \in Task : operation[t] = operation[u] => t = u
      BY DEF Fresh
    <3> QED
      BY <1>3, <2>1, <3>1, <3>2, <3>3 DEF Keeps
  <2> QED
    BY <2>1, <2>2 DEF Proceeds, Apart, Outside, NotWithBackend
<1> QED
  BY <1>2, <1>4, <1>5 DEF Truthful

LEMMA TruthfulInit ==
  ASSUME Init
  PROVE  Truthful
<1>1. operation \in [Task -> Op]
  BY AdapterAssumption
<1>2. \A o \in Op : CallsBack(o)
  BY DEF Init, CallsBack
<1>3. StagedOnce /\ Once(pending)
  BY HasEmpty, OnceEmpty DEF Init, StagedOnce
<1>4. ASSUME NEW t \in Task PROVE ResultsAreDone(t) /\ NotWithBackend(t)
  BY <1>1, HasEmpty DEF Init, ResultsAreDone, NotWithBackend, Before, Batched, Denied
<1> QED
  BY <1>2, <1>3, <1>4 DEF Truthful

(* What submit() reports is so, whichever backend it is, however requests  *)
(* are refused, batched, flushed and cancelled: the value it returns is of *)
(* an Operation that is complete, and of one that was not submitted no     *)
(* backend has anything.                                                   *)
THEOREM OutcomesAreTrue ==
  ASSUME IsFiniteSet(Task), Fresh
  PROVE  Spec => []OutcomeTrue
<1> DEFINE Inv == Typed /\ PermitsAddUp /\ Truthful
<1>1. Init => Inv
  BY TypedInit, TruthfulInit
<1>2. Inv /\ [Next]_vars => Inv'
  <2>1. ASSUME Inv, Next PROVE Inv'
    BY <2>1, TypesStep, PermitsStep, TruthfulStep
  <2>2. ASSUME Inv, UNCHANGED vars PROVE Inv'
    <3>1. Typed' /\ PermitsAddUp'
      BY <2>2, TypedStutter
    <3>2. Truthful'
      BY <2>2 DEF vars, config, tasks, batch, backend, Truthful, CallsBack, StagedOnce,
                  ResultsAreDone, NotWithBackend, Before, Batched, Denied, Once, Has
    <3> QED
      BY <3>1, <3>2
  <2> QED
    BY <2>1, <2>2
<1>3. Inv => OutcomeTrue
  BY DEF OutcomeTrue, InFlight, Truthful, ResultsAreDone, NotWithBackend, Denied
<1> QED
  BY <1>1, <1>2, <1>3, PTL DEF Spec
=============================================================================
