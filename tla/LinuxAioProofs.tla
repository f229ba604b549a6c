--------------------------- MODULE LinuxAioProofs ---------------------------
(***************************************************************************)
(* Theorems about LinuxAio, for every set of Contexts, threads and         *)
(* Operations, every size of a batch and every depth of callbacks.         *)
(*                                                                         *)
(* From its claim to the return of its callback an Operation is in one     *)
(* place (At): with the submit() that has claimed it, on the way back, in  *)
(* the kernel, completed there, gathered by a thread, or in a callback.    *)
(* The place says what the Operation's fields are, and an Operation that   *)
(* is in none is as new or over (Good).  Every step leaves an Operation    *)
(* where it is or moves it on.                                             *)
(***************************************************************************)
EXTENDS LinuxAio, SequenceLemmas

Frame == [ctx : Context, ops : Seq(Op) \ {<<>>}]

Typed ==
  /\ freeThreaded \in Build
  /\ gil \in Client \cup {NoOne}
  /\ handle \in [Context -> BOOLEAN] /\ signalled \in [Context -> BOOLEAN]
  /\ ctxRefs \in [Context -> Int] /\ opRefs \in [Op -> Int]
  /\ kernel \in [Context -> SUBSET Op] /\ ring \in [Context -> Seq(Op)]
  /\ in_progress \in [Op -> BOOLEAN] /\ done \in [Op -> BOOLEAN]
  /\ context \in [Op -> Context \cup {NoContext}] /\ called \in [Op -> Nat]
  /\ pc \in [Client -> {"idle", "submit", "reopen", "forget", "getevents", "settle"}]
  /\ on \in [Client -> Context \cup {NoContext}]
  /\ todo \in [Client -> Seq(Op)] /\ claimed \in [Client -> Seq(Op)]
  /\ arg \in [Client -> [min : Nat, max : Nat, timed : BOOLEAN]]
  /\ frames \in [Client -> Seq(Frame)]

RollsOn(a) == pc[a] \in {"reopen", "forget"}

(* What a thread in a method has.  Only a build with the GIL rolls back,   *)
(* and there submit() keeps the GIL.                                       *)
Sound(a) ==
  /\ pc[a] # "idle" => on[a] \in Context
  /\ RollsOn(a) => todo[a] # <<>> /\ ~freeThreaded
  /\ pc[a] = "submit" \/ RollsOn(a) => freeThreaded \/ gil = a
  /\ pc[a] # "submit" => claimed[a] = <<>>
  /\ pc[a] = "settle" => frames[a] # <<>> /\ on[a] = Top(a).ctx
  /\ Len(frames[a]) <= MaxDepth + (IF pc[a] = "getevents" THEN 0 ELSE 1)
Control == \A a \in Client : Sound(a)

(* No sequence of Operations has one of them twice.                        *)
NoRepeats ==
  /\ \A c \in Context : Once(ring[c])
  /\ \A a \in Client :
       /\ Once(claimed[a])
       /\ RollsOn(a) => Once(todo[a])
       /\ \A i \in 1 .. Len(frames[a]) : Once(frames[a][i].ops)

Forgets(a, o) == pc[a] = "forget" /\ o = Head(todo[a])
Calls(a, i, o) ==
  o = Head(frames[a][i].ops) /\ ~(i = Len(frames[a]) /\ pc[a] = "settle")

(* Operation o, which refers to c, is in place k: of a submit() of thread  *)
(* x, of Context x, or in frame i of thread x.                             *)
InSubmit(o, c, k, x) ==
  /\ c = on[x]
  /\ \/ k = "submit" /\ Has(claimed[x], o)
     \/ k = "back" /\ RollsOn(x) /\ Has(todo[x], o) /\ ~Forgets(x, o)
     \/ k = "forget" /\ Forgets(x, o)
InContext(o, k, x) ==
  \/ k = "kernel" /\ o \in kernel[x]
  \/ k = "ring" /\ Has(ring[x], o)
InFrame(o, c, k, x, i) ==
  /\ i \in 1 .. Len(frames[x]) /\ Has(frames[x][i].ops, o)
  /\ \/ k = "frame" /\ ~Calls(x, i, o) /\ c = frames[x][i].ctx
     \/ k = "call" /\ Calls(x, i, o) /\ c = NoContext
At(o, c, k, x, i) ==
  \/ x \in Client /\ i = 0 /\ InSubmit(o, c, k, x)
  \/ x \in Context /\ i = 0 /\ c = x /\ InContext(o, k, x)
  \/ x \in Client /\ InFrame(o, c, k, x, i)

OnlyAt(o, c, k, x, i) ==
  \A d, l, y, j : At(o, d, l, y, j) <=> d = c /\ l = k /\ y = x /\ j = i
OnePlace(o) ==
  \A c, k, x, i, d, l, y, j :
    At(o, c, k, x, i) /\ At(o, d, l, y, j) => c = d /\ k = l /\ x = y /\ i = j
Nowhere(o) == \A c, k, x, i : ~At(o, c, k, x, i)

Fields(o, c, k) ==
  /\ context[o] = c /\ called[o] = 0 /\ opRefs[o] = 2
  /\ in_progress[o] <=> k # "forget"
  /\ done[o] <=> k = "call"
Good(o) ==
  /\ OnePlace(o)
  /\ \A c, k, x, i : At(o, c, k, x, i) => Fields(o, c, k)
  /\ Nowhere(o) =>
       /\ context[o] = NoContext /\ opRefs[o] = 1
       /\ in_progress[o] <=> done[o]
       /\ called[o] = IF done[o] THEN 1 ELSE 0
AllGood == \A o \in Op : Good(o)

(* A Context is held by the program and by the Operations that refer to it.*)
Referring(c) == {o \in Op : context[o] = c}
Held == \A c \in Context :
  ctxRefs[c] = (IF handle[c] THEN 1 ELSE 0) + Cardinality(Referring(c))

Placing == Typed /\ Control /\ NoRepeats /\ AllGood
-----------------------------------------------------------------------------
LEMMA Typing ==
  ASSUME LinuxAssumption, Typed
  PROVE  /\ NoContext \notin Context /\ NoOne \notin Client
         /\ \A n \in Nat : Accepted(n) \subseteq 0 .. n
BY DEF LinuxAssumption, Accepted

LEMMA TopTyped ==
  ASSUME Typed, NEW a \in Client, frames[a] # <<>>
  PROVE  /\ Len(frames[a]) \in Nat \ {0}
         /\ Top(a) = frames[a][Len(frames[a])] /\ Top(a) \in Frame
         /\ Top(a).ctx \in Context /\ Top(a).ops \in Seq(Op)
         /\ Top(a).ops # <<>> /\ Head(Top(a).ops) \in Op
<1>1. frames[a] \in Seq(Frame)
  BY DEF Typed
<1>2. Len(frames[a]) \in Nat /\ Len(frames[a]) # 0
  BY <1>1, EmptySeq
<1>3. Top(a) \in Frame /\ Top(a) = frames[a][Len(frames[a])]
  BY <1>1, <1>2, ElementOfSeq DEF Top
<1>4. Top(a).ctx \in Context /\ Top(a).ops \in Seq(Op) /\ Top(a).ops # <<>>
  BY <1>3 DEF Frame
<1> QED
  BY <1>2, <1>3, <1>4, HeadElements

(* An Operation's pointer to its Context and the references stay typed.    *)
LEMMA RefersTyped ==
  ASSUME Typed, NEW o \in Op, NEW c \in Context \cup {NoContext}, RefersTo(o, c)
  PROVE  /\ context' \in [Op -> Context \cup {NoContext}]
         /\ ctxRefs' \in [Context -> Int]
<1>1. \A x \in Context : ctxRefs[x] \in Int
  BY DEF Typed
<1>2. \A x \in Context : ctxRefs[x] + (IF x = c THEN 1 ELSE 0)
                            - (IF x = context[o] THEN 1 ELSE 0) \in Int
  BY <1>1
<1> QED
  BY <1>2 DEF Typed, RefersTo, Set

LEMMA InitTyped == LinuxAssumption /\ Init => Typed
<1> SUFFICES ASSUME LinuxAssumption, Init PROVE Typed
  OBVIOUS
<1>1. <<>> \in Seq(Op) /\ <<>> \in Seq(Frame)
  OBVIOUS
<1>2. NoArg \in [min : Nat, max : Nat, timed : BOOLEAN]
  BY DEF NoArg
<1> QED
  BY <1>1, <1>2 DEF Init, InitContext, InitOperation, Typed

LEMMA NextTyped ==
  ASSUME LinuxAssumption, Typed, Control, [Next]_vars
  PROVE  Typed'
<1>0. CASE UNCHANGED vars
  BY <1>0 DEF Typed, vars, queues, operation, references, calls
<1> SUFFICES ASSUME Next PROVE Typed'
  BY <1>0
<1> USE DEF Set, Enters, Leaves, LeaveGil
<1>1. ASSUME NEW a \in Client, NEW c \in Context, NEW ops \in Batch,
             SubmitBegin(a, c, ops), UNCHANGED freeThreaded
      PROVE  Typed'
  <2>1. ops \in Seq(Op)
    BY SeqDef DEF Batch, LinuxAssumption
  <2> QED
    BY <1>1, <2>1 DEF Typed, SubmitBegin, KeepGil, queues, operation, references
<1>2. ASSUME NEW a \in Client, NEW o \in Op,
             Skip(a, o) \/ Claim(a, o), UNCHANGED freeThreaded
      PROVE  Typed'
  <2>1. todo[a] \in Seq(Op) /\ todo[a] # <<>> /\ on[a] \in Context
    BY <1>2 DEF Typed, Control, Sound, Skip, Claim, NextInBatch
  <2>2. Tail(todo[a]) \in Seq(Op)
    BY <2>1, HeadElements
  <2>3. CASE Skip(a, o)
    BY <1>2, <2>2, <2>3 DEF Typed, Skip, queues, operation, references
  <2>4. CASE Claim(a, o)
    <3>1. /\ context' \in [Op -> Context \cup {NoContext}]
          /\ ctxRefs' \in [Context -> Int]
      BY <2>1, <2>4, RefersTyped DEF Claim
    <3>2. opRefs[o] + 1 \in Int /\ Append(claimed[a], o) \in Seq(Op)
      BY DEF Typed
    <3> QED
      BY <1>2, <2>2, <2>4, <3>1, <3>2 DEF Typed, Claim, queues
  <2> QED
    BY <1>2, <2>3, <2>4
<1>3. ASSUME NEW a \in Client, IoSubmit(a), UNCHANGED freeThreaded
      PROVE  Typed'
  <2>1. claimed[a] \in Seq(Op) /\ Len(claimed[a]) \in Nat /\ on[a] \in Context
    BY <1>3 DEF Typed, Control, Sound, IoSubmit
  <2>2. PICK n \in 0 .. Len(claimed[a]) :
          LET rest == RollsBack(claimed[a], n) IN
          /\ kernel' = [kernel EXCEPT ![on[a]] =
                          kernel[on[a]] \cup Elements(SubSeq(claimed[a], 1, n))]
          /\ todo' = [todo EXCEPT ![a] = rest]
          /\ IF rest = <<>> THEN Leaves(a) /\ LeaveGil
             ELSE pc' = [pc EXCEPT ![a] = "reopen"] /\ UNCHANGED <<on, gil>>
    BY <1>3, <2>1, Typing DEF IoSubmit
  <2>3. /\ RollsBack(claimed[a], n) \in Seq(Op)
        /\ SubSeq(claimed[a], 1, n) \in Seq(Op)
    BY <2>1, SplitElements DEF RollsBack, After
  <2>4. Elements(SubSeq(claimed[a], 1, n)) \subseteq Op
    BY <2>3 DEF Elements
  <2>5. <<>> \in Seq(Op)
    OBVIOUS
  <2> HIDE DEF Set
  <2>6. /\ kernel' \in [Context -> SUBSET Op]
        /\ todo' \in [Client -> Seq(Op)]
    BY <2>1, <2>2, <2>3, <2>4 DEF Typed
  <2>7. /\ pc' \in [Client -> {"idle", "submit", "reopen", "forget", "getevents",
                               "settle"}]
        /\ on' \in [Client -> Context \cup {NoContext}]
        /\ gil' \in Client \cup {NoOne}
    BY <2>2 DEF Typed, Set
  <2>8. claimed' \in [Client -> Seq(Op)]
    BY <1>3, <2>5 DEF Typed, IoSubmit, Set
  <2> QED
    BY <1>3, <2>6, <2>7, <2>8
       DEF Typed, IoSubmit, queues, operation, references
<1>4. ASSUME NEW a \in Client, Reopen(a) \/ Forget(a), UNCHANGED freeThreaded
      PROVE  Typed'
  <2>1. todo[a] \in Seq(Op) /\ todo[a] # <<>>
    BY <1>4 DEF Typed, Control, Sound, RollsOn, Reopen, Forget
  <2>2. Head(todo[a]) \in Op /\ Tail(todo[a]) \in Seq(Op)
    BY <2>1, HeadElements
  <2>3. CASE Reopen(a)
    BY <1>4, <2>2, <2>3 DEF Typed, Reopen, queues, references
  <2>4. CASE Forget(a)
    <3>1. /\ context' \in [Op -> Context \cup {NoContext}]
          /\ ctxRefs' \in [Context -> Int]
      BY <2>2, <2>4, RefersTyped DEF Forget
    <3>2. opRefs[Head(todo[a])] - 1 \in Int
      BY <2>2 DEF Typed
    <3> QED
      BY <1>4, <2>2, <2>4, <3>1, <3>2 DEF Typed, Forget, queues
  <2> QED
    BY <1>4, <2>3, <2>4
<1>5. ASSUME NEW c \in Context, NEW o \in Op, Complete(c, o), UNCHANGED freeThreaded
      PROVE  Typed'
  <2>1. Append(ring[c], o) \in Seq(Op)
    BY DEF Typed
  <2> QED
    BY <1>5, <2>1 DEF Typed, Complete, operation, references, calls
<1>6. ASSUME NEW a \in Client, NEW c \in Context, NEW min \in MinRequests,
             NEW max \in MaxRequests, NEW timed \in BOOLEAN,
             ProcessEvents(a, c, min, max, timed), UNCHANGED freeThreaded
      PROVE  Typed'
  <2>1. [min |-> min, max |-> max, timed |-> timed]
          \in [min : Nat, max : Nat, timed : BOOLEAN]
    BY DEF LinuxAssumption
  <2> QED
    BY <1>6, <2>1 DEF Typed, ProcessEvents, queues, operation, references
<1>7. ASSUME NEW a \in Client, GetEvents(a), UNCHANGED freeThreaded
      PROVE  Typed'
  <2> DEFINE c == on[a]
             n == Gathered(ring[c], arg[a].max)
             batch == [ctx |-> c, ops |-> SubSeq(ring[c], 1, n)]
  <2>1. c \in Context /\ ring[c] \in Seq(Op) /\ arg[a].max \in Nat
    BY <1>7 DEF Typed, Control, Sound, GetEvents
  <2>2. n \in 0 .. Len(ring[c])
    BY <2>1 DEF Gathered
  <2>3. /\ SubSeq(ring[c], 1, n) \in Seq(Op) /\ After(ring[c], n) \in Seq(Op)
        /\ Len(SubSeq(ring[c], 1, n)) = n
    BY <2>1, <2>2, SplitElements DEF After
  <2>4. NoArg \in [min : Nat, max : Nat, timed : BOOLEAN]
    BY DEF NoArg
  <2>5. n # 0 => batch \in Frame
    BY <2>1, <2>3, EmptySeq DEF Frame
  <2>6. n # 0 => Append(frames[a], batch) \in Seq(Frame)
    BY <2>5 DEF Typed
  <2>7. /\ ring' = [ring EXCEPT ![c] = After(ring[c], n)]
        /\ IF n = 0 THEN Leaves(a) /\ UNCHANGED frames
           ELSE /\ Enters(a, "settle", c)
                /\ frames' = [frames EXCEPT ![a] = Append(frames[a], batch)]
        /\ arg' = [arg EXCEPT ![a] = NoArg]
        /\ UNCHANGED <<gil, references, kernel, signalled, operation, todo, claimed>>
    BY <1>7 DEF GetEvents
  <2> HIDE DEF c, n, batch
  <2>8. /\ ring' \in [Context -> Seq(Op)]
        /\ arg' \in [Client -> [min : Nat, max : Nat, timed : BOOLEAN]]
    BY <2>1, <2>3, <2>4, <2>7 DEF Typed
  <2>9. frames' \in [Client -> Seq(Frame)]
    BY <2>6, <2>7 DEF Typed
  <2>10. /\ pc' \in [Client -> {"idle", "submit", "reopen", "forget", "getevents",
                                "settle"}]
         /\ on' \in [Client -> Context \cup {NoContext}]
    <3>1. CASE n = 0
      BY <2>7, <3>1 DEF Typed
    <3>2. CASE n # 0
      <4>1. pc' = [pc EXCEPT ![a] = "settle"] /\ on' = [on EXCEPT ![a] = c]
        BY <2>7, <3>2
      <4> QED
        BY <2>1, <4>1 DEF Typed
    <3> QED
      BY <3>1, <3>2
  <2> QED
    BY <1>7, <2>7, <2>8, <2>9, <2>10 DEF Typed, operation, references
<1>8. ASSUME NEW a \in Client, GetEventsFails(a), UNCHANGED freeThreaded
      PROVE  Typed'
  <2>1. NoArg \in [min : Nat, max : Nat, timed : BOOLEAN]
    BY DEF NoArg
  <2> QED
    BY <1>8, <2>1 DEF Typed, GetEventsFails, queues, operation, references
<1>9. ASSUME NEW a \in Client, Settle(a), UNCHANGED freeThreaded
      PROVE  Typed'
  <2>1. frames[a] # <<>>
    BY <1>9 DEF Control, Sound, Settle
  <2>2. Head(Top(a).ops) \in Op
    BY <2>1, TopTyped
  <2>3. /\ context' \in [Op -> Context \cup {NoContext}]
        /\ ctxRefs' \in [Context -> Int]
    BY <1>9, <2>2, RefersTyped DEF Settle, Settles
  <2> QED
    BY <1>9, <2>2, <2>3 DEF Typed, Settle, Settles, queues
<1>10. ASSUME NEW a \in Client, CallbackReturns(a), UNCHANGED freeThreaded
       PROVE  Typed'
  <2> DEFINE depth == Len(frames[a])
             o == Head(Top(a).ops)
             ops == Tail(Top(a).ops)
  <2>1. /\ depth \in Nat \ {0} /\ frames[a] \in Seq(Frame) /\ Top(a) = frames[a][depth]
        /\ Top(a) \in Frame /\ Top(a).ctx \in Context /\ o \in Op /\ ops \in Seq(Op)
    BY <1>10, TopTyped, HeadElements DEF CallbackReturns, Typed
  <2>2. /\ opRefs' = [opRefs EXCEPT ![o] = opRefs[o] - 1]
        /\ called' = [called EXCEPT ![o] = called[o] + 1]
        /\ IF ops = <<>>
             THEN /\ frames' = [frames EXCEPT ![a] = SubSeq(frames[a], 1, depth - 1)]
                  /\ gil' = NoOne
                  /\ UNCHANGED <<pc, on>>
             ELSE /\ frames' = [frames EXCEPT ![a] = [frames[a] EXCEPT ![depth].ops = ops]]
                  /\ Enters(a, "settle", Top(a).ctx)
                  /\ KeepGil(a)
        /\ UNCHANGED <<references, queues, in_progress, done, context, todo, claimed,
                       arg>>
    BY <1>10 DEF CallbackReturns, Remaining
  <2> HIDE DEF depth, o, ops
  <2>3. SubSeq(frames[a], 1, depth - 1) \in Seq(Frame)
    BY <2>1, SubSeqProperties DEF depth
  <2>4. ops # <<>> => [frames[a] EXCEPT ![depth].ops = ops] \in Seq(Frame)
    <3>1. ops # <<>> => [frames[a][depth] EXCEPT !.ops = ops] \in Frame
      BY <2>1 DEF Frame
    <3>2. [frames[a] EXCEPT ![depth].ops = ops] =
            [frames[a] EXCEPT ![depth] = [frames[a][depth] EXCEPT !.ops = ops]]
      OBVIOUS
    <3> QED
      BY <2>1, <3>1, <3>2, ExceptSeq DEF depth
  <2>5. frames' \in [Client -> Seq(Frame)]
    BY <2>2, <2>3, <2>4 DEF Typed
  <2>6. opRefs' \in [Op -> Int] /\ called' \in [Op -> Nat]
    <3>1. opRefs[o] - 1 \in Int /\ called[o] + 1 \in Nat
      BY <2>1 DEF Typed
    <3> QED
      BY <2>1, <2>2, <3>1 DEF Typed
  <2> QED
    BY <1>10, <2>1, <2>2, <2>5, <2>6 DEF Typed, KeepGil, queues, references
<1>11. ASSUME NEW a \in Client, NEW c \in Context, NEW o \in Op, Cancel(a, c, o),
              UNCHANGED freeThreaded
       PROVE  Typed'
  <2>1. [ctx |-> c, ops |-> <<o>>] \in Frame
    BY DEF Frame
  <2>2. Append(frames[a], [ctx |-> c, ops |-> <<o>>]) \in Seq(Frame)
    BY <2>1 DEF Typed
  <2>3. /\ context' \in [Op -> Context \cup {NoContext}]
        /\ ctxRefs' \in [Context -> Int]
    BY <1>11, RefersTyped DEF Cancel, Settles
  <2> QED
    BY <1>11, <2>2, <2>3 DEF Typed, Cancel, Settles
<1>12. ASSUME NEW a \in Client, NEW c \in Context, PollCounter(a, c) \/ Drop(a, c),
              UNCHANGED freeThreaded
       PROVE  Typed'
  <2>1. CASE PollCounter(a, c)
    BY <1>12, <2>1 DEF Typed, PollCounter, operation, references, calls
  <2>2. CASE Drop(a, c)
    <3>1. ctxRefs[c] - 1 \in Int
      BY DEF Typed
    <3> QED
      BY <1>12, <2>2, <3>1 DEF Typed, Drop, queues, operation, calls
  <2> QED
    BY <1>12, <2>1, <2>2
<1> QED
  BY <1>1, <1>2, <1>3, <1>4, <1>5, <1>6, <1>7, <1>8, <1>9, <1>10, <1>11, <1>12
     DEF Next, Call, Proceed

-----------------------------------------------------------------------------
(* Only the builds with the GIL may have a submission refused: on a        *)
(* free-threaded one another thread may claim what is being rolled back    *)
(* between its two steps (README, section 11).                             *)
RefusalsHoldGil == MayRefuse \subseteq {FALSE}

CallOf(b) == <<pc[b], on[b], todo[b], claimed[b], frames[b]>>

LEMMA OthersSound ==
  ASSUME LinuxAssumption, Control, NEW a \in Client, NEW b \in Client, b # a,
         UNCHANGED <<freeThreaded, CallOf(b)>>,
         gil' = gil \/ freeThreaded \/ HasGil(a)
  PROVE  Sound(b)'
BY DEF LinuxAssumption, Control, Sound, RollsOn, Top, CallOf, HasGil

LEMMA InitControl == LinuxAssumption /\ Init => Control
BY DEF Init, Control, Sound, RollsOn, LinuxAssumption

(* An action of thread a leaves what the others have.                      *)
LEMMA OthersCalls ==
  ASSUME Typed, NEW a \in Client, Call(a) \/ Proceed(a), NEW b \in Client, b # a
  PROVE  UNCHANGED CallOf(b)
<1>1. CASE Call(a)
  BY <1>1 DEF Typed, CallOf, Call, SubmitBegin, ProcessEvents, Cancel, PollCounter,
              Drop, Set, Enters, calls
<1>2. CASE \E o \in Op : Skip(a, o) \/ Claim(a, o)
  BY <1>2 DEF Typed, CallOf, Skip, Claim, Set
<1>3. CASE IoSubmit(a)
  BY <1>3 DEF Typed, CallOf, IoSubmit, Set, Enters, Leaves
<1>6. CASE Reopen(a) \/ Forget(a)
  BY <1>6 DEF Typed, CallOf, Reopen, Forget, Set, Enters, Leaves
<1>4. CASE GetEvents(a) \/ GetEventsFails(a) \/ Settle(a)
  BY <1>4 DEF Typed, CallOf, GetEvents, GetEventsFails, Settle, Set, Enters, Leaves
<1>5. CASE CallbackReturns(a)
  BY <1>5 DEF Typed, CallOf, CallbackReturns, Set, Enters
<1> QED
  BY <1>1, <1>2, <1>3, <1>4, <1>5, <1>6 DEF Proceed

LEMMA GilMoves ==
  ASSUME Control, NEW a \in Client, Call(a) \/ Proceed(a)
  PROVE  gil' = gil \/ freeThreaded \/ HasGil(a)
BY DEF Control, Sound, RollsOn, Call, Proceed, SubmitBegin, Skip, Claim, IoSubmit,
       Reopen, Forget, ProcessEvents, GetEvents, GetEventsFails, Settle,
       CallbackReturns, Cancel, PollCounter, Drop, MayCall, HasGil, NextInBatch

LEMMA NextControl ==
  ASSUME LinuxAssumption, RefusalsHoldGil, Typed, Control, [Next]_vars
  PROVE  Control'
<1>0. CASE UNCHANGED vars
  BY <1>0 DEF Control, Sound, RollsOn, Top, vars, calls
<1>1. CASE \E c \in Context, o \in Op : Complete(c, o) /\ UNCHANGED freeThreaded
  BY <1>1 DEF Control, Sound, RollsOn, Top, Complete, calls
<1>2. ASSUME NEW a \in Client, Call(a) \/ Proceed(a), UNCHANGED freeThreaded
      PROVE  Control'
  <2> SUFFICES Sound(a)'
    <3> SUFFICES ASSUME NEW b \in Client, b # a PROVE Sound(b)'
      BY DEF Control
    <3> QED
      BY <1>2, OthersSound, OthersCalls, GilMoves
  <2>0. /\ Sound(a) /\ NoOne # a
        /\ frames[a] \in Seq(Frame) /\ Len(frames[a]) \in Nat /\ MaxDepth \in Nat
    BY DEF Control, LinuxAssumption, Typed
  <2> USE DEF Set, Enters, Leaves
  <2>1. ASSUME NEW c \in Context, NEW ops \in Batch, SubmitBegin(a, c, ops)
        PROVE  Sound(a)'
    BY <1>2, <2>0, <2>1
       DEF Typed, Sound, RollsOn, Top, SubmitBegin, MayCall, KeepGil
  <2>2. ASSUME NEW o \in Op, Skip(a, o) \/ Claim(a, o)
        PROVE  Sound(a)'
    BY <1>2, <2>0, <2>2
       DEF Typed, Sound, RollsOn, Top, Skip, Claim, NextInBatch
  <2>3. CASE IoSubmit(a)
    <3>1. claimed[a] \in Seq(Op) /\ Len(claimed[a]) \in Nat
      BY DEF Typed
    <3>2. PICK n \in Accepted(Len(claimed[a])) :
            LET rest == RollsBack(claimed[a], n) IN
            /\ todo' = [todo EXCEPT ![a] = rest]
            /\ IF rest = <<>> THEN Leaves(a) /\ LeaveGil
               ELSE pc' = [pc EXCEPT ![a] = "reopen"] /\ UNCHANGED <<on, gil>>
      BY <2>3 DEF IoSubmit
    <3>3. n = Len(claimed[a]) \/ ~freeThreaded
      BY DEF Accepted, RefusalsHoldGil
    <3>4. n = Len(claimed[a]) => RollsBack(claimed[a], n) = <<>>
      BY <3>1, SubSeqEmpty DEF RollsBack, After
    <3>5. /\ claimed' = [claimed EXCEPT ![a] = <<>>]
          /\ UNCHANGED frames /\ pc[a] = "submit"
      BY <2>3 DEF IoSubmit
    <3> QED
      BY <1>2, <2>0, <3>2, <3>3, <3>4, <3>5 DEF Typed, Sound, RollsOn, Top
  <2>4. CASE Reopen(a)
    BY <1>2, <2>0, <2>4 DEF Typed, Sound, RollsOn, Top, Reopen
  <2>5. CASE Forget(a)
    <3>1. todo[a] \in Seq(Op) /\ todo[a] # <<>>
      BY <2>0, <2>5 DEF Typed, Sound, RollsOn, Forget
    <3>2. Len(todo[a]) # 1 => Tail(todo[a]) # <<>>
      BY <3>1, TailEmpty
    <3> QED
      BY <1>2, <2>0, <2>5, <3>2 DEF Typed, Sound, RollsOn, Top, Forget
  <2>6. ASSUME NEW c \in Context, NEW min \in MinRequests, NEW max \in MaxRequests,
               NEW timed \in BOOLEAN, Len(frames[a]) <= MaxDepth,
               ProcessEvents(a, c, min, max, timed)
        PROVE  Sound(a)'
    BY <1>2, <2>0, <2>6
       DEF Typed, Sound, RollsOn, Top, ProcessEvents, MayCall
  <2>7. CASE GetEvents(a)
    <3> DEFINE c == on[a]
               n == Gathered(ring[c], arg[a].max)
               batch == [ctx |-> c, ops |-> SubSeq(ring[c], 1, n)]
    <3>1. /\ pc[a] = "getevents"
          /\ IF n = 0 THEN Leaves(a) /\ UNCHANGED frames
             ELSE /\ Enters(a, "settle", c)
                  /\ frames' = [frames EXCEPT ![a] = Append(frames[a], batch)]
          /\ UNCHANGED <<gil, todo, claimed>>
      BY <2>7 DEF GetEvents
    <3>2. /\ c \in Context /\ c # NoContext /\ claimed[a] = <<>>
          /\ Len(frames[a]) <= MaxDepth
      BY <2>0, <3>1 DEF Sound, LinuxAssumption
    <3>3. /\ Len(Append(frames[a], batch)) = Len(frames[a]) + 1
          /\ Append(frames[a], batch)[Len(frames[a]) + 1] = batch
          /\ Append(frames[a], batch) # <<>>
      BY <2>0
    <3>4. batch.ctx = c
      OBVIOUS
    <3> HIDE DEF c, n, batch
    <3>5. CASE n = 0
      BY <1>2, <2>0, <3>1, <3>2, <3>5 DEF Typed, Sound, RollsOn, Top
    <3>6. CASE n # 0
      <4>1. /\ pc'[a] = "settle" /\ on'[a] = c /\ UNCHANGED <<gil, claimed>>
            /\ frames'[a] = Append(frames[a], batch)
        BY <3>1, <3>6 DEF Typed
      <4> QED
        BY <2>0, <3>2, <3>3, <3>4, <4>1 DEF Sound, RollsOn, Top
    <3> QED
      BY <3>5, <3>6
  <2>8. CASE GetEventsFails(a)
    BY <1>2, <2>0, <2>8 DEF Typed, Sound, RollsOn, Top, GetEventsFails
  <2>9. CASE Settle(a)
    BY <1>2, <2>0, <2>9 DEF Typed, Sound, RollsOn, Top, Settle
  <2>10. CASE CallbackReturns(a)
    <3> DEFINE depth == Len(frames[a])
               ops == Tail(Top(a).ops)
    <3>1. /\ pc[a] = "idle"
          /\ IF ops = <<>>
               THEN /\ frames' = [frames EXCEPT ![a] = SubSeq(frames[a], 1, depth - 1)]
                    /\ gil' = NoOne
                    /\ UNCHANGED <<pc, on>>
               ELSE /\ frames' = [frames EXCEPT ![a] = [frames[a] EXCEPT ![depth].ops = ops]]
                    /\ Enters(a, "settle", Top(a).ctx)
                    /\ KeepGil(a)
          /\ UNCHANGED <<todo, claimed>>
      BY <2>10 DEF CallbackReturns, Remaining, LeaveGil
    <3>2. /\ depth \in Nat \ {0} /\ Top(a).ctx \in Context /\ Top(a) = frames[a][depth]
          /\ claimed[a] = <<>> /\ depth <= MaxDepth + 1
      BY <2>0, <2>10, <3>1, TopTyped DEF CallbackReturns, Sound
    <3> HIDE DEF ops
    <3>3. CASE ops = <<>>
      <4>1. SubSeq(frames[a], 1, depth - 1) \in Seq(Frame)
              /\ Len(SubSeq(frames[a], 1, depth - 1)) = depth - 1
        BY <2>0, <3>2, SplitElements
      <4>2. /\ pc'[a] = "idle" /\ claimed'[a] = <<>>
            /\ frames'[a] = SubSeq(frames[a], 1, depth - 1)
        BY <3>1, <3>2, <3>3 DEF Typed
      <4> QED
        BY <2>0, <3>2, <4>1, <4>2 DEF Sound, RollsOn
    <3>4. CASE ops # <<>>
      <4> DEFINE rest == [frames[a] EXCEPT ![depth].ops = ops]
      <4>1. rest[depth].ctx = Top(a).ctx /\ Len(rest) = depth /\ rest # <<>>
        <5>1. rest[depth] = [frames[a][depth] EXCEPT !.ops = ops] /\ Len(rest) = depth
          BY <2>0, <3>2
        <5>2. frames[a][depth] \in Frame
          BY <2>0, <3>2, ElementOfSeq
        <5> QED
          BY <3>2, <5>1, <5>2 DEF Frame
      <4>2. /\ pc'[a] = "settle" /\ on'[a] = Top(a).ctx /\ claimed'[a] = <<>>
            /\ frames'[a] = rest
        BY <3>1, <3>2, <3>4 DEF Typed
      <4> HIDE DEF rest
      <4>3. Top(a)'.ctx = Top(a).ctx
        BY <4>1, <4>2 DEF Top
      <4> QED
        BY <3>2, <4>1, <4>2, <4>3 DEF Sound, RollsOn
    <3> QED
      BY <3>3, <3>4
  <2>11. ASSUME NEW c \in Context, NEW o \in Op, Len(frames[a]) <= MaxDepth,
                Cancel(a, c, o)
         PROVE  Sound(a)'
    <3>1. Len(Append(frames[a], [ctx |-> c, ops |-> <<o>>])) = Len(frames[a]) + 1
      BY <2>0
    <3> QED
      BY <1>2, <2>0, <2>11, <3>1 DEF Typed, Sound, RollsOn, Cancel, MayCall
  <2>12. ASSUME NEW c \in Context, PollCounter(a, c) \/ Drop(a, c)
         PROVE  Sound(a)'
    BY <1>2, <2>0, <2>12 DEF Sound, RollsOn, Top, PollCounter, Drop, MayCall, calls
  <2> QED
    BY <1>2, <2>1, <2>2, <2>3, <2>4, <2>5, <2>6, <2>7, <2>8, <2>9, <2>10, <2>11,
       <2>12 DEF Call, Proceed
<1> QED
  BY <1>0, <1>1, <1>2 DEF Next

-----------------------------------------------------------------------------
(* Where an Operation is changes in one of three ways: it stays, it gets   *)
(* one place, or it loses its place.                                       *)
Same(o) ==
  /\ context'[o] = context[o] /\ called'[o] = called[o] /\ opRefs'[o] = opRefs[o]
  /\ in_progress'[o] = in_progress[o] /\ done'[o] = done[o]

LEMMA Stays ==
  ASSUME NEW o, Good(o), Same(o),
         \A x \in Client : /\ \A c, k : InSubmit(o, c, k, x)' <=> InSubmit(o, c, k, x)
                           /\ \A c, k, i : InFrame(o, c, k, x, i)' <=> InFrame(o, c, k, x, i),
         \A x \in Context : \A k : InContext(o, k, x)' <=> InContext(o, k, x)
  PROVE  Good(o)'
<1>1. \A c, k, x, i : At(o, c, k, x, i)' <=> At(o, c, k, x, i)
  BY DEF At
<1>2. OnePlace(o)'
  BY <1>1 DEF Good, OnePlace
<1> QED
  BY <1>1, <1>2 DEF Good, Fields, Same, Nowhere

LEMMA Moves ==
  ASSUME NEW o, NEW c, NEW k, NEW x, NEW i,
         OnlyAt(o, c, k, x, i)', Fields(o, c, k)'
  PROVE  Good(o)'
<1>1. OnePlace(o)'
  BY DEF OnePlace, OnlyAt
<1> QED
  BY <1>1 DEF Good, Nowhere, OnlyAt

LEMMA Goes ==
  ASSUME NEW o, \A d, l, y, j : ~At(o, d, l, y, j)',
         context'[o] = NoContext, opRefs'[o] = 1,
         in_progress'[o] <=> done'[o],
         called'[o] = IF done'[o] THEN 1 ELSE 0
  PROVE  Good(o)'
BY DEF Good, OnePlace, Nowhere

(* No other thread can be giving back a claim while submit() runs.         *)
LEMMA FreeIsNowhere ==
  ASSUME LinuxAssumption, Control, NEW a \in Client, NEW o \in Op, Good(o),
         pc[a] = "submit", ~in_progress[o]
  PROVE  Nowhere(o)
<1> SUFFICES ASSUME NEW c, NEW k, NEW x, NEW i, At(o, c, k, x, i) PROVE FALSE
  BY DEF Nowhere
<1>1. k = "forget"
  BY DEF Good, Fields
<1>2. x \in Client /\ Forgets(x, o)
  BY <1>1 DEF At, InSubmit, InContext, InFrame
<1> QED
  BY <1>2 DEF Control, Sound, RollsOn, Forgets, LinuxAssumption

LEMMA InitPlacing == LinuxAssumption /\ Init => NoRepeats /\ AllGood
<1> SUFFICES ASSUME LinuxAssumption, Init PROVE NoRepeats /\ AllGood
  OBVIOUS
<1>1. NoRepeats
  BY OnceEmpty DEF Init, InitContext, InitOperation, NoRepeats, RollsOn
<1>2. \A o \in Op : Good(o)
  BY HasEmpty DEF Init, InitContext, InitOperation, Good, OnePlace, Nowhere, At,
                  InSubmit, InContext, InFrame, RollsOn, Forgets
<1> QED
  BY <1>1, <1>2 DEF AllGood

(* What is not in a frame's list is not in a place of the thread.          *)
LEMMA NextNoRepeats ==
  ASSUME LinuxAssumption, Typed, Control, NoRepeats, AllGood, [Next]_vars
  PROVE  NoRepeats'
<1>0. CASE UNCHANGED vars
  BY <1>0 DEF NoRepeats, RollsOn, vars, queues, calls
<1> USE DEF Set, Enters, Leaves
<1>1. ASSUME NEW c \in Context, NEW o \in Op, Complete(c, o)
      PROVE  NoRepeats'
  <2>1. At(o, c, "kernel", c, 0)
    <3>0. o \in kernel[c]
      BY <1>1 DEF Complete
    <3>1. InContext(o, "kernel", c)
      BY <3>0 DEF InContext
    <3> QED
      BY <3>1 DEF At
  <2>2. ~Has(ring[c], o)
    <3>1. Has(ring[c], o) => At(o, c, "ring", c, 0)
      BY DEF At, InContext
    <3> QED
      BY <2>1, <3>1 DEF AllGood, Good, OnePlace
  <2>3. Once(Append(ring[c], o))
    BY <2>2, AppendElements DEF Typed, NoRepeats
  <2> QED
    BY <1>1, <2>3 DEF Typed, NoRepeats, RollsOn, Complete, calls
<1>2. ASSUME NEW a \in Client, Call(a) \/ Proceed(a)
      PROVE  NoRepeats'
  <2> DEFINE Mine == /\ Once(claimed[a])
                     /\ RollsOn(a) => Once(todo[a])
                     /\ \A i \in 1 .. Len(frames[a]) : Once(frames[a][i].ops)
  <2>0. /\ Mine
        /\ todo[a] \in Seq(Op) /\ claimed[a] \in Seq(Op) /\ frames[a] \in Seq(Frame)
        /\ Len(frames[a]) \in Nat
    BY DEF NoRepeats, Typed
  <2>1. ASSUME Mine', \A c \in Context : Once(ring'[c])
        PROVE  NoRepeats'
    BY <1>2, <2>1, OthersCalls DEF NoRepeats, RollsOn, CallOf
  <2>2. ASSUME UNCHANGED ring PROVE \A c \in Context : Once(ring'[c])
    BY <2>2 DEF NoRepeats
  <2>3. ASSUME NEW c \in Context, NEW ops \in Batch, SubmitBegin(a, c, ops)
        PROVE  NoRepeats'
    BY <2>0, <2>1, <2>2, <2>3 DEF Typed, SubmitBegin, RollsOn, queues
  <2>4. ASSUME NEW o \in Op, Skip(a, o)
        PROVE  NoRepeats'
    BY <2>0, <2>1, <2>2, <2>4 DEF Typed, Skip, NextInBatch, RollsOn, queues
  <2>5. ASSUME NEW o \in Op, Claim(a, o)
        PROVE  NoRepeats'
    <3>1. Nowhere(o) /\ pc[a] = "submit"
      BY <2>5, FreeIsNowhere DEF Claim, Free, NextInBatch, AllGood
    <3>2. ~Has(claimed[a], o)
      BY <3>1 DEF Nowhere, At, InSubmit
    <3>3. Once(Append(claimed[a], o))
      BY <2>0, <3>2, AppendElements
    <3> QED
      BY <2>0, <2>1, <2>2, <2>5, <3>1, <3>3 DEF Typed, Claim, RollsOn, queues
  <2>6. CASE IoSubmit(a)
    <3> DEFINE D == Accepted(Len(claimed[a]))
    <3>a. PICK n \in D : todo' = [todo EXCEPT ![a] = RollsBack(claimed[a], n)]
      BY <2>6 DEF IoSubmit
    <3>1. n \in 0 .. Len(claimed[a])
      BY <2>0, Typing
    <3>2. Once(RollsBack(claimed[a], n))
      BY <2>0, <3>1, SplitElements DEF RollsBack, After
    <3> QED
      BY <2>0, <2>1, <2>2, <2>6, <3>a, <3>2, OnceEmpty DEF Typed, IoSubmit
  <2>7. CASE Reopen(a)
    BY <2>0, <2>1, <2>2, <2>7 DEF Typed, Reopen, RollsOn, queues
  <2>8. CASE Forget(a)
    <3>1. todo[a] # <<>> /\ Once(todo[a])
      BY <2>0, <2>8 DEF Control, Sound, RollsOn, Forget
    <3>2. Once(Tail(todo[a]))
      BY <2>0, <3>1, HeadElements
    <3> QED
      BY <2>0, <2>1, <2>2, <2>8, <3>2 DEF Typed, Forget, queues
  <2>9. ASSUME NEW c \in Context, NEW min \in MinRequests, NEW max \in MaxRequests,
               NEW timed \in BOOLEAN, ProcessEvents(a, c, min, max, timed)
        PROVE  NoRepeats'
    BY <2>0, <2>1, <2>2, <2>9 DEF Typed, ProcessEvents, RollsOn, queues
  <2>10. CASE GetEvents(a)
    <3> DEFINE c == on[a]
               n == Gathered(ring[c], arg[a].max)
               batch == [ctx |-> c, ops |-> SubSeq(ring[c], 1, n)]
    <3>1. c \in Context /\ ring[c] \in Seq(Op) /\ arg[a].max \in Nat
      BY <2>10 DEF Typed, Control, Sound, GetEvents
    <3>2. n \in 0 .. Len(ring[c])
      BY <3>1 DEF Gathered
    <3>3. Once(SubSeq(ring[c], 1, n)) /\ Once(After(ring[c], n))
      BY <3>1, <3>2, SplitElements DEF After, NoRepeats
    <3>4. /\ pc'[a] \in {"idle", "settle"}
          /\ ring' = [ring EXCEPT ![c] = After(ring[c], n)]
          /\ frames'[a] = frames[a] \/ frames'[a] = Append(frames[a], batch)
          /\ UNCHANGED <<todo, claimed>>
      BY <2>10 DEF Typed, GetEvents
    <3>5. batch.ops = SubSeq(ring[c], 1, n)
      OBVIOUS
    <3> HIDE DEF c, n, batch
    <3>6. /\ Len(Append(frames[a], batch)) = Len(frames[a]) + 1
          /\ \A i \in 1 .. Len(frames[a]) : Append(frames[a], batch)[i] = frames[a][i]
          /\ Append(frames[a], batch)[Len(frames[a]) + 1] = batch
      BY <2>0
    <3>7. \A i \in 1 .. Len(frames'[a]) : Once(frames'[a][i].ops)
      <4>1. CASE frames'[a] = frames[a]
        BY <2>0, <4>1
      <4>2. CASE frames'[a] = Append(frames[a], batch)
        <5> SUFFICES ASSUME NEW i \in 1 .. Len(frames[a]) + 1
                     PROVE  Once(frames'[a][i].ops)
          BY <3>6, <4>2
        <5>1. CASE i \in 1 .. Len(frames[a])
          BY <2>0, <3>6, <4>2, <5>1
        <5>2. CASE i = Len(frames[a]) + 1
          BY <3>3, <3>5, <3>6, <4>2, <5>2
        <5> QED
          BY <2>0, <5>1, <5>2
      <4> QED
        BY <3>4, <4>1, <4>2
    <3>8. \A d \in Context : Once(ring'[d])
      BY <3>3, <3>4 DEF Typed, NoRepeats
    <3> QED
      BY <2>0, <2>1, <3>4, <3>7, <3>8 DEF RollsOn
  <2>11. CASE GetEventsFails(a)
    BY <2>0, <2>1, <2>2, <2>11 DEF Typed, GetEventsFails, RollsOn, queues
  <2>12. CASE Settle(a)
    BY <2>0, <2>1, <2>2, <2>12 DEF Typed, Settle, RollsOn, queues
  <2>13. CASE CallbackReturns(a)
    <3> DEFINE depth == Len(frames[a])
               ops == Tail(Top(a).ops)
    <3>1. /\ depth \in Nat \ {0} /\ Top(a) = frames[a][depth] /\ Top(a).ops \in Seq(Op)
          /\ Once(Top(a).ops) /\ Top(a).ops # <<>> /\ Top(a) \in Frame
      <4>1. frames[a] # <<>>
        BY <2>13 DEF CallbackReturns
      <4>2. /\ depth \in Nat \ {0} /\ Top(a) = frames[a][depth]
            /\ Top(a).ops \in Seq(Op) /\ Top(a).ops # <<>> /\ Top(a) \in Frame
        BY <4>1, TopTyped
      <4>3. Once(Top(a).ops)
        BY <2>0, <4>2
      <4> QED
        BY <4>2, <4>3
    <3>2. Once(ops)
      BY <3>1, HeadElements
    <3>3. /\ pc[a] = "idle" /\ pc'[a] \in {"idle", "settle"}
          /\ \/ frames'[a] = SubSeq(frames[a], 1, depth - 1)
             \/ frames'[a] = [frames[a] EXCEPT ![depth].ops = ops]
          /\ UNCHANGED <<ring, todo, claimed>>
      BY <2>13 DEF Typed, CallbackReturns, Remaining, queues
    <3> HIDE DEF ops
    <3>4. \A i \in 1 .. Len(frames'[a]) : Once(frames'[a][i].ops)
      <4>1. CASE frames'[a] = SubSeq(frames[a], 1, depth - 1)
        <5>1. /\ Len(frames'[a]) = depth - 1
              /\ \A i \in 1 .. depth - 1 : frames'[a][i] = frames[a][i]
          BY <2>0, <3>1, <4>1
        <5>2. 1 .. depth - 1 \subseteq 1 .. depth
          BY <3>1
        <5> QED
          BY <2>0, <5>1, <5>2
      <4>2. CASE frames'[a] = [frames[a] EXCEPT ![depth].ops = ops]
        <5>1. /\ Len(frames'[a]) = depth
              /\ \A i \in 1 .. depth : i # depth => frames'[a][i] = frames[a][i]
              /\ frames'[a][depth] = [Top(a) EXCEPT !.ops = ops]
          BY <2>0, <3>1, <4>2
        <5>2. [Top(a) EXCEPT !.ops = ops].ops = ops
          BY <3>1 DEF Frame
        <5> QED
          BY <2>0, <3>1, <3>2, <5>1, <5>2
      <4> QED
        BY <3>3, <4>1, <4>2
    <3> QED
      BY <2>0, <2>1, <2>2, <3>3, <3>4 DEF RollsOn
  <2>14. ASSUME NEW c \in Context, NEW o \in Op, Cancel(a, c, o)
         PROVE  NoRepeats'
    <3> DEFINE batch == [ctx |-> c, ops |-> <<o>>]
    <3>1. Once(batch.ops)
      BY DEF Once
    <3>2. /\ frames'[a] = Append(frames[a], batch) /\ pc[a] = "idle"
          /\ UNCHANGED <<ring, todo, claimed, pc>>
      BY <2>14 DEF Typed, Cancel, MayCall
    <3> HIDE DEF batch
    <3>3. /\ Len(Append(frames[a], batch)) = Len(frames[a]) + 1
          /\ \A i \in 1 .. Len(frames[a]) : Append(frames[a], batch)[i] = frames[a][i]
          /\ Append(frames[a], batch)[Len(frames[a]) + 1] = batch
      BY <2>0
    <3> QED
      BY <2>0, <2>1, <2>2, <3>1, <3>2, <3>3 DEF RollsOn
  <2>15. ASSUME NEW c \in Context, PollCounter(a, c) \/ Drop(a, c)
         PROVE  NoRepeats'
    BY <2>0, <2>1, <2>2, <2>15 DEF RollsOn, PollCounter, Drop, queues, calls
  <2> QED
    BY <1>2, <2>3, <2>4, <2>5, <2>6, <2>7, <2>8, <2>9, <2>10, <2>11, <2>12, <2>13,
       <2>14, <2>15 DEF Call, Proceed
<1> QED
  BY <1>0, <1>1, <1>2 DEF Next

-----------------------------------------------------------------------------
(* What each action does to the place of an Operation.                     *)
SubmitStays(o, a) == \A c, k : InSubmit(o, c, k, a)' <=> InSubmit(o, c, k, a)
FramesStay(o, a) == \A c, k, i : InFrame(o, c, k, a, i)' <=> InFrame(o, c, k, a, i)
ContextStays(o, x) == \A k : InContext(o, k, x)' <=> InContext(o, k, x)

LEMMA OthersPlaces ==
  ASSUME Typed, NEW o, NEW a \in Client, Call(a) \/ Proceed(a),
         NEW b \in Client, b # a
  PROVE  SubmitStays(o, b) /\ FramesStay(o, b)
<1>1. UNCHANGED CallOf(b)
  BY OthersCalls
<1> QED
  BY <1>1 DEF CallOf, SubmitStays, FramesStay, InSubmit, InFrame, RollsOn, Forgets,
              Calls

LEMMA StaysHere ==
  ASSUME Typed, NEW o, NEW a \in Client, Call(a) \/ Proceed(a), Good(o), Same(o),
         SubmitStays(o, a), FramesStay(o, a),
         \A x \in Context : ContextStays(o, x)
  PROVE  Good(o)'
<1>1. \A x \in Client : SubmitStays(o, x) /\ FramesStay(o, x)
  BY OthersPlaces
<1> QED
  BY <1>1, Stays DEF SubmitStays, FramesStay, ContextStays

(* A thread's frames, when neither they nor whether it is settling change. *)
LEMMA FramesSame ==
  ASSUME NEW o, NEW a, frames'[a] = frames[a],
         pc[a] = "settle" <=> pc'[a] = "settle"
  PROVE  FramesStay(o, a)
BY DEF FramesStay, InFrame, Calls

LEMMA FramesGrow ==
  ASSUME Typed, NEW o, NEW a \in Client, NEW f, pc[a] # "settle",
         frames'[a] = Append(frames[a], f)
  PROVE  \A c, k, i :
           InFrame(o, c, k, a, i)' <=>
             \/ InFrame(o, c, k, a, i)
             \/ /\ i = Len(frames[a]) + 1 /\ Has(f.ops, o)
                /\ \/ /\ k = "frame" /\ c = f.ctx
                      /\ ~(o = Head(f.ops) /\ pc'[a] # "settle")
                   \/ /\ k = "call" /\ c = NoContext
                      /\ o = Head(f.ops) /\ pc'[a] # "settle"
<1>1. frames[a] \in Seq(Frame) /\ Len(frames[a]) \in Nat
  BY DEF Typed
<1>2. /\ Len(frames'[a]) = Len(frames[a]) + 1
      /\ \A i \in 1 .. Len(frames[a]) : frames'[a][i] = frames[a][i]
      /\ frames'[a][Len(frames[a]) + 1] = f
  BY <1>1
<1> SUFFICES ASSUME NEW c, NEW k, NEW i
             PROVE  InFrame(o, c, k, a, i)' <=>
                      \/ InFrame(o, c, k, a, i)
                      \/ /\ i = Len(frames[a]) + 1 /\ Has(f.ops, o)
                         /\ \/ /\ k = "frame" /\ c = f.ctx
                               /\ ~(o = Head(f.ops) /\ pc'[a] # "settle")
                            \/ /\ k = "call" /\ c = NoContext
                               /\ o = Head(f.ops) /\ pc'[a] # "settle"
  OBVIOUS
<1>3. CASE i \in 1 .. Len(frames[a])
  <2>1. i # Len(frames[a]) + 1 /\ i \in 1 .. Len(frames'[a])
    BY <1>1, <1>2, <1>3
  <2>2. Calls(a, i, o)' <=> Calls(a, i, o)
    BY <1>2, <1>3, <2>1 DEF Calls
  <2> QED
    BY <1>2, <1>3, <2>1, <2>2 DEF InFrame
<1>4. CASE i = Len(frames[a]) + 1
  <2>1. i \notin 1 .. Len(frames[a]) /\ i \in 1 .. Len(frames'[a])
    BY <1>1, <1>2, <1>4
  <2>2. Calls(a, i, o)' <=> o = Head(f.ops) /\ pc'[a] # "settle"
    BY <1>2, <1>4 DEF Calls
  <2> QED
    BY <1>2, <1>4, <2>1, <2>2 DEF InFrame
<1>5. CASE i \notin 1 .. Len(frames[a]) + 1
  <2>1. i \notin 1 .. Len(frames[a])
    BY <1>1, <1>5
  <2> QED
    BY <1>1, <1>2, <1>5, <2>1 DEF InFrame
<1> QED
  BY <1>1, <1>3, <1>4, <1>5

LEMMA PlacedClaim ==
  ASSUME LinuxAssumption, Placing, NEW a \in Client, NEW q \in Op, Claim(a, q),
         NEW o \in Op
  PROVE  Good(o)'
<1>1. /\ Typed /\ Control /\ Good(o) /\ (Call(a) \/ Proceed(a))
      /\ pc[a] = "submit" /\ pc'[a] = "submit" /\ claimed[a] \in Seq(Op)
      /\ claimed'[a] = Append(claimed[a], q)
      /\ UNCHANGED <<on, kernel, ring, frames>>
  BY DEF Placing, AllGood, Proceed, Claim, NextInBatch, queues, Typed, Set
<1>2. \A p \in Op : Has(claimed'[a], p) <=> Has(claimed[a], p) \/ p = q
  BY <1>1, AppendElements
<1>3. FramesStay(o, a) /\ \A x \in Context : ContextStays(o, x)
  BY <1>1, FramesSame DEF ContextStays, InContext
<1>4. CASE o = q
  <2> PICK s : s = on[a]
    OBVIOUS
  <2>1. Nowhere(o)
    BY <1>1, <1>4, FreeIsNowhere DEF Claim, Free
  <2>2. \A c, k : InSubmit(o, c, k, a)' <=> c = on[a] /\ k = "submit"
    BY <1>1, <1>2, <1>4 DEF InSubmit, RollsOn, Forgets
  <2>3. \A b \in Client : b # a => SubmitStays(o, b) /\ FramesStay(o, b)
    BY <1>1, OthersPlaces
  <2>4. OnlyAt(o, s, "submit", a, 0)'
    BY <1>3, <2>1, <2>2, <2>3 DEF Nowhere, OnlyAt, At, SubmitStays, FramesStay, ContextStays
  <2>5. Fields(o, s, "submit")'
    BY <1>1, <1>4, <2>1 DEF Typed, Good, Fields, Claim, Free, RefersTo, Set
  <2> QED
    BY <2>4, <2>5, Moves
<1>5. CASE o # q
  <2>1. SubmitStays(o, a)
    BY <1>1, <1>2, <1>5 DEF SubmitStays, InSubmit, RollsOn, Forgets
  <2>2. Same(o)
    BY <1>1, <1>5 DEF Typed, Same, Claim, RefersTo, Set
  <2> QED
    BY <1>1, <1>3, <2>1, <2>2, StaysHere
<1> QED
  BY <1>4, <1>5

LEMMA PlacedIoSubmit ==
  ASSUME LinuxAssumption, Placing, NEW a \in Client, IoSubmit(a), NEW o \in Op
  PROVE  Good(o)'
<1>1. /\ Typed /\ Control /\ Good(o) /\ (Call(a) \/ Proceed(a))
      /\ pc[a] = "submit" /\ on[a] \in Context
      /\ claimed[a] \in Seq(Op) /\ Once(claimed[a]) /\ claimed'[a] = <<>>
      /\ UNCHANGED <<ring, opRefs, in_progress, done, context, called, frames>>
  BY DEF Placing, AllGood, NoRepeats, Control, Sound, Proceed, IoSubmit, operation,
         Typed, Set
<1> DEFINE N == Accepted(Len(claimed[a]))
<1>2. PICK n \in N :
        /\ Set(kernel, on[a], kernel[on[a]] \cup Elements(SubSeq(claimed[a], 1, n)))
        /\ Set(todo, a, RollsBack(claimed[a], n))
        /\ IF RollsBack(claimed[a], n) = <<>> THEN Leaves(a) /\ LeaveGil
           ELSE Set(pc, a, "reopen") /\ UNCHANGED <<on, gil>>
  BY DEF IoSubmit
<1> DEFINE front == SubSeq(claimed[a], 1, n)
           rest == RollsBack(claimed[a], n)
<1>3. n \in 0 .. Len(claimed[a])
  BY <1>1, Typing
<1>4. /\ \A x : Has(claimed[a], x) <=> Has(front, x) \/ Has(rest, x)
      /\ \A x : ~(Has(front, x) /\ Has(rest, x))
  BY <1>1, <1>3, SplitElements DEF RollsBack, After
<1>5. \A x : x \in Elements(front) <=> Has(front, x)
  BY DEF Elements, Has
<1>6. /\ kernel'[on[a]] = kernel[on[a]] \cup Elements(front)
      /\ \A x \in Context : x # on[a] => kernel'[x] = kernel[x]
      /\ todo'[a] = rest
      /\ IF rest = <<>> THEN pc'[a] = "idle"
         ELSE pc'[a] = "reopen" /\ on'[a] = on[a]
  BY <1>1, <1>2 DEF Typed, Set, Leaves, Enters
<1> HIDE DEF front, rest, N
<1>7. FramesStay(o, a) /\ Same(o)
  BY <1>1, <1>6, FramesSame DEF Same
<1>8. \A c, k : InSubmit(o, c, k, a)' <=> c = on[a] /\ k = "back" /\ Has(rest, o)
  BY <1>1, <1>6, HasEmpty DEF InSubmit, RollsOn, Forgets
<1>9. \A x \in Context : \A k :
        InContext(o, k, x)' <=> \/ InContext(o, k, x)
                                \/ x = on[a] /\ k = "kernel" /\ Has(front, o)
  BY <1>1, <1>5, <1>6 DEF InContext
<1>10. CASE Has(claimed[a], o)
  <2> PICK s : s = on[a]
    OBVIOUS
  <2>1. At(o, on[a], "submit", a, 0)
    BY <1>10 DEF At, InSubmit
  <2>2. \A b \in Client : b # a => SubmitStays(o, b) /\ FramesStay(o, b)
    BY <1>1, OthersPlaces
  <2>3. \A d, l, y, j :
          At(o, d, l, y, j) => d = on[a] /\ l = "submit" /\ y = a /\ j = 0
    BY <1>1, <2>1 DEF Good, OnePlace
  <2>4. Fields(o, s, "kernel")' /\ Fields(o, s, "back")'
    BY <1>1, <2>1 DEF Good, Fields
  <2>5. /\ \A x \in Context : \A k : ~InContext(o, k, x)
        /\ \A x \in Client : \A c, k, i : ~InFrame(o, c, k, x, i)
        /\ \A x \in Client : \A c, k : x # a => ~InSubmit(o, c, k, x)
    <3>1. \A x \in Context : \A k : InContext(o, k, x) => k # "submit"
      BY DEF InContext
    <3>2. \A x \in Client : \A c, k, i : InFrame(o, c, k, x, i) => k # "submit"
      BY DEF InFrame
    <3> QED
      BY <2>3, <3>1, <3>2 DEF At
  <2>6. CASE Has(front, o)
    <3>1. OnlyAt(o, s, "kernel", s, 0)'
      BY <1>1, <1>4, <1>7, <1>8, <1>9, <2>2, <2>5, <2>6
         DEF OnlyAt, At, SubmitStays, FramesStay
    <3> QED
      BY <2>4, <3>1, Moves
  <2>7. CASE ~Has(front, o)
    <3>1. OnlyAt(o, s, "back", a, 0)'
      BY <1>1, <1>4, <1>7, <1>8, <1>9, <1>10, <2>2, <2>5, <2>7
         DEF OnlyAt, At, SubmitStays, FramesStay
    <3> QED
      BY <2>4, <3>1, Moves
  <2> QED
    BY <2>6, <2>7
<1>11. CASE ~Has(claimed[a], o)
  <2>1. SubmitStays(o, a)
    BY <1>1, <1>4, <1>8, <1>11 DEF SubmitStays, InSubmit, RollsOn, Forgets
  <2>2. \A x \in Context : ContextStays(o, x)
    BY <1>4, <1>9, <1>11 DEF ContextStays
  <2> QED
    BY <1>1, <1>7, <2>1, <2>2, StaysHere
<1> QED
  BY <1>10, <1>11

LEMMA PlacedReopen ==
  ASSUME LinuxAssumption, Placing, NEW a \in Client, Reopen(a), NEW o \in Op
  PROVE  Good(o)'
<1>1. /\ Typed /\ Good(o) /\ (Call(a) \/ Proceed(a))
      /\ pc[a] = "reopen" /\ pc'[a] = "forget" /\ todo[a] \in Seq(Op) /\ todo[a] # <<>>
      /\ UNCHANGED <<kernel, ring, opRefs, done, context, called, on, todo, claimed,
                     frames>>
      /\ in_progress' = [in_progress EXCEPT ![Head(todo[a])] = FALSE]
      /\ claimed[a] = <<>>
  BY DEF Placing, AllGood, Control, Sound, RollsOn, Proceed, Reopen, queues, Typed, Set
<1>2. FramesStay(o, a) /\ \A x \in Context : ContextStays(o, x)
  BY <1>1, FramesSame DEF ContextStays, InContext
<1>3. /\ \A c, k : InSubmit(o, c, k, a) <=> c = on[a] /\ k = "back" /\ Has(todo[a], o)
      /\ \A c, k : InSubmit(o, c, k, a)' <=>
           /\ c = on[a] /\ Has(todo[a], o)
           /\ k = IF o = Head(todo[a]) THEN "forget" ELSE "back"
      /\ Has(todo[a], Head(todo[a]))
  BY <1>1, HasEmpty, HeadElements DEF InSubmit, RollsOn, Forgets
<1>4. CASE o = Head(todo[a])
  <2> PICK s : s = on[a]
    OBVIOUS
  <2>1. At(o, on[a], "back", a, 0)
    BY <1>3, <1>4 DEF At
  <2>2. \A d, l, y, j :
          At(o, d, l, y, j) => d = on[a] /\ l = "back" /\ y = a /\ j = 0
    BY <1>1, <2>1 DEF Good, OnePlace
  <2>3. \A b \in Client : b # a => SubmitStays(o, b) /\ FramesStay(o, b)
    BY <1>1, OthersPlaces
  <2>4. /\ \A x \in Context : \A k : ~InContext(o, k, x)
        /\ \A x \in Client : \A c, k, i : ~InFrame(o, c, k, x, i)
        /\ \A x \in Client : \A c, k : x # a => ~InSubmit(o, c, k, x)
    <3>1. \A x \in Context : \A k : InContext(o, k, x) => k # "back"
      BY DEF InContext
    <3>2. \A x \in Client : \A c, k, i : InFrame(o, c, k, x, i) => k # "back"
      BY DEF InFrame
    <3> QED
      BY <2>2, <3>1, <3>2 DEF At
  <2>5. OnlyAt(o, s, "forget", a, 0)'
    BY <1>2, <1>3, <1>4, <2>3, <2>4 DEF OnlyAt, At, SubmitStays, FramesStay, ContextStays
  <2>6. Fields(o, s, "forget")'
    <3>1. Fields(o, s, "back")
      BY <1>1, <2>1 DEF Good
    <3>2. in_progress'[o] = FALSE
      BY <1>1, <1>4 DEF Typed
    <3> QED
      BY <1>1, <3>1, <3>2 DEF Fields
  <2> QED
    BY <2>5, <2>6, Moves
<1>5. CASE o # Head(todo[a])
  <2>1. SubmitStays(o, a)
    BY <1>3, <1>5 DEF SubmitStays
  <2>2. Same(o)
    BY <1>1, <1>5 DEF Typed, Same
  <2> QED
    BY <1>1, <1>2, <2>1, <2>2, StaysHere
<1> QED
  BY <1>4, <1>5

LEMMA PlacedForget ==
  ASSUME LinuxAssumption, Placing, NEW a \in Client, Forget(a), NEW o \in Op
  PROVE  Good(o)'
<1>1. /\ Typed /\ Good(o) /\ (Call(a) \/ Proceed(a))
      /\ pc[a] = "forget" /\ todo[a] \in Seq(Op) /\ todo[a] # <<>> /\ Once(todo[a])
      /\ UNCHANGED <<kernel, ring, in_progress, done, called, claimed, frames>>
      /\ todo'[a] = Tail(todo[a])
      /\ IF Len(todo[a]) = 1 THEN pc'[a] = "idle"
         ELSE pc'[a] = "reopen" /\ on'[a] = on[a]
      /\ claimed[a] = <<>>
  BY DEF Placing, AllGood, NoRepeats, Control, Sound, RollsOn, Proceed, Forget, queues,
         Typed, Set, Leaves, Enters
<1> DEFINE q == Head(todo[a])
<1>2. /\ q \in Op /\ Has(todo[a], q) /\ ~Has(Tail(todo[a]), q)
      /\ \A x : Has(todo[a], x) <=> Has(Tail(todo[a]), x) \/ x = q
      /\ Len(todo[a]) = 1 <=> Tail(todo[a]) = <<>>
  BY <1>1, HeadElements, TailEmpty
<1>3. /\ context' = [context EXCEPT ![q] = NoContext]
      /\ opRefs' = [opRefs EXCEPT ![q] = opRefs[q] - 1]
  BY DEF Forget, RefersTo, Set
<1>4. FramesStay(o, a) /\ \A x \in Context : ContextStays(o, x)
  BY <1>1, FramesSame DEF ContextStays, InContext
<1>5. /\ \A c, k : InSubmit(o, c, k, a) <=>
           /\ c = on[a] /\ Has(todo[a], o)
           /\ k = IF o = q THEN "forget" ELSE "back"
      /\ \A c, k : InSubmit(o, c, k, a)' <=>
           c = on[a] /\ k = "back" /\ Has(Tail(todo[a]), o)
  BY <1>1, <1>2, HasEmpty DEF InSubmit, RollsOn, Forgets
<1> HIDE DEF q
<1>6. CASE o = q
  <2>1. At(o, on[a], "forget", a, 0)
    BY <1>2, <1>5, <1>6 DEF At
  <2>2. \A d, l, y, j :
          At(o, d, l, y, j) => d = on[a] /\ l = "forget" /\ y = a /\ j = 0
    BY <1>1, <2>1 DEF Good, OnePlace
  <2>3. \A b \in Client : b # a => SubmitStays(o, b) /\ FramesStay(o, b)
    BY <1>1, OthersPlaces
  <2>4. /\ \A x \in Context : \A k : ~InContext(o, k, x)
        /\ \A x \in Client : \A c, k, i : ~InFrame(o, c, k, x, i)
        /\ \A x \in Client : \A c, k : x # a => ~InSubmit(o, c, k, x)
    <3>1. \A x \in Context : \A k : InContext(o, k, x) => k # "forget"
      BY DEF InContext
    <3>2. \A x \in Client : \A c, k, i : InFrame(o, c, k, x, i) => k # "forget"
      BY DEF InFrame
    <3> QED
      BY <2>2, <3>1, <3>2 DEF At
  <2>5. \A d, l, y, j : ~At(o, d, l, y, j)'
    BY <1>2, <1>4, <1>5, <1>6, <2>3, <2>4 DEF At, SubmitStays, FramesStay, ContextStays
  <2>6. /\ context'[o] = NoContext /\ called'[o] = 0 /\ opRefs'[o] = 1
        /\ ~in_progress'[o] /\ ~done'[o]
    BY <1>1, <1>3, <1>6, <2>1 DEF Good, Fields, Typed
  <2> QED
    BY <2>5, <2>6, Goes
<1>7. CASE o # q
  <2>1. SubmitStays(o, a)
    BY <1>2, <1>5, <1>7 DEF SubmitStays
  <2>2. Same(o)
    BY <1>1, <1>3, <1>7 DEF Typed, Same
  <2> QED
    BY <1>1, <1>4, <2>1, <2>2, StaysHere
<1> QED
  BY <1>6, <1>7

LEMMA PlacedComplete ==
  ASSUME LinuxAssumption, Placing, NEW q \in Op, NEW s \in Context, Complete(s, q),
         NEW o \in Op
  PROVE  Good(o)'
<1>1. /\ Typed /\ Good(o) /\ q \in kernel[s] /\ ring[s] \in Seq(Op)
      /\ kernel' = [kernel EXCEPT ![s] = kernel[s] \ {q}]
      /\ ring' = [ring EXCEPT ![s] = Append(ring[s], q)]
      /\ UNCHANGED <<operation, calls>>
  BY DEF Placing, AllGood, Complete, Typed, Set
<1>2. \A x \in Client : SubmitStays(o, x) /\ FramesStay(o, x)
  BY <1>1 DEF SubmitStays, FramesStay, InSubmit, InFrame, RollsOn, Forgets, Calls, calls
<1>3. \A x \in Context : x # s => ContextStays(o, x)
  BY <1>1 DEF ContextStays, InContext, Typed
<1>4. /\ kernel'[s] = kernel[s] \ {q}
      /\ Has(ring'[s], o) <=> Has(ring[s], o) \/ o = q
  BY <1>1, AppendElements DEF Typed
<1>5. CASE o = q
  <2>1. At(o, s, "kernel", s, 0)
    BY <1>1, <1>5 DEF At, InContext
  <2>2. \A d, l, y, j :
          At(o, d, l, y, j) => d = s /\ l = "kernel" /\ y = s /\ j = 0
    BY <1>1, <2>1 DEF Good, OnePlace
  <2>3. /\ \A x \in Context : x # s => \A k : ~InContext(o, k, x)
        /\ ~Has(ring[s], o)
        /\ \A x \in Client : \A c, k, i : ~InFrame(o, c, k, x, i)
        /\ \A x \in Client : \A c, k : ~InSubmit(o, c, k, x)
    <3>1. \A x \in Client : \A c, k, i : InFrame(o, c, k, x, i) => k # "kernel"
      BY DEF InFrame
    <3>2. \A x \in Client : \A c, k : InSubmit(o, c, k, x) => k # "kernel"
      BY DEF InSubmit
    <3>3. ~At(o, s, "ring", s, 0)
      BY <2>2
    <3>4. ~Has(ring[s], o)
      BY <3>3 DEF At, InContext
    <3>5. \A x \in Context : x # s => \A k : ~InContext(o, k, x)
      BY <2>2 DEF At
    <3>6. \A x \in Client : \A c, k, i : ~InFrame(o, c, k, x, i)
      BY <2>2, <3>1 DEF At
    <3>7. \A x \in Client : \A c, k : ~InSubmit(o, c, k, x)
      BY <2>2, <3>2 DEF At
    <3> QED
      BY <3>4, <3>5, <3>6, <3>7
  <2>4. \A k : InContext(o, k, s)' <=> k = "ring"
    BY <1>4, <1>5 DEF InContext
  <2>5. OnlyAt(o, s, "ring", s, 0)'
    BY <1>2, <1>3, <2>3, <2>4 DEF OnlyAt, At, SubmitStays, FramesStay, ContextStays
  <2>6. Fields(o, s, "ring")'
    BY <1>1, <2>1 DEF Good, Fields, operation
  <2> QED
    BY <2>5, <2>6, Moves
<1>6. CASE o # q
  <2>1. ContextStays(o, s)
    BY <1>4, <1>6 DEF ContextStays, InContext
  <2>2. Same(o)
    BY <1>1 DEF Same, operation
  <2> QED
    BY <1>1, <1>2, <1>3, <2>1, <2>2, Stays DEF SubmitStays, FramesStay, ContextStays
<1> QED
  BY <1>5, <1>6

LEMMA PlacedGetEvents ==
  ASSUME LinuxAssumption, Placing, NEW a \in Client, GetEvents(a), NEW o \in Op
  PROVE  Good(o)'
<1> PICK s : s = on[a]
  OBVIOUS
<1> DEFINE n == Gathered(ring[s], arg[a].max)
           front == SubSeq(ring[s], 1, n)
           back == After(ring[s], n)
           f == [ctx |-> s, ops |-> front]
<1>1. /\ Typed /\ Good(o) /\ (Call(a) \/ Proceed(a))
      /\ pc[a] = "getevents" /\ s \in Context /\ ring[s] \in Seq(Op) /\ Once(ring[s])
      /\ arg[a].max \in Nat /\ claimed[a] = <<>> /\ Len(frames[a]) \in Nat
  <2>1. Typed /\ Sound(a) /\ Good(o) /\ NoRepeats /\ pc[a] = "getevents"
    BY DEF Placing, AllGood, Control, GetEvents
  <2>2. s \in Context /\ claimed[a] = <<>>
    BY <2>1 DEF Sound
  <2>3. Proceed(a)
    BY DEF Proceed
  <2>4. ring[s] \in Seq(Op) /\ Once(ring[s])
    BY <2>1, <2>2 DEF Typed, NoRepeats
  <2>5. arg[a].max \in Nat /\ frames[a] \in Seq(Frame)
    BY <2>1 DEF Typed
  <2> QED
    BY <2>1, <2>2, <2>3, <2>4, <2>5
<1>2. /\ ring'[s] = back /\ \A x \in Context : x # s => ring'[x] = ring[x]
      /\ IF n = 0 THEN pc'[a] = "idle" /\ frames'[a] = frames[a]
         ELSE pc'[a] = "settle" /\ frames'[a] = Append(frames[a], f)
      /\ UNCHANGED <<operation, kernel, claimed>>
  BY <1>1 DEF GetEvents, Typed, Set, Leaves, Enters
<1>3. n \in 0 .. Len(ring[s])
  BY <1>1 DEF Gathered
<1>4. /\ \A x : Has(ring[s], x) <=> Has(front, x) \/ Has(back, x)
      /\ \A x : ~(Has(front, x) /\ Has(back, x))
      /\ front \in Seq(Op) /\ Len(front) = n
  BY <1>1, <1>3, SplitElements DEF After
<1>5. f.ctx = s /\ f.ops = front
  OBVIOUS
<1>6. Has(front, o) => n # 0
  BY <1>4 DEF Has
<1> HIDE DEF n, front, back, f
<1>7. SubmitStays(o, a) /\ Same(o)
  BY <1>1, <1>2, HasEmpty DEF SubmitStays, InSubmit, RollsOn, Forgets, Same, operation
<1>8. /\ \A x \in Context : x # s => ContextStays(o, x)
      /\ \A k : InContext(o, k, s)' <=> \/ k = "kernel" /\ o \in kernel[s]
                                        \/ k = "ring" /\ Has(back, o)
  BY <1>1, <1>2 DEF ContextStays, InContext
<1>9. CASE Has(front, o)
  <2> PICK depth : depth = Len(frames[a]) + 1
    OBVIOUS
  <2>1. At(o, s, "ring", s, 0)
    BY <1>1, <1>4, <1>9 DEF At, InContext
  <2>2. \A d, l, y, j :
          At(o, d, l, y, j) => d = s /\ l = "ring" /\ y = s /\ j = 0
    BY <1>1, <2>1 DEF Good, OnePlace
  <2>3. \A b \in Client : b # a => SubmitStays(o, b) /\ FramesStay(o, b)
    BY <1>1, OthersPlaces
  <2>4. /\ \A x \in Context : x # s => \A k : ~InContext(o, k, x)
        /\ o \notin kernel[s]
        /\ \A x \in Client : \A c, k, i : ~InFrame(o, c, k, x, i)
        /\ \A x \in Client : \A c, k : ~InSubmit(o, c, k, x)
    <3>1. \A x \in Client : \A c, k, i : InFrame(o, c, k, x, i) => k # "ring"
      BY DEF InFrame
    <3>2. \A x \in Client : \A c, k : InSubmit(o, c, k, x) => k # "ring"
      BY DEF InSubmit
    <3>3. ~At(o, s, "kernel", s, 0)
      BY <2>2
    <3>4. o \notin kernel[s]
      BY <1>1, <3>3 DEF At, InContext
    <3>5. \A x \in Context : x # s => \A k : ~InContext(o, k, x)
      BY <2>2 DEF At
    <3>6. \A x \in Client : \A c, k, i : ~InFrame(o, c, k, x, i)
      BY <2>2, <3>1 DEF At
    <3>7. \A x \in Client : \A c, k : ~InSubmit(o, c, k, x)
      BY <2>2, <3>2 DEF At
    <3> QED
      BY <3>4, <3>5, <3>6, <3>7
  <2>5. \A c, k, i : InFrame(o, c, k, a, i)' <=> c = s /\ k = "frame" /\ i = depth
    <3>1. n # 0 /\ pc'[a] = "settle" /\ frames'[a] = Append(frames[a], f)
      BY <1>2, <1>6, <1>9
    <3>2. \A c, k, i : ~InFrame(o, c, k, a, i)
      BY <2>4
    <3>3. \A c, k, i :
            InFrame(o, c, k, a, i)' <=>
              \/ InFrame(o, c, k, a, i)
              \/ /\ i = Len(frames[a]) + 1 /\ Has(f.ops, o)
                 /\ \/ /\ k = "frame" /\ c = f.ctx
                       /\ ~(o = Head(f.ops) /\ pc'[a] # "settle")
                    \/ /\ k = "call" /\ c = NoContext
                       /\ o = Head(f.ops) /\ pc'[a] # "settle"
      BY <1>1, <3>1, FramesGrow
    <3> QED
      BY <1>5, <1>9, <3>1, <3>2, <3>3
  <2>6. OnlyAt(o, s, "frame", a, depth)'
    BY <1>1, <1>4, <1>7, <1>8, <1>9, <2>3, <2>4, <2>5
       DEF OnlyAt, At, SubmitStays, FramesStay, ContextStays
  <2>7. Fields(o, s, "frame")'
    BY <1>1, <1>2, <2>1 DEF Good, Fields, operation
  <2> QED
    BY <2>6, <2>7, Moves
<1>10. CASE ~Has(front, o)
  <2>1. FramesStay(o, a)
    <3>1. CASE n = 0
      BY <1>1, <1>2, <3>1, FramesSame
    <3>2. CASE n # 0
      BY <1>1, <1>2, <1>5, <1>10, <3>2, FramesGrow DEF FramesStay
    <3> QED
      BY <3>1, <3>2
  <2>2. \A x \in Context : ContextStays(o, x)
    BY <1>4, <1>8, <1>10 DEF ContextStays, InContext
  <2> QED
    BY <1>1, <1>7, <2>1, <2>2, StaysHere
<1> QED
  BY <1>9, <1>10

LEMMA PlacedSettle ==
  ASSUME LinuxAssumption, Placing, NEW a \in Client, Settle(a), NEW o \in Op
  PROVE  Good(o)'
<1> PICK depth : depth = Len(frames[a])
  OBVIOUS
<1> PICK q : q = Head(Top(a).ops)
  OBVIOUS
<1>1. /\ Typed /\ Good(o) /\ (Call(a) \/ Proceed(a))
      /\ pc[a] = "settle" /\ pc'[a] = "idle" /\ claimed[a] = <<>>
      /\ frames[a] # <<>>
      /\ UNCHANGED <<kernel, ring, opRefs, in_progress, called, claimed, frames>>
      /\ done' = [done EXCEPT ![q] = TRUE]
      /\ context' = [context EXCEPT ![q] = NoContext]
  BY DEF Placing, AllGood, Control, Sound, Proceed, Settle, Settles, RefersTo, queues,
         Typed, Set, Leaves, Enters
<1>2. /\ depth \in Nat \ {0} /\ Top(a) = frames[a][depth] /\ q \in Op
      /\ Has(Top(a).ops, q)
  BY <1>1, TopTyped, HeadElements
<1>3. SubmitStays(o, a) /\ \A x \in Context : ContextStays(o, x)
  BY <1>1, HasEmpty DEF SubmitStays, InSubmit, RollsOn, Forgets, ContextStays, InContext
<1>4. \A i : Calls(a, i, o)' <=> Calls(a, i, o) \/ (i = depth /\ o = q)
  <2>1. frames'[a] = frames[a] /\ Len(frames[a]) = depth
    BY <1>1
  <2>2. q = Head(frames[a][depth].ops)
    BY <1>2
  <2> QED
    BY <1>1, <2>1, <2>2 DEF Calls
<1>5. CASE o = q
  <2> PICK s : s = Top(a).ctx
    OBVIOUS
  <2>1. At(o, s, "frame", a, depth)
    BY <1>1, <1>2, <1>5 DEF At, InFrame, Calls
  <2>2. \A d, l, y, j :
          At(o, d, l, y, j) => d = s /\ l = "frame" /\ y = a /\ j = depth
    BY <1>1, <2>1 DEF Good, OnePlace
  <2>3. \A b \in Client : b # a => SubmitStays(o, b) /\ FramesStay(o, b)
    BY <1>1, OthersPlaces
  <2>4. /\ \A x \in Context : \A k : ~InContext(o, k, x)
        /\ \A x \in Client : \A c, k, i : x # a => ~InFrame(o, c, k, x, i)
        /\ \A c, k, i : InFrame(o, c, k, a, i) => i = depth
        /\ \A x \in Client : \A c, k : ~InSubmit(o, c, k, x)
    <3>1. \A x \in Client : \A c, k : InSubmit(o, c, k, x) => k # "frame"
      BY DEF InSubmit
    <3>2. \A x \in Context : \A k : InContext(o, k, x) => k # "frame"
      BY DEF InContext
    <3>3. \A x \in Context : \A k : ~InContext(o, k, x)
      BY <2>2, <3>2 DEF At
    <3>4. \A x \in Client : \A c, k : ~InSubmit(o, c, k, x)
      <4>1. \A x \in Client : \A c, k : InSubmit(o, c, k, x) => At(o, c, k, x, 0)
        BY DEF At
      <4> QED
        BY <2>2, <3>1, <4>1
    <3>5. \A x \in Client : \A c, k, i : InFrame(o, c, k, x, i) => x = a /\ i = depth
      BY <2>2 DEF At
    <3> QED
      BY <3>3, <3>4, <3>5
  <2>5. \A c, k, i : InFrame(o, c, k, a, i)' <=> c = NoContext /\ k = "call" /\ i = depth
    <3>1. Calls(a, depth, o)'
      BY <1>4, <1>5
    <3>2. \A i : i \in 1 .. Len(frames[a]) /\ Has(frames[a][i].ops, o) => i = depth
      <4> SUFFICES ASSUME NEW i \in 1 .. Len(frames[a]), Has(frames[a][i].ops, o)
                   PROVE  i = depth
        OBVIOUS
      <4>1. CASE Calls(a, i, o)
        <5>1. InFrame(o, NoContext, "call", a, i)
          BY <4>1 DEF InFrame
        <5> QED
          BY <2>4, <5>1
      <4>2. CASE ~Calls(a, i, o)
        <5>1. InFrame(o, frames[a][i].ctx, "frame", a, i)
          BY <4>2 DEF InFrame
        <5> QED
          BY <2>4, <5>1
      <4> QED
        BY <4>1, <4>2
    <3> QED
      BY <1>1, <1>2, <1>5, <3>1, <3>2 DEF InFrame
  <2>6. OnlyAt(o, NoContext, "call", a, depth)'
    BY <1>3, <2>3, <2>4, <2>5 DEF OnlyAt, At, SubmitStays, FramesStay, ContextStays
  <2>7. Fields(o, NoContext, "call")'
    <3>1. Fields(o, s, "frame")
      BY <1>1, <2>1 DEF Good
    <3>2. done'[o] = TRUE /\ context'[o] = NoContext
      BY <1>1, <1>2, <1>5 DEF Typed
    <3> QED
      BY <1>1, <3>1, <3>2 DEF Fields
  <2> QED
    BY <2>6, <2>7, Moves
<1>6. CASE o # q
  <2>1. FramesStay(o, a)
    <3>1. \A i : Calls(a, i, o)' <=> Calls(a, i, o)
      BY <1>4, <1>6
    <3> QED
      BY <1>1, <3>1 DEF FramesStay, InFrame
  <2>2. Same(o)
    BY <1>1, <1>6 DEF Typed, Same
  <2> QED
    BY <1>1, <1>3, <2>1, <2>2, StaysHere
<1> QED
  BY <1>5, <1>6

LEMMA PlacedCancel ==
  ASSUME LinuxAssumption, Placing, NEW a \in Client, NEW s \in Context, NEW q \in Op,
         Cancel(a, s, q), Len(frames[a]) <= MaxDepth, NEW o \in Op
  PROVE  Good(o)'
<1> DEFINE f == [ctx |-> s, ops |-> <<q>>]
<1>0. Call(a)
  BY DEF Call
<1>1. /\ Typed /\ Good(o) /\ Call(a)
      /\ pc[a] = "idle" /\ q \in kernel[s] /\ Len(frames[a]) \in Nat
      /\ UNCHANGED <<pc, on, claimed, ring, opRefs, in_progress, called, todo>>
      /\ kernel' = [kernel EXCEPT ![s] = kernel[s] \ {q}]
      /\ frames'[a] = Append(frames[a], f)
      /\ done' = [done EXCEPT ![q] = TRUE]
      /\ context' = [context EXCEPT ![q] = NoContext]
  <2>1. Typed /\ Good(o) /\ Len(frames[a]) \in Nat
    <3>1. Typed /\ Good(o)
      BY DEF Placing, AllGood
    <3>2. frames[a] \in Seq(Frame)
      BY <3>1 DEF Typed
    <3> QED
      BY <3>1, <3>2
  <2>2. frames'[a] = Append(frames[a], f)
    BY <2>1 DEF Cancel, Typed, Set
  <2> QED
    BY <1>0, <2>1, <2>2 DEF Cancel, MayCall, Settles, RefersTo, Set
<1>2. /\ Head(f.ops) = q /\ \A x : Has(f.ops, x) <=> x = q
  BY DEF Has
<1> HIDE DEF f
<1>3. SubmitStays(o, a)
  BY <1>1 DEF SubmitStays, InSubmit, RollsOn, Forgets
<1>4. /\ \A x \in Context : x # s => ContextStays(o, x)
      /\ \A k : InContext(o, k, s)' <=> \/ k = "kernel" /\ o \in kernel[s] /\ o # q
                                        \/ k = "ring" /\ Has(ring[s], o)
  BY <1>1 DEF ContextStays, InContext, Typed
<1>5. CASE o = q
  <2> PICK depth : depth = Len(frames[a]) + 1
    OBVIOUS
  <2>1. At(o, s, "kernel", s, 0)
    BY <1>1, <1>5 DEF At, InContext
  <2>2. \A d, l, y, j :
          At(o, d, l, y, j) => d = s /\ l = "kernel" /\ y = s /\ j = 0
    BY <1>1, <2>1 DEF Good, OnePlace
  <2>3. \A b \in Client : b # a => SubmitStays(o, b) /\ FramesStay(o, b)
    BY <1>1, OthersPlaces
  <2>4. /\ \A x \in Context : x # s => \A k : ~InContext(o, k, x)
        /\ ~Has(ring[s], o)
        /\ \A x \in Client : \A c, k, i : ~InFrame(o, c, k, x, i)
        /\ \A x \in Client : \A c, k : ~InSubmit(o, c, k, x)
    <3>1. \A x \in Client : \A c, k, i : InFrame(o, c, k, x, i) => k # "kernel"
      BY DEF InFrame
    <3>2. \A x \in Client : \A c, k : InSubmit(o, c, k, x) => k # "kernel"
      BY DEF InSubmit
    <3>3. ~At(o, s, "ring", s, 0)
      BY <2>2
    <3>4. ~Has(ring[s], o)
      BY <3>3 DEF At, InContext
    <3>5. \A x \in Context : x # s => \A k : ~InContext(o, k, x)
      BY <2>2 DEF At
    <3>6. \A x \in Client : \A c, k, i : ~InFrame(o, c, k, x, i)
      BY <2>2, <3>1 DEF At
    <3>7. \A x \in Client : \A c, k : ~InSubmit(o, c, k, x)
      <4> SUFFICES ASSUME NEW x \in Client, NEW c, NEW k, InSubmit(o, c, k, x)
                   PROVE  FALSE
        OBVIOUS
      <4>1. At(o, c, k, x, 0)
        BY DEF At
      <4> QED
        BY <2>2, <3>2, <4>1
    <3> QED
      BY <3>4, <3>5, <3>6, <3>7
  <2>5. \A c, k, i : InFrame(o, c, k, a, i)' <=> c = NoContext /\ k = "call" /\ i = depth
    BY <1>1, <1>2, <1>5, <2>4, FramesGrow
  <2>6. OnlyAt(o, NoContext, "call", a, depth)'
    BY <1>1, <1>3, <1>4, <1>5, <2>3, <2>4, <2>5
       DEF OnlyAt, At, SubmitStays, FramesStay, ContextStays
  <2>7. Fields(o, NoContext, "call")'
    <3>1. Fields(o, s, "kernel")
      BY <1>1, <2>1 DEF Good
    <3>2. done'[o] = TRUE /\ context'[o] = NoContext
      BY <1>1, <1>5 DEF Typed
    <3> QED
      BY <1>1, <3>1, <3>2 DEF Fields
  <2> QED
    BY <2>6, <2>7, Moves
<1>6. CASE o # q
  <2>1. FramesStay(o, a)
    BY <1>1, <1>2, <1>6, FramesGrow DEF FramesStay
  <2>2. \A x \in Context : ContextStays(o, x)
    BY <1>4, <1>6 DEF ContextStays, InContext
  <2>3. Same(o)
    BY <1>1, <1>6 DEF Typed, Same
  <2> QED
    BY <1>1, <1>3, <2>1, <2>2, <2>3, StaysHere
<1> QED
  BY <1>5, <1>6

LEMMA PlacedCallbackReturns ==
  ASSUME LinuxAssumption, Placing, NEW a \in Client, CallbackReturns(a), NEW o \in Op
  PROVE  Good(o)'
<1> PICK depth : depth = Len(frames[a])
  OBVIOUS
<1> PICK q : q = Head(Top(a).ops)
  OBVIOUS
<1> DEFINE ops == Tail(Top(a).ops)
<1>1. /\ Typed /\ Good(o) /\ (Call(a) \/ Proceed(a))
      /\ pc[a] = "idle" /\ claimed[a] = <<>> /\ frames[a] # <<>>
      /\ frames[a] \in Seq(Frame)
  BY DEF Placing, AllGood, Control, Sound, RollsOn, Proceed, CallbackReturns, Typed
<1>2. /\ depth \in Nat \ {0} /\ Top(a) = frames[a][depth] /\ Top(a) \in Frame
      /\ q \in Op /\ Top(a).ops \in Seq(Op) /\ Top(a).ops # <<>> /\ Once(Top(a).ops)
  BY <1>1, TopTyped DEF Placing, NoRepeats
<1>3. /\ UNCHANGED <<kernel, ring, in_progress, done, context, claimed>>
      /\ opRefs' = [opRefs EXCEPT ![q] = opRefs[q] - 1]
      /\ called' = [called EXCEPT ![q] = called[q] + 1]
      /\ IF ops = <<>>
           THEN frames'[a] = SubSeq(frames[a], 1, depth - 1) /\ pc'[a] = "idle"
           ELSE frames'[a] = [frames[a] EXCEPT ![depth].ops = ops] /\ pc'[a] = "settle"
  BY <1>1 DEF CallbackReturns, Remaining, queues, Typed, Set, Enters
<1>4. /\ Has(Top(a).ops, q) /\ ~Has(ops, q)
      /\ \A x : Has(Top(a).ops, x) <=> Has(ops, x) \/ x = q
      /\ ops \in Seq(Op)
  BY <1>2, HeadElements
<1> HIDE DEF ops
<1>5. SubmitStays(o, a) /\ \A x \in Context : ContextStays(o, x)
  BY <1>1, <1>3, HasEmpty
     DEF SubmitStays, InSubmit, RollsOn, Forgets, ContextStays, InContext
<1>6. \A c, k, i : i # depth =>
        (InFrame(o, c, k, a, i)' <=> InFrame(o, c, k, a, i))
  <2> SUFFICES ASSUME NEW i, i # depth
               PROVE  \A c, k : InFrame(o, c, k, a, i)' <=> InFrame(o, c, k, a, i)
    OBVIOUS
  <2>1. CASE i \notin 1 .. depth
    <3>1. Len(frames'[a]) <= depth /\ Len(frames'[a]) \in Nat
      <4>1. CASE ops = <<>>
        BY <1>1, <1>2, <1>3, <4>1, SplitElements
      <4>2. CASE ops # <<>>
        BY <1>1, <1>2, <1>3, <4>2
      <4> QED
        BY <4>1, <4>2
    <3>2. i \notin 1 .. Len(frames'[a])
      BY <1>2, <2>1, <3>1
    <3> QED
      BY <2>1, <3>2 DEF InFrame
  <2>2. CASE i \in 1 .. depth
    <3>1. i \in 1 .. depth - 1
      BY <1>2, <2>2
    <3>2. /\ i \in 1 .. Len(frames'[a]) /\ frames'[a][i] = frames[a][i]
          /\ i = Len(frames'[a]) => pc'[a] = "idle"
      <4>1. CASE ops = <<>>
        BY <1>1, <1>2, <1>3, <3>1, <4>1
      <4>2. CASE ops # <<>>
        BY <1>1, <1>2, <1>3, <3>1, <4>2
      <4> QED
        BY <4>1, <4>2
    <3>3. Calls(a, i, o)' <=> Calls(a, i, o)
      BY <1>1, <3>2 DEF Calls
    <3> QED
      BY <2>2, <3>2, <3>3 DEF InFrame
  <2> QED
    BY <2>1, <2>2
<1>7. /\ \A c, k : InFrame(o, c, k, a, depth) <=>
           /\ Has(Top(a).ops, o)
           /\ \/ k = "frame" /\ o # q /\ c = Top(a).ctx
              \/ k = "call" /\ o = q /\ c = NoContext
      /\ \A c, k : InFrame(o, c, k, a, depth)' <=>
           Has(ops, o) /\ k = "frame" /\ c = Top(a).ctx
  <2>1. depth \in 1 .. Len(frames[a]) /\ (Calls(a, depth, o) <=> o = q)
    BY <1>1, <1>2 DEF Calls
  <2>2. \A c, k : InFrame(o, c, k, a, depth) <=>
           /\ Has(Top(a).ops, o)
           /\ \/ k = "frame" /\ o # q /\ c = Top(a).ctx
              \/ k = "call" /\ o = q /\ c = NoContext
    BY <1>2, <2>1 DEF InFrame
  <2>3. CASE ops = <<>>
    <3>1. Len(frames'[a]) = depth - 1
      BY <1>1, <1>2, <1>3, <2>3
    <3>2. depth \notin 1 .. Len(frames'[a])
      BY <1>2, <3>1
    <3> QED
      BY <2>2, <2>3, <3>2, HasEmpty DEF InFrame
  <2>4. CASE ops # <<>>
    <3>1. /\ Len(frames'[a]) = depth /\ pc'[a] = "settle"
          /\ frames'[a][depth] = [Top(a) EXCEPT !.ops = ops]
      BY <1>1, <1>2, <1>3, <2>4
    <3>2. /\ [Top(a) EXCEPT !.ops = ops].ops = ops
          /\ [Top(a) EXCEPT !.ops = ops].ctx = Top(a).ctx
      BY <1>2 DEF Frame
    <3>3. ~Calls(a, depth, o)' /\ depth \in 1 .. Len(frames'[a])
      BY <1>2, <3>1 DEF Calls
    <3>4. frames'[a][depth].ops = ops /\ frames'[a][depth].ctx = Top(a).ctx
      BY <3>1, <3>2
    <3> QED
      BY <2>2, <3>3, <3>4 DEF InFrame
  <2> QED
    BY <2>3, <2>4
<1>8. CASE o = q
  <2>1. At(o, NoContext, "call", a, depth)
    BY <1>4, <1>7, <1>8 DEF At
  <2>2. \A d, l, y, j :
          At(o, d, l, y, j) => d = NoContext /\ l = "call" /\ y = a /\ j = depth
    BY <1>1, <2>1 DEF Good, OnePlace
  <2>3. \A b \in Client : b # a => SubmitStays(o, b) /\ FramesStay(o, b)
    BY <1>1, OthersPlaces
  <2>4. \A d, l, y, j : ~At(o, d, l, y, j)'
    <3> SUFFICES ASSUME NEW d, NEW l, NEW y, NEW j, At(o, d, l, y, j)' PROVE FALSE
      OBVIOUS
    <3>1. CASE y \in Client /\ j = 0 /\ InSubmit(o, d, l, y)'
      <4>1. InSubmit(o, d, l, y)
        BY <1>5, <2>3, <3>1 DEF SubmitStays
      <4>2. At(o, d, l, y, 0) /\ l # "call"
        BY <3>1, <4>1 DEF At, InSubmit
      <4> QED
        BY <2>2, <4>2
    <3>2. CASE y \in Context /\ j = 0 /\ d = y /\ InContext(o, l, y)'
      <4>1. InContext(o, l, y)
        BY <1>5, <3>2 DEF ContextStays
      <4>2. At(o, d, l, y, 0) /\ l # "call"
        BY <3>2, <4>1 DEF At, InContext
      <4> QED
        BY <2>2, <4>2
    <3>3. CASE y \in Client /\ InFrame(o, d, l, y, j)'
      <4>1. CASE y = a /\ j = depth
        BY <1>4, <1>7, <1>8, <3>3, <4>1
      <4>2. CASE ~(y = a /\ j = depth)
        <5>1. InFrame(o, d, l, y, j)
          BY <1>6, <2>3, <3>3, <4>2 DEF FramesStay
        <5>2. At(o, d, l, y, j)
          BY <3>3, <5>1 DEF At
        <5> QED
          BY <2>2, <4>2, <5>2
      <4> QED
        BY <4>1, <4>2
    <3> QED
      BY <3>1, <3>2, <3>3 DEF At
  <2>5. Fields(o, NoContext, "call")
    BY <1>1, <2>1 DEF Good
  <2>6. opRefs'[o] = opRefs[o] - 1 /\ called'[o] = called[o] + 1
    BY <1>1, <1>2, <1>3, <1>8 DEF Typed
  <2>7. /\ context'[o] = NoContext /\ called'[o] = 1 /\ opRefs'[o] = 1
        /\ in_progress'[o] /\ done'[o]
    BY <1>3, <2>5, <2>6 DEF Fields
  <2> QED
    BY <2>4, <2>7, Goes
<1>9. CASE o # q
  <2>1. FramesStay(o, a)
    BY <1>4, <1>6, <1>7, <1>9 DEF FramesStay
  <2>2. Same(o)
    BY <1>1, <1>3, <1>9 DEF Typed, Same
  <2> QED
    BY <1>1, <1>5, <2>1, <2>2, StaysHere
<1> QED
  BY <1>8, <1>9

(* The place and the fields of every Operation, at every step.             *)
LEMMA NextGood ==
  ASSUME LinuxAssumption, Placing, [Next]_vars
  PROVE  AllGood'
<1> SUFFICES ASSUME NEW o \in Op PROVE Good(o)'
  BY DEF AllGood
<1>0. /\ Typed /\ Good(o)
      /\ \A a \in Client : Sound(a)
  BY DEF Placing, AllGood, Control
<1>1. CASE UNCHANGED vars
  <2>1. /\ \A x \in Client : SubmitStays(o, x) /\ FramesStay(o, x)
        /\ \A x \in Context : ContextStays(o, x)
        /\ Same(o)
    BY <1>1 DEF SubmitStays, FramesStay, ContextStays, InSubmit, InFrame, InContext,
                RollsOn, Forgets, Calls, Same, vars, queues, operation, calls
  <2> QED
    BY <1>0, <2>1, Stays DEF SubmitStays, FramesStay, ContextStays
(* A method that begins, ends or fails with no Operation in hand, and what *)
(* the program does to a Context, move none.                               *)
<1>2. ASSUME NEW a \in Client, Call(a) \/ Proceed(a),
             frames'[a] = frames[a], pc[a] = "settle" <=> pc'[a] = "settle",
             claimed'[a] = claimed[a],
             ~RollsOn(a), pc'[a] \notin {"reopen", "forget"},
             on'[a] = on[a] \/ claimed[a] = <<>>,
             UNCHANGED <<kernel, ring, operation>>
      PROVE  Good(o)'
  <2>1. SubmitStays(o, a)
    BY <1>2, HasEmpty DEF SubmitStays, InSubmit, RollsOn, Forgets
  <2>2. /\ FramesStay(o, a) /\ \A x \in Context : ContextStays(o, x)
        /\ Same(o)
    BY <1>2, FramesSame DEF ContextStays, InContext, Same, operation
  <2> QED
    BY <1>0, <1>2, <2>1, <2>2, StaysHere
<1>3. ASSUME NEW a \in Client, Call(a) PROVE Good(o)'
  <2> USE DEF Set, Enters
  <2>1. ASSUME NEW c \in Context, NEW ops \in Batch, SubmitBegin(a, c, ops)
        PROVE  Good(o)'
    <3>1. /\ pc[a] = "idle" /\ pc'[a] = "submit"
          /\ UNCHANGED <<claimed, frames, kernel, ring, operation>>
      BY <1>0, <2>1 DEF SubmitBegin, MayCall, queues, Typed
    <3>2. claimed[a] = <<>>
      BY <1>0, <3>1 DEF Sound
    <3> QED
      BY <1>2, <1>3, <3>1, <3>2 DEF RollsOn
  <2>2. ASSUME NEW c \in Context, NEW min \in MinRequests, NEW max \in MaxRequests,
               NEW timed \in BOOLEAN, ProcessEvents(a, c, min, max, timed)
        PROVE  Good(o)'
    <3>1. /\ pc[a] = "idle" /\ pc'[a] = "getevents"
          /\ UNCHANGED <<claimed, frames, kernel, ring, operation>>
      BY <1>0, <2>2 DEF ProcessEvents, MayCall, queues, Typed
    <3>2. claimed[a] = <<>>
      BY <1>0, <3>1 DEF Sound
    <3> QED
      BY <1>2, <1>3, <3>1, <3>2 DEF RollsOn
  <2>3. ASSUME NEW c \in Context, NEW q \in Op, Cancel(a, c, q),
               Len(frames[a]) <= MaxDepth
        PROVE  Good(o)'
    BY <2>3, PlacedCancel
  <2>4. ASSUME NEW c \in Context, PollCounter(a, c) \/ Drop(a, c)
        PROVE  Good(o)'
    <3>1. /\ pc[a] = "idle" /\ UNCHANGED calls
          /\ UNCHANGED <<kernel, ring, operation>>
      BY <2>4 DEF PollCounter, Drop, MayCall, queues
    <3>2. pc'[a] = pc[a] /\ frames'[a] = frames[a] /\ on'[a] = on[a]
          /\ claimed'[a] = claimed[a]
      BY <3>1 DEF calls
    <3> QED
      BY <1>2, <1>3, <3>1, <3>2 DEF RollsOn
  <2> QED
    BY <1>3, <2>1, <2>2, <2>3, <2>4 DEF Call
<1>4. ASSUME NEW a \in Client, Proceed(a) PROVE Good(o)'
  <2> USE DEF Set, Enters, Leaves
  <2>1. ASSUME NEW q \in Op, Skip(a, q) PROVE Good(o)'
    <3>1. /\ pc[a] = "submit" /\ UNCHANGED <<pc, on, claimed, frames>>
          /\ UNCHANGED <<kernel, ring, operation>>
      BY <2>1 DEF Skip, NextInBatch, queues
    <3> QED
      BY <1>2, <1>4, <3>1 DEF RollsOn
  <2>2. ASSUME NEW q \in Op, Claim(a, q) PROVE Good(o)'
    BY <2>2, PlacedClaim
  <2>3. CASE GetEventsFails(a)
    <3>1. /\ pc[a] = "getevents" /\ pc'[a] = "idle"
          /\ UNCHANGED <<claimed, frames, kernel, ring, operation>>
      BY <1>0, <2>3 DEF GetEventsFails, queues, Typed
    <3>2. claimed[a] = <<>>
      BY <1>0, <3>1 DEF Sound
    <3> QED
      BY <1>2, <1>4, <3>1, <3>2 DEF RollsOn
  <2> QED
    BY <1>4, <2>1, <2>2, <2>3, PlacedIoSubmit, PlacedReopen, PlacedForget,
       PlacedGetEvents, PlacedSettle, PlacedCallbackReturns DEF Proceed
<1> QED
  BY <1>1, <1>3, <1>4, PlacedComplete DEF Next

-----------------------------------------------------------------------------
(* A Context is held by the program and by the Operations that refer to    *)
(* it.                                                                     *)
LEMMA RefersHeld ==
  ASSUME LinuxAssumption, IsFiniteSet(Op), Typed,
         NEW o \in Op, NEW d \in Context \cup {NoContext}, RefersTo(o, d),
         NEW c \in Context
  PROVE  ctxRefs'[c] - Cardinality(Referring(c)') = ctxRefs[c] - Cardinality(Referring(c))
<1>1. /\ context'[o] = d /\ \A p \in Op : p # o => context'[p] = context[p]
      /\ ctxRefs'[c] = ctxRefs[c] + (IF c = d THEN 1 ELSE 0)
                                  - (IF c = context[o] THEN 1 ELSE 0)
      /\ ctxRefs[c] \in Int
  BY DEF Typed, RefersTo, Set
<1> DEFINE before == Referring(c)
           others == before \ {o}
<1>2. IsFiniteSet(before)
  BY FS_Subset DEF Referring
<1>3. /\ IsFiniteSet(others) /\ Cardinality(before) \in Nat
      /\ Cardinality(others) = IF o \in before THEN Cardinality(before) - 1
                               ELSE Cardinality(before)
  BY <1>2, FS_RemoveElement, FS_CardinalityType
<1>4. o \in before <=> context[o] = c
  BY DEF Referring
<1>5. Referring(c)' = IF c = d THEN others \cup {o} ELSE others
  BY <1>1 DEF Referring
<1>6. Cardinality(others \cup {o}) = Cardinality(others) + 1
  BY <1>3, FS_AddElement
<1> HIDE DEF before, others
<1>7. Cardinality(Referring(c)') = IF c = d THEN Cardinality(others) + 1
                                   ELSE Cardinality(others)
  BY <1>5, <1>6
<1> QED
  BY <1>1, <1>3, <1>4, <1>7 DEF before

LEMMA InitHeld == LinuxAssumption /\ Init => Held
<1> SUFFICES ASSUME LinuxAssumption, Init, NEW c \in Context
             PROVE  ctxRefs[c] = (IF handle[c] THEN 1 ELSE 0) + Cardinality(Referring(c))
  BY DEF Held
<1>1. Referring(c) = {}
  BY DEF Init, InitOperation, Referring, LinuxAssumption
<1> QED
  BY <1>1, FS_EmptySet DEF Init, InitContext

LEMMA NextHeld ==
  ASSUME LinuxAssumption, IsFiniteSet(Op), Typed, Control, Held, [Next]_vars
  PROVE  Held'
<1> SUFFICES ASSUME NEW c \in Context
             PROVE  ctxRefs'[c] = (IF handle'[c] THEN 1 ELSE 0) + Cardinality(Referring(c)')
  BY DEF Held
<1>0. /\ ctxRefs[c] = (IF handle[c] THEN 1 ELSE 0) + Cardinality(Referring(c))
      /\ Cardinality(Referring(c)) \in Nat /\ Cardinality(Referring(c)') \in Nat
  <2>1. Referring(c) \subseteq Op /\ Referring(c)' \subseteq Op
    BY DEF Referring
  <2> QED
    BY <2>1, FS_Subset, FS_CardinalityType DEF Held
<1>1. ASSUME UNCHANGED <<context, ctxRefs, handle>>
      PROVE  ctxRefs'[c] = (IF handle'[c] THEN 1 ELSE 0) + Cardinality(Referring(c)')
  <2>1. Referring(c)' = Referring(c)
    BY <1>1 DEF Referring
  <2> QED
    BY <1>0, <1>1, <2>1
<1>2. ASSUME NEW o \in Op, NEW d \in Context \cup {NoContext}, RefersTo(o, d),
             UNCHANGED handle
      PROVE  ctxRefs'[c] = (IF handle'[c] THEN 1 ELSE 0) + Cardinality(Referring(c)')
  <2>1. ctxRefs'[c] - Cardinality(Referring(c)') = ctxRefs[c] - Cardinality(Referring(c))
    BY <1>2, RefersHeld
  <2>2. ctxRefs[c] \in Int
    BY DEF Typed
  <2>3. ctxRefs'[c] \in Int
    BY <1>2, RefersTyped
  <2> QED
    BY <1>0, <1>2, <2>1, <2>2, <2>3
<1>3. ASSUME NEW a \in Client, NEW d \in Context, Drop(a, d)
      PROVE  ctxRefs'[c] = (IF handle'[c] THEN 1 ELSE 0) + Cardinality(Referring(c)')
  <2>1. Referring(c)' = Referring(c)
    BY <1>3 DEF Referring, Drop, operation
  <2>2. /\ ctxRefs' = [ctxRefs EXCEPT ![d] = ctxRefs[d] - 1]
        /\ handle' = [handle EXCEPT ![d] = FALSE] /\ handle[d]
    BY <1>3 DEF Drop, Set
  <2> QED
    BY <1>0, <2>1, <2>2 DEF Typed
<1>4. ASSUME NEW a \in Client, Forget(a) \/ Settle(a)
      PROVE  \E o \in Op : RefersTo(o, NoContext) /\ UNCHANGED handle
  <2>1. CASE Forget(a)
    <3>1. Head(todo[a]) \in Op
      BY <2>1, HeadElements DEF Typed, Control, Sound, RollsOn, Forget
    <3> QED
      BY <2>1, <3>1 DEF Forget
  <2>2. CASE Settle(a)
    <3>1. Head(Top(a).ops) \in Op
      BY <2>2, TopTyped DEF Control, Sound, Settle
    <3> QED
      BY <2>2, <3>1 DEF Settle, Settles
  <2> QED
    BY <1>4, <2>1, <2>2
<1>5. ASSUME NEW a \in Client, NEW o \in Op, Claim(a, o)
      PROVE  on[a] \in Context /\ RefersTo(o, on[a]) /\ UNCHANGED handle
  BY <1>5 DEF Control, Sound, Claim, NextInBatch
<1>6. ASSUME NEW a \in Client, NEW d \in Context, NEW o \in Op, Cancel(a, d, o)
      PROVE  RefersTo(o, NoContext) /\ UNCHANGED handle
  BY <1>6 DEF Cancel, Settles
<1>7. ASSUME NEW a \in Client, Call(a)
      PROVE  ctxRefs'[c] = (IF handle'[c] THEN 1 ELSE 0) + Cardinality(Referring(c)')
  BY <1>1, <1>2, <1>3, <1>6, <1>7
     DEF Call, SubmitBegin, ProcessEvents, PollCounter, references, operation
<1>8. ASSUME NEW a \in Client, Proceed(a)
      PROVE  ctxRefs'[c] = (IF handle'[c] THEN 1 ELSE 0) + Cardinality(Referring(c)')
  <2>1. CASE Forget(a) \/ Settle(a)
    BY <1>2, <1>4, <2>1
  <2>2. CASE \E o \in Op : Claim(a, o)
    <3>1. PICK o \in Op : Claim(a, o)
      BY <2>2
    <3>2. PICK d : d = on[a]
      OBVIOUS
    <3>3. d \in Context /\ RefersTo(o, d) /\ UNCHANGED handle
      BY <1>5, <3>1, <3>2 DEF RefersTo, Set
    <3> QED
      BY <1>2, <3>3
  <2>3. CASE (\E o \in Op : Skip(a, o)) \/ IoSubmit(a) \/ Reopen(a)
    BY <1>1, <2>3 DEF Skip, IoSubmit, Reopen, references, operation
  <2>4. CASE GetEvents(a) \/ GetEventsFails(a) \/ CallbackReturns(a)
    BY <1>1, <2>4 DEF GetEvents, GetEventsFails, CallbackReturns, references, operation
  <2> QED
    BY <1>8, <2>1, <2>2, <2>3, <2>4 DEF Proceed
<1> QED
  BY <1>1, <1>7, <1>8 DEF Next, Complete, vars, references, operation

-----------------------------------------------------------------------------
(* The inductive invariant.                                                *)
LEMMA PlacingInvariance ==
  ASSUME RefusalsHoldGil
  PROVE  Spec => []Placing
<1>1. Init => Placing
  BY LinuxAssumption, InitTyped, InitControl, InitPlacing DEF Placing
<1>2. Placing /\ [Next]_vars => Placing'
  BY LinuxAssumption, NextTyped, NextControl, NextNoRepeats, NextGood DEF Placing
<1> QED
  BY <1>1, <1>2, PTL DEF Spec

LEMMA HeldInvariance ==
  ASSUME RefusalsHoldGil, IsFiniteSet(Op)
  PROVE  Spec => []Held
<1>1. Init => Held
  BY LinuxAssumption, InitHeld
<1>2. Placing /\ Held /\ [Next]_vars => Held'
  BY LinuxAssumption, NextHeld DEF Placing
<1> QED
  BY <1>1, <1>2, PlacingInvariance, PTL DEF Spec

(* The places of the claims of Context c; the sets and counts of the       *)
(* properties are those of such places.                                    *)
Waits == {"submit", "kernel", "ring", "frame"}
Claimed(o, c, kinds) == \E k \in kinds : \E x, i : At(o, c, k, x, i)

LEMMA SingleOrNone ==
  ASSUME NEW S, \A e, f \in S : e = f
  PROVE  Cardinality(S) = IF S = {} THEN 0 ELSE 1
<1>1. CASE S = {}
  BY <1>1, FS_EmptySet
<1>2. CASE S # {}
  <2>1. PICK e \in S : TRUE
    BY <1>2
  <2>2. S = {e}
    BY <2>1
  <2> QED
    BY <1>2, <2>2, FS_Singleton
<1> QED
  BY <1>1, <1>2

LEMMA OncePlaced ==
  ASSUME LinuxAssumption, Placing, NEW o \in Op, NEW c, NEW k, NEW x, NEW i,
         At(o, c, k, x, i)
  PROVE  /\ Fields(o, c, k)
         /\ \A d, l, y, j : At(o, d, l, y, j) => d = c /\ l = k /\ y = x /\ j = i
         /\ k # "call" => c \in Context /\ c # NoContext
         /\ k \in Waits \cup {"back", "forget", "call"}
<1>1. Good(o) /\ Typed /\ Control
  BY DEF Placing, AllGood
<1>2. /\ Fields(o, c, k)
      /\ \A d, l, y, j : At(o, d, l, y, j) => d = c /\ l = k /\ y = x /\ j = i
  BY <1>1 DEF Good, OnePlace
<1>3. k \in Waits \cup {"back", "forget", "call"}
  BY DEF At, InSubmit, InContext, InFrame, Waits
<1>4. ASSUME k # "call" PROVE c \in Context
  <2>1. CASE x \in Client /\ i = 0 /\ InSubmit(o, c, k, x)
    <3>1. claimed[x] # <<>> \/ RollsOn(x)
      BY <2>1, HasEmpty DEF InSubmit, Forgets, RollsOn
    <3> QED
      BY <1>1, <2>1, <3>1 DEF Control, Sound, RollsOn, InSubmit
  <2>2. CASE x \in Client /\ InFrame(o, c, k, x, i)
    <3>1. frames[x] \in Seq(Frame) /\ i \in 1 .. Len(frames[x]) /\ c = frames[x][i].ctx
      BY <1>1, <1>4, <2>2 DEF InFrame, Typed
    <3>2. frames[x][i] \in Frame
      BY <3>1, ElementOfSeq
    <3> QED
      BY <3>1, <3>2 DEF Frame
  <2>3. CASE x \in Context /\ c = x
    BY <2>3
  <2> QED
    BY <2>1, <2>2, <2>3 DEF At
<1> QED
  BY <1>2, <1>3, <1>4 DEF LinuxAssumption

LEMMA BatchRead ==
  ASSUME LinuxAssumption, Placing, NEW o \in Op, NEW a \in Client,
         NEW i \in 1 .. MaxDepth + 1, i <= Len(frames[a])
  PROVE  /\ i \in 1 .. Len(frames[a])
         /\ Has(frames[a][i].ops, Head(frames[a][i].ops))
         /\ Count(frames[a][i].ops, o) = IF Has(frames[a][i].ops, o) THEN 1 ELSE 0
<1>1. frames[a] \in Seq(Frame) /\ i \in 1 .. Len(frames[a])
  BY DEF Placing, Typed, LinuxAssumption
<1>2. frames[a][i] \in Frame /\ Once(frames[a][i].ops)
  BY <1>1, ElementOfSeq DEF Placing, NoRepeats
<1>3. frames[a][i].ops \in Seq(Op) /\ frames[a][i].ops # <<>>
  BY <1>2 DEF Frame
<1> QED
  BY <1>1, <1>2, <1>3, HeadElements, CountOnce DEF Count

LEMMA InsideDepth ==
  ASSUME LinuxAssumption, Placing, NEW o, NEW c, NEW k, NEW x, NEW i,
         InFrame(o, c, k, x, i), x \in Client
  PROVE  i \in 1 .. MaxDepth + 1 /\ i <= Len(frames[x])
<1>1. Len(frames[x]) \in Nat /\ Len(frames[x]) <= MaxDepth + 1
  BY DEF Placing, Typed, Control, Sound, LinuxAssumption
<1>2. i \in 1 .. Len(frames[x])
  BY DEF InFrame
<1> QED
  BY <1>1, <1>2 DEF LinuxAssumption

LEMMA ReadInPlace ==
  ASSUME LinuxAssumption, Placing, NEW o \in Op, NEW c \in Context
  PROVE  /\ Submitting(c, o) = {a \in Client : At(o, c, "submit", a, 0)}
         /\ o \in kernel[c] <=> At(o, c, "kernel", c, 0)
         /\ Count(ring[c], o) = IF At(o, c, "ring", c, 0) THEN 1 ELSE 0
         /\ Gathering(c, o) = {f \in Client \X (1 .. MaxDepth + 1) :
                                 At(o, c, "frame", f[1], f[2])}
         /\ RollingBack(c, o) = {a \in Client : \/ At(o, c, "back", a, 0)
                                                \/ At(o, c, "forget", a, 0)}
<1>1. Typed /\ Control /\ NoRepeats
  BY DEF Placing
<1>2. Submitting(c, o) = {a \in Client : At(o, c, "submit", a, 0)}
  <2>1. ASSUME NEW a \in Client
        PROVE  on[a] = c /\ Count(claimed[a], o) > 0 <=> At(o, c, "submit", a, 0)
    <3>1. Count(claimed[a], o) > 0 <=> Has(claimed[a], o)
      BY <1>1, CountHas DEF Typed, Count
    <3>2. At(o, c, "submit", a, 0) <=> InSubmit(o, c, "submit", a)
      BY DEF At, InContext, InFrame
    <3> QED
      BY <3>1, <3>2 DEF InSubmit
  <2> QED
    BY <2>1 DEF Submitting
<1>3. o \in kernel[c] <=> At(o, c, "kernel", c, 0)
  BY DEF At, InSubmit, InContext, InFrame
<1>4. Count(ring[c], o) = IF At(o, c, "ring", c, 0) THEN 1 ELSE 0
  <2>1. At(o, c, "ring", c, 0) <=> Has(ring[c], o)
    BY DEF At, InSubmit, InContext, InFrame
  <2> QED
    BY <1>1, <2>1, CountOnce DEF Typed, NoRepeats, Count
<1>5. RollingBack(c, o) = {a \in Client : \/ At(o, c, "back", a, 0)
                                         \/ At(o, c, "forget", a, 0)}
  <2>1. ASSUME NEW a \in Client
        PROVE  /\ pc[a] \in {"reopen", "forget"} /\ on[a] = c /\ Count(todo[a], o) > 0
               <=> At(o, c, "back", a, 0) \/ At(o, c, "forget", a, 0)
    <3>1. Count(todo[a], o) > 0 <=> Has(todo[a], o)
      BY <1>1, CountHas DEF Typed, Count
    <3>2. /\ At(o, c, "back", a, 0) <=> InSubmit(o, c, "back", a)
          /\ At(o, c, "forget", a, 0) <=> InSubmit(o, c, "forget", a)
      BY DEF At, InContext, InFrame
    <3>3. Forgets(a, o) => Has(todo[a], o) /\ RollsOn(a)
      <4>1. RollsOn(a) => todo[a] \in Seq(Op) /\ todo[a] # <<>>
        BY <1>1 DEF Typed, Control, Sound
      <4> QED
        BY <4>1, HeadElements DEF Forgets, RollsOn
    <3> QED
      BY <3>1, <3>2, <3>3 DEF InSubmit, RollsOn
  <2> QED
    BY <2>1 DEF RollingBack
<1>6. ASSUME NEW a \in Client, NEW i
      PROVE  At(o, c, "frame", a, i) <=> InFrame(o, c, "frame", a, i)
  BY DEF At, InSubmit, InContext
<1>8. Gathering(c, o) = {f \in Client \X (1 .. MaxDepth + 1) :
                           At(o, c, "frame", f[1], f[2])}
  <2>1. ASSUME NEW f \in Client \X (1 .. MaxDepth + 1)
        PROVE  (/\ f[2] <= Len(frames[f[1]])
                /\ LET frame == frames[f[1]][f[2]]
                       last == f[2] = Len(frames[f[1]]) /\ pc[f[1]] = "settle"
                   IN  /\ frame.ctx = c
                       /\ Count(frame.ops, o) >
                            (IF o = Head(frame.ops) /\ ~last THEN 1 ELSE 0))
               <=> At(o, c, "frame", f[1], f[2])
    <3> PICK a \in Client, i \in 1 .. MaxDepth + 1 : f = <<a, i>>
      OBVIOUS
    <3>1. f[1] = a /\ f[2] = i
      OBVIOUS
    <3>2. InFrame(o, c, "frame", a, i) <=>
            /\ i \in 1 .. Len(frames[a]) /\ Has(frames[a][i].ops, o)
            /\ ~Calls(a, i, o) /\ c = frames[a][i].ctx
      BY DEF InFrame
    <3>3. CASE i <= Len(frames[a])
      BY <1>6, <3>1, <3>2, <3>3, BatchRead DEF Calls
    <3>4. CASE ~(i <= Len(frames[a]))
      BY <1>6, <3>1, <3>2, <3>4
    <3> QED
      BY <3>3, <3>4
  <2> QED
    BY <2>1 DEF Gathering
<1> QED
  BY <1>2, <1>3, <1>4, <1>5, <1>8

(* At most one place is counted.                                           *)
LEMMA CountsPlaces ==
  ASSUME LinuxAssumption, Placing, NEW o \in Op, NEW c \in Context
  PROVE  /\ InFlight(c, o) = IF Claimed(o, c, Waits) THEN 1 ELSE 0
         /\ Cardinality({a \in RollingBack(c, o) : ~(pc[a] = "forget" /\ Head(todo[a]) = o)})
              = IF Claimed(o, c, {"back"}) THEN 1 ELSE 0
         /\ RollingBack(c, o) # {} <=> Claimed(o, c, {"back", "forget"})
<1> DEFINE Rolled == {a \in RollingBack(c, o) : ~(pc[a] = "forget" /\ Head(todo[a]) = o)}
<1>1. ASSUME NEW d, NEW k, NEW x, NEW i, At(o, d, k, x, i)
      PROVE  \A e, l, y, j : At(o, e, l, y, j) => e = d /\ l = k /\ y = x /\ j = i
  BY <1>1, OncePlaced
<1>2. ASSUME NEW k, NEW x, NEW i, At(o, c, k, x, i)
      PROVE  /\ k \in {"submit", "back", "forget"} => x \in Client /\ i = 0
             /\ k \in {"kernel", "ring"} => x = c /\ i = 0
             /\ k = "frame" => x \in Client /\ i \in 1 .. MaxDepth + 1
  <2>1. /\ k \in {"submit", "back", "forget"} => x \in Client /\ i = 0
        /\ k \in {"kernel", "ring"} => x = c /\ i = 0
        /\ k = "frame" => x \in Client /\ InFrame(o, c, k, x, i)
    BY <1>2 DEF At, InSubmit, InContext, InFrame
  <2> QED
    BY <2>1, InsideDepth
<1>3. Cardinality(Submitting(c, o)) = IF Claimed(o, c, {"submit"}) THEN 1 ELSE 0
  <2>1. \A a \in Client : a \in Submitting(c, o) <=> At(o, c, "submit", a, 0)
    BY ReadInPlace
  <2>2. \A e, f \in Submitting(c, o) : e = f
    BY <1>1, <2>1 DEF Submitting
  <2>3. Submitting(c, o) # {} <=> Claimed(o, c, {"submit"})
    BY <1>2, <2>1 DEF Claimed, Submitting
  <2> QED
    BY <2>2, <2>3, SingleOrNone
<1>4. /\ o \in kernel[c] <=> Claimed(o, c, {"kernel"})
      /\ Count(ring[c], o) = IF Claimed(o, c, {"ring"}) THEN 1 ELSE 0
  BY <1>2, ReadInPlace DEF Claimed
<1>5. Cardinality(Gathering(c, o)) = IF Claimed(o, c, {"frame"}) THEN 1 ELSE 0
  <2>1. \A f \in Client \X (1 .. MaxDepth + 1) :
          f \in Gathering(c, o) <=> At(o, c, "frame", f[1], f[2])
    BY ReadInPlace
  <2>2. Gathering(c, o) \subseteq Client \X (1 .. MaxDepth + 1)
    BY DEF Gathering
  <2>3. \A e, f \in Gathering(c, o) : e = f
    BY <1>1, <2>1, <2>2
  <2>4. Gathering(c, o) # {} <=> Claimed(o, c, {"frame"})
    <3>1. ASSUME NEW x \in Client, NEW i \in 1 .. MaxDepth + 1, At(o, c, "frame", x, i)
          PROVE  <<x, i>> \in Gathering(c, o)
      BY <2>1, <3>1
    <3>2. Gathering(c, o) # {} => Claimed(o, c, {"frame"})
      BY <2>1, <2>2 DEF Claimed
    <3>3. Claimed(o, c, {"frame"}) => \E x, i : At(o, c, "frame", x, i)
      BY DEF Claimed
    <3> QED
      BY <1>2, <3>1, <3>2, <3>3
  <2> QED
    BY <2>3, <2>4, SingleOrNone
<1>6. Cardinality(Rolled) = IF Claimed(o, c, {"back"}) THEN 1 ELSE 0
  <2>1. \A a \in Client : a \in RollingBack(c, o) <=> \/ At(o, c, "back", a, 0)
                                                      \/ At(o, c, "forget", a, 0)
    BY ReadInPlace
  <2>2. \A a \in Client : /\ At(o, c, "forget", a, 0) => Forgets(a, o)
                          /\ At(o, c, "back", a, 0) => ~Forgets(a, o)
    BY DEF At, InSubmit, InContext, InFrame
  <2>3. \A a : a \in Rolled <=> a \in Client /\ At(o, c, "back", a, 0)
    BY <2>1, <2>2 DEF Forgets, RollingBack
  <2> HIDE DEF Rolled
  <2>4. \A e, f \in Rolled : e = f
    BY <1>1, <2>3
  <2>5. Rolled # {} <=> Claimed(o, c, {"back"})
    BY <1>2, <2>3 DEF Claimed
  <2> QED
    BY <2>4, <2>5, SingleOrNone
<1>7. RollingBack(c, o) # {} <=> Claimed(o, c, {"back", "forget"})
  <2>1. \A a \in Client : a \in RollingBack(c, o) <=> \/ At(o, c, "back", a, 0)
                                                      \/ At(o, c, "forget", a, 0)
    BY ReadInPlace
  <2> QED
    BY <1>2, <2>1 DEF Claimed, RollingBack
<1>8. InFlight(c, o) = IF Claimed(o, c, Waits) THEN 1 ELSE 0
  <2>1. Claimed(o, c, Waits) <=>
          \/ Claimed(o, c, {"submit"}) \/ Claimed(o, c, {"kernel"})
          \/ Claimed(o, c, {"ring"}) \/ Claimed(o, c, {"frame"})
    BY DEF Claimed, Waits
  <2>2. \A k, l : Claimed(o, c, {k}) /\ Claimed(o, c, {l}) => k = l
    BY <1>1 DEF Claimed
  <2>3. /\ Claimed(o, c, {"submit"}) => /\ ~Claimed(o, c, {"kernel"})
                                        /\ ~Claimed(o, c, {"ring"})
                                        /\ ~Claimed(o, c, {"frame"})
        /\ Claimed(o, c, {"kernel"}) => /\ ~Claimed(o, c, {"ring"})
                                        /\ ~Claimed(o, c, {"frame"})
        /\ Claimed(o, c, {"ring"}) => ~Claimed(o, c, {"frame"})
    BY <2>2
  <2> HIDE DEF Claimed
  <2> QED
    BY <1>3, <1>4, <1>5, <2>1, <2>3 DEF InFlight
<1> QED
  BY <1>6, <1>7, <1>8

LEMMA CallbacksInPlace ==
  ASSUME LinuxAssumption, Placing, NEW o \in Op
  PROVE  Cardinality(InCallback(o)) = IF \E x, i : At(o, NoContext, "call", x, i)
                                      THEN 1 ELSE 0
<1> DEFINE Frames == Client \X (1 .. MaxDepth + 1)
<1>1. ASSUME NEW a, NEW i
      PROVE  At(o, NoContext, "call", a, i) <=>
               a \in Client /\ InFrame(o, NoContext, "call", a, i)
  BY DEF At, InSubmit, InContext
<1>2. ASSUME NEW a \in Client, NEW i \in 1 .. MaxDepth + 1
      PROVE  <<a, i>> \in InCallback(o) <=> At(o, NoContext, "call", a, i)
  <2>1. <<a, i>> \in InCallback(o) <=>
          i <= Len(frames[a]) /\ Head(frames[a][i].ops) = o
          /\ ~(i = Len(frames[a]) /\ pc[a] = "settle")
    BY DEF InCallback
  <2>2. InFrame(o, NoContext, "call", a, i) <=>
          /\ i \in 1 .. Len(frames[a]) /\ Has(frames[a][i].ops, o)
          /\ Calls(a, i, o)
    BY DEF InFrame
  <2>3. CASE i <= Len(frames[a])
    BY <1>1, <2>1, <2>2, <2>3, BatchRead DEF Calls
  <2>4. CASE ~(i <= Len(frames[a]))
    BY <1>1, <2>1, <2>2, <2>4
  <2> QED
    BY <2>3, <2>4
<1>3. ASSUME NEW a, NEW i, At(o, NoContext, "call", a, i)
      PROVE  a \in Client /\ i \in 1 .. MaxDepth + 1
  BY <1>1, <1>3, InsideDepth
<1>4. InCallback(o) \subseteq Client \X (1 .. MaxDepth + 1)
  BY DEF InCallback
<1>5. \A e \in InCallback(o) :
        /\ e = <<e[1], e[2]>> /\ At(o, NoContext, "call", e[1], e[2])
  BY <1>2, <1>4
<1>6. \A e, f \in InCallback(o) : e = f
  <2> SUFFICES ASSUME NEW e \in InCallback(o), NEW f \in InCallback(o) PROVE e = f
    OBVIOUS
  <2>1. e[1] = f[1] /\ e[2] = f[2]
    BY <1>5, OncePlaced
  <2> QED
    BY <1>5, <2>1
<1>7. InCallback(o) # {} <=> \E x, i : At(o, NoContext, "call", x, i)
  BY <1>2, <1>3, <1>5
<1> QED
  BY <1>6, <1>7, SingleOrNone

LEMMA PlacesExact ==
  ASSUME LinuxAssumption, Placing
  PROVE  ClaimedIsInFlight
<1> SUFFICES ASSUME NEW o \in Op, NEW c \in Context
             PROVE  /\ InFlight(c, o)
                         + Cardinality({a \in RollingBack(c, o) :
                                          ~(pc[a] = "forget" /\ Head(todo[a]) = o)})
                       = (IF ~Readable(o) /\ context[o] = c THEN 1 ELSE 0)
                    /\ ~Readable(o) => context[o] # NoContext
                    /\ ~in_progress[o] /\ RollingBack(c, o) = {} => context[o] # c
  BY DEF ClaimedIsInFlight
<1>1. Good(o) /\ c # NoContext
  BY DEF Placing, AllGood, LinuxAssumption
<1>2. CASE Nowhere(o)
  <2>1. ~Claimed(o, c, Waits) /\ ~Claimed(o, c, {"back"})
    BY <1>2 DEF Nowhere, Claimed
  <2>2. Readable(o) /\ context[o] = NoContext
    BY <1>1, <1>2 DEF Good, Readable
  <2> QED
    BY <1>1, <2>1, <2>2, CountsPlaces
<1>3. ASSUME NEW d, NEW k, NEW x, NEW i, At(o, d, k, x, i)
      PROVE  /\ InFlight(c, o)
                  + Cardinality({a \in RollingBack(c, o) :
                                   ~(pc[a] = "forget" /\ Head(todo[a]) = o)})
                = (IF ~Readable(o) /\ context[o] = c THEN 1 ELSE 0)
             /\ ~Readable(o) => context[o] # NoContext
             /\ ~in_progress[o] /\ RollingBack(c, o) = {} => context[o] # c
  <2>1. /\ Fields(o, d, k)
        /\ \A e, l, y, j : At(o, e, l, y, j) => e = d /\ l = k
        /\ k # "call" => d \in Context /\ d # NoContext
        /\ k \in Waits \cup {"back", "forget", "call"}
    BY <1>3, OncePlaced
  <2>2. \A kinds : Claimed(o, c, kinds) <=> d = c /\ k \in kinds
    BY <1>3, <2>1 DEF Claimed
  <2>3. ~Readable(o) <=> k \in Waits \cup {"back"}
    BY <2>1 DEF Fields, Readable, Waits
  <2>4. context[o] = d /\ (in_progress[o] <=> k # "forget")
    BY <2>1 DEF Fields
  <2>5. k = "back" => k \notin Waits
    BY DEF Waits
  <2>6. InFlight(c, o) + Cardinality({a \in RollingBack(c, o) :
                                        ~(pc[a] = "forget" /\ Head(todo[a]) = o)})
          = (IF ~Readable(o) /\ context[o] = c THEN 1 ELSE 0)
    BY <2>2, <2>3, <2>4, <2>5, CountsPlaces
  <2>7. RollingBack(c, o) = {} => ~(d = c /\ k = "forget")
    BY <2>2, CountsPlaces
  <2> QED
    BY <2>1, <2>3, <2>4, <2>6, <2>7 DEF Waits
<1> QED
  BY <1>2, <1>3 DEF Nowhere

LEMMA ReferencesExact ==
  ASSUME LinuxAssumption, Placing, Held
  PROVE  RefsExact
<1> DEFINE Holds(c, o) == InFlight(c, o) > 0 \/ RollingBack(c, o) # {}
<1>1. ASSUME NEW c \in Context, NEW o \in Op
      PROVE  Holds(c, o) <=> Claimed(o, c, Waits \cup {"back", "forget"})
  <2>1. Claimed(o, c, Waits \cup {"back", "forget"}) <=>
          Claimed(o, c, Waits) \/ Claimed(o, c, {"back", "forget"})
    BY DEF Claimed
  <2>2. InFlight(c, o) = IF Claimed(o, c, Waits) THEN 1 ELSE 0
    BY CountsPlaces
  <2>3. InFlight(c, o) > 0 <=> Claimed(o, c, Waits)
    BY <2>2
  <2> QED
    BY <2>1, <2>3, CountsPlaces
<1>2. ASSUME NEW c \in Context, NEW o \in Op
      PROVE  Claimed(o, c, Waits \cup {"back", "forget"}) <=> context[o] = c
  <2>1. Good(o) /\ c # NoContext
    BY DEF Placing, AllGood, LinuxAssumption
  <2>2. CASE Nowhere(o)
    BY <2>1, <2>2 DEF Good, Nowhere, Claimed
  <2>3. ASSUME NEW d, NEW k, NEW x, NEW i, At(o, d, k, x, i)
        PROVE  Claimed(o, c, Waits \cup {"back", "forget"}) <=> context[o] = c
    <3>1. /\ context[o] = d
          /\ \A e, l, y, j : At(o, e, l, y, j) => e = d /\ l = k
          /\ k \in Waits \cup {"back", "forget", "call"}
      BY <2>3, OncePlaced DEF Fields
    <3>2. k = "call" => d = NoContext
      BY <2>3 DEF At, InSubmit, InContext, InFrame
    <3>3. "call" \notin Waits \cup {"back", "forget"}
      BY DEF Waits
    <3> QED
      BY <2>1, <2>3, <3>1, <3>2, <3>3 DEF Claimed
  <2> QED
    BY <2>2, <2>3 DEF Nowhere
<1>3. ASSUME NEW c \in Context
      PROVE  ctxRefs[c] = (IF handle[c] THEN 1 ELSE 0)
                          + Cardinality({o \in Op : Holds(c, o)})
  <2>1. {o \in Op : Holds(c, o)} = Referring(c)
    BY <1>1, <1>2 DEF Referring
  <2> QED
    BY <2>1 DEF Held
<1>4. ASSUME NEW o \in Op
      PROVE  opRefs[o] = 1 + Cardinality(InCallback(o))
                           + Cardinality({c \in Context : Holds(c, o)})
  <2> DEFINE holders == {c \in Context : Holds(c, o)}
  <2>1. Good(o)
    BY DEF Placing, AllGood
  <2>2. holders = IF context[o] \in Context THEN {context[o]} ELSE {}
    BY <1>1, <1>2
  <2>3. Cardinality(holders) = IF context[o] \in Context THEN 1 ELSE 0
    BY <2>2, FS_EmptySet, FS_Singleton
  <2>4. Cardinality(InCallback(o)) = IF \E x, i : At(o, NoContext, "call", x, i)
                                     THEN 1 ELSE 0
    BY CallbacksInPlace
  <2>5. CASE Nowhere(o)
    BY <2>1, <2>3, <2>4, <2>5 DEF Nowhere, Good, LinuxAssumption
  <2>6. ASSUME NEW d, NEW k, NEW x, NEW i, At(o, d, k, x, i)
        PROVE  opRefs[o] = 1 + Cardinality(InCallback(o)) + Cardinality(holders)
    <3>1. /\ context[o] = d /\ opRefs[o] = 2
          /\ \A e, l, y, j : At(o, e, l, y, j) => e = d /\ l = k
          /\ k # "call" => d \in Context
      BY <2>6, OncePlaced DEF Fields
    <3>2. k = "call" => d = NoContext
      BY <2>6 DEF At, InSubmit, InContext, InFrame
    <3>3. CASE k = "call"
      BY <2>3, <2>4, <2>6, <3>1, <3>2, <3>3 DEF LinuxAssumption
    <3>4. CASE k # "call"
      BY <2>3, <2>4, <3>1, <3>4
    <3> QED
      BY <3>3, <3>4
  <2> QED
    BY <2>5, <2>6 DEF Nowhere
<1> QED
  BY <1>3, <1>4 DEF RefsExact

(* The invariants of the runs.                                             *)
LEMMA TypesRead ==
  ASSUME LinuxAssumption, IsFiniteSet(Op), Placing, Held
  PROVE  TypeOK
<1>1. Typed /\ Control
  BY DEF Placing
<1>2. ctxRefs \in [Context -> Nat]
  <2>1. ASSUME NEW c \in Context PROVE ctxRefs[c] \in Nat
    <3>1. Cardinality(Referring(c)) \in Nat
      BY FS_Subset, FS_CardinalityType DEF Referring
    <3> QED
      BY <3>1 DEF Held
  <2> QED
    BY <1>1, <2>1 DEF Typed
<1>3. opRefs \in [Op -> Nat]
  <2>1. ASSUME NEW o \in Op PROVE opRefs[o] \in Nat
    BY DEF Placing, AllGood, Good, Fields, Nowhere
  <2> QED
    BY <1>1, <2>1 DEF Typed
<1>4. ASSUME NEW a \in Client
      PROVE  /\ Len(frames[a]) <= MaxDepth + 1
             /\ \A i \in 1 .. Len(frames[a]) : frames[a][i].ops \in Seq(Op) \ {<<>>}
  <2>1. frames[a] \in Seq(Frame) /\ Len(frames[a]) \in Nat
    BY <1>1 DEF Typed
  <2>2. Len(frames[a]) <= MaxDepth + 1
    BY <1>1, <2>1 DEF Control, Sound, LinuxAssumption
  <2>3. \A i \in 1 .. Len(frames[a]) : frames[a][i] \in Frame
    BY <2>1, ElementOfSeq
  <2> QED
    BY <2>2, <2>3 DEF Frame
<1> QED
  BY <1>1, <1>2, <1>3, <1>4 DEF Typed, TypeOK, LinuxAssumption

(* Every variable keeps its type, no count of references goes below zero,  *)
(* and no thread is deeper in callbacks than the program goes.             *)
THEOREM TypesHold ==
  ASSUME RefusalsHoldGil, IsFiniteSet(Op)
  PROVE  Spec => []TypeOK
<1>1. Placing /\ Held => TypeOK
  BY LinuxAssumption, TypesRead
<1> QED
  BY <1>1, PlacingInvariance, HeldInvariance, PTL

(* No claim is lost and none is doubled: whatever is refused, completed,   *)
(* cancelled or called from within a callback, a claimed Operation is in   *)
(* exactly one place, with the Context it refers to.                       *)
THEOREM ClaimsAreInOnePlace ==
  ASSUME RefusalsHoldGil
  PROVE  Spec => []ClaimedIsInFlight
<1>1. Placing => ClaimedIsInFlight
  BY LinuxAssumption, PlacesExact
<1> QED
  BY <1>1, PlacingInvariance, PTL

(* Every reference to a Context and to an Operation is accounted for by    *)
(* what holds it.                                                          *)
THEOREM ReferencesAreHeld ==
  ASSUME RefusalsHoldGil, IsFiniteSet(Op)
  PROVE  Spec => []RefsExact
<1>1. Placing /\ Held => RefsExact
  BY LinuxAssumption, ReferencesExact
<1> QED
  BY <1>1, PlacingInvariance, HeldInvariance, PTL

-----------------------------------------------------------------------------
(* What OneShot sees of an Operation, and of the Context it belongs to.    *)
Seen(o) ==
  IF called[o] > 0 THEN "delivered"
  ELSE IF done[o] THEN "completed"
  ELSE IF in_progress[o] THEN "claimed" ELSE "new"
Owner(o) == IF in_progress[o] /\ ~done[o] THEN context[o] ELSE NoContext

Unseen(o) == Seen(o)' = Seen(o) /\ Owner(o)' = Owner(o)

(* It sees a step of the one Operation it changes the look of, ...         *)
LEMMA SeenBecomes ==
  ASSUME NEW o \in Op, NEW from, NEW to, NEW c,
         Seen(o) = from, Seen(o)' = to, Owner(o)' = c,
         \A x \in Op : x # o => Unseen(x)
  PROVE  Promise!Becomes(o, from, to, c)
BY DEF Promise!Becomes, Unseen, Seen, Owner

(* ... or nothing.                                                         *)
LEMMA SeenStutters ==
  ASSUME \A o \in Op : Unseen(o)
  PROVE  UNCHANGED Promise!vars
BY DEF Unseen, Seen, Owner, Promise!vars

LEMMA SameUnseen ==
  ASSUME NEW o, UNCHANGED <<called[o], done[o], in_progress[o], context[o]>>
  PROVE  Unseen(o)
BY DEF Unseen, Seen, Owner

LEMMA InitRefines == Init => Promise!Init
BY DEF Init, InitOperation, Promise!Init

LEMMA HeadsInPlace ==
  ASSUME LinuxAssumption, Placing, NEW a \in Client
  PROVE  /\ pc[a] = "reopen" => /\ Head(todo[a]) \in Op
                                /\ Fields(Head(todo[a]), on[a], "back")
         /\ pc[a] = "forget" => /\ Head(todo[a]) \in Op
                                /\ Fields(Head(todo[a]), on[a], "forget")
         /\ pc[a] = "settle" => /\ Head(Top(a).ops) \in Op
                                /\ Fields(Head(Top(a).ops), on[a], "frame")
         /\ frames[a] # <<>> /\ pc[a] = "idle" =>
              /\ Head(Top(a).ops) \in Op
              /\ Fields(Head(Top(a).ops), NoContext, "call")
<1>1. Typed /\ Control /\ \A o \in Op : Good(o)
  BY DEF Placing, AllGood
<1>2. ASSUME RollsOn(a)
      PROVE  /\ Head(todo[a]) \in Op
             /\ Fields(Head(todo[a]), on[a], IF pc[a] = "forget" THEN "forget" ELSE "back")
  <2> PICK o : o = Head(todo[a])
    OBVIOUS
  <2>1. o \in Op /\ Has(todo[a], o)
    BY <1>1, <1>2, HeadElements DEF Typed, Control, Sound
  <2>2. At(o, on[a], IF pc[a] = "forget" THEN "forget" ELSE "back", a, 0)
    BY <1>2, <2>1 DEF At, InSubmit, RollsOn, Forgets
  <2> QED
    BY <1>1, <2>1, <2>2 DEF Good
<1>3. ASSUME frames[a] # <<>>, pc[a] \in {"settle", "idle"}
      PROVE  /\ Head(Top(a).ops) \in Op
             /\ pc[a] = "settle" => Fields(Head(Top(a).ops), on[a], "frame")
             /\ pc[a] = "idle" => Fields(Head(Top(a).ops), NoContext, "call")
  <2> PICK o : o = Head(Top(a).ops)
    OBVIOUS
  <2> PICK depth : depth = Len(frames[a])
    OBVIOUS
  <2>1. /\ depth \in 1 .. Len(frames[a]) /\ Top(a) = frames[a][depth]
        /\ o \in Op /\ Has(Top(a).ops, o)
    BY <1>1, <1>3, TopTyped, HeadElements
  <2>2. Calls(a, depth, o) <=> pc[a] # "settle"
    BY <2>1 DEF Calls
  <2>3. pc[a] = "settle" => on[a] = Top(a).ctx
    BY <1>1 DEF Control, Sound
  <2>4. pc[a] = "settle" => At(o, on[a], "frame", a, depth)
    BY <2>1, <2>2, <2>3 DEF At, InFrame
  <2>5. pc[a] = "idle" => At(o, NoContext, "call", a, depth)
    BY <2>1, <2>2 DEF At, InFrame
  <2> QED
    BY <1>1, <2>1, <2>4, <2>5 DEF Good
<1> QED
  BY <1>1, <1>2, <1>3 DEF RollsOn, Control, Sound

LEMMA NextRefines ==
  ASSUME LinuxAssumption, Placing, [Next]_vars
  PROVE  Promise!Next \/ UNCHANGED Promise!vars
<1> DEFINE Goal == Promise!Next \/ UNCHANGED Promise!vars
<1>1. Typed /\ Control /\ \A o \in Op : Good(o)
  BY DEF Placing, AllGood
<1>2. ASSUME UNCHANGED <<called, done, in_progress, context>> PROVE Goal
  BY <1>2, SeenStutters, SameUnseen
<1>3. ASSUME NEW a \in Client, NEW o \in Op, Claim(a, o) PROVE Goal
  <2> PICK s : s = on[a]
    OBVIOUS
  <2>1. Nowhere(o) /\ s \in Context
    BY <1>1, <1>3, FreeIsNowhere DEF Claim, Free, NextInBatch, Control, Sound
  <2>2. called[o] = 0 /\ ~done[o] /\ ~in_progress[o]
    BY <1>1, <1>3, <2>1 DEF Good, Claim, Free
  <2>3. /\ in_progress' = [in_progress EXCEPT ![o] = TRUE]
        /\ context' = [context EXCEPT ![o] = s]
        /\ UNCHANGED <<called, done>>
    BY <1>3 DEF Claim, RefersTo, Set
  <2>4. Seen(o) = "new" /\ Seen(o)' = "claimed" /\ Owner(o)' = s
    BY <1>1, <2>2, <2>3 DEF Typed, Seen, Owner
  <2>5. \A x \in Op : x # o => Unseen(x)
    BY <1>1, <2>3, SameUnseen DEF Typed
  <2>6. Promise!Becomes(o, "new", "claimed", s)
    BY <2>4, <2>5, SeenBecomes
  <2> QED
    BY <2>1, <2>6 DEF Promise!Next, Promise!Claim
<1>4. ASSUME NEW a \in Client, Reopen(a) PROVE Goal
  <2> PICK o : o = Head(todo[a])
    OBVIOUS
  <2>1. o \in Op /\ Fields(o, on[a], "back")
    BY <1>4, HeadsInPlace DEF Reopen
  <2>2. /\ in_progress' = [in_progress EXCEPT ![o] = FALSE]
        /\ UNCHANGED <<called, done, context>>
    BY <1>4 DEF Reopen, Set
  <2>3. Seen(o) = "claimed" /\ Seen(o)' = "new" /\ Owner(o)' = NoContext
    BY <1>1, <2>1, <2>2 DEF Typed, Fields, Seen, Owner
  <2>4. \A x \in Op : x # o => Unseen(x)
    BY <1>1, <2>2, SameUnseen DEF Typed
  <2>5. Promise!Becomes(o, "claimed", "new", NoContext)
    BY <2>1, <2>3, <2>4, SeenBecomes
  <2> QED
    BY <2>1, <2>5 DEF Promise!Next, Promise!GiveBack
<1>5. ASSUME NEW a \in Client, Forget(a) PROVE Goal
  <2> PICK o : o = Head(todo[a])
    OBVIOUS
  <2>1. o \in Op /\ Fields(o, on[a], "forget")
    BY <1>5, HeadsInPlace DEF Forget
  <2>2. /\ context' = [context EXCEPT ![o] = NoContext]
        /\ UNCHANGED <<called, done, in_progress>>
    BY <1>5 DEF Forget, RefersTo, Set
  <2>3. Unseen(o)
    BY <1>1, <2>1, <2>2 DEF Typed, Fields, Unseen, Seen, Owner
  <2>4. \A x \in Op : x # o => Unseen(x)
    BY <1>1, <2>2, SameUnseen DEF Typed
  <2> QED
    BY <2>3, <2>4, SeenStutters
(* A completion is settled: by process_events(), or by cancel().           *)
<1>6. ASSUME NEW o \in Op, NEW c, NEW k \in {"frame", "kernel"}, Fields(o, c, k),
             Settles(o), UNCHANGED <<called, in_progress>>
      PROVE  Goal
  <2>1. /\ context' = [context EXCEPT ![o] = NoContext]
        /\ done' = [done EXCEPT ![o] = TRUE]
    BY <1>6 DEF Settles, RefersTo, Set
  <2>2. Seen(o) = "claimed" /\ Seen(o)' = "completed" /\ Owner(o)' = NoContext
    BY <1>1, <1>6, <2>1 DEF Typed, Fields, Seen, Owner
  <2>3. \A x \in Op : x # o => Unseen(x)
    BY <1>1, <1>6, <2>1, SameUnseen DEF Typed
  <2>4. Promise!Becomes(o, "claimed", "completed", NoContext)
    BY <2>2, <2>3, SeenBecomes
  <2> QED
    BY <2>4 DEF Promise!Next, Promise!Complete
<1>7. ASSUME NEW a \in Client, Settle(a) PROVE Goal
  <2> PICK o : o = Head(Top(a).ops)
    OBVIOUS
  <2>1. o \in Op /\ Fields(o, on[a], "frame")
    BY <1>7, HeadsInPlace DEF Settle
  <2>2. Settles(o) /\ UNCHANGED <<called, in_progress>>
    BY <1>7 DEF Settle, Settles, RefersTo, Set
  <2> QED
    BY <1>6, <2>1, <2>2
<1>8. ASSUME NEW a \in Client, NEW c \in Context, NEW o \in Op, Cancel(a, c, o)
      PROVE  Goal
  <2>1. At(o, c, "kernel", c, 0)
    BY <1>8 DEF Cancel, At, InContext
  <2>2. Fields(o, c, "kernel")
    BY <2>1, OncePlaced
  <2>3. Settles(o) /\ UNCHANGED <<called, in_progress>>
    BY <1>8 DEF Cancel
  <2> QED
    BY <1>6, <2>2, <2>3
<1>9. ASSUME NEW a \in Client, CallbackReturns(a) PROVE Goal
  <2> PICK o : o = Head(Top(a).ops)
    OBVIOUS
  <2>1. o \in Op /\ Fields(o, NoContext, "call")
    BY <1>9, HeadsInPlace DEF CallbackReturns
  <2>2. /\ called' = [called EXCEPT ![o] = called[o] + 1]
        /\ UNCHANGED <<done, in_progress, context>>
    BY <1>9 DEF CallbackReturns, Set
  <2>3. Seen(o) = "completed" /\ Seen(o)' = "delivered" /\ Owner(o)' = NoContext
    BY <1>1, <2>1, <2>2 DEF Typed, Fields, Seen, Owner
  <2>4. \A x \in Op : x # o => Unseen(x)
    BY <1>1, <2>2, SameUnseen DEF Typed
  <2>5. Promise!Becomes(o, "completed", "delivered", NoContext)
    BY <2>1, <2>3, <2>4, SeenBecomes
  <2> QED
    BY <2>1, <2>5 DEF Promise!Next, Promise!Deliver
<1>10. ASSUME NEW a \in Client, Call(a) PROVE Goal
  BY <1>2, <1>8, <1>10 DEF Call, SubmitBegin, ProcessEvents, PollCounter, Drop, operation
<1>11. ASSUME NEW a \in Client, Proceed(a) PROVE Goal
  <2>1. CASE (\E o \in Op : Skip(a, o)) \/ IoSubmit(a) \/ GetEvents(a) \/ GetEventsFails(a)
    BY <1>2, <2>1 DEF Skip, IoSubmit, GetEvents, GetEventsFails, operation
  <2> QED
    BY <1>3, <1>4, <1>5, <1>7, <1>9, <1>11, <2>1 DEF Proceed
<1> QED
  BY <1>2, <1>10, <1>11 DEF Next, Complete, vars, operation

(* The backend keeps caio's promise: every Operation that is claimed is    *)
(* given back by the submit() that claimed it, or completed and delivered  *)
(* once, by process_events() or by cancel().                               *)
THEOREM KernelKeepsItsPromise ==
  ASSUME RefusalsHoldGil
  PROVE  Spec => ImplementsOneShot
<1>1. Init => Promise!Init
  BY InitRefines
<1>2. Placing /\ [Next]_vars => Promise!Next \/ UNCHANGED Promise!vars
  BY LinuxAssumption, NextRefines
<1> QED
  BY <1>1, <1>2, PlacingInvariance, PTL DEF Spec, ImplementsOneShot, Promise!Spec
=============================================================================
