-------------------------- MODULE LinuxUringProofs --------------------------
(***************************************************************************)
(* Theorems about LinuxUring, for every set of Contexts, threads and       *)
(* Operations, every size of the ring, of a batch and of a nest of drains. *)
(*                                                                         *)
(* From its claim to the return of its callback an Operation is in one     *)
(* place (At): staged by a submit(), in its hands when the ring is full,   *)
(* in the submission ring, with the kernel, in the completion ring, or in  *)
(* a drain whose callback for it has not returned.  The place says what    *)
(* the Operation's fields are, and an Operation that is in none is as new  *)
(* or over (Good).  Every step leaves an Operation where it is or moves it *)
(* on.                                                                     *)
(***************************************************************************)
EXTENDS LinuxUring, SequenceLemmas

Frame == [ctx : Context, ops : Seq(Op) \ {<<>>}]
Numbers == [n : Int, goal : Nat, max : Nat, timed : BOOLEAN]

RingsTyped ==
  /\ sqpoll \in [Context -> BOOLEAN]
  /\ sq \in [Context -> Seq(Entry)] /\ cq \in [Context -> Seq(Entry)]
  /\ sqHead \in [Context -> Nat] /\ hidden \in [Context -> Nat]
  /\ storer \in [Context -> Client \cup {NoOne}]
  /\ flushed \in [Context -> Nat]
  /\ kernel \in [Context -> SUBSET Op]
  /\ poller \in [Context -> {"awake", "drowsy", "asleep"}]
  /\ signalled \in [Context -> BOOLEAN]
ObjectsTyped ==
  /\ section \in [Context -> Client \cup {NoOne}]
  /\ handle \in [Context -> BOOLEAN] /\ ctxRefs \in [Context -> Int]
  /\ opRefs \in [Op -> Int] /\ in_progress \in [Op -> BOOLEAN]
  /\ done \in [Op -> BOOLEAN] /\ exposed \in [Op -> BOOLEAN]
  /\ context \in [Op -> Context \cup {NoContext}] /\ called \in [Op -> Nat]
CallsTyped ==
  /\ gil \in Client \cup {NoOne} /\ cancels \in 0 .. MaxCancels
  /\ pc \in [Client -> {"idle", "submit", "full", "flush-head", "flush", "cancel",
                        "check", "sleep", "woken", "drain", "read"}]
  /\ on \in [Client -> Context \cup {NoContext}]
  /\ todo \in [Client -> Seq(Op)] /\ staging \in [Client -> Seq(Op)]
  /\ arg \in [Client -> Numbers]
  /\ frames \in [Client -> Seq(Frame)]
Typed == RingsTyped /\ ObjectsTyped /\ CallsTyped

Submits(a) == pc[a] \in {"submit", "full"}
MayDrain(a) == pc[a] \in {"flush-head", "flush", "check", "sleep", "woken", "drain"}

(* What a thread in a method has.  A submit() owns the critical section of *)
(* its Context, and what it has staged fits into the ring.                 *)
Sound(a) ==
  /\ pc[a] \notin {"idle", "read"} => on[a] \in Context
  /\ \A c \in Context : section[c] = a <=> Submits(a) /\ on[a] = c
  /\ ~Submits(a) => staging[a] = <<>>
  /\ Submits(a) => /\ Len(sq[on[a]]) + Len(staging[a]) <= arg[a].n
                   /\ arg[a].n <= Entries
  /\ pc[a] = "full" => todo[a] # <<>>
  /\ Len(frames[a]) <= MaxDepth + (IF MayDrain(a) THEN 0 ELSE 1)
Control ==
  /\ \A a \in Client : Sound(a)
  /\ \A c \in Context : Len(sq[c]) <= Entries

(* How far the kernel sees the submission ring, and flush() has seen to it.*)
Fits(c) ==
  /\ hidden[c] <= Len(sq[c])
  /\ ~sqpoll[c] => hidden[c] = 0
  /\ flushed[c] <= sqHead[c] + Len(sq[c])
Flushes(a) ==
  /\ pc[a] \in {"flush-head", "flush"} => ~sqpoll[on[a]]
  /\ pc[a] = "flush" => arg[a].goal <= sqHead[on[a]] + arg[a].n
Filled == (\A c \in Context : Fits(c)) /\ (\A a \in Client : Flushes(a))

(* No Operation occurs twice in a ring, a submit() or a drain.             *)
NoRepeats ==
  /\ \A c \in Context : OnceIn(sq[c], Op) /\ OnceIn(cq[c], Op)
  /\ \A a \in Client : /\ Once(staging[a])
                       /\ \A i \in 1 .. Len(frames[a]) : Once(frames[a][i].ops)

(* Operation o, which refers to c, is in place k: of a submit() of thread  *)
(* x, of Context x, or in frame i of thread x.                             *)
InSubmit(o, c, k, x) ==
  \/ k = "staged" /\ Has(staging[x], o) /\ c = on[x]
  \/ k = "full" /\ pc[x] = "full" /\ o = Head(todo[x]) /\ c = NoContext
InContext(o, k, x) ==
  \/ k = "sq" /\ Has(sq[x], o)
  \/ k = "kernel" /\ o \in kernel[x]
  \/ k = "cq" /\ Has(cq[x], o)
InFrame(o, k, x, i) ==
  k = "call" /\ i \in 1 .. Len(frames[x]) /\ Has(frames[x][i].ops, o)
At(o, c, k, x, i) ==
  \/ x \in Client /\ i = 0 /\ InSubmit(o, c, k, x)
  \/ x \in Context /\ i = 0 /\ c = x /\ InContext(o, k, x)
  \/ x \in Client /\ c = NoContext /\ InFrame(o, k, x, i)

OnePlace(o) ==
  \A c, k, x, i, d, l, y, j :
    At(o, c, k, x, i) /\ At(o, d, l, y, j) => c = d /\ k = l /\ x = y /\ i = j
Nowhere(o) == \A c, k, x, i : ~At(o, c, k, x, i)

Fields(o, c, k) ==
  /\ context[o] = c /\ called[o] = 0 /\ in_progress[o]
  /\ opRefs[o] = IF k = "full" THEN 1 ELSE 2
  /\ done[o] <=> k = "call"
  /\ IF k \in {"full", "call"} THEN c = NoContext ELSE c \in Context
Good(o) ==
  /\ OnePlace(o)
  /\ \A c, k, x, i : At(o, c, k, x, i) => Fields(o, c, k)
  /\ Nowhere(o) =>
       /\ context[o] = NoContext /\ opRefs[o] = 1
       /\ in_progress[o] <=> done[o]
       /\ called[o] = IF done[o] THEN 1 ELSE 0
AllGood == \A o \in Op : Good(o)

(* A Context is held by the program and by the Operations that refer to it.*)
Referring(c) == {o \in Op : context[o] = c}
Held == \A c \in Context :
  ctxRefs[c] = (IF handle[c] THEN 1 ELSE 0) + Cardinality(Referring(c))

Placing == Typed /\ Control /\ NoRepeats /\ AllGood
-----------------------------------------------------------------------------
LEMMA TopTyped ==
  ASSUME Typed, NEW a \in Client, frames[a] # <<>>
  PROVE  LET depth == Len(frames[a])
             ops == frames[a][depth].ops
         IN  /\ frames[a] \in Seq(Frame) /\ depth \in Nat \ {0}
             /\ frames[a][depth] \in Frame
             /\ ops \in Seq(Op) /\ ops # <<>> /\ Len(ops) \in Nat
             /\ Head(ops) \in Op /\ Tail(ops) \in Seq(Op)
             /\ Len(ops) # 1 => Tail(ops) # <<>>
<1> DEFINE depth == Len(frames[a])
           ops == frames[a][depth].ops
<1>1. frames[a] \in Seq(Frame)
  BY DEF Typed, CallsTyped
<1>2. depth \in Nat /\ depth # 0
  BY <1>1, EmptySeq
<1>3. frames[a][depth] \in Frame
  BY <1>1, <1>2, ElementOfSeq
<1>4. ops \in Seq(Op) /\ ops # <<>>
  BY <1>3 DEF Frame
<1> HIDE DEF ops
<1>5. Head(ops) \in Op /\ Tail(ops) \in Seq(Op) /\ (Len(ops) # 1 => Tail(ops) # <<>>)
  BY <1>4, HeadElements, TailEmpty
<1>6. Len(ops) \in Nat
  BY <1>4
<1> QED
  BY <1>1, <1>2, <1>3, <1>4, <1>5, <1>6 DEF ops

LEMMA EntriesTyped ==
  ASSUME UringAssumption
  PROVE  /\ Op \subseteq Entry /\ Sentinel \in Entry /\ Sentinel \notin Op
         /\ Entry \cap Op = Op /\ Entry \cap {Sentinel} = {Sentinel}
         /\ Seq(Op) \subseteq Seq(Entry)
<1>1. Op \subseteq Entry /\ Sentinel \in Entry /\ Sentinel \notin Op
  BY DEF UringAssumption, Entry
<1>2. Seq(Op) \subseteq Seq(Entry)
  BY <1>1, SeqDef
<1> QED
  BY <1>1, <1>2 DEF Entry

LEMMA SubmittableTyped ==
  ASSUME Typed, NEW c \in Context, NEW n \in Int, NEW k \in Submittable(c, n)
  PROVE  /\ k \in 0 .. Len(sq[c])
         /\ sqpoll[c] => k = 0
         /\ n >= 0 => k <= n
<1>1. Len(sq[c]) \in Nat
  BY DEF Typed, RingsTyped
<1> DEFINE most == IF sqpoll[c] THEN 0
                   ELSE IF n < 0 \/ n > Len(sq[c]) THEN Len(sq[c]) ELSE n
<1>2. most \in 0 .. Len(sq[c]) /\ (sqpoll[c] => most = 0) /\ (n >= 0 => most <= n)
  BY <1>1
<1>3. k \in IF most = 0 THEN {0} ELSE 1 .. most
  BY DEF Submittable
<1> HIDE DEF most
<1> QED
  BY <1>1, <1>2, <1>3

LEMMA ConsumesTyped ==
  ASSUME UringAssumption, Typed, NEW c \in Context, NEW k \in 0 .. Len(sq[c]),
         Consumes(c, k)
  PROVE  /\ sq' \in [Context -> Seq(Entry)] /\ cq' \in [Context -> Seq(Entry)]
         /\ sqHead' \in [Context -> Nat] /\ kernel' \in [Context -> SUBSET Op]
         /\ signalled' \in [Context -> BOOLEAN]
         /\ Len(sq'[c]) = Len(sq[c]) - k /\ sqHead'[c] = sqHead[c] + k
         /\ \A d \in Context : d # c => sq'[d] = sq[d] /\ sqHead'[d] = sqHead[d]
<1> DEFINE taken == SubSeq(sq[c], 1, k)
           rest == SubSeq(sq[c], k + 1, Len(sq[c]))
           sentinels == Only(taken, {Sentinel})
           works == kernel[c] \cup ({taken[i] : i \in 1 .. k} \ {Sentinel})
<1>1. sq[c] \in Seq(Entry) /\ cq[c] \in Seq(Entry) /\ sqHead[c] \in Nat /\ k \in Nat
  BY DEF Typed, RingsTyped
<1>2. /\ taken \in Seq(Entry) /\ rest \in Seq(Entry)
      /\ Len(taken) = k /\ Len(rest) = Len(sq[c]) - k
  BY <1>1, SplitElements
<1>3. /\ sq' = [sq EXCEPT ![c] = rest]
      /\ sqHead' = [sqHead EXCEPT ![c] = sqHead[c] + k]
      /\ kernel' = [kernel EXCEPT ![c] = works]
      /\ cq' = [cq EXCEPT ![c] = cq[c] \o sentinels]
      /\ signalled' = [signalled EXCEPT ![c] = signalled[c] \/ sentinels # <<>>]
  BY DEF Consumes, Set
<1>4. sentinels \in Seq(Entry)
  <2> HIDE DEF taken
  <2>1. sentinels \in Seq(Entry \cap {Sentinel})
    BY <1>2, OnlyElements
  <2> HIDE DEF sentinels
  <2> QED
    BY <2>1, SeqDef
<1>5. works \in SUBSET Op
  <2>1. kernel[c] \subseteq Op
    BY DEF Typed, RingsTyped
  <2> HIDE DEF taken
  <2>2. \A i \in 1 .. k : taken[i] \in Entry
    BY <1>2
  <2> QED
    BY <2>1, <2>2 DEF Entry
<1> HIDE DEF taken, rest, sentinels, works
<1>6. cq[c] \o sentinels \in Seq(Entry) /\ sqHead[c] + k \in Nat
  BY <1>1, <1>4
<1>7. /\ sq' \in [Context -> Seq(Entry)] /\ cq' \in [Context -> Seq(Entry)]
      /\ sqHead' \in [Context -> Nat] /\ kernel' \in [Context -> SUBSET Op]
      /\ signalled' \in [Context -> BOOLEAN]
  BY <1>2, <1>3, <1>5, <1>6 DEF Typed, RingsTyped
<1> QED
  BY <1>2, <1>3, <1>7 DEF Typed, RingsTyped

LEMMA EnterConsumes ==
  ASSUME Typed, Control, NEW a \in Client, FlushEnters(a), NEW c, c = on[a]
  PROVE  /\ c \in Context
         /\ \E k \in 0 .. Len(sq[c]) :
              /\ k \in Submittable(c, arg[a].n) /\ Consumes(c, k)
              /\ arg' = [arg EXCEPT ![a] = [arg[a] EXCEPT !.n = arg[a].n - k]]
              /\ IF arg[a].n - k # 0 THEN UNCHANGED <<pc, flushed>>
                 ELSE /\ pc' = [pc EXCEPT ![a] = "drain"]
                      /\ flushed' = [flushed EXCEPT ![c] =
                                       IF arg[a].goal > flushed[c] THEN arg[a].goal
                                       ELSE flushed[c]]
<1>1. c \in Context /\ arg[a].n \in Int
  BY DEF FlushEnters, Control, Sound, Typed, CallsTyped, Numbers
<1>2. PICK k \in Submittable(on[a], arg[a].n) :
        /\ Consumes(on[a], k)
        /\ arg' = [arg EXCEPT ![a] = [arg[a] EXCEPT !.n = arg[a].n - k]]
        /\ IF arg[a].n - k # 0 THEN UNCHANGED <<pc, flushed>>
           ELSE /\ pc' = [pc EXCEPT ![a] = "drain"]
                /\ flushed' = [flushed EXCEPT ![on[a]] =
                                 IF arg[a].goal > flushed[on[a]] THEN arg[a].goal
                                 ELSE flushed[on[a]]]
  BY DEF FlushEnters, Remaining, Set
<1>3. Consumes(c, k)
  BY <1>2 DEF Consumes, Set
<1>4. k \in Submittable(c, arg[a].n)
  BY <1>2
<1>5. k \in 0 .. Len(sq[c])
  BY <1>1, <1>4, SubmittableTyped
<1> QED
  BY <1>1, <1>2, <1>3, <1>4, <1>5

LEMMA CancelConsumes ==
  ASSUME Typed, Control, NEW a \in Client, CancelEnters(a), NEW c, c = on[a]
  PROVE  /\ c \in Context
         /\ \E k \in 0 .. Len(sq[c]) : Consumes(c, k) /\ (sqpoll[c] => k = 0)
<1>1. c \in Context /\ Len(sq[c]) \in Nat
  <2>1. c \in Context
    BY DEF CancelEnters, Control, Sound
  <2> QED
    BY <2>1 DEF Typed, RingsTyped
<1>2. PICK k \in Submittable(on[a], 1) \cup {0} : Consumes(on[a], k)
  BY DEF CancelEnters
<1>3. Consumes(c, k)
  BY <1>2 DEF Consumes, Set
<1>4. k \in 0 .. Len(sq[c]) /\ (sqpoll[c] => k = 0)
  BY <1>1, <1>2, SubmittableTyped
<1> QED
  BY <1>1, <1>3, <1>4

LEMMA InitTyped == UringAssumption /\ Init => Typed
<1> SUFFICES ASSUME UringAssumption, Init PROVE Typed
  OBVIOUS
<1>1. <<>> \in Seq(Op) /\ <<>> \in Seq(Frame) /\ <<>> \in Seq(Entry)
  OBVIOUS
<1>2. NoArg \in Numbers
  BY DEF NoArg, Numbers
<1>3. RingsTyped
  BY <1>1 DEF Init, InitContext, RingsTyped, UringAssumption
<1>4. ObjectsTyped
  BY DEF Init, InitContext, InitOperation, ObjectsTyped
<1>5. CallsTyped
  BY <1>1, <1>2 DEF Init, CallsTyped, UringAssumption
<1> QED
  BY <1>3, <1>4, <1>5 DEF Typed

(* A drain's scan ends inside the completion ring.                         *)
LEMMA ScannedTyped ==
  ASSUME NEW s \in Seq(Entry), NEW max \in Nat
  PROVE  Scanned(s, max) \in 0 .. Len(s)
<1> DEFINE ends == {n \in 0 .. Len(s) :
                      \/ n = Len(s)
                      \/ max # 0 /\ Len(Real(SubSeq(s, 1, n))) >= max}
<1>1. Scanned(s, max) = CHOOSE n \in ends : \A m \in ends : n <= m
  BY DEF Scanned
<1>2. Len(s) \in ends /\ ends \in SUBSET Nat /\ ends \subseteq 0 .. Len(s)
  OBVIOUS
<1> HIDE DEF ends
<1>3. \E n \in ends : \A m \in ends : n <= m
  BY <1>2, LeastNatural
<1> QED
  BY <1>1, <1>2, <1>3

LEMMA NextRingsTyped ==
  ASSUME UringAssumption, Typed, Control, [Next]_vars
  PROVE  RingsTyped'
<1>0. CASE UNCHANGED <<sqpoll, rings, flushed>>
  BY <1>0 DEF Typed, RingsTyped, rings
<1>1. CASE UNCHANGED vars
  BY <1>0, <1>1 DEF vars
<1> SUFFICES ASSUME Next, ~UNCHANGED <<sqpoll, rings, flushed>> PROVE RingsTyped'
  BY <1>0, <1>1
<1> DEFINE Buffered == /\ hidden' \in [Context -> Nat]
                       /\ storer' \in [Context -> Client \cup {NoOne}]
<1>14. ASSUME NEW a \in Client, EmptiesBuffer(a) PROVE Buffered
  BY <1>14 DEF EmptiesBuffer, Typed, RingsTyped
<1>15. ASSUME NEW a \in Client, NEW c \in Context, NEW n \in Nat, StoresTail(a, c, n)
       PROVE  Buffered
  <2>1. CASE UNCHANGED <<hidden, storer>>
    BY <2>1 DEF Typed, RingsTyped
  <2>2. ASSUME NEW m, m = n + (IF storer[c] = a THEN hidden[c] ELSE 0),
               hidden' = [hidden EXCEPT ![c] = m],
               storer' = [storer EXCEPT ![c] = IF m = 0 THEN NoOne ELSE a]
        PROVE  Buffered
    <3>1. m \in Nat
      BY <2>2 DEF Typed, RingsTyped
    <3> QED
      BY <2>2, <3>1 DEF Typed, RingsTyped
  <2> QED
    BY <1>15, <2>1, <2>2 DEF StoresTail, Set
<1> HIDE DEF Buffered
<1>2. ASSUME NEW a \in Client, NEW c \in Context, UNCHANGED sqpoll,
             FlushWakes(a, c) \/ Cancel(a, c) \/ PollCounter(a, c)
      PROVE  RingsTyped'
  <2>1. sq[c] \in Seq(Entry) /\ Len(sq[c]) \in Nat /\ sqHead[c] \in Nat /\ hidden[c] \in Nat
    BY DEF Typed, RingsTyped
  <2>2. sqHead[c] + Len(sq[c]) \in Nat
    BY <2>1
  <2>3. CASE FlushWakes(a, c)
    <3>1. Buffered
      <4>1. CASE UNCHANGED <<hidden, storer>>
        BY <4>1 DEF Buffered, Typed, RingsTyped
      <4> QED
        BY <1>14, <2>3, <4>1 DEF FlushWakes
    <3> QED
      BY <1>2, <2>2, <2>3, <3>1 DEF Typed, RingsTyped, FlushWakes, Set, Wakes, Buffered
  <2>4. CASE Cancel(a, c)
    <3>1. Append(sq[c], Sentinel) \in Seq(Entry)
      BY <2>1, EntriesTyped
    <3>2. Buffered
      BY <1>15, <2>4 DEF Cancel
    <3> QED
      BY <1>2, <2>4, <3>1, <3>2 DEF Typed, RingsTyped, Cancel, Set, Buffered
  <2>5. CASE PollCounter(a, c)
    BY <1>2, <2>5 DEF Typed, RingsTyped, PollCounter, Set, ClearsCounter
  <2> QED
    BY <1>2, <2>3, <2>4, <2>5
<1>3. ASSUME NEW a \in Client, UNCHANGED sqpoll, SubmitRaises(a) \/ SubmitEnd(a)
      PROVE  RingsTyped'
  <2>1. Commit(a) /\ on[a] \in Context
    BY <1>3 DEF SubmitRaises, SubmitEnd, Control, Sound
  <2>2. sq[on[a]] \in Seq(Entry) /\ staging[a] \in Seq(Entry)
    BY <2>1, EntriesTyped DEF Typed, RingsTyped, CallsTyped
  <2>3. sq[on[a]] \o staging[a] \in Seq(Entry) /\ Len(staging[a]) \in Nat
    BY <2>2
  <2>4. Buffered
    <3>1. PICK c \in Context, n \in Nat : c = on[a] /\ n = Len(staging[a])
      BY <2>1, <2>3
    <3>2. StoresTail(a, c, n)
      BY <2>1, <3>1 DEF Commit, StoresTail, Set
    <3> QED
      BY <1>15, <3>2
  <2> QED
    BY <1>3, <2>1, <2>3, <2>4 DEF Typed, RingsTyped, Commit, CommitsStaged, Set, Buffered
<1>4. ASSUME NEW a \in Client, UNCHANGED sqpoll, FlushEnters(a)
      PROVE  RingsTyped'
  <2>1. PICK c : c = on[a]
    OBVIOUS
  <2>2. PICK k \in 0 .. Len(sq[c]) :
          /\ Consumes(c, k)
          /\ \/ UNCHANGED flushed
             \/ flushed' = [flushed EXCEPT ![c] = IF arg[a].goal > flushed[c]
                                                 THEN arg[a].goal ELSE flushed[c]]
    BY <1>4, <2>1, EnterConsumes
  <2>3. c \in Context /\ arg[a].goal \in Nat /\ flushed[c] \in Nat
    <3>1. c \in Context
      BY <1>4, <2>1 DEF FlushEnters, Control, Sound
    <3> QED
      BY <3>1 DEF Typed, CallsTyped, RingsTyped, Numbers
  <2>4. flushed' \in [Context -> Nat]
    BY <2>2, <2>3 DEF Typed, RingsTyped
  <2>5. UNCHANGED <<hidden, storer, poller>>
    BY <1>4 DEF FlushEnters
  <2> QED
    BY <1>4, <2>2, <2>3, <2>4, <2>5, ConsumesTyped DEF Typed, RingsTyped
<1>5. ASSUME NEW a \in Client, UNCHANGED sqpoll, CancelEnters(a)
      PROVE  RingsTyped'
  <2>1. PICK c : c = on[a]
    OBVIOUS
  <2>2. c \in Context /\ \E k \in 0 .. Len(sq[c]) : Consumes(c, k)
    BY <1>5, <2>1, CancelConsumes
  <2> QED
    BY <1>5, <1>14, <2>2, ConsumesTyped DEF Typed, RingsTyped, CancelEnters, Buffered
<1>6. ASSUME NEW a \in Client, UNCHANGED sqpoll, WaitReads(a)
      PROVE  RingsTyped'
  BY <1>6 DEF Typed, RingsTyped, WaitReads, ClearsCounter, Set
<1>7. ASSUME NEW a \in Client, UNCHANGED sqpoll, Drain(a)
      PROVE  RingsTyped'
  <2>1. on[a] \in Context /\ arg[a] \in Numbers
    BY <1>7 DEF Drain, Control, Sound, Typed, CallsTyped
  <2>2. cq[on[a]] \in Seq(Entry) /\ arg[a].max \in Nat
    BY <2>1 DEF Typed, RingsTyped, Numbers
  <2> DEFINE rest == After(cq[on[a]], Scanned(cq[on[a]], arg[a].max))
  <2>3. rest \in Seq(Entry)
    <3>1. ASSUME NEW s \in Seq(Entry), NEW n \in 0 .. Len(s) PROVE After(s, n) \in Seq(Entry)
      BY SplitElements DEF After
    <3> QED
      BY <2>2, <3>1, ScannedTyped
  <2>4. cq' = [cq EXCEPT ![on[a]] = rest]
    BY <1>7 DEF Drain, Set
  <2> HIDE DEF rest
  <2>5. cq' \in [Context -> Seq(Entry)]
    BY <2>3, <2>4 DEF Typed, RingsTyped
  <2>6. UNCHANGED <<sq, sqHead, hidden, storer, kernel, poller, signalled, flushed>>
    BY <1>7 DEF Drain
  <2> QED
    BY <1>7, <2>5, <2>6 DEF Typed, RingsTyped
<1>8. ASSUME NEW c \in Context, UNCHANGED sqpoll, PollerTakes(c)
      PROVE  RingsTyped'
  <2>1. Len(sq[c]) \in Nat /\ hidden[c] \in Nat /\ Len(sq[c]) - hidden[c] > 0
    BY <1>8 DEF Typed, RingsTyped, PollerTakes, Visible
  <2>2. 1 \in 0 .. Len(sq[c]) /\ Consumes(c, 1)
    BY <1>8, <2>1 DEF PollerTakes
  <2> QED
    BY <1>8, <2>2, ConsumesTyped DEF Typed, RingsTyped, PollerTakes
<1>9. ASSUME NEW c \in Context, UNCHANGED sqpoll,
             PollerRests(c) \/ StoreVisible(c) \/ \E o \in Op : Complete(c, o)
      PROVE  RingsTyped'
  <2>1. CASE PollerRests(c)
    BY <1>9, <2>1 DEF Typed, RingsTyped, PollerRests, Set
  <2>2. CASE StoreVisible(c)
    BY <1>9, <2>2 DEF Typed, RingsTyped, StoreVisible, Set
  <2>3. ASSUME NEW o \in Op, Complete(c, o) PROVE RingsTyped'
    <3>1. cq[c] \in Seq(Entry) /\ o \in Entry
      BY EntriesTyped DEF Typed, RingsTyped
    <3>2. Append(cq[c], o) \in Seq(Entry)
      BY <3>1
    <3> QED
      BY <1>9, <2>3, <3>2 DEF Typed, RingsTyped, Complete, Set
  <2> QED
    BY <1>9, <2>1, <2>2, <2>3
<1>10. ASSUME NEW a \in Client, Call(a) PROVE RingsTyped'
  <2>1. UNCHANGED sqpoll
    BY <1>10 DEF Call
  <2>2. ASSUME NEW c \in Context, NEW ops, SubmitBegin(a, c, ops) PROVE FALSE
    BY <2>1, <2>2 DEF SubmitBegin
  <2>3. ASSUME NEW c \in Context, FlushBegin(a, c) PROVE FALSE
    BY <2>1, <2>3 DEF FlushBegin
  <2>4. ASSUME NEW c \in Context, NEW min, NEW max, NEW timed,
               ProcessEvents(a, c, min, max, timed)
        PROVE  FALSE
    BY <2>1, <2>4 DEF ProcessEvents
  <2>5. ASSUME NEW c \in Context, Drop(a, c) PROVE FALSE
    BY <2>1, <2>5 DEF Drop
  <2>6. ASSUME NEW o \in Op, ReadBegin(a, o) PROVE FALSE
    BY <2>1, <2>6 DEF ReadBegin
  <2> QED
    BY <1>2, <1>10, <2>1, <2>2, <2>3, <2>4, <2>5, <2>6 DEF Call
<1>11. ASSUME NEW a \in Client, Proceed(a) PROVE RingsTyped'
  <2>1. UNCHANGED sqpoll
    BY <1>11 DEF Proceed
  <2>2. ASSUME NEW o \in Op, Skip(a, o) \/ Stage(a, o) \/ Full(a, o) PROVE FALSE
    BY <2>1, <2>2 DEF Skip, Stage, Full
  <2>3. ASSUME FlushReadsHead(a) \/ FlushFails(a) PROVE FALSE
    BY <2>1, <2>3 DEF FlushReadsHead, FlushFails
  <2>4. ASSUME WaitChecks(a) \/ WaitFails(a) \/ WaitWakes(a) \/ ReadEnd(a) PROVE FALSE
    BY <2>1, <2>4 DEF WaitChecks, WaitFails, WaitWakes, ReadEnd, rings
  <2> QED
    BY <1>3, <1>4, <1>5, <1>6, <1>7, <1>11, <2>1, <2>2, <2>3, <2>4 DEF Proceed
<1>12. ASSUME NEW a \in Client, Returns(a) PROVE RingsTyped'
  BY <1>12 DEF Returns, CallbackReturns
<1>13. ASSUME NEW c \in Context, Kernel(c) PROVE RingsTyped'
  BY <1>8, <1>9, <1>13 DEF Kernel
<1> QED
  BY <1>10, <1>11, <1>12, <1>13 DEF Next

(* The completions of Operations among those a drain scans.                *)
Drained(a) == Real(SubSeq(cq[on[a]], 1, Scanned(cq[on[a]], arg[a].max)))

LEMMA DrainTyped ==
  ASSUME UringAssumption, Typed, Control, NEW a \in Client, pc[a] = "drain"
  PROVE  /\ on[a] \in Context /\ cq[on[a]] \in Seq(Entry) /\ arg[a].max \in Nat
         /\ Scanned(cq[on[a]], arg[a].max) \in 0 .. Len(cq[on[a]])
         /\ SubSeq(cq[on[a]], 1, Scanned(cq[on[a]], arg[a].max)) \in Seq(Entry)
         /\ Drained(a) \in Seq(Op) /\ Len(Drained(a)) \in Nat
<1>1. on[a] \in Context /\ cq[on[a]] \in Seq(Entry) /\ arg[a].max \in Nat
  <2>1. on[a] \in Context
    BY DEF Control, Sound
  <2> QED
    BY <2>1 DEF Typed, RingsTyped, CallsTyped, Numbers
<1>2. ASSUME NEW s \in Seq(Entry), NEW n \in 0 .. Len(s)
      PROVE  SubSeq(s, 1, n) \in Seq(Entry) /\ Real(SubSeq(s, 1, n)) \in Seq(Op)
  <2> DEFINE t == SubSeq(s, 1, n)
  <2>1. t \in Seq(Entry)
    BY SplitElements
  <2> HIDE DEF t
  <2>2. Real(t) \in Seq(Entry \cap Op)
    BY <2>1, OnlyElements DEF Real
  <2>3. Real(t) \in Seq(Op)
    BY <2>2, EntriesTyped
  <2> QED
    BY <2>1, <2>3 DEF t
<1>3. Scanned(cq[on[a]], arg[a].max) \in 0 .. Len(cq[on[a]])
  BY <1>1, ScannedTyped
<1>4. Drained(a) \in Seq(Op)
  BY <1>1, <1>2, <1>3 DEF Drained
<1>5. Len(Drained(a)) \in Nat
  BY <1>4
<1> QED
  BY <1>1, <1>2, <1>3, <1>4, <1>5

LEMMA NextObjectsTyped ==
  ASSUME UringAssumption, Typed, Control, [Next]_vars
  PROVE  ObjectsTyped'
<1>0. CASE UNCHANGED <<section, references, operation>>
  BY <1>0 DEF Typed, ObjectsTyped, references, operation
<1>1. CASE UNCHANGED vars
  BY <1>0, <1>1 DEF vars
<1> SUFFICES ASSUME Next, ~UNCHANGED <<section, references, operation>> PROVE ObjectsTyped'
  BY <1>0, <1>1
<1>2. ASSUME NEW a \in Client, Call(a) PROVE ObjectsTyped'
  <2>1. ASSUME NEW c \in Context, NEW ops, SubmitBegin(a, c, ops) PROVE ObjectsTyped'
    BY <2>1 DEF Typed, ObjectsTyped, SubmitBegin, Set, references, operation
  <2>2. ASSUME NEW c \in Context, Drop(a, c) PROVE ObjectsTyped'
    <3>1. ctxRefs[c] - 1 \in Int
      BY DEF Typed, ObjectsTyped
    <3> QED
      BY <2>2, <3>1 DEF Typed, ObjectsTyped, Drop, Set, operation
  <2>3. ASSUME NEW o \in Op, ReadBegin(a, o) PROVE FALSE
    BY <2>3 DEF ReadBegin
  <2>4. ASSUME NEW c \in Context, FlushBegin(a, c) \/ FlushWakes(a, c) PROVE FALSE
    BY <2>4 DEF FlushBegin, FlushWakes
  <2>5. ASSUME NEW c \in Context, Cancel(a, c) \/ PollCounter(a, c) PROVE FALSE
    BY <2>5 DEF Cancel, PollCounter
  <2>6. ASSUME NEW c \in Context, NEW min, NEW max, NEW timed,
               ProcessEvents(a, c, min, max, timed)
        PROVE  FALSE
    BY <2>6 DEF ProcessEvents
  <2> QED
    BY <1>2, <2>1, <2>2, <2>3, <2>4, <2>5, <2>6 DEF Call
<1>3. ASSUME NEW a \in Client, Proceed(a) PROVE ObjectsTyped'
  <2>1. ASSUME NEW o \in Op, Skip(a, o) PROVE FALSE
    BY <2>1 DEF Skip
  <2>2. ASSUME NEW o \in Op, Stage(a, o) PROVE ObjectsTyped'
    <3>1. on[a] \in Context
      BY <2>2 DEF Control, Sound, Stage, NextInBatch
    <3>2. ctxRefs[on[a]] + 1 \in Int /\ opRefs[o] + 1 \in Int
      BY <3>1 DEF Typed, ObjectsTyped
    <3> QED
      BY <2>2, <3>1, <3>2 DEF Typed, ObjectsTyped, Stage, Set, HoldsContext
  <2>3. ASSUME NEW o \in Op, Full(a, o) PROVE ObjectsTyped'
    BY <2>3 DEF Typed, ObjectsTyped, Full, Set, references
  <2>4. ASSUME SubmitRaises(a) \/ SubmitEnd(a) PROVE ObjectsTyped'
    <3>1. section' \in [Context -> Client \cup {NoOne}]
      BY <2>4 DEF Typed, ObjectsTyped, SubmitRaises, SubmitEnd, Commit, Set
    <3>2. in_progress' \in [Op -> BOOLEAN]
      BY <2>4 DEF Typed, ObjectsTyped, SubmitRaises, SubmitEnd, Set, GivesBack
    <3>3. UNCHANGED <<references, opRefs, done, context, exposed, called>>
      BY <2>4 DEF SubmitRaises, SubmitEnd, Commit
    <3> QED
      BY <3>1, <3>2, <3>3 DEF Typed, ObjectsTyped, references
  <2>5. ASSUME FlushReadsHead(a) \/ FlushEnters(a) \/ FlushFails(a) \/ CancelEnters(a)
        PROVE  FALSE
    BY <2>5 DEF FlushReadsHead, FlushEnters, FlushFails, CancelEnters
  <2>6. ASSUME WaitChecks(a) \/ WaitFails(a) \/ WaitWakes(a) \/ WaitReads(a) PROVE FALSE
    BY <2>6 DEF WaitChecks, WaitFails, WaitWakes, WaitReads
  <2>7. ASSUME Drain(a) PROVE ObjectsTyped'
    <3>1. on[a] \in Context /\ Len(Drained(a)) \in Nat
      BY <2>7, DrainTyped DEF Drain
    <3>2. ctxRefs[on[a]] - Len(Drained(a)) \in Int
      BY <3>1 DEF Typed, ObjectsTyped
    <3>3. /\ ctxRefs' = [ctxRefs EXCEPT ![on[a]] = ctxRefs[on[a]] - Len(Drained(a))]
          /\ done' \in [Op -> BOOLEAN]
          /\ context' \in [Op -> Context \cup {NoContext}]
          /\ UNCHANGED <<section, handle, opRefs, in_progress, exposed, called>>
      BY <2>7 DEF Typed, ObjectsTyped, Drain, Drained, Releases, Set
    <3> QED
      BY <3>1, <3>2, <3>3 DEF Typed, ObjectsTyped
  <2>8. ASSUME ReadEnd(a) PROVE ObjectsTyped'
    BY <2>8 DEF Typed, ObjectsTyped, ReadEnd, Set, references
  <2> QED
    BY <1>3, <2>1, <2>2, <2>3, <2>4, <2>5, <2>6, <2>7, <2>8 DEF Proceed
<1>4. ASSUME NEW a \in Client, Returns(a) PROVE ObjectsTyped'
  <2>1. CallbackReturns(a) /\ frames[a] # <<>>
    BY <1>4 DEF Returns, CallbackReturns
  <2>2. Head(frames[a][Len(frames[a])].ops) \in Op
    BY <2>1, TopTyped
  <2>3. PICK o \in Op : /\ opRefs' = [opRefs EXCEPT ![o] = opRefs[o] - 1]
                        /\ called' = [called EXCEPT ![o] = called[o] + 1]
                        /\ UNCHANGED <<section, references, in_progress, done, context,
                                       exposed>>
    BY <2>1, <2>2 DEF CallbackReturns, Set
  <2>4. opRefs[o] - 1 \in Int /\ called[o] + 1 \in Nat
    BY DEF Typed, ObjectsTyped
  <2> QED
    BY <2>3, <2>4 DEF Typed, ObjectsTyped, references
<1>5. ASSUME NEW c \in Context, Kernel(c) PROVE FALSE
  BY <1>5 DEF Kernel, Complete, PollerTakes, PollerRests, StoreVisible
<1> QED
  BY <1>2, <1>3, <1>4, <1>5 DEF Next

LEMMA NextCallsTyped ==
  ASSUME UringAssumption, Typed, Control, [Next]_vars
  PROVE  CallsTyped'
<1>0. CASE UNCHANGED <<gil, cancels, calls>>
  BY <1>0 DEF Typed, CallsTyped, calls
<1>1. CASE UNCHANGED vars
  BY <1>0, <1>1 DEF vars
<1> SUFFICES ASSUME Next PROVE CallsTyped'
  BY <1>1
<1>9. NoArg \in Numbers
  BY DEF NoArg, Numbers
<1>2. ASSUME NEW a \in Client, Call(a) PROVE CallsTyped'
  <2>1. ASSUME NEW c \in Context, NEW ops \in Batch, SubmitBegin(a, c, ops) PROVE CallsTyped'
    <3>1. ops \in Seq(Op)
      BY SeqDef DEF Batch, UringAssumption
    <3>2. [NoArg EXCEPT !.n = Len(sq[c])] \in Numbers
      <4>1. Len(sq[c]) \in Int
        BY DEF Typed, RingsTyped
      <4> QED
        BY <1>9, <4>1 DEF Numbers
    <3> QED
      BY <2>1, <3>1, <3>2 DEF Typed, CallsTyped, SubmitBegin, Set, Enters, KeepGil
  <2>2. ASSUME NEW c \in Context, FlushBegin(a, c) PROVE CallsTyped'
    <3>1. sqHead[c] \in Nat /\ Len(sq[c]) \in Nat
      BY DEF Typed, RingsTyped
    <3>2. [NoArg EXCEPT !.goal = sqHead[c] + Len(sq[c])] \in Numbers
      BY <1>9, <3>1 DEF Numbers
    <3> QED
      BY <2>2, <3>2 DEF Typed, CallsTyped, FlushBegin, Set, Enters, KeepGil
  <2>3. ASSUME NEW c \in Context, FlushWakes(a, c) PROVE CallsTyped'
    BY <1>9, <2>3 DEF Typed, CallsTyped, FlushWakes, Set, Enters, KeepGil
  <2>4. ASSUME NEW c \in Context, Cancel(a, c) PROVE CallsTyped'
    <3>1. cancels + 1 \in 0 .. MaxCancels
      BY <2>4 DEF Cancel, Typed, CallsTyped, UringAssumption
    <3> QED
      BY <1>9, <2>4, <3>1 DEF Typed, CallsTyped, Cancel, Set, Enters, KeepGil
  <2>5. ASSUME NEW c \in Context, NEW min \in MinRequests, NEW max \in MaxRequests,
               NEW timed \in BOOLEAN, ProcessEvents(a, c, min, max, timed)
        PROVE  CallsTyped'
    <3>1. [NoArg EXCEPT !.n = min, !.max = max, !.timed = timed] \in Numbers
      <4>1. min \in Nat /\ max \in Nat
        BY DEF UringAssumption
      <4>2. ASSUME NEW f \in Numbers
            PROVE  [f EXCEPT !.n = min, !.max = max, !.timed = timed] \in Numbers
        <5>1. [f EXCEPT !.n = min] \in Numbers
          BY <4>1 DEF Numbers
        <5>2. ASSUME NEW g \in Numbers PROVE [g EXCEPT !.max = max] \in Numbers
          BY <4>1 DEF Numbers
        <5>3. ASSUME NEW g \in Numbers PROVE [g EXCEPT !.timed = timed] \in Numbers
          BY DEF Numbers
        <5> QED
          BY <5>1, <5>2, <5>3
      <4> QED
        BY <1>9, <4>2
    <3> QED
      BY <2>5, <3>1 DEF Typed, CallsTyped, ProcessEvents, Set, Enters, KeepGil, LeaveGil
  <2>6. ASSUME NEW c \in Context, PollCounter(a, c) \/ Drop(a, c) PROVE CallsTyped'
    BY <1>0, <2>6 DEF PollCounter, Drop
  <2>7. ASSUME NEW o \in Op, ReadBegin(a, o) PROVE CallsTyped'
    <3>1. <<o>> \in Seq(Op)
      OBVIOUS
    <3> QED
      BY <1>9, <2>7, <3>1 DEF Typed, CallsTyped, ReadBegin, Set, Enters, KeepGil
  <2> QED
    BY <1>2, <2>1, <2>2, <2>3, <2>4, <2>5, <2>6, <2>7 DEF Call
<1>3. ASSUME NEW a \in Client, Proceed(a) PROVE CallsTyped'
  <2>1. ASSUME NEW o \in Op, Skip(a, o) \/ Stage(a, o) PROVE CallsTyped'
    <3>1. todo[a] \in Seq(Op) /\ todo[a] # <<>> /\ staging[a] \in Seq(Op)
          /\ arg[a] \in Numbers
      BY <2>1 DEF Typed, CallsTyped, Skip, Stage, NextInBatch
    <3>2. Tail(todo[a]) \in Seq(Op) /\ Append(staging[a], o) \in Seq(Op)
      BY <3>1, HeadElements
    <3>3. [arg[a] EXCEPT !.n = arg[a].n + 1] \in Numbers
      BY <3>1 DEF Numbers
    <3>4. CASE Skip(a, o)
      BY <3>2, <3>4 DEF Typed, CallsTyped, Skip, Set
    <3>5. CASE Stage(a, o)
      BY <3>2, <3>3, <3>5 DEF Typed, CallsTyped, Stage, Set
    <3> QED
      BY <2>1, <3>4, <3>5
  <2>2. ASSUME NEW o \in Op, Full(a, o) PROVE CallsTyped'
    BY <2>2 DEF Typed, CallsTyped, Full, Set
  <2>3. ASSUME SubmitRaises(a) \/ SubmitEnd(a) PROVE CallsTyped'
    <3>1. Commit(a)
      BY <2>3 DEF SubmitRaises, SubmitEnd
    <3>2. <<>> \in Seq(Op)
      OBVIOUS
    <3> QED
      BY <1>9, <3>1, <3>2 DEF Typed, CallsTyped, Commit, Set, Leaves, Enters, LeaveGil
  <2>4. ASSUME FlushReadsHead(a) PROVE CallsTyped'
    <3>1. on[a] \in Context /\ arg[a] \in Numbers
      BY <2>4 DEF FlushReadsHead, Control, Sound, Typed, CallsTyped
    <3>2. arg[a].goal - sqHead[on[a]] \in Int
      BY <3>1 DEF Numbers, Typed, RingsTyped
    <3>3. [arg[a] EXCEPT !.n = arg[a].goal - sqHead[on[a]]] \in Numbers
      BY <3>1, <3>2 DEF Numbers
    <3> DEFINE numbers == [arg[a] EXCEPT !.n = arg[a].goal - sqHead[on[a]]]
    <3> HIDE DEF numbers
    <3>4. /\ \/ Enters(a, "idle", NoContext, NoArg) /\ gil' = NoOne
             \/ Enters(a, "flush", on[a], numbers) /\ UNCHANGED gil
          /\ UNCHANGED <<cancels, todo, staging, frames>>
      BY <2>4 DEF FlushReadsHead, Leaves, LeaveGil, numbers
    <3>5. numbers \in Numbers
      BY <3>3 DEF numbers
    <3>6. CASE Enters(a, "idle", NoContext, NoArg) /\ gil' = NoOne
      BY <1>9, <3>4, <3>6 DEF Typed, CallsTyped, Set, Enters
    <3>7. CASE Enters(a, "flush", on[a], numbers) /\ UNCHANGED gil
      BY <3>1, <3>4, <3>5, <3>7 DEF Typed, CallsTyped, Set, Enters
    <3> QED
      BY <3>4, <3>6, <3>7
  <2>5. ASSUME FlushEnters(a) PROVE CallsTyped'
    <3>1. PICK c : c = on[a]
      OBVIOUS
    <3>2. PICK k \in 0 .. Len(sq[c]) :
            /\ arg' = [arg EXCEPT ![a] = [arg[a] EXCEPT !.n = arg[a].n - k]]
            /\ UNCHANGED pc \/ pc' = [pc EXCEPT ![a] = "drain"]
      BY <2>5, <3>1, EnterConsumes
    <3>3. [arg[a] EXCEPT !.n = arg[a].n - k] \in Numbers
      <4>1. arg[a] \in Numbers /\ k \in Int
        BY DEF Typed, CallsTyped
      <4> QED
        BY <4>1 DEF Numbers
    <3>4. UNCHANGED <<gil, cancels, on, todo, staging, frames>>
      BY <2>5 DEF FlushEnters
    <3>5. pc' \in [Client -> {"idle", "submit", "full", "flush-head", "flush", "cancel",
                              "check", "sleep", "woken", "drain", "read"}]
      BY <3>2 DEF Typed, CallsTyped
    <3> QED
      BY <3>2, <3>3, <3>4, <3>5 DEF Typed, CallsTyped
  <2>6. ASSUME FlushFails(a) \/ CancelEnters(a) \/ WaitFails(a) PROVE CallsTyped'
    <3>1. Leaves(a) /\ UNCHANGED <<cancels, todo, staging, frames>>
      BY <2>6 DEF FlushFails, CancelEnters, WaitFails
    <3>2. gil' \in {gil, NoOne}
      BY <2>6 DEF FlushFails, CancelEnters, WaitFails, LeaveGil
    <3> QED
      BY <1>9, <3>1, <3>2 DEF Typed, CallsTyped, Set, Leaves, Enters
  <2>7. ASSUME WaitChecks(a) \/ WaitWakes(a) \/ WaitReads(a) PROVE CallsTyped'
    BY <2>7 DEF Typed, CallsTyped, WaitChecks, WaitWakes, WaitReads, Set
  <2>8. ASSUME Drain(a) PROVE CallsTyped'
    <3>1. on[a] \in Context /\ Drained(a) \in Seq(Op)
      BY <2>8, DrainTyped DEF Drain
    <3>2. IF Drained(a) = <<>> THEN UNCHANGED frames
          ELSE frames' = [frames EXCEPT ![a] =
                            Append(frames[a], [ctx |-> on[a], ops |-> Drained(a)])]
      BY <2>8 DEF Drain, Drained, Set
    <3>3. Drained(a) # <<>> => [ctx |-> on[a], ops |-> Drained(a)] \in Frame
      BY <3>1 DEF Frame
    <3>4. Drained(a) # <<>> =>
            Append(frames[a], [ctx |-> on[a], ops |-> Drained(a)]) \in Seq(Frame)
      BY <3>3 DEF Typed, CallsTyped
    <3>5. frames' \in [Client -> Seq(Frame)]
      BY <3>2, <3>4 DEF Typed, CallsTyped
    <3>6. Leaves(a) /\ LeaveGil /\ UNCHANGED <<cancels, todo, staging>>
      BY <2>8 DEF Drain
    <3> QED
      BY <1>9, <3>5, <3>6 DEF Typed, CallsTyped, Set, Leaves, Enters, LeaveGil
  <2>9. ASSUME ReadEnd(a) PROVE CallsTyped'
    <3>1. <<>> \in Seq(Op)
      OBVIOUS
    <3> QED
      BY <1>9, <2>9, <3>1 DEF Typed, CallsTyped, ReadEnd, Set, Leaves, Enters, LeaveGil
  <2> QED
    BY <1>3, <2>1, <2>2, <2>3, <2>4, <2>5, <2>6, <2>7, <2>8, <2>9 DEF Proceed
<1>4. ASSUME NEW a \in Client, Returns(a) PROVE CallsTyped'
  <2> DEFINE depth == Len(frames[a])
             ops == Tail(frames[a][depth].ops)
  <2>1. /\ frames[a] \in Seq(Frame) /\ depth \in Nat \ {0} /\ frames[a][depth] \in Frame
        /\ ops \in Seq(Op)
        /\ IF Len(frames[a][depth].ops) = 1
             THEN frames' = [frames EXCEPT ![a] = SubSeq(frames[a], 1, depth - 1)]
             ELSE frames' = [frames EXCEPT ![a] = [frames[a] EXCEPT ![depth].ops = ops]]
        /\ Len(frames[a][depth].ops) # 1 => ops # <<>>
        /\ UNCHANGED <<gil, cancels, pc, on, todo, staging, arg>>
    BY <1>4, TopTyped DEF Returns, CallbackReturns, Set
  <2> HIDE DEF depth, ops
  <2>2. SubSeq(frames[a], 1, depth - 1) \in Seq(Frame)
    BY <2>1, SubSeqProperties DEF depth
  <2>3. ops # <<>> => [frames[a] EXCEPT ![depth].ops = ops] \in Seq(Frame)
    <3>1. ops # <<>> => [frames[a][depth] EXCEPT !.ops = ops] \in Frame
      BY <2>1 DEF Frame
    <3>2. [frames[a] EXCEPT ![depth].ops = ops] =
            [frames[a] EXCEPT ![depth] = [frames[a][depth] EXCEPT !.ops = ops]]
      OBVIOUS
    <3> QED
      BY <2>1, <3>1, <3>2, ExceptSeq DEF depth
  <2>4. frames' \in [Client -> Seq(Frame)]
    BY <2>1, <2>2, <2>3 DEF Typed, CallsTyped
  <2> QED
    BY <2>1, <2>4 DEF Typed, CallsTyped
<1>5. ASSUME NEW c \in Context, Kernel(c) PROVE CallsTyped'
  BY <1>0, <1>5 DEF Kernel, Complete, PollerTakes, PollerRests, StoreVisible
<1> QED
  BY <1>2, <1>3, <1>4, <1>5 DEF Next

LEMMA NextTyped ==
  ASSUME UringAssumption, Typed, Control, [Next]_vars
  PROVE  Typed'
BY NextRingsTyped, NextObjectsTyped, NextCallsTyped DEF Typed

-----------------------------------------------------------------------------
(* What an action of one thread, or of the kernel, leaves alone.           *)
CallOf(b) == <<pc[b], on[b], todo[b], staging[b], arg[b], frames[b]>>
Acts(a) == Call(a) \/ Proceed(a) \/ Returns(a)

LEMMA OthersCalls ==
  ASSUME Typed, NEW a \in Client, Acts(a), NEW b \in Client, b # a
  PROVE  UNCHANGED CallOf(b)
<1>1. CASE Call(a)
  <2>1. CASE UNCHANGED calls
    BY <2>1 DEF calls, CallOf
  <2>2. ASSUME NEW c \in Context, NEW ops, SubmitBegin(a, c, ops) PROVE UNCHANGED CallOf(b)
    BY <2>2 DEF Typed, CallsTyped, CallOf, SubmitBegin, Set, Enters
  <2>3. ASSUME NEW c \in Context, FlushBegin(a, c) \/ FlushWakes(a, c) \/ Cancel(a, c)
        PROVE  UNCHANGED CallOf(b)
    BY <2>3 DEF Typed, CallsTyped, CallOf, FlushBegin, FlushWakes, Cancel, Set, Enters
  <2>4. ASSUME NEW c \in Context, NEW min, NEW max, NEW timed,
               ProcessEvents(a, c, min, max, timed)
        PROVE  UNCHANGED CallOf(b)
    BY <2>4 DEF Typed, CallsTyped, CallOf, ProcessEvents, Set, Enters
  <2>5. ASSUME NEW c \in Context, PollCounter(a, c) \/ Drop(a, c) PROVE UNCHANGED calls
    BY <2>5 DEF PollCounter, Drop
  <2>6. ASSUME NEW o \in Op, ReadBegin(a, o) PROVE UNCHANGED CallOf(b)
    BY <2>6 DEF Typed, CallsTyped, CallOf, ReadBegin, Set, Enters
  <2> QED
    BY <1>1, <2>1, <2>2, <2>3, <2>4, <2>5, <2>6 DEF Call
<1>2. CASE Proceed(a)
  <2>1. ASSUME NEW o \in Op, Skip(a, o) \/ Stage(a, o) \/ Full(a, o)
        PROVE  UNCHANGED CallOf(b)
    BY <2>1 DEF Typed, CallsTyped, CallOf, Skip, Stage, Full, Set
  <2>2. CASE SubmitRaises(a) \/ SubmitEnd(a)
    BY <2>2 DEF Typed, CallsTyped, CallOf, SubmitRaises, SubmitEnd, Commit, Set, Leaves,
                Enters
  <2>3. CASE FlushReadsHead(a)
    BY <2>3 DEF Typed, CallsTyped, CallOf, FlushReadsHead, Set, Leaves, Enters
  <2>4. CASE FlushEnters(a)
    BY <2>4 DEF Typed, CallsTyped, CallOf, FlushEnters, Set
  <2>5. CASE FlushFails(a) \/ CancelEnters(a) \/ WaitFails(a)
    BY <2>5 DEF Typed, CallsTyped, CallOf, FlushFails, CancelEnters, WaitFails, Set,
                Leaves, Enters
  <2>6. CASE WaitChecks(a) \/ WaitWakes(a) \/ WaitReads(a)
    BY <2>6 DEF Typed, CallsTyped, CallOf, WaitChecks, WaitWakes, WaitReads, Set
  <2>7. CASE Drain(a) \/ ReadEnd(a)
    BY <2>7 DEF Typed, CallsTyped, CallOf, Drain, ReadEnd, Set, Leaves, Enters
  <2> QED
    BY <1>2, <2>1, <2>2, <2>3, <2>4, <2>5, <2>6, <2>7 DEF Proceed
<1>3. CASE Returns(a)
  BY <1>3 DEF Typed, CallsTyped, CallOf, Returns, CallbackReturns, Set
<1> QED
  BY <1>1, <1>2, <1>3 DEF Acts

LEMMA KernelCalls ==
  ASSUME NEW c \in Context, Kernel(c)
  PROVE  UNCHANGED <<calls, gil, section, references, operation, flushed, sqpoll, cancels>>
BY DEF Kernel, Complete, PollerTakes, PollerRests, StoreVisible

(* A critical section is entered and left by the thread that owns it.      *)
LEMMA OthersSection ==
  ASSUME UringAssumption, Typed, Control, NEW a \in Client, Acts(a),
         NEW b \in Client, b # a, NEW c \in Context
  PROVE  section'[c] = b <=> section[c] = b
<1>0. CASE UNCHANGED section
  BY <1>0
<1>1. ASSUME NEW d \in Context, NEW ops, SubmitBegin(a, d, ops)
      PROVE  section'[c] = b <=> section[c] = b
  BY <1>1 DEF Typed, ObjectsTyped, SubmitBegin, Set, UringAssumption
<1>2. CASE SubmitRaises(a) \/ SubmitEnd(a)
  <2>1. /\ Commit(a) /\ Submits(a) /\ on[a] \in Context
    BY <1>2 DEF SubmitRaises, SubmitEnd, Submits, Control, Sound
  <2>2. section[on[a]] = a
    BY <2>1 DEF Control, Sound
  <2> QED
    BY <2>1, <2>2 DEF Typed, ObjectsTyped, Commit, Set, UringAssumption
<1>3. CASE Call(a)
  <2>1. ASSUME NEW d \in Context, FlushBegin(a, d) \/ FlushWakes(a, d) \/ Cancel(a, d)
                                  \/ PollCounter(a, d) \/ Drop(a, d)
        PROVE  UNCHANGED section
    BY <2>1 DEF FlushBegin, FlushWakes, Cancel, PollCounter, Drop
  <2>2. ASSUME NEW d \in Context, NEW min, NEW max, NEW timed,
               ProcessEvents(a, d, min, max, timed)
        PROVE  UNCHANGED section
    BY <2>2 DEF ProcessEvents
  <2>3. ASSUME NEW o \in Op, ReadBegin(a, o) PROVE UNCHANGED section
    BY <2>3 DEF ReadBegin
  <2> QED
    BY <1>0, <1>1, <1>3, <2>1, <2>2, <2>3 DEF Call
<1>4. CASE Proceed(a)
  <2>1. ASSUME NEW o \in Op, Skip(a, o) \/ Stage(a, o) \/ Full(a, o)
        PROVE  UNCHANGED section
    BY <2>1 DEF Skip, Stage, Full
  <2>2. FlushReadsHead(a) \/ FlushEnters(a) \/ FlushFails(a) \/ CancelEnters(a)
          => UNCHANGED section
    BY DEF FlushReadsHead, FlushEnters, FlushFails, CancelEnters
  <2>3. WaitChecks(a) \/ WaitFails(a) \/ WaitWakes(a) \/ WaitReads(a) \/ Drain(a)
          \/ ReadEnd(a) => UNCHANGED section
    BY DEF WaitChecks, WaitFails, WaitWakes, WaitReads, Drain, ReadEnd
  <2> QED
    BY <1>0, <1>2, <1>4, <2>1, <2>2, <2>3 DEF Proceed
<1>5. CASE Returns(a)
  BY <1>0, <1>5 DEF Returns, CallbackReturns
<1> QED
  BY <1>3, <1>4, <1>5 DEF Acts

(* The submission ring shrinks at its head; it grows at its tail by what a *)
(* submit() has staged or by a cancellation.                               *)
Shrinks(c) ==
  \E k \in 0 .. Len(sq[c]) : Len(sq'[c]) = Len(sq[c]) - k /\ sqHead'[c] = sqHead[c] + k
GrowsBy(c, n) == Len(sq'[c]) = Len(sq[c]) + n /\ sqHead'[c] = sqHead[c]

LEMMA RingSteps ==
  ASSUME UringAssumption, Typed, Control, Next, NEW c \in Context
  PROVE  \/ Shrinks(c)
         \/ \E a \in Client : /\ Submits(a) /\ on[a] = c /\ Commit(a)
                              /\ GrowsBy(c, Len(staging[a]))
         \/ \E a \in Client : Cancel(a, c) /\ GrowsBy(c, 1)
<1>0. ASSUME sq'[c] = sq[c] /\ sqHead'[c] = sqHead[c] PROVE Shrinks(c)
  <2>1. Len(sq[c]) \in Nat /\ sqHead[c] \in Nat
    BY DEF Typed, RingsTyped
  <2>2. 0 \in 0 .. Len(sq[c]) /\ Len(sq[c]) = Len(sq[c]) - 0 /\ sqHead[c] = sqHead[c] + 0
    BY <2>1
  <2>3. Len(sq'[c]) = Len(sq[c]) - 0 /\ sqHead'[c] = sqHead[c] + 0
    BY <1>0, <2>2
  <2> QED
    BY <2>2, <2>3 DEF Shrinks
<1>1. ASSUME NEW d \in Context, NEW k \in 0 .. Len(sq[d]), Consumes(d, k)
      PROVE  Shrinks(c)
  <2>1. /\ Len(sq'[d]) = Len(sq[d]) - k /\ sqHead'[d] = sqHead[d] + k
        /\ c # d => sq'[c] = sq[c] /\ sqHead'[c] = sqHead[c]
    BY <1>1, ConsumesTyped
  <2>2. CASE c = d
    BY <2>1, <2>2 DEF Shrinks
  <2> QED
    BY <1>0, <2>1, <2>2
<1>2. ASSUME NEW a \in Client, Call(a)
      PROVE  Shrinks(c) \/ (Cancel(a, c) /\ GrowsBy(c, 1))
  <2>1. ASSUME NEW d \in Context, Cancel(a, d)
        PROVE  Shrinks(c) \/ (Cancel(a, c) /\ GrowsBy(c, 1))
    <3>1. sq' = [sq EXCEPT ![d] = Append(sq[d], Sentinel)] /\ UNCHANGED sqHead
      BY <2>1 DEF Cancel, Set
    <3>2. CASE c = d
      <4>1. sq'[c] = Append(sq[c], Sentinel) /\ sq[c] \in Seq(Entry)
        BY <3>1, <3>2 DEF Typed, RingsTyped
      <4>2. Len(sq'[c]) = Len(sq[c]) + 1
        BY <4>1, EntriesTyped
      <4> QED
        BY <2>1, <3>1, <3>2, <4>2 DEF GrowsBy
    <3>3. CASE c # d
      BY <1>0, <3>1, <3>3 DEF Typed, RingsTyped
    <3> QED
      BY <3>2, <3>3
  <2>2. ASSUME NEW d \in Context, NEW ops, SubmitBegin(a, d, ops) PROVE UNCHANGED <<sq, sqHead>>
    BY <2>2 DEF SubmitBegin, rings
  <2>3. ASSUME NEW d \in Context, FlushBegin(a, d) \/ FlushWakes(a, d) \/ PollCounter(a, d)
                                  \/ Drop(a, d)
        PROVE  UNCHANGED <<sq, sqHead>>
    BY <2>3 DEF FlushBegin, FlushWakes, PollCounter, Drop, rings
  <2>4. ASSUME NEW d \in Context, NEW min, NEW max, NEW timed,
               ProcessEvents(a, d, min, max, timed)
        PROVE  UNCHANGED <<sq, sqHead>>
    BY <2>4 DEF ProcessEvents, rings
  <2>5. ASSUME NEW o \in Op, ReadBegin(a, o) PROVE UNCHANGED <<sq, sqHead>>
    BY <2>5 DEF ReadBegin, rings
  <2> QED
    BY <1>0, <1>2, <2>1, <2>2, <2>3, <2>4, <2>5 DEF Call
<1>3. ASSUME NEW a \in Client, Proceed(a)
      PROVE  Shrinks(c) \/ (Submits(a) /\ on[a] = c /\ Commit(a) /\ GrowsBy(c, Len(staging[a])))
  <2>1. CASE SubmitRaises(a) \/ SubmitEnd(a)
    <3>1. Commit(a) /\ Submits(a)
      BY <2>1 DEF SubmitRaises, SubmitEnd, Submits
    <3>2. sq' = [sq EXCEPT ![on[a]] = sq[on[a]] \o staging[a]] /\ UNCHANGED sqHead
      BY <3>1 DEF Commit, CommitsStaged, Set
    <3>3. CASE on[a] = c
      <4>1. sq'[c] = sq[c] \o staging[a] /\ sq[c] \in Seq(Entry) /\ staging[a] \in Seq(Op)
        BY <3>2, <3>3 DEF Typed, RingsTyped, CallsTyped
      <4>2. Len(sq'[c]) = Len(sq[c]) + Len(staging[a])
        BY <4>1
      <4> QED
        BY <3>1, <3>2, <3>3, <4>2 DEF GrowsBy
    <3>4. CASE on[a] # c
      BY <1>0, <3>2, <3>4 DEF Typed, RingsTyped
    <3> QED
      BY <3>3, <3>4
  <2>2. CASE FlushEnters(a)
    <3>1. PICK d : d = on[a]
      OBVIOUS
    <3>2. d \in Context /\ \E k \in 0 .. Len(sq[d]) : Consumes(d, k)
      BY <2>2, <3>1, EnterConsumes
    <3> QED
      BY <1>1, <3>2
  <2>3. CASE CancelEnters(a)
    <3>1. PICK d : d = on[a]
      OBVIOUS
    <3>2. d \in Context /\ \E k \in 0 .. Len(sq[d]) : Consumes(d, k)
      BY <2>3, <3>1, CancelConsumes
    <3> QED
      BY <1>1, <3>2
  <2>4. ASSUME NEW o \in Op, Skip(a, o) \/ Stage(a, o) \/ Full(a, o)
        PROVE  UNCHANGED <<sq, sqHead>>
    BY <2>4 DEF Skip, Stage, Full, rings
  <2>5. FlushReadsHead(a) \/ FlushFails(a) \/ Drain(a) \/ ReadEnd(a)
          => UNCHANGED <<sq, sqHead>>
    BY DEF FlushReadsHead, FlushFails, Drain, ReadEnd, rings
  <2>6. WaitChecks(a) \/ WaitFails(a) \/ WaitWakes(a) \/ WaitReads(a)
          => UNCHANGED <<sq, sqHead>>
    BY DEF WaitChecks, WaitFails, WaitWakes, WaitReads, rings
  <2> QED
    BY <1>0, <1>3, <2>1, <2>2, <2>3, <2>4, <2>5, <2>6 DEF Proceed
<1>4. ASSUME NEW a \in Client, Returns(a) PROVE Shrinks(c)
  BY <1>0, <1>4 DEF Returns, CallbackReturns, rings
<1>5. ASSUME NEW d \in Context, Kernel(d) PROVE Shrinks(c)
  <2>1. CASE PollerTakes(d)
    <3>1. Len(sq[d]) \in Nat /\ hidden[d] \in Nat /\ Len(sq[d]) - hidden[d] > 0
      BY <2>1 DEF Typed, RingsTyped, PollerTakes, Visible
    <3>2. 1 \in 0 .. Len(sq[d]) /\ Consumes(d, 1)
      BY <2>1, <3>1 DEF PollerTakes
    <3> QED
      BY <1>1, <3>2
  <2>2. PollerRests(d) \/ StoreVisible(d) \/ (\E o \in Op : Complete(d, o))
          => UNCHANGED <<sq, sqHead>>
    BY DEF PollerRests, StoreVisible, Complete
  <2> QED
    BY <1>0, <1>5, <2>1, <2>2 DEF Kernel
<1> QED
  BY <1>2, <1>3, <1>4, <1>5 DEF Next

LEMMA InitControl == UringAssumption /\ Init => Control
<1> SUFFICES ASSUME UringAssumption, Init PROVE Control
  OBVIOUS
<1>1. /\ \A a \in Client : pc[a] = "idle" /\ staging[a] = <<>> /\ frames[a] = <<>>
      /\ \A c \in Context : section[c] = NoOne /\ sq[c] = <<>>
      /\ NoOne \notin Client /\ Entries \in Nat /\ MaxDepth \in Nat
  BY DEF Init, InitContext, UringAssumption
<1>2. /\ \A c \in Context : Len(sq[c]) <= Entries
      /\ \A a \in Client : /\ Len(frames[a]) <= MaxDepth + 1
                           /\ MaxDepth + (IF MayDrain(a) THEN 0 ELSE 1) = MaxDepth + 1
  BY <1>1 DEF MayDrain
<1> QED
  BY <1>1, <1>2 DEF Control, Sound, Submits

(* While a submit() stages, nothing else makes its ring longer.            *)
LEMMA OthersRoom ==
  ASSUME UringAssumption, Typed, Control, Next,
         NEW b \in Client, Submits(b), ~Commit(b)
  PROVE  Len(sq'[on[b]]) \in Nat /\ Len(sq'[on[b]]) <= Len(sq[on[b]])
<1>1. PICK c \in Context : c = on[b]
  BY DEF Control, Sound, Submits
<1>2. section[c] = b /\ Len(sq[c]) \in Nat
  <2>1. section[c] = b
    BY <1>1 DEF Control, Sound
  <2> QED
    BY <2>1 DEF Typed, RingsTyped
<1>3. ASSUME NEW a \in Client, Submits(a), on[a] = c, Commit(a) PROVE FALSE
  <2>1. section[c] = a
    BY <1>1, <1>3 DEF Control, Sound
  <2>2. Commit(b)
    BY <1>2, <1>3, <2>1
  <2> QED
    BY <2>2
<1>4. ASSUME NEW a \in Client, Cancel(a, c) PROVE FALSE
  BY <1>2, <1>4 DEF Cancel, UringAssumption
<1>5. Shrinks(c)
  BY <1>3, <1>4, RingSteps
<1>6. PICK k \in 0 .. Len(sq[c]) : Len(sq'[c]) = Len(sq[c]) - k
  BY <1>5 DEF Shrinks
<1>7. Len(sq'[c]) \in Nat /\ Len(sq'[c]) <= Len(sq[c])
  BY <1>2, <1>6
<1> QED
  BY <1>1, <1>7

LEMMA OthersSound ==
  ASSUME UringAssumption, Typed, Control, Next, NEW b \in Client,
         UNCHANGED CallOf(b),
         \A c \in Context : section'[c] = b <=> section[c] = b
  PROVE  Sound(b)'
<1>1. /\ pc'[b] = pc[b] /\ on'[b] = on[b] /\ todo'[b] = todo[b] /\ arg'[b] = arg[b]
      /\ staging'[b] = staging[b] /\ frames'[b] = frames[b]
  BY DEF CallOf
<1>2. Submits(b)' <=> Submits(b)
  BY <1>1 DEF Submits
<1>3. Submits(b) => /\ Len(sq'[on[b]]) + Len(staging[b]) <= arg[b].n
                    /\ arg[b].n <= Entries
  <2> SUFFICES ASSUME Submits(b) PROVE /\ Len(sq'[on[b]]) + Len(staging[b]) <= arg[b].n
                                       /\ arg[b].n <= Entries
    OBVIOUS
  <2>1. ~Commit(b)
    BY <1>1 DEF Commit, Set, Leaves, Enters, Submits, Typed, CallsTyped
  <2>2. Len(sq'[on[b]]) \in Nat /\ Len(sq'[on[b]]) <= Len(sq[on[b]])
    BY <2>1, OthersRoom
  <2>3. /\ Len(sq[on[b]]) + Len(staging[b]) <= arg[b].n /\ arg[b].n <= Entries
    BY DEF Control, Sound
  <2>4. on[b] \in Context
    BY DEF Control, Sound, Submits
  <2>5. Len(sq[on[b]]) \in Nat /\ Len(staging[b]) \in Nat /\ arg[b].n \in Int
    BY <2>4 DEF Typed, RingsTyped, CallsTyped, Numbers
  <2>6. ASSUME NEW x \in Nat, NEW y \in Nat, NEW z \in Nat, NEW n \in Int,
               x <= y, y + z <= n
        PROVE  x + z <= n
    BY <2>6
  <2> QED
    BY <2>2, <2>3, <2>5, <2>6
<1>4. Sound(b)
  BY DEF Control
<1> QED
  BY <1>1, <1>2, <1>3, <1>4 DEF Sound, MayDrain

LEMMA FreeSound ==
  ASSUME Control, NEW a \in Client, ~Submits(a), UNCHANGED section,
         ~Submits(a)', pc'[a] \notin {"idle", "read"} => on'[a] \in Context,
         staging'[a] = staging[a],
         Len(frames'[a]) <= MaxDepth + (IF MayDrain(a)' THEN 0 ELSE 1)
  PROVE  Sound(a)'
BY DEF Control, Sound, Submits

LEMMA NextControl ==
  ASSUME UringAssumption, Typed, Control, [Next]_vars
  PROVE  Control'
<1>0. CASE UNCHANGED vars
  <2>1. /\ section' = section /\ sq' = sq /\ pc' = pc /\ on' = on /\ todo' = todo
        /\ staging' = staging /\ arg' = arg /\ frames' = frames
    BY <1>0 DEF vars, rings, calls
  <2>2. \A c \in Context : Len(sq'[c]) <= Entries
    BY <2>1 DEF Control
  <2>3. ASSUME NEW a \in Client PROVE Sound(a)'
    <3>1. (Submits(a)' <=> Submits(a)) /\ (MayDrain(a)' <=> MayDrain(a)) /\ Sound(a)
      BY <2>1 DEF Control, Submits, MayDrain
    <3> QED
      BY <2>1, <3>1 DEF Sound
  <2> QED
    BY <2>2, <2>3 DEF Control
<1> SUFFICES ASSUME Next PROVE Control'
  BY <1>0
<1>1. ASSUME NEW c \in Context PROVE Len(sq'[c]) <= Entries
  <2>1. Len(sq[c]) \in Nat /\ Len(sq[c]) <= Entries /\ Entries \in Nat
    BY DEF Control, Typed, RingsTyped, UringAssumption
  <2>2. CASE Shrinks(c)
    BY <2>1, <2>2 DEF Shrinks
  <2>3. ASSUME NEW a \in Client, Submits(a), on[a] = c, GrowsBy(c, Len(staging[a]))
        PROVE  Len(sq'[c]) <= Entries
    <3>1. /\ Len(sq[c]) + Len(staging[a]) <= arg[a].n /\ arg[a].n <= Entries
          /\ arg[a].n \in Int /\ Len(staging[a]) \in Nat
      BY <2>3 DEF Control, Sound, Typed, CallsTyped, Numbers
    <3>2. ASSUME NEW x \in Nat, NEW y \in Nat, NEW n \in Int, x + y <= n, n <= Entries
          PROVE  x + y <= Entries
      BY <2>1, <3>2
    <3>3. Len(sq[c]) + Len(staging[a]) <= Entries
      BY <2>1, <3>1, <3>2
    <3> QED
      BY <2>3, <3>3 DEF GrowsBy
  <2>4. ASSUME NEW a \in Client, Cancel(a, c), GrowsBy(c, 1) PROVE Len(sq'[c]) <= Entries
    BY <2>1, <2>4 DEF Cancel, Room, GrowsBy
  <2> QED
    BY <2>2, <2>3, <2>4, RingSteps
<1>2. ASSUME NEW a \in Client, UNCHANGED <<CallOf(a), section>> PROVE Sound(a)'
  BY <1>2, OthersSound
<1> DEFINE Within(a) ==
      /\ MaxDepth \in Nat /\ Len(frames[a]) \in Nat /\ MaxDepth \in Int
      /\ Len(frames[a]) <= MaxDepth + (IF MayDrain(a) THEN 0 ELSE 1)
<1>3. ASSUME NEW a \in Client PROVE Within(a)
  BY DEF Control, Sound, Typed, CallsTyped, UringAssumption
<1>4. ASSUME NEW a \in Client, Call(a) PROVE Sound(a)'
  <2>0. ASSUME pc[a] = "idle" PROVE ~Submits(a) /\ staging[a] = <<>> /\ ~MayDrain(a)
    BY <2>0 DEF Control, Sound, Submits, MayDrain
  <2>1. ASSUME NEW c \in Context, NEW ops, SubmitBegin(a, c, ops) PROVE Sound(a)'
    <3>1. /\ pc'[a] = "submit" /\ on'[a] = c /\ arg'[a] = [NoArg EXCEPT !.n = Len(sq[c])]
          /\ section' = [section EXCEPT ![c] = a]
          /\ UNCHANGED <<sq, staging, frames>> /\ pc[a] = "idle"
      BY <2>1 DEF Typed, CallsTyped, SubmitBegin, Set, Enters, MayCall, rings
    <3>2. arg'[a].n = Len(sq[c]) /\ Len(sq[c]) \in Nat /\ Len(sq[c]) <= Entries
      BY <3>1 DEF NoArg, Typed, RingsTyped, Control
    <3>3. Len(sq'[c]) + Len(staging'[a]) <= arg'[a].n /\ arg'[a].n <= Entries
      <4>1. sq'[c] = sq[c] /\ Len(staging'[a]) = 0
        BY <2>0, <3>1
      <4> QED
        BY <3>2, <4>1
    <3>4. \A d \in Context : section'[d] = a <=> d = c
      <4>1. \A d \in Context : section[d] # a
        BY <2>0, <3>1 DEF Control, Sound
      <4> QED
        BY <3>1, <4>1 DEF Typed, ObjectsTyped
    <3>5. Len(frames'[a]) <= MaxDepth + 1
      BY <2>0, <3>1, <1>3
    <3> QED
      BY <3>1, <3>3, <3>4, <3>5 DEF Sound, Submits, MayDrain
  <2>2. ASSUME NEW c \in Context, Len(frames[a]) <= MaxDepth,
               FlushBegin(a, c) \/ FlushWakes(a, c)
        PROVE  Sound(a)'
    <3>1. /\ pc'[a] \in {"flush-head", "drain"} /\ on'[a] = c /\ pc[a] = "idle"
          /\ UNCHANGED <<section, staging, frames>>
      BY <2>2 DEF Typed, CallsTyped, FlushBegin, FlushWakes, Set, Enters, MayCall
    <3>2. ~Submits(a) /\ ~Submits(a)' /\ MayDrain(a)'
      BY <3>1 DEF Submits, MayDrain
    <3>3. Len(frames'[a]) <= MaxDepth + 0
      BY <2>2, <3>1, <1>3
    <3> QED
      BY <3>1, <3>2, <3>3, FreeSound
  <2>3. ASSUME NEW c \in Context, NEW min, NEW max, NEW timed,
               Len(frames[a]) <= MaxDepth, ProcessEvents(a, c, min, max, timed)
        PROVE  Sound(a)'
    <3>1. /\ pc'[a] \in {"check", "drain"} /\ on'[a] = c /\ pc[a] = "idle"
          /\ UNCHANGED <<section, staging, frames>>
      BY <2>3 DEF Typed, CallsTyped, ProcessEvents, Set, Enters, MayCall
    <3>2. ~Submits(a) /\ ~Submits(a)' /\ MayDrain(a)'
      BY <3>1 DEF Submits, MayDrain
    <3>3. Len(frames'[a]) <= MaxDepth + 0
      BY <2>3, <3>1, <1>3
    <3> QED
      BY <3>1, <3>2, <3>3, FreeSound
  <2>4. ASSUME NEW c \in Context, Cancel(a, c) PROVE Sound(a)'
    <3>1. /\ pc'[a] = "cancel" /\ on'[a] = c /\ pc[a] = "idle"
          /\ UNCHANGED <<section, staging, frames>>
      BY <2>4 DEF Typed, CallsTyped, Cancel, Set, Enters, MayCall
    <3>2. ~Submits(a) /\ ~Submits(a)' /\ ~MayDrain(a)' /\ ~MayDrain(a)
      BY <3>1 DEF Submits, MayDrain
    <3>3. Len(frames'[a]) <= MaxDepth + 1
      BY <3>1, <3>2, <1>3
    <3> QED
      BY <3>1, <3>2, <3>3, FreeSound
  <2>5. ASSUME NEW c \in Context, PollCounter(a, c) \/ Drop(a, c) PROVE Sound(a)'
    <3>1. UNCHANGED <<calls, section>>
      BY <2>5 DEF PollCounter, Drop
    <3> QED
      BY <1>2, <3>1 DEF calls, CallOf
  <2>6. ASSUME NEW o \in Op, ReadBegin(a, o) PROVE Sound(a)'
    <3>1. /\ pc'[a] = "read" /\ pc[a] = "idle" /\ UNCHANGED <<section, staging, frames>>
      BY <2>6 DEF Typed, CallsTyped, ReadBegin, Set, Enters, MayCall
    <3>2. ~Submits(a) /\ ~Submits(a)' /\ ~MayDrain(a)' /\ ~MayDrain(a)
      BY <3>1 DEF Submits, MayDrain
    <3>3. Len(frames'[a]) <= MaxDepth + 1
      BY <3>1, <3>2, <1>3
    <3> QED
      BY <3>1, <3>2, <3>3, FreeSound
  <2> QED
    BY <1>4, <2>1, <2>2, <2>3, <2>4, <2>5, <2>6 DEF Call
<1>5. ASSUME NEW a \in Client, Proceed(a) PROVE Sound(a)'
  <2>0. Sound(a)
    BY DEF Control
  <2>1. ASSUME NEW o \in Op, Skip(a, o) \/ Full(a, o) PROVE Sound(a)'
    <3>1. /\ pc[a] = "submit" /\ pc'[a] \in {"submit", "full"} /\ on'[a] = on[a]
          /\ pc'[a] = "full" => todo'[a] = todo[a] /\ todo[a] # <<>>
          /\ UNCHANGED <<section, sq, staging, arg, frames>>
      BY <2>1 DEF Typed, CallsTyped, Skip, Full, Set, NextInBatch, rings
    <3>2. Submits(a) /\ Submits(a)' /\ ~MayDrain(a) /\ ~MayDrain(a)'
      BY <3>1 DEF Submits, MayDrain
    <3> QED
      BY <2>0, <3>1, <3>2 DEF Sound
  <2>2. ASSUME NEW o \in Op, Stage(a, o) PROVE Sound(a)'
    <3>1. /\ pc[a] = "submit" /\ arg[a].n < Entries
          /\ staging' = [staging EXCEPT ![a] = Append(staging[a], o)]
          /\ arg' = [arg EXCEPT ![a] = [arg[a] EXCEPT !.n = arg[a].n + 1]]
          /\ UNCHANGED <<section, sq, pc, on, frames>>
      BY <2>2 DEF Stage, Set, NextInBatch, rings, Room
    <3>2. Submits(a) /\ Submits(a)' /\ ~MayDrain(a) /\ ~MayDrain(a)' /\ pc'[a] = "submit"
      BY <3>1 DEF Submits, MayDrain
    <3>3. /\ Len(sq[on[a]]) + Len(staging[a]) <= arg[a].n /\ on[a] \in Context
      BY <2>0, <3>1, <3>2 DEF Sound
    <3>4. /\ arg'[a].n = arg[a].n + 1 /\ arg[a].n \in Int
          /\ Len(staging'[a]) = Len(staging[a]) + 1 /\ Len(staging[a]) \in Nat
          /\ Len(sq[on[a]]) \in Nat /\ Entries \in Nat
      <4>1. arg[a] \in Numbers /\ staging[a] \in Seq(Op) /\ sq[on[a]] \in Seq(Entry)
        BY <3>3 DEF Typed, RingsTyped, CallsTyped
      <4>2. /\ arg'[a] = [arg[a] EXCEPT !.n = arg[a].n + 1]
            /\ staging'[a] = Append(staging[a], o)
        BY <3>1 DEF Typed, CallsTyped
      <4>3. arg'[a].n = arg[a].n + 1 /\ arg[a].n \in Int
        BY <4>1, <4>2 DEF Numbers
      <4>4. Len(staging'[a]) = Len(staging[a]) + 1
        BY <4>1, <4>2
      <4> QED
        BY <4>1, <4>3, <4>4 DEF UringAssumption
    <3>5. /\ Len(sq'[on'[a]]) + Len(staging'[a]) <= arg'[a].n /\ arg'[a].n <= Entries
      <4>1. ASSUME NEW x \in Nat, NEW y \in Nat, NEW n \in Int, x + y <= n, n < Entries
            PROVE  x + (y + 1) <= n + 1 /\ n + 1 <= Entries
        BY <3>4, <4>1
      <4>2. /\ Len(sq[on[a]]) + (Len(staging[a]) + 1) <= arg[a].n + 1
            /\ arg[a].n + 1 <= Entries
        BY <3>1, <3>3, <3>4, <4>1
      <4>3. sq'[on'[a]] = sq[on[a]]
        BY <3>1
      <4> QED
        BY <3>4, <4>2, <4>3
    <3> QED
      BY <2>0, <3>1, <3>2, <3>5 DEF Sound
  <2>3. ASSUME SubmitRaises(a) \/ SubmitEnd(a) PROVE Sound(a)'
    <3>1. /\ Commit(a) /\ Submits(a) /\ ~MayDrain(a)
      BY <2>3 DEF SubmitRaises, SubmitEnd, Submits, MayDrain
    <3>2. /\ section' = [section EXCEPT ![on[a]] = NoOne] /\ pc'[a] = "idle"
          /\ staging'[a] = <<>> /\ UNCHANGED frames
      BY <3>1 DEF Commit, Set, Leaves, Enters, Typed, CallsTyped
    <3>3. \A d \in Context : section'[d] # a
      BY <2>0, <3>1, <3>2 DEF Sound, Typed, ObjectsTyped, UringAssumption
    <3>4. ~Submits(a)' /\ ~MayDrain(a)'
      BY <3>2 DEF Submits, MayDrain
    <3> QED
      BY <2>0, <3>1, <3>2, <3>3, <3>4 DEF Sound
  <2>4. ASSUME FlushReadsHead(a) \/ FlushEnters(a) \/ FlushFails(a) \/ WaitChecks(a)
               \/ WaitFails(a) \/ WaitWakes(a) \/ WaitReads(a)
        PROVE  Sound(a)'
    <3>1. /\ pc[a] \in {"flush-head", "flush", "check", "sleep", "woken"}
          /\ pc'[a] \in {"idle", "flush", "check", "sleep", "woken", "drain"}
          /\ pc'[a] # "idle" => on'[a] = on[a]
          /\ UNCHANGED <<section, staging, frames>>
      <4>1. CASE FlushReadsHead(a) \/ FlushFails(a) \/ WaitFails(a)
        BY <4>1 DEF Typed, CallsTyped, FlushReadsHead, FlushFails, WaitFails, Set, Leaves,
                    Enters
      <4>2. CASE FlushEnters(a)
        BY <4>2 DEF Typed, CallsTyped, FlushEnters, Set
      <4>3. CASE WaitChecks(a) \/ WaitWakes(a) \/ WaitReads(a)
        BY <4>3 DEF Typed, CallsTyped, WaitChecks, WaitWakes, WaitReads, Set
      <4> QED
        BY <2>4, <4>1, <4>2, <4>3
    <3>2. ~Submits(a) /\ ~Submits(a)' /\ MayDrain(a)
      BY <3>1 DEF Submits, MayDrain
    <3>3. pc'[a] \notin {"idle", "read"} => on'[a] \in Context
      BY <2>0, <3>1 DEF Sound
    <3>4. Len(frames'[a]) <= MaxDepth + (IF MayDrain(a)' THEN 0 ELSE 1)
      BY <3>1, <3>2, <1>3
    <3> QED
      BY <3>1, <3>2, <3>3, <3>4, FreeSound
  <2>5. ASSUME CancelEnters(a) \/ ReadEnd(a) PROVE Sound(a)'
    <3>1. /\ pc[a] \in {"cancel", "read"} /\ pc'[a] = "idle"
          /\ UNCHANGED <<section, staging, frames>>
      BY <2>5 DEF Typed, CallsTyped, CancelEnters, ReadEnd, Set, Leaves, Enters
    <3>2. ~Submits(a) /\ ~Submits(a)' /\ ~MayDrain(a) /\ ~MayDrain(a)'
      BY <3>1 DEF Submits, MayDrain
    <3> QED
      BY <1>3, <3>1, <3>2, FreeSound
  <2>6. ASSUME Drain(a) PROVE Sound(a)'
    <3>1. pc[a] = "drain" /\ pc'[a] = "idle" /\ UNCHANGED <<section, staging>>
      BY <2>6 DEF Typed, CallsTyped, Drain, Set, Leaves, Enters
    <3>2. ~Submits(a) /\ ~Submits(a)' /\ MayDrain(a) /\ ~MayDrain(a)'
      BY <3>1 DEF Submits, MayDrain
    <3>3. \/ frames' = frames
          \/ \E f : frames' = [frames EXCEPT ![a] = Append(frames[a], f)]
      BY <2>6 DEF Drain, Set
    <3>4. Len(frames'[a]) <= Len(frames[a]) + 1
      BY <3>3, <1>3 DEF Typed, CallsTyped
    <3>5. Len(frames'[a]) \in Nat
      BY NextTyped DEF Typed, CallsTyped
    <3>6. Len(frames'[a]) <= MaxDepth + (IF MayDrain(a)' THEN 0 ELSE 1)
      BY <3>2, <3>4, <3>5, <1>3
    <3> QED
      BY <3>1, <3>2, <3>6, FreeSound
  <2> QED
    BY <1>5, <2>1, <2>2, <2>3, <2>4, <2>5, <2>6 DEF Proceed
<1>6. ASSUME NEW a \in Client, Returns(a) PROVE Sound(a)'
  <2> DEFINE depth == Len(frames[a])
  <2>1. /\ pc[a] = "idle" /\ UNCHANGED <<section, pc, on, staging>>
        /\ frames[a] \in Seq(Frame) /\ depth \in Nat \ {0}
        /\ \/ frames' = [frames EXCEPT ![a] = SubSeq(frames[a], 1, depth - 1)]
           \/ \E f : frames' = [frames EXCEPT ![a] = [frames[a] EXCEPT ![depth] = f]]
    BY <1>6, TopTyped DEF Returns, CallbackReturns, Set
  <2> HIDE DEF depth
  <2>2. Len(SubSeq(frames[a], 1, depth - 1)) = depth - 1
    BY <2>1, SubSeqProperties DEF depth
  <2>3. \A f : Len([frames[a] EXCEPT ![depth] = f]) = Len(frames[a])
    BY <2>1 DEF depth
  <2>4. Len(frames'[a]) \in {depth - 1, depth}
    BY <2>1, <2>2, <2>3 DEF Typed, CallsTyped, depth
  <2>5. ~Submits(a) /\ ~Submits(a)' /\ ~MayDrain(a) /\ ~MayDrain(a)'
    BY <2>1 DEF Submits, MayDrain
  <2>6. Len(frames'[a]) <= MaxDepth + 1
    BY <2>1, <2>4, <2>5, <1>3 DEF depth
  <2> QED
    BY <2>1, <2>5, <2>6, FreeSound
<1>7. ASSUME NEW a \in Client, Acts(a), NEW b \in Client, b # a PROVE Sound(b)'
  BY <1>7, OthersCalls, OthersSection, OthersSound
<1>8. ASSUME NEW c \in Context, Kernel(c), NEW b \in Client PROVE Sound(b)'
  <2>1. UNCHANGED <<calls, section>>
    BY <1>8, KernelCalls
  <2> QED
    BY <1>2, <2>1 DEF calls, CallOf
<1>9. ASSUME NEW a \in Client, Acts(a), NEW b \in Client PROVE Sound(b)'
  BY <1>4, <1>5, <1>6, <1>7, <1>9 DEF Acts
<1> QED
  BY <1>1, <1>8, <1>9 DEF Next, Control, Acts

-----------------------------------------------------------------------------
(* The numbers of the submission ring: what is in a store buffer are       *)
(* entries of the ring, and flush() counts what the kernel consumes.       *)
LEMMA InitFilled == UringAssumption /\ Init => Filled
<1> SUFFICES ASSUME UringAssumption, Init PROVE Filled
  OBVIOUS
<1>1. /\ \A a \in Client : pc[a] = "idle"
      /\ \A c \in Context : sq[c] = <<>> /\ hidden[c] = 0 /\ flushed[c] = 0 /\ sqHead[c] = 0
  BY DEF Init, InitContext
<1>2. \A c \in Context : Len(sq[c]) = 0
  BY <1>1
<1> QED
  BY <1>1, <1>2 DEF Filled, Fits, Flushes

LEMMA HeadMoves ==
  ASSUME UringAssumption, Typed, Control, Next, NEW c \in Context
  PROVE  sqHead'[c] \in Nat /\ sqHead[c] \in Nat /\ sqHead'[c] >= sqHead[c]
<1>1. sqHead'[c] \in Nat /\ sqHead[c] \in Nat /\ Len(sq[c]) \in Nat
  BY NextTyped DEF Typed, RingsTyped
<1>2. CASE Shrinks(c)
  BY <1>1, <1>2 DEF Shrinks
<1>3. CASE sqHead'[c] = sqHead[c]
  BY <1>1, <1>3
<1> QED
  BY <1>1, <1>2, <1>3, RingSteps DEF GrowsBy

LEMMA TailMoves ==
  ASSUME UringAssumption, Typed, Control, Next, NEW c \in Context
  PROVE  /\ Len(sq[c]) \in Nat /\ Len(sq'[c]) \in Nat
         /\ sqHead'[c] + Len(sq'[c]) >= sqHead[c] + Len(sq[c])
<1>1. /\ sqHead'[c] \in Nat /\ sqHead[c] \in Nat
      /\ Len(sq[c]) \in Nat /\ Len(sq'[c]) \in Nat
  BY NextTyped DEF Typed, RingsTyped
<1>2. CASE Shrinks(c)
  BY <1>1, <1>2 DEF Shrinks
<1>3. ASSUME NEW n \in Nat, GrowsBy(c, n)
      PROVE  sqHead'[c] + Len(sq'[c]) >= sqHead[c] + Len(sq[c])
  BY <1>1, <1>3 DEF GrowsBy
<1>4. \A a \in Client : Len(staging[a]) \in Nat
  BY DEF Typed, CallsTyped
<1> QED
  BY <1>1, <1>2, <1>3, <1>4, RingSteps

LEMMA NextFlushes ==
  ASSUME UringAssumption, Typed, Control, Filled, Next, NEW b \in Client
  PROVE  Flushes(b)'
<1>0. UNCHANGED sqpoll
  BY DEF Next, Call, Proceed, Returns, Kernel
<1>1. ASSUME UNCHANGED CallOf(b) PROVE Flushes(b)'
  <2>1. pc'[b] = pc[b] /\ on'[b] = on[b] /\ arg'[b] = arg[b] /\ Flushes(b)
    BY <1>1 DEF CallOf, Filled
  <2>2. pc[b] = "flush" => arg[b].goal <= sqHead'[on[b]] + arg[b].n
    <3> SUFFICES ASSUME pc[b] = "flush" PROVE arg[b].goal <= sqHead'[on[b]] + arg[b].n
      OBVIOUS
    <3>1. on[b] \in Context
      BY DEF Control, Sound
    <3>2. arg[b].goal \in Nat /\ arg[b].n \in Int
      BY DEF Typed, CallsTyped, Numbers
    <3>3. sqHead'[on[b]] \in Nat /\ sqHead[on[b]] \in Nat /\ sqHead'[on[b]] >= sqHead[on[b]]
      BY <3>1, HeadMoves
    <3>4. ASSUME NEW g \in Nat, NEW n \in Int, NEW s \in Nat, NEW t \in Nat,
                 t >= s, g <= s + n
          PROVE  g <= t + n
      BY <3>4
    <3> QED
      BY <2>1, <3>2, <3>3, <3>4 DEF Flushes
  <2> QED
    BY <1>0, <2>1, <2>2 DEF Flushes
<1>2. ASSUME pc'[b] \notin {"flush-head", "flush"} PROVE Flushes(b)'
  BY <1>2 DEF Flushes
<1>3. CASE Call(b)
  <2>1. ASSUME NEW c \in Context, FlushBegin(b, c) PROVE Flushes(b)'
    <3>1. pc'[b] = "flush-head" /\ on'[b] = c /\ ~sqpoll[c]
      BY <2>1 DEF Typed, CallsTyped, FlushBegin, Set, Enters
    <3> QED
      BY <1>0, <3>1 DEF Flushes
  <2>2. ASSUME NEW c \in Context, NEW ops, SubmitBegin(b, c, ops)
        PROVE  pc'[b] \notin {"flush-head", "flush"}
    BY <2>2 DEF Typed, CallsTyped, SubmitBegin, Set, Enters
  <2>3. ASSUME NEW c \in Context, FlushWakes(b, c) \/ Cancel(b, c)
        PROVE  pc'[b] \notin {"flush-head", "flush"}
    BY <2>3 DEF Typed, CallsTyped, FlushWakes, Cancel, Set, Enters
  <2>4. ASSUME NEW c \in Context, NEW min, NEW max, NEW timed,
               ProcessEvents(b, c, min, max, timed)
        PROVE  pc'[b] \notin {"flush-head", "flush"}
    BY <2>4 DEF Typed, CallsTyped, ProcessEvents, Set, Enters
  <2>5. ASSUME NEW c \in Context, PollCounter(b, c) \/ Drop(b, c) PROVE UNCHANGED calls
    BY <2>5 DEF PollCounter, Drop
  <2>6. ASSUME NEW o \in Op, ReadBegin(b, o) PROVE pc'[b] \notin {"flush-head", "flush"}
    BY <2>6 DEF Typed, CallsTyped, ReadBegin, Set, Enters
  <2>7. UNCHANGED calls => UNCHANGED CallOf(b)
    BY DEF calls, CallOf
  <2> QED
    BY <1>1, <1>2, <1>3, <2>1, <2>2, <2>3, <2>4, <2>5, <2>6, <2>7 DEF Call
<1>4. CASE Proceed(b)
  <2>1. CASE FlushReadsHead(b)
    <3>1. CASE pc'[b] = "idle"
      BY <1>2, <3>1
    <3>2. CASE pc'[b] # "idle"
      <4>1. /\ arg'[b] = [arg[b] EXCEPT !.n = arg[b].goal - sqHead[on[b]]]
            /\ pc'[b] = "flush" /\ on'[b] = on[b] /\ pc[b] = "flush-head"
            /\ UNCHANGED sqHead
        BY <2>1, <3>2 DEF Typed, CallsTyped, FlushReadsHead, Set, Leaves, Enters, rings
      <4>2. on[b] \in Context /\ ~sqpoll[on[b]]
        BY <4>1 DEF Control, Sound, Filled, Flushes
      <4>3. arg[b] \in Numbers /\ sqHead[on[b]] \in Nat
        BY <4>2 DEF Typed, RingsTyped, CallsTyped
      <4>4. arg'[b].n = arg[b].goal - sqHead[on[b]] /\ arg'[b].goal = arg[b].goal
            /\ arg[b].goal \in Nat
        BY <4>1, <4>3 DEF Numbers
      <4>5. arg'[b].goal <= sqHead'[on'[b]] + arg'[b].n
        BY <4>1, <4>3, <4>4
      <4> QED
        BY <1>0, <4>1, <4>2, <4>5 DEF Flushes
    <3> QED
      BY <3>1, <3>2
  <2>2. CASE FlushEnters(b)
    <3>1. PICK c : c = on[b]
      OBVIOUS
    <3>2. PICK k \in 0 .. Len(sq[c]) :
            /\ c \in Context /\ Consumes(c, k)
            /\ arg' = [arg EXCEPT ![b] = [arg[b] EXCEPT !.n = arg[b].n - k]]
      BY <2>2, <3>1, EnterConsumes
    <3>3. sqHead'[c] = sqHead[c] + k /\ sqHead[c] \in Nat
      BY <3>2, ConsumesTyped DEF Typed, RingsTyped
    <3>4. /\ arg'[b].n = arg[b].n - k /\ arg'[b].goal = arg[b].goal
          /\ arg[b].goal \in Nat /\ arg[b].n \in Int
      BY <3>2 DEF Typed, CallsTyped, Numbers
    <3>5. pc[b] = "flush" /\ on'[b] = on[b]
      BY <2>2 DEF FlushEnters
    <3>6. ~sqpoll[c] /\ arg[b].goal <= sqHead[c] + arg[b].n
      BY <3>1, <3>5 DEF Filled, Flushes
    <3>7. arg'[b].goal <= sqHead'[c] + arg'[b].n
      BY <3>3, <3>4, <3>6
    <3> QED
      BY <1>0, <3>1, <3>5, <3>6, <3>7 DEF Flushes
  <2>3. ASSUME NEW o \in Op, Skip(b, o) \/ Stage(b, o) \/ Full(b, o)
        PROVE  pc'[b] \notin {"flush-head", "flush"}
    BY <2>3 DEF Typed, CallsTyped, Skip, Stage, Full, Set, NextInBatch
  <2>4. CASE SubmitRaises(b) \/ SubmitEnd(b) \/ FlushFails(b) \/ CancelEnters(b)
             \/ WaitFails(b) \/ Drain(b) \/ ReadEnd(b)
    <3>1. Leaves(b)
      BY <2>4 DEF SubmitRaises, SubmitEnd, Commit, FlushFails, CancelEnters, WaitFails, Drain,
                  ReadEnd
    <3> QED
      BY <1>2, <3>1 DEF Leaves, Enters, Set, Typed, CallsTyped
  <2>5. CASE WaitChecks(b) \/ WaitWakes(b) \/ WaitReads(b)
    <3>1. pc'[b] \notin {"flush-head", "flush"}
      BY <2>5 DEF Typed, CallsTyped, WaitChecks, WaitWakes, WaitReads, Set
    <3> QED
      BY <1>2, <3>1
  <2> QED
    BY <1>2, <1>4, <2>1, <2>2, <2>3, <2>4, <2>5 DEF Proceed
<1>5. CASE Returns(b)
  BY <1>2, <1>5 DEF Returns, CallbackReturns
<1>6. ASSUME NEW a \in Client, Acts(a), a # b PROVE Flushes(b)'
  BY <1>1, <1>6, OthersCalls
<1>7. ASSUME NEW c \in Context, Kernel(c) PROVE Flushes(b)'
  BY <1>1, <1>7, KernelCalls DEF calls, CallOf
<1> QED
  BY <1>3, <1>4, <1>5, <1>6, <1>7 DEF Next, Acts

LEMMA NextFits ==
  ASSUME UringAssumption, Typed, Control, Filled, Next, NEW c \in Context
  PROVE  Fits(c)'
<1>0. UNCHANGED sqpoll
  BY DEF Next, Call, Proceed, Returns, Kernel
<1>1. /\ Len(sq[c]) \in Nat /\ Len(sq'[c]) \in Nat /\ sqHead[c] \in Nat /\ sqHead'[c] \in Nat
      /\ hidden[c] \in Nat /\ hidden'[c] \in Nat /\ flushed[c] \in Nat
      /\ sqHead'[c] + Len(sq'[c]) >= sqHead[c] + Len(sq[c])
  BY NextTyped, TailMoves DEF Typed, RingsTyped
<1>2. /\ hidden[c] <= Len(sq[c]) /\ (~sqpoll[c] => hidden[c] = 0)
      /\ flushed[c] <= sqHead[c] + Len(sq[c])
  BY DEF Filled, Fits
<1>3. ASSUME hidden'[c] <= Len(sq'[c]), ~sqpoll[c] => hidden'[c] = 0,
             flushed'[c] = flushed[c]
      PROVE  Fits(c)'
  <2>1. flushed'[c] <= sqHead'[c] + Len(sq'[c])
    BY <1>1, <1>2, <1>3
  <2> QED
    BY <1>0, <1>3, <2>1 DEF Fits
<1>4. ASSUME sq'[c] = sq[c], hidden'[c] = hidden[c], flushed'[c] = flushed[c]
      PROVE  Fits(c)'
  BY <1>1, <1>2, <1>3, <1>4
<1>5. ASSUME hidden'[c] = 0, flushed'[c] = flushed[c] PROVE Fits(c)'
  BY <1>1, <1>3, <1>5
<1>6. ASSUME NEW a, NEW n \in Nat, StoresTail(a, c, n), GrowsBy(c, n), UNCHANGED flushed
      PROVE  Fits(c)'
  <2>1. \/ hidden'[c] = hidden[c]
        \/ sqpoll[c] /\ hidden'[c] \in {n, n + hidden[c]}
    BY <1>6 DEF StoresTail, Set, Typed, RingsTyped
  <2>2. Len(sq'[c]) = Len(sq[c]) + n
    BY <1>6 DEF GrowsBy
  <2>3. hidden'[c] <= Len(sq'[c]) /\ (~sqpoll[c] => hidden'[c] = 0)
    BY <1>1, <1>2, <2>1, <2>2
  <2> QED
    BY <1>3, <1>6, <2>3
<1>12. ASSUME NEW a, EmptiesBuffer(a) PROVE hidden'[c] \in {hidden[c], 0}
  BY <1>12 DEF EmptiesBuffer
<1>7. ASSUME UNCHANGED <<sq, hidden, flushed>> PROVE Fits(c)'
  BY <1>4, <1>7
<1>8. ASSUME NEW a \in Client, Call(a) PROVE Fits(c)'
  <2>1. ASSUME NEW d \in Context, FlushWakes(a, d) PROVE Fits(c)'
    <3>1. /\ hidden'[c] \in {hidden[c], 0}
          /\ flushed' = [flushed EXCEPT ![d] = sqHead[d] + Len(sq[d])]
          /\ UNCHANGED <<sq, sqHead>>
      BY <1>12, <2>1 DEF FlushWakes, Set
    <3>2. CASE c = d
      <4>1. /\ hidden'[c] = hidden[c] \/ hidden'[c] = 0
            /\ flushed'[c] = sqHead[c] + Len(sq[c])
        BY <3>1, <3>2 DEF Typed, RingsTyped
      <4>2. hidden'[c] <= Len(sq'[c]) /\ (~sqpoll[c] => hidden'[c] = 0)
            /\ flushed'[c] <= sqHead'[c] + Len(sq'[c])
        BY <1>1, <1>2, <3>1, <4>1
      <4> QED
        BY <1>0, <4>2 DEF Fits
    <3>3. CASE c # d
      <4>1. flushed'[c] = flushed[c] /\ sq'[c] = sq[c]
        BY <3>1, <3>3 DEF Typed, RingsTyped
      <4> QED
        BY <1>4, <1>5, <3>1, <4>1
    <3> QED
      BY <3>2, <3>3
  <2>2. ASSUME NEW d \in Context, Cancel(a, d) PROVE Fits(c)'
    <3>1. /\ StoresTail(a, d, 1) /\ sq' = [sq EXCEPT ![d] = Append(sq[d], Sentinel)]
          /\ UNCHANGED <<sqHead, flushed>>
      BY <2>2 DEF Cancel, Set
    <3>2. CASE c = d
      <4>1. sq[c] \in Seq(Entry) /\ sq'[c] = Append(sq[c], Sentinel)
        BY <3>1, <3>2 DEF Typed, RingsTyped
      <4>2. Len(sq'[c]) = Len(sq[c]) + 1
        BY <4>1, EntriesTyped
      <4> QED
        BY <1>6, <3>1, <3>2, <4>2 DEF GrowsBy
    <3>3. CASE c # d
      <4>1. hidden'[c] = hidden[c] /\ flushed'[c] = flushed[c] /\ sq'[c] = sq[c]
        BY <3>1, <3>3 DEF Typed, RingsTyped, StoresTail, Set
      <4> QED
        BY <1>4, <4>1
    <3> QED
      BY <3>2, <3>3
  <2>3. ASSUME NEW d \in Context, NEW ops, SubmitBegin(a, d, ops)
        PROVE  UNCHANGED <<sq, hidden, flushed>>
    BY <2>3 DEF SubmitBegin, rings
  <2>4. ASSUME NEW d \in Context, FlushBegin(a, d) \/ PollCounter(a, d) \/ Drop(a, d)
        PROVE  UNCHANGED <<sq, hidden, flushed>>
    BY <2>4 DEF FlushBegin, PollCounter, Drop, rings
  <2>5. ASSUME NEW d \in Context, NEW min, NEW max, NEW timed,
               ProcessEvents(a, d, min, max, timed)
        PROVE  UNCHANGED <<sq, hidden, flushed>>
    BY <2>5 DEF ProcessEvents, rings
  <2>6. ASSUME NEW o \in Op, ReadBegin(a, o) PROVE UNCHANGED <<sq, hidden, flushed>>
    BY <2>6 DEF ReadBegin, rings
  <2> QED
    BY <1>7, <1>8, <2>1, <2>2, <2>3, <2>4, <2>5, <2>6 DEF Call
<1>9. ASSUME NEW a \in Client, Proceed(a) PROVE Fits(c)'
  <2>1. CASE SubmitRaises(a) \/ SubmitEnd(a)
    <3>1. /\ StoresTail(a, on[a], Len(staging[a])) /\ Submits(a)
          /\ sq' = [sq EXCEPT ![on[a]] = sq[on[a]] \o staging[a]]
          /\ UNCHANGED <<sqHead, flushed>>
      BY <2>1 DEF SubmitRaises, SubmitEnd, Commit, CommitsStaged, Set, Submits
    <3>2. CASE on[a] = c
      <4>1. sq[c] \in Seq(Entry) /\ staging[a] \in Seq(Op) /\ sq'[c] = sq[c] \o staging[a]
        BY <3>1, <3>2 DEF Typed, RingsTyped, CallsTyped
      <4>2. Len(sq'[c]) = Len(sq[c]) + Len(staging[a]) /\ Len(staging[a]) \in Nat
        BY <4>1
      <4>3. PICK n \in Nat : n = Len(staging[a])
        BY <4>2
      <4>4. StoresTail(a, c, n)
        BY <3>1, <3>2, <4>3 DEF StoresTail, Set
      <4>5. GrowsBy(c, n)
        BY <3>1, <4>2, <4>3 DEF GrowsBy
      <4> QED
        BY <1>6, <3>1, <4>4, <4>5
    <3>3. CASE on[a] # c
      <4>1. hidden'[c] = hidden[c] /\ flushed'[c] = flushed[c] /\ sq'[c] = sq[c]
        BY <3>1, <3>3 DEF Typed, RingsTyped, StoresTail, Set
      <4> QED
        BY <1>4, <4>1
    <3> QED
      BY <3>2, <3>3
  <2>2. CASE FlushEnters(a)
    <3>1. PICK d : d = on[a]
      OBVIOUS
    <3>2. PICK k \in 0 .. Len(sq[d]) :
            /\ d \in Context /\ Consumes(d, k)
            /\ \/ UNCHANGED flushed
               \/ /\ arg[a].n - k = 0
                  /\ flushed' = [flushed EXCEPT ![d] = IF arg[a].goal > flushed[d]
                                                       THEN arg[a].goal ELSE flushed[d]]
      BY <2>2, <3>1, EnterConsumes
    <3>3. pc[a] = "flush" /\ UNCHANGED hidden
      BY <2>2 DEF FlushEnters
    <3>4. ~sqpoll[d] /\ arg[a].goal <= sqHead[d] + arg[a].n
      BY <3>1, <3>3 DEF Filled, Flushes
    <3>5. /\ sqHead'[d] = sqHead[d] + k /\ sqHead[d] \in Nat
          /\ \A e \in Context : e # d => sq'[e] = sq[e]
      BY <3>2, ConsumesTyped DEF Typed, RingsTyped
    <3>6. CASE c = d
      <4>1. hidden'[c] = 0
        BY <1>2, <3>3, <3>4, <3>6
      <4>2. CASE UNCHANGED flushed
        BY <1>5, <4>1, <4>2
      <4>3. CASE ~UNCHANGED flushed
        <5>1. /\ arg[a].n - k = 0 /\ arg[a].n \in Int /\ arg[a].goal \in Nat
              /\ flushed'[c] = IF arg[a].goal > flushed[c] THEN arg[a].goal ELSE flushed[c]
          BY <3>2, <3>6, <4>3 DEF Typed, RingsTyped, CallsTyped, Numbers
        <5>2. arg[a].goal <= sqHead'[c]
          BY <3>4, <3>5, <3>6, <5>1
        <5>3. flushed'[c] <= sqHead'[c] + Len(sq'[c])
          <6>1. flushed[c] <= sqHead'[c] + Len(sq'[c])
            BY <1>1, <1>2
          <6>2. arg[a].goal <= sqHead'[c] + Len(sq'[c])
            BY <1>1, <5>1, <5>2
          <6> QED
            BY <5>1, <6>1, <6>2
        <5> QED
          BY <1>0, <1>1, <4>1, <5>3 DEF Fits
      <4> QED
        BY <4>2, <4>3
    <3>7. CASE c # d
      <4>1. hidden'[c] = hidden[c] /\ flushed'[c] = flushed[c] /\ sq'[c] = sq[c]
        BY <3>2, <3>3, <3>5, <3>7 DEF Typed, RingsTyped
      <4> QED
        BY <1>4, <4>1
    <3> QED
      BY <3>6, <3>7
  <2>3. CASE CancelEnters(a)
    <3>1. PICK d : d = on[a]
      OBVIOUS
    <3>2. PICK k \in 0 .. Len(sq[d]) : /\ d \in Context /\ Consumes(d, k)
                                       /\ sqpoll[d] => k = 0
      BY <2>3, <3>1, CancelConsumes
    <3>3. UNCHANGED flushed /\ hidden'[c] \in {hidden[c], 0}
      BY <1>12, <2>3 DEF CancelEnters
    <3>4. hidden'[c] <= Len(sq'[c]) /\ (~sqpoll[c] => hidden'[c] = 0)
      <4>1. /\ Len(sq'[d]) = Len(sq[d]) - k
            /\ \A e \in Context : e # d => sq'[e] = sq[e]
        BY <3>2, ConsumesTyped
      <4>2. CASE sqpoll[c]
        <5>1. Len(sq'[c]) = Len(sq[c])
          BY <1>1, <3>2, <4>1, <4>2
        <5> QED
          BY <1>1, <1>2, <3>3, <4>2, <5>1
      <4>3. CASE ~sqpoll[c]
        BY <1>1, <1>2, <3>3, <4>3
      <4> QED
        BY <4>2, <4>3
    <3> QED
      BY <1>3, <3>3, <3>4
  <2>4. ASSUME NEW o \in Op, Skip(a, o) \/ Stage(a, o) \/ Full(a, o)
        PROVE  UNCHANGED <<sq, hidden, flushed>>
    BY <2>4 DEF Skip, Stage, Full, rings
  <2>5. FlushReadsHead(a) \/ FlushFails(a) \/ Drain(a) \/ ReadEnd(a)
          => UNCHANGED <<sq, hidden, flushed>>
    BY DEF FlushReadsHead, FlushFails, Drain, ReadEnd, rings
  <2>6. WaitChecks(a) \/ WaitFails(a) \/ WaitWakes(a) \/ WaitReads(a)
          => UNCHANGED <<sq, hidden, flushed>>
    BY DEF WaitChecks, WaitFails, WaitWakes, WaitReads, rings
  <2> QED
    BY <1>7, <1>9, <2>1, <2>2, <2>3, <2>4, <2>5, <2>6 DEF Proceed
<1>10. ASSUME NEW a \in Client, Returns(a) PROVE Fits(c)'
  BY <1>7, <1>10 DEF Returns, CallbackReturns, rings
<1>11. ASSUME NEW d \in Context, Kernel(d) PROVE Fits(c)'
  <2>1. CASE PollerTakes(d)
    <3>1. /\ Len(sq[d]) \in Nat /\ hidden[d] \in Nat /\ Len(sq[d]) - hidden[d] > 0
          /\ UNCHANGED <<hidden, flushed>>
      BY <2>1 DEF Typed, RingsTyped, PollerTakes, Visible
    <3>2. 1 \in 0 .. Len(sq[d]) /\ Consumes(d, 1)
      BY <2>1, <3>1 DEF PollerTakes
    <3>3. /\ Len(sq'[d]) = Len(sq[d]) - 1
          /\ \A e \in Context : e # d => sq'[e] = sq[e]
      BY <3>2, ConsumesTyped
    <3>4. CASE c = d
      <4>1. hidden'[c] <= Len(sq'[c]) /\ (~sqpoll[c] => hidden'[c] = 0)
        BY <1>2, <3>1, <3>3, <3>4
      <4> QED
        BY <1>3, <3>1, <4>1
    <3>5. CASE c # d
      BY <1>4, <3>1, <3>3, <3>5
    <3> QED
      BY <3>4, <3>5
  <2>2. CASE StoreVisible(d)
    <3>1. /\ hidden' = [hidden EXCEPT ![d] = 0] /\ UNCHANGED <<sq, flushed>>
      BY <2>2 DEF StoreVisible, Set
    <3>2. CASE c = d
      BY <1>5, <3>1, <3>2 DEF Typed, RingsTyped
    <3>3. CASE c # d
      <4>1. hidden'[c] = hidden[c]
        BY <3>1, <3>3 DEF Typed, RingsTyped
      <4> QED
        BY <1>4, <3>1, <4>1
    <3> QED
      BY <3>2, <3>3
  <2>3. PollerRests(d) \/ (\E o \in Op : Complete(d, o)) => UNCHANGED <<sq, hidden, flushed>>
    BY DEF PollerRests, Complete
  <2> QED
    BY <1>7, <1>11, <2>1, <2>2, <2>3 DEF Kernel
<1> QED
  BY <1>8, <1>9, <1>10, <1>11 DEF Next

LEMMA NextFilled ==
  ASSUME UringAssumption, Typed, Control, Filled, [Next]_vars
  PROVE  Filled'
<1>1. CASE UNCHANGED vars
  <2>1. /\ sqpoll' = sqpoll /\ sq' = sq /\ sqHead' = sqHead /\ hidden' = hidden
        /\ flushed' = flushed /\ pc' = pc /\ on' = on /\ arg' = arg
    BY <1>1 DEF vars, rings, calls
  <2> QED
    BY <2>1 DEF Filled, Fits, Flushes
<1>2. CASE Next
  BY <1>2, NextFlushes, NextFits DEF Filled
<1> QED
  BY <1>1, <1>2

-----------------------------------------------------------------------------
(* What the rings and the frames hold after a step.                        *)
LEMMA ConsumesElements ==
  ASSUME UringAssumption, Typed, NoRepeats, NEW c \in Context,
         NEW k \in 0 .. Len(sq[c]), Consumes(c, k)
  PROVE  LET taken == SubSeq(sq[c], 1, k) IN
         /\ OnceIn(sq'[c], Op) /\ OnceIn(cq'[c], Op)
         /\ \A d \in Context : d # c => /\ sq'[d] = sq[d] /\ kernel'[d] = kernel[d]
                                        /\ cq'[d] = cq[d]
         /\ \A o \in Op : /\ Has(sq[c], o) <=> Has(sq'[c], o) \/ Has(taken, o)
                          /\ ~(Has(sq'[c], o) /\ Has(taken, o))
                          /\ o \in kernel'[c] <=> o \in kernel[c] \/ Has(taken, o)
                          /\ Has(cq'[c], o) <=> Has(cq[c], o)
<1> DEFINE taken == SubSeq(sq[c], 1, k)
           rest == SubSeq(sq[c], k + 1, Len(sq[c]))
           sentinels == Only(taken, {Sentinel})
           works == kernel[c] \cup ({taken[i] : i \in 1 .. k} \ {Sentinel})
<1>1. sq[c] \in Seq(Entry) /\ cq[c] \in Seq(Entry) /\ OnceIn(sq[c], Op) /\ OnceIn(cq[c], Op)
  BY DEF Typed, RingsTyped, NoRepeats
<1>2. /\ taken \in Seq(Entry) /\ Len(taken) = k
      /\ \A x : Has(sq[c], x) <=> Has(taken, x) \/ Has(rest, x)
  BY <1>1, SplitElements
<1>3. /\ OnceIn(rest, Op) /\ \A o \in Op : ~(Has(taken, o) /\ Has(rest, o))
  BY <1>1, SplitOnceIn
<1>4. /\ sq' = [sq EXCEPT ![c] = rest]
      /\ kernel' = [kernel EXCEPT ![c] = works]
      /\ cq' = [cq EXCEPT ![c] = cq[c] \o sentinels]
  BY DEF Consumes, Set
<1>5. /\ sentinels \in Seq(Entry) /\ \A o \in Op : ~Has(sentinels, o)
  <2> HIDE DEF taken
  <2>1. /\ sentinels \in Seq(Entry \cap {Sentinel})
        /\ \A x : Has(sentinels, x) <=> Has(taken, x) /\ x \in {Sentinel}
    BY <1>2, OnlyElements
  <2> HIDE DEF sentinels
  <2>2. sentinels \in Seq(Entry)
    BY <2>1, SeqDef
  <2> QED
    BY <2>1, <2>2, EntriesTyped
<1>6. OnceIn(sentinels, Op)
  <2> HIDE DEF sentinels
  <2> QED
    BY <1>5 DEF OnceIn, Has
<1>7. \A o \in Op : o \in works <=> o \in kernel[c] \/ Has(taken, o)
  <2> HIDE DEF taken
  <2> QED
    BY <1>2, EntriesTyped DEF Has
<1> HIDE DEF rest, sentinels, works
<1>8. /\ sq'[c] = rest /\ kernel'[c] = works /\ cq'[c] = cq[c] \o sentinels
      /\ \A d \in Context : d # c => /\ sq'[d] = sq[d] /\ kernel'[d] = kernel[d]
                                     /\ cq'[d] = cq[d]
  BY <1>4 DEF Typed, RingsTyped
<1>9. /\ \A x : Has(cq[c] \o sentinels, x) <=> Has(cq[c], x) \/ Has(sentinels, x)
      /\ OnceIn(cq[c] \o sentinels, Op)
  BY <1>1, <1>5, <1>6, ConcatElements, ConcatOnceIn
<1> HIDE DEF taken
<1> QED
  BY <1>2, <1>3, <1>5, <1>7, <1>8, <1>9 DEF taken

LEMMA CommitElements ==
  ASSUME UringAssumption, Placing, NEW a \in Client, Submits(a), Commit(a)
  PROVE  /\ on[a] \in Context /\ OnceIn(sq'[on[a]], Op)
         /\ \A d \in Context : d # on[a] => sq'[d] = sq[d]
         /\ \A o \in Op : Has(sq'[on[a]], o) <=> Has(sq[on[a]], o) \/ Has(staging[a], o)
         /\ staging'[a] = <<>> /\ pc'[a] = "idle"
         /\ UNCHANGED <<kernel, cq, frames, opRefs, done, context, exposed, called>>
<1>1. on[a] \in Context
  BY DEF Placing, Control, Sound, Submits
<1>2. /\ sq[on[a]] \in Seq(Entry) /\ staging[a] \in Seq(Op) /\ staging[a] \in Seq(Entry)
      /\ OnceIn(sq[on[a]], Op) /\ Once(staging[a])
  BY <1>1, EntriesTyped DEF Placing, Typed, RingsTyped, CallsTyped, NoRepeats
<1>3. OnceIn(staging[a], Op)
  BY <1>2 DEF Once, OnceIn
<1>4. \A o \in Op : ~(Has(sq[on[a]], o) /\ Has(staging[a], o))
  <2> SUFFICES ASSUME NEW o \in Op, Has(sq[on[a]], o), Has(staging[a], o) PROVE FALSE
    OBVIOUS
  <2>1. At(o, on[a], "sq", on[a], 0) /\ At(o, on[a], "staged", a, 0)
    BY <1>1 DEF At, InContext, InSubmit
  <2>2. OnePlace(o)
    BY DEF Placing, AllGood, Good
  <2>3. "sq" = "staged"
    BY <2>1, <2>2 DEF OnePlace
  <2> QED
    BY <2>3
<1>5. /\ \A x : Has(sq[on[a]] \o staging[a], x) <=> Has(sq[on[a]], x) \/ Has(staging[a], x)
      /\ OnceIn(sq[on[a]] \o staging[a], Op)
  BY <1>2, <1>3, <1>4, ConcatElements, ConcatOnceIn
<1>6. /\ sq' = [sq EXCEPT ![on[a]] = sq[on[a]] \o staging[a]]
      /\ staging' = [staging EXCEPT ![a] = <<>>] /\ pc' = [pc EXCEPT ![a] = "idle"]
  BY DEF Commit, CommitsStaged, Set, Leaves, Enters
<1>7. /\ sq'[on[a]] = sq[on[a]] \o staging[a]
      /\ \A d \in Context : d # on[a] => sq'[d] = sq[d]
      /\ staging'[a] = <<>> /\ pc'[a] = "idle"
  BY <1>1, <1>6 DEF Placing, Typed, RingsTyped, CallsTyped
<1>8. UNCHANGED <<kernel, cq, frames, opRefs, done, context, exposed, called>>
  BY DEF Commit
<1> QED
  BY <1>1, <1>5, <1>7, <1>8

LEMMA DrainElements ==
  ASSUME UringAssumption, Placing, NEW a \in Client, Drain(a)
  PROVE  /\ on[a] \in Context /\ Drained(a) \in Seq(Op) /\ Once(Drained(a))
         /\ OnceIn(cq'[on[a]], Op)
         /\ \A d \in Context : d # on[a] => cq'[d] = cq[d]
         /\ \A o \in Op : /\ Has(cq[on[a]], o) <=> Has(cq'[on[a]], o) \/ Has(Drained(a), o)
                          /\ ~(Has(cq'[on[a]], o) /\ Has(Drained(a), o))
         /\ IF Drained(a) = <<>> THEN UNCHANGED frames
            ELSE frames' = [frames EXCEPT ![a] =
                              Append(frames[a], [ctx |-> on[a], ops |-> Drained(a)])]
         /\ done' = [o \in Op |-> done[o] \/ Has(Drained(a), o)]
         /\ context' = [o \in Op |-> IF Has(Drained(a), o) THEN NoContext ELSE context[o]]
         /\ ctxRefs' = [ctxRefs EXCEPT ![on[a]] = ctxRefs[on[a]] - Len(Drained(a))]
         /\ pc[a] = "drain" /\ pc'[a] = "idle"
         /\ UNCHANGED <<sq, sqHead, hidden, flushed, poller, kernel, handle, opRefs,
                        in_progress, exposed, called, todo, staging>>
<1> DEFINE n == Scanned(cq[on[a]], arg[a].max)
           front == SubSeq(cq[on[a]], 1, n)
           back == SubSeq(cq[on[a]], n + 1, Len(cq[on[a]]))
<1>1. /\ on[a] \in Context /\ cq[on[a]] \in Seq(Entry) /\ n \in 0 .. Len(cq[on[a]])
      /\ front \in Seq(Entry) /\ Drained(a) \in Seq(Op)
  BY DrainTyped DEF Placing, Drain
<1>2. OnceIn(cq[on[a]], Op)
  BY <1>1 DEF Placing, NoRepeats
<1>3. /\ \A x : Has(cq[on[a]], x) <=> Has(front, x) \/ Has(back, x)
      /\ OnceIn(front, Op) /\ OnceIn(back, Op)
      /\ \A o \in Op : ~(Has(front, o) /\ Has(back, o))
  <2> HIDE DEF n
  <2> QED
    BY <1>1, <1>2, SplitElements, SplitOnceIn
<1>4. Drained(a) = Only(front, Op)
  BY DEF Drained, Real
<1>5. /\ \A o \in Op : Has(Drained(a), o) <=> Has(front, o)
      /\ Once(Drained(a))
  <2> HIDE DEF front
  <2>1. /\ \A x : Has(Only(front, Op), x) <=> Has(front, x) /\ x \in Op
        /\ Once(Only(front, Op))
    BY <1>1, <1>3, OnlyElements
  <2> QED
    BY <1>4, <2>1
<1>6. /\ cq' = [cq EXCEPT ![on[a]] = back]
      /\ IF Drained(a) = <<>> THEN UNCHANGED frames
         ELSE frames' = [frames EXCEPT ![a] =
                           Append(frames[a], [ctx |-> on[a], ops |-> Drained(a)])]
      /\ ctxRefs' = [ctxRefs EXCEPT ![on[a]] = ctxRefs[on[a]] - Len(Drained(a))]
      /\ done' = [o \in Op |-> done[o] \/ o \in {Drained(a)[i] : i \in 1 .. Len(Drained(a))}]
      /\ context' = [o \in Op |-> IF o \in {Drained(a)[i] : i \in 1 .. Len(Drained(a))}
                                  THEN NoContext ELSE context[o]]
  BY DEF Drain, Drained, Set, After, Releases
<1>7. \A o : o \in {Drained(a)[i] : i \in 1 .. Len(Drained(a))} <=> Has(Drained(a), o)
  BY DEF Has
<1>8. /\ pc[a] = "drain" /\ pc'[a] = "idle"
      /\ UNCHANGED <<sq, sqHead, hidden, flushed, poller, kernel, handle, opRefs,
                     in_progress, exposed, called, todo, staging>>
  BY DEF Drain, Leaves, Enters, Set, Placing, Typed, CallsTyped
<1> HIDE DEF back, front, n
<1>9. cq'[on[a]] = back /\ \A d \in Context : d # on[a] => cq'[d] = cq[d]
  BY <1>1, <1>6 DEF Placing, Typed, RingsTyped
<1>10. /\ done' = [o \in Op |-> done[o] \/ Has(Drained(a), o)]
       /\ context' = [o \in Op |-> IF Has(Drained(a), o) THEN NoContext ELSE context[o]]
  BY <1>6, <1>7
<1> QED
  BY <1>1, <1>3, <1>5, <1>6, <1>8, <1>9, <1>10

LEMMA ReturnElements ==
  ASSUME UringAssumption, Placing, NEW a \in Client, Returns(a)
  PROVE  \E depth \in Nat \ {0}, ops \in Seq(Op), o \in Op :
           /\ frames[a] \in Seq(Frame) /\ depth = Len(frames[a])
           /\ ops = frames[a][depth].ops /\ ops # <<>> /\ o = Head(ops)
           /\ Once(Tail(ops)) /\ ~Has(Tail(ops), o)
           /\ \A x : Has(ops, x) <=> Has(Tail(ops), x) \/ x = o
           /\ opRefs' = [opRefs EXCEPT ![o] = opRefs[o] - 1]
           /\ called' = [called EXCEPT ![o] = called[o] + 1]
           /\ \/ Tail(ops) = <<>> /\ Len(frames'[a]) = depth - 1
              \/ /\ Tail(ops) # <<>> /\ Len(frames'[a]) = depth
                 /\ frames'[a][depth].ops = Tail(ops)
           /\ \A i \in 1 .. depth - 1 : frames'[a][i] = frames[a][i]
           /\ UNCHANGED <<pc, on, todo, staging, sq, sqHead, flushed, poller, hidden, kernel,
                          cq, references, in_progress, done, context, exposed>>
<1> DEFINE depth == Len(frames[a])
           ops == frames[a][depth].ops
           o == Head(ops)
<1>1. CallbackReturns(a) /\ frames[a] # <<>>
  BY DEF Returns, CallbackReturns
<1>2. /\ frames[a] \in Seq(Frame) /\ depth \in Nat \ {0} /\ ops \in Seq(Op) /\ ops # <<>>
      /\ frames[a][depth] \in Frame /\ o \in Op
      /\ Tail(ops) \in Seq(Op) /\ Len(ops) \in Nat
  BY <1>1, TopTyped DEF Placing
<1>3. Once(ops)
  BY <1>2 DEF Placing, NoRepeats
<1>4. /\ Once(Tail(ops)) /\ ~Has(Tail(ops), o)
      /\ \A x : Has(ops, x) <=> Has(Tail(ops), x) \/ x = o
  <2> HIDE DEF ops
  <2> QED
    BY <1>2, <1>3, HeadElements
<1>5. Tail(ops) = <<>> <=> Len(ops) = 1
  <2> HIDE DEF ops
  <2> QED
    BY <1>2, TailEmpty
<1>6. /\ opRefs' = [opRefs EXCEPT ![o] = opRefs[o] - 1]
      /\ called' = [called EXCEPT ![o] = called[o] + 1]
      /\ frames' = [frames EXCEPT ![a] =
                      IF Len(ops) = 1 THEN SubSeq(frames[a], 1, depth - 1)
                      ELSE [frames[a] EXCEPT ![depth].ops = Tail(ops)]]
      /\ UNCHANGED <<pc, on, todo, staging, sq, sqHead, flushed, poller, hidden, kernel,
                     cq, references, in_progress, done, context, exposed>>
  BY <1>1 DEF CallbackReturns, Set, rings
<1>7. /\ Len(SubSeq(frames[a], 1, depth - 1)) = depth - 1
      /\ \A i \in 1 .. depth - 1 : SubSeq(frames[a], 1, depth - 1)[i] = frames[a][i]
  BY <1>2, SubSeqProperties
<1> HIDE DEF ops, o
<1>8. frames'[a] = IF Len(ops) = 1 THEN SubSeq(frames[a], 1, depth - 1)
                   ELSE [frames[a] EXCEPT ![depth].ops = Tail(ops)]
  BY <1>6 DEF Placing, Typed, CallsTyped
<1>9. CASE Len(ops) = 1
  <2>1. Len(frames'[a]) = depth - 1 /\ \A i \in 1 .. depth - 1 : frames'[a][i] = frames[a][i]
    BY <1>7, <1>8, <1>9
  <2> QED
    BY <1>2, <1>4, <1>5, <1>6, <1>9, <2>1 DEF ops, o
<1>10. CASE Len(ops) # 1
  <2>1. PICK t : t = Tail(ops)
    OBVIOUS
  <2>2. frames'[a] = [frames[a] EXCEPT ![depth] = [frames[a][depth] EXCEPT !.ops = t]]
    BY <1>8, <1>10, <2>1
  <2>3. frames'[a][depth] = [frames[a][depth] EXCEPT !.ops = t]
    BY <1>2, <2>2
  <2>4. frames'[a][depth].ops = t
    BY <1>2, <2>3 DEF Frame
  <2>5. /\ Len(frames'[a]) = depth
        /\ \A i \in 1 .. depth - 1 : frames'[a][i] = frames[a][i]
    BY <1>2, <2>2
  <2> QED
    BY <1>2, <1>4, <1>5, <1>6, <1>10, <2>1, <2>4, <2>5 DEF ops, o
<1> QED
  BY <1>9, <1>10

-----------------------------------------------------------------------------
LEMMA FreeIsNowhere ==
  ASSUME NEW o, Good(o), ~in_progress[o]
  PROVE  Nowhere(o)
BY DEF Good, Fields, Nowhere

LEMMA InitPlacing == UringAssumption /\ Init => NoRepeats /\ AllGood
<1> SUFFICES ASSUME UringAssumption, Init PROVE NoRepeats /\ AllGood
  OBVIOUS
<1>1. /\ \A a \in Client : pc[a] = "idle" /\ staging[a] = <<>> /\ frames[a] = <<>>
      /\ \A c \in Context : sq[c] = <<>> /\ cq[c] = <<>> /\ kernel[c] = {}
      /\ \A o \in Op : /\ context[o] = NoContext /\ opRefs[o] = 1 /\ ~in_progress[o]
                       /\ ~done[o] /\ called[o] = 0
  BY DEF Init, InitContext, InitOperation
<1>2. NoRepeats
  BY <1>1, OnceEmpty, OnceInEmpty DEF NoRepeats
<1>3. \A o \in Op : Nowhere(o)
  BY <1>1, HasEmpty DEF Nowhere, At, InSubmit, InContext, InFrame
<1>4. \A o \in Op : OnePlace(o)
  BY <1>3 DEF Nowhere, OnePlace
<1>5. \A o \in Op : Good(o)
  BY <1>1, <1>3, <1>4 DEF Good, Nowhere
<1> QED
  BY <1>2, <1>5 DEF AllGood

NoneTwice(a) == /\ Once(staging[a])
                /\ \A i \in 1 .. Len(frames[a]) : Once(frames[a][i].ops)
NoneTwiceIn(c) == OnceIn(sq[c], Op) /\ OnceIn(cq[c], Op)

LEMMA NextNoneTwice ==
  ASSUME UringAssumption, Placing, Next, NEW a \in Client
  PROVE  NoneTwice(a)'
<1>0. NoneTwice(a) /\ Typed /\ Control
  BY DEF Placing, NoRepeats, NoneTwice
<1>1. ASSUME staging'[a] = staging[a], frames'[a] = frames[a] PROVE NoneTwice(a)'
  BY <1>0, <1>1 DEF NoneTwice
<1>2. ASSUME UNCHANGED <<staging, frames>> PROVE NoneTwice(a)'
  BY <1>1, <1>2
<1>3. CASE Call(a)
  <2>1. ASSUME NEW c \in Context, NEW ops, SubmitBegin(a, c, ops) PROVE UNCHANGED <<staging, frames>>
    BY <2>1 DEF SubmitBegin
  <2>2. ASSUME NEW c \in Context, FlushBegin(a, c) \/ FlushWakes(a, c) \/ Cancel(a, c)
                                  \/ PollCounter(a, c) \/ Drop(a, c)
        PROVE  UNCHANGED <<staging, frames>>
    BY <2>2 DEF FlushBegin, FlushWakes, Cancel, PollCounter, Drop, calls
  <2>3. ASSUME NEW c \in Context, NEW min, NEW max, NEW timed,
               ProcessEvents(a, c, min, max, timed)
        PROVE  UNCHANGED <<staging, frames>>
    BY <2>3 DEF ProcessEvents
  <2>4. ASSUME NEW o \in Op, ReadBegin(a, o) PROVE UNCHANGED <<staging, frames>>
    BY <2>4 DEF ReadBegin
  <2> QED
    BY <1>2, <1>3, <2>1, <2>2, <2>3, <2>4 DEF Call
<1>4. CASE Proceed(a)
  <2>1. ASSUME NEW o \in Op, Stage(a, o) PROVE NoneTwice(a)'
    <3>1. staging[a] \in Seq(Op) /\ staging'[a] = Append(staging[a], o) /\ UNCHANGED frames
      BY <1>0, <2>1 DEF Typed, CallsTyped, Stage, Set
    <3>2. Nowhere(o)
      BY <2>1, FreeIsNowhere DEF Placing, AllGood, Stage, Claim
    <3>3. ~Has(staging[a], o)
      BY <3>2 DEF Nowhere, At, InSubmit
    <3>4. Once(staging'[a])
      BY <1>0, <3>1, <3>3, AppendElements DEF NoneTwice
    <3> QED
      BY <1>0, <3>1, <3>4 DEF NoneTwice
  <2>2. CASE SubmitRaises(a) \/ SubmitEnd(a)
    <3>1. Commit(a)
      BY <2>2 DEF SubmitRaises, SubmitEnd
    <3>2. staging'[a] = <<>> /\ UNCHANGED frames
      BY <1>0, <3>1 DEF Typed, CallsTyped, Commit, Set
    <3> QED
      BY <1>0, <3>2, OnceEmpty DEF NoneTwice
  <2>3. CASE Drain(a)
    <3>1. /\ Once(Drained(a)) /\ UNCHANGED staging
          /\ IF Drained(a) = <<>> THEN UNCHANGED frames
             ELSE frames' = [frames EXCEPT ![a] =
                               Append(frames[a], [ctx |-> on[a], ops |-> Drained(a)])]
      BY <2>3, DrainElements
    <3>2. CASE UNCHANGED frames
      BY <1>1, <3>1, <3>2
    <3>3. CASE ~UNCHANGED frames
      <4> DEFINE f == [ctx |-> on[a], ops |-> Drained(a)]
      <4>1. frames'[a] = Append(frames[a], f) /\ frames[a] \in Seq(Frame)
        BY <1>0, <3>1, <3>3 DEF Typed, CallsTyped
      <4>2. f.ops = Drained(a)
        OBVIOUS
      <4> HIDE DEF f
      <4>3. /\ Len(frames[a]) \in Nat /\ Len(frames'[a]) = Len(frames[a]) + 1
            /\ \A i \in 1 .. Len(frames[a]) : frames'[a][i] = frames[a][i]
            /\ frames'[a][Len(frames[a]) + 1] = f
        BY <4>1
      <4>4. \A i \in 1 .. Len(frames'[a]) : Once(frames'[a][i].ops)
        BY <1>0, <3>1, <4>2, <4>3 DEF NoneTwice
      <4> QED
        BY <1>0, <3>1, <4>4 DEF NoneTwice
    <3> QED
      BY <3>2, <3>3
  <2>4. ASSUME NEW o \in Op, Skip(a, o) \/ Full(a, o) PROVE UNCHANGED <<staging, frames>>
    BY <2>4 DEF Skip, Full
  <2>5. FlushReadsHead(a) \/ FlushEnters(a) \/ FlushFails(a) \/ CancelEnters(a)
          => UNCHANGED <<staging, frames>>
    BY DEF FlushReadsHead, FlushEnters, FlushFails, CancelEnters
  <2>6. WaitChecks(a) \/ WaitFails(a) \/ WaitWakes(a) \/ WaitReads(a) \/ ReadEnd(a)
          => UNCHANGED <<staging, frames>>
    BY DEF WaitChecks, WaitFails, WaitWakes, WaitReads, ReadEnd
  <2> QED
    BY <1>2, <1>4, <2>1, <2>2, <2>3, <2>4, <2>5, <2>6 DEF Proceed
<1>5. CASE Returns(a)
  <2>1. PICK depth \in Nat \ {0}, ops \in Seq(Op), o \in Op :
          /\ depth = Len(frames[a]) /\ Once(Tail(ops))
          /\ \/ Len(frames'[a]) = depth - 1
             \/ Len(frames'[a]) = depth /\ frames'[a][depth].ops = Tail(ops)
          /\ \A i \in 1 .. depth - 1 : frames'[a][i] = frames[a][i]
          /\ UNCHANGED staging
    BY <1>5, ReturnElements
  <2>2. \A i \in 1 .. depth - 1 : Once(frames'[a][i].ops)
    BY <1>0, <2>1 DEF NoneTwice
  <2>3. \A i \in 1 .. Len(frames'[a]) : Once(frames'[a][i].ops)
    <3>1. CASE Len(frames'[a]) = depth - 1
      BY <2>2, <3>1
    <3>2. CASE Len(frames'[a]) = depth /\ frames'[a][depth].ops = Tail(ops)
      <4>1. \A i \in 1 .. depth : i \in 1 .. depth - 1 \/ i = depth
        OBVIOUS
      <4>2. Once(frames'[a][depth].ops)
        BY <2>1, <3>2
      <4> QED
        BY <2>2, <3>2, <4>1, <4>2
    <3> QED
      BY <2>1, <3>1, <3>2
  <2> QED
    BY <1>0, <2>1, <2>3 DEF NoneTwice
<1>6. ASSUME NEW b \in Client, Acts(b), b # a PROVE NoneTwice(a)'
  BY <1>0, <1>1, <1>6, OthersCalls DEF CallOf
<1>7. ASSUME NEW c \in Context, Kernel(c) PROVE NoneTwice(a)'
  BY <1>2, <1>7, KernelCalls DEF calls
<1> QED
  BY <1>3, <1>4, <1>5, <1>6, <1>7 DEF Next, Acts

LEMMA NextNoneTwiceIn ==
  ASSUME UringAssumption, Placing, Next, NEW c \in Context
  PROVE  NoneTwiceIn(c)'
<1>0. NoneTwiceIn(c) /\ Typed /\ Control /\ NoRepeats
  BY DEF Placing, NoRepeats, NoneTwiceIn
<1>1. ASSUME sq'[c] = sq[c], cq'[c] = cq[c] PROVE NoneTwiceIn(c)'
  BY <1>0, <1>1 DEF NoneTwiceIn
<1>2. ASSUME UNCHANGED <<sq, cq>> PROVE NoneTwiceIn(c)'
  BY <1>1, <1>2
<1>3. ASSUME NEW d \in Context, NEW k \in 0 .. Len(sq[d]), Consumes(d, k)
      PROVE  NoneTwiceIn(c)'
  <2>1. /\ OnceIn(sq'[d], Op) /\ OnceIn(cq'[d], Op)
        /\ c # d => sq'[c] = sq[c] /\ cq'[c] = cq[c]
    BY <1>0, <1>3, ConsumesElements
  <2>2. CASE c = d
    BY <2>1, <2>2 DEF NoneTwiceIn
  <2> QED
    BY <1>1, <2>1, <2>2
<1>4. ASSUME NEW a \in Client, Call(a) PROVE NoneTwiceIn(c)'
  <2>1. ASSUME NEW d \in Context, Cancel(a, d) PROVE NoneTwiceIn(c)'
    <3>1. sq' = [sq EXCEPT ![d] = Append(sq[d], Sentinel)] /\ UNCHANGED cq
      BY <2>1 DEF Cancel, Set
    <3>2. CASE c = d
      <4>1. sq[c] \in Seq(Entry) /\ sq'[c] = Append(sq[c], Sentinel)
        BY <1>0, <3>1, <3>2 DEF Typed, RingsTyped
      <4>2. OnceIn(sq'[c], Op)
        BY <1>0, <4>1, EntriesTyped, AppendOnceIn DEF NoneTwiceIn
      <4> QED
        BY <1>0, <3>1, <4>2 DEF NoneTwiceIn
    <3>3. CASE c # d
      BY <1>0, <1>1, <3>1, <3>3 DEF Typed, RingsTyped
    <3> QED
      BY <3>2, <3>3
  <2>2. ASSUME NEW d \in Context, NEW ops, SubmitBegin(a, d, ops) PROVE UNCHANGED <<sq, cq>>
    BY <2>2 DEF SubmitBegin, rings
  <2>3. ASSUME NEW d \in Context, FlushBegin(a, d) \/ FlushWakes(a, d) \/ PollCounter(a, d)
                                  \/ Drop(a, d)
        PROVE  UNCHANGED <<sq, cq>>
    BY <2>3 DEF FlushBegin, FlushWakes, PollCounter, Drop, rings
  <2>4. ASSUME NEW d \in Context, NEW min, NEW max, NEW timed,
               ProcessEvents(a, d, min, max, timed)
        PROVE  UNCHANGED <<sq, cq>>
    BY <2>4 DEF ProcessEvents, rings
  <2>5. ASSUME NEW o \in Op, ReadBegin(a, o) PROVE UNCHANGED <<sq, cq>>
    BY <2>5 DEF ReadBegin, rings
  <2> QED
    BY <1>2, <1>4, <2>1, <2>2, <2>3, <2>4, <2>5 DEF Call
<1>5. ASSUME NEW a \in Client, Proceed(a) PROVE NoneTwiceIn(c)'
  <2>1. CASE SubmitRaises(a) \/ SubmitEnd(a)
    <3>1. Submits(a) /\ Commit(a)
      BY <2>1 DEF SubmitRaises, SubmitEnd, Submits
    <3>2. /\ OnceIn(sq'[on[a]], Op) /\ cq' = cq
          /\ c # on[a] => sq'[c] = sq[c]
      BY <3>1, CommitElements
    <3>3. CASE c = on[a]
      <4>1. OnceIn(sq'[c], Op)
        BY <3>2, <3>3
      <4> QED
        BY <1>0, <3>2, <4>1 DEF NoneTwiceIn
    <3> QED
      BY <1>1, <3>2, <3>3
  <2>2. CASE FlushEnters(a)
    <3>1. PICK d : d = on[a]
      OBVIOUS
    <3>2. d \in Context /\ \E k \in 0 .. Len(sq[d]) : Consumes(d, k)
      BY <1>0, <2>2, <3>1, EnterConsumes
    <3> QED
      BY <1>3, <3>2
  <2>3. CASE CancelEnters(a)
    <3>1. PICK d : d = on[a]
      OBVIOUS
    <3>2. d \in Context /\ \E k \in 0 .. Len(sq[d]) : Consumes(d, k)
      BY <1>0, <2>3, <3>1, CancelConsumes
    <3> QED
      BY <1>3, <3>2
  <2>4. CASE Drain(a)
    <3>1. /\ OnceIn(cq'[on[a]], Op) /\ sq' = sq
          /\ c # on[a] => cq'[c] = cq[c]
      BY <2>4, DrainElements
    <3>2. CASE c = on[a]
      <4>1. OnceIn(cq'[c], Op)
        BY <3>1, <3>2
      <4> QED
        BY <1>0, <3>1, <4>1 DEF NoneTwiceIn
    <3> QED
      BY <1>1, <3>1, <3>2
  <2>5. ASSUME NEW o \in Op, Skip(a, o) \/ Stage(a, o) \/ Full(a, o) PROVE UNCHANGED <<sq, cq>>
    BY <2>5 DEF Skip, Stage, Full, rings
  <2>6. FlushReadsHead(a) \/ FlushFails(a) \/ ReadEnd(a) => UNCHANGED <<sq, cq>>
    BY DEF FlushReadsHead, FlushFails, ReadEnd, rings
  <2>7. WaitChecks(a) \/ WaitFails(a) \/ WaitWakes(a) \/ WaitReads(a) => UNCHANGED <<sq, cq>>
    BY DEF WaitChecks, WaitFails, WaitWakes, WaitReads, rings
  <2> QED
    BY <1>2, <1>5, <2>1, <2>2, <2>3, <2>4, <2>5, <2>6, <2>7 DEF Proceed
<1>6. ASSUME NEW a \in Client, Returns(a) PROVE NoneTwiceIn(c)'
  BY <1>2, <1>6 DEF Returns, CallbackReturns, rings
<1>7. ASSUME NEW d \in Context, Kernel(d) PROVE NoneTwiceIn(c)'
  <2>1. CASE PollerTakes(d)
    <3>1. Len(sq[d]) \in Nat /\ hidden[d] \in Nat /\ Len(sq[d]) - hidden[d] > 0
      BY <1>0, <2>1 DEF Typed, RingsTyped, PollerTakes, Visible
    <3>2. 1 \in 0 .. Len(sq[d]) /\ Consumes(d, 1)
      BY <2>1, <3>1 DEF PollerTakes
    <3> QED
      BY <1>3, <3>2
  <2>2. ASSUME NEW o \in Op, Complete(d, o) PROVE NoneTwiceIn(c)'
    <3>1. /\ o \in kernel[d] /\ cq' = [cq EXCEPT ![d] = Append(cq[d], o)] /\ UNCHANGED sq
      BY <2>2 DEF Complete, Set
    <3>2. CASE c = d
      <4>1. cq[c] \in Seq(Entry) /\ cq'[c] = Append(cq[c], o)
        BY <1>0, <3>1, <3>2 DEF Typed, RingsTyped
      <4>2. ~Has(cq[c], o)
        <5>1. At(o, c, "kernel", c, 0) /\ (Has(cq[c], o) => At(o, c, "cq", c, 0))
          BY <3>1, <3>2 DEF At, InContext
        <5>2. OnePlace(o)
          BY DEF Placing, AllGood, Good
        <5>3. Has(cq[c], o) => "kernel" = "cq"
          BY <5>1, <5>2 DEF OnePlace
        <5> QED
          BY <5>3
      <4>3. OnceIn(cq'[c], Op)
        BY <1>0, <4>1, <4>2, EntriesTyped, AppendOnceIn DEF NoneTwiceIn
      <4> QED
        BY <1>0, <3>1, <4>3 DEF NoneTwiceIn
    <3>3. CASE c # d
      BY <1>0, <1>1, <3>1, <3>3 DEF Typed, RingsTyped
    <3> QED
      BY <3>2, <3>3
  <2>3. PollerRests(d) \/ StoreVisible(d) => UNCHANGED <<sq, cq>>
    BY DEF PollerRests, StoreVisible
  <2> QED
    BY <1>2, <1>7, <2>1, <2>2, <2>3 DEF Kernel
<1> QED
  BY <1>4, <1>5, <1>6, <1>7 DEF Next

LEMMA NextNoRepeats ==
  ASSUME UringAssumption, Placing, [Next]_vars
  PROVE  NoRepeats'
<1>1. CASE UNCHANGED vars
  <2>1. sq' = sq /\ cq' = cq /\ staging' = staging /\ frames' = frames
    BY <1>1 DEF vars, rings, calls
  <2> QED
    BY <2>1 DEF Placing, NoRepeats
<1>2. CASE Next
  BY <1>2, NextNoneTwice, NextNoneTwiceIn DEF NoneTwice, NoneTwiceIn, NoRepeats
<1> QED
  BY <1>1, <1>2

-----------------------------------------------------------------------------
(* Where an Operation is changes in one of four ways: it stays, it gets a  *)
(* place, it moves to another one, or it loses its place.                  *)
Same(o) ==
  /\ context'[o] = context[o] /\ called'[o] = called[o] /\ opRefs'[o] = opRefs[o]
  /\ in_progress'[o] = in_progress[o] /\ done'[o] = done[o]

SubmitStays(o, a) == \A c, k : InSubmit(o, c, k, a)' <=> InSubmit(o, c, k, a)
FramesStay(o, a) == \A k, i : InFrame(o, k, a, i)' <=> InFrame(o, k, a, i)
ContextStays(o, x) == \A k : InContext(o, k, x)' <=> InContext(o, k, x)

LEMMA Stays ==
  ASSUME NEW o, Good(o), Same(o),
         \A x \in Client : SubmitStays(o, x) /\ FramesStay(o, x),
         \A x \in Context : ContextStays(o, x)
  PROVE  Good(o)'
<1>1. \A c, k, x, i : At(o, c, k, x, i)' <=> At(o, c, k, x, i)
  BY DEF At, SubmitStays, FramesStay, ContextStays
<1>2. OnePlace(o)'
  BY <1>1 DEF Good, OnePlace
<1> QED
  BY <1>1, <1>2 DEF Good, Fields, Same, Nowhere

LEMMA Appears ==
  ASSUME NEW o, Nowhere(o), NEW c, NEW k, NEW x, NEW i,
         At(o, c, k, x, i)', Fields(o, c, k)',
         \A d, l, y, j : At(o, d, l, y, j)' =>
           At(o, d, l, y, j) \/ (d = c /\ l = k /\ y = x /\ j = i)
  PROVE  Good(o)'
<1>1. \A d, l, y, j : At(o, d, l, y, j)' => d = c /\ l = k /\ y = x /\ j = i
  BY DEF Nowhere
<1>2. OnePlace(o)'
  BY <1>1 DEF OnePlace
<1> QED
  BY <1>1, <1>2 DEF Good, Nowhere

LEMMA Moves ==
  ASSUME NEW o, Good(o), NEW m, \E e, z, h : At(o, e, m, z, h),
         NEW c, NEW k, NEW x, NEW i,
         At(o, c, k, x, i)', Fields(o, c, k)',
         \A d, l, y, j : At(o, d, l, y, j)' =>
           (At(o, d, l, y, j) /\ l # m) \/ (d = c /\ l = k /\ y = x /\ j = i)
  PROVE  Good(o)'
<1>1. \A d, l, y, j : At(o, d, l, y, j) => l = m
  BY DEF Good, OnePlace
<1>2. \A d, l, y, j : At(o, d, l, y, j)' => d = c /\ l = k /\ y = x /\ j = i
  BY <1>1
<1>3. OnePlace(o)'
  BY <1>2 DEF OnePlace
<1> QED
  BY <1>2, <1>3 DEF Good, Nowhere

LEMMA Goes ==
  ASSUME NEW o, Good(o), NEW m, \E e, z, h : At(o, e, m, z, h),
         \A d, l, y, j : At(o, d, l, y, j)' => At(o, d, l, y, j) /\ l # m,
         context'[o] = NoContext, opRefs'[o] = 1,
         in_progress'[o] <=> done'[o],
         called'[o] = IF done'[o] THEN 1 ELSE 0
  PROVE  Good(o)'
<1>1. \A d, l, y, j : At(o, d, l, y, j) => l = m
  BY DEF Good, OnePlace
<1>2. \A d, l, y, j : ~At(o, d, l, y, j)'
  BY <1>1
<1> QED
  BY <1>2 DEF Good, OnePlace, Nowhere

LEMMA FramesSame ==
  ASSUME NEW o, NEW a, frames'[a] = frames[a]
  PROVE  FramesStay(o, a)
BY DEF FramesStay, InFrame

LEMMA SubmitSame ==
  ASSUME NEW o, NEW a, pc[a] # "full", pc'[a] # "full",
         staging'[a] = staging[a], staging[a] = <<>> \/ on'[a] = on[a]
  PROVE  SubmitStays(o, a)
BY HasEmpty DEF SubmitStays, InSubmit

LEMMA ContextSame ==
  ASSUME NEW o, NEW c, sq'[c] = sq[c], kernel'[c] = kernel[c], cq'[c] = cq[c]
  PROVE  ContextStays(o, c)
BY DEF ContextStays, InContext

LEMMA OthersPlaces ==
  ASSUME Typed, NEW o, NEW a \in Client, Acts(a), NEW b \in Client, b # a
  PROVE  SubmitStays(o, b) /\ FramesStay(o, b)
<1>1. UNCHANGED CallOf(b)
  BY OthersCalls
<1> QED
  BY <1>1 DEF CallOf, SubmitStays, FramesStay, InSubmit, InFrame

LEMMA StaysHere ==
  ASSUME Typed, NEW o, NEW a \in Client, Acts(a), Good(o), Same(o),
         SubmitStays(o, a), FramesStay(o, a),
         \A x \in Context : ContextStays(o, x)
  PROVE  Good(o)'
<1>1. \A x \in Client : SubmitStays(o, x) /\ FramesStay(o, x)
  BY OthersPlaces
<1> QED
  BY <1>1, Stays

LEMMA PlacedStage ==
  ASSUME UringAssumption, Placing, NEW a \in Client, NEW q \in Op, Stage(a, q), Acts(a),
         NEW o \in Op
  PROVE  Good(o)'
<1> PICK s : s = on[a]
  OBVIOUS
<1>1. /\ Typed /\ Good(o) /\ Good(q) /\ pc[a] = "submit" /\ s \in Context
  BY DEF Placing, AllGood, Stage, NextInBatch, Control, Sound
<1>2. /\ staging' = [staging EXCEPT ![a] = Append(staging[a], q)]
      /\ context' = [context EXCEPT ![q] = s] /\ opRefs' = [opRefs EXCEPT ![q] = opRefs[q] + 1]
      /\ in_progress' = [in_progress EXCEPT ![q] = TRUE]
      /\ UNCHANGED <<pc, on, frames, rings, done, called>> /\ ~in_progress[q]
  BY DEF Stage, Set, Claim
<1>3. /\ staging[a] \in Seq(Op) /\ staging'[a] = Append(staging[a], q)
  BY <1>1, <1>2 DEF Typed, CallsTyped
<1>4. \A x : Has(staging'[a], x) <=> Has(staging[a], x) \/ x = q
  BY <1>3, AppendElements
<1>5. /\ FramesStay(o, a) /\ \A x \in Context : ContextStays(o, x)
      /\ \A x \in Client : x # a => SubmitStays(o, x) /\ FramesStay(o, x)
  BY <1>1, <1>2, FramesSame, ContextSame, OthersPlaces DEF rings
<1>6. CASE o # q
  <2>1. SubmitStays(o, a)
    BY <1>1, <1>2, <1>4, <1>6 DEF SubmitStays, InSubmit
  <2>2. Same(o)
    BY <1>1, <1>2, <1>6 DEF Same, Typed, ObjectsTyped
  <2> QED
    BY <1>1, <1>5, <2>1, <2>2, StaysHere
<1>7. CASE o = q
  <2>1. Nowhere(o)
    BY <1>1, <1>2, <1>7, FreeIsNowhere
  <2>2. /\ context[o] = NoContext /\ opRefs[o] = 1 /\ ~done[o] /\ called[o] = 0
    BY <1>1, <1>2, <1>7, <2>1 DEF Good
  <2>3. InSubmit(o, s, "staged", a)'
    BY <1>2, <1>4, <1>7 DEF InSubmit
  <2>4. At(o, s, "staged", a, 0)'
    BY <2>3 DEF At
  <2>5. Fields(o, s, "staged")'
    <3>1. context'[o] = s /\ opRefs'[o] = 2 /\ in_progress'[o] /\ ~done'[o] /\ called'[o] = 0
      BY <1>1, <1>2, <1>7, <2>2 DEF Typed, ObjectsTyped
    <3> QED
      BY <1>1, <3>1 DEF Fields
  <2>6. \A c, k : InSubmit(o, c, k, a)' => InSubmit(o, c, k, a) \/ (c = s /\ k = "staged")
    BY <1>1, <1>2 DEF InSubmit
  <2>7. \A d, l, y, j : At(o, d, l, y, j)' =>
          At(o, d, l, y, j) \/ (d = s /\ l = "staged" /\ y = a /\ j = 0)
    BY <1>5, <2>6 DEF At, SubmitStays, FramesStay, ContextStays
  <2> QED
    BY <2>1, <2>4, <2>5, <2>7, Appears
<1> QED
  BY <1>6, <1>7

LEMMA PlacedFull ==
  ASSUME UringAssumption, Placing, NEW a \in Client, NEW q \in Op, Full(a, q), Acts(a),
         NEW o \in Op
  PROVE  Good(o)'
<1>1. /\ Typed /\ Good(o) /\ Good(q) /\ pc[a] = "submit" /\ q = Head(todo[a])
  BY DEF Placing, AllGood, Full, NextInBatch
<1>2. /\ pc' = [pc EXCEPT ![a] = "full"] /\ in_progress' = [in_progress EXCEPT ![q] = TRUE]
      /\ UNCHANGED <<on, todo, staging, frames, rings, opRefs, context, done, called>>
      /\ ~in_progress[q]
  BY DEF Full, Set, Claim
<1>3. pc'[a] = "full"
  BY <1>1, <1>2 DEF Typed, CallsTyped
<1>5. /\ FramesStay(o, a) /\ \A x \in Context : ContextStays(o, x)
      /\ \A x \in Client : x # a => SubmitStays(o, x) /\ FramesStay(o, x)
  BY <1>1, <1>2, FramesSame, ContextSame, OthersPlaces DEF rings
<1>6. CASE o # q
  <2>1. SubmitStays(o, a)
    BY <1>1, <1>2, <1>3, <1>6 DEF SubmitStays, InSubmit
  <2>2. Same(o)
    BY <1>1, <1>2, <1>6 DEF Same, Typed, ObjectsTyped
  <2> QED
    BY <1>1, <1>5, <2>1, <2>2, StaysHere
<1>7. CASE o = q
  <2>1. Nowhere(o)
    BY <1>1, <1>2, <1>7, FreeIsNowhere
  <2>2. /\ context[o] = NoContext /\ opRefs[o] = 1 /\ ~done[o] /\ called[o] = 0
    BY <1>1, <1>2, <1>7, <2>1 DEF Good
  <2>3. InSubmit(o, NoContext, "full", a)'
    BY <1>1, <1>2, <1>3, <1>7 DEF InSubmit
  <2>4. At(o, NoContext, "full", a, 0)'
    BY <2>3 DEF At
  <2>5. Fields(o, NoContext, "full")'
    <3>1. /\ context'[o] = NoContext /\ opRefs'[o] = 1 /\ in_progress'[o] /\ ~done'[o]
          /\ called'[o] = 0
      BY <1>1, <1>2, <1>7, <2>2 DEF Typed, ObjectsTyped
    <3> QED
      BY <1>1, <3>1 DEF Fields
  <2>6. \A c, k : InSubmit(o, c, k, a)' =>
          InSubmit(o, c, k, a) \/ (c = NoContext /\ k = "full")
    BY <1>1, <1>2 DEF InSubmit
  <2>7. \A d, l, y, j : At(o, d, l, y, j)' =>
          At(o, d, l, y, j) \/ (d = NoContext /\ l = "full" /\ y = a /\ j = 0)
    BY <1>5, <2>6 DEF At, SubmitStays, FramesStay, ContextStays
  <2> QED
    BY <2>1, <2>4, <2>5, <2>7, Appears
<1> QED
  BY <1>6, <1>7

LEMMA PlacedCommit ==
  ASSUME UringAssumption, Placing, NEW a \in Client, SubmitRaises(a) \/ SubmitEnd(a), Acts(a),
         NEW o \in Op
  PROVE  Good(o)'
<1> PICK s : s = on[a]
  OBVIOUS
<1>1. /\ Typed /\ Good(o) /\ Submits(a) /\ Commit(a)
      /\ pc[a] = "full" <=> SubmitRaises(a)
  BY DEF Placing, AllGood, SubmitRaises, SubmitEnd, Submits
<1>2. /\ s \in Context /\ staging'[a] = <<>> /\ pc'[a] = "idle"
      /\ \A d \in Context : d # s => sq'[d] = sq[d]
      /\ Has(sq'[s], o) <=> Has(sq[s], o) \/ Has(staging[a], o)
      /\ UNCHANGED <<kernel, cq, frames, opRefs, done, context, called>>
  BY <1>1, CommitElements
<1>3. IF pc[a] = "full" THEN in_progress' = [in_progress EXCEPT ![Head(todo[a])] = FALSE]
      ELSE UNCHANGED in_progress
  BY <1>1 DEF SubmitRaises, SubmitEnd, GivesBack, Set
<1>4. /\ FramesStay(o, a) /\ \A x \in Context : x # s => ContextStays(o, x)
      /\ \A x \in Client : x # a => SubmitStays(o, x) /\ FramesStay(o, x)
  BY <1>1, <1>2, FramesSame, ContextSame, OthersPlaces
<1>5. /\ \A c, k : ~InSubmit(o, c, k, a)'
      /\ \A k : InContext(o, k, s)' <=> InContext(o, k, s) \/ (k = "sq" /\ Has(staging[a], o))
  BY <1>2, HasEmpty DEF InSubmit, InContext
<1>6. /\ \A x \in Client : \A k, i : InFrame(o, k, x, i) => k = "call"
      /\ \A x \in Client : \A c, k : InSubmit(o, c, k, x) => k \in {"staged", "full"}
      /\ \A x \in Context : \A k : InContext(o, k, x) => k \in {"sq", "kernel", "cq"}
  BY DEF InFrame, InSubmit, InContext
<1>7. CASE Has(staging[a], o)
  <2>1. At(o, s, "staged", a, 0)
    BY <1>7 DEF At, InSubmit
  <2>2. At(o, s, "sq", s, 0)'
    BY <1>2, <1>5, <1>7 DEF At
  <2>3. ~(pc[a] = "full" /\ o = Head(todo[a]))
    <3>1. pc[a] = "full" /\ o = Head(todo[a]) => At(o, NoContext, "full", a, 0)
      BY DEF At, InSubmit
    <3> QED
      BY <1>1, <2>1, <3>1 DEF Good, OnePlace
  <2>4. in_progress'[o] = in_progress[o]
    BY <1>1, <1>3, <2>3 DEF Typed, ObjectsTyped
  <2>5. Fields(o, s, "sq")'
    BY <1>1, <1>2, <2>1, <2>4 DEF Good, Fields
  <2>6. \A x \in Client : x # a => \A c, k : InSubmit(o, c, k, x) => k # "staged"
    <3> SUFFICES ASSUME NEW x \in Client, x # a, NEW c, InSubmit(o, c, "staged", x) PROVE FALSE
      OBVIOUS
    <3>1. At(o, c, "staged", x, 0)
      BY DEF At
    <3> QED
      BY <1>1, <2>1, <3>1 DEF Good, OnePlace
  <2>7. \A d, l, y, j : At(o, d, l, y, j)' =>
          (At(o, d, l, y, j) /\ l # "staged") \/ (d = s /\ l = "sq" /\ y = s /\ j = 0)
    BY <1>4, <1>5, <1>6, <2>6 DEF At, SubmitStays, FramesStay, ContextStays
  <2> QED
    BY <1>1, <2>1, <2>2, <2>5, <2>7, Moves
<1>8. CASE ~Has(staging[a], o) /\ pc[a] = "full" /\ o = Head(todo[a])
  <2>1. At(o, NoContext, "full", a, 0)
    BY <1>8 DEF At, InSubmit
  <2>2. Fields(o, NoContext, "full")
    BY <1>1, <2>1 DEF Good
  <2>3. /\ context'[o] = NoContext /\ opRefs'[o] = 1 /\ ~in_progress'[o] /\ ~done'[o]
        /\ called'[o] = 0
    BY <1>1, <1>2, <1>3, <1>8, <2>2 DEF Fields, Typed, ObjectsTyped
  <2>4. \A x \in Client : x # a => \A c, k : InSubmit(o, c, k, x) => k # "full"
    <3> SUFFICES ASSUME NEW x \in Client, x # a, NEW c, InSubmit(o, c, "full", x) PROVE FALSE
      OBVIOUS
    <3>1. At(o, c, "full", x, 0)
      BY DEF At
    <3> QED
      BY <1>1, <2>1, <3>1 DEF Good, OnePlace
  <2>5. \A d, l, y, j : At(o, d, l, y, j)' => At(o, d, l, y, j) /\ l # "full"
    BY <1>4, <1>5, <1>6, <1>8, <2>4 DEF At, SubmitStays, FramesStay, ContextStays
  <2> QED
    BY <1>1, <2>1, <2>3, <2>5, Goes
<1>9. CASE ~Has(staging[a], o) /\ ~(pc[a] = "full" /\ o = Head(todo[a]))
  <2>1. SubmitStays(o, a)
    BY <1>5, <1>9 DEF SubmitStays, InSubmit
  <2>2. \A x \in Context : ContextStays(o, x)
    BY <1>4, <1>5, <1>9 DEF ContextStays
  <2>3. Same(o)
    BY <1>1, <1>2, <1>3, <1>9 DEF Same, Typed, ObjectsTyped
  <2> QED
    BY <1>1, <1>4, <2>1, <2>2, <2>3, StaysHere
<1> QED
  BY <1>7, <1>8, <1>9

LEMMA PlacedConsumes ==
  ASSUME UringAssumption, Placing, NEW c \in Context, NEW n \in 0 .. Len(sq[c]),
         Consumes(c, n), NEW o \in Op, Same(o),
         \A x \in Client : SubmitStays(o, x) /\ FramesStay(o, x)
  PROVE  Good(o)'
<1>1. Typed /\ Good(o) /\ NoRepeats
  BY DEF Placing, AllGood
<1> PICK taken : taken = SubSeq(sq[c], 1, n)
  OBVIOUS
<1>2. /\ \A d \in Context : d # c => ContextStays(o, d)
      /\ Has(sq[c], o) <=> Has(sq'[c], o) \/ Has(taken, o)
      /\ ~(Has(sq'[c], o) /\ Has(taken, o))
      /\ o \in kernel'[c] <=> o \in kernel[c] \/ Has(taken, o)
      /\ Has(cq'[c], o) <=> Has(cq[c], o)
  BY <1>1, ConsumesElements, ContextSame
<1>3. /\ \A x \in Client : \A k, i : InFrame(o, k, x, i) => k = "call"
      /\ \A x \in Client : \A e, k : InSubmit(o, e, k, x) => k \in {"staged", "full"}
  BY DEF InFrame, InSubmit
<1>4. CASE Has(taken, o)
  <2>1. At(o, c, "sq", c, 0)
    BY <1>2, <1>4 DEF At, InContext
  <2>2. At(o, c, "kernel", c, 0)'
    BY <1>2, <1>4 DEF At, InContext
  <2>3. Fields(o, c, "kernel")'
    BY <1>1, <2>1 DEF Good, Fields, Same
  <2>4. \A x \in Context : x # c => \A k : InContext(o, k, x) => k # "sq"
    <3> SUFFICES ASSUME NEW x \in Context, x # c, InContext(o, "sq", x) PROVE FALSE
      OBVIOUS
    <3>1. At(o, x, "sq", x, 0)
      BY DEF At
    <3> QED
      BY <1>1, <2>1, <3>1 DEF Good, OnePlace
  <2>5. \A k : InContext(o, k, c)' => (InContext(o, k, c) /\ k # "sq") \/ k = "kernel"
    BY <1>2, <1>4 DEF InContext
  <2>6. \A d, l, y, j : At(o, d, l, y, j)' =>
          (At(o, d, l, y, j) /\ l # "sq") \/ (d = c /\ l = "kernel" /\ y = c /\ j = 0)
    BY <1>2, <1>3, <2>4, <2>5 DEF At, SubmitStays, FramesStay, ContextStays
  <2> QED
    BY <1>1, <2>1, <2>2, <2>3, <2>6, Moves
<1>5. CASE ~Has(taken, o)
  <2>1. \A x \in Context : ContextStays(o, x)
    BY <1>2, <1>5 DEF ContextStays, InContext
  <2> QED
    BY <1>1, <2>1, Stays
<1> QED
  BY <1>4, <1>5

LEMMA PlacedComplete ==
  ASSUME UringAssumption, Placing, NEW c \in Context, NEW q \in Op, Complete(c, q),
         NEW o \in Op
  PROVE  Good(o)'
<1>1. /\ Typed /\ Good(o) /\ q \in kernel[c] /\ cq[c] \in Seq(Entry) /\ q \in Entry
      /\ kernel' = [kernel EXCEPT ![c] = kernel[c] \ {q}]
      /\ cq' = [cq EXCEPT ![c] = Append(cq[c], q)]
      /\ UNCHANGED <<sq, operation, calls>>
  BY EntriesTyped DEF Placing, AllGood, Complete, Typed, RingsTyped, Set
<1>2. \A x \in Client : SubmitStays(o, x) /\ FramesStay(o, x)
  BY <1>1 DEF SubmitStays, FramesStay, InSubmit, InFrame, calls
<1>3. \A x \in Context : x # c => ContextStays(o, x)
  BY <1>1 DEF ContextStays, InContext, Typed, RingsTyped
<1>4. /\ kernel'[c] = kernel[c] \ {q}
      /\ Has(cq'[c], o) <=> Has(cq[c], o) \/ o = q
  BY <1>1, AppendElements DEF Typed, RingsTyped
<1>5. Same(o)
  BY <1>1 DEF Same, operation
<1>6. CASE o = q
  <2>1. At(o, c, "kernel", c, 0)
    BY <1>1, <1>6 DEF At, InContext
  <2>2. At(o, c, "cq", c, 0)'
    BY <1>4, <1>6 DEF At, InContext
  <2>3. Fields(o, c, "cq")'
    BY <1>1, <1>5, <2>1 DEF Good, Fields, Same
  <2>4. \A x \in Context : x # c => \A k : InContext(o, k, x) => k # "kernel"
    <3> SUFFICES ASSUME NEW x \in Context, x # c, InContext(o, "kernel", x) PROVE FALSE
      OBVIOUS
    <3>1. At(o, x, "kernel", x, 0)
      BY DEF At
    <3> QED
      BY <1>1, <2>1, <3>1 DEF Good, OnePlace
  <2>5. \A k : InContext(o, k, c)' => (InContext(o, k, c) /\ k # "kernel") \/ k = "cq"
    BY <1>1, <1>4, <1>6 DEF InContext
  <2>6. /\ \A x \in Client : \A k, i : InFrame(o, k, x, i) => k = "call"
        /\ \A x \in Client : \A e, k : InSubmit(o, e, k, x) => k \in {"staged", "full"}
    BY DEF InFrame, InSubmit
  <2>7. \A d, l, y, j : At(o, d, l, y, j)' =>
          (At(o, d, l, y, j) /\ l # "kernel") \/ (d = c /\ l = "cq" /\ y = c /\ j = 0)
    BY <1>2, <1>3, <2>4, <2>5, <2>6 DEF At, SubmitStays, FramesStay, ContextStays
  <2> QED
    BY <1>1, <2>1, <2>2, <2>3, <2>7, Moves
<1>7. CASE o # q
  <2>1. \A x \in Context : ContextStays(o, x)
    BY <1>1, <1>3, <1>4, <1>7 DEF ContextStays, InContext
  <2> QED
    BY <1>1, <1>2, <1>5, <2>1, Stays
<1> QED
  BY <1>6, <1>7

LEMMA FramesGrow ==
  ASSUME Typed, NEW o, NEW a \in Client, NEW f, frames'[a] = Append(frames[a], f)
  PROVE  \A k, i : InFrame(o, k, a, i)' <=>
                     \/ InFrame(o, k, a, i)
                     \/ k = "call" /\ i = Len(frames[a]) + 1 /\ Has(f.ops, o)
<1>1. frames[a] \in Seq(Frame) /\ Len(frames[a]) \in Nat
  BY DEF Typed, CallsTyped
<1>2. /\ Len(frames'[a]) = Len(frames[a]) + 1
      /\ \A i \in 1 .. Len(frames[a]) : frames'[a][i] = frames[a][i]
      /\ frames'[a][Len(frames[a]) + 1] = f
  BY <1>1
<1>3. \A i : i \in 1 .. Len(frames'[a]) <=>
               i \in 1 .. Len(frames[a]) \/ i = Len(frames[a]) + 1
  BY <1>1, <1>2
<1> QED
  BY <1>1, <1>2, <1>3 DEF InFrame

LEMMA PlacedDrain ==
  ASSUME UringAssumption, Placing, NEW a \in Client, Drain(a), Acts(a), NEW o \in Op
  PROVE  Good(o)'
<1> PICK s, depth : s = on[a] /\ depth = Len(frames[a]) + 1
  OBVIOUS
<1> PICK batch : batch = Drained(a)
  OBVIOUS
<1> PICK f : f = [ctx |-> s, ops |-> batch]
  OBVIOUS
<1>1. /\ Typed /\ Good(o) /\ s \in Context
      /\ \A d \in Context : d # s => cq'[d] = cq[d]
      /\ Has(cq[s], o) <=> Has(cq'[s], o) \/ Has(batch, o)
      /\ ~(Has(cq'[s], o) /\ Has(batch, o))
      /\ IF batch = <<>> THEN UNCHANGED frames
         ELSE frames' = [frames EXCEPT ![a] = Append(frames[a], f)]
      /\ done'[o] = (done[o] \/ Has(batch, o))
      /\ context'[o] = IF Has(batch, o) THEN NoContext ELSE context[o]
      /\ pc[a] = "drain" /\ pc'[a] = "idle"
      /\ UNCHANGED <<sq, kernel, opRefs, in_progress, called, staging>>
  BY DrainElements DEF Placing, AllGood
<1>2. /\ f.ops = batch /\ staging[a] = <<>>
  BY <1>1 DEF Placing, Control, Sound, Submits
<1>3. SubmitStays(o, a)
  BY <1>1, <1>2, SubmitSame
<1>4. \A x \in Client : x # a => SubmitStays(o, x) /\ FramesStay(o, x)
  BY <1>1, OthersPlaces
<1>5. /\ \A x \in Context : x # s => ContextStays(o, x)
      /\ \A k : InContext(o, k, s)' <=>
                  InContext(o, k, s) /\ ~(k = "cq" /\ Has(batch, o))
  BY <1>1, ContextSame DEF InContext
<1>6. \A k, i : InFrame(o, k, a, i)' <=>
                  \/ InFrame(o, k, a, i)
                  \/ k = "call" /\ i = depth /\ Has(batch, o)
  <2>1. CASE batch = <<>>
    <3>1. FramesStay(o, a)
      BY <1>1, <2>1, FramesSame
    <3> QED
      BY <2>1, <3>1, HasEmpty DEF FramesStay
  <2>2. CASE batch # <<>>
    <3>1. frames'[a] = Append(frames[a], f)
      BY <1>1, <2>2 DEF Typed, CallsTyped
    <3> QED
      BY <1>1, <1>2, <3>1, FramesGrow
  <2> QED
    BY <2>1, <2>2
<1>7. CASE Has(batch, o)
  <2>1. At(o, s, "cq", s, 0)
    BY <1>1, <1>7 DEF At, InContext
  <2>2. At(o, NoContext, "call", a, depth)'
    BY <1>6, <1>7 DEF At
  <2>3. Fields(o, NoContext, "call")'
    BY <1>1, <1>7, <2>1 DEF Good, Fields
  <2>4. \A x \in Context : x # s => \A k : InContext(o, k, x) => k # "cq"
    <3> SUFFICES ASSUME NEW x \in Context, x # s, InContext(o, "cq", x) PROVE FALSE
      OBVIOUS
    <3>1. At(o, x, "cq", x, 0)
      BY DEF At
    <3> QED
      BY <1>1, <2>1, <3>1 DEF Good, OnePlace
  <2>5. /\ \A x \in Client : \A k, i : InFrame(o, k, x, i) => k # "cq"
        /\ \A x \in Client : \A e, k : InSubmit(o, e, k, x) => k # "cq"
    BY DEF InFrame, InSubmit
  <2>6. \A d, l, y, j : At(o, d, l, y, j)' =>
          \/ At(o, d, l, y, j) /\ l # "cq"
          \/ d = NoContext /\ l = "call" /\ y = a /\ j = depth
    BY <1>3, <1>4, <1>5, <1>6, <1>7, <2>4, <2>5 DEF At, SubmitStays, FramesStay, ContextStays
  <2> QED
    BY <1>1, <2>1, <2>2, <2>3, <2>6, Moves
<1>8. CASE ~Has(batch, o)
  <2>1. FramesStay(o, a) /\ \A x \in Context : ContextStays(o, x)
    BY <1>5, <1>6, <1>8 DEF FramesStay, ContextStays
  <2>2. Same(o)
    BY <1>1, <1>8 DEF Same, Typed, ObjectsTyped
  <2> QED
    BY <1>1, <1>3, <2>1, <2>2, StaysHere
<1> QED
  BY <1>7, <1>8

LEMMA PlacedReturn ==
  ASSUME UringAssumption, Placing, NEW a \in Client, Returns(a), Acts(a), NEW o \in Op
  PROVE  Good(o)'
<1>1. PICK depth \in Nat \ {0}, ops \in Seq(Op), q \in Op :
        /\ frames[a] \in Seq(Frame) /\ depth = Len(frames[a])
        /\ ops = frames[a][depth].ops /\ ops # <<>> /\ q = Head(ops)
        /\ Once(Tail(ops)) /\ ~Has(Tail(ops), q)
        /\ \A x : Has(ops, x) <=> Has(Tail(ops), x) \/ x = q
        /\ opRefs' = [opRefs EXCEPT ![q] = opRefs[q] - 1]
        /\ called' = [called EXCEPT ![q] = called[q] + 1]
        /\ \/ Tail(ops) = <<>> /\ Len(frames'[a]) = depth - 1
           \/ /\ Tail(ops) # <<>> /\ Len(frames'[a]) = depth
              /\ frames'[a][depth].ops = Tail(ops)
        /\ \A i \in 1 .. depth - 1 : frames'[a][i] = frames[a][i]
        /\ UNCHANGED <<pc, on, todo, staging, sq, sqHead, flushed, poller, hidden, kernel,
                       cq, references, in_progress, done, context, exposed>>
  BY ReturnElements
<1>2. Typed /\ Good(o)
  BY DEF Placing, AllGood
<1>3. /\ SubmitStays(o, a) /\ \A x \in Context : ContextStays(o, x)
      /\ \A x \in Client : x # a => SubmitStays(o, x) /\ FramesStay(o, x)
  BY <1>1, <1>2, OthersPlaces DEF SubmitStays, InSubmit, ContextStays, InContext
<1>4. \A k, i : InFrame(o, k, a, i)' <=>
                  InFrame(o, k, a, i) /\ ~(k = "call" /\ i = depth /\ o = q)
  <2> SUFFICES ASSUME NEW i
               PROVE  (i \in 1 .. Len(frames'[a]) /\ Has(frames'[a][i].ops, o)) <=>
                        /\ i \in 1 .. Len(frames[a]) /\ Has(frames[a][i].ops, o)
                        /\ ~(i = depth /\ o = q)
    BY DEF InFrame
  <2>1. CASE i \in 1 .. depth - 1
    <3>1. /\ i \in 1 .. Len(frames'[a]) /\ i \in 1 .. Len(frames[a]) /\ i # depth
          /\ frames'[a][i] = frames[a][i]
      BY <1>1, <2>1
    <3> QED
      BY <3>1
  <2>2. CASE i = depth
    <3>1. i \in 1 .. Len(frames[a]) /\ (Has(frames[a][i].ops, o) <=> Has(Tail(ops), o) \/ o = q)
      BY <1>1, <2>2
    <3>2. CASE Tail(ops) = <<>> /\ Len(frames'[a]) = depth - 1
      <4>1. ~Has(Tail(ops), o)
        BY <3>2, HasEmpty
      <4>2. i \notin 1 .. Len(frames'[a])
        BY <1>1, <2>2, <3>2
      <4> QED
        BY <2>2, <3>1, <4>1, <4>2
    <3>3. CASE Len(frames'[a]) = depth /\ frames'[a][depth].ops = Tail(ops)
      <4>1. i \in 1 .. Len(frames'[a]) /\ frames'[a][i].ops = Tail(ops)
        BY <2>2, <3>3
      <4> QED
        BY <1>1, <2>2, <3>1, <4>1
    <3> QED
      BY <1>1, <3>2, <3>3
  <2>3. CASE i \notin 1 .. depth
    <3>1. i \notin 1 .. Len(frames[a]) /\ i \notin 1 .. Len(frames'[a])
      BY <1>1, <2>3
    <3> QED
      BY <3>1
  <2>4. i \in 1 .. depth - 1 \/ i = depth \/ i \notin 1 .. depth
    OBVIOUS
  <2> QED
    BY <2>1, <2>2, <2>3, <2>4
<1>5. CASE o = q
  <2>1. At(o, NoContext, "call", a, depth)
    BY <1>1, <1>5 DEF At, InFrame
  <2>2. Fields(o, NoContext, "call")
    BY <1>2, <2>1 DEF Good
  <2>3. /\ context'[o] = NoContext /\ opRefs'[o] = 1 /\ in_progress'[o] /\ done'[o]
        /\ called'[o] = 1
    <3>1. /\ context[o] = NoContext /\ opRefs[o] = 2 /\ in_progress[o] /\ done[o]
          /\ called[o] = 0
      BY <2>2 DEF Fields
    <3>2. opRefs'[o] = opRefs[o] - 1 /\ called'[o] = called[o] + 1
      BY <1>1, <1>2, <1>5 DEF Typed, ObjectsTyped
    <3>3. UNCHANGED <<context, in_progress, done>>
      BY <1>1
    <3> QED
      BY <3>1, <3>2, <3>3
  <2>4. \A x \in Client : \A k, i : InFrame(o, k, x, i) => x = a /\ i = depth /\ k = "call"
    <3> SUFFICES ASSUME NEW x \in Client, NEW k, NEW i, InFrame(o, k, x, i)
                 PROVE  x = a /\ i = depth /\ k = "call"
      OBVIOUS
    <3>1. At(o, NoContext, k, x, i)
      BY DEF At
    <3> QED
      BY <1>2, <2>1, <3>1 DEF Good, OnePlace
  <2>5. \A x \in Client : \A k, i : ~InFrame(o, k, x, i)'
    BY <1>3, <1>4, <1>5, <2>4 DEF FramesStay
  <2>6. /\ \A x \in Client : \A e, k : InSubmit(o, e, k, x) => k # "call"
        /\ \A x \in Context : \A k : InContext(o, k, x) => k # "call"
    BY DEF InSubmit, InContext
  <2>7. \A d, l, y, j : At(o, d, l, y, j)' => At(o, d, l, y, j) /\ l # "call"
    BY <1>3, <2>5, <2>6 DEF At, SubmitStays, ContextStays
  <2> QED
    BY <1>2, <2>1, <2>3, <2>7, Goes
<1>6. CASE o # q
  <2>1. FramesStay(o, a)
    BY <1>4, <1>6 DEF FramesStay
  <2>2. Same(o)
    BY <1>1, <1>2, <1>6 DEF Same, Typed, ObjectsTyped
  <2> QED
    BY <1>2, <1>3, <2>1, <2>2, StaysHere
<1> QED
  BY <1>5, <1>6

(* What a step that touches neither the rings' contents nor the Operations *)
(* leaves alone.                                                           *)
places == <<sq, kernel, cq, opRefs, in_progress, done, context, called, staging, frames>>

LEMMA QuietStep ==
  ASSUME Placing, NEW a \in Client, Acts(a), UNCHANGED places,
         pc[a] # "full", pc'[a] # "full", staging[a] = <<>> \/ on'[a] = on[a], NEW o \in Op
  PROVE  Good(o)'
<1>1. Typed /\ Good(o) /\ Same(o)
  BY DEF Placing, AllGood, places, Same
<1>2. SubmitStays(o, a) /\ FramesStay(o, a) /\ \A x \in Context : ContextStays(o, x)
  BY SubmitSame, FramesSame, ContextSame DEF places
<1> QED
  BY <1>1, <1>2, StaysHere

LEMMA CallGood ==
  ASSUME UringAssumption, Placing, NEW a \in Client, Call(a), NEW o \in Op
  PROVE  Good(o)'
<1>1. Acts(a) /\ Typed /\ Good(o)
  BY DEF Acts, Placing, AllGood
<1>2. pc[a] = "idle"
  BY DEF Call, SubmitBegin, FlushBegin, FlushWakes, ProcessEvents, Cancel, PollCounter,
         Drop, ReadBegin, MayCall
<1>3. staging[a] = <<>> /\ pc[a] # "full"
  BY <1>2 DEF Placing, Control, Sound, Submits
<1>4. ASSUME NEW c \in Context, NEW ops \in Batch, SubmitBegin(a, c, ops) PROVE Good(o)'
  <2>1. UNCHANGED places /\ pc' = [pc EXCEPT ![a] = "submit"]
    BY <1>4 DEF SubmitBegin, places, rings, operation, Enters, Set
  <2>2. pc'[a] # "full"
    BY <1>1, <2>1 DEF Typed, CallsTyped
  <2> QED
    BY <1>1, <1>3, <2>1, <2>2, QuietStep
<1>5. ASSUME NEW c \in Context, FlushBegin(a, c) \/ FlushWakes(a, c) PROVE Good(o)'
  <2>1. UNCHANGED places
    BY <1>5 DEF FlushBegin, FlushWakes, places, rings, operation
  <2>2. pc' = [pc EXCEPT ![a] = "flush-head"] \/ pc' = [pc EXCEPT ![a] = "drain"]
    BY <1>5 DEF FlushBegin, FlushWakes, Enters, Set
  <2>3. pc'[a] # "full"
    BY <1>1, <2>2 DEF Typed, CallsTyped
  <2> QED
    BY <1>1, <1>3, <2>1, <2>3, QuietStep
<1>6. ASSUME NEW c \in Context, NEW min, NEW max, NEW timed,
             ProcessEvents(a, c, min, max, timed)
      PROVE  Good(o)'
  <2>1. UNCHANGED places
    BY <1>6 DEF ProcessEvents, places, rings, operation
  <2>2. pc' = [pc EXCEPT ![a] = IF min = 0 THEN "drain" ELSE "check"]
    BY <1>6 DEF ProcessEvents, Enters, Set
  <2>3. pc'[a] # "full"
    BY <1>1, <2>2 DEF Typed, CallsTyped
  <2> QED
    BY <1>1, <1>3, <2>1, <2>3, QuietStep
<1>7. ASSUME NEW c \in Context, Cancel(a, c) PROVE Good(o)'
  <2>1. /\ sq' = [sq EXCEPT ![c] = Append(sq[c], Sentinel)]
        /\ pc' = [pc EXCEPT ![a] = "cancel"]
        /\ UNCHANGED <<kernel, cq, opRefs, in_progress, done, context, called, staging, frames>>
    BY <1>7 DEF Cancel, Enters, Set, operation
  <2>2. pc'[a] # "full"
    BY <1>1, <2>1 DEF Typed, CallsTyped
  <2>3. SubmitStays(o, a) /\ FramesStay(o, a) /\ Same(o)
    BY <1>3, <2>1, <2>2, SubmitSame, FramesSame DEF Same
  <2>4. /\ \A x \in Context : x # c => sq'[x] = sq[x]
        /\ sq'[c] = Append(sq[c], Sentinel) /\ sq[c] \in Seq(Entry)
    BY <1>1, <2>1 DEF Typed, RingsTyped
  <2>5. Has(sq'[c], o) <=> Has(sq[c], o)
    BY <2>4, EntriesTyped, AppendElements
  <2>6. \A x \in Context : ContextStays(o, x)
    BY <2>1, <2>4, <2>5 DEF ContextStays, InContext
  <2> QED
    BY <1>1, <2>3, <2>6, StaysHere
<1>8. ASSUME NEW c \in Context, PollCounter(a, c) \/ Drop(a, c) PROVE Good(o)'
  <2>1. UNCHANGED places /\ UNCHANGED calls
    BY <1>8 DEF PollCounter, Drop, places, rings, operation, calls
  <2>2. pc'[a] # "full"
    BY <1>3, <2>1 DEF calls
  <2> QED
    BY <1>1, <1>3, <2>1, <2>2, QuietStep
<1>9. ASSUME NEW q \in Op, ReadBegin(a, q) PROVE Good(o)'
  <2>1. UNCHANGED places /\ pc' = [pc EXCEPT ![a] = "read"]
    BY <1>9 DEF ReadBegin, places, rings, operation, Enters, Set
  <2>2. pc'[a] # "full"
    BY <1>1, <2>1 DEF Typed, CallsTyped
  <2> QED
    BY <1>1, <1>3, <2>1, <2>2, QuietStep
<1> QED
  BY <1>4, <1>5, <1>6, <1>7, <1>8, <1>9 DEF Call

LEMMA ProceedGood ==
  ASSUME UringAssumption, Placing, NEW a \in Client, Proceed(a), NEW o \in Op
  PROVE  Good(o)'
<1>1. Acts(a) /\ Typed /\ Good(o)
  BY DEF Acts, Placing, AllGood
<1>2. ASSUME NEW q \in Op, Skip(a, q) PROVE Good(o)'
  <2>1. UNCHANGED places /\ UNCHANGED <<pc, on>> /\ pc[a] = "submit"
    BY <1>2 DEF Skip, NextInBatch, places, rings, operation
  <2> QED
    BY <1>1, <2>1, QuietStep
<1>3. ASSUME FlushReadsHead(a) \/ FlushFails(a) \/ WaitChecks(a) \/ WaitFails(a)
               \/ WaitWakes(a) \/ WaitReads(a) \/ ReadEnd(a)
      PROVE  Good(o)'
  <2>1. UNCHANGED places
    BY <1>3 DEF FlushReadsHead, FlushFails, WaitChecks, WaitFails, WaitWakes, WaitReads,
                ReadEnd, places, rings, operation
  <2>2. pc[a] \in {"flush-head", "flush", "check", "sleep", "woken", "read"}
    BY <1>3 DEF FlushReadsHead, FlushFails, WaitChecks, WaitFails, WaitWakes, WaitReads,
                ReadEnd
  <2>3. staging[a] = <<>> /\ pc[a] # "full"
    BY <2>2 DEF Placing, Control, Sound, Submits
  <2>4. \E v \in {"idle", "flush", "check", "sleep", "woken", "drain"} :
          pc' = [pc EXCEPT ![a] = v]
    BY <1>3 DEF FlushReadsHead, FlushFails, WaitChecks, WaitFails, WaitWakes, WaitReads,
                ReadEnd, Leaves, Enters, Set
  <2>5. pc'[a] # "full"
    BY <1>1, <2>4 DEF Typed, CallsTyped
  <2> QED
    BY <1>1, <2>1, <2>3, <2>5, QuietStep
<1>4. ASSUME FlushEnters(a) \/ CancelEnters(a) PROVE Good(o)'
  <2> PICK c : c = on[a]
    OBVIOUS
  <2>1. c \in Context /\ \E k \in 0 .. Len(sq[c]) : Consumes(c, k)
    BY <1>1, <1>4, EnterConsumes, CancelConsumes DEF Placing
  <2>2. PICK k \in 0 .. Len(sq[c]) : Consumes(c, k)
    BY <2>1
  <2>3. UNCHANGED <<operation, staging, frames>> /\ pc[a] \in {"flush", "cancel"}
    BY <1>4 DEF FlushEnters, CancelEnters
  <2>4. staging[a] = <<>> /\ pc[a] # "full"
    BY <2>3 DEF Placing, Control, Sound, Submits
  <2>5. pc'[a] # "full"
    <3>1. CASE FlushEnters(a)
      <4>1. pc' = pc \/ pc' = [pc EXCEPT ![a] = "drain"]
        BY <1>1, <3>1, EnterConsumes DEF Placing
      <4> QED
        BY <1>1, <2>4, <4>1 DEF Typed, CallsTyped
    <3>2. CASE CancelEnters(a)
      <4>1. pc' = [pc EXCEPT ![a] = "idle"]
        BY <3>2 DEF CancelEnters, Leaves, Enters, Set
      <4> QED
        BY <1>1, <4>1 DEF Typed, CallsTyped
    <3> QED
      BY <1>4, <3>1, <3>2
  <2>6. Same(o) /\ SubmitStays(o, a) /\ FramesStay(o, a)
    BY <2>3, <2>4, <2>5, SubmitSame, FramesSame DEF Same, operation
  <2>7. \A x \in Client : SubmitStays(o, x) /\ FramesStay(o, x)
    BY <1>1, <2>6, OthersPlaces
  <2> QED
    BY <2>1, <2>2, <2>6, <2>7, PlacedConsumes
<1>5. ASSUME Drain(a) PROVE Good(o)'
  BY <1>1, <1>5, PlacedDrain
<1> QED
  BY <1>1, <1>2, <1>3, <1>4, <1>5, PlacedStage, PlacedFull, PlacedCommit DEF Proceed

LEMMA KernelGood ==
  ASSUME UringAssumption, Placing, NEW c \in Context, Kernel(c), NEW o \in Op
  PROVE  Good(o)'
<1>1. Typed /\ Good(o)
  BY DEF Placing, AllGood
<1>2. UNCHANGED <<calls, operation>>
  BY KernelCalls
<1>3. Same(o) /\ \A x \in Client : SubmitStays(o, x) /\ FramesStay(o, x)
  BY <1>2 DEF Same, operation, calls, SubmitStays, FramesStay, InSubmit, InFrame
<1>4. ASSUME PollerTakes(c) PROVE Good(o)'
  <2>1. Len(sq[c]) \in Nat /\ hidden[c] \in Nat
    BY <1>1 DEF Typed, RingsTyped
  <2>2. Consumes(c, 1) /\ 1 \in 0 .. Len(sq[c])
    BY <1>4, <2>1 DEF PollerTakes, Visible
  <2> QED
    BY <1>3, <2>2, PlacedConsumes
<1>5. ASSUME PollerRests(c) \/ StoreVisible(c) PROVE Good(o)'
  <2>1. UNCHANGED <<sq, kernel, cq>>
    BY <1>5 DEF PollerRests, StoreVisible
  <2>2. \A x \in Context : ContextStays(o, x)
    BY <2>1, ContextSame
  <2> QED
    BY <1>1, <1>3, <2>2, Stays
<1> QED
  BY <1>4, <1>5, PlacedComplete DEF Kernel

LEMMA NextGood ==
  ASSUME UringAssumption, Placing, [Next]_vars
  PROVE  AllGood'
<1> SUFFICES ASSUME NEW o \in Op PROVE Good(o)'
  BY DEF AllGood
<1>1. CASE Next
  BY <1>1, CallGood, ProceedGood, PlacedReturn, KernelGood DEF Next, Acts
<1>2. CASE UNCHANGED vars
  <2>1. /\ UNCHANGED places /\ UNCHANGED <<pc, on, todo>>
        /\ Good(o)
    BY <1>2 DEF vars, rings, operation, calls, places, Placing, AllGood
  <2>2. Same(o) /\ (\A x \in Client : SubmitStays(o, x) /\ FramesStay(o, x))
    BY <2>1 DEF Same, places, SubmitStays, FramesStay, InSubmit, InFrame
  <2>3. \A x \in Context : ContextStays(o, x)
    BY <2>1, ContextSame DEF places
  <2> QED
    BY <2>1, <2>2, <2>3, Stays
<1> QED
  BY <1>1, <1>2
-----------------------------------------------------------------------------
LEMMA PlacingInvariance == Spec => []Placing
<1>1. Init => Placing
  BY UringAssumption, InitTyped, InitControl, InitPlacing DEF Placing
<1>2. Placing /\ [Next]_vars => Placing'
  BY UringAssumption, NextTyped, NextControl, NextNoRepeats, NextGood DEF Placing
<1> QED
  BY <1>1, <1>2, PTL DEF Spec

LEMMA FilledInvariance == Spec => []Filled
<1>1. Init => Filled
  BY UringAssumption, InitFilled
<1>2. Typed /\ Control /\ Filled /\ [Next]_vars => Filled'
  BY UringAssumption, NextFilled
<1>3. Placing => Typed /\ Control
  BY DEF Placing
<1> QED
  BY <1>1, <1>2, <1>3, PlacingInvariance, PTL DEF Spec

(* A Context is held by the program and by the Operations that refer to    *)
(* it.                                                                     *)
LEMMA InitHeld == UringAssumption /\ Init => Held
<1> SUFFICES ASSUME UringAssumption, Init, NEW c \in Context
             PROVE  ctxRefs[c] = (IF handle[c] THEN 1 ELSE 0) + Cardinality(Referring(c))
  BY DEF Held
<1>1. Referring(c) = {}
  BY DEF Init, InitOperation, Referring, UringAssumption
<1> QED
  BY <1>1, FS_EmptySet DEF Init, InitContext

LEMMA StageHeld ==
  ASSUME UringAssumption, IsFiniteSet(Op), Placing, Held, NEW a \in Client, NEW o \in Op,
         Stage(a, o), NEW c \in Context
  PROVE  ctxRefs'[c] = (IF handle'[c] THEN 1 ELSE 0) + Cardinality(Referring(c)')
<1> PICK s : s = on[a]
  OBVIOUS
<1>1. Typed /\ Good(o) /\ c # NoContext
  BY DEF Placing, AllGood, UringAssumption
<1>2. /\ context' = [context EXCEPT ![o] = s] /\ handle' = handle
      /\ ctxRefs' = [ctxRefs EXCEPT ![s] = ctxRefs[s] + 1] /\ ~in_progress[o]
  BY DEF Stage, Claim, HoldsContext, Set
<1>3. s \in Context
  BY DEF Placing, Control, Sound, Stage, NextInBatch
<1>4. context[o] = NoContext
  BY <1>1, <1>2, FreeIsNowhere DEF Good
<1>5. IsFiniteSet(Referring(c)) /\ Cardinality(Referring(c)) \in Nat /\ o \notin Referring(c)
  <2>1. Referring(c) \subseteq Op /\ o \notin Referring(c)
    BY <1>1, <1>4 DEF Referring
  <2> QED
    BY <2>1, FS_Subset, FS_CardinalityType
<1>6. ctxRefs[c] = (IF handle[c] THEN 1 ELSE 0) + Cardinality(Referring(c))
  BY DEF Held
<1>7. CASE s = c
  <2>1. Referring(c)' = Referring(c) \cup {o}
    BY <1>1, <1>2, <1>7 DEF Referring, Typed, ObjectsTyped
  <2>2. Cardinality(Referring(c) \cup {o}) = Cardinality(Referring(c)) + 1
    BY <1>5, FS_AddElement
  <2>3. ctxRefs'[c] = ctxRefs[c] + 1
    BY <1>1, <1>2, <1>7 DEF Typed, ObjectsTyped
  <2> QED
    BY <1>2, <1>5, <1>6, <2>1, <2>2, <2>3
<1>8. CASE s # c
  <2>1. Referring(c)' = Referring(c)
    BY <1>1, <1>2, <1>4, <1>8 DEF Referring, Typed, ObjectsTyped
  <2>2. ctxRefs'[c] = ctxRefs[c]
    BY <1>1, <1>2, <1>8 DEF Typed, ObjectsTyped
  <2> QED
    BY <1>2, <1>6, <2>1, <2>2
<1> QED
  BY <1>7, <1>8

LEMMA DrainHeld ==
  ASSUME UringAssumption, IsFiniteSet(Op), Placing, Held, NEW a \in Client, Drain(a),
         NEW c \in Context
  PROVE  ctxRefs'[c] = (IF handle'[c] THEN 1 ELSE 0) + Cardinality(Referring(c)')
<1> PICK s : s = on[a]
  OBVIOUS
<1> PICK batch : batch = Drained(a)
  OBVIOUS
<1> DEFINE settled == {o \in Op : Has(batch, o)}
<1>1. Typed /\ (\A o \in Op : Good(o)) /\ c # NoContext
  BY DEF Placing, AllGood, UringAssumption
<1>2. /\ s \in Context /\ batch \in Seq(Op) /\ Once(batch)
      /\ \A o \in Op : Has(batch, o) => Has(cq[s], o)
      /\ context' = [o \in Op |-> IF Has(batch, o) THEN NoContext ELSE context[o]]
      /\ ctxRefs' = [ctxRefs EXCEPT ![s] = ctxRefs[s] - Len(batch)]
      /\ handle' = handle
  <2>1. /\ on[a] \in Context /\ Drained(a) \in Seq(Op) /\ Once(Drained(a))
        /\ \A o \in Op : Has(Drained(a), o) => Has(cq[on[a]], o)
        /\ context' = [o \in Op |-> IF Has(Drained(a), o) THEN NoContext ELSE context[o]]
        /\ ctxRefs' = [ctxRefs EXCEPT ![on[a]] = ctxRefs[on[a]] - Len(Drained(a))]
        /\ handle' = handle
    BY DrainElements
  <2> QED
    BY <2>1
<1>3. \A o \in settled : context[o] = s
  <2> SUFFICES ASSUME NEW o \in Op, Has(batch, o) PROVE context[o] = s
    OBVIOUS
  <2>1. At(o, s, "cq", s, 0)
    BY <1>2 DEF At, InContext
  <2> QED
    BY <1>1, <2>1 DEF Good, Fields
<1>4. Referring(c)' = Referring(c) \ settled
  BY <1>1, <1>2 DEF Referring
<1>5. IsFiniteSet(settled) /\ Cardinality(settled) = Len(batch)
  BY <1>2, LengthOnce
<1>6. IsFiniteSet(Referring(c)) /\ Cardinality(Referring(c)) \in Nat
  <2>1. Referring(c) \subseteq Op
    BY DEF Referring
  <2> QED
    BY <2>1, FS_Subset, FS_CardinalityType
<1>7. ctxRefs[c] = (IF handle[c] THEN 1 ELSE 0) + Cardinality(Referring(c))
  BY DEF Held
<1>8. CASE s = c
  <2>1. Referring(c) \cap settled = settled
    BY <1>3, <1>8 DEF Referring
  <2> HIDE DEF settled
  <2>2. Cardinality(Referring(c) \ settled) = Cardinality(Referring(c)) - Cardinality(settled)
    BY <1>6, <2>1, FS_Difference
  <2>3. ctxRefs'[c] = ctxRefs[c] - Len(batch) /\ Len(batch) \in Nat
    BY <1>1, <1>2, <1>8 DEF Typed, ObjectsTyped
  <2> QED
    BY <1>2, <1>4, <1>5, <1>6, <1>7, <2>2, <2>3
<1>9. CASE s # c
  <2>1. Referring(c)' = Referring(c)
    BY <1>3, <1>4, <1>9 DEF Referring
  <2>2. ctxRefs'[c] = ctxRefs[c]
    BY <1>1, <1>2, <1>9 DEF Typed, ObjectsTyped
  <2> QED
    BY <1>2, <1>7, <2>1, <2>2
<1> QED
  BY <1>8, <1>9

LEMMA NextHeld ==
  ASSUME UringAssumption, IsFiniteSet(Op), Placing, Held, [Next]_vars
  PROVE  Held'
<1> SUFFICES ASSUME NEW c \in Context
             PROVE  ctxRefs'[c] = (IF handle'[c] THEN 1 ELSE 0) + Cardinality(Referring(c)')
  BY DEF Held
<1>1. Typed /\ Cardinality(Referring(c)) \in Nat
      /\ ctxRefs[c] = (IF handle[c] THEN 1 ELSE 0) + Cardinality(Referring(c))
  <2>1. Referring(c) \subseteq Op
    BY DEF Referring
  <2> QED
    BY <2>1, FS_Subset, FS_CardinalityType DEF Held, Placing
<1>2. ASSUME UNCHANGED <<context, ctxRefs, handle>>
      PROVE  ctxRefs'[c] = (IF handle'[c] THEN 1 ELSE 0) + Cardinality(Referring(c)')
  <2>1. Referring(c)' = Referring(c)
    BY <1>2 DEF Referring
  <2> QED
    BY <1>1, <1>2, <2>1
<1>3. ASSUME NEW a \in Client, NEW d \in Context, Drop(a, d)
      PROVE  ctxRefs'[c] = (IF handle'[c] THEN 1 ELSE 0) + Cardinality(Referring(c)')
  <2>1. Referring(c)' = Referring(c)
    BY <1>3 DEF Referring, Drop, operation
  <2>2. /\ ctxRefs' = [ctxRefs EXCEPT ![d] = ctxRefs[d] - 1]
        /\ handle' = [handle EXCEPT ![d] = FALSE] /\ handle[d]
    BY <1>3 DEF Drop, Set
  <2>3. CASE d = c
    <3>1. ctxRefs'[c] = ctxRefs[c] - 1 /\ ~handle'[c] /\ handle[c]
      BY <1>1, <2>2, <2>3 DEF Typed, ObjectsTyped
    <3> QED
      BY <1>1, <2>1, <3>1
  <2>4. CASE d # c
    <3>1. ctxRefs'[c] = ctxRefs[c] /\ handle'[c] = handle[c]
      BY <1>1, <2>2, <2>4 DEF Typed, ObjectsTyped
    <3> QED
      BY <1>1, <2>1, <3>1
  <2> QED
    BY <2>3, <2>4
<1>4. ASSUME NEW a \in Client, Call(a)
      PROVE  ctxRefs'[c] = (IF handle'[c] THEN 1 ELSE 0) + Cardinality(Referring(c)')
  <2>1. CASE \E d \in Context : Drop(a, d)
    BY <1>3, <2>1
  <2>2. CASE ~\E d \in Context : Drop(a, d)
    <3>1. UNCHANGED <<context, ctxRefs, handle>>
      BY <1>4, <2>2 DEF Call, SubmitBegin, FlushBegin, FlushWakes, ProcessEvents, Cancel,
         PollCounter, ReadBegin, references, operation
    <3> QED
      BY <1>2, <3>1
  <2> QED
    BY <2>1, <2>2
<1>5. ASSUME NEW a \in Client, Proceed(a)
      PROVE  ctxRefs'[c] = (IF handle'[c] THEN 1 ELSE 0) + Cardinality(Referring(c)')
  <2>1. CASE Drain(a)
    BY <2>1, DrainHeld
  <2>2. CASE \E o \in Op : Stage(a, o)
    BY <2>2, StageHeld
  <2>3. CASE \E o \in Op : Skip(a, o) \/ Full(a, o)
    <3>1. UNCHANGED <<context, ctxRefs, handle>>
      BY <2>3 DEF Skip, Full, references, operation
    <3> QED
      BY <1>2, <3>1
  <2>4. CASE SubmitRaises(a) \/ SubmitEnd(a)
    <3>1. UNCHANGED <<context, ctxRefs, handle>>
      BY <2>4 DEF SubmitRaises, SubmitEnd, Commit, references
    <3> QED
      BY <1>2, <3>1
  <2>5. CASE FlushReadsHead(a) \/ FlushEnters(a) \/ FlushFails(a) \/ CancelEnters(a)
               \/ WaitChecks(a) \/ WaitFails(a) \/ WaitWakes(a) \/ WaitReads(a) \/ ReadEnd(a)
    <3>1. UNCHANGED <<context, ctxRefs, handle>>
      BY <2>5 DEF FlushReadsHead, FlushEnters, FlushFails, CancelEnters, WaitChecks,
         WaitFails, WaitWakes, WaitReads, ReadEnd, references, operation
    <3> QED
      BY <1>2, <3>1
  <2> QED
    BY <1>5, <2>1, <2>2, <2>3, <2>4, <2>5 DEF Proceed
<1>6. ASSUME NEW a \in Client, Returns(a)
      PROVE  ctxRefs'[c] = (IF handle'[c] THEN 1 ELSE 0) + Cardinality(Referring(c)')
  BY <1>2, <1>6 DEF Returns, CallbackReturns, references
<1>7. ASSUME NEW d \in Context, Kernel(d)
      PROVE  ctxRefs'[c] = (IF handle'[c] THEN 1 ELSE 0) + Cardinality(Referring(c)')
  <2>1. UNCHANGED <<context, ctxRefs, handle>>
    BY <1>7, KernelCalls DEF references, operation
  <2> QED
    BY <1>2, <2>1
<1>8. CASE UNCHANGED vars
  BY <1>2, <1>8 DEF vars, references, operation
<1> QED
  BY <1>4, <1>5, <1>6, <1>7, <1>8 DEF Next

LEMMA HeldInvariance ==
  ASSUME IsFiniteSet(Op)
  PROVE  Spec => []Held
<1>1. Init => Held
  BY UringAssumption, InitHeld
<1>2. Placing /\ Held /\ [Next]_vars => Held'
  BY UringAssumption, NextHeld
<1> QED
  BY <1>1, <1>2, PlacingInvariance, PTL DEF Spec

-----------------------------------------------------------------------------
(* What a flush() has handed over stays handed over, where a store to      *)
(* sq_tail is visible to whoever looks after it.                           *)
Ordered == \A c \in Context : sqpoll[c] => ~StoreBuffer
Reached ==
  /\ Ordered
  /\ \A c \in Context : /\ hidden[c] = 0
                        /\ \/ flushed[c] <= sqHead[c]
                           \/ sqpoll[c] /\ poller[c] # "asleep"

LEMMA InitReached ==
  ASSUME UringAssumption, StoreBuffer => TRUE \notin MaySqpoll, Init
  PROVE  Reached
<1>1. ASSUME NEW c \in Context, sqpoll[c] PROVE ~StoreBuffer
  <2>1. sqpoll[c] \in MaySqpoll /\ sqpoll[c] \in BOOLEAN
    BY DEF Init, InitContext, UringAssumption
  <2>2. sqpoll[c] = TRUE
    BY <1>1, <2>1
  <2> QED
    BY <2>1, <2>2
<1>2. \A c \in Context : hidden[c] = 0 /\ flushed[c] = 0 /\ sqHead[c] = 0
  BY DEF Init, InitContext
<1> QED
  BY <1>1, <1>2 DEF Reached, Ordered

(* The head of a ring only moves on, ...                                   *)
LEMMA HeadStays ==
  ASSUME UringAssumption, Typed, Control, Reached, Next, NEW c \in Context,
         hidden'[c] = hidden[c] \/ hidden'[c] = 0,
         flushed'[c] = flushed[c], poller'[c] = poller[c], sqpoll' = sqpoll
  PROVE  /\ hidden'[c] = 0
         /\ \/ flushed'[c] <= sqHead'[c]
            \/ sqpoll'[c] /\ poller'[c] # "asleep"
<1>1. /\ hidden[c] = 0
      /\ flushed[c] <= sqHead[c] \/ (sqpoll[c] /\ poller[c] # "asleep")
  BY DEF Reached
<1>2. flushed[c] \in Nat
  BY DEF Typed, RingsTyped
<1>3. sqHead'[c] \in Nat /\ sqHead[c] \in Nat /\ sqHead'[c] >= sqHead[c]
  BY HeadMoves
<1> QED
  BY <1>1, <1>2, <1>3

LEMMA CallReached ==
  ASSUME UringAssumption, Typed, Control, Reached, Next, NEW a \in Client, Call(a),
         NEW c \in Context
  PROVE  /\ hidden'[c] = 0
         /\ \/ flushed'[c] <= sqHead'[c]
            \/ sqpoll'[c] /\ poller'[c] # "asleep"
<1>1. /\ sqpoll' = sqpoll /\ hidden[c] = 0 /\ (sqpoll[c] => ~StoreBuffer)
      /\ hidden \in [Context -> Nat] /\ flushed \in [Context -> Nat]
      /\ poller \in [Context -> {"awake", "drowsy", "asleep"}]
  BY DEF Call, Reached, Ordered, Typed, RingsTyped
<1>2. ASSUME NEW d \in Context, FlushWakes(a, d)
      PROVE  /\ hidden'[c] = 0
             /\ \/ flushed'[c] <= sqHead'[c]
                \/ sqpoll'[c] /\ poller'[c] # "asleep"
  <2>1. /\ poller' = [poller EXCEPT ![d] = "awake"] /\ sqpoll[d]
        /\ flushed' = [flushed EXCEPT ![d] = sqHead[d] + Len(sq[d])]
    BY <1>2 DEF FlushWakes, Set, Wakes
  <2>2. hidden'[c] = 0
    BY <1>1, <1>2 DEF FlushWakes, EmptiesBuffer
  <2>3. CASE c = d
    BY <1>1, <2>1, <2>2, <2>3
  <2>4. CASE c # d
    <3>1. flushed'[c] = flushed[c] /\ poller'[c] = poller[c]
      BY <1>1, <2>1, <2>4
    <3> QED
      BY <1>1, <2>2, <3>1, HeadStays
  <2> QED
    BY <2>3, <2>4
<1>3. ASSUME NEW d \in Context, Cancel(a, d)
      PROVE  /\ hidden'[c] = 0
             /\ \/ flushed'[c] <= sqHead'[c]
                \/ sqpoll'[c] /\ poller'[c] # "asleep"
  <2>1. StoresTail(a, d, 1) /\ UNCHANGED <<flushed, poller>>
    BY <1>3 DEF Cancel
  <2>2. ~(sqpoll[d] /\ StoreBuffer)
    BY DEF Reached, Ordered
  <2>3. hidden'[c] = 0
    BY <1>1, <2>1, <2>2 DEF StoresTail
  <2> QED
    BY <1>1, <2>1, <2>3, HeadStays
<1>4. CASE ~\E d \in Context : FlushWakes(a, d) \/ Cancel(a, d)
  <2>1. UNCHANGED <<hidden, flushed, poller>>
    BY <1>4 DEF Call, SubmitBegin, FlushBegin, ProcessEvents, PollCounter, Drop, ReadBegin,
       rings
  <2> QED
    BY <1>1, <2>1, HeadStays
<1> QED
  BY <1>2, <1>3, <1>4

LEMMA EnterReached ==
  ASSUME UringAssumption, Typed, Control, Filled, Reached, Next, NEW a \in Client,
         FlushEnters(a), sqpoll' = sqpoll, NEW c \in Context
  PROVE  /\ hidden'[c] = 0
         /\ \/ flushed'[c] <= sqHead'[c]
            \/ sqpoll'[c] /\ poller'[c] # "asleep"
<1> PICK s : s = on[a]
  OBVIOUS
<1>1. /\ s \in Context
      /\ \E k \in 0 .. Len(sq[s]) :
           /\ k \in Submittable(s, arg[a].n) /\ Consumes(s, k)
           /\ arg' = [arg EXCEPT ![a] = [arg[a] EXCEPT !.n = arg[a].n - k]]
           /\ IF arg[a].n - k # 0 THEN UNCHANGED <<pc, flushed>>
              ELSE /\ pc' = [pc EXCEPT ![a] = "drain"]
                   /\ flushed' = [flushed EXCEPT ![s] =
                                    IF arg[a].goal > flushed[s] THEN arg[a].goal
                                    ELSE flushed[s]]
  BY EnterConsumes
<1>2. PICK k \in 0 .. Len(sq[s]) :
        /\ Consumes(s, k)
        /\ IF arg[a].n - k # 0 THEN UNCHANGED <<pc, flushed>>
           ELSE /\ pc' = [pc EXCEPT ![a] = "drain"]
                /\ flushed' = [flushed EXCEPT ![s] =
                                 IF arg[a].goal > flushed[s] THEN arg[a].goal
                                 ELSE flushed[s]]
  BY <1>1
<1>3. UNCHANGED <<hidden, poller>>
  BY DEF FlushEnters
<1>4. flushed \in [Context -> Nat] /\ k \in Nat
  BY <1>1 DEF Typed, RingsTyped
<1>5. CASE flushed'[c] = flushed[c]
  BY <1>3, <1>5, HeadStays
<1>6. CASE flushed'[c] # flushed[c]
  <2>1. /\ c = s /\ arg[a].n - k = 0
        /\ flushed'[s] = IF arg[a].goal > flushed[s] THEN arg[a].goal ELSE flushed[s]
    BY <1>1, <1>2, <1>4, <1>6
  <2>2. flushed'[s] = arg[a].goal
    BY <1>6, <2>1
  <2>3. /\ arg[a].goal \in Nat /\ arg[a].n \in Int
    BY DEF Typed, CallsTyped, Numbers
  <2>4. pc[a] = "flush"
    BY DEF FlushEnters
  <2>5. arg[a].goal <= sqHead[s] + arg[a].n
    BY <2>4 DEF Filled, Flushes
  <2>6. sqHead[s] \in Nat
    BY <1>1 DEF Typed, RingsTyped
  <2>7. sqHead'[s] = sqHead[s] + k
    BY <1>1, <1>2, ConsumesTyped
  <2>8. flushed'[s] <= sqHead'[s]
    BY <1>4, <2>1, <2>2, <2>3, <2>5, <2>6, <2>7
  <2>9. hidden'[c] = 0
    BY <1>3 DEF Reached
  <2> QED
    BY <2>1, <2>8, <2>9
<1> QED
  BY <1>5, <1>6

LEMMA ProceedReached ==
  ASSUME UringAssumption, Typed, Control, Filled, Reached, Next, NEW a \in Client, Proceed(a),
         NEW c \in Context
  PROVE  /\ hidden'[c] = 0
         /\ \/ flushed'[c] <= sqHead'[c]
            \/ sqpoll'[c] /\ poller'[c] # "asleep"
<1>1. /\ sqpoll' = sqpoll /\ hidden[c] = 0
      /\ hidden \in [Context -> Nat]
  BY DEF Proceed, Reached, Typed, RingsTyped
<1>2. CASE FlushEnters(a)
  BY <1>1, <1>2, EnterReached
<1>3. CASE SubmitRaises(a) \/ SubmitEnd(a)
  <2>1. StoresTail(a, on[a], Len(staging[a])) /\ UNCHANGED <<flushed, poller>>
    BY <1>3 DEF SubmitRaises, SubmitEnd, Commit
  <2>2. on[a] \in Context
    BY <1>3 DEF SubmitRaises, SubmitEnd, Control, Sound
  <2>3. ~(sqpoll[on[a]] /\ StoreBuffer)
    BY <2>2 DEF Reached, Ordered
  <2>4. hidden'[c] = 0
    BY <1>1, <2>1, <2>3 DEF StoresTail
  <2> QED
    BY <1>1, <2>1, <2>4, HeadStays
<1>4. CASE CancelEnters(a)
  <2>1. EmptiesBuffer(a) /\ UNCHANGED <<flushed, poller>>
    BY <1>4 DEF CancelEnters
  <2>2. hidden'[c] = 0
    BY <1>1, <2>1 DEF EmptiesBuffer
  <2> QED
    BY <1>1, <2>1, <2>2, HeadStays
<1>5. CASE \/ \E o \in Op : Skip(a, o) \/ Stage(a, o) \/ Full(a, o)
           \/ FlushReadsHead(a) \/ FlushFails(a) \/ WaitChecks(a) \/ WaitFails(a)
           \/ WaitWakes(a) \/ WaitReads(a) \/ Drain(a) \/ ReadEnd(a)
  <2>1. UNCHANGED <<hidden, flushed, poller>>
    BY <1>5 DEF Skip, Stage, Full, FlushReadsHead, FlushFails, WaitChecks, WaitFails,
       WaitWakes, WaitReads, Drain, ReadEnd, rings
  <2> QED
    BY <1>1, <2>1, HeadStays
<1> QED
  BY <1>2, <1>3, <1>4, <1>5 DEF Proceed

LEMMA KernelReached ==
  ASSUME UringAssumption, Typed, Control, Filled, Reached, Next, NEW d \in Context, Kernel(d),
         NEW c \in Context
  PROVE  /\ hidden'[c] = 0
         /\ \/ flushed'[c] <= sqHead'[c]
            \/ sqpoll'[c] /\ poller'[c] # "asleep"
<1>1. /\ sqpoll' = sqpoll /\ flushed' = flushed /\ hidden[c] = 0
      /\ hidden \in [Context -> Nat] /\ flushed[c] \in Nat /\ sqHead[c] \in Nat
      /\ sq[c] \in Seq(Entry) /\ poller \in [Context -> {"awake", "drowsy", "asleep"}]
  BY KernelCalls DEF Reached, Typed, RingsTyped
<1>2. CASE \/ \E o \in Op : Complete(d, o)
           \/ PollerTakes(d)
  <2>1. UNCHANGED <<hidden, poller>>
    BY <1>2 DEF Complete, PollerTakes
  <2> QED
    BY <1>1, <2>1, HeadStays
<1>3. CASE StoreVisible(d)
  <2>1. hidden' = [hidden EXCEPT ![d] = 0] /\ poller' = poller
    BY <1>3 DEF StoreVisible, Set
  <2>2. hidden'[c] = 0
    BY <1>1, <2>1
  <2> QED
    BY <1>1, <2>1, <2>2, HeadStays
<1>4. CASE PollerRests(d)
  <2>1. UNCHANGED <<hidden, sq, sqHead>>
    BY <1>4 DEF PollerRests
  <2>2. CASE poller'[c] = poller[c]
    BY <1>1, <2>1, <2>2, HeadStays
  <2>3. CASE poller'[c] # poller[c]
    <3>1. c = d /\ sqpoll[c]
      BY <1>1, <1>4, <2>3 DEF PollerRests, Set
    <3>2. CASE poller'[c] # "asleep"
      BY <1>1, <2>1, <3>1, <3>2
    <3>3. CASE poller'[c] = "asleep"
      <4>1. ~(Visible(c) > 0)
        BY <1>1, <1>4, <2>3, <3>1, <3>3 DEF PollerRests, Set
      <4>2. Len(sq[c]) = 0
        BY <1>1, <4>1 DEF Visible
      <4>3. flushed[c] <= sqHead[c] + Len(sq[c])
        BY DEF Filled, Fits
      <4> QED
        BY <1>1, <2>1, <4>2, <4>3
    <3> QED
      BY <3>2, <3>3
  <2> QED
    BY <2>2, <2>3
<1> QED
  BY <1>2, <1>3, <1>4 DEF Kernel

LEMMA NextReached ==
  ASSUME UringAssumption, Typed, Control, Filled, Reached, [Next]_vars
  PROVE  Reached'
<1>1. sqpoll' = sqpoll
  BY DEF Next, Call, Proceed, Returns, Kernel, vars
<1>2. Ordered'
  BY <1>1 DEF Ordered, Reached
<1>3. ASSUME NEW c \in Context
      PROVE  /\ hidden'[c] = 0
             /\ \/ flushed'[c] <= sqHead'[c]
                \/ sqpoll'[c] /\ poller'[c] # "asleep"
  <2>1. CASE UNCHANGED vars
    BY <2>1 DEF vars, rings, Reached
  <2>2. ASSUME NEW a \in Client, Returns(a), Next
        PROVE  /\ hidden'[c] = 0
               /\ \/ flushed'[c] <= sqHead'[c]
                  \/ sqpoll'[c] /\ poller'[c] # "asleep"
    <3>1. UNCHANGED <<hidden, flushed, poller>>
      BY <2>2 DEF Returns, CallbackReturns, rings
    <3> QED
      BY <1>1, <2>2, <3>1, HeadStays
  <2>3. CASE Next
    BY <2>2, <2>3, CallReached, ProceedReached, KernelReached DEF Next
  <2> QED
    BY <2>1, <2>3
<1> QED
  BY <1>2, <1>3 DEF Reached

(* What a flush() has seen to is with the kernel, or the kernel's thread   *)
(* is awake and takes it: this needs that no store to sq_tail is seen      *)
(* later than the look at the thread's flag.  Where flush() asks the       *)
(* kernel itself it always holds.                                          *)
THEOREM FlushedEntriesReachTheKernel ==
  ASSUME StoreBuffer => TRUE \notin MaySqpoll
  PROVE  Spec => []FlushReaches
<1>1. Init => Reached
  BY UringAssumption, InitReached
<1>2. Typed /\ Control /\ Filled /\ Reached /\ [Next]_vars => Reached'
  BY UringAssumption, NextReached
<1>3. Placing => Typed /\ Control
  BY DEF Placing
<1>4. Reached => FlushReaches
  BY DEF Reached, FlushReaches
<1> QED
  BY <1>1, <1>2, <1>3, <1>4, PlacingInvariance, FilledInvariance, PTL DEF Spec

-----------------------------------------------------------------------------
(* The places of an Operation that is in flight for a Context; the sets    *)
(* and counts of the properties are those of such places.                  *)
Flights == {"staged", "sq", "kernel", "cq"}
InFlightAt(o, c) == \E k \in Flights : \E x, i : At(o, c, k, x, i)
CalledBackAt(o) == \E x, i : At(o, NoContext, "call", x, i)

LEMMA SingleOrNone ==
  ASSUME NEW S, \A e, f \in S : e = f
  PROVE  Cardinality(S) = IF S = {} THEN 0 ELSE 1
<1>1. CASE S = {}
  BY <1>1, FS_EmptySet
<1>2. CASE S # {}
  <2>1. PICK e \in S : TRUE
    BY <1>2
  <2>2. S = {e}
    BY <2>1
  <2> QED
    BY <1>2, <2>2, FS_Singleton
<1> QED
  BY <1>1, <1>2

LEMMA OncePlaced ==
  ASSUME Placing, NEW o \in Op, NEW c, NEW k, NEW x, NEW i, At(o, c, k, x, i)
  PROVE  /\ Fields(o, c, k)
         /\ \A d, l, y, j : At(o, d, l, y, j) => d = c /\ l = k /\ y = x /\ j = i
         /\ k \in Flights \cup {"full", "call"}
<1>1. Fields(o, c, k) /\ OnePlace(o)
  BY DEF Placing, AllGood, Good
<1>2. k \in Flights \cup {"full", "call"}
  BY DEF At, InSubmit, InContext, InFrame, Flights
<1> QED
  BY <1>1, <1>2 DEF OnePlace

LEMMA ReadInPlace ==
  ASSUME UringAssumption, Placing, NEW o \in Op, NEW c \in Context
  PROVE  /\ Count(sq[c], o) = IF At(o, c, "sq", c, 0) THEN 1 ELSE 0
         /\ Count(cq[c], o) = IF At(o, c, "cq", c, 0) THEN 1 ELSE 0
         /\ o \in kernel[c] <=> At(o, c, "kernel", c, 0)
         /\ \A a \in Client : on[a] = c /\ Count(staging[a], o) > 0 <=>
                                At(o, c, "staged", a, 0)
<1>1. Typed /\ NoRepeats
  BY DEF Placing
<1>2. /\ sq[c] \in Seq(Entry) /\ cq[c] \in Seq(Entry)
      /\ OnceIn(sq[c], Op) /\ OnceIn(cq[c], Op)
  BY <1>1 DEF Typed, RingsTyped, NoRepeats
<1>3. /\ At(o, c, "sq", c, 0) <=> Has(sq[c], o)
      /\ At(o, c, "cq", c, 0) <=> Has(cq[c], o)
      /\ At(o, c, "kernel", c, 0) <=> o \in kernel[c]
  BY DEF At, InSubmit, InContext, InFrame
<1>4. ASSUME NEW a \in Client
      PROVE  on[a] = c /\ Count(staging[a], o) > 0 <=> At(o, c, "staged", a, 0)
  <2>1. Count(staging[a], o) > 0 <=> Has(staging[a], o)
    BY <1>1, CountHas DEF Typed, CallsTyped, Count
  <2>2. At(o, c, "staged", a, 0) <=> InSubmit(o, c, "staged", a)
    BY DEF At, InContext, InFrame
  <2> QED
    BY <2>1, <2>2 DEF InSubmit
<1>5. Count(sq[c], o) = IF Has(sq[c], o) THEN 1 ELSE 0
  BY <1>2, CountOnceIn DEF Count
<1>6. Count(cq[c], o) = IF Has(cq[c], o) THEN 1 ELSE 0
  BY <1>2, CountOnceIn DEF Count
<1> QED
  BY <1>3, <1>4, <1>5, <1>6

(* At most one place is counted.                                           *)
LEMMA FlightsCounted ==
  ASSUME UringAssumption, Placing, NEW o \in Op, NEW c \in Context
  PROVE  InFlight(c, o) = IF InFlightAt(o, c) THEN 1 ELSE 0
<1> DEFINE stagers == {a \in Client : on[a] = c /\ Count(staging[a], o) > 0}
           staged == \E a \in Client : At(o, c, "staged", a, 0)
<1>1. \A d, k, x, i, e, l, y, j : At(o, d, k, x, i) /\ At(o, e, l, y, j) =>
                                    d = e /\ k = l /\ x = y /\ i = j
  BY OncePlaced
<1>2. \A a : a \in stagers <=> a \in Client /\ At(o, c, "staged", a, 0)
  BY ReadInPlace
<1>3. Cardinality(stagers) = IF staged THEN 1 ELSE 0
  <2>1. \A e, f \in stagers : e = f
    BY <1>1, <1>2
  <2>2. stagers = {} <=> ~staged
    BY <1>2
  <2> HIDE DEF stagers, staged
  <2> QED
    BY <2>1, <2>2, SingleOrNone
<1>4. InFlightAt(o, c) <=> \/ staged \/ At(o, c, "sq", c, 0)
                           \/ At(o, c, "kernel", c, 0) \/ At(o, c, "cq", c, 0)
  <2>1. ASSUME NEW k \in Flights, NEW x, NEW i, At(o, c, k, x, i)
        PROVE  /\ k = "staged" => x \in Client /\ i = 0
               /\ k # "staged" => x = c /\ i = 0
    BY <2>1 DEF At, InSubmit, InContext, InFrame, Flights
  <2>2. InFlightAt(o, c) => \/ staged \/ At(o, c, "sq", c, 0)
                            \/ At(o, c, "kernel", c, 0) \/ At(o, c, "cq", c, 0)
    BY <2>1 DEF InFlightAt, Flights
  <2> QED
    BY <2>2 DEF InFlightAt, Flights
<1>5. /\ staged => ~At(o, c, "sq", c, 0) /\ ~At(o, c, "kernel", c, 0) /\ ~At(o, c, "cq", c, 0)
      /\ At(o, c, "sq", c, 0) => ~At(o, c, "kernel", c, 0) /\ ~At(o, c, "cq", c, 0)
      /\ At(o, c, "kernel", c, 0) => ~At(o, c, "cq", c, 0)
  BY <1>1
<1>6. InFlight(c, o) = (IF At(o, c, "sq", c, 0) THEN 1 ELSE 0)
                       + (IF At(o, c, "cq", c, 0) THEN 1 ELSE 0)
                       + (IF At(o, c, "kernel", c, 0) THEN 1 ELSE 0)
                       + Cardinality(stagers)
  BY ReadInPlace DEF InFlight
<1> HIDE DEF stagers, staged
<1> QED
  BY <1>3, <1>4, <1>5, <1>6

LEMMA CallbacksCounted ==
  ASSUME UringAssumption, Placing, NEW o \in Op
  PROVE  Cardinality(Awaiting(o)) = IF CalledBackAt(o) THEN 1 ELSE 0
<1>1. ASSUME NEW a \in Client, NEW i
      PROVE  At(o, NoContext, "call", a, i) <=> InFrame(o, "call", a, i)
  BY DEF At, InSubmit, InContext, UringAssumption
<1>2. ASSUME NEW a \in Client
      PROVE  frames[a] \in Seq(Frame) /\ Len(frames[a]) \in Nat /\ Len(frames[a]) <= MaxDepth + 1
  <2>1. frames[a] \in Seq(Frame) /\ Len(frames[a]) \in Nat
    BY DEF Placing, Typed, CallsTyped
  <2>2. Len(frames[a]) <= MaxDepth + (IF MayDrain(a) THEN 0 ELSE 1)
    BY DEF Placing, Control, Sound
  <2>3. MaxDepth \in Nat
    BY DEF UringAssumption
  <2> QED
    BY <2>1, <2>2, <2>3
<1>3. ASSUME NEW a \in Client, NEW i \in 1 .. MaxDepth + 1
      PROVE  i <= Len(frames[a]) /\ Count(frames[a][i].ops, o) > 0 <=> InFrame(o, "call", a, i)
  <2>1. CASE i <= Len(frames[a])
    <3>1. i \in 1 .. Len(frames[a])
      BY <1>2, <2>1 DEF UringAssumption
    <3>2. frames[a][i] \in Frame
      BY <1>2, <3>1, ElementOfSeq
    <3>3. frames[a][i].ops \in Seq(Op)
      BY <3>2 DEF Frame
    <3>4. Count(frames[a][i].ops, o) > 0 <=> Has(frames[a][i].ops, o)
      BY <3>3, CountHas DEF Count
    <3> QED
      BY <2>1, <3>1, <3>4 DEF InFrame
  <2>2. CASE ~(i <= Len(frames[a]))
    BY <1>2, <2>2 DEF InFrame
  <2> QED
    BY <2>1, <2>2
<1>4. ASSUME NEW a, NEW i, At(o, NoContext, "call", a, i)
      PROVE  a \in Client /\ i \in 1 .. MaxDepth + 1
  <2>1. a \in Client /\ i \in 1 .. Len(frames[a])
    BY <1>4 DEF At, InSubmit, InContext, InFrame
  <2> QED
    BY <1>2, <2>1 DEF UringAssumption
<1>5. ASSUME NEW a \in Client, NEW i \in 1 .. MaxDepth + 1
      PROVE  <<a, i>> \in Awaiting(o) <=> At(o, NoContext, "call", a, i)
  <2>1. <<a, i>> \in Awaiting(o) <=> i <= Len(frames[a]) /\ Count(frames[a][i].ops, o) > 0
    BY DEF Awaiting
  <2> QED
    BY <1>1, <1>3, <2>1
<1>6. Awaiting(o) \subseteq Client \X (1 .. MaxDepth + 1)
  BY DEF Awaiting
<1>7. \A e \in Awaiting(o) : e = <<e[1], e[2]>> /\ At(o, NoContext, "call", e[1], e[2])
  BY <1>5, <1>6
<1>8. \A e, f \in Awaiting(o) : e = f
  <2> SUFFICES ASSUME NEW e \in Awaiting(o), NEW f \in Awaiting(o) PROVE e = f
    OBVIOUS
  <2>1. e[1] = f[1] /\ e[2] = f[2]
    BY <1>7, OncePlaced
  <2> QED
    BY <1>7, <2>1
<1>9. Awaiting(o) # {} <=> CalledBackAt(o)
  BY <1>4, <1>5, <1>7 DEF CalledBackAt
<1> QED
  BY <1>8, <1>9, SingleOrNone

(* What the places say of an Operation and its Context.                    *)
LEMMA Accounts ==
  ASSUME UringAssumption, Placing, NEW o \in Op
  PROVE  /\ \A c \in Context : InFlight(c, o) = IF context[o] = c THEN 1 ELSE 0
         /\ Cardinality(Awaiting(o)) = IF done[o] /\ called[o] = 0 THEN 1 ELSE 0
         /\ context[o] \in Context =>
              in_progress[o] /\ ~done[o] /\ called[o] = 0 /\ opRefs[o] = 2
         /\ context[o] \notin Context =>
              opRefs[o] = IF done[o] /\ called[o] = 0 THEN 2 ELSE 1
         /\ called[o] = 0 \/ (called[o] = 1 /\ done[o])
         /\ in_progress[o] /\ ~done[o] <=>
              \/ context[o] \in Context
              \/ \E a \in Client : pc[a] = "full" /\ Head(todo[a]) = o
         /\ done[o] => in_progress[o]
<1>1. Good(o)
  BY DEF Placing, AllGood
<1>2. \A a \in Client : pc[a] = "full" /\ Head(todo[a]) = o <=> At(o, NoContext, "full", a, 0)
  BY DEF At, InSubmit, InContext, InFrame
<1>3. CASE Nowhere(o)
  <2>1. /\ context[o] = NoContext /\ opRefs[o] = 1 /\ (in_progress[o] <=> done[o])
        /\ called[o] = IF done[o] THEN 1 ELSE 0
    BY <1>1, <1>3 DEF Good
  <2>2. \A c \in Context : ~InFlightAt(o, c)
    BY <1>3 DEF Nowhere, InFlightAt
  <2>3. ~CalledBackAt(o)
    BY <1>3 DEF Nowhere, CalledBackAt
  <2>4. \A a \in Client : ~(pc[a] = "full" /\ Head(todo[a]) = o)
    BY <1>2, <1>3 DEF Nowhere
  <2>5. NoContext \notin Context
    BY DEF UringAssumption
  <2>6. \A c \in Context : InFlight(c, o) = 0
    BY <2>2, FlightsCounted
  <2>7. Cardinality(Awaiting(o)) = 0
    BY <2>3, CallbacksCounted
  <2> QED
    BY <2>1, <2>4, <2>5, <2>6, <2>7
<1>4. ASSUME NEW d, NEW k, NEW x, NEW i, At(o, d, k, x, i)
      PROVE  /\ \A c \in Context : InFlight(c, o) = IF context[o] = c THEN 1 ELSE 0
             /\ Cardinality(Awaiting(o)) = IF done[o] /\ called[o] = 0 THEN 1 ELSE 0
             /\ context[o] \in Context =>
                  in_progress[o] /\ ~done[o] /\ called[o] = 0 /\ opRefs[o] = 2
             /\ context[o] \notin Context =>
                  opRefs[o] = IF done[o] /\ called[o] = 0 THEN 2 ELSE 1
             /\ called[o] = 0 \/ (called[o] = 1 /\ done[o])
             /\ in_progress[o] /\ ~done[o] <=>
                  \/ context[o] \in Context
                  \/ \E a \in Client : pc[a] = "full" /\ Head(todo[a]) = o
             /\ done[o] => in_progress[o]
  <2>1. /\ Fields(o, d, k)
        /\ \A e, l, y, j : At(o, e, l, y, j) => e = d /\ l = k /\ y = x /\ j = i
        /\ k \in Flights \cup {"full", "call"}
    BY <1>4, OncePlaced
  <2>2. NoContext \notin Context /\ "full" \notin Flights /\ "call" \notin Flights
    BY DEF UringAssumption, Flights
  <2>3. \A c \in Context : InFlightAt(o, c) <=> k \in Flights /\ c = d
    BY <1>4, <2>1 DEF InFlightAt
  <2>4. CalledBackAt(o) <=> k = "call"
    BY <1>4, <2>1 DEF CalledBackAt, Fields
  <2>5. (\E a \in Client : pc[a] = "full" /\ Head(todo[a]) = o) <=> k = "full"
    <3>1. k = "full" => x \in Client /\ d = NoContext /\ i = 0
      BY <1>4 DEF At, InSubmit, InContext, InFrame
    <3> QED
      BY <1>2, <1>4, <2>1, <3>1
  <2>6. /\ context[o] = d /\ called[o] = 0 /\ in_progress[o]
        /\ opRefs[o] = (IF k = "full" THEN 1 ELSE 2)
        /\ done[o] <=> k = "call"
        /\ d \in Context <=> k \in Flights
    BY <2>1, <2>2 DEF Fields
  <2>7. \A c \in Context : InFlight(c, o) = IF context[o] = c THEN 1 ELSE 0
    BY <2>3, <2>6, FlightsCounted
  <2>8. Cardinality(Awaiting(o)) = IF done[o] /\ called[o] = 0 THEN 1 ELSE 0
    BY <2>4, <2>6, CallbacksCounted
  <2> QED
    BY <2>1, <2>2, <2>5, <2>6, <2>7, <2>8
<1> QED
  BY <1>3, <1>4 DEF Nowhere

LEMMA HoldersCounted ==
  ASSUME UringAssumption, Placing, NEW o \in Op
  PROVE  Cardinality({c \in Context : InFlight(c, o) > 0})
           = IF context[o] \in Context THEN 1 ELSE 0
<1> DEFINE holders == {c \in Context : InFlight(c, o) > 0}
<1>1. \A c \in Context : InFlight(c, o) > 0 <=> context[o] = c
  BY Accounts
<1>2. holders = IF context[o] \in Context THEN {context[o]} ELSE {}
  BY <1>1
<1> QED
  BY <1>2, FS_EmptySet, FS_Singleton

LEMMA CompletedOnceRead ==
  ASSUME UringAssumption, Placing
  PROVE  CompletedOnce
<1> SUFFICES ASSUME NEW o \in Op
             PROVE  /\ \A c \in Context : InFlight(c, o) <= 1
                    /\ Cardinality({c \in Context : InFlight(c, o) > 0})
                         + Cardinality(Awaiting(o)) + called[o] <= 1
                    /\ done[o] => Cardinality(Awaiting(o)) + called[o] = 1
  BY DEF CompletedOnce
<1>1. /\ \A c \in Context : InFlight(c, o) = IF context[o] = c THEN 1 ELSE 0
      /\ Cardinality(Awaiting(o)) = IF done[o] /\ called[o] = 0 THEN 1 ELSE 0
      /\ context[o] \in Context => ~done[o] /\ called[o] = 0
      /\ called[o] = 0 \/ (called[o] = 1 /\ done[o])
  BY Accounts
<1>2. Cardinality({c \in Context : InFlight(c, o) > 0})
        = IF context[o] \in Context THEN 1 ELSE 0
  BY HoldersCounted
<1>3. \A c \in Context : InFlight(c, o) <= 1
  BY <1>1
<1> QED
  BY <1>1, <1>2, <1>3

LEMMA RefsExactRead ==
  ASSUME UringAssumption, Placing, Held
  PROVE  RefsExact
<1>1. ASSUME NEW c \in Context
      PROVE  ctxRefs[c] = (IF handle[c] THEN 1 ELSE 0)
                          + Cardinality({o \in Op : InFlight(c, o) > 0})
  <2>1. \A o \in Op : InFlight(c, o) > 0 <=> context[o] = c
    BY Accounts
  <2>2. {o \in Op : InFlight(c, o) > 0} = Referring(c)
    BY <2>1 DEF Referring
  <2> QED
    BY <2>2 DEF Held
<1>2. ASSUME NEW o \in Op
      PROVE  opRefs[o] = 1 + Cardinality({c \in Context : InFlight(c, o) > 0})
                         + Cardinality(Awaiting(o))
  <2>1. /\ Cardinality(Awaiting(o)) = IF done[o] /\ called[o] = 0 THEN 1 ELSE 0
        /\ context[o] \in Context => ~done[o] /\ opRefs[o] = 2
        /\ context[o] \notin Context =>
             opRefs[o] = IF done[o] /\ called[o] = 0 THEN 2 ELSE 1
    BY Accounts
  <2> QED
    BY <2>1, HoldersCounted
<1> QED
  BY <1>1, <1>2 DEF RefsExact

LEMMA ClaimedIsInFlightRead ==
  ASSUME UringAssumption, Placing
  PROVE  ClaimedIsInFlight
<1> SUFFICES ASSUME NEW o \in Op
             PROVE  /\ \A c \in Context : context[o] = c <=> InFlight(c, o) = 1
                    /\ (in_progress[o] /\ ~done[o]) <=>
                         \/ \E c \in Context : InFlight(c, o) = 1
                         \/ \E a \in Client : pc[a] = "full" /\ Head(todo[a]) = o
  BY DEF ClaimedIsInFlight
<1>1. /\ \A c \in Context : InFlight(c, o) = IF context[o] = c THEN 1 ELSE 0
      /\ in_progress[o] /\ ~done[o] <=>
           \/ context[o] \in Context
           \/ \E a \in Client : pc[a] = "full" /\ Head(todo[a]) = o
  BY Accounts
<1>2. \A c \in Context : context[o] = c <=> InFlight(c, o) = 1
  BY <1>1
<1> QED
  BY <1>1, <1>2

LEMMA TypesRead ==
  ASSUME UringAssumption, IsFiniteSet(Op), Placing, Held, Filled
  PROVE  TypeOK
<1>1. Typed /\ Control
  BY DEF Placing
<1>2. ctxRefs \in [Context -> Nat]
  <2>1. ASSUME NEW c \in Context PROVE ctxRefs[c] \in Nat
    <3>1. Cardinality(Referring(c)) \in Nat
      BY FS_Subset, FS_CardinalityType DEF Referring
    <3> QED
      BY <3>1 DEF Held
  <2> QED
    BY <1>1, <2>1 DEF Typed, ObjectsTyped
<1>3. opRefs \in [Op -> Nat]
  <2>1. ASSUME NEW o \in Op PROVE opRefs[o] \in Nat
    BY Accounts
  <2> QED
    BY <1>1, <2>1 DEF Typed, ObjectsTyped
<1>4. ASSUME NEW c \in Context
      PROVE  /\ sq[c] \in Seq(Entry) /\ Len(sq[c]) <= Entries
             /\ \A a \in Client : section[c] = a => Len(sq[c]) + Len(staging[a]) <= Entries
             /\ cq[c] \in Seq(Entry)
             /\ hidden[c] \in 0 .. Len(sq[c])
             /\ flushed[c] <= sqHead[c] + Len(sq[c])
  <2>1. /\ sq[c] \in Seq(Entry) /\ cq[c] \in Seq(Entry) /\ Len(sq[c]) \in Nat
        /\ hidden[c] \in Nat
    BY <1>1 DEF Typed, RingsTyped
  <2>2. Len(sq[c]) <= Entries
    BY <1>1 DEF Control
  <2>3. hidden[c] <= Len(sq[c]) /\ flushed[c] <= sqHead[c] + Len(sq[c])
    BY DEF Filled, Fits
  <2>4. ASSUME NEW a \in Client, section[c] = a
        PROVE  Len(sq[c]) + Len(staging[a]) <= Entries
    <3>1. Submits(a) /\ on[a] = c
      BY <1>1, <2>4 DEF Control, Sound
    <3>2. Len(sq[c]) + Len(staging[a]) <= arg[a].n /\ arg[a].n <= Entries
      BY <1>1, <3>1 DEF Control, Sound
    <3>3. Len(staging[a]) \in Nat /\ arg[a].n \in Int
      BY <1>1 DEF Typed, CallsTyped, Numbers
    <3>4. Entries \in Nat
      BY DEF UringAssumption
    <3>5. \A x, y, e \in Nat, z \in Int : x + y <= z /\ z <= e => x + y <= e
      OBVIOUS
    <3> QED
      BY <2>1, <3>2, <3>3, <3>4, <3>5
  <2>5. hidden[c] \in 0 .. Len(sq[c])
    BY <2>1, <2>3
  <2>6. \A a \in Client : section[c] = a => Len(sq[c]) + Len(staging[a]) <= Entries
    BY <2>4
  <2> QED
    BY <2>1, <2>2, <2>3, <2>5, <2>6
<1>5. ASSUME NEW a \in Client
      PROVE  todo[a] \in Seq(Op) /\ staging[a] \in Seq(Op) /\ Len(frames[a]) <= MaxDepth + 1
  <2>1. Len(frames[a]) \in Nat /\ todo[a] \in Seq(Op) /\ staging[a] \in Seq(Op)
    BY <1>1 DEF Typed, CallsTyped
  <2>2. Len(frames[a]) <= MaxDepth + (IF MayDrain(a) THEN 0 ELSE 1)
    BY <1>1 DEF Control, Sound
  <2>3. MaxDepth \in Nat
    BY DEF UringAssumption
  <2> QED
    BY <2>1, <2>2, <2>3
<1>6. /\ sqpoll \in [Context -> BOOLEAN] /\ signalled \in [Context -> BOOLEAN]
      /\ sqHead \in [Context -> Nat] /\ flushed \in [Context -> Nat]
      /\ kernel \in [Context -> SUBSET Op]
      /\ poller \in [Context -> {"awake", "drowsy", "asleep"}]
      /\ storer \in [Context -> Client \cup {NoOne}]
  BY <1>1 DEF Typed, RingsTyped
<1>7. /\ section \in [Context -> Client \cup {NoOne}]
      /\ handle \in [Context -> BOOLEAN]
      /\ {in_progress, done, exposed} \subseteq [Op -> BOOLEAN]
      /\ context \in [Op -> Context \cup {NoContext}]
      /\ called \in [Op -> Nat]
  BY <1>1 DEF Typed, ObjectsTyped
<1>8. /\ gil \in Client \cup {NoOne} /\ cancels \in 0 .. MaxCancels
      /\ pc \in [Client -> {"idle", "submit", "full", "flush-head", "flush", "cancel",
                            "check", "sleep", "woken", "drain", "read"}]
      /\ on \in [Client -> Context \cup {NoContext}]
  BY <1>1 DEF Typed, CallsTyped
<1> QED
  BY <1>2, <1>3, <1>4, <1>5, <1>6, <1>7, <1>8 DEF TypeOK

(* Every variable keeps its type; the entries before sq_tail and those a   *)
(* submit() has staged always fit into the ring, no count of references    *)
(* goes below zero, and no thread is deeper in callbacks than the program  *)
(* goes.                                                                   *)
THEOREM TypesHold ==
  ASSUME IsFiniteSet(Op)
  PROVE  Spec => []TypeOK
<1>1. Placing /\ Held /\ Filled => TypeOK
  BY UringAssumption, TypesRead
<1> QED
  BY <1>1, PlacingInvariance, HeldInvariance, FilledInvariance, PTL

(* However drains nest in callbacks and race with each other, with the     *)
(* kernel and with a ring that is full, an Operation is in one place and   *)
(* its callback runs once.                                                 *)
THEOREM OperationsCompleteOnce == Spec => []CompletedOnce
<1>1. Placing => CompletedOnce
  BY UringAssumption, CompletedOnceRead
<1> QED
  BY <1>1, PlacingInvariance, PTL

(* No claim is lost and none is left behind: an Operation that is claimed  *)
(* and not done is in flight for the Context it refers to, or in the hands *)
(* of a submit() that gives it back.                                       *)
THEOREM ClaimsAreInFlight == Spec => []ClaimedIsInFlight
<1>1. Placing => ClaimedIsInFlight
  BY UringAssumption, ClaimedIsInFlightRead
<1> QED
  BY <1>1, PlacingInvariance, PTL

(* Every reference to a Context and to an Operation is accounted for by    *)
(* what holds it.                                                          *)
THEOREM ReferencesAreHeld ==
  ASSUME IsFiniteSet(Op)
  PROVE  Spec => []RefsExact
<1>1. Placing /\ Held => RefsExact
  BY UringAssumption, RefsExactRead
<1> QED
  BY <1>1, PlacingInvariance, HeldInvariance, PTL

(* With the GIL a getter is not overtaken: between its look at the flags   *)
(* and its answer no other thread claims an Operation.                     *)
Holding == {"submit", "full", "flush-head", "flush", "cancel", "read"}
Reading ==
  \A a \in Client : /\ pc[a] \in Holding => gil = a
                    /\ pc[a] = "read" => Readable(Head(todo[a]))

(* While a thread is in such a call, all that others do is to wait.        *)
LEMMA OthersHold ==
  ASSUME UringAssumption, Reading, NEW a \in Client, pc[a] \in Holding,
         NEW b \in Client, b # a, Acts(b)
  PROVE  UNCHANGED <<gil, in_progress, done>>
<1>1. ~HasGil(b) /\ pc[b] \notin Holding
  BY DEF Reading, HasGil, UringAssumption
<1>2. ~Call(b) /\ ~Returns(b)
  BY <1>1 DEF Call, SubmitBegin, FlushBegin, FlushWakes, ProcessEvents, Cancel,
     PollCounter, Drop, ReadBegin, MayCall, Returns, CallbackReturns
<1>3. Proceed(b) => WaitChecks(b) \/ WaitWakes(b) \/ WaitReads(b)
  BY <1>1 DEF Proceed, Skip, Stage, Full, NextInBatch, SubmitRaises, SubmitEnd,
     FlushReadsHead, FlushEnters, FlushFails, CancelEnters, WaitFails, Drain, ReadEnd,
     Holding
<1>4. WaitChecks(b) \/ WaitWakes(b) \/ WaitReads(b) => UNCHANGED <<gil, operation>>
  BY DEF WaitChecks, WaitWakes, WaitReads
<1> QED
  BY <1>2, <1>3, <1>4 DEF Acts, operation

LEMMA OwnReading ==
  ASSUME UringAssumption, FreeThreaded = FALSE, Typed, Reading, NEW a \in Client, Acts(a)
  PROVE  /\ pc'[a] \in Holding => gil' = a
         /\ pc'[a] = "read" => Readable(Head(todo[a]))'
<1>1. ASSUME pc'[a] \notin Holding
      PROVE  /\ pc'[a] \in Holding => gil' = a
             /\ pc'[a] = "read" => Readable(Head(todo[a]))'
  BY <1>1 DEF Holding
<1>2. ASSUME gil' = a, pc'[a] # "read"
      PROVE  /\ pc'[a] \in Holding => gil' = a
             /\ pc'[a] = "read" => Readable(Head(todo[a]))'
  BY <1>2
<1>3. CASE Call(a)
  <2>1. ASSUME NEW c \in Context, NEW ops, SubmitBegin(a, c, ops)
        PROVE  gil' = a /\ pc'[a] # "read"
    BY <2>1 DEF SubmitBegin, KeepGil, Enters, Set, Typed, CallsTyped
  <2>2. ASSUME NEW c \in Context, FlushBegin(a, c) \/ FlushWakes(a, c) \/ Cancel(a, c)
        PROVE  gil' = a /\ pc'[a] # "read"
    BY <2>2 DEF FlushBegin, FlushWakes, Cancel, KeepGil, Enters, Set, Typed, CallsTyped
  <2>3. ASSUME NEW c \in Context, NEW min, NEW max, NEW timed,
               ProcessEvents(a, c, min, max, timed)
        PROVE  pc'[a] \notin Holding
    BY <2>3 DEF ProcessEvents, Enters, Set, Typed, CallsTyped, Holding
  <2>4. ASSUME NEW c \in Context, PollCounter(a, c) \/ Drop(a, c)
        PROVE  pc'[a] \notin Holding
    BY <2>4 DEF PollCounter, Drop, MayCall, calls, Holding
  <2>5. ASSUME NEW o \in Op, ReadBegin(a, o)
        PROVE  /\ gil' = a /\ Readable(Head(todo[a]))'
    <3>1. gil' = a
      BY <2>5 DEF ReadBegin, KeepGil
    <3>2. todo'[a] = <<o>> /\ Readable(o) /\ UNCHANGED <<in_progress, done>>
      BY <2>5 DEF ReadBegin, Set, Typed, CallsTyped, operation
    <3>3. Head(todo'[a]) = o
      BY <3>2
    <3>4. Readable(Head(todo[a]))' <=> Readable(o)
      BY <3>2, <3>3 DEF Readable
    <3> QED
      BY <3>1, <3>2, <3>4
  <2> QED
    BY <1>1, <1>2, <1>3, <2>1, <2>2, <2>3, <2>4, <2>5 DEF Call
<1>4. CASE Proceed(a)
  <2>1. ASSUME NEW o \in Op, Skip(a, o) \/ Stage(a, o) \/ Full(a, o)
        PROVE  gil' = a /\ pc'[a] # "read"
    <3>1. pc[a] = "submit" /\ UNCHANGED gil
      BY <2>1 DEF Skip, Stage, Full, NextInBatch
    <3>2. pc' = pc \/ pc' = [pc EXCEPT ![a] = "full"]
      BY <2>1 DEF Skip, Stage, Full, Set
    <3> QED
      BY <3>1, <3>2 DEF Reading, Holding, Typed, CallsTyped
  <2>2. CASE SubmitRaises(a) \/ SubmitEnd(a) \/ FlushFails(a) \/ CancelEnters(a)
             \/ WaitFails(a) \/ Drain(a) \/ ReadEnd(a)
    <3>1. Leaves(a)
      BY <2>2 DEF SubmitRaises, SubmitEnd, Commit, FlushFails, CancelEnters, WaitFails,
                  Drain, ReadEnd
    <3>2. pc'[a] \notin Holding
      BY <3>1 DEF Leaves, Enters, Set, Typed, CallsTyped, Holding
    <3> QED
      BY <1>1, <3>2
  <2>3. CASE FlushReadsHead(a) \/ FlushEnters(a)
    <3>1. pc[a] \in {"flush-head", "flush"} /\ gil = a
      BY <2>3 DEF FlushReadsHead, FlushEnters, Reading, Holding
    <3>2. \/ pc' = [pc EXCEPT ![a] = "idle"] \/ pc' = [pc EXCEPT ![a] = "drain"]
          \/ gil' = gil /\ (pc' = pc \/ pc' = [pc EXCEPT ![a] = "flush"])
      BY <2>3 DEF FlushReadsHead, FlushEnters, Leaves, Enters, Set
    <3>3. pc'[a] \notin Holding \/ (gil' = a /\ pc'[a] # "read")
      BY <3>1, <3>2 DEF Typed, CallsTyped, Holding
    <3> QED
      BY <1>1, <1>2, <3>3
  <2>4. CASE WaitChecks(a) \/ WaitWakes(a) \/ WaitReads(a)
    <3>1. pc'[a] \notin Holding
      BY <2>4 DEF WaitChecks, WaitWakes, WaitReads, Set, Typed, CallsTyped, Holding
    <3> QED
      BY <1>1, <3>1
  <2> QED
    BY <1>2, <1>4, <2>1, <2>2, <2>3, <2>4 DEF Proceed
<1>5. CASE Returns(a)
  <2>1. pc'[a] \notin Holding
    BY <1>5 DEF Returns, CallbackReturns, Holding
  <2> QED
    BY <1>1, <2>1
<1> QED
  BY <1>3, <1>4, <1>5 DEF Acts

LEMMA NextReading ==
  ASSUME UringAssumption, FreeThreaded = FALSE, Typed, Reading, [Next]_vars
  PROVE  Reading'
<1> SUFFICES ASSUME NEW a \in Client
             PROVE  /\ pc'[a] \in Holding => gil' = a
                    /\ pc'[a] = "read" => Readable(Head(todo[a]))'
  BY DEF Reading
<1>1. ASSUME UNCHANGED CallOf(a), pc[a] \in Holding => UNCHANGED <<gil, in_progress, done>>
      PROVE  /\ pc'[a] \in Holding => gil' = a
             /\ pc'[a] = "read" => Readable(Head(todo[a]))'
  BY <1>1 DEF CallOf, Reading, Readable, Holding
<1>2. CASE UNCHANGED vars
  BY <1>1, <1>2 DEF vars, calls, CallOf, operation
<1>3. ASSUME NEW c \in Context, Kernel(c)
      PROVE  /\ pc'[a] \in Holding => gil' = a
             /\ pc'[a] = "read" => Readable(Head(todo[a]))'
  BY <1>1, <1>3, KernelCalls DEF calls, CallOf, operation
<1>4. ASSUME NEW b \in Client, b # a, Acts(b)
      PROVE  /\ pc'[a] \in Holding => gil' = a
             /\ pc'[a] = "read" => Readable(Head(todo[a]))'
  BY <1>1, <1>4, OthersCalls, OthersHold
<1> QED
  BY <1>2, <1>3, <1>4, OwnReading DEF Next, Acts

LEMMA ReadingInvariance ==
  ASSUME FreeThreaded = FALSE
  PROVE  Spec => []Reading
<1>1. Init => Reading
  BY DEF Init, Reading, Holding
<1>2. Placing /\ Reading /\ [Next]_vars => Reading'
  BY UringAssumption, NextReading DEF Placing
<1> QED
  BY <1>1, <1>2, PlacingInvariance, PTL DEF Spec

(* With the GIL the buffer of an Operation is given out only when the      *)
(* kernel and the rings are through with it, and it has not been submitted *)
(* since the getter looked.                                                *)
THEOREM BuffersAreReadLater ==
  ASSUME FreeThreaded = FALSE
  PROVE  Spec => NotReadInFlight
<1> DEFINE Reads == \A o \in Op : exposed'[o] /\ ~exposed[o] =>
                                    \A c \in Context : InFlight(c, o) = 0
<1>1. Placing /\ Reading /\ [Next]_vars => Reads
  <2> SUFFICES ASSUME Placing, Reading, [Next]_vars, NEW o \in Op, exposed'[o], ~exposed[o],
                      NEW c \in Context
               PROVE  InFlight(c, o) = 0
    OBVIOUS
  <2>1. exposed' # exposed
    OBVIOUS
  <2>2. PICK a \in Client : ReadEnd(a)
    <3>1. CASE UNCHANGED vars
      BY <2>1, <3>1 DEF vars, operation
    <3>2. CASE \E x \in Context : Kernel(x)
      BY <2>1, <3>2, KernelCalls DEF operation
    <3>3. CASE \E b \in Client : Returns(b)
      BY <2>1, <3>3 DEF Returns, CallbackReturns
    <3>4. ASSUME NEW b \in Client, Proceed(b) PROVE ReadEnd(b)
      <4>1. ASSUME NEW p \in Op, Skip(b, p) \/ Stage(b, p) \/ Full(b, p)
            PROVE  UNCHANGED exposed
        BY <4>1 DEF Skip, Stage, Full, operation
      <4>2. SubmitRaises(b) \/ SubmitEnd(b) => UNCHANGED exposed
        BY DEF SubmitRaises, SubmitEnd, Commit
      <4>3. FlushReadsHead(b) \/ FlushEnters(b) \/ FlushFails(b) \/ CancelEnters(b)
              => UNCHANGED exposed
        BY DEF FlushReadsHead, FlushEnters, FlushFails, CancelEnters, operation
      <4>4. WaitChecks(b) \/ WaitFails(b) \/ WaitWakes(b) \/ WaitReads(b) \/ Drain(b)
              => UNCHANGED exposed
        BY DEF WaitChecks, WaitFails, WaitWakes, WaitReads, Drain, operation
      <4> QED
        BY <2>1, <3>4, <4>1, <4>2, <4>3, <4>4 DEF Proceed
    <3>5. ASSUME NEW b \in Client, Call(b) PROVE UNCHANGED exposed
      BY <3>5 DEF Call, SubmitBegin, FlushBegin, FlushWakes, ProcessEvents, Cancel,
         PollCounter, Drop, ReadBegin, operation
    <3> QED
      BY <2>1, <3>1, <3>2, <3>3, <3>4, <3>5 DEF Next
  <2>3. pc[a] = "read" /\ Head(todo[a]) = o
    BY <2>2 DEF ReadEnd, Set, Placing, Typed, ObjectsTyped
  <2>4. Readable(o)
    BY <2>3 DEF Reading
  <2>5. context[o] \notin Context
    BY <2>4, UringAssumption, Accounts DEF Readable
  <2> QED
    BY <2>5, UringAssumption, Accounts
<1> QED
  BY <1>1, PlacingInvariance, ReadingInvariance, PTL DEF Spec, NotReadInFlight

-----------------------------------------------------------------------------
(* What OneShot sees of an Operation, and of the Context it belongs to.  A *)
(* submit() that found the ring full has claimed one that refers to no     *)
(* Context yet.                                                            *)
Seen(o) ==
  IF called[o] > 0 THEN "delivered"
  ELSE IF done[o] THEN "completed"
  ELSE IF in_progress[o] THEN "claimed" ELSE "new"
Refused(o) == on[CHOOSE a \in Client : pc[a] = "full" /\ Head(todo[a]) = o]
Owner(o) ==
  IF ~in_progress[o] \/ done[o] THEN NoContext
  ELSE IF context[o] # NoContext THEN context[o] ELSE Refused(o)

Unseen(o) == Seen(o)' = Seen(o) /\ Owner(o)' = Owner(o)

(* It sees a step of the one Operation it changes the look of, ...         *)
LEMMA SeenBecomes ==
  ASSUME NEW o \in Op, NEW from, NEW to, NEW c,
         Seen(o) = from, Seen(o)' = to, Owner(o)' = c,
         \A x \in Op : x # o => Unseen(x)
  PROVE  Promise!Becomes(o, from, to, c)
<1> DEFINE states == [x \in Op |-> Seen(x)]
           owners == [x \in Op |-> Owner(x)]
<1>1. states[o] = from
  OBVIOUS
<1>2. states' = [states EXCEPT ![o] = to]
  BY DEF Unseen
<1>3. owners' = [owners EXCEPT ![o] = c]
  BY DEF Unseen
<1>4. Promise!Becomes(o, from, to, c) <=>
        /\ states[o] = from
        /\ states' = [states EXCEPT ![o] = to]
        /\ owners' = [owners EXCEPT ![o] = c]
  BY DEF Promise!Becomes, Seen, Owner, Refused
<1> QED
  BY <1>1, <1>2, <1>3, <1>4

(* ... or nothing.                                                         *)
LEMMA SeenStutters ==
  ASSUME \A o \in Op : Unseen(o)
  PROVE  UNCHANGED Promise!vars
BY DEF Unseen, Seen, Owner, Refused, Promise!vars

LEMMA InitRefines == UringAssumption /\ Init => Promise!Init
BY DEF Init, InitOperation, Promise!Init

LEMMA OnlyOne ==
  ASSUME NEW o, NEW pcs, NEW todos, NEW ons, NEW a \in Client,
         \A b \in Client : pcs[b] = "full" /\ Head(todos[b]) = o <=> b = a
  PROVE  ons[CHOOSE b \in Client : pcs[b] = "full" /\ Head(todos[b]) = o] = ons[a]
OBVIOUS

LEMMA RefusedIs ==
  ASSUME NEW o, NEW a \in Client, Good(o), At(o, NoContext, "full", a, 0)
  PROVE  Refused(o) = on[a]
<1>1. \A b \in Client : pc[b] = "full" /\ Head(todo[b]) = o <=> At(o, NoContext, "full", b, 0)
  BY DEF At, InSubmit, InContext, InFrame
<1>2. \A b \in Client : pc[b] = "full" /\ Head(todo[b]) = o <=> b = a
  BY <1>1 DEF Good, OnePlace
<1> QED
  BY <1>2, OnlyOne DEF Refused

LEMMA RefusedBecomes ==
  ASSUME NEW o, NEW a \in Client, Good(o)', At(o, NoContext, "full", a, 0)'
  PROVE  Refused(o)' = on'[a]
<1>1. \A b \in Client : pc'[b] = "full" /\ Head(todo'[b]) = o <=>
                           At(o, NoContext, "full", b, 0)'
  BY DEF At, InSubmit, InContext, InFrame
<1>2. \A b \in Client : pc'[b] = "full" /\ Head(todo'[b]) = o <=> b = a
  BY <1>1 DEF Good, OnePlace
<1> QED
  BY <1>2, OnlyOne DEF Refused

LEMMA FullStays ==
  ASSUME Typed, Next, NEW a \in Client, pc[a] = "full"
  PROVE  SubmitRaises(a) \/ UNCHANGED CallOf(a)
<1>1. ASSUME NEW b \in Client, Acts(b) PROVE SubmitRaises(a) \/ UNCHANGED CallOf(a)
  <2>1. CASE b # a
    BY <1>1, <2>1, OthersCalls
  <2>2. CASE b = a
    <3>1. ~Call(a)
      BY DEF Call, SubmitBegin, FlushBegin, FlushWakes, ProcessEvents, Cancel, PollCounter,
         Drop, ReadBegin, MayCall
    <3>2. ~Returns(a)
      BY DEF Returns, CallbackReturns
    <3>3. Proceed(a) => SubmitRaises(a)
      BY DEF Proceed, Skip, Stage, Full, NextInBatch, SubmitEnd, FlushReadsHead,
         FlushEnters, FlushFails, CancelEnters, WaitChecks, WaitFails, WaitWakes, WaitReads,
         Drain, ReadEnd
    <3> QED
      BY <1>1, <2>2, <3>1, <3>2, <3>3 DEF Acts
  <2> QED
    BY <2>1, <2>2
<1>2. ASSUME NEW c \in Context, Kernel(c) PROVE UNCHANGED CallOf(a)
  BY <1>2, KernelCalls DEF calls, CallOf
<1> QED
  BY <1>1, <1>2 DEF Next, Acts

LEMMA SameUnseen ==
  ASSUME UringAssumption, Placing, Next, NEW o \in Op,
         UNCHANGED <<called[o], done[o], in_progress[o], context[o]>>
  PROVE  Unseen(o)
<1>1. Seen(o)' = Seen(o)
  BY DEF Seen
<1>2. CASE ~in_progress[o] \/ done[o] \/ context[o] # NoContext
  BY <1>1, <1>2 DEF Unseen, Owner
<1>3. CASE in_progress[o] /\ ~done[o] /\ context[o] = NoContext
  <2>1. PICK a \in Client : pc[a] = "full" /\ Head(todo[a]) = o
    BY <1>3, Accounts DEF UringAssumption
  <2>2. ~SubmitRaises(a)
    <3> SUFFICES ASSUME SubmitRaises(a) PROVE FALSE
      OBVIOUS
    <3>1. in_progress' = [in_progress EXCEPT ![o] = FALSE]
      BY <2>1 DEF SubmitRaises, GivesBack, Set
    <3> QED
      BY <1>3, <3>1 DEF Placing, Typed, ObjectsTyped
  <2>3. UNCHANGED <<pc[a], on[a], todo[a]>>
    BY <2>1, <2>2, FullStays DEF CallOf, Placing
  <2>4. At(o, NoContext, "full", a, 0) /\ At(o, NoContext, "full", a, 0)'
    BY <2>1, <2>3 DEF At, InSubmit
  <2>5. Good(o) /\ Good(o)'
    BY NextGood DEF Placing, AllGood
  <2>6. Refused(o) = on[a] /\ Refused(o)' = on'[a]
    BY <2>4, <2>5, RefusedIs, RefusedBecomes
  <2> QED
    BY <1>1, <2>3, <2>6 DEF Unseen, Owner
<1> QED
  BY <1>2, <1>3

LEMMA OthersUnseen ==
  ASSUME UringAssumption, Placing, Next, NEW o \in Op,
         \A x \in Op : x # o => UNCHANGED <<called[x], done[x], in_progress[x], context[x]>>
  PROVE  \A x \in Op : x # o => Unseen(x)
BY SameUnseen

LEMMA StageRefines ==
  ASSUME UringAssumption, Placing, Next, NEW a \in Client, NEW o \in Op, Stage(a, o)
  PROVE  \E c \in Context : Promise!Claim(o, c)
<1> PICK s : s = on[a]
  OBVIOUS
<1>1. Typed /\ Good(o) /\ NoContext \notin Context
  BY DEF Placing, AllGood, UringAssumption
<1>2. /\ in_progress' = [in_progress EXCEPT ![o] = TRUE]
      /\ context' = [context EXCEPT ![o] = s]
      /\ UNCHANGED <<called, done>> /\ ~in_progress[o]
  BY DEF Stage, Claim, Set
<1>3. s \in Context
  BY DEF Placing, Control, Sound, Stage, NextInBatch
<1>4. called[o] = 0 /\ ~done[o]
  BY <1>1, <1>2, FreeIsNowhere DEF Good
<1>5. Seen(o) = "new"
  BY <1>2, <1>4 DEF Seen
<1>6. in_progress'[o] /\ context'[o] = s /\ called'[o] = 0 /\ ~done'[o]
  BY <1>1, <1>2, <1>4 DEF Typed, ObjectsTyped
<1>7. Seen(o)' = "claimed" /\ Owner(o)' = s
  BY <1>1, <1>3, <1>6 DEF Seen, Owner
<1>8. \A x \in Op : x # o => UNCHANGED <<called[x], done[x], in_progress[x], context[x]>>
  BY <1>1, <1>2 DEF Typed, ObjectsTyped
<1> QED
  BY <1>3, <1>5, <1>7, <1>8, OthersUnseen, SeenBecomes DEF Promise!Claim

LEMMA FullRefines ==
  ASSUME UringAssumption, Placing, Next, NEW a \in Client, NEW o \in Op, Full(a, o)
  PROVE  \E c \in Context : Promise!Claim(o, c)
<1> PICK s : s = on[a]
  OBVIOUS
<1>1. Typed /\ Good(o)
  BY DEF Placing, AllGood
<1>2. /\ in_progress' = [in_progress EXCEPT ![o] = TRUE]
      /\ pc' = [pc EXCEPT ![a] = "full"]
      /\ UNCHANGED <<called, done, context, on, todo>> /\ ~in_progress[o]
      /\ o = Head(todo[a])
  BY DEF Full, NextInBatch, Claim, Set
<1>3. s \in Context
  BY DEF Placing, Control, Sound, Full, NextInBatch
<1>4. called[o] = 0 /\ ~done[o] /\ context[o] = NoContext
  BY <1>1, <1>2, FreeIsNowhere DEF Good
<1>5. Seen(o) = "new"
  BY <1>2, <1>4 DEF Seen
<1>6. /\ in_progress'[o] /\ context'[o] = NoContext /\ called'[o] = 0 /\ ~done'[o]
      /\ pc'[a] = "full" /\ o = Head(todo'[a]) /\ on'[a] = s
  BY <1>1, <1>2, <1>4 DEF Typed, ObjectsTyped, CallsTyped
<1>7. At(o, NoContext, "full", a, 0)'
  BY <1>6 DEF At, InSubmit
<1>8. Good(o)'
  BY NextGood DEF AllGood
<1>9. Refused(o)' = s
  BY <1>6, <1>7, <1>8, RefusedBecomes
<1>10. Seen(o)' = "claimed" /\ Owner(o)' = s
  BY <1>6, <1>9 DEF Seen, Owner
<1>11. \A x \in Op : x # o => UNCHANGED <<called[x], done[x], in_progress[x], context[x]>>
  BY <1>1, <1>2 DEF Typed, ObjectsTyped
<1> QED
  BY <1>3, <1>5, <1>10, <1>11, OthersUnseen, SeenBecomes DEF Promise!Claim

LEMMA RaiseRefines ==
  ASSUME UringAssumption, Placing, Next, NEW a \in Client, SubmitRaises(a)
  PROVE  \E o \in Op : Promise!GiveBack(o)
<1> PICK o : o = Head(todo[a])
  OBVIOUS
<1>1. Typed /\ pc[a] = "full"
  BY DEF Placing, SubmitRaises
<1>2. /\ in_progress' = [in_progress EXCEPT ![o] = FALSE]
      /\ UNCHANGED <<called, done, context>>
  BY DEF SubmitRaises, GivesBack, Commit, Set
<1>3. o \in Op
  <2>1. todo[a] \in Seq(Op) /\ todo[a] # <<>>
    BY <1>1 DEF Typed, CallsTyped, Placing, Control, Sound
  <2> QED
    BY <2>1, HeadElements
<1>4. At(o, NoContext, "full", a, 0)
  BY <1>1 DEF At, InSubmit
<1>5. in_progress[o] /\ ~done[o] /\ called[o] = 0
  BY <1>3, <1>4, OncePlaced DEF Fields
<1>6. ~in_progress'[o] /\ ~done'[o] /\ called'[o] = 0
  BY <1>1, <1>2, <1>3, <1>5 DEF Typed, ObjectsTyped
<1>7. Seen(o) = "claimed" /\ Seen(o)' = "new" /\ Owner(o)' = NoContext
  BY <1>5, <1>6 DEF Seen, Owner
<1>8. \A x \in Op : x # o => UNCHANGED <<called[x], done[x], in_progress[x], context[x]>>
  BY <1>1, <1>2 DEF Typed, ObjectsTyped
<1> QED
  BY <1>3, <1>7, <1>8, OthersUnseen, SeenBecomes DEF Promise!GiveBack

LEMMA DrainRefines ==
  ASSUME UringAssumption, Placing, Next, NEW a \in Client, Drain(a)
  PROVE  \E ops \in SUBSET Op : Promise!CompleteAll(ops)
<1> PICK s : s = on[a]
  OBVIOUS
<1> PICK batch : batch = Drained(a)
  OBVIOUS
<1> DEFINE settled == {o \in Op : Has(batch, o)}
<1>1. /\ s \in Context
      /\ \A o \in Op : Has(batch, o) => Has(cq[s], o)
      /\ done' = [o \in Op |-> done[o] \/ Has(batch, o)]
      /\ context' = [o \in Op |-> IF Has(batch, o) THEN NoContext ELSE context[o]]
      /\ UNCHANGED <<in_progress, called>>
  <2>1. /\ on[a] \in Context
        /\ \A o \in Op : Has(Drained(a), o) => Has(cq[on[a]], o)
        /\ done' = [o \in Op |-> done[o] \/ Has(Drained(a), o)]
        /\ context' = [o \in Op |-> IF Has(Drained(a), o) THEN NoContext ELSE context[o]]
        /\ UNCHANGED <<in_progress, called>>
    BY DrainElements
  <2> QED
    BY <2>1
<1>2. ASSUME NEW o \in Op, Has(batch, o)
      PROVE  Seen(o) = "claimed" /\ Seen(o)' = "completed" /\ Owner(o)' = NoContext
  <2>1. At(o, s, "cq", s, 0)
    BY <1>1, <1>2 DEF At, InContext
  <2>2. in_progress[o] /\ ~done[o] /\ called[o] = 0
    BY <2>1, OncePlaced DEF Fields
  <2>3. done'[o] /\ called'[o] = 0
    BY <1>1, <1>2, <2>2
  <2> QED
    BY <2>2, <2>3 DEF Seen, Owner
<1>3. ASSUME NEW o \in Op, ~Has(batch, o) PROVE Unseen(o)
  <2>1. UNCHANGED <<called[o], done[o], in_progress[o], context[o]>>
    BY <1>1, <1>3 DEF Placing, Typed, ObjectsTyped
  <2> QED
    BY <2>1, SameUnseen
<1>4. /\ \A o \in settled : Seen(o) = "claimed"
      /\ \A o \in Op : Seen(o)' = IF o \in settled THEN "completed" ELSE Seen(o)
      /\ \A o \in Op : Owner(o)' = IF o \in settled THEN NoContext ELSE Owner(o)
  BY <1>2, <1>3 DEF Unseen
<1>5. settled \in SUBSET Op
  OBVIOUS
<1> HIDE DEF settled
<1>6. Promise!CompleteAll(settled)
  BY <1>4, <1>5 DEF Promise!CompleteAll, Seen, Owner, Refused
<1> QED
  BY <1>5, <1>6

LEMMA ReturnRefines ==
  ASSUME UringAssumption, Placing, Next, NEW a \in Client, Returns(a)
  PROVE  \E o \in Op : Promise!Deliver(o)
<1>1. /\ Typed /\ frames[a] # <<>>
  BY DEF Placing, Returns, CallbackReturns
<1>2. PICK o, depth : depth = Len(frames[a]) /\ o = Head(frames[a][depth].ops)
  OBVIOUS
<1>3. /\ o \in Op /\ depth \in 1 .. Len(frames[a]) /\ Has(frames[a][depth].ops, o)
  BY <1>1, <1>2, TopTyped, HeadElements
<1>4. /\ called' = [called EXCEPT ![o] = called[o] + 1]
      /\ UNCHANGED <<done, in_progress, context>>
  BY <1>2 DEF Returns, CallbackReturns, Set
<1>5. At(o, NoContext, "call", a, depth)
  BY <1>3 DEF At, InFrame
<1>6. in_progress[o] /\ done[o] /\ called[o] = 0
  BY <1>3, <1>5, OncePlaced DEF Fields
<1>7. done'[o] /\ called'[o] = 1
  BY <1>1, <1>3, <1>4, <1>6 DEF Typed, ObjectsTyped
<1>8. Seen(o) = "completed" /\ Seen(o)' = "delivered" /\ Owner(o)' = NoContext
  BY <1>6, <1>7 DEF Seen, Owner
<1>9. \A x \in Op : x # o => UNCHANGED <<called[x], done[x], in_progress[x], context[x]>>
  BY <1>1, <1>4 DEF Typed, ObjectsTyped
<1> QED
  BY <1>3, <1>8, <1>9, OthersUnseen, SeenBecomes DEF Promise!Deliver

LEMMA NextRefines ==
  ASSUME UringAssumption, Placing, [Next]_vars
  PROVE  Promise!Next \/ UNCHANGED Promise!vars
<1> DEFINE Goal == Promise!Next \/ UNCHANGED Promise!vars
<1>1. CASE UNCHANGED vars
  <2>1. UNCHANGED <<called, done, in_progress, context, pc, on, todo>>
    BY <1>1 DEF vars, operation, calls
  <2>2. \A o \in Op : Unseen(o)
    BY <2>1 DEF Unseen, Seen, Owner, Refused
  <2> QED
    BY <2>2, SeenStutters
<1>2. ASSUME Next, UNCHANGED <<called, done, in_progress, context>> PROVE Goal
  BY <1>2, SeenStutters, SameUnseen
<1>3. ASSUME Next, NEW a \in Client, Call(a) PROVE Goal
  <2>1. UNCHANGED <<called, done, in_progress, context>>
    BY <1>3 DEF Call, SubmitBegin, FlushBegin, FlushWakes, ProcessEvents, Cancel,
       PollCounter, Drop, ReadBegin, operation
  <2> QED
    BY <1>2, <1>3, <2>1
<1>4. ASSUME Next, NEW c \in Context, Kernel(c) PROVE Goal
  <2>1. UNCHANGED <<called, done, in_progress, context>>
    BY <1>4, KernelCalls DEF operation
  <2> QED
    BY <1>2, <1>4, <2>1
<1>5. ASSUME Next, NEW a \in Client, Proceed(a) PROVE Goal
  <2>1. CASE \/ \E o \in Op : Skip(a, o)
             \/ SubmitEnd(a) \/ FlushReadsHead(a) \/ FlushEnters(a) \/ FlushFails(a)
             \/ CancelEnters(a)
             \/ WaitChecks(a) \/ WaitFails(a) \/ WaitWakes(a) \/ WaitReads(a) \/ ReadEnd(a)
    <3>1. UNCHANGED <<called, done, in_progress, context>>
      BY <2>1 DEF Skip, SubmitEnd, Commit, FlushReadsHead, FlushEnters, FlushFails,
         CancelEnters, WaitChecks, WaitFails, WaitWakes, WaitReads, ReadEnd, operation
    <3> QED
      BY <1>2, <1>5, <3>1
  <2>2. CASE \E o \in Op : Stage(a, o) \/ Full(a, o)
    BY <1>5, <2>2, StageRefines, FullRefines DEF Promise!Next
  <2>3. CASE SubmitRaises(a)
    BY <1>5, <2>3, RaiseRefines DEF Promise!Next
  <2>4. CASE Drain(a)
    BY <1>5, <2>4, DrainRefines DEF Promise!Next
  <2> QED
    BY <1>5, <2>1, <2>2, <2>3, <2>4 DEF Proceed
<1>6. ASSUME Next, NEW a \in Client, Returns(a) PROVE Goal
  BY <1>6, ReturnRefines DEF Promise!Next
<1> QED
  BY <1>1, <1>3, <1>4, <1>5, <1>6 DEF Next

(* The backend keeps caio's promise: every Operation that is claimed is    *)
(* given back by the submit() that claimed it, or settled with its batch   *)
(* by one drain and delivered once.                                        *)
THEOREM RingKeepsItsPromise == Spec => ImplementsOneShot
<1>1. Init => Promise!Init
  BY UringAssumption, InitRefines
<1>2. Placing /\ [Next]_vars => Promise!Next \/ UNCHANGED Promise!vars
  BY UringAssumption, NextRefines
<1> QED
  BY <1>1, <1>2, PlacingInvariance, PTL DEF Spec, ImplementsOneShot, Promise!Spec
=============================================================================
