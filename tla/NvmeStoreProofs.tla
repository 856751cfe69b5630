--------------------------- MODULE NvmeStoreProofs --------------------------
(***************************************************************************)
(* Proofs about NvmeStore, for any number of callers, workers, extents and *)
(* operations: StoreInv is an inductive invariant, and what follows from   *)
(* it: an answered operation is over, an operation in progress works on    *)
(* extents of its owner, flush covers what came before, and close strands  *)
(* nobody.  ExtentInv is a second one: the free list, the used bits and    *)
(* the counter agree.                                                      *)
(***************************************************************************)
EXTENDS NvmeStore, FiniteSetTheorems, WellFoundedInduction, TLAPS

Answered == {"Complete", "Failed", "Cancelled"}

\* A worker at one of these labels has an operation in hand.
Busy == {"run", "retire", "answer"}

Queued(o) == \E i \in 1 .. Len(queue) : queue[i] = o
QueueDistinct == \A i, j \in 1 .. Len(queue) : queue[i] = queue[j] => i = j
InHand(o, label) == \E w \in Workers : wpc[w] = label /\ wop[w] = o
Issuing(o) == \E u \in Users : upc[u] = "issue" /\ uset[u] = {o}

\* The state of an operation in the queue: its I/O has yet to start, or its
\* packet has yet to be taken.
InQueue == IF os = "posix" THEN "queued" ELSE "packet"

StoreShape ==
    /\ os \in {"posix", "windows"} /\ opened \in BOOLEAN /\ halting \in BOOLEAN
    /\ pending \subseteq Ops /\ queue \in Seq(Ops)
    /\ span \in [Ops -> SUBSET Extents] /\ owner \in [Ops -> {NoUser} \cup Users]
    /\ status \in [Ops -> {"none", "Pending"} \cup Answered]
    /\ io \in [Ops -> {"none", InQueue, "running", "over"}]
    /\ wpc \in [Workers -> {"exited", "loop"} \cup Busy]
    /\ wop \in [Workers -> {NoOp} \cup Ops]
    /\ upc \in [Users -> {"idle", "issue", "flush", "join"}]
    /\ uset \in [Users -> SUBSET Ops] /\ DOMAIN held = Users /\ DOMAIN activeIo = Extents

QueueShape == QueueDistinct /\ \A o \in Ops : Queued(o) <=> io[o] = InQueue

\* What the labels of a worker say of the operation in its hand.
WorkerShape ==
    /\ \A w \in Workers :
           /\ wpc[w] = "run" => os = "posix" /\ wop[w] \in pending /\ io[wop[w]] = "running"
           /\ wpc[w] = "retire" => wop[w] \in pending /\ io[wop[w]] = "over"
           /\ wpc[w] = "answer" => /\ wop[w] \in Ops \ pending
                                   /\ io[wop[w]] = "over" /\ status[wop[w]] = "Pending"
    /\ \A v, w \in Workers : wpc[v] \in Busy /\ wpc[w] \in Busy /\ wop[v] = wop[w] => v = w

\* The state of an operation and of its I/O.
OpShape ==
    \A o \in Ops :
        /\ status[o] = "none" => io[o] = "none"
        /\ status[o] \in Answered => io[o] = "over"
        /\ o \in pending => status[o] = "Pending"
        /\ io[o] \in {InQueue, "running"} => o \in pending

\* Somebody has every operation that is not queued and not in the kernel.
PlaceShape ==
    \A o \in Ops :
        /\ io[o] = "running" /\ os = "posix" => InHand(o, "run")
        /\ o \in pending /\ io[o] = "over" => InHand(o, "retire")
        /\ o \in pending /\ io[o] = "none" => Issuing(o)
        /\ status[o] = "Pending" /\ o \notin pending => InHand(o, "answer")

\* The calls under lifecycle_mu_: at most one is in progress.
CallShape ==
    /\ \A u, v \in Users : upc[u] # "idle" /\ upc[v] # "idle" => u = v
    /\ \A u \in Users :
           /\ upc[u] \in {"idle", "join"} => uset[u] = {}
           /\ upc[u] = "issue" => /\ os = "windows" /\ opened /\ ~halting
                                  /\ \E o \in pending : uset[u] = {o} /\ io[o] = "none"
           /\ upc[u] = "flush" => /\ opened /\ ~halting
                                  /\ \A o \in Submitted : io[o] = "over" \/ o \in uset[u]
           /\ upc[u] = "join" => opened /\ halting
    /\ halting => \E u \in Users : upc[u] = "join"

\* How close() drains: nothing is queued any more, a worker that left on Windows
\* left nothing behind, and a closed store has neither workers nor operations.
DrainShape ==
    /\ halting /\ os = "posix" => \A o \in Ops : ~Queued(o)
    /\ \A w \in Workers : opened /\ wpc[w] = "exited" =>
           halting /\ (os = "windows" => pending = {})
    /\ ~opened => pending = {} /\ \A w \in Workers : wpc[w] = "exited"

\* activeIo counts the operations on an extent, and these belong to its holder.
Spanning(e) == {o \in pending : e \in span[o]}
CountsIo == \A e \in Extents : activeIo[e] = Cardinality(Spanning(e))
SpansHeld == \A o \in pending : owner[o] \in Users /\ span[o] \subseteq held[owner[o]]

StoreInv ==
    /\ StoreShape /\ QueueShape /\ WorkerShape /\ OpShape /\ PlaceShape
    /\ CallShape /\ DrainShape /\ CountsIo /\ SpansHeld

-----------------------------------------------------------------------------
(* The queue, as the set of operations in it.                              *)

\* Append adds one operation to the queue,
LEMMA AppendQueue ==
    ASSUME queue \in Seq(Ops), QueueDistinct, NEW x \in Ops, ~Queued(x),
           queue' = Append(queue, x)
    PROVE  /\ queue' \in Seq(Ops) /\ QueueDistinct'
           /\ \A o \in Ops : Queued(o)' <=> Queued(o) \/ o = x
<1>1. /\ queue' \in Seq(Ops) /\ Len(queue') = Len(queue) + 1 /\ Len(queue) \in Nat
      /\ \A i \in 1 .. Len(queue) : queue'[i] = queue[i]
      /\ queue'[Len(queue) + 1] = x
  OBVIOUS
<1>2. QueueDistinct'
  BY <1>1 DEF QueueDistinct, Queued
<1>3. \A o \in Ops : Queued(o)' <=> Queued(o) \/ o = x
  BY <1>1 DEF Queued
<1> QED
  BY <1>1, <1>2, <1>3, Zenon

\* and Tail takes the head away.
LEMMA TailQueue ==
    ASSUME queue \in Seq(Ops), QueueDistinct, queue # <<>>, queue' = Tail(queue)
    PROVE  /\ queue' \in Seq(Ops) /\ QueueDistinct'
           /\ Head(queue) \in Ops /\ Queued(Head(queue))
           /\ \A o \in Ops : Queued(o)' <=> Queued(o) /\ o # Head(queue)
<1>1. /\ queue' \in Seq(Ops) /\ Len(queue) \in Nat \ {0} /\ Len(queue') = Len(queue) - 1
      /\ \A i \in 1 .. Len(queue') : queue'[i] = queue[i + 1]
      /\ Head(queue) = queue[1] /\ Head(queue) \in Ops
  OBVIOUS
<1>2. QueueDistinct'
  BY <1>1 DEF QueueDistinct
<1>3. Queued(Head(queue))
  BY <1>1 DEF Queued
<1>4. ASSUME NEW o \in Ops
      PROVE  Queued(o)' <=> Queued(o) /\ o # Head(queue)
  <2>1. Queued(o)' => Queued(o) /\ o # Head(queue)
    BY <1>1 DEF Queued, QueueDistinct
  <2>2. ASSUME Queued(o), o # Head(queue) PROVE Queued(o)'
    <3>1. PICK i \in 1 .. Len(queue) : queue[i] = o
      BY <2>2, Zenon DEF Queued
    <3>2. i - 1 \in 1 .. Len(queue') /\ queue'[i - 1] = o
      BY <1>1, <2>2, <3>1
    <3> QED
      BY <3>2, Zenon DEF Queued
  <2> QED
    BY <2>1, <2>2, Zenon
<1> QED
  BY <1>1, <1>2, <1>3, <1>4, Zenon

\* A queue that was emptied holds nothing.
LEMMA DroppedQueue ==
    ASSUME queue' = <<>>
    PROVE  queue' \in Seq(Ops) /\ QueueDistinct' /\ \A o : ~Queued(o)'
<1>1. Len(queue') = 0 /\ queue' \in Seq(Ops)
  OBVIOUS
<1> QED
  BY <1>1 DEF QueueDistinct, Queued

\* An empty queue holds nothing, and a queue that holds nothing is empty.
LEMMA EmptyQueue ==
    ASSUME queue \in Seq(Ops)
    PROVE  queue = <<>> <=> \A o \in Ops : ~Queued(o)
<1>1. queue = <<>> => \A o \in Ops : ~Queued(o)
  BY DEF Queued
<1>2. queue # <<>> => \E o \in Ops : Queued(o)
  <2>1. queue # <<>> => 1 \in 1 .. Len(queue) /\ queue[1] \in Ops
    OBVIOUS
  <2> QED
    BY <2>1, Zenon DEF Queued
<1> QED
  BY <1>1, <1>2, Zenon

-----------------------------------------------------------------------------
(* The initial state.                                                      *)

\* A closed store with no operation satisfies the invariant.
LEMMA StoreInvInit == Init => StoreInv
<1> SUFFICES ASSUME Init PROVE StoreInv
  OBVIOUS
<1>1. StoreShape
  <2>1. <<>> \in Seq(Ops) /\ DOMAIN held = Users /\ DOMAIN activeIo = Extents
    BY DEF Init
  <2>2. opened \in BOOLEAN /\ halting \in BOOLEAN
    BY Zenon DEF Init
  <2> QED
    BY <2>1, <2>2, Zenon DEF Init, StoreShape
<1>2. QueueShape /\ WorkerShape /\ OpShape /\ PlaceShape
  BY DEF Init, QueueShape, QueueDistinct, Queued, WorkerShape, OpShape, PlaceShape,
         InQueue, Busy, Answered
<1>3. CallShape /\ DrainShape
  BY Zenon DEF Init, CallShape, DrainShape, Submitted, Queued
<1>4. CountsIo /\ SpansHeld
  <2>1. \A e \in Extents : Spanning(e) = {}
    BY Zenon DEF Init, Spanning
  <2> QED
    BY <2>1, FS_EmptySet, Zenon DEF Init, CountsIo, SpansHeld
<1> QED
  BY <1>1, <1>2, <1>3, <1>4, Zenon DEF StoreInv

-----------------------------------------------------------------------------
(* Frames: what a part of the invariant depends on.                        *)

\* The queue, and which operations are in it,
LEMMA QueueFrame ==
    ASSUME QueueShape, UNCHANGED <<queue, io, os>> PROVE QueueShape'
  BY Zenon DEF QueueShape, QueueDistinct, Queued, InQueue

\* what the workers have in hand,
LEMMA WorkerFrame ==
    ASSUME WorkerShape, UNCHANGED <<wpc, wop, pending, io, status, os>> PROVE WorkerShape'
  BY Zenon DEF WorkerShape

\* the state of the operations,
LEMMA OpFrame ==
    ASSUME OpShape, UNCHANGED <<status, io, pending, os>> PROVE OpShape'
  BY Zenon DEF OpShape, InQueue

\* who has an operation,
LEMMA PlaceFrame ==
    ASSUME PlaceShape, UNCHANGED <<status, io, pending, os, wpc, wop, upc, uset>>
    PROVE  PlaceShape'
  BY DEF PlaceShape, InHand, Issuing

\* the calls in progress,
LEMMA CallFrame ==
    ASSUME CallShape, UNCHANGED <<upc, uset, os, opened, halting, pending, io, status>>
    PROVE  CallShape'
  BY Zenon DEF CallShape, Submitted

\* the drain,
LEMMA DrainFrame ==
    ASSUME DrainShape, UNCHANGED <<halting, os, queue, opened, wpc, pending>>
    PROVE  DrainShape'
  BY Zenon DEF DrainShape, Queued

\* the extents of the operations.
LEMMA ExtentFrame ==
    ASSUME CountsIo, SpansHeld, UNCHANGED <<activeIo, pending, span, owner, held>>
    PROVE  CountsIo' /\ SpansHeld'
  BY Zenon DEF CountsIo, SpansHeld, Spanning

\* A queue that is left alone holds the same operations.
LEMMA QueueKept ==
    ASSUME UNCHANGED queue
    PROVE  (QueueDistinct => QueueDistinct') /\ \A o : Queued(o)' <=> Queued(o)
  BY Zenon DEF QueueDistinct, Queued

\* Workers that are left alone keep what they have in hand.
LEMMA HandsKept ==
    ASSUME UNCHANGED workVars, NEW o, NEW label
    PROVE  InHand(o, label)' <=> InHand(o, label)
  BY Zenon DEF InHand, workVars

\* A worker that is not w keeps what it has in hand.
LEMMA InHandKept ==
    ASSUME NEW w \in Workers, NEW o, NEW label, InHand(o, label),
           \A v \in Workers \ {w} : wpc'[v] = wpc[v] /\ wop'[v] = wop[v],
           wpc[w] # label \/ wop[w] # o
    PROVE  InHand(o, label)'
  BY Zenon DEF InHand

-----------------------------------------------------------------------------
(* The counters of active I/O.                                             *)

\* The operations on an extent can be counted.
LEMMA SpanningFinite ==
    ASSUME StoreShape, NEW e
    PROVE  IsFiniteSet(Spanning(e)) /\ Cardinality(Spanning(e)) \in Nat
<1>1. IsFiniteSet(Ops)
  BY StoreAssumption, FS_Interval DEF Ops
<1>2. IsFiniteSet(Spanning(e))
  BY <1>1, FS_Subset, Zenon DEF StoreShape, Spanning
<1> QED
  BY <1>2, FS_CardinalityType, Zenon

\* Registering an operation counts it on its extents,
LEMMA CountAdd ==
    ASSUME StoreShape, CountsIo, NEW o \in Ops \ pending, NEW x \in SUBSET Extents,
           pending' = pending \cup {o}, span' = [span EXCEPT ![o] = x],
           activeIo' = [e \in Extents |-> activeIo[e] + (IF e \in x THEN 1 ELSE 0)]
    PROVE  CountsIo'
<1> SUFFICES ASSUME NEW e \in Extents
             PROVE  activeIo'[e] = Cardinality(Spanning(e)')
  BY Zenon DEF CountsIo
<1>1. activeIo[e] = Cardinality(Spanning(e))
  BY Zenon DEF CountsIo
<1>2. CASE e \in x
  <2>1. Spanning(e)' = Spanning(e) \cup {o} /\ o \notin Spanning(e)
    BY <1>2, Zenon DEF Spanning, StoreShape
  <2>2. Cardinality(Spanning(e)') = Cardinality(Spanning(e)) + 1
    BY <2>1, SpanningFinite, FS_AddElement, Zenon
  <2> QED
    BY <1>1, <1>2, <2>2, Zenon
<1>3. CASE e \notin x
  <2>1. Spanning(e)' = Spanning(e)
    BY <1>3, Zenon DEF Spanning, StoreShape
  <2> QED
    BY <1>1, <1>3, <2>1, SpanningFinite
<1> QED
  BY <1>2, <1>3, Zenon

\* retiring it takes it off,
LEMMA CountRetire ==
    ASSUME StoreShape, CountsIo, NEW o \in pending, Retire(o)
    PROVE  CountsIo'
<1> SUFFICES ASSUME NEW e \in Extents
             PROVE  activeIo'[e] = Cardinality(Spanning(e)')
  BY Zenon DEF CountsIo
<1>1. activeIo[e] = Cardinality(Spanning(e))
  BY Zenon DEF CountsIo
<1>2. CASE e \in span[o]
  <2>1. Spanning(e)' = Spanning(e) \ {o} /\ o \in Spanning(e)
    BY <1>2, Zenon DEF Spanning, StoreShape, Retire
  <2>2. Cardinality(Spanning(e)') = Cardinality(Spanning(e)) - 1
    BY <2>1, SpanningFinite, FS_RemoveElement, Zenon
  <2>3. activeIo[e] # 0
    BY <1>1, <2>1, SpanningFinite, FS_EmptySet, Zenon
  <2> QED
    BY <1>1, <1>2, <2>2, <2>3, Zenon DEF Retire
<1>3. CASE e \notin span[o]
  <2>1. Spanning(e)' = Spanning(e)
    BY <1>3, Zenon DEF Spanning, StoreShape, Retire
  <2> QED
    BY <1>1, <1>3, <2>1, Zenon DEF Retire
<1> QED
  BY <1>2, <1>3, Zenon

\* Range(queue) is the set of queued operations.
LEMMA QueueRange ==
    ASSUME StoreShape, QueueShape, OpShape
    PROVE  /\ Range(queue) \subseteq pending
           /\ \A o \in Ops : o \in Range(queue) <=> io[o] = InQueue
<1>1. Range(queue) \subseteq Ops /\ \A o \in Ops : o \in Range(queue) <=> Queued(o)
  <2>1. DOMAIN queue = 1 .. Len(queue) /\ \A i \in DOMAIN queue : queue[i] \in Ops
    BY DEF StoreShape
  <2> QED
    BY <2>1, Zenon DEF Range, Queued
<1>2. \A o \in Ops : o \in Range(queue) <=> io[o] = InQueue
  BY <1>1, Zenon DEF QueueShape
<1>3. Range(queue) \subseteq pending
  BY <1>1, <1>2, Zenon DEF OpShape
<1> QED
  BY <1>2, <1>3, Zenon

\* Dropping the queue takes off all operations in it.
LEMMA CountDrop ==
    ASSUME StoreShape, CountsIo, Range(queue) \subseteq pending, DropQueue
    PROVE  CountsIo'
<1> SUFFICES ASSUME NEW e \in Extents
             PROVE  activeIo'[e] = Cardinality(Spanning(e)')
  BY Zenon DEF CountsIo
<1> DEFINE gone == {o \in Range(queue) : e \in span[o]}
<1>1. activeIo[e] = Cardinality(Spanning(e))
  BY Zenon DEF CountsIo
<1>2. Spanning(e)' = Spanning(e) \ gone /\ Spanning(e) \cap gone = gone
  BY Zenon DEF Spanning, StoreShape, DropQueue
<1>3. Cardinality(Spanning(e)') = Cardinality(Spanning(e)) - Cardinality(gone)
  BY <1>2, SpanningFinite, FS_Difference, Zenon
<1>4. activeIo'[e] = activeIo[e] - Cardinality(gone)
  BY Zenon DEF DropQueue
<1> QED
  BY <1>1, <1>3, <1>4, Zenon

\* allocate_extents changes only the ranges given out.
LEMMA AllocateKeeps ==
    ASSUME StoreInv, NEW u \in Users, Allocate(u)
    PROVE  StoreInv'
<1> USE DEF StoreInv, Allocate, AllocateExtents, AllocateExtent, Take, extentVars,
            opVars, ioVars, opState, regVars, workVars, userVars, controlVars
<1>1. QueueShape' /\ WorkerShape' /\ OpShape' /\ PlaceShape' /\ CallShape' /\ DrainShape'
  BY QueueFrame, WorkerFrame, OpFrame, PlaceFrame, CallFrame, DrainFrame, Zenon
<1>2. StoreShape'
  BY Zenon DEF StoreShape, InQueue, Busy, Answered
<1>3. CountsIo' /\ SpansHeld'
  <2>1. CountsIo'
    BY Zenon DEF CountsIo, Spanning
  <2>2. SpansHeld'
    BY Zenon DEF SpansHeld, StoreShape
  <2> QED
    BY <2>1, <2>2, Zenon
<1> QED
  BY <1>1, <1>2, <1>3, Zenon

\* free_extents lets a range go that no operation works on.
LEMMA FreeKeeps ==
    ASSUME StoreInv, NEW u \in Users, FreeExtents(u)
    PROVE  StoreInv'
<1> USE DEF StoreInv, FreeExtents, MayFree, extentVars, opVars, ioVars, opState,
            regVars, workVars, userVars, controlVars
<1>1. QueueShape' /\ WorkerShape' /\ OpShape' /\ PlaceShape' /\ CallShape' /\ DrainShape'
  BY QueueFrame, WorkerFrame, OpFrame, PlaceFrame, CallFrame, DrainFrame, Zenon
<1>2. StoreShape'
  BY Zenon DEF StoreShape, InQueue, Busy, Answered
<1>3. CountsIo' /\ SpansHeld'
  <2>1. CountsIo'
    BY Zenon DEF CountsIo, Spanning
  <2>2. \A e \in held[u] : Spanning(e) = {}
    BY SpanningFinite, FS_EmptySet, Zenon DEF CountsIo
  <2>3. \A o \in pending : owner[o] = u => span[o] = {}
    BY <2>2, Zenon DEF SpansHeld, Spanning
  <2>4. SpansHeld'
    BY <2>3, Zenon DEF SpansHeld, StoreShape
  <2> QED
    BY <2>1, <2>4, Zenon
<1> QED
  BY <1>1, <1>2, <1>3, Zenon

\* A submission registers an operation that nobody uses.
LEMMA PosixSubmitKeeps ==
    ASSUME StoreInv, NEW u \in Users, PosixSubmit(u)
    PROVE  StoreInv'
<1> USE DEF StoreInv, PosixSubmit, Register, Call, LifecycleFree, extentVars, opVars,
            ioVars, opState, regVars, workVars, userVars, controlVars
<1> PICK o \in FreeOps : /\ Register(u, o) /\ queue' = Append(queue, o)
                         /\ io' = [io EXCEPT ![o] = "queued"]
  OBVIOUS
<1> o \in Ops \ pending /\ status[o] = "none" /\ io[o] = "none"
  BY Zenon DEF FreeOps, Submitted, OpShape
<1>1. StoreShape'
  BY DEF StoreShape, InQueue, Busy, Answered
<1>2. QueueShape'
  <2>1. ~Queued(o)
    BY Zenon DEF QueueShape, InQueue
  <2> QED
    BY <2>1, AppendQueue DEF StoreShape, QueueShape, InQueue
<1>3. WorkerShape'
  BY DEF StoreShape, WorkerShape, OpShape, InQueue, Busy, Answered
<1>4. OpShape'
  BY SMTT(30) DEF StoreShape, OpShape, WorkerShape, InQueue, Busy, Answered
<1>5. PlaceShape'
  BY SMTT(30) DEF StoreShape, PlaceShape, OpShape, WorkerShape, InHand, Issuing, InQueue, Busy,
         Answered
<1>6. CallShape'
  BY Zenon DEF StoreShape, CallShape, OpShape, Submitted, InQueue, Answered
<1>7. DrainShape'
  BY Zenon DEF StoreShape, DrainShape, CallShape
<1>8. CountsIo' /\ SpansHeld'
  <2>1. CountsIo'
    BY CountAdd, held[u] \in SUBSET Extents, Zenon
  <2>2. SpansHeld'
    BY SMTT(30) DEF SpansHeld, StoreShape
  <2> QED
    BY <2>1, <2>2, Zenon
<1> QED
  BY <1>1, <1>2, <1>3, <1>4, <1>5, <1>6, <1>7, <1>8, Zenon

\* On Windows the call of ReadFile or WriteFile follows.
LEMMA WindowsSubmitKeeps ==
    ASSUME StoreInv, NEW u \in Users, WindowsSubmit(u)
    PROVE  StoreInv'
<1> USE DEF StoreInv, WindowsSubmit, Register, Call, LifecycleFree, extentVars, opVars,
            ioVars, opState, regVars, workVars, userVars, controlVars
<1> PICK o \in FreeOps : Register(u, o) /\ upc' = [upc EXCEPT ![u] = "issue"]
                     /\ uset' = [uset EXCEPT ![u] = {o}]
  OBVIOUS
<1> o \in Ops \ pending /\ status[o] = "none" /\ io[o] = "none"
  BY Zenon DEF FreeOps, Submitted, OpShape
<1>1. QueueShape'
  BY QueueFrame, Zenon
<1>2. StoreShape'
  BY SMTT(30) DEF StoreShape, InQueue, Busy, Answered
<1>3. WorkerShape'
  BY SMTT(30) DEF StoreShape, WorkerShape, OpShape, InQueue, Busy, Answered
<1>4. OpShape'
  BY SMTT(30) DEF StoreShape, OpShape, WorkerShape, InQueue, Busy, Answered
<1>5. PlaceShape'
  BY SMTT(30) DEF StoreShape, PlaceShape, OpShape, WorkerShape, InHand, Issuing, InQueue, Busy,
         Answered
<1>6. CallShape'
  BY SMTT(30) DEF StoreShape, CallShape, OpShape, Submitted, InQueue, Answered
<1>7. DrainShape'
  BY Zenon DEF StoreShape, DrainShape, CallShape
<1>8. CountsIo' /\ SpansHeld'
  <2>1. CountsIo'
    BY CountAdd, held[u] \in SUBSET Extents, Zenon
  <2>2. SpansHeld'
    BY SMTT(30) DEF SpansHeld, StoreShape
  <2> QED
    BY <2>1, <2>2, Zenon
<1> QED
  BY <1>1, <1>2, <1>3, <1>4, <1>5, <1>6, <1>7, <1>8, Zenon

\* The kernel has the operation,
LEMMA IssueAccepted ==
    ASSUME StoreInv, NEW u \in Users, NEW o \in uset[u], upc[u] = "issue",
           upc' = [upc EXCEPT ![u] = "idle"], uset' = [uset EXCEPT ![u] = {}],
           io' = [io EXCEPT ![o] = "running"],
           UNCHANGED <<extentVars, regVars, opVars, status, result, workVars, controlVars>>
    PROVE  StoreInv'
<1> USE DEF StoreInv, StoreInv, extentVars, opVars, ioVars, opState, regVars, workVars,
            userVars, controlVars
<1> os = "windows" /\ o \in pending /\ uset[u] = {o} /\ io[o] = "none"
  BY Zenon DEF CallShape
<1> \A v \in Users : v # u => upc[v] = "idle"
  BY Zenon DEF CallShape
<1>1. DrainShape' /\ CountsIo' /\ SpansHeld'
  BY DrainFrame, ExtentFrame, Zenon
<1>2. StoreShape'
  BY Zenon DEF StoreShape, InQueue, Busy, Answered
<1>3. QueueShape'
  BY QueueKept, Zenon DEF StoreShape, QueueShape, InQueue
<1>4. WorkerShape'
  BY SMTT(30) DEF StoreShape, WorkerShape, OpShape, InQueue, Busy, Answered
<1>5. OpShape'
  BY SMTT(30) DEF StoreShape, OpShape, WorkerShape, InQueue, Busy, Answered
<1>6. PlaceShape'
  <2> USE HandsKept DEF workVars
  <2>1. \A q \in pending \ {o} : ~Issuing(q)
    BY Zenon DEF Issuing, StoreShape
  <2> QED
    BY <2>1, ZenonT(40) DEF PlaceShape, StoreShape, OpShape, Answered, InQueue
<1>7. CallShape'
  BY SMTT(30) DEF StoreShape, CallShape, OpShape, Submitted, InQueue, Answered
<1> QED
  BY <1>1, <1>2, <1>3, <1>4, <1>5, <1>6, <1>7, Zenon

\* or the submission is undone.
LEMMA IssueRefused ==
    ASSUME StoreInv, NEW u \in Users, NEW o \in uset[u], upc[u] = "issue",
           upc' = [upc EXCEPT ![u] = "idle"], uset' = [uset EXCEPT ![u] = {}],
           Retire(o), Forget(o),
           UNCHANGED <<extentVars, queue, cancelReq, ioVars, workVars, controlVars>>
    PROVE  StoreInv'
<1> USE DEF StoreInv, Retire, Forget, extentVars, opVars, ioVars, opState, regVars,
            workVars, userVars, controlVars
<1> os = "windows" /\ o \in pending /\ uset[u] = {o} /\ io[o] = "none"
  BY Zenon DEF CallShape
<1> \A v \in Users : v # u => upc[v] = "idle"
  BY Zenon DEF CallShape
<1>1. QueueShape'
  BY QueueFrame, Zenon
<1>2. StoreShape'
  BY Zenon DEF StoreShape, InQueue, Busy, Answered
<1>3. WorkerShape'
  BY SMTT(30) DEF StoreShape, WorkerShape, OpShape, InQueue, Busy, Answered
<1>4. OpShape'
  BY SMTT(30) DEF StoreShape, OpShape, WorkerShape, InQueue, Busy, Answered
<1>5. PlaceShape'
  <2> USE HandsKept DEF workVars
  <2>1. \A q \in pending \ {o} : ~Issuing(q)
    BY Zenon DEF Issuing, StoreShape
  <2> QED
    BY <2>1, ZenonT(40) DEF PlaceShape, StoreShape, OpShape, Answered, InQueue
<1>6. CallShape'
  BY ZenonT(40) DEF StoreShape, CallShape, OpShape, Submitted, InQueue, Answered
<1>7. DrainShape'
  BY Zenon DEF StoreShape, DrainShape, CallShape
<1>8. CountsIo' /\ SpansHeld'
  <2>1. CountsIo'
    BY CountRetire, Zenon
  <2>2. SpansHeld'
    BY ZenonT(40) DEF SpansHeld, StoreShape
  <2> QED
    BY <2>1, <2>2, Zenon
<1> QED
  BY <1>1, <1>2, <1>3, <1>4, <1>5, <1>6, <1>7, <1>8, Zenon

\* The caller lets go of an operation that was answered.
LEMMA WaitKeeps ==
    ASSUME StoreInv, NEW u \in Users, NEW o \in Submitted,
           status[o] # "Pending", \A v \in Users : o \notin uset[v], Forget(o),
           io' = [io EXCEPT ![o] = "none"],
           UNCHANGED <<extentVars, regVars, span, result, workVars, userVars, controlVars>>
    PROVE  StoreInv'
<1> USE DEF StoreInv, Forget, extentVars, opVars, ioVars, opState, regVars, workVars,
            userVars, controlVars
<1> o \in Ops \ pending /\ io[o] = "over" /\ status[o] \in Answered
  BY Zenon DEF Submitted, OpShape, StoreShape
<1>1. DrainShape'
  BY DrainFrame, Zenon
<1>2. StoreShape'
  BY Zenon DEF StoreShape, InQueue, Busy, Answered
<1>3. QueueShape'
  BY QueueKept, Zenon DEF StoreShape, QueueShape, InQueue
<1>4. WorkerShape'
  BY SMTT(30) DEF StoreShape, WorkerShape, OpShape, InQueue, Busy, Answered
<1>5. OpShape'
  BY ZenonT(40) DEF StoreShape, OpShape, WorkerShape, InQueue, Busy, Answered
<1>6. PlaceShape'
  <2>1. \A q \in Ops : Issuing(q)' <=> Issuing(q)
    BY Zenon DEF Issuing
  <2> QED
    BY <2>1, HandsKept, Zenon DEF PlaceShape, StoreShape, Answered
<1>7. CallShape'
  BY SMTT(30) DEF StoreShape, CallShape, OpShape, Submitted, InQueue, Answered
<1>8. CountsIo' /\ SpansHeld'
  <2>1. CountsIo'
    BY Zenon DEF CountsIo, Spanning
  <2>2. SpansHeld'
    BY ZenonT(40) DEF SpansHeld, StoreShape
  <2> QED
    BY <2>1, <2>2, Zenon
<1> QED
  BY <1>1, <1>2, <1>3, <1>4, <1>5, <1>6, <1>7, <1>8, Zenon

\* A worker takes the head of the queue and runs it.
LEMMA PosixTakeKeeps ==
    ASSUME StoreInv, NEW w \in Workers, PosixTake(w)
    PROVE  StoreInv'
<1> USE DEF StoreInv, PosixTake, extentVars, opVars, ioVars, opState, regVars, workVars,
            userVars, controlVars
<1> PICK o \in Ops : o = Head(queue) /\ Queued(o) /\ queue' \in Seq(Ops) /\ QueueDistinct'
                     /\ \A q \in Ops : Queued(q)' <=> Queued(q) /\ q # o
  BY TailQueue, Zenon DEF StoreShape, QueueShape
<1> o \in pending /\ io[o] = InQueue /\ status[o] = "Pending"
  BY Zenon DEF QueueShape, OpShape
<1>1. CountsIo' /\ SpansHeld'
  BY ExtentFrame, Zenon
<1>2. StoreShape'
  BY Zenon DEF StoreShape, InQueue, Busy, Answered
<1>3. QueueShape'
  BY Zenon DEF StoreShape, QueueShape, InQueue
<1>4. WorkerShape'
  BY SMTT(30) DEF StoreShape, WorkerShape, OpShape, InQueue, Busy, Answered
<1>5. OpShape'
  BY ZenonT(40) DEF StoreShape, OpShape, WorkerShape, InQueue, Busy, Answered
<1>6. PlaceShape'
  <2>1. InHand(o, "run")'
    BY Zenon DEF InHand, StoreShape
  <2>2. \A q \in Ops : Issuing(q)' <=> Issuing(q)
    BY Zenon DEF Issuing
  <2>3. ASSUME NEW q \in Ops, NEW l \in Busy, InHand(q, l) PROVE InHand(q, l)'
    BY <2>3, InHandKept, Zenon DEF StoreShape, Busy
  <2> QED
    BY <2>1, <2>2, <2>3, Zenon DEF PlaceShape, StoreShape, InQueue, Busy
<1>7. CallShape'
  BY SMTT(30) DEF StoreShape, CallShape, OpShape, Submitted, InQueue, Answered
<1>8. DrainShape'
  BY Zenon DEF StoreShape, DrainShape, CallShape
<1> QED
  BY <1>1, <1>2, <1>3, <1>4, <1>5, <1>6, <1>7, <1>8, Zenon

\* On Windows it takes a packet, and the I/O is over.
LEMMA IocpTakeKeeps ==
    ASSUME StoreInv, NEW w \in Workers, IocpTake(w)
    PROVE  StoreInv'
<1> USE DEF StoreInv, IocpTake, extentVars, opVars, ioVars, opState, regVars, workVars,
            userVars, controlVars
<1> PICK o \in Ops : o = Head(queue) /\ Queued(o) /\ queue' \in Seq(Ops) /\ QueueDistinct'
                     /\ \A q \in Ops : Queued(q)' <=> Queued(q) /\ q # o
  BY TailQueue, Zenon DEF StoreShape, QueueShape
<1> o \in pending /\ io[o] = InQueue /\ status[o] = "Pending"
  BY Zenon DEF QueueShape, OpShape
<1>1. CountsIo' /\ SpansHeld'
  BY ExtentFrame, Zenon
<1>2. StoreShape'
  BY Zenon DEF StoreShape, InQueue, Busy, Answered
<1>3. QueueShape'
  BY Zenon DEF StoreShape, QueueShape, InQueue
<1>4. WorkerShape'
  BY SMTT(30) DEF StoreShape, WorkerShape, OpShape, InQueue, Busy, Answered
<1>5. OpShape'
  BY ZenonT(40) DEF StoreShape, OpShape, WorkerShape, InQueue, Busy, Answered
<1>6. PlaceShape'
  <2>1. InHand(o, "retire")'
    BY Zenon DEF InHand, StoreShape
  <2>2. \A q \in Ops : Issuing(q)' <=> Issuing(q)
    BY Zenon DEF Issuing
  <2>3. ASSUME NEW q \in Ops, NEW l \in Busy, InHand(q, l) PROVE InHand(q, l)'
    BY <2>3, InHandKept, Zenon DEF StoreShape, Busy
  <2> QED
    BY <2>1, <2>2, <2>3, Zenon DEF PlaceShape, StoreShape, InQueue, Busy
<1>7. CallShape'
  BY SMTT(30) DEF StoreShape, CallShape, OpShape, Submitted, InQueue, Answered
<1>8. DrainShape'
  BY Zenon DEF StoreShape, DrainShape, CallShape
<1> QED
  BY <1>1, <1>2, <1>3, <1>4, <1>5, <1>6, <1>7, <1>8, Zenon

\* pread or pwrite returns.
LEMMA PosixRunKeeps ==
    ASSUME StoreInv, NEW w \in Workers, PosixRun(w)
    PROVE  StoreInv'
<1> USE DEF StoreInv, PosixRun, extentVars, opVars, ioVars, opState, regVars, workVars,
            userVars, controlVars
<1> PICK o \in pending : o = wop[w] /\ os = "posix" /\ io[o] = "running"
  BY Zenon DEF WorkerShape
<1> o \in Ops
  BY Zenon DEF StoreShape
<1>1. CountsIo' /\ SpansHeld'
  BY ExtentFrame, Zenon
<1>2. StoreShape'
  BY Zenon DEF StoreShape, InQueue, Busy, Answered
<1>3. QueueShape'
  BY QueueKept, ZenonT(40) DEF StoreShape, QueueShape, InQueue
<1>4. WorkerShape'
  BY SMTT(30) DEF StoreShape, WorkerShape, OpShape, InQueue, Busy, Answered
<1>5. OpShape'
  BY ZenonT(40) DEF StoreShape, OpShape, WorkerShape, InQueue, Busy, Answered
<1>6. PlaceShape'
  <2>1. InHand(o, "retire")'
    BY Zenon DEF InHand, StoreShape
  <2>2. \A q \in Ops : Issuing(q)' <=> Issuing(q)
    BY Zenon DEF Issuing
  <2>3. ASSUME NEW q \in Ops \ {o}, NEW l \in Busy, InHand(q, l) PROVE InHand(q, l)'
    BY <2>3, InHandKept, Zenon DEF StoreShape, Busy
  <2> QED
    BY <2>1, <2>2, <2>3, Zenon DEF PlaceShape, StoreShape, InQueue, Busy
<1>7. CallShape'
  BY SMTT(30) DEF StoreShape, CallShape, OpShape, Submitted, InQueue, Answered
<1>8. DrainShape'
  BY QueueKept, Zenon DEF StoreShape, DrainShape, CallShape
<1> QED
  BY <1>1, <1>2, <1>3, <1>4, <1>5, <1>6, <1>7, <1>8, Zenon


-----------------------------------------------------------------------------
(* The other steps of the workers, and the kernel.                         *)

\* A worker leaves: it has nothing in hand, and nothing is left to do.
LEMMA ExitKeeps ==
    ASSUME StoreInv, NEW w \in Workers, PosixExit(w) \/ IocpExit(w)
    PROVE  StoreInv'
<1> USE DEF StoreInv, PosixExit, IocpExit, IocpShutdownDrained, extentVars, opVars,
            ioVars, opState, regVars, workVars, userVars, controlVars
<1>1. QueueShape' /\ OpShape' /\ CallShape' /\ CountsIo' /\ SpansHeld'
  BY QueueFrame, OpFrame, CallFrame, ExtentFrame, Zenon
<1>2. StoreShape'
  BY ZenonT(40) DEF StoreShape, InQueue, Busy, Answered
<1>3. WorkerShape'
  BY SMTT(30) DEF StoreShape, WorkerShape, OpShape, InQueue, Busy, Answered
<1>4. PlaceShape'
  <2>1. \A q \in Ops : Issuing(q)' <=> Issuing(q)
    BY Zenon DEF Issuing
  <2>2. ASSUME NEW q \in Ops, NEW l \in Busy, InHand(q, l) PROVE InHand(q, l)'
    BY <2>2, InHandKept, Zenon DEF StoreShape, Busy
  <2> QED
    BY <2>1, <2>2, Zenon DEF PlaceShape, StoreShape, Busy
<1>5. DrainShape'
  BY QueueKept, Zenon DEF StoreShape, DrainShape, CallShape
<1> QED
  BY <1>1, <1>2, <1>3, <1>4, <1>5, Zenon

\* The kernel ends an operation and queues its packet.
LEMMA KernelEndsKeeps ==
    ASSUME StoreInv, NEW o \in Ops, KernelEnds(o)
    PROVE  StoreInv'
<1> USE DEF StoreInv, KernelEnds, extentVars, opVars, ioVars, opState, regVars,
            workVars, userVars, controlVars
<1> o \in pending /\ status[o] = "Pending"
  BY Zenon DEF OpShape
<1>1. CountsIo' /\ SpansHeld'
  BY ExtentFrame, Zenon
<1>2. StoreShape'
  BY SMTT(30) DEF StoreShape, InQueue, Busy, Answered
<1>3. QueueShape'
  <2>1. ~Queued(o)
    BY Zenon DEF QueueShape, InQueue
  <2> QED
    BY <2>1, AppendQueue, Zenon DEF StoreShape, QueueShape, InQueue
<1>4. WorkerShape'
  BY SMTT(30) DEF StoreShape, WorkerShape, OpShape, InQueue, Busy, Answered
<1>5. OpShape'
  BY ZenonT(40) DEF StoreShape, OpShape, WorkerShape, InQueue, Busy, Answered
<1>6. PlaceShape'
  <2>1. \A q \in Ops : Issuing(q)' <=> Issuing(q)
    BY Zenon DEF Issuing
  <2> QED
    BY <2>1, HandsKept, Zenon DEF PlaceShape, StoreShape
<1>7. CallShape'
  <2>1. Submitted' = Submitted /\ \A q \in Ops : io[q] # "running" => io'[q] = io[q]
    BY Zenon DEF Submitted, StoreShape
  <2>2. ASSUME NEW v \in Users, upc[v] = "flush", NEW q \in Submitted
        PROVE  io'[q] = "over" \/ q \in uset[v]
    BY <2>1, <2>2, Zenon DEF CallShape, Submitted
  <2>3. ASSUME NEW v \in Users, upc[v] = "issue"
        PROVE  \E q \in pending : uset[v] = {q} /\ io'[q] = "none"
    BY <2>1, <2>3, ZenonT(40) DEF CallShape, StoreShape
  <2> QED
    BY <2>1, <2>2, <2>3, SMTT(30) DEF CallShape
<1>8. DrainShape'
  BY Zenon DEF StoreShape, DrainShape, CallShape
<1> QED
  BY <1>1, <1>2, <1>3, <1>4, <1>5, <1>6, <1>7, <1>8, Zenon

\* A worker lets go of the extents of an operation that is over.
LEMMA RetireKeeps ==
    ASSUME StoreInv, NEW w \in Workers, wpc[w] = "retire", Retire(wop[w]),
           wpc' = [wpc EXCEPT ![w] = "answer"],
           UNCHANGED <<extentVars, queue, cancelReq, owner, status, ioVars, wop, userVars,
                       controlVars>>
    PROVE  StoreInv'
<1> USE DEF StoreInv, Retire, extentVars, opVars, ioVars, opState, regVars, workVars,
            userVars, controlVars
<1> PICK o \in pending : o = wop[w] /\ io[o] = "over"
  BY Zenon DEF WorkerShape
<1> o \in Ops /\ status[o] = "Pending"
  BY Zenon DEF StoreShape, OpShape
<1>1. QueueShape'
  BY QueueFrame, Zenon
<1>2. StoreShape'
  BY Zenon DEF StoreShape, InQueue, Busy, Answered
<1>3. WorkerShape'
  BY SMTT(30) DEF StoreShape, WorkerShape, OpShape, InQueue, Busy, Answered
<1>4. OpShape'
  BY Zenon DEF StoreShape, OpShape, WorkerShape, InQueue, Busy, Answered
<1>5. PlaceShape'
  <2>1. InHand(o, "answer")'
    BY Zenon DEF InHand, StoreShape
  <2>2. \A q \in Ops : Issuing(q)' <=> Issuing(q)
    BY Zenon DEF Issuing
  <2>3. ASSUME NEW q \in Ops \ {o}, NEW l \in Busy, InHand(q, l) PROVE InHand(q, l)'
    BY <2>3, InHandKept, Zenon DEF StoreShape, Busy
  <2> QED
    BY <2>1, <2>2, <2>3, Zenon DEF PlaceShape, StoreShape, OpShape, Busy, Answered
<1>6. CallShape'
  <2>1. \A v \in Users : upc[v] = "issue" =>
           \E q \in pending \ {o} : uset[v] = {q} /\ io[q] = "none"
    BY ZenonT(40) DEF CallShape
  <2> QED
    BY <2>1, SMTT(30) DEF CallShape, Submitted
<1>7. DrainShape'
  BY QueueKept, ZenonT(40) DEF StoreShape, DrainShape, CallShape
<1>8. CountsIo' /\ SpansHeld'
  <2>1. CountsIo'
    BY CountRetire, Zenon
  <2>2. SpansHeld'
    BY Zenon DEF SpansHeld, StoreShape
  <2> QED
    BY <2>1, <2>2, Zenon
<1> QED
  BY <1>1, <1>2, <1>3, <1>4, <1>5, <1>6, <1>7, <1>8, Zenon

\* Then it answers the waiter.
LEMMA AnswerKeeps ==
    ASSUME StoreInv, NEW w \in Workers, NEW how \in Answered, wpc[w] = "answer",
           status' = Answer({wop[w]}, how), wpc' = [wpc EXCEPT ![w] = "loop"],
           wop' = [wop EXCEPT ![w] = NoOp],
           UNCHANGED <<extentVars, regVars, opVars, io, userVars, controlVars>>
    PROVE  StoreInv'
<1> USE DEF StoreInv, Answer, extentVars, opVars, ioVars, opState, regVars, workVars,
            userVars, controlVars
<1> PICK o \in Ops \ pending : o = wop[w] /\ io[o] = "over" /\ status[o] = "Pending"
  BY Zenon DEF WorkerShape
<1>1. CountsIo' /\ SpansHeld'
  BY ExtentFrame, Zenon
<1>2. StoreShape'
  BY Zenon DEF StoreShape, InQueue, Busy, Answered
<1>3. QueueShape'
  BY QueueKept, Zenon DEF StoreShape, QueueShape, InQueue
<1>4. WorkerShape'
  BY SMTT(30) DEF StoreShape, WorkerShape, OpShape, InQueue, Busy, Answered
<1>5. OpShape'
  BY ZenonT(40) DEF StoreShape, OpShape, WorkerShape, InQueue, Busy, Answered
<1>6. PlaceShape'
  <2>1. \A q \in Ops \ {o} : status'[q] = status[q]
    OBVIOUS
  <2>2. \A q \in Ops : Issuing(q)' <=> Issuing(q)
    BY Zenon DEF Issuing
  <2>3. ASSUME NEW q \in Ops \ {o}, NEW l \in Busy, InHand(q, l) PROVE InHand(q, l)'
    BY <2>3, InHandKept, Zenon DEF StoreShape, Busy
  <2> QED
    BY <2>1, <2>2, <2>3, ZenonT(40) DEF PlaceShape, StoreShape, OpShape, Busy, Answered
<1>7. CallShape'
  <2>1. Submitted' = Submitted
    BY Zenon DEF Submitted, StoreShape, Answered
  <2> QED
    BY <2>1, ZenonT(40) DEF CallShape
<1>8. DrainShape'
  BY QueueKept, ZenonT(40) DEF StoreShape, DrainShape, CallShape
<1> QED
  BY <1>1, <1>2, <1>3, <1>4, <1>5, <1>6, <1>7, <1>8, Zenon

\* flush() begins with the operations that are pending.
LEMMA FlushBeginKeeps ==
    ASSUME StoreInv, NEW u \in Users, FlushBegin(u)
    PROVE  StoreInv'
<1> USE DEF StoreInv, FlushBegin, Call, LifecycleFree, extentVars, opVars, ioVars,
            opState, regVars, workVars, userVars, controlVars
<1>1. QueueShape' /\ WorkerShape' /\ OpShape' /\ DrainShape' /\ CountsIo' /\ SpansHeld'
  BY QueueFrame, WorkerFrame, OpFrame, DrainFrame, ExtentFrame, Zenon
<1>2. StoreShape'
  BY Zenon DEF StoreShape, InQueue, Busy, Answered
<1>3. PlaceShape'
  <2>1. \A q \in Ops : ~Issuing(q)
    BY Zenon DEF Issuing
  <2> QED
    BY <2>1, HandsKept, Zenon DEF PlaceShape
<1>4. CallShape'
  <2>1. \A q \in Submitted \ pending : io[q] = "over"
    BY SMTT(30) DEF Submitted, OpShape, PlaceShape, WorkerShape, InHand, StoreShape
  <2> QED
    BY <2>1, ZenonT(40) DEF CallShape, Submitted, StoreShape
<1> QED
  BY <1>1, <1>2, <1>3, <1>4, Zenon

\* It goes on to the next operation, or gives up.
LEMMA FlushWaitKeeps ==
    ASSUME StoreInv, NEW u \in Users, FlushWait(u)
    PROVE  StoreInv'
<1> USE DEF StoreInv, FlushWait, extentVars, opVars, ioVars, opState, regVars, workVars,
            userVars, controlVars
<1> PICK o \in uset[u] :
       /\ status[o] # "Pending"
       /\ \/ upc' = [upc EXCEPT ![u] = "idle"] /\ uset' = [uset EXCEPT ![u] = {}]
          \/ uset' = [uset EXCEPT ![u] = @ \ {o}] /\ UNCHANGED upc
  BY Zenon DEF StoreShape
<1> o \in Ops
  BY Zenon DEF StoreShape
<1>1. QueueShape' /\ WorkerShape' /\ OpShape' /\ DrainShape' /\ CountsIo' /\ SpansHeld'
  BY QueueFrame, WorkerFrame, OpFrame, DrainFrame, ExtentFrame, Zenon
<1>2. StoreShape'
  BY SMTT(30) DEF StoreShape, InQueue, Busy, Answered
<1>3. PlaceShape'
  <2>1. \A q \in Ops : Issuing(q)' <=> Issuing(q)
    BY ZenonT(40) DEF Issuing, StoreShape, CallShape
  <2> QED
    BY <2>1, HandsKept, Zenon DEF PlaceShape
<1>4. CallShape'
  <2>1. CASE upc' = [upc EXCEPT ![u] = "idle"] /\ uset' = [uset EXCEPT ![u] = {}]
    BY <2>1, SMTT(30) DEF CallShape, StoreShape, Submitted
  <2>2. CASE uset' = [uset EXCEPT ![u] = @ \ {o}] /\ UNCHANGED upc
    <3>1. o \in Submitted => io[o] = "over"
      BY Zenon DEF OpShape, StoreShape, Submitted
    <3> QED
      BY <2>2, <3>1, ZenonT(40) DEF CallShape, StoreShape, Submitted
  <2> QED
    BY <2>1, <2>2, Zenon
<1> QED
  BY <1>1, <1>2, <1>3, <1>4, Zenon

\* fsync or FlushFileBuffers ends the call.
LEMMA FlushSyncKeeps ==
    ASSUME StoreInv, NEW u \in Users, FlushSync(u)
    PROVE  StoreInv'
<1> USE DEF StoreInv, FlushSync, extentVars, opVars, ioVars, opState, regVars, workVars,
            userVars, controlVars
<1>1. QueueShape' /\ WorkerShape' /\ OpShape' /\ DrainShape' /\ CountsIo' /\ SpansHeld'
  BY QueueFrame, WorkerFrame, OpFrame, DrainFrame, ExtentFrame, Zenon
<1>2. StoreShape'
  BY Zenon DEF StoreShape, InQueue, Busy, Answered
<1>3. PlaceShape'
  <2>1. \A q \in Ops : Issuing(q)' <=> Issuing(q)
    BY Zenon DEF Issuing, StoreShape
  <2> QED
    BY <2>1, HandsKept, Zenon DEF PlaceShape
<1>4. CallShape'
  BY ZenonT(40) DEF StoreShape, CallShape, OpShape, Submitted, InQueue, Answered
<1> QED
  BY <1>1, <1>2, <1>3, <1>4, Zenon

\* POSIX cancel_all and close() answer what is queued, in one section.
LEMMA DropKeeps ==
    ASSUME StoreInv, NEW u \in Users, os = "posix", Call(u), DropQueue,
           \/ UNCHANGED <<upc, halting>>
           \/ halting' = TRUE /\ upc' = [upc EXCEPT ![u] = "join"],
           UNCHANGED <<extentVars, cancelReq, owner, result, workVars, uset, os, opened>>
    PROVE  StoreInv'
<1> USE DEF StoreInv, DropQueue, Answer, Call, LifecycleFree, extentVars, opVars,
            ioVars, opState, regVars, workVars, userVars, controlVars
<1> Range(queue) \subseteq pending /\ \A q \in Ops : q \in Range(queue) <=> io[q] = InQueue
  BY QueueRange, Zenon
<1> \A q \in Ops : ~Issuing(q) /\ ~Issuing(q)'
  BY Zenon DEF Issuing, StoreShape
<1>1. StoreShape'
  <2>1. status' \in [Ops -> {"none", "Pending"} \cup Answered]
    BY Zenon DEF StoreShape, Answered
  <2>2. io' \in [Ops -> {"none", InQueue', "running", "over"}]
    BY ZenonT(40) DEF StoreShape, InQueue
  <2>3. span' \in [Ops -> SUBSET Extents] /\ pending' \subseteq Ops /\ queue' \in Seq(Ops)
    BY SMTT(30) DEF StoreShape
  <2>4. upc' \in [Users -> {"idle", "issue", "flush", "join"}] /\ halting' \in BOOLEAN
    BY Zenon DEF StoreShape
  <2> QED
    BY <2>1, <2>2, <2>3, <2>4, Zenon DEF StoreShape
<1>2. QueueShape'
  <2>1. queue' \in Seq(Ops) /\ QueueDistinct' /\ \A q \in Ops : ~Queued(q)'
    BY DroppedQueue, Zenon
  <2> QED
    BY <2>1, Zenon DEF StoreShape, QueueShape, InQueue
<1>3. WorkerShape'
  BY SMTT(30) DEF StoreShape, WorkerShape, OpShape, InQueue, Busy, Answered
<1>4. OpShape'
  BY ZenonT(40) DEF StoreShape, OpShape, WorkerShape, InQueue, Busy, Answered
<1>5. PlaceShape'
  <2>1. \A q \in Ops : q \in Range(queue) => status[q] = "Pending"
    BY Zenon DEF OpShape
  <2> QED
    BY <2>1, HandsKept, Zenon DEF PlaceShape, StoreShape, InQueue
<1>6. CallShape'
  BY SMTT(30) DEF StoreShape, CallShape, OpShape, Submitted, InQueue, Answered
<1>7. DrainShape'
  BY SMTT(30) DEF StoreShape, DrainShape, CallShape, Queued
<1>8. CountsIo' /\ SpansHeld'
  <2>1. CountsIo'
    BY CountDrop, Zenon
  <2>2. SpansHeld'
    BY Zenon DEF SpansHeld, StoreShape
  <2> QED
    BY <2>1, <2>2, Zenon
<1> QED
  BY <1>1, <1>2, <1>3, <1>4, <1>5, <1>6, <1>7, <1>8, Zenon

\* On Windows cancel_all only asks the kernel,
LEMMA WindowsCancelKeeps ==
    ASSUME StoreInv, NEW u \in Users, WindowsCancelAll(u)
    PROVE  StoreInv'
<1> USE DEF StoreInv, WindowsCancelAll, extentVars, opVars, ioVars, opState, regVars,
            workVars, userVars, controlVars
<1>1. /\ QueueShape' /\ WorkerShape' /\ OpShape' /\ PlaceShape'
      /\ CallShape' /\ DrainShape' /\ CountsIo' /\ SpansHeld'
  BY QueueFrame, WorkerFrame, OpFrame, PlaceFrame, CallFrame, DrainFrame, ExtentFrame, Zenon
<1>2. StoreShape'
  BY Zenon DEF StoreShape, InQueue, Busy, Answered
<1> QED
  BY <1>1, <1>2, Zenon

\* and so does close(), before it joins the workers.
LEMMA WindowsCloseKeeps ==
    ASSUME StoreInv, NEW u \in Users, WindowsClose(u)
    PROVE  StoreInv'
<1> USE DEF StoreInv, WindowsClose, Call, LifecycleFree, extentVars, opVars, ioVars,
            opState, regVars, workVars, userVars, controlVars
<1> \A q \in Ops : ~Issuing(q) /\ ~Issuing(q)'
  BY Zenon DEF Issuing, StoreShape
<1>1. QueueShape' /\ WorkerShape' /\ OpShape' /\ CountsIo' /\ SpansHeld'
  BY QueueFrame, WorkerFrame, OpFrame, ExtentFrame, Zenon
<1>2. StoreShape'
  BY Zenon DEF StoreShape, InQueue, Busy, Answered
<1>3. PlaceShape'
  BY HandsKept, SMTT(30) DEF StoreShape, PlaceShape, OpShape, WorkerShape, InHand, Issuing,
                   InQueue, Busy, Answered
<1>4. CallShape'
  BY ZenonT(40) DEF StoreShape, CallShape, OpShape, Submitted, InQueue, Answered
<1>5. DrainShape'
  BY Zenon DEF StoreShape, DrainShape, CallShape
<1> QED
  BY <1>1, <1>2, <1>3, <1>4, <1>5, Zenon

\* When all workers have left, no operation is pending.
LEMMA ClosedKeeps ==
    ASSUME StoreInv, NEW u \in Users, Closed(u)
    PROVE  StoreInv'
<1> USE DEF StoreInv, Closed, extentVars, opVars, ioVars, opState, regVars, workVars,
            userVars, controlVars
<1> opened /\ halting /\ \A v \in Users : v # u => upc[v] = "idle"
  BY Zenon DEF CallShape
<1> \A q \in Ops : ~Issuing(q) /\ ~Issuing(q)'
  BY Zenon DEF Issuing, StoreShape
<1> \A q \in Ops, l \in Busy : ~InHand(q, l)
  BY Zenon DEF InHand, Busy
<1> pending = {}
  <2>1. CASE os = "windows"
    BY <2>1, StoreAssumption, Zenon DEF DrainShape
  <2>2. CASE os = "posix"
    BY <2>2, ZenonT(40) DEF StoreShape, DrainShape, QueueShape, PlaceShape, OpShape, Busy
  <2> QED
    BY <2>1, <2>2, Zenon DEF StoreShape
<1>1. QueueShape'
  BY QueueFrame, Zenon
<1>2. StoreShape'
  BY Zenon DEF StoreShape, InQueue, Busy, Answered
<1>3. WorkerShape'
  BY Zenon DEF StoreShape, WorkerShape, OpShape, InQueue, Busy, Answered
<1>4. OpShape'
  BY Zenon DEF StoreShape, OpShape, WorkerShape, InQueue, Busy, Answered
<1>5. PlaceShape'
  BY HandsKept, SMTT(30) DEF StoreShape, PlaceShape, OpShape, WorkerShape, InHand, Issuing,
                   InQueue, Busy, Answered
<1>6. CallShape'
  BY SMTT(30) DEF StoreShape, CallShape, OpShape, Submitted, InQueue, Answered
<1>7. DrainShape'
  BY Zenon DEF StoreShape, DrainShape, CallShape
<1>8. CountsIo' /\ SpansHeld'
  <2>1. \A e \in Extents : Spanning(e)' = {}
    BY Zenon DEF Spanning
  <2> QED
    BY <2>1, FS_EmptySet, Zenon DEF CountsIo, SpansHeld
<1> QED
  BY <1>1, <1>2, <1>3, <1>4, <1>5, <1>6, <1>7, <1>8, Zenon

\* open() starts from a closed store.
LEMMA ResetKeeps ==
    ASSUME StoreInv, NEW u \in Users, Reset(u)
    PROVE  StoreInv'
<1> USE DEF StoreInv, Reset, LifecycleFree, extentVars, opVars, ioVars, opState,
            regVars, workVars, userVars, controlVars
<1> pending = {} /\ \A w \in Workers : wpc[w] = "exited"
  BY Zenon DEF DrainShape
<1>1. QueueShape' /\ OpShape'
  BY QueueFrame, OpFrame, Zenon
<1>2. StoreShape'
  BY Zenon DEF StoreShape, InQueue, Busy, Answered
<1>3. WorkerShape'
  BY Zenon DEF StoreShape, WorkerShape, OpShape, InQueue, Busy, Answered
<1>4. PlaceShape'
  BY ZenonT(40) DEF StoreShape, PlaceShape, OpShape, WorkerShape, InHand, Issuing, InQueue, Busy,
         Answered
<1>5. CallShape'
  BY ZenonT(40) DEF StoreShape, CallShape, OpShape, Submitted, InQueue, Answered
<1>6. DrainShape'
  BY Zenon DEF StoreShape, DrainShape, CallShape
<1>7. CountsIo' /\ SpansHeld'
  <2>1. \A e \in Extents : Spanning(e)' = {}
    BY Zenon DEF Spanning
  <2> QED
    BY <2>1, FS_EmptySet, Zenon DEF CountsIo, SpansHeld
<1> QED
  BY <1>1, <1>2, <1>3, <1>4, <1>5, <1>6, <1>7, Zenon

-----------------------------------------------------------------------------
\* Every step keeps the invariant.
LEMMA StoreInvStep == StoreInv /\ [Next]_vars => StoreInv'
<1> SUFFICES ASSUME StoreInv, [Next]_vars PROVE StoreInv'
  OBVIOUS
<1>1. CASE UNCHANGED vars
  <2> USE DEF vars, extentVars, opVars, ioVars, opState, regVars, workVars, userVars,
              controlVars, StoreInv
  <2>1. StoreShape'
    BY <1>1, Zenon DEF StoreShape, InQueue
  <2> QED
    BY <1>1, <2>1, QueueFrame, WorkerFrame, OpFrame, PlaceFrame, CallFrame, DrainFrame,
       ExtentFrame, Zenon
<1>2. ASSUME NEW u \in Users, UserStep(u)
      PROVE  StoreInv'
  <2>1. CASE Wait(u)
    BY <2>1, WaitKeeps, Zenon DEF Wait
  <2>2. CASE PosixOpen(u) \/ WindowsOpen(u)
    BY <2>2, ResetKeeps, Zenon DEF PosixOpen, WindowsOpen
  <2>3. CASE PosixAllocate(u) \/ WindowsAllocate(u) \/ PosixFree(u) \/ WindowsFree(u)
    BY <2>3, AllocateKeeps, FreeKeeps, Zenon DEF PosixAllocate, WindowsAllocate, PosixFree,
                                          WindowsFree
  <2>4. CASE PosixRead(u) \/ PosixWrite(u) \/ WindowsRead(u) \/ WindowsWrite(u)
    BY <2>4, PosixSubmitKeeps, WindowsSubmitKeeps, Zenon DEF PosixRead, PosixWrite, WindowsRead, WindowsWrite
  <2>5. CASE PosixFlush(u) \/ WindowsFlush(u)
    BY <2>5, FlushBeginKeeps, Zenon DEF PosixFlush, WindowsFlush
  <2>6. CASE PosixCancelAll(u)
    BY <2>6, DropKeeps, Zenon DEF PosixCancelAll, userVars, controlVars
  <2>7. CASE PosixClose(u)
    BY <2>7, DropKeeps, Zenon DEF PosixClose
  <2>8. CASE WindowsCancelAll(u) \/ WindowsClose(u)
    BY <2>8, WindowsCancelKeeps, WindowsCloseKeeps, Zenon
  <2> QED
    BY <1>2, <2>1, <2>2, <2>3, <2>4, <2>5, <2>6, <2>7, <2>8, Zenon DEF UserStep
<1>3. ASSUME NEW u \in Users, CallStep(u)
      PROVE  StoreInv'
  <2>1. CASE Issue(u)
    <3>1. PICK o \in uset[u] :
             \/ /\ io' = [io EXCEPT ![o] = "running"]
                /\ UNCHANGED <<pending, activeIo, status, opVars>>
             \/ Retire(o) /\ Forget(o) /\ UNCHANGED io
      BY <2>1, Zenon DEF Issue
    <3> QED
      BY <2>1, <3>1, IssueAccepted, IssueRefused, Zenon DEF Issue, regVars, opVars, ioVars
  <2>2. CASE FlushWait(u) \/ FlushSync(u)
    BY <2>2, FlushWaitKeeps, FlushSyncKeeps, Zenon
  <2>3. CASE PosixCloseEnd(u) \/ WindowsCloseEnd(u)
    BY <2>3, ClosedKeeps, Zenon DEF PosixCloseEnd, WindowsCloseEnd
  <2> QED
    BY <1>3, <2>1, <2>2, <2>3, Zenon DEF CallStep
<1>4. ASSUME NEW w \in Workers, WorkerStep(w)
      PROVE  StoreInv'
  <2>1. CASE PosixTake(w) \/ PosixRun(w) \/ PosixExit(w) \/ IocpTake(w) \/ IocpExit(w)
    BY <2>1, PosixTakeKeeps, PosixRunKeeps, ExitKeeps, IocpTakeKeeps, Zenon
  <2>2. CASE RetireThenAnswer(w) /\ wpc[w] = "retire"
    BY <2>2, RetireKeeps, Zenon DEF RetireThenAnswer, ioVars
  <2>3. CASE RetireThenAnswer(w) /\ wpc[w] # "retire"
    <3>1. PICK how \in Answered : status' = Answer({wop[w]}, how)
      BY <2>3, Zenon DEF RetireThenAnswer, Answered
    <3> QED
      BY <2>3, <3>1, AnswerKeeps, Zenon DEF RetireThenAnswer, regVars, opVars
  <2> QED
    BY <1>4, <2>1, <2>2, <2>3, Zenon DEF WorkerStep, PosixFinish, IocpFinish
<1> QED
  BY <1>1, <1>2, <1>3, <1>4, KernelEndsKeeps, Zenon DEF Next

\* So it always holds.
LEMMA StoreInvAlways == Spec => []StoreInv
  BY StoreInvInit, StoreInvStep, PTL DEF Spec

-----------------------------------------------------------------------------
\* Whatever the number of workers, callers and operations, and on either system:
\* when wait() can return, nobody uses the caller's buffer any more.
THEOREM AnsweredOperationsAreOver == Spec => []AnsweredIsOver
<1>1. StoreInv => AnsweredIsOver
  BY Zenon DEF StoreInv, OpShape, AnsweredIsOver, Submitted, Answered
<1> QED
  BY <1>1, StoreInvAlways, PTL

\* An operation that can still touch the file works on extents that belong to
\* its caller, although free_extents, cancel_all and close() run beside it.
THEOREM OperationsStayOwned == Spec => []InProgressOwned
<1>1. StoreInv => InProgressOwned
  BY Zenon DEF StoreInv, StoreShape, OpShape, DrainShape, SpansHeld, InProgressOwned,
         Submitted, InQueue
<1> QED
  BY <1>1, StoreInvAlways, PTL

\* When flush() synchronises the file, every operation submitted before is over.
THEOREM FlushCovers == Spec => []FlushCoversWrites
<1>1. StoreInv => FlushCoversWrites
  BY Zenon DEF StoreInv, CallShape, FlushCoversWrites
<1> QED
  BY <1>1, StoreInvAlways, PTL

\* close() leaves no operation without an answer.
THEOREM CloseStrandsNobody == Spec => []NoneStranded
<1>1. StoreInv => NoneStranded
  BY Zenon DEF StoreInv, PlaceShape, DrainShape, NoneStranded, Submitted, InHand
<1> QED
  BY <1>1, StoreInvAlways, PTL


-----------------------------------------------------------------------------
(* The extents.                                                            *)

\* A range of extents as free_extents is given it.
IsRun(range) ==
    \E f \in Extents, n \in Nat \ {0} : f + n <= ExtentCount /\ range = f .. f + n - 1

NoneTwice(s) == \A i, j \in 1 .. Len(s) : s[i] = s[j] => i = j

\* The bookkeeping of the extents.  The free list names no extent twice, which
\* is why its length counts the free ones; a user holds nothing or one run.
ExtentInv ==
    /\ opened \in BOOLEAN /\ used \subseteq Extents /\ freeList \in Seq(Extents)
    /\ held \in [Users -> SUBSET Extents]
    /\ NoneTwice(freeList) /\ Range(freeList) = (IF opened THEN Extents \ used ELSE {})
    /\ usedExtents = Cardinality(used) /\ (~opened => used = {})
    /\ used = UNION {held[u] : u \in Users}
    /\ \A u \in Users : held[u] = {} \/ IsRun(held[u])
    /\ \A u, v \in Users : u # v => held[u] \cap held[v] = {}

\* What the loop keeps of the first n positions of s.
KeptUpTo(k, s, range, n) ==
    k = [i \in 0 .. n |->
            IF i = 0 THEN <<>>
            ELSE IF s[i] \in range THEN k[i - 1] ELSE Append(k[i - 1], s[i])]

\* A non-empty set of naturals has a least element.
LEMMA LeastOf ==
    ASSUME NEW S, S \subseteq Nat, S # {}
    PROVE  \E e \in S : \A f \in S : e <= f
<1>1. PICK e \in S : \A f \in S : ~(<<f, e>> \in OpToRel(<, Nat))
  BY NatLessThanWellFounded, WFMin, Zenon
<1>2. ASSUME NEW f \in S PROVE e <= f
  <2>1. e \in Nat /\ f \in Nat
    BY <1>1, <1>2, Zenon
  <2>2. ~(<<f, e>> \in OpToRel(<, Nat))
    BY <1>1, <1>2, Zenon
  <2>3. ~(f < e)
    BY <2>1, <2>2, Zenon DEF OpToRel
  <2> QED
    BY <2>1, <2>3
<1> QED
  BY <1>2, Zenon

\* The loop can run to any position,
LEMMA LoopRuns ==
    ASSUME NEW s, NEW range, NEW n \in Nat
    PROVE  \E k : KeptUpTo(k, s, range, n)
<1> DEFINE S == {i \in Nat : ~\E k : KeptUpTo(k, s, range, i)}
<1>1. SUFFICES ASSUME S # {} PROVE FALSE
  BY Zenon
<1>2. PICK e \in S : \A f \in S : e <= f
  <2>1. S \subseteq Nat
    BY Zenon
  <2> QED
    BY <1>1, <2>1, LeastOf, Zenon
<1>3. e # 0
  <2>1. KeptUpTo([i \in 0 .. 0 |-> <<>>], s, range, 0)
    BY DEF KeptUpTo
  <2> QED
    BY <1>2, <2>1, Zenon
<1>4. e \in Nat /\ e - 1 \in Nat /\ e - 1 \notin S
  BY <1>2, <1>3
<1>5. PICK k : KeptUpTo(k, s, range, e - 1)
  BY <1>4, Zenon
<1> DEFINE next == IF s[e] \in range THEN k[e - 1] ELSE Append(k[e - 1], s[e])
           l == [i \in 0 .. e |-> IF i = e THEN next ELSE k[i]]
<1>6. ASSUME NEW i \in 0 .. e
      PROVE  l[i] = IF i = 0 THEN <<>>
                    ELSE IF s[i] \in range THEN l[i - 1] ELSE Append(l[i - 1], s[i])
  <2>1. CASE i = e
    <3>1. e - 1 \in 0 .. e /\ e - 1 # e
      BY <1>4
    <3> QED
      BY <1>3, <2>1, <3>1, Zenon
  <2>2. CASE i # e /\ i # 0
    <3>1. i \in 0 .. e - 1 /\ i - 1 \in 0 .. e /\ i - 1 # e
      BY <1>4, <2>2
    <3>2. k[i] = IF s[i] \in range THEN k[i - 1] ELSE Append(k[i - 1], s[i])
      BY <1>5, <2>2, <3>1, Zenon DEF KeptUpTo
    <3> QED
      BY <2>2, <3>1, <3>2, Zenon
  <2>3. CASE i # e /\ i = 0
    <3>1. i \in 0 .. e - 1
      BY <1>4, <2>3
    <3>2. k[i] = <<>>
      BY <1>5, <2>3, <3>1, Zenon DEF KeptUpTo
    <3> QED
      BY <2>3, <3>2, Zenon
  <2> QED
    BY <2>1, <2>2, <2>3, Zenon
<1>7. KeptUpTo(l, s, range, e)
  BY <1>6, Zenon DEF KeptUpTo
<1> QED
  BY <1>2, <1>7, Zenon

\* and what it has kept then are the entries outside the range, each once.
LEMMA LoopKeeps ==
    ASSUME NEW S, NEW s \in Seq(S), NoneTwice(s), NEW range, NEW k,
           KeptUpTo(k, s, range, Len(s))
    PROVE  \A i \in 0 .. Len(s) :
              /\ k[i] \in Seq(S) /\ NoneTwice(k[i])
              /\ \A e : (\E m \in 1 .. Len(k[i]) : k[i][m] = e) <=>
                        (\E j \in 1 .. i : s[j] = e /\ e \notin range)
<1> DEFINE P(i) == /\ k[i] \in Seq(S) /\ NoneTwice(k[i])
                   /\ \A e : (\E m \in 1 .. Len(k[i]) : k[i][m] = e) <=>
                             (\E j \in 1 .. i : s[j] = e /\ e \notin range)
           B == {i \in 0 .. Len(s) : ~P(i)}
<1> Len(s) \in Nat
  OBVIOUS
<1>1. SUFFICES ASSUME B # {} PROVE FALSE
  BY Zenon
<1>2. PICK b \in B : \A f \in B : b <= f
  <2>1. B \subseteq Nat
    BY SMT
  <2> HIDE DEF B
  <2> QED
    BY <1>1, <2>1, LeastOf, Zenon
<1>3. b \in 0 .. Len(s) /\ ~P(b)
  BY <1>2, Zenon
<1>4. b # 0
  <2>1. SUFFICES ASSUME b = 0 PROVE P(b)
    BY <1>3, Zenon
  <2>2. k[b] = <<>>
    BY <1>3, <2>1, Zenon DEF KeptUpTo
  <2> QED
    BY <2>1, <2>2 DEF NoneTwice
<1>5. b \in 1 .. Len(s) /\ b - 1 \in 0 .. Len(s) /\ ~(b <= b - 1)
  BY <1>3, <1>4, SMTT(30)
<1>6. P(b - 1)
  BY <1>2, <1>5, Zenon
<1>7. k[b] = IF s[b] \in range THEN k[b - 1] ELSE Append(k[b - 1], s[b])
  BY <1>3, <1>4, Zenon DEF KeptUpTo
<1>8. \A j \in 1 .. b : j \in 1 .. b - 1 \/ j = b
  BY <1>5
<1>9. \A j \in 1 .. b - 1 : j \in 1 .. b /\ j # b /\ j \in 1 .. Len(s)
  BY <1>5
<1>10. b \in 1 .. b
  BY <1>5
<1>11. CASE s[b] \in range
  <2>1. k[b] = k[b - 1]
    BY <1>7, <1>11, Zenon
  <2> QED
    BY <1>3, <1>6, <1>8, <1>9, <1>10, <1>11, <2>1, Zenon
<1>12. CASE s[b] \notin range
  <2> DEFINE t == k[b - 1]
  <2>1. k[b] = Append(t, s[b])
    BY <1>7, <1>12, Zenon
  <2>2. t \in Seq(S) /\ s[b] \in S
    BY <1>5, <1>6, SMTT(30)
  <2>3. ASSUME NEW m \in 1 .. Len(t) PROVE t[m] # s[b]
    <3>1. SUFFICES ASSUME t[m] = s[b] PROVE FALSE
      BY Zenon
    <3>2. PICK j \in 1 .. b - 1 : s[j] = s[b]
      BY <1>6, <3>1, Zenon
    <3> QED
      BY <1>5, <1>9, <3>2, Zenon DEF NoneTwice
  <2> HIDE DEF t
  <2>4. /\ k[b] \in Seq(S) /\ Len(k[b]) = Len(t) + 1 /\ Len(t) \in Nat
        /\ \A m \in 1 .. Len(t) : k[b][m] = t[m] /\ m \in 1 .. Len(k[b])
        /\ k[b][Len(t) + 1] = s[b]
    BY <2>1, <2>2, SMTT(30)
  <2>5. \A m \in 1 .. Len(k[b]) : m \in 1 .. Len(t) \/ m = Len(t) + 1
    BY <2>4, SMTT(30)
  <2>6. Len(t) + 1 \in 1 .. Len(k[b])
    BY <2>4, SMTT(30)
  <2>7. NoneTwice(t)
    BY <1>6, Zenon DEF t
  <2>8. NoneTwice(k[b])
    BY <2>3, <2>4, <2>5, <2>7, Zenon DEF NoneTwice
  <2>9. \A e : (\E m \in 1 .. Len(k[b]) : k[b][m] = e) <=>
               (\E m \in 1 .. Len(t) : t[m] = e) \/ e = s[b]
    BY <2>4, <2>5, <2>6, Zenon
  <2>10. \A e : (\E m \in 1 .. Len(t) : t[m] = e) <=>
                (\E j \in 1 .. b - 1 : s[j] = e /\ e \notin range)
    BY <1>6, Zenon DEF t
  <2>11. \A e : (\E m \in 1 .. Len(k[b]) : k[b][m] = e) <=>
                (\E j \in 1 .. b : s[j] = e /\ e \notin range)
    BY <1>8, <1>9, <1>10, <1>12, <2>9, <2>10, Zenon
  <2> QED
    BY <1>3, <2>4, <2>8, <2>11, Zenon
<1> QED
  BY <1>11, <1>12, Zenon

\* The entries of a sequence are its range.
LEMMA RangeOf ==
    ASSUME NEW S, NEW s \in Seq(S)
    PROVE  /\ \A e : e \in Range(s) <=> \E m \in 1 .. Len(s) : s[m] = e
           /\ Range(s) \subseteq S
<1>1. DOMAIN s = 1 .. Len(s) /\ \A m \in 1 .. Len(s) : s[m] \in S
  OBVIOUS
<1> QED
  BY <1>1, Zenon DEF Range

\* The erased list holds the rest of the list, each entry once.
LEMMA UnlistedHolds ==
    ASSUME NEW S, NEW s \in Seq(S), NoneTwice(s), NEW range
    PROVE  /\ Unlisted(s, range) \in Seq(S) /\ NoneTwice(Unlisted(s, range))
           /\ Range(Unlisted(s, range)) = Range(s) \ range
<1> DEFINE k == CHOOSE l : KeptUpTo(l, s, range, Len(s))
           t == Unlisted(s, range)
<1>1. Len(s) \in Nat /\ Len(s) \in 0 .. Len(s)
  OBVIOUS
<1>2. t = k[Len(s)]
  BY Zenon DEF Unlisted, KeptUpTo
<1>3. KeptUpTo(k, s, range, Len(s))
  BY <1>1, LoopRuns, Zenon
<1> HIDE DEF k, t
<1>4. /\ t \in Seq(S) /\ NoneTwice(t)
      /\ \A e : (\E m \in 1 .. Len(t) : t[m] = e) <=>
                (\E j \in 1 .. Len(s) : s[j] = e /\ e \notin range)
  <2>1. \A i \in 0 .. Len(s) :
           /\ k[i] \in Seq(S) /\ NoneTwice(k[i])
           /\ \A e : (\E m \in 1 .. Len(k[i]) : k[i][m] = e) <=>
                     (\E j \in 1 .. i : s[j] = e /\ e \notin range)
    BY <1>3, LoopKeeps, ZenonT(40)
  <2>2. /\ k[Len(s)] \in Seq(S) /\ NoneTwice(k[Len(s)])
        /\ \A e : (\E m \in 1 .. Len(k[Len(s)]) : k[Len(s)][m] = e) <=>
                  (\E j \in 1 .. Len(s) : s[j] = e /\ e \notin range)
    BY <1>1, <2>1, Zenon
  <2> QED
    BY <1>2, <2>2, Zenon
<1>5. \A e : e \in Range(t) <=> e \in Range(s) /\ e \notin range
  <2>1. \A e : e \in Range(t) <=> \E m \in 1 .. Len(t) : t[m] = e
    BY <1>4, RangeOf, Zenon
  <2>2. \A e : e \in Range(s) <=> \E m \in 1 .. Len(s) : s[m] = e
    BY RangeOf, Zenon
  <2> QED
    BY <1>4, <2>1, <2>2, Zenon
<1>6. Range(t) = Range(s) \ range
  BY <1>5, Zenon
<1> QED
  BY <1>4, <1>6, Zenon DEF t

\* A list without repetitions is as long as its range is large.
LEMMA CountList ==
    ASSUME NEW S, NEW s \in Seq(S), NoneTwice(s)
    PROVE  IsFiniteSet(Range(s)) /\ Cardinality(Range(s)) = Len(s)
<1>1. Len(s) \in Nat /\ s \in [1 .. Len(s) -> S]
  OBVIOUS
<1>2. IsFiniteSet(1 .. Len(s)) /\ Cardinality(1 .. Len(s)) = Len(s)
  BY <1>1, FS_Interval, SMTT(30)
<1>3. s \in Bijection(1 .. Len(s), Range(s))
  BY <1>1, RangeOf, Zenon DEF Bijection, Injection, Surjection, NoneTwice, IsInjective
<1>4. ExistsBijection(1 .. Len(s), Range(s))
  BY <1>3, Zenon DEF ExistsBijection
<1> QED
  BY <1>2, <1>4, FS_Bijection, Zenon

\* The extents are finitely many, and so are the used ones.
LEMMA ExtentsFinite ==
    /\ IsFiniteSet(Extents) /\ Cardinality(Extents) = ExtentCount
    /\ \A S \in SUBSET Extents : IsFiniteSet(S) /\ Cardinality(S) \in 0 .. ExtentCount
<1>1. ExtentCount \in Nat /\ 0 \in Nat
  BY StoreAssumption
<1>2. IsFiniteSet(Extents) /\ Cardinality(Extents) = ExtentCount
  BY <1>1, FS_Interval DEF Extents
<1>3. ASSUME NEW S \in SUBSET Extents
      PROVE  IsFiniteSet(S) /\ Cardinality(S) \in 0 .. ExtentCount
  <2>1. IsFiniteSet(S) /\ Cardinality(S) <= ExtentCount
    BY <1>2, <1>3, FS_Subset, Zenon
  <2>2. Cardinality(S) \in Nat
    BY <2>1, FS_CardinalityType, Zenon
  <2> QED
    BY <1>1, <2>1, <2>2
<1> QED
  BY <1>2, <1>3, Zenon

\* A run of n extents has n of them.
LEMMA RunCount ==
    ASSUME NEW f \in Extents, NEW n \in Nat \ {0}, f + n <= ExtentCount
    PROVE  /\ f .. f + n - 1 \subseteq Extents /\ Cardinality(f .. f + n - 1) = n
           /\ f \in f .. f + n - 1
<1>1. ExtentCount \in Nat /\ f \in Nat /\ f + n - 1 \in Nat
  BY StoreAssumption DEF Extents
<1>2. Cardinality(f .. f + n - 1) = f + n - 1 - f + 1
  BY <1>1, FS_Interval
<1> QED
  BY <1>1, <1>2 DEF Extents

\* An allocation gives a run of free extents to a user that holds none.
LEMMA TakenKeeps ==
    ASSUME ExtentInv, NEW u \in Users, NEW range, opened, opened' = opened,
           held[u] = {}, IsRun(range), range \subseteq Extents \ used,
           used' = used \cup range, usedExtents' = usedExtents + Cardinality(range),
           held' = [held EXCEPT ![u] = range],
           freeList' \in Seq(Extents), NoneTwice(freeList)',
           Range(freeList)' = Range(freeList) \ range
    PROVE  ExtentInv'
<1>1. /\ used \subseteq Extents /\ held \in [Users -> SUBSET Extents]
      /\ Range(freeList) = Extents \ used /\ usedExtents = Cardinality(used)
      /\ used = UNION {held[v] : v \in Users}
      /\ \A v \in Users : held[v] = {} \/ IsRun(held[v])
      /\ \A v, w \in Users : v # w => held[v] \cap held[w] = {}
  BY Zenon DEF ExtentInv
<1>2. held' \in [Users -> SUBSET Extents] /\ used' \subseteq Extents
  BY <1>1, Zenon
<1>3. held'[u] = range /\ \A v \in Users : v # u => held'[v] = held[v]
  BY <1>1, Zenon
<1>4. Range(freeList)' = Extents \ used'
  BY <1>1, Zenon
<1>5. usedExtents' = Cardinality(used')
  <2>1. IsFiniteSet(used) /\ IsFiniteSet(range) /\ range \cap used = {}
    BY <1>1, ExtentsFinite, Zenon
  <2>2. Cardinality(used \cup range) = Cardinality(used) + Cardinality(range) - Cardinality(used \cap range)
    BY <2>1, FS_Union, Zenon
  <2>3. used \cap range = {} /\ Cardinality({}) = 0
    BY <2>1, FS_EmptySet, Zenon
  <2>4. Cardinality(used) \in Nat /\ Cardinality(range) \in Nat
    BY <2>1, FS_CardinalityType, Zenon
  <2>5. Cardinality(used \cup range) = Cardinality(used) + Cardinality(range)
    <3>1. Cardinality(used \cup range) = Cardinality(used) + Cardinality(range) - 0
      BY <2>2, <2>3, Zenon
    <3>2. \A a, b \in Nat : a + b - 0 = a + b
      OBVIOUS
    <3> QED
      BY <2>4, <3>1, <3>2, Zenon
  <2> QED
    BY <1>1, <2>5, Zenon
<1>6. used' = UNION {held'[v] : v \in Users}
  <2>1. ASSUME NEW e PROVE e \in used' <=> \E v \in Users : e \in held'[v]
    <3>1. e \in used <=> \E v \in Users : e \in held[v]
      BY <1>1, SMTT(30)
    <3> QED
      BY <1>3, <3>1, Zenon
  <2> QED
    BY <2>1, ZenonT(40)
<1>7. \A v \in Users : held'[v] = {} \/ IsRun(held'[v])
  BY <1>1, <1>3, Zenon
<1>8. ASSUME NEW v \in Users, v # u PROVE held[v] \cap range = {}
  <2>1. held[v] \subseteq used
    BY <1>1, <1>8, SMTT(30)
  <2> QED
    BY <2>1, Zenon
<1>9. \A v, w \in Users : v # w => held'[v] \cap held'[w] = {}
  BY <1>1, <1>3, <1>8, ZenonT(40)
<1>10. opened' /\ opened' \in BOOLEAN
  BY Zenon
<1>11. \A r : IsRun(r)' <=> IsRun(r)
  BY Zenon DEF IsRun, Extents
<1> QED
  BY <1>2, <1>4, <1>5, <1>6, <1>7, <1>9, <1>10, <1>11, Zenon DEF ExtentInv

\* Taking the back of a list leaves the entries before it.
LEMMA PoppedBack ==
    ASSUME NEW S, NEW s \in Seq(S), s # <<>>
    PROVE  LET t == SubSeq(s, 1, Len(s) - 1)
           IN  t \in Seq(S) /\ Len(t) = Len(s) - 1 /\ \A i \in 1 .. Len(s) - 1 : t[i] = s[i]
<1>1. Len(s) - 1 \in Nat /\ \A i \in 1 .. Len(s) : s[i] \in S
  OBVIOUS
<1>2. SubSeq(s, 1, Len(s) - 1) = [i \in 1 .. Len(s) - 1 |-> s[i]]
  BY <1>1
<1>3. [i \in 1 .. Len(s) - 1 |-> s[i]] \in Seq(S) /\ Len([i \in 1 .. Len(s) - 1 |-> s[i]]) = Len(s) - 1
  BY <1>1
<1> QED
  BY <1>2, <1>3, Zenon

\* allocate_extents takes a run off the list and marks it used.
LEMMA AllocateAccounts ==
    ASSUME ExtentInv, NEW u \in Users, Allocate(u)
    PROVE  ExtentInv'
<1>1. /\ opened /\ opened' = opened /\ held[u] = {} /\ freeList \in Seq(Extents)
      /\ NoneTwice(freeList) /\ Range(freeList) = Extents \ used /\ used \subseteq Extents
  BY Zenon DEF ExtentInv, Allocate, Call, controlVars
<1>2. PICK n \in RunLengths : AllocateExtents(u, n)
  BY Zenon DEF Allocate
<1>3. n \in Nat \ {0} /\ ExtentCount \in Nat \ {0}
  BY StoreAssumption
<1>4. CASE n = 1
  <2> DEFINE l == Len(freeList)
             e == freeList[l]
  <2>1. /\ freeList # <<>> /\ used' = used \cup {e} /\ freeList' = SubSeq(freeList, 1, l - 1)
        /\ usedExtents' = usedExtents + 1 /\ held' = [held EXCEPT ![u] = {e}]
    BY <1>2, <1>4, Zenon DEF AllocateExtents, AllocateExtent
  <2>2. l \in Nat \ {0} /\ l \in 1 .. l /\ e \in Extents
    BY <1>1, <2>1
  <2>3. /\ freeList' \in Seq(Extents) /\ Len(freeList') = l - 1
        /\ \A i \in 1 .. l - 1 : freeList'[i] = freeList[i] /\ i \in 1 .. l /\ i # l
    <3>1. /\ SubSeq(freeList, 1, l - 1) \in Seq(Extents)
          /\ Len(SubSeq(freeList, 1, l - 1)) = l - 1
          /\ \A i \in 1 .. l - 1 : SubSeq(freeList, 1, l - 1)[i] = freeList[i]
      BY <1>1, <2>1, PoppedBack, Zenon
    <3>2. \A i \in 1 .. l - 1 : i \in 1 .. l /\ i # l
      BY <2>2
    <3> QED
      BY <2>1, <3>1, <3>2, Zenon
  <2>4. \A i \in 1 .. l : i \in 1 .. l - 1 \/ i = l
    BY <2>2
  <2>5. (\A x : x \in Range(freeList) <=> \E m \in 1 .. l : freeList[m] = x)
    BY <1>1, RangeOf, Zenon
  <2>6. (\A x : x \in Range(freeList') <=> \E m \in 1 .. l - 1 : freeList'[m] = x)
    <3>1. \A x : x \in Range(freeList') <=> \E m \in 1 .. Len(freeList') : freeList'[m] = x
      BY <2>3, RangeOf, Zenon
    <3> QED
      BY <2>3, <3>1, Zenon
  <2>7. NoneTwice(freeList)'
    BY <1>1, <2>3, Zenon DEF NoneTwice
  <2>8. \A x : x \in Range(freeList') <=> x \in Range(freeList) /\ x # e
    <3> HIDE DEF e, l
    <3>1. ASSUME NEW i \in 1 .. l - 1 PROVE freeList[i] # e
      BY <1>1, <2>2, <2>3, <3>1, Zenon DEF NoneTwice, e, l
    <3>2. freeList[l] = e
      BY Zenon DEF e
    <3> QED
      BY <2>3, <2>2, <2>4, <2>5, <2>6, <3>1, <3>2, ZenonT(40)
  <2>9. Range(freeList)' = Range(freeList) \ {e}
    BY <2>8, Zenon
  <2>10. e \in Extents \ used
    BY <1>1, <2>2, <2>5, Zenon
  <2>11. Cardinality({e}) = 1
    BY FS_Singleton, Zenon
  <2>12. e + 1 <= ExtentCount /\ {e} = e .. e + 1 - 1
    BY <1>3, <2>2 DEF Extents
  <2>13. IsRun({e})
    BY <1>3, <1>4, <2>2, <2>12, Zenon DEF IsRun
  <2>14. {e} \subseteq Extents \ used /\ usedExtents' = usedExtents + Cardinality({e})
    BY <2>1, <2>10, <2>11, Zenon
  <2> HIDE DEF e, l
  <2> QED
    BY <1>1, <2>1, <2>3, <2>7, <2>9, <2>13, <2>14, TakenKeeps, Zenon
<1>5. CASE n # 1
  <2>1. PICK f \in Extents : FoundFirst(f, n) /\ Take(u, f .. f + n - 1)
    BY <1>2, <1>5, Zenon DEF AllocateExtents
  <2> DEFINE range == f .. f + n - 1
  <2>2. f + n <= ExtentCount /\ range \cap used = {}
    BY <2>1, Zenon DEF FoundFirst, Runs
  <2>3. IsRun(range) /\ range \subseteq Extents \ used
    BY <1>3, <2>2, RunCount, Zenon DEF IsRun
  <2>4. /\ used' = used \cup range /\ freeList' = Unlisted(freeList, range)
        /\ usedExtents' = usedExtents + Cardinality(range) /\ held' = [held EXCEPT ![u] = range]
    BY <2>1, Zenon DEF Take
  <2> HIDE DEF range
  <2>5. /\ freeList' \in Seq(Extents) /\ NoneTwice(freeList')
        /\ Range(freeList') = Range(freeList) \ range
    BY <1>1, <2>4, UnlistedHolds, Zenon
  <2>6. NoneTwice(freeList)' /\ Range(freeList)' = Range(freeList) \ range
    BY <2>5, Zenon DEF NoneTwice, Range
  <2> QED
    BY <1>1, <2>3, <2>4, <2>5, <2>6, TakenKeeps, Zenon
<1> QED
  BY <1>4, <1>5, Zenon

\* The extents of a run, in their order.
RunList(f, n) == [i \in 1 .. n |-> f + i - 1]

\* The run that free_extents appends to the list.
LEMMA RunListed ==
    ASSUME NEW f \in Extents, NEW n \in Nat \ {0}, f + n <= ExtentCount
    PROVE  /\ RunList(f, n) \in Seq(Extents) /\ NoneTwice(RunList(f, n))
           /\ Range(RunList(f, n)) = f .. f + n - 1
<1> DEFINE r == RunList(f, n)
<1>1. ExtentCount \in Nat /\ f \in Nat
  BY StoreAssumption DEF Extents
<1>2. \A i \in 1 .. n : f + i - 1 \in Extents
  BY <1>1 DEF Extents
<1>4. r \in Seq(Extents) /\ Len(r) = n
  BY <1>2 DEF RunList
<1>5. \A i \in 1 .. n : r[i] = f + i - 1
  BY Zenon DEF RunList
<1> HIDE DEF r
<1>6. ASSUME NEW e, e \in f .. f + n - 1 PROVE \E i \in 1 .. n : r[i] = e
  <2>1. e - f + 1 \in 1 .. n /\ f + (e - f + 1) - 1 = e
    BY <1>1, <1>6
  <2> QED
    BY <1>5, <2>1, Zenon
<1>7. ASSUME NEW i \in 1 .. n PROVE r[i] \in f .. f + n - 1
  BY <1>1, <1>5
<1>8. NoneTwice(r)
  BY <1>1, <1>4, <1>5 DEF NoneTwice
<1>9. \A e : e \in Range(r) <=> \E m \in 1 .. n : r[m] = e
  BY <1>4, RangeOf, Zenon
<1>10. Range(r) = f .. f + n - 1
  <2>1. \A e : e \in Range(r) <=> e \in f .. f + n - 1
    BY <1>6, <1>7, <1>9, Zenon
  <2> QED
    BY <2>1, Zenon
<1> QED
  BY <1>4, <1>8, <1>10, Zenon DEF r

\* Appending a run that is not listed keeps the list free of repetitions.
LEMMA AppendRun ==
    ASSUME NEW s \in Seq(Extents), NoneTwice(s), NEW r \in Seq(Extents), NoneTwice(r),
           Range(s) \cap Range(r) = {}
    PROVE  /\ s \o r \in Seq(Extents) /\ NoneTwice(s \o r)
           /\ Range(s \o r) = Range(s) \cup Range(r)
<1> DEFINE t == s \o r
<1>1. /\ t \in Seq(Extents) /\ Len(t) = Len(s) + Len(r) /\ Len(s) \in Nat /\ Len(r) \in Nat
      /\ \A i \in 1 .. Len(s) : t[i] = s[i]
      /\ \A i \in Len(s) + 1 .. Len(s) + Len(r) : t[i] = r[i - Len(s)]
  OBVIOUS
<1> HIDE DEF t
<1>2. \A i \in 1 .. Len(t) : i \in 1 .. Len(s) \/
         (i \in Len(s) + 1 .. Len(s) + Len(r) /\ i - Len(s) \in 1 .. Len(r))
  BY <1>1
<1>3. \A i \in 1 .. Len(s) : i \in 1 .. Len(t)
  BY <1>1
<1>4. \A i \in 1 .. Len(r) :
         /\ Len(s) + i \in 1 .. Len(t) /\ (Len(s) + i) - Len(s) = i
         /\ Len(s) + i \in Len(s) + 1 .. Len(s) + Len(r)
  BY <1>1
<1>5. \A x : x \in Range(t) <=> \E m \in 1 .. Len(t) : t[m] = x
  BY <1>1, RangeOf, ZenonT(40)
<1>6. \A x : x \in Range(s) <=> \E m \in 1 .. Len(s) : s[m] = x
  BY RangeOf, Zenon
<1>7. \A x : x \in Range(r) <=> \E m \in 1 .. Len(r) : r[m] = x
  BY RangeOf, Zenon
<1>8. \A x : x \in Range(t) <=> x \in Range(s) \/ x \in Range(r)
  <2>1. ASSUME NEW x \in Range(s) PROVE x \in Range(t)
    BY <1>1, <1>3, <1>5, <1>6, Zenon
  <2>2. ASSUME NEW x \in Range(r) PROVE x \in Range(t)
    <3>1. PICK m \in 1 .. Len(r) : r[m] = x
      BY <1>7, <2>2, Zenon
    <3>2. Len(s) + m \in 1 .. Len(t) /\ t[Len(s) + m] = r[m]
      BY <1>1, <1>4, <3>1, Zenon
    <3> QED
      BY <1>5, <3>1, <3>2, Zenon
  <2>3. ASSUME NEW x \in Range(t) PROVE x \in Range(s) \/ x \in Range(r)
    BY <1>1, <1>2, <1>5, <1>6, <1>7, ZenonT(40)
  <2> QED
    BY <2>1, <2>2, <2>3, Zenon
<1>9. ASSUME NEW i \in 1 .. Len(t), NEW j \in 1 .. Len(t), t[i] = t[j] PROVE i = j
  <2>1. CASE i \in 1 .. Len(s) /\ j \in 1 .. Len(s)
    BY <1>1, <1>9, <2>1, Zenon DEF NoneTwice
  <2>2. CASE i \notin 1 .. Len(s) /\ j \notin 1 .. Len(s)
    <3>2. /\ i - Len(s) \in 1 .. Len(r) /\ t[i] = r[i - Len(s)]
          /\ j - Len(s) \in 1 .. Len(r) /\ t[j] = r[j - Len(s)]
      BY <1>1, <1>2, <2>2, Zenon
    <3>1. i - Len(s) = j - Len(s)
      BY <1>9, <3>2, Zenon DEF NoneTwice
    <3> QED
      BY <1>1, <3>1
  <2>3. CASE i \in 1 .. Len(s) /\ j \notin 1 .. Len(s)
    BY <1>1, <1>2, <1>6, <1>7, <1>9, <2>3, Zenon
  <2>4. CASE i \notin 1 .. Len(s) /\ j \in 1 .. Len(s)
    BY <1>1, <1>2, <1>6, <1>7, <1>9, <2>4, Zenon
  <2> QED
    BY <2>1, <2>2, <2>3, <2>4, Zenon
<1>10. NoneTwice(t)
  BY <1>9, Zenon DEF NoneTwice
<1>11. Range(t) = Range(s) \cup Range(r)
  BY <1>8, Zenon
<1> QED
  BY <1>1, <1>10, <1>11, Zenon DEF t

\* free_extents clears the bits of a run and appends it.
LEMMA FreeAccounts ==
    ASSUME ExtentInv, NEW u \in Users, FreeExtents(u)
    PROVE  ExtentInv'
<1>1. /\ used \subseteq Extents /\ held \in [Users -> SUBSET Extents]
      /\ freeList \in Seq(Extents) /\ NoneTwice(freeList)
      /\ usedExtents = Cardinality(used)
      /\ used = UNION {held[v] : v \in Users}
      /\ \A v \in Users : held[v] = {} \/ IsRun(held[v])
      /\ \A v, w \in Users : v # w => held[v] \cap held[w] = {}
  BY Zenon DEF ExtentInv
<1>2. /\ opened /\ opened' = opened /\ held[u] # {} /\ used' = used \ held[u]
      /\ usedExtents' = usedExtents - Cardinality(held[u])
      /\ held' = [held EXCEPT ![u] = {}]
  BY Zenon DEF FreeExtents, Call, controlVars
<1>3. Range(freeList) = Extents \ used
  BY <1>2, Zenon DEF ExtentInv
<1>4. PICK f \in held[u] :
              /\ \A e \in held[u] : f <= e
              /\ freeList' = freeList \o [i \in 1 .. Cardinality(held[u]) |-> f + i - 1]
  BY Zenon DEF FreeExtents
<1>5. PICK g \in Extents, n \in Nat \ {0} : g + n <= ExtentCount /\ held[u] = g .. g + n - 1
  BY <1>1, <1>2, Zenon DEF IsRun
<1>6. Cardinality(held[u]) = n /\ g \in held[u]
  BY <1>5, RunCount, Zenon
<1>7. f = g
  <2>1. g \in Nat
    BY DEF Extents
  <2>2. f <= g /\ f \in g .. g + n - 1
    BY <1>4, <1>5, <1>6, Zenon
  <2> QED
    BY <2>1, <2>2
<1> DEFINE r == RunList(g, n)
<1>8. r \in Seq(Extents) /\ NoneTwice(r) /\ Range(r) = g .. g + n - 1
  BY <1>5, RunListed, Zenon
<1>9. freeList' = freeList \o r
  BY <1>4, <1>6, <1>7, Zenon DEF RunList
<1> HIDE DEF r
<1>10. Range(r) = held[u]
  BY <1>5, <1>8, Zenon
<1>12. held[u] \subseteq used
  BY <1>1, SMT
<1>13. Range(freeList) \cap Range(r) = {}
  BY <1>3, <1>10, <1>12, Zenon
<1>14. /\ freeList' \in Seq(Extents) /\ NoneTwice(freeList')
       /\ Range(freeList') = Range(freeList) \cup held[u]
  <2>1. /\ freeList \o r \in Seq(Extents) /\ NoneTwice(freeList \o r)
        /\ Range(freeList \o r) = Range(freeList) \cup Range(r)
    BY <1>1, <1>8, <1>13, AppendRun, Zenon
  <2> QED
    BY <1>9, <1>10, <2>1, Zenon
<1>15. NoneTwice(freeList)' /\ Range(freeList)' = Extents \ used'
  <2>1. Range(freeList)' = Range(freeList) \cup held[u]
    BY <1>14, Zenon DEF Range
  <2>2. held[u] \subseteq Extents
    BY <1>1, Zenon
  <2> QED
    BY <1>2, <1>3, <1>14, <2>1, <2>2, Zenon DEF NoneTwice
<1>16. usedExtents' = Cardinality(used')
  <2>1. IsFiniteSet(used) /\ IsFiniteSet(held[u])
    BY <1>1, ExtentsFinite, Zenon
  <2>2. Cardinality(used \ held[u]) = Cardinality(used) - Cardinality(used \cap held[u])
    BY <2>1, FS_Difference, Zenon
  <2>3. used \cap held[u] = held[u]
    BY <1>12, Zenon
  <2> QED
    BY <1>1, <1>2, <2>2, <2>3, Zenon
<1>17. /\ held' \in [Users -> SUBSET Extents] /\ used' \subseteq Extents
       /\ held'[u] = {} /\ \A v \in Users : v # u => held'[v] = held[v]
  BY <1>1, <1>2, Zenon
<1>18. used' = UNION {held'[v] : v \in Users}
  <2>1. ASSUME NEW e PROVE e \in used' <=> \E v \in Users : e \in held'[v]
    <3>1. e \in used <=> \E v \in Users : e \in held[v]
      BY <1>1, SMT
    <3> QED
      BY <1>1, <1>2, <1>17, <3>1, Zenon
  <2> QED
    BY <2>1, Zenon
<1>19. \A v \in Users : held'[v] = {} \/ IsRun(held'[v])
  BY <1>1, <1>17, Zenon
<1>20. \A v, w \in Users : v # w => held'[v] \cap held'[w] = {}
  BY <1>1, <1>17, Zenon
<1>21. \A x : IsRun(x)' <=> IsRun(x)
  BY Zenon DEF IsRun, Extents
<1> QED
  BY <1>2, <1>14, <1>15, <1>16, <1>17, <1>18, <1>19, <1>20, <1>21, Zenon DEF ExtentInv

\* The list of a store that is not open.
LEMMA EmptyList ==
    /\ <<>> \in Seq(Extents) /\ NoneTwice(<<>>) /\ Range(<<>>) = {}
<1>1. <<>> \in Seq(Extents) /\ Len(<<>>) = 0 /\ \A i \in 1 .. 0 : FALSE
  OBVIOUS
<1>2. \A e : e \in Range(<<>>) <=> \E m \in 1 .. Len(<<>>) : <<>>[m] = e
  BY <1>1, RangeOf, Zenon
<1>3. \A e : e \notin Range(<<>>)
  <2>1. ASSUME NEW e \in Range(<<>>) PROVE FALSE
    <3>1. PICK m \in 1 .. Len(<<>>) : TRUE
      BY <1>2, <2>1, Zenon
    <3> QED
      BY <1>1, <3>1, Zenon
  <2> QED
    BY <2>1, Zenon
<1>4. Range(<<>>) = {}
  BY <1>3, Zenon
<1>5. NoneTwice(<<>>)
  BY <1>1, Zenon DEF NoneTwice
<1> QED
  BY <1>1, <1>4, <1>5, Zenon

\* A closed store has no extents in use,
LEMMA ClosedAccounts ==
    ASSUME ExtentInv, NEW u \in Users, Closed(u)
    PROVE  ExtentInv'
<1>1. /\ opened' = FALSE /\ used' = {} /\ freeList' = <<>> /\ usedExtents' = 0
      /\ held' = [v \in Users |-> {}]
  BY Zenon DEF Closed
<1>2. freeList' \in Seq(Extents) /\ NoneTwice(freeList)' /\ Range(freeList)' = {}
  <2>1. freeList' \in Seq(Extents) /\ NoneTwice(freeList') /\ Range(freeList') = {}
    BY <1>1, EmptyList, Zenon
  <2> QED
    BY <2>1, Zenon DEF NoneTwice, Range
<1>3. Cardinality({}) = 0
  BY FS_EmptySet, Zenon
<1>4. UNION {held'[v] : v \in Users} = {}
  BY <1>1, Zenon
<1> QED
  BY <1>1, <1>2, <1>3, <1>4, Zenon DEF ExtentInv

\* and an open one starts with all of them free.
LEMMA ResetAccounts ==
    ASSUME ExtentInv, NEW u \in Users, Reset(u)
    PROVE  ExtentInv'
<1>1. /\ ~opened /\ opened' = TRUE /\ used' = {} /\ usedExtents' = 0 /\ held' = held
      /\ freeList' = [i \in 1 .. ExtentCount |-> i - 1]
  BY Zenon DEF Reset
<1>2. ExtentCount \in Nat \ {0} /\ 0 \in Extents
  BY StoreAssumption DEF Extents
<1> DEFINE r == RunList(0, ExtentCount)
<1>3. r = [i \in 1 .. ExtentCount |-> i - 1] /\ 0 + ExtentCount <= ExtentCount
  BY <1>2 DEF RunList
<1>4. 0 .. 0 + ExtentCount - 1 = Extents
  BY <1>2 DEF Extents
<1>5. r \in Seq(Extents) /\ NoneTwice(r) /\ Range(r) = Extents
  BY <1>2, <1>3, <1>4, RunListed, Zenon
<1>6. freeList' = r
  BY <1>1, <1>3, Zenon
<1> HIDE DEF r
<1>7. freeList' \in Seq(Extents) /\ NoneTwice(freeList') /\ Range(freeList') = Extents
  BY <1>5, <1>6, Zenon
<1>8. NoneTwice(freeList)' /\ Range(freeList)' = Extents \ used'
  BY <1>1, <1>7, Zenon DEF NoneTwice, Range
<1>9. Cardinality({}) = 0
  BY FS_EmptySet, Zenon
<1>10. /\ held \in [Users -> SUBSET Extents] /\ {} = UNION {held[v] : v \in Users}
       /\ \A v \in Users : held[v] = {} \/ IsRun(held[v])
       /\ \A v, w \in Users : v # w => held[v] \cap held[w] = {}
  BY <1>1, Zenon DEF ExtentInv
<1>11. \A x : IsRun(x)' <=> IsRun(x)
  BY Zenon DEF IsRun, Extents
<1>12. opened' \in BOOLEAN /\ opened' /\ used' \subseteq Extents
  BY <1>1, Zenon
<1>13. /\ held' \in [Users -> SUBSET Extents] /\ used' = UNION {held'[v] : v \in Users}
       /\ \A v \in Users : held'[v] = {} \/ IsRun(held'[v])
       /\ \A v, w \in Users : v # w => held'[v] \cap held'[w] = {}
       /\ usedExtents' = Cardinality(used')
  BY <1>1, <1>9, <1>10, Zenon
<1> QED
  BY <1>7, <1>8, <1>11, <1>12, <1>13, Zenon DEF ExtentInv

\* No other step touches the extents or opens or closes the store.
LEMMA OtherAccounts ==
    ASSUME ExtentInv, UNCHANGED extentVars, opened' = opened
    PROVE  ExtentInv'
<1>1. /\ used' = used /\ usedExtents' = usedExtents /\ freeList' = freeList /\ held' = held
      /\ opened' = opened
  BY Zenon DEF extentVars
<1>2. NoneTwice(freeList)' <=> NoneTwice(freeList)
  BY <1>1, Zenon DEF NoneTwice
<1>3. Range(freeList)' = Range(freeList)
  BY <1>1, Zenon DEF Range
<1>4. \A x : IsRun(x)' <=> IsRun(x)
  BY Zenon DEF IsRun, Extents
<1>5. /\ opened \in BOOLEAN /\ used \subseteq Extents /\ freeList \in Seq(Extents)
      /\ held \in [Users -> SUBSET Extents]
      /\ NoneTwice(freeList) /\ Range(freeList) = (IF opened THEN Extents \ used ELSE {})
      /\ usedExtents = Cardinality(used) /\ (~opened => used = {})
      /\ used = UNION {held[u] : u \in Users}
      /\ \A u \in Users : held[u] = {} \/ IsRun(held[u])
      /\ \A u, v \in Users : u # v => held[u] \cap held[v] = {}
  BY Zenon DEF ExtentInv
<1>6. /\ opened' \in BOOLEAN /\ used' \subseteq Extents /\ freeList' \in Seq(Extents)
      /\ held' \in [Users -> SUBSET Extents]
  BY <1>1, <1>5, Zenon
<1>7. /\ Range(freeList)' = (IF opened' THEN Extents \ used' ELSE {})
      /\ (~opened' => used' = {})
  BY <1>1, <1>3, <1>5, SMT
<1>8. usedExtents' = Cardinality(used')
  BY <1>1, <1>5, Zenon
<1>9. used' = UNION {held'[u] : u \in Users}
  BY <1>1, <1>5, SMT
<1>10. /\ \A u \in Users : held'[u] = {} \/ IsRun(held'[u])
       /\ \A u, v \in Users : u # v => held'[u] \cap held'[v] = {}
  <2>1. held' = held
    BY <1>1, Zenon
  <2> QED
    BY <1>5, <2>1, Zenon
<1> QED
  BY <1>2, <1>4, <1>5, <1>6, <1>7, <1>8, <1>9, <1>10, Zenon DEF ExtentInv

\* Every step keeps list, bits and counter in agreement.
LEMMA ExtentInvStep == ExtentInv /\ [Next]_vars => ExtentInv'
<1> SUFFICES ASSUME ExtentInv, [Next]_vars PROVE ExtentInv'
  OBVIOUS
<1>1. CASE UNCHANGED vars
  BY <1>1, OtherAccounts, Zenon DEF vars, controlVars
<1>2. ASSUME NEW u \in Users, UserStep(u) PROVE ExtentInv'
  <2>1. CASE PosixOpen(u) \/ WindowsOpen(u)
    BY <2>1, ResetAccounts, Zenon DEF PosixOpen, WindowsOpen
  <2>2. CASE PosixAllocate(u) \/ WindowsAllocate(u)
    BY <2>2, AllocateAccounts, Zenon DEF PosixAllocate, WindowsAllocate
  <2>3. CASE PosixFree(u) \/ WindowsFree(u)
    BY <2>3, FreeAccounts, Zenon DEF PosixFree, WindowsFree
  <2>4. CASE Wait(u)
    BY <2>4, OtherAccounts, Zenon DEF Wait, controlVars
  <2>5. CASE PosixRead(u) \/ PosixWrite(u)
    BY <2>5, OtherAccounts, Zenon DEF PosixRead, PosixWrite, PosixSubmit, Register, controlVars
  <2>6. CASE WindowsRead(u) \/ WindowsWrite(u)
    BY <2>6, OtherAccounts, Zenon
       DEF WindowsRead, WindowsWrite, WindowsSubmit, Register, controlVars
  <2>7. CASE PosixFlush(u) \/ WindowsFlush(u)
    BY <2>7, OtherAccounts, Zenon DEF PosixFlush, WindowsFlush, FlushBegin, controlVars
  <2>8. CASE PosixCancelAll(u) \/ WindowsCancelAll(u)
    BY <2>8, OtherAccounts, Zenon DEF PosixCancelAll, WindowsCancelAll, controlVars
  <2>9. CASE PosixClose(u) \/ WindowsClose(u)
    BY <2>9, OtherAccounts, Zenon DEF PosixClose, WindowsClose
  <2> QED
    BY <1>2, <2>1, <2>2, <2>3, <2>4, <2>5, <2>6, <2>7, <2>8, <2>9, Zenon DEF UserStep
<1>3. ASSUME NEW u \in Users, CallStep(u) PROVE ExtentInv'
  <2>1. CASE PosixCloseEnd(u) \/ WindowsCloseEnd(u)
    BY <2>1, ClosedAccounts, Zenon DEF PosixCloseEnd, WindowsCloseEnd
  <2>2. CASE Issue(u)
    BY <2>2, OtherAccounts, Zenon DEF Issue, controlVars
  <2>3. CASE FlushWait(u) \/ FlushSync(u)
    BY <2>3, OtherAccounts, Zenon DEF FlushWait, FlushSync, controlVars
  <2> QED
    BY <1>3, <2>1, <2>2, <2>3, Zenon DEF CallStep
<1>4. ASSUME NEW w \in Workers, WorkerStep(w) PROVE ExtentInv'
  <2>1. CASE PosixTake(w) \/ PosixRun(w) \/ PosixExit(w)
    BY <2>1, OtherAccounts, Zenon DEF PosixTake, PosixRun, PosixExit, controlVars
  <2>2. CASE IocpTake(w) \/ IocpExit(w)
    BY <2>2, OtherAccounts, Zenon DEF IocpTake, IocpExit, controlVars
  <2>3. CASE PosixFinish(w) \/ IocpFinish(w)
    BY <2>3, OtherAccounts, Zenon DEF PosixFinish, IocpFinish, RetireThenAnswer, controlVars
  <2> QED
    BY <1>4, <2>1, <2>2, <2>3, Zenon DEF WorkerStep
<1>5. ASSUME NEW o \in Ops, KernelEnds(o) PROVE ExtentInv'
  BY <1>5, OtherAccounts, Zenon DEF KernelEnds, controlVars
<1> QED
  BY <1>1, <1>2, <1>3, <1>4, <1>5, Zenon DEF Next

\* They agree in a store that is not open.
LEMMA ExtentInvInit == Init => ExtentInv
<1> SUFFICES ASSUME Init PROVE ExtentInv
  OBVIOUS
<1>1. /\ opened = FALSE /\ used = {} /\ freeList = <<>> /\ usedExtents = 0
      /\ held = [v \in Users |-> {}]
  BY Zenon DEF Init
<1>2. freeList \in Seq(Extents) /\ NoneTwice(freeList) /\ Range(freeList) = {}
  BY <1>1, EmptyList, Zenon
<1>3. Cardinality({}) = 0
  BY FS_EmptySet, Zenon
<1>4. UNION {held[v] : v \in Users} = {}
  BY <1>1, Zenon
<1> QED
  BY <1>1, <1>2, <1>3, <1>4, Zenon DEF ExtentInv

\* So they always agree.
LEMMA ExtentInvAlways == Spec => []ExtentInv
BY ExtentInvInit, ExtentInvStep, PTL DEF Spec

\* The free list, the used bits and the counter always tell the same story, and
\* no two callers hold the same extent, whatever the sizes of the ranges that
\* allocate_extents and free_extents are called with.
THEOREM ExtentsStayAccounted == Spec => []ExtentsAccounted
<1>1. ExtentInv => ExtentsAccounted
  <2> SUFFICES ASSUME ExtentInv, opened
               PROVE  /\ Range(freeList) = Extents \ used
                      /\ Len(freeList) = ExtentCount - usedExtents
                      /\ usedExtents = Cardinality(used)
                      /\ used = UNION {held[u] : u \in Users}
                      /\ \A u, v \in Users : u # v => held[u] \cap held[v] = {}
    BY Zenon DEF ExtentsAccounted
  <2>1. /\ Range(freeList) = Extents \ used /\ usedExtents = Cardinality(used)
        /\ used \subseteq Extents /\ freeList \in Seq(Extents) /\ NoneTwice(freeList)
    BY Zenon DEF ExtentInv
  <2>2. Len(freeList) = Cardinality(Extents \ used)
    BY <2>1, CountList, Zenon
  <2>3. IsFiniteSet(Extents) /\ Cardinality(Extents) = ExtentCount
    BY ExtentsFinite, Zenon
  <2>4. Cardinality(Extents \ used) = Cardinality(Extents) - Cardinality(Extents \cap used)
    BY <2>3, FS_Difference, Zenon
  <2>5. Extents \cap used = used
    BY <2>1, Zenon
  <2>6. Len(freeList) = ExtentCount - usedExtents
    BY <2>1, <2>2, <2>3, <2>4, <2>5, Zenon
  <2> QED
    BY <2>1, <2>6, Zenon DEF ExtentInv
<1> QED
  BY <1>1, ExtentInvAlways, PTL

\* CancelIoEx is only called for operations of the store, and active_io counts
\* by extent.
RestShape == cancelReq \subseteq Ops /\ activeIo = [e \in Extents |-> activeIo[e]]

\* Every step keeps the types that StoreInv leaves out.
LEMMA RestShapeStep == StoreInv /\ RestShape /\ [Next]_vars => RestShape'
<1> SUFFICES ASSUME StoreInv, RestShape, [Next]_vars PROVE RestShape'
  OBVIOUS
<1>1. InKernel \subseteq Ops
  BY Zenon DEF StoreInv, StoreShape, InKernel
<1>2. CASE UNCHANGED vars
  BY <1>2, Zenon DEF RestShape, vars, regVars
<1>3. ASSUME NEW u \in Users, UserStep(u) PROVE RestShape'
  <2>1. CASE PosixOpen(u) \/ WindowsOpen(u)
    BY <2>1, Zenon DEF RestShape, PosixOpen, WindowsOpen, Reset
  <2>2. CASE PosixAllocate(u) \/ WindowsAllocate(u)
    BY <2>2, Zenon DEF RestShape, PosixAllocate, WindowsAllocate, Allocate, regVars
  <2>3. CASE PosixFree(u) \/ WindowsFree(u)
    BY <2>3, Zenon DEF RestShape, PosixFree, WindowsFree, FreeExtents, regVars
  <2>4. CASE Wait(u)
    BY <2>4, Zenon DEF RestShape, Wait, regVars
  <2>5. CASE PosixRead(u) \/ PosixWrite(u)
    BY <2>5, Zenon DEF RestShape, PosixRead, PosixWrite, PosixSubmit, Register
  <2>6. CASE WindowsRead(u) \/ WindowsWrite(u)
    BY <2>6, Zenon DEF RestShape, WindowsRead, WindowsWrite, WindowsSubmit, Register
  <2>7. CASE PosixFlush(u) \/ WindowsFlush(u)
    BY <2>7, Zenon DEF RestShape, PosixFlush, WindowsFlush, FlushBegin, regVars
  <2>8. CASE PosixCancelAll(u) \/ WindowsCancelAll(u)
    BY <1>1, <2>8, Zenon DEF RestShape, PosixCancelAll, WindowsCancelAll, DropQueue
  <2>9. CASE PosixClose(u) \/ WindowsClose(u)
    BY <1>1, <2>9, Zenon DEF RestShape, PosixClose, WindowsClose, DropQueue
  <2> QED
    BY <1>3, <2>1, <2>2, <2>3, <2>4, <2>5, <2>6, <2>7, <2>8, <2>9, Zenon DEF UserStep
<1>4. ASSUME NEW u \in Users, CallStep(u) PROVE RestShape'
  BY <1>4, Zenon DEF RestShape, CallStep, PosixCloseEnd, WindowsCloseEnd, Closed, Issue, Retire,
     FlushWait, FlushSync, regVars
<1>5. ASSUME NEW w \in Workers, WorkerStep(w) PROVE RestShape'
  BY <1>5, Zenon DEF RestShape, WorkerStep, PosixTake, PosixRun, PosixExit, IocpTake, IocpExit,
     PosixFinish, IocpFinish, RetireThenAnswer, Retire, regVars
<1>6. ASSUME NEW o \in Ops, KernelEnds(o) PROVE RestShape'
  BY <1>6, Zenon DEF RestShape, KernelEnds
<1> QED
  BY <1>2, <1>3, <1>4, <1>5, <1>6, Zenon DEF Next

\* No counter of the store leaves its range: usedExtents never underflows when
\* ranges are freed, and an extent's active_io never exceeds the operations.
THEOREM StoreTypeCorrect == Spec => []TypeOK
<1>1. Init => RestShape
  BY Zenon DEF Init, RestShape
<1>2. Spec => []RestShape
  BY <1>1, RestShapeStep, StoreInvAlways, PTL DEF Spec
<1>3. StoreInv /\ ExtentInv /\ RestShape => TypeOK
  <2> SUFFICES ASSUME StoreInv, ExtentInv, RestShape PROVE TypeOK
    OBVIOUS
  <2>1. used \subseteq Extents /\ freeList \in Seq(Extents) /\ held \in [Users -> SUBSET Extents]
    BY Zenon DEF ExtentInv
  <2>2. usedExtents \in 0 .. ExtentCount
    BY <2>1, ExtentsFinite, Zenon DEF ExtentInv
  <2>3. StoreShape /\ CountsIo
    BY Zenon DEF StoreInv
  <2>4. io \in [Ops -> {"none", "queued", "running", "packet", "over"}]
    <3>1. {"none", InQueue, "running", "over"} \subseteq
              {"none", "queued", "running", "packet", "over"}
      BY DEF InQueue
    <3> QED
      BY <2>3, <3>1, Zenon DEF StoreShape
  <2>5. activeIo \in [Extents -> 0 .. MaxOps]
    <3>1. ASSUME NEW e \in Extents PROVE activeIo[e] \in 0 .. MaxOps
      <4>1. MaxOps \in Nat
        BY StoreAssumption, Zenon
      <4>2. IsFiniteSet(Ops) /\ Cardinality(Ops) = MaxOps
        BY <4>1, FS_Interval DEF Ops
      <4>3. Spanning(e) \subseteq Ops
        BY <2>3, Zenon DEF StoreShape, Spanning
      <4>4. IsFiniteSet(Spanning(e)) /\ Cardinality(Spanning(e)) <= MaxOps
        BY <4>2, <4>3, FS_Subset, Zenon
      <4>5. Cardinality(Spanning(e)) \in Nat
        BY <4>4, FS_CardinalityType, Zenon
      <4>6. Cardinality(Spanning(e)) \in 0 .. MaxOps
        BY <4>1, <4>4, <4>5
      <4> QED
        BY <2>3, <4>6, Zenon DEF CountsIo
    <3>2. activeIo = [e \in Extents |-> activeIo[e]]
      BY Zenon DEF RestShape
    <3> QED
      BY <3>1, <3>2, Zenon
  <2>6. /\ pending \subseteq Ops /\ queue \in Seq(Ops)
        /\ status \in [Ops -> {"none", "Pending", "Complete", "Failed", "Cancelled"}]
        /\ wpc \in [Workers -> {"exited", "loop", "run", "retire", "answer"}]
        /\ wop \in [Workers -> {NoOp} \cup Ops]
        /\ upc \in [Users -> {"idle", "issue", "flush", "join"}]
        /\ uset \in [Users -> SUBSET Ops]
    <3>1. {"none", "Pending"} \cup Answered = {"none", "Pending", "Complete", "Failed", "Cancelled"}
      BY DEF Answered
    <3>2. {"exited", "loop"} \cup Busy = {"exited", "loop", "run", "retire", "answer"}
      BY DEF Busy
    <3> QED
      BY <2>3, <3>1, <3>2, Zenon DEF StoreShape
  <2> QED
    BY <2>1, <2>2, <2>4, <2>5, <2>6, Zenon DEF TypeOK, RestShape
<1> QED
  BY <1>2, <1>3, StoreInvAlways, ExtentInvAlways, PTL
=============================================================================
