------------------------------ MODULE NvmeStore -----------------------------
(***************************************************************************)
(* The backing store of the NVMe tier (nvme_backend.cpp): the extent       *)
(* allocator, asynchronous reads and writes served by a pool of workers,   *)
(* cancellation, flush and close.                                          *)
(*                                                                         *)
(* The file holds two implementations of the class and a build has one of  *)
(* them: `os` is chosen once, in Init.  On POSIX a worker takes an         *)
(* operation from a queue and runs pread or pwrite itself; on Windows the  *)
(* kernel runs it and leaves a packet in the completion port for a worker. *)
(* One action is one critical section of impl->mu, or one system call made *)
(* outside it.  A thread whose label is not "idle" holds lifecycle_mu_,    *)
(* which every public call takes.  StoreFile models how open() obtains the *)
(* file.                                                                   *)
(***************************************************************************)
EXTENDS Naturals, Sequences, FiniteSets, Functions

CONSTANTS
    Users,         \* threads that call the store
    Workers,       \* its worker threads
    ExtentCount,
    RunLengths,    \* sizes of the ranges that are asked for
    NoUser,
    MaxOps         \* bound on the operations a caller has not let go of yet

ASSUME StoreAssumption ==
    /\ ExtentCount \in Nat \ {0} /\ RunLengths \subseteq 1 .. ExtentCount
    /\ MaxOps \in Nat /\ NoUser \notin Users /\ Workers # {}

VARIABLES
    os, opened, halting,
    used, usedExtents, freeList, activeIo,  \* of Impl, by extent
    pending,                   \* operations registered in impl->pending
    queue,                     \* operations no worker has taken yet; on Windows, the
                               \* packets in the completion port (first in, first out)
    cancelReq,                 \* Windows: operations CancelIoEx was called for
    span, owner,               \* the extents of an operation, and its caller
    status,                    \* AsyncOpImpl::status_
    io, result,                \* where the I/O of an operation is, how it ended
    wpc, wop,                  \* workers: label, operation in hand
    upc, uset,                 \* users: label, operations flush() still waits for
    held                       \* users: the range allocated to them

extentVars == <<used, usedExtents, freeList, held>>
opVars == <<span, owner>>
ioVars == <<io, result>>
opState == <<opVars, status, ioVars>>
regVars == <<activeIo, pending, queue, cancelReq>>
workVars == <<wpc, wop>>
userVars == <<upc, uset>>
controlVars == <<os, opened, halting>>
vars == <<extentVars, regVars, opState, workVars, userVars, controlVars>>

Extents == 0 .. ExtentCount - 1
Ops == 1 .. MaxOps
NoOp == 0

Init ==
    /\ os \in {"posix", "windows"} /\ opened = FALSE /\ halting = FALSE
    /\ used = {} /\ usedExtents = 0 /\ freeList = <<>> /\ activeIo = [e \in Extents |-> 0]
    /\ held = [u \in Users |-> {}]
    /\ pending = {} /\ queue = <<>> /\ cancelReq = {}
    /\ span = [o \in Ops |-> {}] /\ owner = [o \in Ops |-> NoUser]
    /\ status = [o \in Ops |-> "none"]
    /\ io = [o \in Ops |-> "none"] /\ result = [o \in Ops |-> "none"]
    /\ wpc = [w \in Workers |-> "exited"] /\ wop = [w \in Workers |-> NoOp]
    /\ upc = [u \in Users |-> "idle"] /\ uset = [u \in Users |-> {}]

\* Operations some caller holds, and the free ones.
Submitted == {o \in Ops : status[o] # "none"}
FreeOps == Ops \ Submitted
InKernel == {o \in pending : io[o] = "running"}
LifecycleFree == \A u \in Users : upc[u] = "idle"

\* A public call of u that finds the store open and is not waiting for anything.
Call(u) == upc[u] = "idle" /\ LifecycleFree /\ opened /\ ~halting

-----------------------------------------------------------------------------
(* Extents.  A user keeps the range it got until it frees it.              *)

\* The free runs of n extents; the search goes from the end of the store downwards.
Runs(n) == {f \in Extents : f + n <= ExtentCount /\ (f .. f + n - 1) \cap used = {}}
FoundFirst(f, n) == f \in Runs(n) /\ \A g \in Runs(n) : g <= f

\* Defect: the extents of a run stay in the free list.
TakeLeavesListed(u, range) ==
    /\ used' = used \cup range
    /\ UNCHANGED freeList
    /\ usedExtents' = usedExtents + Cardinality(range)
    /\ held' = [held EXCEPT ![u] = range]

\* The loop that erases the extents of a range from the free list.
Unlisted(s, range) ==
    LET kept[i \in 0 .. Len(s)] ==
            IF i = 0 THEN <<>>
            ELSE IF s[i] \in range THEN kept[i - 1] ELSE Append(kept[i - 1], s[i])
    IN  kept[Len(s)]

Take(u, range) ==
    /\ used' = used \cup range
    /\ freeList' = Unlisted(freeList, range)
    /\ usedExtents' = usedExtents + Cardinality(range)
    /\ held' = [held EXCEPT ![u] = range]

AllocateExtent(u) ==
    LET back == freeList[Len(freeList)] IN
    /\ freeList # <<>>
    /\ used' = used \cup {back}
    /\ freeList' = SubSeq(freeList, 1, Len(freeList) - 1)
    /\ usedExtents' = usedExtents + 1
    /\ held' = [held EXCEPT ![u] = {back}]

AllocateExtents(u, n) ==
    IF n = 1 THEN AllocateExtent(u)
    ELSE /\ n <= ExtentCount - usedExtents
         /\ \E f \in Extents : FoundFirst(f, n) /\ Take(u, f .. f + n - 1)

Allocate(u) ==
    /\ Call(u) /\ held[u] = {}
    /\ \E n \in RunLengths : AllocateExtents(u, n)
    /\ UNCHANGED <<regVars, opState, workVars, userVars, controlVars>>

PosixAllocate(u) == os = "posix" /\ Allocate(u)
WindowsAllocate(u) == os = "windows" /\ Allocate(u)

\* Defect: the range is freed while an operation still works on it.
FreeExtentsUnchecked(range) == range \subseteq used

\* What free_extents checks of every extent before it changes any.
MayFree(range) == range \subseteq Extents \cap used /\ \A e \in range : activeIo[e] = 0

FreeExtents(u) ==
    /\ Call(u) /\ held[u] # {} /\ MayFree(held[u])
    /\ used' = used \ held[u]
    /\ \E f \in held[u] :
           /\ \A e \in held[u] : f <= e
           /\ freeList' = freeList \o [i \in 1 .. Cardinality(held[u]) |-> f + i - 1]
    /\ usedExtents' = usedExtents - Cardinality(held[u])
    /\ held' = [held EXCEPT ![u] = {}]
    /\ UNCHANGED <<regVars, opState, workVars, userVars, controlVars>>

PosixFree(u) == os = "posix" /\ FreeExtents(u)
WindowsFree(u) == os = "windows" /\ FreeExtents(u)

-----------------------------------------------------------------------------
(* Submission: the operation is registered under impl->mu.                 *)

Register(u, o) ==
    /\ Call(u) /\ held[u] # {} /\ held[u] \subseteq Extents \cap used
    /\ span' = [span EXCEPT ![o] = held[u]] /\ owner' = [owner EXCEPT ![o] = u]
    /\ status' = [status EXCEPT ![o] = "Pending"]
    /\ pending' = pending \cup {o}
    /\ activeIo' = [e \in Extents |-> activeIo[e] + (IF e \in held[u] THEN 1 ELSE 0)]
    /\ UNCHANGED <<extentVars, cancelReq, result, workVars, controlVars>>

PosixSubmit(u) ==
    /\ os = "posix"
    /\ \E o \in FreeOps :
           /\ \A p \in FreeOps : o <= p   \* which one does not matter
           /\ Register(u, o) /\ queue' = Append(queue, o)
           /\ io' = [io EXCEPT ![o] = "queued"]
    /\ UNCHANGED userVars

PosixRead(u) == PosixSubmit(u)
PosixWrite(u) == PosixSubmit(u)

\* ReadFile or WriteFile is called after impl->mu is left.
WindowsSubmit(u) ==
    /\ os = "windows"
    /\ \E o \in FreeOps :
           /\ \A p \in FreeOps : o <= p
           /\ Register(u, o)
           /\ upc' = [upc EXCEPT ![u] = "issue"] /\ uset' = [uset EXCEPT ![u] = {o}]
    /\ UNCHANGED <<queue, io>>

WindowsRead(u) == WindowsSubmit(u)
WindowsWrite(u) == WindowsSubmit(u)

\* Erases the operation from pending and lets go of its extents.
Retire(o) ==
    /\ pending' = pending \ {o}
    /\ activeIo' = [e \in Extents |->
           IF e \in span[o] /\ activeIo[e] # 0 THEN activeIo[e] - 1 ELSE activeIo[e]]
    /\ span' = [span EXCEPT ![o] = {}]

\* The last reference to the operation is gone.
Forget(o) ==
    /\ status' = [status EXCEPT ![o] = "none"] /\ owner' = [owner EXCEPT ![o] = NoUser]

\* The call is accepted, or it fails at once and the caller gets no operation.
Issue(u) ==
    /\ upc[u] = "issue"
    /\ upc' = [upc EXCEPT ![u] = "idle"] /\ uset' = [uset EXCEPT ![u] = {}]
    /\ \E o \in uset[u] :
           \/ /\ io' = [io EXCEPT ![o] = "running"]
              /\ UNCHANGED <<pending, activeIo, status, opVars>>
           \/ Retire(o) /\ Forget(o) /\ UNCHANGED io
    /\ UNCHANGED <<extentVars, queue, cancelReq, result, workVars, controlVars>>

\* The caller's wait() returns and it lets go of the operation.
Wait(u) ==
    /\ \E o \in Submitted :
           /\ owner[o] = u /\ status[o] # "Pending" /\ \A v \in Users : o \notin uset[v]
           /\ Forget(o)
           /\ io' = [io EXCEPT ![o] = "none"]
    /\ UNCHANGED <<extentVars, regVars, span, result, workVars, userVars, controlVars>>

-----------------------------------------------------------------------------
(* The I/O itself.  It succeeds, or fails (an error or a short transfer).  *)

\* POSIX: a worker takes the oldest operation and runs it outside the lock.
PosixTake(w) ==
    /\ os = "posix" /\ wpc[w] = "loop" /\ queue # <<>>
    /\ wop' = [wop EXCEPT ![w] = Head(queue)] /\ wpc' = [wpc EXCEPT ![w] = "run"]
    /\ io' = [io EXCEPT ![Head(queue)] = "running"]
    /\ queue' = Tail(queue)
    /\ UNCHANGED <<extentVars, activeIo, pending, cancelReq, opVars, status, result,
                   userVars, controlVars>>

PosixRun(w) ==
    /\ wpc[w] = "run" /\ wpc' = [wpc EXCEPT ![w] = "retire"]
    /\ \E r \in {"ok", "error"} : result' = [result EXCEPT ![wop[w]] = r]
    /\ io' = [io EXCEPT ![wop[w]] = "over"]
    /\ UNCHANGED <<extentVars, regVars, opVars, status, wop, userVars, controlVars>>

PosixExit(w) ==
    /\ os = "posix" /\ wpc[w] = "loop" /\ halting /\ queue = <<>>
    /\ wpc' = [wpc EXCEPT ![w] = "exited"]
    /\ UNCHANGED <<extentVars, regVars, opState, wop, userVars, controlVars>>

\* Windows: the kernel ends the operation and queues a packet.
KernelEnds(o) ==
    /\ os = "windows" /\ io[o] = "running"
    /\ io' = [io EXCEPT ![o] = "packet"] /\ queue' = Append(queue, o)
    /\ \E r \in {"ok", "error"} \cup (IF o \in cancelReq THEN {"aborted"} ELSE {}) :
           result' = [result EXCEPT ![o] = r]
    /\ cancelReq' = cancelReq \ {o}
    /\ UNCHANGED <<extentVars, activeIo, pending, opVars, status, workVars, userVars,
                   controlVars>>

IocpTake(w) ==
    /\ os = "windows" /\ wpc[w] = "loop" /\ queue # <<>>
    /\ io' = [io EXCEPT ![Head(queue)] = "over"] /\ queue' = Tail(queue)
    /\ wop' = [wop EXCEPT ![w] = Head(queue)] /\ wpc' = [wpc EXCEPT ![w] = "retire"]
    /\ UNCHANGED <<extentVars, activeIo, pending, cancelReq, opVars, status, result,
                   userVars, controlVars>>

\* Defect: a worker leaves on the sentinel although operations are pending.
IocpShutdownUndrained == halting

IocpShutdownDrained == halting /\ pending = {}

\* A sentinel or the 200 ms timeout: the worker leaves once all is drained.
IocpExit(w) ==
    /\ os = "windows" /\ wpc[w] = "loop" /\ IocpShutdownDrained
    /\ wpc' = [wpc EXCEPT ![w] = "exited"]
    /\ UNCHANGED <<extentVars, regVars, opState, wop, userVars, controlVars>>

\* complete(), fail() and cancel() only act on a pending operation.
Answer(os_, how) == [o \in Ops |->
    IF o \in os_ /\ status[o] = "Pending" THEN how ELSE status[o]]

\* A worker retires the operation first and answers its waiter afterwards.
RetireThenAnswer(w) ==
    /\ wpc[w] \in {"retire", "answer"}
    /\ IF wpc[w] = "retire"
       THEN /\ Retire(wop[w]) /\ wpc' = [wpc EXCEPT ![w] = "answer"]
            /\ UNCHANGED <<status, result>>
       ELSE /\ status' = Answer({wop[w]}, CASE result[wop[w]] = "ok" -> "Complete"
                                            [] result[wop[w]] = "aborted" -> "Cancelled"
                                            [] OTHER -> "Failed")
            /\ result' = [result EXCEPT ![wop[w]] = "none"]
            /\ wpc' = [wpc EXCEPT ![w] = "loop"]
            /\ UNCHANGED <<pending, activeIo, span>>
    /\ wop' = IF wpc[w] = "retire" THEN wop ELSE [wop EXCEPT ![w] = NoOp]
    /\ UNCHANGED <<extentVars, queue, cancelReq, owner, io, userVars, controlVars>>

PosixFinish(w) == os = "posix" /\ RetireThenAnswer(w)
IocpFinish(w) == os = "windows" /\ RetireThenAnswer(w)

-----------------------------------------------------------------------------
(* flush, cancel_all, close and open.                                      *)

\* Defect: flush() does not wait for the operations in progress.
FlushBeginUnawaited(u) ==
    /\ Call(u)
    /\ upc' = [upc EXCEPT ![u] = "flush"] /\ uset' = [uset EXCEPT ![u] = {}]
    /\ UNCHANGED <<extentVars, regVars, opState, workVars, controlVars>>

\* flush() collects the pending operations...
FlushBegin(u) ==
    /\ Call(u)
    /\ upc' = [upc EXCEPT ![u] = "flush"] /\ uset' = [uset EXCEPT ![u] = pending]
    /\ UNCHANGED <<extentVars, regVars, opState, workVars, controlVars>>

\* Defect: an operation that was cancelled is waited for as well.
FlushWaitForResult(u) ==
    /\ upc[u] = "flush"
    /\ \E o \in uset[u] :
           /\ status[o] \in {"Complete", "Failed"}
           /\ IF status[o] = "Failed"
              THEN upc' = [upc EXCEPT ![u] = "idle"] /\ uset' = [uset EXCEPT ![u] = {}]
              ELSE uset' = [uset EXCEPT ![u] = @ \ {o}] /\ UNCHANGED upc
    /\ UNCHANGED <<extentVars, regVars, opState, workVars, controlVars>>

\* ... waits for each of them, and gives up at the first that failed, ...
FlushWait(u) ==
    /\ upc[u] = "flush"
    /\ \E o \in uset[u] :
           /\ status[o] # "Pending"
           /\ IF status[o] = "Failed"
              THEN upc' = [upc EXCEPT ![u] = "idle"] /\ uset' = [uset EXCEPT ![u] = {}]
              ELSE uset' = [uset EXCEPT ![u] = @ \ {o}] /\ UNCHANGED upc
    /\ UNCHANGED <<extentVars, regVars, opState, workVars, controlVars>>

\* ... and then calls fsync or FlushFileBuffers, which may fail.
FlushSync(u) ==
    /\ upc[u] = "flush" /\ uset[u] = {}
    /\ upc' = [upc EXCEPT ![u] = "idle"]
    /\ UNCHANGED <<extentVars, regVars, opState, workVars, uset, controlVars>>

PosixFlush(u) == os = "posix" /\ FlushBegin(u)
WindowsFlush(u) == os = "windows" /\ FlushBegin(u)

\* POSIX drops and cancels what no worker has taken yet.
DropQueue ==
    /\ queue' = <<>> /\ pending' = pending \ Range(queue)
    /\ activeIo' = [e \in Extents |-> activeIo[e] -
           Cardinality({o \in Range(queue) : e \in span[o]})]
    /\ span' = [o \in Ops |-> IF o \in Range(queue) THEN {} ELSE span[o]]
    /\ status' = Answer(Range(queue), "Cancelled")
    /\ io' = [o \in Ops |-> IF o \in Range(queue) THEN "over" ELSE io[o]]

PosixCancelAll(u) ==
    /\ os = "posix" /\ Call(u) /\ DropQueue
    /\ UNCHANGED <<extentVars, cancelReq, owner, result, workVars, userVars, controlVars>>

\* Defect: the operations are dropped and answered as on POSIX, although the
\* kernel still runs them.
WindowsCancelAllAtOnce(u) ==
    /\ os = "windows" /\ Call(u)
    /\ cancelReq' = cancelReq \cup InKernel /\ status' = Answer(pending, "Cancelled")
    /\ pending' = {} /\ activeIo' = [e \in Extents |-> 0] /\ span' = [o \in Ops |-> {}]
    /\ UNCHANGED <<extentVars, queue, owner, ioVars, workVars, userVars, controlVars>>

\* Windows asks the kernel; the packets of the operations still come.
WindowsCancelAll(u) ==
    /\ os = "windows" /\ Call(u)
    /\ cancelReq' = cancelReq \cup InKernel
    /\ UNCHANGED <<extentVars, activeIo, pending, queue, opState, workVars, userVars,
                   controlVars>>

PosixClose(u) ==
    /\ os = "posix" /\ Call(u) /\ DropQueue
    /\ halting' = TRUE /\ upc' = [upc EXCEPT ![u] = "join"]
    /\ UNCHANGED <<extentVars, cancelReq, owner, result, workVars, uset, os, opened>>

\* stop_workers: CancelIoEx for each pending operation, and sentinels.
WindowsClose(u) ==
    /\ os = "windows" /\ Call(u)
    /\ cancelReq' = cancelReq \cup InKernel
    /\ halting' = TRUE /\ upc' = [upc EXCEPT ![u] = "join"]
    /\ UNCHANGED <<extentVars, activeIo, pending, queue, opState, workVars, uset, os,
                   opened>>

\* The workers are joined, the file is closed and all metadata is cleared.
Closed(u) ==
    /\ upc[u] = "join" /\ \A w \in Workers : wpc[w] = "exited"
    /\ upc' = [upc EXCEPT ![u] = "idle"]
    /\ opened' = FALSE /\ halting' = FALSE
    /\ used' = {} /\ freeList' = <<>> /\ usedExtents' = 0
    /\ activeIo' = [e \in Extents |-> 0] /\ pending' = {}
    /\ held' = [v \in Users |-> {}]
    /\ UNCHANGED <<queue, cancelReq, opState, workVars, uset, os>>

PosixCloseEnd(u) == os = "posix" /\ Closed(u)
WindowsCloseEnd(u) == os = "windows" /\ Closed(u)

\* open(): every extent is free and the workers start.  On an open store it is
\* a close and this.
Reset(u) ==
    /\ LifecycleFree /\ ~opened /\ opened' = TRUE
    /\ used' = {} /\ usedExtents' = 0 /\ activeIo' = [e \in Extents |-> 0]
    /\ freeList' = [i \in 1 .. ExtentCount |-> i - 1]
    /\ wpc' = [w \in Workers |-> "loop"]
    /\ UNCHANGED <<held, pending, queue, cancelReq, opState, wop, userVars, os, halting>>

PosixOpen(u) == os = "posix" /\ Reset(u)
WindowsOpen(u) == os = "windows" /\ Reset(u)

-----------------------------------------------------------------------------
UserStep(u) ==
    \/ Wait(u) \/ PosixOpen(u) \/ WindowsOpen(u)
    \/ PosixAllocate(u) \/ PosixFree(u) \/ PosixRead(u) \/ PosixWrite(u)
    \/ PosixFlush(u) \/ PosixCancelAll(u) \/ PosixClose(u)
    \/ WindowsAllocate(u) \/ WindowsFree(u) \/ WindowsRead(u) \/ WindowsWrite(u)
    \/ WindowsFlush(u) \/ WindowsCancelAll(u) \/ WindowsClose(u)

\* The rest of a call that has begun.
CallStep(u) ==
    Issue(u) \/ FlushWait(u) \/ FlushSync(u) \/ PosixCloseEnd(u) \/ WindowsCloseEnd(u)

WorkerStep(w) ==
    \/ PosixTake(w) \/ PosixRun(w) \/ PosixFinish(w) \/ PosixExit(w)
    \/ IocpTake(w) \/ IocpFinish(w) \/ IocpExit(w)

Next ==
    \/ \E u \in Users : UserStep(u) \/ CallStep(u)
    \/ \E w \in Workers : WorkerStep(w)
    \/ \E o \in Ops : KernelEnds(o)

Spec == Init /\ [][Next]_vars

\* Threads that can run do run, and the kernel ends every operation it has.
StoreFairness ==
    /\ \A u \in Users : WF_vars(CallStep(u))
    /\ \A w \in Workers : WF_vars(WorkerStep(w))
    /\ \A o \in Ops : WF_vars(KernelEnds(o))

FairSpec == Spec /\ StoreFairness

-----------------------------------------------------------------------------
\* usedExtents never underflows, activeIo never exceeds the operations there are,
\* and queues, workers and ranges name operations and extents of the store.
TypeOK ==
    /\ used \subseteq Extents /\ usedExtents \in 0 .. ExtentCount
    /\ freeList \in Seq(Extents) /\ activeIo \in [Extents -> 0 .. MaxOps]
    /\ pending \subseteq Ops /\ queue \in Seq(Ops) /\ cancelReq \subseteq Ops
    /\ status \in [Ops -> {"none", "Pending", "Complete", "Failed", "Cancelled"}]
    /\ io \in [Ops -> {"none", "queued", "running", "packet", "over"}]
    /\ wpc \in [Workers -> {"exited", "loop", "run", "retire", "answer"}]
    /\ wop \in [Workers -> {NoOp} \cup Ops]
    /\ upc \in [Users -> {"idle", "issue", "flush", "join"}]
    /\ uset \in [Users -> SUBSET Ops] /\ held \in [Users -> SUBSET Extents]

\* The free list, the used bits and the counter tell the same story, and the
\* ranges given out by allocate_extent and allocate_extents never overlap.
ExtentsAccounted ==
    opened =>
        /\ Range(freeList) = Extents \ used /\ Len(freeList) = ExtentCount - usedExtents
        /\ usedExtents = Cardinality(used)
        /\ used = UNION {held[u] : u \in Users}
        /\ \A u, v \in Users : u # v => held[u] \cap held[v] = {}

\* An operation that can still touch the file works on extents that belong to
\* the thread that submitted it: free_extents and close() never hand out a
\* range under a transfer in progress.
InProgressOwned ==
    \A o \in Submitted : io[o] \in {"queued", "running"} =>
        opened /\ span[o] \subseteq held[owner[o]]

\* Once wait() can return, no worker and no kernel request uses the caller's
\* buffer any more, and the operation holds no extent: a caller that frees its
\* range then is never told "cannot free an extent with active I/O".
AnsweredIsOver ==
    \A o \in Submitted : status[o] \in {"Complete", "Failed", "Cancelled"} =>
        io[o] = "over" /\ o \notin pending

\* When flush() calls fsync or FlushFileBuffers, the I/O of every operation that
\* was submitted before has ended: a write that reports Complete, then or later,
\* is covered by that call.
FlushCoversWrites ==
    \A u \in Users : upc[u] = "flush" /\ uset[u] = {} =>
        \A o \in Submitted : io[o] = "over"

\* close() leaves no operation that was given to a caller without an answer.
NoneStranded == ~opened => \A o \in Submitted : status[o] # "Pending"

\* Every operation is answered, so that wait() returns; and flush() and close()
\* return although they hold lifecycle_mu_ while they wait for workers.
StoreResponds ==
    /\ \A o \in Ops : []<>(status[o] # "Pending")
    /\ \A u \in Users : []<>(upc[u] = "idle")
=============================================================================
