---------------------------- MODULE TransferQueue ---------------------------
(***************************************************************************)
(* The transfer engine of the runtime: the bounded request queue, the      *)
(* workers that serve it, the callers that submit demands and prefetches,  *)
(* and start() and shutdown() (runtime.cpp).                               *)
(*                                                                         *)
(* One action is one critical section of queue_mu_, or one notification of *)
(* queue_cv_ (sent after the lock is left), or one use of a promise.  A    *)
(* thread in `waiting` is blocked in queue_cv_.wait and re-evaluates its   *)
(* predicate once it has been removed from that set.  load_page is a       *)
(* single step that succeeds or throws; Residency models its parts.        *)
(***************************************************************************)
EXTENDS Naturals, Sequences, FiniteSets, Functions

CONSTANTS
    Callers,        \* threads that use the public API
    Prefetchers,    \* the callers that also prefetch and free pages
    Workers,        \* threads of the transfer engine
    Pages,
    QueueDepth,     \* cfg_.queue_depth
    PrefetchDepth,  \* cfg_.prefetch_depth
    MaxStarts,      \* bound on the number of start() calls
    NoCaller, NoRequest, NoPage

ASSUME QueueAssumption ==
    /\ QueueDepth \in Nat \ {0} /\ PrefetchDepth \in Nat \ {0}
    /\ MaxStarts \in Nat
    /\ Prefetchers \subseteq Callers
    /\ NoCaller \notin Callers /\ NoPage \notin Pages
    /\ Callers \cap Workers = {}

VARIABLES
    queue,      \* queue_
    pending,    \* pending_prefetches_
    running, stopping,
    waiting,    \* threads blocked on queue_cv_
    cpc, cpage, promise,  \* callers: label, page, promise of their demand
    wpc, wreq,  \* workers: label and request
    lpc,        \* the thread that runs start() and shutdown()
    cancelled,  \* requests taken from the queue by shutdown()
    starts

callerVars == <<cpc, cpage, promise>>
workerVars == <<wpc, wreq>>
controlVars == <<running, stopping, lpc, cancelled, starts>>
vars == <<queue, pending, waiting, callerVars, workerVars, controlVars>>

Demand(p, c) == [kind |-> "demand", page |-> p, by |-> c]
Prefetch(p) == [kind |-> "prefetch", page |-> p, by |-> NoCaller]
Request == {Demand(p, c) : p \in Pages, c \in Callers} \cup {Prefetch(p) : p \in Pages}

ASSUME RequestAssumption == NoRequest \notin Request

Init ==
    /\ queue = <<>> /\ pending = {} /\ waiting = {}
    /\ running = FALSE /\ stopping = TRUE
    /\ cpc = [c \in Callers |-> "idle"]
    /\ cpage = [c \in Callers |-> NoPage]
    /\ promise = [c \in Callers |-> "none"]
    /\ wpc = [w \in Workers |-> "exited"]
    /\ wreq = [w \in Workers |-> NoRequest]
    /\ lpc = "down" /\ cancelled = <<>> /\ starts = 0

-----------------------------------------------------------------------------
(* queue_cv_: workers waiting for work and callers waiting for space share *)
(* it, so a notification may reach either kind.                            *)

NotifyOne ==
    \/ waiting = {} /\ UNCHANGED waiting
    \/ \E x \in waiting : waiting' = waiting \ {x}

NotifyAll == waiting' = {}

\* The standard allows a wait to return without a notification.
SpuriousWakeup ==
    /\ \E x \in waiting : waiting' = waiting \ {x}
    /\ UNCHANGED <<queue, pending, callerVars, workerVars, controlVars>>

-----------------------------------------------------------------------------
(* Callers.  Every public operation first checks require_running.          *)

GotoCaller(c, label) ==
    /\ cpc' = [cpc EXCEPT ![c] = label]
    /\ cpage' = IF label = "idle" THEN [cpage EXCEPT ![c] = NoPage] ELSE cpage

Enter(c, p, label) ==
    /\ cpc[c] = "idle"
    /\ running /\ ~stopping
    /\ cpc' = [cpc EXCEPT ![c] = label]
    /\ cpage' = [cpage EXCEPT ![c] = p]
    /\ UNCHANGED <<queue, pending, waiting, promise, workerVars, controlVars>>

CallDemand(c, p) == Enter(c, p, "submit")
CallPrefetch(c, p) == c \in Prefetchers /\ Enter(c, p, "prefetch")
CallFree(c, p) == c \in Prefetchers /\ Enter(c, p, "remove")

\* Defect: the bound is off by one.
HasRoomOffByOne == Len(queue) <= QueueDepth

\* There is room for a demand.
HasRoom == Len(queue) < QueueDepth

\* Defect: requests are accepted after admission has stopped.
AcceptingUnchecked == TRUE

\* The engine accepts requests.
Accepting == ~stopping /\ running

\* submit_demand: the predicate of the wait, then the push.
SubmitDemand(c) ==
    /\ cpc[c] = "submit" /\ c \notin waiting
    /\ \/ /\ ~Accepting
          /\ GotoCaller(c, "idle")
          /\ UNCHANGED <<queue, waiting, promise>>
       \/ /\ Accepting /\ HasRoom
          /\ queue' = Append(queue, Demand(cpage[c], c))
          /\ promise' = [promise EXCEPT ![c] = "unset"]
          /\ GotoCaller(c, "notify")
          /\ UNCHANGED waiting
       \/ /\ Accepting /\ ~HasRoom
          /\ waiting' = waiting \cup {c}
          /\ UNCHANGED <<queue, promise, cpc, cpage>>
    /\ UNCHANGED <<pending, workerVars, controlVars>>

\* Defect: the push is not followed by a notification.
NotifyDemandMissing(c) ==
    /\ cpc[c] = "notify"
    /\ GotoCaller(c, "future")
    /\ UNCHANGED <<queue, pending, waiting, promise, workerVars, controlVars>>

NotifyDemand(c) ==
    /\ cpc[c] = "notify"
    /\ NotifyOne
    /\ GotoCaller(c, "future")
    /\ UNCHANGED <<queue, pending, promise, workerVars, controlVars>>

\* get_future().get() returns or rethrows.
FutureGet(c) ==
    /\ cpc[c] = "future"
    /\ promise[c] # "unset"
    /\ promise' = [promise EXCEPT ![c] = "none"]
    /\ GotoCaller(c, "idle")
    /\ UNCHANGED <<queue, pending, waiting, workerVars, controlVars>>

\* submit_prefetch: throws when stopped, drops duplicates and what does not
\* fit, and never waits.
SubmitPrefetch(c) ==
    LET p == cpage[c] IN
    /\ cpc[c] = "prefetch"
    /\ \/ /\ ~Accepting
          /\ GotoCaller(c, "idle")
          /\ UNCHANGED <<queue, pending>>
       \/ /\ Accepting
          /\ p \in pending \/ Len(queue) >= QueueDepth + PrefetchDepth
          /\ GotoCaller(c, "prefetchNotify")
          /\ UNCHANGED <<queue, pending>>
       \/ /\ Accepting
          /\ p \notin pending /\ Len(queue) < QueueDepth + PrefetchDepth
          /\ queue' = Append(queue, Prefetch(p))
          /\ pending' = pending \cup {p}
          /\ GotoCaller(c, "prefetchNotify")
    /\ UNCHANGED <<waiting, promise, workerVars, controlVars>>

\* The notification is sent whether or not a request was queued.
NotifyPrefetch(c) ==
    /\ cpc[c] = "prefetchNotify"
    /\ NotifyOne
    /\ GotoCaller(c, "idle")
    /\ UNCHANGED <<queue, pending, promise, workerVars, controlVars>>

\* The loop that erases every request equal to r.
Without(s, r) ==
    LET kept[i \in 0 .. Len(s)] ==
            IF i = 0 THEN <<>>
            ELSE IF s[i] = r THEN kept[i - 1] ELSE Append(kept[i - 1], s[i])
    IN  kept[Len(s)]

\* Defect: the page is no longer pending although its prefetch executes.
RemoveQueuedPrefetchAlways(c) ==
    /\ cpc[c] = "remove"
    /\ queue' = Without(queue, Prefetch(cpage[c]))
    /\ pending' = pending \ {cpage[c]}
    /\ GotoCaller(c, "removeNotify")
    /\ UNCHANGED <<waiting, promise, workerVars, controlVars>>

\* remove_queued_prefetch, called by free_page.
RemoveQueuedPrefetch(c) ==
    LET p == cpage[c]
        kept == Without(queue, Prefetch(p))
    IN  /\ cpc[c] = "remove"
        /\ queue' = kept
        /\ pending' = IF kept = queue THEN pending ELSE pending \ {p}
        /\ GotoCaller(c, IF kept = queue THEN "idle" ELSE "removeNotify")
        /\ UNCHANGED <<waiting, promise, workerVars, controlVars>>

NotifyRemove(c) ==
    /\ cpc[c] = "removeNotify"
    /\ NotifyAll
    /\ GotoCaller(c, "idle")
    /\ UNCHANGED <<queue, pending, promise, workerVars, controlVars>>

-----------------------------------------------------------------------------
(* worker_loop.                                                            *)

GotoWorker(w, label) == wpc' = [wpc EXCEPT ![w] = label]

WorkerWait(w) ==
    /\ wpc[w] = "loop" /\ w \notin waiting
    /\ ~stopping /\ queue = <<>>
    /\ waiting' = waiting \cup {w}
    /\ UNCHANGED <<queue, pending, callerVars, workerVars, controlVars>>

WorkerExit(w) ==
    /\ wpc[w] = "loop" /\ w \notin waiting
    /\ stopping /\ queue = <<>>
    /\ GotoWorker(w, "exited")
    /\ UNCHANGED <<queue, pending, waiting, callerVars, wreq, controlVars>>

WorkerPop(w) ==
    /\ wpc[w] = "loop" /\ w \notin waiting
    /\ queue # <<>>
    /\ wreq' = [wreq EXCEPT ![w] = Head(queue)]
    /\ queue' = Tail(queue)
    /\ GotoWorker(w, "popped")
    /\ UNCHANGED <<pending, waiting, callerVars, controlVars>>

WorkerNotify(w) ==
    /\ wpc[w] = "popped"
    /\ NotifyAll
    /\ GotoWorker(w, "load")
    /\ UNCHANGED <<queue, pending, callerVars, wreq, controlVars>>

\* load_page returns or throws, and the promise of a demand is satisfied.
WorkerLoad(w) ==
    /\ wpc[w] = "load"
    /\ \/ /\ wreq[w].kind = "demand"
          /\ \E r \in {"value", "error"} :
                promise' = [promise EXCEPT ![wreq[w].by] = r]
          /\ GotoWorker(w, "loop")
          /\ wreq' = [wreq EXCEPT ![w] = NoRequest]
       \/ /\ wreq[w].kind = "prefetch"
          /\ GotoWorker(w, "erase")
          /\ UNCHANGED <<promise, wreq>>
    /\ UNCHANGED <<queue, pending, waiting, cpc, cpage, controlVars>>

WorkerErase(w) ==
    /\ wpc[w] = "erase"
    /\ pending' = pending \ {wreq[w].page}
    /\ wreq' = [wreq EXCEPT ![w] = NoRequest]
    /\ GotoWorker(w, "eraseNotify")
    /\ UNCHANGED <<queue, waiting, callerVars, controlVars>>

WorkerEraseNotify(w) ==
    /\ wpc[w] = "eraseNotify"
    /\ NotifyAll
    /\ GotoWorker(w, "loop")
    /\ UNCHANGED <<queue, pending, callerVars, wreq, controlVars>>

-----------------------------------------------------------------------------
(* start() and shutdown(), serialized by lifecycle_control_mu_.  Both take *)
(* lifecycle_mu_ exclusively, which waits for every public operation.      *)

NoPublicOperation == \A c \in Callers : cpc[c] = "idle"

StartBegin ==
    /\ lpc = "down"
    /\ starts < MaxStarts
    /\ NoPublicOperation
    /\ starts' = starts + 1
    /\ pending' = {}
    /\ stopping' = FALSE
    /\ lpc' = "starting"
    /\ UNCHANGED <<queue, waiting, callerVars, workerVars, running, cancelled>>

StartWorkers ==
    /\ lpc = "starting"
    /\ wpc' = [w \in Workers |-> "loop"]
    /\ lpc' = "started"
    /\ UNCHANGED <<queue, pending, waiting, callerVars, wreq, running, stopping,
                   cancelled, starts>>

StartRun ==
    /\ lpc = "started"
    /\ running' = TRUE
    /\ lpc' = "up"
    /\ UNCHANGED <<queue, pending, waiting, callerVars, workerVars, stopping,
                   cancelled, starts>>

\* A backend or the store could not be opened, or a thread could not be created
\* after some of the workers were: shutdown_locked.
StartFails ==
    /\ lpc = "starting"
    /\ \E created \in SUBSET Workers :
          wpc' = [w \in Workers |-> IF w \in created THEN "loop" ELSE wpc[w]]
    /\ lpc' = "locked"
    /\ UNCHANGED <<queue, pending, waiting, callerVars, wreq, running, stopping,
                   cancelled, starts>>

StopAdmission ==
    /\ running' = FALSE
    /\ stopping' = TRUE
    /\ cancelled' = queue
    /\ queue' = <<>>
    /\ pending' = {}

ShutdownStop ==
    /\ lpc = "up"
    /\ StopAdmission
    /\ lpc' = "cancel"
    /\ UNCHANGED <<waiting, callerVars, workerVars, starts>>

\* Defect: the requests are dropped with their promises.
CancelDemandsDropped == cancelled' = <<>> /\ UNCHANGED promise

\* Every demand taken from the queue gets the Cancelled exception.
CancelDemands ==
    /\ promise' = [c \in Callers |->
                      IF \E r \in Range(cancelled) : r.by = c
                      THEN "cancelled" ELSE promise[c]]
    /\ cancelled' = <<>>

ShutdownCancel ==
    /\ lpc = "cancel"
    /\ CancelDemands
    /\ lpc' = "notify"
    /\ UNCHANGED <<queue, pending, waiting, cpc, cpage, workerVars, running,
                   stopping, starts>>

\* Defect: the callers that wait for space are not woken.
ShutdownNotifyMissing ==
    /\ lpc = "notify"
    /\ lpc' = "lifecycle"
    /\ UNCHANGED <<queue, pending, waiting, callerVars, workerVars, running,
                   stopping, cancelled, starts>>

ShutdownNotify ==
    /\ lpc = "notify"
    /\ NotifyAll
    /\ lpc' = "lifecycle"
    /\ UNCHANGED <<queue, pending, callerVars, workerVars, running, stopping,
                   cancelled, starts>>

ShutdownLock ==
    /\ lpc = "lifecycle"
    /\ NoPublicOperation
    /\ lpc' = "locked"
    /\ UNCHANGED <<queue, pending, waiting, callerVars, workerVars, running,
                   stopping, cancelled, starts>>

\* The first part of shutdown_locked: no caller is inside an operation.
ShutdownLocked ==
    /\ lpc = "locked"
    /\ StopAdmission
    /\ lpc' = "lockedCancel"
    /\ UNCHANGED <<waiting, callerVars, workerVars, starts>>

ShutdownLockedCancel ==
    /\ lpc = "lockedCancel"
    /\ CancelDemands
    /\ NotifyAll
    /\ lpc' = "join"
    /\ UNCHANGED <<queue, pending, cpc, cpage, workerVars, running, stopping,
                   starts>>

ShutdownJoin ==
    /\ lpc = "join"
    /\ \A w \in Workers : wpc[w] = "exited"
    /\ lpc' = "down"
    /\ UNCHANGED <<queue, pending, waiting, callerVars, workerVars, running,
                   stopping, cancelled, starts>>

\* The bound on starts is reached and the runtime is down.
Finished ==
    /\ lpc = "down" /\ starts = MaxStarts /\ NoPublicOperation
    /\ UNCHANGED vars

-----------------------------------------------------------------------------
CallerStep(c) ==
    \/ SubmitDemand(c) \/ NotifyDemand(c) \/ FutureGet(c)
    \/ SubmitPrefetch(c) \/ NotifyPrefetch(c)
    \/ RemoveQueuedPrefetch(c) \/ NotifyRemove(c)

CallerCall(c) ==
    \E p \in Pages : CallDemand(c, p) \/ CallPrefetch(c, p) \/ CallFree(c, p)

WorkerStep(w) ==
    \/ WorkerWait(w) \/ WorkerExit(w) \/ WorkerPop(w) \/ WorkerNotify(w)
    \/ WorkerLoad(w) \/ WorkerErase(w) \/ WorkerEraseNotify(w)

\* The steps start() and shutdown() take once they are called.
ControlStep ==
    \/ StartWorkers \/ StartRun \/ StartFails
    \/ ShutdownCancel \/ ShutdownNotify \/ ShutdownLock \/ ShutdownLocked
    \/ ShutdownLockedCancel \/ ShutdownJoin

Next ==
    \/ \E c \in Callers : CallerStep(c) \/ CallerCall(c)
    \/ \E w \in Workers : WorkerStep(w)
    \/ ControlStep \/ StartBegin \/ ShutdownStop
    \/ SpuriousWakeup
    \/ Finished

Spec == Init /\ [][Next]_vars

\* Threads inside an operation keep running.  Nobody has to call start,
\* shutdown or an operation, and no wait has to return without a notification.
FairSpec ==
    /\ Spec
    /\ \A c \in Callers : WF_vars(CallerStep(c))
    /\ \A w \in Workers : WF_vars(WorkerStep(w))
    /\ WF_vars(ControlStep)

-----------------------------------------------------------------------------
(* Properties.                                                             *)

\* Every variable of the engine has its type: a request that is queued, executing
\* or cancelled names a page, and the queue is bounded, as is the number of
\* demands in it, although demands and prefetches race for the last place.
TypeOK ==
    /\ queue \in Seq(Request) /\ Len(queue) <= QueueDepth + PrefetchDepth
    /\ Cardinality({i \in DOMAIN queue : queue[i].kind = "demand"}) <= QueueDepth
    /\ pending \subseteq Pages
    /\ running \in BOOLEAN /\ stopping \in BOOLEAN
    /\ waiting \subseteq Callers \cup Workers
    /\ cpc \in [Callers -> {"idle", "submit", "notify", "future", "prefetch",
                            "prefetchNotify", "remove", "removeNotify"}]
    /\ cpage \in [Callers -> Pages \cup {NoPage}]
    /\ promise \in [Callers -> {"none", "unset", "value", "error", "cancelled"}]
    /\ wpc \in [Workers -> {"loop", "popped", "load", "erase", "eraseNotify",
                            "exited"}]
    /\ wreq \in [Workers -> Request \cup {NoRequest}]
    /\ lpc \in {"down", "starting", "started", "up", "cancel", "notify",
                "lifecycle", "locked", "lockedCancel", "join"}
    /\ cancelled \in Seq(Request)
    /\ starts \in 0 .. MaxStarts

\* Where a request is: in the queue, with a worker, or taken by shutdown.
QueuedAt(r) == {<<"queue", i>> : i \in {j \in DOMAIN queue : queue[j] = r}}
HeldBy(r) == {<<"worker", w>> : w \in {v \in Workers : wreq[v] = r}}
CancelledAt(r) ==
    {<<"cancelled", i>> : i \in {j \in DOMAIN cancelled : cancelled[j] = r}}

\* A demand that was submitted and not answered is in exactly one place, from
\* which its promise will be satisfied, and an answered one is in none: no
\* caller is orphaned by shutdown and no promise is satisfied twice (which
\* would throw out of the worker's handler and end the process).
DemandHeldOnce ==
    \A c \in Callers :
        LET places == UNION {QueuedAt(Demand(p, c)) \cup HeldBy(Demand(p, c))
                                \cup CancelledAt(Demand(p, c)) : p \in Pages}
        IN  /\ promise[c] = "unset" => Cardinality(places) = 1
            /\ promise[c] # "unset" => places = {}
            /\ promise[c] = "unset" => cpc[c] \in {"notify", "future"}

\* pending_prefetches_ "covers both queued and currently executing prefetches":
\* there is never a second prefetch of a page that is queued or executing, and
\* while the engine runs, the set names exactly those pages.
PrefetchDeduplicated ==
    \A p \in Pages :
        LET places == QueuedAt(Prefetch(p)) \cup HeldBy(Prefetch(p))
        IN  /\ Cardinality(places) <= 1
            /\ ~stopping => (p \in pending <=> places # {})

\* Once admission is stopped nothing enters the queue again, so teardown after
\* the join finds no request and no caller inside the engine.
StoppedStaysEmpty ==
    stopping => queue = <<>>

\* Shutdown reaches its end: callers in a wait, callers with a queued demand
\* and sleeping workers are all released.
ShutdownCompletes == lpc = "cancel" ~> lpc = "down"

\* A demand that was accepted is answered: no caller waits for its future for
\* ever.
DemandAnswered ==
    \A c \in Callers : []<>(cpc[c] \notin {"notify", "future"})

\* It is answered as long as no other caller waits for space in the queue, who
\* could be woken in place of a worker: no other wakeup is lost.
DemandAnsweredUnlessFull ==
    \A c \in Callers :
        []<>(cpc[c] \notin {"notify", "future"} \/ waiting \cap Callers # {})
=============================================================================
