------------------------------ MODULE Lifecycle -----------------------------
(***************************************************************************)
(* Runtime::start() and Runtime::shutdown_locked() (runtime.cpp) with the  *)
(* failures of the calls they make: what is acquired in which order, what  *)
(* is released, what a failed release keeps open, and what a second        *)
(* shutdown or a restart then finds.  The host allocator's ledger          *)
(* (host_backend.cpp) and the tier budgets (allocator.cpp) are part of it. *)
(*                                                                         *)
(* Both run alone, under the exclusive lifecycle_mu_; TransferQueue models *)
(* the threads they stop.  `live` is what the allocators really hold,      *)
(* `table` what the page table says; `lost` are the pinned buffers of the  *)
(* ledger that no page names.                                              *)
(***************************************************************************)
EXTENDS Naturals, FiniteSets, FiniteSetsExt

CONSTANTS
    TablePages,
    MaxFailures   \* bound on the calls that fail

ASSUME LifecycleAssumption == IsFiniteSet(TablePages) /\ MaxFailures \in Nat

VARIABLES
    lpc, running, stopping,
    device, stream,       \* device_ ("none", "created", "open"), device_stream_
    attached,             \* host_ allocates pinned memory through device_
    nvme, storeOpened,    \* nvme_ ("none", "created", "open"), store_opened_
    sink, workers,
    inTable, table,       \* pages of the table, the handles each of them names
    live,                 \* the handles of a page that were not given back
    lost,                 \* pinned buffers in host_'s ledger that no page names
    vramUsed, nvmeUsed,   \* bytes reserved in the tier budgets, in pages
    left, deviceLive, storeLive, firstError,  \* locals of shutdown_locked
    failures

\* Observability only: the pages whose device memory was live when its
\* reservation was released.
VARIABLE uncounted

deviceVars == <<device, stream, attached>>
storeVars == <<nvme, storeOpened>>
memoryVars == <<inTable, table, live, lost, vramUsed, nvmeUsed>>
pageVars == <<memoryVars, uncounted>>
localVars == <<left, deviceLive, storeLive, firstError>>
flagVars == <<running, stopping>>
lvars == <<lpc, flagVars, deviceVars, storeVars, sink, workers, pageVars, localVars, failures>>

LInit ==
    /\ lpc = "down" /\ running = FALSE /\ stopping = TRUE
    /\ device = "none" /\ stream = FALSE /\ attached = FALSE
    /\ nvme = "none" /\ storeOpened = FALSE /\ sink = FALSE /\ workers = FALSE
    /\ inTable = {} /\ table = [p \in TablePages |-> {}] /\ live = [p \in TablePages |-> {}]
    /\ lost = 0 /\ vramUsed = 0 /\ nvmeUsed = 0 /\ uncounted = {}
    /\ left = {} /\ deviceLive = FALSE /\ storeLive = FALSE /\ firstError = FALSE
    /\ failures = 0

Step(from, to) == lpc = from /\ lpc' = to

\* n more calls fail; the bound is on all failures of a behaviour.
Fail(n) == failures + n <= MaxFailures /\ failures' = failures + n

-----------------------------------------------------------------------------
(* start().                                                                *)

\* "runtime cannot restart after incomplete teardown"
AdmitRestart ==
    ~workers /\ inTable = {} /\ device = "none" /\ nvme = "none" /\ ~storeOpened

Start ==
    /\ Step("down", "device") /\ ~running /\ stopping /\ AdmitRestart
    /\ stopping' = FALSE /\ uncounted' = {}
    /\ UNCHANGED <<running, deviceVars, storeVars, sink, workers, memoryVars, localVars, failures>>

\* CPU-only mode, or the backend is created, opened and given a stream.
CreateDevice ==
    /\ \/ Step("device", "limits") /\ UNCHANGED device
       \/ Step("device", "opendevice") /\ device' = "created"
    /\ UNCHANGED <<flagVars, stream, attached, storeVars, sink, workers, pageVars, localVars,
                   failures>>

OpenDevice ==
    /\ Step("opendevice", "stream") /\ device' = "open"
    /\ UNCHANGED <<flagVars, stream, attached, storeVars, sink, workers, pageVars, localVars,
                   failures>>

CreateStream ==
    /\ Step("stream", "limits") /\ stream' = TRUE
    /\ UNCHANGED <<flagVars, device, attached, storeVars, sink, workers, pageVars, localVars,
                   failures>>

\* device_pinned_live_allocations() > 0
PinnedLive == lost # 0 \/ \E p \in TablePages : "pinned" \in live[p]

\* TierBudget::set_limit and HostBackend::set_device_backend refuse to change
\* under live reservations and live pinned memory.
SetLimits ==
    /\ Step("limits", "nvme")
    /\ vramUsed = 0 /\ nvmeUsed = 0 /\ ~PinnedLive
    /\ attached' = (device # "none")
    /\ UNCHANGED <<flagVars, device, stream, storeVars, sink, workers, pageVars, localVars,
                   failures>>

CreateStore ==
    /\ Step("nvme", "openstore") /\ nvme' = "created"
    /\ UNCHANGED <<flagVars, deviceVars, storeOpened, sink, workers, pageVars, localVars,
                   failures>>

OpenStore ==
    /\ Step("openstore", "sink") /\ nvme' = "open" /\ storeOpened' = TRUE
    /\ UNCHANGED <<flagVars, deviceVars, sink, workers, pageVars, localVars, failures>>

OpenSink ==
    /\ Step("sink", "workers") /\ sink' = TRUE
    /\ UNCHANGED <<flagVars, deviceVars, storeVars, workers, pageVars, localVars, failures>>

\* Some workers run; the last one may not start.
StartWorkers ==
    /\ lpc = "workers" /\ workers' = TRUE
    /\ \/ running' = TRUE /\ lpc' = "up"
       \/ ~workers /\ UNCHANGED <<running, lpc>>
    /\ UNCHANGED <<stopping, deviceVars, storeVars, sink, pageVars, localVars, failures>>

\* shutdown_locked: stop admission, drain, join the workers, visit each page.
Teardown ==
    /\ running' = FALSE /\ stopping' = TRUE /\ workers' = FALSE
    /\ lpc' = "release" /\ left' = inTable
    /\ deviceLive' = FALSE /\ storeLive' = FALSE
    /\ UNCHANGED <<deviceVars, storeVars, sink, pageVars>>

Starting == {"device", "opendevice", "stream", "limits", "nvme", "openstore", "sink", "workers"}

\* Any step of start() may throw; its catch block runs shutdown_locked.
StartFails ==
    /\ lpc \in Starting /\ Teardown
    /\ firstError' = FALSE /\ UNCHANGED failures

-----------------------------------------------------------------------------
(* Pages come, move and go while the runtime is up (module Residency).     *)

HostMemory == {"pageable", "pinned"}

\* What a page holds between two movements: host or device memory, an extent,
\* or one of the former with an extent.
HandleSets ==
    {{m} : m \in HostMemory \cup {"vram"}} \cup {{"extent"}}
        \cup {{m, "extent"} : m \in HostMemory \cup {"vram"}}

\* A movement that threw halfway left p with both memories, in flight for ever.
Abandoned(p) == "vram" \in table[p] /\ table[p] \cap HostMemory # {}

\* p is given the handles h; the budgets count what is reserved.
Holds(p, h) ==
    /\ table' = [table EXCEPT ![p] = h] /\ live' = [live EXCEPT ![p] = h]
    /\ inTable' = IF h = {} THEN inTable \ {p} ELSE inTable \cup {p}
    /\ vramUsed' = Cardinality({q \in TablePages : "vram" \in live'[q] /\ q \notin uncounted'})
    /\ nvmeUsed' = Cardinality({q \in TablePages : "extent" \in live'[q]})

PageMoves(p) ==
    /\ lpc = "up" /\ ~Abandoned(p)
    /\ \E h \in {{}} \cup HandleSets :
           /\ h # table[p] /\ (h \cap {"vram", "pinned"} # {} => device = "open" /\ attached)
           /\ UNCHANGED uncounted /\ Holds(p, h)
    /\ UNCHANGED <<lpc, flagVars, deviceVars, storeVars, sink, workers, lost, localVars, failures>>

\* evict_vram_to_host: the device memory cannot be freed once the copy is made,
\* or, the copy having failed, the (pinned) host buffer cannot.
EvictionAbandoned(p) ==
    /\ lpc = "up" /\ attached /\ "vram" \in table[p] /\ ~Abandoned(p) /\ Fail(1)
    /\ \E m \in HostMemory : UNCHANGED uncounted /\ Holds(p, table[p] \cup {m})
    /\ UNCHANGED <<lpc, flagVars, deviceVars, storeVars, sink, workers, lost, localVars>>

\* promote_host_to_vram: the (pinned) host buffer cannot be freed once the copy is
\* made, or, the copy having failed, the device memory cannot, and its reservation
\* was released before.
PromotionAbandoned(p) ==
    /\ lpc = "up" /\ attached /\ table[p] \cap HostMemory # {} /\ ~Abandoned(p) /\ Fail(1)
    /\ \/ "pinned" \in table[p] /\ UNCHANGED uncounted
       \/ uncounted' = uncounted \cup {p}
    /\ Holds(p, table[p] \cup {"vram"})
    /\ UNCHANGED <<lpc, flagVars, deviceVars, storeVars, sink, workers, lost, localVars>>

\* evict_vram_to_host and load_nvme_to_host: the pinned buffer claimed for a page
\* that is busy or gone cannot be freed, and the error of that is swallowed.
BufferLost ==
    /\ lpc = "up" /\ attached /\ Fail(1) /\ lost' = lost + 1
    /\ UNCHANGED <<lpc, flagVars, deviceVars, storeVars, sink, workers, inTable, table, live,
                   vramUsed, nvmeUsed, uncounted, localVars>>

-----------------------------------------------------------------------------
(* shutdown().                                                             *)

\* From a running runtime, or again after a shutdown that reported an error.
Shutdown ==
    /\ lpc \in {"up", "down"} /\ Teardown
    /\ \/ firstError' = FALSE /\ UNCHANGED failures
       \/ storeOpened /\ Fail(1) /\ firstError' = TRUE   \* cancel_all throws

\* Defect: the store is closed although an extent could not be freed.
KeepsStoreNever(f) == FALSE

\* What must stay open for the handles f that could not be given back.
KeepsDevice(f) == f \cap {"vram", "pinned"} # {}
KeepsStore(f) == "extent" \in f

\* Defect: the entry goes although an extent could not be freed.
StaysInTableForMemoryOnly(f) == f \ {"extent"} # {}

\* A page leaves the table when it has no handle any more.
StaysInTable(f) == f # {}

Given(tier, p, f) == Cardinality({tier} \cap (table[p] \ f))

\* TierBudget::release throws, and changes nothing, when it would underflow.
BudgetAfter(used, given) == IF given > used THEN used ELSE used - given

\* Every handle of a page is released on its own; f is what fails.  A handle that
\* is given back is cleared before its budget is, which may throw.
ReleasePage(p) ==
    /\ lpc = "release" /\ p \in left /\ left' = left \ {p}
    /\ \E f \in SUBSET table[p] :
           /\ "vram" \in table[p] /\ device = "none" => "vram" \in f
           /\ Fail(Cardinality(f))
           /\ live' = [live EXCEPT ![p] = f]
           /\ table' = [table EXCEPT ![p] = IF StaysInTable(f) THEN f ELSE {}]
           /\ inTable' = IF StaysInTable(f) THEN inTable ELSE inTable \ {p}
           /\ vramUsed' = BudgetAfter(vramUsed, Given("vram", p, f))
           /\ nvmeUsed' = BudgetAfter(nvmeUsed, Given("extent", p, f))
           /\ deviceLive' = (deviceLive \/ KeepsDevice(f))
           /\ storeLive' = (storeLive \/ KeepsStore(f))
           /\ firstError' = (firstError \/ f # {} \/ Given("vram", p, f) > vramUsed
                                          \/ Given("extent", p, f) > nvmeUsed)
    /\ UNCHANGED <<lpc, flagVars, deviceVars, storeVars, sink, workers, lost, uncounted>>

\* flush, close and destroy_file; each failure is remembered.
CloseStoreCalls ==
    \/ Fail(0) /\ nvme' = "none" /\ storeOpened' = FALSE /\ UNCHANGED firstError
    \/ Fail(1) /\ nvme' = "none" /\ storeOpened' = FALSE /\ firstError' = TRUE
    \/ Fail(1) /\ UNCHANGED storeVars /\ firstError' = TRUE   \* close() fails

ShutdownStore ==
    /\ left = {} /\ Step("release", "closedevice")
    /\ IF storeOpened /\ ~storeLive THEN CloseStoreCalls
       ELSE /\ nvme' = IF storeOpened THEN nvme ELSE "none"
            /\ UNCHANGED <<storeOpened, firstError, failures>>
    /\ UNCHANGED <<flagVars, deviceVars, sink, workers, pageVars, left, deviceLive, storeLive>>

\* Defect: the device is only closed together with its stream, and a stream that
\* is not there is an error.
CloseDeviceCallsWithStream ==
    /\ stream' = FALSE /\ attached' = (attached /\ PinnedLive)
    /\ IF stream /\ ~attached'
       THEN \/ Fail(0) /\ device' = "none" /\ UNCHANGED firstError
            \/ Fail(1) /\ UNCHANGED device /\ firstError' = TRUE
       ELSE UNCHANGED <<device, failures>> /\ firstError' = TRUE

\* destroy_stream, detaching the host allocator and closing the device.  Pinned
\* memory that is still live keeps the allocator attached and the device open.
CloseDeviceCalls ==
    /\ stream' = FALSE /\ attached' = (attached /\ PinnedLive)
    /\ \/ ~attached' /\ Fail(0) /\ device' = "none" /\ UNCHANGED firstError
       \/ ~attached' /\ stream /\ Fail(1) /\ device' = "none" /\ firstError' = TRUE
       \/ Fail(IF attached' THEN 0 ELSE 1) /\ UNCHANGED device /\ firstError' = TRUE

ShutdownDevice ==
    /\ Step("closedevice", "closesink")
    /\ IF device # "none" /\ ~deviceLive THEN CloseDeviceCalls
       ELSE UNCHANGED <<deviceVars, firstError, failures>>
    /\ UNCHANGED <<flagVars, storeVars, sink, workers, pageVars, left, deviceLive, storeLive>>

\* Defect: shutdown forgets an error of an earlier step.
ShutdownSinkForgetful ==
    /\ Step("closesink", "down") /\ sink' = FALSE /\ firstError' = FALSE
    /\ UNCHANGED <<flagVars, deviceVars, storeVars, workers, pageVars, left, deviceLive,
                   storeLive, failures>>

\* The sink is flushed and dropped; shutdown_locked rethrows its first error.
ShutdownSink ==
    /\ Step("closesink", "down") /\ sink' = FALSE
    /\ \/ UNCHANGED <<firstError, failures>>
       \/ sink /\ Fail(1) /\ firstError' = TRUE
    /\ UNCHANGED <<flagVars, deviceVars, storeVars, workers, pageVars, left, deviceLive,
                   storeLive>>

LNext ==
    \/ Start \/ CreateDevice \/ OpenDevice \/ CreateStream \/ SetLimits
    \/ CreateStore \/ OpenStore \/ OpenSink \/ StartWorkers \/ StartFails
    \/ Shutdown \/ ShutdownStore \/ ShutdownDevice \/ ShutdownSink
    \/ BufferLost
    \/ \E p \in TablePages : \/ PageMoves(p) \/ EvictionAbandoned(p) \/ PromotionAbandoned(p)
                            \/ ReleasePage(p)

LSpec == LInit /\ [][LNext]_lvars

\* A call that runs goes on, and a caller told of an error calls shutdown again.
Resume ==
    \/ ShutdownStore \/ ShutdownDevice \/ ShutdownSink
    \/ \E p \in TablePages : ReleasePage(p)
RetryShutdown == firstError /\ lpc = "down" /\ Shutdown

TeardownFairness == WF_lvars(Resume) /\ WF_lvars(RetryShutdown)

LFairSpec == LSpec /\ TeardownFairness

-----------------------------------------------------------------------------
\* The table names pages of the run and resources of the tiers, and the budgets
\* neither underflow nor count more than a page for each page.
LTypeOK ==
    /\ lpc \in Starting \cup {"down", "up", "release", "closedevice", "closesink"}
    /\ {running, stopping, stream, attached, storeOpened, sink, workers} \subseteq BOOLEAN
    /\ {device, nvme} \subseteq {"none", "created", "open"}
    /\ inTable \subseteq TablePages /\ left \subseteq TablePages
    /\ table \in [TablePages -> SUBSET {"pageable", "pinned", "vram", "extent"}]
    /\ lost \in 0 .. MaxFailures /\ uncounted \subseteq TablePages
    /\ vramUsed \in 0 .. Cardinality(TablePages) /\ nvmeUsed \in 0 .. Cardinality(TablePages)
    /\ {deviceLive, storeLive, firstError} \subseteq BOOLEAN /\ failures \in 0 .. MaxFailures

\* A backend outlives the memory that came from it: the device (and the host
\* allocator's link to it) stays while device or pinned memory is live, a buffer
\* no page names included, and the store stays open while an extent is.
BackendOutlivesMemory ==
    /\ \A p \in TablePages :
           /\ live[p] \cap {"vram", "pinned"} # {} => device = "open"
           /\ "pinned" \in live[p] => attached
           /\ "extent" \in live[p] => nvme = "open" /\ storeOpened
    /\ lost # 0 => device = "open" /\ attached

\* What the allocators hold for a page is named by its entry, so that a repeated
\* shutdown can release it: no release is forgotten and none happens twice.  (The
\* pinned buffers in `lost` belong to no page.)  The NVMe budget counts exactly the
\* extents held; the device budget falls short of the device memory held by no more
\* than the pages whose reservation was released ahead of it, and never exceeds it.
NothingForgotten ==
    /\ \A p \in TablePages : live[p] = table[p] /\ (live[p] # {} => p \in inTable)
    /\ nvmeUsed = Cardinality({p \in TablePages : "extent" \in live[p]})
    /\ LET held == Cardinality({p \in TablePages : "vram" \in live[p]})
       IN  vramUsed <= held /\ held <= vramUsed + Cardinality(uncounted)

DeviceReleased == device = "none" /\ ~stream /\ ~attached
RestReleased ==
    /\ nvme = "none" /\ ~storeOpened /\ ~sink /\ ~workers
    /\ inTable = {} /\ \A p \in TablePages : live[p] = {}

\* A shutdown() that reports no error has released everything, and a start() that
\* is admitted, after whatever failed before it, finds nothing of an earlier run.
ReleasedWhenSaid ==
    lpc = "device" \/ (lpc = "down" /\ ~firstError) =>
        RestReleased /\ DeviceReleased /\ lost = 0

\* Once the failures stop, calling shutdown() again releases the pages, the store,
\* the sink and the workers, and the device too unless a pinned buffer was lost: the
\* host allocator then refuses to detach at every shutdown (host_backend.cpp).
TeardownConverges == lpc = "down" ~> RestReleased /\ (lost = 0 => DeviceReleased)
=============================================================================
