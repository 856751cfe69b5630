------------------------------- MODULE Devices ------------------------------
(***************************************************************************)
(* The device backends (cpu_backend.cpp, cuda_backend.cu, hip_backend.cpp) *)
(* and the synchronous copy helpers of DeviceBackend, called by several    *)
(* threads.  `driver` is what the vendor driver holds, `record` the        *)
(* backend's own ledgers, `pend` the copies that the driver was given and  *)
(* has not finished.                                                       *)
(*                                                                         *)
(* CPU calls run under one mutex: one step each.  A CUDA call holds        *)
(* lifecycle_mu shared until it returns and takes mu for the parts that    *)
(* look at a ledger; open and close hold lifecycle_mu exclusively.  HIP    *)
(* keeps no ledger, so its callers pass handles that are live.             *)
(***************************************************************************)
EXTENDS Naturals, FiniteSets, FiniteSetsExt

CONSTANTS
    Callers, Streams, Events,
    HelperUsers,   \* the callers that use copy_*_sync
    Buffers, GpuBuffers,   \* memory blocks, and those that CUDA and HIP may give out
    NoObject,      \* nullptr: the default stream
    AllocBytes,    \* sizes a caller asks for
    MaxWork,       \* bound on the copies a driver holds
    DeviceBytes    \* max_allocation_size, totalGlobalMem

ASSUME DevicesAssumption ==
    /\ HelperUsers \subseteq Callers /\ IsFiniteSet(Buffers) /\ GpuBuffers \subseteq Buffers
    /\ AllocBytes \subseteq Nat \ {0} /\ DeviceBytes \in Nat /\ MaxWork \in Nat
    /\ NoObject \notin Buffers \cup Streams \cup Events \cup Callers
    /\ Buffers \cap (Streams \cup Events) = {} /\ Streams \cap Events = {}

Objects == Buffers \cup Streams \cup Events
MemoryClass == {"device", "unified", "pinned"}
ClassOf(o) == IF o \in Streams THEN {"stream"} ELSE IF o \in Events THEN {"event"} ELSE MemoryClass

VARIABLES
    backend,            \* which of the three backends this is
    isOpen,
    record, driver, size,
    leaked,             \* held by the driver, released in vain, in no ledger
    outBytes,           \* allocated_bytes_ of the CPU backend
    pend, recorded,     \* unfinished copies; the ones an event was recorded behind
    pc, obj, awaits,    \* a call in progress, its object, the copies it waits for
    helper, helperStream   \* stage and stream of copy_*_sync in a caller

ledgerVars == <<record, driver, size, leaked, outBytes>>
streamVars == <<pend, recorded>>
callVars == <<pc, obj, awaits, helper, helperStream>>
dvars == <<backend, isOpen, ledgerVars, streamVars, callVars>>

DInit ==
    /\ backend \in {"cpu", "cuda", "hip"} /\ isOpen = FALSE
    /\ record = [o \in Objects |-> "none"] /\ driver = [o \in Objects |-> "none"]
    /\ size = [b \in Buffers |-> 0] /\ leaked = {} /\ outBytes = 0
    /\ pend = {} /\ recorded = [e \in Events |-> {}]
    /\ pc = [t \in Callers |-> "idle"] /\ obj = [t \in Callers |-> NoObject]
    /\ awaits = [t \in Callers |-> {}]
    /\ helper = [t \in Callers |-> "none"]
    /\ helperStream = [t \in Callers |-> NoObject]

Held == {o \in Objects : driver[o] # "none"}
Recorded == {o \in Objects : record[o] # "none"}
Work(s) == {w \in pend : w.stream = s}

\* The mutex mu is held while a stream or event is waited for.
MuFree == \A t \in Callers : pc[t] # "waiting"
NoCallInside == \A t \in Callers : pc[t] = "idle"

-----------------------------------------------------------------------------
(* copy_host_to_device_sync and copy_device_to_host_sync: create a stream, *)
(* copy, synchronize, destroy the stream; a failure destroys it too.       *)

HelperNext ==
    [create  |-> [ok |-> "copy",    fail |-> "none"],
     copy    |-> [ok |-> "sync",    fail |-> "cleanup"],
     sync    |-> [ok |-> "destroy", fail |-> "cleanup"],
     destroy |-> [ok |-> "none",    fail |-> "none"],
     cleanup |-> [ok |-> "none",    fail |-> "none"]]

HelperAfter(t, ok) ==
    IF helper[t] = "none" THEN "none"
    ELSE IF ok THEN HelperNext[helper[t]].ok ELSE HelperNext[helper[t]].fail

\* The call of t returns, or throws.
Return(t, ok) ==
    /\ pc' = [pc EXCEPT ![t] = "idle"] /\ obj' = [obj EXCEPT ![t] = NoObject]
    /\ awaits' = [awaits EXCEPT ![t] = {}]
    /\ helper' = [helper EXCEPT ![t] = HelperAfter(t, ok)]
    /\ helperStream' = [helperStream EXCEPT ![t] =
           IF HelperAfter(t, ok) = "none" THEN NoObject
           ELSE IF helper[t] = "create" THEN obj[t] ELSE @]

\* The call goes on inside the driver, or has failed there and must be reported.
Continue(t, where, o) ==
    /\ pc' = [pc EXCEPT ![t] = where] /\ obj' = [obj EXCEPT ![t] = o]
    /\ awaits' = [awaits EXCEPT ![t] = {}]
    /\ UNCHANGED <<helper, helperStream>>

\* The call blocks in the driver until the copies ws are finished.
WaitFor(t, where, ws) ==
    /\ pc' = [pc EXCEPT ![t] = where] /\ awaits' = [awaits EXCEPT ![t] = ws]
    /\ UNCHANGED <<obj, helper, helperStream>>

CopySync(t) ==
    /\ t \in HelperUsers
    /\ pc[t] = "idle" /\ helper[t] = "none" /\ helper' = [helper EXCEPT ![t] = "create"]
    /\ UNCHANGED <<backend, isOpen, ledgerVars, streamVars, pc, obj, awaits, helperStream>>

\* t makes a call of its own, or the one its helper is at, on the helper's stream.
Calls(t, stages) == pc[t] = "idle" /\ helper[t] \in {"none"} \cup stages
OnStream(t, s) == helper[t] # "none" => s = helperStream[t]

\* The backend is closed, the stream unknown or the device cannot be activated.
HelperRefused(t) ==
    /\ pc[t] = "idle" /\ helper[t] # "none" /\ Return(t, FALSE)
    /\ UNCHANGED <<backend, isOpen, ledgerVars, streamVars>>

-----------------------------------------------------------------------------
(* The vendor driver.                                                      *)

DriverMake(o, cls) ==
    /\ driver[o] = "none" /\ driver' = [driver EXCEPT ![o] = cls]
    /\ \E n \in AllocBytes :
           /\ n <= DeviceBytes
           /\ size' = IF o \in Buffers THEN [size EXCEPT ![o] = n] ELSE size

\* Freeing memory waits for the work on it; destroying a stream does not.
DriverDestroy(os) ==
    /\ \A w \in pend : w.buf \notin os
    /\ driver' = [o \in Objects |-> IF o \in os THEN "none" ELSE driver[o]]
    /\ size' = [b \in Buffers |-> IF b \in os THEN 0 ELSE size[b]]

DriverFinishes ==
    /\ \E w \in pend : pend' = pend \ {w}
    /\ recorded' = [e \in Events |-> recorded[e] \cap pend']
    /\ awaits' = [t \in Callers |-> awaits[t] \cap pend']
    /\ UNCHANGED <<backend, isOpen, ledgerVars, pc, obj, helper, helperStream>>

\* A failed wait leaves a device that does no more of the work it has.
DropWork == pend' = {} /\ recorded' = [e \in Events |-> {}]

-----------------------------------------------------------------------------
(* CPU backend: memory is system memory and copies are synchronous.        *)

Cpu(t, stages) ==
    /\ backend = "cpu" /\ Calls(t, stages) /\ UNCHANGED <<backend, leaked, streamVars>>

CpuReleaseOwned ==
    /\ DriverDestroy(Recorded)
    /\ record' = [o \in Objects |-> "none"] /\ outBytes' = 0

CpuOpen(t) == Cpu(t, {}) /\ CpuReleaseOwned /\ isOpen' = TRUE /\ UNCHANGED callVars

CpuClose(t) == Cpu(t, {}) /\ CpuReleaseOwned /\ isOpen' = FALSE /\ UNCHANGED callVars

CpuFits(n) == n <= DeviceBytes /\ n <= DeviceBytes - outBytes

CpuAllocate(t, b) ==
    /\ Cpu(t, {}) /\ isOpen /\ DriverMake(b, "device") /\ CpuFits(size'[b])
    /\ record' = [record EXCEPT ![b] = "device"] /\ outBytes' = outBytes + size'[b]
    /\ UNCHANGED <<isOpen, callVars>>

CpuFree(t, b) ==
    /\ Cpu(t, {}) /\ isOpen /\ b \in Recorded
    /\ outBytes' = outBytes - size[b] /\ DriverDestroy({b})
    /\ record' = [record EXCEPT ![b] = "none"]
    /\ UNCHANGED <<isOpen, callVars>>

CpuCreate(t, o, stages) ==
    /\ Cpu(t, stages) /\ isOpen /\ o \notin Buffers
    /\ \E cls \in ClassOf(o) : DriverMake(o, cls)
    /\ record' = [record EXCEPT ![o] = driver'[o]]
    /\ helper' = [helper EXCEPT ![t] = HelperAfter(t, TRUE)]
    /\ helperStream' = [helperStream EXCEPT ![t] = IF helper[t] = "none" THEN NoObject ELSE o]
    /\ UNCHANGED <<isOpen, outBytes, pc, obj, awaits>>

CpuCreateStream(t, s) == CpuCreate(t, s, {"create"})
CpuCreateEvent(t, e) == CpuCreate(t, e, {})

CpuDestroy(t, o, stages) ==
    /\ Cpu(t, stages) /\ OnStream(t, o) /\ o \in Recorded
    /\ DriverDestroy({o}) /\ record' = [record EXCEPT ![o] = "none"]
    /\ Return(t, TRUE) /\ UNCHANGED <<isOpen, outBytes>>

CpuDestroyStream(t, s) == CpuDestroy(t, s, {"destroy", "cleanup"})
CpuDestroyEvent(t, e) == CpuDestroy(t, e, {})

CpuKnown(s) == s = NoObject \/ s \in Recorded
OwnsRange(b, n) == record[b] \in {"device", "unified"} /\ n <= size[b]

\* The copy is over when the call returns: only a helper sees a difference.
CpuCopy(t, s, b, n) ==
    /\ Cpu(t, {"copy"}) /\ helper[t] = "copy" /\ OnStream(t, s) /\ isOpen /\ CpuKnown(s)
    /\ OwnsRange(b, n) /\ Return(t, TRUE) /\ UNCHANGED <<isOpen, record, driver, size, outBytes>>

CpuSyncStream(t, s) ==
    /\ Cpu(t, {"sync"}) /\ helper[t] = "sync" /\ OnStream(t, s) /\ isOpen /\ CpuKnown(s)
    /\ Return(t, TRUE) /\ UNCHANGED <<isOpen, record, driver, size, outBytes>>

-----------------------------------------------------------------------------
(* CUDA backend.                                                           *)

Cuda(t, stages) ==
    /\ backend = "cuda" /\ Calls(t, stages) /\ isOpen /\ UNCHANGED <<backend, isOpen, outBytes>>

\* An error from the driver is noted (last_error) under mu, by a call
\* that does not hold it.
CudaFails(t) == Continue(t, "failed", NoObject)

\* Defect: check() is called while mu is held, and never gets it.
CudaCheckHolding(t) ==
    /\ backend = "cuda" /\ pc[t] = "failed" /\ MuFree /\ UNCHANGED dvars

CudaCheck(t) ==
    /\ backend = "cuda" /\ pc[t] = "failed" /\ MuFree
    /\ Return(t, FALSE)
    /\ UNCHANGED <<backend, isOpen, ledgerVars, streamVars>>

\* The driver makes the object; the ledger learns of it in a step of its own.
CudaAcquire(t, o, cls, stages) ==
    /\ Cuda(t, stages) /\ UNCHANGED <<record, leaked, streamVars>>
    /\ \/ DriverMake(o, cls) /\ Continue(t, "made", o)
       \/ driver[o] = "none" /\ CudaFails(t) /\ UNCHANGED <<driver, size>>

CudaAllocate(t, b) == CudaAcquire(t, b, "device", {})
CudaAllocatePinned(t, b) == CudaAcquire(t, b, "pinned", {})
CudaAllocateUnified(t, b) == CudaAcquire(t, b, "unified", {})
CudaCreateStream(t, s) == CudaAcquire(t, s, "stream", {"create"})

\* Defect: the event is made with the call that makes streams.
CudaCreateEventAsStream(t, e) == CudaAcquire(t, e, "stream", {})

CudaCreateEvent(t, e) == CudaAcquire(t, e, "event", {})

\* emplace, or the undo when it throws; the undo ignores the driver's error.
CudaRecord(t) ==
    /\ backend = "cuda" /\ pc[t] = "made" /\ MuFree
    /\ \/ /\ record' = [record EXCEPT ![obj[t]] = driver[obj[t]]]
          /\ Return(t, TRUE) /\ UNCHANGED <<driver, size, leaked>>
       \/ /\ DriverDestroy({obj[t]}) /\ Return(t, FALSE) /\ UNCHANGED <<record, leaked>>
       \/ /\ leaked' = leaked \cup {obj[t]} /\ Return(t, FALSE)
          /\ UNCHANGED <<record, driver, size>>
    /\ UNCHANGED <<backend, isOpen, outBytes, streamVars>>

\* The record of memory is dropped only if the driver freed it.
CudaFreeMemory(t, b, cls) ==
    /\ Cuda(t, {}) /\ MuFree /\ record[b] = cls /\ UNCHANGED <<leaked, streamVars>>
    /\ \/ DriverDestroy({b}) /\ record' = [record EXCEPT ![b] = "none"] /\ Return(t, TRUE)
       \/ CudaFails(t) /\ UNCHANGED <<driver, size, record>>

CudaFree(t, b) == CudaFreeMemory(t, b, "device")
CudaFreePinned(t, b) == CudaFreeMemory(t, b, "pinned")
CudaFreeUnified(t, b) == CudaFreeMemory(t, b, "unified")

\* The record of a stream or an event is dropped either way.
CudaDestroy(t, o, stages) ==
    /\ Cuda(t, stages) /\ OnStream(t, o) /\ MuFree /\ o \in Recorded \ Buffers
    /\ record' = [record EXCEPT ![o] = "none"] /\ UNCHANGED <<streamVars>>
    /\ \/ DriverDestroy({o}) /\ Return(t, TRUE) /\ UNCHANGED leaked
       \/ leaked' = leaked \cup {o} /\ CudaFails(t) /\ UNCHANGED <<driver, size>>

CudaDestroyStream(t, s) == CudaDestroy(t, s, {"destroy", "cleanup"})
CudaDestroyEvent(t, e) == CudaDestroy(t, e, {})

CudaKnown(s) == s = NoObject \/ s \in Recorded

\* Defect: any live pointer is accepted, whatever the length of the range.
CudaOwnsAnyLength(b, n) == record[b] \in {"device", "unified"}

CudaOwnsRange(b, n) == record[b] \in {"device", "unified"} /\ n <= size[b]

\* The ranges are looked up and the copy handed over under one hold of mu.
CudaCopy(t, s, bs, n) ==
    /\ Cuda(t, {"copy"}) /\ OnStream(t, s) /\ MuFree
    /\ (\A b \in bs : CudaOwnsRange(b, n)) /\ CudaKnown(s) /\ Cardinality(pend) < MaxWork
    /\ UNCHANGED <<record, driver, size, leaked, recorded>>
    /\ \/ /\ pend' = pend \cup {[stream |-> s, buf |-> b, bytes |-> n,
                                 by |-> IF helper[t] = "none" THEN NoObject ELSE t] : b \in bs}
          /\ Return(t, TRUE)
       \/ CudaFails(t) /\ UNCHANGED pend

CudaCopyH2D(t, s, b, n) == CudaCopy(t, s, {b}, n)
CudaCopyD2H(t, s, b, n) == CudaCopy(t, s, {b}, n)
CudaCopyD2D(t, s, b, c, n) == helper[t] = "none" /\ CudaCopy(t, s, {b, c}, n)

CudaSyncStream(t, s) ==
    /\ Cuda(t, {"sync"}) /\ OnStream(t, s) /\ MuFree /\ CudaKnown(s)
    /\ WaitFor(t, "waiting", Work(s))
    /\ UNCHANGED <<record, driver, size, leaked, streamVars>>

\* sync_all waits without mu.
CudaSyncAll(t) ==
    /\ Cuda(t, {}) /\ WaitFor(t, "draining", pend)
    /\ UNCHANGED <<record, driver, size, leaked, streamVars>>

CudaWaitEvent(t, e) ==
    /\ Cuda(t, {}) /\ MuFree /\ e \in Recorded /\ WaitFor(t, "waiting", recorded[e])
    /\ UNCHANGED <<record, driver, size, leaked, streamVars>>

CudaWaitOver(t) ==
    /\ backend = "cuda" /\ pc[t] \in {"waiting", "draining"} /\ awaits[t] = {} /\ Return(t, TRUE)
    /\ UNCHANGED <<backend, isOpen, ledgerVars, streamVars>>

CudaWaitFails(t) ==
    /\ backend = "cuda" /\ pc[t] \in {"waiting", "draining"} /\ DropWork
    /\ pc' = [pc EXCEPT ![t] = "failed"] /\ awaits' = [u \in Callers |-> {}]
    /\ UNCHANGED <<backend, isOpen, ledgerVars, obj, helper, helperStream>>

CudaRecordEvent(t, e, s) ==
    /\ Cuda(t, {}) /\ MuFree /\ e \in Recorded /\ CudaKnown(s)
    /\ UNCHANGED <<record, driver, size, leaked, pend>>
    /\ \/ recorded' = [recorded EXCEPT ![e] = Work(s)] /\ UNCHANGED callVars
       \/ CudaFails(t) /\ UNCHANGED recorded

\* The time of an event that has not happened yet is an error of the driver.
CudaElapsed(t, e) ==
    /\ Cuda(t, {}) /\ MuFree /\ e \in Recorded /\ recorded[e] # {} /\ CudaFails(t)
    /\ UNCHANGED <<record, driver, size, leaked, streamVars>>

\* Defect: close does not wait for the calls that hold lifecycle_mu shared.
CloseAloneNever == TRUE

CloseAlone == NoCallInside

\* close_locked: the ledgers are emptied first, then every object is released.
CudaCloseLocked ==
    \E failed \in SUBSET Recorded :
        /\ record' = [o \in Objects |-> "none"] /\ leaked' = leaked \cup failed /\ DropWork
        /\ driver' = [o \in Objects |-> IF o \in Recorded \ failed THEN "none" ELSE driver[o]]
        /\ size' = [b \in Buffers |-> IF b \in Recorded \ failed THEN 0 ELSE size[b]]

CudaClose(t) ==
    /\ backend = "cuda" /\ Calls(t, {}) /\ CloseAlone /\ isOpen
    /\ CudaCloseLocked /\ isOpen' = FALSE
    /\ UNCHANGED <<backend, outBytes, callVars>>

\* open() of an open backend is a close and this.
CudaOpen(t) ==
    /\ backend = "cuda" /\ Calls(t, {}) /\ CloseAlone
    /\ ~isOpen /\ isOpen' = TRUE
    /\ UNCHANGED <<backend, ledgerVars, streamVars, callVars>>

-----------------------------------------------------------------------------
(* HIP backend: no ledger, no lock, and only open, close and the queries   *)
(* look at `isOpen`.                                                       *)

Hip(t, stages) ==
    /\ backend = "hip" /\ Calls(t, stages)
    /\ UNCHANGED <<backend, record, leaked, outBytes>>

HipOpen(t) ==
    /\ Hip(t, {}) /\ ~isOpen /\ isOpen' = TRUE
    /\ UNCHANGED <<driver, size, streamVars, callVars>>

\* Synchronizes and forgets the device; the memory stays with the driver.
HipClose(t) ==
    /\ Hip(t, {}) /\ isOpen /\ pend = {} /\ isOpen' = FALSE
    /\ UNCHANGED <<driver, size, streamVars, callVars>>

HipAcquire(t, o, cls, stages) ==
    /\ Hip(t, stages) /\ DriverMake(o, cls) /\ UNCHANGED <<isOpen, streamVars, pc, obj, awaits>>
    /\ helper' = [helper EXCEPT ![t] = HelperAfter(t, TRUE)]
    /\ helperStream' = [helperStream EXCEPT ![t] = IF helper[t] = "none" THEN NoObject ELSE o]

HipAllocate(t, b) == HipAcquire(t, b, "device", {})
HipAllocatePinned(t, b) == HipAcquire(t, b, "pinned", {})
HipAllocateUnified(t, b) == HipAcquire(t, b, "unified", {})
HipCreateStream(t, s) == HipAcquire(t, s, "stream", {"create"})
HipCreateEvent(t, e) == HipAcquire(t, e, "event", {})

HipRelease(t, o, stages) ==
    /\ Hip(t, stages) /\ OnStream(t, o) /\ o \in Held /\ UNCHANGED <<isOpen, streamVars>>
    /\ DriverDestroy({o}) /\ Return(t, TRUE)

HipFree(t, b) == HipRelease(t, b, {})
HipDestroyStream(t, s) == HipRelease(t, s, {"destroy", "cleanup"})
HipDestroyEvent(t, e) == HipRelease(t, e, {})

HipCopy(t, s, b, n) ==
    /\ Hip(t, {"copy"}) /\ OnStream(t, s) /\ b \in Held /\ n <= size[b]
    /\ s = NoObject \/ s \in Held
    /\ Cardinality(pend) < MaxWork
    /\ pend' = pend \cup {[stream |-> s, buf |-> b, bytes |-> n,
                            by |-> IF helper[t] = "none" THEN NoObject ELSE t]}
    /\ Return(t, TRUE) /\ UNCHANGED <<isOpen, driver, size, recorded>>

\* A caller blocks until the stream, or the event, is done; nothing is locked.
\* Only a helper sees a wait that succeeds.
HipSyncStream(t, s) ==
    /\ Hip(t, {"sync"}) /\ OnStream(t, s) /\ UNCHANGED <<isOpen, driver, size>>
    /\ \/ helper[t] = "sync" /\ Work(s) = {} /\ Return(t, TRUE) /\ UNCHANGED streamVars
       \/ Return(t, FALSE) /\ DropWork

HipWaitEvent(t, e) ==
    /\ Hip(t, {}) /\ e \in Held /\ Return(t, FALSE) /\ DropWork
    /\ UNCHANGED <<isOpen, driver, size>>

HipRecordEvent(t, e, s) ==
    /\ Hip(t, {}) /\ e \in Held /\ (s = NoObject \/ s \in Held)
    /\ recorded' = [recorded EXCEPT ![e] = Work(s)]
    /\ UNCHANGED <<isOpen, driver, size, pend, callVars>>

-----------------------------------------------------------------------------
AnyStream == Streams \cup {NoObject}

CpuNext(t) ==
    \/ CpuOpen(t) \/ CpuClose(t)
    \/ \E b \in Buffers : CpuAllocate(t, b) \/ CpuFree(t, b)
    \/ \E s \in Streams : CpuCreateStream(t, s) \/ CpuDestroyStream(t, s)
    \/ \E e \in Events : CpuCreateEvent(t, e) \/ CpuDestroyEvent(t, e)
    \/ \E s \in AnyStream : CpuSyncStream(t, s)
    \/ \E s \in AnyStream, b \in Buffers, n \in AllocBytes : CpuCopy(t, s, b, n)

CudaNext(t) ==
    \/ CudaOpen(t) \/ CudaClose(t) \/ CudaRecord(t) \/ CudaCheck(t)
    \/ CudaSyncAll(t) \/ CudaWaitOver(t) \/ CudaWaitFails(t)
    \/ \E b \in GpuBuffers : CudaAllocate(t, b) \/ CudaAllocatePinned(t, b) \/ CudaAllocateUnified(t, b)
    \/ \E b \in GpuBuffers : CudaFree(t, b) \/ CudaFreePinned(t, b) \/ CudaFreeUnified(t, b)
    \/ \E s \in Streams : CudaCreateStream(t, s) \/ CudaDestroyStream(t, s)
    \/ \E e \in Events :
           CudaCreateEvent(t, e) \/ CudaDestroyEvent(t, e) \/ CudaWaitEvent(t, e) \/ CudaElapsed(t, e)
    \/ \E e \in Events, s \in AnyStream : CudaRecordEvent(t, e, s)
    \/ \E s \in AnyStream : CudaSyncStream(t, s)
    \/ \E s \in AnyStream, b \in GpuBuffers, n \in AllocBytes :
           CudaCopyH2D(t, s, b, n) \/ CudaCopyD2H(t, s, b, n)
    \/ \E s \in AnyStream, b, c \in GpuBuffers, n \in AllocBytes : CudaCopyD2D(t, s, b, c, n)

HipNext(t) ==
    \/ HipOpen(t) \/ HipClose(t)
    \/ \E b \in GpuBuffers : HipAllocate(t, b) \/ HipAllocatePinned(t, b) \/ HipAllocateUnified(t, b)
    \/ \E b \in GpuBuffers : HipFree(t, b)
    \/ \E s \in Streams : HipCreateStream(t, s) \/ HipDestroyStream(t, s)
    \/ \E e \in Events : HipCreateEvent(t, e) \/ HipDestroyEvent(t, e) \/ HipWaitEvent(t, e)
    \/ \E e \in Events, s \in AnyStream : HipRecordEvent(t, e, s)
    \/ \E s \in AnyStream : HipSyncStream(t, s)
    \/ \E s \in AnyStream, b \in GpuBuffers, n \in AllocBytes : HipCopy(t, s, b, n)

DNext ==
    \/ DriverFinishes
    \/ \E t \in Callers : CopySync(t) \/ HelperRefused(t) \/ CpuNext(t) \/ CudaNext(t) \/ HipNext(t)

DSpec == DInit /\ [][DNext]_dvars

\* The driver finishes its work, a caller runs on, and a mutex is granted to
\* a caller that keeps asking for it.
DeviceFairness ==
    /\ WF_dvars(DriverFinishes)
    /\ \A t \in Callers :
           /\ WF_dvars(CudaWaitOver(t))
           /\ SF_dvars(CudaRecord(t) \/ CudaCheck(t))

DFairSpec == DSpec /\ DeviceFairness

-----------------------------------------------------------------------------
WorkItems == [stream : AnyStream, buf : Buffers, bytes : AllocBytes, by : Callers \cup {NoObject}]

\* Every handle is recorded under its own class, the events and the waiting calls
\* refer to copies that exist, and allocated_bytes_ stays within what can be live.
DTypeOK ==
    /\ isOpen \in BOOLEAN
    /\ \A o \in Objects : {record[o], driver[o]} \subseteq ClassOf(o) \cup {"none"}
    /\ size \in [Buffers -> 0 .. DeviceBytes] /\ leaked \subseteq Held
    /\ outBytes \in 0 .. DeviceBytes * Cardinality(Buffers)
    /\ pend \subseteq WorkItems /\ recorded \in [Events -> SUBSET pend]
    /\ awaits \in [Callers -> SUBSET pend]
    /\ pc \in [Callers -> {"idle", "made", "failed", "waiting", "draining"}]
    /\ obj \in [Callers -> Objects \cup {NoObject}]
    /\ helper \in [Callers -> {"none"} \cup DOMAIN HelperNext]
    /\ helperStream \in [Callers -> AnyStream]

Ledgered == backend \in {"cpu", "cuda"}
Making == {obj[t] : t \in {u \in Callers : pc[u] = "made"}}

\* Whatever the driver holds is in exactly one of: the backend's ledgers, the
\* hands of the call that is about to record it, or the objects whose release
\* failed after their record was dropped; and a ledger names nothing else.  So a
\* closed backend holds nothing but the latter: close() sees the objects of every
\* call that was running when it was called.  CpuBackend::allocated_bytes_ is the
\* sum of the live allocations and stays within the emulated device, so that
\* max_allocation_size - allocated_bytes_ never wraps.
LedgerExact ==
    /\ Ledgered =>
        /\ Held = Recorded \cup Making \cup leaked
        /\ Recorded \cap leaked = {} /\ Making \cap (Recorded \cup leaked) = {}
        /\ \A o \in Recorded : record[o] = driver[o]
        /\ ~isOpen => Held \subseteq leaked
    /\ backend = "cpu" =>
        outBytes = MapThenSumSet(LAMBDA b : size[b], Buffers) /\ outBytes <= DeviceBytes

\* A copy that the CUDA driver still has to do stays inside memory that it still
\* holds, whatever the other threads allocate and free meanwhile; and when
\* copy_host_to_device_sync or copy_device_to_host_sync is about to return
\* normally, its copy is over.
CopiesLand ==
    /\ backend = "cuda" =>
        \A w \in pend : driver[w.buf] \in {"device", "unified"} /\ w.bytes <= size[w.buf]
    /\ \A t \in Callers :
        helper[t] = "destroy" => \A w \in Work(helperStream[t]) : w.by # t

\* A call into the CUDA backend comes back: nothing waits for a mutex for ever,
\* although waits inside the driver are made while mu is held.
CallsReturn == \A t \in Callers : []<>(pc[t] = "idle")
=============================================================================
