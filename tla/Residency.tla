----------------------------- MODULE Residency ------------------------------
(***************************************************************************)
(* The page table of the runtime and the steps that move pages between     *)
(* device memory, host memory and the NVMe store (runtime.cpp).            *)
(*                                                                         *)
(* A thread (a caller of the public API or a transfer worker) runs one     *)
(* step function at a time: evict_vram_to_host, evict_host_to_nvme,        *)
(* load_nvme_to_host, promote_host_to_vram, allocate_page or free_page.    *)
(* One action is one critical section of state_mu_, or one copy that runs  *)
(* outside it.  An idle thread may call any step function on any page,     *)
(* which includes every order load_page, ensure_vram_headroom, demote_* and*)
(* evict can produce.  Sizes are in units of one page: every page takes    *)
(* one unit of a tier's budget and one extent of the store.                *)
(***************************************************************************)
EXTENDS PageStates, Integers, FiniteSets

CONSTANTS
    Pages,        \* page ids the runtime can hand out (never reused)
    Threads,      \* callers and transfer workers
    Values,       \* contents a caller may write to a page
    VramUsable,   \* device budget less its reserve, in pages
    HostUsable,   \* host budget, in pages
    NvmeExtents,  \* extents of the store; its budget is the same number
    Pinnable,     \* pages that callers pin
    Faults,       \* failures the environment may produce
    Garbage,      \* content of memory nobody has written, or a torn copy
    Null,         \* a null host_ptr or vram_ptr
    NoPage, NoThread, NoSum

\* "dropFree" is a device_free that throws in a clean drop: no state changes, and
\* module DemandPath has it end the operation.
FaultKinds ==
    {"deviceAlloc", "deviceFree", "hostFree", "d2h", "h2d", "nvmeRead",
     "nvmeWrite", "deviceWrite", "dropFree"}

Data == Values \cup {Garbage}
Extents == 0 .. NvmeExtents - 1
NoExtent == -1   \* PageMetadata::kInvalidOffset

ASSUME FiniteAssumption ==
    IsFiniteSet(Pages) /\ IsFiniteSet(Threads)

ASSUME SentinelAssumption ==
    /\ Garbage \notin Values
    /\ Null \notin Data
    /\ NoSum \notin Data
    /\ NoPage \notin Pages
    /\ NoThread \notin Threads

ASSUME BudgetAssumption ==
    VramUsable \in Nat /\ HostUsable \in Nat /\ NvmeExtents \in Nat

ASSUME EnvironmentAssumption ==
    Pinnable \subseteq Pages /\ Faults \subseteq FaultKinds

VARIABLES
    \* PageMetadata, one function per field.
    state, dirty, has_nvme_copy, in_flight, pinned, checksum, nvme_offset,
    vram,         \* vram_ptr: Null, or the content of the device memory
    host,         \* host_ptr: Null, or the content of the host buffer
    \* The store: what each extent holds, and the extents that are free.
    disk, free_list,
    \* vram_budget_.used(), host_.used(), nvme_budget_.used().
    vram_used, host_used, nvme_used,
    leaked,       \* host buffers whose free failed with no page to hold them
    issued,       \* ids below next_page_id_
    \* Threads: the step function a thread is in and its locals.
    pc, task, page, victim, victims, failed,
    headroom_mu,  \* owner of headroom_mu_
    \* History: pages whose last device write failed part-way, and pages whose
    \* device memory is still live after its reservation was released.
    torn, uncounted

entryVars == <<state, dirty, has_nvme_copy, in_flight, checksum, nvme_offset>>
memVars == <<vram, host, disk, free_list>>
budgetVars == <<vram_used, host_used, nvme_used, leaked>>
threadVars == <<pc, task, page, victim, victims, failed, headroom_mu>>
ghostVars == <<torn, uncounted>>
vars == <<entryVars, pinned, memVars, budgetVars, issued, threadVars, ghostVars>>

Labels ==
    {"idle",
     \* claim_host_buffer
     "hostBuf", "rank", "victims", "victimCheck", "haveBuf",
     \* the copies, each followed by its completion section
     "d2h", "d2hDone", "read", "readDone", "h2d", "h2dDone", "write",
     "writeDone",
     \* allocate_page
     "allocVram", "allocDev", "allocHost", "allocIns", "allocNvme",
     \* free_page
     "freeVram", "freeVramBudget", "freeHost", "freeNvme", "freeNvmeEntry",
     "freeNvmeBudget", "freeEnd"}

Init ==
    /\ state = [p \in Pages |-> "Absent"]
    /\ dirty = [p \in Pages |-> FALSE]
    /\ has_nvme_copy = [p \in Pages |-> FALSE]
    /\ in_flight = [p \in Pages |-> FALSE]
    /\ pinned = [p \in Pages |-> FALSE]
    /\ checksum = [p \in Pages |-> NoSum]
    /\ nvme_offset = [p \in Pages |-> NoExtent]
    /\ vram = [p \in Pages |-> Null]
    /\ host = [p \in Pages |-> Null]
    /\ disk = [e \in Extents |-> Garbage]
    /\ free_list = Extents
    /\ vram_used = 0 /\ host_used = 0 /\ nvme_used = 0 /\ leaked = 0
    /\ issued = {}
    /\ pc = [t \in Threads |-> "idle"]
    /\ task = [t \in Threads |-> "none"]
    /\ page = [t \in Threads |-> NoPage]
    /\ victim = [t \in Threads |-> NoPage]
    /\ victims = [t \in Threads |-> {}]
    /\ failed = [t \in Threads |-> FALSE]
    /\ headroom_mu = NoThread
    /\ torn = {} /\ uncounted = {}

-----------------------------------------------------------------------------
(* Thread control.                                                         *)

\* Thread t moves to another label of the function it is in.
Goto(t, label) ==
    /\ pc' = [pc EXCEPT ![t] = label]
    /\ UNCHANGED <<task, page, victim, victims, failed, headroom_mu>>

\* An idle thread enters a step function on page p.
Call(t, p, fn, label) ==
    /\ pc[t] = "idle"
    /\ pc' = [pc EXCEPT ![t] = label]
    /\ task' = [task EXCEPT ![t] = fn]
    /\ page' = [page EXCEPT ![t] = p]
    /\ UNCHANGED <<victim, victims, failed, headroom_mu>>

\* Defect: an exception leaves headroom_mu_ locked.
ReturnKeepsLock(t) ==
    /\ pc' = [pc EXCEPT ![t] = "idle"]
    /\ task' = [task EXCEPT ![t] = "none"]
    /\ page' = [page EXCEPT ![t] = NoPage]
    /\ victim' = [victim EXCEPT ![t] = NoPage]
    /\ victims' = [victims EXCEPT ![t] = {}]
    /\ failed' = [failed EXCEPT ![t] = FALSE]
    /\ UNCHANGED headroom_mu

\* The outermost step function of t returns or throws: its locals are gone
\* and the headroom lock, if t held it, is released.
Return(t) ==
    /\ pc' = [pc EXCEPT ![t] = "idle"]
    /\ task' = [task EXCEPT ![t] = "none"]
    /\ page' = [page EXCEPT ![t] = NoPage]
    /\ victim' = [victim EXCEPT ![t] = NoPage]
    /\ victims' = [victims EXCEPT ![t] = {}]
    /\ failed' = [failed EXCEPT ![t] = FALSE]
    /\ headroom_mu' = IF headroom_mu = t THEN NoThread ELSE headroom_mu

Claimable(p, from) == state[p] = from /\ ~in_flight[p]

\* Claim p for a transfer: in_flight and the state change in one section.
Claim(p, to) ==
    /\ state' = [state EXCEPT ![p] = to]
    /\ in_flight' = [in_flight EXCEPT ![p] = TRUE]

\* Defect: the completion forgets in_flight.
SettleStateOnly(p, to) ==
    /\ state' = [state EXCEPT ![p] = to]
    /\ UNCHANGED in_flight

\* End a transfer of p in state `to`.
Settle(p, to) ==
    /\ state' = [state EXCEPT ![p] = to]
    /\ in_flight' = [in_flight EXCEPT ![p] = FALSE]

-----------------------------------------------------------------------------
(* claim_host_buffer: called by evict_vram_to_host and load_nvme_to_host   *)
(* before they claim their page.  The 64 rounds are abstracted: a caller   *)
(* may give up at the head of any round.                                   *)

EvictVramToHost(t, p) ==
    /\ state[p] # "Absent"
    /\ Call(t, p, "evict_vram_to_host", "hostBuf")
    /\ UNCHANGED <<entryVars, pinned, memVars, budgetVars, issued, ghostVars>>

LoadNvmeToHost(t, p) ==
    /\ state[p] # "Absent"
    /\ Call(t, p, "load_nvme_to_host", "hostBuf")
    /\ UNCHANGED <<entryVars, pinned, memVars, budgetVars, issued, ghostVars>>

\* host_.allocate succeeds.
HostBufAllocate(t) ==
    /\ pc[t] = "hostBuf"
    /\ headroom_mu = NoThread
    /\ host_used < HostUsable
    /\ host_used' = host_used + 1
    /\ Goto(t, "haveBuf")
    /\ UNCHANGED <<entryVars, pinned, memVars, vram_used, nvme_used, leaked,
                   issued, ghostVars>>

\* host_.allocate returns null: keep headroom_mu_ and look for a victim.
HostBufFull(t) ==
    /\ pc[t] = "hostBuf"
    /\ headroom_mu = NoThread
    /\ host_used >= HostUsable
    /\ headroom_mu' = t
    /\ pc' = [pc EXCEPT ![t] = "rank"]
    /\ UNCHANGED <<entryVars, pinned, memVars, budgetVars, issued, task, page,
                   victim, victims, failed, ghostVars>>

\* Host victims for a buffer that page p needs.
HostCandidates(p) ==
    {v \in Pages \ {p} : Claimable(v, "ResidentHost") /\ ~pinned[v]}

\* The snapshot of the candidates.  The policy's order depends on access
\* history that is not modelled: victims are tried in any order.
HostBufRank(t) ==
    /\ pc[t] = "rank"
    /\ victims' = [victims EXCEPT ![t] = HostCandidates(page[t])]
    /\ pc' = [pc EXCEPT ![t] = "victims"]
    /\ UNCHANGED <<entryVars, pinned, memVars, budgetVars, issued, task, page,
                   victim, failed, headroom_mu, ghostVars>>

\* The state of the victim is read again after its eviction was attempted.
\* It was evicted: leave the lock and retry the allocation.  It was not: try
\* the next one.  It was freed meanwhile: copy_of throws.
VictimCheck(t) ==
    /\ pc[t] = "victimCheck"
    /\ \/ /\ state[victim[t]] = "Absent"
          /\ Return(t)
       \/ /\ state[victim[t]] = "ResidentNvme"
          /\ pc' = [pc EXCEPT ![t] = "hostBuf"]
          /\ victim' = [victim EXCEPT ![t] = NoPage]
          /\ victims' = [victims EXCEPT ![t] = {}]
          /\ headroom_mu' = NoThread
          /\ UNCHANGED <<task, page, failed>>
       \/ /\ state[victim[t]] \notin {"Absent", "ResidentNvme"}
          /\ pc' = [pc EXCEPT ![t] = "victims"]
          /\ victim' = [victim EXCEPT ![t] = NoPage]
          /\ UNCHANGED <<task, page, victims, failed, headroom_mu>>
    /\ UNCHANGED <<entryVars, pinned, memVars, budgetVars, issued, ghostVars>>

\* No victim left: leave the lock, wait for a transfer to settle, retry.
HostBufRetry(t) ==
    /\ pc[t] = "victims"
    /\ victims[t] = {}
    /\ pc' = [pc EXCEPT ![t] = "hostBuf"]
    /\ headroom_mu' = NoThread
    /\ UNCHANGED <<entryVars, pinned, memVars, budgetVars, issued, task, page,
                   victim, victims, failed, ghostVars>>

\* The rounds are used up, or shutdown was requested: Budget or Cancelled.
HostBufGiveUp(t) ==
    /\ pc[t] = "hostBuf"
    /\ Return(t)
    /\ UNCHANGED <<entryVars, pinned, memVars, budgetVars, issued, ghostVars>>

\* The state in which the task of t can use the buffer.
SourceState(t) ==
    IF task[t] = "evict_vram_to_host" THEN "ResidentVram" ELSE "ResidentNvme"

\* The page is busy, moved or gone once the buffer is there: the buffer is
\* freed and the step is a no-op (or throws NotFound).
HostBufUnused(t) ==
    /\ pc[t] = "haveBuf"
    /\ ~Claimable(page[t], SourceState(t))
    /\ \/ /\ host_used' = host_used - 1
          /\ UNCHANGED leaked
       \/ /\ "hostFree" \in Faults
          /\ leaked' = leaked + 1
          /\ UNCHANGED host_used
    /\ Return(t)
    /\ UNCHANGED <<entryVars, pinned, memVars, vram_used, nvme_used, issued,
                   ghostVars>>

-----------------------------------------------------------------------------
(* evict_vram_to_host, once it has its buffer.                             *)

EvictVramClaim(t) ==
    /\ pc[t] = "haveBuf"
    /\ task[t] = "evict_vram_to_host"
    /\ Claimable(page[t], "ResidentVram")
    /\ Claim(page[t], "EvictingToHost")
    /\ host' = [host EXCEPT ![page[t]] = Garbage]
    /\ Goto(t, "d2h")
    /\ UNCHANGED <<dirty, has_nvme_copy, checksum, nvme_offset, pinned, vram,
                   disk, free_list, budgetVars, issued, ghostVars>>

EvictVramCopy(t) ==
    /\ pc[t] = "d2h"
    /\ host' = [host EXCEPT ![page[t]] = vram[page[t]]]
    /\ Goto(t, "d2hDone")
    /\ UNCHANGED <<entryVars, pinned, vram, disk, free_list, budgetVars, issued,
                   ghostVars>>

\* The copy throws.  When freeing the buffer throws as well, the handler is
\* left before it settles the page.
EvictVramCopyFails(t) ==
    /\ pc[t] = "d2h"
    /\ "d2h" \in Faults
    /\ \/ /\ host' = [host EXCEPT ![page[t]] = Null]
          /\ host_used' = host_used - 1
          /\ Settle(page[t], "Error")
       \/ /\ "hostFree" \in Faults
          /\ UNCHANGED <<host, host_used, state, in_flight>>
    /\ Return(t)
    /\ UNCHANGED <<dirty, has_nvme_copy, checksum, nvme_offset, pinned, vram,
                   disk, free_list, vram_used, nvme_used, leaked, issued,
                   ghostVars>>

EvictVramDone(t) ==
    /\ pc[t] = "d2hDone"
    /\ \/ /\ vram' = [vram EXCEPT ![page[t]] = Null]
          /\ vram_used' = vram_used - 1
          /\ Settle(page[t], "ResidentHost")
       \/ /\ "deviceFree" \in Faults
          /\ UNCHANGED <<vram, vram_used, state, in_flight>>
    /\ Return(t)
    /\ UNCHANGED <<dirty, has_nvme_copy, checksum, nvme_offset, pinned, host,
                   disk, free_list, host_used, nvme_used, leaked, issued,
                   ghostVars>>

-----------------------------------------------------------------------------
(* load_nvme_to_host, once it has its buffer.                              *)

LoadClaim(t) ==
    /\ pc[t] = "haveBuf"
    /\ task[t] = "load_nvme_to_host"
    /\ Claimable(page[t], "ResidentNvme")
    /\ Claim(page[t], "LoadingToHost")
    /\ host' = [host EXCEPT ![page[t]] = Garbage]
    /\ Goto(t, "read")
    /\ UNCHANGED <<dirty, has_nvme_copy, checksum, nvme_offset, pinned, vram,
                   disk, free_list, budgetVars, issued, ghostVars>>

LoadRead(t) ==
    /\ pc[t] = "read"
    /\ host' = [host EXCEPT ![page[t]] = disk[nvme_offset[page[t]]]]
    /\ Goto(t, "readDone")
    /\ UNCHANGED <<entryVars, pinned, vram, disk, free_list, budgetVars, issued,
                   ghostVars>>

\* The read fails, or is cancelled by shutdown.
LoadReadFails(t) ==
    /\ pc[t] = "read"
    /\ "nvmeRead" \in Faults
    /\ \/ /\ host' = [host EXCEPT ![page[t]] = Null]
          /\ host_used' = host_used - 1
          /\ Settle(page[t], "Error")
       \/ /\ "hostFree" \in Faults
          /\ UNCHANGED <<host, host_used, state, in_flight>>
    /\ Return(t)
    /\ UNCHANGED <<dirty, has_nvme_copy, checksum, nvme_offset, pinned, vram,
                   disk, free_list, vram_used, nvme_used, leaked, issued,
                   ghostVars>>

LoadDone(t) ==
    /\ pc[t] = "readDone"
    /\ Settle(page[t], "ResidentHost")
    /\ Return(t)
    /\ UNCHANGED <<dirty, has_nvme_copy, checksum, nvme_offset, pinned, memVars,
                   budgetVars, issued, ghostVars>>

-----------------------------------------------------------------------------
(* promote_host_to_vram.  No headroom, a busy page or a failed device      *)
(* allocation leave everything as it was.                                  *)

PromoteHostToVram(t, p) ==
    /\ Claimable(p, "ResidentHost")
    /\ vram_used < VramUsable
    /\ vram_used' = vram_used + 1
    /\ vram' = [vram EXCEPT ![p] = Garbage]
    /\ Claim(p, "LoadingToVram")
    /\ Call(t, p, "promote_host_to_vram", "h2d")
    /\ UNCHANGED <<dirty, has_nvme_copy, checksum, nvme_offset, pinned, host,
                   disk, free_list, host_used, nvme_used, leaked, issued,
                   ghostVars>>

PromoteCopy(t) ==
    /\ pc[t] = "h2d"
    /\ vram' = [vram EXCEPT ![page[t]] = host[page[t]]]
    /\ Goto(t, "h2dDone")
    /\ UNCHANGED <<entryVars, pinned, host, disk, free_list, budgetVars, issued,
                   ghostVars>>

\* The reservation is released before the device memory: when device_free
\* throws, the memory stays live, uncounted, and the page is not settled.
PromoteCopyFails(t) ==
    /\ pc[t] = "h2d"
    /\ "h2d" \in Faults
    /\ vram_used' = vram_used - 1
    /\ \/ /\ vram' = [vram EXCEPT ![page[t]] = Null]
          /\ Settle(page[t], "Error")
          /\ UNCHANGED uncounted
       \/ /\ "deviceFree" \in Faults
          /\ uncounted' = uncounted \cup {page[t]}
          /\ UNCHANGED <<vram, state, in_flight>>
    /\ Return(t)
    /\ UNCHANGED <<dirty, has_nvme_copy, checksum, nvme_offset, pinned, host,
                   disk, free_list, host_used, nvme_used, leaked, issued, torn>>

PromoteDone(t) ==
    /\ pc[t] = "h2dDone"
    /\ \/ /\ host' = [host EXCEPT ![page[t]] = Null]
          /\ host_used' = host_used - 1
          /\ Settle(page[t], "ResidentVram")
       \/ /\ "hostFree" \in Faults
          /\ UNCHANGED <<host, host_used, state, in_flight>>
    /\ Return(t)
    /\ UNCHANGED <<dirty, has_nvme_copy, checksum, nvme_offset, pinned, vram,
                   disk, free_list, vram_used, nvme_used, leaked, issued,
                   ghostVars>>

-----------------------------------------------------------------------------
(* reserve_nvme_range_locked: an extent for page x, taken from the free    *)
(* list or, when the store is full, from the resident page with the lowest *)
(* offset.  With one extent per page one reclaimed page is always enough.  *)

CanReserve == free_list # {} /\ nvme_used < NvmeExtents

Reclaimable(x) ==
    {q \in Pages \ {x} :
        /\ ~in_flight[q]
        /\ nvme_offset[q] # NoExtent
        /\ state[q] \in {"ResidentVram", "ResidentHost"}}

\* Defect: every page with a duplicate loses its extent, the budget of one.
ReclaimedAll(x) == IF CanReserve THEN {} ELSE Reclaimable(x)

\* The pages that lose their extent for x.
Reclaimed(x) ==
    IF CanReserve THEN {}
    ELSE {q \in Reclaimable(x) :
            \A r \in Reclaimable(x) : nvme_offset[q] <= nvme_offset[r]}

ReserveFails(x) == ~CanReserve /\ Reclaimable(x) = {}

\* Defect: a reclaimed page keeps its nvme_offset.
ReserveNvmeRangeKeepsOffset(x, e) ==
    /\ CanReserve \/ Reclaimable(x) # {}
    /\ LET taken == Reclaimed(x)
           available == free_list \cup {nvme_offset[q] : q \in taken}
       IN  /\ e \in available
           /\ free_list' = available \ {e}
           /\ nvme_used' = IF taken = {} THEN nvme_used + 1 ELSE nvme_used
           /\ nvme_offset' = [nvme_offset EXCEPT ![x] = e]
           /\ has_nvme_copy' =
                [q \in Pages |-> has_nvme_copy[q] /\ q \notin taken]

ReserveNvmeRange(x, e) ==
    /\ CanReserve \/ Reclaimable(x) # {}
    /\ LET taken == Reclaimed(x)
           available == free_list \cup {nvme_offset[q] : q \in taken}
       IN  /\ e \in available
           /\ free_list' = available \ {e}
           /\ nvme_used' = IF taken = {} THEN nvme_used + 1 ELSE nvme_used
           /\ nvme_offset' =
                [q \in Pages |-> IF q = x THEN e
                                 ELSE IF q \in taken THEN NoExtent
                                 ELSE nvme_offset[q]]
           /\ has_nvme_copy' =
                [q \in Pages |-> has_nvme_copy[q] /\ q \notin taken]

-----------------------------------------------------------------------------
(* evict_host_to_nvme: called by a thread of its own, or by                *)
(* claim_host_buffer on one of its victims.                                *)

\* Thread t enters evict_host_to_nvme(p) and continues at `label`.
CallEvictHost(t, p, label) ==
    \/ Call(t, p, "evict_host_to_nvme", label)
    \/ /\ pc[t] = "victims"
       /\ p \in victims[t]
       /\ pc' = [pc EXCEPT ![t] = label]
       /\ victim' = [victim EXCEPT ![t] = p]
       /\ victims' = [victims EXCEPT ![t] = @ \ {p}]
       /\ UNCHANGED <<task, page, failed, headroom_mu>>

\* The page evict_host_to_nvme works on in thread t.
WritePageOf(t) == IF victim[t] # NoPage THEN victim[t] ELSE page[t]

\* Defects: a page that was never stored, or was written since, is not written.
NeedWriteDirtyOnly(p) == dirty[p]
NeedWriteNeverStored(p) == nvme_offset[p] = NoExtent

NeedWrite(p) == dirty[p] \/ ~has_nvme_copy[p]

\* The page keeps the extent it has; it is written only if it has to be.
EvictHostClaim(t, p) ==
    /\ Claimable(p, "ResidentHost")
    /\ ~(NeedWrite(p) /\ nvme_offset[p] = NoExtent)
    /\ Claim(p, "EvictingToNvme")
    /\ CallEvictHost(t, p, IF NeedWrite(p) THEN "write" ELSE "writeDone")
    /\ UNCHANGED <<dirty, has_nvme_copy, checksum, nvme_offset, pinned, memVars,
                   budgetVars, issued, ghostVars>>

\* The page needs an extent first.
EvictHostReserve(t, p) ==
    /\ Claimable(p, "ResidentHost")
    /\ NeedWrite(p) /\ nvme_offset[p] = NoExtent
    /\ \E e \in Extents : ReserveNvmeRange(p, e)
    /\ Claim(p, "EvictingToNvme")
    /\ CallEvictHost(t, p, "write")
    /\ UNCHANGED <<dirty, checksum, pinned, vram, host, disk, vram_used,
                   host_used, leaked, issued, ghostVars>>

\* A victim that is busy or has moved is skipped.
EvictHostSkip(t, p) ==
    /\ pc[t] = "victims"
    /\ state[p] # "Absent"
    /\ ~Claimable(p, "ResidentHost")
    /\ CallEvictHost(t, p, "victimCheck")
    /\ UNCHANGED <<entryVars, pinned, memVars, budgetVars, issued, ghostVars>>

\* A victim that was freed (NotFound), or for which the store has no room
\* (Budget), fails the buffer claim it was meant to serve.
EvictHostThrows(t, p) ==
    /\ pc[t] = "victims"
    /\ p \in victims[t]
    /\ \/ state[p] = "Absent"
       \/ /\ Claimable(p, "ResidentHost")
          /\ NeedWrite(p) /\ nvme_offset[p] = NoExtent
          /\ ReserveFails(p)
    /\ Return(t)
    /\ UNCHANGED <<entryVars, pinned, memVars, budgetVars, issued, ghostVars>>

EvictHostWrite(t) ==
    LET p == WritePageOf(t) IN
    /\ pc[t] = "write"
    /\ disk' = [disk EXCEPT ![nvme_offset[p]] = host[p]]
    /\ Goto(t, "writeDone")
    /\ UNCHANGED <<entryVars, pinned, vram, host, free_list, budgetVars, issued,
                   ghostVars>>

\* The write fails or is cancelled: the extent may be torn, the page is lost
\* to Error, and the exception also ends the buffer claim it served.
EvictHostWriteFails(t) ==
    LET p == WritePageOf(t) IN
    /\ pc[t] = "write"
    /\ "nvmeWrite" \in Faults
    /\ \E d \in {disk[nvme_offset[p]], Garbage} :
            disk' = [disk EXCEPT ![nvme_offset[p]] = d]
    /\ Settle(p, "Error")
    /\ Return(t)
    /\ UNCHANGED <<dirty, has_nvme_copy, checksum, nvme_offset, pinned, vram,
                   host, free_list, budgetVars, issued, ghostVars>>

EvictHostDone(t) ==
    LET p == WritePageOf(t) IN
    /\ pc[t] = "writeDone"
    /\ \/ /\ host' = [host EXCEPT ![p] = Null]
          /\ host_used' = host_used - 1
          /\ dirty' = [dirty EXCEPT ![p] = FALSE]
          /\ has_nvme_copy' = [has_nvme_copy EXCEPT ![p] = TRUE]
          /\ Settle(p, "ResidentNvme")
          /\ IF victim[t] # NoPage THEN Goto(t, "victimCheck") ELSE Return(t)
       \/ /\ "hostFree" \in Faults
          /\ UNCHANGED <<host, host_used, dirty, has_nvme_copy, state, in_flight>>
          /\ Return(t)
    /\ UNCHANGED <<checksum, nvme_offset, pinned, vram, disk, free_list,
                   vram_used, nvme_used, leaked, issued, ghostVars>>

-----------------------------------------------------------------------------
(* allocate_page.  The tier is chosen in one critical section and used in  *)
(* later ones, by which time it may be full.                               *)

\* Planner::choose_allocation_tier.
ChooseAllocationTier ==
    IF vram_used < VramUsable THEN "allocVram"
    ELSE IF host_used < HostUsable THEN "allocHost"
    ELSE IF nvme_used < NvmeExtents THEN "allocNvme"
    ELSE "idle"

AllocatePage(t, p) ==
    /\ p \notin issued
    /\ issued' = issued \cup {p}
    /\ \E b \in IF p \in Pinnable THEN BOOLEAN ELSE {FALSE} :
            pinned' = [pinned EXCEPT ![p] = b]
    /\ IF ChooseAllocationTier = "idle"
       THEN pc[t] = "idle" /\ UNCHANGED threadVars
       ELSE Call(t, p, "allocate_page", ChooseAllocationTier)
    /\ UNCHANGED <<entryVars, memVars, budgetVars, ghostVars>>

\* The entry of p appears in the table in state `to`.
InsertEntry(p, to) == state' = [state EXCEPT ![p] = to]

\* ensure_vram_headroom throws or the reservation fails, or it is made.
AllocVramReserve(t) ==
    /\ pc[t] = "allocVram"
    /\ \/ /\ vram_used < VramUsable
          /\ vram_used' = vram_used + 1
          /\ Goto(t, "allocDev")
       \/ /\ UNCHANGED vram_used
          /\ Return(t)
    /\ UNCHANGED <<entryVars, pinned, memVars, host_used, nvme_used, leaked,
                   issued, ghostVars>>

AllocVramDevice(t) ==
    /\ pc[t] = "allocDev"
    /\ \/ /\ vram' = [vram EXCEPT ![page[t]] = Garbage]
          /\ InsertEntry(page[t], "ResidentVram")
          /\ UNCHANGED vram_used
       \/ /\ "deviceAlloc" \in Faults
          /\ vram_used' = vram_used - 1
          /\ UNCHANGED <<vram, state>>
    /\ Return(t)
    /\ UNCHANGED <<dirty, has_nvme_copy, in_flight, checksum, nvme_offset,
                   pinned, host, disk, free_list, host_used, nvme_used, leaked,
                   issued, ghostVars>>

AllocHostBuffer(t) ==
    /\ pc[t] = "allocHost"
    /\ \/ /\ host_used < HostUsable
          /\ host_used' = host_used + 1
          /\ Goto(t, "allocIns")
       \/ /\ host_used >= HostUsable
          /\ UNCHANGED host_used
          /\ Return(t)
    /\ UNCHANGED <<entryVars, pinned, memVars, vram_used, nvme_used, leaked,
                   issued, ghostVars>>

AllocHostInsert(t) ==
    /\ pc[t] = "allocIns"
    /\ host' = [host EXCEPT ![page[t]] = Garbage]
    /\ InsertEntry(page[t], "ResidentHost")
    /\ Return(t)
    /\ UNCHANGED <<dirty, has_nvme_copy, in_flight, checksum, nvme_offset,
                   pinned, vram, disk, free_list, budgetVars, issued, ghostVars>>

AllocNvme(t) ==
    /\ pc[t] = "allocNvme"
    /\ \/ /\ \E e \in Extents : ReserveNvmeRange(page[t], e)
          /\ InsertEntry(page[t], "ResidentNvme")
       \/ /\ ReserveFails(page[t])
          /\ UNCHANGED <<free_list, nvme_used, nvme_offset, has_nvme_copy, state>>
    /\ Return(t)
    /\ UNCHANGED <<dirty, in_flight, checksum, pinned, vram, host, disk,
                   vram_used, host_used, leaked, issued, ghostVars>>

-----------------------------------------------------------------------------
(* free_page.  The claim waits (is disabled) while a transfer or another   *)
(* release owns the page; an earlier release that failed may be retried.   *)

\* Defect: the release does not wait for a transfer of the page.
FreePageNoWait(t, p) ==
    /\ state[p] # "Absent"
    /\ Claim(p, "Released")
    /\ Call(t, p, "free_page", "freeVram")
    /\ UNCHANGED <<dirty, has_nvme_copy, checksum, nvme_offset, pinned, memVars,
                   budgetVars, issued, ghostVars>>

FreePage(t, p) ==
    /\ \/ state[p] \in Resident \cup {"Error"}
       \/ state[p] = "Released" /\ ~in_flight[p]
    /\ Claim(p, "Released")
    /\ Call(t, p, "free_page", "freeVram")
    /\ UNCHANGED <<dirty, has_nvme_copy, checksum, nvme_offset, pinned, memVars,
                   budgetVars, issued, ghostVars>>

\* Defect: the failure is not remembered, and the entry is erased.
ReleaseFailedIgnored(t, label) == Goto(t, label)

\* A resource of the page could not be released.
ReleaseFailed(t, label) ==
    /\ failed' = [failed EXCEPT ![t] = TRUE]
    /\ pc' = [pc EXCEPT ![t] = label]
    /\ UNCHANGED <<task, page, victim, victims, headroom_mu>>

FreeVram(t) ==
    /\ pc[t] = "freeVram"
    /\ \/ /\ vram[page[t]] = Null
          /\ Goto(t, "freeHost")
          /\ UNCHANGED vram
       \/ /\ vram[page[t]] # Null
          /\ vram' = [vram EXCEPT ![page[t]] = Null]
          /\ Goto(t, "freeVramBudget")
       \/ /\ vram[page[t]] # Null
          /\ "deviceFree" \in Faults
          /\ ReleaseFailed(t, "freeHost")
          /\ UNCHANGED vram
    /\ UNCHANGED <<entryVars, pinned, host, disk, free_list, budgetVars, issued,
                   ghostVars>>

FreeVramBudget(t) ==
    /\ pc[t] = "freeVramBudget"
    /\ vram_used' = vram_used - 1
    /\ Goto(t, "freeHost")
    /\ UNCHANGED <<entryVars, pinned, memVars, host_used, nvme_used, leaked,
                   issued, ghostVars>>

FreeHost(t) ==
    /\ pc[t] = "freeHost"
    /\ \/ /\ host[page[t]] = Null
          /\ Goto(t, "freeNvme")
          /\ UNCHANGED <<host, host_used>>
       \/ /\ host[page[t]] # Null
          /\ host' = [host EXCEPT ![page[t]] = Null]
          /\ host_used' = host_used - 1
          /\ Goto(t, "freeNvme")
       \/ /\ host[page[t]] # Null
          /\ "hostFree" \in Faults
          /\ ReleaseFailed(t, "freeNvme")
          /\ UNCHANGED <<host, host_used>>
    /\ UNCHANGED <<entryVars, pinned, vram, disk, free_list, vram_used,
                   nvme_used, leaked, issued, ghostVars>>

\* free_extents returns the extent to the store, which may hand it out again
\* before the entry forgets it and before its budget is released.
FreeNvme(t) ==
    LET p == page[t] IN
    /\ pc[t] = "freeNvme"
    /\ \/ /\ nvme_offset[p] = NoExtent
          /\ Goto(t, "freeEnd")
          /\ UNCHANGED free_list
       \/ /\ nvme_offset[p] # NoExtent
          /\ free_list' = free_list \cup {nvme_offset[p]}
          /\ Goto(t, "freeNvmeEntry")
    /\ UNCHANGED <<entryVars, pinned, vram, host, disk, budgetVars, issued,
                   ghostVars>>

FreeNvmeEntry(t) ==
    /\ pc[t] = "freeNvmeEntry"
    /\ nvme_offset' = [nvme_offset EXCEPT ![page[t]] = NoExtent]
    /\ has_nvme_copy' = [has_nvme_copy EXCEPT ![page[t]] = FALSE]
    /\ Goto(t, "freeNvmeBudget")
    /\ UNCHANGED <<state, dirty, in_flight, checksum, pinned, memVars,
                   budgetVars, issued, ghostVars>>

FreeNvmeBudget(t) ==
    /\ pc[t] = "freeNvmeBudget"
    /\ nvme_used' = nvme_used - 1
    /\ Goto(t, "freeEnd")
    /\ UNCHANGED <<entryVars, pinned, memVars, vram_used, host_used, leaked,
                   issued, ghostVars>>

\* The entry is erased, or kept unclaimed when something was not released.
FreeEnd(t) ==
    LET p == page[t] IN
    /\ pc[t] = "freeEnd"
    /\ \/ /\ ~failed[t]
          /\ state' = [state EXCEPT ![p] = "Absent"]
          /\ dirty' = [dirty EXCEPT ![p] = FALSE]
          /\ checksum' = [checksum EXCEPT ![p] = NoSum]
          /\ pinned' = [pinned EXCEPT ![p] = FALSE]
          /\ torn' = torn \ {p}
       \/ /\ failed[t]
          /\ UNCHANGED <<state, dirty, checksum, pinned, torn>>
    /\ in_flight' = [in_flight EXCEPT ![p] = FALSE]
    /\ Return(t)
    /\ UNCHANGED <<has_nvme_copy, nvme_offset, memVars, budgetVars, issued,
                   uncounted>>

-----------------------------------------------------------------------------
(* Operations that are one critical section of the calling thread.         *)

\* The memory of the tier p is resident in receives v.
CopyIn(p, v) ==
    \/ /\ state[p] = "ResidentHost"
       /\ host' = [host EXCEPT ![p] = v]
       /\ UNCHANGED vram
    \/ /\ state[p] = "ResidentVram"
       /\ vram' = [vram EXCEPT ![p] = v]
       /\ UNCHANGED host

\* Defect: has_nvme_copy survives the write.
WritePageKeepsCopy(p, v) ==
    /\ CopyIn(p, v)
    /\ dirty' = [dirty EXCEPT ![p] = TRUE]
    /\ checksum' = [checksum EXCEPT ![p] = v]
    /\ torn' = torn \ {p}
    /\ UNCHANGED <<state, has_nvme_copy, in_flight, nvme_offset, pinned, disk,
                   free_list, budgetVars, issued, threadVars, uncounted>>

\* The copy of write_page_impl, in the tier that is authoritative.  A page in
\* the store is first brought up by load_nvme_to_host; a page in transfer is
\* waited for.
WritePage(p, v) ==
    /\ CopyIn(p, v)
    /\ dirty' = [dirty EXCEPT ![p] = TRUE]
    /\ has_nvme_copy' = [has_nvme_copy EXCEPT ![p] = FALSE]
    /\ checksum' = [checksum EXCEPT ![p] = v]
    /\ torn' = torn \ {p}
    /\ UNCHANGED <<state, in_flight, nvme_offset, pinned, disk, free_list,
                   budgetVars, issued, threadVars, uncounted>>

\* device_copy_h2d throws: some of the page may have been overwritten, and
\* nothing is recorded in its entry.
WritePageFails(p, v) ==
    /\ "deviceWrite" \in Faults
    /\ state[p] = "ResidentVram"
    /\ \E d \in {v, Garbage} : vram' = [vram EXCEPT ![p] = d]
    /\ torn' = torn \cup {p}
    /\ UNCHANGED <<entryVars, pinned, host, disk, free_list, budgetVars, issued,
                   threadVars, uncounted>>

\* Defect: a clean host page is dropped the same way.
CleanDropFromHost(p) ==
    /\ Claimable(p, "ResidentHost")
    /\ ~dirty[p] /\ has_nvme_copy[p]
    /\ host' = [host EXCEPT ![p] = Null]
    /\ host_used' = host_used - 1
    /\ state' = [state EXCEPT ![p] = "ResidentNvme"]
    /\ UNCHANGED <<dirty, has_nvme_copy, in_flight, checksum, nvme_offset,
                   pinned, vram, disk, free_list, vram_used, nvme_used, leaked,
                   issued, threadVars, ghostVars>>

\* The clean drop of evict and of ensure_vram_headroom: the device copy of a
\* page whose store copy is valid is released without a transfer.
CleanDrop(p) ==
    /\ Claimable(p, "ResidentVram")
    /\ ~dirty[p] /\ has_nvme_copy[p]
    /\ vram' = [vram EXCEPT ![p] = Null]
    /\ vram_used' = vram_used - 1
    /\ state' = [state EXCEPT ![p] = "ResidentNvme"]
    /\ UNCHANGED <<dirty, has_nvme_copy, in_flight, checksum, nvme_offset,
                   pinned, host, disk, free_list, host_used, nvme_used, leaked,
                   issued, threadVars, ghostVars>>

\* pin and unpin; one that finds the flag as it wants it changes nothing.
Pin(p, b) ==
    /\ p \in Pinnable /\ pinned[p] # b
    /\ state[p] # "Absent"
    /\ pinned' = [pinned EXCEPT ![p] = b]
    /\ UNCHANGED <<entryVars, memVars, budgetVars, issued, threadVars, ghostVars>>

-----------------------------------------------------------------------------
\* Every id has been handed out and freed: the bound on ids is reached.
Exhausted ==
    /\ issued = Pages
    /\ \A p \in Pages : state[p] = "Absent"
    /\ \A t \in Threads : pc[t] = "idle"
    /\ UNCHANGED vars

\* The steps of a thread inside claim_host_buffer, inside one of the transfer
\* functions, inside allocate_page or inside free_page.
BufferStep(t) ==
    \/ HostBufAllocate(t) \/ HostBufFull(t) \/ HostBufRank(t)
    \/ VictimCheck(t) \/ HostBufRetry(t) \/ HostBufGiveUp(t)
    \/ HostBufUnused(t)

EvictVramStep(t) ==
    \/ EvictVramClaim(t) \/ EvictVramCopy(t) \/ EvictVramCopyFails(t)
    \/ EvictVramDone(t)

LoadStep(t) ==
    LoadClaim(t) \/ LoadRead(t) \/ LoadReadFails(t) \/ LoadDone(t)

PromoteStep(t) ==
    PromoteCopy(t) \/ PromoteCopyFails(t) \/ PromoteDone(t)

EvictHostStep(t) ==
    EvictHostWrite(t) \/ EvictHostWriteFails(t) \/ EvictHostDone(t)

AllocStep(t) ==
    \/ AllocVramReserve(t) \/ AllocVramDevice(t) \/ AllocHostBuffer(t)
    \/ AllocHostInsert(t) \/ AllocNvme(t)

FreeStep(t) ==
    \/ FreeVram(t) \/ FreeVramBudget(t) \/ FreeHost(t) \/ FreeNvme(t)
    \/ FreeNvmeEntry(t) \/ FreeNvmeBudget(t) \/ FreeEnd(t)

Step(t) ==
    \/ BufferStep(t) \/ EvictVramStep(t) \/ LoadStep(t) \/ PromoteStep(t)
    \/ EvictHostStep(t) \/ AllocStep(t) \/ FreeStep(t)

\* The steps of a thread that name a page: calls, and the victims it tries.
PageStep(t, p) ==
    \/ AllocatePage(t, p) \/ FreePage(t, p)
    \/ EvictVramToHost(t, p) \/ LoadNvmeToHost(t, p) \/ PromoteHostToVram(t, p)
    \/ EvictHostClaim(t, p) \/ EvictHostReserve(t, p) \/ EvictHostSkip(t, p)
    \/ EvictHostThrows(t, p)

Next ==
    \/ \E t \in Threads : Step(t)
    \/ \E t \in Threads, p \in Pages : PageStep(t, p)
    \/ \E p \in Pages, v \in Values : WritePage(p, v) \/ WritePageFails(p, v)
    \/ \E p \in Pages : CleanDrop(p)
    \/ \E p \in Pages, b \in BOOLEAN : Pin(p, b)
    \/ Exhausted

Spec == Init /\ [][Next]_vars

\* A thread inside a step function keeps running; a caller need not call.
FairSpec ==
    /\ Spec
    /\ \A t \in Threads :
         WF_vars(pc[t] # "idle" /\ (Step(t) \/ \E p \in Pages : PageStep(t, p)))

-----------------------------------------------------------------------------
(* Properties.                                                             *)

FreeLabels ==
    {"freeVram", "freeVramBudget", "freeHost", "freeNvme", "freeNvmeEntry",
     "freeNvmeBudget", "freeEnd"}

TransferLabels ==
    {"d2h", "d2hDone", "read", "readDone", "h2d", "h2dDone", "write", "writeDone"}

\* The state in which a thread at a label has claimed its page.
ClaimedAs(label) ==
    IF label \in {"d2h", "d2hDone"} THEN "EvictingToHost"
    ELSE IF label \in {"read", "readDone"} THEN "LoadingToHost"
    ELSE IF label \in {"h2d", "h2dDone"} THEN "LoadingToVram"
    ELSE IF label \in {"write", "writeDone"} THEN "EvictingToNvme"
    ELSE "Released"

\* Thread t is inside a section that requires exclusive use of page p.
Owns(t, p) ==
    /\ pc[t] \in TransferLabels \cup FreeLabels
    /\ p = WritePageOf(t)

Live(p) == state[p] \in Resident \cup Transferring

\* The content of the one copy that is authoritative in the page's state.
Authoritative(p) ==
    IF state[p] \in {"ResidentVram", "EvictingToHost"} THEN vram[p]
    ELSE IF state[p] \in {"ResidentHost", "LoadingToVram", "EvictingToNvme"}
         THEN host[p]
    ELSE disk[nvme_offset[p]]

VramHolders ==
    {<<"page", p>> : p \in {q \in Pages : vram[q] # Null /\ q \notin uncounted}}
    \cup {<<"thread", t>> :
            t \in {u \in Threads : pc[u] \in {"allocDev", "freeVramBudget"}}}

HostHolders ==
    {<<"page", p>> : p \in {q \in Pages : host[q] # Null}}
    \cup {<<"thread", t>> :
            t \in {u \in Threads : pc[u] \in {"haveBuf", "allocIns"}}}

\* Page p has the extent at its nvme_offset, and has not given it back.
HasExtent(p) ==
    /\ nvme_offset[p] # NoExtent
    /\ ~\E t \in Threads : pc[t] = "freeNvmeEntry" /\ page[t] = p

NvmeHolders ==
    {<<"page", p>> : p \in {q \in Pages : HasExtent(q)}}
    \cup {<<"thread", t>> :
            t \in {u \in Threads : pc[u] \in {"freeNvmeEntry", "freeNvmeBudget"}}}

\* The thread variables have their types.
ThreadTypes ==
    /\ pc \in [Threads -> Labels]
    /\ task \in [Threads -> {"none", "evict_vram_to_host", "load_nvme_to_host",
                             "promote_host_to_vram", "evict_host_to_nvme",
                             "allocate_page", "free_page"}]
    /\ page \in [Threads -> Pages \cup {NoPage}]
    /\ victim \in [Threads -> Pages \cup {NoPage}]
    /\ victims \in [Threads -> SUBSET Pages]
    /\ failed \in [Threads -> BOOLEAN]
    /\ headroom_mu \in Threads \cup {NoThread}

\* The fields of the page table and the memory of the tiers have their types.
EntryTypes ==
    /\ state \in [Pages -> TableState]
    /\ dirty \in [Pages -> BOOLEAN]
    /\ has_nvme_copy \in [Pages -> BOOLEAN]
    /\ in_flight \in [Pages -> BOOLEAN]
    /\ pinned \in [Pages -> BOOLEAN]
    /\ checksum \in [Pages -> Values \cup {NoSum}]
    /\ nvme_offset \in [Pages -> Extents \cup {NoExtent}]

MemoryTypes ==
    /\ vram \in [Pages -> Data \cup {Null}]
    /\ host \in [Pages -> Data \cup {Null}]
    /\ disk \in [Extents -> Data]
    /\ free_list \subseteq Extents
    /\ vram_used \in Int /\ host_used \in Int /\ nvme_used \in Int
    /\ leaked \in Nat

\* Every variable has its type: in particular nvme_offset, which indexes the
\* store, and page and victim, which index the page table.
TypeOK ==
    /\ EntryTypes /\ MemoryTypes /\ ThreadTypes
    /\ issued \subseteq Pages /\ torn \subseteq Pages /\ uncounted \subseteq Pages

\* Claims are exclusive: while a thread copies, completes or releases a page,
\* the page is in flight in that thread's transfer state and no other thread
\* is doing the same (the claim-atomic steps of runtime.cpp).
ClaimsExclusive ==
    /\ \A t \in Threads, p \in Pages :
            Owns(t, p) => in_flight[p] /\ state[p] = ClaimedAs(pc[t])
    /\ \A t, u \in Threads, p \in Pages : Owns(t, p) /\ Owns(u, p) => t = u

\* in_flight means "a transfer is active on this page" (page.hpp): some thread
\* is going to settle it.  A page in flight without an owner would make every
\* wait_settled and free_page on it wait until shutdown.
InFlightHasOwner ==
    \A p \in Pages : in_flight[p] => \E t \in Threads : Owns(t, p)

\* Exactly one authoritative copy: a settled page has memory in its own tier
\* and in no other (ARCHITECTURE.md, coherence rules 1 and 2).
OneAuthoritativeCopy ==
    \A p \in Pages :
        /\ state[p] = "ResidentVram" => vram[p] # Null /\ host[p] = Null
        /\ state[p] = "ResidentHost" => host[p] # Null /\ vram[p] = Null
        /\ state[p] = "ResidentNvme" =>
                vram[p] = Null /\ host[p] = Null /\ nvme_offset[p] # NoExtent

\* No write is lost: through evictions, loads, promotions, clean drops and
\* reclaimed extents, the authoritative copy of a page still has the content
\* of the last completed write_page, which is what verify_page checks.
NoLostWrite ==
    \A p \in Pages :
        Live(p) /\ checksum[p] # NoSum /\ p \notin torn =>
            Authoritative(p) = checksum[p]

\* A page marked has_nvme_copy can be dropped without a transfer: its extent
\* exists and has the authoritative content.  A dirty page has no such mark.
StoreCopyValid ==
    \A p \in Pages :
        Live(p) /\ has_nvme_copy[p] =>
            /\ ~dirty[p]
            /\ nvme_offset[p] # NoExtent
            /\ p \notin torn => disk[nvme_offset[p]] = Authoritative(p)

\* Extents of the store belong to one page each, and an extent is on the free
\* list exactly when no page has it: none is shared and none is lost.
ExtentsExclusive ==
    /\ \A p, q \in Pages :
            HasExtent(p) /\ HasExtent(q) /\ nvme_offset[p] = nvme_offset[q] => p = q
    /\ free_list = Extents \ {nvme_offset[p] : p \in {q \in Pages : HasExtent(q)}}

\* Each budget counts exactly the memory that is live or being handed over,
\* so no release exceeds what is reserved (TierBudget::release would throw),
\* and no budget exceeds what is usable.
BudgetsExact ==
    /\ vram_used = Cardinality(VramHolders) /\ vram_used <= VramUsable
    /\ host_used = Cardinality(HostHolders) + leaked /\ host_used <= HostUsable
    /\ nvme_used = Cardinality(NvmeHolders) /\ nvme_used <= NvmeExtents

\* The device memory that is live never exceeds the budget less its reserve
\* (allocator.hpp: "never silently overcommits").
DeviceNotOvercommitted ==
    Cardinality({p \in Pages : vram[p] # Null}) <= VramUsable

AllocLabels == {"allocVram", "allocDev", "allocHost", "allocIns", "allocNvme"}

BufferLabels == {"hostBuf", "rank", "victims", "victimCheck", "haveBuf"}

\* The locals of thread t fit the point it is at: it works on an id that was
\* handed out, a victim is set only while it is being evicted or checked, an id
\* that is being allocated has no entry yet, and what free_page has released
\* is gone.
ThreadOK(t) ==
    /\ pc[t] # "idle" => page[t] \in issued
    /\ victim[t] # NoPage => pc[t] \in {"victimCheck", "write", "writeDone"}
    /\ pc[t] = "victimCheck" => victim[t] # NoPage
    /\ pc[t] \in BufferLabels \/ victim[t] # NoPage =>
            task[t] \in {"evict_vram_to_host", "load_nvme_to_host"}
    /\ pc[t] \in AllocLabels => state[page[t]] = "Absent"
    /\ pc[t] = "freeVramBudget" => vram[page[t]] = Null
    /\ pc[t] \in {"freeHost", "freeNvme", "freeNvmeEntry", "freeNvmeBudget", "freeEnd"} =>
            vram[page[t]] = Null \/ failed[t]
    /\ pc[t] \in {"freeNvme", "freeNvmeEntry", "freeNvmeBudget", "freeEnd"} =>
            host[page[t]] = Null \/ failed[t]
    /\ pc[t] = "freeNvmeEntry" => nvme_offset[page[t]] # NoExtent
    /\ pc[t] \in {"freeNvmeBudget", "freeEnd"} =>
            nvme_offset[page[t]] = NoExtent /\ ~has_nvme_copy[page[t]]

ThreadShape ==
    /\ \A t \in Threads : ThreadOK(t)
    /\ \A t, u \in Threads :
            /\ pc[t] \in AllocLabels /\ pc[u] \in AllocLabels
            /\ page[t] = page[u]
            => t = u

\* The fields of an entry fit its state: which pointers and which extent it
\* has, and that it is in flight exactly during a transfer or a release.
EntryOK(p) ==
    /\ state[p] # "Absent" => p \in issued
    /\ state[p] # "Unallocated"
    /\ state[p] = "Absent" =>
            /\ vram[p] = Null /\ host[p] = Null
            /\ nvme_offset[p] = NoExtent /\ ~has_nvme_copy[p]
            /\ ~dirty[p] /\ checksum[p] = NoSum
    /\ state[p] \in {"ResidentVram", "LoadingToVram", "EvictingToHost"} =>
            vram[p] # Null
    /\ state[p] \in {"ResidentHost", "ResidentNvme", "LoadingToHost",
                      "EvictingToNvme"} => vram[p] = Null
    /\ state[p] \in Transferring \cup {"ResidentHost"} => host[p] # Null
    /\ state[p] \in {"ResidentVram", "ResidentNvme"} => host[p] = Null
    /\ state[p] \in {"ResidentNvme", "LoadingToHost", "EvictingToNvme"} =>
            nvme_offset[p] # NoExtent
    /\ has_nvme_copy[p] => nvme_offset[p] # NoExtent /\ ~dirty[p]
    /\ state[p] \in Transferring => in_flight[p]
    /\ in_flight[p] => state[p] \in Transferring \cup {"Released"}

EntryShape == \A p \in Pages : EntryOK(p)

\* Device memory is uncounted only after a failed promotion whose page nobody
\* settles any more.
UncountedAbandoned ==
    \A p \in uncounted :
        /\ state[p] = "LoadingToVram"
        /\ \A t \in Threads : ~Owns(t, p)

\* A completed copy is still equal to its source when it is made authoritative.
CopiesMade ==
    \A t \in Threads :
        /\ pc[t] = "d2hDone" => host[page[t]] = vram[page[t]]
        /\ pc[t] = "readDone" => host[page[t]] = disk[nvme_offset[page[t]]]
        /\ pc[t] = "h2dDone" => vram[page[t]] = host[page[t]]
        /\ pc[t] = "writeDone" /\ WritePageOf(t) \notin torn =>
                disk[nvme_offset[WritePageOf(t)]] = host[WritePageOf(t)]

\* The invariant that is inductive: no step of any thread, and no failure the
\* code handles, leads out of it.  The properties above follow from it.
Inductive ==
    /\ TypeOK /\ ThreadShape /\ EntryShape /\ ClaimsExclusive
    /\ CopiesMade /\ NoLostWrite /\ StoreCopyValid
    /\ ExtentsExclusive /\ UncountedAbandoned /\ BudgetsExact

\* A clean page that "exists in the NVMe store" is what the store has: its
\* dirty flag says whether the "authoritative copy diverges from NVMe copy"
\* (page.hpp).
CleanCopyMatches ==
    \A p \in Pages :
        Live(p) /\ has_nvme_copy[p] /\ ~dirty[p] =>
            disk[nvme_offset[p]] = Authoritative(p)

\* A change of p's state that PageMetadata::transition accepts.  An entry is
\* inserted from Unallocated and erased from Released; a clean drop needs a
\* valid store copy.
LegalChange(p) ==
    state'[p] # state[p] =>
        \/ state[p] = "Absent" /\ TransitionAllowed("Unallocated", state'[p])
        \/ state[p] = "Released" /\ state'[p] = "Absent"
        \/ /\ TransitionAllowed(state[p], state'[p])
           /\ state[p] = "ResidentVram" /\ state'[p] = "ResidentNvme" =>
                ~dirty[p] /\ has_nvme_copy[p] /\ nvme_offset[p] # NoExtent

\* Every state change of an entry is one that transition() accepts, so no
\* critical section is left half-way by the State or Invariant error it throws.
TransitionsLegal == [][\A p \in Pages : LegalChange(p)]_vars

\* A page that a thread evicts to make room for another page's host buffer is
\* not pinned when it is claimed ("never the requesting page, never pinned,
\* never busy", claim_host_buffer).
PinnedNeverVictim ==
    [][\A t \in Threads, v \in Pages :
        /\ pc[t] = "victims"
        /\ state[v] = "ResidentHost" /\ state'[v] = "EvictingToNvme"
        /\ victim'[t] = v
        => ~pinned[v]]_vars

\* A transfer or a release that was started is settled: no page stays in
\* flight for ever.
TransfersSettle ==
    \A p \in Pages : []<>~in_flight[p]

\* The headroom lock is released again, whatever its owner meets while it
\* evicts victims, so one host-buffer claim cannot block the others for ever.
HeadroomReleased ==
    \A t \in Threads : []<>(headroom_mu # t)
=============================================================================
