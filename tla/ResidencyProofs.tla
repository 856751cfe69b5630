--------------------------- MODULE ResidencyProofs --------------------------
(***************************************************************************)
(* Shape is an invariant of Residency, for any sets of pages, threads and  *)
(* values, any budgets and any set of faults, and every step changes the   *)
(* state of a page as transition() allows.                                 *)
(*                                                                         *)
(* The argument: a step of thread t changes the locals of t only, the      *)
(* entry of one page x only, and the state of x as transition() allows     *)
(* (the first parts of this module).  For each function of the runtime we  *)
(* show that the step leaves x and t as Shape wants them (Effect), and     *)
(* that no other thread works on x unless its entry stays as it is.  Then  *)
(* the other threads and the other pages are as they were (ShapeKept).     *)
(*                                                                         *)
(* The parts that follow are about what the tiers and the store contain:   *)
(* extents are exclusive, and no write is lost; that the steps implement   *)
(* the plain store of values of PageStore; that a page in flight has an    *)
(* owner unless freeing memory fails; and that the step functions          *)
(* keep the promises of StepContracts.                                     *)
(***************************************************************************)
EXTENDS ResidencyStore, StepContracts, TLAPS

\* The part of the inductive invariant that is about shape: types, the locals
\* of each thread, the fields of each entry and who owns which page.
Shape == TypeOK /\ ThreadShape /\ EntryShape /\ ClaimsExclusive

\* The entry of page q does not change.
SameEntry(q) ==
    /\ state'[q] = state[q] /\ dirty'[q] = dirty[q]
    /\ has_nvme_copy'[q] = has_nvme_copy[q] /\ in_flight'[q] = in_flight[q]
    /\ checksum'[q] = checksum[q] /\ nvme_offset'[q] = nvme_offset[q]
    /\ vram'[q] = vram[q] /\ host'[q] = host[q]
    /\ issued \subseteq issued'

\* reserve_nvme_range_locked takes the extent of q, which is settled elsewhere.
LosesExtent(q) ==
    /\ state[q] \in {"ResidentVram", "ResidentHost"} /\ ~in_flight[q]
    /\ state'[q] = state[q] /\ dirty'[q] = dirty[q]
    /\ in_flight'[q] = in_flight[q] /\ checksum'[q] = checksum[q]
    /\ vram'[q] = vram[q] /\ host'[q] = host[q]
    /\ nvme_offset'[q] = NoExtent /\ ~has_nvme_copy'[q]
    /\ issued \subseteq issued'

\* The locals of thread u do not change.
SameLocals(u) ==
    /\ pc'[u] = pc[u] /\ task'[u] = task[u] /\ page'[u] = page[u]
    /\ victim'[u] = victim[u] /\ failed'[u] = failed[u]

\* write_page, a clean drop or a change of the pin, on page p.
CallerStep(p) ==
    \/ \E v \in Values : WritePage(p, v) \/ WritePageFails(p, v)
    \/ CleanDrop(p)
    \/ \E b \in BOOLEAN : Pin(p, b)

\* What thread t relies on about page x, the page it works on.
Works(t, x) ==
    /\ EntryTypes /\ MemoryTypes /\ ThreadTypes /\ ThreadOK(t)
    /\ x \in Pages /\ EntryOK(x)
    /\ page[t] \in Pages /\ x = WritePageOf(t)
    /\ pc[t] \notin {"victimCheck", "write", "writeDone"} =>
            x = page[t] /\ victim[t] = NoPage
    /\ pc[t] \in TransferLabels \cup FreeLabels =>
            in_flight[x] /\ state[x] = ClaimedAs(pc[t])

-----------------------------------------------------------------------------
(* Facts that many steps use.                                              *)

\* A thread inside a function can rely on it.
LEMMA Working ==
    ASSUME Shape, NEW t \in Threads, pc[t] # "idle"
    PROVE  Works(t, WritePageOf(t))
<1>1. ThreadTypes /\ ThreadOK(t) /\ EntryTypes /\ MemoryTypes
  BY Zenon DEF Shape, TypeOK, ThreadShape
<1>2. page[t] \in Pages
  BY Zenon DEF Shape, TypeOK, ThreadShape, ThreadOK
<1>3. /\ WritePageOf(t) \in Pages
      /\ pc[t] \notin {"victimCheck", "write", "writeDone"} =>
            WritePageOf(t) = page[t] /\ victim[t] = NoPage
  BY <1>1, <1>2, Zenon DEF ThreadTypes, ThreadOK, WritePageOf
<1>4. EntryOK(WritePageOf(t))
  BY <1>3, Zenon DEF Shape, EntryShape
<1>5. pc[t] \in TransferLabels \cup FreeLabels =>
        /\ in_flight[WritePageOf(t)]
        /\ state[WritePageOf(t)] = ClaimedAs(pc[t])
  BY <1>3, Zenon DEF Shape, ClaimsExclusive, Owns
<1> QED
  BY <1>1, <1>2, <1>3, <1>4, <1>5, Zenon DEF Works

\* What a reservation does to the extent of a page: x gets one, and a page
\* that loses its extent is resident elsewhere and not in flight.
LEMMA Reserving ==
    ASSUME EntryTypes, NEW x \in Pages, NEW e \in Extents,
           ReserveNvmeRange(x, e),
           NEW q \in Pages
    PROVE  /\ q = x => /\ nvme_offset'[q] = e /\ nvme_offset'[q] # NoExtent
                       /\ has_nvme_copy'[q] = has_nvme_copy[q]
           /\ q # x =>
                \/ /\ nvme_offset'[q] = nvme_offset[q]
                   /\ has_nvme_copy'[q] = has_nvme_copy[q]
                \/ /\ state[q] \in {"ResidentVram", "ResidentHost"}
                   /\ ~in_flight[q]
                   /\ nvme_offset'[q] = NoExtent /\ ~has_nvme_copy'[q]
<1>1. \A r \in Reclaimed(x) :
        r # x /\ state[r] \in {"ResidentVram", "ResidentHost"} /\ ~in_flight[r]
  BY Zenon DEF Reclaimed, Reclaimable
<1>2. /\ nvme_offset'[q] = IF q = x THEN e
                           ELSE IF q \in Reclaimed(x) THEN NoExtent
                           ELSE nvme_offset[q]
      /\ has_nvme_copy'[q] = (has_nvme_copy[q] /\ q \notin Reclaimed(x))
  BY Zenon DEF ReserveNvmeRange
<1>3. e # NoExtent
  BY BudgetAssumption DEF Extents, NoExtent
<1> QED
  BY <1>1, <1>2, <1>3, Zenon DEF EntryTypes

-----------------------------------------------------------------------------
(* Entries: a step changes the entry of the page it works on.              *)

\* A reservation for page x, as another page q sees it.
LEMMA OtherExtent ==
    ASSUME EntryTypes, NEW x \in Pages, NEW e \in Extents,
           ReserveNvmeRange(x, e), NEW q \in Pages \ {x},
           state'[q] = state[q], in_flight'[q] = in_flight[q],
           UNCHANGED <<dirty, checksum, vram, host, issued>>
    PROVE  SameEntry(q) \/ LosesExtent(q)
<1>1. \/ /\ nvme_offset'[q] = nvme_offset[q]
         /\ has_nvme_copy'[q] = has_nvme_copy[q]
      \/ /\ state[q] \in {"ResidentVram", "ResidentHost"} /\ ~in_flight[q]
         /\ nvme_offset'[q] = NoExtent /\ ~has_nvme_copy'[q]
  BY Reserving, Zenon
<1> QED
  BY <1>1, Zenon DEF SameEntry, LosesExtent

\* claim_host_buffer, which changes no entry.
LEMMA BufferFrame ==
    ASSUME NEW t \in Threads, BufferStep(t),
           NEW q \in Pages
    PROVE  SameEntry(q)
BY Zenon DEF BufferStep, HostBufAllocate, HostBufFull, HostBufRank, VictimCheck,
   HostBufRetry, HostBufGiveUp, HostBufUnused, SameEntry, entryVars, memVars

\* evict_vram_to_host.
LEMMA EvictVramFrame ==
    ASSUME NEW t \in Threads, NEW x, Works(t, x), EvictVramStep(t),
           NEW q \in Pages \ {x}
    PROVE  SameEntry(q)
BY ZenonT(40) DEF EvictVramStep, EvictVramClaim, EvictVramCopy, EvictVramCopyFails,
   EvictVramDone, Claim, Settle, Works, SameEntry, EntryTypes, MemoryTypes,
   entryVars, memVars

\* load_nvme_to_host.
LEMMA LoadFrame ==
    ASSUME NEW t \in Threads, NEW x, Works(t, x), LoadStep(t),
           NEW q \in Pages \ {x}
    PROVE  SameEntry(q)
BY ZenonT(40) DEF LoadStep, LoadClaim, LoadRead, LoadReadFails, LoadDone, Claim, Settle,
   Works, SameEntry, EntryTypes, MemoryTypes, entryVars, memVars

\* promote_host_to_vram.
LEMMA PromoteFrame ==
    ASSUME NEW t \in Threads, NEW x, Works(t, x), PromoteStep(t),
           NEW q \in Pages \ {x}
    PROVE  SameEntry(q)
BY ZenonT(40) DEF PromoteStep, PromoteCopy, PromoteCopyFails, PromoteDone, Settle, Works,
   SameEntry, EntryTypes, MemoryTypes, entryVars, memVars

\* evict_host_to_nvme.
LEMMA EvictHostFrame ==
    ASSUME NEW t \in Threads, NEW x, Works(t, x), EvictHostStep(t),
           NEW q \in Pages \ {x}
    PROVE  SameEntry(q)
BY ZenonT(40) DEF EvictHostStep, EvictHostWrite, EvictHostWriteFails, EvictHostDone,
   Settle, Works, SameEntry, EntryTypes, MemoryTypes, entryVars, memVars

\* allocate_page; a reservation in the store may take another page's extent.
LEMMA AllocFrame ==
    ASSUME NEW t \in Threads, NEW x, Works(t, x), AllocStep(t),
           NEW q \in Pages \ {x}
    PROVE  SameEntry(q) \/ LosesExtent(q)
<1>1. CASE ~AllocNvme(t)
  BY <1>1 DEF AllocStep, AllocVramReserve, AllocVramDevice, AllocHostBuffer,
     AllocHostInsert, InsertEntry, Works, SameEntry, EntryTypes, MemoryTypes,
     entryVars, memVars
<1>2. CASE AllocNvme(t)
  <2>1. EntryTypes /\ page[t] \in Pages /\ q \in Pages \ {page[t]}
    BY <1>2, Zenon DEF AllocNvme, Works
  <2>2. CASE UNCHANGED <<nvme_offset, has_nvme_copy, state>>
    BY <1>2, <2>2, Zenon DEF AllocNvme, SameEntry
  <2>3. ASSUME NEW e \in Extents, ReserveNvmeRange(page[t], e),
               InsertEntry(page[t], "ResidentNvme")
        PROVE  SameEntry(q) \/ LosesExtent(q)
    <3>1. state'[q] = state[q]
      BY <2>1, <2>3, Zenon DEF InsertEntry, EntryTypes
    <3>2. /\ in_flight'[q] = in_flight[q]
          /\ UNCHANGED <<dirty, checksum, vram, host, issued>>
      BY <1>2, Zenon DEF AllocNvme
    <3> QED
      BY <2>1, <2>3, <3>1, <3>2, OtherExtent, Zenon
  <2> QED
    BY <1>2, <2>2, <2>3, Zenon DEF AllocNvme
<1> QED
  BY <1>1, <1>2, Zenon

\* free_page.
LEMMA FreeFrame ==
    ASSUME NEW t \in Threads, NEW x, Works(t, x), FreeStep(t),
           NEW q \in Pages \ {x}
    PROVE  SameEntry(q)
<1>1. CASE FreeVram(t) \/ FreeVramBudget(t) \/ FreeHost(t)
  BY <1>1, Zenon DEF FreeVram, FreeVramBudget, FreeHost, Works, SameEntry,
     MemoryTypes, entryVars, memVars
<1>2. CASE FreeNvme(t) \/ FreeNvmeEntry(t) \/ FreeNvmeBudget(t)
  BY <1>2, Zenon DEF FreeNvme, FreeNvmeEntry, FreeNvmeBudget, Works, SameEntry,
     EntryTypes, entryVars, memVars
<1>3. CASE FreeEnd(t)
  BY <1>3, Zenon DEF FreeEnd, Works, SameEntry, EntryTypes, memVars
<1> QED
  BY <1>1, <1>2, <1>3, Zenon DEF FreeStep

\* A step of thread t changes the entry of the page t works on, and a
\* reservation takes the extent of one other page.
LEMMA StepFrame ==
    ASSUME NEW t \in Threads, NEW x, Works(t, x), Step(t),
           NEW q \in Pages \ {x}
    PROVE  SameEntry(q) \/ LosesExtent(q)
BY BufferFrame, EvictVramFrame, LoadFrame, PromoteFrame, EvictHostFrame,
   AllocFrame, FreeFrame, Zenon DEF Step

\* A step that names page p changes the entry of p.
LEMMA CallFrame ==
    ASSUME EntryTypes, MemoryTypes, NEW t \in Threads, NEW p \in Pages,
           PageStep(t, p), NEW q \in Pages \ {p}
    PROVE  SameEntry(q) \/ LosesExtent(q)
<1>1. CASE \/ AllocatePage(t, p) \/ EvictVramToHost(t, p)
           \/ LoadNvmeToHost(t, p)
  BY <1>1, Zenon DEF AllocatePage, EvictVramToHost, LoadNvmeToHost,
     SameEntry, entryVars, memVars
<1>2. CASE FreePage(t, p) \/ PromoteHostToVram(t, p)
  BY <1>2, Zenon DEF FreePage, PromoteHostToVram, Claim, SameEntry, EntryTypes,
     MemoryTypes, memVars
<1>3. CASE \/ EvictHostClaim(t, p) \/ EvictHostSkip(t, p)
           \/ EvictHostThrows(t, p)
  BY <1>3, Zenon DEF EvictHostClaim, EvictHostSkip, EvictHostThrows, Claim,
     SameEntry, EntryTypes, entryVars, memVars
<1>4. CASE EvictHostReserve(t, p)
  <2>1. PICK e \in Extents : ReserveNvmeRange(p, e)
    BY <1>4, Zenon DEF EvictHostReserve
  <2>2. /\ state'[q] = state[q] /\ in_flight'[q] = in_flight[q]
        /\ UNCHANGED <<dirty, checksum, vram, host, issued>>
    BY <1>4, Zenon DEF EvictHostReserve, Claim, EntryTypes
  <2> QED
    BY <2>1, <2>2, OtherExtent, Zenon
<1> QED
  BY <1>1, <1>2, <1>3, <1>4, Zenon DEF PageStep

\* write_page, a clean drop and a change of the pin concern one page.
LEMMA CallerFrame ==
    ASSUME EntryTypes, MemoryTypes,
           NEW p \in Pages, CallerStep(p),
           NEW q \in Pages \ {p}
    PROVE  SameEntry(q)
BY Zenon DEF CallerStep, WritePage, WritePageFails, CleanDrop, Pin, CopyIn,
   SameEntry, EntryTypes, MemoryTypes, entryVars, memVars

-----------------------------------------------------------------------------
(* Sets: the ids handed out, and the pages of the ghost variables.         *)

\* A step inside a function hands out no page id.
LEMMA StepSets ==
    ASSUME NEW t \in Threads, Step(t)
    PROVE  /\ issued' = issued /\ torn' \subseteq torn
           /\ uncounted' \subseteq uncounted \cup {page[t]}
           /\ uncounted' # uncounted => pc[t] # "idle"
<1>1. CASE BufferStep(t)
  <2>1. UNCHANGED <<issued, torn, uncounted>>
    BY <1>1, Zenon DEF BufferStep, HostBufAllocate, HostBufFull,
       HostBufRank, VictimCheck, HostBufRetry, HostBufGiveUp,
       HostBufUnused, ghostVars
  <2> QED
    BY <2>1, Zenon
<1>2. CASE EvictVramStep(t)
  <2>1. UNCHANGED <<issued, torn, uncounted>>
    BY <1>2, Zenon DEF EvictVramStep, EvictVramClaim, EvictVramCopy,
       EvictVramCopyFails, EvictVramDone, ghostVars
  <2> QED
    BY <2>1, Zenon
<1>3. CASE LoadStep(t)
  <2>1. UNCHANGED <<issued, torn, uncounted>>
    BY <1>3, Zenon DEF LoadStep, LoadClaim, LoadRead, LoadReadFails,
       LoadDone, ghostVars
  <2> QED
    BY <2>1, Zenon
<1>4. CASE EvictHostStep(t)
  <2>1. UNCHANGED <<issued, torn, uncounted>>
    BY <1>4, Zenon DEF EvictHostStep, EvictHostWrite, EvictHostWriteFails,
       EvictHostDone, ghostVars
  <2> QED
    BY <2>1, Zenon
<1>5. CASE AllocStep(t)
  <2>1. UNCHANGED <<issued, torn, uncounted>>
    BY <1>5, Zenon DEF AllocStep, AllocVramReserve, AllocVramDevice,
       AllocHostBuffer, AllocHostInsert, AllocNvme, ghostVars
  <2> QED
    BY <2>1, Zenon
<1>6. CASE PromoteStep(t)
  BY <1>6, Zenon DEF PromoteStep, PromoteCopy, PromoteCopyFails, PromoteDone,
     ghostVars
<1>7. CASE FreeStep(t)
  BY <1>7, Zenon DEF FreeStep, FreeVram, FreeVramBudget, FreeHost, FreeNvme,
     FreeNvmeEntry, FreeNvmeBudget, FreeEnd, ghostVars
<1> QED
  BY <1>1, <1>2, <1>3, <1>4, <1>5, <1>6, <1>7, Zenon DEF Step

\* A step that names page p hands out at most p.
LEMMA CallSets ==
    ASSUME NEW t \in Threads, NEW p \in Pages, PageStep(t, p)
    PROVE  issued' \subseteq issued \cup {p} /\ UNCHANGED <<torn, uncounted>>
<1>1. CASE AllocatePage(t, p)
  BY <1>1, Zenon DEF AllocatePage, ghostVars
<1>2. CASE ~AllocatePage(t, p)
  <2>1. UNCHANGED <<issued, torn, uncounted>>
    BY <1>2, Zenon DEF PageStep, FreePage, EvictVramToHost, LoadNvmeToHost,
       PromoteHostToVram, EvictHostClaim, EvictHostReserve, EvictHostSkip,
       EvictHostThrows, ghostVars
  <2> QED
    BY <2>1, Zenon
<1> QED
  BY <1>1, <1>2, Zenon

-----------------------------------------------------------------------------
(* The state of the page that a step works on.                             *)

\* evict_vram_to_host.
LEMMA EvictVramLegal ==
    ASSUME NEW t \in Threads, NEW x, Works(t, x), EvictVramStep(t)
    PROVE  LegalChange(x)
BY Zenon DEF EvictVramStep, EvictVramClaim, EvictVramCopy, EvictVramCopyFails,
   EvictVramDone, Claim, Settle, Works, EntryTypes, entryVars, ClaimedAs,
   TransferLabels, FreeLabels, Claimable, LegalChange, TransitionAllowed

\* load_nvme_to_host.
LEMMA LoadLegal ==
    ASSUME NEW t \in Threads, NEW x, Works(t, x), LoadStep(t)
    PROVE  LegalChange(x)
BY Zenon DEF LoadStep, LoadClaim, LoadRead, LoadReadFails, LoadDone, Claim,
   Settle, Works, EntryTypes, entryVars, ClaimedAs, TransferLabels, FreeLabels,
   Claimable, LegalChange, TransitionAllowed

\* promote_host_to_vram.
LEMMA PromoteLegal ==
    ASSUME NEW t \in Threads, NEW x, Works(t, x), PromoteStep(t)
    PROVE  LegalChange(x)
BY Zenon DEF PromoteStep, PromoteCopy, PromoteCopyFails, PromoteDone, Settle,
   Works, EntryTypes, entryVars, ClaimedAs, TransferLabels, FreeLabels,
   Claimable, LegalChange, TransitionAllowed

\* evict_host_to_nvme.
LEMMA EvictHostLegal ==
    ASSUME NEW t \in Threads, NEW x, Works(t, x), EvictHostStep(t)
    PROVE  LegalChange(x)
<1>1. /\ UNCHANGED state \/ Settle(x, "Error") \/ Settle(x, "ResidentNvme")
      /\ pc[t] \in {"write", "writeDone"}
  BY Zenon DEF EvictHostStep, EvictHostWrite, EvictHostWriteFails,
     EvictHostDone, Works, entryVars
<1>2. state[x] = "EvictingToNvme" /\ x \in Pages /\ EntryTypes
  BY <1>1, Zenon DEF Works, ClaimedAs, TransferLabels
<1> QED
  BY <1>1, <1>2, Zenon DEF Settle, EntryTypes, LegalChange, TransitionAllowed

\* free_page.
LEMMA FreeLegal ==
    ASSUME NEW t \in Threads, NEW x, Works(t, x), FreeStep(t)
    PROVE  LegalChange(x)
BY Zenon DEF FreeStep, FreeVram, FreeVramBudget, FreeHost, FreeNvme,
   FreeNvmeEntry, FreeNvmeBudget, FreeEnd, Works, EntryTypes, entryVars,
   ClaimedAs, TransferLabels, FreeLabels, Claimable, LegalChange,
   TransitionAllowed

\* allocate_page.
LEMMA AllocLegal ==
    ASSUME NEW t \in Threads, NEW x, Works(t, x), AllocStep(t)
    PROVE  LegalChange(x)
<1>1. state[x] = "Absent" /\ x \in Pages /\ x = page[t] /\ EntryTypes
  <2>1. pc[t] \in AllocLabels
    BY Zenon DEF AllocStep, AllocVramReserve, AllocVramDevice,
       AllocHostBuffer, AllocHostInsert, AllocNvme, AllocLabels
  <2> QED
    BY <2>1, Zenon DEF Works, ThreadOK, AllocLabels
<1>2. UNCHANGED state \/ \E to \in Resident : InsertEntry(x, to)
  BY <1>1, Zenon DEF AllocStep, AllocVramReserve, AllocVramDevice,
     AllocHostBuffer, AllocHostInsert, AllocNvme, entryVars, Resident
<1> QED
  BY <1>1, <1>2, Zenon DEF InsertEntry, EntryTypes, LegalChange, TransitionAllowed

\* An extent that reserve_nvme_range_locked hands out is one of the store, and
\* the fields it changes keep their types.
LEMMA ReserveTypes ==
    ASSUME EntryTypes, MemoryTypes, NEW x \in Pages, NEW e \in Extents,
           ReserveNvmeRange(x, e)
    PROVE  /\ free_list' \subseteq Extents
           /\ nvme_used' \in Int
           /\ nvme_offset' \in [Pages -> Extents \cup {NoExtent}]
           /\ has_nvme_copy' \in [Pages -> BOOLEAN]
<1>1. Reclaimed(x) \subseteq Pages
      /\ \A q \in Reclaimed(x) : nvme_offset[q] \in Extents
  BY Zenon DEF EntryTypes, Reclaimed, Reclaimable
<1> QED
  BY <1>1 DEF EntryTypes, MemoryTypes, ReserveNvmeRange

-----------------------------------------------------------------------------
(* Control: how a step of thread t may change the locals of the threads.   *)

\* A step inside a function continues at a label, notes a failure, or returns.
Continues(t) ==
    \/ Return(t)
    \/ \E label \in Labels : Goto(t, label) \/ ReleaseFailed(t, label)

\* It keeps the types, and the locals of every other thread.
LEMMA ContinueLocals ==
    ASSUME ThreadTypes, NEW t \in Threads, Continues(t)
    PROVE  ThreadTypes' /\ \A u \in Threads \ {t} : SameLocals(u)
<1> USE DEF ThreadTypes, SameLocals
<1>1. CASE Return(t)
  <2>1. ThreadTypes'
    BY <1>1, ZenonT(30) DEF Return, Labels
  <2>2. \A u \in Threads \ {t} : SameLocals(u)
    BY <1>1, Zenon DEF Return
  <2> QED
    BY <2>1, <2>2, Zenon
<1>2. ASSUME NEW label \in Labels, Goto(t, label)
      PROVE  ThreadTypes' /\ \A u \in Threads \ {t} : SameLocals(u)
  BY <1>2, Zenon DEF Goto
<1>3. ASSUME NEW label \in Labels, ReleaseFailed(t, label)
      PROVE  ThreadTypes' /\ \A u \in Threads \ {t} : SameLocals(u)
  BY <1>3, Zenon DEF ReleaseFailed
<1> HIDE DEF ThreadTypes, SameLocals
<1> QED
  BY <1>1, <1>2, <1>3, Zenon DEF Continues

\* The steps of a transfer, of allocate_page and of free_page are of this kind.
LEMMA Control ==
    ASSUME NEW t \in Threads, Step(t), ~BufferStep(t)
    PROVE  pc[t] # "idle" /\ Continues(t)
<1> USE DEF Continues, Labels
<1>1. CASE EvictVramStep(t)
  BY <1>1, Zenon DEF EvictVramStep, EvictVramClaim, EvictVramCopy,
     EvictVramCopyFails, EvictVramDone
<1>2. CASE LoadStep(t)
  BY <1>2, Zenon DEF LoadStep, LoadClaim, LoadRead, LoadReadFails, LoadDone
<1>3. CASE PromoteStep(t)
  BY <1>3, Zenon DEF PromoteStep, PromoteCopy, PromoteCopyFails, PromoteDone
<1>4. CASE EvictHostStep(t)
  BY <1>4, Zenon DEF EvictHostStep, EvictHostWrite, EvictHostWriteFails,
     EvictHostDone
<1>5. CASE AllocStep(t)
  BY <1>5, Zenon DEF AllocStep, AllocVramReserve, AllocVramDevice, AllocHostBuffer,
     AllocHostInsert, AllocNvme
<1>6. CASE FreeStep(t)
  BY <1>6, Zenon DEF FreeStep, FreeVram, FreeVramBudget, FreeHost, FreeNvme,
     FreeNvmeEntry, FreeNvmeBudget, FreeEnd
<1> QED
  BY <1>1, <1>2, <1>3, <1>4, <1>5, <1>6, Zenon DEF Step

\* A step of claim_host_buffer, which also takes and releases the lock.
LEMMA BufferControl ==
    ASSUME ThreadTypes, NEW t \in Threads, BufferStep(t)
    PROVE  ThreadTypes' /\ \A u \in Threads \ {t} : SameLocals(u)
<1>1. CASE Continues(t)
  BY <1>1, ContinueLocals, Zenon
<1> USE DEF ThreadTypes, SameLocals, Labels
<1>2. CASE HostBufFull(t)
  BY <1>2, Zenon DEF HostBufFull
<1>3. CASE HostBufRank(t)
  BY <1>3, Zenon DEF HostBufRank, HostCandidates
<1>4. CASE HostBufRetry(t)
  BY <1>4, Zenon DEF HostBufRetry
<1>5. CASE VictimCheck(t) /\ ~Return(t)
  BY <1>5, Zenon DEF VictimCheck
<1>6. CASE HostBufAllocate(t) \/ HostBufGiveUp(t) \/ HostBufUnused(t)
  BY <1>6, <1>1, Zenon DEF HostBufAllocate, HostBufGiveUp, HostBufUnused, Continues
<1> HIDE DEF ThreadTypes, SameLocals, Labels
<1> QED
  BY <1>1, <1>2, <1>3, <1>4, <1>5, <1>6, Zenon DEF BufferStep, Continues

\* A call, or a victim that is tried.
LEMMA CallControl ==
    ASSUME ThreadTypes, NEW t \in Threads, NEW p \in Pages, PageStep(t, p)
    PROVE  ThreadTypes' /\ \A u \in Threads \ {t} : SameLocals(u)
<1> DEFINE Tasks == {"evict_vram_to_host", "load_nvme_to_host", "free_page",
                     "promote_host_to_vram", "evict_host_to_nvme",
                     "allocate_page"}
<1> USE DEF ThreadTypes, SameLocals
<1>1. ASSUME NEW label \in Labels, NEW fn \in Tasks, Call(t, p, fn, label)
      PROVE  ThreadTypes' /\ \A u \in Threads \ {t} : SameLocals(u)
  BY <1>1, Zenon DEF Call
<1>2. ASSUME NEW label \in Labels, CallEvictHost(t, p, label)
      PROVE  ThreadTypes' /\ \A u \in Threads \ {t} : SameLocals(u)
  BY <1>1, <1>2, ZenonT(40) DEF CallEvictHost
<1>3. CASE UNCHANGED threadVars
  BY <1>3, Zenon DEF threadVars
<1> HIDE DEF ThreadTypes, SameLocals
<1>4. CASE Return(t)
  BY <1>4, ContinueLocals, Zenon DEF Continues
<1>5. CASE \E label \in Labels, fn \in Tasks : Call(t, p, fn, label)
  BY <1>5, <1>1, Zenon
<1>6. CASE \E label \in Labels : CallEvictHost(t, p, label)
  BY <1>6, <1>2, Zenon
<1> QED
  BY <1>3, <1>4, <1>5, <1>6, ZenonT(30) DEF PageStep, AllocatePage, FreePage,
     EvictVramToHost, LoadNvmeToHost, PromoteHostToVram, EvictHostClaim,
     EvictHostReserve, EvictHostSkip, EvictHostThrows, ChooseAllocationTier,
     Labels

-----------------------------------------------------------------------------
(* Types.                                                                  *)

\* A transfer has its extent and its source where it needs them.
LEMMA Transfer ==
    ASSUME Shape, NEW t \in Threads
    PROVE  /\ pc[t] = "d2h" => vram[page[t]] \in Data
           /\ pc[t] = "h2d" => host[page[t]] \in Data
           /\ pc[t] = "read" => nvme_offset[page[t]] \in Extents
           /\ pc[t] = "write" =>
                /\ nvme_offset[WritePageOf(t)] \in Extents
                /\ host[WritePageOf(t)] \in Data
<1>1. CASE pc[t] \in {"d2h", "h2d", "read", "write"}
  <2> DEFINE x == WritePageOf(t)
  <2>1. Works(t, x)
    BY <1>1, Working, Zenon
  <2>2. /\ x \in Pages /\ EntryTypes /\ MemoryTypes /\ EntryOK(x)
        /\ state[x] = ClaimedAs(pc[t])
        /\ pc[t] # "write" => x = page[t]
    BY <1>1, <2>1, Zenon DEF Works, TransferLabels
  <2> HIDE DEF x
  <2>3. /\ pc[t] = "d2h" => vram[x] \in Data
        /\ pc[t] = "h2d" => host[x] \in Data
        /\ pc[t] = "read" => nvme_offset[x] \in Extents
        /\ pc[t] = "write" => nvme_offset[x] \in Extents /\ host[x] \in Data
    BY <1>1, <2>2, Zenon DEF EntryTypes, MemoryTypes, EntryOK, ClaimedAs,
       Transferring
  <2> QED
    BY <1>1, <2>2, <2>3, Zenon DEF x
<1> QED
  BY <1>1, Zenon

\* The page table.
LEMMA StepEntryTypes ==
    ASSUME Shape, NEW t \in Threads, Step(t)
    PROVE  EntryTypes'
<1>1. EntryTypes /\ MemoryTypes
  BY Zenon DEF Shape, TypeOK
<1>2. pc[t] # "idle" => page[t] \in Pages /\ WritePageOf(t) \in Pages
  BY Working, Zenon DEF Works
<1> USE DEF EntryTypes, TableState, PageState, Resident, Transferring,
           entryVars
<1>3. CASE BufferStep(t)
  BY <1>1, <1>3, Zenon DEF BufferStep, HostBufAllocate, HostBufFull, HostBufRank,
     VictimCheck, HostBufRetry, HostBufGiveUp, HostBufUnused
<1>4. CASE EvictVramStep(t)
  BY <1>1, <1>2, <1>4, ZenonT(30) DEF EvictVramStep, EvictVramClaim,
     EvictVramCopy, EvictVramCopyFails, EvictVramDone, Claim, Settle
<1>5. CASE LoadStep(t)
  BY <1>1, <1>2, <1>5, ZenonT(30) DEF LoadStep, LoadClaim, LoadRead,
     LoadReadFails, LoadDone, Claim, Settle
<1>6. CASE PromoteStep(t)
  BY <1>1, <1>2, <1>6, ZenonT(30) DEF PromoteStep, PromoteCopy,
     PromoteCopyFails, PromoteDone, Settle
<1>7. CASE EvictHostStep(t)
  BY <1>1, <1>2, <1>7, ZenonT(30) DEF EvictHostStep, EvictHostWrite,
     EvictHostWriteFails, EvictHostDone, Settle
<1>8. CASE AllocStep(t) /\ ~AllocNvme(t)
  BY <1>1, <1>2, <1>8, Zenon DEF AllocStep, AllocVramReserve, AllocVramDevice,
     AllocHostBuffer, AllocHostInsert, InsertEntry
<1>9. CASE AllocNvme(t)
  <2>1. /\ nvme_offset' \in [Pages -> Extents \cup {NoExtent}]
        /\ has_nvme_copy' \in [Pages -> BOOLEAN]
    BY <1>1, <1>2, <1>9, ReserveTypes, Zenon DEF AllocNvme
  <2> QED
    BY <1>1, <1>2, <1>9, <2>1, Zenon DEF AllocNvme, InsertEntry
<1>10. CASE FreeStep(t) /\ ~FreeEnd(t)
  BY <1>1, <1>2, <1>10, ZenonT(30) DEF FreeStep, FreeVram, FreeVramBudget,
     FreeHost, FreeNvme, FreeNvmeEntry, FreeNvmeBudget
<1>11. CASE FreeEnd(t)
  BY <1>1, <1>2, <1>11, ZenonT(30) DEF FreeEnd
<1> HIDE DEF EntryTypes
<1> QED
  BY <1>3, <1>4, <1>5, <1>6, <1>7, <1>8, <1>9, <1>10, <1>11, Zenon DEF Step,
     AllocStep, FreeStep

\* The memory of the tiers, the store and the counters.
LEMMA StepMemoryTypes ==
    ASSUME Shape, NEW t \in Threads, Step(t)
    PROVE  MemoryTypes'
<1>1. EntryTypes /\ MemoryTypes
  BY Zenon DEF Shape, TypeOK
<1>2. pc[t] # "idle" => page[t] \in Pages /\ WritePageOf(t) \in Pages
  BY Working, Zenon DEF Works
<1>3. /\ pc[t] = "d2h" => vram[page[t]] \in Data
      /\ pc[t] = "h2d" => host[page[t]] \in Data
      /\ pc[t] = "read" => nvme_offset[page[t]] \in Extents
      /\ pc[t] = "write" =>
            /\ nvme_offset[WritePageOf(t)] \in Extents
            /\ host[WritePageOf(t)] \in Data
  BY Transfer, Zenon
<1> USE DEF MemoryTypes, Data, memVars, budgetVars
<1>4. CASE BufferStep(t)
  BY <1>1, <1>4 DEF BufferStep, HostBufAllocate, HostBufFull, HostBufRank,
     VictimCheck, HostBufRetry, HostBufGiveUp, HostBufUnused
<1>5. CASE EvictVramStep(t)
  BY <1>1, <1>2, <1>3, <1>5 DEF EvictVramStep, EvictVramClaim, EvictVramCopy,
     EvictVramCopyFails, EvictVramDone
<1>6. CASE LoadStep(t)
  BY <1>1, <1>2, <1>3, <1>6 DEF LoadStep, LoadClaim, LoadRead, LoadReadFails,
     LoadDone
<1>7. CASE PromoteStep(t)
  BY <1>1, <1>2, <1>3, <1>7 DEF PromoteStep, PromoteCopy, PromoteCopyFails,
     PromoteDone
<1>8. CASE EvictHostStep(t)
  BY <1>1, <1>2, <1>3, <1>8 DEF EvictHostStep, EvictHostWrite,
     EvictHostWriteFails, EvictHostDone
<1>9. CASE AllocStep(t) /\ ~AllocNvme(t)
  BY <1>1, <1>2, <1>9 DEF AllocStep, AllocVramReserve, AllocVramDevice,
     AllocHostBuffer, AllocHostInsert
<1>10. CASE AllocNvme(t)
  <2>1. free_list' \subseteq Extents /\ nvme_used' \in Int
    BY <1>1, <1>2, <1>10, ReserveTypes, Zenon DEF AllocNvme
  <2> QED
    BY <1>1, <1>10, <2>1, Zenon DEF AllocNvme
<1>11. CASE FreeStep(t)
  BY <1>1, <1>2, <1>11 DEF FreeStep, FreeVram, FreeVramBudget, FreeHost,
     FreeNvme, FreeNvmeEntry, FreeNvmeBudget, FreeEnd, EntryTypes
<1> HIDE DEF MemoryTypes
<1> QED
  BY <1>4, <1>5, <1>6, <1>7, <1>8, <1>9, <1>10, <1>11, Zenon DEF Step, AllocStep

\* A step that names a page keeps the types of the table and of the memory.
LEMMA CallTypes ==
    ASSUME EntryTypes, MemoryTypes,
           NEW t \in Threads, NEW p \in Pages, PageStep(t, p)
    PROVE  EntryTypes' /\ MemoryTypes'
<1>1. ASSUME EvictHostReserve(t, p) PROVE EntryTypes' /\ MemoryTypes'
  <2>1. /\ free_list' \subseteq Extents /\ nvme_used' \in Int
        /\ nvme_offset' \in [Pages -> Extents \cup {NoExtent}]
        /\ has_nvme_copy' \in [Pages -> BOOLEAN]
    BY <1>1, ReserveTypes, Zenon DEF EvictHostReserve
  <2> QED
    BY <1>1, <2>1, ZenonT(30) DEF EvictHostReserve, Claim, EntryTypes,
       MemoryTypes, TableState, PageState, Resident, Transferring
<1>2. ASSUME ~EvictHostReserve(t, p) PROVE EntryTypes'
  BY <1>2, ZenonT(30) DEF PageStep, AllocatePage, FreePage, EvictVramToHost,
     LoadNvmeToHost, PromoteHostToVram, EvictHostClaim, EvictHostSkip,
     EvictHostThrows, Claim, EntryTypes, entryVars, TableState, PageState,
     Resident, Transferring
<1>3. ASSUME ~EvictHostReserve(t, p) PROVE MemoryTypes'
  <2>1. CASE PromoteHostToVram(t, p)
    BY <2>1 DEF PromoteHostToVram, MemoryTypes, Data
  <2>2. CASE UNCHANGED <<memVars, budgetVars>>
    BY <2>2, Zenon DEF MemoryTypes, memVars, budgetVars
  <2> QED
    BY <1>3, <2>1, <2>2, ZenonT(30) DEF PageStep, AllocatePage, FreePage,
       EvictVramToHost, LoadNvmeToHost, EvictHostClaim, EvictHostSkip,
       EvictHostThrows
<1> QED
  BY <1>1, <1>2, <1>3, Zenon

\* write_page, a clean drop and a change of the pin keep every type.
LEMMA CallerTypes ==
    ASSUME TypeOK, NEW p \in Pages, CallerStep(p)
    PROVE  TypeOK'
<1> USE DEF TypeOK, EntryTypes, MemoryTypes
<1>1. ASSUME NEW v \in Values, WritePage(p, v) PROVE TypeOK'
  BY <1>1, ZenonT(40) DEF WritePage, CopyIn, Data, budgetVars, threadVars, ThreadTypes
<1>2. ASSUME NEW v \in Values, WritePageFails(p, v) PROVE TypeOK'
  BY <1>2 DEF WritePageFails, Data, entryVars, budgetVars, threadVars,
     ThreadTypes
<1>3. CASE CleanDrop(p)
  BY <1>3 DEF CleanDrop, TableState, PageState, Resident, threadVars,
     ghostVars, ThreadTypes
<1>4. ASSUME NEW b \in BOOLEAN, Pin(p, b) PROVE TypeOK'
  BY <1>4, Zenon DEF Pin, entryVars, memVars, budgetVars, threadVars, ghostVars,
     ThreadTypes
<1> HIDE DEF TypeOK
<1> QED
  BY <1>1, <1>2, <1>3, <1>4, Zenon DEF CallerStep

\* Every step keeps the types.
LEMMA TypeStep ==
    ASSUME Shape, NEW t \in Threads, NEW p \in Pages, Step(t) \/ PageStep(t, p)
    PROVE  TypeOK'
<1>1. TypeOK /\ EntryTypes /\ MemoryTypes /\ ThreadTypes
  BY Zenon DEF Shape, TypeOK
<1>2. ThreadTypes'
  BY <1>1, Control, ContinueLocals, BufferControl, CallControl, Zenon
<1>3. EntryTypes' /\ MemoryTypes'
  BY <1>1, StepEntryTypes, StepMemoryTypes, CallTypes, Zenon
<1>4. CASE Step(t)
  <2>1. /\ issued' = issued /\ torn' \subseteq torn
        /\ uncounted' \subseteq uncounted \cup {page[t]}
        /\ uncounted' # uncounted => pc[t] # "idle"
    BY <1>4, StepSets, Zenon
  <2>2. uncounted' \subseteq Pages
    BY <1>1, <2>1, Working, Zenon DEF TypeOK, Works
  <2> QED
    BY <1>1, <1>2, <1>3, <2>1, <2>2, Zenon DEF TypeOK
<1>5. CASE PageStep(t, p)
  <2>1. issued' \subseteq Pages /\ UNCHANGED <<torn, uncounted>>
    BY <1>1, <1>5, CallSets, Zenon DEF TypeOK
  <2> QED
    BY <1>1, <1>2, <1>3, <2>1, Zenon DEF TypeOK
<1> QED
  BY <1>4, <1>5, Zenon

\* Thread t is well-formed after the step, and the page it allocates, copies
\* or releases then is x, in the state of its claim.
Mine(t, x) ==
    /\ ThreadOK(t)'
    /\ pc'[t] \in AllocLabels => page'[t] = x
    /\ pc'[t] \in TransferLabels \cup FreeLabels =>
            /\ WritePageOf(t)' = x
            /\ in_flight'[x] /\ state'[x] = ClaimedAs(pc'[t])

-----------------------------------------------------------------------------
(* The entry of the page that a step works on.                             *)

\* evict_vram_to_host.
LEMMA EvictVramEntry ==
    ASSUME NEW t \in Threads, NEW x, Works(t, x), EvictVramStep(t)
    PROVE  EntryOK(x)'
<1>1. CASE EvictVramClaim(t)
  BY <1>1, SentinelAssumption, Zenon DEF EvictVramClaim, Claim, Claimable, Works,
     EntryOK, Transferring, EntryTypes, MemoryTypes, Data
<1>2. CASE EvictVramCopy(t)
  BY <1>2, SentinelAssumption, Zenon DEF EvictVramCopy, Works, EntryOK, Transferring,
     MemoryTypes, entryVars, ClaimedAs, TransferLabels
<1>3. CASE EvictVramCopyFails(t) \/ EvictVramDone(t)
  BY <1>3, ZenonT(90) DEF EvictVramCopyFails, EvictVramDone, Settle, Works, EntryOK,
     Transferring, EntryTypes, MemoryTypes, ClaimedAs, TransferLabels
<1> QED
  BY <1>1, <1>2, <1>3, Zenon DEF EvictVramStep

\* load_nvme_to_host.
LEMMA LoadEntry ==
    ASSUME NEW t \in Threads, NEW x, Works(t, x), LoadStep(t)
    PROVE  EntryOK(x)'
<1>1. CASE LoadClaim(t)
  BY <1>1, SentinelAssumption, Zenon DEF LoadClaim, Claim, Claimable, Works, EntryOK,
     Transferring, EntryTypes, MemoryTypes, Data
<1>2. CASE LoadRead(t)
  BY <1>2, SentinelAssumption, ZenonT(40) DEF LoadRead, Works, EntryOK, Transferring,
     EntryTypes, MemoryTypes, Data, entryVars, ClaimedAs, TransferLabels
<1>3. CASE LoadReadFails(t) \/ LoadDone(t)
  BY <1>3, Zenon DEF LoadReadFails, LoadDone, Settle, Works, EntryOK, Transferring,
     EntryTypes, MemoryTypes, memVars, ClaimedAs, TransferLabels
<1> QED
  BY <1>1, <1>2, <1>3, Zenon DEF LoadStep

\* promote_host_to_vram.
LEMMA PromoteEntry ==
    ASSUME NEW t \in Threads, NEW x, Works(t, x), PromoteStep(t)
    PROVE  EntryOK(x)'
BY SentinelAssumption, SMTT(30) DEF PromoteStep, PromoteCopy, PromoteCopyFails,
   PromoteDone, Settle, Works, EntryOK, Resident, Transferring, EntryTypes,
   MemoryTypes, Data, entryVars, memVars, ClaimedAs, TransferLabels,
   FreeLabels, Claimable

\* evict_host_to_nvme.
LEMMA EvictHostEntry ==
    ASSUME NEW t \in Threads, NEW x, Works(t, x), EvictHostStep(t)
    PROVE  EntryOK(x)'
BY SentinelAssumption, ZenonT(40) DEF EvictHostStep, EvictHostWrite, EvictHostWriteFails,
   EvictHostDone, Settle, Works, EntryOK, Resident, Transferring, EntryTypes,
   MemoryTypes, Data, entryVars, memVars, ClaimedAs, TransferLabels,
   FreeLabels, Claimable

\* free_page.
LEMMA FreeEntry ==
    ASSUME NEW t \in Threads, NEW x, Works(t, x), FreeStep(t)
    PROVE  EntryOK(x)'
BY SentinelAssumption, ZenonT(40) DEF FreeStep, FreeVram, FreeVramBudget, FreeHost,
   FreeNvme, FreeNvmeEntry, FreeNvmeBudget, FreeEnd, Works, EntryOK, Resident,
   Transferring, EntryTypes, MemoryTypes, Data, entryVars, memVars, ClaimedAs,
   TransferLabels, FreeLabels, ThreadOK

\* allocate_page.
LEMMA AllocEntry ==
    ASSUME NEW t \in Threads, NEW x, Works(t, x), AllocStep(t)
    PROVE  EntryOK(x)'
<1>1. CASE ~AllocNvme(t)
  BY <1>1, SentinelAssumption, ZenonT(40) DEF AllocStep, AllocVramReserve,
     AllocVramDevice, AllocHostBuffer, AllocHostInsert, InsertEntry,
     ThreadOK, AllocLabels, Works, EntryOK, Resident, Transferring,
     EntryTypes, MemoryTypes, Data, entryVars, memVars
<1>2. CASE AllocNvme(t)
  <2>1. /\ x \in Pages /\ x = page[t] /\ state[x] = "Absent" /\ x \in issued
        /\ EntryTypes /\ EntryOK(x) /\ ~in_flight[x] /\ ~has_nvme_copy[x]
    BY <1>2, Zenon DEF AllocNvme, Works, ThreadOK, AllocLabels, EntryOK,
       Transferring
  <2>2. ASSUME NEW e \in Extents, ReserveNvmeRange(x, e),
               InsertEntry(x, "ResidentNvme")
        PROVE  EntryOK(x)'
    <3>1. nvme_offset'[x] # NoExtent /\ ~has_nvme_copy'[x]
      BY <2>1, <2>2, Reserving, Zenon
    <3>2. state'[x] = "ResidentNvme"
      BY <2>1, <2>2, Zenon DEF InsertEntry, EntryTypes
    <3> QED
      BY <1>2, <2>1, <3>1, <3>2, Zenon DEF AllocNvme, EntryOK, Transferring
  <2>3. CASE UNCHANGED <<nvme_offset, has_nvme_copy, state>>
    BY <1>2, <2>1, <2>3, Zenon DEF AllocNvme, EntryOK
  <2> QED
    BY <1>2, <2>1, <2>2, <2>3, Zenon DEF AllocNvme
<1> QED
  BY <1>1, <1>2, Zenon

-----------------------------------------------------------------------------
(* The locals of the thread that takes a step.                             *)

\* A thread that returns is idle and works on no page.
LEMMA ReturnMine ==
    ASSUME NEW t \in Threads, ThreadTypes, Return(t), NEW x
    PROVE  Mine(t, x) /\ pc'[t] = "idle"
BY Zenon DEF Return, ThreadTypes, ThreadOK, Mine, BufferLabels, AllocLabels,
   TransferLabels, FreeLabels

\* A thread that goes on with the transfer of the page it has claimed.
LEMMA TransferMine ==
    ASSUME NEW t \in Threads, NEW x, Works(t, x), pc[t] # "idle",
           NEW label \in TransferLabels, Goto(t, label),
           victim[t] # NoPage => label \in {"write", "writeDone"},
           state'[x] = ClaimedAs(label), in_flight'[x], issued' = issued
    PROVE  Mine(t, x)
<1>1. /\ pc'[t] = label /\ page'[t] = page[t] /\ victim'[t] = victim[t]
      /\ task'[t] = task[t] /\ page[t] \in issued
      /\ victim[t] # NoPage =>
            task[t] \in {"evict_vram_to_host", "load_nvme_to_host"}
  BY Zenon DEF Goto, Works, ThreadTypes, ThreadOK
<1>2. WritePageOf(t)' = x
  BY <1>1, Zenon DEF Works, WritePageOf
<1>3. ThreadOK(t)'
  BY <1>1, Zenon DEF ThreadOK, BufferLabels, AllocLabels, TransferLabels
<1> QED
  BY <1>1, <1>2, <1>3, Zenon DEF Mine, AllocLabels, TransferLabels

\* evict_vram_to_host.
LEMMA EvictVramMine ==
    ASSUME NEW t \in Threads, NEW x, Works(t, x), EvictVramStep(t)
    PROVE  Mine(t, x)
<1>1. CASE EvictVramClaim(t) \/ EvictVramCopy(t)
  <2>1. PICK label \in {"d2h", "d2hDone"} : Goto(t, label)
    BY <1>1, Zenon DEF EvictVramClaim, EvictVramCopy
  <2>2. state'[x] = "EvictingToHost" /\ in_flight'[x]
    BY <1>1, Zenon DEF EvictVramClaim, EvictVramCopy, Claim, Works, EntryTypes,
       entryVars, ClaimedAs, TransferLabels
  <2>3. issued' = issued /\ pc[t] # "idle" /\ victim[t] = NoPage
    BY <1>1, Zenon DEF EvictVramClaim, EvictVramCopy, Works
  <2> QED
    BY <2>1, <2>2, <2>3, TransferMine, Zenon DEF ClaimedAs, TransferLabels
<1>2. CASE EvictVramCopyFails(t) \/ EvictVramDone(t)
  BY <1>2, ReturnMine, Zenon DEF EvictVramCopyFails, EvictVramDone, Works
<1> QED
  BY <1>1, <1>2, Zenon DEF EvictVramStep

\* load_nvme_to_host.
LEMMA LoadMine ==
    ASSUME NEW t \in Threads, NEW x, Works(t, x), LoadStep(t)
    PROVE  Mine(t, x)
<1>1. CASE LoadClaim(t) \/ LoadRead(t)
  <2>1. PICK label \in {"read", "readDone"} : Goto(t, label)
    BY <1>1, Zenon DEF LoadClaim, LoadRead
  <2>2. state'[x] = "LoadingToHost" /\ in_flight'[x]
    BY <1>1, Zenon DEF LoadClaim, LoadRead, Claim, Works, EntryTypes, entryVars,
       ClaimedAs, TransferLabels
  <2>3. issued' = issued /\ pc[t] # "idle" /\ victim[t] = NoPage
    BY <1>1, Zenon DEF LoadClaim, LoadRead, Works
  <2> QED
    BY <2>1, <2>2, <2>3, TransferMine, Zenon DEF ClaimedAs, TransferLabels
<1>2. CASE LoadReadFails(t) \/ LoadDone(t)
  BY <1>2, ReturnMine, Zenon DEF LoadReadFails, LoadDone, Works
<1> QED
  BY <1>1, <1>2, Zenon DEF LoadStep

\* promote_host_to_vram.
LEMMA PromoteMine ==
    ASSUME NEW t \in Threads, NEW x, Works(t, x), PromoteStep(t)
    PROVE  Mine(t, x)
<1>1. CASE PromoteCopy(t)
  <2>1. state'[x] = "LoadingToVram" /\ in_flight'[x]
    BY <1>1, Zenon DEF PromoteCopy, Works, entryVars, ClaimedAs, TransferLabels
  <2>2. /\ Goto(t, "h2dDone") /\ issued' = issued
        /\ pc[t] # "idle" /\ victim[t] = NoPage
    BY <1>1, Zenon DEF PromoteCopy, Works
  <2> QED
    BY <2>1, <2>2, TransferMine, Zenon DEF ClaimedAs, TransferLabels
<1>2. CASE PromoteCopyFails(t) \/ PromoteDone(t)
  BY <1>2, ReturnMine, Zenon DEF PromoteCopyFails, PromoteDone, Works
<1> QED
  BY <1>1, <1>2, Zenon DEF PromoteStep

\* evict_host_to_nvme.
LEMMA EvictHostMine ==
    ASSUME NEW t \in Threads, NEW x, Works(t, x), EvictHostStep(t)
    PROVE  Mine(t, x)
<1>1. CASE EvictHostWrite(t)
  <2>1. state'[x] = "EvictingToNvme" /\ in_flight'[x]
    BY <1>1, Zenon DEF EvictHostWrite, Works, entryVars, ClaimedAs, TransferLabels
  <2>2. Goto(t, "writeDone") /\ issued' = issued /\ pc[t] # "idle"
    BY <1>1, Zenon DEF EvictHostWrite
  <2> QED
    BY <2>1, <2>2, TransferMine, Zenon DEF ClaimedAs, TransferLabels
<1>2. CASE Return(t)
  BY <1>2, ReturnMine, Zenon DEF Works
<1>3. CASE EvictHostDone(t) /\ ~Return(t)
  <2>1. /\ pc[t] = "writeDone" /\ pc'[t] = "victimCheck"
        /\ page'[t] = page[t] /\ victim'[t] = victim[t]
        /\ task'[t] = task[t] /\ victim[t] # NoPage /\ issued' = issued
    BY <1>3, Zenon DEF EvictHostDone, Goto, Works, ThreadTypes
  <2> QED
    BY <2>1, Zenon DEF Works, Mine, ThreadOK, BufferLabels, AllocLabels,
       TransferLabels, FreeLabels
<1> QED
  BY <1>1, <1>2, <1>3, Zenon DEF EvictHostStep, EvictHostWriteFails

\* free_page.
LEMMA FreeMine ==
    ASSUME NEW t \in Threads, NEW x, Works(t, x), FreeStep(t)
    PROVE  Mine(t, x)
<1>1. CASE FreeVram(t) \/ FreeVramBudget(t)
  BY <1>1, SentinelAssumption, SMTT(30) DEF FreeVram, FreeVramBudget, Goto,
     ReleaseFailed, Works, ThreadOK, ThreadTypes, Mine, BufferLabels,
     AllocLabels, TransferLabels, FreeLabels, ClaimedAs, MemoryTypes,
     entryVars, memVars, WritePageOf
<1>2. CASE FreeHost(t)
  <2>1. /\ pc[t] = "freeHost" /\ pc'[t] = "freeNvme" /\ page'[t] = page[t]
        /\ victim'[t] = victim[t] /\ task'[t] = task[t]
        /\ host'[x] = Null \/ failed'[t]
        /\ failed[t] => failed'[t]
        /\ x = page[t] /\ victim[t] = NoPage
    BY <1>2, Zenon DEF FreeHost, Goto, ReleaseFailed, Works, ThreadTypes,
       MemoryTypes
  <2>2. UNCHANGED <<entryVars, vram, issued>>
    BY <1>2, Zenon DEF FreeHost
  <2> QED
    BY <2>1, <2>2, SentinelAssumption, Zenon DEF Works, ThreadOK, Mine,
       BufferLabels, AllocLabels, TransferLabels, FreeLabels, ClaimedAs,
       entryVars, WritePageOf
<1>3. CASE FreeNvme(t)
  <2>1. nvme_offset[x] = NoExtent => ~has_nvme_copy[x]
    BY Zenon DEF Works, EntryOK
  <2> QED
    BY <1>3, <2>1, SentinelAssumption, ZenonT(40) DEF FreeNvme, Goto, Works, ThreadOK,
       ThreadTypes, Mine, BufferLabels, AllocLabels, TransferLabels,
       FreeLabels, ClaimedAs, entryVars, memVars, WritePageOf
<1>4. CASE FreeNvmeEntry(t)
  BY <1>4, SentinelAssumption, Zenon DEF FreeNvmeEntry, Goto, Works, ThreadOK,
     ThreadTypes, Mine, BufferLabels, AllocLabels, TransferLabels,
     FreeLabels, ClaimedAs, EntryTypes, entryVars, memVars, WritePageOf
<1>5. CASE FreeNvmeBudget(t)
  BY <1>5, SentinelAssumption, Zenon DEF FreeNvmeBudget, Goto, Works, ThreadOK,
     ThreadTypes, Mine, BufferLabels, AllocLabels, TransferLabels,
     FreeLabels, ClaimedAs, entryVars, memVars, WritePageOf
<1>6. CASE FreeEnd(t)
  BY <1>6, ReturnMine, Zenon DEF FreeEnd, Works
<1> QED
  BY <1>1, <1>2, <1>3, <1>4, <1>5, <1>6, Zenon DEF FreeStep

\* claim_host_buffer, which claims no page.
LEMMA BufferMine ==
    ASSUME NEW t \in Threads, ThreadTypes, ThreadOK(t), BufferStep(t),
           NEW x
    PROVE  /\ Mine(t, x)
           /\ pc'[t] \notin TransferLabels \cup FreeLabels \cup AllocLabels
<1> USE DEF TransferLabels, FreeLabels, AllocLabels
<1>1. CASE Return(t)
  BY <1>1, ReturnMine, Zenon
<1>2. CASE \/ HostBufAllocate(t) \/ HostBufFull(t) \/ HostBufRank(t)
           \/ HostBufRetry(t)
  <2>1. /\ pc[t] \in {"hostBuf", "rank", "victims"}
        /\ pc'[t] \in {"haveBuf", "rank", "victims", "hostBuf"}
        /\ page'[t] = page[t] /\ task'[t] = task[t] /\ victim'[t] = victim[t]
        /\ issued' = issued
    BY <1>2, Zenon DEF HostBufAllocate, HostBufFull, HostBufRank, HostBufRetry,
       Goto, ThreadTypes
  <2> QED
    BY <2>1, Zenon DEF Mine, ThreadOK, BufferLabels
<1>3. CASE VictimCheck(t) /\ ~Return(t)
  <2>1. /\ pc[t] = "victimCheck" /\ pc'[t] \in {"hostBuf", "victims"}
        /\ page'[t] = page[t] /\ task'[t] = task[t] /\ victim'[t] = NoPage
        /\ issued' = issued
    BY <1>3, Zenon DEF VictimCheck, ThreadTypes
  <2> QED
    BY <2>1, Zenon DEF Mine, ThreadOK, BufferLabels
<1> QED
  BY <1>1, <1>2, <1>3, Zenon DEF BufferStep, HostBufGiveUp,
     HostBufUnused

\* allocate_page.
LEMMA AllocMine ==
    ASSUME NEW t \in Threads, NEW x, Works(t, x), AllocStep(t)
    PROVE  Mine(t, x)
BY SentinelAssumption, ZenonT(40) DEF AllocStep, AllocVramReserve, AllocVramDevice,
   AllocHostBuffer, AllocHostInsert, AllocNvme, Goto, Return, Works, ThreadOK,
   ThreadTypes, Mine, BufferLabels, AllocLabels, TransferLabels, FreeLabels,
   entryVars

-----------------------------------------------------------------------------
(* What a step does to its page and its thread.                            *)

\* No thread other than t owns page x or allocates it, and x is in flight only
\* if t owns it.
Exclusive(t, x) ==
    /\ in_flight[x] => t \in Threads /\ Owns(t, x)
    /\ \A u \in Threads \ {t} :
            ~Owns(u, x) /\ (pc[u] \in AllocLabels => page[u] # x)

\* Neither the table nor the memory of the tiers changes.
Quiet == UNCHANGED <<entryVars, memVars, ghostVars>>

\* What a step does: it concerns page x and, if t is one, thread t.
Effect(t, x) ==
    /\ x \in Pages /\ issued \subseteq issued'
    /\ \A u \in Threads \ {t} : SameLocals(u)
    /\ \A q \in Pages \ {x} : SameEntry(q) \/ LosesExtent(q)
    /\ EntryOK(x)' /\ LegalChange(x)
    /\ Quiet \/ Exclusive(t, x)
    /\ t \in Threads =>
        /\ Mine(t, x)
        /\ pc'[t] \in TransferLabels \cup FreeLabels \cup AllocLabels =>
                Exclusive(t, x)

-----------------------------------------------------------------------------
(* A step that names page p: a call, or a victim that is tried.            *)

\* What thread t finds when it names page p.
Names(t, p) ==
    /\ EntryTypes /\ MemoryTypes /\ ThreadTypes /\ ThreadOK(t)
    /\ p \in Pages /\ EntryOK(p)

\* The entry of p.
LEMMA CallEntry ==
    ASSUME NEW t \in Threads, NEW p, Names(t, p), PageStep(t, p)
    PROVE  EntryOK(p)'
<1>1. CASE \/ AllocatePage(t, p) \/ EvictVramToHost(t, p)
           \/ LoadNvmeToHost(t, p) \/ EvictHostSkip(t, p)
           \/ EvictHostThrows(t, p)
  BY <1>1, Zenon DEF AllocatePage, EvictVramToHost, LoadNvmeToHost,
     EvictHostSkip, EvictHostThrows, EntryOK, Names, entryVars, memVars
<1>2. CASE FreePage(t, p)
  BY <1>2 DEF FreePage, Claim, EntryOK, Names, EntryTypes, Resident,
     Transferring, memVars
<1>3. CASE PromoteHostToVram(t, p)
  BY <1>3, SentinelAssumption DEF PromoteHostToVram, Claim, Claimable,
     EntryOK, Names, EntryTypes, MemoryTypes, Transferring, Data
<1>4. CASE EvictHostClaim(t, p)
  BY <1>4 DEF EvictHostClaim, Claim, Claimable, NeedWrite, EntryOK, Names,
     EntryTypes, Transferring, memVars
<1>5. CASE EvictHostReserve(t, p)
  <2>1. PICK e \in Extents : ReserveNvmeRange(p, e)
    BY <1>5 DEF EvictHostReserve
  <2>2. nvme_offset'[p] # NoExtent /\ has_nvme_copy'[p] = has_nvme_copy[p]
    BY <2>1, Reserving DEF Names
  <2> QED
    BY <1>5, <2>2 DEF EvictHostReserve, Claim, Claimable, EntryOK, Names,
       EntryTypes, Transferring
<1> QED
  BY <1>1, <1>2, <1>3, <1>4, <1>5 DEF PageStep

\* The state of p.
LEMMA CallLegal ==
    ASSUME NEW t \in Threads, NEW p, Names(t, p), PageStep(t, p)
    PROVE  LegalChange(p)
<1>1. CASE UNCHANGED state
  BY <1>1 DEF LegalChange
<1>2. CASE FreePage(t, p)
  BY <1>2 DEF FreePage, Claim, Names, EntryTypes, Resident, LegalChange,
     TransitionAllowed
<1>3. CASE /\ Claimable(p, "ResidentHost")
           /\ \E to \in {"LoadingToVram", "EvictingToNvme"} : Claim(p, to)
  <2>1. /\ state[p] = "ResidentHost"
        /\ state'[p] \in {"LoadingToVram", "EvictingToNvme"}
    BY <1>3 DEF Claimable, Claim, Names, EntryTypes
  <2> QED
    BY <2>1 DEF LegalChange, TransitionAllowed
<1> QED
  BY <1>1, <1>2, <1>3, Zenon DEF PageStep, AllocatePage, EvictVramToHost,
     LoadNvmeToHost, PromoteHostToVram, EvictHostClaim, EvictHostReserve,
     EvictHostSkip, EvictHostThrows, entryVars

\* The locals of t.
LEMMA CallMine ==
    ASSUME NEW t \in Threads, NEW p, Names(t, p), PageStep(t, p)
    PROVE  Mine(t, p)
<1>1. CASE AllocatePage(t, p) /\ ChooseAllocationTier # "idle"
  <2>1. ChooseAllocationTier \in AllocLabels
    BY <1>1 DEF ChooseAllocationTier, AllocLabels
  <2>2. state'[p] = "Absent" /\ p \in issued'
    BY <1>1 DEF AllocatePage, entryVars, Names, EntryOK
  <2> QED
    BY <1>1, <2>1, <2>2 DEF AllocatePage, Call, Names, ThreadOK,
       ThreadTypes, Mine, BufferLabels, AllocLabels, TransferLabels,
       FreeLabels
<1>2. CASE AllocatePage(t, p) /\ ChooseAllocationTier = "idle"
  BY <1>2 DEF AllocatePage, threadVars, Names, ThreadOK, Mine, BufferLabels,
     AllocLabels, TransferLabels, FreeLabels
<1>3. CASE EvictVramToHost(t, p) \/ LoadNvmeToHost(t, p)
  BY <1>3, ZenonT(40) DEF EvictVramToHost, LoadNvmeToHost, EntryOK, Call, Names,
     ThreadOK, ThreadTypes, Mine, BufferLabels, AllocLabels, TransferLabels,
     FreeLabels
<1>4. CASE FreePage(t, p) \/ PromoteHostToVram(t, p)
  BY <1>4, SMTT(30) DEF FreePage, PromoteHostToVram, Claim, Claimable, Resident,
     EntryOK, EntryTypes, Call, Names, ThreadOK, ThreadTypes, Mine,
     BufferLabels, AllocLabels, TransferLabels, FreeLabels, ClaimedAs,
     WritePageOf
<1>5. CASE EvictHostClaim(t, p) \/ EvictHostReserve(t, p)
  <2>1. /\ state'[p] = "EvictingToNvme" /\ in_flight'[p] /\ p \in issued
        /\ issued' = issued
        /\ CallEvictHost(t, p, "write") \/ CallEvictHost(t, p, "writeDone")
    BY <1>5 DEF EvictHostClaim, EvictHostReserve, Claim, Claimable, Names,
       EntryTypes, EntryOK
  <2> QED
    BY <2>1, SentinelAssumption, ZenonT(40) DEF CallEvictHost, Call, Names, ThreadOK,
       ThreadTypes, Mine, BufferLabels, AllocLabels, TransferLabels,
       FreeLabels, ClaimedAs, WritePageOf
<1>6. CASE EvictHostSkip(t, p)
  <2>1. /\ pc[t] = "victims" /\ pc'[t] = "victimCheck" /\ victim'[t] = p
        /\ page'[t] = page[t] /\ task'[t] = task[t] /\ issued' = issued
    BY <1>6 DEF EvictHostSkip, CallEvictHost, Call, Names, ThreadTypes
  <2> QED
    BY <2>1, SentinelAssumption DEF Names, ThreadOK, Mine, BufferLabels,
       AllocLabels, TransferLabels, FreeLabels
<1>7. CASE EvictHostThrows(t, p)
  BY <1>7, ReturnMine DEF EvictHostThrows, Names
<1> QED
  BY <1>1, <1>2, <1>3, <1>4, <1>5, <1>6, <1>7 DEF PageStep

-----------------------------------------------------------------------------
(* The operations that are one critical section.                           *)

\* write_page, a clean drop and a change of the pin.
LEMMA CallerEntry ==
    ASSUME EntryTypes, MemoryTypes, NEW p \in Pages, EntryOK(p), CallerStep(p)
    PROVE  EntryOK(p)' /\ LegalChange(p)
<1> USE SentinelAssumption DEF EntryOK, EntryTypes, MemoryTypes, LegalChange
<1>1. ASSUME NEW v \in Values, WritePage(p, v)
      PROVE  EntryOK(p)' /\ LegalChange(p)
  BY <1>1, SMTT(30) DEF WritePage, CopyIn, Data
<1>2. ASSUME NEW v \in Values, WritePageFails(p, v)
      PROVE  EntryOK(p)' /\ LegalChange(p)
  BY <1>2 DEF WritePageFails, Data, entryVars
<1>3. CASE CleanDrop(p)
  BY <1>3 DEF CleanDrop, Claimable, Transferring, TransitionAllowed
<1>4. ASSUME NEW b \in BOOLEAN, Pin(p, b)
      PROVE  EntryOK(p)' /\ LegalChange(p)
  BY <1>4 DEF Pin, entryVars, memVars
<1> HIDE DEF EntryOK, LegalChange
<1> QED
  BY <1>1, <1>2, <1>3, <1>4, Zenon DEF CallerStep

-----------------------------------------------------------------------------
(* Steps of one thread, as the others see them.                            *)

\* A thread that owns x, that allocates x, or that finds x unclaimed or not
\* yet handed out, is alone with it.
LEMMA Alone ==
    ASSUME Shape, NEW t, NEW x \in Pages,
           \/ t \in Threads /\ Owns(t, x)
           \/ t \in Threads /\ pc[t] \in AllocLabels /\ x = page[t]
           \/ ~in_flight[x] /\ state[x] # "Absent"
           \/ x \notin issued
    PROVE  Exclusive(t, x)
<1>1. in_flight[x] => state[x] # "Absent" /\ x \in issued
  BY Zenon DEF Shape, EntryShape, EntryOK, Transferring
<1>2. t \in Threads /\ pc[t] \in AllocLabels => state[page[t]] = "Absent"
  BY Zenon DEF Shape, ThreadShape, ThreadOK, AllocLabels
<1>3. in_flight[x] => t \in Threads /\ Owns(t, x)
  BY <1>1, <1>2, Zenon
<1>4. ASSUME NEW u \in Threads \ {t}
      PROVE  ~Owns(u, x) /\ (pc[u] \in AllocLabels => page[u] # x)
  <2>1. /\ Owns(u, x) => in_flight[x] /\ state[x] = ClaimedAs(pc[u])
        /\ t \in Threads /\ Owns(t, x) => ~Owns(u, x) /\ in_flight[x]
    BY Zenon DEF Shape, ClaimsExclusive
  <2>2. /\ pc[u] \in AllocLabels =>
              page[u] \in issued /\ state[page[u]] = "Absent"
        /\ /\ t \in Threads /\ pc[t] \in AllocLabels
           /\ pc[u] \in AllocLabels /\ page[t] = page[u]
           => t = u
    BY Zenon DEF Shape, ThreadShape, ThreadOK, AllocLabels
  <2> QED
    BY <1>1, <1>2, <2>1, <2>2, Zenon
<1> QED
  BY <1>3, <1>4, Zenon DEF Exclusive

\* The entry a thread does not touch stays well-formed.
LEMMA OtherEntryOK ==
    ASSUME NEW q \in Pages, EntryOK(q), SameEntry(q) \/ LosesExtent(q)
    PROVE  EntryOK(q)'
<1>1. CASE SameEntry(q)
  BY <1>1, Zenon DEF EntryOK, SameEntry
<1>2. CASE LosesExtent(q)
  BY <1>2, Zenon DEF EntryOK, LosesExtent, Transferring
<1> QED
  BY <1>1, <1>2, Zenon

\* A thread whose locals and whose entry, as far as it relies on one, did not
\* change is still well-formed.
LEMMA OtherThreadOK ==
    ASSUME NEW u \in Threads, ThreadOK(u), SameLocals(u),
           issued \subseteq issued',
           pc[u] \in FreeLabels \cup AllocLabels => SameEntry(page[u])
    PROVE  ThreadOK(u)'
BY DEF ThreadOK, SameLocals, SameEntry, FreeLabels, AllocLabels, BufferLabels

\* A step with an effect on x and t keeps the pages of the other threads.
LEMMA OthersKept ==
    ASSUME Shape, NEW t, NEW x, Effect(t, x), NEW u \in Threads \ {t}
    PROVE  /\ \A q : Owns(u, q)' <=> Owns(u, q)
           /\ \A q \in Pages : Owns(u, q) => SameEntry(q)
           /\ pc[u] \in FreeLabels \cup AllocLabels => SameEntry(page[u])
           /\ ThreadOK(u)'
<1>1. /\ SameLocals(u) /\ issued \subseteq issued'
      /\ SameEntry(x) \/ Exclusive(t, x)
  BY Zenon DEF Effect, Quiet, SameEntry, entryVars, memVars
<1>2. \A q : Owns(u, q)' <=> Owns(u, q)
  BY <1>1, Zenon DEF SameLocals, Owns, WritePageOf
<1>3. ASSUME NEW q \in Pages, Owns(u, q) PROVE SameEntry(q)
  <2>1. q = x => SameEntry(q)
    BY <1>1, <1>3, Zenon DEF Exclusive
  <2>2. in_flight[q]
    BY <1>3, Zenon DEF Shape, ClaimsExclusive
  <2> QED
    BY <2>1, <2>2, Zenon DEF Effect, LosesExtent
<1>4. CASE pc[u] \in AllocLabels
  <2>1. page[u] \in Pages /\ state[page[u]] = "Absent"
    BY <1>4, Zenon DEF Shape, TypeOK, ThreadShape, ThreadOK, AllocLabels
  <2>2. page[u] = x => SameEntry(page[u])
    BY <1>1, <1>4, Zenon DEF Exclusive
  <2> QED
    BY <1>1, <1>2, <1>3, <1>4, <2>1, <2>2, OtherThreadOK, Zenon DEF Effect,
       LosesExtent, Shape, ThreadShape
<1>5. CASE pc[u] \in FreeLabels
  <2>1. Works(u, WritePageOf(u))
    BY <1>5, Working, Zenon DEF FreeLabels
  <2>2. page[u] \in Pages /\ Owns(u, page[u])
    BY <1>5, <2>1, Zenon DEF Works, Owns, FreeLabels
  <2> QED
    BY <1>1, <1>2, <1>3, <2>2, OtherThreadOK, Zenon DEF Shape, ThreadShape
<1>6. CASE pc[u] \notin FreeLabels \cup AllocLabels
  BY <1>1, <1>2, <1>3, <1>6, OtherThreadOK, Zenon DEF Shape, ThreadShape
<1> QED
  BY <1>4, <1>5, <1>6, Zenon

\* So it keeps the shape, and every state change is legal.
LEMMA ShapeKept ==
    ASSUME Shape, TypeOK', NEW t, NEW x, Effect(t, x)
    PROVE  Shape' /\ \A q \in Pages : LegalChange(q)
<1>1. EntryShape'
  BY OtherEntryOK, Zenon DEF Shape, EntryShape, Effect
<1>2. ASSUME NEW u \in Threads, NEW q \in Pages, Owns(u, q)'
      PROVE  /\ in_flight'[q] /\ state'[q] = ClaimedAs(pc'[u])
             /\ u # t => Owns(u, q)
             /\ u = t => q = x /\ Exclusive(t, x)
  <2>1. CASE u = t
    BY <1>2, <2>1, Zenon DEF Effect, Mine, Owns
  <2>2. CASE u # t
    <3>1. Owns(u, q) /\ SameEntry(q)
      BY <1>2, <2>2, OthersKept, Zenon
    <3>2. in_flight[q] /\ state[q] = ClaimedAs(pc[u])
      BY <3>1, Zenon DEF Shape, ClaimsExclusive
    <3>3. pc'[u] = pc[u]
      BY <2>2, Zenon DEF Effect, SameLocals
    <3> QED
      BY <2>2, <3>1, <3>2, <3>3, Zenon DEF SameEntry
  <2> QED
    BY <2>1, <2>2, Zenon
<1>3. ClaimsExclusive'
  <2>1. ASSUME NEW u \in Threads, NEW w \in Threads, NEW q \in Pages,
               Owns(u, q)', Owns(w, q)'
        PROVE  u = w
    BY <1>2, <2>1, ZenonT(40) DEF Exclusive, Shape, ClaimsExclusive
  <2> QED
    BY <1>2, <2>1, Zenon DEF ClaimsExclusive
<1>4. ThreadShape'
  <2>1. \A u \in Threads : ThreadOK(u)'
    BY OthersKept, Zenon DEF Effect, Mine
  <2>2. ASSUME NEW u \in Threads, pc'[u] \in AllocLabels
        PROVE  /\ u # t => pc[u] \in AllocLabels /\ page'[u] = page[u]
               /\ u = t => page'[u] = x /\ Exclusive(t, x)
    BY <2>2, Zenon DEF Effect, Mine, SameLocals
  <2>3. ASSUME NEW u \in Threads, NEW w \in Threads,
               pc'[u] \in AllocLabels, pc'[w] \in AllocLabels,
               page'[u] = page'[w]
        PROVE  u = w
    BY <2>2, <2>3, Zenon DEF Exclusive, Shape, ThreadShape
  <2> QED
    BY <2>1, <2>3, Zenon DEF ThreadShape
<1>5. \A q \in Pages : LegalChange(q)
  BY Zenon DEF Effect, SameEntry, LosesExtent, LegalChange
<1> QED
  BY <1>1, <1>3, <1>4, <1>5, Zenon DEF Shape

-----------------------------------------------------------------------------
(* Every step has such an effect.                                          *)

\* A thread that takes a step inside a function works on its page.
LEMMA StepWorks ==
    ASSUME Shape, NEW t \in Threads, Step(t)
    PROVE  Works(t, WritePageOf(t))
<1>1. pc[t] # "idle"
  BY Control, Zenon DEF BufferStep, HostBufAllocate, HostBufFull,
     HostBufRank, VictimCheck, HostBufRetry, HostBufGiveUp, HostBufUnused
<1> QED
  BY <1>1, Working, Zenon

\* A step inside a function.
LEMMA StepEffect ==
    ASSUME Shape, NEW t \in Threads, Step(t), NEW x, x = WritePageOf(t)
    PROVE  Effect(t, x)
<1>1. Works(t, x) /\ ThreadTypes /\ ThreadOK(t)
  BY StepWorks, Zenon DEF Works
<1>2. x \in Pages /\ issued \subseteq issued' /\ EntryOK(x)
  BY <1>1, StepSets, Zenon DEF Works
<1>3. \A u \in Threads \ {t} : SameLocals(u)
  BY <1>1, Control, ContinueLocals, BufferControl, Zenon
<1>4. \A q \in Pages \ {x} : SameEntry(q) \/ LosesExtent(q)
  BY <1>1, StepFrame, Zenon
<1>5. CASE BufferStep(t)
  <2>1. SameEntry(x) /\ EntryOK(x)'
    BY <1>2, <1>5, BufferFrame, OtherEntryOK, Zenon
  <2>2. LegalChange(x)
    BY <2>1, Zenon DEF SameEntry, LegalChange
  <2>3. /\ Mine(t, x)
        /\ pc'[t] \notin TransferLabels \cup FreeLabels \cup AllocLabels
    BY <1>1, <1>5, BufferMine, Zenon
  <2>4. Quiet
    BY <1>5, Zenon DEF BufferStep, HostBufAllocate, HostBufFull, HostBufRank,
       VictimCheck, HostBufRetry, HostBufGiveUp, HostBufUnused, Quiet
  <2> QED
    BY <1>2, <1>3, <1>4, <2>1, <2>2, <2>3, <2>4, Zenon DEF Effect
<1>6. CASE ~BufferStep(t)
  <2>1. EntryOK(x)'
    BY <1>1, <1>6, EvictVramEntry, LoadEntry, PromoteEntry, EvictHostEntry,
       AllocEntry, FreeEntry, Zenon DEF Step
  <2>2. LegalChange(x)
    BY <1>1, <1>6, EvictVramLegal, LoadLegal, PromoteLegal, EvictHostLegal,
       AllocLegal, FreeLegal, Zenon DEF Step
  <2>3. Mine(t, x)
    BY <1>1, <1>6, EvictVramMine, LoadMine, PromoteMine, EvictHostMine,
       AllocMine, FreeMine, Zenon DEF Step
  <2>4. \/ pc[t] \in TransferLabels \cup FreeLabels
        \/ pc[t] \in AllocLabels
        \/ /\ pc[t] = "haveBuf"
           /\ \E from \in Resident : Claimable(page[t], from)
    BY <1>6, Zenon DEF Step, EvictVramStep, LoadStep, PromoteStep,
       EvictHostStep, AllocStep, FreeStep, EvictVramClaim, EvictVramCopy,
       EvictVramCopyFails, EvictVramDone, LoadClaim, LoadRead,
       LoadReadFails, LoadDone, PromoteCopy, PromoteCopyFails, PromoteDone,
       EvictHostWrite, EvictHostWriteFails, EvictHostDone,
       AllocVramReserve, AllocVramDevice, AllocHostBuffer, AllocHostInsert,
       AllocNvme, FreeVram, FreeVramBudget, FreeHost, FreeNvme,
       FreeNvmeEntry, FreeNvmeBudget, FreeEnd, TransferLabels, FreeLabels,
       AllocLabels, Resident
  <2>5. Exclusive(t, x)
    <3>1. CASE pc[t] \in TransferLabels \cup FreeLabels
      BY <1>2, <3>1, Alone, Zenon DEF Owns
    <3>2. CASE pc[t] \in AllocLabels
      <4>1. x = page[t]
        BY <1>1, <3>2, Zenon DEF Works, AllocLabels
      <4> QED
        BY <1>2, <3>2, <4>1, Alone, Zenon
    <3>3. CASE /\ pc[t] = "haveBuf"
               /\ \E from \in Resident : Claimable(page[t], from)
      <4>1. x = page[t] /\ ~in_flight[x] /\ state[x] # "Absent"
        BY <1>1, <3>3, Zenon DEF Works, Claimable, Resident
      <4> QED
        BY <1>2, <4>1, Alone, Zenon
    <3> QED
      BY <2>4, <3>1, <3>2, <3>3, Zenon
  <2> QED
    BY <1>2, <1>3, <1>4, <2>1, <2>2, <2>3, <2>5, Zenon DEF Effect
<1> QED
  BY <1>5, <1>6, Zenon

\* A step that names a page.
LEMMA CallEffect ==
    ASSUME Shape, NEW t \in Threads, NEW p \in Pages, PageStep(t, p)
    PROVE  Effect(t, p)
<1>1. Names(t, p)
  BY Zenon DEF Shape, TypeOK, ThreadShape, EntryShape, Names
<1>2. EntryTypes /\ MemoryTypes /\ ThreadTypes
  BY <1>1, Zenon DEF Names
<1>3. EntryOK(p)' /\ LegalChange(p) /\ Mine(t, p)
  BY <1>1, CallEntry, CallLegal, CallMine, Zenon
<1>4. \A u \in Threads \ {t} : SameLocals(u)
  BY <1>2, CallControl, Zenon
<1>5. \A q \in Pages \ {p} : SameEntry(q) \/ LosesExtent(q)
  BY <1>2, CallFrame, Zenon
<1>6. issued \subseteq issued'
  <2>1. CASE AllocatePage(t, p)
    BY <2>1, Zenon DEF AllocatePage
  <2>2. CASE issued' = issued
    BY <2>2, Zenon
  <2> QED
    BY <2>1, <2>2, Zenon DEF PageStep, FreePage, EvictVramToHost,
       LoadNvmeToHost, PromoteHostToVram, EvictHostClaim, EvictHostReserve,
       EvictHostSkip, EvictHostThrows
<1>7. \/ Exclusive(t, p)
      \/ /\ Quiet
         /\ pc'[t] \notin TransferLabels \cup FreeLabels \cup AllocLabels
  <2>1. CASE AllocatePage(t, p)
    BY <2>1, Alone, Zenon DEF AllocatePage
  <2>2. CASE FreePage(t, p)
    <3>1. ~in_flight[p] /\ state[p] # "Absent"
      BY <1>1, <2>2, Zenon DEF FreePage, Names, EntryOK, Resident,
         Transferring
    <3> QED
      BY <3>1, Alone, Zenon
  <2>3. CASE Claimable(p, "ResidentHost")
    BY <2>3, Alone, Zenon DEF Claimable
  <2>4. CASE EvictVramToHost(t, p) \/ LoadNvmeToHost(t, p)
    BY <1>2, <2>4, Zenon DEF EvictVramToHost, LoadNvmeToHost, Call,
       ThreadTypes, Quiet, TransferLabels, FreeLabels, AllocLabels
  <2>5. CASE EvictHostThrows(t, p)
    <3>1. pc'[t] = "idle"
      BY <1>2, <2>5, ReturnMine, Zenon DEF EvictHostThrows
    <3>2. Quiet
      BY <2>5, Zenon DEF EvictHostThrows, Quiet
    <3> QED
      BY <3>1, <3>2, Zenon DEF TransferLabels, FreeLabels, AllocLabels
  <2>6. CASE EvictHostSkip(t, p)
    <3>1. pc'[t] = "victimCheck"
      BY <1>2, <2>6, Zenon DEF EvictHostSkip, CallEvictHost, Call,
         ThreadTypes
    <3>2. Quiet
      BY <2>6, Zenon DEF EvictHostSkip, Quiet
    <3> QED
      BY <3>1, <3>2, Zenon DEF TransferLabels, FreeLabels, AllocLabels
  <2> QED
    BY <2>1, <2>2, <2>3, <2>4, <2>5, <2>6, Zenon DEF PageStep,
       PromoteHostToVram, EvictHostClaim, EvictHostReserve
<1> QED
  BY <1>3, <1>4, <1>5, <1>6, <1>7, Zenon DEF Effect

\* write_page, a clean drop and a change of the pin.
LEMMA CallerEffect ==
    ASSUME Shape, NEW p \in Pages, CallerStep(p)
    PROVE  Effect(NoThread, p)
<1>1. EntryTypes /\ MemoryTypes /\ EntryOK(p)
  BY Zenon DEF Shape, TypeOK, EntryShape
<1>2. EntryOK(p)' /\ LegalChange(p)
  BY <1>1, CallerEntry, Zenon
<1>3. \A q \in Pages \ {p} : SameEntry(q)
  BY <1>1, CallerFrame, Zenon
<1>4. issued' = issued /\ \A u \in Threads : SameLocals(u)
  BY Zenon DEF CallerStep, WritePage, WritePageFails, CleanDrop, Pin,
     threadVars, SameLocals
<1>5. Quiet \/ Exclusive(NoThread, p)
  <2>1. ASSUME NEW b \in BOOLEAN, Pin(p, b) PROVE Quiet
    BY <2>1, Zenon DEF Pin, Quiet
  <2>2. CASE state[p] \in {"ResidentVram", "ResidentHost"}
    BY <1>1, <2>2, Alone, Zenon DEF EntryOK, Transferring
  <2> QED
    BY <2>1, <2>2, Zenon DEF CallerStep, WritePage, WritePageFails, CopyIn,
       CleanDrop, Claimable
<1> QED
  BY <1>2, <1>3, <1>4, <1>5, SentinelAssumption, Zenon DEF Effect

-----------------------------------------------------------------------------
(* The theorems.                                                           *)

\* The page table and the threads have their shape when the runtime starts.
LEMMA InitShape == Init => Shape
<1> SUFFICES ASSUME Init PROVE Shape
  OBVIOUS
<1>1. TypeOK
  <2>1. EntryTypes
    BY Zenon DEF Init, EntryTypes, TableState
  <2>2. MemoryTypes
    BY DEF Init, MemoryTypes, Data
  <2>3. ThreadTypes
    BY Zenon DEF Init, ThreadTypes, Labels
  <2> QED
    BY <2>1, <2>2, <2>3, Zenon DEF Init, TypeOK
<1>2. ThreadShape
  BY Zenon DEF Init, ThreadShape, ThreadOK, BufferLabels, AllocLabels
<1>3. EntryShape
  BY Zenon DEF Init, EntryShape, EntryOK, Transferring
<1>4. ClaimsExclusive
  BY Zenon DEF Init, ClaimsExclusive, Owns, TransferLabels, FreeLabels
<1> QED
  BY <1>1, <1>2, <1>3, <1>4, Zenon DEF Shape

\* A stuttering step keeps it.
LEMMA StutterShape == Shape /\ UNCHANGED vars => Shape'
<1> SUFFICES ASSUME Shape, UNCHANGED vars PROVE Shape'
  OBVIOUS
<1> USE DEF vars, entryVars, memVars, budgetVars, threadVars, ghostVars
<1>1. TypeOK'
  BY Zenon DEF Shape, TypeOK, EntryTypes, MemoryTypes, ThreadTypes
<1>2. ThreadShape'
  BY Zenon DEF Shape, ThreadShape, ThreadOK
<1>3. EntryShape'
  BY Zenon DEF Shape, EntryShape, EntryOK
<1>4. ClaimsExclusive'
  BY ZenonT(40) DEF Shape, ClaimsExclusive, Owns, WritePageOf
<1> QED
  BY <1>1, <1>2, <1>3, <1>4, Zenon DEF Shape

\* Every step of every thread and caller keeps it, and changes states legally.
LEMMA NextShape ==
    ASSUME Shape, Next
    PROVE  Shape' /\ \A q \in Pages : LegalChange(q)
<1>1. ASSUME NEW t \in Threads, Step(t)
      PROVE  Shape' /\ \A q \in Pages : LegalChange(q)
  <2>1. PICK x : x = WritePageOf(t)
    OBVIOUS
  <2>2. Effect(t, x)
    BY <1>1, <2>1, StepEffect, Zenon
  <2>3. TypeOK'
    BY <1>1, <2>2, TypeStep, Zenon DEF Effect
  <2> QED
    BY <2>2, <2>3, ShapeKept, Zenon
<1>2. ASSUME NEW t \in Threads, NEW p \in Pages, PageStep(t, p)
      PROVE  Shape' /\ \A q \in Pages : LegalChange(q)
  BY <1>2, TypeStep, CallEffect, ShapeKept, Zenon
<1>3. ASSUME NEW p \in Pages, CallerStep(p)
      PROVE  Shape' /\ \A q \in Pages : LegalChange(q)
  <2>1. TypeOK'
    BY <1>3, CallerTypes, Zenon DEF Shape
  <2> QED
    BY <1>3, <2>1, CallerEffect, ShapeKept, Zenon
<1>4. CASE Exhausted
  BY <1>4, StutterShape, Zenon DEF Exhausted, LegalChange, vars, entryVars
<1> QED
  BY <1>1, <1>2, <1>3, <1>4, Zenon DEF Next, CallerStep

\* Shape is an invariant of the page table and its threads.
THEOREM ShapeInvariant == Spec => []Shape
<1>1. Shape /\ [Next]_vars => Shape'
  BY NextShape, StutterShape, Zenon
<1> QED
  BY <1>1, InitShape, PTL DEF Spec

\* Every variable of the page table, the tiers and the threads keeps its type,
\* in particular nvme_offset, which indexes the store, and page and victim,
\* which index the table.
THEOREM TypeCorrect == Spec => []TypeOK
<1>1. Shape => TypeOK
  BY Zenon DEF Shape
<1> QED
  BY <1>1, ShapeInvariant, PTL

\* Claims are exclusive however many callers and workers run: a page that one
\* thread copies, completes or releases (evict_vram_to_host,
\* evict_host_to_nvme, load_nvme_to_host, promote_host_to_vram, free_page) is
\* in flight in that thread's state, and no other thread works on it.
THEOREM ClaimsAreExclusive == Spec => []ClaimsExclusive
<1>1. Shape => ClaimsExclusive
  BY Zenon DEF Shape
<1> QED
  BY <1>1, ShapeInvariant, PTL

\* A settled page has memory in its own tier and in no other, after any
\* sequence of transfers, failures and clean drops.
THEOREM OneCopyIsAuthoritative == Spec => []OneAuthoritativeCopy
<1>1. Shape => OneAuthoritativeCopy
  BY Zenon DEF Shape, EntryShape, EntryOK, OneAuthoritativeCopy, Transferring
<1> QED
  BY <1>1, ShapeInvariant, PTL

\* Every state change is one that transition() accepts, the clean drop only
\* with a valid store copy: its State and Invariant errors cannot occur.
THEOREM TransitionsAreLegal == Spec => TransitionsLegal
<1>1. Shape /\ [Next]_vars => [\A p \in Pages : LegalChange(p)]_vars
  BY NextShape, Zenon
<1> QED
  BY <1>1, ShapeInvariant, PTL DEF Spec, TransitionsLegal

-----------------------------------------------------------------------------
(* What the tiers and the store contain.  An extent changes hands only in  *)
(* reserve_nvme_range_locked and in free_page, and only a thread that owns *)
(* a page writes the page's extent.  So the content of a page a step does  *)
(* not work on stays as it was, and for the page it works on we show that  *)
(* the copy that becomes authoritative equals the one that was (Outcome).  *)

\* A step of thread t inside a function or with a call that names x, or an
\* operation on x that is one critical section.
Acts(t, x) ==
    \/ t \in Threads /\ Step(t) /\ x = WritePageOf(t)
    \/ t \in Threads /\ x \in Pages /\ PageStep(t, x)
    \/ t = NoThread /\ x \in Pages /\ CallerStep(x)

\* Every step that names a page and a thread has such an effect.
LEMMA ActsEffect ==
    ASSUME Shape, NEW t, NEW x, Acts(t, x)
    PROVE  Effect(t, x)
BY StepEffect, CallEffect, CallerEffect, Zenon DEF Acts

\* Every step of the runtime is of this kind.
LEMMA NextActs ==
    ASSUME Next
    PROVE  UNCHANGED vars \/ \E t, x : Acts(t, x)
<1>1. ASSUME NEW t \in Threads, Step(t) PROVE \E u, x : Acts(u, x)
  BY <1>1, Zenon DEF Acts
<1>2. ASSUME NEW t \in Threads, NEW p \in Pages, PageStep(t, p)
      PROVE  \E u, x : Acts(u, x)
  BY <1>2, Zenon DEF Acts
<1>3. ASSUME NEW p \in Pages, CallerStep(p) PROVE \E u, x : Acts(u, x)
  BY <1>3, Zenon DEF Acts
<1> QED
  BY <1>1, <1>2, <1>3, Zenon DEF Next, CallerStep, Exhausted

-----------------------------------------------------------------------------
(* Extents.                                                                *)

\* No thread is between free_extents and the update of the entry of q, for a
\* page that is not being released.
LEMMA NotGivenBack ==
    ASSUME Shape, NEW q \in Pages, state[q] # "Released",
           nvme_offset[q] # NoExtent
    PROVE  HasExtent(q)
<1>1. ASSUME NEW u \in Threads, pc[u] = "freeNvmeEntry", page[u] = q
      PROVE  FALSE
  <2>1. Works(u, WritePageOf(u))
    BY <1>1, Working, Zenon
  <2>2. Owns(u, q)
    BY <1>1, <2>1, Zenon DEF Works, Owns, FreeLabels
  <2>3. state[q] = ClaimedAs("freeNvmeEntry")
    BY <1>1, <2>2, Zenon DEF Shape, ClaimsExclusive
  <2> QED
    BY <2>3, Zenon DEF ClaimedAs
<1> QED
  BY <1>1, Zenon DEF HasExtent

\* How a step changes the extents: not at all, by a reservation for page x, or
\* by the two steps with which free_page gives an extent back.
SameExtents(t) ==
    /\ UNCHANGED <<nvme_offset, free_list>>
    /\ t \in Threads => pc[t] # "freeNvmeEntry" /\ pc'[t] # "freeNvmeEntry"

Reserves(t, x) ==
    /\ nvme_offset[x] = NoExtent
    /\ \E e \in Extents : ReserveNvmeRange(x, e)
    /\ t \in Threads /\ pc[t] # "freeNvmeEntry" /\ pc'[t] # "freeNvmeEntry"

\* Steps inside a function.
LEMMA StepExtents ==
    ASSUME NEW t \in Threads, NEW x, Works(t, x), Step(t)
    PROVE  \/ SameExtents(t) \/ Reserves(t, x)
           \/ FreeNvme(t) \/ FreeNvmeEntry(t)
<1> USE DEF SameExtents
<1>1. pc \in [Threads -> Labels]
  BY Zenon DEF Works, ThreadTypes
<1>2. CASE BufferStep(t)
  BY <1>1, <1>2, Zenon DEF BufferStep, HostBufAllocate, HostBufFull,
     HostBufRank, VictimCheck, HostBufRetry, HostBufGiveUp, HostBufUnused,
     Goto, Return, entryVars, memVars
<1>3. CASE EvictVramStep(t)
  BY <1>1, <1>3, Zenon DEF EvictVramStep, EvictVramClaim, EvictVramCopy,
     EvictVramCopyFails, EvictVramDone, Goto, Return, entryVars, memVars
<1>4. CASE LoadStep(t)
  BY <1>1, <1>4, Zenon DEF LoadStep, LoadClaim, LoadRead, LoadReadFails,
     LoadDone, Goto, Return, entryVars, memVars
<1>5. CASE PromoteStep(t)
  BY <1>1, <1>5, Zenon DEF PromoteStep, PromoteCopy, PromoteCopyFails,
     PromoteDone, Goto, Return, entryVars, memVars
<1>6. CASE EvictHostStep(t)
  BY <1>1, <1>6, Zenon DEF EvictHostStep, EvictHostWrite,
     EvictHostWriteFails, EvictHostDone, Goto, Return, entryVars, memVars
<1>7. CASE AllocStep(t) /\ ~AllocNvme(t)
  BY <1>1, <1>7, Zenon DEF AllocStep, AllocVramReserve, AllocVramDevice,
     AllocHostBuffer, AllocHostInsert, Goto, Return, entryVars, memVars
<1>8. CASE AllocNvme(t)
  <2>1. x = page[t] /\ nvme_offset[x] = NoExtent
    BY <1>8, Zenon DEF AllocNvme, Works, ThreadOK, AllocLabels, EntryOK
  <2>2. pc[t] # "freeNvmeEntry" /\ pc'[t] # "freeNvmeEntry"
    BY <1>1, <1>8, Zenon DEF AllocNvme, Return
  <2> QED
    BY <1>8, <2>1, <2>2, Zenon DEF AllocNvme, Reserves
<1>9. CASE FreeStep(t) /\ ~FreeNvme(t) /\ ~FreeNvmeEntry(t)
  BY <1>1, <1>9, Zenon DEF FreeStep, FreeVram, FreeVramBudget, FreeHost,
     FreeNvmeBudget, FreeEnd, Goto, ReleaseFailed, Return, entryVars, memVars
<1> QED
  BY <1>2, <1>3, <1>4, <1>5, <1>6, <1>7, <1>8, <1>9, Zenon DEF Step,
     AllocStep, FreeStep

\* Steps that name a page.
LEMMA CallExtents ==
    ASSUME ThreadTypes, NEW t \in Threads, NEW p \in Pages, PageStep(t, p)
    PROVE  SameExtents(t) \/ Reserves(t, p)
<1>1. pc \in [Threads -> Labels]
  BY Zenon DEF ThreadTypes
<1>2. pc[t] # "freeNvmeEntry" /\ pc'[t] # "freeNvmeEntry"
  <2>1. CASE AllocatePage(t, p)
    BY <1>1, <2>1, Zenon DEF AllocatePage, ChooseAllocationTier, Call,
       threadVars
  <2>2. CASE ~AllocatePage(t, p)
    BY <1>1, <2>2, Zenon DEF PageStep, FreePage, EvictVramToHost,
       LoadNvmeToHost, PromoteHostToVram, EvictHostClaim, EvictHostReserve,
       EvictHostSkip, EvictHostThrows, CallEvictHost, Call, Return
  <2> QED
    BY <2>1, <2>2, Zenon
<1>3. CASE EvictHostReserve(t, p)
  BY <1>2, <1>3, Zenon DEF EvictHostReserve, Reserves
<1>4. CASE ~EvictHostReserve(t, p)
  BY <1>2, <1>4, Zenon DEF PageStep, AllocatePage, FreePage,
     EvictVramToHost, LoadNvmeToHost, PromoteHostToVram, EvictHostClaim,
     EvictHostSkip, EvictHostThrows, SameExtents, entryVars, memVars
<1> QED
  BY <1>3, <1>4, Zenon

\* Operations of one critical section.
LEMMA CallerExtents ==
    ASSUME NEW p \in Pages, CallerStep(p)
    PROVE  SameExtents(NoThread)
BY SentinelAssumption, Zenon DEF CallerStep, WritePage, WritePageFails,
   CleanDrop, Pin, SameExtents, entryVars, memVars

\* Extent f is the extent of some page.
InUse(f) == \E q \in Pages : HasExtent(q) /\ nvme_offset[q] = f

\* ExtentsExclusive, extent by extent.
ExtentByExtent ==
    /\ \A p, q \in Pages :
            /\ HasExtent(p) /\ HasExtent(q)
            /\ nvme_offset[p] = nvme_offset[q]
            => p = q
    /\ \A f : f \in free_list <=> f \in Extents /\ ~InUse(f)

\* Extent by extent: at most one page has it, and it is free if none has.
LEMMA FreeList ==
    /\ ExtentsExclusive <=> ExtentByExtent
    /\ ExtentsExclusive' <=> ExtentByExtent'
<1>1. ExtentsExclusive <=> ExtentByExtent
  <2>1. \A f : f \in {nvme_offset[p] : p \in {q \in Pages : HasExtent(q)}}
               <=> InUse(f)
    BY Zenon DEF InUse
  <2> QED
    BY <2>1, Zenon DEF ExtentsExclusive, ExtentByExtent
<1> QED
  BY <1>1, PTL

\* Another thread gives back the same page after the step as before.
LEMMA OthersGiveBack ==
    ASSUME NEW t, \A u \in Threads \ {t} : SameLocals(u), NEW q \in Pages,
           t \in Threads =>
                /\ pc[t] = "freeNvmeEntry" => page[t] # q
                /\ pc'[t] = "freeNvmeEntry" => page'[t] # q
    PROVE  HasExtent(q)' <=>
                /\ nvme_offset'[q] # NoExtent
                /\ nvme_offset[q] # NoExtent => HasExtent(q)
                /\ ~\E u \in Threads : pc[u] = "freeNvmeEntry" /\ page[u] = q
BY Zenon DEF HasExtent, SameLocals

\* A step that leaves the extents alone.
LEMMA ExtentsSame ==
    ASSUME ExtentsExclusive, NEW t, \A u \in Threads \ {t} : SameLocals(u),
           SameExtents(t)
    PROVE  ExtentsExclusive'
<1>1. \A q \in Pages : HasExtent(q)' <=> HasExtent(q)
  BY OthersGiveBack, Zenon DEF SameExtents, HasExtent
<1> QED
  BY <1>1, Zenon DEF SameExtents, ExtentsExclusive

\* reserve_nvme_range_locked: x gets an extent that was free, or that was the
\* extent of the page it was reclaimed from.
LEMMA ReserveHolders ==
    ASSUME Shape, NEW t, NEW x \in Pages, Reserves(t, x),
           \A u \in Threads \ {t} : SameLocals(u),
           NEW q \in Pages
    PROVE  HasExtent(q)' <=> q = x \/ (HasExtent(q) /\ q \notin Reclaimed(x))
<1>1. PICK e \in Extents : ReserveNvmeRange(x, e)
  BY Zenon DEF Reserves
<1>2. /\ nvme_offset'[q] = IF q = x THEN e
                           ELSE IF q \in Reclaimed(x) THEN NoExtent
                           ELSE nvme_offset[q]
  BY <1>1, Zenon DEF ReserveNvmeRange
<1>3. e # NoExtent
  BY BudgetAssumption DEF Extents, NoExtent
<1>4. HasExtent(q)' <=>
        /\ nvme_offset'[q] # NoExtent
        /\ ~\E u \in Threads : pc[u] = "freeNvmeEntry" /\ page[u] = q
  BY OthersGiveBack, Zenon DEF Reserves, HasExtent
<1>5. ASSUME NEW u \in Threads, pc[u] = "freeNvmeEntry" PROVE page[u] # x
  <2>1. nvme_offset[page[u]] # NoExtent
    BY <1>5, Zenon DEF Shape, ThreadShape, ThreadOK
  <2> QED
    BY <2>1, Zenon DEF Reserves
<1> QED
  BY <1>2, <1>3, <1>4, <1>5, Zenon DEF HasExtent

\* reserve_nvme_range_locked takes an extent nobody has, or one of a page that
\* gives it up.
LEMMA ExtentsReserved ==
    ASSUME Shape, ExtentsExclusive, NEW t, NEW x \in Pages, Reserves(t, x),
           \A u \in Threads \ {t} : SameLocals(u)
    PROVE  ExtentsExclusive'
<1>1. PICK e \in Extents : ReserveNvmeRange(x, e)
  BY Zenon DEF Reserves
<1>2. /\ e \in free_list \/ \E r \in Reclaimed(x) : e = nvme_offset[r]
      /\ \A f : f \in free_list' <=>
            /\ f # e
            /\ f \in free_list \/ \E r \in Reclaimed(x) : f = nvme_offset[r]
      /\ \A q \in Pages : nvme_offset'[q] =
            IF q = x THEN e
            ELSE IF q \in Reclaimed(x) THEN NoExtent ELSE nvme_offset[q]
  BY <1>1, Zenon DEF ReserveNvmeRange
<1>3. \A q \in Pages :
        HasExtent(q)' <=> q = x \/ (HasExtent(q) /\ q \notin Reclaimed(x))
  BY ReserveHolders, Zenon
<1>4. ~HasExtent(x)
  BY Zenon DEF Reserves, HasExtent
<1>5. ASSUME NEW r \in Reclaimed(x)
      PROVE  r \in Pages /\ HasExtent(r) /\ nvme_offset[r] \in Extents
  <2>1. /\ r \in Pages /\ nvme_offset[r] # NoExtent
        /\ state[r] \in {"ResidentVram", "ResidentHost"}
    BY <1>5, Zenon DEF Reclaimed, Reclaimable
  <2> QED
    BY <2>1, NotGivenBack, Zenon DEF Shape, TypeOK, EntryTypes
<1>6. /\ \A p, q \in Pages :
            /\ HasExtent(p) /\ HasExtent(q)
            /\ nvme_offset[p] = nvme_offset[q]
            => p = q
      /\ \A f : f \in free_list <=> f \in Extents /\ ~InUse(f)
  BY FreeList, Zenon DEF ExtentByExtent
<1>7. ASSUME NEW p \in Pages, NEW q \in Pages, HasExtent(p)', HasExtent(q)',
             nvme_offset'[p] = nvme_offset'[q]
      PROVE  p = q
  <2>1. ASSUME NEW r \in Pages, r # x, HasExtent(r), r \notin Reclaimed(x)
        PROVE  nvme_offset[r] # e
    BY <1>2, <1>5, <1>6, <2>1, Zenon DEF InUse
  <2> QED
    BY <1>2, <1>3, <1>6, <1>7, <2>1, Zenon
<1>8. ASSUME NEW f PROVE f \in free_list' <=> f \in Extents /\ ~InUse(f)'
  <2>1. InUse(f)' <=>
            \/ f = e
            \/ \E q \in Pages : /\ HasExtent(q) /\ q \notin Reclaimed(x)
                                /\ nvme_offset[q] = f
    BY <1>2, <1>3, <1>4, Zenon DEF InUse
  <2>2. CASE f \in free_list
    BY <1>2, <1>6, <2>1, <2>2, Zenon DEF InUse
  <2>3. CASE f \notin free_list /\ f \in Extents
    <3>1. PICK q \in Pages : HasExtent(q) /\ nvme_offset[q] = f
      BY <1>6, <2>3, Zenon DEF InUse
    <3>2. \A r \in Pages : HasExtent(r) /\ nvme_offset[r] = f => r = q
      BY <1>6, <3>1, Zenon
    <3>3. (\E r \in Reclaimed(x) : f = nvme_offset[r]) <=> q \in Reclaimed(x)
      BY <1>5, <3>1, <3>2, Zenon
    <3>4. f \in free_list' <=> f # e /\ q \in Reclaimed(x)
      BY <1>2, <2>3, <3>3, Zenon
    <3>5. InUse(f)' <=> f = e \/ q \notin Reclaimed(x)
      BY <2>1, <3>1, <3>2, Zenon
    <3> QED
      BY <2>3, <3>4, <3>5, Zenon
  <2>4. CASE f \notin Extents
    <3>1. f \notin free_list
      BY <1>6, <2>4, Zenon
    <3>2. \A r \in Reclaimed(x) : f # nvme_offset[r]
      BY <1>5, <2>4, Zenon
    <3> QED
      BY <1>2, <2>4, <3>1, <3>2, Zenon
  <2> QED
    BY <2>2, <2>3, <2>4, Zenon
<1> QED
  BY <1>7, <1>8, FreeList, Zenon DEF ExtentByExtent

\* free_page: free_extents puts the extent on the free list, and then the entry
\* forgets it.
LEMMA ExtentsGivenBack ==
    ASSUME Shape, ExtentsExclusive, NEW t \in Threads, FreeNvme(t),
           \A u \in Threads \ {t} : SameLocals(u)
    PROVE  ExtentsExclusive'
<1>1. Works(t, WritePageOf(t))
  BY Working, Zenon DEF FreeNvme
<1>2. PICK x \in Pages : x = page[t] /\ Owns(t, x)
  BY <1>1, Zenon DEF Works, Owns, FreeLabels, FreeNvme
<1>3. pc \in [Threads -> Labels]
  BY <1>1, Zenon DEF Works, ThreadTypes
<1>4. CASE nvme_offset[x] = NoExtent
  <2>1. SameExtents(t)
    BY <1>2, <1>3, <1>4, Zenon DEF FreeNvme, Goto, SameExtents, entryVars
  <2> QED
    BY <2>1, ExtentsSame, Zenon
<1>5. CASE nvme_offset[x] # NoExtent
  <2>1. /\ pc[t] = "freeNvme" /\ pc'[t] = "freeNvmeEntry"
        /\ page'[t] = x /\ nvme_offset' = nvme_offset
        /\ free_list' = free_list \cup {nvme_offset[x]}
    BY <1>2, <1>3, <1>5, Zenon DEF FreeNvme, Goto, entryVars
  <2>2. HasExtent(x)
    <3>1. ASSUME NEW u \in Threads, pc[u] = "freeNvmeEntry", page[u] = x
          PROVE  FALSE
      <4>1. Works(u, WritePageOf(u))
        BY <3>1, Working, Zenon
      <4>2. Owns(u, x)
        BY <3>1, <4>1, Zenon DEF Works, Owns, FreeLabels
      <4> QED
        BY <1>2, <2>1, <3>1, <4>2, Zenon DEF Shape, ClaimsExclusive
    <3> QED
      BY <1>5, <3>1, Zenon DEF HasExtent
  <2>3. ~HasExtent(x)'
    BY <2>1, Zenon DEF HasExtent
  <2>4. \A q \in Pages \ {x} : HasExtent(q)' <=> HasExtent(q)
    BY <1>2, <2>1, OthersGiveBack, Zenon DEF HasExtent
  <2>5. nvme_offset[x] \in Extents
    BY <1>5, Zenon DEF Shape, TypeOK, EntryTypes
  <2>6. ExtentByExtent
    BY FreeList, Zenon
  <2>7. \A f : InUse(f)' <=> InUse(f) /\ f # nvme_offset[x]
    BY <2>1, <2>2, <2>3, <2>4, <2>6, Zenon DEF InUse, ExtentByExtent
  <2>8. ExtentByExtent'
    BY <2>1, <2>3, <2>4, <2>5, <2>6, <2>7, Zenon DEF ExtentByExtent
  <2> QED
    BY <2>8, FreeList, Zenon
<1> QED
  BY <1>4, <1>5, Zenon

\* free_page forgets the extent of its page only.
LEMMA ExtentsForgotten ==
    ASSUME Shape, ExtentsExclusive, NEW t \in Threads, FreeNvmeEntry(t),
           \A u \in Threads \ {t} : SameLocals(u)
    PROVE  ExtentsExclusive'
<1>1. Works(t, WritePageOf(t))
  BY Working, Zenon DEF FreeNvmeEntry
<1>2. PICK x \in Pages : x = page[t]
  BY <1>1, Zenon DEF Works
<1>3. /\ pc[t] = "freeNvmeEntry" /\ pc'[t] = "freeNvmeBudget"
      /\ nvme_offset'[x] = NoExtent /\ free_list' = free_list
      /\ \A q \in Pages \ {x} : nvme_offset'[q] = nvme_offset[q]
  BY <1>1, <1>2, Zenon DEF FreeNvmeEntry, Goto, Works, ThreadTypes,
     EntryTypes, memVars
<1>4. ~HasExtent(x) /\ ~HasExtent(x)'
  BY <1>2, <1>3, Zenon DEF HasExtent
<1>5. \A q \in Pages \ {x} : HasExtent(q)' <=> HasExtent(q)
  BY <1>2, <1>3, OthersGiveBack, ZenonT(40) DEF HasExtent
<1>6. \A f : InUse(f)' <=> InUse(f)
  BY <1>3, <1>4, <1>5, Zenon DEF InUse
<1>7. ExtentByExtent'
  BY <1>3, <1>4, <1>5, <1>6, FreeList, Zenon DEF ExtentByExtent
<1> QED
  BY <1>7, FreeList, Zenon

\* Every step keeps extents exclusive.
LEMMA ExtentsKept ==
    ASSUME Shape, ExtentsExclusive, NEW t, NEW x, Acts(t, x)
    PROVE  ExtentsExclusive'
<1>1. Effect(t, x) /\ ThreadTypes
  BY ActsEffect, Zenon DEF Shape, TypeOK
<1>2. x \in Pages /\ \A u \in Threads \ {t} : SameLocals(u)
  BY <1>1, Zenon DEF Effect
<1>3. \/ SameExtents(t) \/ Reserves(t, x)
      \/ t \in Threads /\ FreeNvme(t)
      \/ t \in Threads /\ FreeNvmeEntry(t)
  BY <1>1, <1>2, StepWorks, StepExtents, CallExtents, CallerExtents, Zenon
     DEF Acts
<1> QED
  BY <1>2, <1>3, ExtentsSame, ExtentsReserved, ExtentsGivenBack,
     ExtentsForgotten, Zenon

-----------------------------------------------------------------------------
(* Device memory that a failed promotion leaves behind.                    *)

\* A page that is in flight and that no thread owns stays so.
LEMMA AbandonedStays ==
    ASSUME Shape, NEW t, NEW x, Acts(t, x), NEW p \in Pages,
           in_flight[p], \A u \in Threads : ~Owns(u, p)
    PROVE  SameEntry(p) /\ \A u \in Threads : ~Owns(u, p)'
<1>1. Effect(t, x)
  BY ActsEffect, Zenon
<1>2. p = x => Quiet /\ ~Exclusive(t, x)
  BY <1>1, Zenon DEF Effect, Exclusive
<1>3. SameEntry(p)
  <2>1. CASE p = x
    BY <1>1, <1>2, <2>1, Zenon DEF Effect, Quiet, SameEntry, entryVars,
       memVars
  <2>2. CASE p # x
    BY <1>1, <2>2, Zenon DEF Effect, LosesExtent
  <2> QED
    BY <2>1, <2>2, Zenon
<1>4. t \in Threads => ~Owns(t, p)'
  BY <1>1, <1>2, Zenon DEF Effect, Mine, Owns
<1>5. \A u \in Threads \ {t} : ~Owns(u, p)'
  BY <1>1, OthersKept, Zenon
<1> QED
  BY <1>3, <1>4, <1>5, Zenon

\* Only a failed promotion leaves its page so.
LEMMA UncountedGrows ==
    ASSUME Shape, NEW t, NEW x, Acts(t, x)
    PROVE  \/ uncounted' = uncounted
           \/ /\ uncounted' = uncounted \cup {x}
              /\ t \in Threads /\ Owns(t, x)
              /\ pc'[t] = "idle" /\ state'[x] = "LoadingToVram"
<1>1. CASE t = NoThread /\ CallerStep(x)
  BY <1>1, Zenon DEF CallerStep, WritePage, WritePageFails, CleanDrop, Pin,
     ghostVars
<1>2. CASE t \in Threads /\ PageStep(t, x)
  BY <1>2, Zenon DEF PageStep, AllocatePage, FreePage, EvictVramToHost,
     LoadNvmeToHost, PromoteHostToVram, EvictHostClaim, EvictHostReserve,
     EvictHostSkip, EvictHostThrows, ghostVars
<1>3. ASSUME t \in Threads, PromoteCopyFails(t), x = WritePageOf(t),
             uncounted' # uncounted
      PROVE  /\ uncounted' = uncounted \cup {x}
             /\ Owns(t, x)
             /\ pc'[t] = "idle" /\ state'[x] = "LoadingToVram"
  <2>1. pc[t] = "h2d"
    BY <1>3, Zenon DEF PromoteCopyFails
  <2>2. Works(t, x) /\ Owns(t, x)
    BY <1>3, <2>1, Working, Zenon DEF Owns, TransferLabels
  <2>3. x = page[t] /\ state[x] = "LoadingToVram"
    BY <2>1, <2>2, Zenon DEF Works, TransferLabels, ClaimedAs
  <2>4. pc'[t] = "idle"
    BY <1>3, <2>2, ReturnMine, Zenon DEF PromoteCopyFails, Works
  <2> QED
    BY <1>3, <2>2, <2>3, <2>4, Zenon DEF PromoteCopyFails
<1>4. ASSUME t \in Threads, Step(t), uncounted' # uncounted
      PROVE  PromoteCopyFails(t)
  BY <1>4, Zenon DEF Step, BufferStep, EvictVramStep, LoadStep, PromoteStep,
     EvictHostStep, AllocStep, FreeStep, HostBufAllocate, HostBufFull,
     HostBufRank, VictimCheck, HostBufRetry, HostBufGiveUp, HostBufUnused,
     EvictVramClaim, EvictVramCopy, EvictVramCopyFails, EvictVramDone,
     LoadClaim, LoadRead, LoadReadFails, LoadDone, PromoteCopy, PromoteDone,
     EvictHostWrite, EvictHostWriteFails, EvictHostDone, AllocVramReserve,
     AllocVramDevice, AllocHostBuffer, AllocHostInsert, AllocNvme, FreeVram,
     FreeVramBudget, FreeHost, FreeNvme, FreeNvmeEntry, FreeNvmeBudget,
     FreeEnd, ghostVars
<1> QED
  BY <1>1, <1>2, <1>3, <1>4, Zenon DEF Acts

\* Every step keeps what is known of the memory a failed promotion leaves.
LEMMA UncountedKept ==
    ASSUME Shape, UncountedAbandoned, NEW t, NEW x, Acts(t, x)
    PROVE  UncountedAbandoned'
<1>1. ASSUME NEW p \in uncounted
      PROVE  state'[p] = "LoadingToVram" /\ \A u \in Threads : ~Owns(u, p)'
  <2>1. /\ p \in Pages /\ state[p] = "LoadingToVram"
        /\ \A u \in Threads : ~Owns(u, p)
    BY <1>1, Zenon DEF Shape, TypeOK, UncountedAbandoned
  <2>2. in_flight[p]
    BY <2>1, Zenon DEF Shape, EntryShape, EntryOK, Transferring
  <2> QED
    BY <2>1, <2>2, AbandonedStays, Zenon DEF SameEntry
<1>2. ASSUME t \in Threads, Owns(t, x), pc'[t] = "idle",
             NEW u \in Threads
      PROVE  ~Owns(u, x)'
  <2>1. Effect(t, x) /\ x \in Pages
    BY ActsEffect, Zenon DEF Effect
  <2>2. u # t => ~Owns(u, x)'
    BY <1>2, <2>1, OthersKept, Zenon DEF Shape, ClaimsExclusive
  <2>3. ~Owns(t, x)'
    BY <1>2, Zenon DEF Owns, TransferLabels, FreeLabels
  <2> QED
    BY <2>2, <2>3, Zenon
<1>3. ASSUME NEW p \in uncounted'
      PROVE  state'[p] = "LoadingToVram" /\ \A u \in Threads : ~Owns(u, p)'
  <2>1. CASE p \in uncounted
    BY <1>1, <2>1, Zenon
  <2>2. CASE p \notin uncounted
    <3>1. /\ p = x /\ t \in Threads /\ Owns(t, x)
          /\ pc'[t] = "idle" /\ state'[x] = "LoadingToVram"
      <4>1. \/ uncounted' = uncounted
            \/ /\ uncounted' = uncounted \cup {x}
               /\ t \in Threads /\ Owns(t, x)
               /\ pc'[t] = "idle" /\ state'[x] = "LoadingToVram"
        BY UncountedGrows, Zenon
      <4> QED
        BY <1>3, <2>2, <4>1, Zenon
    <3> QED
      BY <1>2, <3>1, Zenon
  <2> QED
    BY <2>1, <2>2, Zenon
<1> QED
  BY <1>3, Zenon DEF UncountedAbandoned

-----------------------------------------------------------------------------
(* Contents: the page that a step works on.                                *)

\* The copy of page p that is authoritative has the last content written, and
\* a copy that the store is said to have is equal to it.
ContentOK(p) ==
    /\ Live(p) /\ checksum[p] # NoSum /\ p \notin torn =>
            Authoritative(p) = checksum[p]
    /\ Live(p) /\ has_nvme_copy[p] /\ p \notin torn =>
            disk[nvme_offset[p]] = Authoritative(p)

\* CopiesMade, for thread t.
CopyOK(t) ==
    /\ pc[t] = "d2hDone" => host[page[t]] = vram[page[t]]
    /\ pc[t] = "readDone" => host[page[t]] = disk[nvme_offset[page[t]]]
    /\ pc[t] = "h2dDone" => vram[page[t]] = host[page[t]]
    /\ pc[t] = "writeDone" /\ WritePageOf(t) \notin torn =>
            disk[nvme_offset[WritePageOf(t)]] = host[WritePageOf(t)]

\* The value of page x as a caller sees it: it stays, wherever the page is
\* now, it is new, it is written, or a write of it fails.
KeepsValue(x) ==
    /\ Live(x) /\ Live(x)'
    /\ checksum'[x] = checksum[x] /\ (x \in torn' <=> x \in torn)
    /\ x \notin torn => Authoritative(x)' = Authoritative(x)

Appears(x) ==
    /\ state[x] = "Absent" /\ Live(x)'
    /\ checksum'[x] = NoSum /\ ~has_nvme_copy'[x]
    /\ Authoritative(x)' \in Data

IsWritten(x) ==
    /\ Live(x) /\ Live(x)' /\ ~has_nvme_copy'[x]
    /\ \E v \in Values : Authoritative(x)' = v /\ checksum'[x] = v

IsTorn(x) == "deviceWrite" \in Faults /\ x \in torn'

\* What a step does to the value of x, and to the copy of x in the store.
Outcome(x) ==
    /\ \/ ~Live(x)' \/ KeepsValue(x) \/ Appears(x) \/ IsWritten(x)
       \/ IsTorn(x)
    /\ Live(x)' /\ has_nvme_copy'[x] /\ x \notin torn' =>
            disk'[nvme_offset'[x]] = Authoritative(x)'

\* The step does not touch what is recorded of x, nor the store.
SameRecord(x) ==
    /\ checksum'[x] = checksum[x] /\ (x \in torn' <=> x \in torn)
    /\ has_nvme_copy'[x] = has_nvme_copy[x]
    /\ nvme_offset'[x] = nvme_offset[x]
    /\ disk' = disk

\* A thread that is not about to complete a transfer.
LEMMA NoCopy ==
    ASSUME NEW t,
           pc'[t] \notin {"d2hDone", "readDone", "h2dDone", "writeDone"}
    PROVE  CopyOK(t)'
BY Zenon DEF CopyOK

\* A move of the page that keeps its value.
LEMMA Moved ==
    ASSUME NEW x, ContentOK(x), SameRecord(x), Live(x), Live(x)',
           Authoritative(x)' = Authoritative(x)
    PROVE  Outcome(x)
BY Zenon DEF Outcome, KeepsValue, ContentOK, SameRecord

\* A step that changes neither entry nor memory of the page.
LEMMA Unmoved ==
    ASSUME NEW x, ContentOK(x), SameRecord(x), state'[x] = state[x],
           vram'[x] = vram[x], host'[x] = host[x]
    PROVE  Outcome(x)
<1>1. Live(x)' <=> Live(x)
  BY Zenon DEF Live
<1>2. Authoritative(x)' = Authoritative(x)
  BY Zenon DEF Authoritative, SameRecord
<1> QED
  BY <1>1, <1>2, Moved, Zenon DEF Outcome

\* A page that is lost or released has no value.
LEMMA NotLive ==
    ASSUME NEW x,
           state'[x] = "Absent" \/ state'[x] = "Error" \/ state'[x] = "Released"
    PROVE  Outcome(x)
BY Zenon DEF Outcome, Live, Resident, Transferring

\* The page moves from one state to another, and the copy that is authoritative
\* then equals the one that was.
LEMMA StateMoves ==
    ASSUME NEW x, ContentOK(x), SameRecord(x),
           \/ /\ state[x] \in {"ResidentVram", "EvictingToHost"}
              /\ state'[x] \in {"ResidentVram", "EvictingToHost"}
              /\ vram'[x] = vram[x]
           \/ /\ state[x] \in {"ResidentVram", "EvictingToHost"}
              /\ state'[x] = "ResidentHost" /\ host'[x] = vram[x]
           \/ /\ state[x] \in {"ResidentHost", "LoadingToVram"}
              /\ state'[x] \in {"ResidentHost", "LoadingToVram",
                                 "EvictingToNvme"}
              /\ host'[x] = host[x]
           \/ /\ state[x] = "LoadingToVram"
              /\ state'[x] = "ResidentVram" /\ vram'[x] = host[x]
           \/ /\ state[x] \in {"ResidentNvme", "LoadingToHost"}
              /\ state'[x] \in {"ResidentNvme", "LoadingToHost"}
           \/ /\ state[x] = "LoadingToHost" /\ state'[x] = "ResidentHost"
              /\ host'[x] = disk[nvme_offset[x]]
    PROVE  Outcome(x)
<1>1. Live(x) /\ Live(x)'
  BY Zenon DEF Live, Resident, Transferring
<1>2. Authoritative(x)' = Authoritative(x)
  BY Zenon DEF Authoritative, SameRecord
<1> QED
  BY <1>1, <1>2, Moved, Zenon

\* evict_vram_to_host.
LEMMA EvictVramContent ==
    ASSUME NEW t \in Threads, NEW x, Works(t, x), ContentOK(x), CopyOK(t),
           EvictVramStep(t)
    PROVE  Outcome(x) /\ CopyOK(t)'
<1>1. CASE EvictVramClaim(t)
  <2>1. /\ state[x] = "ResidentVram" /\ state'[x] = "EvictingToHost"
        /\ vram'[x] = vram[x] /\ SameRecord(x) /\ pc'[t] = "d2h"
    BY <1>1, Zenon DEF EvictVramClaim, Claimable, Claim, Goto, Works,
       EntryTypes, ThreadTypes, SameRecord, ghostVars
  <2> QED
    BY <2>1, StateMoves, NoCopy, Zenon
<1>2. CASE EvictVramCopy(t)
  <2>1. /\ state[x] = "EvictingToHost" /\ state'[x] = "EvictingToHost"
        /\ vram'[x] = vram[x] /\ host'[x] = vram[x] /\ SameRecord(x)
        /\ pc'[t] = "d2hDone" /\ page'[t] = x
    BY <1>2, Zenon DEF EvictVramCopy, Goto, Works, ThreadTypes, MemoryTypes,
       SameRecord, ghostVars, entryVars, ClaimedAs, TransferLabels
  <2>2. CopyOK(t)'
    BY <2>1, Zenon DEF CopyOK
  <2> QED
    BY <2>1, <2>2, StateMoves, Zenon
<1>3. CASE EvictVramCopyFails(t)
  <2>1. CopyOK(t)'
    BY <1>3, ReturnMine, NoCopy, Zenon DEF EvictVramCopyFails, Works
  <2>2. \/ state'[x] = "Error"
        \/ /\ SameRecord(x) /\ state'[x] = state[x]
           /\ vram'[x] = vram[x] /\ host'[x] = host[x]
    BY <1>3, ZenonT(90) DEF EvictVramCopyFails, Settle, Works, EntryTypes,
       SameRecord, ghostVars
  <2>3. state'[x] = "Error" => Outcome(x)
    BY NotLive, Zenon
  <2>4. state'[x] # "Error" => Outcome(x)
    BY <2>2, Unmoved, Zenon
  <2> QED
    BY <2>1, <2>3, <2>4, Zenon
<1>4. CASE EvictVramDone(t)
  <2>1. CopyOK(t)'
    BY <1>4, ReturnMine, NoCopy, Zenon DEF EvictVramDone, Works
  <2>2. state[x] = "EvictingToHost" /\ host[x] = vram[x]
    BY <1>4, Zenon DEF EvictVramDone, Works, ClaimedAs, TransferLabels,
       CopyOK
  <2>3. /\ SameRecord(x) /\ host'[x] = host[x]
        /\ \/ state'[x] = "ResidentHost"
           \/ state'[x] = state[x] /\ vram'[x] = vram[x]
    BY <1>4, Zenon DEF EvictVramDone, Works, Settle, EntryTypes, SameRecord,
       ghostVars
  <2> QED
    BY <2>1, <2>2, <2>3, StateMoves, Unmoved, Zenon
<1> QED
  BY <1>1, <1>2, <1>3, <1>4, Zenon DEF EvictVramStep

\* load_nvme_to_host.
LEMMA LoadContent ==
    ASSUME NEW t \in Threads, NEW x, Works(t, x), ContentOK(x), CopyOK(t),
           LoadStep(t)
    PROVE  Outcome(x) /\ CopyOK(t)'
<1>1. CASE LoadClaim(t)
  <2>1. /\ state[x] = "ResidentNvme" /\ state'[x] = "LoadingToHost"
        /\ SameRecord(x) /\ pc'[t] = "read"
    BY <1>1, Zenon DEF LoadClaim, Claimable, Claim, Goto, Works,
       EntryTypes, ThreadTypes, SameRecord, ghostVars
  <2> QED
    BY <2>1, StateMoves, NoCopy, Zenon
<1>2. CASE LoadRead(t)
  <2>1. /\ state[x] = "LoadingToHost" /\ state'[x] = "LoadingToHost"
        /\ host'[x] = disk[nvme_offset[x]] /\ SameRecord(x)
        /\ pc'[t] = "readDone" /\ page'[t] = x
    BY <1>2, Zenon DEF LoadRead, Goto, Works, ThreadTypes, MemoryTypes,
       SameRecord, ghostVars, entryVars, ClaimedAs, TransferLabels
  <2>2. CopyOK(t)'
    BY <2>1, Zenon DEF CopyOK, SameRecord
  <2> QED
    BY <2>1, <2>2, StateMoves, Zenon
<1>3. CASE LoadReadFails(t)
  <2>1. CopyOK(t)'
    BY <1>3, ReturnMine, NoCopy, Zenon DEF LoadReadFails, Works
  <2>2. \/ state'[x] = "Error"
        \/ /\ SameRecord(x) /\ state'[x] = state[x]
           /\ vram'[x] = vram[x] /\ host'[x] = host[x]
    BY <1>3, ZenonT(90) DEF LoadReadFails, Settle, Works, EntryTypes,
       SameRecord, ghostVars
  <2>3. state'[x] = "Error" => Outcome(x)
    BY NotLive, Zenon
  <2>4. state'[x] # "Error" => Outcome(x)
    BY <2>2, Unmoved, Zenon
  <2> QED
    BY <2>1, <2>3, <2>4, Zenon
<1>4. CASE LoadDone(t)
  <2>1. CopyOK(t)'
    BY <1>4, ReturnMine, NoCopy, Zenon DEF LoadDone, Works
  <2>2. state[x] = "LoadingToHost" /\ host[x] = disk[nvme_offset[x]]
    BY <1>4, Zenon DEF LoadDone, Works, ClaimedAs, TransferLabels, CopyOK
  <2>3. SameRecord(x) /\ host'[x] = host[x] /\ state'[x] = "ResidentHost"
    BY <1>4, Zenon DEF LoadDone, Works, Settle, EntryTypes, SameRecord,
       ghostVars, memVars
  <2> QED
    BY <2>1, <2>2, <2>3, StateMoves, Zenon
<1> QED
  BY <1>1, <1>2, <1>3, <1>4, Zenon DEF LoadStep

\* promote_host_to_vram.
LEMMA PromoteContent ==
    ASSUME NEW t \in Threads, NEW x, Works(t, x), ContentOK(x), CopyOK(t),
           PromoteStep(t)
    PROVE  Outcome(x) /\ CopyOK(t)'
<1>1. CASE PromoteCopy(t)
  <2>1. /\ state[x] = "LoadingToVram" /\ state'[x] = "LoadingToVram"
        /\ host'[x] = host[x] /\ vram'[x] = host[x] /\ SameRecord(x)
        /\ pc'[t] = "h2dDone" /\ page'[t] = x
    BY <1>1, Zenon DEF PromoteCopy, Goto, Works, ThreadTypes, MemoryTypes,
       SameRecord, ghostVars, entryVars, ClaimedAs, TransferLabels
  <2>2. CopyOK(t)'
    BY <2>1, Zenon DEF CopyOK
  <2> QED
    BY <2>1, <2>2, StateMoves, Zenon
<1>2. CASE PromoteCopyFails(t)
  <2>1. CopyOK(t)'
    BY <1>2, ReturnMine, NoCopy, Zenon DEF PromoteCopyFails, Works
  <2>2. \/ state'[x] = "Error"
        \/ /\ SameRecord(x) /\ state'[x] = state[x]
           /\ vram'[x] = vram[x] /\ host'[x] = host[x]
    <3>1. /\ x = page[t] /\ x \in Pages /\ SameRecord(x)
          /\ host'[x] = host[x]
      BY <1>2, Zenon DEF PromoteCopyFails, Works, SameRecord
    <3>2. Settle(x, "Error") \/ UNCHANGED <<vram, state>>
      BY <1>2, <3>1, Zenon DEF PromoteCopyFails
    <3> QED
      BY <3>1, <3>2, ZenonT(40) DEF Settle, Works, EntryTypes
  <2>3. state'[x] = "Error" => Outcome(x)
    BY NotLive, Zenon
  <2>4. state'[x] # "Error" => Outcome(x)
    BY <2>2, Unmoved, Zenon
  <2> QED
    BY <2>1, <2>3, <2>4, Zenon
<1>3. CASE PromoteDone(t)
  <2>1. CopyOK(t)'
    BY <1>3, ReturnMine, NoCopy, Zenon DEF PromoteDone, Works
  <2>2. state[x] = "LoadingToVram" /\ vram[x] = host[x]
    BY <1>3, Zenon DEF PromoteDone, Works, ClaimedAs, TransferLabels, CopyOK
  <2>3. /\ SameRecord(x) /\ vram'[x] = vram[x]
        /\ \/ state'[x] = "ResidentVram"
           \/ state'[x] = state[x] /\ host'[x] = host[x]
    BY <1>3, Zenon DEF PromoteDone, Works, Settle, EntryTypes, SameRecord,
       ghostVars
  <2> QED
    BY <2>1, <2>2, <2>3, StateMoves, Unmoved, Zenon
<1> QED
  BY <1>1, <1>2, <1>3, Zenon DEF PromoteStep

\* evict_host_to_nvme, once the page is claimed.
LEMMA EvictHostContent ==
    ASSUME NEW t \in Threads, NEW x, Works(t, x), ContentOK(x), CopyOK(t),
           EvictHostStep(t)
    PROVE  Outcome(x) /\ CopyOK(t)'
<1>1. /\ state[x] = "EvictingToNvme" /\ nvme_offset[x] \in Extents
      /\ x = WritePageOf(t) /\ pc[t] \in {"write", "writeDone"}
  BY Zenon DEF EvictHostStep, EvictHostWrite, EvictHostWriteFails,
     EvictHostDone, Works, ClaimedAs, TransferLabels, EntryOK, EntryTypes
<1>2. Live(x) /\ Authoritative(x) = host[x]
  BY <1>1, Zenon DEF Live, Transferring, Authoritative
<1>3. CASE EvictHostWrite(t)
  <2>1. /\ state'[x] = state[x] /\ host'[x] = host[x]
        /\ checksum'[x] = checksum[x] /\ torn' = torn
        /\ nvme_offset'[x] = nvme_offset[x]
        /\ disk'[nvme_offset[x]] = host[x]
    BY <1>1, <1>3, Zenon DEF EvictHostWrite, Works, MemoryTypes, ghostVars,
       entryVars
  <2>2. Live(x)' /\ Authoritative(x)' = host[x]
    BY <1>1, <2>1, Zenon DEF Live, Transferring, Authoritative
  <2>3. pc'[t] = "writeDone" /\ WritePageOf(t)' = x
    BY <1>1, <1>3, Zenon DEF EvictHostWrite, Works, ThreadTypes, Goto,
       WritePageOf
  <2>4. CopyOK(t)'
    BY <2>1, <2>3, Zenon DEF CopyOK
  <2>5. KeepsValue(x)
    BY <1>2, <2>1, <2>2, Zenon DEF KeepsValue
  <2> QED
    BY <2>1, <2>2, <2>4, <2>5, Zenon DEF Outcome
<1>4. CASE EvictHostWriteFails(t)
  <2>1. CopyOK(t)'
    BY <1>4, ReturnMine, NoCopy, Zenon DEF EvictHostWriteFails, Works
  <2>2. state'[x] = "Error"
    BY <1>1, <1>4, Zenon DEF EvictHostWriteFails, Settle, Works, EntryTypes
  <2> QED
    BY <2>1, <2>2, NotLive, Zenon
<1>5. CASE EvictHostDone(t)
  <2>1. pc'[t] \in {"victimCheck", "idle"}
    BY <1>5, ReturnMine, Zenon DEF EvictHostDone, Works, Goto, ThreadTypes
  <2>2. CopyOK(t)'
    BY <2>1, NoCopy, Zenon
  <2>3. x \notin torn => disk[nvme_offset[x]] = host[x]
    BY <1>1, <1>5, Zenon DEF EvictHostDone, CopyOK
  <2>4. /\ checksum'[x] = checksum[x] /\ torn' = torn
        /\ nvme_offset'[x] = nvme_offset[x] /\ disk' = disk
    BY <1>5, Zenon DEF EvictHostDone, ghostVars
  <2>5. CASE state'[x] = "ResidentNvme"
    <3>1. Live(x)' /\ Authoritative(x)' = disk'[nvme_offset'[x]]
      BY <2>5, Zenon DEF Live, Resident, Authoritative
    <3>2. KeepsValue(x)
      BY <1>2, <2>3, <2>4, <3>1, Zenon DEF KeepsValue
    <3> QED
      BY <2>2, <3>1, <3>2, Zenon DEF Outcome
  <2>6. CASE state'[x] # "ResidentNvme"
    <3>1. /\ state'[x] = state[x] /\ host'[x] = host[x]
          /\ vram'[x] = vram[x] /\ has_nvme_copy'[x] = has_nvme_copy[x]
      BY <1>1, <1>5, <2>6, Zenon DEF EvictHostDone, Settle, Works, EntryTypes
    <3>2. SameRecord(x)
      BY <2>4, <3>1, Zenon DEF SameRecord
    <3> QED
      BY <2>2, <3>1, <3>2, Unmoved, Zenon
  <2> QED
    BY <2>5, <2>6, Zenon
<1> QED
  BY <1>3, <1>4, <1>5, Zenon DEF EvictHostStep

\* allocate_page: the entry appears with memory or an extent whose content
\* nobody has written.
LEMMA AllocContent ==
    ASSUME NEW t \in Threads, NEW x, Works(t, x), AllocStep(t)
    PROVE  Outcome(x) /\ CopyOK(t)'
<1>1. pc[t] \in AllocLabels
  BY Zenon DEF AllocStep, AllocVramReserve, AllocVramDevice,
     AllocHostBuffer, AllocHostInsert, AllocNvme, AllocLabels
<1>2. /\ x = page[t] /\ x \in Pages
      /\ state[x] = "Absent" /\ checksum[x] = NoSum /\ ~has_nvme_copy[x]
  BY <1>1, Zenon DEF Works, ThreadOK, AllocLabels, EntryOK
<1>3. CopyOK(t)'
  <2>1. Return(t) \/ \E label \in {"allocDev", "allocIns"} : Goto(t, label)
    BY Zenon DEF AllocStep, AllocVramReserve, AllocVramDevice,
       AllocHostBuffer, AllocHostInsert, AllocNvme
  <2>2. pc'[t] \in {"idle", "allocDev", "allocIns"}
    BY <2>1, ReturnMine, Zenon DEF Goto, Works, ThreadTypes
  <2> QED
    BY <2>2, NoCopy, Zenon
<1>4. checksum'[x] = NoSum
  BY <1>2, Zenon DEF AllocStep, AllocVramReserve, AllocVramDevice,
     AllocHostBuffer, AllocHostInsert, AllocNvme, entryVars
<1>5. CASE AllocNvme(t)
  <2>1. disk' = disk /\ MemoryTypes
    BY <1>5, Zenon DEF AllocNvme, Works
  <2>2. \/ UNCHANGED state
        \/ /\ state'[x] = "ResidentNvme" /\ ~has_nvme_copy'[x]
           /\ nvme_offset'[x] \in Extents
    <3>1. ASSUME NEW e \in Extents, ReserveNvmeRange(x, e)
          PROVE  ~has_nvme_copy'[x] /\ nvme_offset'[x] \in Extents
      <4>1. EntryTypes
        BY Zenon DEF Works
      <4>2. /\ nvme_offset'[x] = e
            /\ has_nvme_copy'[x] = has_nvme_copy[x]
        BY <1>2, <3>1, <4>1, Reserving
      <4> QED
        BY <1>2, <4>2, Zenon
    <3>2. \/ UNCHANGED state
          \/ /\ InsertEntry(x, "ResidentNvme")
             /\ \E e \in Extents : ReserveNvmeRange(x, e)
      BY <1>2, <1>5, Zenon DEF AllocNvme
    <3> QED
      BY <1>2, <3>1, <3>2, Zenon DEF InsertEntry, Works, EntryTypes
  <2>3. CASE UNCHANGED state
    BY <1>2, <1>3, <2>3, NotLive, Zenon
  <2>4. CASE /\ state'[x] = "ResidentNvme" /\ ~has_nvme_copy'[x]
             /\ nvme_offset'[x] \in Extents
    <3>1. Live(x)' /\ Authoritative(x)' \in Data
      BY <2>1, <2>4, Zenon DEF Live, Resident, Authoritative, MemoryTypes
    <3> QED
      BY <1>2, <1>3, <1>4, <2>4, <3>1, Zenon DEF Outcome, Appears
  <2> QED
    BY <2>2, <2>3, <2>4, Zenon
<1>6. CASE ~AllocNvme(t)
  <2>1. has_nvme_copy' = has_nvme_copy
    BY <1>6, Zenon DEF AllocStep, AllocVramReserve, AllocVramDevice,
       AllocHostBuffer, AllocHostInsert, entryVars
  <2>2. \/ UNCHANGED state
        \/ state'[x] = "ResidentVram" /\ vram'[x] = Garbage
        \/ state'[x] = "ResidentHost" /\ host'[x] = Garbage
    BY <1>2, <1>6, Zenon DEF AllocStep, AllocVramReserve, AllocVramDevice,
       AllocHostBuffer, AllocHostInsert, InsertEntry, Works, EntryTypes,
       MemoryTypes, entryVars
  <2>3. CASE UNCHANGED state
    BY <1>2, <1>3, <2>3, NotLive, Zenon
  <2>4. CASE \/ state'[x] = "ResidentVram" /\ vram'[x] = Garbage
             \/ state'[x] = "ResidentHost" /\ host'[x] = Garbage
    <3>1. Live(x)' /\ Authoritative(x)' \in Data
      BY <2>4, Zenon DEF Live, Resident, Authoritative, Data
    <3> QED
      BY <1>2, <1>3, <1>4, <2>1, <3>1, Zenon DEF Outcome, Appears
  <2> QED
    BY <2>2, <2>3, <2>4, Zenon
<1> QED
  BY <1>5, <1>6, Zenon

\* free_page, once the page is claimed.
LEMMA FreeContent ==
    ASSUME NEW t \in Threads, NEW x, Works(t, x), FreeStep(t)
    PROVE  Outcome(x) /\ CopyOK(t)'
<1>1. pc[t] \in FreeLabels
  BY Zenon DEF FreeStep, FreeVram, FreeVramBudget, FreeHost, FreeNvme,
     FreeNvmeEntry, FreeNvmeBudget, FreeEnd, FreeLabels
<1>2. x = page[t] /\ state[x] = "Released"
  BY <1>1, Zenon DEF Works, ClaimedAs, FreeLabels
<1>3. state'[x] = "Released" \/ state'[x] = "Absent"
  <2>1. \/ UNCHANGED state
        \/ state' = [state EXCEPT ![page[t]] = "Absent"]
    BY Zenon DEF FreeStep, FreeVram, FreeVramBudget, FreeHost, FreeNvme,
       FreeNvmeEntry, FreeNvmeBudget, FreeEnd, entryVars
  <2> QED
    BY <1>2, <2>1, ZenonT(40) DEF Works, EntryTypes
<1>4. \/ Return(t)
      \/ \E label \in FreeLabels : Goto(t, label) \/ ReleaseFailed(t, label)
  BY Zenon DEF FreeStep, FreeVram, FreeVramBudget, FreeHost, FreeNvme,
     FreeNvmeEntry, FreeNvmeBudget, FreeEnd, FreeLabels
<1>5. pc'[t] \in FreeLabels \cup {"idle"}
  BY <1>4, ReturnMine, Zenon DEF Goto, ReleaseFailed, Works, ThreadTypes
<1>6. CopyOK(t)'
  BY <1>5, NoCopy, Zenon DEF FreeLabels
<1> QED
  BY <1>3, <1>6, NotLive, Zenon

\* claim_host_buffer.
LEMMA BufferContent ==
    ASSUME NEW t \in Threads, NEW x, Works(t, x), ContentOK(x), BufferStep(t)
    PROVE  Outcome(x) /\ CopyOK(t)'
<1>1. CopyOK(t)'
  <2>1. pc'[t] \notin TransferLabels
    BY BufferMine, Zenon DEF Works
  <2> QED
    BY <2>1, NoCopy, Zenon DEF TransferLabels
<1>2. Quiet
  BY Zenon DEF BufferStep, HostBufAllocate, HostBufFull, HostBufRank,
     VictimCheck, HostBufRetry, HostBufGiveUp, HostBufUnused, Quiet
<1>3. /\ SameRecord(x) /\ state'[x] = state[x]
      /\ vram'[x] = vram[x] /\ host'[x] = host[x]
  BY <1>2, Zenon DEF Quiet, SameRecord, entryVars, memVars, ghostVars
<1> QED
  BY <1>1, <1>3, Unmoved, Zenon

\* A step of a thread inside a function.
LEMMA StepContent ==
    ASSUME NEW t \in Threads, NEW x, Works(t, x), ContentOK(x), CopyOK(t),
           Step(t)
    PROVE  Outcome(x) /\ CopyOK(t)'
BY BufferContent, EvictVramContent, LoadContent, PromoteContent,
   EvictHostContent, AllocContent, FreeContent, Zenon DEF Step

\* A step that names page p.
LEMMA CallContent ==
    ASSUME NEW t \in Threads, NEW p, Names(t, p), ContentOK(p), CopyOK(t),
           PageStep(t, p)
    PROVE  Outcome(p) /\ CopyOK(t)'
<1>1. p \in Pages /\ pc \in [Threads -> Labels]
  BY Zenon DEF Names, ThreadTypes
<1>2. CASE AllocatePage(t, p) \/ EvictVramToHost(t, p)
        \/ LoadNvmeToHost(t, p) \/ EvictHostSkip(t, p)
        \/ EvictHostThrows(t, p)
  <2>1. Quiet
    BY <1>2, Zenon DEF AllocatePage, EvictVramToHost, LoadNvmeToHost,
       EvictHostSkip, EvictHostThrows, Quiet
  <2>2. /\ SameRecord(p) /\ state'[p] = state[p]
        /\ vram'[p] = vram[p] /\ host'[p] = host[p]
    BY <2>1, Zenon DEF Quiet, SameRecord, entryVars, memVars, ghostVars
  <2>3. pc'[t] \in {"idle", "allocVram", "allocHost", "allocNvme", "hostBuf",
                    "victimCheck"}
    <3>1. CASE AllocatePage(t, p)
      BY <1>1, <3>1, Zenon DEF AllocatePage, ChooseAllocationTier, Call,
         threadVars
    <3>2. CASE ~AllocatePage(t, p)
      BY <1>1, <1>2, <3>2, Zenon DEF EvictVramToHost, LoadNvmeToHost,
         EvictHostSkip, EvictHostThrows, CallEvictHost, Call, Return
    <3> QED
      BY <3>1, <3>2, Zenon
  <2>4. CopyOK(t)'
    BY <2>3, NoCopy, Zenon
  <2> QED
    BY <2>2, <2>4, Unmoved, Zenon
<1>3. CASE FreePage(t, p)
  <2>1. state'[p] = "Released" /\ pc'[t] = "freeVram"
    BY <1>1, <1>3, Zenon DEF FreePage, Claim, Call, Names, EntryTypes
  <2> QED
    BY <2>1, NotLive, NoCopy, Zenon
<1>4. CASE PromoteHostToVram(t, p)
  <2>1. /\ state[p] = "ResidentHost" /\ state'[p] = "LoadingToVram"
        /\ host'[p] = host[p] /\ SameRecord(p) /\ pc'[t] = "h2d"
    BY <1>1, <1>4, Zenon DEF PromoteHostToVram, Claimable, Claim, Call,
       Names, EntryTypes, SameRecord, ghostVars
  <2> QED
    BY <2>1, StateMoves, NoCopy, Zenon
<1>5. CASE EvictHostClaim(t, p)
  <2>1. /\ state[p] = "ResidentHost" /\ state'[p] = "EvictingToNvme"
        /\ host' = host /\ SameRecord(p) /\ torn' = torn
        /\ pc'[t] = IF NeedWrite(p) THEN "write" ELSE "writeDone"
    BY <1>1, <1>5, Zenon DEF EvictHostClaim, Claimable, Claim, Call,
       CallEvictHost, Names, EntryTypes, SameRecord, ghostVars, memVars
  <2>2. WritePageOf(t)' = p
    <3>1. Mine(t, p)
      BY CallMine, Zenon
    <3> QED
      BY <2>1, <3>1, Zenon DEF Mine, TransferLabels
  <2>3. ~NeedWrite(p) /\ p \notin torn => disk[nvme_offset[p]] = host[p]
    BY <2>1, Zenon DEF NeedWrite, ContentOK, Live, Resident, Authoritative
  <2>4. CopyOK(t)'
    <3>1. CASE NeedWrite(p)
      BY <2>1, <3>1, NoCopy, Zenon
    <3>2. CASE ~NeedWrite(p)
      BY <2>1, <2>2, <2>3, <3>2, Zenon DEF CopyOK, SameRecord
    <3> QED
      BY <3>1, <3>2, Zenon
  <2> QED
    BY <2>1, <2>4, StateMoves, Zenon
<1>6. CASE EvictHostReserve(t, p)
  <2>1. /\ state[p] = "ResidentHost" /\ state'[p] = "EvictingToNvme"
        /\ host' = host /\ checksum' = checksum /\ torn' = torn
        /\ pc'[t] = "write"
    BY <1>1, <1>6, Zenon DEF EvictHostReserve, Claimable, Claim, Call,
       CallEvictHost, Names, EntryTypes, ghostVars
  <2>2. ~has_nvme_copy'[p]
    <3>1. ~has_nvme_copy[p] /\ \E e \in Extents : ReserveNvmeRange(p, e)
      BY <1>6, Zenon DEF EvictHostReserve, Names, EntryOK
    <3> QED
      BY <1>1, <3>1, Reserving, Zenon DEF Names
  <2>3. Live(p) /\ Live(p)' /\ Authoritative(p)' = Authoritative(p)
    BY <2>1, Zenon DEF Live, Resident, Transferring, Authoritative
  <2> QED
    BY <2>1, <2>2, <2>3, NoCopy, Zenon DEF Outcome, KeepsValue
<1> QED
  BY <1>2, <1>3, <1>4, <1>5, <1>6, Zenon DEF PageStep

\* write_page, a clean drop and a change of the pin.
LEMMA CallerContent ==
    ASSUME EntryTypes, MemoryTypes, NEW p \in Pages, ContentOK(p),
           CallerStep(p)
    PROVE  Outcome(p)
<1>1. ASSUME NEW v \in Values, WritePage(p, v) PROVE Outcome(p)
  <2>1. /\ state'[p] = state[p] /\ ~has_nvme_copy'[p] /\ checksum'[p] = v
        /\ \/ state[p] = "ResidentHost" /\ host'[p] = v
           \/ state[p] = "ResidentVram" /\ vram'[p] = v
    BY <1>1, Zenon DEF WritePage, CopyIn, EntryTypes, MemoryTypes
  <2>2. Live(p) /\ Live(p)' /\ Authoritative(p)' = v
    BY <2>1, Zenon DEF Live, Resident, Authoritative
  <2> QED
    BY <2>1, <2>2, Zenon DEF Outcome, IsWritten
<1>2. ASSUME NEW v \in Values, WritePageFails(p, v) PROVE Outcome(p)
  BY <1>2, Zenon DEF WritePageFails, Outcome, IsTorn
<1>3. CASE CleanDrop(p)
  <2>1. /\ state[p] = "ResidentVram" /\ state'[p] = "ResidentNvme"
        /\ SameRecord(p) /\ has_nvme_copy[p] /\ torn' = torn
    BY <1>3, Zenon DEF CleanDrop, Claimable, EntryTypes, SameRecord,
       ghostVars
  <2>2. /\ Live(p) /\ Live(p)'
        /\ Authoritative(p)' = disk'[nvme_offset'[p]]
    BY <2>1, Zenon DEF Live, Resident, Authoritative
  <2>3. p \notin torn => Authoritative(p)' = Authoritative(p)
    BY <2>1, <2>2, Zenon DEF ContentOK, SameRecord
  <2> QED
    BY <2>1, <2>2, <2>3, Zenon DEF Outcome, KeepsValue, SameRecord
<1>4. ASSUME NEW b \in BOOLEAN, Pin(p, b) PROVE Outcome(p)
  <2>1. /\ SameRecord(p) /\ state'[p] = state[p]
        /\ vram'[p] = vram[p] /\ host'[p] = host[p]
    BY <1>4, Zenon DEF Pin, SameRecord, entryVars, memVars, ghostVars
  <2> QED
    BY <2>1, Unmoved, Zenon
<1> QED
  BY <1>1, <1>2, <1>3, <1>4, Zenon DEF CallerStep

\* So the page that a step works on is as it should be.
LEMMA OutcomeOK ==
    ASSUME NEW x, ContentOK(x), Outcome(x)
    PROVE  ContentOK(x)'
<1>1. /\ Live(x)' /\ checksum'[x] # NoSum /\ x \notin torn'
      => Authoritative(x)' = checksum'[x]
  BY Zenon DEF ContentOK, Outcome, KeepsValue, Appears, IsWritten, IsTorn
<1> QED
  BY <1>1, Zenon DEF ContentOK, Outcome

\* Every step: what becomes of the content of its page, and of a copy under way.
LEMMA ActsContent ==
    ASSUME Shape, NEW t, NEW x, Acts(t, x), ContentOK(x),
           t \in Threads => CopyOK(t)
    PROVE  Outcome(x) /\ (t \in Threads => CopyOK(t)')
<1>1. CASE t \in Threads /\ Step(t) /\ x = WritePageOf(t)
  BY <1>1, StepWorks, StepContent, Zenon
<1>2. CASE t \in Threads /\ x \in Pages /\ PageStep(t, x)
  <2>1. Names(t, x)
    BY <1>2, Zenon DEF Shape, TypeOK, ThreadShape, EntryShape, Names
  <2> QED
    BY <1>2, <2>1, CallContent, Zenon
<1>3. CASE t = NoThread /\ x \in Pages /\ CallerStep(x)
  <2>1. t \notin Threads
    BY <1>3, SentinelAssumption, Zenon
  <2> QED
    BY <1>3, <2>1, CallerContent, Zenon DEF Shape, TypeOK
<1> QED
  BY <1>1, <1>2, <1>3, Zenon DEF Acts

-----------------------------------------------------------------------------
(* Contents: the other pages and the other threads.                        *)

\* Only evict_host_to_nvme writes the store, at the extent of its page.
LEMMA StoreWrites ==
    ASSUME NEW t, NEW x, Acts(t, x)
    PROVE  \/ UNCHANGED disk
           \/ /\ t \in Threads /\ pc[t] = "write" /\ x = WritePageOf(t)
              /\ \E d : disk' = [disk EXCEPT ![nvme_offset[x]] = d]
<1>1. CASE t = NoThread /\ CallerStep(x)
  BY <1>1, Zenon DEF CallerStep, WritePage, WritePageFails, CleanDrop, Pin,
     memVars
<1>2. CASE t \in Threads /\ PageStep(t, x)
  BY <1>2, Zenon DEF PageStep, AllocatePage, FreePage, EvictVramToHost,
     LoadNvmeToHost, PromoteHostToVram, EvictHostClaim, EvictHostReserve,
     EvictHostSkip, EvictHostThrows, memVars
<1>3. CASE /\ t \in Threads /\ x = WritePageOf(t)
           /\ EvictHostWrite(t) \/ EvictHostWriteFails(t)
  BY <1>3, Zenon DEF EvictHostWrite, EvictHostWriteFails
<1>4. ASSUME t \in Threads, Step(t),
             ~EvictHostWrite(t), ~EvictHostWriteFails(t)
      PROVE  UNCHANGED disk
  BY <1>4, Zenon DEF Step, BufferStep, EvictVramStep, LoadStep, PromoteStep,
     EvictHostStep, AllocStep, FreeStep, HostBufAllocate, HostBufFull,
     HostBufRank, VictimCheck, HostBufRetry, HostBufGiveUp, HostBufUnused,
     EvictVramClaim, EvictVramCopy, EvictVramCopyFails, EvictVramDone,
     LoadClaim, LoadRead, LoadReadFails, LoadDone, PromoteCopy,
     PromoteCopyFails, PromoteDone, EvictHostDone, AllocVramReserve,
     AllocVramDevice, AllocHostBuffer, AllocHostInsert, AllocNvme, FreeVram,
     FreeVramBudget, FreeHost, FreeNvme, FreeNvmeEntry, FreeNvmeBudget,
     FreeEnd, memVars
<1> QED
  BY <1>1, <1>2, <1>3, <1>4, Zenon DEF Acts

\* torn changes at the page a step works on only, and grows only when a copy to
\* the device fails.
LEMMA TornChanges ==
    ASSUME Shape, NEW t, NEW x, Acts(t, x), NEW q
    PROVE  /\ q # x => (q \in torn' <=> q \in torn)
           /\ q \in torn' => q \in torn \/ "deviceWrite" \in Faults
<1>1. CASE t = NoThread /\ CallerStep(x)
  BY <1>1, Zenon DEF CallerStep, WritePage, WritePageFails, CleanDrop, Pin,
     ghostVars
<1>2. CASE t \in Threads /\ x \in Pages /\ PageStep(t, x)
  BY <1>2, CallSets, Zenon
<1>3. CASE t \in Threads /\ Step(t) /\ x = WritePageOf(t) /\ ~FreeEnd(t)
  BY <1>3, Zenon DEF Step, BufferStep, EvictVramStep, LoadStep, PromoteStep,
     EvictHostStep, AllocStep, FreeStep, HostBufAllocate, HostBufFull,
     HostBufRank, VictimCheck, HostBufRetry, HostBufGiveUp, HostBufUnused,
     EvictVramClaim, EvictVramCopy, EvictVramCopyFails, EvictVramDone,
     LoadClaim, LoadRead, LoadReadFails, LoadDone, PromoteCopy,
     PromoteCopyFails, PromoteDone, EvictHostWrite, EvictHostWriteFails,
     EvictHostDone, AllocVramReserve, AllocVramDevice, AllocHostBuffer,
     AllocHostInsert, AllocNvme, FreeVram, FreeVramBudget, FreeHost,
     FreeNvme, FreeNvmeEntry, FreeNvmeBudget, ghostVars
<1>4. CASE t \in Threads /\ FreeEnd(t) /\ x = WritePageOf(t)
  <2>1. Works(t, x)
    BY <1>4, Working, Zenon DEF FreeEnd
  <2>2. x = page[t]
    BY <1>4, <2>1, Zenon DEF FreeEnd, Works
  <2> QED
    BY <1>4, <2>2, Zenon DEF FreeEnd
<1> QED
  BY <1>1, <1>2, <1>3, <1>4, Zenon DEF Acts

\* The extent of a page keeps its content, unless the page's owner writes it.
LEMMA StoreKept ==
    ASSUME Shape, ExtentsExclusive, NEW t, NEW x, Acts(t, x),
           NEW q \in Pages, nvme_offset[q] # NoExtent,
           state[q] # "Released",
           q # x \/ ~(t \in Threads /\ Owns(t, x))
    PROVE  disk'[nvme_offset[q]] = disk[nvme_offset[q]]
<1>1. CASE UNCHANGED disk
  BY <1>1, Zenon
<1>2. CASE /\ t \in Threads /\ pc[t] = "write" /\ x = WritePageOf(t)
           /\ \E d : disk' = [disk EXCEPT ![nvme_offset[x]] = d]
  <2>1. Works(t, x) /\ Owns(t, x)
    BY <1>2, Working, Zenon DEF Owns, TransferLabels
  <2>2. state[x] = "EvictingToNvme"
    BY <1>2, <2>1, Zenon DEF Works, TransferLabels, ClaimedAs
  <2>3. x \in Pages /\ nvme_offset[x] # NoExtent
    BY <2>1, <2>2, Zenon DEF Works, EntryOK
  <2>4. HasExtent(x) /\ HasExtent(q)
    BY <2>2, <2>3, NotGivenBack, Zenon
  <2>5. nvme_offset[q] # nvme_offset[x]
    BY <1>2, <2>1, <2>3, <2>4, Zenon DEF ExtentsExclusive
  <2>6. nvme_offset[q] \in Extents /\ disk \in [Extents -> Data]
    BY Zenon DEF Shape, TypeOK, EntryTypes, MemoryTypes
  <2> QED
    BY <1>2, <2>5, <2>6, Zenon
<1> QED
  BY <1>1, <1>2, StoreWrites, Zenon

\* The other pages keep their values.
LEMMA OthersKeepValue ==
    ASSUME Shape, ExtentsExclusive, NEW t, NEW x, Acts(t, x),
           NEW q \in Pages, q # x, ContentOK(q)
    PROVE  Outcome(q) /\ (Live(q)' => KeepsValue(q))
<1>1. SameEntry(q) \/ LosesExtent(q)
  BY ActsEffect, Zenon DEF Effect
<1>2. /\ state'[q] = state[q] /\ checksum'[q] = checksum[q]
      /\ vram'[q] = vram[q] /\ host'[q] = host[q]
  BY <1>1, Zenon DEF SameEntry, LosesExtent
<1>3. q \in torn' <=> q \in torn
  BY TornChanges, Zenon
<1>4. CASE Live(q)
  <2>1. Live(q)'
    BY <1>2, <1>4, Zenon DEF Live
  <2>2. nvme_offset[q] # NoExtent =>
            disk'[nvme_offset[q]] = disk[nvme_offset[q]]
    <3>1. state[q] # "Released"
      BY <1>4, Zenon DEF Live, Resident, Transferring
    <3> QED
      BY <3>1, StoreKept, Zenon
  <2>3. CASE SameEntry(q)
    <3>1. has_nvme_copy'[q] = has_nvme_copy[q]
          /\ nvme_offset'[q] = nvme_offset[q]
      BY <2>3, Zenon DEF SameEntry
    <3>2. /\ state[q] \in {"ResidentNvme", "LoadingToHost"} =>
                nvme_offset[q] # NoExtent
          /\ has_nvme_copy[q] => nvme_offset[q] # NoExtent
      BY Zenon DEF Shape, EntryShape, EntryOK
    <3>3. Authoritative(q)' = Authoritative(q)
      BY <1>2, <1>4, <2>2, <3>1, <3>2, Zenon DEF Live, Resident,
         Transferring, Authoritative
    <3> QED
      BY <1>2, <1>3, <1>4, <2>1, <2>2, <3>1, <3>2, <3>3, Zenon
         DEF Outcome, KeepsValue, ContentOK
  <2>4. CASE LosesExtent(q)
    <3>1. Authoritative(q)' = Authoritative(q) /\ ~has_nvme_copy'[q]
      BY <2>4, Zenon DEF LosesExtent, Authoritative
    <3> QED
      BY <1>2, <1>3, <1>4, <2>1, <3>1, Zenon DEF Outcome, KeepsValue
  <2> QED
    BY <1>1, <2>3, <2>4, Zenon
<1>5. CASE ~Live(q)
  BY <1>2, <1>5, Zenon DEF Live, Outcome
<1> QED
  BY <1>4, <1>5, Zenon

\* The other threads still have made their copies.
LEMMA OthersKeepCopy ==
    ASSUME Shape, ExtentsExclusive, NEW t, NEW x, Acts(t, x),
           NEW u \in Threads, u # t, CopyOK(u)
    PROVE  CopyOK(u)'
<1>1. Effect(t, x) /\ SameLocals(u)
  BY ActsEffect, Zenon DEF Effect
<1>2. CASE pc[u] \notin {"d2hDone", "readDone", "h2dDone", "writeDone"}
  BY <1>1, <1>2, NoCopy, Zenon DEF SameLocals
<1>3. CASE pc[u] \in {"d2hDone", "readDone", "h2dDone", "writeDone"}
  <2>1. PICK w : w = WritePageOf(u)
    OBVIOUS
  <2>2. Works(u, w) /\ Owns(u, w) /\ w \in Pages
    BY <1>3, <2>1, Working, Zenon DEF Works, Owns, TransferLabels
  <2>3. SameEntry(w)
    BY <1>1, <2>2, OthersKept, Zenon
  <2>4. t \in Threads /\ Owns(t, x) => w # x
    BY <2>2, Zenon DEF Shape, ClaimsExclusive
  <2>5. w \in torn' <=> w \in torn
    <3>1. CASE w = x
      BY <1>1, <2>2, <3>1, Zenon DEF Effect, Exclusive, Quiet, ghostVars
    <3>2. CASE w # x
      BY <3>2, TornChanges, Zenon
    <3> QED
      BY <3>1, <3>2, Zenon
  <2>6. pc[u] \in {"readDone", "writeDone"} =>
            disk'[nvme_offset[w]] = disk[nvme_offset[w]]
    <3>1. pc[u] \in {"readDone", "writeDone"} =>
            state[w] \in {"LoadingToHost", "EvictingToNvme"}
      BY <2>2, Zenon DEF Works, TransferLabels, ClaimedAs
    <3>2. pc[u] \in {"readDone", "writeDone"} =>
            nvme_offset[w] # NoExtent /\ state[w] # "Released"
      BY <2>2, <3>1, Zenon DEF Works, EntryOK
    <3> QED
      BY <2>2, <2>4, <3>2, StoreKept, Zenon
  <2>7. /\ pc'[u] = pc[u] /\ page'[u] = page[u] /\ WritePageOf(u)' = w
        /\ pc[u] # "writeDone" => page[u] = w
    BY <1>1, <1>3, <2>1, <2>2, Zenon DEF SameLocals, WritePageOf, Works
  <2> QED
    BY <2>1, <2>3, <2>5, <2>6, <2>7, Zenon DEF CopyOK, SameEntry
<1> QED
  BY <1>2, <1>3, Zenon

-----------------------------------------------------------------------------
(* The theorems.                                                           *)

\* What the tiers and the store contain, beyond the shape of the table.
Contents ==
    /\ Shape /\ ExtentsExclusive /\ UncountedAbandoned
    /\ \A p \in Pages : ContentOK(p)
    /\ \A t \in Threads : CopyOK(t)

\* An empty table has no contents.
LEMMA InitContents == Init => Contents
<1> SUFFICES ASSUME Init PROVE Contents
  OBVIOUS
<1>1. Shape
  BY InitShape, Zenon
<1>2. \A p \in Pages : ~HasExtent(p) /\ ContentOK(p)
  BY Zenon DEF Init, HasExtent, ContentOK
<1>3. ExtentByExtent
  BY <1>2, Zenon DEF Init, ExtentByExtent, InUse
<1>4. \A t \in Threads : CopyOK(t)
  BY Zenon DEF Init, CopyOK
<1>5. UncountedAbandoned
  BY Zenon DEF Init, UncountedAbandoned
<1> QED
  BY <1>1, <1>2, <1>3, <1>4, <1>5, FreeList, Zenon DEF Contents

\* Every step keeps the contents, and does one thing to the value of a page.
LEMMA NextContents ==
    ASSUME Contents, NEW t, NEW x, Acts(t, x)
    PROVE  /\ Contents' /\ x \in Pages /\ Outcome(x)
           /\ \A q \in Pages \ {x} : Live(q)' => KeepsValue(q)
<1>1. /\ Shape /\ ExtentsExclusive /\ UncountedAbandoned
      /\ \A p \in Pages : ContentOK(p)
      /\ \A u \in Threads : CopyOK(u)
  BY Zenon DEF Contents
<1>2. x \in Pages /\ TypeOK'
  <2>1. Effect(t, x) /\ x \in Pages
    BY <1>1, ActsEffect, Zenon DEF Effect
  <2>2. TypeOK'
    BY <1>1, <2>1, TypeStep, CallerTypes, Zenon DEF Acts, Shape
  <2> QED
    BY <2>1, <2>2, Zenon
<1>3. Shape'
  BY <1>1, <1>2, ActsEffect, ShapeKept, Zenon
<1>4. Outcome(x) /\ (t \in Threads => CopyOK(t)')
  BY <1>1, <1>2, ActsContent, Zenon
<1>5. \A q \in Pages \ {x} : Outcome(q) /\ (Live(q)' => KeepsValue(q))
  BY <1>1, OthersKeepValue, Zenon
<1>6. \A q \in Pages : ContentOK(q)'
  BY <1>1, <1>4, <1>5, OutcomeOK, Zenon
<1>7. \A u \in Threads : CopyOK(u)'
  BY <1>1, <1>4, OthersKeepCopy, Zenon
<1>8. ExtentsExclusive' /\ UncountedAbandoned'
  BY <1>1, ExtentsKept, UncountedKept, Zenon
<1> QED
  BY <1>2, <1>3, <1>4, <1>5, <1>6, <1>7, <1>8, Zenon DEF Contents

\* A step that changes nothing.
LEMMA StutterContents == Contents /\ UNCHANGED vars => Contents'
<1> SUFFICES ASSUME Contents, UNCHANGED vars PROVE Contents'
  OBVIOUS
<1>1. Shape'
  BY StutterShape, Zenon DEF Contents
<1> USE DEF Contents, vars, entryVars, memVars, threadVars, ghostVars
<1>2. ExtentsExclusive'
  BY ZenonT(40) DEF ExtentsExclusive, HasExtent
<1>3. UncountedAbandoned'
  BY Zenon DEF UncountedAbandoned, Owns, WritePageOf
<1>4. \A p \in Pages : ContentOK(p)'
  BY Zenon DEF ContentOK, Live, Authoritative
<1>5. \A t \in Threads : CopyOK(t)'
  BY Zenon DEF CopyOK, WritePageOf
<1> QED
  BY <1>1, <1>2, <1>3, <1>4, <1>5, Zenon

\* The contents are an invariant of the page table and its threads.
THEOREM ContentsInvariant == Spec => []Contents
<1>1. ASSUME Contents, Next PROVE Contents'
  BY <1>1, NextActs, NextContents, StutterContents, Zenon
<1>2. Contents /\ [Next]_vars => Contents'
  BY <1>1, StutterContents, Zenon
<1> QED
  BY <1>2, InitContents, PTL DEF Spec

\* An extent of the store belongs to one page, and is free exactly when it
\* belongs to none, whatever reserve_nvme_range_locked reclaims and however
\* free_page interleaves with it.
THEOREM ExtentsAreExclusive == Spec => []ExtentsExclusive
<1>1. Contents => ExtentsExclusive
  BY Zenon DEF Contents
<1> QED
  BY <1>1, ContentsInvariant, PTL

\* No write is lost: whatever evictions, loads, promotions, clean drops and
\* reclaimed extents follow a write_page, and wherever they fail, the
\* authoritative copy of a page that is not in Error has what was written.
THEOREM WritesAreKept == Spec => []NoLostWrite
<1>1. Contents => NoLostWrite
  BY Zenon DEF Contents, NoLostWrite, ContentOK
<1> QED
  BY <1>1, ContentsInvariant, PTL

\* A page marked has_nvme_copy has an extent with its content and is not dirty,
\* so that the clean drop of evict and ensure_vram_headroom loses nothing.
THEOREM StoreCopiesAreValid == Spec => []StoreCopyValid
<1>1. Contents => StoreCopyValid
  <2> SUFFICES ASSUME Contents, NEW p \in Pages, Live(p), has_nvme_copy[p]
               PROVE  /\ ~dirty[p] /\ nvme_offset[p] # NoExtent
                      /\ p \notin torn =>
                            disk[nvme_offset[p]] = Authoritative(p)
    BY Zenon DEF StoreCopyValid
  <2>1. EntryOK(p) /\ ContentOK(p)
    BY Zenon DEF Contents, Shape, EntryShape
  <2> QED
    BY <2>1, Zenon DEF EntryOK, ContentOK
<1> QED
  BY <1>1, ContentsInvariant, PTL

-----------------------------------------------------------------------------
(* Residency implements PageStore, unless a write to the device fails      *)
(* part-way.                                                               *)

Untorn == Contents /\ torn = {}

\* What a caller sees of page p.
StatusOf(p) ==
    IF Live(p) THEN "live" ELSE IF state[p] = "Error" THEN "failed" ELSE "none"
ValueOf(p) == IF Live(p) THEN Authoritative(p) ELSE Null

\* The caller sees no change of page q.
Unseen(q) == StatusOf(q)' = StatusOf(q) /\ ValueOf(q)' = ValueOf(q)

\* At first nothing is torn.
LEMMA InitUntorn == Init => Untorn
BY InitContents, Zenon DEF Untorn, Init

\* Only a failed write to the device tears a page.
LEMMA NextUntorn ==
    ASSUME "deviceWrite" \notin Faults, Untorn, NEW t, NEW x, Acts(t, x)
    PROVE  Untorn'
<1>1. Contents' /\ \A q : q \in torn' => q \in torn
  BY NextContents, TornChanges, Zenon DEF Untorn, Contents
<1> QED
  BY <1>1, Zenon DEF Untorn

\* Pages a step does not work on.
LEMMA OthersUnseen ==
    ASSUME Untorn, NEW t, NEW x, Acts(t, x), NEW q \in Pages \ {x}
    PROVE  Unseen(q)
<1>1. state'[q] = state[q]
  BY ActsEffect, Zenon DEF Untorn, Contents, Effect, SameEntry, LosesExtent
<1>2. Live(q)' <=> Live(q)
  BY <1>1, Zenon DEF Live
<1>3. Live(q)' => Authoritative(q)' = Authoritative(q)
  BY NextContents, Zenon DEF Untorn, KeepsValue
<1> QED
  BY <1>1, <1>2, <1>3, Zenon DEF Unseen, StatusOf, ValueOf

\* A page that is neither live nor lost does not become lost.
LEMMA NotLost ==
    ASSUME NEW x, LegalChange(x), ~Live(x), state'[x] = "Error"
    PROVE  state[x] = "Error"
BY DEF LegalChange, TransitionAllowed, Live, Resident, Transferring

\* What the caller sees of the page a step works on.
LEMMA SeenOfPage ==
    ASSUME "deviceWrite" \notin Faults, Untorn, NEW t, NEW x, Acts(t, x)
    PROVE  \/ Unseen(x)
           \/ \E d \in Data : /\ StatusOf(x) = "none"
                              /\ StatusOf(x)' = "live" /\ ValueOf(x)' = d
           \/ \E v \in Values : /\ StatusOf(x) = "live"
                                /\ StatusOf(x)' = "live" /\ ValueOf(x)' = v
           \/ /\ StatusOf(x) = "live" /\ StatusOf(x)' = "failed"
              /\ ValueOf(x)' = Null
           \/ /\ StatusOf(x) \in {"live", "failed"} /\ StatusOf(x)' = "none"
              /\ ValueOf(x)' = Null
<1> USE DEF StatusOf, ValueOf
<1>1. Outcome(x) /\ LegalChange(x)
  BY NextContents, ActsEffect, Zenon DEF Untorn, Contents, Effect
<1>2. CASE KeepsValue(x)
  BY <1>2, Zenon DEF KeepsValue, Unseen, Untorn
<1>3. CASE Appears(x)
  <2>1. ~Live(x) /\ state[x] # "Error"
    BY <1>3 DEF Appears, Live, Resident, Transferring
  <2> QED
    BY <1>3, <2>1, Zenon DEF Appears
<1>4. CASE IsWritten(x)
  BY <1>4, Zenon DEF IsWritten
<1>5. CASE ~Live(x)'
  <2>1. CASE Live(x)
    BY <1>5, <2>1, Zenon
  <2>2. CASE ~Live(x)
    <3>1. state'[x] = "Error" => state[x] = "Error"
      BY <1>1, <2>2, NotLost, Zenon
    <3> QED
      BY <1>5, <2>2, <3>1, Zenon DEF Unseen
  <2> QED
    BY <2>1, <2>2, Zenon
<1> QED
  BY <1>1, <1>2, <1>3, <1>4, <1>5, Zenon DEF Outcome, IsTorn

\* The mapped variables, page by page.
BarsByPage ==
    /\ statusBar = [p \in Pages |-> StatusOf(p)]
    /\ valueBar = [p \in Pages |-> ValueOf(p)]

\* The mapping to PageStore, page by page.
LEMMA BarsByPageHold == BarsByPage /\ BarsByPage'
<1>1. BarsByPage
  BY Zenon DEF BarsByPage, statusBar, valueBar, StatusOf, ValueOf
<1> QED
  BY <1>1, PTL

\* Every step is one of the plain store of values, or invisible to it.
LEMMA StoreStep ==
    ASSUME "deviceWrite" \notin Faults, Untorn, NEW t, NEW x, Acts(t, x)
    PROVE  Store!StoreNext \/ UNCHANGED Store!storeVars
<1>1. x \in Pages
  BY NextContents, Zenon DEF Untorn
<1>2. \A q \in Pages \ {x} : Unseen(q)
  BY OthersUnseen, Zenon
<1>3. PICK S : S = statusBar'
  OBVIOUS
<1>4. PICK V : V = valueBar'
  OBVIOUS
<1>5. /\ S = [p \in Pages |-> StatusOf(p)']
      /\ V = [p \in Pages |-> ValueOf(p)']
  BY <1>3, <1>4, BarsByPageHold, Zenon DEF BarsByPage
<1>6. /\ S = [statusBar EXCEPT ![x] = StatusOf(x)']
      /\ V = [valueBar EXCEPT ![x] = ValueOf(x)']
      /\ statusBar[x] = StatusOf(x) /\ valueBar[x] = ValueOf(x)
  BY <1>1, <1>2, <1>5, BarsByPageHold, Zenon DEF BarsByPage, Unseen
<1>7. CASE Unseen(x)
  <2>1. S = statusBar /\ V = valueBar
    BY <1>2, <1>5, <1>7, BarsByPageHold, Zenon DEF BarsByPage, Unseen
  <2> QED
    BY <1>3, <1>4, <2>1, Zenon DEF Store!storeVars
<1>8. ASSUME NEW d \in Data, StatusOf(x) = "none",
             StatusOf(x)' = "live", ValueOf(x)' = d
      PROVE  Store!StoreNext
  BY <1>1, <1>3, <1>4, <1>6, <1>8, Zenon DEF Store!StoreNext, Store!Create
<1>9. ASSUME NEW v \in Values, StatusOf(x) = "live",
             StatusOf(x)' = "live", ValueOf(x)' = v
      PROVE  Store!StoreNext
  <2>1. S = statusBar
    BY <1>2, <1>5, <1>9, BarsByPageHold, Zenon DEF BarsByPage, Unseen
  <2> QED
    BY <1>1, <1>3, <1>4, <1>6, <1>9, <2>1, Zenon DEF Store!StoreNext,
       Store!Write
<1>10. ASSUME StatusOf(x) = "live", StatusOf(x)' = "failed",
              ValueOf(x)' = Null
       PROVE  Store!StoreNext
  BY <1>1, <1>3, <1>4, <1>6, <1>10, Zenon DEF Store!StoreNext, Store!Fail
<1>11. ASSUME StatusOf(x) \in {"live", "failed"}, StatusOf(x)' = "none",
              ValueOf(x)' = Null
       PROVE  Store!StoreNext
  BY <1>1, <1>3, <1>4, <1>6, <1>11, Zenon DEF Store!StoreNext, Store!Delete
<1> QED
  BY <1>7, <1>8, <1>9, <1>10, <1>11, SeenOfPage, Zenon

\* A step that changes nothing is invisible.
LEMMA StutterStore ==
    ASSUME Untorn, UNCHANGED vars
    PROVE  Untorn' /\ UNCHANGED Store!storeVars
<1>1. Untorn'
  BY StutterContents, Zenon DEF Untorn, vars, ghostVars
<1>2. statusBar' = statusBar /\ valueBar' = valueBar
  BY Zenon DEF statusBar, valueBar, Live, Authoritative, vars, entryVars,
     memVars
<1> QED
  BY <1>1, <1>2, Zenon DEF Store!storeVars

\* The transfers between the tiers implement a plain store of values: a page
\* that is allocated keeps one value, whatever moves it, until it is written,
\* lost to a failed transfer or freed.  Any failure may happen but one: a copy
\* of write_page to the device that fails part-way leaves neither the old value
\* nor the new one.
THEOREM StoreImplemented ==
    ASSUME "deviceWrite" \notin Faults
    PROVE  Spec => ImplementsPageStore
<1>1. Init => Store!StoreInit
  BY DEF Init, Store!StoreInit, statusBar, valueBar, Live, Resident,
     Transferring
<1>2. ASSUME Untorn, Next
      PROVE  Untorn' /\ (Store!StoreNext \/ UNCHANGED Store!storeVars)
  BY <1>2, NextActs, NextUntorn, StoreStep, StutterStore, Zenon
<1>3. Untorn /\ [Next]_vars => Untorn' /\ [Store!StoreNext]_(Store!storeVars)
  BY <1>2, StutterStore, Zenon
<1> QED
  BY <1>1, <1>3, InitUntorn, PTL DEF Spec, ImplementsPageStore,
     Store!StoreSpec

\* As long as no write to the device fails part-way, a clean page with a copy in
\* the store is what the store has, in every tier and during every transfer:
\* write_page is the one operation that can change a page and not record it.
THEOREM CleanCopiesMatch ==
    ASSUME "deviceWrite" \notin Faults
    PROVE  Spec => []CleanCopyMatches
<1>1. ASSUME Untorn, Next PROVE Untorn'
  BY <1>1, NextActs, NextUntorn, StutterStore, Zenon
<1>2. Untorn /\ [Next]_vars => Untorn'
  BY <1>1, StutterStore, Zenon
<1>3. Untorn /\ StoreCopyValid => CleanCopyMatches
  BY Zenon DEF Untorn, StoreCopyValid, CleanCopyMatches
<1> QED
  BY <1>2, <1>3, InitUntorn, StoreCopiesAreValid, PTL DEF Spec

-----------------------------------------------------------------------------
(* Pages in flight.                                                        *)

\* Thread t settles page x in this step, or has it to itself afterwards, or
\* did not have it before and leaves every in_flight alone.
Answers(t, x) ==
    \/ ~in_flight'[x]
    \/ pc'[t] \in TransferLabels \cup FreeLabels
    \/ in_flight' = in_flight /\ pc[t] \notin TransferLabels \cup FreeLabels

\* A transfer function returns only after it has settled its page, unless
\* freeing memory fails.
LEMMA TransferAnswers ==
    ASSUME "deviceFree" \notin Faults, "hostFree" \notin Faults,
           NEW t \in Threads, NEW x, Works(t, x),
           EvictVramStep(t) \/ LoadStep(t) \/ PromoteStep(t) \/ EvictHostStep(t)
    PROVE  Answers(t, x)
<1>1. /\ ThreadTypes /\ EntryTypes /\ x \in Pages /\ x = WritePageOf(t)
      /\ pc[t] \notin {"victimCheck", "write", "writeDone"} => x = page[t]
  BY Zenon DEF Works, ThreadOK, WritePageOf
<1>2. CASE \/ EvictVramClaim(t) \/ EvictVramCopy(t) \/ LoadClaim(t)
           \/ LoadRead(t) \/ PromoteCopy(t) \/ EvictHostWrite(t)
  BY <1>1, <1>2, Zenon DEF EvictVramClaim, EvictVramCopy, LoadClaim, LoadRead,
     PromoteCopy, EvictHostWrite, Goto, ThreadTypes, Answers, TransferLabels
<1>3. CASE \/ EvictVramCopyFails(t) \/ EvictVramDone(t) \/ LoadReadFails(t)
           \/ LoadDone(t) \/ PromoteCopyFails(t) \/ PromoteDone(t)
  <2>1. \E to : Settle(x, to)
    BY <1>1, <1>3, Zenon DEF EvictVramCopyFails, EvictVramDone, LoadReadFails,
       LoadDone, PromoteCopyFails, PromoteDone
  <2> QED
    BY <1>1, <2>1, Zenon DEF Settle, EntryTypes, Answers
<1>4. CASE EvictHostWriteFails(t) \/ EvictHostDone(t)
  <2>1. \E to : Settle(x, to)
    BY <1>1, <1>4, Zenon DEF EvictHostWriteFails, EvictHostDone
  <2> QED
    BY <1>1, <2>1, Zenon DEF Settle, EntryTypes, Answers
<1> QED
  BY <1>2, <1>3, <1>4, Zenon DEF EvictVramStep, LoadStep, PromoteStep,
     EvictHostStep

\* claim_host_buffer and allocate_page claim no page; free_page gives its page
\* back when it ends.
LEMMA OtherAnswers ==
    ASSUME NEW t \in Threads, NEW x, Works(t, x),
           BufferStep(t) \/ AllocStep(t) \/ FreeStep(t)
    PROVE  Answers(t, x)
<1>1. /\ ThreadTypes /\ EntryTypes /\ x \in Pages /\ x = WritePageOf(t)
      /\ pc[t] \notin {"victimCheck", "write", "writeDone"} => x = page[t]
  BY Zenon DEF Works, ThreadOK, WritePageOf
<1>2. CASE BufferStep(t)
  BY <1>2, Zenon DEF BufferStep, HostBufAllocate, HostBufFull, HostBufRank,
     VictimCheck, HostBufRetry, HostBufGiveUp, HostBufUnused, entryVars,
     Answers, TransferLabels, FreeLabels
<1>3. CASE AllocStep(t)
  BY <1>3, Zenon DEF AllocStep, AllocVramReserve, AllocVramDevice,
     AllocHostBuffer, AllocHostInsert, AllocNvme, entryVars, Answers,
     TransferLabels, FreeLabels
<1>4. CASE FreeEnd(t)
  BY <1>1, <1>4, Zenon DEF FreeEnd, EntryTypes, Answers
<1>5. CASE \/ FreeVram(t) \/ FreeVramBudget(t) \/ FreeHost(t) \/ FreeNvme(t)
           \/ FreeNvmeEntry(t) \/ FreeNvmeBudget(t)
  <2>1. \E label \in FreeLabels : pc' = [pc EXCEPT ![t] = label]
    BY <1>5, Zenon DEF FreeVram, FreeVramBudget, FreeHost, FreeNvme,
       FreeNvmeEntry, FreeNvmeBudget, Goto, ReleaseFailed, FreeLabels
  <2> QED
    BY <1>1, <2>1, Zenon DEF ThreadTypes, Answers
<1> QED
  BY <1>2, <1>3, <1>4, <1>5, Zenon DEF FreeStep

\* A call that claims its page goes on with it.
LEMMA CallAnswers ==
    ASSUME NEW t \in Threads, NEW p, ThreadTypes, PageStep(t, p)
    PROVE  Answers(t, p) /\ pc[t] \notin TransferLabels \cup FreeLabels
<1>1. pc[t] \in {"idle", "victims"}
  BY Zenon DEF PageStep, AllocatePage, FreePage, EvictVramToHost,
     LoadNvmeToHost, PromoteHostToVram, EvictHostClaim, EvictHostReserve,
     EvictHostSkip, EvictHostThrows, CallEvictHost, Call
<1>2. CASE \/ AllocatePage(t, p) \/ EvictVramToHost(t, p)
           \/ LoadNvmeToHost(t, p) \/ EvictHostSkip(t, p)
           \/ EvictHostThrows(t, p)
  BY <1>1, <1>2, Zenon DEF AllocatePage, EvictVramToHost, LoadNvmeToHost,
     EvictHostSkip, EvictHostThrows, entryVars, Answers, TransferLabels,
     FreeLabels
<1>3. CASE \/ FreePage(t, p) \/ PromoteHostToVram(t, p)
           \/ EvictHostClaim(t, p) \/ EvictHostReserve(t, p)
  <2>1. \E label \in TransferLabels \cup FreeLabels :
            pc' = [pc EXCEPT ![t] = label]
    BY <1>3, Zenon DEF FreePage, PromoteHostToVram, EvictHostClaim,
       EvictHostReserve, CallEvictHost, Call, TransferLabels, FreeLabels
  <2> QED
    BY <1>1, <2>1, Zenon DEF ThreadTypes, Answers, TransferLabels, FreeLabels
<1> QED
  BY <1>1, <1>2, <1>3, Zenon DEF PageStep, TransferLabels, FreeLabels

\* A page in flight keeps its owner, or gets one.
LEMMA OwnersKept ==
    ASSUME "deviceFree" \notin Faults, "hostFree" \notin Faults,
           Shape, InFlightHasOwner, NEW t, NEW x, Acts(t, x)
    PROVE  InFlightHasOwner'
<1>1. Effect(t, x) /\ ThreadTypes
  BY ActsEffect, Zenon DEF Shape, TypeOK
<1>2. \/ t \notin Threads /\ in_flight' = in_flight
      \/ /\ t \in Threads /\ Answers(t, x)
         /\ pc[t] \in TransferLabels \cup FreeLabels => x = WritePageOf(t)
  <2>1. CASE t = NoThread /\ CallerStep(x)
    BY <2>1, SentinelAssumption, Zenon DEF CallerStep, WritePage,
       WritePageFails, CleanDrop, Pin, entryVars
  <2>2. CASE t \in Threads /\ PageStep(t, x)
    BY <1>1, <2>2, CallAnswers, Zenon
  <2>3. CASE t \in Threads /\ Step(t) /\ x = WritePageOf(t)
    <3>1. Works(t, x)
      BY <2>3, StepWorks, Zenon
    <3> QED
      BY <2>3, <3>1, TransferAnswers, OtherAnswers, Zenon DEF Step
  <2> QED
    BY <2>1, <2>2, <2>3, Zenon DEF Acts
<1>3. ASSUME NEW q \in Pages, in_flight'[q]
      PROVE  \E u \in Threads : Owns(u, q)'
  <2>1. CASE t \in Threads /\ q = x /\ pc'[t] \in TransferLabels \cup FreeLabels
    BY <1>1, <2>1, Zenon DEF Effect, Mine, Owns
  <2>2. CASE ~(t \in Threads /\ q = x /\ pc'[t] \in TransferLabels \cup FreeLabels)
    <3>1. /\ in_flight[q]
          /\ t \in Threads => ~Owns(t, q)
      BY <1>1, <1>2, <1>3, <2>2, Zenon DEF Effect, SameEntry, LosesExtent,
         Answers, Owns
    <3>2. PICK u \in Threads : Owns(u, q)
      BY <3>1, Zenon DEF InFlightHasOwner
    <3>3. u \in Threads \ {t}
      BY <3>1, <3>2, Zenon
    <3>4. Owns(u, q)'
      BY <1>1, <3>2, <3>3, OthersKept, Zenon
    <3> QED
      BY <3>2, <3>4, Zenon
  <2> QED
    BY <2>1, <2>2, Zenon
<1> QED
  BY <1>3, Zenon DEF InFlightHasOwner

\* As long as device_free and host_free do not fail, a page in flight always has
\* a thread that is going to settle it, whatever copies and reads and writes of
\* the store fail: those failures are caught by the functions that started them.
THEOREM PagesInFlightHaveOwners ==
    ASSUME "deviceFree" \notin Faults, "hostFree" \notin Faults
    PROVE  Spec => []InFlightHasOwner
<1>1. Init => InFlightHasOwner
  BY Zenon DEF Init, InFlightHasOwner
<1>2. InFlightHasOwner /\ UNCHANGED vars => InFlightHasOwner'
  <2>1. SUFFICES ASSUME InFlightHasOwner, UNCHANGED vars,
                        NEW q \in Pages, in_flight'[q]
                 PROVE  \E u \in Threads : Owns(u, q)'
    BY Zenon DEF InFlightHasOwner
  <2>2. /\ in_flight[q] /\ pc' = pc /\ page' = page /\ victim' = victim
    BY <2>1, Zenon DEF vars, entryVars, threadVars
  <2>3. PICK u \in Threads : Owns(u, q)
    BY <2>1, <2>2, Zenon DEF InFlightHasOwner
  <2>4. Owns(u, q)'
    BY <2>2, <2>3, Zenon DEF Owns, WritePageOf
  <2> QED
    BY <2>3, <2>4, Zenon
<1>3. ASSUME Shape, InFlightHasOwner, Next PROVE InFlightHasOwner'
  BY <1>2, <1>3, NextActs, OwnersKept, Zenon
<1>4. Shape /\ InFlightHasOwner /\ [Next]_vars => InFlightHasOwner'
  BY <1>2, <1>3, Zenon
<1> QED
  BY <1>1, <1>4, ShapeInvariant, PTL DEF Spec

-----------------------------------------------------------------------------
(* The contracts of the step functions.                                    *)

\* claim_host_buffer: no entry changes.
LEMMA BufferServes ==
    ASSUME Shape, NEW t \in Threads, pc[t] # "idle", Serves(t), BufferStep(t)
    PROVE  Served(t)
<1>1. /\ ThreadTypes /\ page[t] \in Pages /\ Works(t, WritePageOf(t))
      /\ vram_used \in Int
  BY Working, Zenon DEF Works, MemoryTypes
<1>2. SameEntry(page[t]) /\ pc[t] \in BufferLabels
  BY <1>1, BufferFrame, Zenon DEF BufferStep, HostBufAllocate, HostBufFull,
     HostBufRank, VictimCheck, HostBufRetry, HostBufGiveUp, HostBufUnused,
     BufferLabels
<1>3. /\ vram_used' = vram_used /\ issued' = issued
  BY Zenon DEF BufferStep, HostBufAllocate, HostBufFull,
     HostBufRank, VictimCheck, HostBufRetry, HostBufGiveUp, HostBufUnused,
     budgetVars
<1>4. CASE HostBufUnused(t)
  BY <1>2, <1>4, Zenon DEF HostBufUnused, Serves
<1>5. CASE HostBufGiveUp(t)
  <2>1. pc[t] = "hostBuf" /\ pc'[t] = "idle"
    BY <1>1, <1>5, Zenon DEF HostBufGiveUp, Return, ThreadTypes
  <2> QED
    BY <1>1, <1>3, <2>1, SMT DEF Served, Completes
<1>6. CASE VictimCheck(t) /\ Return(t)
  <2>1. pc[t] = "victimCheck" /\ pc'[t] = "idle"
    BY <1>1, <1>6, Zenon DEF VictimCheck, Return, ThreadTypes
  <2> QED
    BY <1>1, <1>3, <2>1, SMT DEF Served, Completes
<1>7. CASE \/ HostBufAllocate(t) \/ HostBufFull(t) \/ HostBufRank(t)
           \/ VictimCheck(t) /\ ~Return(t)
           \/ HostBufRetry(t)
  <2>1. /\ pc'[t] \in BufferLabels /\ task'[t] = task[t] /\ page'[t] = page[t]
    BY <1>1, <1>7, Zenon DEF HostBufAllocate, HostBufFull, HostBufRank,
       VictimCheck, HostBufRetry, Goto, ThreadTypes, BufferLabels
  <2>2. SourceState(t)' = SourceState(t)
    BY <2>1, Zenon DEF SourceState
  <2>3. Claimable(page[t], SourceState(t))' 
    BY <1>2, <2>1, <2>2, Zenon DEF Claimable, Serves, SameEntry
  <2>4. Serves(t)' /\ pc'[t] # "idle"
    BY <1>2, <2>1, <2>3, Zenon DEF Serves, BufferLabels, TransferLabels
  <2> QED
    BY <1>1, <1>3, <2>1, <2>4, SMT DEF Served, Completes
<1> QED
  BY <1>4, <1>5, <1>6, <1>7, Zenon DEF BufferStep

\* The copy and the completion of a transfer, and the claim before it.
LEMMA TransferServes ==
    ASSUME Shape, NEW t \in Threads, pc[t] # "idle", Serves(t),
           EvictVramStep(t) \/ LoadStep(t) \/ PromoteStep(t)
    PROVE  Served(t)
<1>1. /\ ThreadTypes /\ EntryTypes /\ page[t] \in Pages /\ vram_used \in Int
      /\ ThreadOK(t)
  BY Working, Zenon DEF Works, MemoryTypes
<1>2. issued' = issued
  BY Zenon DEF EvictVramStep, LoadStep, PromoteStep, EvictVramClaim, EvictVramCopy,
     EvictVramCopyFails, EvictVramDone, LoadClaim, LoadRead, LoadReadFails,
     LoadDone, PromoteCopy, PromoteCopyFails, PromoteDone
<1>3. vram_used' <= vram_used
  <2>1. vram_used' = vram_used \/ vram_used' = vram_used - 1
    BY Zenon DEF EvictVramStep, LoadStep, PromoteStep, EvictVramClaim,
       EvictVramCopy, EvictVramCopyFails, EvictVramDone, LoadClaim, LoadRead,
       LoadReadFails, LoadDone, PromoteCopy, PromoteCopyFails, PromoteDone,
       budgetVars
  <2> QED
    BY <1>1, <2>1, SMT
<1>4. victim[t] = NoPage /\ WritePageOf(t) = page[t]
  BY <1>1, Zenon DEF EvictVramStep, LoadStep, PromoteStep, EvictVramClaim,
     EvictVramCopy, EvictVramCopyFails, EvictVramDone, LoadClaim, LoadRead,
     LoadReadFails, LoadDone, PromoteCopy, PromoteCopyFails, PromoteDone,
     ThreadOK, WritePageOf
<1>5. CASE \/ EvictVramClaim(t) \/ EvictVramCopy(t) \/ LoadClaim(t)
           \/ LoadRead(t) \/ PromoteCopy(t)
  <2>1. PICK label \in {"d2h", "d2hDone", "read", "readDone", "h2dDone"} :
          /\ Goto(t, label)
          /\ label \in {"d2h", "d2hDone"} => task[t] = "evict_vram_to_host"
          /\ label \in {"read", "readDone"} => task[t] = "load_nvme_to_host"
          /\ label = "h2dDone" => task[t] = "promote_host_to_vram"
    BY <1>5, Zenon DEF EvictVramClaim, EvictVramCopy, LoadClaim, LoadRead,
       PromoteCopy, Serves
  <2>2. /\ pc'[t] = label /\ task'[t] = task[t] /\ page'[t] = page[t]
        /\ victim'[t] = NoPage
    BY <1>1, <1>4, <2>1, Zenon DEF Goto, ThreadTypes
  <2>3. Serves(t)' /\ pc'[t] # "idle"
    BY <2>1, <2>2, Zenon DEF Serves, BufferLabels, TransferLabels
  <2> QED
    BY <1>2, <1>3, <2>2, <2>3, Zenon DEF Served, Completes
<1>6. CASE \/ EvictVramCopyFails(t) \/ EvictVramDone(t) \/ LoadReadFails(t)
           \/ LoadDone(t) \/ PromoteCopyFails(t) \/ PromoteDone(t)
  <2>1. pc'[t] = "idle"
    BY <1>1, <1>6, Zenon DEF EvictVramCopyFails, EvictVramDone, LoadReadFails,
       LoadDone, PromoteCopyFails, PromoteDone, Return, ThreadTypes
  <2>2. ASSUME Completes(t) PROVE state'[page[t]] = ServedAs(task[t])
    <3>1. CASE EvictVramDone(t)
      <4>1. task[t] = "evict_vram_to_host" /\ in_flight[page[t]]
        BY <3>1, Working, Zenon DEF EvictVramDone, Serves, Works, TransferLabels
      <4>2. Settle(page[t], "ResidentHost")
        BY <1>4, <2>2, <3>1, <4>1, Zenon DEF EvictVramDone, Completes
      <4> QED
        BY <1>1, <4>1, <4>2, Zenon DEF Settle, EntryTypes, ServedAs
    <3>2. CASE LoadDone(t)
      BY <1>1, <3>2, Zenon DEF LoadDone, Settle, EntryTypes, ServedAs, Serves
    <3>3. CASE PromoteDone(t)
      <4>1. task[t] = "promote_host_to_vram" /\ in_flight[page[t]]
        BY <3>3, Working, Zenon DEF PromoteDone, Serves, Works, TransferLabels
      <4>2. Settle(page[t], "ResidentVram")
        BY <1>4, <2>2, <3>3, <4>1, Zenon DEF PromoteDone, Completes
      <4> QED
        BY <1>1, <4>1, <4>2, Zenon DEF Settle, EntryTypes, ServedAs
    <3> QED
      BY <1>6, <2>2, <3>1, <3>2, <3>3, Zenon DEF Completes,
         EvictVramCopyFails, LoadReadFails, PromoteCopyFails
  <2> QED
    BY <1>2, <1>3, <2>1, <2>2, Zenon DEF Served
<1> QED
  BY <1>5, <1>6, Zenon DEF EvictVramStep, LoadStep, PromoteStep

\* evict_host_to_nvme, for a caller or for a buffer claim.
LEMMA EvictHostServes ==
    ASSUME Shape, NEW t \in Threads, pc[t] # "idle", Serves(t), EvictHostStep(t)
    PROVE  Served(t)
<1> DEFINE x == WritePageOf(t)
<1>1. /\ ThreadTypes /\ EntryTypes /\ page[t] \in Pages /\ vram_used \in Int
      /\ x \in Pages /\ in_flight[x] /\ Works(t, x) /\ pc[t] \in {"write", "writeDone"}
  <2>1. pc[t] \in {"write", "writeDone"}
    BY Zenon DEF EvictHostStep, EvictHostWrite, EvictHostWriteFails, EvictHostDone
  <2> QED
    BY <2>1, Working, Zenon DEF Works, MemoryTypes, TransferLabels
<1>2. issued' = issued /\ vram_used' = vram_used
  BY Zenon DEF EvictHostStep, EvictHostWrite, EvictHostWriteFails, EvictHostDone,
     budgetVars
<1>3. CASE Goto(t, "writeDone") \/ Goto(t, "victimCheck")
  <2>1. /\ task'[t] = task[t] /\ page'[t] = page[t] /\ victim'[t] = victim[t]
        /\ pc'[t] \in {"writeDone", "victimCheck"}
    BY <1>1, <1>3, Zenon DEF Goto, ThreadTypes
  <2>2. pc'[t] = "victimCheck" => victim[t] # NoPage
    BY <1>1, <2>1, Zenon DEF EvictHostStep, EvictHostWrite, EvictHostWriteFails,
       EvictHostDone, Goto, Return, ThreadTypes
  <2>3. SourceState(t)' = SourceState(t)
    BY <2>1, Zenon DEF SourceState
  <2>4. victim[t] # NoPage => Claimable(page[t], SourceState(t))'
    <3>1. SUFFICES ASSUME victim[t] # NoPage
                   PROVE  Claimable(page[t], SourceState(t))'
      OBVIOUS
    <3>2. Claimable(page[t], SourceState(t))
      BY <3>1, Zenon DEF Serves
    <3>3. page[t] # x
      BY <1>1, <3>2, Zenon DEF Claimable
    <3>4. SameEntry(page[t])
      BY <1>1, <3>3, EvictHostFrame, Zenon
    <3> QED
      BY <2>1, <2>3, <3>2, <3>4, Zenon DEF Claimable, SameEntry
  <2>5. Serves(t)' /\ pc'[t] # "idle"
    BY <1>1, <2>1, <2>2, <2>4, Zenon DEF Serves, BufferLabels, TransferLabels
  <2> QED
    BY <1>1, <1>2, <2>1, <2>5, SMT DEF Served, Completes
<1>4. CASE Return(t)
  <2>1. pc'[t] = "idle"
    BY <1>1, <1>4, Zenon DEF Return, ThreadTypes
  <2>2. ASSUME Completes(t) PROVE state'[page[t]] = ServedAs(task[t])
    <3>1. EvictHostDone(t) /\ ~in_flight'[x] /\ pc[t] = "writeDone"
      BY <1>1, <2>1, <2>2, Zenon DEF Completes, EvictHostStep, EvictHostWrite,
         EvictHostWriteFails, EvictHostDone
    <3>2. /\ Settle(x, "ResidentNvme")
          /\ IF victim[t] # NoPage THEN Goto(t, "victimCheck") ELSE Return(t)
      BY <1>1, <3>1, Zenon DEF EvictHostDone
    <3>3. victim[t] = NoPage
      BY <1>1, <2>1, <3>2, Zenon DEF Goto, ThreadTypes
    <3>4. x = page[t] /\ task[t] = "evict_host_to_nvme"
      BY <3>1, <3>3, Zenon DEF WritePageOf, Serves
    <3>5. state'[x] = "ResidentNvme"
      BY <1>1, <3>2, Zenon DEF Settle, EntryTypes
    <3> QED
      BY <3>4, <3>5, Zenon DEF ServedAs
  <2> QED
    BY <1>1, <1>2, <2>1, <2>2, SMT DEF Served
<1> QED
  BY <1>3, <1>4, Zenon DEF EvictHostStep, EvictHostWrite, EvictHostWriteFails,
     EvictHostDone

\* The victims a buffer claim tries.
LEMMA CallServes ==
    ASSUME Shape, NEW t \in Threads, pc[t] # "idle", Serves(t), issued = Pages,
           NEW p \in Pages, PageStep(t, p)
    PROVE  Served(t)
<1>1. /\ ThreadTypes /\ EntryTypes /\ MemoryTypes /\ page[t] \in Pages
      /\ vram_used \in Int /\ ThreadOK(t)
  BY Working, Zenon DEF Works, MemoryTypes
<1>2. \/ EvictHostClaim(t, p) \/ EvictHostReserve(t, p) \/ EvictHostSkip(t, p)
      \/ EvictHostThrows(t, p)
  BY Zenon DEF PageStep, AllocatePage, FreePage, EvictVramToHost, LoadNvmeToHost,
     PromoteHostToVram, Call
<1>3. pc[t] = "victims" /\ vram_used' = vram_used /\ issued' = issued
  BY <1>2, Zenon DEF EvictHostClaim, EvictHostReserve, EvictHostSkip,
     EvictHostThrows, CallEvictHost, Call, budgetVars
<1>4. CASE EvictHostThrows(t, p)
  <2>1. pc'[t] = "idle"
    BY <1>1, <1>4, Zenon DEF EvictHostThrows, Return, ThreadTypes
  <2> QED
    BY <1>1, <1>3, <2>1, SMT DEF Served, Completes
<1>5. CASE EvictHostClaim(t, p) \/ EvictHostReserve(t, p) \/ EvictHostSkip(t, p)
  <2>1. Claimable(page[t], SourceState(t)) /\ SourceState(t) # "ResidentHost"
    BY <1>3, Zenon DEF Serves, BufferLabels, SourceState
  <2>2. PICK label \in {"write", "writeDone", "victimCheck"} : CallEvictHost(t, p, label)
    BY <1>5, Zenon DEF EvictHostClaim, EvictHostReserve, EvictHostSkip
  <2>3. /\ pc'[t] = label /\ task'[t] = task[t] /\ page'[t] = page[t]
        /\ victim'[t] = p
    BY <1>1, <1>3, <2>2, Zenon DEF CallEvictHost, Call, ThreadTypes
  <2>4. state'[page[t]] = state[page[t]] /\ in_flight'[page[t]] = in_flight[page[t]]
    <3>1. CASE EvictHostSkip(t, p)
      BY <3>1, Zenon DEF EvictHostSkip, entryVars
    <3>2. CASE ~EvictHostSkip(t, p)
      <4>1. page[t] # p
        BY <1>5, <2>1, <3>2, Zenon DEF EvictHostClaim, EvictHostReserve, Claimable
      <4>2. SameEntry(page[t]) \/ LosesExtent(page[t])
        BY <1>1, <4>1, CallFrame, Zenon
      <4> QED
        BY <4>2, Zenon DEF SameEntry, LosesExtent
    <3> QED
      BY <3>1, <3>2
  <2>5. Claimable(page[t], SourceState(t))'
    BY <2>1, <2>3, <2>4, Zenon DEF Claimable, SourceState
  <2>6. victim'[t] # NoPage
    BY <2>3, SentinelAssumption, Zenon
  <2>7. Serves(t)' /\ pc'[t] # "idle"
    BY <1>3, <2>2, <2>3, <2>5, <2>6, Zenon DEF Serves, BufferLabels, TransferLabels
  <2> QED
    BY <1>1, <1>3, <2>3, <2>7, SMT DEF Served, Completes
<1> QED
  BY <1>2, <1>4, <1>5, Zenon

\* A step inside a step function that nobody disturbs: the page stays where it
\* has to be taken from until it is claimed, and a normal return means that the
\* transfer was made.
LEMMA StepServes ==
    ASSUME Shape, NEW t \in Threads, pc[t] # "idle", Serves(t), issued = Pages,
           Step(t) \/ \E p \in Pages : PageStep(t, p)
    PROVE  Served(t)
<1>1. ~AllocStep(t)
  BY Zenon DEF AllocStep, AllocVramReserve, AllocVramDevice, AllocHostBuffer,
     AllocHostInsert, AllocNvme, Serves, BufferLabels, TransferLabels
<1>2. ~FreeStep(t)
  BY Zenon DEF FreeStep, FreeVram, FreeVramBudget, FreeHost, FreeNvme,
     FreeNvmeEntry, FreeNvmeBudget, FreeEnd, Serves, BufferLabels, TransferLabels
<1> QED
  BY <1>1, <1>2, BufferServes, TransferServes, EvictHostServes, CallServes,
     Zenon DEF Step

\* Every call of a step function is taken as the loops expect.
LEMMA CallsServe ==
    ASSUME Shape, NEW t \in Threads, pc[t] = "idle", NEW p \in Pages, NEW fn,
           Calls(t, p, fn)
    PROVE  CallTaken(t, p, fn)
<1>1. ThreadTypes /\ EntryTypes /\ ThreadOK(t) /\ EntryOK(p)
  BY Zenon DEF Shape, TypeOK, ThreadShape, EntryShape
<1>2. victim[t] = NoPage
  BY <1>1, Zenon DEF ThreadOK
<1>3. PICK label \in {"hostBuf", "h2d", "write", "writeDone"} :
        /\ Call(t, p, fn, label)
        /\ label = "hostBuf" <=> fn \in {"evict_vram_to_host", "load_nvme_to_host"}
        /\ label = "h2d" <=> fn = "promote_host_to_vram"
  BY Zenon DEF Calls, EvictVramToHost, LoadNvmeToHost, PromoteHostToVram,
     EvictHostClaim, EvictHostReserve, CallEvictHost
<1>4. /\ pc'[t] = label /\ page'[t] = p /\ task'[t] = fn /\ victim'[t] = NoPage
      /\ \A u \in Threads \ {t} : pc'[u] = pc[u]
  BY <1>1, <1>2, <1>3, Zenon DEF Call, ThreadTypes
<1>5. /\ issued' = issued
      /\ fn # "promote_host_to_vram" => vram_used' = vram_used
  BY Zenon DEF Calls, EvictVramToHost, LoadNvmeToHost, PromoteHostToVram,
     EvictHostClaim, EvictHostReserve, budgetVars
<1>6. label = "hostBuf" => Claimable(page[t], SourceState(t))'
  <2>1. label = "hostBuf" =>
          /\ UNCHANGED <<state, in_flight>>
          /\ fn = "evict_vram_to_host" => state[p] = "ResidentVram"
          /\ fn = "load_nvme_to_host" => state[p] = "ResidentNvme"
    BY <1>3, Zenon DEF Calls, EvictVramToHost, LoadNvmeToHost, entryVars
  <2>2. state[p] \in {"ResidentVram", "ResidentNvme"} => ~in_flight[p]
    BY <1>1, Zenon DEF EntryOK, Transferring
  <2> QED
    BY <1>3, <1>4, <2>1, <2>2, Zenon DEF Claimable, SourceState
<1>7. Serves(t)'
  BY <1>3, <1>4, <1>6, Zenon DEF Serves, BufferLabels, TransferLabels, Calls
<1> QED
  BY <1>3, <1>4, <1>5, <1>7, Zenon DEF CallTaken

\* The step functions keep their promises.
LEMMA PromisesKept == ASSUME Shape, NEW t \in Threads PROVE Promised(t)
<1>1. vram_used \in Int /\ host_used \in Int
  BY Zenon DEF Shape, TypeOK, MemoryTypes
<1>2. \A p \in Pages : state[p] = "ResidentHost" => Claimable(p, "ResidentHost")
  BY Zenon DEF Shape, EntryShape, EntryOK, Transferring, Claimable
<1>3. ASSUME Moves(t)
      PROVE  vram_used' \in Int /\ \A u \in Threads \ {t} : pc'[u] = pc[u]
  <2>1. PICK x : Acts(t, x)
    BY <1>3, Zenon DEF Moves, Acts
  <2>2. Effect(t, x)
    BY <2>1, ActsEffect, Zenon
  <2>3. Next
    BY <1>3, Zenon DEF Moves, Next
  <2>4. TypeOK'
    BY <2>3, NextShape, Zenon DEF Shape
  <2> QED
    BY <2>2, <2>4, Zenon DEF Effect, SameLocals, TypeOK, MemoryTypes
<1> QED
  BY <1>1, <1>2, <1>3, CallsServe, StepServes, Zenon DEF Promised, Moves
=============================================================================
