-------------------------- MODULE ResidencyBudgets --------------------------
(***************************************************************************)
(* The budgets of the three tiers count exactly what is live, for any sets *)
(* of pages and threads, any budgets and any set of faults.                *)
(*                                                                         *)
(* The argument: a step adds to vram_used, host_used or nvme_used exactly  *)
(* what its own page and its own thread come to hold, and takes from it    *)
(* what they give back or lose (Account).  The holders of a tier are pages *)
(* and threads, so the count of these changes by the same difference       *)
(* (Recount).  Only reserve_nvme_range_locked changes a second page: it    *)
(* takes the one extent with the lowest offset (ReclaimsOne).              *)
(***************************************************************************)
EXTENDS ResidencyProofs, FiniteSetTheorems, WellFoundedInduction

\* Truth as a number.
Bit(b) == IF b THEN 1 ELSE 0

\* What a step does to a budget: it goes from a to b below the cap, and what is
\* lost for good from l to m, while its page holds memory before and after the
\* step if p and q, and its thread if t and u.
Account(a, b, l, m, cap, p, q, t, u) ==
    \/ b = a /\ m = l /\ (q <=> p) /\ (u <=> t)
    \/ b = a /\ m = l /\ p /\ ~q /\ ~t /\ u
    \/ b = a /\ m = l /\ ~p /\ q /\ t /\ ~u
    \/ /\ b = a + 1 /\ m = l /\ a < cap
       /\ (~p /\ q /\ (u <=> t)) \/ ((q <=> p) /\ ~t /\ u)
    \/ /\ (b = a - 1 /\ m = l) \/ (b = a /\ m = l + 1)
       /\ (p /\ ~q /\ (u <=> t)) \/ ((q <=> p) /\ t /\ ~u)

-----------------------------------------------------------------------------
(* The device budget.                                                      *)

VramPage(p) == vram[p] # Null /\ p \notin uncounted

VramThread(u) == u \in Threads /\ pc[u] \in {"allocDev", "freeVramBudget"}

VramAccount(t, x) ==
    Account(vram_used, vram_used', 0, 0, VramUsable,
            VramPage(x), VramPage(x)', VramThread(t), VramThread(t)')

\* A thread that has a page to itself counts its device memory.
LEMMA NotUncounted ==
    ASSUME UncountedAbandoned, NEW t \in Threads, NEW x, Works(t, x),
           pc[t] \in TransferLabels \cup FreeLabels \cup AllocLabels
    PROVE  x \notin uncounted
<1>1. CASE pc[t] \in TransferLabels \cup FreeLabels
  <2>1. Owns(t, x)
    BY <1>1, Zenon DEF Owns, Works
  <2> QED
    BY <2>1, Zenon DEF UncountedAbandoned
<1>2. CASE pc[t] \in AllocLabels
  <2>1. state[x] = "Absent"
    BY <1>2, Zenon DEF AllocLabels, Works, ThreadOK
  <2> QED
    BY <2>1, Zenon DEF UncountedAbandoned
<1> QED
  BY <1>1, <1>2, Zenon

\* A step that leaves the device alone.
LEMMA VramSame ==
    ASSUME NEW t, NEW x, vram_used' = vram_used, uncounted' = uncounted,
           vram'[x] = Null <=> vram[x] = Null,
           t \in Threads => /\ pc[t] \notin {"allocDev", "freeVramBudget"}
                            /\ pc'[t] \notin {"allocDev", "freeVramBudget"}
    PROVE  VramAccount(t, x)
BY Zenon DEF VramAccount, Account, VramPage, VramThread

LEMMA VramTransfers ==
    ASSUME UncountedAbandoned, NEW t \in Threads, NEW x, Works(t, x),
           EvictVramStep(t) \/ PromoteStep(t)
    PROVE  VramAccount(t, x)
<1>1. /\ x = page[t] /\ x \in Pages /\ t \in Threads
      /\ pc[t] \notin {"allocDev", "freeVramBudget"}
      /\ Return(t) \/ \E label \in TransferLabels : Goto(t, label)
  BY Zenon DEF Works, EvictVramStep, PromoteStep, EvictVramClaim,
     EvictVramCopy, EvictVramCopyFails, EvictVramDone, PromoteCopy,
     PromoteCopyFails, PromoteDone, TransferLabels
<1>2. pc'[t] \notin {"allocDev", "freeVramBudget"}
  BY <1>1, ReturnMine, Zenon DEF Goto, Works, ThreadTypes, TransferLabels
<1>3. ~VramThread(t) /\ ~VramThread(t)'
  BY <1>1, <1>2, Zenon DEF VramThread
<1>4. CASE \/ EvictVramClaim(t) \/ EvictVramCopy(t) \/ EvictVramCopyFails(t)
           \/ PromoteDone(t)
  <2>1. UNCHANGED <<vram, vram_used, uncounted>>
    BY <1>4, Zenon DEF EvictVramClaim, EvictVramCopy, EvictVramCopyFails,
       PromoteDone, budgetVars, ghostVars
  <2> QED
    BY <1>1, <1>2, <2>1, VramSame, Zenon
<1>5. CASE PromoteCopy(t)
  <2>1. vram[x] # Null /\ host[x] # Null
    BY <1>5, Zenon DEF PromoteCopy, Works, EntryOK, ClaimedAs,
       TransferLabels, Transferring
  <2>2. /\ vram'[x] = host[x] /\ UNCHANGED <<vram_used, uncounted>>
    BY <1>1, <1>5, Zenon DEF PromoteCopy, Works, MemoryTypes, budgetVars,
       ghostVars
  <2> QED
    BY <1>1, <1>2, <2>1, <2>2, VramSame, Zenon
<1>6. CASE EvictVramDone(t) \/ PromoteCopyFails(t)
  <2>1. vram[x] # Null /\ x \notin uncounted
    <3>1. pc[t] \in {"d2hDone", "h2d"}
      BY <1>6, Zenon DEF EvictVramDone, PromoteCopyFails
    <3>2. state[x] \in {"EvictingToHost", "LoadingToVram"}
      BY <3>1, Zenon DEF Works, ClaimedAs, TransferLabels
    <3> QED
      BY <3>1, <3>2, NotUncounted, Zenon DEF Works, EntryOK, TransferLabels
  <2>2. VramPage(x)
    BY <2>1, Zenon DEF VramPage
  <2>3. \/ vram_used' = vram_used - 1 /\ ~VramPage(x)'
        \/ UNCHANGED <<vram_used, vram, uncounted>>
    BY <1>1, <1>6, Zenon DEF EvictVramDone, PromoteCopyFails, VramPage,
       Works, MemoryTypes, ghostVars
  <2>4. CASE vram_used' = vram_used - 1 /\ ~VramPage(x)'
    BY <1>3, <2>2, <2>4, Zenon DEF VramAccount, Account
  <2>5. CASE UNCHANGED <<vram_used, vram, uncounted>>
    BY <1>1, <1>2, <2>5, VramSame, Zenon
  <2> QED
    BY <2>3, <2>4, <2>5, Zenon
<1> QED
  BY <1>4, <1>5, <1>6, Zenon DEF EvictVramStep, PromoteStep

LEMMA VramAllocates ==
    ASSUME UncountedAbandoned, NEW t \in Threads, NEW x, Works(t, x),
           AllocStep(t)
    PROVE  VramAccount(t, x)
<1>1. pc[t] \in AllocLabels /\ pc \in [Threads -> Labels]
  BY Zenon DEF AllocStep, AllocVramReserve, AllocVramDevice,
     AllocHostBuffer, AllocHostInsert, AllocNvme, AllocLabels, Works,
     ThreadTypes
<1>2. /\ x = page[t] /\ x \in Pages
      /\ vram[x] = Null /\ x \notin uncounted
  <2>1. /\ x = page[t] /\ x \in Pages /\ state[x] = "Absent"
    BY <1>1, Zenon DEF Works, ThreadOK, AllocLabels
  <2> QED
    BY <1>1, <2>1, NotUncounted, Zenon DEF Works, EntryOK
<1>3. uncounted' = uncounted
  BY Zenon DEF AllocStep, AllocVramReserve, AllocVramDevice,
     AllocHostBuffer, AllocHostInsert, AllocNvme, ghostVars
<1>4. CASE AllocHostBuffer(t) \/ AllocHostInsert(t) \/ AllocNvme(t)
  <2>1. UNCHANGED <<vram, vram_used>>
    BY <1>4, Zenon DEF AllocHostBuffer, AllocHostInsert, AllocNvme,
       memVars, budgetVars
  <2>2. /\ pc[t] \notin {"allocDev", "freeVramBudget"}
        /\ pc'[t] \notin {"allocDev", "freeVramBudget"}
    BY <1>1, <1>4, Zenon DEF AllocHostBuffer, AllocHostInsert, AllocNvme,
       Goto, Return
  <2> QED
    BY <1>3, <2>1, <2>2, VramSame, Zenon
<1>5. CASE AllocVramReserve(t)
  <2>1. /\ ~VramPage(x) /\ ~VramPage(x)' /\ ~VramThread(t)
        /\ \/ /\ vram_used' = vram_used + 1 /\ vram_used < VramUsable
              /\ VramThread(t)'
           \/ vram_used' = vram_used /\ ~VramThread(t)'
    BY <1>1, <1>2, <1>5, Zenon DEF AllocVramReserve, VramPage, VramThread,
       Goto, Return, memVars
  <2> QED
    BY <2>1, Zenon DEF VramAccount, Account
<1>6. CASE AllocVramDevice(t)
  <2>1. Garbage # Null
    BY SentinelAssumption, Zenon DEF Data
  <2>2. /\ ~VramPage(x) /\ VramThread(t) /\ ~VramThread(t)'
    BY <1>1, <1>2, <1>6, Zenon DEF AllocVramDevice, VramPage, VramThread,
       Return
  <2>3. \/ vram_used' = vram_used /\ VramPage(x)'
        \/ vram_used' = vram_used - 1 /\ ~VramPage(x)'
    BY <1>2, <1>3, <1>6, <2>1, Zenon DEF AllocVramDevice, VramPage, Works,
       MemoryTypes
  <2> QED
    BY <2>2, <2>3, Zenon DEF VramAccount, Account
<1> QED
  BY <1>4, <1>5, <1>6, Zenon DEF AllocStep

LEMMA VramFrees ==
    ASSUME UncountedAbandoned, NEW t \in Threads, NEW x, Works(t, x),
           FreeStep(t)
    PROVE  VramAccount(t, x)
<1>1. pc[t] \in FreeLabels /\ pc \in [Threads -> Labels]
  BY Zenon DEF FreeStep, FreeVram, FreeVramBudget, FreeHost, FreeNvme,
     FreeNvmeEntry, FreeNvmeBudget, FreeEnd, FreeLabels, Works, ThreadTypes
<1>2. x = page[t] /\ x \in Pages /\ x \notin uncounted
  BY <1>1, NotUncounted, Zenon DEF Works, FreeLabels
<1>3. uncounted' = uncounted
  BY Zenon DEF FreeStep, FreeVram, FreeVramBudget, FreeHost, FreeNvme,
     FreeNvmeEntry, FreeNvmeBudget, FreeEnd, ghostVars
<1>4. CASE \/ FreeHost(t) \/ FreeNvme(t) \/ FreeNvmeEntry(t)
           \/ FreeNvmeBudget(t) \/ FreeEnd(t)
  <2>1. UNCHANGED <<vram, vram_used>>
    BY <1>4, Zenon DEF FreeHost, FreeNvme, FreeNvmeEntry, FreeNvmeBudget,
       FreeEnd, memVars, budgetVars
  <2>2. /\ pc[t] \notin {"allocDev", "freeVramBudget"}
        /\ pc'[t] \notin {"allocDev", "freeVramBudget"}
    BY <1>1, <1>4, Zenon DEF FreeHost, FreeNvme, FreeNvmeEntry,
       FreeNvmeBudget, FreeEnd, Goto, ReleaseFailed, Return
  <2> QED
    BY <1>3, <2>1, <2>2, VramSame, Zenon
<1>5. CASE FreeVram(t)
  <2>1. vram_used' = vram_used /\ ~VramThread(t)
    BY <1>5, Zenon DEF FreeVram, budgetVars, VramThread
  <2>2. \/ vram[x] # Null /\ vram'[x] = Null /\ pc'[t] = "freeVramBudget"
        \/ vram'[x] = vram[x] /\ pc'[t] = "freeHost"
    BY <1>1, <1>2, <1>5, Zenon DEF FreeVram, Goto, ReleaseFailed, Works,
       MemoryTypes
  <2>3. \/ VramPage(x) /\ ~VramPage(x)' /\ VramThread(t)'
        \/ (VramPage(x)' <=> VramPage(x)) /\ ~VramThread(t)'
    BY <1>2, <1>3, <2>2, Zenon DEF VramPage, VramThread
  <2> QED
    BY <2>1, <2>3, Zenon DEF VramAccount, Account
<1>6. CASE FreeVramBudget(t)
  <2>1. /\ vram_used' = vram_used - 1 /\ (VramPage(x)' <=> VramPage(x))
        /\ VramThread(t) /\ ~VramThread(t)'
    BY <1>1, <1>3, <1>6, Zenon DEF FreeVramBudget, Goto, VramPage,
       VramThread, memVars
  <2> QED
    BY <2>1, Zenon DEF VramAccount, Account
<1> QED
  BY <1>4, <1>5, <1>6, Zenon DEF FreeStep

\* Every step accounts for the device memory of its page and its thread.
LEMMA VramAccounts ==
    ASSUME Shape, UncountedAbandoned, NEW t, NEW x, Acts(t, x)
    PROVE  VramAccount(t, x)
<1>1. ASSUME t \in Threads, Step(t), x = WritePageOf(t)
      PROVE  VramAccount(t, x)
  <2>1. Works(t, x)
    BY <1>1, StepWorks, Zenon
  <2>2. pc \in [Threads -> Labels]
    BY <2>1, Zenon DEF Works, ThreadTypes
  <2>3. CASE BufferStep(t) \/ LoadStep(t) \/ EvictHostStep(t)
    <3>1. UNCHANGED <<vram, vram_used, uncounted>>
      BY <2>3, Zenon DEF BufferStep, HostBufAllocate, HostBufFull,
         HostBufRank, VictimCheck, HostBufRetry, HostBufGiveUp,
         HostBufUnused, LoadStep, LoadClaim, LoadRead, LoadReadFails,
         LoadDone, EvictHostStep, EvictHostWrite, EvictHostWriteFails,
         EvictHostDone, memVars, budgetVars, ghostVars
    <3>2. /\ pc[t] \notin {"allocDev", "freeVramBudget"}
          /\ pc'[t] \notin {"allocDev", "freeVramBudget"}
      BY <1>1, <2>2, <2>3, Zenon DEF BufferStep, HostBufAllocate,
         HostBufFull, HostBufRank, VictimCheck, HostBufRetry,
         HostBufGiveUp, HostBufUnused, LoadStep, LoadClaim, LoadRead,
         LoadReadFails, LoadDone, EvictHostStep, EvictHostWrite,
         EvictHostWriteFails, EvictHostDone, Goto, Return
    <3> QED
      BY <3>1, <3>2, VramSame, Zenon
  <2> QED
    BY <1>1, <2>1, <2>3, VramTransfers, VramAllocates, VramFrees, Zenon
       DEF Step
<1>2. ASSUME t \in Threads, x \in Pages, PageStep(t, x)
      PROVE  VramAccount(t, x)
  <2>1. /\ pc \in [Threads -> Labels] /\ vram \in [Pages -> Data \cup {Null}]
        /\ EntryOK(x)
    BY <1>2, Zenon DEF Shape, TypeOK, ThreadTypes, MemoryTypes, EntryShape
  <2>2. /\ pc[t] \notin {"allocDev", "freeVramBudget"}
        /\ pc'[t] \notin {"allocDev", "freeVramBudget"}
    <3>1. CASE AllocatePage(t, x)
      BY <1>2, <2>1, <3>1, Zenon DEF AllocatePage, ChooseAllocationTier,
         Call, threadVars
    <3>2. CASE ~AllocatePage(t, x)
      BY <1>2, <2>1, <3>2, Zenon DEF PageStep, FreePage, EvictVramToHost,
         LoadNvmeToHost, PromoteHostToVram, EvictHostClaim,
         EvictHostReserve, EvictHostSkip, EvictHostThrows, CallEvictHost,
         Call, Return
    <3> QED
      BY <3>1, <3>2, Zenon
  <2>3. uncounted' = uncounted
    BY <1>2, CallSets, Zenon
  <2>4. CASE PromoteHostToVram(t, x)
    <3>1. Garbage # Null
      BY SentinelAssumption, Zenon DEF Data
    <3>2. state[x] = "ResidentHost"
      BY <2>4, Zenon DEF PromoteHostToVram, Claimable
    <3>3. ~VramPage(x) /\ x \notin uncounted
      BY <2>1, <3>2, Zenon DEF VramPage, EntryOK, UncountedAbandoned
    <3>4. /\ vram_used < VramUsable /\ vram_used' = vram_used + 1
          /\ VramPage(x)' /\ ~VramThread(t) /\ ~VramThread(t)'
      BY <1>2, <2>1, <2>2, <2>3, <2>4, <3>1, <3>3, Zenon
         DEF PromoteHostToVram, VramPage, VramThread
    <3> QED
      BY <3>3, <3>4, Zenon DEF VramAccount, Account
  <2>5. CASE ~PromoteHostToVram(t, x)
    <3>1. UNCHANGED <<vram, vram_used>>
      BY <1>2, <2>5, Zenon DEF PageStep, AllocatePage, FreePage,
         EvictVramToHost, LoadNvmeToHost, EvictHostClaim, EvictHostReserve,
         EvictHostSkip, EvictHostThrows, memVars, budgetVars
    <3> QED
      BY <2>2, <2>3, <3>1, VramSame, Zenon
  <2> QED
    BY <2>4, <2>5, Zenon
<1>3. ASSUME t = NoThread, x \in Pages, CallerStep(x)
      PROVE  VramAccount(t, x)
  <2>1. t \notin Threads /\ ~VramThread(t) /\ ~VramThread(t)'
    BY <1>3, SentinelAssumption, Zenon DEF VramThread
  <2>2. vram \in [Pages -> Data \cup {Null}] /\ EntryOK(x)
    BY <1>3, Zenon DEF Shape, TypeOK, MemoryTypes, EntryShape
  <2>3. uncounted' = uncounted
    BY <1>3, Zenon DEF CallerStep, WritePage, WritePageFails, CleanDrop,
       Pin, ghostVars
  <2>4. CASE CleanDrop(x)
    <3>1. vram[x] # Null /\ x \notin uncounted
      BY <2>2, <2>4, Zenon DEF CleanDrop, Claimable, EntryOK,
         UncountedAbandoned
    <3>2. VramPage(x) /\ ~VramPage(x)' /\ vram_used' = vram_used - 1
      BY <1>3, <2>2, <2>4, <3>1, Zenon DEF CleanDrop, VramPage
    <3> QED
      BY <2>1, <3>2, Zenon DEF VramAccount, Account
  <2>5. CASE ~CleanDrop(x)
    <3>1. vram_used' = vram_used
      BY <1>3, <2>5, Zenon DEF CallerStep, WritePage, WritePageFails, Pin,
         budgetVars
    <3>2. Null \notin Values /\ Garbage # Null
      BY SentinelAssumption, Zenon DEF Data
    <3>3. vram'[x] = Null <=> vram[x] = Null
      BY <1>3, <2>2, <2>5, <3>2, Zenon DEF CallerStep, WritePage,
         WritePageFails, CopyIn, Pin, EntryOK, memVars
    <3> QED
      BY <2>1, <2>3, <3>1, <3>3, VramSame, Zenon
  <2> QED
    BY <2>4, <2>5, Zenon
<1> QED
  BY <1>1, <1>2, <1>3, Zenon DEF Acts

-----------------------------------------------------------------------------
(* The host budget.                                                        *)

HostPage(p) == host[p] # Null

HostThread(u) == u \in Threads /\ pc[u] \in {"haveBuf", "allocIns"}

HostAccount(t, x) ==
    Account(host_used, host_used', leaked, leaked', HostUsable,
            HostPage(x), HostPage(x)', HostThread(t), HostThread(t)')

\* A step that leaves the host memory alone.
LEMMA HostSame ==
    ASSUME NEW t, NEW x, host_used' = host_used, leaked' = leaked,
           host'[x] = Null <=> host[x] = Null,
           t \in Threads => /\ pc[t] \notin {"haveBuf", "allocIns"}
                            /\ pc'[t] \notin {"haveBuf", "allocIns"}
    PROVE  HostAccount(t, x)
BY Zenon DEF HostAccount, Account, HostPage, HostThread

\* A thread that has a buffer puts it into its page.
LEMMA HostClaims ==
    ASSUME NEW t \in Threads, NEW x, Works(t, x),
           EvictVramClaim(t) \/ LoadClaim(t) \/ AllocHostInsert(t)
    PROVE  HostAccount(t, x)
<1>1. /\ x = page[t] /\ x \in Pages /\ pc \in [Threads -> Labels]
      /\ UNCHANGED <<host_used, leaked>>
      /\ host' = [host EXCEPT ![x] = Garbage]
  BY Zenon DEF Works, ThreadTypes, EvictVramClaim, LoadClaim,
     AllocHostInsert, budgetVars
<1>2. HostThread(t) /\ ~HostThread(t)'
  BY <1>1, Zenon DEF EvictVramClaim, LoadClaim, AllocHostInsert, HostThread,
     Goto, Return
<1>3. state[x] \in {"ResidentVram", "ResidentNvme", "Absent"}
  BY <1>1, Zenon DEF EvictVramClaim, LoadClaim, AllocHostInsert, Claimable,
     Works, ThreadOK, AllocLabels
<1>4. host[x] = Null /\ host \in [Pages -> Data \cup {Null}]
  BY <1>3, Zenon DEF Works, EntryOK, MemoryTypes
<1>5. Garbage # Null
  BY SentinelAssumption, Zenon DEF Data
<1>6. ~HostPage(x) /\ HostPage(x)'
  BY <1>1, <1>4, <1>5, Zenon DEF HostPage
<1> QED
  BY <1>1, <1>2, <1>6, Zenon DEF HostAccount, Account

LEMMA HostBuffers ==
    ASSUME NEW t \in Threads, NEW x, Works(t, x), BufferStep(t)
    PROVE  HostAccount(t, x)
<1>1. pc \in [Threads -> Labels] /\ host' = host
  BY Zenon DEF Works, ThreadTypes, BufferStep, HostBufAllocate, HostBufFull,
     HostBufRank, VictimCheck, HostBufRetry, HostBufGiveUp, HostBufUnused,
     memVars
<1>2. HostPage(x)' <=> HostPage(x)
  BY <1>1, Zenon DEF HostPage
<1>3. CASE HostBufAllocate(t)
  <2>1. /\ ~HostThread(t) /\ HostThread(t)' /\ leaked' = leaked
        /\ host_used < HostUsable /\ host_used' = host_used + 1
    BY <1>1, <1>3, Zenon DEF HostBufAllocate, HostThread, Goto
  <2> QED
    BY <1>2, <2>1, Zenon DEF HostAccount, Account
<1>4. CASE HostBufUnused(t)
  <2>1. HostThread(t) /\ ~HostThread(t)'
    BY <1>1, <1>4, Zenon DEF HostBufUnused, HostThread, Return
  <2>2. \/ host_used' = host_used - 1 /\ leaked' = leaked
        \/ host_used' = host_used /\ leaked' = leaked + 1
    BY <1>4, Zenon DEF HostBufUnused
  <2> QED
    BY <1>2, <2>1, <2>2, Zenon DEF HostAccount, Account
<1>5. CASE \/ HostBufFull(t) \/ HostBufRank(t) \/ VictimCheck(t)
           \/ HostBufRetry(t) \/ HostBufGiveUp(t)
  <2>1. UNCHANGED <<host_used, leaked>>
    BY <1>5, Zenon DEF HostBufFull, HostBufRank, VictimCheck, HostBufRetry,
       HostBufGiveUp, budgetVars
  <2>2. /\ pc[t] \notin {"haveBuf", "allocIns"}
        /\ pc'[t] \notin {"haveBuf", "allocIns"}
    BY <1>1, <1>5, Zenon DEF HostBufFull, HostBufRank, VictimCheck,
       HostBufRetry, HostBufGiveUp, Return
  <2> QED
    BY <1>1, <2>1, <2>2, HostSame, Zenon
<1> QED
  BY <1>3, <1>4, <1>5, Zenon DEF BufferStep

LEMMA HostTransfers ==
    ASSUME NEW t \in Threads, NEW x, Works(t, x),
           EvictVramStep(t) \/ LoadStep(t) \/ PromoteStep(t)
           \/ EvictHostStep(t),
           ~EvictVramClaim(t), ~LoadClaim(t)
    PROVE  HostAccount(t, x)
<1>1. /\ pc[t] \in TransferLabels /\ x \in Pages /\ leaked' = leaked
      /\ Return(t) \/ \E l \in TransferLabels \cup {"victimCheck"} : Goto(t, l)
  BY Zenon DEF Works, EvictVramStep, LoadStep, PromoteStep, EvictHostStep,
     EvictVramCopy, EvictVramCopyFails, EvictVramDone, LoadRead,
     LoadReadFails, LoadDone, PromoteCopy, PromoteCopyFails, PromoteDone,
     EvictHostWrite, EvictHostWriteFails, EvictHostDone, TransferLabels,
     budgetVars
<1>2. pc'[t] \notin {"haveBuf", "allocIns"}
  BY <1>1, ReturnMine, Zenon DEF Goto, Works, ThreadTypes, TransferLabels
<1>3. /\ pc[t] \notin {"haveBuf", "allocIns"}
      /\ ~HostThread(t) /\ ~HostThread(t)'
  BY <1>1, <1>2, Zenon DEF HostThread, TransferLabels
<1>4. host[x] # Null /\ host \in [Pages -> Data \cup {Null}]
  <2>1. state[x] \in Transferring
    BY <1>1, Zenon DEF Works, ClaimedAs, TransferLabels, Transferring
  <2> QED
    BY <2>1, Zenon DEF Works, EntryOK, MemoryTypes
<1>5. HostPage(x)
  BY <1>4, Zenon DEF HostPage
<1>6. \/ host'[x] = Null /\ host_used' = host_used - 1
      \/ host'[x] # Null /\ host_used' = host_used
  <2>1. CASE \/ EvictVramDone(t) \/ LoadDone(t) \/ PromoteCopy(t)
             \/ PromoteCopyFails(t) \/ EvictHostWrite(t)
             \/ EvictHostWriteFails(t)
    BY <1>4, <2>1, Zenon DEF EvictVramDone, LoadDone, PromoteCopy,
       PromoteCopyFails, EvictHostWrite, EvictHostWriteFails, memVars,
       budgetVars
  <2>2. CASE EvictVramCopy(t)
    <3>1. x = page[t] /\ vram[x] # Null
      BY <2>2, Zenon DEF EvictVramCopy, Works, EntryOK, ClaimedAs,
         TransferLabels
    <3> QED
      BY <1>1, <1>4, <2>2, <3>1, Zenon DEF EvictVramCopy, budgetVars
  <2>3. CASE LoadRead(t)
    <3>1. x = page[t] /\ nvme_offset[x] \in Extents
      BY <2>3, Zenon DEF LoadRead, Works, EntryOK, EntryTypes, ClaimedAs,
         TransferLabels
    <3>2. disk[nvme_offset[x]] # Null
      BY <3>1, SentinelAssumption, Zenon DEF Works, MemoryTypes
    <3> QED
      BY <1>1, <1>4, <2>3, <3>1, <3>2, Zenon DEF LoadRead, budgetVars
  <2>4. CASE EvictVramCopyFails(t) \/ LoadReadFails(t) \/ PromoteDone(t)
    <3>1. x = page[t]
      BY <2>4, Zenon DEF EvictVramCopyFails, LoadReadFails, PromoteDone,
         Works
    <3> QED
      BY <1>1, <1>4, <2>4, <3>1, Zenon DEF EvictVramCopyFails,
         LoadReadFails, PromoteDone
  <2>5. CASE EvictHostDone(t)
    <3>1. x = WritePageOf(t)
      BY Zenon DEF Works
    <3> QED
      BY <1>1, <1>4, <2>5, <3>1, Zenon DEF EvictHostDone
  <2> QED
    BY <2>1, <2>2, <2>3, <2>4, <2>5, Zenon DEF EvictVramStep, LoadStep,
       PromoteStep, EvictHostStep
<1>7. \/ ~HostPage(x)' /\ host_used' = host_used - 1
      \/ HostPage(x)' /\ host_used' = host_used
  BY <1>6, Zenon DEF HostPage
<1> QED
  BY <1>1, <1>3, <1>5, <1>7, Zenon DEF HostAccount, Account

LEMMA HostAllocates ==
    ASSUME NEW t \in Threads, NEW x, Works(t, x), AllocStep(t),
           ~AllocHostInsert(t)
    PROVE  HostAccount(t, x)
<1>1. pc \in [Threads -> Labels] /\ UNCHANGED <<host, leaked>>
  BY Zenon DEF Works, ThreadTypes, AllocStep, AllocVramReserve,
     AllocVramDevice, AllocHostBuffer, AllocNvme, memVars, budgetVars
<1>2. CASE AllocHostBuffer(t)
  <2>1. /\ (HostPage(x)' <=> HostPage(x)) /\ ~HostThread(t)
        /\ \/ /\ host_used < HostUsable /\ host_used' = host_used + 1
              /\ HostThread(t)'
           \/ host_used' = host_used /\ ~HostThread(t)'
    BY <1>1, <1>2, Zenon DEF AllocHostBuffer, HostPage, HostThread, Goto,
       Return
  <2> QED
    BY <1>1, <2>1, Zenon DEF HostAccount, Account
<1>3. CASE ~AllocHostBuffer(t)
  <2>1. /\ host_used' = host_used
        /\ pc[t] \notin {"haveBuf", "allocIns"}
        /\ pc'[t] \notin {"haveBuf", "allocIns"}
    BY <1>1, <1>3, Zenon DEF AllocStep, AllocVramReserve, AllocVramDevice,
       AllocNvme, Goto, Return
  <2> QED
    BY <1>1, <2>1, HostSame, Zenon
<1> QED
  BY <1>2, <1>3, Zenon

LEMMA HostFrees ==
    ASSUME NEW t \in Threads, NEW x, Works(t, x), FreeStep(t)
    PROVE  HostAccount(t, x)
<1>1. /\ pc \in [Threads -> Labels] /\ leaked' = leaked
      /\ pc[t] \in FreeLabels
      /\ Return(t) \/ \E l \in FreeLabels : Goto(t, l) \/ ReleaseFailed(t, l)
  BY Zenon DEF Works, ThreadTypes, FreeStep, FreeVram, FreeVramBudget,
     FreeHost, FreeNvme, FreeNvmeEntry, FreeNvmeBudget, FreeEnd, FreeLabels,
     budgetVars
<1>2. /\ pc[t] \notin {"haveBuf", "allocIns"}
      /\ pc'[t] \notin {"haveBuf", "allocIns"}
      /\ ~HostThread(t) /\ ~HostThread(t)'
  <2>1. pc'[t] \in FreeLabels \cup {"idle"}
    BY <1>1, Zenon DEF Goto, ReleaseFailed, Return
  <2> QED
    BY <1>1, <2>1, Zenon DEF HostThread, FreeLabels
<1>3. CASE FreeHost(t)
  <2>1. x = page[t] /\ x \in Pages /\ host \in [Pages -> Data \cup {Null}]
    BY <1>3, Zenon DEF FreeHost, Works, MemoryTypes
  <2>2. \/ host' = host /\ host_used' = host_used
        \/ HostPage(x) /\ ~HostPage(x)' /\ host_used' = host_used - 1
    BY <1>3, <2>1, Zenon DEF FreeHost, HostPage
  <2>3. CASE host' = host /\ host_used' = host_used
    BY <1>1, <1>2, <2>3, HostSame, Zenon
  <2> QED
    BY <1>1, <1>2, <2>2, <2>3, Zenon DEF HostAccount, Account
<1>4. CASE ~FreeHost(t)
  <2>1. UNCHANGED <<host, host_used>>
    BY <1>4, Zenon DEF FreeStep, FreeVram, FreeVramBudget, FreeNvme,
       FreeNvmeEntry, FreeNvmeBudget, FreeEnd, memVars, budgetVars
  <2> QED
    BY <1>1, <1>2, <2>1, HostSame, Zenon
<1> QED
  BY <1>3, <1>4, Zenon

\* Every step accounts for the host memory of its page and its thread.
LEMMA HostAccounts ==
    ASSUME Shape, NEW t, NEW x, Acts(t, x)
    PROVE  HostAccount(t, x)
<1>1. ASSUME t \in Threads, Step(t), x = WritePageOf(t)
      PROVE  HostAccount(t, x)
  <2>1. Works(t, x)
    BY <1>1, StepWorks, Zenon
  <2> QED
    BY <1>1, <2>1, HostClaims, HostBuffers, HostTransfers, HostAllocates,
       HostFrees, Zenon DEF Step
<1>2. ASSUME t \in Threads, x \in Pages, PageStep(t, x)
      PROVE  HostAccount(t, x)
  <2>1. pc \in [Threads -> Labels]
    BY Zenon DEF Shape, TypeOK, ThreadTypes
  <2>2. /\ pc[t] \notin {"haveBuf", "allocIns"}
        /\ pc'[t] \notin {"haveBuf", "allocIns"}
    <3>1. CASE AllocatePage(t, x)
      BY <1>2, <2>1, <3>1, Zenon DEF AllocatePage, ChooseAllocationTier,
         Call, threadVars
    <3>2. CASE ~AllocatePage(t, x)
      BY <1>2, <2>1, <3>2, Zenon DEF PageStep, FreePage, EvictVramToHost,
         LoadNvmeToHost, PromoteHostToVram, EvictHostClaim,
         EvictHostReserve, EvictHostSkip, EvictHostThrows, CallEvictHost,
         Call, Return
    <3> QED
      BY <3>1, <3>2, Zenon
  <2>3. UNCHANGED <<host, host_used, leaked>>
    BY <1>2, Zenon DEF PageStep, AllocatePage, FreePage, EvictVramToHost,
       LoadNvmeToHost, PromoteHostToVram, EvictHostClaim, EvictHostReserve,
       EvictHostSkip, EvictHostThrows, memVars, budgetVars
  <2> QED
    BY <2>2, <2>3, HostSame, Zenon
<1>3. ASSUME t = NoThread, x \in Pages, CallerStep(x)
      PROVE  HostAccount(t, x)
  <2>1. t \notin Threads
    BY <1>3, SentinelAssumption, Zenon
  <2>2. host \in [Pages -> Data \cup {Null}] /\ EntryOK(x)
    BY <1>3, Zenon DEF Shape, TypeOK, MemoryTypes, EntryShape
  <2>3. UNCHANGED <<host_used, leaked>>
    BY <1>3, Zenon DEF CallerStep, WritePage, WritePageFails, CleanDrop, Pin,
       budgetVars
  <2>4. Null \notin Values
    BY SentinelAssumption, Zenon DEF Data
  <2>5. host'[x] = Null <=> host[x] = Null
    BY <1>3, <2>2, <2>4, Zenon DEF CallerStep, WritePage, WritePageFails,
       CopyIn, CleanDrop, Pin, EntryOK, memVars
  <2> QED
    BY <2>1, <2>3, <2>5, HostSame, Zenon
<1> QED
  BY <1>1, <1>2, <1>3, Zenon DEF Acts

-----------------------------------------------------------------------------
(* The store's budget.                                                     *)

NvmeThread(u) ==
    u \in Threads /\ pc[u] \in {"freeNvmeEntry", "freeNvmeBudget"}

NvmeAccount(t, x) ==
    Account(nvme_used, nvme_used', 0, 0, NvmeExtents,
            HasExtent(x), HasExtent(x)', NvmeThread(t), NvmeThread(t)')

\* Only a reservation and the release of one change the store's budget.
LEMMA NvmeUsed ==
    ASSUME Shape, NEW t, NEW x, Acts(t, x), UNCHANGED nvme_offset
    PROVE  nvme_used' = nvme_used \/ (t \in Threads /\ FreeNvmeBudget(t))
<1>1. ASSUME NEW y \in Pages, nvme_offset[y] = NoExtent,
             NEW e \in Extents, ReserveNvmeRange(y, e)
      PROVE  FALSE
  BY <1>1, Reserving, Zenon DEF Shape, TypeOK
<1>2. CASE t = NoThread /\ CallerStep(x)
  BY <1>2, Zenon DEF CallerStep, WritePage, WritePageFails, CleanDrop, Pin,
     budgetVars
<1>3. CASE t \in Threads /\ x \in Pages /\ PageStep(t, x)
  <2>1. ~EvictHostReserve(t, x)
    BY <1>1, <1>3, Zenon DEF EvictHostReserve
  <2> QED
    BY <1>3, <2>1, Zenon DEF PageStep, AllocatePage, FreePage,
       EvictVramToHost, LoadNvmeToHost, PromoteHostToVram, EvictHostClaim,
       EvictHostSkip, EvictHostThrows, budgetVars
<1>4. CASE t \in Threads /\ AllocNvme(t)
  <2>1. Works(t, WritePageOf(t)) /\ pc[t] = "allocNvme"
    BY <1>4, Working, Zenon DEF AllocNvme
  <2>2. page[t] \in Pages /\ nvme_offset[page[t]] = NoExtent
    BY <2>1, Zenon DEF Works, ThreadOK, AllocLabels, EntryOK
  <2> QED
    BY <1>1, <1>4, <2>2, Zenon DEF AllocNvme
<1>5. ASSUME t \in Threads, Step(t), ~AllocNvme(t), ~FreeNvmeBudget(t)
      PROVE  nvme_used' = nvme_used
  BY <1>5, Zenon DEF Step, BufferStep, EvictVramStep, LoadStep, PromoteStep,
     EvictHostStep, AllocStep, FreeStep, HostBufAllocate, HostBufFull,
     HostBufRank, VictimCheck, HostBufRetry, HostBufGiveUp, HostBufUnused,
     EvictVramClaim, EvictVramCopy, EvictVramCopyFails, EvictVramDone,
     LoadClaim, LoadRead, LoadReadFails, LoadDone, PromoteCopy,
     PromoteCopyFails, PromoteDone, EvictHostWrite, EvictHostWriteFails,
     EvictHostDone, AllocVramReserve, AllocVramDevice, AllocHostBuffer,
     AllocHostInsert, FreeVram, FreeVramBudget, FreeHost, FreeNvme,
     FreeNvmeEntry, FreeEnd, budgetVars
<1> QED
  BY <1>2, <1>3, <1>4, <1>5, Zenon DEF Acts

\* A thread reaches and leaves the release of the store's budget only in
\* free_page.
LEMMA BudgetLabel ==
    ASSUME Shape, NEW t \in Threads, NEW x, Acts(t, x),
           pc[t] # "freeNvmeEntry", ~FreeNvmeBudget(t)
    PROVE  pc[t] # "freeNvmeBudget" /\ pc'[t] # "freeNvmeBudget"
<1>1. pc \in [Threads -> Labels]
  BY Zenon DEF Shape, TypeOK, ThreadTypes
<1>2. t # NoThread
  BY SentinelAssumption, Zenon
<1>3. CASE x \in Pages /\ PageStep(t, x)
  <2>1. CASE AllocatePage(t, x)
    BY <1>1, <2>1, Zenon DEF AllocatePage, ChooseAllocationTier, Call,
       threadVars
  <2>2. CASE ~AllocatePage(t, x)
    BY <1>1, <1>3, <2>2, Zenon DEF PageStep, FreePage, EvictVramToHost,
       LoadNvmeToHost, PromoteHostToVram, EvictHostClaim, EvictHostReserve,
       EvictHostSkip, EvictHostThrows, CallEvictHost, Call, Return
  <2> QED
    BY <2>1, <2>2, Zenon
<1>4. CASE Step(t) /\ ~FreeStep(t)
  BY <1>1, <1>4, Zenon DEF Step, BufferStep, EvictVramStep, LoadStep,
     PromoteStep, EvictHostStep, AllocStep, HostBufAllocate, HostBufFull,
     HostBufRank, VictimCheck, HostBufRetry, HostBufGiveUp, HostBufUnused,
     EvictVramClaim, EvictVramCopy, EvictVramCopyFails, EvictVramDone,
     LoadClaim, LoadRead, LoadReadFails, LoadDone, PromoteCopy,
     PromoteCopyFails, PromoteDone, EvictHostWrite, EvictHostWriteFails,
     EvictHostDone, AllocVramReserve, AllocVramDevice, AllocHostBuffer,
     AllocHostInsert, AllocNvme, Goto, Return
<1>5. CASE FreeStep(t)
  BY <1>1, <1>5, Zenon DEF FreeStep, FreeVram, FreeVramBudget, FreeHost,
     FreeNvme, FreeNvmeEntry, FreeNvmeBudget, FreeEnd, Goto, ReleaseFailed,
     Return
<1> QED
  BY <1>2, <1>3, <1>4, <1>5, Zenon DEF Acts

\* A page that neither x nor a page x reclaims from keeps what it has, and the
\* step accounts for the extent of x.
LEMMA NvmeAccounts ==
    ASSUME Shape, ExtentsExclusive, NEW t, NEW x, Acts(t, x), ~Reserves(t, x)
    PROVE  /\ NvmeAccount(t, x)
           /\ \A q \in Pages \ {x} : HasExtent(q)' <=> HasExtent(q)
<1>1. Effect(t, x) /\ ThreadTypes /\ pc \in [Threads -> Labels]
  BY ActsEffect, Zenon DEF Shape, TypeOK, ThreadTypes
<1>2. x \in Pages /\ \A u \in Threads \ {t} : SameLocals(u)
  BY <1>1, Zenon DEF Effect
<1>3. \/ SameExtents(t)
      \/ t \in Threads /\ FreeNvme(t) /\ x = WritePageOf(t)
      \/ t \in Threads /\ FreeNvmeEntry(t) /\ x = WritePageOf(t)
  BY <1>1, <1>2, StepWorks, StepExtents, CallExtents, CallerExtents, Zenon
     DEF Acts
<1>4. CASE SameExtents(t)
  <2>1. \A q \in Pages : HasExtent(q)' <=> HasExtent(q)
    BY <1>2, <1>4, OthersGiveBack, Zenon DEF SameExtents, HasExtent
  <2>2. CASE t \in Threads /\ FreeNvmeBudget(t)
    <3>1. NvmeThread(t) /\ ~NvmeThread(t)' /\ nvme_used' = nvme_used - 1
      BY <1>1, <2>2, Zenon DEF FreeNvmeBudget, NvmeThread, Goto
    <3> QED
      BY <1>2, <2>1, <3>1, Zenon DEF NvmeAccount, Account
  <2>3. CASE ~(t \in Threads /\ FreeNvmeBudget(t))
    <3>1. nvme_used' = nvme_used
      BY <1>4, <2>3, NvmeUsed, Zenon DEF SameExtents
    <3>2. NvmeThread(t)' <=> NvmeThread(t)
      <4>1. ASSUME t \in Threads
            PROVE  pc[t] # "freeNvmeBudget" /\ pc'[t] # "freeNvmeBudget"
        BY <1>4, <2>3, <4>1, BudgetLabel, Zenon DEF SameExtents
      <4> QED
        BY <1>4, <4>1, Zenon DEF NvmeThread, SameExtents
    <3> QED
      BY <1>2, <2>1, <3>1, <3>2, Zenon DEF NvmeAccount, Account
  <2> QED
    BY <2>1, <2>2, <2>3, Zenon
<1>5. CASE t \in Threads /\ FreeNvme(t) /\ x = WritePageOf(t)
  <2>1. Works(t, x) /\ Owns(t, x) /\ pc[t] = "freeNvme" /\ x = page[t]
    <3>1. Works(t, x) /\ pc[t] = "freeNvme"
      BY <1>5, Working, Zenon DEF FreeNvme
    <3> QED
      BY <3>1, Zenon DEF Works, Owns, FreeLabels
  <2>2. nvme_used' = nvme_used /\ nvme_offset' = nvme_offset
        /\ ~NvmeThread(t)
    BY <1>5, <2>1, Zenon DEF FreeNvme, budgetVars, entryVars, NvmeThread
  <2>3. CASE nvme_offset[x] = NoExtent
    <3>1. pc'[t] = "freeEnd"
      BY <1>1, <1>5, <2>1, <2>3, Zenon DEF FreeNvme, Goto
    <3>2. \A q \in Pages : HasExtent(q)' <=> HasExtent(q)
      BY <1>2, <2>1, <2>2, <3>1, OthersGiveBack, Zenon DEF HasExtent
    <3>3. ~NvmeThread(t)'
      BY <3>1, Zenon DEF NvmeThread
    <3> QED
      BY <1>2, <2>2, <3>2, <3>3, Zenon DEF NvmeAccount, Account
  <2>4. CASE nvme_offset[x] # NoExtent
    <3>1. pc'[t] = "freeNvmeEntry" /\ page'[t] = x
      BY <1>1, <1>5, <2>1, <2>4, Zenon DEF FreeNvme, Goto
    <3>2. HasExtent(x)
      <4>1. ASSUME NEW u \in Threads, pc[u] = "freeNvmeEntry", page[u] = x
            PROVE  FALSE
        <5>1. Works(u, WritePageOf(u))
          BY <4>1, Working, Zenon
        <5>2. Owns(u, x)
          BY <4>1, <5>1, Zenon DEF Works, Owns, FreeLabels
        <5> QED
          BY <1>2, <1>5, <2>1, <4>1, <5>2, Zenon DEF Shape, ClaimsExclusive
      <4> QED
        BY <2>4, <4>1, Zenon DEF HasExtent
    <3>3. ~HasExtent(x)' /\ NvmeThread(t)'
      BY <1>5, <3>1, Zenon DEF HasExtent, NvmeThread
    <3>4. \A q \in Pages \ {x} : HasExtent(q)' <=> HasExtent(q)
      BY <1>2, <2>1, <2>2, <3>1, OthersGiveBack, Zenon DEF HasExtent
    <3> QED
      BY <2>2, <3>2, <3>3, <3>4, Zenon DEF NvmeAccount, Account
  <2> QED
    BY <2>3, <2>4, Zenon
<1>6. CASE t \in Threads /\ FreeNvmeEntry(t) /\ x = WritePageOf(t)
  <2>1. Works(t, x) /\ pc[t] = "freeNvmeEntry"
    BY <1>6, Working, Zenon DEF FreeNvmeEntry
  <2>2. x = page[t] /\ nvme_offset \in [Pages -> Extents \cup {NoExtent}]
    BY <2>1, Zenon DEF Works, EntryTypes
  <2>3. /\ pc'[t] = "freeNvmeBudget" /\ nvme_used' = nvme_used
        /\ nvme_offset'[x] = NoExtent
        /\ \A q \in Pages \ {x} : nvme_offset'[q] = nvme_offset[q]
    BY <1>1, <1>2, <1>6, <2>2, Zenon DEF FreeNvmeEntry, Goto, budgetVars
  <2>4. /\ ~HasExtent(x) /\ ~HasExtent(x)'
        /\ NvmeThread(t) /\ NvmeThread(t)'
    BY <1>6, <2>1, <2>2, <2>3, Zenon DEF HasExtent, NvmeThread
  <2>5. \A q \in Pages \ {x} : HasExtent(q)' <=> HasExtent(q)
    BY <1>2, <2>1, <2>2, <2>3, OthersGiveBack, ZenonT(40) DEF HasExtent
  <2> QED
    BY <2>3, <2>4, <2>5, Zenon DEF NvmeAccount, Account
<1> QED
  BY <1>3, <1>4, <1>5, <1>6, Zenon

-----------------------------------------------------------------------------
(* Counting.                                                               *)

\* The holders of a tier: pages P and threads T.
Holders(P, T) ==
    {<<"page", p>> : p \in P} \cup {<<"thread", t>> : t \in T}

\* Tagging the elements of a set does not change how many there are.
LEMMA Tagging ==
    ASSUME NEW S, IsFiniteSet(S), NEW tag
    PROVE  /\ IsFiniteSet({<<tag, s>> : s \in S})
           /\ Cardinality({<<tag, s>> : s \in S}) = Cardinality(S)
<1> DEFINE T == {<<tag, s>> : s \in S}
           f == [s \in S |-> <<tag, s>>]
<1>1. f \in Bijection(S, T)
  BY DEF Bijection, Injection, Surjection, IsInjective
<1>2. ExistsBijection(S, T)
  BY <1>1 DEF ExistsBijection
<1> QED
  BY <1>2, FS_Bijection

LEMMA HoldersCount ==
    ASSUME NEW P, NEW T, IsFiniteSet(P), IsFiniteSet(T)
    PROVE  Cardinality(Holders(P, T)) = Cardinality(P) + Cardinality(T)
<1> DEFINE PP == {<<"page", p>> : p \in P}
           TT == {<<"thread", t>> : t \in T}
<1>1. /\ IsFiniteSet(PP) /\ Cardinality(PP) = Cardinality(P)
      /\ IsFiniteSet(TT) /\ Cardinality(TT) = Cardinality(T)
  BY Tagging
<1>2. PP \cap TT = {}
  OBVIOUS
<1>3. Cardinality(PP \cup TT) =
        Cardinality(PP) + Cardinality(TT) - Cardinality(PP \cap TT)
  BY <1>1, FS_Union
<1>4. Cardinality(P) \in Nat /\ Cardinality(T) \in Nat
  BY FS_CardinalityType
<1>5. Cardinality(PP \cap TT) = 0
  BY <1>2, FS_EmptySet, Zenon
<1> HIDE DEF PP, TT
<1>6. Cardinality(PP \cup TT) = Cardinality(P) + Cardinality(T)
  BY <1>1, <1>3, <1>4, <1>5
<1> QED
  BY <1>6 DEF Holders, PP, TT

\* Two sets that differ at one element only.
LEMMA DifferAtOne ==
    ASSUME NEW S, NEW R, NEW x, IsFiniteSet(S),
           \A y : y # x => (y \in R <=> y \in S)
    PROVE  /\ IsFiniteSet(R) /\ Cardinality(S) \in Nat
           /\ Cardinality(R) = Cardinality(S) + Bit(x \in R) - Bit(x \in S)
<1>1. Cardinality(S) \in Nat
  BY FS_CardinalityType
<1>2. CASE x \in R /\ x \notin S
  <2>1. R = S \cup {x}
    BY <1>2
  <2> QED
    BY <1>1, <1>2, <2>1, FS_AddElement DEF Bit
<1>3. CASE x \notin R /\ x \in S
  <2>1. R = S \ {x}
    BY <1>3
  <2> QED
    BY <1>1, <1>3, <2>1, FS_RemoveElement DEF Bit
<1>4. CASE x \in R <=> x \in S
  <2>1. R = S
    BY <1>4
  <2> QED
    BY <1>1, <1>4, <2>1 DEF Bit
<1> QED
  BY <1>2, <1>3, <1>4

\* A non-empty set of extents has a lowest one.
LEMMA LowestExtent ==
    ASSUME NEW S, S \subseteq Extents, S # {}
    PROVE  \E e \in S : \A f \in S : e <= f
<1>1. S \subseteq Nat
  BY BudgetAssumption DEF Extents
<1>2. PICK e \in S : \A f \in S : ~(<<f, e>> \in OpToRel(<, Nat))
  BY <1>1, NatLessThanWellFounded, WFMin, Zenon
<1>3. ASSUME NEW f \in S PROVE e <= f
  <2>1. e \in Nat /\ f \in Nat
    BY <1>1, <1>2, <1>3
  <2>2. ~(<<f, e>> \in OpToRel(<, Nat))
    BY <1>2, <1>3, Zenon
  <2>3. ~(f < e)
    BY <2>1, <2>2 DEF OpToRel
  <2> QED
    BY <2>1, <2>3
<1> QED
  BY <1>3

\* The count of the holders when one page x and one thread t change.
LEMMA Recount ==
    ASSUME NEW P, NEW Q, NEW T, NEW U, NEW x, NEW t,
           IsFiniteSet(P), IsFiniteSet(T),
           \A y : y # x => (y \in Q <=> y \in P),
           \A u : u # t => (u \in U <=> u \in T)
    PROVE  /\ Cardinality(Holders(P, T)) \in Nat
           /\ Cardinality(Holders(Q, U)) =
                Cardinality(Holders(P, T))
                    + Bit(x \in Q) - Bit(x \in P) + Bit(t \in U) - Bit(t \in T)
<1>1. /\ IsFiniteSet(Q) /\ Cardinality(P) \in Nat
      /\ Cardinality(Q) = Cardinality(P) + Bit(x \in Q) - Bit(x \in P)
  BY DifferAtOne, Zenon
<1>2. /\ IsFiniteSet(U) /\ Cardinality(T) \in Nat
      /\ Cardinality(U) = Cardinality(T) + Bit(t \in U) - Bit(t \in T)
  BY DifferAtOne, Zenon
<1>3. /\ Cardinality(Holders(P, T)) = Cardinality(P) + Cardinality(T)
      /\ Cardinality(Holders(Q, U)) = Cardinality(Q) + Cardinality(U)
  BY <1>1, <1>2, HoldersCount, Zenon
<1> QED
  BY <1>1, <1>2, <1>3 DEF Bit

\* When the store is full, one page loses its extent: offsets are distinct, so
\* only one page has the lowest.
LEMMA ReclaimsOne ==
    ASSUME Shape, ExtentsExclusive, NEW x, ~CanReserve, Reclaimable(x) # {}
    PROVE  \E r \in Pages \ {x} : HasExtent(r) /\ Reclaimed(x) = {r}
<1> DEFINE S == {nvme_offset[q] : q \in Reclaimable(x)}
<1>1. ASSUME NEW q \in Reclaimable(x)
      PROVE  /\ q \in Pages \ {x} /\ HasExtent(q)
             /\ nvme_offset[q] \in Extents
  <2>1. /\ q \in Pages \ {x} /\ nvme_offset[q] # NoExtent
        /\ state[q] # "Released"
    BY <1>1, Zenon DEF Reclaimable
  <2> QED
    BY <2>1, NotGivenBack, Zenon DEF Shape, TypeOK, EntryTypes
<1>2. S \subseteq Extents /\ S # {}
  BY <1>1, Zenon
<1>3. PICK e \in S : \A f \in S : e <= f
  BY <1>2, LowestExtent, Zenon
<1>4. PICK r \in Reclaimable(x) : e = nvme_offset[r]
  BY <1>3, Zenon
<1>5. \A q \in Reclaimable(x) : nvme_offset[r] <= nvme_offset[q]
  BY <1>3, <1>4, Zenon
<1>6. ASSUME NEW q \in Reclaimable(x), nvme_offset[q] <= nvme_offset[r]
      PROVE  q = r
  <2>1. /\ nvme_offset[q] \in Int /\ nvme_offset[r] \in Int
        /\ nvme_offset[r] <= nvme_offset[q]
    BY <1>1, <1>4, <1>5, <1>6 DEF Extents
  <2>2. nvme_offset[q] = nvme_offset[r]
    BY <1>6, <2>1
  <2> QED
    BY <1>1, <1>4, <1>6, <2>2, Zenon DEF ExtentsExclusive
<1>7. Reclaimed(x) = {r}
  BY <1>4, <1>5, <1>6, Zenon DEF Reclaimed
<1> QED
  BY <1>1, <1>4, <1>7, Zenon

-----------------------------------------------------------------------------
(* The theorems.                                                           *)

\* The sets of holders are finite.
LEMMA FiniteHolders ==
    /\ \A S : S \subseteq Pages => IsFiniteSet(S)
    /\ \A S : S \subseteq Threads => IsFiniteSet(S)
BY FiniteAssumption, FS_Subset, Zenon

\* A budget that counts c before a step counts d after it.
LEMMA Accounted ==
    ASSUME NEW P, NEW Q, NEW T, NEW U, NEW x, NEW t, NEW c \in Nat, NEW d,
           d = c + Bit(x \in Q) - Bit(x \in P) + Bit(t \in U) - Bit(t \in T),
           NEW a \in Int, NEW b, NEW l \in Int, NEW m, NEW cap \in Int,
           Account(a, b, l, m, cap, x \in P, x \in Q, t \in T, t \in U),
           a = c + l, a <= cap
    PROVE  b = d + m /\ b <= cap
<1>1. CASE b = a /\ m = l /\ (x \in Q <=> x \in P) /\ (t \in U <=> t \in T)
  <2>1. Bit(x \in Q) = Bit(x \in P) /\ Bit(t \in U) = Bit(t \in T)
    BY <1>1 DEF Bit
  <2>2. d = c
    BY <2>1 DEF Bit
  <2> QED
    BY <1>1, <2>2
<1>2. CASE b = a /\ m = l /\ x \in P /\ ~(x \in Q) /\ ~(t \in T) /\ t \in U
  <2>1. d = c + 0 - 1 + 1 - 0
    BY <1>2, Zenon DEF Bit
  <2> QED
    BY <1>2, <2>1
<1>3. CASE b = a /\ m = l /\ ~(x \in P) /\ x \in Q /\ t \in T /\ ~(t \in U)
  <2>1. d = c + 1 - 0 + 0 - 1
    BY <1>3, Zenon DEF Bit
  <2> QED
    BY <1>3, <2>1
<1>4. CASE /\ b = a + 1 /\ m = l /\ a < cap
           /\ \/ ~(x \in P) /\ x \in Q /\ (t \in U <=> t \in T)
              \/ (x \in Q <=> x \in P) /\ ~(t \in T) /\ t \in U
  <2>1. d = c + 1
    BY <1>4 DEF Bit
  <2> QED
    BY <1>4, <2>1
<1>5. CASE /\ (b = a - 1 /\ m = l) \/ (b = a /\ m = l + 1)
           /\ \/ x \in P /\ ~(x \in Q) /\ (t \in U <=> t \in T)
              \/ (x \in Q <=> x \in P) /\ t \in T /\ ~(t \in U)
  <2>1. d = c - 1
    BY <1>5 DEF Bit
  <2> QED
    BY <1>5, <2>1
<1> QED
  BY <1>1, <1>2, <1>3, <1>4, <1>5, Zenon DEF Account

\* A step that changes the holders at its page and its thread, and accounts for
\* it, leaves the count right.
LEMMA CountKept ==
    ASSUME NEW P \in SUBSET Pages, NEW Q, NEW T \in SUBSET Threads, NEW U,
           NEW x, NEW t,
           \A y : y # x => (y \in Q <=> y \in P),
           \A u : u # t => (u \in U <=> u \in T),
           NEW a \in Int, NEW b, NEW l \in Int, NEW m, NEW cap \in Int,
           Account(a, b, l, m, cap, x \in P, x \in Q, t \in T, t \in U),
           a = Cardinality(Holders(P, T)) + l, a <= cap
    PROVE  /\ b = Cardinality(Holders(Q, U)) + m /\ b <= cap
           /\ Cardinality(Holders(Q, U)) \in Int
<1>1. IsFiniteSet(P) /\ IsFiniteSet(T)
  BY FiniteHolders, Zenon
<1>2. PICK c : c = Cardinality(Holders(P, T))
  BY Zenon
<1>3. PICK d : d = Cardinality(Holders(Q, U))
  BY Zenon
<1>4. /\ c \in Nat
      /\ d = c + Bit(x \in Q) - Bit(x \in P) + Bit(t \in U) - Bit(t \in T)
  BY <1>1, <1>2, <1>3, Recount
<1>5. a = c + l
  BY <1>2, Zenon
<1>6. b = d + m /\ b <= cap
  BY <1>4, <1>5, Accounted, SMTT(30) DEF Account
<1>7. d \in Int
  BY <1>4 DEF Bit
<1> QED
  BY <1>3, <1>6, <1>7, Zenon

\* The threads other than t hold what they held.
LEMMA OtherHolders ==
    ASSUME NEW t, NEW x, Effect(t, x), NEW u \in Threads, u # t
    PROVE  /\ VramThread(u)' <=> VramThread(u)
           /\ HostThread(u)' <=> HostThread(u)
           /\ NvmeThread(u)' <=> NvmeThread(u)
<1>1. pc'[u] = pc[u]
  BY Zenon DEF Effect, SameLocals
<1> QED
  BY <1>1, Zenon DEF VramThread, HostThread, NvmeThread

\* The pages other than x have the device and host memory they had.
LEMMA OtherMemory ==
    ASSUME Shape, NEW t, NEW x, Acts(t, x), NEW q \in Pages, q # x
    PROVE  (VramPage(q)' <=> VramPage(q)) /\ (HostPage(q)' <=> HostPage(q))
<1>1. vram'[q] = vram[q] /\ host'[q] = host[q]
  <2>1. SameEntry(q) \/ LosesExtent(q)
    BY ActsEffect, Zenon DEF Effect
  <2> QED
    BY <2>1, Zenon DEF SameEntry, LosesExtent
<1>2. q \in uncounted' <=> q \in uncounted
  <2>1. uncounted' = uncounted \/ uncounted' = uncounted \cup {x}
    BY UncountedGrows, Zenon
  <2> QED
    BY <2>1, Zenon
<1> QED
  BY <1>1, <1>2, Zenon DEF VramPage, HostPage

VramBudgetExact ==
    vram_used = Cardinality(VramHolders) /\ vram_used <= VramUsable

HostBudgetExact ==
    host_used = Cardinality(HostHolders) + leaked /\ host_used <= HostUsable

NvmeBudgetExact ==
    nvme_used = Cardinality(NvmeHolders) /\ nvme_used <= NvmeExtents

\* The holders of BudgetsExact, by page and by thread.
HolderSets ==
    /\ VramHolders = Holders({q \in Pages : VramPage(q)},
                             {u \in Threads : VramThread(u)})
    /\ HostHolders = Holders({q \in Pages : HostPage(q)},
                             {u \in Threads : HostThread(u)})
    /\ NvmeHolders = Holders({q \in Pages : HasExtent(q)},
                             {u \in Threads : NvmeThread(u)})

LEMMA HolderSetsHold == HolderSets /\ HolderSets'
<1>1. {u \in Threads : VramThread(u)} =
        {u \in Threads : pc[u] \in {"allocDev", "freeVramBudget"}}
  BY Zenon DEF VramThread
<1>2. {u \in Threads : HostThread(u)} =
        {u \in Threads : pc[u] \in {"haveBuf", "allocIns"}}
  BY Zenon DEF HostThread
<1>3. {u \in Threads : NvmeThread(u)} =
        {u \in Threads : pc[u] \in {"freeNvmeEntry", "freeNvmeBudget"}}
  BY Zenon DEF NvmeThread
<1>4. HolderSets
  BY <1>1, <1>2, <1>3, Zenon DEF HolderSets, Holders, VramHolders,
     HostHolders, NvmeHolders, VramPage, HostPage
<1> QED
  BY <1>4, PTL

LEMMA VramBudgetKept ==
    ASSUME Shape, UncountedAbandoned, VramBudgetExact,
           NEW t, NEW x, Acts(t, x)
    PROVE  VramBudgetExact'
<1> DEFINE P == {q \in Pages : VramPage(q)}
           T == {u \in Threads : VramThread(u)}
<1>1. PICK Q : Q = {q \in Pages : VramPage(q)'}
  BY Zenon
<1>2. PICK U : U = {u \in Threads : VramThread(u)'}
  BY Zenon
<1>3. Effect(t, x) /\ x \in Pages
  BY ActsEffect, Zenon DEF Effect
<1>4. /\ \A y : y # x => (y \in Q <=> y \in P)
      /\ \A u : u # t => (u \in U <=> u \in T)
  BY <1>1, <1>2, <1>3, OtherMemory, OtherHolders, Zenon
<1>5. /\ (x \in P <=> VramPage(x)) /\ (x \in Q <=> VramPage(x)')
      /\ (t \in T <=> VramThread(t)) /\ (t \in U <=> VramThread(t)')
  BY <1>1, <1>2, <1>3, Zenon DEF VramThread
<1>6. Account(vram_used, vram_used', 0, 0, VramUsable,
              x \in P, x \in Q, t \in T, t \in U)
  BY <1>5, VramAccounts, Zenon DEF VramAccount, Account
<1>7. /\ vram_used = Cardinality(Holders(P, T)) /\ vram_used <= VramUsable
      /\ vram_used \in Int /\ VramUsable \in Int
  BY HolderSetsHold, BudgetAssumption DEF HolderSets, VramBudgetExact,
     Shape, TypeOK, MemoryTypes
<1>8. P \in SUBSET Pages /\ T \in SUBSET Threads
  BY Zenon
<1>9. vram_used = Cardinality(Holders(P, T)) + 0
  <2>1. Cardinality(Holders(P, T)) \in Int
    BY <1>7, Zenon
  <2> QED
    BY <1>7, <2>1
<1> HIDE DEF P, T
<1>10. /\ vram_used' = Cardinality(Holders(Q, U)) + 0
       /\ vram_used' <= VramUsable
       /\ Cardinality(Holders(Q, U)) \in Int
  BY <1>4, <1>6, <1>7, <1>8, <1>9, CountKept
<1>11. vram_used' = Cardinality(Holders(Q, U))
  BY <1>10
<1>12. VramHolders' = Holders(Q, U)
  BY <1>1, <1>2, HolderSetsHold, Zenon DEF HolderSets
<1> QED
  BY <1>10, <1>11, <1>12, Zenon DEF VramBudgetExact

LEMMA HostBudgetKept ==
    ASSUME Shape, HostBudgetExact, NEW t, NEW x, Acts(t, x)
    PROVE  HostBudgetExact'
<1> DEFINE P == {q \in Pages : HostPage(q)}
           T == {u \in Threads : HostThread(u)}
<1>1. PICK Q : Q = {q \in Pages : HostPage(q)'}
  BY Zenon
<1>2. PICK U : U = {u \in Threads : HostThread(u)'}
  BY Zenon
<1>3. Effect(t, x) /\ x \in Pages
  BY ActsEffect, Zenon DEF Effect
<1>4. /\ \A y : y # x => (y \in Q <=> y \in P)
      /\ \A u : u # t => (u \in U <=> u \in T)
  BY <1>1, <1>2, <1>3, OtherMemory, OtherHolders, Zenon
<1>5. /\ (x \in P <=> HostPage(x)) /\ (x \in Q <=> HostPage(x)')
      /\ (t \in T <=> HostThread(t)) /\ (t \in U <=> HostThread(t)')
  BY <1>1, <1>2, <1>3, Zenon DEF HostThread
<1>6. Account(host_used, host_used', leaked, leaked', HostUsable,
              x \in P, x \in Q, t \in T, t \in U)
  BY <1>5, HostAccounts, Zenon DEF HostAccount, Account
<1>7. /\ host_used = Cardinality(Holders(P, T)) + leaked
      /\ host_used <= HostUsable /\ leaked \in Int /\ host_used \in Int /\ HostUsable \in Int
  BY HolderSetsHold, BudgetAssumption DEF HolderSets, HostBudgetExact,
     Shape, TypeOK, MemoryTypes
<1>8. P \in SUBSET Pages /\ T \in SUBSET Threads
  BY Zenon
<1> HIDE DEF P, T
<1>9. /\ host_used' = Cardinality(Holders(Q, U)) + leaked'
      /\ host_used' <= HostUsable
  BY <1>4, <1>6, <1>7, <1>8, CountKept
<1>10. HostHolders' = Holders(Q, U)
  BY <1>1, <1>2, HolderSetsHold, Zenon DEF HolderSets
<1> QED
  BY <1>9, <1>10, Zenon DEF HostBudgetExact

\* A reservation is not part of free_page.
LEMMA ReservesElsewhere ==
    ASSUME Shape, NEW t, NEW x, Acts(t, x), Reserves(t, x)
    PROVE  ~NvmeThread(t) /\ ~NvmeThread(t)'
<1>1. /\ t \in Threads
      /\ pc[t] # "freeNvmeEntry" /\ pc'[t] # "freeNvmeEntry"
  BY Zenon DEF Reserves
<1>2. x \in Pages
  BY ActsEffect, Zenon DEF Effect
<1>3. nvme_offset' # nvme_offset
  BY <1>2, Reserving, Zenon DEF Reserves, Shape, TypeOK
<1>4. ~FreeNvmeBudget(t)
  BY <1>3, Zenon DEF FreeNvmeBudget, entryVars
<1>5. pc[t] # "freeNvmeBudget" /\ pc'[t] # "freeNvmeBudget"
  BY <1>1, <1>4, BudgetLabel, Zenon
<1> QED
  BY <1>1, <1>5, Zenon DEF NvmeThread

\* reserve_nvme_range_locked with a free extent: x holds one more.
LEMMA TakesFree ==
    ASSUME Shape, NEW t, NEW x, Acts(t, x), Reserves(t, x), CanReserve
    PROVE  /\ NvmeAccount(t, x)
           /\ \A q \in Pages \ {x} : HasExtent(q)' <=> HasExtent(q)
<1>1. x \in Pages /\ \A u \in Threads \ {t} : SameLocals(u)
  BY ActsEffect, Zenon DEF Effect
<1>2. Reclaimed(x) = {}
  BY Zenon DEF Reclaimed
<1>3. \A q \in Pages : HasExtent(q)' <=> q = x \/ HasExtent(q)
  BY <1>1, <1>2, ReserveHolders, Zenon
<1>4. nvme_used' = nvme_used + 1 /\ nvme_used < NvmeExtents
  BY <1>2, Zenon DEF Reserves, ReserveNvmeRange, CanReserve
<1>5. ~HasExtent(x) /\ HasExtent(x)'
  BY <1>1, <1>3, Zenon DEF Reserves, HasExtent
<1>6. ~NvmeThread(t) /\ ~NvmeThread(t)'
  BY ReservesElsewhere, Zenon
<1> QED
  BY <1>3, <1>4, <1>5, <1>6, Zenon DEF NvmeAccount, Account

\* Then the budget of the store stays exact.
LEMMA NvmeCountKept ==
    ASSUME Shape, NvmeBudgetExact, NEW t, NEW x, Acts(t, x),
           NvmeAccount(t, x),
           \A q \in Pages \ {x} : HasExtent(q)' <=> HasExtent(q)
    PROVE  NvmeBudgetExact'
<1> DEFINE P == {q \in Pages : HasExtent(q)}
           T == {u \in Threads : NvmeThread(u)}
<1>1. PICK Q : Q = {q \in Pages : HasExtent(q)'}
  BY Zenon
<1>2. PICK U : U = {u \in Threads : NvmeThread(u)'}
  BY Zenon
<1>3. Effect(t, x) /\ x \in Pages
  BY ActsEffect, Zenon DEF Effect
<1>4. /\ \A y : y # x => (y \in Q <=> y \in P)
      /\ \A u : u # t => (u \in U <=> u \in T)
  BY <1>1, <1>2, <1>3, OtherHolders, Zenon
<1>5. /\ (x \in P <=> HasExtent(x)) /\ (x \in Q <=> HasExtent(x)')
      /\ (t \in T <=> NvmeThread(t)) /\ (t \in U <=> NvmeThread(t)')
  BY <1>1, <1>2, <1>3, Zenon DEF NvmeThread
<1>6. Account(nvme_used, nvme_used', 0, 0, NvmeExtents,
              x \in P, x \in Q, t \in T, t \in U)
  BY <1>5, Zenon DEF NvmeAccount, Account
<1>7. /\ nvme_used = Cardinality(Holders(P, T)) /\ nvme_used <= NvmeExtents
      /\ nvme_used \in Int /\ NvmeExtents \in Int
  BY HolderSetsHold, BudgetAssumption DEF HolderSets, NvmeBudgetExact,
     Shape, TypeOK, MemoryTypes
<1>8. P \in SUBSET Pages /\ T \in SUBSET Threads
  BY Zenon
<1>9. nvme_used = Cardinality(Holders(P, T)) + 0
  <2>1. Cardinality(Holders(P, T)) \in Int
    BY <1>7, Zenon
  <2> QED
    BY <1>7, <2>1
<1> HIDE DEF P, T
<1>10. /\ nvme_used' = Cardinality(Holders(Q, U)) + 0
       /\ nvme_used' <= NvmeExtents
       /\ Cardinality(Holders(Q, U)) \in Int
  BY <1>4, <1>6, <1>7, <1>8, <1>9, CountKept
<1>11. nvme_used' = Cardinality(Holders(Q, U))
  BY <1>10
<1>12. NvmeHolders' = Holders(Q, U)
  BY <1>1, <1>2, HolderSetsHold, Zenon DEF HolderSets
<1> QED
  BY <1>10, <1>11, <1>12, Zenon DEF NvmeBudgetExact

\* reserve_nvme_range_locked on a full store: x holds what one page loses.
LEMMA NvmeSwapKept ==
    ASSUME Shape, ExtentsExclusive, NvmeBudgetExact, NEW t, NEW x,
           Acts(t, x), Reserves(t, x), ~CanReserve
    PROVE  NvmeBudgetExact'
<1> DEFINE P == {q \in Pages : HasExtent(q)}
           T == {u \in Threads : NvmeThread(u)}
<1>1. PICK Q : Q = {q \in Pages : HasExtent(q)'}
  BY Zenon
<1>2. PICK U : U = {u \in Threads : NvmeThread(u)'}
  BY Zenon
<1>3. /\ Effect(t, x) /\ x \in Pages
      /\ \A u \in Threads \ {t} : SameLocals(u)
  BY ActsEffect, Zenon DEF Effect
<1>4. PICK r \in Pages \ {x} : HasExtent(r) /\ Reclaimed(x) = {r}
  <2>1. Reclaimable(x) # {}
    BY Zenon DEF Reserves, ReserveNvmeRange
  <2> QED
    BY <2>1, ReclaimsOne, Zenon
<1>5. \A q \in Pages : HasExtent(q)' <=> q = x \/ (HasExtent(q) /\ q # r)
  BY <1>3, <1>4, ReserveHolders, Zenon
<1>6. x \notin P /\ x \in Q /\ r \in P /\ r \notin Q /\ r # x
  BY <1>1, <1>3, <1>4, <1>5, Zenon DEF Reserves, HasExtent
<1>7. PICK M : M = P \ {r}
  BY Zenon
<1>8. /\ \A y : y # r => (y \in M <=> y \in P)
      /\ \A y : y # x => (y \in Q <=> y \in M)
      /\ r \notin M /\ x \notin M /\ M \in SUBSET Pages
  BY <1>1, <1>5, <1>6, <1>7, Zenon
<1>9. U = T /\ T \in SUBSET Threads /\ P \in SUBSET Pages
  <2>1. \A u \in Threads : NvmeThread(u)' <=> NvmeThread(u)
    BY <1>3, ReservesElsewhere, OtherHolders, Zenon
  <2> QED
    BY <1>2, <2>1, Zenon
<1>10. nvme_used' = nvme_used
  BY <1>4, Zenon DEF Reserves, ReserveNvmeRange
<1>11. nvme_used = Cardinality(Holders(P, T)) /\ nvme_used <= NvmeExtents
  BY HolderSetsHold, Zenon DEF HolderSets, NvmeBudgetExact
<1>12. NvmeHolders' = Holders(Q, U)
  BY <1>1, <1>2, HolderSetsHold, Zenon DEF HolderSets
<1>13. IsFiniteSet(P) /\ IsFiniteSet(M) /\ IsFiniteSet(T)
  BY <1>8, <1>9, FiniteHolders, Zenon
<1> HIDE DEF P, T
<1>14. /\ Cardinality(M) = Cardinality(P) + Bit(r \in M) - Bit(r \in P)
       /\ Cardinality(P) \in Nat
  BY <1>8, <1>13, DifferAtOne, Zenon
<1>15. /\ Cardinality(Q) = Cardinality(M) + Bit(x \in Q) - Bit(x \in M)
       /\ IsFiniteSet(Q)
  BY <1>8, <1>13, DifferAtOne, Zenon
<1>16. Cardinality(M) = Cardinality(P) + 0 - 1
  BY <1>6, <1>8, <1>14, Zenon DEF Bit
<1>17. Cardinality(Q) = Cardinality(M) + 1 - 0
  BY <1>6, <1>8, <1>15, Zenon DEF Bit
<1>18. Cardinality(Q) = Cardinality(P)
  BY <1>14, <1>16, <1>17
<1>19. Cardinality(Holders(Q, U)) = Cardinality(Holders(P, T))
  BY <1>9, <1>13, <1>15, <1>18, HoldersCount, Zenon
<1> QED
  BY <1>10, <1>11, <1>12, <1>19, Zenon DEF NvmeBudgetExact

LEMMA NvmeBudgetKept ==
    ASSUME Shape, ExtentsExclusive, NvmeBudgetExact, NEW t, NEW x, Acts(t, x)
    PROVE  NvmeBudgetExact'
BY NvmeAccounts, TakesFree, NvmeCountKept, NvmeSwapKept, Zenon

LEMMA InitBudgets == Init => BudgetsExact
<1> SUFFICES ASSUME Init PROVE BudgetsExact
  OBVIOUS
<1>1. \A p \in Pages : ~VramPage(p) /\ ~HostPage(p) /\ ~HasExtent(p)
  BY Zenon DEF Init, VramPage, HostPage, HasExtent
<1>2. \A u \in Threads : ~VramThread(u) /\ ~HostThread(u) /\ ~NvmeThread(u)
  <2>1. \A u \in Threads : pc[u] = "idle"
    BY Zenon DEF Init
  <2> QED
    BY <2>1 DEF VramThread, HostThread, NvmeThread
<1>3. VramHolders = {} /\ HostHolders = {} /\ NvmeHolders = {}
  BY <1>1, <1>2, HolderSetsHold, Zenon DEF HolderSets, Holders
<1>4. Cardinality({}) = 0
  BY FS_EmptySet, Zenon
<1>5. vram_used = 0 /\ host_used = 0 /\ nvme_used = 0 /\ leaked = 0
  BY Zenon DEF Init
<1>6. 0 <= VramUsable /\ 0 <= HostUsable /\ 0 <= NvmeExtents
  BY BudgetAssumption
<1> QED
  BY <1>3, <1>4, <1>5, <1>6 DEF BudgetsExact

LEMMA NextBudgets ==
    ASSUME Contents, BudgetsExact, NEW t, NEW x, Acts(t, x)
    PROVE  BudgetsExact'
<1>1. Shape /\ ExtentsExclusive /\ UncountedAbandoned
  BY Zenon DEF Contents
<1>2. VramBudgetExact /\ HostBudgetExact /\ NvmeBudgetExact
  BY Zenon DEF BudgetsExact, VramBudgetExact, HostBudgetExact,
     NvmeBudgetExact
<1>3. VramBudgetExact'
  BY <1>1, <1>2, VramBudgetKept, Zenon
<1>4. HostBudgetExact'
  BY <1>1, <1>2, HostBudgetKept, Zenon
<1>5. NvmeBudgetExact'
  BY <1>1, <1>2, NvmeBudgetKept, Zenon
<1> QED
  BY <1>3, <1>4, <1>5, Zenon DEF BudgetsExact, VramBudgetExact,
     HostBudgetExact, NvmeBudgetExact

LEMMA StutterBudgets == BudgetsExact /\ UNCHANGED vars => BudgetsExact'
<1> SUFFICES ASSUME BudgetsExact, UNCHANGED vars PROVE BudgetsExact'
  OBVIOUS
<1> USE DEF vars, entryVars, memVars, threadVars, ghostVars
<1>1. VramHolders' = VramHolders
  BY Zenon DEF VramHolders
<1>2. HostHolders' = HostHolders
  BY Zenon DEF HostHolders
<1>3. \A q \in Pages : HasExtent(q)' <=> HasExtent(q)
  BY Zenon DEF HasExtent
<1>4. NvmeHolders' = NvmeHolders
  BY <1>3, Zenon DEF NvmeHolders
<1>5. /\ vram_used' = vram_used /\ host_used' = host_used
      /\ nvme_used' = nvme_used /\ leaked' = leaked
  BY Zenon DEF budgetVars
<1> QED
  BY <1>1, <1>2, <1>4, <1>5, Zenon DEF BudgetsExact

\* The three budgets are exact in every state: each counts the pages and the
\* calls in progress that hold memory or an extent of its tier, plus, in the
\* host tier, what an abandoned buffer leaked, and none passes its limit.
THEOREM BudgetsAreExact == Spec => []BudgetsExact
<1>1. ASSUME Contents, BudgetsExact, Next PROVE BudgetsExact'
  BY <1>1, NextActs, NextBudgets, StutterBudgets, Zenon
<1>2. Contents /\ BudgetsExact /\ [Next]_vars => BudgetsExact'
  BY <1>1, StutterBudgets, Zenon
<1> QED
  BY <1>2, InitBudgets, ContentsInvariant, PTL DEF Spec

\* The invariant that TLC checks as one formula: types, the shape of threads
\* and entries, exclusive claims, contents, extents and budgets.
THEOREM InductiveHolds == Spec => []Inductive
<1>1. Contents => NoLostWrite /\ CopiesMade
  BY Zenon DEF Contents, NoLostWrite, ContentOK, CopiesMade, CopyOK
<1>2. Contents => /\ TypeOK /\ ThreadShape /\ EntryShape /\ ClaimsExclusive
                  /\ ExtentsExclusive /\ UncountedAbandoned
  BY Zenon DEF Contents, Shape
<1>3. Contents /\ BudgetsExact /\ StoreCopyValid => Inductive
  BY <1>1, <1>2, Zenon DEF Inductive
<1> QED
  BY <1>3, ContentsInvariant, BudgetsAreExact, StoreCopiesAreValid, PTL

\* Device memory leaves the count only when a promotion fails and device_free
\* fails as well.
LEMMA CountedUnlessBoth ==
    ASSUME ~({"h2d", "deviceFree"} \subseteq Faults),
           NEW t, NEW x, Acts(t, x)
    PROVE  uncounted' = uncounted
<1>1. CASE t = NoThread /\ CallerStep(x)
  BY <1>1, Zenon DEF CallerStep, WritePage, WritePageFails, CleanDrop, Pin,
     ghostVars
<1>2. CASE t \in Threads /\ PageStep(t, x)
  BY <1>2, Zenon DEF PageStep, AllocatePage, FreePage, EvictVramToHost,
     LoadNvmeToHost, PromoteHostToVram, EvictHostClaim, EvictHostReserve,
     EvictHostSkip, EvictHostThrows, ghostVars
<1>3. CASE t \in Threads /\ PromoteCopyFails(t)
  BY <1>3, Zenon DEF PromoteCopyFails
<1>4. CASE t \in Threads /\ Step(t) /\ ~PromoteCopyFails(t)
  BY <1>4, Zenon DEF Step, BufferStep, EvictVramStep, LoadStep, PromoteStep,
     EvictHostStep, AllocStep, FreeStep, HostBufAllocate, HostBufFull,
     HostBufRank, VictimCheck, HostBufRetry, HostBufGiveUp, HostBufUnused,
     EvictVramClaim, EvictVramCopy, EvictVramCopyFails, EvictVramDone,
     LoadClaim, LoadRead, LoadReadFails, LoadDone, PromoteCopy, PromoteDone,
     EvictHostWrite, EvictHostWriteFails, EvictHostDone, AllocVramReserve,
     AllocVramDevice, AllocHostBuffer, AllocHostInsert, AllocNvme, FreeVram,
     FreeVramBudget, FreeHost, FreeNvme, FreeNvmeEntry, FreeNvmeBudget,
     FreeEnd, ghostVars
<1> QED
  BY <1>1, <1>2, <1>3, <1>4, Zenon DEF Acts

\* All device memory is counted.
AllCounted == uncounted = {}

\* Unless a promotion and the device_free that cleans up after it can both fail,
\* the device memory that is live never exceeds the budget less its reserve: the
\* allocator does not overcommit, whatever else fails.
THEOREM DeviceIsNotOvercommitted ==
    ASSUME ~({"h2d", "deviceFree"} \subseteq Faults)
    PROVE  Spec => []DeviceNotOvercommitted
<1>1. Init => AllCounted
  BY Zenon DEF Init, AllCounted
<1>2. ASSUME AllCounted, Next PROVE AllCounted'
  BY <1>2, NextActs, CountedUnlessBoth, Zenon DEF AllCounted, vars, ghostVars
<1>3. AllCounted /\ [Next]_vars => AllCounted'
  BY <1>2, Zenon DEF AllCounted, vars, ghostVars
<1>4. ASSUME AllCounted, BudgetsExact PROVE DeviceNotOvercommitted
  <2> DEFINE P == {q \in Pages : VramPage(q)}
             T == {u \in Threads : VramThread(u)}
  <2>1. {p \in Pages : vram[p] # Null} = P
    BY <1>4, Zenon DEF AllCounted, VramPage
  <2>2. VramHolders = Holders(P, T)
    BY HolderSetsHold, Zenon DEF HolderSets
  <2>3. IsFiniteSet(P) /\ IsFiniteSet(T)
    BY FiniteHolders, Zenon
  <2> HIDE DEF P, T
  <2>4. Cardinality(VramHolders) = Cardinality(P) + Cardinality(T)
    BY <2>2, <2>3, HoldersCount, Zenon
  <2>5. Cardinality(P) \in Nat /\ Cardinality(T) \in Nat
    BY <2>3, FS_CardinalityType, Zenon
  <2>6. Cardinality(VramHolders) <= VramUsable
    BY <1>4, Zenon DEF BudgetsExact
  <2>7. Cardinality(P) <= VramUsable
    BY <2>4, <2>5, <2>6, BudgetAssumption, SMT
  <2> QED
    BY <2>1, <2>7, Zenon DEF DeviceNotOvercommitted
<1>5. AllCounted /\ BudgetsExact => DeviceNotOvercommitted
  BY <1>4, Zenon
<1> QED
  BY <1>1, <1>3, <1>5, BudgetsAreExact, PTL DEF Spec
=============================================================================
