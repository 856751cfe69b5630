--------------------------- MODULE ComponentProofs --------------------------
(***************************************************************************)
(* Proofs about components of the runtime that stand on their own.         *)
(*                                                                         *)
(* The two lifecycles.  Of the runtime (Lifecycle), for any set of pages   *)
(* and any number of failures: what start and shutdown leave open, and     *)
(* what they release.  Of the store file (StoreFile), for any number of    *)
(* processes and geometries: the file of an open store has one user, is    *)
(* valid and stays at its path.                                            *)
(*                                                                         *)
(* The budgets (Budgets), for any widths of size_t and of the significand  *)
(* of a double, any sizes and any number of blocks: what is in use is the  *)
(* sum of what is held and stays below the limit less the margin, and no   *)
(* sum on the way wraps round.                                             *)
(***************************************************************************)
EXTENDS Lifecycle, StoreFile, Budgets, FiniteSetTheorems, WellFoundedInduction, TLAPS

-----------------------------------------------------------------------------
(* The runtime.                                                            *)

Handles == {"pageable", "pinned", "vram", "extent"}
TearingDown == {"release", "closedevice", "closesink"}

LShape ==
    /\ lpc \in Starting \cup {"down", "up"} \cup TearingDown
    /\ stream \in BOOLEAN /\ attached \in BOOLEAN /\ storeOpened \in BOOLEAN
    /\ sink \in BOOLEAN /\ workers \in BOOLEAN
    /\ deviceLive \in BOOLEAN /\ storeLive \in BOOLEAN /\ firstError \in BOOLEAN
    /\ device \in {"none", "created", "open"} /\ nvme \in {"none", "created", "open"}
    /\ inTable \subseteq TablePages /\ left \subseteq TablePages
    /\ lost \in Nat /\ uncounted \subseteq TablePages
    /\ table \in [TablePages -> SUBSET Handles] /\ live \in [TablePages -> SUBSET Handles]

\* The table names what is held, and has no entry for a page without a handle.
TableNames ==
    \A p \in TablePages : live[p] = table[p] /\ (p \in inTable <=> table[p] # {})

\* What is open at each step of start(), and what depends on what.
OpenedSoFar ==
    /\ stream => device = "open"
    /\ attached => device = "open"
    /\ storeOpened <=> nvme = "open"
    /\ lpc \in Starting => inTable = {} /\ lost = 0
    /\ lpc \in {"device", "opendevice", "stream", "limits", "nvme"} => nvme = "none"
    /\ lpc \in {"sink", "workers", "up"} => nvme = "open"
    /\ lpc = "device" => device = "none"
    /\ lpc = "stream" => device = "open"
    /\ lpc \in {"limits", "nvme"} => device # "created"
    /\ workers => lpc \in {"workers", "up"}
    /\ sink => lpc \in {"workers", "up"} \cup TearingDown

\* A page that was visited and still has a handle was noted in deviceLive or
\* storeLive; once the store or the device is closed, every page was visited.
KeptIsNoted ==
    lpc \in TearingDown =>
        /\ \A p \in TablePages \ left :
               /\ KeepsDevice(live[p]) => deviceLive
               /\ KeepsStore(live[p]) => storeLive
        /\ lpc # "release" => left = {}

\* As long as no call failed, all that was visited is gone.
QuietSoFar ==
    ~firstError =>
        /\ lpc \in TearingDown =>
               ~deviceLive /\ ~storeLive /\ \A p \in TablePages \ left : live[p] = {}
        /\ lpc \in {"closedevice", "closesink", "down"} => nvme = "none"
        /\ lpc \in {"closesink", "down"} => device = "none"
        /\ lpc = "down" => inTable = {}

LInv ==
    /\ LShape /\ TableNames /\ OpenedSoFar /\ BackendOutlivesMemory
    /\ KeptIsNoted /\ QuietSoFar

-----------------------------------------------------------------------------
\* The start of the system.
LEMMA LInvInit == LInit => LInv
<1> SUFFICES ASSUME LInit PROVE LInv
  OBVIOUS
<1>1. LShape
  BY DEF LInit, LShape, Handles, TearingDown, Starting
<1>2. TableNames /\ OpenedSoFar /\ BackendOutlivesMemory
  BY DEF LInit, TableNames, OpenedSoFar, BackendOutlivesMemory, TearingDown, Starting
<1>3. KeptIsNoted /\ QuietSoFar
  BY DEF LInit, KeptIsNoted, QuietSoFar, TearingDown
<1> QED
  BY <1>1, <1>2, <1>3 DEF LInv

\* The steps of start() that obtain the device.
LEMMA StartDeviceKeeps ==
    ASSUME LInv, Start \/ CreateDevice \/ OpenDevice \/ CreateStream \/ SetLimits
    PROVE  LInv'
<1> USE DEF LInv, Step, Handles, Starting, TearingDown, Start, AdmitRestart,
            CreateDevice, OpenDevice, CreateStream, SetLimits, flagVars, deviceVars,
            storeVars, memoryVars, pageVars, localVars
<1>1. LShape'
  <2>1. CASE Start
    BY <2>1 DEF LShape
  <2>2. CASE CreateDevice
    BY <2>2 DEF LShape
  <2>3. CASE OpenDevice
    BY <2>3 DEF LShape
  <2>4. CASE CreateStream
    BY <2>4 DEF LShape
  <2>5. CASE SetLimits
    BY <2>5 DEF LShape
  <2> QED
    BY <2>1, <2>2, <2>3, <2>4, <2>5
<1>2. TableNames'
  BY DEF LShape, TableNames
<1>3. OpenedSoFar'
  BY DEF LShape, OpenedSoFar, BackendOutlivesMemory
<1>4. BackendOutlivesMemory'
  BY DEF LShape, TableNames, OpenedSoFar, KeptIsNoted, BackendOutlivesMemory
<1>5. KeptIsNoted'
  BY DEF LShape, TableNames, KeptIsNoted
<1>6. QuietSoFar'
  BY DEF LShape, TableNames, OpenedSoFar, KeptIsNoted, QuietSoFar
<1> QED
  BY <1>1, <1>2, <1>3, <1>4, <1>5, <1>6

\* The steps of start() that obtain the store, the sink and the workers.
LEMMA StartStoreKeeps ==
    ASSUME LInv, CreateStore \/ OpenStore \/ OpenSink \/ StartWorkers
    PROVE  LInv'
<1> USE DEF LInv, Step, Handles, Starting, TearingDown, CreateStore, OpenStore,
            OpenSink, StartWorkers, flagVars, deviceVars, storeVars, memoryVars, pageVars, localVars
<1>1. LShape'
  <2>1. CASE CreateStore
    BY <2>1 DEF LShape
  <2>2. CASE OpenStore
    BY <2>2 DEF LShape
  <2>3. CASE OpenSink
    BY <2>3 DEF LShape
  <2>4. CASE StartWorkers
    BY <2>4 DEF LShape
  <2> QED
    BY <2>1, <2>2, <2>3, <2>4
<1>2. TableNames'
  BY DEF LShape, TableNames
<1>3. OpenedSoFar'
  BY DEF LShape, OpenedSoFar
<1>4. BackendOutlivesMemory'
  BY DEF LShape, TableNames, OpenedSoFar, KeptIsNoted, BackendOutlivesMemory
<1>5. KeptIsNoted'
  BY DEF LShape, TableNames, KeptIsNoted
<1>6. QuietSoFar'
  BY DEF LShape, TableNames, OpenedSoFar, KeptIsNoted, QuietSoFar
<1> QED
  BY <1>1, <1>2, <1>3, <1>4, <1>5, <1>6

\* shutdown_locked begins: no page was visited yet.
LEMMA TeardownKeeps ==
    ASSUME LInv, StartFails \/ Shutdown
    PROVE  LInv'
<1> USE DEF LInv, Step, Handles, Starting, TearingDown, Teardown, StartFails, Shutdown,
            KeepsDevice, KeepsStore, flagVars, deviceVars, storeVars, memoryVars, pageVars,
            localVars
<1>1. LShape'
  BY DEF LShape
<1>2. TableNames'
  BY DEF LShape, TableNames
<1>3. OpenedSoFar'
  BY DEF LShape, OpenedSoFar
<1>4. BackendOutlivesMemory'
  BY DEF LShape, TableNames, OpenedSoFar, KeptIsNoted, BackendOutlivesMemory
<1>5. KeptIsNoted'
  BY DEF LShape, TableNames, KeptIsNoted
<1>6. QuietSoFar'
  BY DEF LShape, TableNames, OpenedSoFar, KeptIsNoted, QuietSoFar
<1> QED
  BY <1>1, <1>2, <1>3, <1>4, <1>5, <1>6

\* A page gets other handles while everything they come from is open.
LEMMA HoldsKeeps ==
    ASSUME LInv, NEW p \in TablePages, NEW h \in SUBSET Handles, Holds(p, h), lpc = "up",
           h \cap {"vram", "pinned"} # {} => device = "open" /\ attached,
           uncounted' \subseteq TablePages,
           UNCHANGED <<lpc, flagVars, deviceVars, storeVars, sink, workers, lost, localVars>>
    PROVE  LInv'
<1> USE DEF LInv, Handles, Starting, TearingDown, Holds, flagVars, deviceVars, storeVars,
            localVars
<1>1. LShape'
  BY DEF LShape
<1>2. TableNames'
  BY DEF LShape, TableNames
<1>3. OpenedSoFar'
  BY DEF LShape, OpenedSoFar
<1>4. BackendOutlivesMemory'
  BY DEF LShape, TableNames, OpenedSoFar, BackendOutlivesMemory
<1>5. KeptIsNoted'
  BY DEF LShape, KeptIsNoted
<1>6. QuietSoFar'
  BY DEF LShape, QuietSoFar
<1> QED
  BY <1>1, <1>2, <1>3, <1>4, <1>5, <1>6

\* The movements of a page, the ones included that a failed call abandons.
LEMMA PageMovesKeeps ==
    ASSUME LInv, NEW p \in TablePages,
           PageMoves(p) \/ EvictionAbandoned(p) \/ PromotionAbandoned(p)
    PROVE  LInv'
<1>1. table[p] \in SUBSET Handles /\ uncounted \subseteq TablePages
  BY DEF LInv, LShape
<1>2. attached => device = "open"
  BY DEF LInv, OpenedSoFar
<1>3. CASE PageMoves(p)
  <2>1. PICK h \in {{}} \cup HandleSets :
           /\ h \cap {"vram", "pinned"} # {} => device = "open" /\ attached
           /\ UNCHANGED uncounted /\ Holds(p, h)
    BY <1>3, Zenon DEF PageMoves
  <2>2. h \in SUBSET Handles
    BY <2>1 DEF HandleSets, HostMemory, Handles
  <2>3. /\ lpc = "up"
        /\ UNCHANGED <<lpc, flagVars, deviceVars, storeVars, sink, workers, lost, localVars>>
    BY <1>3, Zenon DEF PageMoves
  <2> QED
    BY <1>1, <2>1, <2>2, <2>3, HoldsKeeps, Zenon
<1>4. CASE EvictionAbandoned(p)
  <2>1. PICK m \in HostMemory : UNCHANGED uncounted /\ Holds(p, table[p] \cup {m})
    BY <1>4, Zenon DEF EvictionAbandoned
  <2>2. table[p] \cup {m} \in SUBSET Handles
    BY <1>1, <2>1 DEF HostMemory, Handles
  <2>3. /\ lpc = "up" /\ attached
        /\ UNCHANGED <<lpc, flagVars, deviceVars, storeVars, sink, workers, lost, localVars>>
    BY <1>4, Zenon DEF EvictionAbandoned
  <2> QED
    BY <1>1, <1>2, <2>1, <2>2, <2>3, HoldsKeeps, Zenon
<1>5. CASE PromotionAbandoned(p)
  <2>1. Holds(p, table[p] \cup {"vram"}) /\ uncounted' \subseteq TablePages
    BY <1>1, <1>5, Zenon DEF PromotionAbandoned
  <2>2. table[p] \cup {"vram"} \in SUBSET Handles
    BY <1>1 DEF Handles
  <2>3. /\ lpc = "up" /\ attached
        /\ UNCHANGED <<lpc, flagVars, deviceVars, storeVars, sink, workers, lost, localVars>>
    BY <1>5, Zenon DEF PromotionAbandoned
  <2> QED
    BY <1>2, <2>1, <2>2, <2>3, HoldsKeeps, Zenon
<1> QED
  BY <1>3, <1>4, <1>5

\* A pinned buffer that no page names is lost while the device is open.
LEMMA BufferLostKeeps ==
    ASSUME LInv, BufferLost
    PROVE  LInv'
<1> USE DEF LInv, Handles, Starting, TearingDown, BufferLost, flagVars, deviceVars, storeVars,
            localVars
<1>1. LShape'
  BY DEF LShape
<1>2. TableNames'
  BY DEF TableNames
<1>3. OpenedSoFar'
  BY DEF OpenedSoFar
<1>4. BackendOutlivesMemory'
  BY DEF OpenedSoFar, BackendOutlivesMemory
<1>5. KeptIsNoted'
  BY DEF KeptIsNoted
<1>6. QuietSoFar'
  BY DEF QuietSoFar
<1> QED
  BY <1>1, <1>2, <1>3, <1>4, <1>5, <1>6

\* One page is visited: what cannot be released is noted and stays in the table.
LEMMA ReleaseKeeps ==
    ASSUME LInv, NEW p \in TablePages, ReleasePage(p)
    PROVE  LInv'
<1> USE DEF LInv, Step, Handles, Starting, TearingDown, ReleasePage, StaysInTable,
            KeepsDevice, KeepsStore, flagVars, deviceVars, storeVars, memoryVars, pageVars,
            localVars
<1> PICK f \in SUBSET table[p] :
       /\ live' = [live EXCEPT ![p] = f]
       /\ table' = [table EXCEPT ![p] = f]
       /\ inTable' = IF f # {} THEN inTable ELSE inTable \ {p}
       /\ deviceLive' = (deviceLive \/ KeepsDevice(f))
       /\ storeLive' = (storeLive \/ KeepsStore(f))
       /\ firstError' \in BOOLEAN /\ (~firstError' => ~firstError /\ f = {})
  BY DEF ReleasePage, StaysInTable
<1>1. LShape'
  BY DEF LShape
<1>2. TableNames'
  BY DEF LShape, TableNames
<1>3. OpenedSoFar'
  BY DEF LShape, OpenedSoFar
<1>4. BackendOutlivesMemory'
  BY DEF LShape, TableNames, BackendOutlivesMemory
<1>5. KeptIsNoted'
  <2>1. ASSUME NEW q \in TablePages \ left'
        PROVE  (KeepsDevice(live[q]) => deviceLive)' /\ (KeepsStore(live[q]) => storeLive)'
    <3>1. CASE q = p
      BY <3>1 DEF LShape
    <3>2. CASE q # p
      BY <3>2 DEF LShape, KeptIsNoted
    <3> QED
      BY <3>1, <3>2
  <2> QED
    BY <2>1 DEF KeptIsNoted
<1>6. QuietSoFar'
  BY ZenonT(60) DEF LShape, TableNames, QuietSoFar
<1> QED
  BY <1>1, <1>2, <1>3, <1>4, <1>5, <1>6

\* The store is closed when no extent is left in it.
LEMMA StoreKeeps ==
    ASSUME LInv, ShutdownStore
    PROVE  LInv'
<1> USE DEF LInv, Step, Handles, Starting, TearingDown, ShutdownStore, CloseStoreCalls,
            KeepsStore, KeepsDevice, flagVars, deviceVars, storeVars, memoryVars, pageVars,
            localVars
<1>1. LShape'
  BY ZenonT(60) DEF LShape
<1>2. TableNames'
  BY DEF LShape, TableNames
<1>3. OpenedSoFar'
  BY DEF LShape, OpenedSoFar
<1>4. BackendOutlivesMemory'
  BY DEF LShape, TableNames, OpenedSoFar, KeptIsNoted, BackendOutlivesMemory
<1>5. KeptIsNoted'
  BY DEF LShape, TableNames, KeptIsNoted
<1>6. QuietSoFar'
  BY DEF LShape, TableNames, OpenedSoFar, KeptIsNoted, QuietSoFar
<1> QED
  BY <1>1, <1>2, <1>3, <1>4, <1>5, <1>6

\* The device is closed when no memory of it is left.
LEMMA DeviceKeeps ==
    ASSUME LInv, ShutdownDevice
    PROVE  LInv'
<1> USE DEF LInv, Step, Handles, Starting, TearingDown, ShutdownDevice,
            CloseDeviceCalls, PinnedLive, KeepsStore, KeepsDevice, flagVars, deviceVars,
            storeVars, memoryVars, pageVars, localVars
<1>1. LShape'
  BY ZenonT(40) DEF LShape
<1>2. TableNames'
  BY DEF LShape, TableNames
<1>3. OpenedSoFar'
  BY DEF LShape, OpenedSoFar
<1>4. BackendOutlivesMemory'
  BY DEF LShape, TableNames, OpenedSoFar, KeptIsNoted, BackendOutlivesMemory
<1>5. KeptIsNoted'
  BY DEF LShape, TableNames, KeptIsNoted
<1>6. QuietSoFar'
  BY DEF LShape, TableNames, OpenedSoFar, KeptIsNoted, QuietSoFar
<1> QED
  BY <1>1, <1>2, <1>3, <1>4, <1>5, <1>6

\* The end of shutdown_locked.
LEMMA SinkKeeps ==
    ASSUME LInv, ShutdownSink
    PROVE  LInv'
<1> USE DEF LInv, Step, Handles, Starting, TearingDown, ShutdownSink, flagVars,
            deviceVars, storeVars, memoryVars, pageVars, localVars
<1>1. LShape'
  BY ZenonT(60) DEF LShape
<1>2. TableNames'
  BY DEF LShape, TableNames
<1>3. OpenedSoFar'
  BY DEF LShape, OpenedSoFar
<1>4. BackendOutlivesMemory'
  BY DEF LShape, TableNames, OpenedSoFar, KeptIsNoted, BackendOutlivesMemory
<1>5. KeptIsNoted'
  BY DEF LShape, TableNames, KeptIsNoted
<1>6. QuietSoFar'
  BY DEF LShape, TableNames, OpenedSoFar, KeptIsNoted, QuietSoFar
<1> QED
  BY <1>1, <1>2, <1>3, <1>4, <1>5, <1>6

-----------------------------------------------------------------------------
Holders(h) == {p \in TablePages : h \in live[p]}

\* The budgets count the pages that hold extents, and the pages that hold device
\* memory less at most those whose reservation was released ahead of it.
BudgetsCount ==
    /\ nvmeUsed = Cardinality(Holders("extent"))
    /\ vramUsed \in Nat /\ vramUsed <= Cardinality(Holders("vram"))
    /\ Cardinality(Holders("vram")) <= vramUsed + Cardinality(uncounted)

\* Sets of pages are finite.
LEMMA PagesCounted ==
    ASSUME NEW S \in SUBSET TablePages
    PROVE  IsFiniteSet(S) /\ Cardinality(S) \in Nat /\ Cardinality(S) <= Cardinality(TablePages)
BY LifecycleAssumption, FS_Subset, FS_CardinalityType, Zenon

\* The counts at a movement: U are the pages whose device memory is not counted.
LEMMA CountsWithout ==
    ASSUME NEW S \in SUBSET TablePages, NEW U \in SUBSET TablePages
    PROVE  /\ Cardinality({q \in S : q \notin U}) \in Nat
           /\ Cardinality({q \in S : q \notin U}) <= Cardinality(S)
           /\ Cardinality(S) <= Cardinality({q \in S : q \notin U}) + Cardinality(U)
<1> DEFINE D == {q \in S : q \notin U}
<1>1. D \in SUBSET TablePages /\ D \in SUBSET S /\ S \subseteq D \cup U
  OBVIOUS
<1>2. /\ IsFiniteSet(S) /\ IsFiniteSet(D) /\ IsFiniteSet(U)
      /\ Cardinality(S) \in Nat /\ Cardinality(D) \in Nat /\ Cardinality(U) \in Nat
  BY <1>1, PagesCounted, Zenon
<1>3. Cardinality(D) <= Cardinality(S)
  BY <1>1, <1>2, FS_Subset, Zenon
<1>4. /\ IsFiniteSet(D \cup U) /\ IsFiniteSet(D \cap U)
      /\ Cardinality(D \cup U) = Cardinality(D) + Cardinality(U) - Cardinality(D \cap U)
  BY <1>2, FS_Union, FS_Intersection, Zenon
<1>5. /\ Cardinality(S) <= Cardinality(D \cup U)
      /\ Cardinality(D \cap U) \in Nat /\ Cardinality(D \cup U) \in Nat
  BY <1>1, <1>4, FS_Subset, FS_CardinalityType, Zenon
<1> HIDE DEF D
<1>6. Cardinality(S) <= Cardinality(D) + Cardinality(U)
  BY <1>2, <1>4, <1>5, SMT
<1> QED
  BY <1>2, <1>3, <1>6 DEF D

\* Releasing all handles of p but f lowers the count of h if p gives h back.
LEMMA ReleaseCounts ==
    ASSUME LShape, TableNames, NEW h \in Handles, NEW p \in TablePages,
           NEW f \in SUBSET table[p], live' = [live EXCEPT ![p] = f]
    PROVE  Cardinality(Holders(h)') =
               Cardinality(Holders(h)) - Cardinality({h} \cap (table[p] \ f))
<1>1. IsFiniteSet(Holders(h))
  BY LifecycleAssumption, FS_Subset DEF Holders
<1>2. CASE h \in table[p] \ f
  <2>1. Holders(h)' = Holders(h) \ {p} /\ p \in Holders(h)
    BY <1>2 DEF LShape, TableNames, Holders
  <2>2. {h} \cap (table[p] \ f) = {h} /\ Cardinality({h}) = 1
    BY <1>2, FS_Singleton, SMTT(30)
  <2> QED
    BY <1>1, <2>1, <2>2, FS_RemoveElement, FS_CardinalityType, ZenonT(60)
<1>3. CASE h \notin table[p] \ f
  <2>1. Holders(h)' = Holders(h)
    BY <1>3 DEF LShape, TableNames, Holders
  <2>2. {h} \cap (table[p] \ f) = {} /\ Cardinality({}) = 0
    BY <1>3, FS_EmptySet
  <2> QED
    BY <1>1, <2>1, <2>2, FS_CardinalityType, SMTT(30)
<1> QED
  BY <1>2, <1>3

\* A movement reserves and releases by what is held.
LEMMA HoldsCounts ==
    ASSUME LShape, LShape', NEW p \in TablePages, NEW h, Holds(p, h)
    PROVE  BudgetsCount'
<1>1. Holders("vram")' \in SUBSET TablePages /\ uncounted' \in SUBSET TablePages
  BY Zenon DEF Holders, LShape
<1>2. {q \in TablePages : "vram" \in live'[q] /\ q \notin uncounted'} =
          {q \in Holders("vram")' : q \notin uncounted'}
  BY Zenon DEF Holders
<1>3. /\ nvmeUsed' = Cardinality(Holders("extent")')
      /\ vramUsed' = Cardinality({q \in Holders("vram")' : q \notin uncounted'})
  BY <1>2, Zenon DEF Holds, Holders
<1> QED
  BY <1>1, <1>3, CountsWithout, Zenon DEF BudgetsCount

\* Only a move and a release of a page, and a restart, change what the budgets count.
LEMMA BudgetsCountStep ==
    ASSUME LInv, LInv', BudgetsCount, [LNext]_lvars
    PROVE  BudgetsCount'
<1>1. CASE UNCHANGED <<live, vramUsed, nvmeUsed, uncounted>>
  BY <1>1 DEF BudgetsCount, Holders
<1>2. ASSUME NEW p \in TablePages,
             PageMoves(p) \/ EvictionAbandoned(p) \/ PromotionAbandoned(p)
      PROVE  BudgetsCount'
  <2>1. \E h : Holds(p, h)
    BY <1>2, Zenon DEF PageMoves, EvictionAbandoned, PromotionAbandoned
  <2> QED
    BY <2>1, HoldsCounts, Zenon DEF LInv
<1>3. ASSUME NEW p \in TablePages, ReleasePage(p)
      PROVE  BudgetsCount'
  <2>1. PICK f \in SUBSET table[p] :
           /\ live' = [live EXCEPT ![p] = f]
           /\ vramUsed' = BudgetAfter(vramUsed, Given("vram", p, f))
           /\ nvmeUsed' = BudgetAfter(nvmeUsed, Given("extent", p, f))
    BY <1>3, Zenon DEF ReleasePage
  <2>2. /\ Cardinality(Holders("vram")') = Cardinality(Holders("vram")) - Given("vram", p, f)
        /\ Cardinality(Holders("extent")') = Cardinality(Holders("extent")) - Given("extent", p, f)
    BY <2>1, ReleaseCounts DEF LInv, Handles, Given
  <2>3. uncounted' = uncounted /\ Cardinality(uncounted) \in Nat
    BY <1>3, PagesCounted, Zenon DEF ReleasePage, LInv, LShape
  <2>4. /\ Given("vram", p, f) \in Nat /\ Given("extent", p, f) \in Nat
        /\ Given("vram", p, f) <= 1
    <3>1. ASSUME NEW h
          PROVE  /\ Cardinality({h} \cap (table[p] \ f)) \in Nat
                 /\ Cardinality({h} \cap (table[p] \ f)) <= 1
      <4>1. /\ IsFiniteSet({h}) /\ Cardinality({h}) = 1
            /\ {h} \cap (table[p] \ f) \in SUBSET {h}
        BY FS_Singleton, Zenon
      <4> QED
        BY <4>1, FS_Subset, FS_CardinalityType, Zenon
    <3> QED
      BY <3>1, Zenon DEF Given
  <2>5. /\ Cardinality(Holders("vram")) \in Nat /\ Cardinality(Holders("vram")') \in Nat
        /\ Cardinality(Holders("extent")) \in Nat /\ Cardinality(Holders("extent")') \in Nat
    <3>1. /\ Holders("vram") \in SUBSET TablePages /\ Holders("vram")' \in SUBSET TablePages
          /\ Holders("extent") \in SUBSET TablePages /\ Holders("extent")' \in SUBSET TablePages
      BY Zenon DEF Holders
    <3> QED
      BY <3>1, PagesCounted, Zenon
  <2>6. PICK v, w, e, d, g, k, c :
           /\ v = Cardinality(Holders("vram")) /\ w = Cardinality(Holders("vram")')
           /\ e = Cardinality(Holders("extent")) /\ d = Cardinality(Holders("extent")')
           /\ g = Given("vram", p, f) /\ k = Given("extent", p, f) /\ c = Cardinality(uncounted)
    OBVIOUS
  <2>7. /\ v \in Nat /\ w \in Nat /\ e \in Nat /\ d \in Nat /\ g \in Nat /\ k \in Nat /\ c \in Nat
        /\ vramUsed \in Nat /\ vramUsed <= v /\ v <= vramUsed + c /\ nvmeUsed = e
        /\ w = v - g /\ d = e - k /\ g <= 1
        /\ vramUsed' = (IF g > vramUsed THEN vramUsed ELSE vramUsed - g)
        /\ nvmeUsed' = (IF k > nvmeUsed THEN nvmeUsed ELSE nvmeUsed - k)
    BY <2>1, <2>2, <2>3, <2>4, <2>5, <2>6, Zenon DEF BudgetsCount, BudgetAfter
  <2>8. nvmeUsed' = d /\ vramUsed' \in Nat /\ vramUsed' <= w /\ w <= vramUsed' + c
    BY <2>7, SMT
  <2> QED
    BY <2>3, <2>6, <2>8, Zenon DEF BudgetsCount
<1>4. CASE UNCHANGED lvars
  BY <1>1, <1>4, Zenon DEF lvars, pageVars, memoryVars
<1>5. CASE BufferLost
  BY <1>1, <1>5, Zenon DEF BufferLost
<1>6. CASE \/ CreateDevice \/ OpenDevice \/ CreateStream \/ SetLimits
           \/ CreateStore \/ OpenStore \/ OpenSink \/ StartWorkers \/ StartFails
           \/ Shutdown \/ ShutdownStore \/ ShutdownDevice \/ ShutdownSink
  <2>1. UNCHANGED pageVars
    BY <1>6, Zenon DEF CreateDevice, OpenDevice, CreateStream, SetLimits,
                       CreateStore, OpenStore, OpenSink, StartWorkers, StartFails,
                       Shutdown, Teardown, ShutdownStore, ShutdownDevice, ShutdownSink
  <2> QED
    BY <1>1, <2>1, Zenon DEF pageVars, memoryVars
<1>7. CASE Start
  <2>1. inTable = {} /\ UNCHANGED <<live, vramUsed, nvmeUsed>> /\ uncounted' = {}
    BY <1>7, Zenon DEF Start, AdmitRestart, memoryVars
  <2>2. Holders("vram") = {}
    BY <2>1, Zenon DEF LInv, TableNames, Holders
  <2>3. Holders("vram")' = Holders("vram") /\ Holders("extent")' = Holders("extent")
    BY <2>1, Zenon DEF Holders
  <2>4. Cardinality({}) = 0
    BY FS_EmptySet, Zenon
  <2>5. vramUsed = 0
    BY <2>2, <2>4, SMT DEF BudgetsCount
  <2> QED
    BY <2>1, <2>2, <2>3, <2>4, <2>5, SMT DEF BudgetsCount
<1> QED
  BY <1>2, <1>3, <1>4, <1>5, <1>6, <1>7, Zenon DEF LNext

\* Every step keeps the invariant.
LEMMA LInvStep == LInv /\ [LNext]_lvars => LInv'
<1> SUFFICES ASSUME LInv, [LNext]_lvars PROVE LInv'
  OBVIOUS
<1>1. CASE UNCHANGED lvars
  BY <1>1, SMTT(30) DEF lvars, flagVars, deviceVars, storeVars, memoryVars, pageVars, localVars,
              LInv, LShape,
              TableNames, OpenedSoFar, BackendOutlivesMemory, KeptIsNoted, QuietSoFar
<1>2. CASE \/ Start \/ CreateDevice \/ OpenDevice \/ CreateStream \/ SetLimits
           \/ CreateStore \/ OpenStore \/ OpenSink \/ StartWorkers
  BY <1>2, StartDeviceKeeps, StartStoreKeeps
<1>3. CASE StartFails \/ Shutdown \/ ShutdownStore \/ ShutdownDevice \/ ShutdownSink
  BY <1>3, TeardownKeeps, StoreKeeps, DeviceKeeps, SinkKeeps
<1>4. CASE \/ BufferLost
           \/ \E p \in TablePages : \/ PageMoves(p) \/ EvictionAbandoned(p)
                                   \/ PromotionAbandoned(p) \/ ReleasePage(p)
  BY <1>4, BufferLostKeeps, PageMovesKeeps, ReleaseKeeps
<1> QED
  BY <1>1, <1>2, <1>3, <1>4, Zenon DEF LNext

\* So it always holds, and the budgets always count what is held.
LEMMA LInvAlways == LSpec => [](LInv /\ BudgetsCount)
<1>1. LInit => BudgetsCount
  <2> SUFFICES ASSUME LInit PROVE BudgetsCount
    OBVIOUS
  <2>1. Holders("vram") = {} /\ Holders("extent") = {}
    BY DEF LInit, Holders
  <2>2. Cardinality({}) = 0 /\ uncounted = {} /\ vramUsed = 0 /\ nvmeUsed = 0
    BY FS_EmptySet DEF LInit
  <2> QED
    BY <2>1, <2>2, SMT DEF BudgetsCount
<1> QED
  BY <1>1, LInvInit, LInvStep, BudgetsCountStep, PTL DEF LSpec

-----------------------------------------------------------------------------
\* However many calls fail in start() and in any number of shutdowns, the device
\* stays open while its memory is live and the store while an extent is.
THEOREM BackendsOutliveMemory == LSpec => []BackendOutlivesMemory
  BY LInvAlways, PTL DEF LInv

\* Whatever failed before, in a movement or in a shutdown, the entry of a page names
\* what it holds, the NVMe budget counts the extents held, and the device budget
\* falls short of the device memory held by at most the pages whose reservation a
\* failed promotion released ahead of it.
THEOREM TeardownForgetsNothing == LSpec => []NothingForgotten
<1>1. LInv /\ BudgetsCount => NothingForgotten
  BY Zenon DEF LInv, TableNames, BudgetsCount, Holders, NothingForgotten
<1> QED
  BY <1>1, LInvAlways, PTL

\* A shutdown() that returns without an error has released everything, and a
\* start() that is admitted finds nothing that an earlier run left.
THEOREM ReleasedIsReleased == LSpec => []ReleasedWhenSaid
<1>1. LInv /\ lpc = "device" => RestReleased /\ DeviceReleased /\ lost = 0
  BY DEF LInv, LShape, TableNames, OpenedSoFar, BackendOutlivesMemory, RestReleased,
         DeviceReleased, Starting, TearingDown
<1>2. LInv /\ lpc = "down" /\ ~firstError => RestReleased /\ DeviceReleased /\ lost = 0
  BY DEF LInv, LShape, TableNames, OpenedSoFar, BackendOutlivesMemory, QuietSoFar,
         RestReleased, DeviceReleased, TearingDown
<1> QED
  BY <1>1, <1>2, LInvAlways, PTL DEF ReleasedWhenSaid

\* The flags of the runtime, and the failures counted so far; a lost buffer is one.
LRest ==
    /\ running \in BOOLEAN /\ stopping \in BOOLEAN
    /\ lost \in Nat /\ failures \in lost .. MaxFailures

\* A page has at most these four handles.
LEMMA HandlesFinite == IsFiniteSet(Handles)
<1>1. IsFiniteSet({"pageable"})
  BY FS_Singleton, Zenon
<1>2. IsFiniteSet({"pageable"} \cup {"pinned"})
  BY <1>1, FS_AddElement, Zenon
<1>3. IsFiniteSet(({"pageable"} \cup {"pinned"}) \cup {"vram"})
  BY <1>2, FS_AddElement, Zenon
<1>4. IsFiniteSet((({"pageable"} \cup {"pinned"}) \cup {"vram"}) \cup {"extent"})
  BY <1>3, FS_AddElement, Zenon
<1>5. Handles = (({"pageable"} \cup {"pinned"}) \cup {"vram"}) \cup {"extent"}
  BY Zenon DEF Handles
<1> QED
  BY <1>4, <1>5, Zenon

\* The failures stay within their bound.
LEMMA FailCounts ==
    ASSUME LRest, NEW n \in Nat, Fail(n)
    PROVE  failures' \in lost .. MaxFailures
BY LifecycleAssumption, SMT DEF LRest, Fail

\* Every step of start() and shutdown() keeps them so.
LEMMA LRestStep == LInv /\ LRest /\ [LNext]_lvars => LRest'
<1> SUFFICES ASSUME LInv, LRest, [LNext]_lvars PROVE LRest'
  OBVIOUS
<1> USE DEF Step
<1>0. 0 \in Nat /\ 1 \in Nat /\ TRUE \in BOOLEAN /\ FALSE \in BOOLEAN
  OBVIOUS
<1>1. CASE UNCHANGED lvars
  BY <1>1, Zenon DEF lvars, flagVars, pageVars, memoryVars, LRest
<1>2. CASE \/ Start \/ CreateDevice \/ OpenDevice \/ CreateStream \/ SetLimits
           \/ CreateStore \/ OpenStore \/ OpenSink \/ StartWorkers
  BY <1>0, <1>2, Zenon DEF Start, CreateDevice, OpenDevice, CreateStream, SetLimits,
     CreateStore, OpenStore, OpenSink, StartWorkers, flagVars, pageVars, memoryVars, LRest
<1>3. CASE StartFails \/ Shutdown
  BY <1>0, <1>3, FailCounts, Zenon DEF StartFails, Shutdown, Teardown, pageVars, memoryVars, LRest
<1>4. CASE ShutdownStore
  BY <1>0, <1>4, FailCounts, Zenon DEF ShutdownStore, CloseStoreCalls, flagVars,
     pageVars, memoryVars, LRest
<1>5. CASE ShutdownDevice
  <2>1. failures' = failures \/ \E n \in Nat : Fail(n)
    <3>1. (IF attached' THEN 0 ELSE 1) \in Nat
      BY <1>0, ZenonT(40)
    <3> QED
      BY <1>0, <1>5, <3>1, Zenon DEF ShutdownDevice, CloseDeviceCalls
  <2> QED
    BY <1>5, <2>1, FailCounts, Zenon DEF ShutdownDevice, flagVars, pageVars, memoryVars, LRest
<1>6. CASE ShutdownSink
  BY <1>0, <1>6, FailCounts, Zenon DEF ShutdownSink, flagVars, pageVars, memoryVars, LRest
<1>7. ASSUME NEW p \in TablePages,
             \/ PageMoves(p) \/ EvictionAbandoned(p) \/ PromotionAbandoned(p)
             \/ ReleasePage(p)
      PROVE  LRest'
  <2>1. CASE PageMoves(p)
    BY <2>1, Zenon DEF PageMoves, flagVars, LRest
  <2>3. CASE EvictionAbandoned(p) \/ PromotionAbandoned(p)
    BY <1>0, <2>3, FailCounts, Zenon DEF EvictionAbandoned, PromotionAbandoned, flagVars, LRest
  <2>2. CASE ReleasePage(p)
    <3>1. PICK f \in SUBSET table[p] : Fail(Cardinality(f))
      BY <2>2, Zenon DEF ReleasePage
    <3>2. f \subseteq Handles
      BY <3>1, Zenon DEF LInv, LShape
    <3>3. Cardinality(f) \in Nat
      BY <3>2, HandlesFinite, FS_Subset, FS_CardinalityType, Zenon
    <3> QED
      BY <2>2, <3>1, <3>3, FailCounts, Zenon DEF ReleasePage, flagVars, pageVars, memoryVars, LRest
  <2> QED
    BY <1>7, <2>1, <2>2, <2>3, Zenon
<1>8. CASE BufferLost
  <2>1. running' = running /\ stopping' = stopping
    BY <1>8, Zenon DEF BufferLost, flagVars
  <2>2. lost' \in Nat /\ failures' \in lost' .. MaxFailures
    BY <1>8, LifecycleAssumption, SMT DEF BufferLost, Fail, LRest
  <2> QED
    BY <2>1, <2>2, Zenon DEF LRest
<1> QED
  BY <1>1, <1>2, <1>3, <1>4, <1>5, <1>6, <1>7, <1>8, Zenon DEF LNext

\* However often start() and shutdown() fail, the budgets of the tiers neither
\* underflow nor count more than one page for each page of the table, and the
\* runtime keeps its variables within their types.
THEOREM TeardownTypes == LSpec => []LTypeOK
<1>1. LInit => LRest
  <2>1. 0 \in 0 .. MaxFailures /\ 0 \in Nat
    BY LifecycleAssumption, SMT
  <2> QED
    BY <2>1, Zenon DEF LInit, LRest
<1>2. LInv /\ BudgetsCount /\ LRest => LTypeOK
  <2> SUFFICES ASSUME LInv, BudgetsCount, LRest PROVE LTypeOK
    OBVIOUS
  <2>1. ASSUME NEW h PROVE Cardinality(Holders(h)) \in 0 .. Cardinality(TablePages)
    <3>1. Holders(h) \subseteq TablePages
      BY Zenon DEF Holders
    <3>2. /\ Cardinality(Holders(h)) <= Cardinality(TablePages)
          /\ Cardinality(Holders(h)) \in Nat /\ Cardinality(TablePages) \in Nat
      BY <3>1, LifecycleAssumption, FS_Subset, FS_CardinalityType, Zenon
    <3> QED
      BY <3>2, SMT
  <2>2. /\ vramUsed \in 0 .. Cardinality(TablePages)
        /\ nvmeUsed \in 0 .. Cardinality(TablePages)
    <3>1. PICK v, n : v = Cardinality(Holders("vram")) /\ n = Cardinality(TablePages)
      OBVIOUS
    <3>2. v \in 0 .. n /\ n \in Nat /\ vramUsed \in Nat /\ vramUsed <= v
      BY <2>1, <3>1, LifecycleAssumption, FS_CardinalityType, Zenon DEF BudgetsCount
    <3>3. vramUsed \in 0 .. n
      BY <3>2, SMT
    <3> QED
      BY <2>1, <3>1, <3>3, Zenon DEF BudgetsCount
  <2>5. lost \in 0 .. MaxFailures /\ failures \in 0 .. MaxFailures
    BY LifecycleAssumption, SMT DEF LRest
  <2>3. /\ {running, stopping, stream, attached, storeOpened, sink, workers} \subseteq BOOLEAN
        /\ {deviceLive, storeLive, firstError} \subseteq BOOLEAN
        /\ {device, nvme} \subseteq {"none", "created", "open"}
    BY ZenonT(30) DEF LInv, LShape, LRest
  <2>4. lpc \in Starting \cup {"down", "up", "release", "closedevice", "closesink"}
    BY ZenonT(30) DEF LInv, LShape, TearingDown
  <2> QED
    BY <2>2, <2>3, <2>4, <2>5, Zenon DEF LInv, LShape, LRest, LTypeOK, Handles
<1> QED
  BY <1>1, <1>2, LInvAlways, LRestStep, PTL DEF LSpec

-----------------------------------------------------------------------------
(* The store file.                                                         *)

\* A process at one of these labels has locked the file that it has open.
Using == {"check", "truncate", "header", "fsync", "open", "unlink"}

\* At these labels it has the file open.
Holding == Using \cup {"locknew", "lockold", "dlock"}

FileShape ==
    /\ FileTypeOK
    /\ host \in {"posix", "windows"} /\ auto \in BOOLEAN /\ retain \in BOOLEAN
    /\ after \in [Processes -> {"idle", "create"}]

LocksHeld == \A p \in Processes : fpc[p] \in Using => lockedBy[fd[p]] = p

LocksOwned == \A i \in Inodes : lockedBy[i] # NoProcess => fd[lockedBy[i]] = i

DescriptorsHeld == \A p \in Processes : fd[p] # NoInode <=> fpc[p] \in Holding

ContentWritten ==
    \A p \in Processes :
        /\ fpc[p] \in {"header", "fsync", "open"} => sized[fd[p]]
        /\ fpc[p] \in {"fsync", "open"} => header[fd[p]] = geom[p]

OneAtATime ==
    auto => \A p, q \in Processes : p # q => fpc[p] = "idle" \/ fpc[q] = "idle"

Linked == auto \/ host = "windows" => \A p \in Processes : fd[p] # NoInode => path = fd[p]

WindowsLabels ==
    host = "windows" =>
        \A p \in Processes : fpc[p] \notin {"locknew", "lockold", "dlock", "unlink"}

LeftoverFits ==
    auto /\ ~retain => \A p \in Processes :
        /\ fpc[p] = "create" /\ path # NoInode => FileValid(path, geom[p])
        /\ fpc[p] \in {"reopen", "lockold", "check"} =>
               path # NoInode /\ FileValid(path, geom[p])

FileInv ==
    /\ FileShape /\ LocksHeld /\ LocksOwned /\ DescriptorsHeld /\ ContentWritten
    /\ OneAtATime /\ Linked /\ WindowsLabels /\ LeftoverFits

-----------------------------------------------------------------------------
\* NoInode is no inode: what a process has open tells whether it has a file.
LEMMA InodesArePositive == NoInode \notin Inodes
<1>1. Cardinality(Processes) \in Nat
  BY FileAssumption, FS_CardinalityType
<1> QED
  BY <1>1 DEF NoInode, Inodes

\* The start of the system: nobody has the file.
LEMMA FileInvInit == FInit => FileInv
<1> SUFFICES ASSUME FInit PROVE FileInv
  OBVIOUS
<1>1. FileShape
  BY DEF FInit, FileShape, FileTypeOK
<1>2. LocksHeld /\ LocksOwned /\ DescriptorsHeld /\ ContentWritten
  BY DEF FInit, LocksHeld, LocksOwned, DescriptorsHeld, ContentWritten, Using, Holding
<1>3. OneAtATime /\ Linked /\ WindowsLabels /\ LeftoverFits
  BY DEF FInit, OneAtATime, Linked, WindowsLabels, LeftoverFits
<1> QED
  BY <1>1, <1>2, <1>3 DEF FileInv

\* What CloseFd does, whatever the path names afterwards.
Closes(p) ==
    /\ path' \in {path, NoInode} /\ fd' = [fd EXCEPT ![p] = NoInode]
    /\ lockedBy' = [i \in Inodes |-> IF lockedBy[i] = p THEN NoProcess ELSE lockedBy[i]]
    /\ Reclaim

\* A step of p that ends with close(fd): what the other processes rely on is
\* kept, because Reclaim spares every file that is still referred to.
LEMMA CloseKeeps ==
    ASSUME FileInv, NEW p \in Processes, NEW to \in {"idle", "create", "destroy"},
           fpc[p] # "idle", Closes(p), FGoto(p, to), UNCHANGED <<geom, configVars>>,
           after' \in [Processes -> {"idle", "create"}],
           path' = path \/ fpc[p] = "unlink", to = "create" => path' = NoInode
    PROVE  FileInv'
<1> USE InodesArePositive
<1> USE DEF Closes, FGoto, configVars
<1>1. FileShape'
  BY DEF FileInv, FileShape, FileTypeOK, Reclaim, Referenced
<1>2. LocksHeld' /\ LocksOwned' /\ DescriptorsHeld'
  BY SMTT(30) DEF FileInv, FileShape, FileTypeOK, LocksHeld, LocksOwned, DescriptorsHeld, Using,
         Holding
<1>3. \A q \in Processes \ {p} : fd[q] # NoInode =>
         header'[fd[q]] = header[fd[q]] /\ sized'[fd[q]] = sized[fd[q]]
  BY DEF FileInv, FileShape, FileTypeOK, Reclaim, Referenced
<1>4. ContentWritten'
  <2>1. /\ fpc'[p] = to /\ geom' = geom
        /\ \A q \in Processes \ {p} : fpc'[q] = fpc[q] /\ fd'[q] = fd[q]
    BY DEF FileInv, FileShape, FileTypeOK
  <2>2. \A q \in Processes : fpc[q] \in {"header", "fsync", "open"} => fd[q] # NoInode
    BY DEF FileInv, DescriptorsHeld, Using, Holding
  <2>3. to \notin {"header", "fsync", "open"}
    OBVIOUS
  <2>4. ContentWritten
    BY DEF FileInv
  <2> HIDE DEF Closes, FGoto, configVars
  <2>5. ASSUME NEW q \in Processes
        PROVE  /\ fpc'[q] \in {"header", "fsync", "open"} => sized'[fd'[q]]
               /\ fpc'[q] \in {"fsync", "open"} => header'[fd'[q]] = geom'[q]
    <3>1. CASE q = p
      BY <2>1, <2>3, <3>1, ZenonT(40)
    <3>2. CASE q # p
      <4>1. fpc'[q] = fpc[q] /\ fd'[q] = fd[q] /\ geom'[q] = geom[q]
        BY <2>1, <3>2, ZenonT(40)
      <4>2. fd[q] # NoInode =>
               header'[fd[q]] = header[fd[q]] /\ sized'[fd[q]] = sized[fd[q]]
        BY <1>3, <3>2, ZenonT(40)
      <4>3. /\ fpc[q] \in {"header", "fsync", "open"} => sized[fd[q]]
            /\ fpc[q] \in {"fsync", "open"} => header[fd[q]] = geom[q]
        BY <2>4, ZenonT(40) DEF ContentWritten
      <4> QED
        BY <2>2, <4>1, <4>2, <4>3, ZenonT(40)
    <3> QED
      BY <3>1, <3>2, Zenon
  <2> QED
    BY <2>5, Zenon DEF ContentWritten
<1>5. OneAtATime' /\ WindowsLabels'
  BY SMTT(30) DEF FileInv, FileShape, FileTypeOK, OneAtATime, WindowsLabels
<1>6. Linked'
  BY DEF FileInv, FileShape, FileTypeOK, OneAtATime, WindowsLabels, Linked,
         DescriptorsHeld, Using, Holding
<1>7. LeftoverFits'
  BY SMTT(30) DEF FileInv, FileShape, FileTypeOK, OneAtATime, LeftoverFits
<1> QED
  BY <1>1, <1>2, <1>4, <1>5, <1>6, <1>7 DEF FileInv

\* Runtime::start begins: either the leftover is about to be deleted or open() follows.
LEMMA BeginKeeps ==
    ASSUME FileInv, NEW p \in Processes, Begin(p)
    PROVE  FileInv'
<1> USE InodesArePositive, FileAssumption
<1> USE DEF FileInv, FileShape, FileTypeOK, Begin, FGoto, configVars, fileVars,
            StoreHeaderValid
<1>1. FileShape'
  BY SMTT(30)
<1>2. LocksHeld' /\ LocksOwned' /\ DescriptorsHeld'
  BY SMTT(30) DEF LocksHeld, LocksOwned, DescriptorsHeld, Using, Holding
<1>3. ContentWritten'
  BY SMTT(30) DEF ContentWritten, FileValid, HeaderValid, LocksHeld, LocksOwned, DescriptorsHeld,
         Using, Holding
<1>4. OneAtATime' /\ WindowsLabels'
  BY SMTT(30) DEF OneAtATime, WindowsLabels
<1>5. Linked'
  BY DEF Linked, OneAtATime, WindowsLabels, DescriptorsHeld, LocksHeld, Using, Holding
<1>6. LeftoverFits'
  BY SMTT(30) DEF LeftoverFits, OneAtATime, FileValid, HeaderValid, Linked, DescriptorsHeld,
         Using, Holding
<1> QED
  BY <1>1, <1>2, <1>3, <1>4, <1>5, <1>6 DEF FileInv

\* destroy_file opens the file that it is going to lock.
LEMMA DestroyOpenKeeps ==
    ASSUME FileInv, NEW p \in Processes, DestroyOpen(p)
    PROVE  FileInv'
<1> USE InodesArePositive, FileAssumption
<1> USE DEF FileInv, FileShape, FileTypeOK, DestroyOpen, FGoto, configVars, fileVars
<1>1. FileShape'
  BY SMTT(30)
<1>2. LocksHeld' /\ LocksOwned' /\ DescriptorsHeld'
  BY SMTT(30) DEF LocksHeld, LocksOwned, DescriptorsHeld, Using, Holding
<1>3. ContentWritten'
  BY SMTT(30) DEF ContentWritten, FileValid, HeaderValid, LocksHeld, LocksOwned, DescriptorsHeld,
         Using, Holding
<1>4. OneAtATime' /\ WindowsLabels'
  BY SMTT(30) DEF OneAtATime, WindowsLabels
<1>5. Linked'
  BY SMTT(30) DEF Linked, OneAtATime, WindowsLabels, DescriptorsHeld, LocksHeld, Using, Holding
<1>6. LeftoverFits'
  BY SMTT(30) DEF LeftoverFits, OneAtATime, FileValid, HeaderValid, Linked, DescriptorsHeld,
         Using, Holding
<1> QED
  BY <1>1, <1>2, <1>3, <1>4, <1>5, <1>6 DEF FileInv

\* open() opens the existing file, before the lock.
LEMMA ReopenKeeps ==
    ASSUME FileInv, NEW p \in Processes, Reopen(p)
    PROVE  FileInv'
<1> USE InodesArePositive, FileAssumption
<1> USE DEF FileInv, FileShape, FileTypeOK, Reopen, FGoto, configVars, fileVars
<1>1. FileShape'
  BY SMTT(30)
<1>2. LocksHeld' /\ LocksOwned' /\ DescriptorsHeld'
  BY SMTT(30) DEF LocksHeld, LocksOwned, DescriptorsHeld, Using, Holding
<1>3. ContentWritten'
  BY SMTT(30) DEF ContentWritten, FileValid, HeaderValid, LocksHeld, LocksOwned, DescriptorsHeld,
         Using, Holding
<1>4. OneAtATime' /\ WindowsLabels'
  BY SMTT(30) DEF OneAtATime, WindowsLabels
<1>5. Linked'
  BY SMTT(30) DEF Linked, OneAtATime, WindowsLabels, DescriptorsHeld, LocksHeld, Using, Holding
<1>6. LeftoverFits'
  BY SMTT(30) DEF LeftoverFits, OneAtATime, FileValid, HeaderValid, Linked, DescriptorsHeld,
         Using, Holding
<1> QED
  BY <1>1, <1>2, <1>3, <1>4, <1>5, <1>6 DEF FileInv

\* On Windows opening it is the lock.
LEMMA ReopenWindowsKeeps ==
    ASSUME FileInv, NEW p \in Processes, ReopenWindows(p)
    PROVE  FileInv'
<1> USE InodesArePositive, FileAssumption
<1> USE DEF FileInv, FileShape, FileTypeOK, ReopenWindows, FGoto, configVars, fileVars,
            LockedFiles
<1>1. FileShape'
  BY SMTT(30)
<1>2. LocksHeld' /\ LocksOwned' /\ DescriptorsHeld'
  BY SMTT(30) DEF LocksHeld, LocksOwned, DescriptorsHeld, Using, Holding
<1>3. ContentWritten'
  BY SMTT(30) DEF ContentWritten, FileValid, HeaderValid, LocksHeld, LocksOwned, DescriptorsHeld,
         Using, Holding
<1>4. OneAtATime' /\ WindowsLabels'
  BY SMTT(30) DEF OneAtATime, WindowsLabels
<1>5. Linked'
  BY SMTT(30) DEF Linked, OneAtATime, WindowsLabels, DescriptorsHeld, LocksHeld, Using, Holding
<1>6. LeftoverFits'
  BY SMTT(30) DEF LeftoverFits, OneAtATime, FileValid, HeaderValid, Linked, DescriptorsHeld,
         Using, Holding
<1> QED
  BY <1>1, <1>2, <1>3, <1>4, <1>5, <1>6 DEF FileInv

\* A step of p that writes no file and takes p to none of the labels at which its own
\* file is written leaves what the others wrote.
LEMMA ContentKept ==
    ASSUME ContentWritten, NEW p \in Processes,
           header' = header, sized' = sized, geom' = geom,
           \A q \in Processes \ {p} : fpc'[q] = fpc[q] /\ fd'[q] = fd[q],
           fpc'[p] \notin {"header", "fsync", "open"}
    PROVE  ContentWritten'
<1>1. ASSUME NEW q \in Processes
      PROVE  /\ fpc'[q] \in {"header", "fsync", "open"} => sized'[fd'[q]]
             /\ fpc'[q] \in {"fsync", "open"} => header'[fd'[q]] = geom'[q]
  <2>1. CASE q = p
    BY <2>1, ZenonT(40)
  <2>2. CASE q # p
    <3>1. fpc'[q] = fpc[q] /\ fd'[q] = fd[q]
      BY <2>2, ZenonT(40)
    <3>2. /\ fpc[q] \in {"header", "fsync", "open"} => sized[fd[q]]
          /\ fpc[q] \in {"fsync", "open"} => header[fd[q]] = geom[q]
      BY ZenonT(40) DEF ContentWritten
    <3> QED
      BY <3>1, <3>2, ZenonT(40)
  <2> QED
    BY <2>1, <2>2, Zenon
<1> QED
  BY <1>1, Zenon DEF ContentWritten

\* A new inode is nobody else's.
LEMMA CreateKeeps ==
    ASSUME FileInv, NEW p \in Processes, Create(p)
    PROVE  FileInv'
<1> USE InodesArePositive, FileAssumption
<1> USE DEF FileInv, FileShape, FileTypeOK, Create, FGoto, configVars, fileVars,
            CreateFile, Referenced
<1>1. FileShape'
  BY SMTT(30)
<1>2. LocksHeld' /\ LocksOwned' /\ DescriptorsHeld'
  BY SMTT(30) DEF LocksHeld, LocksOwned, DescriptorsHeld, Using, Holding
<1>3. ContentWritten'
  <2>1. /\ header' = header /\ sized' = sized /\ geom' = geom
        /\ \A q \in Processes \ {p} : fpc'[q] = fpc[q] /\ fd'[q] = fd[q]
    BY SMTT(30)
  <2>2. fpc'[p] \notin {"header", "fsync", "open"}
    BY SMTT(30)
  <2> QED
    BY <2>1, <2>2, ContentKept, Zenon
<1>4. OneAtATime' /\ WindowsLabels'
  BY DEF OneAtATime, WindowsLabels
<1>5. Linked'
  BY SMTT(30) DEF Linked, OneAtATime, WindowsLabels, DescriptorsHeld, LocksHeld, Using, Holding
<1>6. LeftoverFits'
  BY SMTT(30) DEF LeftoverFits, OneAtATime, FileValid, HeaderValid, Linked, DescriptorsHeld,
         Using, Holding
<1> QED
  BY <1>1, <1>2, <1>3, <1>4, <1>5, <1>6 DEF FileInv

\* On Windows it is locked as well.
LEMMA CreateWindowsKeeps ==
    ASSUME FileInv, NEW p \in Processes, CreateWindows(p)
    PROVE  FileInv'
<1> USE InodesArePositive, FileAssumption
<1> USE DEF FileInv, FileShape, FileTypeOK, CreateWindows, FGoto, configVars, fileVars,
            CreateFile, Referenced
<1>1. FileShape'
  BY SMTT(30)
<1>2. LocksHeld' /\ LocksOwned' /\ DescriptorsHeld'
  BY SMTT(30) DEF LocksHeld, LocksOwned, DescriptorsHeld, Using, Holding
<1>3. ContentWritten'
  <2>1. /\ header' = header /\ sized' = sized /\ geom' = geom
        /\ \A q \in Processes \ {p} : fpc'[q] = fpc[q] /\ fd'[q] = fd[q]
    BY SMTT(30)
  <2>2. fpc'[p] \notin {"header", "fsync", "open"}
    BY SMTT(30)
  <2> QED
    BY <2>1, <2>2, ContentKept, Zenon
<1>4. OneAtATime' /\ WindowsLabels'
  BY DEF OneAtATime, WindowsLabels
<1>5. Linked'
  BY SMTT(30) DEF Linked, OneAtATime, WindowsLabels, DescriptorsHeld, LocksHeld, Using, Holding
<1>6. LeftoverFits'
  BY SMTT(30) DEF LeftoverFits, OneAtATime, FileValid, HeaderValid, Linked, DescriptorsHeld,
         Using, Holding
<1> QED
  BY <1>1, <1>2, <1>3, <1>4, <1>5, <1>6 DEF FileInv

\* DeleteFileW removes a file that nobody has open.
LEMMA DestroyWindowsKeeps ==
    ASSUME FileInv, NEW p \in Processes, DestroyWindows(p)
    PROVE  FileInv'
<1> USE InodesArePositive, FileAssumption
<1> USE DEF FileInv, FileShape, FileTypeOK, DestroyWindows, FGoto, configVars, fileVars,
            LockedFiles, Reclaim, Referenced
<1>1. FileShape'
  <2>1. CASE path \notin LockedFiles /\ FGoto(p, after[p]) /\ path' = NoInode /\ Reclaim
    <3>1. header' \in [Inodes -> {"none", "torn"} \cup Geometries]
          /\ sized' \in [Inodes -> BOOLEAN] /\ synced' \subseteq Inodes
      BY <2>1
    <3> QED
      BY <2>1, <3>1
  <2>2. CASE path # NoInode /\ FGoto(p, "idle") /\ UNCHANGED fileVars
    BY <2>2
  <2> QED
    BY <2>1, <2>2
<1>2. LocksHeld' /\ LocksOwned' /\ DescriptorsHeld'
  BY SMTT(30) DEF LocksHeld, LocksOwned, DescriptorsHeld, Using, Holding
<1>3. ContentWritten'
  BY SMTT(30) DEF ContentWritten, FileValid, HeaderValid, LocksHeld, LocksOwned, DescriptorsHeld,
         Using, Holding
<1>4. OneAtATime' /\ WindowsLabels'
  BY SMTT(30) DEF OneAtATime, WindowsLabels
<1>5. Linked'
  BY SMTT(30) DEF Linked, OneAtATime, WindowsLabels, DescriptorsHeld, LocksHeld, Using, Holding
<1>6. LeftoverFits'
  BY SMTT(30) DEF LeftoverFits, OneAtATime, FileValid, HeaderValid, Linked, DescriptorsHeld,
         Using, Holding
<1> QED
  BY <1>1, <1>2, <1>3, <1>4, <1>5, <1>6 DEF FileInv

\* The creator alone writes the file: its size,
LEMMA TruncateKeeps ==
    ASSUME FileInv, NEW p \in Processes, Truncate(p)
    PROVE  FileInv'
<1> USE InodesArePositive, FileAssumption
<1> USE DEF FileInv, FileShape, FileTypeOK, Truncate, FGoto, configVars, fileVars
<1>1. FileShape'
  OBVIOUS
<1>2. LocksHeld' /\ LocksOwned' /\ DescriptorsHeld'
  BY SMTT(30) DEF LocksHeld, LocksOwned, DescriptorsHeld, Using, Holding
<1>3. ContentWritten'
  BY SMTT(30) DEF ContentWritten, FileValid, HeaderValid, LocksHeld, LocksOwned, DescriptorsHeld,
         Using, Holding
<1>4. OneAtATime' /\ WindowsLabels'
  BY SMTT(30) DEF OneAtATime, WindowsLabels
<1>5. Linked'
  BY DEF Linked, OneAtATime, WindowsLabels, DescriptorsHeld, LocksHeld, Using, Holding
<1>6. LeftoverFits'
  BY SMTT(30) DEF LeftoverFits, OneAtATime, FileValid, HeaderValid, Linked, DescriptorsHeld,
         Using, Holding
<1> QED
  BY <1>1, <1>2, <1>3, <1>4, <1>5, <1>6 DEF FileInv

\* its header,
LEMMA WriteHeaderKeeps ==
    ASSUME FileInv, NEW p \in Processes, WriteHeader(p)
    PROVE  FileInv'
<1> USE InodesArePositive, FileAssumption
<1> USE DEF FileInv, FileShape, FileTypeOK, WriteHeader, FGoto, configVars, fileVars
<1>1. FileShape'
  BY SMTT(30)
<1>2. LocksHeld' /\ LocksOwned' /\ DescriptorsHeld'
  BY SMTT(30) DEF LocksHeld, LocksOwned, DescriptorsHeld, Using, Holding
<1>3. ContentWritten'
  BY SMTT(30) DEF ContentWritten, FileValid, HeaderValid, LocksHeld, LocksOwned, DescriptorsHeld,
         Using, Holding
<1>4. OneAtATime' /\ WindowsLabels'
  BY SMTT(30) DEF OneAtATime, WindowsLabels
<1>5. Linked'
  BY DEF Linked, OneAtATime, WindowsLabels, DescriptorsHeld, LocksHeld, Using, Holding
<1>6. LeftoverFits'
  BY SMTT(30) DEF LeftoverFits, OneAtATime, FileValid, HeaderValid, Linked, DescriptorsHeld,
         Using, Holding
<1> QED
  BY <1>1, <1>2, <1>3, <1>4, <1>5, <1>6 DEF FileInv

\* and its state on the medium.
LEMMA SyncKeeps ==
    ASSUME FileInv, NEW p \in Processes, Sync(p)
    PROVE  FileInv'
<1> USE InodesArePositive, FileAssumption
<1> USE DEF FileInv, FileShape, FileTypeOK, Sync, FGoto, configVars, fileVars
<1>1. FileShape'
  <2>1. fd[p] \in Inodes
    BY DEF DescriptorsHeld, Holding, Using
  <2> QED
    BY <2>1
<1>2. LocksHeld' /\ LocksOwned' /\ DescriptorsHeld'
  BY DEF LocksHeld, LocksOwned, DescriptorsHeld, Using, Holding
<1>3. ContentWritten'
  BY SMTT(30) DEF ContentWritten, FileValid, HeaderValid, LocksHeld, LocksOwned, DescriptorsHeld,
         Using, Holding
<1>4. OneAtATime' /\ WindowsLabels'
  BY SMTT(30) DEF OneAtATime, WindowsLabels
<1>5. Linked'
  BY DEF Linked, OneAtATime, WindowsLabels, DescriptorsHeld, LocksHeld, Using, Holding
<1>6. LeftoverFits'
  BY SMTT(30) DEF LeftoverFits, OneAtATime, FileValid, HeaderValid, Linked, DescriptorsHeld,
         Using, Holding
<1> QED
  BY <1>1, <1>2, <1>3, <1>4, <1>5, <1>6 DEF FileInv

\* A lock that is given to p was free, and p has that file open.
LEMMA TakeLock ==
    ASSUME FileInv, NEW p \in Processes, NEW to \in {"unlink", "truncate", "check"},
           fpc[p] \in {"dlock", "locknew", "lockold"}, lockedBy[fd[p]] = NoProcess,
           to = "check" => fpc[p] = "lockold",
           lockedBy' = [lockedBy EXCEPT ![fd[p]] = p], FGoto(p, to),
           UNCHANGED <<fileVars, fd, geom, after, configVars>>
    PROVE  FileInv'
<1> USE InodesArePositive, FileAssumption
<1> USE DEF FileInv, FileShape, FileTypeOK, FGoto, configVars, fileVars
<1>1. FileShape'
  OBVIOUS
<1>2. LocksHeld' /\ LocksOwned' /\ DescriptorsHeld'
  BY SMTT(30) DEF LocksHeld, LocksOwned, DescriptorsHeld, Using, Holding
<1>3. ContentWritten'
  BY SMTT(30) DEF ContentWritten
<1>4. OneAtATime' /\ WindowsLabels'
  BY SMTT(30) DEF OneAtATime, WindowsLabels
<1>5. Linked'
  BY DEF Linked
<1>6. LeftoverFits'
  BY DEF LeftoverFits, FileValid, HeaderValid
<1> QED
  BY <1>1, <1>2, <1>3, <1>4, <1>5, <1>6

\* A store is accepted after FileValid held of it under the lock.
LEMMA AcceptKeeps ==
    ASSUME FileInv, NEW p \in Processes, fpc[p] = "check", FileValid(fd[p], geom[p]),
           FGoto(p, "open"), UNCHANGED <<fileVars, fd, lockedBy, geom, after, configVars>>
    PROVE  FileInv'
<1> USE InodesArePositive, FileAssumption
<1> USE DEF FileInv, FileShape, FileTypeOK, FGoto, configVars, fileVars
<1>1. FileShape'
  OBVIOUS
<1>2. LocksHeld' /\ LocksOwned' /\ DescriptorsHeld'
  BY SMTT(30) DEF LocksHeld, LocksOwned, DescriptorsHeld, Using, Holding
<1>3. ContentWritten'
  BY DEF ContentWritten, FileValid, HeaderValid
<1>4. OneAtATime' /\ WindowsLabels'
  BY SMTT(30) DEF OneAtATime, WindowsLabels
<1>5. Linked' /\ LeftoverFits'
  BY DEF Linked, LeftoverFits, FileValid, HeaderValid
<1> QED
  BY <1>1, <1>2, <1>3, <1>4, <1>5

\* After a loss of power no process is left, so nothing is asked of the file.
LEMMA PowerLossKeeps ==
    ASSUME FileInv, PowerLoss
    PROVE  FileInv'
<1> USE InodesArePositive, FileAssumption DEF PowerLoss, configVars
<1>1. FileShape'
  <2> USE DEF FileInv, FileShape, FileTypeOK
  <2>1. CASE Reclaim /\ path' \in {path, NoInode}
    BY <2>1 DEF Reclaim, Referenced
  <2>2. CASE ~(Reclaim /\ path' \in {path, NoInode})
    <3>1. PICK h \in {"none", "torn", header[path]}, z \in {FALSE, sized[path]} :
             /\ path \in Inodes /\ UNCHANGED path /\ synced' = {}
             /\ header' = [i \in Inodes |-> IF i = path THEN h ELSE "none"]
             /\ sized' = [i \in Inodes |-> i = path /\ z]
      BY <2>2, SMTT(30)
    <3> QED
      BY <3>1
  <2> QED
    BY <2>1, <2>2
<1>2. LocksHeld' /\ LocksOwned' /\ DescriptorsHeld' /\ ContentWritten'
  BY DEF LocksHeld, LocksOwned, DescriptorsHeld, ContentWritten, Using, Holding
<1>3. OneAtATime' /\ Linked' /\ WindowsLabels' /\ LeftoverFits'
  BY DEF OneAtATime, Linked, WindowsLabels, LeftoverFits
<1> QED
  BY <1>1, <1>2, <1>3 DEF FileInv

-----------------------------------------------------------------------------
\* The steps that close the descriptor on one of their ways out.
LEMMA ClosingKeeps ==
    ASSUME FileInv, NEW p \in Processes,
           \/ CreateFails(p) \/ WorkersFail(p) \/ CloseStore(p) \/ Crash(p)
           \/ Check(p) \/ Lock(p) \/ DestroyLock(p) \/ DestroyUnlink(p)
    PROVE  FileInv'
<1>1. after \in [Processes -> {"idle", "create"}]
  BY DEF FileInv, FileShape
<1>2. CASE CreateFails(p)
  BY <1>1, <1>2, CloseKeeps DEF CreateFails, CloseFd, Closes
<1>3. CASE WorkersFail(p) \/ Crash(p)
  BY <1>1, <1>3, CloseKeeps DEF WorkersFail, Crash, CloseFd, Closes
<1>4. CASE CloseStore(p)
  BY <1>1, <1>4, CloseKeeps, ZenonT(60) DEF CloseStore, CloseFd, Closes
<1>5. CASE Check(p)
  BY <1>1, <1>5, CloseKeeps, AcceptKeeps DEF Check, CloseFd, Closes
<1>6. CASE Lock(p)
  <2>1. CASE lockedBy[fd[p]] = NoProcess
    BY <1>6, <2>1, TakeLock DEF Lock
  <2>2. CASE lockedBy[fd[p]] # NoProcess
    BY <1>1, <1>6, <2>2, CloseKeeps DEF Lock, CloseFd, Closes
  <2> QED
    BY <2>1, <2>2
<1>7. CASE DestroyLock(p)
  <2>1. CASE lockedBy[fd[p]] = NoProcess
    BY <1>7, <2>1, TakeLock DEF DestroyLock
  <2>2. CASE lockedBy[fd[p]] # NoProcess
    BY <1>1, <1>7, <2>2, CloseKeeps DEF DestroyLock, CloseFd, Closes
  <2> QED
    BY <2>1, <2>2
<1>8. CASE DestroyUnlink(p)
  BY <1>1, <1>8, CloseKeeps DEF DestroyUnlink, CloseFd, Closes
<1> QED
  BY <1>2, <1>3, <1>4, <1>5, <1>6, <1>7, <1>8

\* Every step keeps the invariant.
LEMMA FileInvStep == FileInv /\ [FNext]_fvars => FileInv'
<1> SUFFICES ASSUME FileInv, [FNext]_fvars PROVE FileInv'
  OBVIOUS
<1>1. CASE UNCHANGED fvars
  <2>1. /\ path' = path /\ header' = header /\ sized' = sized /\ synced' = synced
        /\ fpc' = fpc /\ fd' = fd /\ geom' = geom /\ after' = after
        /\ host' = host /\ auto' = auto /\ retain' = retain /\ lockedBy' = lockedBy
    BY <1>1 DEF fvars, fileVars, procVars, configVars
  <2>2. FileShape'
    BY <2>1 DEF FileInv, FileShape, FileTypeOK
  <2>3. LocksHeld' /\ LocksOwned' /\ DescriptorsHeld' /\ ContentWritten'
    BY <2>1 DEF FileInv, LocksHeld, LocksOwned, DescriptorsHeld, ContentWritten
  <2>4. OneAtATime' /\ Linked' /\ WindowsLabels'
    BY <2>1 DEF FileInv, OneAtATime, Linked, WindowsLabels
  <2>5. LeftoverFits'
    BY <2>1 DEF FileInv, LeftoverFits, FileValid, HeaderValid
  <2> QED
    BY <2>2, <2>3, <2>4, <2>5 DEF FileInv
<1>2. CASE PowerLoss
  BY <1>2, PowerLossKeeps
<1>3. ASSUME NEW p \in Processes,
             \/ Begin(p) \/ CreateFails(p) \/ WorkersFail(p) \/ CloseStore(p)
             \/ Create(p) \/ Reopen(p) \/ Lock(p) \/ CheckPosix(p)
             \/ TruncatePosix(p) \/ WriteHeaderPosix(p) \/ SyncPosix(p)
             \/ CreateWindows(p) \/ ReopenWindows(p) \/ CheckWindows(p)
             \/ TruncateWindows(p) \/ WriteHeaderWindows(p) \/ SyncWindows(p)
             \/ DestroyOpen(p) \/ DestroyLock(p) \/ DestroyUnlink(p) \/ DestroyWindows(p)
             \/ Crash(p)
      PROVE  FileInv'
  <2>1. CASE Begin(p) \/ Create(p) \/ Reopen(p) \/ CreateWindows(p) \/ ReopenWindows(p)
    BY <2>1, BeginKeeps, CreateKeeps, ReopenKeeps, CreateWindowsKeeps, ReopenWindowsKeeps
  <2>2. CASE TruncatePosix(p) \/ TruncateWindows(p)
    BY <2>2, TruncateKeeps DEF TruncatePosix, TruncateWindows
  <2>3. CASE WriteHeaderPosix(p) \/ WriteHeaderWindows(p)
    BY <2>3, WriteHeaderKeeps DEF WriteHeaderPosix, WriteHeaderWindows
  <2>4. CASE SyncPosix(p) \/ SyncWindows(p)
    BY <2>4, SyncKeeps DEF SyncPosix, SyncWindows
  <2>5. CASE DestroyOpen(p) \/ DestroyWindows(p)
    BY <2>5, DestroyOpenKeeps, DestroyWindowsKeeps
  <2>6. CASE \/ CreateFails(p) \/ WorkersFail(p) \/ CloseStore(p) \/ Crash(p)
             \/ CheckPosix(p) \/ CheckWindows(p)
             \/ Lock(p) \/ DestroyLock(p) \/ DestroyUnlink(p)
    BY <2>6, ClosingKeeps DEF CheckPosix, CheckWindows
  <2> QED
    BY <1>3, <2>1, <2>2, <2>3, <2>4, <2>5, <2>6
<1> QED
  BY <1>1, <1>2, <1>3 DEF FNext

\* So it always holds.
LEMMA FileInvAlways == FSpec => []FileInv
  BY FileInvInit, FileInvStep, PTL DEF FSpec

-----------------------------------------------------------------------------
\* However many processes share the path of a store, and wherever they crash,
\* no two of them use or initialise the same file (open, destroy_file).
THEOREM FileHasOneUser == FSpec => []OneUser
<1>1. FileInv => OneUser
  BY ZenonT(60) DEF FileInv, FileShape, FileTypeOK, OneUser, LocksHeld, DescriptorsHeld, Holding,
         Using
<1> QED
  BY <1>1, FileInvAlways, PTL

\* A store that open() returned has its full size and a complete header of the
\* geometry asked for, after any sequence of crashes and losses of power.
THEOREM OpenStoreIsValid == FSpec => []OpenIsValid
<1>1. FileInv => OpenIsValid
  BY DEF FileInv, ContentWritten, OpenIsValid, FileValid, HeaderValid
<1> QED
  BY <1>1, FileInvAlways, PTL

\* Under an automatic path, and on Windows, destroy_file never takes the path
\* away from an open store.
THEOREM OpenStoreStaysLinked == FSpec => []OpenStaysLinked
<1>1. FileInv => OpenStaysLinked
  BY DEF FileInv, Linked, DescriptorsHeld, OpenStaysLinked, Holding, Using
<1> QED
  BY <1>1, FileInvAlways, PTL

\* start deletes a leftover that open() would reject, so that open() finds
\* either no file or one that it accepts.
THEOREM LeftoverIsNoObstacle == FSpec => []LeftoverNeverBlocks
<1>1. FileInv => LeftoverNeverBlocks
  BY DEF FileInv, LeftoverFits, Linked, DescriptorsHeld, LeftoverNeverBlocks, Holding,
         Using
<1> QED
  BY <1>1, FileInvAlways, PTL

\* A store's file, its header, its lock and its users keep within their types.
THEOREM FileTypes == FSpec => []FileTypeOK
<1>1. FileInv => FileTypeOK
  BY Zenon DEF FileInv, FileShape
<1> QED
  BY <1>1, FileInvAlways, PTL

-----------------------------------------------------------------------------
(* The budgets.  First sums: what MapThenSumSet gives for a finite set.    *)

\* g gives every subset of S the sum of f over it, as MapThenSumSet goes about it.
Pick(s) == CHOOSE x \in s : TRUE
Sums(g, f, S) ==
    g = [s \in SUBSET S |-> IF s = {} THEN 0 ELSE f[Pick(s)] + g[s \ {Pick(s)}]]

\* As many cells as the sum of f over s.
Cells(f, s) == UNION {{x} \X (1 .. f[x]) : x \in s}

\* A non-empty set of subsets has one that is left by the removal of any element.
LEMMA SmallestSet ==
    ASSUME NEW S, IsFiniteSet(S), NEW B, B \subseteq SUBSET S, B # {}
    PROVE  \E s \in B : \A x \in s : s \ {x} \notin B
<1>1. IsWellFoundedOn(StrictSubsetOrdering(S), SUBSET S)
  BY FS_StrictSubsetOrderingWellFounded, FS_FiniteSubsetsOfFinite, ZenonT(40)
<1>2. PICK s \in B : \A r \in B : ~(<<r, s>> \in StrictSubsetOrdering(S))
  BY <1>1, WFMin, Zenon
<1>3. ASSUME NEW x \in s, s \ {x} \in B PROVE FALSE
  <2>1. /\ s \ {x} \in SUBSET S /\ s \in SUBSET S
        /\ s \ {x} \subseteq s /\ s \ {x} # s
    BY <1>2, <1>3, Zenon
  <2>2. <<s \ {x}, s>> \in StrictSubsetOrdering(S)
    BY <2>1, Zenon DEF StrictSubsetOrdering
  <2> QED
    BY <1>2, <1>3, <2>2, Zenon
<1> QED
  BY <1>2, <1>3, Zenon

\* The fold picks an element of its set.
LEMMA PickIsIn ==
    ASSUME NEW s, s # {}
    PROVE  Pick(s) \in s
  BY Zenon DEF Pick

\* The numbers 1 .. n are n.
LEMMA UpTo ==
    ASSUME NEW n \in Nat
    PROVE  IsFiniteSet(1 .. n) /\ Cardinality(1 .. n) = n
<1>1. /\ IsFiniteSet(1 .. n)
      /\ Cardinality(1 .. n) = IF 1 > n THEN 0 ELSE n - 1 + 1
  BY FS_Interval, SMTT(30)
<1> QED
  BY <1>1, SMTT(30)

\* A column of n cells.
LEMMA Column ==
    ASSUME NEW x, NEW n \in Nat
    PROVE  IsFiniteSet({x} \X (1 .. n)) /\ Cardinality({x} \X (1 .. n)) = n
<1>1. /\ IsFiniteSet({x}) /\ Cardinality({x}) = 1
      /\ IsFiniteSet(1 .. n) /\ Cardinality(1 .. n) = n
  BY UpTo, FS_Singleton, Zenon
<1>2. /\ IsFiniteSet({x} \X (1 .. n))
      /\ Cardinality({x} \X (1 .. n)) = Cardinality({x}) * Cardinality(1 .. n)
  BY <1>1, FS_Product, Zenon
<1> QED
  BY <1>1, <1>2, SMTT(30)

\* The cells of s are those of s without x and the column of x.
LEMMA CellsSplit ==
    ASSUME NEW f, NEW s, NEW x \in s
    PROVE  /\ Cells(f, s) = Cells(f, s \ {x}) \cup ({x} \X (1 .. f[x]))
           /\ Cells(f, s \ {x}) \cap ({x} \X (1 .. f[x])) = {}
  BY SMTT(30) DEF Cells

\* A finite set of naturals has finitely many cells.
LEMMA CellsFinite ==
    ASSUME NEW S, IsFiniteSet(S), NEW f \in [S -> Nat], NEW s \in SUBSET S
    PROVE  IsFiniteSet(Cells(f, s))
<1> DEFINE B == {r \in SUBSET S : ~IsFiniteSet(Cells(f, r))}
<1>1. SUFFICES ASSUME B # {} PROVE FALSE
  BY Zenon
<1>2. PICK r \in B : \A x \in r : r \ {x} \notin B
  BY <1>1, SmallestSet, Zenon
<1>3. CASE r = {}
  <2>1. Cells(f, r) = {}
    BY <1>3, Zenon DEF Cells
  <2> QED
    BY <1>2, <2>1, FS_EmptySet, Zenon
<1>4. CASE r # {}
  <2>1. PICK x \in r : TRUE
    BY <1>4, Zenon
  <2>2. IsFiniteSet(Cells(f, r \ {x})) /\ f[x] \in Nat
    BY <1>2, <2>1, Zenon
  <2>3. IsFiniteSet({x} \X (1 .. f[x]))
    BY <2>2, Column, Zenon
  <2>4. Cells(f, r) = Cells(f, r \ {x}) \cup ({x} \X (1 .. f[x]))
    BY <2>1, CellsSplit, ZenonT(40)
  <2>5. IsFiniteSet(Cells(f, r \ {x}) \cup ({x} \X (1 .. f[x])))
    BY <2>2, <2>3, FS_Union, Zenon
  <2> QED
    BY <1>2, <2>4, <2>5, Zenon
<1> QED
  BY <1>3, <1>4, Zenon

\* The sum exists.
LEMMA SumsExist ==
    ASSUME NEW S, IsFiniteSet(S), NEW f \in [S -> Nat]
    PROVE  \E g : Sums(g, f, S)
<1> DEFINE g == [s \in SUBSET S |-> Cardinality(Cells(f, s))]
<1>1. ASSUME NEW s \in SUBSET S
      PROVE  g[s] = IF s = {} THEN 0 ELSE f[Pick(s)] + g[s \ {Pick(s)}]
  <2>1. CASE s = {}
    <3>1. Cells(f, s) = {}
      BY <2>1, Zenon DEF Cells
    <3> QED
      BY <2>1, <3>1, FS_EmptySet, Zenon
  <2>2. CASE s # {}
    <3> DEFINE x == Pick(s)
    <3>1. x \in s /\ f[x] \in Nat /\ s \ {x} \in SUBSET S
      BY <2>2, PickIsIn, Zenon
    <3>2. /\ IsFiniteSet(Cells(f, s \ {x})) /\ IsFiniteSet({x} \X (1 .. f[x]))
          /\ Cardinality({x} \X (1 .. f[x])) = f[x]
      BY <3>1, CellsFinite, Column, Zenon
    <3>3. /\ Cells(f, s) = Cells(f, s \ {x}) \cup ({x} \X (1 .. f[x]))
          /\ Cells(f, s \ {x}) \cap ({x} \X (1 .. f[x])) = {}
      BY <3>1, CellsSplit, Zenon
    <3>4. Cardinality(Cells(f, s) ) =
            Cardinality(Cells(f, s \ {x})) + Cardinality({x} \X (1 .. f[x]))
                - Cardinality(Cells(f, s \ {x}) \cap ({x} \X (1 .. f[x])))
      BY <3>2, <3>3, FS_Union, Zenon
    <3>5. Cardinality(Cells(f, s)) = Cardinality(Cells(f, s \ {x})) + f[x] - 0
      BY <3>2, <3>3, <3>4, FS_EmptySet, Zenon
    <3>6. Cardinality(Cells(f, s \ {x})) \in Nat
      BY <3>2, FS_CardinalityType, Zenon
    <3>7. Cardinality(Cells(f, s)) = f[x] + Cardinality(Cells(f, s \ {x}))
      BY <3>1, <3>5, <3>6, SMTT(30)
    <3>8. g[s] = f[x] + g[s \ {x}]
      BY <3>1, <3>7, Zenon
    <3> QED
      BY <2>2, <3>8, Zenon
  <2> QED
    BY <2>1, <2>2, Zenon
<1>2. g = [s \in SUBSET S |-> IF s = {} THEN 0 ELSE f[Pick(s)] + g[s \ {Pick(s)}]]
  <2> DEFINE h == [s \in SUBSET S |-> IF s = {} THEN 0 ELSE f[Pick(s)] + g[s \ {Pick(s)}]]
  <2>1. ASSUME NEW s \in SUBSET S PROVE g[s] = h[s]
    <3> HIDE DEF g
    <3> QED
      BY <1>1, <2>1, Zenon
  <2>2. DOMAIN g = SUBSET S /\ DOMAIN h = SUBSET S
    BY Zenon
  <2>3. g = [s \in SUBSET S |-> g[s]] /\ h = [s \in SUBSET S |-> h[s]]
    BY Zenon
  <2> HIDE DEF g, h
  <2>4. g = h
    BY <2>1, <2>3, Zenon
  <2> QED
    BY <2>4, Zenon DEF h
<1> HIDE DEF g
<1> QED
  BY <1>2, Zenon DEF Sums

SumOf(f, S) == CHOOSE g : Sums(g, f, S)

\* MapThenSumSet is the value of the fold's function on the whole set.
LEMMA SumUnfold ==
    ASSUME NEW S, IsFiniteSet(S), NEW f \in [S -> Nat]
    PROVE  /\ Sums(SumOf(f, S), f, S)
           /\ MapThenSumSet(LAMBDA b : f[b], S) = SumOf(f, S)[S]
<1>1. Sums(SumOf(f, S), f, S)
  BY SumsExist, Zenon DEF SumOf
<1>2. MapThenSumSet(LAMBDA b : f[b], S) = SumOf(f, S)[S]
  BY Zenon DEF MapThenSumSet, MapThenFoldSet, SumOf, Sums, Pick
<1> QED
  BY <1>1, <1>2, Zenon

\* One step of the fold.
LEMMA SumsStep ==
    ASSUME NEW S, NEW f, NEW g, Sums(g, f, S), NEW s \in SUBSET S
    PROVE  /\ s = {} => g[s] = 0
           /\ s # {} => g[s] = f[Pick(s)] + g[s \ {Pick(s)}]
<1>1. g[s] = IF s = {} THEN 0 ELSE f[Pick(s)] + g[s \ {Pick(s)}]
  BY Zenon DEF Sums
<1> QED
  BY <1>1, Zenon

\* What the sum is after f changed at b.
LEMMA SumsDiffer ==
    ASSUME NEW S, IsFiniteSet(S), NEW f \in [S -> Nat], NEW e \in [S -> Nat],
           NEW b \in S, \A x \in S \ {b} : e[x] = f[x],
           NEW g, Sums(g, f, S), NEW h, Sums(h, e, S)
    PROVE  /\ g[S] \in Nat /\ h[S] \in Nat
           /\ h[S] + f[b] = g[S] + e[b]
<1> DEFINE At(s, n) == IF b \in s THEN n ELSE 0
           Good(s) == /\ g[s] \in Nat /\ h[s] \in Nat
                      /\ h[s] + At(s, f[b]) = g[s] + At(s, e[b])
           B == {s \in SUBSET S : ~Good(s)}
<1>1. SUFFICES ASSUME B # {} PROVE FALSE
  <2>1. ASSUME B = {} PROVE Good(S)
    BY <2>1, Zenon
  <2> QED
    BY <2>1, Zenon
<1>2. PICK s \in B : \A x \in s : s \ {x} \notin B
  BY <1>1, SmallestSet, Zenon
<1> s \in SUBSET S
  BY <1>2, Zenon
<1>3. CASE s = {}
  <2>1. g[s] = 0 /\ h[s] = 0
    BY <1>3, Zenon DEF Sums
  <2>2. At(s, f[b]) = 0 /\ At(s, e[b]) = 0
    BY <1>3, Zenon
  <2>3. 0 \in Nat /\ 0 + 0 = 0 + 0
    OBVIOUS
  <2>4. Good(s)
    <3> HIDE DEF At
    <3> QED
      BY <2>1, <2>2, <2>3, Zenon
  <2> QED
    BY <1>2, <2>4, Zenon
<1>4. CASE s # {}
  <2> DEFINE x == Pick(s)
             r == s \ {x}
  <2>1. x \in s /\ x \in S /\ r \in SUBSET S
    BY <1>2, <1>4, PickIsIn, Zenon
  <2>2. Good(r)
    BY <1>2, <2>1, Zenon
  <2>3. g[s] = f[x] + g[r] /\ h[s] = e[x] + h[r]
    <3>1. g[s] = f[x] + g[r]
      BY <1>4, Zenon DEF Sums
    <3>2. h[s] = e[x] + h[r]
      BY <1>4, Zenon DEF Sums
    <3> QED
      BY <3>1, <3>2, Zenon
  <2>4. f[x] \in Nat /\ e[x] \in Nat /\ f[b] \in Nat /\ e[b] \in Nat
    BY <2>1, Zenon
  <2>5. x # b => e[x] = f[x]
    BY <2>1, Zenon
  <2>6. (b \in r <=> b \in s /\ b # x)
    BY Zenon
  <2> HIDE DEF x, r
  <2>7. Good(s)
    <3>1. CASE x = b
      <4>1. g[r] \in Nat /\ h[r] \in Nat /\ h[r] + 0 = g[r] + 0
        BY <2>2, <2>6, <3>1, Zenon
      <4>2. At(s, f[b]) = f[b] /\ At(s, e[b]) = e[b]
        BY <2>1, <3>1, Zenon
      <4>3. /\ f[b] + g[r] \in Nat /\ e[b] + h[r] \in Nat
            /\ (e[b] + h[r]) + f[b] = (f[b] + g[r]) + e[b]
        <5>1. PICK u, v, w, y \in Nat : u = f[b] /\ v = e[b] /\ w = g[r] /\ y = h[r]
          BY <2>4, <4>1, ZenonT(30)
        <5>2. y + 0 = w + 0
          BY <4>1, <5>1, Zenon
        <5>3. u + w \in Nat /\ v + y \in Nat /\ (v + y) + u = (u + w) + v
          BY <5>2, SMTT(30)
        <5> QED
          BY <5>1, <5>3, Zenon
      <4>4. g[s] = f[b] + g[r] /\ h[s] = e[b] + h[r]
        BY <2>3, <3>1, Zenon
      <4> HIDE DEF At
      <4> QED
        BY <4>2, <4>3, <4>4, Zenon
    <3>2. CASE x # b
      <4>1. At(s, f[b]) = At(r, f[b]) /\ At(s, e[b]) = At(r, e[b])
        BY <2>6, <3>2, Zenon
      <4>2. At(r, f[b]) \in Nat /\ At(r, e[b]) \in Nat
        BY <2>4
      <4> HIDE DEF At
      <4>3. g[r] \in Nat /\ h[r] \in Nat /\ h[r] + At(r, f[b]) = g[r] + At(r, e[b])
        BY <2>2, Zenon
      <4>4. /\ f[x] + g[r] \in Nat /\ f[x] + h[r] \in Nat
            /\ (f[x] + h[r]) + At(r, f[b]) = (f[x] + g[r]) + At(r, e[b])
        <5>1. PICK u, v, w, y, z \in Nat :
                 /\ u = f[x] /\ v = h[r] /\ w = g[r]
                 /\ y = At(r, f[b]) /\ z = At(r, e[b])
          BY <2>4, <4>2, <4>3, ZenonT(30)
        <5>2. v + y = w + z
          BY <4>3, <5>1, Zenon
        <5>3. /\ u + w \in Nat /\ u + v \in Nat
              /\ (u + v) + y = (u + w) + z
          BY <5>2, SMTT(30)
        <5> QED
          BY <5>1, <5>3, Zenon
      <4>5. g[s] = f[x] + g[r] /\ h[s] = f[x] + h[r]
        BY <2>3, <2>5, <3>2, Zenon
      <4> QED
        BY <4>1, <4>4, <4>5, Zenon
    <3> QED
      BY <3>1, <3>2, Zenon
  <2> QED
    BY <1>2, <2>7, Zenon
<1> QED
  BY <1>3, <1>4, Zenon

\* A sum of zeros is zero, for the function of the fold.
LEMMA SumsZero ==
    ASSUME NEW S, IsFiniteSet(S), NEW f, \A x \in S : f[x] = 0,
           NEW g, Sums(g, f, S)
    PROVE  g[S] = 0
<1> DEFINE B == {s \in SUBSET S : g[s] # 0}
<1>1. SUFFICES ASSUME B # {} PROVE FALSE
  BY Zenon
<1>2. PICK s \in B : \A x \in s : s \ {x} \notin B
  BY <1>1, SmallestSet, Zenon
<1> s \in SUBSET S
  BY <1>2, Zenon
<1>3. CASE s = {}
  BY <1>2, <1>3, SumsStep, Zenon
<1>4. CASE s # {}
  <2> DEFINE x == Pick(s)
  <2>1. x \in s /\ f[x] = 0 /\ s \ {x} \in SUBSET S
    BY <1>2, <1>4, PickIsIn, Zenon
  <2>2. g[s \ {x}] = 0
    BY <1>2, <2>1, Zenon
  <2>3. g[s] = f[x] + g[s \ {x}]
    BY <1>4, Zenon DEF Sums
  <2>4. g[s] = 0
    <3> HIDE DEF x
    <3>1. g[s] = 0 + 0
      BY <2>1, <2>2, <2>3, Zenon
    <3> QED
      BY <3>1, SMTT(30)
  <2> QED
    BY <1>2, <2>4, Zenon
<1> QED
  BY <1>3, <1>4, Zenon

\* Changing one summand changes the sum by the difference.
LEMMA SumChanges ==
    ASSUME NEW S, IsFiniteSet(S), NEW f \in [S -> Nat], NEW e \in [S -> Nat],
           NEW b \in S, \A x \in S \ {b} : e[x] = f[x]
    PROVE  LET F == MapThenSumSet(LAMBDA x : f[x], S)
               E == MapThenSumSet(LAMBDA x : e[x], S)
           IN  F \in Nat /\ E \in Nat /\ E + f[b] = F + e[b]
<1>1. /\ Sums(SumOf(f, S), f, S) /\ Sums(SumOf(e, S), e, S)
      /\ MapThenSumSet(LAMBDA x : f[x], S) = SumOf(f, S)[S]
      /\ MapThenSumSet(LAMBDA x : e[x], S) = SumOf(e, S)[S]
  BY SumUnfold, Zenon
<1>2. /\ SumOf(f, S)[S] \in Nat /\ SumOf(e, S)[S] \in Nat
      /\ SumOf(e, S)[S] + f[b] = SumOf(f, S)[S] + e[b]
  <2> DEFINE g == SumOf(f, S)
             h == SumOf(e, S)
  <2>1. Sums(g, f, S) /\ Sums(h, e, S)
    BY <1>1, Zenon
  <2> HIDE DEF g, h
  <2>2. g[S] \in Nat /\ h[S] \in Nat /\ h[S] + f[b] = g[S] + e[b]
    BY <2>1, SumsDiffer, SMTT(30)
  <2> QED
    BY <2>2, Zenon DEF g, h
<1> QED
  BY <1>1, <1>2, Zenon

\* A sum of zeros is zero.
LEMMA SumZero ==
    ASSUME NEW S, IsFiniteSet(S), NEW f \in [S -> Nat], \A x \in S : f[x] = 0
    PROVE  MapThenSumSet(LAMBDA x : f[x], S) = 0
<1>1. /\ Sums(SumOf(f, S), f, S)
      /\ MapThenSumSet(LAMBDA x : f[x], S) = SumOf(f, S)[S]
  BY SumUnfold, Zenon
<1> QED
  BY <1>1, SumsZero, Zenon

\* A non-empty set of naturals has a least element.
LEMMA LeastOf ==
    ASSUME NEW S, S \subseteq Nat, S # {}
    PROVE  \E e \in S : \A f \in S : e <= f
<1>1. PICK e \in S : \A f \in S : ~(<<f, e>> \in OpToRel(<, Nat))
  BY NatLessThanWellFounded, WFMin, Zenon
<1>2. ASSUME NEW f \in S PROVE e <= f
  <2>1. e \in Nat /\ f \in Nat
    BY <1>1, <1>2, Zenon
  <2>2. ~(<<f, e>> \in OpToRel(<, Nat))
    BY <1>1, <1>2, Zenon
  <2>3. ~(f < e)
    BY <2>1, <2>2, Zenon DEF OpToRel
  <2> QED
    BY <2>1, <2>3
<1> QED
  BY <1>2, Zenon

-----------------------------------------------------------------------------
(* Powers of two, as numbers of subsets.                                   *)

\* 2^n is the number of subsets of a set of n elements.
LEMMA PowIs ==
    ASSUME NEW n \in Nat
    PROVE  IsFiniteSet(SUBSET (1 .. n)) /\ Cardinality(SUBSET (1 .. n)) = 2 ^ n
BY UpTo, FS_SUBSET, Zenon

\* A power of two is positive.
LEMMA PowType ==
    ASSUME NEW n \in Nat
    PROVE  2 ^ n \in Nat /\ 2 ^ n >= 1
<1>1. IsFiniteSet(SUBSET (1 .. n)) /\ Cardinality(SUBSET (1 .. n)) = 2 ^ n
  BY PowIs, Zenon
<1>2. 2 ^ n \in Nat
  BY <1>1, FS_CardinalityType, Zenon
<1>3. {} \in SUBSET (1 .. n)
  BY Zenon
<1>4. 2 ^ n # 0
  BY <1>1, <1>3, FS_EmptySet, Zenon
<1>5. \A x \in Nat : x # 0 => x >= 1
  OBVIOUS
<1> QED
  BY <1>2, <1>4, <1>5, Zenon

\* A set without elements has one subset.
LEMMA PowZero == 2 ^ 0 = 1
<1>1. 1 .. 0 = {} /\ 0 \in Nat
  OBVIOUS
<1>2. SUBSET {} = {{}}
  BY Zenon
<1>3. Cardinality({{}}) = 1
  BY FS_Singleton, Zenon
<1>4. Cardinality(SUBSET (1 .. 0)) = 2 ^ 0
  BY <1>1, PowIs, Zenon
<1> QED
  BY <1>1, <1>2, <1>3, <1>4, Zenon

\* One element more doubles the subsets.
LEMMA PowNext ==
    ASSUME NEW n \in Nat
    PROVE  2 ^ (n + 1) = 2 ^ n + 2 ^ n
<1> DEFINE A == SUBSET (1 .. n)
           B == {T \cup {n + 1} : T \in A}
           f == [T \in A |-> T \cup {n + 1}]
<1>1. n + 1 \in Nat /\ n + 1 \notin 1 .. n /\ 1 .. n + 1 = (1 .. n) \cup {n + 1}
  OBVIOUS
<1>2. IsFiniteSet(A) /\ Cardinality(A) = 2 ^ n /\ Cardinality(SUBSET (1 .. n + 1)) = 2 ^ (n + 1)
  BY <1>1, PowIs, Zenon
<1>3. ASSUME NEW S \in A, NEW T \in A, S \cup {n + 1} = T \cup {n + 1} PROVE S = T
  <2>1. n + 1 \notin S /\ n + 1 \notin T
    BY <1>1, Zenon
  <2>2. \A x : x \in S \cup {n + 1} <=> x \in T \cup {n + 1}
    BY <1>3, Zenon
  <2>3. \A x : x \in S <=> x \in T
    BY <2>1, <2>2, Zenon
  <2> QED
    BY <2>3, Zenon
<1>4. f \in Bijection(A, B)
  <2>1. f \in [A -> B]
    BY Zenon
  <2>2. IsInjective(f)
    BY <1>3, Zenon DEF IsInjective
  <2>3. \A t \in B : \E s \in A : f[s] = t
    BY Zenon
  <2> HIDE DEF A, B, f
  <2> QED
    BY <2>1, <2>2, <2>3, Zenon DEF Bijection, Injection, Surjection
<1>5. IsFiniteSet(B) /\ Cardinality(B) = 2 ^ n
  <2> HIDE DEF A, B, f
  <2> QED
    BY <1>2, <1>4, FS_Bijection, Zenon DEF ExistsBijection
<1>6. A \cap B = {}
  BY <1>1, Zenon
<1>7. SUBSET (1 .. n + 1) = A \cup B
  <2>1. ASSUME NEW T, T \in SUBSET (1 .. n + 1), n + 1 \in T PROVE T \in B
    <3>1. T \ {n + 1} \in A /\ T = (T \ {n + 1}) \cup {n + 1}
      BY <1>1, <2>1, Zenon
    <3> QED
      BY <3>1, Zenon
  <2>2. ASSUME NEW T, T \in SUBSET (1 .. n + 1), n + 1 \notin T PROVE T \in A
    BY <1>1, <2>2, Zenon
  <2>3. A \cup B \subseteq SUBSET (1 .. n + 1)
    BY <1>1, Zenon
  <2> QED
    BY <2>1, <2>2, <2>3, Zenon
<1> HIDE DEF A, B
<1>8. Cardinality(A \cup B) = Cardinality(A) + Cardinality(B) - Cardinality(A \cap B)
  BY <1>2, <1>5, FS_Union, Zenon
<1>9. 2 ^ (n + 1) = 2 ^ n + 2 ^ n - 0
  BY <1>2, <1>5, <1>6, <1>7, <1>8, FS_EmptySet, Zenon
<1>10. \A x \in Nat : x + x - 0 = x + x
  OBVIOUS
<1> QED
  BY <1>9, <1>10, PowType, Zenon

\* Powers multiply, by minimal counterexample.
LEMMA PowSum ==
    ASSUME NEW a \in Nat, NEW b \in Nat
    PROVE  2 ^ (a + b) = 2 ^ a * 2 ^ b
<1> DEFINE S == {n \in Nat : 2 ^ (a + n) # 2 ^ a * 2 ^ n}
<1>1. SUFFICES ASSUME S # {} PROVE FALSE
  BY Zenon
<1>2. PICK e \in S : \A f \in S : e <= f
  <2>1. S \subseteq Nat
    BY Zenon
  <2> HIDE DEF S
  <2> QED
    BY <1>1, <2>1, LeastOf, Zenon
<1>3. e \in Nat /\ 2 ^ (a + e) # 2 ^ a * 2 ^ e
  BY <1>2, Zenon
<1>4. 2 ^ a \in Nat
  BY PowType, Zenon
<1>5. e # 0
  <2>1. SUFFICES ASSUME e = 0 PROVE FALSE
    BY Zenon
  <2>2. a + 0 = a /\ \A x \in Nat : x * 1 = x
    BY SMTT(30)
  <2> QED
    BY <1>3, <1>4, <2>1, <2>2, PowZero, Zenon
<1>6. e - 1 \in Nat /\ ~(e <= e - 1) /\ (e - 1) + 1 = e /\ (a + (e - 1)) + 1 = a + e /\ a + (e - 1) \in Nat
  BY <1>3, <1>5, SMTT(30)
<1>7. 2 ^ (a + (e - 1)) = 2 ^ a * 2 ^ (e - 1)
  BY <1>2, <1>6, Zenon
<1>8. 2 ^ e = 2 ^ (e - 1) + 2 ^ (e - 1) /\ 2 ^ (a + e) = 2 ^ (a + (e - 1)) + 2 ^ (a + (e - 1))
  BY <1>6, PowNext, Zenon
<1>9. \A x, y \in Nat : x * y + x * y = x * (y + y)
  OBVIOUS
<1>10. 2 ^ (e - 1) \in Nat
  BY <1>6, PowType, Zenon
<1> QED
  BY <1>3, <1>4, <1>7, <1>8, <1>9, <1>10, ZenonT(40)

\* A larger power is a multiple of a smaller one.
LEMMA PowMono ==
    ASSUME NEW a \in Nat, NEW b \in Nat, a <= b
    PROVE  2 ^ a <= 2 ^ b /\ \E d \in Nat : b = a + d /\ 2 ^ b = 2 ^ a * 2 ^ d
<1>1. b - a \in Nat /\ b = a + (b - a)
  OBVIOUS
<1>2. 2 ^ b = 2 ^ a * 2 ^ (b - a)
  BY <1>1, PowSum, Zenon
<1>3. 2 ^ a \in Nat /\ 2 ^ (b - a) \in Nat /\ 2 ^ (b - a) >= 1
  BY <1>1, PowType, Zenon
<1>4. \A x, y \in Nat : y >= 1 => x <= x * y
  OBVIOUS
<1> QED
  BY <1>1, <1>2, <1>3, <1>4, Zenon

-----------------------------------------------------------------------------
(* Rounding.                                                               *)

\* Division with remainder.
LEMMA DivMod ==
    ASSUME NEW x \in Nat, NEW v \in Nat, v >= 1
    PROVE  x \div v \in Nat /\ (x % v) \in 0 .. v - 1 /\ x = (x \div v) * v + (x % v)
<1>1. (x % v) \in 0 .. v - 1
  OBVIOUS
<1>2. x = v * (x \div v) + (x % v)
  OBVIOUS
<1>3. x \div v \in Int
  OBVIOUS
<1>4. x \div v >= 0
  OBVIOUS
<1> QED
  BY <1>1, <1>2, <1>3, <1>4, SMTT(30)

\* A product grows with its factors.
LEMMA Grows ==
    ASSUME NEW a \in Nat, NEW b \in Nat, NEW c \in Nat, a <= b
    PROVE  a * c <= b * c /\ a * c \in Nat /\ b * c \in Nat
OBVIOUS

\* v rounded to a multiple of u, with ties to even.
Up(v, u) == 2 * (v % u) > u \/ (2 * (v % u) = u /\ (v \div u) % 2 = 1)
Rounded(v, u) == (v \div u + (IF Up(v, u) THEN 1 ELSE 0)) * u

\* It is the number below or the number above, whichever is nearer.
LEMMA RoundedIs ==
    ASSUME NEW v \in Nat, NEW u \in Nat, u >= 1
    PROVE  \E c \in Nat, q \in Nat, r \in 0 .. u - 1 :
              /\ Rounded(v, u) = c * u /\ v = q * u + r
              /\ ((c = q /\ 2 * r <= u) \/ (c = q + 1 /\ 2 * r >= u))
<1> DEFINE q == v \div u
           r == v % u
<1>1. q \in Nat /\ r \in 0 .. u - 1 /\ v = q * u + r
  BY DivMod
<1> HIDE DEF q, r
<1>2. CASE Up(v, u)
  <2>1. Rounded(v, u) = (q + 1) * u
    BY <1>2, Zenon DEF Rounded, q
  <2>2. 2 * r >= u
    <3>1. 2 * r > u \/ 2 * r = u
      BY <1>2, Zenon DEF Up, r
    <3> QED
      BY <1>1, <3>1
  <2>3. q + 1 \in Nat
    BY <1>1
  <2> QED
    BY <1>1, <2>1, <2>2, <2>3, Zenon
<1>3. CASE ~Up(v, u)
  <2>1. Rounded(v, u) = (q + 0) * u
    BY <1>3, Zenon DEF Rounded, q
  <2>2. q + 0 = q
    BY <1>1
  <2>3. ~(2 * r > u)
    BY <1>3, Zenon DEF Up, r
  <2>4. 2 * r <= u
    BY <1>1, <2>3
  <2>5. Rounded(v, u) = q * u
    BY <2>1, <2>2, Zenon
  <2> QED
    BY <1>1, <2>4, <2>5, Zenon
<1> QED
  BY <1>2, <1>3, Zenon

\* Quotients are ordered as the multiples are.
LEMMA Quotients ==
    ASSUME NEW a \in Nat, NEW b \in Nat, NEW u \in Nat, u >= 1, a * u < b * u
    PROVE  a + 1 <= b /\ (a + 1) * u = a * u + u /\ a * u + u <= b * u
<1>1. ASSUME b <= a PROVE FALSE
  <2>1. b * u <= a * u /\ a * u \in Nat /\ b * u \in Nat
    BY <1>1, Grows, Zenon
  <2> QED
    BY <2>1
<1>2. a + 1 <= b /\ a + 1 \in Nat
  BY <1>1
<1>3. (a + 1) * u <= b * u
  BY <1>2, Grows, Zenon
<1>4. (a + 1) * u = a * u + u
  OBVIOUS
<1> QED
  BY <1>2, <1>3, <1>4, Zenon

\* Rounding does not pass a multiple of u, downwards or upwards,
LEMMA RoundsWithin ==
    ASSUME NEW v \in Nat, NEW u \in Nat, u >= 1, NEW t \in Nat
    PROVE  /\ Rounded(v, u) \in Nat /\ 2 * Rounded(v, u) <= 2 * v + u
           /\ v <= t * u => Rounded(v, u) <= t * u
           /\ t * u <= v => t * u <= Rounded(v, u)
           /\ 2 * v + u < 2 * (t * u) => Rounded(v, u) + u <= t * u
           /\ \E c \in Nat : Rounded(v, u) = c * u
<1>1. PICK c \in Nat, q \in Nat, r \in 0 .. u - 1 :
              /\ Rounded(v, u) = c * u /\ v = q * u + r
              /\ ((c = q /\ 2 * r <= u) \/ (c = q + 1 /\ 2 * r >= u))
  BY RoundedIs, Zenon
<1> DEFINE cu == c * u
           qu == q * u
           tu == t * u
<1>2. cu \in Nat /\ qu \in Nat /\ tu \in Nat
  BY Grows
<1>3. (c = q /\ cu = qu) \/ (c = q + 1 /\ cu = qu + u)
  <2>1. (q + 1) * u = q * u + u
    OBVIOUS
  <2>2. CASE c = q
    BY <2>2
  <2>3. CASE c = q + 1
    BY <2>1, <2>3, Zenon
  <2> QED
    BY <1>1, <2>2, <2>3, Zenon
<1>4. qu < tu => qu + u <= tu
  BY Quotients, Zenon
<1>5. tu < qu => tu + u <= qu
  BY Quotients, Zenon
<1>13. qu + u < tu => qu + u + u <= tu
  <2>1. (q + 1) * u = q * u + u /\ q + 1 \in Nat
    OBVIOUS
  <2>2. (q + 1) * u < t * u => (q + 1) * u + u <= t * u
    BY <2>1, Quotients, Zenon
  <2> QED
    BY <2>1, <2>2, Zenon
<1>6. Rounded(v, u) = cu /\ v = qu + r
  BY <1>1, Zenon
<1>7. (cu = qu /\ 2 * r <= u) \/ (cu = qu + u /\ 2 * r >= u)
  <2>1. c = q => c # q + 1
    OBVIOUS
  <2> QED
    BY <1>1, <1>3, <2>1, Zenon
<1> HIDE DEF cu, qu, tu
<1>8. cu \in Nat /\ 2 * cu <= 2 * v + u
  BY <1>2, <1>6, <1>7, SMTT(30)
<1>9. v <= tu => cu <= tu
  BY <1>2, <1>4, <1>5, <1>6, <1>7, SMTT(30)
<1>10. tu <= v => tu <= cu
  BY <1>2, <1>4, <1>5, <1>6, <1>7, SMTT(30)
<1>11. 2 * v + u < 2 * tu => cu + u <= tu
  BY <1>2, <1>4, <1>13, <1>6, <1>7, SMTT(30)
<1>12. \E d \in Nat : cu = d * u
  BY Zenon DEF cu
<1> QED
  BY <1>6, <1>8, <1>9, <1>10, <1>11, <1>12, Zenon DEF tu

\* and rounding to units changes nothing.
LEMMA RoundedToUnits == \A v \in Nat : Rounded(v, 1) = v
<1> SUFFICES ASSUME NEW v \in Nat PROVE Rounded(v, 1) = v
  BY Zenon
<1>1. v * 1 = v /\ v <= v * 1 /\ v * 1 <= v /\ 1 >= 1 /\ 1 \in Nat
  OBVIOUS
<1>2. Rounded(v, 1) <= v * 1 /\ v * 1 <= Rounded(v, 1) /\ Rounded(v, 1) \in Nat
  BY <1>1, RoundsWithin, Zenon
<1> QED
  BY <1>1, <1>2, SMTT(30)

\* The unit in the last place of a number below 2^(n + Precision).
LEMMA LastPlaceIs ==
    ASSUME NEW v \in Nat, NEW n \in Nat, n <= 2 * BudgetBits, v < 2 ^ (n + Precision)
    PROVE  \E k \in 0 .. n :
              /\ LastPlace(v) = 2 ^ k /\ v < 2 ^ (k + Precision)
              /\ k # 0 => 2 ^ ((k - 1) + Precision) <= v
<1> DEFINE J == {j \in 0 .. 2 * BudgetBits : v < 2 ^ (j + Precision)}
           U == {2 ^ j : j \in J}
<1>1. BudgetBits \in Nat /\ Precision \in Nat
  BY BudgetsAssumption
<1>2. J \subseteq Nat /\ n \in J
  BY <1>1
<1>3. PICK k \in J : \A j \in J : k <= j
  <2> HIDE DEF J
  <2> QED
    BY <1>2, LeastOf, Zenon
<1>4. k \in Nat /\ k \in 0 .. 2 * BudgetBits /\ v < 2 ^ (k + Precision) /\ k <= n
  BY <1>2, <1>3, Zenon
<1>5. 2 ^ k \in U /\ \A y \in U : 2 ^ k <= y
  <2>1. ASSUME NEW j \in J PROVE 2 ^ k <= 2 ^ j
    <3>1. k \in Nat /\ j \in Nat /\ k <= j
      BY <1>2, <1>3, <2>1, Zenon
    <3> QED
      BY <3>1, PowMono, Zenon
  <2> QED
    BY <2>1, Zenon
<1>6. \A y \in U : y \in Nat
  BY <1>2, PowType, Zenon
<1>7. LastPlace(v) = Min(U)
  BY Zenon DEF LastPlace
<1> HIDE DEF U
<1>8. Min(U) \in U /\ \A y \in U : Min(U) <= y
  BY <1>5, Zenon DEF Min
<1>9. Min(U) <= 2 ^ k /\ 2 ^ k <= Min(U) /\ Min(U) \in Nat /\ 2 ^ k \in Nat
  BY <1>5, <1>6, <1>8, Zenon
<1>10. Min(U) = 2 ^ k
  BY <1>9, SMTT(30)
<1>11. ASSUME k # 0 PROVE 2 ^ ((k - 1) + Precision) <= v
  <2>1. k - 1 \in 0 .. 2 * BudgetBits /\ ~(k <= k - 1) /\ (k - 1) + Precision \in Nat
    BY <1>1, <1>4, <1>11
  <2>2. ~(v < 2 ^ ((k - 1) + Precision))
    BY <1>3, <2>1, Zenon
  <2>3. 2 ^ ((k - 1) + Precision) \in Nat
    BY <2>1, PowType, Zenon
  <2> QED
    BY <2>2, <2>3, SMTT(30)
<1>12. k \in 0 .. n
  BY <1>4, SMTT(30)
<1> QED
  BY <1>4, <1>7, <1>10, <1>11, <1>12, Zenon

\* The conversion of an integer to a double rounds at the last place.
LEMMA ToDoubleIs ==
    ASSUME NEW v
    PROVE  ToDouble(v) = Rounded(v, LastPlace(v))
BY Zenon DEF ToDouble, Rounded, Up

\* double(limit) is exact, or near the limit and at least the power of two below.
LEMMA LimitRounds ==
    ASSUME NEW L \in 0 .. BudgetWord - 1
    PROVE  \E k \in 0 .. BudgetBits - Precision, R \in Nat :
              /\ ToDouble(L) = R /\ R <= 2 ^ (k + Precision)
              /\ 2 * R <= 2 * L + 2 ^ k /\ \E c \in Nat : R = c * 2 ^ k
              /\ k = 0 => R = L
              /\ k # 0 => 2 ^ ((k - 1) + Precision) <= L
              /\ k # 0 => 2 ^ ((k - 1) + Precision) <= R
<1>1. /\ BudgetBits \in Nat /\ Precision \in Nat \ {0} /\ BudgetBits - Precision \in Nat
      /\ BudgetBits - Precision <= 2 * BudgetBits
      /\ (BudgetBits - Precision) + Precision = BudgetBits
  BY BudgetsAssumption
<1>2. L \in Nat /\ L < 2 ^ BudgetBits
  <2>1. 2 ^ BudgetBits \in Nat
    BY <1>1, PowType, Zenon
  <2> QED
    BY <2>1 DEF BudgetWord
<1>3. PICK k \in 0 .. BudgetBits - Precision :
              /\ LastPlace(L) = 2 ^ k /\ L < 2 ^ (k + Precision)
              /\ k # 0 => 2 ^ ((k - 1) + Precision) <= L
  BY <1>1, <1>2, LastPlaceIs, Zenon
<1> DEFINE u == 2 ^ k
           R == Rounded(L, u)
<1>4. k \in Nat /\ u \in Nat /\ u >= 1
  <2>1. k \in Nat
    BY <1>1, <1>3
  <2> QED
    BY <2>1, PowType, Zenon
<1>5. ToDouble(L) = R
  BY <1>3, ToDoubleIs, Zenon
<1>6. 2 ^ Precision \in Nat /\ 2 ^ (k + Precision) = 2 ^ Precision * u
  <2>1. k + Precision = Precision + k
    BY <1>1, <1>4
  <2> QED
    BY <1>1, <1>4, <2>1, PowType, PowSum, Zenon
<1>7. R \in Nat /\ 2 * R <= 2 * L + u /\ \E c \in Nat : R = c * u
  <2> HIDE DEF u, R
  <2>1. \A t \in Nat : Rounded(L, u) \in Nat /\ 2 * Rounded(L, u) <= 2 * L + u
                       /\ \E c \in Nat : Rounded(L, u) = c * u
    BY <1>2, <1>4, RoundsWithin, Zenon
  <2> QED
    BY <1>2, <2>1, Zenon DEF R
<1>8. R <= 2 ^ (k + Precision)
  <2>1. L <= 2 ^ Precision * u
    <3>1. 2 ^ (k + Precision) \in Nat
      <4>1. k + Precision \in Nat
        BY <1>1, <1>4
      <4> QED
        BY <4>1, PowType, Zenon
    <3> QED
      BY <1>2, <1>3, <1>6, <3>1
  <2> HIDE DEF u
  <2>2. Rounded(L, u) <= 2 ^ Precision * u
    BY <1>2, <1>4, <1>6, <2>1, RoundsWithin, Zenon
  <2> QED
    BY <1>6, <2>2, Zenon
<1>9. ASSUME k = 0 PROVE R = L
  BY <1>2, <1>9, PowZero, RoundedToUnits, Zenon
<1>10. ASSUME k # 0 PROVE 2 ^ ((k - 1) + Precision) <= R
  <2>1. k - 1 \in Nat /\ Precision - 1 \in Nat /\ (k - 1) + Precision = (Precision - 1) + k
    BY <1>1, <1>4, <1>10, SMTT(30)
  <2>2. 2 ^ (Precision - 1) \in Nat /\ 2 ^ ((k - 1) + Precision) = 2 ^ (Precision - 1) * u
    BY <1>4, <2>1, PowType, PowSum, Zenon
  <2>3. 2 ^ (Precision - 1) * u <= L
    BY <1>3, <1>10, <2>2, Zenon
  <2> HIDE DEF u
  <2>4. 2 ^ (Precision - 1) * u <= Rounded(L, u)
    BY <1>2, <1>4, <2>2, <2>3, RoundsWithin, Zenon
  <2> QED
    BY <2>2, <2>4, Zenon
<1> HIDE DEF R
<1> QED
  BY <1>3, <1>5, <1>7, <1>8, <1>9, <1>10, Zenon

\* The product with the margin, rounded, stays below the limit.
LEMMA ProductRounds ==
    ASSUME NEW L \in 0 .. BudgetWord - 1, NEW m \in 0 .. 2 ^ Precision - 1
    PROVE  /\ ToDouble(ToDouble(L) * m) \in Nat
           /\ ToDouble(ToDouble(L) * m) <= L * 2 ^ Precision
           /\ m = 0 => ToDouble(ToDouble(L) * m) = 0
<1>1. PICK k \in 0 .. BudgetBits - Precision, R \in Nat :
              /\ ToDouble(L) = R /\ R <= 2 ^ (k + Precision)
              /\ 2 * R <= 2 * L + 2 ^ k /\ \E c \in Nat : R = c * 2 ^ k
              /\ k = 0 => R = L
              /\ k # 0 => 2 ^ ((k - 1) + Precision) <= L
              /\ k # 0 => 2 ^ ((k - 1) + Precision) <= R
  BY LimitRounds, Zenon
<1> DEFINE M == 2 ^ Precision
           u == 2 ^ k
           X == R * m
           n == k + Precision
<1>2. /\ BudgetBits \in Nat /\ Precision \in Nat \ {0} /\ k \in Nat /\ n \in Nat
      /\ n <= 2 * BudgetBits /\ L \in Nat
  <2>1. BudgetBits \in Nat /\ Precision \in Nat \ {0} /\ Precision < BudgetBits
    BY BudgetsAssumption
  <2>2. BudgetWord \in Nat
    BY <2>1, PowType, Zenon DEF BudgetWord
  <2> QED
    BY <1>1, <2>1, <2>2, SMTT(30)
<1>3. M \in Nat /\ M >= 1 /\ u \in Nat /\ u >= 1
  BY <1>2, PowType, Zenon
<1>4. m \in Nat /\ m <= M /\ m + 1 <= M
  <2> HIDE DEF M
  <2>1. m \in 0 .. M - 1
    BY Zenon DEF M
  <2> QED
    BY <1>3, <2>1, SMTT(30)
<1>5. X \in Nat /\ R * M \in Nat /\ X <= R * M /\ X + R <= R * M
  <2> HIDE DEF M
  <2>1. m * R <= M * R /\ (m + 1) * R <= M * R /\ m + 1 \in Nat
    BY <1>3, <1>4, Grows, SMTT(30)
  <2>2. R * m \in Nat /\ R * M \in Nat /\ m * R = R * m /\ M * R = R * M /\ (m + 1) * R = R * m + R
    BY <1>3, <1>4, SMTT(30)
  <2> QED
    BY <2>1, <2>2, Zenon
<1>6. 2 ^ n = u * M /\ 2 ^ n \in Nat /\ 2 ^ n >= 1 /\ 2 ^ (n + Precision) = 2 ^ n * M
  BY <1>2, PowType, PowSum, Zenon
<1>7. X < 2 ^ (n + Precision)
  <2>1. CASE R = 0
    <3>1. X = 0
      BY <1>4, <2>1
    <3>2. n + Precision \in Nat
      BY <1>2, SMTT(30)
    <3>3. 2 ^ (n + Precision) \in Nat /\ 2 ^ (n + Precision) >= 1
      BY <3>2, PowType, Zenon
    <3> HIDE DEF X
    <3> QED
      BY <3>1, <3>3, SMTT(30)
  <2>2. CASE R # 0
    <3>1. X < R * M
      <4> HIDE DEF X, M
      <4>1. \A a, b \in Nat : a + R <= b => a < b
        BY <2>2, SMTT(30)
      <4> QED
        BY <1>5, <4>1, Zenon
    <3>2. R * M <= 2 ^ n * M
      BY <1>1, <1>3, <1>6, Grows, Zenon
    <3>3. 2 ^ n * M \in Nat
      BY <1>1, <1>3, <1>6, Grows, Zenon
    <3> HIDE DEF X, M
    <3>4. \A a, b, c \in Nat : a < b /\ b <= c => a < c
      OBVIOUS
    <3> QED
      BY <1>5, <1>6, <3>1, <3>2, <3>3, <3>4, Zenon
  <2> QED
    BY <2>1, <2>2, Zenon
<1>8. PICK j \in 0 .. n :
              /\ LastPlace(X) = 2 ^ j /\ X < 2 ^ (j + Precision)
              /\ j # 0 => 2 ^ ((j - 1) + Precision) <= X
  <2> HIDE DEF X, n
  <2> QED
    BY <1>2, <1>5, <1>7, LastPlaceIs, Zenon
<1> DEFINE V == 2 ^ j
           Y == Rounded(X, V)
<1>9. j \in Nat /\ V \in Nat /\ V >= 1
  <2>1. j \in Nat
    BY <1>2, <1>8, SMTT(30)
  <2> QED
    BY <2>1, PowType, Zenon
<1>10. ToDouble(ToDouble(L) * m) = Y
  <2>1. ToDouble(ToDouble(L) * m) = ToDouble(X)
    BY <1>1, Zenon
  <2>2. ToDouble(X) = Rounded(X, LastPlace(X))
    BY ToDoubleIs, Zenon
  <2>3. LastPlace(X) = V
    BY <1>8, Zenon
  <2> HIDE DEF X, V
  <2> QED
    BY <2>1, <2>2, <2>3, Zenon
<1>11. Y \in Nat
  <2> HIDE DEF X, V
  <2>1. 0 \in Nat
    OBVIOUS
  <2> QED
    BY <1>5, <1>9, <2>1, RoundsWithin, Zenon
<1>18. ASSUME NEW t \in Nat, X <= t * V PROVE Y <= t * V
  <2> HIDE DEF X, V
  <2> QED
    BY <1>5, <1>9, <1>18, RoundsWithin, Zenon
<1>19. ASSUME NEW t \in Nat, 2 * X + V < 2 * (t * V) PROVE Y + V <= t * V
  <2> HIDE DEF X, V
  <2> QED
    BY <1>5, <1>9, <1>19, RoundsWithin, Zenon
<1>12. m = 0 => Y = 0
  <2>1. SUFFICES ASSUME m = 0 PROVE Y = 0
    BY Zenon
  <2>2. X = 0
    BY <2>1
  <2>3. X <= 0 * V /\ 0 * V = 0 /\ 0 \in Nat
    <3> HIDE DEF X, V
    <3> QED
      BY <1>9, <2>2
  <2>4. Y <= 0
    <3> HIDE DEF X, V, Y
    <3>1. Y <= 0 * V
      BY <1>18, <2>3, Zenon
    <3> QED
      BY <2>3, <3>1, Zenon
  <2> HIDE DEF Y
  <2> QED
    BY <1>11, <2>4
<1>13. L * M \in Nat
  <2> HIDE DEF M
  <2> QED
    BY <1>2, <1>3
<1>14. CASE k = 0
  <2>1. R = L /\ j <= Precision
    <3>1. n = Precision
      BY <1>2, <1>14
    <3> QED
      BY <1>1, <1>2, <1>8, <1>14, <3>1, SMTT(30)
  <2>2. PICK d \in Nat : M = V * 2 ^ d
    BY <1>2, <1>9, <2>1, PowMono, ZenonT(40)
  <2>3. 2 ^ d \in Nat
    BY PowType, Zenon
  <2> HIDE DEF M, V, X, Y
  <2>4. L * 2 ^ d \in Nat /\ L * M = (L * 2 ^ d) * V
    <3>1. \A a, b, c \in Nat : a * b \in Nat /\ a * (c * b) = (a * b) * c
      OBVIOUS
    <3>2. L * 2 ^ d \in Nat /\ L * (V * 2 ^ d) = (L * 2 ^ d) * V
      BY <1>2, <1>9, <2>3, <3>1
    <3> QED
      BY <2>2, <3>2, Zenon
  <2>5. X <= (L * 2 ^ d) * V
    BY <1>5, <2>1, <2>4, Zenon
  <2>6. Y <= L * M
    <3>1. Y <= (L * 2 ^ d) * V
      BY <1>18, <2>4, <2>5, Zenon
    <3> QED
      BY <2>4, <3>1, Zenon
  <2> QED
    BY <1>10, <1>11, <1>12, <2>6, Zenon DEF M
<1> DEFINE h == 2 ^ ((k - 1) + Precision)
<1>15. ASSUME k # 0
       PROVE  /\ (k - 1) + Precision \in Nat /\ ((k - 1) + Precision) + 1 = n
              /\ h \in Nat /\ h <= L /\ h <= R /\ 2 ^ n = h + h
  <2>1. (k - 1) + Precision \in Nat /\ ((k - 1) + Precision) + 1 = n
    BY <1>2, <1>15
  <2>2. h \in Nat /\ 2 ^ n = h + h
    BY <2>1, PowType, PowNext, Zenon
  <2> QED
    BY <1>1, <1>15, <2>1, <2>2, Zenon
<1>16. CASE k # 0 /\ j # n
  <2>1. j <= (k - 1) + Precision
    BY <1>2, <1>8, <1>9, <1>15, <1>16, SMTT(30)
  <2>2. V <= h
    BY <1>9, <1>15, <1>16, <2>1, PowMono, Zenon
  <2>3. V <= L
    <3> HIDE DEF V, h
    <3> QED
      BY <1>2, <1>9, <1>15, <1>16, <2>2
  <2>4. V * M <= L * M /\ V * M \in Nat /\ V * M = M * V
    <3>1. V * M <= L * M /\ V * M \in Nat
      BY <1>2, <1>3, <1>9, <2>3, Grows, Zenon
    <3> HIDE DEF V, M
    <3> QED
      BY <1>3, <1>9, <3>1
  <2>5. X < V * M
    <3>1. 2 ^ (j + Precision) = V * M
      BY <1>2, <1>9, PowSum, Zenon
    <3>2. X < 2 ^ (j + Precision)
      BY <1>8, Zenon
    <3> HIDE DEF V, M, X
    <3> QED
      BY <3>1, <3>2, Zenon
  <2> HIDE DEF V, M, X, Y
  <2>6. X <= M * V
    BY <1>5, <2>4, <2>5
  <2>7. Y <= M * V
    BY <1>3, <1>18, <2>6, Zenon
  <2>8. Y <= L * M
    <3>1. \A a, b, c \in Nat : a <= b /\ b <= c => a <= c
      OBVIOUS
    <3> QED
      BY <1>11, <1>13, <2>4, <2>7, <3>1, Zenon
  <2> QED
    BY <1>10, <1>11, <1>12, <2>8, Zenon DEF M
<1>17. CASE k # 0 /\ j = n
  <2>1. PICK c \in Nat : R = c * u
    BY <1>1, Zenon
  <2>2. V = u * M /\ V = h + h
    BY <1>6, <1>15, <1>17, Zenon
  <2> HIDE DEF u, M, h, V
  <2>3. R * M = c * V
    <3>1. \A x, y, z \in Nat : (x * y) * z = x * (y * z)
      OBVIOUS
    <3>2. (c * u) * M = c * (u * M)
      BY <1>3, <3>1, Zenon
    <3> QED
      BY <2>1, <2>2, <3>2, Zenon
  <2>4. CASE R = h
    <3>1. Y <= R * M
      <4> HIDE DEF X, Y
      <4>1. X <= c * V
        BY <1>5, <2>3, Zenon
      <4>2. Y <= c * V
        BY <1>18, <4>1, Zenon
      <4> QED
        BY <2>3, <4>2, Zenon
    <3>2. R * M <= L * M
      BY <1>2, <1>3, <1>15, <1>17, <2>4, Grows, Zenon
    <3>3. Y <= L * M
      <4>1. \A a, b, d \in Nat : a <= b /\ b <= d => a <= d
        OBVIOUS
      <4> HIDE DEF X, Y
      <4> QED
        BY <1>5, <1>11, <1>13, <3>1, <3>2, <4>1, Zenon
    <3> QED
      BY <1>10, <1>11, <1>12, <3>3, Zenon DEF M
  <2>5. CASE R # h
    <3> DEFINE RM == R * M
               LM == L * M
    <3>1. RM \in Nat /\ LM \in Nat /\ RM = c * V
      BY <1>5, <1>13, <2>3, Zenon
    <3>2. 2 * RM <= 2 * LM + V
      <4>1. 2 * R <= 2 * L + u /\ 2 * R \in Nat /\ 2 * L + u \in Nat
        <5>1. 2 * R <= 2 * L + u
          BY <1>1, Zenon DEF u
        <5> HIDE DEF u
        <5> QED
          BY <1>2, <1>3, <5>1, SMTT(30)
      <4>2. (2 * R) * M <= (2 * L + u) * M
        BY <1>3, <4>1, Grows, Zenon
      <4>3. \A x, y, z \in Nat :
               (2 * x) * z = 2 * (x * z) /\ (2 * x + y) * z = 2 * (x * z) + y * z
        OBVIOUS
      <4>4. (2 * R) * M = 2 * (R * M)
        BY <1>2, <1>3, <4>3
      <4>5. (2 * L + u) * M = 2 * (L * M) + u * M
        BY <1>2, <1>3, <4>3
      <4> QED
        BY <2>2, <4>2, <4>4, <4>5, Zenon
    <3> HIDE DEF RM, LM, X, Y
    <3>3. X + R <= RM /\ h <= R /\ h \in Nat
      BY <1>5, <1>15, <1>17, Zenon DEF RM
    <3>4. 2 * X + V < 2 * RM
      BY <1>5, <2>2, <2>5, <3>1, <3>3
    <3>5. Y + V <= RM
      <4>1. 2 * X + V < 2 * (c * V)
        BY <3>1, <3>4, Zenon
      <4>2. Y + V <= c * V
        BY <1>19, <4>1, Zenon
      <4> QED
        BY <3>1, <4>2, Zenon
    <3>6. Y <= LM
      BY <1>9, <1>11, <3>1, <3>2, <3>5
    <3> QED
      BY <1>10, <1>11, <1>12, <3>6, Zenon DEF LM, M
  <2> QED
    BY <2>4, <2>5, Zenon
<1> QED
  BY <1>14, <1>16, <1>17, Zenon

\* The margin that is kept back never exceeds the limit.
LEMMA ReserveIs ==
    ASSUME NEW L \in 0 .. BudgetWord - 1, NEW m \in 0 .. 2 ^ Precision - 1
    PROVE  /\ ReserveOf(L, m) \in 0 .. L /\ UsableLimit(L, m) = L - ReserveOf(L, m)
           /\ m = 0 => ReserveOf(L, m) = 0
<1> DEFINE M == 2 ^ Precision
           D == ToDouble(ToDouble(L) * m)
           q == D \div M
           W == BudgetWord
<1>1. M \in Nat /\ M >= 1 /\ W \in Nat /\ W >= 1
  <2>1. Precision \in Nat /\ BudgetBits \in Nat
    BY BudgetsAssumption
  <2> QED
    BY <2>1, PowType, Zenon DEF BudgetWord
<1>2. D \in Nat /\ D <= L * M /\ (m = 0 => D = 0)
  BY ProductRounds, Zenon
<1>3. ReserveOf(L, m) = q
  BY Zenon DEF ReserveOf
<1>4. L \in Nat /\ L \in 0 .. W - 1
  <2> HIDE DEF W
  <2>1. L \in 0 .. W - 1
    BY Zenon DEF W
  <2> QED
    BY <1>1, <2>1
<1> HIDE DEF M, D, W
<1>5. q \in Nat /\ D % M \in 0 .. M - 1 /\ D = q * M + (D % M)
  BY <1>1, <1>2, DivMod
<1> HIDE DEF q
<1>6. q <= L
  <2>1. SUFFICES ASSUME L < q PROVE FALSE
    BY <1>4, <1>5
  <2>2. L + 1 <= q /\ L + 1 \in Nat
    BY <1>4, <1>5, <2>1
  <2>3. (L + 1) * M <= q * M /\ q * M \in Nat
    BY <1>1, <1>5, <2>2, Grows, Zenon
  <2>4. (L + 1) * M = L * M + M /\ L * M \in Nat
    BY <1>1, <1>4
  <2> QED
    BY <1>1, <1>2, <1>5, <2>3, <2>4
<1>7. ASSUME m = 0 PROVE q = 0
  <2>1. D = 0
    BY <1>2, <1>7, Zenon
  <2>2. SUFFICES ASSUME q # 0 PROVE FALSE
    BY Zenon
  <2>3. 1 <= q
    BY <1>5, <2>2
  <2>4. 1 * M <= q * M /\ q * M \in Nat
    BY <1>1, <1>5, <2>3, Grows
  <2>5. D >= q * M
    <3> DEFINE y == q * M
               z == D % M
    <3>1. y \in Nat /\ z \in 0 .. M - 1 /\ D = y + z
      BY <1>5, <2>4, Zenon
    <3> HIDE DEF y, z
    <3>2. D >= y
      BY <1>1, <3>1
    <3> QED
      BY <3>2, Zenon DEF y
  <2> QED
    BY <1>1, <2>1, <2>4, <2>5
<1>8. UsableLimit(L, m) = L - q
  <2>1. UsableLimit(L, m) = (W + L - q) % W
    BY <1>3, Zenon DEF UsableLimit, W
  <2>2. W + L - q \in Nat /\ L - q \in 0 .. W - 1 /\ W + L - q = 1 * W + (L - q)
    BY <1>1, <1>4, <1>5, <1>6
  <2> DEFINE x == W + L - q
             r == L - q
             d == x \div W
  <2>3. d \in Nat /\ x % W \in 0 .. W - 1 /\ x = d * W + (x % W)
    BY <1>1, <2>2, DivMod
  <2>4. x = 1 * W + r /\ r \in 0 .. W - 1
    BY <2>2
  <2> HIDE DEF x, r, d
  <2>5. d = 1
    <3>1. ASSUME d = 0 PROVE FALSE
      <4>1. d * W = 0
        BY <1>1, <3>1
      <4> QED
        BY <1>1, <2>3, <2>4, <4>1
    <3>2. ASSUME d >= 2 PROVE FALSE
      <4>1. 2 * W <= d * W /\ d * W \in Nat
        BY <1>1, <2>3, <3>2, Grows
      <4> QED
        BY <1>1, <2>3, <2>4, <4>1
    <3> QED
      BY <2>3, <3>1, <3>2
  <2>6. x % W = r
    BY <1>1, <2>3, <2>4, <2>5
  <2> QED
    BY <2>1, <2>6, Zenon DEF x, r
<1>9. q \in 0 .. L
  BY <1>4, <1>5, <1>6
<1> QED
  BY <1>3, <1>7, <1>8, <1>9, Zenon

-----------------------------------------------------------------------------
(* The budgets.                                                            *)

\* A margin is less than one, and host memory has none; only host memory comes
\* from a device.
BInv ==
    /\ class \in {"tier", "host"} /\ bLimit \in 0 .. BudgetWord - 1
    /\ bMargin \in 0 .. 2 ^ Precision - 1 /\ (class = "host" => bMargin = 0)
    /\ holds \in [Blocks -> {0} \cup Requests]
    /\ blockDevice \in [Blocks -> HostDevices \cup {NoDevice}]
    /\ hostDevice \in HostDevices \cup {NoDevice} /\ pinnedAvailable \in BOOLEAN
    /\ (class = "tier" => \A b \in Blocks : blockDevice[b] = NoDevice)
    /\ BudgetsSound

\* Requests and words are positive numbers.
LEMMA SizesAreNat ==
    /\ {0} \cup Requests \subseteq Nat /\ \A n \in Requests : n # 0 /\ n \in 1 .. BudgetWord - 1
    /\ BudgetWord \in Nat \ {0} /\ 2 ^ Precision \in Nat \ {0}
<1>1. BudgetBits \in Nat /\ Precision \in Nat /\ Requests \subseteq 1 .. BudgetWord - 1
  BY BudgetsAssumption DEF BudgetWord
<1>2. BudgetWord \in Nat /\ BudgetWord >= 1 /\ 2 ^ Precision \in Nat /\ 2 ^ Precision >= 1
  BY <1>1, PowType, Zenon DEF BudgetWord
<1> QED
  BY <1>1, <1>2

\* What is held changes by what the changed block holds.
LEMMA HeldDiffers ==
    ASSUME NEW b \in Blocks, holds \in [Blocks -> Nat], holds' \in [Blocks -> Nat],
           \A x \in Blocks \ {b} : holds'[x] = holds[x]
    PROVE  /\ HeldBytes \in Nat /\ HeldBytes' \in Nat
           /\ HeldBytes' + holds[b] = HeldBytes + holds'[b]
<1> DEFINE F == MapThenSumSet(LAMBDA x : holds[x], Blocks)
           E == MapThenSumSet(LAMBDA x : holds'[x], Blocks)
<1>1. IsFiniteSet(Blocks)
  BY BudgetsAssumption, Zenon
<1>2. F \in Nat /\ E \in Nat /\ E + holds[b] = F + holds'[b]
  BY <1>1, SumChanges, Zenon
<1>3. HeldBytes = F /\ HeldBytes' = E
  BY Zenon DEF HeldBytes, MapThenSumSet, MapThenFoldSet
<1> HIDE DEF F, E
<1> QED
  BY <1>2, <1>3, Zenon

\* A block that changes its size changes what is held by the difference.
LEMMA HeldChanges ==
    ASSUME NEW b \in Blocks, NEW n \in {0} \cup Requests,
           holds \in [Blocks -> {0} \cup Requests], holds' = [holds EXCEPT ![b] = n]
    PROVE  /\ holds' \in [Blocks -> {0} \cup Requests]
           /\ HeldBytes \in Nat /\ HeldBytes' \in Nat /\ HeldBytes' + holds[b] = HeldBytes + n
<1>1. /\ holds' \in [Blocks -> {0} \cup Requests] /\ holds'[b] = n
      /\ \A x \in Blocks \ {b} : holds'[x] = holds[x]
  BY Zenon
<1>2. holds \in [Blocks -> Nat] /\ holds' \in [Blocks -> Nat]
  BY <1>1, SizesAreNat, Zenon
<1>3. /\ HeldBytes \in Nat /\ HeldBytes' \in Nat
      /\ HeldBytes' + holds[b] = HeldBytes + holds'[b]
  BY <1>1, <1>2, HeldDiffers, Zenon
<1> QED
  BY <1>1, <1>3, Zenon

\* What is held depends on the blocks only.
LEMMA HeldSame ==
    ASSUME holds' = holds
    PROVE  HeldBytes' = HeldBytes
  BY Zenon DEF HeldBytes, MapThenSumSet, MapThenFoldSet

\* The reserve depends on the limit and the margin only.
LEMMA ReserveNext == ReserveOf(bLimit, bMargin)' = ReserveOf(bLimit', bMargin')
  BY Zenon DEF ReserveOf, ToDouble, LastPlace, Min

\* A configuration that is accepted,
LEMMA LimitKeeps ==
    ASSUME BInv, NEW limit \in 0 .. BudgetWord - 1, NEW m \in 0 .. 2 ^ Precision - 1,
           class = "host" => m = 0, bUsed <= UsableLimit(limit, m), HeldBytes \in Nat,
           bLimit' = limit, bMargin' = m,
           UNCHANGED <<class, bUsed, holds, hostVars>>
    PROVE  BInv'
<1>1. /\ ReserveOf(limit, m) \in 0 .. limit /\ UsableLimit(limit, m) = limit - ReserveOf(limit, m)
  BY ReserveIs, Zenon
<1>2. bUsed = HeldBytes
  BY Zenon DEF BInv, BudgetsSound
<1>3. limit \in Nat
  BY SizesAreNat
<1>4. HeldBytes + ReserveOf(limit, m) <= limit
  <2> DEFINE r == ReserveOf(limit, m)
             s == HeldBytes
             y == UsableLimit(limit, m)
  <2>1. r \in 0 .. limit /\ y = limit - r /\ s \in Nat /\ s <= y
    BY <1>1, <1>2, Zenon
  <2> HIDE DEF r, s, y
  <2>2. s + r <= limit
    BY <1>3, <2>1
  <2> QED
    BY <2>2, Zenon DEF r, s
<1>5. /\ class' = class /\ bUsed' = bUsed /\ holds' = holds /\ blockDevice' = blockDevice
      /\ hostDevice' = hostDevice /\ pinnedAvailable' = pinnedAvailable
  BY Zenon DEF hostVars
<1>6. HeldBytes' = HeldBytes /\ ReserveOf(bLimit, bMargin)' = ReserveOf(limit, m)
  BY <1>5, HeldSame, ReserveNext, Zenon
<1>7. BudgetsSound'
  <2>1. bUsed' = HeldBytes' /\ HeldBytes' + ReserveOf(bLimit, bMargin)' <= bLimit'
    BY <1>2, <1>4, <1>5, <1>6, Zenon
  <2>2. \A b \in Blocks : blockDevice'[b] # NoDevice =>
           blockDevice'[b] = hostDevice' /\ holds'[b] # 0
    BY <1>5, Zenon DEF BInv, BudgetsSound
  <2> QED
    BY <2>1, <2>2, Zenon DEF BudgetsSound
<1> QED
  BY <1>5, <1>7, Zenon DEF BInv, BudgetWord

\* what is reserved or allocated when it fits,
LEMMA TakeKeeps ==
    ASSUME BInv, NEW b \in Blocks, NEW n \in Requests, holds[b] = 0, Fits(n), TakeBytes(b, n),
           NEW d \in {NoDevice, hostDevice},
           \/ blockDevice' = blockDevice
           \/ class = "host" /\ blockDevice' = [blockDevice EXCEPT ![b] = d],
           UNCHANGED <<hostDevice, pinnedAvailable>>
    PROVE  BInv'
<1>1. /\ bLimit \in 0 .. BudgetWord - 1 /\ bMargin \in 0 .. 2 ^ Precision - 1
      /\ holds \in [Blocks -> {0} \cup Requests] /\ hostDevice \in HostDevices \cup {NoDevice}
      /\ blockDevice \in [Blocks -> HostDevices \cup {NoDevice}]
      /\ bUsed = HeldBytes /\ HeldBytes + ReserveOf(bLimit, bMargin) <= bLimit
      /\ class = "tier" => \A c \in Blocks : blockDevice[c] = NoDevice
      /\ \A c \in Blocks : blockDevice[c] # NoDevice => blockDevice[c] = hostDevice /\ holds[c] # 0
  BY Zenon DEF BInv, BudgetsSound
<1>2. /\ bUsed' = (bUsed + n) % BudgetWord /\ holds' = [holds EXCEPT ![b] = n]
      /\ class' = class /\ bLimit' = bLimit /\ bMargin' = bMargin
      /\ hostDevice' = hostDevice /\ pinnedAvailable' = pinnedAvailable
  BY Zenon DEF TakeBytes
<1>3. /\ holds' \in [Blocks -> {0} \cup Requests] /\ HeldBytes \in Nat
      /\ HeldBytes' \in Nat /\ HeldBytes' + holds[b] = HeldBytes + n
  BY <1>1, <1>2, HeldChanges, Zenon
<1>5. /\ ReserveOf(bLimit, bMargin) \in 0 .. bLimit
      /\ UsableLimit(bLimit, bMargin) = bLimit - ReserveOf(bLimit, bMargin)
  BY <1>1, ReserveIs, Zenon
<1> DEFINE r == ReserveOf(bLimit, bMargin)
           s == HeldBytes
           y == UsableLimit(bLimit, bMargin)
           z == HeldBytes'
<1>6. n <= y /\ s <= y - n
  BY <1>1, Zenon DEF Fits
<1>7. z + 0 = s + n /\ z \in Nat /\ s \in Nat /\ n \in Nat
  <2>1. n \in Nat
    BY SizesAreNat, Zenon
  <2> QED
    BY <1>3, <2>1, Zenon
<1>8. r \in 0 .. bLimit /\ y = bLimit - r
  BY <1>5, Zenon
<1> HIDE DEF r, s, y, z
<1>9. bLimit \in Nat /\ BudgetWord \in Nat \ {0} /\ bLimit < BudgetWord
  BY <1>1, SizesAreNat
<1>10. z = s + n /\ z + r <= bLimit /\ z \in 0 .. BudgetWord - 1
  BY <1>6, <1>7, <1>8, <1>9
<1>11. z % BudgetWord = z
  BY <1>9, <1>10
<1>12. bUsed' = HeldBytes'
  BY <1>1, <1>2, <1>10, <1>11, Zenon DEF s, z
<1>13. ReserveOf(bLimit, bMargin)' = ReserveOf(bLimit, bMargin)
  BY <1>2, ReserveNext, Zenon
<1>14. HeldBytes' + ReserveOf(bLimit, bMargin)' <= bLimit'
  BY <1>2, <1>10, <1>13, Zenon DEF r, z
<1>15. /\ blockDevice' \in [Blocks -> HostDevices \cup {NoDevice}]
       /\ \A c \in Blocks : blockDevice'[c] # NoDevice =>
              blockDevice'[c] = hostDevice' /\ holds'[c] # 0
       /\ class' = "tier" => \A c \in Blocks : blockDevice'[c] = NoDevice
  <2>1. holds'[b] = n /\ n # 0 /\ \A c \in Blocks : c # b => holds'[c] = holds[c]
    BY <1>1, <1>2, SizesAreNat, Zenon
  <2>2. CASE blockDevice' = blockDevice
    BY <1>1, <1>2, <2>1, <2>2, Zenon
  <2>3. CASE class = "host" /\ blockDevice' = [blockDevice EXCEPT ![b] = d]
    <3>1. /\ blockDevice'[b] = d /\ \A c \in Blocks : c # b => blockDevice'[c] = blockDevice[c]
          /\ blockDevice' \in [Blocks -> HostDevices \cup {NoDevice}]
      BY <1>1, <2>3, Zenon
    <3>2. class' # "tier"
      BY <1>2, <2>3
    <3> QED
      BY <1>1, <1>2, <2>1, <3>1, <3>2, Zenon
  <2> QED
    BY <2>2, <2>3, Zenon
<1>16. BudgetsSound'
  BY <1>12, <1>14, <1>15, Zenon DEF BudgetsSound
<1> QED
  BY <1>2, <1>3, <1>15, <1>16, Zenon DEF BInv, BudgetWord

\* and what is given back.
LEMMA GiveBackKeeps ==
    ASSUME BInv, NEW b \in Blocks, GiveBackBytes(b),
           \/ class = "tier" /\ blockDevice' = blockDevice
           \/ blockDevice' = [blockDevice EXCEPT ![b] = NoDevice],
           UNCHANGED <<hostDevice, pinnedAvailable>>
    PROVE  BInv'
<1>1. /\ bLimit \in 0 .. BudgetWord - 1 /\ bMargin \in 0 .. 2 ^ Precision - 1
      /\ holds \in [Blocks -> {0} \cup Requests] /\ hostDevice \in HostDevices \cup {NoDevice}
      /\ blockDevice \in [Blocks -> HostDevices \cup {NoDevice}]
      /\ bUsed = HeldBytes /\ HeldBytes + ReserveOf(bLimit, bMargin) <= bLimit
      /\ class = "tier" => \A c \in Blocks : blockDevice[c] = NoDevice
      /\ \A c \in Blocks : blockDevice[c] # NoDevice => blockDevice[c] = hostDevice /\ holds[c] # 0
  BY Zenon DEF BInv, BudgetsSound
<1>2. /\ bUsed' = bUsed - holds[b] /\ holds' = [holds EXCEPT ![b] = 0]
      /\ class' = class /\ bLimit' = bLimit /\ bMargin' = bMargin
      /\ hostDevice' = hostDevice /\ pinnedAvailable' = pinnedAvailable
  BY Zenon DEF GiveBackBytes
<1>3. /\ holds' \in [Blocks -> {0} \cup Requests] /\ HeldBytes \in Nat
      /\ HeldBytes' \in Nat /\ HeldBytes' + holds[b] = HeldBytes + 0
  BY <1>1, <1>2, HeldChanges, Zenon
<1>5. ReserveOf(bLimit, bMargin) \in 0 .. bLimit
  BY <1>1, ReserveIs, Zenon
<1> DEFINE r == ReserveOf(bLimit, bMargin)
           s == HeldBytes
           h == holds[b]
           z == HeldBytes'
<1>6. z + h = s + 0 /\ z \in Nat /\ s \in Nat /\ h \in Nat
  <2>1. h \in Nat
    BY <1>1, SizesAreNat, Zenon
  <2> QED
    BY <1>3, <2>1, Zenon
<1>7. r \in 0 .. bLimit /\ s + r <= bLimit
  BY <1>1, <1>5, Zenon
<1> HIDE DEF r, s, h, z
<1>8. bLimit \in Nat
  BY <1>1, SizesAreNat
<1>9. z = s - h /\ z + r <= bLimit
  BY <1>6, <1>7, <1>8
<1>10. bUsed' = HeldBytes'
  BY <1>1, <1>2, <1>9, Zenon DEF s, h, z
<1>11. ReserveOf(bLimit, bMargin)' = ReserveOf(bLimit, bMargin)
  BY <1>2, ReserveNext, Zenon
<1>12. HeldBytes' + ReserveOf(bLimit, bMargin)' <= bLimit'
  BY <1>2, <1>9, <1>11, Zenon DEF r, z
<1>13. /\ blockDevice' \in [Blocks -> HostDevices \cup {NoDevice}]
       /\ \A c \in Blocks : blockDevice'[c] # NoDevice =>
              blockDevice'[c] = hostDevice' /\ holds'[c] # 0
       /\ class' = "tier" => \A c \in Blocks : blockDevice'[c] = NoDevice
  <2>1. \A c \in Blocks : c # b => holds'[c] = holds[c]
    BY <1>1, <1>2, Zenon
  <2>2. CASE class = "tier" /\ blockDevice' = blockDevice
    BY <1>1, <1>2, <2>1, <2>2, Zenon
  <2>3. CASE blockDevice' = [blockDevice EXCEPT ![b] = NoDevice]
    <3>1. /\ blockDevice'[b] = NoDevice
          /\ \A c \in Blocks : c # b => blockDevice'[c] = blockDevice[c]
          /\ blockDevice' \in [Blocks -> HostDevices \cup {NoDevice}]
      BY <1>1, <2>3, Zenon
    <3> QED
      BY <1>1, <1>2, <2>1, <3>1, Zenon
  <2> QED
    BY <2>2, <2>3, Zenon
<1>14. BudgetsSound'
  BY <1>10, <1>12, <1>13, Zenon DEF BudgetsSound
<1> QED
  BY <1>2, <1>3, <1>13, <1>14, Zenon DEF BInv, BudgetWord

\* What is held is a number.
LEMMA HeldType ==
    ASSUME BInv
    PROVE  HeldBytes \in Nat
<1>1. holds \in [Blocks -> Nat] /\ IsFiniteSet(Blocks)
  BY SizesAreNat, BudgetsAssumption, Zenon DEF BInv
<1>2. CASE Blocks = {}
  <2>1. \A x \in Blocks : holds[x] = 0
    BY <1>2, Zenon
  <2>2. HeldBytes = 0
    BY <1>1, <2>1, SumZero, Zenon DEF HeldBytes
  <2> QED
    BY <2>2
<1>3. CASE Blocks # {}
  <2>1. PICK b \in Blocks : TRUE
    BY <1>3, Zenon
  <2>2. \A x \in Blocks \ {b} : holds[x] = holds[x]
    BY Zenon
  <2> QED
    BY <1>1, <2>1, <2>2, SumChanges, Zenon DEF HeldBytes
<1> QED
  BY <1>2, <1>3, Zenon

\* Every step of TierBudget and HostBackend keeps the invariant.
LEMMA BInvStep == BInv /\ [BNext]_bvars => BInv'
<1> SUFFICES ASSUME BInv, [BNext]_bvars PROVE BInv'
  OBVIOUS
<1>1. HeldBytes \in Nat
  BY HeldType, Zenon
<1>2. CASE UNCHANGED bvars
  <2>1. /\ class' = class /\ bLimit' = bLimit /\ bMargin' = bMargin /\ bUsed' = bUsed
        /\ holds' = holds /\ UNCHANGED <<class, bUsed, holds, hostVars>>
    BY <1>2, Zenon DEF bvars, budgetVars
  <2>2. /\ bLimit \in 0 .. BudgetWord - 1 /\ bMargin \in 0 .. 2 ^ Precision - 1
        /\ (class = "host" => bMargin = 0) /\ bUsed = HeldBytes
        /\ HeldBytes + ReserveOf(bLimit, bMargin) <= bLimit
    BY Zenon DEF BInv, BudgetsSound
  <2>3. /\ ReserveOf(bLimit, bMargin) \in 0 .. bLimit
        /\ UsableLimit(bLimit, bMargin) = bLimit - ReserveOf(bLimit, bMargin)
    BY <2>2, ReserveIs, Zenon
  <2>4. bUsed <= UsableLimit(bLimit, bMargin)
    <3> DEFINE r == ReserveOf(bLimit, bMargin)
               s == HeldBytes
    <3>1. r \in 0 .. bLimit /\ s + r <= bLimit /\ s \in Nat
      BY <1>1, <2>2, <2>3, Zenon
    <3>2. bLimit \in Nat
      BY <2>2, SizesAreNat
    <3> HIDE DEF r, s
    <3>3. s <= bLimit - r
      BY <3>1, <3>2
    <3> QED
      BY <2>2, <2>3, <3>3, Zenon DEF r, s
  <2> QED
    BY <1>1, <2>1, <2>2, <2>4, LimitKeeps, Zenon
<1>3. ASSUME NEW limit \in 0 .. BudgetWord - 1, NEW m \in 0 .. 2 ^ Precision, SetLimit(limit, m)
      PROVE  BInv'
  <2>1. /\ class = "tier" /\ m < 2 ^ Precision /\ bUsed <= UsableLimit(limit, m)
        /\ bLimit' = limit /\ bMargin' = m /\ UNCHANGED <<class, bUsed, holds, hostVars>>
    BY <1>3, Zenon DEF SetLimit, MarginAllowed
  <2>2. m \in 0 .. 2 ^ Precision - 1 /\ class # "host"
    BY <2>1, SizesAreNat
  <2> QED
    BY <1>1, <2>1, <2>2, LimitKeeps, Zenon
<1>4. ASSUME NEW limit \in 0 .. BudgetWord - 1, SetBudget(limit) PROVE BInv'
  <2>1. /\ class = "host" /\ bUsed <= limit /\ bLimit' = limit /\ bMargin' = bMargin
        /\ UNCHANGED <<class, bUsed, holds, hostVars>>
    BY <1>4, Zenon DEF SetBudget
  <2>2. bMargin = 0 /\ bMargin \in 0 .. 2 ^ Precision - 1
    BY <2>1, Zenon DEF BInv
  <2>3. ReserveOf(limit, bMargin) = 0 /\ UsableLimit(limit, bMargin) = limit - ReserveOf(limit, bMargin)
    BY <2>2, ReserveIs, Zenon
  <2>4. UsableLimit(limit, bMargin) = limit
    <3>1. limit \in Nat
      BY SizesAreNat
    <3>2. limit - 0 = limit
      BY <3>1
    <3> QED
      BY <2>3, <3>2, Zenon
  <2>5. bUsed <= UsableLimit(limit, bMargin)
    BY <2>1, <2>4, Zenon
  <2> QED
    BY <1>1, <2>1, <2>2, <2>5, LimitKeeps, Zenon
<1>5. ASSUME NEW d \in HostDevices \cup {NoDevice}, SetDeviceBackend(d) PROVE BInv'
  <2>1. /\ class = "host" /\ MayAttach(d) /\ hostDevice' = d /\ class' = class
        /\ bLimit' = bLimit /\ bMargin' = bMargin /\ bUsed' = bUsed /\ holds' = holds
        /\ blockDevice' = blockDevice /\ pinnedAvailable' \in {FALSE, d # NoDevice}
    BY <1>5, Zenon DEF SetDeviceBackend, budgetVars
  <2>2. pinnedAvailable' \in BOOLEAN
    BY <2>1, Zenon
  <2>3. /\ bUsed = HeldBytes /\ HeldBytes + ReserveOf(bLimit, bMargin) <= bLimit
        /\ \A c \in Blocks : blockDevice[c] # NoDevice => blockDevice[c] = hostDevice /\ holds[c] # 0
    BY Zenon DEF BInv, BudgetsSound
  <2>4. \A c \in Blocks : blockDevice'[c] # NoDevice => blockDevice'[c] = hostDevice' /\ holds'[c] # 0
    BY <2>1, <2>3, Zenon DEF MayAttach
  <2>5. HeldBytes' = HeldBytes
    BY <2>1, HeldSame, Zenon
  <2>6. ReserveOf(bLimit, bMargin)' = ReserveOf(bLimit, bMargin)
    BY <2>1, ReserveNext, Zenon
  <2>7. bUsed' = HeldBytes' /\ HeldBytes' + ReserveOf(bLimit, bMargin)' <= bLimit'
    BY <2>1, <2>3, <2>5, <2>6, Zenon
  <2>8. BudgetsSound'
    BY <2>4, <2>7, Zenon DEF BudgetsSound
  <2>9. class' # "tier"
    BY <2>1
  <2> QED
    BY <2>1, <2>2, <2>8, <2>9, Zenon DEF BInv, BudgetWord
<1>6. ASSUME NEW b \in Blocks, ReleaseReserved(b) \/ HostFree(b) PROVE BInv'
  <2>1. CASE ReleaseReserved(b)
    BY <2>1, GiveBackKeeps, Zenon DEF ReleaseReserved, hostVars
  <2>2. CASE HostFree(b)
    BY <2>2, GiveBackKeeps, Zenon DEF HostFree
  <2> QED
    BY <1>6, <2>1, <2>2, Zenon
<1>7. ASSUME NEW b \in Blocks, NEW n \in Requests, TryReserve(b, n) PROVE BInv'
  <2>1. NoDevice \in {NoDevice, hostDevice}
    BY Zenon
  <2> QED
    BY <1>7, <2>1, TakeKeeps, Zenon DEF TryReserve, hostVars
<1>8. ASSUME NEW b \in Blocks, NEW n \in Requests, NEW pageable \in BOOLEAN,
             HostAllocate(b, n, pageable)
      PROVE  BInv'
  <2> DEFINE d == IF pageable THEN NoDevice ELSE hostDevice
  <2>1. d \in {NoDevice, hostDevice}
    BY Zenon
  <2>2. /\ class = "host" /\ holds[b] = 0 /\ Fits(n) /\ TakeBytes(b, n)
        /\ blockDevice' = [blockDevice EXCEPT ![b] = d] /\ UNCHANGED <<hostDevice, pinnedAvailable>>
    BY <1>8, Zenon DEF HostAllocate
  <2> HIDE DEF d
  <2> QED
    BY <2>1, <2>2, TakeKeeps, Zenon
<1> QED
  BY <1>2, <1>3, <1>4, <1>5, <1>6, <1>7, <1>8, Zenon DEF BNext

\* It holds of a new budget.
LEMMA BInvInit == BInit => BInv
<1> SUFFICES ASSUME BInit PROVE BInv
  OBVIOUS
<1>1. /\ class \in {"tier", "host"} /\ bLimit = 0 /\ bMargin = 0 /\ bUsed = 0
      /\ holds = [b \in Blocks |-> 0] /\ blockDevice = [b \in Blocks |-> NoDevice]
      /\ hostDevice = NoDevice /\ pinnedAvailable = FALSE
  BY Zenon DEF BInit
<1>2. 0 \in 0 .. BudgetWord - 1 /\ 0 \in 0 .. 2 ^ Precision - 1
  BY SizesAreNat
<1>3. HeldBytes = 0
  <2>1. holds \in [Blocks -> Nat] /\ \A x \in Blocks : holds[x] = 0
    BY <1>1
  <2>2. IsFiniteSet(Blocks)
    BY BudgetsAssumption, Zenon
  <2> QED
    BY <2>1, <2>2, SumZero, Zenon DEF HeldBytes
<1>4. ReserveOf(bLimit, bMargin) = 0
  BY <1>1, <1>2, ReserveIs, Zenon
<1>5. HeldBytes + ReserveOf(bLimit, bMargin) <= bLimit
  BY <1>1, <1>3, <1>4
<1>6. BudgetsSound
  BY <1>1, <1>3, <1>5, Zenon DEF BudgetsSound
<1> QED
  BY <1>1, <1>2, <1>6, Zenon DEF BInv

\* So it always holds.
LEMMA BInvAlways == BSpec => []BInv
BY BInvInit, BInvStep, PTL DEF BSpec

\* TierBudget and HostBackend never overcommit, for any word size and precision:
\* used_ is the sum of what is held, and with the margin, rounded as the code
\* rounds it, it fits into every limit that set_limit accepts; a pinned block
\* belongs to the device that is attached.
THEOREM BudgetsStaySound == BSpec => []BudgetsSound
<1>1. BInv => BudgetsSound
  BY Zenon DEF BInv
<1> QED
  BY <1>1, BInvAlways, PTL

\* The counters of a budget stay words: no sum of sizes wraps around.
THEOREM BudgetTypes == BSpec => []BTypeOK
<1>1. BInv => BTypeOK
  <2> SUFFICES ASSUME BInv PROVE BTypeOK
    OBVIOUS
  <2>1. /\ bLimit \in 0 .. BudgetWord - 1 /\ bMargin \in 0 .. 2 ^ Precision - 1
        /\ bUsed = HeldBytes /\ HeldBytes + ReserveOf(bLimit, bMargin) <= bLimit
        /\ blockDevice \in [Blocks -> HostDevices \cup {NoDevice}]
        /\ hostDevice \in HostDevices \cup {NoDevice}
    BY Zenon DEF BInv, BudgetsSound
  <2>2. ReserveOf(bLimit, bMargin) \in 0 .. bLimit /\ HeldBytes \in Nat
    BY <2>1, ReserveIs, HeldType, Zenon
  <2>3. HeldBytes \in 0 .. BudgetWord - 1
    <3> DEFINE r == ReserveOf(bLimit, bMargin)
               s == HeldBytes
    <3>1. r \in 0 .. bLimit /\ s \in Nat /\ s + r <= bLimit
      BY <2>1, <2>2, Zenon
    <3> HIDE DEF r, s
    <3>2. s \in 0 .. BudgetWord - 1
      BY <2>1, <3>1, SizesAreNat
    <3> QED
      BY <3>2, Zenon DEF s
  <2>4. bMargin \in 0 .. 2 ^ Precision
    BY <2>1, SizesAreNat
  <2>5. {hostDevice} \cup {blockDevice[b] : b \in Blocks} \subseteq HostDevices \cup {NoDevice}
    BY <2>1, Zenon
  <2> QED
    BY <2>1, <2>3, <2>4, <2>5, Zenon DEF BTypeOK, BInv
<1> QED
  BY <1>1, BInvAlways, PTL
=============================================================================
