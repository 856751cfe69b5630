# A TLA+ model of FlashTier

FlashTier keeps fixed-size pages in three tiers: device memory (VRAM), host
memory and a file on NVMe. Callers allocate, write, read, pin and free pages and
ask for them to be resident in VRAM; the runtime evicts, loads and promotes
pages to meet such demands inside its budgets, with a pool of worker threads and
asynchronous store operations. This directory holds TLA+ modules that model the
runtime from its source, the TLC configurations that check them on small
instances, and proofs that TLAPS checks for every instance. `PROJECT.json` lists
components, runs, mutants, findings, hazards and theorems, and maps every
definition that models code to the lines it was translated from.

Paths below are relative to the repository root (`src/` in `PROJECT.json`).

## The system

| Part | State | Operations that change it | Touches |
|---|---|---|---|
| Page state machine (`page.cpp`) | `PageMetadata::state`, `dirty`, `has_nvme_copy`, `in_flight`, `pinned`, pointers, offset, checksum | `transition` | everything that holds `state_mu_` |
| Page table (`page_table.cpp`) | map from id to entry | `insert`, `with`, `erase`, `copy_of` | page operations, transfer steps |
| Transfer steps (`runtime.cpp` 1577–1669, 1774–2069) | the claim on a page, host buffers, extents | `claim_host_buffer`, `reserve_nvme_range_locked`, `evict_vram_to_host`, `evict_host_to_nvme`, `load_nvme_to_host`, `promote_host_to_vram` | table, budgets, device, host memory, store |
| Page operations (`runtime.cpp` 543–1180) | `next_page_id_`, entries | `allocate_page`, `free_page`, `write_page`, `fill_page`, `pin`, `evict`, `demote_*`, `promote` | table, transfer steps |
| Demand chains (`runtime.cpp` 1488–1576, 1670–1773, 2151) | attempt counters, deadlines | `load_page`, `ensure_vram_headroom`, `wait_settled` | planner, transfer steps |
| Transfer engine (`runtime.cpp` 1347–1487) | `queue_`, `pending_prefetches_`, `queue_cv_`, promises | `submit_demand`, `submit_prefetch`, `remove_queued_prefetch`, `worker_loop` | lifecycle, demand chains |
| Lifecycle (`runtime.cpp` 97–540) | `running_`, `stopping_`, the workers, open backends | `start`, `shutdown`, `shutdown_locked` | all parts |
| Tier budgets (`allocator.cpp`) | `used`, `limit`, margin, high-water | `try_reserve`, `force_reserve`, `release`, `set_limit` | transfer steps, lifecycle |
| Host memory (`host_backend.cpp`) | ledger of blocks, attached device, budget | `allocate`, `free`, `set_budget`, `set_device_backend` | transfer steps, lifecycle, device |
| Planner and policies (`planner.cpp`, `policy.cpp`) | budgets copied into the planner | `choose_allocation_tier`, `set_budgets`, `plan_evictions`, `rank_victims` | demand chains |
| NVMe store (`nvme_backend.cpp`, `storage_backend.cpp`) | extents, operations in progress, worker threads | `allocate_extents`, `free_extents`, reads and writes, `cancel_all`, `flush`, `close` | transfer steps, lifecycle |
| Store file (`nvme_backend.cpp`) | the file at a path, its lock, size and header | `open`, `close`, `destroy_file` | other processes, lifecycle |
| Device backends (`backends/`) | ledgers of memory, streams and events; what the driver holds | open, close, allocate, free, copy, wait | transfer steps, lifecycle |
| Telemetry, registry, configuration, integrity, workloads, command line | counters, sinks, names | sequential | – |

Locks are taken in the order `lifecycle_control_mu_`, `lifecycle_mu_`,
`headroom_mu_`, `state_mu_`, `device_io_mu_`, `queue_mu_`. A transfer has three
parts: a section of `state_mu_` that claims the page (state and `in_flight`
together), a copy outside the lock, and a section that completes or undoes it.
`headroom_mu_` is kept while a buffer claim evicts victims, writes to the store
included. `queue_cv_` is shared by workers that wait for work and callers that
wait for space.

What makes it hard: claims that race for one page; victims ranked in one section
and claimed in a later one; an extent taken from a resident page for another
page's write; any device, host or store call failing at any point, also inside
the undoing of another failure; releases split over several sections; prefetches
and demands racing for the last place in one queue; a shutdown at any moment.

What has to be true, per part:

- *state machine and table*: no section is left half-way by an exception of
  `transition`; a settled page has memory in its own tier and in no other;
- *transfer steps*: one thread at a time works on a page, every claimed page is
  settled, no completed write is lost, a page marked as stored really is, the
  headroom lock is always released;
- *budgets, host memory, extents*: each counter is exactly the memory that is
  live or being handed over; no extent is shared or lost;
- *callers*: the tiers together behave like a plain store of values;
- *engine and lifecycle*: a demand is answered exactly once, a prefetch is not
  queued twice, the queue is bounded, shutdown ends and leaves nothing behind;
- *demand chains*: every operation ends, an undisturbed one needs almost none of
  its attempts, an error is justified, and the loops do nothing but call the
  transfer steps under the checks those make;
- *planner*: a plan frees enough, names no protected page, is a prefix of the
  policy's order and does not use host memory twice;
- *store*: extents in use are disjoint, an operation is answered once and only
  when its buffer and extents are free again, `flush` covers what came before,
  `close` ends and strands nobody;
- *store file*: an open store is valid whatever crashed before it, and has one
  user;
- *start and shutdown with failures*: nothing is closed under what depends on it,
  nothing a page holds is forgotten, and repeating a shutdown gets it released,
  with every backend that nothing depends on any more;
- *device backends*: ledgers agree with the driver, copies stay inside live
  memory, calls come back;
- *arithmetic*: no budget, size or offset wraps around.

## Modules

| Module | Contents |
|---|---|
| `PageStates` | the states of `page.hpp` and `TransitionAllowed` (`page.cpp`) |
| `Residency` | page table, transfer steps, allocation and release of pages, budgets, extents; their properties |
| `PageStore` | the abstract specification: a store of values without tiers |
| `ResidencyStore` | the refinement mapping from `Residency` to `PageStore` |
| `MCResidency` | instances of `ResidencyStore` for TLC |
| `TransferQueue`, `MCTransferQueue` | request queue, workers, callers, admission and shutdown; its instances |
| `Planner` | `plan_evictions` as an operator |
| `DemandPath`, `MCDemandPath` | the loops around the transfer steps, over the state of `Residency`; their instances |
| `NvmeStore` | extents, asynchronous operations, workers, cancellation, flush and close of the store |
| `StoreFile` | how a store obtains, validates and deletes its file |
| `Lifecycle` | what `start` and `shutdown_locked` acquire and release, with failures |
| `Devices` | CPU, CUDA and HIP backends and the synchronous copy helpers |
| `Budgets` | `TierBudget` and `HostBackend` in bytes |
| `Algorithms` | pure computations, the LRU order among them, compared with what they should return |
| `MCComponents` | instances of the six modules before it |
| `StepContracts` | what the transfer steps promise the loops that call them |
| `ResidencyProofs`, `ResidencyBudgets` | theorems about `Residency`: claims, states, contents, extents and the refinement of `PageStore`; budgets |
| `DemandProofs` | the loops of `DemandPath` take steps of `Residency` only; lemmas on jobs that are alone |
| `RefinementProofs` | what follows for the loops: the invariants of `Residency`, `PageStore`, and the progress of jobs that are alone |
| `TransferQueueProofs`, `NvmeStoreProofs` | theorems about `TransferQueue` and `NvmeStore` |
| `ComponentProofs` | theorems about `Lifecycle`, `StoreFile` and `Budgets` |
| `DeviceProofs` | theorems about `Devices` |

How they fit together. `DemandPath` extends `Residency` and is proved to take only
its steps (`ImplementsResidency`); `Residency` is proved to implement `PageStore`.
The calls `Residency` makes to the device, to host memory and to the store
succeed, refuse or fail in it; `Devices`, `Budgets` and `NvmeStore` model what
is behind them. `TransferQueue` has the threads that run `load_page`, and
`Lifecycle` begins where `TransferQueue`'s shutdown has joined them. `NvmeStore`
begins with the file that `StoreFile` obtained.

### Residency

One action is one critical section of `state_mu_` or one copy outside it. `pc[t]`
is the point thread `t` is at, `task[t]` the function it is in, `page[t]` and
`victim[t]` the page it was called for and the page it evicts for a buffer.

- `EvictVramToHost`, `LoadNvmeToHost` enter `claim_host_buffer` (`HostBuf*`,
  `VictimCheck`), which may call `evict_host_to_nvme` on its victims; then
  `EvictVramClaim/Copy/CopyFails/Done` and `LoadClaim/Read/ReadFails/Done`;
- `PromoteHostToVram`, `PromoteCopy/CopyFails/Done`;
- `EvictHostClaim/Reserve/Skip/Throws/Write/WriteFails/Done`, called by a thread
  of its own or for a victim; `ReserveNvmeRange` is `reserve_nvme_range_locked`
  with the extents it takes from resident pages;
- `AllocatePage`, `AllocVramReserve/VramDevice/HostBuffer/HostInsert/Nvme`;
- `FreePage`, `FreeVram/VramBudget/Host/Nvme/NvmeEntry/NvmeBudget/End`, each of
  which may fail and lets the release go on with `failed[t]`;
- `WritePage`, `WritePageFails`, `CleanDrop` (the shortcut in `evict`), `Pin`.

An idle thread may call any step on any page. That covers every order in which
`load_page`, `ensure_vram_headroom`, `demote_*` and `evict` call the steps, and
more, so what holds of safety here holds under their control as well.

Abstractions, all of data or of order:

- every page takes one unit of each budget and one extent (`cfg_.page_size`);
- any order of victims is allowed, which covers every policy; the 64 rounds of
  `claim_host_buffer` are left out: it may give up at the head of any round;
- contents are model values, `Garbage` is memory nobody wrote or a torn copy, a
  checksum is the content it was computed from;
- a pointer is `Null` or the content of the memory it points to;
- `reserve_nvme_range_locked` is one step, as it runs inside one section;
- in `free_page`, `device_free` and the clearing of `vram_ptr` are one step:
  nothing else looks at a page in state Released;
- `read_page`, `verify_page` and introspection change none of this state;
- the fault kinds in `Faults` say which calls of the environment may fail;
- ids are never reused, so `Pages` bounds the number of allocations; a state in
  which all are used up and no thread can move stutters (`Exhausted`).

`torn` and `uncounted` are history variables. No guard reads them.

### TransferQueue

One action is one critical section of `queue_mu_`, one notification of
`queue_cv_` (the code notifies after it left the lock) or one use of a promise.
`waiting` is the set of threads blocked on `queue_cv_`; `NotifyOne` removes any
one of them, whichever kind it is, and a wait may return without a
notification. `load_page` is one step that succeeds or throws. `start` can fail
after some workers exist. `shutdown` is a sequence of steps: stop admission,
cancel, notify, wait for public operations, cancel again, join. `MaxStarts`
bounds the number of starts.

### Planner and DemandPath

`Planner` has `PlanEvictions`, a fold over the ranked candidates; `RankVictims`
(least recently used first, ties by id) is in `Algorithms`. `DemandPath` adds to every
thread a `job`: the public operation it runs, a label between two step functions,
the attempts and rounds it used, and what it read in an earlier section
(candidates, budgets, decisions). A step function runs to its end by the actions
of `Residency`, and `Inner` tells from the thread's locals whether it returned
normally. `planner` is the planner's copy of the budgets, which
`ensure_vram_headroom` sets in one section and reads in another. The order of
the victims is free, which covers every policy.

- `LoadHead/Loaded/Promote/Promoted/WaitSettled`: an attempt of `load_page`;
- `Room/Snapshot/ReadBudgets/SetBudgets/Plan/Decide/DemoteVictim/VictimDemoted/SpillVictim/HeadroomWait`:
  a round of `ensure_vram_headroom`; `Deadline` is its time limit;
- `DemoteHead/DemoteEnd`, `EvictHead/EvictDrop`, `ReadHead/VerifyHead/Copy`: the
  other operations; `RequestStop` is `stopping_` set by a shutdown.

A `device_free` that throws in a clean drop (lines 1083 and 1720) leaves the page
as it was and ends the job; it is the fault `dropFree`, which only this module reads.

`scenario`, chosen once, says which operations the threads of an instance may
call and which pages others may write, pin or free meanwhile. `MaxAttempts` and
`MaxRounds` (2 each) stand for 16 and 64: with two pages a job that needs a third
attempt needs it because of the other thread. A demand is run by the thread that
waits for it; the hand-over to a worker is `TransferQueue`'s subject.

### NvmeStore

The file has two implementations of one class, for POSIX and for Windows; `os`
picks one in `Init`. An action is one section of `impl->mu` or one system call.
`Posix*` and `Windows*` actions share the parts both have (`Register`, `Retire`,
`RetireThenAnswer`, `FlushBegin/FlushWait/FlushSync`, `Closed`). A thread whose label is
not idle holds `lifecycle_mu_`; so at most one of submission, flush and close is
in progress. On POSIX a worker takes an operation from the queue and does the
transfer; `cancel_all` answers what is queued. On Windows the kernel runs every
operation (`KernelEnds`), its packets wait in the completion port, and
`CancelIoEx` only asks. An operation number is used again when its caller lets go
of it (`Wait`), so behaviours are unbounded with `MaxOps` operations.

### StoreFile

One action is one system call of `open`, `close` or `destroy_file`. Processes
share one path; inodes, descriptors, `flock` locks (of inodes) and Windows share
modes are modelled as such, and external. A process may crash at any step
(`Crash`: its descriptors and locks go, the file stays as it is), and the power
may fail (`PowerLoss`: what was not synchronised may be lost or torn). `auto` is
the path the runtime derives from its process id, `retain` its configuration.

### Lifecycle

The steps of `start()` in their order and those of `shutdown_locked` in theirs,
each of which may fail (`MaxFailures` bounds how often). `live` is what the
allocators really hold, `table` what the page table names, `left` the pages the
current teardown has not visited. What happens between start and shutdown is
`Residency`'s subject; here it is reduced to what it leaves for the teardown:

- `PageMoves`: a page comes, goes or is settled elsewhere. `HandleSets` are the
  handles of a settled page: host memory, device memory or an extent, or memory
  with an extent.
- `EvictionAbandoned`, `PromotionAbandoned`: a movement throws between the
  allocation of the second memory and the release of the first (`runtime.cpp` 1812,
  1826, 2039, 2053). The page has both memories, with or without an extent, stays
  in flight and moves no more. At line 2039 its reservation is gone already
  (`uncounted`, a history variable, which only the count of reservations reads).
- `BufferLost`: the pinned buffer claimed for a page that is busy or gone cannot be
  freed, and the exception is swallowed (1787 and 1797–1799, 1938 and 1947–1949).
  The host allocator's ledger keeps it (`lost`), and no page names it.

`MaxFailures` bounds these failures together with those of the teardown. Pages of
one run may have pinned and pageable memory side by side, which is more than
`cfg_.use_pageable_fallback`, fixed for a run, allows.

### Devices and Budgets

`Devices` has one instance of either backend (`backend`, chosen in `Init`) with
`driver` and `record`, what the vendor driver holds and what the ledgers say.
CPU calls are single steps under one mutex. A CUDA call makes its driver call,
then takes `mu` to record the result (`CudaAcquire`, `CudaRecord`); an error
goes through `check()`, which takes `mu` as well; waits hold `mu`. HIP keeps no
ledger: its callers pass live handles, and only the helpers' property says
something about it. The driver is external: it makes, destroys, refuses, and
finishes its work in its own time.

`Budgets` has words of `BudgetBits` bits and doubles of `Precision` bits, so that
limits beyond the precision and sums beyond the word occur among a few dozen
numbers, as they do at 2^53 and 2^64 in the code.

### Algorithms

A behaviour is one call. `PlanEvictions`, `ParseBytesize`, `ValidStoreGeometry`
with `ValidIoRequest` and the address arithmetic, `AnnotateNextUse` and
`SelectAutomatic` are translated with the code's order of checks and its
wrap-around, and compared with definitions that say what the result is.

## Runs

| Run | Instance | Properties | States, time |
|---|---|---|---|
| `residency_safety` | 3 pages, 2 threads, 1 value; room for 1 page in VRAM, 1 in host, 2 extents; no faults | `ClaimsExclusive`, `OneAuthoritativeCopy`, `NoLostWrite`, `StoreCopyValid`, `ExtentsExclusive`, `BudgetsExact`, `TransitionsLegal` | 0.8 million, 1 min |
| `residency_faults` | 2 pages, 2 threads, 2 values, 1 unit of each tier, every fault | `Inductive` (with `TypeOK`) | 1.8 million, 2 min |
| `residency_live` | 2 pages, 2 threads, 1 value, failing transfers, pins of one page, fairness | `TransfersSettle`, `HeadroomReleased`, `ImplementsPageStore` | 385 thousand, 2 min |
| `queue` | 2 callers, 2 workers, 2 pages, both depths 1, 2 starts, fairness | `TypeOK`, `DemandHeldOnce`, `PrefetchDeduplicated`, `StoppedStaysEmpty`, `ShutdownCompletes`, `DemandAnsweredUnlessFull` | 278 thousand, 95 s |
| `demand` | 2 pages, 2 threads, room for 1 page in VRAM and 1 in host, 2 extents, failing device allocations and frees of a drop, four scenarios, fairness | `LoneJobProgresses`, `ImplementsResidency`, `JobsEnd` | 114 thousand, 80 s |
| `components` | see below | the 20 properties of the six modules | 181 thousand, 2 min |
| `pinned_victim`, `stuck_in_flight`, `device_overcommit`, `torn_write`, `queue_lost_wakeup`, `spurious_budget` | the smallest instance that shows it | one each | violated, see Findings |

The modules that `components` runs share no state, so it does not run them side by
side: `part` chooses one, the others stay in an initial state, and the states of
the run are the sum of the six and not their product.

| Part | Instance | Properties |
|---|---|---|
| `NvmeStore` | 2 callers, 2 workers, 2 extents in ranges of 1 and 2, 2 operations, both systems | `ExtentsAccounted`, `InProgressOwned`, `AnsweredIsOver`, `FlushCoversWrites`, `NoneStranded`, `StoreResponds` |
| `StoreFile` | 2 processes, 2 geometries, automatic and explicit paths, both systems | `OpenIsValid`, `OneUser`, `OpenStaysLinked`, `LeftoverNeverBlocks` |
| `Lifecycle` | 2 pages, 3 failures | `BackendOutlivesMemory`, `NothingForgotten`, `ReleasedWhenSaid`, `TeardownConverges` |
| `Devices` | 2 callers (one may use the copy helpers), 2 buffers (1 on CUDA and HIP), 1 stream, 1 event, 1 copy in progress | `LedgerExact`, `CopiesLand`, `CallsReturn` |
| `Budgets` | words of 5 bits, doubles of 3, every limit and margin, 2 blocks, 2 devices | `BudgetsSound` |
| `Algorithms` | words of 9 bits; the inputs of `MCComponents` | `ResultsExact` |

`ComponentsTypeOK` is their type invariant. Deadlock is not checked in this run:
a pure computation ends, and a store whose callers have stopped calling rests.

Why these bounds are enough to be interesting. With more pages than the places
of a tier every step meets a full tier: victims are ranked and lost to the other
thread, extents are reclaimed from resident pages, reservations fail after the
tier was chosen. Two threads give every pair of steps in either order; the
proofs of the claim discipline are for any number of them. Three pages are
needed for a buffer claim of one page, a victim, and a third page whose extent
is reclaimed. `residency_safety` has one value: with `Garbage`, which is what
memory holds before the first write, it tells the copies made before that write
from the later ones, but not a rewrite with another value. That case is in
`residency_faults`, which has two values and whose `Inductive` contains
`NoLostWrite` and `StoreCopyValid`; the proofs are for any set of values. In the queue,
two callers and depth 1 make a caller wait; two workers race for one request;
two starts exercise what a shutdown leaves for the next start. In `demand`, two
loads compete for one device page, a victim is evicted or freed while it is
planned for, a page is pushed back under a read, and a thread runs undisturbed.
In the store, two operations of one caller can be at different stages of two
workers while the other caller frees, flushes, cancels or closes; the proofs
cover any number. Three failures let a release, the close of the backend and the
retry of both fail, or a movement, the release of what it left and a close. Two processes and a crash reach every order of create, lock,
header and unlink. Words of 5 and 9 bits have the wrap-arounds of 64 bits in reach,
with the constants scaled to match (`UnitBits`, `HeaderBlock`, the limits of a file
and of a transfer). For the store geometry the inputs are small stores and the
neighbourhood of each limit: capacities and pages about the largest transfer, the
largest file and the largest word, so that each guard of `validate_store_geometry`
is the one that refuses some input.

In `Devices` a caller that waits for its first lock of `mu` has done nothing yet and
counts as idle, so `CallsReturn` is about calls that got that far. With
`MaxWork = 1` there is one copy outstanding on the device at a time; that callers
who keep adding work delay a `sync_all` for ever is outside this instance.

Symmetry is used over pages, threads and values in `residency_safety` and
`residency_faults` only; no definition tells members of these sets apart.

Each property of a passing run has a mutant: a named defect next to the
definition it replaces (a dropped guard, a missing reset, a missing
notification), with which TLC finds the property violated.

### Fairness

`Residency!FairSpec` assumes that a thread inside a step function takes its next
step when it can: these are threads of the operating system that hold no lock
across their copies other than `headroom_mu_`, and copies end or throw. It does
not assume that anyone calls a function, writes or pins. Whether a call of the
environment fails is never assumed. `TransferQueue!FairSpec` assumes the same of
callers and workers inside an operation, and of the thread in `start` or
`shutdown`; it does not assume that a wait returns without a notification, nor
that anybody calls an operation, `start` or `shutdown`.

`DemandFairSpec` is weakly fair to a thread inside a job and to the passing of
time at the loops that have a deadline. It is strongly fair where the code waits
on `state_cv_` or for `headroom_mu_`: a waiter that is woken again and again finds
the page settled once, and gets a mutex that is released again and again.
`wait_settled` has no deadline, so without this `JobsEnd` does not hold: a
scheduler may let a waiter look only while the page is claimed.

`StoreFairness`: a call in progress, a worker and the kernel go on; nobody has to
call `wait`, `flush` or `close`. `TeardownFairness`: the steps of `start` and
`shutdown_locked` go on, and after an error `shutdown` is called again, which is
what the code offers for it; failures are finitely many. `DeviceFairness`: the
driver finishes its copies, and `mu` goes to a caller that keeps asking for it.

## Findings

Each is a run that TLC ends with a counterexample. For the second, third and
fourth it is proved that without the failure they name the property holds (see
Proofs).

- **A pinned page is evicted** (`pinned_victim`, `runtime.cpp:1608`).
  `claim_host_buffer` excludes pinned pages when it ranks victims and does not
  look again when it evicts them. A comment says "never pinned".
- **A page stays in flight for ever** (`stuck_in_flight`, `runtime.cpp:1826`).
  If `device_free` throws in the completion of an eviction, nobody settles the
  page. The same holds for `host_.free` at lines 1905 and 2053.
- **Live device memory beyond the budget** (`device_overcommit`,
  `runtime.cpp:2038`). A promotion whose copy fails releases its reservation
  before `device_free`; if that throws too, the memory is live and uncounted.
- **A clean page that differs from its stored copy** (`torn_write`,
  `runtime.cpp:842`). A device write that fails part-way changes no flag.
- **A lost wakeup** (`queue_lost_wakeup`, `runtime.cpp:1418`). `submit_demand`
  uses `notify_one` on the condition variable that workers and callers share.
  When a caller waits for space, it can get the notification of a push and wait
  again, while the worker sleeps on a non-empty queue. As long as no
  caller waits for space this cannot happen (`DemandAnsweredUnlessFull`).
- **A load fails although room is about to appear** (`spurious_budget`,
  `planner.cpp:77`). `plan_evictions` passes over pages in flight and throws
  Budget when the others do not suffice; `ensure_vram_headroom` lets the exception
  through. A load fails at once while the only page in device memory is being
  evicted, where comments promise no "spurious budget error" and to "wait for
  workers to settle and retry" (`runtime.cpp` 1513–1515, 1763–1764).

Met while reading, without a run of their own:

- `ARCHITECTURE.md` describes prefetches otherwise than the single deque of the
  code has them: they are not bounded by `prefetch_depth` alone (lines 208–209;
  `runtime.cpp:1438`), not queued apart from demands (lines 183–184;
  `runtime.cpp:1409`), and a demand does not replace a queued prefetch of its page
  (lines 188–189; `runtime.cpp:1416`).
- On POSIX `destroy_file` checks the lock of the file it opened and then unlinks
  the path. When two processes share an explicit path without `retain_store`, the
  path may name another file by then, which can be an open store
  (`nvme_backend.cpp:1437`: "cannot delete an open store"). `OpenStaysLinked`
  claims this for automatic paths and for Windows only.
- A failed `flock` leaves the file that was just created; opening a valid existing
  store does not synchronise a header a crashed creator left unsynchronised; a
  `destroy_file` that fails in `shutdown_locked` is not tried again by a repeated
  shutdown.
- After a pinned buffer was lost (`BufferLost`), `set_device_backend(nullptr)`
  throws in every shutdown (`host_backend.cpp` 67–75, `runtime.cpp:511`): the device
  stays open, `shutdown` reports an error each time and `start` is refused.
  `TeardownConverges` says that everything else is released nevertheless.
- `HipBackend::close` may throw, although `device_backend.hpp:110` says "idempotent;
  safe from the destructor", and keeps no ledger, although `hip_backend.cpp` 5–6
  wants both backends "conformance-identical". A copy whose `sync_stream` failed may
  still be in progress when the helper throws. `mu` of the CUDA backend is held
  during waits, so one waiting call delays the others (`CallsReturn` says they
  still return).
- `emit_event` (`runtime.cpp:674`) is not guarded: if a sink throws, `allocate_page`
  throws after the page was inserted, and its id is lost until shutdown.

## Proofs

Each group is for every value of the constants that satisfies the named `ASSUME`s
of its module; TLC evaluates these on the instances.

### Residency: claims and states

For any finite sets of pages and threads, any values, budgets in `Nat`, any set
of faults and any set of pages that may be pinned: `TypeCorrect`
(`[]TypeOK`), `ClaimsAreExclusive` (`[]ClaimsExclusive`), `OneCopyIsAuthoritative`
(`[]OneAuthoritativeCopy`) and `TransitionsAreLegal` (`TransitionsLegal`). They
follow from `ShapeInvariant`, `Spec => []Shape`, where

    Shape == TypeOK /\ ThreadShape /\ EntryShape /\ ClaimsExclusive

`ClaimsExclusive` is not inductive by itself. A thread at a copy is alone on its
page because its page is in flight, and a claim needs a page that is not:
this wants `EntryShape`, which says that a page is in flight in its transfer
states. That the completion of a victim's eviction settles the right page wants
`ThreadShape`, which says when `victim[t]` is set. That an allocation inserts an
entry for an id nobody else has wants the second conjunct of `ThreadShape`. And
`OneAuthoritativeCopy` follows from `EntryShape`, whose conjuncts on the
transfer states carry the copies across a transfer.

The argument is by frames. A step of thread `t` changes the entry of one page
`x`, the one it works on, and the locals of `t`; the exception is a reservation
that takes the extent of a page that is settled elsewhere (`LosesExtent`). Then
it is shown, function by function, that a step leaves `x` and `t` as `Shape` wants
them and that no other thread works on `x` unless its entry is unchanged
(`Effect`), so that every other page and thread is as it was (`ShapeKept`).

### Residency: contents and extents

`WritesAreKept` (`[]NoLostWrite`), `StoreCopiesAreValid` (`[]StoreCopyValid`) and
`ExtentsAreExclusive` (`[]ExtentsExclusive`), with any faults, follow from
`ContentsInvariant`, `Spec => []Contents`: `Shape`, `ExtentsExclusive`, what a
page's copies contain (`ContentOK`), and that at the end of a copy the two
buffers agree (`CopyOK`). The last is what makes it inductive: the completion of
a transfer makes the copy authoritative that was filled in an earlier section,
and in between other threads reserve, reclaim and write extents. They cannot
touch this one, because extents are exclusive, because an extent is taken only
from a page that is settled in another tier, and because only the owner of a
page writes its extent. For the page a step works on, `Outcome` says that its
value stays, is new, is written, or is torn by a failed write to the device; for
the others that it stays.

### Residency: budgets

`BudgetsAreExact` (`[]BudgetsExact`) counts: each budget is the number of pages
and of calls in progress that hold memory, or an extent, of its tier (plus, in
the host tier, what was leaked) and is within its limit. The proof
goes through the functions and shows that a step changes a budget by what its
own page and its own thread come to hold or give back (`Account`), in one of a
few ways, and then turns this into cardinalities of finite sets.
`reserve_nvme_range_locked` is apart: it frees the extent of a second page, the
one with the lowest offset, and that there is one is shown with the
well-foundedness of the naturals. `InductiveHolds` collects all of this as
`Inductive`, the formula `residency_faults` checks.

### Residency: how far three findings reach

Three properties that a run refutes are proved under exactly the failures that
must be absent, with all the others allowed, so that the findings are known to
have no second cause:

- `PagesInFlightHaveOwners` (`[]InFlightHasOwner`): while `device_free` and
  `host_.free` do not fail, a page in flight has a thread that is going to settle
  it. Failed copies, reads and writes do not matter: each function settles its page
  on these paths before it returns (`Answers`).
- `DeviceIsNotOvercommitted` (`[]DeviceNotOvercommitted`): unless the copy of a
  promotion and `device_free` can both fail, the live device memory is within the
  budget. Then nothing is uncounted, and `BudgetsExact` bounds the rest.
- `CleanCopiesMatch` (`[]CleanCopyMatches`): unless a device write fails
  part-way, a clean page with a stored copy equals it, during transfers too.

### Refinement

`StoreImplemented`: unless `deviceWrite` is among the faults, every behaviour of
`Residency` is one of `PageStore`, under the mapping of `ResidencyStore`. The
assumption cannot be dropped: a write to the device that fails part-way leaves a
value that no caller wrote (`torn_write`). The proof is `Outcome` for the page of
the step and the transitions of `LegalChange` for its status; the fairness that
`residency_live` adds is not part of it.

`LoopsTakeSteps`: every step of `DemandPath`, in any scenario, is a step of
`Residency` or leaves its variables alone. What has to be shown is that the step
functions are called with the arguments and in the states that `Residency`
allows, whatever was planned from a stale snapshot; it rests on the lookups, which
throw for an id that has no entry (`InTable`). `LoopsKeepInductive` and
`LoopsImplementStore` combine the two: what is proved of the steps in any order
holds of the loops.

### DemandPath: jobs that are alone

`LoneJobsProgress` (`[]LoneJobProgresses`): for any pages, budgets, faults and
scenarios, a job that no other caller interferes with uses at most two of its
attempts and never waits in `ensure_vram_headroom`. The hypothesis
`MaxAttempts > 1` is true of the code's 16 and cannot be dropped: a second attempt
is really needed when the eviction that makes headroom takes the host buffer of
the page that is being loaded. It follows from `LoneInvariant`,
`DemandSpec => []LoneInv`:

- between two step functions a job relies on what its label says (`Ready`). In
  particular the candidates of the snapshot are still in device memory when the
  plan is made and when its victim is looked up; the planner has the budgets that
  were just read; a second attempt begins with the headroom the first one made and
  with its page in the host tier;
- inside a step function (`Called`) the page it was called for stays where the
  function expects it.

What a step function does to its page is a contract (`StepContracts`): if it
returns normally the page is in the tier it was to be brought to, and no step of
it but the promotion takes device memory. `ResidencyProofs` proves the contracts
from `Shape` (`PromisesKept`); the lemmas on the loops have them as hypotheses,
one lemma per action; `RefinementProofs` combines them.

That a round never ends without a victim and without headroom is a fact about
`plan_evictions`, a fold. The demand is for one page, so the fold is decided by
the first candidate: `PlanRuns` exhibits the function of the fold, `PlanOfOne`
shows that every function satisfying its equation agrees with it (a smallest
counterexample has a smaller one), and `PlanNamesVictim` concludes that a plan
without headroom names one of the candidates or fails.

### TransferQueue

For any callers, workers and pages, any positive depths and any number of starts:
`QueueIsBounded` (`[]TypeOK`), `DemandsAreHeldOnce` (`[]DemandHeldOnce`),
`PrefetchesAreDeduplicated` (`[]PrefetchDeduplicated`) and `StoppedQueueIsEmpty`
(`[]StoppedStaysEmpty`), from `QueueInvariant`, `Spec => []QueueInv`.

A promise is satisfied by whoever has the request, so `DemandOK` follows the
demands of a caller through the queue, the hands of the workers and the list
that shutdown took: there is one, in one of these places, exactly while the
promise is unset. `PrefetchOK` does the same for the prefetch of a page and
`pending_prefetches_`. To be inductive they want what a worker's label says of its
hand (`WorkerOK`), that a caller in an operation has a page (`CallerOK`), and what
the phase of `start` and `shutdown` says of the engine (`PhaseOK`): requests are
queued only while it is up, the list of the cancelled is empty outside
cancellation, so that stopping twice loses none, and a start finds no worker with
a request, so that clearing `pending_prefetches_` forgets none. That
`remove_queued_prefetch` erases exactly the one prefetch is a fact about a loop
over the queue (`Without`); it is proved from the uniqueness of the loop's
function, by minimal counterexample, for a queue of any length.

### NvmeStore

For any callers, extents, range lengths and number of operations, and any
non-empty set of workers (the code starts four): `AnsweredOperationsAreOver`,
`OperationsStayOwned`, `FlushCovers` and `CloseStrandsNobody`, the theorems of
`AnsweredIsOver`, `InProgressOwned`, `FlushCoversWrites` and `NoneStranded`.

    StoreInv == StoreShape /\ QueueShape /\ WorkerShape /\ OpShape /\ PlaceShape
                /\ CallShape /\ DrainShape /\ CountsIo /\ SpansHeld

That an answer means the end of the I/O wants the state of every operation
(`OpShape`) and what a worker's label says of the one in its hand
(`WorkerShape`), for which no two workers may have the same one; this in turn
wants an operation to be in the queue at most once and there exactly when its
I/O has not started, or its packet was not taken (`QueueShape`). That `close`
strands nobody wants to know who has an operation that is neither queued nor in
the kernel (`PlaceShape`), that a worker which left on Windows left nothing
pending, and that a closed store has no workers (`DrainShape`). That `flush`
covers an operation wants that none can be submitted meanwhile (`CallShape`: one
call under `lifecycle_mu_` at a time). That a range under a transfer is not freed
wants the counters to be the numbers of operations (`CountsIo`, with the library's
facts on cardinality), and these to lie in ranges of their callers (`SpansHeld`).
`Workers # {}` is needed because a store without workers is closed at once.
The proof has one lemma per action and per conjunct a frame lemma, which says
what the conjunct depends on.

`ExtentsStayAccounted` (`[]ExtentsAccounted`) is about the extents, and has an
invariant of its own, `ExtentInv`. To `ExtentsAccounted` it adds that the free list
names no extent twice, which is why its length counts the free ones; that a caller
holds nothing or one run, which is what `free_extents` is given; and what all of
this is while the store is closed. `allocate_extents` erases a run from the middle
of the list: `Unlisted`, the loop that does it, is shown to keep exactly the
elements outside the run, in order and none twice, for a list of any length, again
by a smallest counterexample. `StoreTypeCorrect` is `[]TypeOK`.

### StoreFile and Lifecycle

For any finite set of processes and any geometries, with crashes and losses of
power: `FileHasOneUser`, `OpenStoreIsValid`, `OpenStoreStaysLinked` and
`LeftoverIsNoObstacle`. `FileInv` relates descriptors, locks and labels in both
directions (`LocksHeld`, `LocksOwned`, `DescriptorsHeld`), says what was written
at each label (`ContentWritten`), that the path names the file in use when the
path is automatic or the build is Windows (`Linked`, with `OneAtATime` and
`WindowsLabels`), and that `start` finds a valid leftover or none at an automatic
path without `retain_store` (`LeftoverFits`).

For any finite set of pages and any number of failures: `BackendsOutliveMemory`,
`TeardownForgetsNothing` and `ReleasedIsReleased`, with the failures of movements
included that leave a page with both memories, device memory uncounted or a buffer
lost. `LInv` says that the table names
what is held, what is open at each step of `start` (`OpenedSoFar`), that a page
the teardown visited and could not release was noted before a backend is closed
(`KeptIsNoted`), and that as long as no call failed everything visited is gone
(`QuietSoFar`). `BudgetsCount` is proved beside it: the NVMe budget is the number of
pages with an extent, and the device budget is at most the number of pages with
device memory and short of it by at most `uncounted`. A release that would take it
below zero throws and changes nothing; this happens when uncounted memory is given
back, and it is why the second is a bound and not an equation. `NothingForgotten`
needs both. So does `TeardownTypes` (`[]LTypeOK`). `FileTypes` is `[]FileTypeOK`.

### Budgets

For any width of a word, any smaller precision of a double, any finite set of
blocks and any requests that are words: `BudgetsStaySound` (`[]BudgetsSound`)
and `BudgetTypes` (`[]BTypeOK`), from `BInv`. The bookkeeping is the sum
`HeldBytes`, a fold; that one block changes it by the difference is proved as
for `Devices`.

What is special here is the margin, `uint64_t(double(limit) * margin)`: the
limit is rounded to a double, possibly upwards, and the product is rounded
again. That the result is never above the limit (`ReserveIs`), so that the
subtraction in `UsableLimit` does not wrap around, rests on `set_limit` refusing
a margin of one. A limit that is a double is a bound for the product, and
rounding does not pass it. Otherwise `double(limit)` exceeds the limit by at
most half a unit of its last place (`LimitRounds`). If the product has a smaller
exponent, or `double(limit)` is a power of two, the product is rounded to at
most that power, which is not above the limit; in the remaining case it lies
more than half a unit below `double(limit)` and is rounded to at most a whole
unit below, which makes up for the first rounding (`ProductRounds`). The provers
know nothing of powers of two; the facts needed (`PowNext`, `PowSum`, `PowMono`)
are derived from the library's theorem that a set of n elements has 2^n subsets.

### Devices

For any callers, streams, events and sizes, any finite set of blocks, any bound on
the copies in progress and each of the three backends: `LedgersAreExact`
(`[]LedgerExact`), `CopiesAlwaysLand` (`[]CopiesLand`) and `DeviceTypes`
(`[]DTypeOK`), from `DeviceInvariant`, `DSpec => []DInv`. The assumption is that
blocks, streams and events are different handles.

A CUDA call talks to the driver before it takes the mutex, so the ledger alone is
never equal to what the driver holds. `Placed` says where each object is accounted
for: in the ledger, under the class the driver has for it, or in the hands of one
call, or among what was lost. `CallOK` says that a call with an object in its hands
runs against an open CUDA backend and that a helper creates a stream and nothing
else. That a helper's copy is over when it returns wants `HelperOK`: while it waits,
every copy of its own in its stream is among those it waits for. The copies stay
inside live memory (`Lands`) because a driver frees memory only when none of the
copies it has still to do uses it.

`Counted` equates `allocated_bytes_` with the sum of the sizes of the blocks. The
sum is the fold `MapThenSumSet`; that changing one summand changes the sum by the
difference is proved by looking at a smallest set for which it does not, with the
library's well-foundedness of strict inclusion, and that the fold exists at all by
exhibiting a solution of its equation, the number of `Cells`.

### Only model-checked

- *Liveness under fairness* is beyond the prover: `TransfersSettle`,
  `HeadroomReleased`, `ShutdownCompletes`, `DemandAnsweredUnlessFull`, `JobsEnd`,
  `StoreResponds`, `TeardownConverges`, `CallsReturn`.
- `ResultsExact` compares recursive and folded definitions with what they should
  return for every input, and the LRU order is a sort: this needs induction over
  data, and `Algorithms` uses operators no theorem can be stated beside.
- `ComponentsTypeOK` is the conjunction of the types of five modules in the
  instance that runs them side by side. Each conjunct is a theorem of its own
  module: `StoreTypeCorrect`, `FileTypes`, `TeardownTypes`, `DeviceTypes`,
  `BudgetTypes`.

## The refinement mapping

`ResidencyStore` maps a page to what a caller sees: its status and the content of
its authoritative copy (in VRAM, in the host buffer or in its extent, depending
on its state). `ImplementsPageStore` says that evictions, loads, promotions,
clean drops and reclaimed extents are all invisible: only a creation, a write, a
failure that puts the page in state Error, and a release are steps of the
abstract store. The instance leaves out the fault `deviceWrite`, whose torn
content no specification of a caller allows (see `torn_write`).

`ImplementsResidency` is the specification of `Residency` as a property of
`DemandPath`: the loops read in one section and act in another, and this says
that what they do is still guarded by the checks made under `state_mu_`.

## Not modelled

The list of components in `PROJECT.json` gives the status of every part. Left out:

- *telemetry, prefetch marks*: nothing the runtime decides reads them; that an
  eviction of a prefetched page from host memory to the store keeps its mark only
  affects a counter;
- *predictive policy score*: floating-point arithmetic on timestamps; any order of
  victims is allowed where it would be used;
- *`force_reserve` and the high-water mark*: unused by the runtime;
- *Vulkan, Level Zero and Metal backends*: placeholders whose operations report
  Unsupported; *`unified_memory.cu`* and *`fill_device_pattern`*: a benchmark and a
  kernel of its own;
- *hash function and fill pattern* of the integrity check: a checksum is modelled
  as the content;
- *workload generators, configuration files, names and errors, command line,
  benchmarks, probing of devices*: sequential data conversion, input and output.
