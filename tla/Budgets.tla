------------------------------- MODULE Budgets ------------------------------
(***************************************************************************)
(* The byte budgets: TierBudget (allocator.cpp) for device memory and the  *)
(* store, HostBackend (host_backend.cpp) for host memory.  Both count what *)
(* is held against a limit; TierBudget keeps a margin of it back, computed *)
(* in floating point, and HostBackend remembers which device a pinned      *)
(* block came from.  Every call is one critical section of the object's    *)
(* mutex.                                                                  *)
(*                                                                         *)
(* Words have BudgetBits bits (64 in the code) and a double has Precision  *)
(* bits (53).  A margin m stands for the double m / 2^Precision.           *)
(***************************************************************************)
EXTENDS Naturals, FiniteSets, FiniteSetsExt

CONSTANTS
    BudgetBits, Precision,
    Requests,      \* sizes that are asked for
    Blocks,        \* reservations, or host memory blocks
    HostDevices, NoDevice

ASSUME BudgetsAssumption ==
    /\ Precision \in Nat \ {0} /\ BudgetBits \in Nat /\ Precision < BudgetBits
    /\ Requests \subseteq 1 .. 2 ^ BudgetBits - 1
    /\ IsFiniteSet(Blocks) /\ NoDevice \notin HostDevices

VARIABLES
    class,                  \* which of the two classes this object is
    bLimit, bMargin, bUsed, \* limit_, margin_, used_
    holds,                  \* the size of every live reservation or block, or 0
    blockDevice,            \* the device of a pinned block
    hostDevice, pinnedAvailable

budgetVars == <<bLimit, bMargin, bUsed, holds>>
hostVars == <<blockDevice, hostDevice, pinnedAvailable>>
bvars == <<class, budgetVars, hostVars>>

BudgetWord == 2 ^ BudgetBits

BInit ==
    /\ class \in {"tier", "host"}
    /\ bLimit = 0 /\ bMargin = 0 /\ bUsed = 0 /\ holds = [b \in Blocks |-> 0]
    /\ blockDevice = [b \in Blocks |-> NoDevice]
    /\ hostDevice = NoDevice /\ pinnedAvailable = FALSE

-----------------------------------------------------------------------------
\* A number rounded to a double: to the nearest, ties to even.
LastPlace(v) == Min({2 ^ k : k \in {j \in 0 .. 2 * BudgetBits : v < 2 ^ (j + Precision)}})

ToDouble(v) ==
    LET u == LastPlace(v)
        up == 2 * (v % u) > u \/ (2 * (v % u) = u /\ (v \div u) % 2 = 1)
    IN  (v \div u + (IF up THEN 1 ELSE 0)) * u

\* uint64_t(double(limit) * margin): the product is rounded again, then cut off.
ReserveOf(limit, m) == ToDouble(ToDouble(limit) * m) \div 2 ^ Precision

\* Unsigned subtraction.
UsableLimit(limit, m) == (BudgetWord + limit - ReserveOf(limit, m)) % BudgetWord

\* Defect: a margin of one is accepted.
MarginAllowsOne(m) == m <= 2 ^ Precision

MarginAllowed(m) == m < 2 ^ Precision

Fits(n) ==
    LET usable == UsableLimit(bLimit, bMargin) IN n <= usable /\ bUsed <= usable - n

-----------------------------------------------------------------------------
(* TierBudget.                                                             *)

SetLimit(limit, m) ==
    /\ class = "tier" /\ MarginAllowed(m) /\ bUsed <= UsableLimit(limit, m)
    /\ bLimit' = limit /\ bMargin' = m
    /\ UNCHANGED <<class, bUsed, holds, hostVars>>

TakeBytes(b, n) ==
    /\ bUsed' = (bUsed + n) % BudgetWord /\ holds' = [holds EXCEPT ![b] = n]
    /\ UNCHANGED <<class, bLimit, bMargin>>

GiveBackBytes(b) ==
    /\ bUsed' = bUsed - holds[b] /\ holds' = [holds EXCEPT ![b] = 0]
    /\ UNCHANGED <<class, bLimit, bMargin>>

TryReserve(b, n) ==
    class = "tier" /\ holds[b] = 0 /\ Fits(n) /\ TakeBytes(b, n) /\ UNCHANGED hostVars

\* "tier budget release exceeds reserved usage" otherwise.
ReleaseReserved(b) ==
    class = "tier" /\ holds[b] # 0 /\ holds[b] <= bUsed /\ GiveBackBytes(b) /\ UNCHANGED hostVars

-----------------------------------------------------------------------------
(* HostBackend.  The runtime configures it without a margin.  A failure of *)
(* the allocator, or of free_host_pinned, changes nothing.                 *)

SetBudget(limit) ==
    /\ class = "host" /\ bUsed <= limit /\ bLimit' = limit
    /\ UNCHANGED <<class, bMargin, bUsed, holds, hostVars>>

MayAttach(d) == d # hostDevice => \A b \in Blocks : blockDevice[b] = NoDevice

\* The capability of the device is asked for once, here.
SetDeviceBackend(d) ==
    /\ class = "host" /\ MayAttach(d) /\ hostDevice' = d
    /\ pinnedAvailable' \in {FALSE, d # NoDevice}
    /\ UNCHANGED <<class, budgetVars, blockDevice>>

HostAllocate(b, n, pageable) ==
    /\ class = "host" /\ holds[b] = 0 /\ Fits(n) /\ (pageable \/ pinnedAvailable)
    /\ TakeBytes(b, n)
    /\ blockDevice' = [blockDevice EXCEPT ![b] = IF pageable THEN NoDevice ELSE hostDevice]
    /\ UNCHANGED <<hostDevice, pinnedAvailable>>

HostFree(b) ==
    /\ class = "host" /\ holds[b] # 0 /\ GiveBackBytes(b)
    /\ blockDevice' = [blockDevice EXCEPT ![b] = NoDevice]
    /\ UNCHANGED <<hostDevice, pinnedAvailable>>

BNext ==
    \/ \E limit \in 0 .. BudgetWord - 1, m \in 0 .. 2 ^ Precision : SetLimit(limit, m)
    \/ \E limit \in 0 .. BudgetWord - 1 : SetBudget(limit)
    \/ \E d \in HostDevices \cup {NoDevice} : SetDeviceBackend(d)
    \/ \E b \in Blocks : ReleaseReserved(b) \/ HostFree(b)
    \/ \E b \in Blocks, n \in Requests :
           TryReserve(b, n) \/ \E pageable \in BOOLEAN : HostAllocate(b, n, pageable)

BSpec == BInit /\ [][BNext]_bvars

-----------------------------------------------------------------------------
\* The counters stay words of the machine, and a block is pageable or belongs to
\* a device.
BTypeOK ==
    /\ bLimit \in 0 .. BudgetWord - 1 /\ bMargin \in 0 .. 2 ^ Precision
    /\ bUsed \in 0 .. BudgetWord - 1 /\ holds \in [Blocks -> {0} \cup Requests]
    /\ {hostDevice} \cup {blockDevice[b] : b \in Blocks} \subseteq HostDevices \cup {NoDevice}
    /\ pinnedAvailable \in BOOLEAN

HeldBytes == MapThenSumSet(LAMBDA b : holds[b], Blocks)

\* "never silently overcommits" (allocator.hpp): used_ is what is really held, so
\* no sum wraps around and release never throws "tier budget release exceeds
\* reserved usage"; and what is held and the margin that is kept back fit into the
\* limit together, for every limit and margin that set_limit accepts, although the
\* margin is computed from a rounded limit.  A pinned block belongs to the device
\* that is attached, so it is given back to the device it came from.
BudgetsSound ==
    /\ bUsed = HeldBytes
    /\ HeldBytes + ReserveOf(bLimit, bMargin) <= bLimit
    /\ \A b \in Blocks : blockDevice[b] # NoDevice =>
           blockDevice[b] = hostDevice /\ holds[b] # 0
=============================================================================
