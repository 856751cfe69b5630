----------------------------- MODULE Algorithms -----------------------------
(***************************************************************************)
(* Pure computations of the repository, each compared with a definition of *)
(* what it should return: plan_evictions (module Planner) with LruPolicy   *)
(* (policy.cpp), parse_bytesize (config.cpp), the checks and the address   *)
(* arithmetic of a store request (nvme_backend.cpp), annotate_next_use     *)
(* (workload.cpp) and select_automatic (backend_registry.cpp).             *)
(*                                                                         *)
(* A behaviour is one call: `input` is chosen in AInit and Compute returns *)
(* `output`.  Words have Width bits (64 in the code), a unit prefix is a   *)
(* factor 2^UnitBits (10) and a page is at least HeaderBlock (4096) bytes. *)
(***************************************************************************)
EXTENDS Planner, SequencesExt

CONSTANTS
    Width, UnitBits, HeaderBlock,
    PlanInputs,     \* [fn, pages, free, bytes, room]: free is the VRAM headroom
    SizeInputs,     \* [fn, digits, suffix]
    StoreInputs,    \* [fn, capacity, page]
    TraceInputs,    \* [fn, ids]
    ProbeInputs,    \* [fn, probes]: what the probe of each registered backend says
    OtherBackends   \* names of accelerators that select_automatic does not know

ASSUME AlgorithmsAssumption == {Width, UnitBits, HeaderBlock} \subseteq Nat \ {0}

VARIABLES input, output

avars == <<input, output>>

Word == 2 ^ Width
WordMax == Word - 1
Refused == -1     \* the function throws

-----------------------------------------------------------------------------
(* LruPolicy: least recently used first, ties by id.                       *)

Older(c, d) == c.seq < d.seq \/ (c.seq = d.seq /\ c.id <= d.id)

RankVictims(candidates) ==
    SetToSortSeq(candidates, LAMBDA c, d : c # d /\ Older(c, d))

-----------------------------------------------------------------------------
(* parse_bytesize.                                                         *)

Multipliers == [B |-> 1, BYTES |-> 1, KIB |-> 2 ^ UnitBits, MIB |-> 2 ^ (2 * UnitBits),
                GIB |-> 2 ^ (3 * UnitBits), TIB |-> 2 ^ (4 * UnitBits)]

ScanDigit(value, d) ==
    IF value = Refused \/ value > (WordMax - d) \div 10 THEN Refused
    ELSE (value * 10 + d) % Word

\* A text without a suffix has the suffix B.
ParseBytesize(digits, suffix) ==
    LET value == FoldLeft(ScanDigit, 0, digits) IN
    IF \/ digits = <<>> \/ value = Refused
       \/ suffix \notin DOMAIN Multipliers
       \/ value > WordMax \div Multipliers[suffix]
    THEN Refused
    ELSE (value * Multipliers[suffix]) % Word

-----------------------------------------------------------------------------
(* Store geometry, requests and the extents they name.                     *)

\* Limits of the platform: INT64_MAX for files, and less for one transfer.
MaxFileSize == Word \div 2 - 1
MaxIoSize == Word \div 8 - 1

\* The header page and the payload.
FileSize(capacity, page) == (capacity + page) % Word

ValidStoreGeometry(capacity, page) ==
    /\ capacity # 0 /\ page >= HeaderBlock /\ capacity % page = 0
    /\ page <= MaxIoSize
    /\ capacity <= WordMax - page /\ FileSize(capacity, page) <= MaxFileSize

ValidIoRequest(page, file, offset, bytes) ==
    /\ bytes # 0 /\ bytes <= MaxIoSize
    /\ offset >= page /\ offset % page = 0 /\ bytes % page = 0
    /\ offset < file /\ bytes <= file - offset

\* offset_out of allocate_extents: the extents lie behind the header page.
ExtentOffset(page, e) == ((e + 1) * page) % Word

\* first_extent and extent_count of read_async and write_async.
RequestExtents(page, offset, bytes) ==
    (offset \div page) - 1 .. (offset \div page) - 1 + (bytes \div page) - 1

-----------------------------------------------------------------------------
(* annotate_next_use: one pass from the end of the trace.                  *)

\* next is the map next_pos, 0 stands for no entry.
NoteUse(ids, acc, i) ==
    [next |-> [acc.next EXCEPT ![ids[i]] = i],
     last |-> [acc.last EXCEPT ![i] = IF acc.next[ids[i]] = 0 THEN 0 ELSE acc.next[ids[i]] - i]]

AnnotateNextUse(ids) ==
    FoldLeft(LAMBDA acc, i : NoteUse(ids, acc, i),
             [next |-> [p \in Range(ids) |-> 0], last |-> [i \in DOMAIN ids |-> 0]],
             Reverse([i \in DOMAIN ids |-> i])).last

-----------------------------------------------------------------------------
(* select_automatic: the probe of a backend fails or finds "no", only      *)
(* "integrated", or also "discrete" devices.                               *)

Preference == <<"cuda", "hip", "level_zero", "vulkan", "metal">> \o OtherBackends

Available(probes, n) == n \in DOMAIN probes /\ probes[n] \in {"integrated", "discrete"}

\* "none": select_automatic throws.
SelectAutomatic(probes) ==
    LET candidates == SelectSeq(Preference, LAMBDA n : Available(probes, n))
        discrete == SelectSeq(candidates, LAMBDA n : probes[n] = "discrete")
    IN  IF discrete # <<>> THEN Head(discrete)
        ELSE IF candidates # <<>> THEN Head(candidates)
        ELSE IF Available(probes, "cpu") THEN "cpu" ELSE "none"

-----------------------------------------------------------------------------
AInit ==
    /\ input \in PlanInputs \cup SizeInputs \cup StoreInputs \cup TraceInputs \cup ProbeInputs
    /\ output = <<>>

\* The budgets of a planner with `free` bytes of VRAM left.
BudgetsWith(free) == [vram_limit |-> free + 2, vram_reserve |-> 1, vram_used |-> 1]

Compute ==
    /\ output = <<>> /\ UNCHANGED input
    /\ output' = <<CASE input.fn = "plan" ->
                            PlanEvictions(BudgetsWith(input.free), input.bytes,
                                          RankVictims(input.pages), input.room)
                     [] input.fn = "size" -> ParseBytesize(input.digits, input.suffix)
                     [] input.fn = "store" -> ValidStoreGeometry(input.capacity, input.page)
                     [] input.fn = "trace" -> AnnotateNextUse(input.ids)
                     [] input.fn = "select" -> SelectAutomatic(input.probes)>>

ANext == Compute

Returned(fn) == input.fn = fn /\ output # <<>>
Result == output[1]

-----------------------------------------------------------------------------
(* Properties.                                                             *)

SizeOf(pages) == MapThenSumSet(LAMBDA c : c.size, pages)
Victims(target) == {c \in input.pages : \E i \in DOMAIN Result.out :
                        Result.out[i].id = c.id /\ Result.out[i].target \in target}

\* plan_evictions throws exactly when the pages that may be evicted are too
\* small together; otherwise it frees enough, it would not without the most
\* recently used victim, and every page that was used less recently than a
\* victim and may be evicted is a victim too.
PlanIsLeastRecentPrefix ==
    Returned("plan") =>
        LET free == {c \in input.pages : ~c.pinned /\ ~c.in_flight}
            gone == Victims({"host", "nvme"})
            short == input.bytes - input.free
        IN  /\ Result.need # 0 <=> SizeOf(free) < short
            /\ Result.need = 0 =>
                   /\ SizeOf(gone) >= short /\ gone \subseteq free
                   /\ \A c \in gone : \A d \in free \ gone : Older(c, d)
                   /\ \A c \in gone : (\A d \in gone : Older(d, c)) =>
                          SizeOf(gone \ {c}) < short

\* The victims that are planned into host memory fit into what is free there,
\* so a plan never counts the same host bytes twice.
PlanFitsHost == Returned("plan") => SizeOf(Victims({"host"})) <= input.room

\* parse_bytesize returns the number that is written, or refuses it when it has
\* no 64-bit value: no intermediate result wraps around.
ParseExact ==
    Returned("size") =>
        LET n == Len(input.digits)
            exact == MapThenSumSet(LAMBDA i : input.digits[i] * 10 ^ (n - i), 1 .. n)
                     * Multipliers[input.suffix]
        IN  IF input.suffix \in DOMAIN Multipliers /\ n > 0
            THEN Result = IF exact <= WordMax THEN exact ELSE Refused
            ELSE Result = Refused

\* In a store that open() accepts, a request that validate_io_request accepts
\* names extents of the store only.  A run of extents that allocate_extents
\* returned lies where a file can reach; the request for it is accepted, unless one
\* transfer cannot be that long (it can for one extent), and names this run.
RequestsNameExtents ==
    Returned("store") /\ Result =>
        LET page == input.page
            file == FileSize(input.capacity, page)
            extents == 0 .. input.capacity \div page - 1
        IN  /\ \A offset, bytes \in 0 .. WordMax :
                   ValidIoRequest(page, file, offset, bytes) =>
                       RequestExtents(page, offset, bytes) \subseteq extents
            /\ \A first, n \in extents \cup {input.capacity \div page} :
                   n # 0 /\ first + n - 1 \in extents =>
                       LET offset == ExtentOffset(page, first) IN
                       /\ offset + n * page <= MaxFileSize
                       /\ n = 1 \/ n * page <= MaxIoSize =>
                              ValidIoRequest(page, file, offset, n * page)
                       /\ RequestExtents(page, offset, n * page) = first .. first + n - 1

\* annotate_next_use gives every access the distance to the next access of the
\* same page, and 0 to the last one.
NextUseExact ==
    Returned("trace") =>
        \A i \in DOMAIN input.ids :
            LET later == {j \in DOMAIN input.ids : j > i /\ input.ids[j] = input.ids[i]}
            IN  Result[i] = IF later = {} THEN 0 ELSE Min(later) - i

\* "a lower-priority discrete GPU wins over a higher-priority integrated device"
\* (select_automatic): nothing that was probed beats the selected backend, and a
\* usable backend is never missed because the probe of another one failed.
SelectionBest ==
    Returned("select") =>
        LET worth(n) == CASE n = "cpu" -> 1
                          [] input.probes[n] = "integrated" -> 2
                          [] input.probes[n] = "discrete" -> 3
            place(n) == Min({i \in DOMAIN Preference : Preference[i] = n})
            usable == {n \in DOMAIN input.probes : Available(input.probes, n)}
        IN  IF usable = {} THEN Result = "none"
            ELSE /\ Result \in usable
                 /\ \A n \in usable \ {Result} :
                        \/ worth(Result) > worth(n)
                        \/ worth(Result) = worth(n) /\ place(Result) < place(n)

\* Every computation returns what is stated above of it.
ResultsExact ==
    /\ PlanIsLeastRecentPrefix /\ PlanFitsHost /\ ParseExact
    /\ RequestsNameExtents /\ NextUseExact /\ SelectionBest
=============================================================================
