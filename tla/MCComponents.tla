---------------------------- MODULE MCComponents ----------------------------
(* Instances for TLC of the components that do not share state: `part` is  *)
(* the component that runs, the others stay in one of their initial states.*)
EXTENDS NvmeStore, StoreFile, Lifecycle, Devices, Budgets, Algorithms

VARIABLE part

allVars == <<part, vars, fvars, lvars, dvars, bvars, avars>>

\* Up to three pages of one or two bytes each, some of them pinned or busy.
PageKinds == {[size |-> n, seq |-> s, pinned |-> k = "pinned", in_flight |-> k = "busy"] :
              n \in 1 .. 2, s \in 0 .. 1, k \in {"free", "pinned", "busy"}}
PageSets == {{[id |-> i] @@ kinds[i] : i \in 1 .. 3} : kinds \in [1 .. 3 -> PageKinds]}

MCPlanInputs == [fn : {"plan"}, pages : PageSets, free : {1}, bytes : {2, 4}, room : {2}]
MCSizeInputs == [fn : {"size"}, suffix : {"B", "KIB", "MIB", "GIB", "TIB", "XB"},
                 digits : UNION {[1 .. n -> {0, 1, 2, 5, 9}] : n \in 0 .. 3}]
\* Small stores, and the neighbourhood of every limit that open() tests.
MCStoreInputs ==
    [fn : {"store"},
     capacity : 0 .. 40 \cup MaxIoSize - 3 .. MaxIoSize + 1
                    \cup MaxFileSize - 8 .. MaxFileSize + 2 \cup WordMax - 6 .. WordMax,
     page : 1 .. 4 \cup MaxIoSize - 1 .. MaxIoSize + 1]
MCTraceInputs == [fn : {"trace"}, ids : UNION {[1 .. n -> {"x", "y", "z"}] : n \in 0 .. 4}]
MCProbeInputs ==
    [fn : {"select"},
     probes : UNION {[names -> {"fails", "no", "integrated", "discrete"}] :
                     names \in SUBSET {"cuda", "vulkan", "npu", "cpu"}}]
MCOtherBackends == <<"npu">>

MCInit ==
    /\ part \in {"store", "file", "lifecycle", "devices", "budgets", "algorithms"}
    /\ IF part = "store" THEN TRUE ELSE os = "posix"
    /\ IF part = "file" THEN TRUE
       ELSE host = "posix" /\ auto = TRUE /\ retain = TRUE /\ geom = [p \in Processes |-> "g1"]
    /\ IF part = "devices" THEN TRUE ELSE backend = "cpu"
    /\ IF part = "budgets" THEN TRUE ELSE class = "tier"
    /\ IF part = "algorithms" THEN TRUE ELSE input = [fn |-> "trace", ids |-> <<>>]
    /\ Init /\ FInit /\ LInit /\ DInit /\ BInit /\ AInit

MCNext ==
    \/ part = "store" /\ Next /\ UNCHANGED <<part, fvars, lvars, dvars, bvars, avars>>
    \/ part = "file" /\ FNext /\ UNCHANGED <<part, vars, lvars, dvars, bvars, avars>>
    \/ part = "lifecycle" /\ LNext /\ UNCHANGED <<part, vars, fvars, dvars, bvars, avars>>
    \/ part = "devices" /\ DNext /\ UNCHANGED <<part, vars, fvars, lvars, bvars, avars>>
    \/ part = "budgets" /\ BNext /\ UNCHANGED <<part, vars, fvars, lvars, dvars, avars>>
    \/ part = "algorithms" /\ ANext /\ UNCHANGED <<part, vars, fvars, lvars, dvars, bvars>>

\* The fairness of each component; a component that does not run is never
\* asked for a step, all of these actions are disabled in its initial states.
MCSpec ==
    /\ MCInit /\ [][MCNext]_allVars
    /\ StoreFairness /\ TeardownFairness /\ DeviceFairness

\* Every component keeps its variables within their types.
ComponentsTypeOK == TypeOK /\ FileTypeOK /\ LTypeOK /\ DTypeOK /\ BTypeOK
=============================================================================
