---------------------------- MODULE StepContracts ---------------------------
(***************************************************************************)
(* What the four step functions of Residency promise the loops that call   *)
(* them: a page that is where the function takes it from is, if the        *)
(* function returns normally, where it takes it to.                        *)
(***************************************************************************)
EXTENDS Residency

StepFunctions ==
    {"evict_vram_to_host", "load_nvme_to_host", "promote_host_to_vram",
     "evict_host_to_nvme"}

\* The step function thread t is in still finds its page as it was called for:
\* while it claims a buffer the page is where it has to be taken from.
Serves(t) ==
    /\ pc[t] \in BufferLabels \cup TransferLabels
    /\ pc[t] \in BufferLabels \/ victim[t] # NoPage =>
            /\ task[t] \in {"evict_vram_to_host", "load_nvme_to_host"}
            /\ Claimable(page[t], SourceState(t))
    /\ pc[t] \in {"d2h", "d2hDone"} => task[t] = "evict_vram_to_host"
    /\ pc[t] \in {"read", "readDone"} => task[t] = "load_nvme_to_host"
    /\ pc[t] \in {"h2d", "h2dDone"} => task[t] = "promote_host_to_vram"
    /\ pc[t] \in {"write", "writeDone"} /\ victim[t] = NoPage =>
            task[t] = "evict_host_to_nvme"

\* Where a step function that returns normally leaves its page.
ServedAs(fn) ==
    IF fn = "promote_host_to_vram" THEN "ResidentVram"
    ELSE IF fn = "evict_host_to_nvme" THEN "ResidentNvme" ELSE "ResidentHost"

\* A step function of t is left in this step, and it does not throw.
Completes(t) ==
    /\ pc'[t] = "idle"
    /\ pc[t] \in {"d2hDone", "readDone", "h2dDone", "writeDone", "haveBuf"}
    /\ pc[t] # "haveBuf" => ~in_flight'[WritePageOf(t)]

\* What a step inside a step function does to the page it was called for.
Served(t) ==
    /\ vram_used' <= vram_used /\ issued' = issued
    /\ pc'[t] # "idle" => Serves(t)' /\ page'[t] = page[t] /\ task'[t] = task[t]
    /\ Completes(t) => state'[page[t]] = ServedAs(task[t])

\* Thread t calls a step function for page p, which is where the function takes
\* it from.
Calls(t, p, fn) ==
    \/ /\ fn = "evict_vram_to_host"
       /\ EvictVramToHost(t, p) /\ state[p] = "ResidentVram"
    \/ /\ fn = "load_nvme_to_host"
       /\ LoadNvmeToHost(t, p) /\ state[p] = "ResidentNvme"
    \/ fn = "promote_host_to_vram" /\ PromoteHostToVram(t, p)
    \/ fn = "evict_host_to_nvme" /\ (EvictHostClaim(t, p) \/ EvictHostReserve(t, p))

\* The call itself moves no page, and reserves device memory only to promote.
CallTaken(t, p, fn) ==
    /\ Serves(t)' /\ pc'[t] # "idle" /\ page'[t] = p /\ task'[t] = fn
    /\ issued' = issued /\ \A u \in Threads \ {t} : pc'[u] = pc[u]
    /\ fn # "promote_host_to_vram" => vram_used' = vram_used

\* A step inside a step function.
Moves(t) == Step(t) \/ \E p \in Pages : PageStep(t, p)

\* The step functions of thread t do what is asked of them in this step.
Promised(t) ==
    /\ vram_used \in Int /\ host_used \in Int
    /\ \A p \in Pages : state[p] = "ResidentHost" => Claimable(p, "ResidentHost")
    /\ pc[t] = "idle" =>
         \A p \in Pages, fn \in StepFunctions : Calls(t, p, fn) => CallTaken(t, p, fn)
    /\ Moves(t) => vram_used' \in Int /\ \A u \in Threads \ {t} : pc'[u] = pc[u]
    /\ pc[t] # "idle" /\ Serves(t) /\ issued = Pages /\ Moves(t) => Served(t)
=============================================================================
