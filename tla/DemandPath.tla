----------------------------- MODULE DemandPath -----------------------------
(***************************************************************************)
(* The retry loops of runtime.cpp around the transfer steps of Residency:  *)
(* load_page with ensure_vram_headroom and the planner, demote_to_host,    *)
(* demote_to_nvme, evict, read_page and verify_page.                       *)
(*                                                                         *)
(* A thread runs one job.  A job whose thread is idle in Residency is      *)
(* between two step functions: it takes a decision, or calls the next one. *)
(* A demand is run by the thread that waits for it: which worker serves it *)
(* is the subject of TransferQueue.  The instance hands out all its pages  *)
(* before the first job, and jobs overlap with write_page, pin, free_page  *)
(* and shutdown.                                                           *)
(***************************************************************************)
EXTENDS Residency, Planner

CONSTANTS
    MaxAttempts,  \* attempts of a retry loop (16 in the code)
    MaxRounds,    \* rounds of claim_host_buffer (64 in the code)
    Scenarios     \* what callers do: the jobs of each thread, and the others


VARIABLES
    job,        \* per thread: the public operation it runs, and its locals
    planner,    \* planner_->b_.vram_used
    stopping,   \* stop_requested()
    scenario    \* fixed by the initial state

chainVars == <<job, planner, stopping, scenario>>
allVars == <<vars, chainVars>>

Operations == {"load", "read", "verify", "demote_to_host", "demote_to_nvme", "evict"}

ASSUME DemandAssumption ==
    /\ MaxAttempts \in Nat \ {0} /\ MaxRounds \in Nat \ {0}
    /\ Scenarios \subseteq
         [jobs : [Threads -> SUBSET (Operations \X Pages \X {"vram", "host"})],
          write : SUBSET Pages, free : SUBSET Pages, pin : SUBSET Pinnable,
          stop : BOOLEAN]

NoJob ==
    [fn |-> "none", page |-> NoPage, at |-> "none", target |-> "host",
     tries |-> 0, rounds |-> 0, late |-> FALSE, cands |-> {}, room |-> 0,
     seen |-> 0, victim |-> NoPage, dest |-> "none", alone |-> FALSE]

DemandInit ==
    /\ Init
    /\ job = [t \in Threads |-> NoJob]
    /\ planner = 0
    /\ stopping = FALSE
    /\ scenario \in Scenarios

-----------------------------------------------------------------------------
(* Job control.                                                            *)

\* The job of t is at a label, and not inside a step function.
At(t, label) == job[t].at = label /\ pc[t] = "idle"

HeadroomLabels ==
    {"room", "snapshot", "budgets", "publish", "plan", "decide", "demoteVictim",
     "demoted", "spill", "wait"}

\* The deadline of ensure_vram_headroom is local to the call, the victim to the
\* round.
Become(t, label) ==
    /\ job' = [job EXCEPT
                ![t].at = label,
                ![t].late = @ /\ label \in HeadroomLabels,
                ![t].victim = IF label \in {"room", "wait"} THEN NoPage ELSE @,
                ![t].dest = IF label \in {"room", "wait"} THEN "none" ELSE @]
    /\ UNCHANGED <<planner, stopping, scenario>>

\* The job goes on at another label and touches no page.
Jump(t, label) == Become(t, label) /\ UNCHANGED vars

\* The job returns or throws.
End(t) == job' = [job EXCEPT ![t] = NoJob] /\ UNCHANGED <<planner, stopping, scenario>>

Quit(t) == End(t) /\ UNCHANGED vars

\* load_page returns: to its caller, or to the read that demanded the page.
Delivered(t) == IF job[t].fn \in {"read", "verify"} THEN Jump(t, "copy") ELSE Quit(t)

\* The table has an entry for p; every lookup of another id throws.
InTable(p) == p \in Pages /\ state[p] # "Absent"

\* wait_settled throws.
Unwaitable(p) == stopping \/ ~InTable(p) \/ state[p] \in {"Error", "Released"}

\* From here on the jobs of other threads have had company.
Disturbed(t) == [u \in Threads |-> IF u = t THEN job[u] ELSE [job[u] EXCEPT !.alone = FALSE]]

StartAt(fn) ==
    IF fn \in {"demote_to_host", "demote_to_nvme"} THEN "demote" ELSE fn

Start(t, fn, p, target) ==
    /\ <<fn, p, target>> \in scenario.jobs[t]
    /\ issued = Pages /\ ~stopping
    /\ pc[t] = "idle" /\ job[t] = NoJob
    /\ job' = [Disturbed(t) EXCEPT ![t] =
                [NoJob EXCEPT !.fn = fn, !.page = p, !.at = StartAt(fn), !.target = target,
                              !.alone = \A u \in Threads \ {t} : job[u] = NoJob /\ pc[u] = "idle"]]
    /\ UNCHANGED <<vars, planner, stopping, scenario>>

\* A step function returns normally in this step; every other return throws.
ReturnsNormally(t) ==
    /\ pc[t] \in {"d2hDone", "readDone", "h2dDone", "writeDone", "haveBuf"}
    /\ leaked' = leaked
    /\ pc[t] # "haveBuf" => ~in_flight'[WritePageOf(t)]

\* Rounds of claim_host_buffer, counted until it has a buffer or throws.
RoundsAfter(t) ==
    IF pc'[t] \in {"haveBuf", "idle"} THEN 0
    ELSE IF pc'[t] = "hostBuf" THEN job[t].rounds + 1 ELSE job[t].rounds

\* A step inside a step function.  claim_host_buffer gives up when its rounds
\* are used up or shutdown was requested.  An exception ends the job.
Inner(t) ==
    /\ pc[t] # "idle"
    /\ IF pc[t] = "hostBuf" /\ (stopping \/ job[t].rounds = MaxRounds)
       THEN HostBufGiveUp(t)
       ELSE /\ Step(t) \/ \E p \in Pages : PageStep(t, p)
            /\ pc[t] = "hostBuf" => pc'[t] # "idle"
    /\ job' = IF pc'[t] = "idle" /\ ~ReturnsNormally(t)
              THEN [job EXCEPT ![t] = NoJob]
              ELSE [job EXCEPT ![t].rounds = RoundsAfter(t)]
    /\ UNCHANGED <<planner, stopping, scenario>>

\* evict_host_to_nvme(p) is called by the job of t, which goes on at `next`.
\* The call is a no-op on a busy page and throws when the store is full.
CallEvictHostToNvme(t, p, next) ==
    \/ /\ InTable(p)
       /\ EvictHostClaim(t, p) \/ EvictHostReserve(t, p)
       /\ Become(t, next)
    \/ /\ InTable(p) /\ ~Claimable(p, "ResidentHost")
       /\ Jump(t, next)
    \/ /\ \/ ~InTable(p)
          \/ /\ Claimable(p, "ResidentHost") /\ NeedWrite(p)
             /\ nvme_offset[p] = NoExtent /\ ReserveFails(p)
       /\ Quit(t)

-----------------------------------------------------------------------------
(* load_page.                                                              *)

\* The page is in the host tier: promote it if that was asked for.
InHost(t) ==
    IF job[t].target = "vram" /\ VramUsable # 0
    THEN Jump(t, "room") ELSE Delivered(t)

\* The head of an attempt.
LoadHead(t) ==
    LET p == job[t].page IN
    /\ At(t, "load")
    /\ IF job[t].tries = MaxAttempts \/ stopping \/ ~InTable(p) THEN Quit(t)
       ELSE \/ state[p] = "ResidentVram" /\ Delivered(t)
            \/ state[p] = "ResidentHost" /\ InHost(t)
            \/ state[p] = "ResidentNvme" /\ LoadNvmeToHost(t, p) /\ Become(t, "loaded")
            \/ state[p] \notin Resident /\ Jump(t, "settle")

\* The state is read again after load_nvme_to_host.
Loaded(t) ==
    LET p == job[t].page IN
    /\ At(t, "loaded")
    /\ \/ ~InTable(p) /\ Quit(t)
       \/ InTable(p) /\ state[p] = "ResidentHost" /\ InHost(t)
       \/ InTable(p) /\ state[p] = "ResidentVram" /\ Delivered(t)
       \/ InTable(p) /\ state[p] \notin {"ResidentHost", "ResidentVram"} /\ Jump(t, "settle")

\* promote_host_to_vram: a no-op when the page is busy or the headroom that was
\* made has been taken meanwhile; a failed device allocation throws.
Promote(t) ==
    LET p == job[t].page IN
    /\ At(t, "promote")
    /\ \/ InTable(p) /\ PromoteHostToVram(t, p) /\ Become(t, "promoted")
       \/ /\ InTable(p)
          /\ ~Claimable(p, "ResidentHost") \/ vram_used >= VramUsable
          /\ Jump(t, "promoted")
       \/ /\ \/ ~InTable(p)
             \/ /\ "deviceAlloc" \in Faults
                /\ Claimable(p, "ResidentHost") /\ vram_used < VramUsable
          /\ Quit(t)

Promoted(t) ==
    LET p == job[t].page IN
    /\ At(t, "promoted")
    /\ \/ ~InTable(p) /\ Quit(t)
       \/ InTable(p) /\ state[p] = "ResidentVram" /\ Delivered(t)
       \/ InTable(p) /\ state[p] # "ResidentVram" /\ Jump(t, "settle")

\* Defect: a retry is not counted as an attempt.
SettleUncounted(t) ==
    LET p == job[t].page IN
    /\ At(t, "settle")
    /\ \/ Unwaitable(p) /\ Quit(t)
       \/ /\ ~stopping /\ state[p] \in Resident
          /\ Jump(t, "load")

\* wait_settled, which has no deadline, and the next attempt.
WaitSettled(t) ==
    LET p == job[t].page IN
    /\ At(t, "settle")
    /\ \/ Unwaitable(p) /\ Quit(t)
       \/ /\ ~stopping /\ state[p] \in Resident
          /\ job' = [job EXCEPT ![t].at = "load", ![t].tries = @ + 1]
          /\ UNCHANGED <<vars, planner, stopping, scenario>>

-----------------------------------------------------------------------------
(* ensure_vram_headroom for one page: a label is one section of state_mu_, *)
(* or work between two of them.  With pages of one unit a plan has at most *)
(* one victim.                                                             *)

\* The 5 s deadline passes.
Deadline(t) ==
    /\ job[t].at \in HeadroomLabels /\ ~job[t].late
    /\ job' = [job EXCEPT ![t].late = TRUE]
    /\ UNCHANGED <<vars, planner, stopping, scenario>>

\* The head of the loop.
Room(t) ==
    /\ At(t, "room")
    /\ IF job[t].late \/ stopping THEN Quit(t)
       ELSE Jump(t, IF vram_used < VramUsable THEN "promote" ELSE "snapshot")

DeviceCandidates == {v \in Pages : Claimable(v, "ResidentVram") /\ ~pinned[v]}

Snapshot(t) ==
    /\ At(t, "snapshot")
    /\ job' = [job EXCEPT ![t].at = "budgets", ![t].cands = DeviceCandidates,
                          ![t].room = HostUsable - host_used]
    /\ UNCHANGED <<vars, planner, stopping, scenario>>

\* The budgets are read after state_mu_ was left ...
ReadBudgets(t) ==
    /\ At(t, "budgets")
    /\ job' = [job EXCEPT ![t].at = "publish", ![t].seen = vram_used]
    /\ UNCHANGED <<vars, planner, stopping, scenario>>

\* Defect: the planner keeps the budgets it was created with.
SetBudgetsForgotten(t) ==
    /\ At(t, "publish")
    /\ job' = [job EXCEPT ![t].at = "plan", ![t].seen = 0]
    /\ UNCHANGED <<vars, planner, stopping, scenario>>

\* ... and given to the planner all threads share ...
SetBudgets(t) ==
    /\ At(t, "publish")
    /\ planner' = job[t].seen
    /\ job' = [job EXCEPT ![t].at = "plan", ![t].seen = 0]
    /\ UNCHANGED <<vars, stopping, scenario>>

\* What plan_evictions makes of the snapshot of t, in the order the policy
\* ranks the candidates: access history is not modelled, so any order.
Plans(t) ==
    LET b == [vram_limit |-> VramUsable, vram_reserve |-> 0, vram_used |-> planner]
        c(p) == [id |-> p, size |-> 1, seq |-> 0, pinned |-> FALSE, in_flight |-> FALSE]
        candidates == {c(p) : p \in job[t].cands}
    IN  {PlanEvictions(b, 1, ranked, job[t].room) :
            ranked \in Bijection(1 .. Cardinality(candidates), candidates)}

\* ... which plans without a lock, with whatever budgets it was given last.
Plan(t) ==
    /\ At(t, "plan")
    /\ \E plan \in Plans(t) :
         \/ plan.need # 0 /\ Quit(t)
         \/ /\ plan.need = 0
            /\ job' = [job EXCEPT
                 ![t].at = IF plan.out = <<>> THEN "wait" ELSE "decide",
                 ![t].victim = IF plan.out = <<>> THEN NoPage ELSE plan.out[1].id,
                 ![t].dest = IF plan.out = <<>> THEN "none" ELSE plan.out[1].target,
                 ![t].cands = {}, ![t].room = 0]
            /\ UNCHANGED <<vars, planner, stopping, scenario>>

Protected(v) == pinned[v] \/ in_flight[v]

DropsClean(t) ==
    LET v == job[t].victim IN
    /\ job[t].dest = "nvme" /\ ~Protected(v)
    /\ state[v] = "ResidentVram" /\ ~dirty[v] /\ has_nvme_copy[v]

\* The planned victim is looked at again: skipped, dropped or demoted.  A drop
\* whose device_free throws leaves the page as it is and ends the job.
Decide(t) ==
    LET v == job[t].victim IN
    /\ At(t, "decide")
    /\ \/ ~InTable(v) /\ Quit(t)
       \/ InTable(v) /\ DropsClean(t) /\ CleanDrop(v) /\ Become(t, "room")
       \/ InTable(v) /\ DropsClean(t) /\ "dropFree" \in Faults /\ Quit(t)
       \/ InTable(v) /\ Protected(v) /\ Jump(t, "wait")
       \/ /\ InTable(v) /\ ~Protected(v) /\ ~DropsClean(t)
          /\ Jump(t, "demoteVictim")

\* The state was read once more, outside state_mu_.
DemoteVictim(t) ==
    LET v == job[t].victim IN
    /\ At(t, "demoteVictim")
    /\ \/ ~InTable(v) /\ Quit(t)
       \/ /\ InTable(v) /\ ~Protected(v) /\ state[v] = "ResidentVram"
          /\ EvictVramToHost(t, v) /\ Become(t, "demoted")
       \/ /\ InTable(v) /\ (Protected(v) \/ state[v] # "ResidentVram")
          /\ Jump(t, "wait")

VictimDemoted(t) ==
    LET v == job[t].victim IN
    /\ At(t, "demoted")
    /\ \/ ~InTable(v) /\ Quit(t)
       \/ /\ InTable(v) /\ state[v] = "ResidentHost"
          /\ Jump(t, IF job[t].dest = "nvme" THEN "spill" ELSE "room")
       \/ InTable(v) /\ state[v] # "ResidentHost" /\ Jump(t, "wait")

SpillVictim(t) ==
    At(t, "spill") /\ CallEvictHostToNvme(t, job[t].victim, "room")

\* No progress: wait 25 ms, or for a transfer to settle.
HeadroomWait(t) == At(t, "wait") /\ Jump(t, "room")

-----------------------------------------------------------------------------
(* demote_to_host, demote_to_nvme and evict.                               *)

GoalOf(t) == IF job[t].fn = "demote_to_nvme" THEN "ResidentNvme" ELSE "ResidentHost"

\* The head of an attempt: wait_settled, then one step towards the goal.
DemoteHead(t) ==
    LET p == job[t].page IN
    /\ At(t, "demote")
    /\ \/ job[t].tries = MaxAttempts /\ Quit(t)
       \/ Unwaitable(p) /\ Quit(t)
       \/ InTable(p) /\ state[p] = GoalOf(t) /\ Quit(t)
       \/ /\ job[t].tries < MaxAttempts /\ ~Unwaitable(p) /\ state[p] # GoalOf(t)
          /\ \/ state[p] = "ResidentVram" /\ EvictVramToHost(t, p) /\ Become(t, "demoteEnd")
             \/ state[p] = "ResidentNvme" /\ LoadNvmeToHost(t, p) /\ Become(t, "demoteEnd")
             \/ state[p] = "ResidentHost" /\ CallEvictHostToNvme(t, p, "demoteEnd")

\* wait_settled after the step.
DemoteEnd(t) ==
    LET p == job[t].page IN
    /\ At(t, "demoteEnd")
    /\ \/ /\ Unwaitable(p) \/ state[p] = GoalOf(t)
          /\ Quit(t)
       \/ /\ ~stopping /\ state[p] \in Resident \ {GoalOf(t)}
          /\ job' = [job EXCEPT ![t].at = "demote", ![t].tries = @ + 1]
          /\ UNCHANGED <<vars, planner, stopping, scenario>>

\* evict: nothing to do, a clean drop, or a demotion to the host.
EvictHead(t) ==
    LET p == job[t].page IN
    /\ At(t, "evict")
    /\ \/ /\ Unwaitable(p) \/ state[p] = "ResidentNvme"
          /\ Quit(t)
       \/ /\ ~stopping /\ state[p] \in {"ResidentVram", "ResidentHost"}
          /\ Jump(t, IF state[p] = "ResidentVram" /\ ~dirty[p] /\ has_nvme_copy[p]
                     THEN "drop" ELSE "demote")

\* Defect: the drop relies on what was read before the lock was taken.
EvictDropStale(t) ==
    LET p == job[t].page IN
    /\ At(t, "drop")
    /\ state' = [state EXCEPT ![p] = "ResidentNvme"]
    /\ vram' = [vram EXCEPT ![p] = Null]
    /\ vram_used' = vram_used - 1
    /\ End(t)
    /\ UNCHANGED <<dirty, has_nvme_copy, in_flight, checksum, nvme_offset, pinned,
                   host, disk, free_list, host_used, nvme_used, leaked, issued,
                   threadVars, ghostVars>>

\* The drop checks again under the lock; it ends the job, device_free thrown or not.
EvictDrop(t) ==
    LET p == job[t].page
        clean == InTable(p) /\ Claimable(p, "ResidentVram") /\ ~dirty[p] /\ has_nvme_copy[p]
    IN  /\ At(t, "drop")
        /\ \/ ~InTable(p) /\ Quit(t)
           \/ clean /\ CleanDrop(p) /\ End(t)
           \/ clean /\ "dropFree" \in Faults /\ Quit(t)
           \/ InTable(p) /\ ~clean /\ Jump(t, "demote")

-----------------------------------------------------------------------------
(* read_page and verify_page: a page in the store is demanded, then copied *)
(* under state_mu_; it is demanded again if it went back meanwhile.        *)

Demand(t, target) ==
    /\ job' = [job EXCEPT ![t].at = "load", ![t].tries = 0, ![t].target = target]
    /\ UNCHANGED <<vars, planner, stopping, scenario>>

\* The page settles; what is in the store is demanded, for device memory if
\* that has headroom when it is asked.
ReadHead(t) ==
    LET p == job[t].page IN
    /\ At(t, "read")
    /\ \/ Unwaitable(p) /\ Quit(t)
       \/ /\ ~stopping /\ state[p] = "ResidentNvme"
          /\ Demand(t, IF vram_used < VramUsable THEN "vram" ELSE "host")
       \/ ~stopping /\ state[p] \in {"ResidentVram", "ResidentHost"} /\ Jump(t, "copy")

VerifyHead(t) ==
    LET p == job[t].page IN
    /\ At(t, "verify")
    /\ \/ Unwaitable(p) /\ Quit(t)
       \/ ~stopping /\ state[p] = "ResidentNvme" /\ Demand(t, "host")
       \/ ~stopping /\ state[p] \in {"ResidentVram", "ResidentHost"} /\ Jump(t, "copy")

\* The copy, or wait_settled and another demand.
Copy(t) ==
    LET p == job[t].page IN
    /\ At(t, "copy")
    /\ \/ state[p] \in {"ResidentVram", "ResidentHost"} /\ Quit(t)
       \/ Unwaitable(p) /\ Quit(t)
       \/ ~stopping /\ state[p] = "ResidentNvme" /\ Demand(t, "host")

ReadCopy(t) == job[t].fn = "read" /\ Copy(t)
VerifyCopy(t) == job[t].fn = "verify" /\ Copy(t)

\* The 5 s deadline has passed.
ReadTimesOut(t) == At(t, "copy") /\ Quit(t)

-----------------------------------------------------------------------------
(* The instance.                                                           *)

JobStep(t) ==
    \/ Inner(t)
    \/ LoadHead(t) \/ Loaded(t) \/ Promote(t) \/ Promoted(t) \/ WaitSettled(t)
    \/ Room(t) \/ Snapshot(t) \/ ReadBudgets(t) \/ SetBudgets(t) \/ Plan(t)
    \/ Decide(t) \/ DemoteVictim(t) \/ VictimDemoted(t) \/ SpillVictim(t)
    \/ HeadroomWait(t)
    \/ DemoteHead(t) \/ DemoteEnd(t) \/ EvictHead(t) \/ EvictDrop(t)
    \/ ReadHead(t) \/ ReadCopy(t) \/ VerifyHead(t) \/ VerifyCopy(t)

\* Operations of one section, or of Residency alone.
Others ==
    \/ /\ \A t \in Threads : pc[t] = "idle"
       /\ \E t \in Threads, p \in Pages : AllocatePage(t, p)
       /\ UNCHANGED chainVars
    \/ /\ issued = Pages /\ ~stopping
       /\ \/ \E t \in Threads, p \in scenario.free : job[t] = NoJob /\ FreePage(t, p)
          \/ \E p \in scenario.write, v \in Values : WritePage(p, v)
          \/ \E p \in scenario.pin, b \in BOOLEAN : Pin(p, b)
       /\ job' = [t \in Threads |-> [job[t] EXCEPT !.alone = FALSE]]
       /\ UNCHANGED <<planner, stopping, scenario>>

RequestStop ==
    /\ scenario.stop /\ issued = Pages /\ ~stopping
    /\ stopping' = TRUE
    /\ UNCHANGED <<vars, job, planner, scenario>>

\* Nothing is left to do.
Stopped ==
    /\ issued = Pages
    /\ stopping \/ \A p \in Pages : state[p] = "Absent"
    /\ \A t \in Threads : pc[t] = "idle" /\ job[t] = NoJob
    /\ UNCHANGED allVars

DemandNext ==
    \/ \E t \in Threads : JobStep(t) \/ Deadline(t) \/ ReadTimesOut(t)
    \/ \E t \in Threads, p \in Pages, fn \in Operations, target \in {"vram", "host"} :
            Start(t, fn, p, target)
    \/ Others \/ RequestStop \/ Stopped

DemandSpec == DemandInit /\ [][DemandNext]_allVars

\* The sections that begin with wait_settled, or with taking headroom_mu_.
Waits(t) ==
    \/ pc[t] = "hostBuf" /\ Inner(t)
    \/ WaitSettled(t) \/ DemoteHead(t) \/ DemoteEnd(t) \/ EvictHead(t)
    \/ ReadHead(t) \/ VerifyHead(t) \/ Copy(t)

\* A thread inside a job or a step function keeps running, and time passes: the
\* loops that have a deadline do not run past it.  A waiter that is woken again
\* and again sees the page settled, and a thread gets a mutex that is released
\* again and again.
DemandFairSpec ==
    /\ DemandSpec
    /\ \A t \in Threads :
         /\ WF_allVars(JobStep(t)) /\ WF_allVars(Deadline(t))
         /\ SF_allVars(Waits(t)) /\ SF_allVars(ReadTimesOut(t))

-----------------------------------------------------------------------------
(* Properties.                                                             *)

\* A job that no other thread interferes with needs no retry budget.  It settles
\* well within the attempts load_page and demote_* allow: the one thing that sends
\* it round again is its own eviction of another page taking the host buffer of
\* the page it loads.  And ensure_vram_headroom never makes it wait: each round
\* makes headroom or throws, and the budgets it plans with are the real ones
\* ("Passing only the shortfall can make it return no victims and leave this loop
\* waiting forever").
LoneJobProgresses ==
    \A t \in Threads : job[t].alone => job[t].tries < MaxAttempts /\ job[t].at # "wait"

\* plan_evictions throws Budget only if waiting could not help: "never fail with
\* a raw device OOM or a spurious budget error" (load_page).
NoSpuriousBudget ==
    \A t \in Threads :
        At(t, "plan") /\ (\E plan \in Plans(t) : plan.need # 0) =>
            \A p \in Pages :
                state[p] \in {"ResidentVram", "LoadingToVram", "EvictingToHost"} =>
                    pinned[p]

\* Every operation that was called returns or throws: no loop of runtime.cpp
\* waits for ever, although wait_settled has no deadline.
JobsEnd == \A t \in Threads : []<>(job[t] = NoJob)

\* The loops only ever take steps of Residency, with the checks those make under
\* state_mu_: what is proved of its steps in any order holds of the loops.
ImplementsResidency == Spec
=============================================================================
