---------------------------- MODULE DemandProofs ----------------------------
(***************************************************************************)
(* Proofs about the loops of DemandPath, for any sets of pages and         *)
(* threads, any budgets, any faults and any scenario. Every step of a loop *)
(* is a step of Residency or leaves its variables alone (LoopsTakeSteps).  *)
(* And a job that no other caller interferes with gets ahead in each of    *)
(* its attempts (LoneInv).                                                 *)
(*                                                                         *)
(* The second argument needs two things from elsewhere. One is the plan    *)
(* that plan_evictions makes for one page, a fold over the candidates: it  *)
(* ends with the first of them, or throws. The other is what the step      *)
(* functions promise (StepContracts); it is a hypothesis of the lemmas     *)
(* here, ResidencyProofs shows that it holds, and RefinementProofs puts    *)
(* the two together.                                                       *)
(***************************************************************************)
EXTENDS DemandPath, StepContracts, FiniteSetTheorems, WellFoundedInduction, TLAPS

-----------------------------------------------------------------------------
(* The loops of DemandPath take only steps of Residency.                   *)

\* A step of a thread, or no step at all.
LEMMA ThreadMoves ==
    ASSUME NEW t \in Threads,
           \/ UNCHANGED vars
           \/ Step(t)
           \/ \E p \in Pages : PageStep(t, p) \/ CleanDrop(p)
    PROVE  [Next]_vars
BY Zenon DEF Next

\* What a job does between two step functions.
LEMMA JobEnds ==
    ASSUME NEW t, Quit(t) \/ Delivered(t) \/ InHost(t) \/ \E l : Jump(t, l)
    PROVE  UNCHANGED vars
BY Zenon DEF Quit, Delivered, InHost, Jump

\* A call of evict_host_to_nvme is a step of Residency or ends the job.
LEMMA CallMoves ==
    ASSUME NEW t, NEW p, NEW l, CallEvictHostToNvme(t, p, l)
    PROVE  UNCHANGED vars \/ \E q \in Pages : PageStep(t, q)
BY JobEnds, Zenon DEF CallEvictHostToNvme, InTable, PageStep

\* load_page and wait_settled take only steps of Residency.
LEMMA LoadMoves ==
    ASSUME NEW t,
           \/ LoadHead(t) \/ Loaded(t) \/ Promote(t) \/ Promoted(t)
           \/ WaitSettled(t)
    PROVE  UNCHANGED vars \/ \E q \in Pages : PageStep(t, q)
<1>1. CASE LoadHead(t)
  BY <1>1, JobEnds, Zenon DEF LoadHead, InTable, PageStep
<1>2. CASE Loaded(t)
  BY <1>2, JobEnds, Zenon DEF Loaded
<1>3. CASE Promote(t)
  BY <1>3, JobEnds, Zenon DEF Promote, InTable, PageStep
<1>4. CASE Promoted(t) \/ WaitSettled(t)
  BY <1>4, JobEnds, Zenon DEF Promoted, WaitSettled
<1> QED
  BY <1>1, <1>2, <1>3, <1>4, Zenon

\* So does ensure_vram_headroom, from its lock to the release of its victim.
LEMMA HeadroomMoves ==
    ASSUME NEW t,
           \/ Room(t) \/ Snapshot(t) \/ ReadBudgets(t) \/ SetBudgets(t)
           \/ Plan(t) \/ Decide(t) \/ DemoteVictim(t) \/ VictimDemoted(t)
           \/ SpillVictim(t) \/ HeadroomWait(t) \/ Deadline(t)
    PROVE  UNCHANGED vars \/ \E q \in Pages : PageStep(t, q) \/ CleanDrop(q)
<1>1. CASE \/ Room(t) \/ Snapshot(t) \/ ReadBudgets(t) \/ SetBudgets(t)
           \/ Plan(t) \/ VictimDemoted(t) \/ HeadroomWait(t) \/ Deadline(t)
  BY <1>1, JobEnds, Zenon DEF Room, Snapshot, ReadBudgets, SetBudgets, Plan,
     VictimDemoted, HeadroomWait, Deadline
<1>2. CASE Decide(t)
  BY <1>2, JobEnds, Zenon DEF Decide, InTable
<1>3. CASE DemoteVictim(t)
  BY <1>3, JobEnds, Zenon DEF DemoteVictim, InTable, PageStep
<1>4. CASE SpillVictim(t)
  BY <1>4, CallMoves, Zenon DEF SpillVictim
<1> QED
  BY <1>1, <1>2, <1>3, <1>4, Zenon

\* So do demote_* and evict.
LEMMA DemoteMoves ==
    ASSUME NEW t,
           DemoteHead(t) \/ DemoteEnd(t) \/ EvictHead(t) \/ EvictDrop(t)
    PROVE  UNCHANGED vars \/ \E q \in Pages : PageStep(t, q) \/ CleanDrop(q)
<1>1. CASE DemoteHead(t)
  BY <1>1, JobEnds, CallMoves, Zenon DEF DemoteHead, Unwaitable, InTable,
     PageStep
<1>2. CASE DemoteEnd(t) \/ EvictHead(t)
  BY <1>2, JobEnds, Zenon DEF DemoteEnd, EvictHead
<1>3. CASE EvictDrop(t)
  BY <1>3, JobEnds, Zenon DEF EvictDrop, InTable
<1> QED
  BY <1>1, <1>2, <1>3, Zenon

\* read_page and verify_page change nothing of Residency.
LEMMA ReadMoves ==
    ASSUME NEW t,
           \/ ReadHead(t) \/ ReadCopy(t) \/ VerifyHead(t) \/ VerifyCopy(t)
           \/ ReadTimesOut(t)
    PROVE  UNCHANGED vars
BY JobEnds, Zenon DEF ReadHead, ReadCopy, VerifyHead, VerifyCopy, Copy,
   Demand, ReadTimesOut

\* Inside a step function a job takes the steps of that function.
LEMMA InnerMoves ==
    ASSUME NEW t, Inner(t)
    PROVE  Step(t) \/ \E p \in Pages : PageStep(t, p)
BY Zenon DEF Inner, Step, BufferStep

\* What the environment of a scenario does are steps of Residency.
LEMMA OthersMove ==
    ASSUME scenario \in Scenarios, Others
    PROVE  Next
<1>1. /\ scenario.free \subseteq Pages /\ scenario.write \subseteq Pages
      /\ scenario.pin \subseteq Pages
  BY DemandAssumption, EnvironmentAssumption
<1> QED
  BY <1>1, Zenon DEF Others, Next, PageStep

\* The scenario is chosen once.
LEMMA ScenarioFixed == DemandNext => scenario' = scenario
<1> SUFFICES ASSUME DemandNext PROVE scenario' = scenario
  OBVIOUS
<1> USE DEF Jump, Become, Quit, End, Delivered, InHost
<1>1. ASSUME NEW t, NEW p, NEW l, CallEvictHostToNvme(t, p, l)
      PROVE  scenario' = scenario
  BY <1>1, Zenon DEF CallEvictHostToNvme
<1>2. ASSUME NEW t, JobStep(t) \/ Deadline(t) \/ ReadTimesOut(t)
      PROVE  scenario' = scenario
  <2>1. CASE \/ Inner(t) \/ LoadHead(t) \/ Loaded(t) \/ Promote(t)
             \/ Promoted(t) \/ WaitSettled(t) \/ Deadline(t)
    BY <2>1, Zenon DEF Inner, LoadHead, Loaded, Promote, Promoted,
       WaitSettled, Deadline
  <2>2. CASE \/ Room(t) \/ Snapshot(t) \/ ReadBudgets(t) \/ SetBudgets(t)
             \/ Plan(t) \/ HeadroomWait(t)
    BY <2>2, Zenon DEF Room, Snapshot, ReadBudgets, SetBudgets, Plan,
       HeadroomWait
  <2>3. CASE \/ Decide(t) \/ DemoteVictim(t) \/ VictimDemoted(t)
             \/ SpillVictim(t) \/ DemoteHead(t) \/ DemoteEnd(t)
    BY <2>3, <1>1, Zenon DEF Decide, DemoteVictim, VictimDemoted,
       SpillVictim, DemoteHead, DemoteEnd
  <2>4. CASE \/ EvictHead(t) \/ EvictDrop(t) \/ ReadHead(t) \/ ReadCopy(t)
             \/ VerifyHead(t) \/ VerifyCopy(t) \/ ReadTimesOut(t)
    BY <2>4, Zenon DEF EvictHead, EvictDrop, ReadHead, ReadCopy,
       VerifyHead, VerifyCopy, Copy, Demand, ReadTimesOut
  <2> QED
    BY <1>2, <2>1, <2>2, <2>3, <2>4, Zenon DEF JobStep
<1> QED
  BY <1>2, Zenon DEF DemandNext, Start, Others, RequestStop, Stopped,
     allVars, chainVars

\* Every step of the loops is a step of Residency or changes none of its variables.
LEMMA DemandMoves ==
    ASSUME scenario \in Scenarios, DemandNext
    PROVE  [Next]_vars
<1>1. ASSUME NEW t \in Threads, JobStep(t) \/ Deadline(t) \/ ReadTimesOut(t)
      PROVE  [Next]_vars
  BY <1>1, ThreadMoves, LoadMoves, HeadroomMoves, DemoteMoves, ReadMoves,
     InnerMoves, Zenon DEF JobStep
<1>2. CASE Others
  BY <1>2, OthersMove, Zenon
<1> QED
  BY <1>1, <1>2, Zenon DEF DemandNext, Start, RequestStop, Stopped, allVars

\* The retry loops around the transfer steps only ever take steps of Residency,
\* with the checks those make under state_mu_, whatever the planner plans and
\* however stale the snapshots are that the loops decide with.
THEOREM LoopsTakeSteps == DemandSpec => ImplementsResidency
<1>1. scenario \in Scenarios /\ [DemandNext]_allVars =>
            (scenario \in Scenarios)' /\ [Next]_vars
  BY DemandMoves, ScenarioFixed, Zenon DEF allVars, chainVars
<1>2. DemandInit => Init /\ scenario \in Scenarios
  BY Zenon DEF DemandInit
<1> QED
  BY <1>1, <1>2, PTL DEF DemandSpec, ImplementsResidency, Spec

-----------------------------------------------------------------------------
(* plan_evictions for one page.                                            *)

\* A non-empty set of positions in a sequence has a first and a last one.
LEMMA Ends ==
    ASSUME NEW n \in Nat, NEW s, s \subseteq 1 .. n, s # {}
    PROVE  /\ Min(s) \in s /\ \A x \in s : Min(s) <= x
           /\ Max(s) \in s /\ \A x \in s : x <= Max(s)
<1>1. ASSUME NEW S, S \subseteq Nat, S # {}
      PROVE  \E e \in S : \A f \in S : e <= f
  <2>1. PICK e \in S : \A f \in S : ~(<<f, e>> \in OpToRel(<, Nat))
    BY <1>1, NatLessThanWellFounded, WFMin, Zenon
  <2>2. ASSUME NEW f \in S PROVE e <= f
    <3>1. e \in Nat /\ f \in Nat
      BY <1>1, <2>1, <2>2, Zenon
    <3>2. ~(f < e)
      BY <2>1, <2>2, <3>1, Zenon DEF OpToRel
    <3> QED
      BY <3>1, <3>2
  <2> QED
    BY <2>2, Zenon
<1>2. s \subseteq Nat
  BY SMT
<1>3. PICK a \in s : \A x \in s : a <= x
  BY <1>1, <1>2, Zenon
<1>4. PICK b \in s : \A x \in s : x <= b
  <2> DEFINE R == {n - x : x \in s}
  <2>1. R \subseteq Nat
    <3>1. ASSUME NEW x \in s PROVE n - x \in Nat
      <4>1. x \in 1 .. n
        BY Zenon
      <4> QED
        BY <4>1, SMTT(30)
    <3> QED
      BY <3>1, Zenon
  <2>2. R # {}
    BY Zenon
  <2>3. PICK e \in R : \A f \in R : e <= f
    <3> HIDE DEF R
    <3> QED
      BY <1>1, <2>1, <2>2, Zenon
  <2>4. PICK b \in s : e = n - b
    BY <2>3, Zenon
  <2>5. ASSUME NEW x \in s PROVE x <= b
    <3>1. n - b <= n - x
      BY <2>3, <2>4, Zenon
    <3>2. x \in Nat /\ b \in Nat
      BY <1>2, <2>4, <2>5, Zenon
    <3> QED
      BY <3>1, <3>2, SMT
  <2> QED
    BY <2>5, Zenon
<1>5. Min(s) \in s /\ \A x \in s : Min(s) <= x
  BY <1>3, Zenon DEF Min
<1>6. Max(s) \in s /\ \A y \in s : Max(s) >= y
  <2>1. \A x \in s : b >= x
    BY <1>2, <1>4, SMT
  <2> QED
    BY <1>4, <2>1, Zenon DEF Max
<1> QED
  BY <1>2, <1>5, <1>6, SMT

\* g gives for each set of positions the plan after the loop of plan_evictions
\* has seen the candidates at these positions.
PlansUpTo(g, base, ranked) ==
    g = [s \in SUBSET (DOMAIN ranked) |->
            IF s = {} THEN base
            ELSE PlanVictim(g[s \ {Max(s)}], ranked[Max(s)])]

\* A plan for one unit that is missing.
Short(room) == [need |-> 1, room |-> room, out |-> <<>>]

\* The candidates of ensure_vram_headroom are free to go and of one unit.
Free(c) == c.size = 1 /\ ~c.pinned /\ ~c.in_flight

\* n candidates in the order the policy ranks them.
Ranking(ranked, n) == DOMAIN ranked = 1 .. n /\ \A i \in 1 .. n : Free(ranked[i])

\* The first candidate is enough, the rest stays.
LEMMA FirstEnough ==
    ASSUME NEW c, Free(c), NEW room, NEW d
    PROVE  /\ PlanVictim(PlanVictim(Short(room), c), d) = PlanVictim(Short(room), c)
           /\ PlanVictim(Short(room), c).out # <<>>
           /\ PlanVictim(Short(room), c).out[1].id = c.id
           /\ PlanVictim(Short(room), c).out[1].target \in {"host", "nvme"}
<1> DEFINE to == IF room < c.size THEN "nvme" ELSE "host"
           rest == IF room < c.size THEN room ELSE room - c.size
           plan == [need |-> 0, room |-> rest, out |-> <<[id |-> c.id, target |-> to]>>]
<1>1. Max({1 - 1, 0}) = 0
  <2>1. Max({0}) = 0
    BY SMT DEF Max
  <2>2. {1 - 1, 0} = {0}
    BY SMT
  <2> QED
    BY <2>1, <2>2, Zenon
<1>2. to \in {"host", "nvme"}
  BY Zenon
<1>3. PlanVictim(Short(room), c) = plan
  <2>1. PlanVictim(Short(room), c) =
          [need |-> Max({1 - c.size, 0}), room |-> rest,
           out |-> Append(<<>>, [id |-> c.id, target |-> to])]
    <3>1. /\ Short(room).need = 1 /\ Short(room).room = room
          /\ Short(room).out = <<>>
      BY Zenon DEF Short
    <3>2. 1 # 0
      BY SMT
    <3> QED
      BY <3>1, <3>2, Zenon DEF PlanVictim, Free
  <2>2. Append(<<>>, [id |-> c.id, target |-> to]) = <<[id |-> c.id, target |-> to]>>
    <3> HIDE DEF to
    <3> QED
      BY SMT
  <2> HIDE DEF rest, to
  <2> QED
    BY <1>1, <2>1, <2>2, Zenon DEF Free
<1>4. /\ plan.need = 0 /\ plan.out # <<>> /\ plan.out[1].id = c.id
      /\ plan.out[1].target = to
  <2> HIDE DEF rest, to
  <2> QED
    BY SMT
<1>5. PlanVictim(plan, d) = plan
  <2> HIDE DEF rest, to
  <2> QED
    BY Zenon DEF PlanVictim
<1> HIDE DEF plan, to
<1> QED
  BY <1>2, <1>3, <1>4, <1>5, Zenon

\* The loop of plan_evictions can be run on any ranking,
LEMMA PlanRuns ==
    ASSUME NEW n \in Nat, NEW ranked, Ranking(ranked, n), NEW room
    PROVE  \E g : PlansUpTo(g, Short(room), ranked)
<1> DEFINE base == Short(room)
           g == [s \in SUBSET (1 .. n) |->
                    IF s = {} THEN base ELSE PlanVictim(base, ranked[Min(s)])]
<1>1. ASSUME NEW s \in SUBSET (1 .. n), s # {}
      PROVE  g[s] = PlanVictim(g[s \ {Max(s)}], ranked[Max(s)])
  <2>1. /\ Min(s) \in s /\ \A x \in s : Min(s) <= x
        /\ Max(s) \in s /\ \A x \in s : x <= Max(s)
    BY <1>1, Ends, Zenon
  <2>2. g[s] = PlanVictim(base, ranked[Min(s)])
    BY <1>1, Zenon
  <2> DEFINE r == s \ {Max(s)}
  <2>3. r \in SUBSET (1 .. n)
    BY Zenon
  <2>4. CASE r = {}
    <3>1. Min(s) = Max(s) /\ g[r] = base
      BY <2>1, <2>3, <2>4, Zenon
    <3> QED
      BY <2>2, <3>1, Zenon
  <2>5. CASE r # {}
    <3>1. Min(r) \in r /\ \A x \in r : Min(r) <= x
      BY <2>3, <2>5, Ends, Zenon
    <3>2. g[r] = PlanVictim(base, ranked[Min(r)])
      BY <2>3, <2>5, Zenon
    <3>3. Min(s) \in 1 .. n /\ Min(r) \in 1 .. n /\ Max(s) \in 1 .. n
      BY <2>1, <3>1, Zenon
    <3>4. Min(s) <= Min(r) /\ Min(r) <= Max(s) /\ Min(r) # Max(s)
      BY <2>1, <3>1, Zenon
    <3>5. Min(s) # Max(s)
      BY <3>3, <3>4, SMT
    <3>6. Min(r) <= Min(s)
      BY <2>1, <3>1, <3>5, Zenon
    <3>7. Min(s) = Min(r)
      BY <3>3, <3>4, <3>6, SMT
    <3>8. PlanVictim(g[r], ranked[Max(s)]) = g[r]
      <4>1. Free(ranked[Min(r)])
        BY <3>3, Zenon DEF Ranking
      <4>2. PlanVictim(PlanVictim(base, ranked[Min(r)]), ranked[Max(s)])
              = PlanVictim(base, ranked[Min(r)])
        BY <4>1, FirstEnough, Zenon
      <4> HIDE DEF g, base, r
      <4> QED
        BY <3>2, <4>2, Zenon
    <3> QED
      BY <2>2, <3>2, <3>7, <3>8, Zenon
  <2> QED
    BY <2>4, <2>5, Zenon
<1>2. \A s \in SUBSET (1 .. n) :
        g[s] = IF s = {} THEN base
               ELSE PlanVictim(g[s \ {Max(s)}], ranked[Max(s)])
  BY <1>1, Zenon
<1>3. g = [s \in SUBSET (1 .. n) |-> g[s]]
  BY Zenon
<1>4. PlansUpTo(g, base, ranked)
  <2> HIDE DEF g, base
  <2> QED
    BY <1>2, <1>3, Zenon DEF PlansUpTo, Ranking
<1> QED
  BY <1>4, Zenon

\* and the plan has one victim, if there is a candidate.
LEMMA PlanOfOne ==
    ASSUME NEW n \in Nat, NEW ranked, Ranking(ranked, n), NEW room,
           NEW g, PlansUpTo(g, Short(room), ranked)
    PROVE  1 .. n = {} \/ \E i \in 1 .. n : g[1 .. n] = PlanVictim(Short(room), ranked[i])
<1> DEFINE base == Short(room)
           Good(s) == \E i \in s : g[s] = PlanVictim(base, ranked[i])
           B == {m \in 1 .. n : \E s \in SUBSET (1 .. n) :
                                    s # {} /\ ~Good(s) /\ Max(s) = m}
<1>1. SUFFICES ASSUME NEW z \in SUBSET (1 .. n), z # {}, ~Good(z) PROVE FALSE
  <2>1. 1 .. n \in SUBSET (1 .. n)
    BY Zenon
  <2> QED
    BY <2>1, Zenon
<1>2. ASSUME NEW s \in SUBSET (1 .. n), s # {}
      PROVE  Max(s) \in s /\ \A x \in s : x <= Max(s)
  BY <1>2, Ends, Zenon
<1>3. B \subseteq 1 .. n /\ B # {}
  BY <1>1, <1>2, Zenon
<1>4. PICK m \in B : \A x \in B : m <= x
  <2> HIDE DEF B
  <2> QED
    BY <1>3, Ends, Zenon
<1>5. PICK s \in SUBSET (1 .. n) : s # {} /\ ~Good(s) /\ Max(s) = m
  BY <1>4, Zenon
<1> DEFINE r == s \ {m}
<1>6. g[s] = PlanVictim(g[r], ranked[m])
  BY <1>5, Zenon DEF PlansUpTo, Ranking
<1>7. m \in s /\ \A x \in s : x <= m
  BY <1>2, <1>5, Zenon
<1>8. CASE r = {}
  <2>1. g[r] = base
    BY <1>8, Zenon DEF PlansUpTo, Ranking
  <2> QED
    BY <1>5, <1>6, <1>7, <2>1, Zenon
<1>9. CASE r # {}
  <2>1. r \in SUBSET (1 .. n) /\ Max(r) \in r
    BY <1>2, <1>9, Zenon
  <2>2. Max(r) <= m /\ Max(r) # m /\ m \in 1 .. n /\ Max(r) \in 1 .. n
    BY <1>7, <2>1, Zenon
  <2>3. ~(m <= Max(r))
    BY <2>2, SMT
  <2>4. Good(r)
    BY <1>4, <1>9, <2>1, <2>2, <2>3, Zenon
  <2>5. PICK i \in r : g[r] = PlanVictim(base, ranked[i])
    BY <2>4, Zenon
  <2>6. PlanVictim(g[r], ranked[m]) = g[r]
    <3>1. Free(ranked[i])
      BY <2>1, <2>5, Zenon DEF Ranking
    <3>2. PlanVictim(PlanVictim(base, ranked[i]), ranked[m])
            = PlanVictim(base, ranked[i])
      BY <3>1, FirstEnough, Zenon
    <3> HIDE DEF base, r
    <3> QED
      BY <2>5, <3>2, Zenon
  <2> QED
    BY <1>5, <1>6, <2>5, <2>6, Zenon
<1> QED
  BY <1>8, <1>9, Zenon

\* Planner::plan_evictions for one page when the budgets it was given have no
\* headroom: it throws, or names one of the candidates.
LEMMA PlanNamesVictim ==
    ASSUME NEW n \in Nat, NEW ranked, Ranking(ranked, n), NEW room,
           NEW b, VramHeadroom(b) = 0
    PROVE  LET plan == PlanEvictions(b, 1, ranked, room) IN
           plan.need = 0 =>
              /\ plan.out # <<>>
              /\ \E i \in 1 .. n : plan.out[1].id = ranked[i].id
              /\ plan.out[1].target \in {"host", "nvme"}
<1>1. PlanEvictions(b, 1, ranked, room) = PlanVictims(Short(room), ranked)
  <2>1. ~(1 <= 0) /\ 1 - 0 = 1
    BY SMT
  <2> QED
    BY <2>1, Zenon DEF PlanEvictions, Short
<1>2. PICK g : /\ PlansUpTo(g, Short(room), ranked)
               /\ PlanVictims(Short(room), ranked) = g[1 .. n]
  <2> DEFINE g == CHOOSE f : PlansUpTo(f, Short(room), ranked)
  <2>1. PlansUpTo(g, Short(room), ranked)
    BY PlanRuns, Zenon
  <2>2. PlanVictims(Short(room), ranked) = g[1 .. n]
    BY Zenon DEF PlanVictims, MapThenFoldSet, PlansUpTo, Ranking
  <2> HIDE DEF g
  <2> QED
    BY <2>1, <2>2, Zenon
<1>3. 1 .. n = {} \/ \E i \in 1 .. n : g[1 .. n] = PlanVictim(Short(room), ranked[i])
  BY <1>2, PlanOfOne, SMTT(20)
<1>4. CASE 1 .. n = {}
  <2>1. g[1 .. n] = Short(room)
    BY <1>2, <1>4, Zenon DEF PlansUpTo, Ranking
  <2>2. Short(room).need # 0
    BY SMT DEF Short
  <2> QED
    BY <1>1, <1>2, <2>1, <2>2, Zenon
<1>5. CASE 1 .. n # {}
  <2>1. PICK i \in 1 .. n : g[1 .. n] = PlanVictim(Short(room), ranked[i])
    BY <1>3, <1>5, Zenon
  <2>2. /\ PlanVictim(Short(room), ranked[i]).out # <<>>
        /\ PlanVictim(Short(room), ranked[i]).out[1].id = ranked[i].id
        /\ PlanVictim(Short(room), ranked[i]).out[1].target \in {"host", "nvme"}
    <3>1. Free(ranked[i])
      BY Zenon DEF Ranking
    <3> QED
      BY <3>1, FirstEnough, Zenon
  <2> QED
    BY <1>1, <1>2, <2>1, <2>2, Zenon
<1> QED
  BY <1>4, <1>5, Zenon

-----------------------------------------------------------------------------
(* A job that is alone.                                                    *)

\* The labels a job can be at, and the types of its locals.
JobLabels ==
    {"none", "load", "loaded", "promote", "promoted", "settle", "demote",
     "demoteEnd", "evict", "drop", "read", "verify", "copy"} \cup HeadroomLabels

JobRecords ==
    [fn : Operations \cup {"none"}, page : Pages \cup {NoPage}, at : JobLabels,
     target : {"vram", "host"}, tries : Nat, rounds : Nat, late : BOOLEAN,
     cands : SUBSET Pages, room : Int, seen : Int, victim : Pages \cup {NoPage},
     dest : {"none", "host", "nvme"}, alone : BOOLEAN]

JobTypes == job \in [Threads -> JobRecords] /\ planner \in Int

HasRoom == vram_used < VramUsable

\* What a job of t that is alone relies on when it stands at label l, between
\* two step functions, with n attempts used.
Ready(t, l, n) ==
    LET p == job[t].page
        v == job[t].victim
    IN
    /\ l \notin {"none", "wait"} /\ n \in {0, 1}
    /\ l \in {"snapshot", "budgets", "publish", "plan", "decide", "demoteVictim",
              "demoted", "spill", "evict", "drop"} => n = 0
    /\ l = "promote" \/ (l \in {"load", "loaded", "room"} /\ n = 1) => HasRoom
    /\ l = "loaded" \/ (l \in {"room", "promote"} /\ n = 1) =>
            state[p] = "ResidentHost"
    /\ l \in {"snapshot", "budgets", "publish", "plan"} => ~HasRoom
    /\ l \in {"budgets", "publish", "plan"} => job[t].cands \subseteq DeviceCandidates
    /\ l = "publish" => job[t].seen = vram_used
    /\ l = "plan" => planner = vram_used
    /\ l \in {"decide", "demoteVictim"} => v \in DeviceCandidates
    /\ l \in {"demoted", "spill"} => v \in Pages /\ state[v] = "ResidentHost"
    /\ l = "promoted" /\ state[p] # "ResidentVram" => n = 0 /\ HasRoom
    /\ l = "settle" /\ state[p] \in Resident => n = 0 /\ HasRoom
    /\ l = "demote" /\ n = 1 =>
            job[t].fn = "demote_to_nvme" /\ state[p] = "ResidentHost"
    /\ l = "demoteEnd" /\ state[p] # GoalOf(t) =>
            n = 0 /\ job[t].fn = "demote_to_nvme" /\ state[p] = "ResidentHost"

\* The same inside a step function: it was called for the page of the job or for
\* its victim, and still finds that page as it was.
CalledFor(t, l, n, p, fn) ==
    LET j == job[t] IN
    /\ n \in {0, 1}
    /\ \/ /\ l = "loaded" /\ p = j.page /\ fn = "load_nvme_to_host"
          /\ n = 1 => HasRoom
       \/ l = "promoted" /\ p = j.page /\ fn = "promote_host_to_vram"
       \/ /\ l = "demoted" /\ p = j.victim /\ p \in Pages
          /\ fn = "evict_vram_to_host" /\ n = 0
       \/ l = "room" /\ fn = "evict_host_to_nvme" /\ n = 0
       \/ /\ l = "demoteEnd" /\ p = j.page
          /\ IF j.fn = "demote_to_nvme"
             THEN \/ fn = "evict_vram_to_host" /\ n = 0
                  \/ fn = "evict_host_to_nvme"
             ELSE fn \in {"evict_vram_to_host", "load_nvme_to_host"}

Called(t) == Serves(t) /\ CalledFor(t, job[t].at, job[t].tries, page[t], task[t])

LoneOK(t) ==
    /\ issued = Pages /\ job[t].page \in Pages
    /\ \A u \in Threads \ {t} : job[u] = NoJob /\ pc[u] = "idle"
    /\ IF pc[t] = "idle" THEN Ready(t, job[t].at, job[t].tries) ELSE Called(t)

LoneInv == JobTypes /\ \A t \in Threads : job[t].alone => LoneOK(t)

-----------------------------------------------------------------------------
\* The record of a thread without a job.
LEMMA NoJobTyped == NoJob \in JobRecords /\ ~NoJob.alone /\ NoJob.at = "none"
BY SMTT(30) DEF NoJob, JobRecords, JobLabels, Operations, HeadroomLabels

\* The job of t goes on at label l with n attempts used.
Goes(t, l, n) ==
    /\ JobTypes' /\ \A u \in Threads \ {t} : job'[u] = job[u]
    /\ job'[t].at = l /\ job'[t].tries = n
    /\ job'[t].fn = job[t].fn /\ job'[t].page = job[t].page
    /\ job'[t].alone = job[t].alone

\* Become moves the job of t to label l and leaves the rest of it alone.
LEMMA Becoming ==
    ASSUME JobTypes, NEW t \in Threads, NEW l \in JobLabels, Become(t, l)
    PROVE  /\ Goes(t, l, job[t].tries)
           /\ job'[t].cands = job[t].cands /\ job'[t].seen = job[t].seen
           /\ l \notin {"room", "wait"} => job'[t].victim = job[t].victim
           /\ planner' = planner
<1> DEFINE j == job[t]
           a == j.late /\ l \in HeadroomLabels
           v == IF l \in {"room", "wait"} THEN NoPage ELSE j.victim
           d == IF l \in {"room", "wait"} THEN "none" ELSE j.dest
           r == [j EXCEPT !.at = l, !.late = a, !.victim = v, !.dest = d]
<1>1. j \in JobRecords /\ a \in BOOLEAN /\ planner \in Int
  BY DEF JobTypes, JobRecords
<1>2. job' = [job EXCEPT ![t] = r] /\ planner' = planner
  BY <1>1, Zenon DEF Become
<1>3. v \in Pages \cup {NoPage} /\ d \in {"none", "host", "nvme"}
  BY <1>1 DEF JobRecords
<1>4. /\ r \in JobRecords /\ r.at = l /\ r.tries = j.tries /\ r.fn = j.fn
      /\ r.page = j.page /\ r.alone = j.alone /\ r.cands = j.cands
      /\ r.seen = j.seen /\ r.victim = v
  <2> HIDE DEF a, v, d
  <2> QED
    BY <1>1, <1>3, ZenonT(60) DEF JobRecords
<1>5. /\ job'[t] = r /\ job' \in [Threads -> JobRecords]
      /\ \A u \in Threads \ {t} : job'[u] = job[u]
  <2> HIDE DEF r
  <2> QED
    BY <1>2, <1>4, Zenon DEF JobTypes
<1> HIDE DEF r, a, d
<1> QED
  BY <1>1, <1>2, <1>4, <1>5, Zenon DEF JobTypes, Goes

\* End removes the job of t and no other.
LEMMA Ending ==
    ASSUME JobTypes, NEW t \in Threads, End(t)
    PROVE  /\ JobTypes' /\ \A u \in Threads \ {t} : job'[u] = job[u]
           /\ job'[t] = NoJob
BY NoJobTyped, SMTT(30) DEF JobTypes, End

\* The job of t stays typed and, if it is alone, as LoneOK wants it; the jobs of
\* the other threads do not change.
Kept(t) ==
    /\ JobTypes' /\ \A u \in Threads \ {t} : job'[u] = job[u]
    /\ job'[t].alone => LoneOK(t)'

\* A job that ends is alone no more.
LEMMA EndKept ==
    ASSUME JobTypes, NEW t \in Threads, End(t) \/ Quit(t)
    PROVE  Kept(t)
BY Ending, NoJobTyped, Zenon DEF Kept, Quit

\* The job of t is alone only if it is LoneOK.
Lone(t) == JobTypes /\ (job[t].alone => LoneOK(t))

\* A job that goes on to a label with what that label relies on keeps LoneOK.
LEMMA GoesKept ==
    ASSUME NEW t \in Threads, Lone(t), NEW l, NEW n, Goes(t, l, n),
           issued' = issued, \A u \in Threads \ {t} : pc'[u] = pc[u],
           job[t].alone => IF pc'[t] = "idle" THEN Ready(t, l, n)' ELSE Called(t)'
    PROVE  Kept(t)
<1>1. SUFFICES ASSUME job'[t].alone PROVE LoneOK(t)'
  BY Zenon DEF Kept, Goes
<1>2. LoneOK(t) /\ job[t].alone
  BY <1>1, Zenon DEF Goes, Lone
<1>3. Ready(t, l, n)' => Ready(t, job[t].at, job[t].tries)'
  BY ZenonT(40) DEF Goes, Ready
<1>4. /\ issued' = Pages /\ job'[t].page \in Pages
      /\ \A u \in Threads \ {t} : job'[u] = NoJob /\ pc'[u] = "idle"
  BY <1>2, Zenon DEF LoneOK, Goes
<1> QED
  BY <1>2, <1>3, <1>4, Zenon DEF LoneOK

\* The same for a jump, which changes nothing of Residency.
LEMMA JumpKept ==
    ASSUME NEW t \in Threads, Lone(t), pc[t] = "idle", NEW l \in JobLabels,
           Jump(t, l), job[t].alone => Ready(t, l, job[t].tries)
    PROVE  Kept(t)
<1> PICK n : n = job[t].tries
  OBVIOUS
<1>1. /\ Goes(t, l, n)
      /\ job'[t].cands = job[t].cands /\ job'[t].seen = job[t].seen
      /\ l \notin {"room", "wait"} => job'[t].victim = job[t].victim
      /\ planner' = planner
  BY Becoming, Zenon DEF Jump, Lone
<1>2. /\ UNCHANGED <<state, in_flight, pinned, vram_used, issued, pc>>
  BY Zenon DEF Jump, vars, entryVars, budgetVars, threadVars
<1>3. DeviceCandidates' = DeviceCandidates /\ (HasRoom' <=> HasRoom)
  BY <1>2, Zenon DEF DeviceCandidates, Claimable, HasRoom
<1>4. GoalOf(t)' = GoalOf(t)
  BY <1>1, Zenon DEF GoalOf, Goes
<1>5. Ready(t, l, n) => Ready(t, l, n)'
  BY <1>1, <1>2, <1>3, <1>4, ZenonT(30) DEF Ready, Goes
<1> QED
  BY <1>1, <1>2, <1>5, GoesKept, Zenon

\* The job calls a step function and goes on at label l afterwards.
LEMMA CallKept ==
    ASSUME NEW t \in Threads, Promised(t), Lone(t), pc[t] = "idle", NEW l \in JobLabels,
           NEW p \in Pages, NEW fn \in StepFunctions, Calls(t, p, fn),
           Become(t, l),
           job[t].alone => CalledFor(t, l, job[t].tries, p, fn)
    PROVE  Kept(t)
<1> PICK n : n = job[t].tries
  OBVIOUS
<1>1. /\ Goes(t, l, n)
      /\ l \notin {"room", "wait"} => job'[t].victim = job[t].victim
  BY Becoming, Zenon DEF Lone
<1>2. /\ Serves(t)' /\ pc'[t] # "idle" /\ page'[t] = p /\ task'[t] = fn
      /\ issued' = issued /\ \A u \in Threads \ {t} : pc'[u] = pc[u]
      /\ fn # "promote_host_to_vram" => vram_used' = vram_used
  BY Zenon DEF Promised, CallTaken
<1>3. fn # "promote_host_to_vram" => (HasRoom' <=> HasRoom)
  BY <1>2, Zenon DEF HasRoom
<1>4. job'[t].at = l /\ job'[t].tries = n /\ job'[t].page = job[t].page
      /\ job'[t].fn = job[t].fn
  BY <1>1, Zenon DEF Goes
<1>5. CalledFor(t, l, n, p, fn) => CalledFor(t, l, n, p, fn)'
  BY <1>1, <1>3, <1>4, ZenonT(30) DEF CalledFor
<1>6. CalledFor(t, l, n, p, fn)' => Called(t)'
  BY <1>2, <1>4, Zenon DEF Called, CalledFor
<1> QED
  BY <1>1, <1>2, <1>5, <1>6, GoesKept, Zenon

-----------------------------------------------------------------------------
\* The job of t stands at label l.
LEMMA Standing ==
    ASSUME NEW t \in Threads, Lone(t), NEW l, At(t, l)
    PROVE  /\ pc[t] = "idle"
           /\ job[t].alone => /\ Ready(t, l, job[t].tries)
                              /\ job[t].page \in Pages
                              /\ l \notin {"none", "wait"} /\ job[t].tries \in {0, 1}
BY Zenon DEF At, Lone, LoneOK, Ready

\* A load that ends, or turns to its read, keeps LoneOK.
LEMMA DeliveredKept ==
    ASSUME NEW t \in Threads, Lone(t), NEW l, At(t, l), Delivered(t)
    PROVE  Kept(t)
<1>1. CASE Quit(t)
  BY <1>1, EndKept, Zenon DEF Lone
<1>2. CASE Jump(t, "copy")
  <2>1. "copy" \in JobLabels
    BY Zenon DEF JobLabels
  <2>2. job[t].alone => Ready(t, "copy", job[t].tries)
    BY Standing, Zenon DEF Ready
  <2> QED
    BY <1>2, <2>1, <2>2, Standing, JumpKept, Zenon
<1> QED
  BY <1>1, <1>2, Zenon DEF Delivered

\* So does a load that finds its page in the host tier.
LEMMA InHostKept ==
    ASSUME NEW t \in Threads, Lone(t), At(t, "load") \/ At(t, "loaded"),
           state[job[t].page] = "ResidentHost", InHost(t)
    PROVE  Kept(t)
<1>1. CASE Delivered(t)
  BY <1>1, DeliveredKept, Zenon
<1>2. CASE Jump(t, "room")
  <2>1. "room" \in JobLabels
    BY Zenon DEF JobLabels, HeadroomLabels
  <2>2. job[t].alone => Ready(t, "load", job[t].tries) \/ Ready(t, "loaded", job[t].tries)
    BY Standing, Zenon
  <2>3. job[t].alone => Ready(t, "room", job[t].tries)
    BY <2>2, Zenon DEF Ready
  <2> QED
    BY <1>2, <2>1, <2>3, Standing, JumpKept, Zenon
<1> QED
  BY <1>1, <1>2, Zenon DEF InHost

\* The labels that the loops go on to.
LEMMA JobLabelled ==
    \A l \in {"loaded", "settle", "promote", "promoted", "snapshot", "wait",
              "demoteVictim", "demoted", "spill", "room", "demoteEnd", "drop",
              "demote", "copy"} : l \in JobLabels
BY Zenon DEF JobLabels, HeadroomLabels

\* The head of load_page: a page in the store is loaded, from where it is.
LEMMA LoadHeadKept ==
    ASSUME NEW t \in Threads, Promised(t), Lone(t), LoadHead(t)
    PROVE  Kept(t)
<1> DEFINE p == job[t].page
<1>1. At(t, "load")
  BY Zenon DEF LoadHead
<1>2. CASE Quit(t)
  BY <1>2, EndKept, Zenon DEF Lone
<1>3. CASE Delivered(t)
  BY <1>1, <1>3, DeliveredKept, Zenon
<1>4. CASE state[p] = "ResidentHost" /\ InHost(t)
  BY <1>1, <1>4, InHostKept, Zenon
<1>5. CASE p \in Pages /\ Calls(t, p, "load_nvme_to_host") /\ Become(t, "loaded")
  <2>1. job[t].alone => CalledFor(t, "loaded", job[t].tries, p, "load_nvme_to_host")
    BY <1>1, Standing, Zenon DEF Ready, CalledFor
  <2> QED
    BY <1>1, <1>5, <2>1, Standing, JobLabelled, CallKept, Zenon DEF StepFunctions
<1>6. CASE state[p] \notin Resident /\ Jump(t, "settle")
  <2>1. job[t].alone => Ready(t, "settle", job[t].tries)
    BY <1>1, <1>6, Standing, Zenon DEF Ready
  <2> QED
    BY <1>1, <1>6, <2>1, Standing, JobLabelled, JumpKept, Zenon
<1> QED
  BY <1>2, <1>3, <1>4, <1>5, <1>6, Zenon DEF LoadHead, InTable, Calls

\* load_page after load_nvme_to_host: the page is in the host tier.
LEMMA LoadedKept ==
    ASSUME NEW t \in Threads, Promised(t), Lone(t), Loaded(t)
    PROVE  Kept(t)
<1> DEFINE p == job[t].page
<1>1. At(t, "loaded")
  BY Zenon DEF Loaded
<1>2. CASE Quit(t)
  BY <1>2, EndKept, Zenon DEF Lone
<1>3. CASE Delivered(t)
  BY <1>1, <1>3, DeliveredKept, Zenon
<1>4. CASE state[p] = "ResidentHost" /\ InHost(t)
  BY <1>1, <1>4, InHostKept, Zenon
<1>5. CASE state[p] # "ResidentHost" /\ Jump(t, "settle")
  <2>1. job[t].alone => Ready(t, "settle", job[t].tries)
    BY <1>1, <1>5, Standing, Zenon DEF Ready
  <2> QED
    BY <1>1, <1>5, <2>1, Standing, JobLabelled, JumpKept, Zenon
<1> QED
  BY <1>2, <1>3, <1>4, <1>5, Zenon DEF Loaded

\* promote_host_to_vram is called for a page in the host tier, with headroom.
LEMMA PromoteKept ==
    ASSUME NEW t \in Threads, Promised(t), Lone(t), Promote(t)
    PROVE  Kept(t)
<1> DEFINE p == job[t].page
<1>1. At(t, "promote")
  BY Zenon DEF Promote
<1>2. CASE Quit(t)
  BY <1>2, EndKept, Zenon DEF Lone
<1>3. CASE p \in Pages /\ Calls(t, p, "promote_host_to_vram") /\ Become(t, "promoted")
  <2>1. job[t].alone => CalledFor(t, "promoted", job[t].tries, p, "promote_host_to_vram")
    BY <1>1, Standing, Zenon DEF CalledFor
  <2> QED
    BY <1>1, <1>3, <2>1, Standing, JobLabelled, CallKept, Zenon DEF StepFunctions
<1>4. CASE /\ ~Claimable(p, "ResidentHost") \/ vram_used >= VramUsable
           /\ Jump(t, "promoted")
  <2>1. job[t].alone => HasRoom
    BY <1>1, Standing, Zenon DEF Ready
  <2>2. HasRoom => ~(vram_used >= VramUsable)
    BY BudgetAssumption, SMTT(30) DEF HasRoom, Promised
  <2>3. job[t].alone => job[t].tries = 0
    BY <1>1, <1>4, <2>1, <2>2, Standing, ZenonT(40) DEF Ready, Promised
  <2>4. job[t].alone => Ready(t, "promoted", job[t].tries)
    BY <2>1, <2>3, Zenon DEF Ready
  <2> QED
    BY <1>1, <1>4, <2>4, Standing, JobLabelled, JumpKept, Zenon
<1> QED
  BY <1>2, <1>3, <1>4, Zenon DEF Promote, InTable, Calls

\* load_page after the promotion: it succeeded, or one attempt is used up.
LEMMA PromotedKept ==
    ASSUME NEW t \in Threads, Promised(t), Lone(t), Promoted(t)
    PROVE  Kept(t)
<1> DEFINE p == job[t].page
<1>1. At(t, "promoted")
  BY Zenon DEF Promoted
<1>2. CASE Quit(t)
  BY <1>2, EndKept, Zenon DEF Lone
<1>3. CASE Delivered(t)
  BY <1>1, <1>3, DeliveredKept, Zenon
<1>4. CASE state[p] # "ResidentVram" /\ Jump(t, "settle")
  <2>1. job[t].alone => Ready(t, "settle", job[t].tries)
    BY <1>1, <1>4, Standing, Zenon DEF Ready
  <2> QED
    BY <1>1, <1>4, <2>1, Standing, JobLabelled, JumpKept, Zenon
<1> QED
  BY <1>2, <1>3, <1>4, Zenon DEF Promoted

-----------------------------------------------------------------------------
\* The job of t, which stands at a label, gets other locals and touches no page.
LEMMA UpdateKept ==
    ASSUME NEW t \in Threads, Lone(t), pc[t] = "idle", UNCHANGED vars,
           NEW r \in JobRecords, job' = [job EXCEPT ![t] = r], planner' \in Int,
           r.fn = job[t].fn, r.page = job[t].page, r.alone = job[t].alone,
           job[t].alone /\ job'[t] = r => Ready(t, r.at, r.tries)'
    PROVE  Kept(t)
<1>1. job'[t] = r /\ Goes(t, r.at, r.tries)
  BY Zenon DEF Lone, JobTypes, Goes
<1>2. UNCHANGED <<issued, pc>>
  BY Zenon DEF vars, threadVars
<1> QED
  BY <1>1, <1>2, GoesKept, Zenon

\* A step of the loops alone changes nothing that Ready reads of Residency.
LEMMA SameWorld ==
    ASSUME UNCHANGED vars
    PROVE  /\ UNCHANGED <<state, vram_used>> /\ (HasRoom' <=> HasRoom)
           /\ DeviceCandidates' = DeviceCandidates
<1>1. UNCHANGED <<state, in_flight, pinned, vram_used>>
  BY Zenon DEF vars, entryVars, budgetVars
<1> QED
  BY <1>1, Zenon DEF DeviceCandidates, Claimable, HasRoom

\* wait_settled after a failed attempt: with nobody else the page is settled.
LEMMA WaitSettledKept ==
    ASSUME NEW t \in Threads, Lone(t), WaitSettled(t)
    PROVE  Kept(t)
<1>1. At(t, "settle")
  BY Zenon DEF WaitSettled
<1>2. CASE Quit(t)
  BY <1>2, EndKept, Zenon DEF Lone
<1>3. CASE ~Quit(t)
  <2>1. /\ state[job[t].page] \in Resident /\ UNCHANGED <<vars, planner>>
        /\ job' = [job EXCEPT ![t].at = "load", ![t].tries = @ + 1]
    BY <1>3, Zenon DEF WaitSettled
  <2>2. job[t] \in JobRecords /\ planner' \in Int
    BY <2>1, Zenon DEF Lone, JobTypes
  <2> PICK m : m = job[t].tries + 1
    OBVIOUS
  <2>3. m \in Nat
    BY <2>2, SMTT(30) DEF JobRecords
  <2> PICK r : r = [job[t] EXCEPT !.at = "load", !.tries = m]
    OBVIOUS
  <2>4. job' = [job EXCEPT ![t] = r]
    BY <2>1, ZenonT(40)
  <2>5. /\ r \in JobRecords /\ r.fn = job[t].fn /\ r.page = job[t].page
        /\ r.alone = job[t].alone /\ r.at = "load" /\ r.tries = m
    BY <2>2, <2>3, ZenonT(60) DEF JobRecords, JobLabels
  <2>6. job[t].alone => HasRoom /\ job[t].tries = 0
    BY <1>1, <2>1, Standing, ZenonT(40) DEF Ready
  <2>7. job[t].alone => m = 1
    BY <2>6, SMTT(30)
  <2>8. job[t].alone => Ready(t, r.at, r.tries)'
    BY <2>1, <2>5, <2>6, <2>7, SameWorld, Zenon DEF Ready
  <2> QED
    BY <1>1, <2>1, <2>2, <2>4, <2>5, <2>8, Standing, UpdateKept, Zenon
<1> QED
  BY <1>2, <1>3

\* The headroom check of ensure_vram_headroom.
LEMMA RoomKept ==
    ASSUME NEW t \in Threads, Lone(t), Room(t)
    PROVE  Kept(t)
<1>1. At(t, "room")
  BY Zenon DEF Room
<1>2. CASE Quit(t)
  BY <1>2, EndKept, Zenon DEF Lone
<1>3. CASE HasRoom /\ Jump(t, "promote")
  <2>1. job[t].alone => Ready(t, "promote", job[t].tries)
    BY <1>1, <1>3, Standing, Zenon DEF Ready
  <2> QED
    BY <1>1, <1>3, <2>1, Standing, JobLabelled, JumpKept, Zenon
<1>4. CASE ~HasRoom /\ Jump(t, "snapshot")
  <2>1. job[t].alone => Ready(t, "snapshot", job[t].tries)
    BY <1>1, <1>4, Standing, Zenon DEF Ready
  <2> QED
    BY <1>1, <1>4, <2>1, Standing, JobLabelled, JumpKept, Zenon
<1> QED
  BY <1>2, <1>3, <1>4, Zenon DEF Room, HasRoom

\* The candidates of the snapshot stay candidates: nobody else takes one.
LEMMA SnapshotKept ==
    ASSUME NEW t \in Threads, Promised(t), Lone(t), Snapshot(t)
    PROVE  Kept(t)
<1>1. At(t, "snapshot") /\ UNCHANGED <<vars, planner>>
  BY Zenon DEF Snapshot
<1> PICK r : r = [job[t] EXCEPT !.at = "budgets", !.cands = DeviceCandidates,
                                !.room = HostUsable - host_used]
  OBVIOUS
<1>2. job' = [job EXCEPT ![t] = r] /\ planner' \in Int /\ job[t] \in JobRecords
  BY <1>1, Zenon DEF Snapshot, Lone, JobTypes
<1>3. DeviceCandidates \in SUBSET Pages /\ HostUsable - host_used \in Int
  BY BudgetAssumption, SMTT(30) DEF DeviceCandidates, Promised
<1>4. /\ r \in JobRecords /\ r.fn = job[t].fn /\ r.page = job[t].page
      /\ r.alone = job[t].alone /\ r.at = "budgets" /\ r.tries = job[t].tries
      /\ r.cands = DeviceCandidates
  <2> HIDE DEF DeviceCandidates
  <2> QED
    BY <1>2, <1>3, ZenonT(60) DEF JobRecords, JobLabels, HeadroomLabels
<1>5. job[t].alone => job[t].tries = 0 /\ ~HasRoom
  BY <1>1, Standing, Zenon DEF Ready
<1>6. job[t].alone /\ job'[t] = r => Ready(t, r.at, r.tries)'
  BY <1>1, <1>4, <1>5, SameWorld, Zenon DEF Ready
<1> QED
  BY <1>1, <1>2, <1>4, <1>6, Standing, UpdateKept, Zenon

\* The budgets a round reads are those of its snapshot.
LEMMA ReadBudgetsKept ==
    ASSUME NEW t \in Threads, Promised(t), Lone(t), ReadBudgets(t)
    PROVE  Kept(t)
<1>1. At(t, "budgets") /\ UNCHANGED <<vars, planner>>
  BY Zenon DEF ReadBudgets
<1> PICK r : r = [job[t] EXCEPT !.at = "publish", !.seen = vram_used]
  OBVIOUS
<1>2. job' = [job EXCEPT ![t] = r] /\ planner' \in Int /\ job[t] \in JobRecords
  BY <1>1, Zenon DEF ReadBudgets, Lone, JobTypes
<1>3. vram_used \in Int
  BY Zenon DEF Promised
<1>4. /\ r \in JobRecords /\ r.fn = job[t].fn /\ r.page = job[t].page
      /\ r.alone = job[t].alone /\ r.at = "publish" /\ r.tries = job[t].tries
      /\ r.cands = job[t].cands /\ r.seen = vram_used
  BY <1>2, <1>3, ZenonT(60) DEF JobRecords, JobLabels, HeadroomLabels
<1>5. job[t].alone =>
        job[t].tries = 0 /\ ~HasRoom /\ job[t].cands \subseteq DeviceCandidates
  BY <1>1, Standing, Zenon DEF Ready
<1>6. job[t].alone /\ job'[t] = r => Ready(t, r.at, r.tries)'
  BY <1>1, <1>4, <1>5, SameWorld, Zenon DEF Ready
<1> QED
  BY <1>1, <1>2, <1>4, <1>6, Standing, UpdateKept, Zenon

\* The planner is given what this round read.
LEMMA SetBudgetsKept ==
    ASSUME NEW t \in Threads, Promised(t), Lone(t), SetBudgets(t)
    PROVE  Kept(t)
<1>1. At(t, "publish") /\ UNCHANGED vars /\ planner' = job[t].seen
  BY Zenon DEF SetBudgets
<1>6. job[t] \in JobRecords => job[t].seen \in Int
  BY SMTT(30) DEF JobRecords
<1> PICK z \in Int : z = 0
  OBVIOUS
<1> PICK r : r = [job[t] EXCEPT !.at = "plan", !.seen = z]
  OBVIOUS
<1>2. job' = [job EXCEPT ![t] = r] /\ job[t] \in JobRecords
  BY <1>1, Zenon DEF SetBudgets, Lone, JobTypes
<1>3. /\ r \in JobRecords /\ r.fn = job[t].fn /\ r.page = job[t].page
      /\ r.alone = job[t].alone /\ r.at = "plan" /\ r.tries = job[t].tries
      /\ r.cands = job[t].cands
  BY <1>2, ZenonT(60) DEF JobRecords, JobLabels, HeadroomLabels
<1>4. job[t].alone => /\ job[t].tries = 0 /\ ~HasRoom /\ job[t].seen = vram_used
                      /\ job[t].cands \subseteq DeviceCandidates
  BY <1>1, Standing, ZenonT(40) DEF Ready
<1>5. job[t].alone /\ job'[t] = r => Ready(t, r.at, r.tries)'
  BY <1>1, <1>3, <1>4, SameWorld, Zenon DEF Ready
<1> QED
  BY <1>1, <1>2, <1>3, <1>5, <1>6, Standing, UpdateKept, Zenon

\* The victim of the plan is still a candidate when it is looked up.
LEMMA DecideKept ==
    ASSUME NEW t \in Threads, Lone(t), Decide(t)
    PROVE  Kept(t)
<1> DEFINE v == job[t].victim
<1>1. At(t, "decide")
  BY Zenon DEF Decide
<1>2. job[t].alone => /\ job[t].tries = 0 /\ v \in DeviceCandidates
                      /\ ~Protected(v)
  BY <1>1, Standing, ZenonT(40) DEF Ready, DeviceCandidates, Claimable, Protected
<1>3. CASE Quit(t)
  BY <1>3, EndKept, Zenon DEF Lone
<1>4. CASE CleanDrop(v) /\ Become(t, "room")
  <2> PICK n : n = job[t].tries
    OBVIOUS
  <2>1. Goes(t, "room", n)
    BY <1>4, Becoming, JobLabelled, Zenon DEF Lone
  <2>2. UNCHANGED <<issued, pc>>
    BY <1>4, Zenon DEF CleanDrop, threadVars
  <2>3. 0 # 1
    BY SMT
  <2>4. job[t].alone => Ready(t, "room", n)'
    BY <1>2, <2>3, Zenon DEF Ready
  <2> QED
    BY <1>1, <2>1, <2>2, <2>4, Standing, GoesKept, Zenon
<1>5. CASE Protected(v) /\ Jump(t, "wait")
  BY <1>1, <1>2, <1>5, Standing, JobLabelled, JumpKept, Zenon
<1>6. CASE Jump(t, "demoteVictim")
  <2>1. job[t].alone => Ready(t, "demoteVictim", job[t].tries)
    BY <1>1, Standing, Zenon DEF Ready
  <2> QED
    BY <1>1, <1>6, <2>1, Standing, JobLabelled, JumpKept, Zenon
<1> QED
  BY <1>3, <1>4, <1>5, <1>6, Zenon DEF Decide

\* evict_vram_to_host is called for a victim that is in device memory.
LEMMA DemoteVictimKept ==
    ASSUME NEW t \in Threads, Promised(t), Lone(t), DemoteVictim(t)
    PROVE  Kept(t)
<1> DEFINE v == job[t].victim
<1>1. At(t, "demoteVictim")
  BY Zenon DEF DemoteVictim
<1>2. job[t].alone => /\ job[t].tries = 0 /\ ~Protected(v)
                      /\ state[v] = "ResidentVram"
  BY <1>1, Standing, Zenon DEF Ready, DeviceCandidates, Claimable, Protected
<1>3. CASE Quit(t)
  BY <1>3, EndKept, Zenon DEF Lone
<1>4. CASE v \in Pages /\ Calls(t, v, "evict_vram_to_host") /\ Become(t, "demoted")
  <2>1. job[t].alone => CalledFor(t, "demoted", job[t].tries, v, "evict_vram_to_host")
    BY <1>2, <1>4, Zenon DEF CalledFor
  <2> QED
    BY <1>1, <1>4, <2>1, Standing, JobLabelled, CallKept, Zenon DEF StepFunctions
<1>5. CASE (Protected(v) \/ state[v] # "ResidentVram") /\ Jump(t, "wait")
  BY <1>1, <1>2, <1>5, Standing, JobLabelled, JumpKept, Zenon
<1> QED
  BY <1>3, <1>4, <1>5, Zenon DEF DemoteVictim, InTable, Calls

\* After it the victim is in the host tier, and is spilled or left there.
LEMMA VictimDemotedKept ==
    ASSUME NEW t \in Threads, Lone(t), VictimDemoted(t)
    PROVE  Kept(t)
<1> DEFINE v == job[t].victim
<1>1. At(t, "demoted")
  BY Zenon DEF VictimDemoted
<1>2. job[t].alone => state[v] = "ResidentHost"
  BY <1>1, Standing, Zenon DEF Ready
<1>3. CASE Quit(t)
  BY <1>3, EndKept, Zenon DEF Lone
<1>4. ASSUME NEW l \in {"spill", "room"}, Jump(t, l) PROVE Kept(t)
  <2>1. 0 # 1
    BY SMT
  <2>2. job[t].alone => Ready(t, l, job[t].tries)
    BY <1>1, <1>4, <2>1, Standing, Zenon DEF Ready
  <2> QED
    BY <1>1, <1>4, <2>2, Standing, JobLabelled, JumpKept, Zenon
<1>5. CASE state[v] # "ResidentHost" /\ Jump(t, "wait")
  BY <1>1, <1>2, <1>5, Standing, JobLabelled, JumpKept, Zenon
<1> QED
  BY <1>3, <1>4, <1>5, Zenon DEF VictimDemoted

\* evict_host_to_nvme is called for a victim in the host tier.
LEMMA SpillVictimKept ==
    ASSUME NEW t \in Threads, Promised(t), Lone(t), SpillVictim(t)
    PROVE  Kept(t)
<1> DEFINE v == job[t].victim
<1>1. At(t, "spill")
  BY Zenon DEF SpillVictim
<1>2. CASE Quit(t)
  BY <1>2, EndKept, Zenon DEF Lone
<1>3. CASE v \in Pages /\ Calls(t, v, "evict_host_to_nvme") /\ Become(t, "room")
  <2>1. job[t].alone => CalledFor(t, "room", job[t].tries, v, "evict_host_to_nvme")
    BY <1>1, Standing, Zenon DEF Ready, CalledFor
  <2> QED
    BY <1>1, <1>3, <2>1, Standing, JobLabelled, CallKept, Zenon DEF StepFunctions
<1>4. CASE Jump(t, "room")
  <2>1. 0 # 1
    BY SMT
  <2>2. job[t].alone => Ready(t, "room", job[t].tries)
    BY <1>1, <2>1, Standing, Zenon DEF Ready
  <2> QED
    BY <1>1, <1>4, <2>2, Standing, JobLabelled, JumpKept, Zenon
<1> QED
  BY <1>2, <1>3, <1>4, Zenon DEF SpillVictim, CallEvictHostToNvme, InTable, Calls

\* A job that is alone never waits in ensure_vram_headroom.
LEMMA HeadroomWaitKept ==
    ASSUME NEW t \in Threads, Lone(t), HeadroomWait(t)
    PROVE  Kept(t)
BY Standing, JobLabelled, JumpKept, Zenon DEF HeadroomWait

\* A plan that plan_evictions makes: no victim, with headroom in the budgets it
\* was given, or one of the candidates.
LEMMA PlanOutcome ==
    ASSUME NEW t \in Threads, JobTypes, NEW plan \in Plans(t), plan.need = 0
    PROVE  \/ plan.out = <<>> /\ planner < VramUsable
           \/ /\ plan.out # <<>> /\ plan.out[1].id \in job[t].cands
              /\ plan.out[1].target \in {"host", "nvme"}
<1> DEFINE b == [vram_limit |-> VramUsable, vram_reserve |-> 0, vram_used |-> planner]
           c(p) == [id |-> p, size |-> 1, seq |-> 0, pinned |-> FALSE,
                    in_flight |-> FALSE]
           C == {c(p) : p \in job[t].cands}
<1>1. PICK ranked \in Bijection(1 .. Cardinality(C), C) :
         plan = PlanEvictions(b, 1, ranked, job[t].room)
  BY Zenon DEF Plans
<1>2. job[t].cands \in SUBSET Pages /\ planner \in Int /\ VramUsable \in Nat
  BY BudgetAssumption DEF JobTypes, JobRecords
<1>3. Cardinality(C) \in Nat
  <2>1. IsFiniteSet(job[t].cands)
    BY <1>2, FiniteAssumption, FS_Subset, Zenon
  <2>2. [p \in job[t].cands |-> c(p)] \in Surjection(job[t].cands, C)
    BY Zenon DEF Surjection
  <2> HIDE DEF C
  <2>3. IsFiniteSet(C)
    BY <2>1, <2>2, FS_Surjection, Zenon
  <2> QED
    BY <2>3, FS_CardinalityType, Zenon
<1>4. PICK n \in Nat : ranked \in [1 .. n -> C]
  <2> HIDE DEF C
  <2> QED
    BY <1>1, <1>3, Zenon DEF Bijection, Injection
<1>5. \A i \in 1 .. n : Free(ranked[i]) /\ ranked[i].id \in job[t].cands
  <2>1. \A x \in C : Free(x) /\ x.id \in job[t].cands
    BY SMTT(20) DEF Free
  <2> HIDE DEF C
  <2> QED
    BY <1>4, <2>1, Zenon
<1>6. Ranking(ranked, n)
  <2> HIDE DEF C
  <2> QED
    BY <1>4, <1>5, Zenon DEF Ranking
<1>7. CASE planner < VramUsable
  <2>1. 1 <= VramHeadroom(b)
    BY <1>2, <1>7, SMTT(30) DEF VramHeadroom, Usable
  <2>2. plan.out = <<>>
    BY <1>1, <2>1, SMTT(30) DEF PlanEvictions
  <2> QED
    BY <1>7, <2>2, Zenon
<1>8. CASE ~(planner < VramUsable)
  <2>1. VramHeadroom(b) = 0
    BY <1>2, <1>8, SMTT(30) DEF VramHeadroom, Usable
  <2>2. /\ plan.out # <<>> /\ \E i \in 1 .. n : plan.out[1].id = ranked[i].id
        /\ plan.out[1].target \in {"host", "nvme"}
    <3> HIDE DEF b, C
    <3> QED
      BY <1>1, <1>6, <2>1, PlanNamesVictim, SMTT(20)
  <2> QED
    BY <1>5, <2>2, Zenon
<1> QED
  BY <1>7, <1>8, Zenon

\* plan_evictions throws or names a victim: without headroom it is never empty.
LEMMA PlanKept ==
    ASSUME NEW t \in Threads, Promised(t), Lone(t), Plan(t)
    PROVE  Kept(t)
<1>1. At(t, "plan")
  BY Zenon DEF Plan
<1>2. CASE Quit(t)
  BY <1>2, EndKept, Zenon DEF Lone
<1>3. CASE ~Quit(t)
  <2>1. PICK plan \in Plans(t) :
          /\ plan.need = 0 /\ UNCHANGED <<vars, planner>>
          /\ job' = [job EXCEPT
               ![t].at = IF plan.out = <<>> THEN "wait" ELSE "decide",
               ![t].victim = IF plan.out = <<>> THEN NoPage ELSE plan.out[1].id,
               ![t].dest = IF plan.out = <<>> THEN "none" ELSE plan.out[1].target,
               ![t].cands = {}, ![t].room = 0]
    BY <1>3, Zenon DEF Plan
  <2> PICK l : l = IF plan.out = <<>> THEN "wait" ELSE "decide"
    OBVIOUS
  <2> PICK v : v = IF plan.out = <<>> THEN NoPage ELSE plan.out[1].id
    OBVIOUS
  <2> PICK d : d = IF plan.out = <<>> THEN "none" ELSE plan.out[1].target
    OBVIOUS
  <2> PICK z \in Int : z = 0
    BY SMTT(30)
  <2> PICK r : r = [job[t] EXCEPT !.at = l, !.victim = v, !.dest = d,
                                  !.cands = {}, !.room = z]
    OBVIOUS
  <2>2. job[t] \in JobRecords /\ planner' \in Int /\ job' = [job EXCEPT ![t] = r]
    BY <2>1, ZenonT(40) DEF Lone, JobTypes
  <2>3. job[t].cands \in SUBSET Pages
    BY <2>2 DEF JobRecords
  <2>4. \/ plan.out = <<>> /\ planner < VramUsable
        \/ /\ plan.out # <<>> /\ plan.out[1].id \in job[t].cands
           /\ plan.out[1].target \in {"host", "nvme"}
    BY <2>1, PlanOutcome, Zenon DEF Lone
  <2>5. /\ l \in {"wait", "decide"} /\ v \in Pages \cup {NoPage}
        /\ d \in {"none", "host", "nvme"}
        /\ ~(planner < VramUsable) => l = "decide" /\ v \in job[t].cands
    BY <2>3, <2>4, Zenon
  <2>6. l \in JobLabels
    BY <2>5, Zenon DEF JobLabels, HeadroomLabels
  <2>7. /\ r \in JobRecords /\ r.fn = job[t].fn /\ r.page = job[t].page
        /\ r.alone = job[t].alone /\ r.at = l /\ r.tries = job[t].tries
        /\ r.victim = v
    BY <2>2, <2>5, <2>6, ZenonT(60) DEF JobRecords
  <2>8. job[t].alone => /\ ~(planner < VramUsable) /\ job[t].tries = 0
                        /\ job[t].cands \subseteq DeviceCandidates
    <3>1. job[t].alone => Ready(t, "plan", job[t].tries)
      BY <1>1, Standing, ZenonT(40)
    <3> QED
      BY <3>1, ZenonT(40) DEF Ready, HasRoom
  <2>9. job[t].alone => l = "decide" /\ v \in DeviceCandidates
    BY <2>5, <2>8, Zenon
  <2>10. job[t].alone /\ job'[t] = r => Ready(t, r.at, r.tries)'
    BY <2>1, <2>7, <2>8, <2>9, SameWorld, Zenon DEF Ready
  <2>11. pc[t] = "idle"
    BY <1>1, Standing, ZenonT(40)
  <2> QED
    BY <1>1, <2>1, <2>2, <2>7, <2>10, <2>11, UpdateKept, ZenonT(40)
<1> QED
  BY <1>2, <1>3

\* The head of demote_*: the step function that brings the page nearer its goal.
LEMMA DemoteHeadKept ==
    ASSUME NEW t \in Threads, Promised(t), Lone(t), DemoteHead(t)
    PROVE  Kept(t)
<1> DEFINE p == job[t].page
<1>1. At(t, "demote")
  BY Zenon DEF DemoteHead
<1>2. CASE Quit(t)
  BY <1>2, EndKept, Zenon DEF Lone
<1>3. ASSUME p \in Pages, state[p] # GoalOf(t), NEW fn \in StepFunctions,
             Calls(t, p, fn), Become(t, "demoteEnd"),
             \/ state[p] = "ResidentVram" /\ fn = "evict_vram_to_host"
             \/ state[p] = "ResidentNvme" /\ fn = "load_nvme_to_host"
             \/ state[p] = "ResidentHost" /\ fn = "evict_host_to_nvme"
      PROVE  Kept(t)
  <2>1. ASSUME job[t].alone PROVE Ready(t, "demote", job[t].tries)
    BY <1>1, <2>1, Standing, Zenon
  <2>2. ASSUME job[t].alone PROVE CalledFor(t, "demoteEnd", job[t].tries, p, fn)
    BY <1>3, <2>1, <2>2, ZenonT(40) DEF Ready, GoalOf, CalledFor
  <2> QED
    BY <1>1, <1>3, <2>2, Standing, JobLabelled, CallKept, Zenon
<1>4. CASE p \in Pages /\ state[p] = "ResidentHost" /\ ~Claimable(p, "ResidentHost")
  BY <1>4, Zenon DEF Promised
<1> QED
  BY <1>2, <1>3, <1>4, Zenon DEF DemoteHead, CallEvictHostToNvme, InTable,
     Unwaitable, Calls, StepFunctions

\* demote_* after a step function: the page is at its goal, or half-way to NVMe.
LEMMA DemoteEndKept ==
    ASSUME NEW t \in Threads, Lone(t), DemoteEnd(t)
    PROVE  Kept(t)
<1>1. At(t, "demoteEnd")
  BY Zenon DEF DemoteEnd
<1>2. CASE Quit(t)
  BY <1>2, EndKept, Zenon DEF Lone
<1>3. CASE ~Quit(t)
  <2>1. /\ state[job[t].page] # GoalOf(t) /\ UNCHANGED <<vars, planner>>
        /\ job' = [job EXCEPT ![t].at = "demote", ![t].tries = @ + 1]
    BY <1>3, Zenon DEF DemoteEnd
  <2>2. job[t] \in JobRecords /\ planner' \in Int
    BY <2>1, Zenon DEF Lone, JobTypes
  <2> PICK m : m = job[t].tries + 1
    OBVIOUS
  <2>3. m \in Nat
    BY <2>2, SMTT(30) DEF JobRecords
  <2> PICK r : r = [job[t] EXCEPT !.at = "demote", !.tries = m]
    OBVIOUS
  <2>4. job' = [job EXCEPT ![t] = r]
    BY <2>1, Zenon
  <2>5. /\ r \in JobRecords /\ r.fn = job[t].fn /\ r.page = job[t].page
        /\ r.alone = job[t].alone /\ r.at = "demote" /\ r.tries = m
    BY <2>2, <2>3, ZenonT(60) DEF JobRecords, JobLabels
  <2>6. job[t].alone => /\ job[t].tries = 0 /\ job[t].fn = "demote_to_nvme"
                        /\ state[job[t].page] = "ResidentHost"
    BY <1>1, <2>1, Standing, Zenon DEF Ready
  <2>7. job[t].alone => m = 1
    BY <2>6, SMT
  <2>8. job[t].alone /\ job'[t] = r => Ready(t, r.at, r.tries)'
    BY <2>1, <2>5, <2>6, <2>7, SameWorld, ZenonT(40) DEF Ready
  <2> QED
    BY <1>1, <2>1, <2>2, <2>4, <2>5, <2>8, Standing, UpdateKept, Zenon
<1> QED
  BY <1>2, <1>3

\* evict, which demotes or drops a clean copy.
LEMMA EvictKept ==
    ASSUME NEW t \in Threads, Lone(t), EvictHead(t) \/ EvictDrop(t)
    PROVE  Kept(t)
<1>1. At(t, "evict") \/ At(t, "drop")
  BY Zenon DEF EvictHead, EvictDrop
<1>2. CASE End(t) \/ Quit(t)
  BY <1>2, EndKept, Zenon DEF Lone
<1>3. ASSUME NEW l \in {"drop", "demote"}, Jump(t, l) PROVE Kept(t)
  <2>1. 0 # 1
    BY SMT
  <2>2. /\ pc[t] = "idle"
        /\ job[t].alone => Ready(t, "evict", job[t].tries) \/ Ready(t, "drop", job[t].tries)
    BY <1>1, Standing, Zenon
  <2>3. job[t].alone => Ready(t, l, job[t].tries)
    BY <1>3, <2>1, <2>2, Zenon DEF Ready
  <2> QED
    BY <1>3, <2>2, <2>3, JobLabelled, JumpKept, Zenon
<1> QED
  BY <1>2, <1>3, Zenon DEF EvictHead, EvictDrop

\* A read that needs its page brought in becomes a load.
LEMMA DemandKept ==
    ASSUME NEW t \in Threads, Lone(t), pc[t] = "idle",
           NEW target \in {"vram", "host"}, Demand(t, target)
    PROVE  Kept(t)
<1> PICK z \in Nat : z = 0
  OBVIOUS
<1> PICK r : r = [job[t] EXCEPT !.at = "load", !.tries = z, !.target = target]
  OBVIOUS
<1>1. /\ job[t] \in JobRecords /\ planner' \in Int /\ UNCHANGED vars
      /\ job' = [job EXCEPT ![t] = r]
  BY Zenon DEF Demand, Lone, JobTypes
<1>2. /\ r \in JobRecords /\ r.fn = job[t].fn /\ r.page = job[t].page
      /\ r.alone = job[t].alone /\ r.at = "load" /\ r.tries = z
  BY <1>1, ZenonT(60) DEF JobRecords, JobLabels
<1>3. z # 1
  BY SMT
<1>4. Ready(t, r.at, r.tries)'
  BY <1>2, <1>3, Zenon DEF Ready
<1> QED
  BY <1>1, <1>2, <1>4, UpdateKept, Zenon

\* read_page and verify_page, and their deadline.
LEMMA ReadKept ==
    ASSUME NEW t \in Threads, Lone(t),
           \/ ReadHead(t) \/ VerifyHead(t) \/ ReadCopy(t) \/ VerifyCopy(t)
           \/ ReadTimesOut(t)
    PROVE  Kept(t)
<1>1. PICK l : At(t, l) /\ l \in {"read", "verify", "copy"}
  BY Zenon DEF ReadHead, VerifyHead, ReadCopy, VerifyCopy, Copy, ReadTimesOut
<1>2. CASE Quit(t)
  BY <1>2, EndKept, Zenon DEF Lone
<1>3. CASE \E target \in {"vram", "host"} : Demand(t, target)
  BY <1>1, <1>3, Standing, DemandKept, Zenon
<1>4. CASE Jump(t, "copy")
  <2>1. job[t].alone => Ready(t, "copy", job[t].tries)
    BY <1>1, Standing, Zenon DEF Ready
  <2> QED
    BY <1>1, <1>4, <2>1, Standing, JobLabelled, JumpKept, Zenon
<1> QED
  BY <1>2, <1>3, <1>4, Zenon DEF ReadHead, VerifyHead, ReadCopy, VerifyCopy,
     Copy, ReadTimesOut

\* The deadline of ensure_vram_headroom may pass anywhere in its loop.
LEMMA DeadlineKept ==
    ASSUME NEW t \in Threads, Lone(t), Deadline(t)
    PROVE  Kept(t)
<1> PICK r : r = [job[t] EXCEPT !.late = TRUE]
  OBVIOUS
<1>1. /\ job[t] \in JobRecords /\ UNCHANGED <<vars, planner>>
      /\ job' = [job EXCEPT ![t] = r]
  BY Zenon DEF Deadline, Lone, JobTypes
<1>2. /\ r \in JobRecords /\ r.fn = job[t].fn /\ r.page = job[t].page
      /\ r.alone = job[t].alone /\ r.at = job[t].at /\ r.tries = job[t].tries
      /\ r.victim = job[t].victim /\ r.cands = job[t].cands /\ r.seen = job[t].seen
  BY <1>1 DEF JobRecords
<1> PICK l : l = job[t].at
  OBVIOUS
<1> PICK n : n = job[t].tries
  OBVIOUS
<1>3. job'[t] = r /\ Goes(t, l, n)
  BY <1>1, <1>2, Zenon DEF Lone, JobTypes, Goes
<1>4. UNCHANGED <<issued, pc, page, task, victim, in_flight>>
  BY <1>1, Zenon DEF vars, threadVars, entryVars
<1>5. Ready(t, l, n) => Ready(t, l, n)'
  BY <1>1, <1>2, <1>3, SameWorld, ZenonT(30) DEF Ready, GoalOf
<1>6. Called(t) => Called(t)'
  BY <1>1, <1>2, <1>3, <1>4, SameWorld, ZenonT(30) DEF Called, CalledFor, Serves,
     Claimable, SourceState
<1>7. job[t].alone => IF pc'[t] = "idle" THEN Ready(t, l, n)' ELSE Called(t)'
  BY <1>4, <1>5, <1>6, Zenon DEF Lone, LoneOK
<1> QED
  BY <1>3, <1>4, <1>7, GoesKept, Zenon

\* A step inside a step function: the job ends with an exception, stays inside,
\* or goes on with the page where the function takes it to.
LEMMA InnerKept ==
    ASSUME NEW t \in Threads, Promised(t), Lone(t), Inner(t)
    PROVE  Kept(t)
<1>1. Moves(t) /\ pc[t] # "idle"
  BY InnerMoves, Zenon DEF Moves, Inner
<1>2. CASE pc'[t] = "idle" /\ ~ReturnsNormally(t)
  <2>1. End(t)
    BY <1>2, Zenon DEF Inner, End
  <2> QED
    BY <2>1, EndKept, Zenon DEF Lone
<1>3. CASE ~(pc'[t] = "idle" /\ ~ReturnsNormally(t))
  <2> PICK m : m = RoundsAfter(t)
    OBVIOUS
  <2> PICK l : l = job[t].at
    OBVIOUS
  <2> PICK n : n = job[t].tries
    OBVIOUS
  <2> PICK r : r = [job[t] EXCEPT !.rounds = m]
    OBVIOUS
  <2>1. job[t] \in JobRecords /\ planner' \in Int /\ job' = [job EXCEPT ![t] = r]
    BY <1>3, Zenon DEF Inner, Lone, JobTypes
  <2>2. m \in Nat
    <3>1. job[t].rounds \in Nat
      BY <2>1 DEF JobRecords
    <3>2. job[t].rounds + 1 \in Nat /\ 0 \in Nat
      BY <3>1, SMT
    <3> QED
      BY <3>1, <3>2, Zenon DEF RoundsAfter
  <2>3. /\ r \in JobRecords /\ r.fn = job[t].fn /\ r.page = job[t].page
        /\ r.alone = job[t].alone /\ r.at = l /\ r.tries = n
        /\ r.victim = job[t].victim
    BY <2>1, <2>2 DEF JobRecords
  <2>4. job'[t] = r /\ Goes(t, l, n)
    BY <2>1, <2>3, Zenon DEF Lone, JobTypes, Goes
  <2>5. CASE ~job[t].alone
    BY <2>4, <2>5, Zenon DEF Goes, Kept
  <2>6. CASE job[t].alone
    <3>1. issued = Pages /\ Serves(t) /\ CalledFor(t, l, n, page[t], task[t])
      BY <1>1, <2>6, Zenon DEF Lone, LoneOK, Called
    <3>2. /\ Served(t) /\ vram_used' \in Int /\ vram_used \in Int
          /\ \A u \in Threads \ {t} : pc'[u] = pc[u]
      BY <1>1, <3>1, Zenon DEF Promised
    <3>3. HasRoom => HasRoom'
      <4>1. vram_used' <= vram_used
        BY <3>2, Zenon DEF Served
      <4> QED
        BY <3>2, <4>1, BudgetAssumption, SMT DEF HasRoom
    <3>4. ASSUME pc'[t] # "idle" PROVE Called(t)'
      <4>1. Serves(t)' /\ page'[t] = page[t] /\ task'[t] = task[t]
        BY <3>2, <3>4, Zenon DEF Served
      <4> QED
        BY <2>3, <2>4, <3>1, <3>3, <4>1, ZenonT(30) DEF Called, CalledFor
    <3>5. ASSUME pc'[t] = "idle" PROVE Ready(t, l, n)'
      <4>1. Completes(t)
        BY <1>3, <3>5, Zenon DEF ReturnsNormally, Completes
      <4>2. state'[page[t]] = ServedAs(task[t])
        BY <3>2, <4>1, Zenon DEF Served
      <4>3. 0 # 1
        BY SMT
      <4>4. CASE l = "loaded"
        BY <2>3, <2>4, <3>1, <3>3, <4>2, <4>4, ZenonT(30) DEF Ready, CalledFor,
           ServedAs
      <4>7. CASE l = "promoted"
        BY <2>3, <2>4, <3>1, <4>2, <4>7, ZenonT(30) DEF Ready, CalledFor, ServedAs
      <4>5. CASE l \in {"demoted", "room"}
        BY <2>3, <2>4, <3>1, <4>2, <4>3, <4>5, ZenonT(30) DEF Ready, CalledFor,
           ServedAs
      <4>6. CASE l = "demoteEnd"
        BY <2>3, <2>4, <3>1, <4>2, <4>3, <4>6, ZenonT(30) DEF Ready, CalledFor,
           ServedAs, GoalOf
      <4> QED
        BY <3>1, <4>4, <4>5, <4>6, <4>7, Zenon DEF CalledFor
    <3> QED
      BY <2>4, <3>2, <3>4, <3>5, GoesKept, Zenon DEF Served
  <2> QED
    BY <2>5, <2>6
<1> QED
  BY <1>2, <1>3

\* Every step of a job between two step functions.
LEMMA JobStepKept ==
    ASSUME NEW t \in Threads, Promised(t), Lone(t),
           JobStep(t) \/ Deadline(t) \/ ReadTimesOut(t)
    PROVE  Kept(t)
BY InnerKept, LoadHeadKept, LoadedKept, PromoteKept, PromotedKept, WaitSettledKept,
   RoomKept, SnapshotKept, ReadBudgetsKept, SetBudgetsKept, PlanKept, DecideKept,
   DemoteVictimKept, VictimDemotedKept, SpillVictimKept, HeadroomWaitKept,
   DemoteHeadKept, DemoteEndKept, EvictKept, ReadKept, DeadlineKept, ZenonT(30)
   DEF JobStep

\* A thread that takes a step has a job.
LEMMA BusyStep ==
    ASSUME NEW t, JobStep(t) \/ Deadline(t) \/ ReadTimesOut(t)
    PROVE  pc[t] # "idle" \/ job[t].at # "none"
BY ZenonT(30) DEF JobStep, Deadline, ReadTimesOut, Inner, LoadHead, Loaded,
   Promote, Promoted, WaitSettled, Room, Snapshot, ReadBudgets, SetBudgets, Plan,
   Decide, DemoteVictim, VictimDemoted, SpillVictim, HeadroomWait, DemoteHead,
   DemoteEnd, EvictHead, EvictDrop, ReadHead, ReadCopy, VerifyHead, VerifyCopy,
   Copy, At, HeadroomLabels

\* A job begins alone with its first attempt and nothing in hand.
LEMMA StartsAlone ==
    ASSUME LoneInv, NEW t \in Threads, NEW fn \in Operations, NEW p \in Pages,
           NEW target \in {"vram", "host"}, Start(t, fn, p, target)
    PROVE  LoneInv'
<1> DEFINE alone == \A u \in Threads \ {t} : job[u] = NoJob /\ pc[u] = "idle"
<1> PICK a \in BOOLEAN : a = alone
  OBVIOUS
<1> PICK l : l = StartAt(fn)
  OBVIOUS
<1>1. l \in {"load", "read", "verify", "demote", "evict"}
  BY Zenon DEF StartAt, Operations
<1>2. l \in JobLabels
  BY <1>1, Zenon DEF JobLabels
<1> PICK r : r = [NoJob EXCEPT !.fn = fn, !.page = p, !.at = l, !.target = target,
                              !.alone = a]
  OBVIOUS
<1>3. /\ issued = Pages /\ UNCHANGED <<vars, planner>>
      /\ job' = [Disturbed(t) EXCEPT ![t] = r]
  BY Zenon DEF Start
<1>4. /\ r \in JobRecords /\ r.at = l /\ r.page = p /\ r.tries = 0 /\ r.alone = a
  BY <1>2, NoJobTyped, ZenonT(60) DEF JobRecords, NoJob
<1>5. job \in [Threads -> JobRecords] /\ planner \in Int
  BY Zenon DEF LoneInv, JobTypes
<1>6. job'[t] = r
  BY <1>3, Zenon DEF Disturbed
<1>7. ASSUME NEW u \in Threads \ {t}
      PROVE  /\ job'[u] \in JobRecords /\ ~job'[u].alone
             /\ job[u] = NoJob => job'[u] = NoJob
  <2>1. job'[u] = [job[u] EXCEPT !.alone = FALSE]
    BY <1>3, Zenon DEF Disturbed
  <2>2. job[u] \in JobRecords
    BY <1>5, Zenon
  <2>3. job'[u] \in JobRecords /\ ~job'[u].alone
    BY <2>1, <2>2 DEF JobRecords
  <2>4. [NoJob EXCEPT !.alone = FALSE] = NoJob
    BY NoJobTyped, SMT DEF JobRecords
  <2> QED
    BY <2>1, <2>3, <2>4, Zenon
<1>8. job' \in [Threads -> JobRecords]
  <2>1. \A u \in Threads : job'[u] \in JobRecords
    BY <1>4, <1>6, <1>7, Zenon
  <2>2. job' = [u \in Threads |-> job'[u]]
    BY <1>3, Zenon DEF Disturbed
  <2> QED
    BY <2>1, <2>2, Zenon
<1>9. ASSUME a PROVE LoneOK(t)'
  <2>1. issued' = Pages /\ pc' = pc /\ pc[t] = "idle"
    BY <1>3, Zenon DEF Start, vars, threadVars
  <2>2. 0 # 1
    BY SMT
  <2>3. Ready(t, l, 0)'
    BY <1>1, <2>2, Zenon DEF Ready
  <2> QED
    BY <1>4, <1>6, <1>7, <1>9, <2>1, <2>3, ZenonT(40) DEF LoneOK
<1> QED
  BY <1>3, <1>4, <1>5, <1>6, <1>7, <1>8, <1>9, Zenon DEF LoneInv, JobTypes

\* The operations of other callers: the jobs they meet are not alone.
LEMMA OthersDisturb == ASSUME LoneInv, Others PROVE LoneInv'
<1>1. job \in [Threads -> JobRecords] /\ planner \in Int
  BY Zenon DEF LoneInv, JobTypes
<1>2. CASE \E t \in Threads, p \in Pages : AllocatePage(t, p) /\ UNCHANGED chainVars
  <2>1. issued # Pages /\ UNCHANGED <<job, planner>>
    BY <1>2, Zenon DEF AllocatePage, chainVars
  <2>2. \A u \in Threads : ~job[u].alone
    BY <2>1, Zenon DEF LoneInv, LoneOK
  <2> QED
    BY <1>1, <2>1, <2>2, Zenon DEF LoneInv, JobTypes
<1>3. CASE /\ job' = [t \in Threads |-> [job[t] EXCEPT !.alone = FALSE]]
           /\ planner' = planner
  <2>1. ASSUME NEW u \in Threads PROVE job'[u] \in JobRecords /\ ~job'[u].alone
    <3>1. job'[u] = [job[u] EXCEPT !.alone = FALSE] /\ job[u] \in JobRecords
      BY <1>1, <1>3, Zenon
    <3> QED
      BY <3>1 DEF JobRecords
  <2>2. job' = [u \in Threads |-> job'[u]]
    BY <1>3, Zenon
  <2>3. job' \in [Threads -> JobRecords]
    BY <2>1, <2>2, Zenon
  <2> QED
    BY <1>1, <1>3, <2>1, <2>3, Zenon DEF LoneInv, JobTypes
<1> QED
  BY <1>2, <1>3, Zenon DEF Others

\* A step that changes neither pages nor jobs.
LEMMA LoneUndisturbed ==
    ASSUME LoneInv, UNCHANGED <<vars, job, planner>>
    PROVE  LoneInv'
<1>1. /\ UNCHANGED <<issued, pc, page, task, victim, in_flight>>
      /\ job' = job
  BY Zenon DEF vars, threadVars, entryVars
<1>2. ASSUME NEW t, NEW l, NEW n, Ready(t, l, n) PROVE Ready(t, l, n)'
  BY <1>2, SameWorld, ZenonT(30) DEF Ready, GoalOf
<1>3. ASSUME NEW t, Called(t) PROVE Called(t)'
  BY <1>1, <1>3, SameWorld, ZenonT(30) DEF Called, CalledFor, Serves, Claimable,
     SourceState
<1>4. ASSUME NEW t \in Threads, LoneOK(t) PROVE LoneOK(t)'
  <2> PICK l : l = job[t].at
    OBVIOUS
  <2> PICK n : n = job[t].tries
    OBVIOUS
  <2>1. Ready(t, l, n)' => Ready(t, job[t].at, job[t].tries)'
    BY <1>1, ZenonT(60) DEF Ready
  <2> QED
    BY <1>1, <1>2, <1>3, <1>4, <2>1, Zenon DEF LoneOK
<1> QED
  BY <1>4, Zenon DEF LoneInv, JobTypes

\* Every step of the loops keeps LoneInv, if the step functions do what they
\* promise.
LEMMA LoneStep ==
    ASSUME LoneInv, \A t \in Threads : Promised(t), [DemandNext]_allVars
    PROVE  LoneInv'
<1>1. ASSUME NEW t \in Threads, JobStep(t) \/ Deadline(t) \/ ReadTimesOut(t)
      PROVE  LoneInv'
  <2>1. Kept(t)
    BY <1>1, JobStepKept, Zenon DEF LoneInv, Lone
  <2>2. ASSUME NEW u \in Threads \ {t}, job'[u].alone PROVE FALSE
    <3>1. job[u].alone
      BY <2>1, <2>2, Zenon DEF Kept
    <3>2. job[t] = NoJob /\ pc[t] = "idle"
      BY <2>2, <3>1, Zenon DEF LoneInv, LoneOK
    <3> QED
      BY <1>1, <3>2, BusyStep, NoJobTyped, Zenon
  <2> QED
    BY <2>1, <2>2, Zenon DEF Kept, LoneInv
<1>2. CASE RequestStop \/ Stopped \/ UNCHANGED allVars
  BY <1>2, LoneUndisturbed, Zenon DEF RequestStop, Stopped, allVars, chainVars
<1> QED
  BY <1>1, <1>2, StartsAlone, OthersDisturb, Zenon DEF DemandNext

\* At first there is no job.
LEMMA LoneInit == ASSUME DemandInit PROVE LoneInv
<1>1. job = [t \in Threads |-> NoJob] /\ planner = 0
  BY Zenon DEF DemandInit
<1>2. planner \in Int
  BY <1>1, SMT
<1> QED
  BY <1>1, <1>2, NoJobTyped, Zenon DEF LoneInv, JobTypes

\* What LoneInv is for: two attempts are enough, and nothing waits.
LEMMA LoneProgress ==
    ASSUME MaxAttempts > 1, LoneInv
    PROVE  LoneJobProgresses
<1>1. ASSUME NEW t \in Threads, job[t].alone
      PROVE  job[t].tries \in {0, 1} /\ job[t].at # "wait"
  BY <1>1, Zenon DEF LoneInv, LoneOK, Ready, Called, CalledFor
<1>2. 0 < MaxAttempts /\ 1 < MaxAttempts
  BY DemandAssumption, SMT
<1> QED
  BY <1>1, <1>2, Zenon DEF LoneJobProgresses
=============================================================================
