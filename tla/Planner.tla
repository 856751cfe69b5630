------------------------------ MODULE Planner -------------------------------
(***************************************************************************)
(* The eviction planner (planner.cpp): pure functions of a budget snapshot *)
(* b and of snapshots of page entries, in the order a policy ranks them.   *)
(* A candidate is a record [id, size, seq, pinned, in_flight], with seq its*)
(* last_access_sequence.  A planned eviction is a record [id, target].     *)
(***************************************************************************)
EXTENDS Integers, Sequences, FiniteSetsExt

Usable(b) == IF b.vram_limit >= b.vram_reserve THEN b.vram_limit - b.vram_reserve ELSE 0

VramHeadroom(b) == IF b.vram_used < Usable(b) THEN Usable(b) - b.vram_used ELSE 0

\* One round of the loop of plan_evictions: c joins the plan while more is
\* needed, unless it is protected, and goes to the host while it has room.
PlanVictim(plan, c) ==
    IF plan.need = 0 \/ c.pinned \/ c.in_flight THEN plan
    ELSE [need |-> Max({plan.need - c.size, 0}),
          room |-> IF plan.room < c.size THEN plan.room ELSE plan.room - c.size,
          out |-> Append(plan.out,
                     [id |-> c.id, target |-> IF plan.room < c.size THEN "nvme" ELSE "host"])]

\* The loop, from the plan `base` on: ranked[1] is the first to join.
PlanVictims(base, ranked) ==
    MapThenFoldSet(LAMBDA c, plan : PlanVictim(plan, c), base,
                   LAMBDA i : ranked[i], Max, DOMAIN ranked)

\* Defect: what the caller is short of is taken for the total it needs.
PlanEvictionsOfShortfall(b, bytes, ranked, room) ==
    LET short == bytes - VramHeadroom(b) IN
    IF short <= VramHeadroom(b) THEN [need |-> 0, room |-> room, out |-> <<>>]
    ELSE PlanVictims([need |-> short - VramHeadroom(b), room |-> room, out |-> <<>>],
                     ranked)

\* Planner::plan_evictions: need # 0 in the result is the Budget error.
PlanEvictions(b, bytes, ranked, room) ==
    IF bytes <= VramHeadroom(b) THEN [need |-> 0, room |-> room, out |-> <<>>]
    ELSE PlanVictims([need |-> bytes - VramHeadroom(b), room |-> room, out |-> <<>>],
                     ranked)
=============================================================================
