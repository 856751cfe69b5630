-------------------------- MODULE RefinementProofs --------------------------
(***************************************************************************)
(* The three levels of the runtime, for any sets of pages, threads and     *)
(* values, any budgets and any scenario: the retry loops of DemandPath     *)
(* take only steps of Residency (DemandProofs), and the steps of Residency *)
(* implement the plain store of values of PageStore (ResidencyProofs).  So *)
(* what is proved of the steps in any order holds of the loops, and the    *)
(* loops can rely on what the step functions promise.                      *)
(***************************************************************************)
EXTENDS ResidencyBudgets, DemandProofs

\* The invariant holds of every load, read, demotion and eviction that runs in
\* these loops: claims, contents, extents and budgets.
THEOREM LoopsKeepInductive == DemandSpec => []Inductive
BY LoopsTakeSteps, InductiveHolds, PTL DEF ImplementsResidency

\* And the loops as a whole implement the plain store of values.
THEOREM LoopsImplementStore ==
    ASSUME "deviceWrite" \notin Faults
    PROVE  DemandSpec => ImplementsPageStore
BY LoopsTakeSteps, StoreImplemented, PTL DEF ImplementsResidency

\* LoneInv is an invariant of the loops: the step functions do what the loops
\* rely on, because Shape holds of the page table.
THEOREM LoneInvariant == DemandSpec => []LoneInv
<1>1. LoneInv /\ Shape /\ [DemandNext]_allVars => LoneInv'
  BY LoneStep, PromisesKept, Zenon
<1>2. DemandInit => LoneInv
  BY LoneInit, Zenon
<1>3. DemandSpec => []Shape
  BY LoopsTakeSteps, ShapeInvariant, PTL DEF ImplementsResidency
<1> QED
  BY <1>1, <1>2, <1>3, PTL DEF DemandSpec

\* A load, read, verification, demotion or eviction that no other caller
\* interferes with needs at most two attempts of the 16 that load_page and
\* demote_* allow, and never waits in ensure_vram_headroom: each round makes
\* headroom or throws.  For any budgets, any faults and any number of pages.
THEOREM LoneJobsProgress ==
    ASSUME MaxAttempts > 1
    PROVE  DemandSpec => []LoneJobProgresses
<1>1. LoneInv => LoneJobProgresses
  BY LoneProgress, Zenon
<1> QED
  BY <1>1, LoneInvariant, PTL
=============================================================================
