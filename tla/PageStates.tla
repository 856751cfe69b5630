----------------------------- MODULE PageStates -----------------------------
(***************************************************************************)
(* The page state machine of page.hpp / page.cpp: the states a page table  *)
(* entry can be in and the transitions PageMetadata::transition accepts.   *)
(* "Absent" is not a state of the code: it stands for a page id that has   *)
(* no entry in the page table.                                             *)
(***************************************************************************)

Resident == {"ResidentNvme", "ResidentHost", "ResidentVram"}

Transferring ==
    {"LoadingToHost", "LoadingToVram", "EvictingToHost", "EvictingToNvme"}

\* enum class PageState.
PageState ==
    Resident \cup Transferring \cup {"Unallocated", "Error", "Released"}

TableState == PageState \cup {"Absent"}

\* transition_allowed.
TransitionAllowed(from, to) ==
    \/ from = "Unallocated" /\ to \in Resident \cup {"LoadingToVram", "Released"}
    \/ from = "LoadingToVram" /\ to \in {"ResidentVram", "Error"}
    \/ from = "LoadingToHost" /\ to \in {"ResidentHost", "Error"}
    \/ /\ from = "ResidentVram"
       /\ to \in {"EvictingToHost", "ResidentNvme", "Error", "Released"}
    \/ /\ from = "ResidentHost"
       /\ to \in {"LoadingToVram", "EvictingToNvme", "Error", "Released"}
    \/ from = "ResidentNvme" /\ to \in {"LoadingToHost", "Error", "Released"}
    \/ from = "EvictingToHost" /\ to \in {"ResidentHost", "Error"}
    \/ from = "EvictingToNvme" /\ to \in {"ResidentNvme", "Error"}
    \/ from = "Error" /\ to = "Released"
=============================================================================
