--------------------------- MODULE ResidencyStore ---------------------------
(* The abstract store of values that the tiers of Residency implement.     *)
EXTENDS Residency

\* What a caller of the runtime sees of a page.
statusBar ==
    [p \in Pages |-> IF Live(p) THEN "live"
                     ELSE IF state[p] = "Error" THEN "failed" ELSE "none"]

valueBar == [p \in Pages |-> IF Live(p) THEN Authoritative(p) ELSE Null]

Store == INSTANCE PageStore WITH
            NoValue <- Null, status <- statusBar, value <- valueBar

\* The transfers between the tiers implement a plain store of values.
ImplementsPageStore == Store!StoreSpec
=============================================================================
