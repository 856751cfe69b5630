----------------------------- MODULE PageStore ------------------------------
(***************************************************************************)
(* What the runtime promises to a caller, without tiers: a page that is    *)
(* allocated holds one value, and only a write changes it.  Pages can be   *)
(* lost to a failed transfer, and can be freed.                            *)
(***************************************************************************)
CONSTANTS Pages, Values, Data, NoValue

VARIABLES status, value

storeVars == <<status, value>>

StoreInit ==
    /\ status = [p \in Pages |-> "none"]
    /\ value = [p \in Pages |-> NoValue]

\* A new page has whatever its memory held.
Create(p, d) ==
    /\ status[p] = "none"
    /\ status' = [status EXCEPT ![p] = "live"]
    /\ value' = [value EXCEPT ![p] = d]

Write(p, v) ==
    /\ status[p] = "live"
    /\ value' = [value EXCEPT ![p] = v]
    /\ UNCHANGED status

Fail(p) ==
    /\ status[p] = "live"
    /\ status' = [status EXCEPT ![p] = "failed"]
    /\ value' = [value EXCEPT ![p] = NoValue]

Delete(p) ==
    /\ status[p] \in {"live", "failed"}
    /\ status' = [status EXCEPT ![p] = "none"]
    /\ value' = [value EXCEPT ![p] = NoValue]

StoreNext ==
    \E p \in Pages :
        \/ \E d \in Data : Create(p, d)
        \/ \E v \in Values : Write(p, v)
        \/ Fail(p)
        \/ Delete(p)

StoreSpec == StoreInit /\ [][StoreNext]_storeVars
=============================================================================
