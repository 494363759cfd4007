--------------------------- MODULE FoldingService ---------------------------
(***************************************************************************)
(* What background constant folding promises to the compiler, whatever     *)
(* threads, locks and condition variables it is built from: a request that *)
(* was accepted is folded, at most MaxConcurrentTasks foldings are under   *)
(* way at a time, and once the service is closed nothing is accepted, and  *)
(* nothing is pending or being folded when it is gone.                     *)
(***************************************************************************)
EXTENDS Naturals, FiniteSets

CONSTANTS Request,             \* the folding requests of one compilation
          MaxConcurrentTasks   \* limit on the foldings under way

VARIABLES status,   \* where each request is
          service   \* "open", "closed" or "gone"

absVars == <<status, service>>

Status == {"unsent", "pending", "active", "folded"}

Active == {r \in Request : status[r] = "active"}

Init ==
    /\ status = [r \in Request |-> "unsent"]
    /\ service = "open"

Submit(r) ==
    /\ service = "open"
    /\ status[r] = "unsent"
    /\ status' = [status EXCEPT ![r] = "pending"]
    /\ UNCHANGED service

Begin(r) ==
    /\ service # "gone"
    /\ status[r] = "pending"
    /\ Cardinality(Active) < MaxConcurrentTasks
    /\ status' = [status EXCEPT ![r] = "active"]
    /\ UNCHANGED service

Finish(r) ==
    /\ service # "gone"
    /\ status[r] = "active"
    /\ status' = [status EXCEPT ![r] = "folded"]
    /\ UNCHANGED service

Close ==
    /\ service = "open"
    /\ service' = "closed"
    /\ UNCHANGED status

Vanish ==
    /\ service # "gone"
    /\ \A r \in Request : status[r] \in {"unsent", "folded"}
    /\ service' = "gone"
    /\ UNCHANGED status

Next ==
    \/ \E r \in Request : Submit(r) \/ Begin(r) \/ Finish(r)
    \/ Close
    \/ Vanish

Spec == Init /\ [][Next]_absVars
=============================================================================
