---------------------------- MODULE TaskSchedule ----------------------------
(***************************************************************************)
(* What barriers are for: a task runs after the earlier tasks of its FIFO  *)
(* and after every producer of every barrier it waits for, however virtual *)
(* barriers share the physical ones.  A schedule that has run to the end   *)
(* may be run again.                                                       *)
(***************************************************************************)
EXTENDS Naturals

CONSTANT Task   \* the tasks of the function

VARIABLES needs,     \* needs[t]: the tasks that must run before t
          executed   \* the tasks that have run

schedVars == <<needs, executed>>

Init ==
    /\ needs \in [Task -> SUBSET Task]
    /\ executed = {}

Execute(t) ==
    /\ t \notin executed
    /\ needs[t] \subseteq executed
    /\ executed' = executed \cup {t}
    /\ UNCHANGED needs

Rerun ==
    /\ executed = Task
    /\ executed' = {}
    /\ UNCHANGED needs

Next == (\E t \in Task : Execute(t)) \/ Rerun

Spec == Init /\ [][Next]_schedVars
=============================================================================
