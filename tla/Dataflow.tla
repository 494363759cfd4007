------------------------------- MODULE Dataflow -------------------------------
(***************************************************************************)
(* What a function of asynchronous operations promises: every operation    *)
(* completes once, after those whose results it takes.  Which executor     *)
(* does the work, where the buffers lie and what was spilled does not      *)
(* show.                                                                   *)
(***************************************************************************)
EXTENDS MemoryProgram

VARIABLES
    program,
    completed   \* operations that have completed, with the right inputs

Init == completed = {}

Complete(o) ==
    /\ o \notin completed
    /\ UNION {Writers(program, b) : b \in program.ops[o].ins} \subseteq completed
    /\ completed' = completed \cup {o}
    /\ UNCHANGED program

Next == \E o \in Op(program) : Complete(o)

Spec ==
    /\ Init
    /\ [][Next]_<<program, completed>>
    /\ <>(completed = Op(program))
=============================================================================
