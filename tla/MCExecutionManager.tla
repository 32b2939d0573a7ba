-------------------------- MODULE MCExecutionManager --------------------------
(***************************************************************************)
(* Instances of ExecutionManager for TLC: one robot, as the server is      *)
(* configured, and commands named after what they are.                     *)
(***************************************************************************)
EXTENDS ExecutionManager, TLC

CONSTANTS m1, m2, n1, s1, s2, r1, r2, bot

MCOp == [c \in Commands |-> CASE c \in {m1, m2} -> "MOVE"
                              [] c = n1 -> "NAVIGATE"
                              [] c \in {s1, s2} -> "STOP"
                              [] OTHER -> "READ"]
MCRobotOf == [c \in Commands |-> bot]
MCRobots == {bot}
OneReadHandled == {r1}

\* Calls of submit() are interchangeable.
RequestSymmetry == Permutations(Requests)

\* The event loop starts tasks in the order they were made, and the ROS thread
\* answers them in that order, which ExecutionManager leaves open.  With one
\* command at a time on its way to its back end no trace departs from it.
OneArriving ==
  \A c, d \in Commands :
    pc[c] \in {"queued", "pose"} /\ pc[d] \in {"queued", "pose"} => c = d
=============================================================================
