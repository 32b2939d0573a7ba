---------------------------- MODULE MCMotionStack -----------------------------
(***************************************************************************)
(* Instances of MotionStack for TLC.                                       *)
(***************************************************************************)
EXTENDS MotionStack, TLC

CONSTANTS m1, m2, s1, s2, n1, r1, bot

MCOp == [c \in Commands |-> CASE c \in {m1, m2} -> "MOVE"
                              [] c = n1 -> "NAVIGATE"
                              [] c = r1 -> "READ"
                              [] OTHER -> "STOP"]
MCRobotOf == [c \in Commands |-> bot]
MCRobots == {bot}

\* Calls of submit() are interchangeable.
RequestSymmetry == Permutations(Requests)
=============================================================================
