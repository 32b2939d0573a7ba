---------------------------- MODULE MotionContract ----------------------------
(***************************************************************************)
(* What MotionBackend promises of move()                                   *)
(* (src/src/ros_mcp/contracts/adapters.py): the token is polled at least   *)
(* once per control-loop period, so at most one Twist follows a            *)
(* cancellation, and every exit leaves the robot with a zero Twist; a call *)
(* that is interrupted from outside is the exception the code makes.       *)
(***************************************************************************)

VARIABLES running,    \* move() is executing
          cancelled,  \* its token is cancelled
          moving,     \* the last Twist published is not zero
          late,       \* a Twist other than the final one followed the cancellation
          aborted     \* the last call was interrupted from outside

vars == <<running, cancelled, moving, late, aborted>>

Init == ~running /\ ~cancelled /\ ~moving /\ ~late /\ ~aborted

Begin == /\ ~running
         /\ running' = TRUE /\ cancelled' = FALSE /\ late' = FALSE /\ aborted' = FALSE
         /\ UNCHANGED moving

Cancel == /\ running
          /\ cancelled' = TRUE
          /\ UNCHANGED <<running, moving, late, aborted>>

\* A Twist of the control loop.
Drive == /\ running /\ ~late
         /\ moving' \in BOOLEAN
         /\ late' = cancelled
         /\ UNCHANGED <<running, cancelled, aborted>>

\* The zero Twist before the return.
Finish == /\ running
          /\ running' = FALSE /\ moving' = FALSE
          /\ UNCHANGED <<cancelled, late, aborted>>

\* An exception ends the call from outside, and nothing is promised of its last
\* Twist.
Abort == /\ running
         /\ running' = FALSE /\ aborted' = TRUE
         /\ moving' \in BOOLEAN
         /\ UNCHANGED <<cancelled, late>>

Next == Begin \/ Cancel \/ Drive \/ Finish \/ Abort

Spec == Init /\ [][Next]_vars
=============================================================================
