-------------------------- MODULE NavigationContract ---------------------------
(***************************************************************************)
(* What navigate() (NavigationBackend in                                   *)
(* src/src/ros_mcp/contracts/adapters.py) amounts to for whoever submits   *)
(* it and looks at the action server: one goal at most, sent while the     *)
(* call runs; after a cancellation the call does not settle down to wait;  *)
(* and no answer but one that is true of the goal.  A call that is         *)
(* interrupted from outside answers nothing, and leaves its goal as it is. *)
(***************************************************************************)
CONSTANT Navs

VARIABLES call,       \* "resting" waits for the goal to end, "busy" does anything else
          cancelled,  \* the running calls whose token is cancelled
          goal,       \* the goal of each call on the action server
          tried,      \* the calls whose goal anyone asked the server to cancel
          answer      \* what each call ended with

vars == <<call, cancelled, goal, tried, answer>>

Ended == {"succeeded", "canceled", "aborted"}
Accepted == Ended \cup {"executing", "canceling"}

Init ==
  /\ call = [n \in Navs |-> "new"]
  /\ cancelled = {} /\ tried = {}
  /\ goal = [n \in Navs |-> "none"]
  /\ answer = [n \in Navs |-> "none"]

Begin(n) ==
  /\ call[n] = "new"
  /\ call' = [call EXCEPT ![n] = "busy"]
  /\ UNCHANGED <<cancelled, goal, tried, answer>>

\* The token of a running call is cancelled.
Cancel(n) ==
  /\ call[n] \in {"busy", "resting"}
  /\ cancelled' = cancelled \cup {n}
  /\ UNCHANGED <<call, goal, tried, answer>>

Submit(n) ==
  /\ call[n] = "busy" /\ goal[n] = "none"
  /\ goal' = [goal EXCEPT ![n] = "sent"]
  /\ UNCHANGED <<call, cancelled, tried, answer>>

\* The server is asked to cancel goal n, one of the goals in g.  It may refuse.
Ask(n, g) ==
  /\ tried' = tried \cup {n}
  /\ goal' \in {g, [g EXCEPT ![n] = IF @ = "executing" THEN "canceling" ELSE @]}

\* The server accepts the goal.  A call that is there to hear it waits for the
\* goal to end, unless it has been cancelled; or asks to cancel it at once, for
\* it may be late.
Accept(n) ==
  /\ goal[n] = "sent"
  /\ LET g == [goal EXCEPT ![n] = "executing"]
     IN  \/ /\ call[n] = "busy" /\ n \notin cancelled
            /\ call' = [call EXCEPT ![n] = "resting"]
            /\ goal' = g
            /\ UNCHANGED tried
         \/ call[n] = "busy" /\ Ask(n, g) /\ UNCHANGED call
         \/ call[n] = "ended" /\ goal' = g /\ UNCHANGED <<call, tried>>
  /\ UNCHANGED <<cancelled, answer>>

\* A call that waits for its goal stops to do so, for good.
Wake(n) ==
  /\ call[n] = "resting"
  /\ call' = [call EXCEPT ![n] = "busy"]
  /\ UNCHANGED <<goal, tried>> \/ Ask(n, goal)
  /\ UNCHANGED <<cancelled, answer>>

\* robot.stop asks for the end of a goal that was accepted.
CancelGoal(n) ==
  /\ goal[n] \in Accepted
  /\ Ask(n, goal)
  /\ UNCHANGED <<call, cancelled, answer>>

\* The server ends a goal.
GoalEnds(n) ==
  /\ goal[n] \in {"executing", "canceling"}
  /\ \E g \in Ended : goal' = [goal EXCEPT ![n] = g]
  /\ UNCHANGED <<call, cancelled, tried, answer>>

Done(n, a) ==
  /\ call' = [call EXCEPT ![n] = "ended"]
  /\ answer' = [answer EXCEPT ![n] = a]
  /\ cancelled' = cancelled \ {n}

\* The server turns the goal down, which is the answer of a call that hears it.
Reject(n) ==
  /\ goal[n] = "sent"
  /\ goal' = [goal EXCEPT ![n] = "rejected"]
  /\ \/ call[n] = "busy" /\ Done(n, "goal_rejected")
     \/ call[n] = "ended" /\ UNCHANGED <<call, cancelled, answer>>
  /\ UNCHANGED tried

\* A success and a NAVIGATION_FAILED are the goal's own end; CANCELLED is too, or
\* the call was cancelled and has asked for the end of its goal, and so has a call
\* that timed out.  A call that is refused has no goal.
Answer(n) ==
  /\ call[n] = "busy"
  /\ \/ goal[n] = "none" /\ Done(n, "refused")
     \/ goal[n] = "succeeded" /\ Done(n, "succeeded")
     \/ goal[n] = "aborted" /\ Done(n, "NAVIGATION_FAILED")
     \/ (goal[n] = "canceled" \/ n \in cancelled \cap tried) /\ Done(n, "CANCELLED")
     \/ n \in tried /\ Done(n, "ACTION_TIMEOUT")
  /\ UNCHANGED <<goal, tried>>

\* The call is interrupted where it is, or what it waits for raises.  A goal that
\* could not be sent is none.
Interrupt(n) ==
  /\ call[n] \in {"busy", "resting"}
  /\ Done(n, "raised")
  /\ \/ UNCHANGED goal
     \/ goal[n] = "sent" /\ goal' = [goal EXCEPT ![n] = "none"]
  /\ UNCHANGED tried

Next ==
  \E n \in Navs :
    \/ Begin(n) \/ Cancel(n) \/ Submit(n) \/ Accept(n) \/ Wake(n) \/ CancelGoal(n)
    \/ GoalEnds(n) \/ Reject(n) \/ Answer(n) \/ Interrupt(n)

Spec == Init /\ [][Next]_vars
================================================================================
