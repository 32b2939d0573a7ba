---------------------------- MODULE Nav2Navigation ----------------------------
(***************************************************************************)
(* Nav2NavigationPlugin                                                    *)
(* (src/src/ros_mcp/adapters/navigation/nav2_plugin.py), the action server *)
(* it talks to, and what ExecutionManager does to it: the command          *)
(* dispatched last is the one robot.stop cancels, and the backstop or a    *)
(* cancelled request may end a navigation at any await.                    *)
(*                                                                         *)
(* A step is what a coroutine runs between two awaits that can suspend.    *)
(* The bridge runs a queued job even when its coroutine has given up.  A   *)
(* job that reads nothing another coroutine writes is part of the step     *)
(* that queues it, and so is its request's way to the server: the server   *)
(* may be as slow afterwards.  The job of cancel_all() reads the handle    *)
(* when it runs, so it is a step of its own.                               *)
(***************************************************************************)

CONSTANTS Navs,   \* NAVIGATE commands, each submitted at most once
          Stops,  \* STOP commands, likewise
          NoNav   \* None

ASSUME NavAssumption == NoNav \notin Navs /\ Navs \cap Stops = {}

VARIABLES
  pc,         \* where navigate(n) waits; "off": it does not run
  outcome,    \* its local of that name
  watch,      \* its result_task
  token,      \* _tokens[n]
  active,     \* _active_commands[robot]; NoNav also stands for a MOVE
  stop,       \* how far _handle_stop(s) is; with cancel_all() called, it waits
  handle,     \* self._active_goal_handle
  jobs,       \* stops whose cancel job the ROS thread has not run
  goal,       \* the goal of n on the action server
  result,     \* what navigate(n) ended with
  tried,      \* history: navigations whose cancel_goal_async() was called
  alone       \* history: the navigation accepted last, if no other one waited
              \* for its goal at the same time and it has not left its loop

locals == <<outcome, watch>>
manager == <<token, active, stop>>
server == <<jobs, goal>>
history == <<tried, alone>>
vars == <<pc, locals, manager, handle, server, result, history>>

Waits == {"off", "checks", "accept", "asleep", "cancel", "drain", "pose"}
\* In the loop of navigate(), or on the way out of it.
Loop == {"asleep", "cancel", "drain"}

\* The terminal GoalStatus of a goal the server accepted.
Ended == {"succeeded", "canceled", "aborted"}
Accepted == Ended \cup {"executing", "canceling"}

\* What navigate() returns, a failure by its error code: "refused" is the
\* INVALID_FRAME or CAPABILITY_UNAVAILABLE of a check, "goal_rejected" the
\* NAVIGATION_FAILED of a goal the server turned down.  "raised" is any
\* exception, CancelledError too.
Returned == {"succeeded", "refused", "goal_rejected", "CANCELLED", "ACTION_TIMEOUT",
             "NAVIGATION_FAILED"}
Results == Returned \cup {"none", "raised"}

\* The one type invariant of the module.
TypeOK ==
  /\ pc \in [Navs -> Waits]
  /\ outcome \in [Navs -> {"none", "cancelled", "timeout"}]
  /\ watch \in [Navs -> {"none", "pending", "done", "failed"}]
  /\ token \in [Navs -> {"none", "live", "cancelled"}]
  /\ active \in Navs \cup {NoNav}
  /\ stop \in [Stops -> {"off", "motion", "called"}]
  /\ handle \in Navs \cup {NoNav}
  /\ jobs \in SUBSET Stops
  /\ goal \in [Navs -> Accepted \cup {"none", "sent", "rejected"}]
  /\ result \in [Navs -> Results]
  /\ tried \in SUBSET Navs
  /\ alone \in Navs \cup {NoNav}

Init ==
  /\ pc = [n \in Navs |-> "off"]
  /\ outcome = [n \in Navs |-> "none"]
  /\ watch = [n \in Navs |-> "none"]
  /\ token = [n \in Navs |-> "none"]
  /\ active = NoNav
  /\ stop = [s \in Stops |-> "off"]
  /\ handle = NoNav
  /\ jobs = {}
  /\ goal = [n \in Navs |-> "none"]
  /\ result = [n \in Navs |-> "none"]
  /\ tried = {} /\ alone = NoNav

\* cancel_goal_async(): the server may refuse, or the goal have ended.
AskToCancel(n, g) ==
  /\ tried' = tried \cup {n}
  /\ goal' \in {g, [g EXCEPT ![n] = IF @ = "executing" THEN "canceling" ELSE @]}

-----------------------------------------------------------------------------
(* How a navigation ends.  The manager's finally block goes with it.       *)

Release(n) ==
  /\ token' = [token EXCEPT ![n] = "none"]
  /\ active' = IF active = n THEN NoNav ELSE active
  /\ UNCHANGED stop

\* Its locals go with it; result_task may go on, but nobody waits for it.
End(n, r) ==
  /\ pc' = [pc EXCEPT ![n] = "off"]
  /\ outcome' = [outcome EXCEPT ![n] = "none"]
  /\ watch' = [watch EXCEPT ![n] = "none"]
  /\ result' = [result EXCEPT ![n] = r]
  /\ Release(n)

\* The loop is left: forget the handle, whoever it belongs to by now, and look
\* up the final pose.
Leave(n) ==
  /\ pc' = [pc EXCEPT ![n] = "pose"]
  /\ handle' = NoNav
  /\ alone' = IF alone = n THEN NoNav ELSE alone

-----------------------------------------------------------------------------
(* navigate()                                                              *)

\* The command is dispatched: its token, and from now on it is the active one.
Begin(n) ==
  /\ pc[n] = "off" /\ result[n] = "none"
  /\ pc' = [pc EXCEPT ![n] = "checks"]
  /\ token' = [token EXCEPT ![n] = "live"]
  /\ active' = n
  /\ UNCHANGED <<locals, stop, handle, server, result, history>>

\* A MOVE is dispatched, and is the active command until it ends.
MoveDispatched ==
  /\ active' = NoNav
  /\ UNCHANGED <<pc, locals, token, stop, handle, server, result, history>>

\* The frame is known, the action client made, wait_for_server true, the robot
\* localized and the transform from map to the base frame there: queue the goal.
\* A check that fails is the answer.  Nothing another coroutine reads is written
\* before the goal is queued, so the awaits of the checks are one.
Checked(n) ==
  /\ pc[n] = "checks"
  /\ \/ /\ pc' = [pc EXCEPT ![n] = "accept"]
        /\ goal' = [goal EXCEPT ![n] = "sent"]
        /\ UNCHANGED <<locals, manager, result>>
     \/ /\ End(n, "refused")
        /\ UNCHANGED goal
  /\ UNCHANGED <<handle, jobs, history>>

\* A pass of the while loop that finds outcome o, and the goals in g: cancel the
\* goal, or sleep.
Pass(n, o, g) ==
  \/ /\ o # "none"
     /\ outcome' = [outcome EXCEPT ![n] = o]
     /\ pc' = [pc EXCEPT ![n] = "cancel"]
     /\ AskToCancel(n, g)
  \/ /\ o = "none"
     /\ pc' = [pc EXCEPT ![n] = "asleep"]
     /\ goal' = g
     /\ UNCHANGED <<outcome, tried>>

\* Mutant: the token is asked at the end of a sleep only.
PassChecksLate(n, g) ==
  \E o \in IF token[n] = "cancelled" /\ pc[n] = "asleep" THEN {"cancelled"} ELSE {"none", "timeout"} :
    Pass(n, o, g)

\* The token is asked before the deadline, and the deadline may have passed.
PassChecks(n, g) ==
  \E o \in IF token[n] = "cancelled" THEN {"cancelled"} ELSE {"none", "timeout"} : Pass(n, o, g)

\* The server accepts the goal or rejects it.  navigate() may still be there to
\* hear it: it stores the handle, starts result_task and enters its loop.
GoalAnswered(n) ==
  /\ goal[n] = "sent"
  /\ \/ /\ pc[n] = "accept"
        /\ watch' = [watch EXCEPT ![n] = "pending"]
        /\ handle' = n
        /\ alone' = IF \E m \in Navs \ {n} : pc[m] \in Loop THEN NoNav ELSE n
        /\ PassChecks(n, [goal EXCEPT ![n] = "executing"])
        /\ UNCHANGED <<manager, result>>
     \/ /\ pc[n] = "accept"
        /\ goal' = [goal EXCEPT ![n] = "rejected"]
        /\ End(n, "goal_rejected")
        /\ UNCHANGED <<handle, history>>
     \/ /\ pc[n] # "accept"
        /\ \E g \in {"executing", "rejected"} : goal' = [goal EXCEPT ![n] = g]
        /\ UNCHANGED <<pc, locals, manager, result, handle, history>>
  /\ UNCHANGED jobs

\* Mutant: a timeout leaves the loop without cancelling the goal.
PollTimesOut(n) ==
  /\ pc[n] = "asleep"
  /\ \/ /\ (watch[n] # "pending" \/ token[n] = "live")
        /\ Leave(n)
        /\ UNCHANGED <<outcome, goal, tried>>
     \/ /\ watch[n] = "pending" /\ token[n] = "cancelled"
        /\ Pass(n, "cancelled", goal)
        /\ UNCHANGED <<handle, alone>>
  /\ UNCHANGED <<watch, manager, jobs, result>>

\* Mutant: the loop looks at the deadline only.
PollIgnoresToken(n) ==
  /\ pc[n] = "asleep"
  /\ \/ /\ watch[n] # "pending"
        /\ Leave(n)
        /\ UNCHANGED <<outcome, goal, tried>>
     \/ /\ watch[n] = "pending"
        /\ \E o \in {"none", "timeout"} : Pass(n, o, goal)
        /\ UNCHANGED <<handle, alone>>
  /\ UNCHANGED <<watch, manager, jobs, result>>

\* The poll interval is over.
Poll(n) ==
  /\ pc[n] = "asleep"
  /\ \/ /\ watch[n] # "pending"
        /\ Leave(n)
        /\ UNCHANGED <<outcome, goal, tried>>
     \/ /\ watch[n] = "pending"
        /\ PassChecks(n, goal)
        /\ UNCHANGED <<handle, alone>>
  /\ UNCHANGED <<watch, manager, jobs, result>>

\* The response to the cancel request is there, or cancelling raised: either way
\* navigate() goes on.
CancelAnswered(n) ==
  /\ pc[n] = "cancel"
  /\ pc' = [pc EXCEPT ![n] = "drain"]
  /\ UNCHANGED <<locals, manager, handle, server, result, history>>

\* asyncio.wait_for(result_task, 5 s) gets the result, or gives up and cancels
\* result_task; any other exception of result_task goes through, past the line
\* that clears the handle.
Drained(n) ==
  /\ pc[n] = "drain"
  /\ \/ /\ watch[n] # "failed"
        /\ watch' = [watch EXCEPT ![n] = IF @ = "pending" THEN "none" ELSE @]
        /\ Leave(n)
        /\ UNCHANGED <<outcome, manager, result>>
     \/ /\ watch[n] = "failed"
        /\ End(n, "raised")
        /\ UNCHANGED <<handle, alone>>
  /\ UNCHANGED <<server, tried>>

\* How the status of a goal that ran to its end is told.
Told(g) == CASE g = "succeeded" -> "succeeded"
             [] g = "canceled" -> "CANCELLED"
             [] OTHER -> "NAVIGATION_FAILED"

\* Mutant: any status but STATUS_CANCELED counts as a success.
VerdictOptimistic(n) ==
  CASE outcome[n] = "cancelled" -> "CANCELLED"
    [] outcome[n] = "timeout" -> "ACTION_TIMEOUT"
    [] outcome[n] = "none" /\ watch[n] = "failed" -> "raised"
    [] OTHER -> IF goal[n] = "canceled" THEN "CANCELLED" ELSE "succeeded"

\* Mutant: the outcome is reported as it is.
VerdictUnmapped(n) ==
  CASE outcome[n] # "none" -> outcome[n]
    [] outcome[n] = "none" /\ watch[n] = "failed" -> "raised"
    [] OTHER -> Told(goal[n])

\* How the end of the loop is told: the outcome comes before the status, so a
\* goal that succeeded or was aborted while it was being cancelled is told as
\* CANCELLED or ACTION_TIMEOUT.
Verdict(n) ==
  CASE outcome[n] = "cancelled" -> "CANCELLED"
    [] outcome[n] = "timeout" -> "ACTION_TIMEOUT"
    [] outcome[n] = "none" /\ watch[n] = "failed" -> "raised"
    [] OTHER -> Told(goal[n])

\* Mutant: the handle is cleared after the final pose is looked up.
ResolvedClears(n) ==
  /\ pc[n] = "pose"
  /\ End(n, Verdict(n))
  /\ handle' = NoNav
  /\ alone' = IF alone = n THEN NoNav ELSE alone
  /\ UNCHANGED <<server, tried>>

\* _resolve_final_pose has its answer.
Resolved(n) ==
  /\ pc[n] = "pose"
  /\ End(n, Verdict(n))
  /\ UNCHANGED <<handle, server, history>>

\* send_goal_async() raises: there is no goal.
SendRaises(n) ==
  /\ pc[n] = "accept"
  /\ goal' = [goal EXCEPT ![n] = "none"]
  /\ End(n, "raised")
  /\ UNCHANGED <<handle, jobs, history>>

\* navigate() ends where it waits: the backstop, a cancelled request, or an
\* exception from what it waits for.  Jobs and requests stay, and so does the
\* handle.
Cut(n) ==
  /\ pc[n] # "off"
  /\ End(n, "raised")
  /\ UNCHANGED <<handle, server, history>>

\* result_task: the server's result arrives, or asking for it raises.
ResultArrives(n) ==
  /\ watch[n] = "pending"
  /\ \/ goal[n] \in Ended /\ watch' = [watch EXCEPT ![n] = "done"]
     \/ watch' = [watch EXCEPT ![n] = "failed"]
  /\ UNCHANGED <<pc, outcome, manager, handle, server, result, history>>

-----------------------------------------------------------------------------
(* robot.stop: _handle_stop and cancel_all().                              *)

\* The token of the command dispatched last is cancelled.
BeginStop(s) ==
  /\ stop[s] = "off"
  /\ stop' = [stop EXCEPT ![s] = "motion"]
  /\ token' = [n \in Navs |-> IF n = active THEN "cancelled" ELSE token[n]]
  /\ UNCHANGED <<pc, locals, active, handle, server, result, history>>

\* cancel(command_id).
Cancel(n) ==
  /\ token[n] = "live"
  /\ token' = [token EXCEPT ![n] = "cancelled"]
  /\ UNCHANGED <<pc, locals, active, stop, handle, server, result, history>>

\* motion_backend.stop() returns, and cancel_all() runs up to its await.
CancelAll(s) ==
  /\ stop[s] = "motion"
  /\ stop' = [stop EXCEPT ![s] = "called"]
  /\ jobs' = IF handle = NoNav THEN jobs ELSE jobs \cup {s}
  /\ UNCHANGED <<pc, locals, token, active, handle, goal, result, history>>

\* motion_backend.stop() raises, or the request of the stop is cancelled while it
\* waits for it: cancel_all() is skipped.
StopRaises(s) ==
  /\ stop[s] = "motion"
  /\ stop' = [stop EXCEPT ![s] = "called"]
  /\ UNCHANGED <<pc, locals, token, active, handle, server, result, history>>

\* Mutant: a goal is cancelled only while its own navigate() still runs.
RunCancelAllRunning(s) ==
  /\ s \in jobs
  /\ jobs' = jobs \ {s}
  /\ IF handle # NoNav /\ pc[handle] # "off"
       THEN AskToCancel(handle, goal)
       ELSE UNCHANGED <<goal, tried>>
  /\ UNCHANGED <<pc, locals, manager, handle, result, alone>>

\* The ROS thread runs the lambda of cancel_all(), which reads the handle only
\* here; if it is None by now the AttributeError is logged and the stop goes on.
RunCancelAll(s) ==
  /\ s \in jobs
  /\ jobs' = jobs \ {s}
  /\ IF handle # NoNav THEN AskToCancel(handle, goal) ELSE UNCHANGED <<goal, tried>>
  /\ UNCHANGED <<pc, locals, manager, handle, result, alone>>

-----------------------------------------------------------------------------
(* The action server.                                                      *)

\* A goal ends; one that is being cancelled may still succeed, and another
\* client may have cancelled one that is not.
GoalEnds(n) ==
  /\ goal[n] \in {"executing", "canceling"}
  /\ \E g \in Ended : goal' = [goal EXCEPT ![n] = g]
  /\ UNCHANGED <<pc, locals, manager, handle, jobs, result, history>>

-----------------------------------------------------------------------------
(* The specification.                                                      *)

LoopSteps(n) ==
  \/ Begin(n) \/ Checked(n) \/ GoalAnswered(n) \/ Poll(n) \/ CancelAnswered(n)
  \/ Drained(n) \/ Resolved(n) \/ SendRaises(n) \/ Cut(n) \/ ResultArrives(n) \/ Cancel(n)

Next ==
  \/ MoveDispatched
  \/ \E n \in Navs : LoopSteps(n) \/ GoalEnds(n)
  \/ \E s \in Stops : BeginStop(s) \/ CancelAll(s) \/ StopRaises(s) \/ RunCancelAll(s)

Spec == Init /\ [][Next]_vars

\* What a navigation waits for.  A pass that finds the deadline exceeded is not
\* among it.
NavStep(n) ==
  \/ Checked(n) \/ GoalAnswered(n) \/ (Poll(n) /\ outcome'[n] # "timeout")
  \/ CancelAnswered(n) \/ Drained(n) \/ Resolved(n)

\* The event loop and the ROS thread run what is queued, every lookup has a
\* timeout, and the server answers a goal and a request.  No deadline need
\* pass, no goal need end, and nobody need cut a navigation short.
FairSpec == Spec /\ \A n \in Navs : WF_vars(NavStep(n))

-----------------------------------------------------------------------------
(* Properties.                                                             *)

\* No answer of navigate() leaves a goal behind that nobody tried to stop: the
\* goal was refused, has ended, or was asked to be cancelled.  And once the loop
\* has an outcome the goal has been asked to be cancelled, so the backstop, whose
\* margin is shorter than the wait for the cancelled goal, may cut the clean-up
\* at any point of it.  A navigation cut before that, or one whose result_task
\* raised, leaves its goal as it is; there the code gives no such promise.
NoGoalForgotten ==
  \A n \in Navs : result[n] \in Returned \/ outcome[n] # "none" =>
    goal[n] \in {"none", "rejected"} \cup Ended \/ n \in tried

\* A goal that was never waited for together with another one stays in reach
\* of robot.stop until its own navigate() has left the loop.
SoleGoalHasHandle ==
  alone # NoNav => handle = alone

\* What the answer r says of the goal of n.
TrueOfGoal(n, r) ==
  /\ r = "succeeded" => goal[n] = "succeeded"
  /\ r = "goal_rejected" => goal[n] = "rejected"
  /\ r = "NAVIGATION_FAILED" => goal[n] = "aborted"
  /\ r = "refused" => goal[n] = "none"
  /\ r = "ACTION_TIMEOUT" => n \in tried
  /\ r = "CANCELLED" => goal[n] = "canceled" \/ n \in tried

\* What navigate() answers is true of its goal, whenever the result arrived and
\* whoever cancelled the goal: a success, a rejection and a NAVIGATION_FAILED are
\* the server's word on this goal, and a refused navigation has no goal.  A goal
\* told to have timed out was asked to be cancelled, and so was one told to be
\* CANCELLED, unless the server canceled it; these two do not say how it ended.
ResultTruth == \A n \in Navs : TrueOfGoal(n, result[n])

\* A navigation whose token is cancelled ends, whatever the deadline does, and
\* even when robot.stop never reached cancel_all().
CancelledNavEnds == \A n \in Navs : token[n] = "cancelled" ~> pc[n] = "off"

\* The cancel request of robot.stop reaches a goal that is waited for alone,
\* although its handle is read in another thread, some time after the test that
\* there is one.
StopReachesSole == [][\A s \in jobs \ jobs' : alone # NoNav => alone \in tried']_vars

\* navigate() as its caller and the action server see it.
Contract == INSTANCE NavigationContract WITH
  call <- [n \in Navs |-> IF pc[n] = "asleep" THEN "resting"
                          ELSE IF pc[n] # "off" THEN "busy"
                          ELSE IF result[n] = "none" THEN "new" ELSE "ended"],
  cancelled <- {n \in Navs : token[n] = "cancelled"},
  answer <- result

\* Navigations that share a handle, stops that come from two threads, and the
\* backstop do what NavigationContract says of each call by itself: one goal,
\* sent while the call runs; no settling down after a cancellation; requests to
\* cancel for accepted goals only; no answer that is not true of the goal.
KeepsContract == Contract!Spec
=============================================================================
