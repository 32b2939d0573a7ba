--------------------------- MODULE ExecutionManager ---------------------------
(***************************************************************************)
(* DefaultExecutionManager (src/src/ros_mcp/execution/manager.py): the     *)
(* asyncio object every tool call goes through.  A step of the model is    *)
(* what one task runs between two awaits that can suspend.  The safety     *)
(* engine's verdict, the capability registry and the back ends' outcomes   *)
(* are nondeterministic here; the modules that extend this one, and        *)
(* SafetyPolicy, narrow them.                                              *)
(*                                                                         *)
(* A task that is cancelled (asyncio.Task.cancel) gets CancelledError at   *)
(* its next step, whatever it was waiting for: cancelReq holds the         *)
(* commands whose task has that exception on its way.                      *)
(***************************************************************************)
EXTENDS Naturals, FiniteSets

CONSTANTS Commands,    \* the semantic commands, one per command_id
          Requests,    \* concurrent calls of submit()
          Robots,      \* robot ids
          Op,          \* Op[c]: the operation of c
          RobotOf,     \* RobotOf[c]: the robot_id of c
          ReadHandled, \* the READ commands whose operation has a handler
          NoCommand    \* None

Operations == {"READ", "MOVE", "NAVIGATE", "STOP"}

ASSUME CommandsAssumption == /\ Op \in [Commands -> Operations]
                             /\ RobotOf \in [Commands -> Robots]
                             /\ NoCommand \notin Commands

VARIABLES
  pc,        \* where the task _execute(c) waits; "idle": there is no such task
  state,     \* c.execution_state
  inFlight,  \* _in_flight[c]: absent, a pending future, or the future's result
  token,     \* _tokens[c]
  active,    \* _active_commands[robot]
  cancelReq, \* commands whose task has a CancelledError on its way
  reqState,  \* a submit() call: not made, awaiting its future, woken up
  reqCmd,    \* the command it submits
  owners,    \* the calls that created the future they wait for
  reqResult, \* what the call is about to return
  latest     \* history: the command dispatched last for a robot

registry == <<token, active>>
calls == <<reqState, reqCmd, owners, reqResult>>
vars == <<pc, state, inFlight, token, active, cancelReq,
          reqState, reqCmd, owners, reqResult, latest>>

Waits == {"idle", "queued", "reading", "pose", "stopMotion", "stopNav", "backend"}
Terminal == {"SAFETY_REJECTED", "CAPABILITY_UNAVAILABLE", "SUCCEEDED", "FAILED"}
ExecutionState == Terminal \cup {"RECEIVED", "SAFETY_CHECK", "AWAITING_APPROVAL",
                                 "PLANNING", "EXECUTING"}

\* A result is told apart by its status and, when it failed, its error code.
Result == {"succeeded", "failed", "SAFETY_REJECTED", "awaiting_approval",
           "CAPABILITY_UNAVAILABLE", "ACTION_TIMEOUT", "INTERNAL_ERROR", "cancelled"}
\* Mutant: the status of the result is stored as it is.
StatusUnmapped(x) == x
Status(x) == IF x = "succeeded" THEN "SUCCEEDED" ELSE "FAILED"

Backing(c) == pc[c] = "backend"

\* The one type invariant of the module.
TypeOK ==
  /\ pc \in [Commands -> Waits]
  /\ state \in [Commands -> ExecutionState]
  /\ inFlight \in [Commands -> {"absent", "pending"} \cup Result]
  /\ token \in [Commands -> {"none", "live", "cancelled"}]
  /\ active \in [Robots -> Commands \cup {NoCommand}]
  /\ cancelReq \in SUBSET Commands
  /\ reqState \in [Requests -> {"idle", "waiting", "ready"}]
  /\ reqCmd \in [Requests -> Commands \cup {NoCommand}]
  /\ owners \in SUBSET Requests
  /\ reqResult \in [Requests -> Result \cup {"none"}]
  /\ latest \in [Robots -> Commands \cup {NoCommand}]

Init ==
  /\ pc = [c \in Commands |-> "idle"]
  /\ state = [c \in Commands |-> "RECEIVED"]
  /\ inFlight = [c \in Commands |-> "absent"]
  /\ token = [c \in Commands |-> "none"]
  /\ active = [b \in Robots |-> NoCommand]
  /\ cancelReq = {}
  /\ reqState = [r \in Requests |-> "idle"]
  /\ reqCmd = [r \in Requests |-> NoCommand]
  /\ owners = {}
  /\ reqResult = [r \in Requests |-> "none"]
  /\ latest = [b \in Robots |-> NoCommand]

-----------------------------------------------------------------------------
(* submit(): the calls of a command in flight share one future.            *)

\* No future is registered: create the task, register it, wait for it.
SubmitNew(r, c) ==
  /\ reqState[r] = "idle"
  /\ inFlight[c] = "absent"
  /\ inFlight' = [inFlight EXCEPT ![c] = "pending"]
  /\ pc' = [pc EXCEPT ![c] = "queued"]
  /\ reqState' = [reqState EXCEPT ![r] = "waiting"]
  /\ reqCmd' = [reqCmd EXCEPT ![r] = c]
  /\ owners' = owners \cup {r}
  /\ UNCHANGED <<state, registry, cancelReq, reqResult, latest>>

\* A future is registered: wait for it, or take its result if it is done.
SubmitDuplicate(r, c) ==
  /\ reqState[r] = "idle"
  /\ inFlight[c] # "absent"
  /\ reqCmd' = [reqCmd EXCEPT ![r] = c]
  /\ \/ /\ inFlight[c] = "pending"
        /\ reqState' = [reqState EXCEPT ![r] = "waiting"]
        /\ UNCHANGED reqResult
     \/ /\ inFlight[c] # "pending"
        /\ reqState' = [reqState EXCEPT ![r] = "ready"]
        /\ reqResult' = [reqResult EXCEPT ![r] = inFlight[c]]
  /\ UNCHANGED <<pc, state, inFlight, registry, cancelReq, owners, latest>>

\* Mutant: whoever returns first unregisters the future.
ReturnPopsAlways(r) ==
  /\ reqState[r] = "ready"
  /\ reqState' = [reqState EXCEPT ![r] = "idle"]
  /\ reqCmd' = [reqCmd EXCEPT ![r] = NoCommand]
  /\ reqResult' = [reqResult EXCEPT ![r] = "none"]
  /\ owners' = owners \ {r}
  /\ inFlight' = [inFlight EXCEPT ![reqCmd[r]] = "absent"]
  /\ state' = [state EXCEPT ![reqCmd[r]] = "RECEIVED"]
  /\ UNCHANGED <<pc, registry, cancelReq, latest>>

\* Mutant: no finally around the await, CancelledError skips the clean-up.
ReturnWithoutFinally(r) ==
  /\ reqState[r] = "ready"
  /\ reqState' = [reqState EXCEPT ![r] = "idle"]
  /\ reqCmd' = [reqCmd EXCEPT ![r] = NoCommand]
  /\ reqResult' = [reqResult EXCEPT ![r] = "none"]
  /\ owners' = owners \ {r}
  /\ IF r \in owners /\ reqResult[r] # "cancelled"
       THEN /\ inFlight' = [inFlight EXCEPT ![reqCmd[r]] = "absent"]
            /\ state' = [state EXCEPT ![reqCmd[r]] = "RECEIVED"]
       ELSE UNCHANGED <<inFlight, state>>
  /\ UNCHANGED <<pc, registry, cancelReq, latest>>

\* The woken call returns; the one that made the future unregisters it.  That
\* drops the command object, and c stands for the next one, which the command
\* factory creates in state RECEIVED.
Return(r) ==
  /\ reqState[r] = "ready"
  /\ reqState' = [reqState EXCEPT ![r] = "idle"]
  /\ reqCmd' = [reqCmd EXCEPT ![r] = NoCommand]
  /\ reqResult' = [reqResult EXCEPT ![r] = "none"]
  /\ owners' = owners \ {r}
  /\ IF r \in owners THEN /\ inFlight' = [inFlight EXCEPT ![reqCmd[r]] = "absent"]
                          /\ state' = [state EXCEPT ![reqCmd[r]] = "RECEIVED"]
     ELSE UNCHANGED <<inFlight, state>>
  /\ UNCHANGED <<pc, registry, cancelReq, latest>>

\* Mutant: the await is shielded, so the call ends and its task goes on.
CancelRequestShielded(r) ==
  /\ reqState[r] = "waiting"
  /\ reqState' = [reqState EXCEPT ![r] = "idle"]
  /\ reqCmd' = [reqCmd EXCEPT ![r] = NoCommand]
  /\ owners' = owners \ {r}
  /\ inFlight' = [inFlight EXCEPT ![reqCmd[r]] = IF r \in owners THEN "absent" ELSE @]
  /\ UNCHANGED <<pc, state, registry, cancelReq, reqResult, latest>>

\* The MCP layer cancels the request (client cancellation, disconnection,
\* shutdown).  Awaiting a task hands the cancellation on to that task, which
\* every call of the same command shares; a woken call just raises.
CancelRequest(r) ==
  /\ \/ /\ reqState[r] = "waiting"
        /\ cancelReq' = cancelReq \cup {reqCmd[r]}
        /\ UNCHANGED reqResult
     \/ /\ reqState[r] = "ready"
        /\ reqResult' = [reqResult EXCEPT ![r] = "cancelled"]
        /\ UNCHANGED cancelReq
  /\ UNCHANGED <<pc, state, inFlight, registry, reqState, reqCmd, owners, latest>>

\* cancel(command_id): polite cancellation of a dispatched command.
Cancel(c) ==
  /\ token[c] # "none"
  /\ token' = [token EXCEPT ![c] = "cancelled"]
  /\ UNCHANGED <<pc, state, inFlight, active, cancelReq, calls, latest>>

-----------------------------------------------------------------------------
(* _execute(): one task per command in flight.                             *)

\* Mutant: only the call that made the future is woken up.
FinishWakesOwner(c, x, s) ==
  /\ pc' = [pc EXCEPT ![c] = "idle"]
  /\ state' = [state EXCEPT ![c] = s]
  /\ inFlight' = [inFlight EXCEPT ![c] = x]
  /\ cancelReq' = cancelReq \ {c}
  /\ reqState' = [r \in Requests |->
       IF r \in owners /\ reqCmd[r] = c THEN "ready" ELSE reqState[r]]
  /\ reqResult' = [r \in Requests |->
       IF r \in owners /\ reqCmd[r] = c THEN x ELSE reqResult[r]]
  /\ UNCHANGED <<reqCmd, owners>>

\* The task ends: its future gets the result and wakes everyone who awaits it.
Finish(c, x, s) ==
  /\ pc' = [pc EXCEPT ![c] = "idle"]
  /\ state' = [state EXCEPT ![c] = s]
  /\ inFlight' = [inFlight EXCEPT ![c] = x]
  /\ cancelReq' = cancelReq \ {c}
  /\ reqState' = [r \in Requests |->
       IF reqState[r] = "waiting" /\ reqCmd[r] = c THEN "ready" ELSE reqState[r]]
  /\ reqResult' = [r \in Requests |->
       IF reqState[r] = "waiting" /\ reqCmd[r] = c THEN x ELSE reqResult[r]]
  /\ UNCHANGED <<reqCmd, owners>>

Goto(c, w, s) ==
  /\ pc' = [pc EXCEPT ![c] = w]
  /\ state' = [state EXCEPT ![c] = s]
  /\ UNCHANGED <<inFlight, cancelReq, calls>>

Runs(c, w) == pc[c] = w /\ c \notin cancelReq

\* The first step of the task.
Start(c) ==
  /\ Runs(c, "queued")
  /\ \/ Op[c] # "READ" /\ Goto(c, "pose", "SAFETY_CHECK")
     \/ Op[c] = "READ" /\ c \in ReadHandled /\ Goto(c, "reading", "EXECUTING")
     \/ Op[c] = "READ" /\ c \notin ReadHandled /\ Finish(c, "INTERNAL_ERROR", "FAILED")
  /\ UNCHANGED <<registry, latest>>

\* The read handler returns, or raises into the boundary of _execute.
ReadReturn(c) ==
  /\ Runs(c, "reading")
  /\ \E x \in {"succeeded", "failed", "INTERNAL_ERROR"} : Finish(c, x, Status(x))
  /\ UNCHANGED <<registry, latest>>

\* DefaultSafetyPolicyEngine.check: STOP is always allowed.
SafetyDecisions(c) ==
  IF Op[c] = "STOP" THEN {"ALLOW"} ELSE {"ALLOW", "DENY", "REQUIRE_APPROVAL"}

\* DefaultCommandPlanner.select_backend over what the registry may hold now:
\* usable is the set of capabilities that are present and not AMBIGUOUS,
\* located says an entry for localization is present at any confidence.
SelectBackend(op, usable, located, navServer) ==
  CASE op = "MOVE" /\ "differential_drive_motion" \in usable -> "motion"
    [] op = "NAVIGATE" /\ "autonomous_navigation" \in usable
                       /\ located /\ navServer -> "navigation"
    [] OTHER -> "none"

Planned(c) ==
  {SelectBackend(Op[c], usable, located, navServer) :
     usable \in SUBSET {"differential_drive_motion", "autonomous_navigation"},
     located \in BOOLEAN, navServer \in BOOLEAN}

\* The verdict is not ALLOW: the command ends without being planned.
Refuse(c, d) ==
  /\ \/ d = "DENY" /\ Finish(c, "SAFETY_REJECTED", "SAFETY_REJECTED")
     \/ d = "REQUIRE_APPROVAL" /\ Finish(c, "awaiting_approval", "AWAITING_APPROVAL")
  /\ UNCHANGED <<registry, latest>>

\* Mutant: a STOP cancels moves only.
BeginStopMovesOnly(c) ==
  LET target == active[RobotOf[c]] IN
  /\ token' = [t \in Commands |->
       IF t = target /\ token[t] # "none" /\ Op[t] = "MOVE" THEN "cancelled" ELSE token[t]]
  /\ Goto(c, "stopMotion", "PLANNING")
  /\ UNCHANGED <<active, latest>>

\* _handle_stop up to its first await: cancel what _active_commands names.
BeginStop(c) ==
  LET target == active[RobotOf[c]] IN
  /\ token' = [t \in Commands |->
       IF t = target /\ token[t] # "none" THEN "cancelled" ELSE token[t]]
  /\ Goto(c, "stopMotion", "PLANNING")
  /\ UNCHANGED <<active, latest>>

\* A back end is available: register token and active command, start it.
Dispatch(c) ==
  /\ token' = [token EXCEPT ![c] = "live"]
  /\ active' = [active EXCEPT ![RobotOf[c]] = c]
  /\ latest' = [latest EXCEPT ![RobotOf[c]] = c]
  /\ Goto(c, "backend", "EXECUTING")

\* The pose provider answers; safety check, planning and dispatch follow in
\* the same step, since none of them suspends.
PoseResolved(c) ==
  /\ Runs(c, "pose")
  /\ \E d \in SafetyDecisions(c) :
       \/ Refuse(c, d)
       \/ d = "ALLOW" /\ Op[c] = "STOP" /\ BeginStop(c)
       \/ /\ d = "ALLOW" /\ Op[c] # "STOP"
          /\ \E b \in Planned(c) :
               \/ b # "none" /\ Dispatch(c)
               \/ /\ b = "none"
                  /\ Finish(c, "CAPABILITY_UNAVAILABLE", "CAPABILITY_UNAVAILABLE")
                  /\ UNCHANGED <<registry, latest>>

PoseRaises(c) ==
  /\ Runs(c, "pose")
  /\ Finish(c, "INTERNAL_ERROR", "FAILED")
  /\ UNCHANGED <<registry, latest>>

\* motion_backend.stop() returns: go on to navigation_backend.cancel_all().
StopMotionReturn(c) ==
  /\ Runs(c, "stopMotion")
  /\ Goto(c, "stopNav", "PLANNING")
  /\ UNCHANGED <<registry, latest>>

StopNavReturn(c) ==
  /\ Runs(c, "stopNav")
  /\ Finish(c, "succeeded", "SUCCEEDED")
  /\ UNCHANGED <<registry, latest>>

\* One of the two raises: the rest of the stop is skipped.
StopRaises(c) ==
  /\ Runs(c, "stopMotion") \/ Runs(c, "stopNav")
  /\ Finish(c, "INTERNAL_ERROR", "FAILED")
  /\ UNCHANGED <<registry, latest>>

\* Mutant: the entry of the robot is dropped whoever it belongs to.
ReleaseAnyone(c) ==
  /\ token' = [token EXCEPT ![c] = "none"]
  /\ active' = [active EXCEPT ![RobotOf[c]] = NoCommand]
  /\ UNCHANGED latest

\* The finally block of the dispatch.
Release(c) ==
  /\ token' = [token EXCEPT ![c] = "none"]
  /\ active' = [active EXCEPT ![RobotOf[c]] = IF @ = c THEN NoCommand ELSE @]
  /\ UNCHANGED latest

\* The back end returns or raises.  asyncio.wait_for hands over a result that
\* is already there even when the task was cancelled meanwhile.
BackendReturn(c) ==
  /\ pc[c] = "backend"
  /\ \E x \in {"succeeded", "failed", "INTERNAL_ERROR"} : Finish(c, x, Status(x))
  /\ Release(c)

\* Mutant: the timeout returns past the finally block.
BackstopKeepsToken(c) ==
  /\ Runs(c, "backend")
  /\ Finish(c, "ACTION_TIMEOUT", "FAILED")
  /\ UNCHANGED <<registry, latest>>

\* Mutant: the timeout leaves the state of the command as it is.
BackstopKeepsState(c) ==
  /\ Runs(c, "backend")
  /\ Finish(c, "ACTION_TIMEOUT", state[c])
  /\ Release(c)

\* asyncio.wait_for gives up after timeout_s + _TIMEOUT_BACKSTOP_MARGIN_S.
BackstopTimeout(c) ==
  /\ Runs(c, "backend")
  /\ Finish(c, "ACTION_TIMEOUT", "FAILED")
  /\ Release(c)

\* CancelledError is no Exception: it ends the task through the finally
\* blocks only and execution_state keeps the value it has.
TaskCancelled(c) ==
  /\ c \in cancelReq
  /\ Finish(c, "cancelled", state[c])
  /\ IF Backing(c) THEN Release(c) ELSE UNCHANGED <<registry, latest>>

-----------------------------------------------------------------------------
\* Steps the event loop takes by itself.
LoopStep(c) == Start(c) \/ BackstopTimeout(c) \/ TaskCancelled(c)

\* Steps that need the ROS thread, a read handler or a back end to answer.
Reply(c) == \/ ReadReturn(c) \/ PoseResolved(c) \/ PoseRaises(c)
            \/ StopMotionReturn(c) \/ StopNavReturn(c) \/ StopRaises(c)
            \/ BackendReturn(c)

Submit(r) == \E c \in Commands : SubmitNew(r, c) \/ SubmitDuplicate(r, c)

Next ==
  \/ \E r \in Requests : Submit(r) \/ Return(r) \/ CancelRequest(r)
  \/ \E c \in Commands : Cancel(c) \/ LoopStep(c) \/ Reply(c)

Spec == Init /\ [][Next]_vars

\* The event loop never stops: a task or call that can run will run.  And
\* whatever a task waits for answers in the end.
FairSpec ==
  /\ Spec
  /\ \A c \in Commands : WF_vars(LoopStep(c)) /\ WF_vars(Reply(c))
  /\ \A r \in Requests : WF_vars(Return(r))

-----------------------------------------------------------------------------
(* Properties.                                                             *)

\* A command has a cancellation token exactly while a back end runs it: the
\* finally block of _execute_motion is reached on every way out, so robot.stop
\* can always cancel what runs and no token outlives its command.
TokenWhileBacked == \A c \in Commands : token[c] # "none" <=> Backing(c)

\* _active_commands holds exactly the command dispatched last, for as long as
\* that one runs: an older command that ends later never clears the entry of
\* its successor, and no entry outlives its command.
ActiveIsLatest ==
  \A b \in Robots :
    active[b] = IF latest[b] # NoCommand /\ pc[latest[b]] = "backend"
                  THEN latest[b] ELSE NoCommand

\* A registered future has one call, and only one, that will unregister it, so
\* _in_flight does not leak entries and no call unregisters another's future.
InFlightOwned ==
  \A c \in Commands :
    /\ inFlight[c] # "absent" <=> \E r \in owners : reqCmd[r] = c
    /\ \A r, q \in owners : reqCmd[r] = c /\ reqCmd[q] = c => r = q

\* A call that awaits a future awaits one whose task still runs and is still
\* registered: nobody sleeps on a future that will not wake it, and a second
\* task for the same command_id is never created while the first one runs.
NoLostWakeup ==
  /\ \A r \in Requests : reqState[r] = "waiting" => inFlight[reqCmd[r]] = "pending"
  /\ \A c \in Commands : inFlight[c] = "pending" <=> pc[c] # "idle"

\* A command that has been answered is left in a state that does not contradict
\* the answer, whichever way it ended: success, approval pending, a refusal and
\* a missing capability are the state of exactly the commands answered so; no
\* command fails or ends before its task does; and every other answer leaves a
\* terminal state (which one the documents and the code do not agree on).  The
\* call that ran the command is told what its future holds.
OutcomeAgrees ==
  /\ \A r \in owners : reqState[r] = "ready" =>
       reqResult[r] \in {"cancelled", inFlight[reqCmd[r]]}
  /\ \A c \in Commands :
       /\ state[c] = "SUCCEEDED" <=> inFlight[c] = "succeeded"
       /\ state[c] = "AWAITING_APPROVAL" <=> inFlight[c] = "awaiting_approval"
       /\ \A e \in {"SAFETY_REJECTED", "CAPABILITY_UNAVAILABLE"} :
            state[c] = e <=> inFlight[c] = e
       /\ state[c] = "FAILED" => inFlight[c] \in Result
       /\ inFlight[c] \in Result \ {"cancelled"} =>
            state[c] \in Terminal \cup {"AWAITING_APPROVAL"}

\* The command a STOP starts to stop.
StopsNow(s) == pc[s] = "pose" /\ pc'[s] = "stopMotion"

CancelsLatest ==
  \A s \in Commands : StopsNow(s) =>
    LET t == latest[RobotOf[s]] IN
    t # NoCommand /\ pc[t] = "backend" => token'[t] = "cancelled"

\* When a STOP gets through the safety check, the command dispatched last for
\* its robot is cancelled if it still runs, whatever commands were dispatched,
\* ended, timed out or were dropped before.
StopCancelsLatest == [][CancelsLatest]_vars

\* The description of robot.stop: it cancels any in-flight move or navigate
\* command.  Only commands that a back end runs are asked for: one that was
\* submitted before the stop has its pose before the stop has, since the lookups
\* pass through one queue.
StopCancelsInFlight ==
  [][\A s, t \in Commands :
       /\ StopsNow(s) /\ RobotOf[t] = RobotOf[s]
       /\ Op[t] \in {"MOVE", "NAVIGATE"} /\ Backing(t) /\ t \notin cancelReq
       => token'[t] = "cancelled"]_vars

\* Every submit() call returns in the end, with a result or CancelledError.
EveryCallReturns == \A r \in Requests : reqState[r] = "waiting" ~> reqState[r] = "idle"

\* A registered future is unregistered in the end.
InFlightDrains == \A c \in Commands : inFlight[c] # "absent" ~> inFlight[c] = "absent"
=============================================================================
