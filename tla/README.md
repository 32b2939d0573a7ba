# A verification project for ros2-mcp-server

`ros2-mcp-server` lets an MCP client (a language model) drive a ROS 2 robot through a
handful of semantic tools: `robot.move`, `robot.navigate`, `robot.stop` and some that only
read. One Python process holds an asyncio event loop, where every tool call runs as a
task, and one other thread, the only one that touches rclpy. This directory holds
TLA+ models of the parts where that arrangement can go wrong, the TLC configurations that
check them, and proofs that TLAPS checks for every value of the constants. Paths below are
relative to `src/src/ros_mcp/` unless they begin with `docs/` or `README.md`, which are in
`src/`.

## The system

| Component | State it keeps | Operations | Talks to |
|---|---|---|---|
| Execution manager (`execution/manager.py`) | `_in_flight` futures, `_tokens`, `_active_commands`, each command's `execution_state` | `submit`, `cancel`, the task `_execute`, `_handle_stop` | awaits pose provider, safety engine, planner, back ends, read handlers |
| Motion back end (`adapters/motion/cmd_vel_plugin.py`) | publisher, the ramp of the running `move()` | `move`, `stop` | publishes through the bridge, reads the subscription cache |
| Navigation back end (`adapters/navigation/nav2_plugin.py`) | action client, active goal handle | `navigate`, `cancel_all` | Nav2's action server through the bridge |
| Bridge and executor thread (`ros/`) | work queue, futures | `call_ros_from_asyncio`, the thread's loop | everything that uses ROS |
| Safety and policy engine (`safety/policy_engine.py`) | a rate-limit history per session | `check` | called by the manager before any motion |
| Discovery engine (`discovery/`) | latest graph snapshot | `start`, `refresh_once`, the poll loop | graph queries through the bridge; calls the coordinator back |
| Inference and registry (`capabilities/`) | capability entries | `infer`, `update`, `get`, `current` | read by tool list, planner, back ends |
| Subscription manager (`subscriptions/manager.py`) | claimed topics, message cache (lock) | `ensure_subscribed`, `get_latest`, `is_fresh` | callbacks on the ROS thread |
| Tool surface (`mcp/tool_provider.py`, `mcp/schemas.py`) | none | `current_tools`, `handle_call` | validation, command factory, manager |
| Read handlers, resources, perception (`mcp/`, `adapters/perception/`, `perception/`, `robot_state.py`) | none beyond caches | one per read tool | registry, caches, TF |
| Validation, command factory, codec, configuration, wiring | none, or read once | pure functions of one call | |

What is hard about it:

* **Interleaving of tasks.** Nothing refuses a second motion command while one runs. A stop,
  two moves, a duplicate `submit` and a cancelled request interleave at every `await`, and
  the tables of the manager are shared by all of them.
* **Two threads.** A Twist is computed by a task, queued, published by the ROS thread, and its
  completion is queued back. A stop takes the same road at the same time.
* **Ways out.** A command ends by a result, an exception, the manager's backstop
  (`asyncio.wait_for`), or `CancelledError` when its request is cancelled. The last two reach
  into the middle of `move()`.
* **Time.** Deadlines, a backstop, stale odometry, a sliding rate window, and lookups that wait
  for a transform on the very thread that would receive it.
* **A third party.** A navigation lives on Nav2's action server. Its acceptance, its result and
  the answer to a cancel request come late, or to a coroutine that has given up.
* **Feedback.** The server infers the robot's capabilities from a ROS graph it takes part in.

What makes each part correct: the manager's tables name exactly what runs, every call is
answered, and a stop cancels what it must; the control loop respects its limits, never
drives where it does not look, ends, and leaves a zero Twist; the two queues keep a stop's
zero last; no answer leaves a goal behind that nobody asked to cancel, and what it says of the
goal is true; the rate limit admits what it should and denies only what it must; the registry
follows the graph; a reading tells where it comes from and hangs together. `PROJECT.json` lists each hazard at its line with the property that
would catch it.

## Modules

| Module | Models | Builds on |
|---|---|---|
| `ExecutionManager` | `DefaultExecutionManager`, with verdicts, registry and back ends left open | |
| `MotionStack` | the manager with the motion plugin's coroutines, the bridge's queues, the ROS thread and the robot's last Twist | extends `ExecutionManager` |
| `CmdVelMotion` | the arithmetic and the exits of one control loop, call after call | |
| `MotionContract` | what `MotionBackend` in `contracts/adapters.py` promises of `move()`, calls interrupted from outside excepted | implemented by `CmdVelMotion` |
| `Nav2Navigation` | `Nav2NavigationPlugin` with the action server, the manager's token and active command, the backstop and `robot.stop` | may end at any await, as the back ends of `ExecutionManager` do |
| `NavigationContract` | one `navigate()` as its caller and the action server see it: what it may answer, when it sends its goal, and that it does not settle down after a cancellation | implemented by `Nav2Navigation` |
| `SafetyPolicy` | `DefaultSafetyPolicyEngine.check` with a clock | |
| `ToolCalls` | a tool call from the client's JSON to its answer: tool list, validation, command factory, policy, planner | extends `SafetyPolicy` |
| `Perception` | the pure parts of scan analysis, detection geometry and thumbnails | |
| `Reading` | subscription manager, cache, transforms, and the read handlers that answer from them, across the two threads | extends `Perception` |
| `Discovery` | poll loop, inference rules, registry, and the server's own endpoints in the graph | |
| `MC...` | constants for TLC; they redefine nothing | the module they are named after |
| `...Proofs` | theorems and proofs | the module they are named after |

### State and actions against the code

**ExecutionManager.** A step is what a task runs between two awaits that can suspend, so
`PoseResolved` holds the safety check, the planning and the dispatch: none of them gives up
the loop. `pc[c]` is the await at which the task of `c` is suspended; `inFlight`, `token`,
`active` and `state` are the manager's dictionaries and `command.execution_state`. A
request is a call of `submit()`: `SubmitNew` creates the task and is its owner (its `finally`
unregisters the future, `Return`), `SubmitDuplicate` awaits the same future. `CancelRequest`
is the cancellation of an awaiting call: asyncio hands it on to the awaited task
(`cancelReq`), which gets `CancelledError` at its next step (`TaskCancelled`), and which
other calls may share. `BackendReturn` is possible even then, because `asyncio.wait_for`
hands over a result that is already there. Several commands may run at once, as in the code.
When a command is unregistered, its model value stands for the next command of its kind, so
that the runs cover sequences of any length.

**MotionStack.** The same steps joined with what they do in the plugin and the bridge.
`mv[c]` is the point of `move()` or `stop()`. `work` is `_work_queue`, `woken` the callbacks
posted with `call_soon_threadsafe`. `Publish` queues a Twist, or first the creation of the
publisher if `self._publisher` is still None; `GoOn` takes the loop further with the
answer. `Forsake` is a cancelled future: its job stays queued and is still published. A
dispatched `MOVE` is at the top of its loop; that the plugin's first check (no fresh
odometry) publishes a zero and returns is one of the outcomes of `Tick`.

**CmdVelMotion.** `loc` is where `move()` waits. `Tick` is one pass of the `while` loop with
its checks in the order the code makes them; `Published`, `Returned` and `Awake` are its
awaits. Velocities are integers; heading errors, distances and obstacles are inputs without
any relation between ticks, since the robot slips. `_clamp` and `_clamp_delta` are
translated as they are, limits that are not positive included. `Abort` (a
`CancelledError`) and `PublishRaises` leave without a Twist, as the code does; in
`MotionContract` they are the steps `Abort`, after which nothing is promised of the last
Twist of that call, and only of that one.

**Nav2Navigation.** `pc[n]` is the await of `navigate()`: before the goal is queued (`checks`; the
frame, the action client, `wait_for_server`, the localization and the transform write
nothing that another coroutine reads, so their awaits are one), for the acceptance, in the
poll loop, for the answer to the cancel request, in the wait of five seconds for
`result_task` (`drain`), and for the final pose. `handle` is `_active_goal_handle`, one for
all navigations; `watch` is `result_task`. `goal[n]` is the goal on the action server, which
may refuse a goal, refuse a cancellation, or finish one that is being cancelled. `Cut` is the
end from outside at any await: the backstop, a cancelled request, an exception. It leaves
the handle as it is. `CancelAll` tests the handle on the event loop and queues a job;
`RunCancelAll` reads it again on the ROS thread. An answer is kept by its error code (`Returned`), and
`Verdict` tells the end in the order of the code: the outcome of the loop before the status of
the goal. `tried` and `alone` are history variables:
whose goal anyone tried to cancel, and which navigation had no other one beside it.
`NavigationContract` knows neither the handle nor the tables, threads and waits: a call is
`resting` in its poll loop or `busy` anywhere else, and each call stands by itself. It says
of a single call what `navigate()` was written to do, and that it goes on doing it when
calls share a plugin; interrupted calls answer nothing and are excepted.

**SubscriptionManager and reads (`Reading`).** `claimed`, `pending`, `opened` are the claim set, the
subscribe tasks and the subscriptions; `cache` is the cache with the time of receipt of each
message. The ROS thread does one thing at a time: while `job` holds a lookup, it receives
neither messages nor transforms. A handler's step ends where the ROS thread may change what
it reads next: a state is read in up to four steps (lookup, pose, velocity, freshness),
objects in three. Each sensor has one topic of the server's; that the registry may resolve
another one, or none, is `registry`. A detection has at most one object, and an image is its
width, the sides of that object and whether its encoding is supported.

**Perception.** Angles are whole parts of a full turn, ranges whole numbers, so the analysis of a
scan, its sectors and the matching of a bearing are translated as they are, without
floating point.

**SafetyPolicy.** `check()` awaits nothing, so a call is one step. `history[s]` holds the
calls instead of their times. The rate is a fraction because the configuration accepts any
positive float. It is checked by TLC through `ToolCalls`, whose calls are its only users.

**ToolCalls.** `handle_call` awaits nothing before the pose lookup, and policy and planner run in one
step after it, so a call is one step. JSON values are records with their kind, so that an
integer passes as a number and a boolean does not. The registry is any of `Registries` at
every call: it may have changed since the client listed its tools. A call is judged up to
the back end; what becomes of it there is `ExecutionManager`'s.

**Discovery.** `Poll`, `Collect`, `Deliver` are `refresh_once` cut at the two crossings of the
bridge. `own` are the endpoints of the server's node: subscriptions asked for by the
constructors of the back ends, the velocity publisher (`CreatePublisher`) and the action
client of the first navigation (`AskForActionClient`); `Open` is the job that creates a
subscription or the client.
`Infer` holds the rules of `capabilities/ontology.py`.

## Runs

All runs use two TLC workers; the times are those of a small machine.

| Run | Shows | States |
|---|---|---|
| `manager_overlap` | the manager's tables with three calls and three overlapping commands; no command is left in a state that contradicts its answer; a stop cancels the command dispatched last | 118 k, 10 s |
| `manager_fair` | every call returns, no future stays registered | 7 k, 5 s |
| `manager_in_flight` | **violated**: of two moves that run, a stop cancels the one dispatched last only | |
| `stack_twists` | after a stop's zero nothing the stop found cancelled moves the robot; a move's zero precedes its result; one Twist at a time | 1.4 M, 100 s |
| `stack_ends` | a cancelled move ends | 150 k, 90 s |
| `stack_rest` | **violated**: a move that ends by `CancelledError` leaves the robot driving | |
| `cmdvel_calls` | speed limits, direction of travel, linear ramp, termination, and that the control loop implements `MotionContract` | 20 k, 10 s |
| `nav_goals` | two navigations, a stop, the backstop and a moody action server: no answer leaves a goal that nobody asked to cancel (the code answers after five seconds without a confirmed end), nor does a clean-up that is cut short; what an answer says of the goal is true; a goal waited for alone stays in reach of a stop, a cancelled navigation ends; each navigation keeps `NavigationContract` | 461 k, 130 s |
| `tool_calls` | what reaches a back end is complete whatever clients send; the rate limit from both sides (a command that is denied for another reason takes its slot all the same, as in the code); listed tools and stops work with any registry | 12 k, 25 s |
| `reading_answers` | one subscription a topic; a pose from odometry has velocities no older than it beside it, and is not called one on the map unless the client named the map; a reported distance was measured in the object's direction; waiting for a transform is in vain | 389 k, 40 s |
| `discovery_follows` | the registry matches the snapshot, and in the end the graph | 646 k, 100 s |
| `discovery_no_robot` | **violated**: capabilities without a robot | |

### Bounds, and why they are enough

* `Commands`, `Requests`: three calls in `manager_overlap` allow a move and a navigation to
  run while a stop is handled, or a duplicate next to two commands: the shapes in which a
  table could name the wrong command need two commands that run and one that acts. The
  theorems say the same for any number. `MotionStack` has two calls, so two tasks in
  flight; a command is reused when it has ended, so a stop may meet the remains of
  earlier ones.
* `OneArriving` (`manager_in_flight`) keeps one command at a time between its submission and its
  back end. The loop starts tasks, and the ROS thread answers lookups, in the order they came,
  which `ExecutionManager` leaves open for the runs that must pass; the constraint keeps the
  trace of this run to what that order allows.
* `MaxQueue` (`MotionStack`) bounds the jobs and answers under way. Every coroutine has at most
  one (`OneJobEach`), so with two tasks two are enough but for jobs whose task is gone.
* `Robots` has one element, as `server.py` builds it.
* `MaxLin`, `MaxAng` of two units with one unit of acceleration a tick let the ramp lag behind
  the controller on both sides of zero; `HeadingErrors` and `Distances` reach past each limit
  and tolerance.
* `Navs`, `Stops`: two navigations and a stop, each used once. The shared handle is written by
  whoever is accepted and cleared by whoever leaves, so two navigations show every way one
  meets another; the theorems cover more. When all have ended nothing is left to do, hence
  `CHECK_DEADLOCK FALSE`. The constraint `InOrder` lets `n1` be dispatched first: the two
  differ in their names only, and the liveness property needs a constraint rather than a
  symmetry. It cuts off no suffix of a behaviour that it admits to begin with, since a
  navigation that was dispatched stays dispatched.
* `Reads` has one read and `MaxTime` is two with `TfTimeout` one: a read meets another one only
  through the ROS thread that a lookup holds, and the messages and transforms that come and
  go between its steps are what `now` tells apart. `MCScans` has invalid beams, beams out of
  range, ties and an obstacle behind; `MCWidths` has zero and less, which the schema of the
  tool lets through. `ReadingProofs` covers any number of reads at once.
* `MCClientCalls`: for each keyword of the schemas a call that keeps to it and one that does
  not, and each half of the semantic check. `MaxTime` with `Second` two covers one window and
  a half, so that bursts straddle two of them; the clock stopping there is the only deadlock,
  hence `CHECK_DEADLOCK FALSE`.
* `MaxChanges` (`Discovery`) is one change after an arbitrary initial graph; every later change
  starts from a graph that is itself among the initial ones. The server may be down for good
  (`CHECK_DEADLOCK FALSE`).
* Symmetry is used for `Requests`, `Calls` (those that take a place in the rate window) and `Sessions`, which no definition tells apart, and
  never in a run with a liveness property.

### Fairness

* The event loop: weak fairness of each task's next step and of a woken call's return. asyncio
  runs its ready queue in order and never drops an entry.
* `Reply` in `FairSpec` of `ExecutionManager`: what a task awaits answers in the end. This is an
  assumption about the other side; see the disagreement on unbounded waits below.
* `RunJob`, `Resume` in `StackFairSpec`: the ROS thread and the loop drain their queues.
* `Tick` is strongly fair because `MaxQueue`, which the code does not have, may disable it now
  and then; with a real queue it stays enabled. `Awake`: `asyncio.sleep` ends.
* `Collect` in `Discovery` is strongly fair: a poll fails only when a node leaves between two
  graph queries, which does not happen at every poll for ever.
* `Expire` in `CmdVelMotion`: the clock reaches the deadline.
* `NavStep` in `Nav2Navigation`: every lookup of `navigate()` has a timeout, and the action server
  answers a goal and a cancel request. Nothing says that a goal ends, that a deadline
  passes, or that the backstop strikes: a cancelled navigation ends without them.
* All of it rests on the ROS thread. An exception out of `spin_once` (`ros/executor_thread.py:59`)
  ends that thread, nothing starts it again, and every later crossing of the bridge waits
  for ever. The models have no such step.

## Disagreements between code and documents

Three are kept as runs that TLC must find violated (see `findings` in `PROJECT.json`):

1. `robot.stop` says it cancels any move or navigation in flight; `_handle_stop` cancels the
   one dispatched last, and an older move that still runs goes on. `StopCancelsLatest` is what
   does hold, and is proved. (A command whose pose is still looked up is not at stake: it was
   asked for before the stop's, on the same queue.)
2. `move()` must publish a zero Twist on every exit path; `CancelledError` and an exception of
   `publish` leave without one. `KeepsContract` holds of a contract that excepts such calls.
3. No robot present, no capabilities; the server's own endpoints count as a robot's.

Others, seen while the models were written and reproducible from them, are not kept as runs.

Execution:

* `docs/06-execution.md:28-30`, 41-44 and 72-73 and `README.md:101-104` give `TIMEOUT`, `CANCELLED` and
  `SAFETY_STOP` as states a command ends in. The manager sets none of them: a command that the
  backstop ends is `FAILED`, and so is one whose back end reports a timeout, a cancellation or
  a safety stop. `OutcomeAgrees` asks for a terminal state there and leaves open for which one.
* A task that ends by `CancelledError` leaves `execution_state` where it was, `EXECUTING` for
  instance, although the command is over: no handler on that path writes it. `OutcomeAgrees`
  says that the state is then none of a decided command, and cannot say more.

Motion:

* `docs/05-semantic-command-model.md:20` has no command run unbounded. The pose lookup and the
  two calls of a stop are awaited without a timeout (`execution/manager.py:148`, 236, 239): with
  a silent ROS thread such a command never ends.
* `docs/07-motion-architecture.md:76` has the command never step discontinuously; the angular one
  does when a sideways move stops turning and starts to drive, because `prev_angular_cmd` is
  reset while the robot still turns. `LinearRamp` holds.
* `docs/07-motion-architecture.md:78` has the publisher created once, at start.
  `_ensure_publisher` tests it before an await and sets it after, so a move and a stop that
  start together create two. Two writers on a topic are not ordered against each other: a
  move that was waiting for its publisher may publish once more after the stop's zero. That
  is the exception in `StopSilences` (`Found`).
* `docs/07-motion-architecture.md:80` puts the safety stops before the timeout; the code tests the
  deadline first.

Navigation:

* `cancel_all` "cancels any outstanding Nav2 goal" (`contracts/adapters.py`). The plugin has one
  handle: with two navigations the one accepted last holds it, and whichever leaves its loop
  first clears it. The other goal is then out of reach of `robot.stop`, though its token may
  still reach it. `SoleGoalHasHandle` and `StopReachesSole` say what holds, and are proved.
* A stop that comes before the goal is accepted finds no handle and answers; the goal is
  accepted afterwards. If it was dispatched last its token is cancelled, and its loop cancels the
  goal at its first pass. If `navigate()` was cut before the acceptance, nobody has the handle
  and the goal goes on by itself.
* The wait of five seconds for the result of a cancelled goal is longer than the two seconds that
  the backstop leaves (`nav2_plugin.py:251`, `execution/manager.py`): after a timeout the
  backstop may cut it. The handle then stays behind, as it does when `result_task` raises.
* A goal that succeeds or is aborted while it is being cancelled is reported as `CANCELLED` or
  `ACTION_TIMEOUT`, and so is one of which nothing was heard for five seconds. `ResultTruth`
  says of these answers that the goal was asked to be cancelled (or the server canceled it).
* A navigation that is cut in its poll loop, or whose `result_task` raises, leaves its goal going
  (`nav2_plugin.py:253`). `NoGoalForgotten` excepts it; that it stays in reach of `robot.stop` by
  the handle it leaves behind is `SoleGoalHasHandle`, for a goal no other one overlapped.

Policy:

* `docs/10-safety-and-trust.md:26` calls the rate sustained. The test admits the rate rounded
  up in each second (`RateBound`): at a rate of one half, one command a second.
* `docs/10-safety-and-trust.md:35` has the resulting position inside the geofence; with the pose
  unknown the check is skipped (`Predicted`).
* A tool that is listed may still answer `CAPABILITY_UNAVAILABLE`: navigation also needs a
  localization, which the list does not ask for (the exception in `ListedCanRun`).

Perception and discovery:

* A transform that is not there when it is asked for never comes in time: the lookup sleeps on
  the only thread that receives transforms (`WaitIsFutile`).
* `docs/09-perception-architecture.md:30` takes the age of data from the header's stamp;
  the code takes the time of receipt.
* `mcp/schemas.py:48` and `docs/04-mcp-surface.md:68` call the frame of `robot.get_state` the frame to
  express the pose in. The code transforms nothing: odometry goes by the name of the frame that
  was asked for (`robot_state.py:109`), so a client that names `map` may be given odometry as a
  pose on the map. `StateIsCoherent` excepts such clients.
* A pose from the transform tree bears the time of its lookup, not the transform's, and the
  velocities beside it are those of the last odometry, whatever its age, or missing.
* A subscription that fails is logged and its claim dropped, but nobody asks for it again
  (`subscriptions/manager.py:76`): the constructors ask once.
* A capability that is resolved to a topic other than the configured one is reported stale for
  ever: nothing subscribes to the topic the registry names.
* `/amcl_pose` is never subscribed to, so the branch that reads it does not run.
* The bearing of an object counts positive to the right, which its docstring
  (`perception/detection_geometry.py:21`) calls the scan's convention; a ROS scan counts to the
  left. `Bearing` has the code's signs, so an object on one side gets the distance of what
  stands on the other, and `DistanceIsMeasured` speaks of that bearing.
* `docs/03-capability-discovery.md:14` infers `range_sensing` from a publisher. The server's own
  subscription to the configured topic counts, is the exact match, and hides the one topic
  the robot publishes. In the same way the action client of the first navigation keeps
  `autonomous_navigation` confirmed after Nav2 has gone.

## Proofs

| Theorems | Argument |
|---|---|
| `ExecutionManagerProofs`: `TypeCorrect`, `TokensMatch`, `ActiveCorrect`, `NoLeakedFuture`, `NoLostCall`, `OutcomesAgree`, `StopCancels` | one inductive invariant: the properties need each other (a future is pending exactly while its task runs; only an owner's return unregisters it; a command is dispatched only when it is not running, so its token and entry are its own). `OutcomesAgree` is inductive beside it: behind it stands the exact `StateFollows` (the state that goes with each result, and none of a decided command before the result or after a `CancelledError`), and an owner that is told holds its own future. `StopCancels` is an action property that follows from `ActiveIsLatest` and `TokenWhileBacked` at the step of the stop |
| `MotionStackProofs`: `StackTypeCorrect`, `StackRefinesManager`, `StackStopCancels` | each step of the stack is a step of the manager or leaves its variables alone, so the manager's theorems hold of the stack |
| `MotionStackProofs`: `OneJobs`, `RestsAfterResult` | `JobsInv`: a command waits exactly while one job or one answer of its own is under way (`WaitsOnce`), and that job is the last of all it ever queued (`InOrder`). The second half is what makes the first inductive in the face of cancelled futures, whose jobs stay in the queue without a task: a job queued later is done later, so when the answer to a zero Twist is there, nothing of the command is left before or behind it. `OpsFit` (a command is dispatched to the back end its name asks for) comes from the manager's proofs |
| `MotionStackProofs`: `StopsSilence` | `SilenceInv`: what a stop found cancelled has no live token and holds no Twist in wait for its publisher (`Halted`), and has no moving Twist behind the stop's own zero (`Quiet`); once that zero is published, none at all. Lemmas say what appending to a queue and taking its head keep of each of these |
| `CmdVelMotionProofs`: `TypeCorrect`, `LimitsHold`, `DirectionHolds`, `RampHolds`, `Refinement` | lemmas bound the two clamps and keep their sign; the invariant ties `prevLin`, `prevAng` to the last Twist of the call and bounds both, since a limit that is not positive hands on the previous value. `Refinement` maps each step to a step of `MotionContract` or a stutter, aborted calls to `Abort` |
| `Nav2NavigationProofs`: `TypeCorrect`, `HandlesAreAccepted`, `NoGoalIsForgotten`, `SoleGoalsHaveHandles`, `ResultsAreTrue`, `StopsReachSoleGoals` | one inductive invariant that ties what a navigation waits for to the state of its goal (a result that arrived is of a goal that ended; behind a cancel request the goal is among the tried, and an outcome `cancelled` has its token cancelled) and says that nobody else is in its loop beside `alone`. `StopsReachSoleGoals` is an action property from it |
| `Nav2NavigationProofs`: `ContractKept` | with the invariant and `Tokens` (a command has a token while its `navigate()` runs, and the active one runs) each step is a step of the contract for one navigation or invisible to it: `NavSeen` for the steps of a navigation, `StopSeen` for those of a stop, which is where `HandleAccepted` is needed |
| `ToolCallsProofs`: `ImplementsPolicy`, `SurfaceRate`, `SurfaceDenial`, `SurfaceTyped`, `DispatchesComplete`, `ListedRuns` | every call is a step of `SafetyPolicy` or leaves it alone, so its theorems hold behind the tool surface; what validation lets through has the fields the factory indexes |
| `ReadingProofs`: `SubscribesOnce`, `WaitsInVain`, `StatesAreCoherent` | a claim stands for one task or one subscription; while a lookup holds the thread, the transforms stay as they were when it began; the odometry a pose was read from stays in the cache or gives way to a newer one, and the topic kept from before the lookup is the one it was read from (`Fresh`) |
| `ReadingProofs`: `ReadsAreTyped`, `DistancesAreMeasured`, `DeltaIsShortest` | `HoldInv`: beside the types, a detection with a distance still has the image and the scan it came from (`Detection`). The rest is about `correlate_distance` alone (`CorrelateMeasures`): a reading that has a beam has a least one, the choice of the last of equals ends at the sector of the nearest beam, and two beams at no distance from one bearing are in one sector, because angles that differ by whole turns have the same remainder. `DeltaIsShortest` states what `_angular_delta` computes: of all the differences that whole turns leave between two angles, the least |
| `SafetyPolicyProofs`: `TypeCorrect`, `RateHolds`, `DenialFair` | `HistoryOf`: what is admitted in the last second is in the history, and any window of one second ends at a call that found room in it; cardinalities by the library's theorems |
| `DiscoveryProofs`: `TypeCorrect`, `RegistryFollows` | the entries follow from the latest snapshot; the comparison loses nothing because it sees everything the rules read |

The assumptions are the named ones at the head of each module (types of the constants, a
positive rate, what the configuration's validators enforce, and that Python's `None` is no
identifier or string the models use). Each inductive invariant was first checked with TLC.

Every invariant and every action property of the passing runs has its theorem. Only
model-checked, not proved, are the liveness properties (`EveryCallReturns`, `InFlightDrains`,
`CancelledMoveEnds`, `MoveEnds`, `Settles`, `CancelledNavEnds`): fairness and ENABLED are out
of the prover's reach. The proofs speak of `Circle`, `Beams` and the other parameters of a scan as
any numbers, but of angles in whole parts of a turn: what floating point adds is in neither.

## Not modelled, and why

* Loading the configuration: its values are CONSTANTS, what its validators refuse is excluded by
  ASSUMEs, and nothing calls `reload()`.
* The message codec, serialization of results, and the choice of a QoS profile: stateless
  conversions of one message, whose outcome no modelled reader tells apart.
* `robot.get_capabilities`, the graph summary and the summary of the active command: each copies
  one snapshot, registry or table entry in one step.
* Logging, progress callbacks (no effect on a command), the stdio transport.
* Shutdown (`server.py:171`): it stops the parts one by one and leaves a robot that moves as it is;
  the process is gone with the models' state.
* Starting and stopping the ROS thread, and its death (see Fairness).
* A detector that raises makes the read raise; no detection follows. The server's own detector
  is a stub whose answer depends on the image only.
* `acceptance/live_client.py`: a script that drives a live robot as a client.
* Floating point: NaN in a distance compares false with every limit, and passes the bounds of a
  schema (`validation/schema_check.py:64`); the models have none.

## Plan

1. *Done*: `ExecutionManager`, `MotionStack`, `CmdVelMotion` with its contract, `SafetyPolicy`,
   `Discovery`, with their first theorems.
2. *Done*: `Nav2Navigation` and its theorems; `Perception` and `Reading`; `ToolCalls` on top of
   `SafetyPolicy`; `OutcomesAgree`.
3. *Done*: proofs of `OneJobEach`, `RestAfterResult` and `StopSilences` of the stack for any
   queue, and of `DistanceIsMeasured` and the types of `Reading`.
4. *Done*: `NavigationContract`, and the navigation back end shown to keep it.
5. An abstract specification of `submit()` - a command begins once and ends at most once, and each
   call is told the result of its own command, however many overlap - and the proof that
   `ExecutionManager` implements it.
6. The start and stop of the ROS thread and the shutdown, if their order comes to matter.
