----------------------------- MODULE MotionStack ------------------------------
(***************************************************************************)
(* The path a velocity takes: ExecutionManager, the loops of               *)
(* CmdVelMotionPlugin.move() and stop() that it runs, the work queue of    *)
(* RclpyExecutorThread, and the robot, which obeys the last Twist it got.  *)
(*                                                                         *)
(* Every task step of ExecutionManager happens here too, joined with what  *)
(* the motion plugin does in that step.  Why a control loop stops and how  *)
(* fast it drives is left open (CmdVelMotion has both): a Twist is "go" or *)
(* "zero".  Navigation answers whenever it likes.                          *)
(***************************************************************************)
EXTENDS ExecutionManager, Sequences

CONSTANT MaxQueue  \* bound on the jobs between the two threads

VARIABLES
  mv,        \* move()/stop() of c: off, at the top of the loop, publishing a
             \* Twist of that kind, or asleep until the next tick
  creating,  \* commands whose _ensure_publisher waits for create_publisher
  out,       \* what move() returns once its zero Twist is published
  publisher, \* self._publisher is not None
  work,      \* _work_queue: jobs for the ROS thread
  woken,     \* results posted to the event loop, in order
  wire,      \* the last Twist published and the command it belongs to
  stopSet,   \* history: commands cancelled when the STOP that runs as s began
  silenced   \* history: those of them for which the STOP's zero is published

queues == <<work, woken>>
history == <<stopSet, silenced>>
plugin == <<mv, creating, out, publisher>>
stackVars == <<vars, plugin, queues, wire, history>>

Twists == {"go", "zero"}
\* halts is history: what the STOP that queued the job found cancelled.
Job == [task: Commands \cup {NoCommand}, by: Commands, what: Twists \cup {"create"},
        halts: SUBSET Commands]
Answer == [task: Commands \cup {NoCommand}, ok: BOOLEAN]

\* The one type invariant of the module (that of ExecutionManager apart).
StackTypeOK ==
  /\ TypeOK
  /\ mv \in [Commands -> Twists \cup {"off", "tick", "sleep"}]
  /\ creating \in SUBSET Commands
  /\ out \in [Commands -> {"none", "succeeded", "failed"}]
  /\ publisher \in BOOLEAN
  /\ work \in Seq(Job) /\ woken \in Seq(Answer)
  /\ wire \in [by: Commands \cup {NoCommand}, what: Twists]
  /\ stopSet \in [Commands -> SUBSET Commands]
  /\ silenced \in SUBSET Commands

StackInit ==
  /\ Init
  /\ mv = [c \in Commands |-> "off"]
  /\ creating = {}
  /\ out = [c \in Commands |-> "none"]
  /\ publisher = FALSE
  /\ work = <<>> /\ woken = <<>>
  /\ wire = [by |-> NoCommand, what |-> "zero"]
  /\ stopSet = [c \in Commands |-> {}]
  /\ silenced = {}

-----------------------------------------------------------------------------
(* call_ros_from_asyncio: a job in the queue, and an awaiting task.        *)

NewJob(c, what, halts) == [task |-> c, by |-> c, what |-> what, halts |-> halts]

Enqueue(c, what, halts) ==
  /\ Len(work) + Len(woken) < MaxQueue
  /\ work' = Append(work, NewJob(c, what, halts))
  /\ UNCHANGED woken

\* Mutant: the future is set although its task is gone.
ForsakeNothing(c) == UNCHANGED <<work, woken>>

\* The awaiting task is gone: its future is cancelled and is not set any more,
\* but the job stays in the queue.
Forsake(c) ==
  /\ work' = [i \in DOMAIN work |->
       IF work[i].task = c THEN [work[i] EXCEPT !.task = NoCommand] ELSE work[i]]
  /\ woken' = [i \in DOMAIN woken |->
       IF woken[i].task = c THEN [woken[i] EXCEPT !.task = NoCommand] ELSE woken[i]]

\* _publish_twist up to its first await that suspends.
Publish(c, twist, halts) ==
  /\ mv' = [mv EXCEPT ![c] = twist]
  /\ IF publisher THEN Enqueue(c, twist, halts) /\ UNCHANGED creating
                  ELSE Enqueue(c, "create", {}) /\ creating' = creating \cup {c}
  /\ UNCHANGED publisher

\* The coroutine of c is over.
Leave(c) ==
  /\ mv' = [mv EXCEPT ![c] = "off"]
  /\ creating' = creating \ {c}
  /\ out' = [out EXCEPT ![c] = "none"]
  /\ UNCHANGED publisher

-----------------------------------------------------------------------------
(* Steps of move() and stop().                                             *)

\* What a STOP counts as cancelled: a move() that still waits for its publisher
\* has chosen a Twist it will publish before it looks at the token again.
Found(tokens) == {t \in Commands : tokens[t] = "cancelled" /\ t \notin creating}

\* A command is planned.  A MOVE that is dispatched is about to enter its
\* loop; a STOP runs motion_backend.stop() up to its first await.
Plan(c) ==
  /\ PoseResolved(c)
  /\ \/ /\ pc'[c] = "stopMotion"
        /\ stopSet' = [stopSet EXCEPT ![c] = Found(token')]
        /\ Publish(c, "zero", stopSet'[c])
        /\ UNCHANGED <<out, silenced>>
     \/ /\ pc'[c] = "backend"
        /\ mv' = [mv EXCEPT ![c] = IF Op[c] = "MOVE" THEN "tick" ELSE "off"]
        /\ stopSet' = [s \in Commands |-> stopSet[s] \ {c}]
        /\ silenced' = silenced \ {c}
        /\ work' = [i \in DOMAIN work |-> [work[i] EXCEPT !.halts = @ \ {c}]]
        /\ UNCHANGED <<creating, out, publisher, woken>>
     \/ /\ pc'[c] = "idle"
        /\ UNCHANGED <<plugin, queues, history>>
  /\ UNCHANGED wire

\* Mutant: the loop does not look at the token.
TickIgnoresToken(c) ==
  /\ mv[c] = "tick"
  /\ \/ /\ Publish(c, "zero", {})
        /\ \E x \in {"succeeded", "failed"} : out' = [out EXCEPT ![c] = x]
     \/ /\ Publish(c, "go", {})
        /\ UNCHANGED out
     \/ /\ mv' = [mv EXCEPT ![c] = "sleep"]
        /\ UNCHANGED <<creating, out, publisher, queues>>
  /\ UNCHANGED <<vars, wire, history>>

\* Mutant: a cancelled loop returns without a zero Twist.
TickForgetsZero(c) ==
  /\ mv[c] = "tick"
  /\ \/ /\ token[c] = "cancelled"
        /\ BackendReturn(c) /\ inFlight'[c] = "failed"
        /\ Leave(c)
        /\ UNCHANGED <<work, woken>>
     \/ /\ token[c] = "live"
        /\ Publish(c, "go", {})
        /\ UNCHANGED <<vars, out>>
  /\ UNCHANGED <<wire, history>>

\* One pass of the control loop, up to its first await.  A cancelled token
\* ends it first; else the deadline, stale odometry, an obstacle or reaching
\* the target end it; else it publishes, or only sleeps when it changes phase.
Tick(c) ==
  /\ mv[c] = "tick"
  /\ \/ /\ token[c] = "cancelled"
        /\ Publish(c, "zero", {})
        /\ out' = [out EXCEPT ![c] = "failed"]
     \/ /\ token[c] = "live"
        /\ Publish(c, "zero", {})
        /\ \E x \in {"succeeded", "failed"} : out' = [out EXCEPT ![c] = x]
     \/ /\ token[c] = "live"
        /\ Publish(c, "go", {})
        /\ UNCHANGED out
     \/ /\ token[c] = "live"
        /\ mv' = [mv EXCEPT ![c] = "sleep"]
        /\ UNCHANGED <<creating, out, publisher, queues>>
  /\ UNCHANGED <<vars, wire, history>>

\* asyncio.sleep(tick period) is over.
Awake(c) ==
  /\ mv[c] = "sleep"
  /\ mv' = [mv EXCEPT ![c] = "tick"]
  /\ UNCHANGED <<vars, creating, out, publisher, queues, wire, history>>

\* The coroutine of c goes on with the answer of the ROS thread: it publishes
\* with the new publisher, sleeps after a Twist, or returns after a zero one;
\* an exception ends it.
GoOn(c, ok) ==
  \/ /\ ok /\ c \in creating
     /\ publisher' = TRUE
     /\ creating' = creating \ {c}
     /\ work' = Append(work, NewJob(c, mv[c], stopSet[c]))
     /\ UNCHANGED <<vars, mv, out, stopSet>>
  \/ /\ ok /\ c \notin creating /\ mv[c] = "go"
     /\ mv' = [mv EXCEPT ![c] = "sleep"]
     /\ UNCHANGED <<vars, creating, out, publisher, work, stopSet>>
  \/ /\ ok /\ c \notin creating /\ mv[c] = "zero"
     /\ IF Op[c] = "STOP" THEN StopMotionReturn(c)
                          ELSE BackendReturn(c) /\ inFlight'[c] = out[c]
     /\ Leave(c)
     /\ stopSet' = [stopSet EXCEPT ![c] = {}]
     /\ UNCHANGED work
  \/ /\ ~ok
     /\ IF Op[c] = "STOP" THEN StopRaises(c)
                          ELSE BackendReturn(c) /\ inFlight'[c] = "INTERNAL_ERROR"
     /\ Leave(c)
     /\ stopSet' = [stopSet EXCEPT ![c] = {}]
     /\ UNCHANGED work

\* The event loop takes up the oldest answer.
Resume ==
  /\ woken # <<>>
  /\ woken' = Tail(woken)
  /\ LET a == Head(woken) IN
     IF a.task = NoCommand THEN UNCHANGED <<vars, plugin, work, stopSet>>
     ELSE /\ Op[a.task] = "STOP" => a.task \notin cancelReq
          /\ GoOn(a.task, a.ok)
  /\ UNCHANGED <<wire, silenced>>

\* The backstop or a cancelled request ends the task inside the back end or
\* inside stop(): CancelledError passes through move() without a Twist.
Abort(c) ==
  /\ BackstopTimeout(c) \/ TaskCancelled(c)
  /\ Leave(c)
  /\ Forsake(c)
  /\ stopSet' = [stopSet EXCEPT ![c] = {}]
  /\ UNCHANGED <<wire, silenced>>

-----------------------------------------------------------------------------
(* The ROS thread.                                                         *)

\* Mutant: creating the publisher publishes its default message.
RunJobPublishes ==
  /\ work # <<>>
  /\ work' = Tail(work)
  /\ LET j == Head(work) IN
     /\ woken' = Append(woken, [task |-> j.task, ok |-> TRUE])
     /\ wire' = [by |-> j.by, what |-> j.what]
     /\ silenced' = IF j.what = "zero" THEN silenced \cup j.halts ELSE silenced
  /\ UNCHANGED <<vars, plugin, stopSet>>

\* _drain_work_queue runs the oldest job and posts its result, or the
\* exception that the job raised before it did anything.
RunJob ==
  /\ work # <<>>
  /\ work' = Tail(work)
  /\ LET j == Head(work) IN
     \/ /\ woken' = Append(woken, [task |-> j.task, ok |-> FALSE])
        /\ UNCHANGED <<wire, silenced>>
     \/ /\ woken' = Append(woken, [task |-> j.task, ok |-> TRUE])
        /\ wire' = IF j.what = "create" THEN wire ELSE [by |-> j.by, what |-> j.what]
        /\ silenced' = IF j.what = "zero" THEN silenced \cup j.halts ELSE silenced
  /\ UNCHANGED <<vars, plugin, stopSet>>

-----------------------------------------------------------------------------
\* Steps of the manager that do not touch the motion plugin.
Elsewhere ==
  /\ \/ \E r \in Requests : Submit(r) \/ Return(r) \/ CancelRequest(r)
     \/ \E c \in Commands :
          \/ Cancel(c) \/ Start(c) \/ ReadReturn(c) \/ PoseRaises(c) \/ StopNavReturn(c)
          \/ pc[c] = "stopNav" /\ StopRaises(c)
          \/ Op[c] = "NAVIGATE" /\ BackendReturn(c)
  /\ UNCHANGED <<plugin, queues, wire, history>>

Coroutine(c) == Plan(c) \/ Tick(c) \/ Awake(c) \/ Abort(c)

StackNext == Elsewhere \/ RunJob \/ Resume \/ \E c \in Commands : Coroutine(c)

StackSpec == StackInit /\ [][StackNext]_stackVars

\* The event loop and the ROS thread keep running.  The real queue has no
\* bound: a tick that MaxQueue holds up now and then is not held up for ever.
StackFairSpec ==
  /\ StackSpec
  /\ WF_stackVars(RunJob) /\ WF_stackVars(Resume)
  /\ \A c \in Commands : WF_stackVars(TaskCancelled(c) /\ Abort(c))
  /\ \A c \in {m \in Commands : Op[m] = "MOVE"} :
       SF_stackVars(Tick(c)) /\ WF_stackVars(Awake(c))

-----------------------------------------------------------------------------
(* Properties.                                                             *)

\* Once the zero Twist of a robot.stop is published, no command that the STOP
\* found cancelled sets the robot in motion again: its control loop looks at
\* the token and queues the Twist in one step, and the queue is first in,
\* first out.  The one exception is a move() that waits for its publisher.
StopSilences ==
  [][\A c \in silenced : wire' # wire /\ wire'.by = c => wire'.what = "zero"]_stackVars

\* A MOVE that returned a result by itself has its zero Twist published, and
\* nothing of it is left in the queue that could move the robot afterwards.
RestAfterResult ==
  \A c \in Commands :
    Op[c] = "MOVE" /\ inFlight[c] \in {"succeeded", "failed"} =>
      /\ wire.by = c => wire.what = "zero"
      /\ \A i \in DOMAIN work : work[i].task # c

\* A MOVE has at most one job on its way and waits for exactly that one, so
\* its Twists reach the robot in the order its loop computed them.
OneJobEach ==
  \A c \in Commands :
    Cardinality({i \in DOMAIN work : work[i].task = c})
      + Cardinality({i \in DOMAIN woken : woken[i].task = c})
      = IF mv[c] \in Twists THEN 1 ELSE 0

\* A MOVE whose token is cancelled ends.
CancelledMoveEnds ==
  \A c \in Commands : Op[c] = "MOVE" /\ token[c] = "cancelled" ~> token[c] # "cancelled"

\* The motion plugin's docstring and contract: an explicit zero-velocity
\* publish on every exit path.  So once no move() runs and nothing is queued,
\* the robot is at rest.
RestWhenIdle ==
  (\A c \in Commands : pc[c] = "idle") /\ work = <<>> => wire.what = "zero"
=============================================================================
