--------------------------- MODULE MotionStackProofs ---------------------------
(***************************************************************************)
(* TLAPS proofs about the stack, for every set of commands and every       *)
(* interleaving of the event loop with the ROS thread: it implements the   *)
(* manager (joining the manager's steps with those of the motion plugin    *)
(* and the ROS thread adds no behaviour), a command waits for one job at a *)
(* time, a MOVE that returned by itself is at rest, and what a STOP found  *)
(* cancelled stays silent.                                                 *)
(***************************************************************************)
EXTENDS MotionStack, ExecutionManagerProofs, SequenceTheorems, FiniteSetTheorems

LEMMA CoroutineRefines ==
  ASSUME NEW c \in Commands, Coroutine(c)
  PROVE  [Next]_vars
<1>1. CASE Plan(c)
  BY <1>1 DEF Plan, Next, Reply
<1>2. CASE Tick(c) \/ Awake(c)
  BY <1>2 DEF Tick, Awake
<1>3. CASE Abort(c)
  BY <1>3 DEF Abort, Next, LoopStep
<1>4. QED
  BY <1>1, <1>2, <1>3 DEF Coroutine

LEMMA GoOnRefines ==
  ASSUME NEW c \in Commands, NEW ok, GoOn(c, ok)
  PROVE  [Next]_vars
<1>1. \/ UNCHANGED vars
      \/ StopMotionReturn(c) \/ BackendReturn(c) \/ StopRaises(c)
  BY DEF GoOn
<1>2. QED
  BY <1>1 DEF Next, Reply

-----------------------------------------------------------------------------
\* The types of the variables the stack adds, and that only a coroutine that
\* has a Twist to publish waits for the publisher.
StackTypes ==
  /\ mv \in [Commands -> Twists \cup {"off", "tick", "sleep"}]
  /\ creating \in SUBSET Commands
  /\ \A c \in creating : mv[c] \in Twists
  /\ out \in [Commands -> {"none", "succeeded", "failed"}]
  /\ publisher \in BOOLEAN
  /\ work \in Seq(Job) /\ woken \in Seq(Answer)
  /\ wire \in [by: Commands \cup {NoCommand}, what: Twists]
  /\ stopSet \in [Commands -> SUBSET Commands]
  /\ silenced \in SUBSET Commands

LEMMA StepRefines == StackTypes /\ [StackNext]_stackVars => [Next]_vars
<1> SUFFICES ASSUME StackTypes, [StackNext]_stackVars
             PROVE  [Next]_vars
  OBVIOUS
<1>1. CASE Elsewhere
  BY <1>1 DEF Elsewhere, Next, LoopStep, Reply
<1>2. CASE RunJob
  BY <1>2 DEF RunJob
<1>3. CASE Resume
  <2>1. CASE Head(woken).task = NoCommand
    BY <1>3, <2>1 DEF Resume
  <2>2. CASE Head(woken).task # NoCommand
    <3>1. Head(woken) \in Answer
      BY <1>3 DEF Resume, StackTypes
    <3>2. Head(woken).task \in Commands
      BY <2>2, <3>1 DEF Answer
    <3>3. GoOn(Head(woken).task, Head(woken).ok)
      BY <1>3, <2>2 DEF Resume
    <3>4. QED
      BY <3>2, <3>3, GoOnRefines
  <2>3. QED
    BY <2>1, <2>2
<1>4. ASSUME NEW c \in Commands, Coroutine(c)
      PROVE  [Next]_vars
  BY <1>4, CoroutineRefines
<1>5. CASE UNCHANGED stackVars
  BY <1>5 DEF stackVars
<1>6. QED
  BY <1>1, <1>2, <1>3, <1>4, <1>5 DEF StackNext

-----------------------------------------------------------------------------
(* The types of the stack.                                                 *)

LEMMA JobType ==
  ASSUME NEW c \in Commands, NEW what \in Twists \cup {"create"},
         NEW halts \in SUBSET Commands
  PROVE  NewJob(c, what, halts) \in Job
BY DEF NewJob, Job

LEMMA MapSeq ==
  ASSUME NEW S, NEW q \in Seq(S), NEW f \in [DOMAIN q -> S]
  PROVE  f \in Seq(S)
<1>1. Len(q) \in Nat /\ DOMAIN q = 1 .. Len(q)
  BY LenProperties
<1>2. QED
  BY <1>1

LEMMA PublishType ==
  ASSUME StackTypes, NEW c \in Commands, NEW twist \in Twists,
         NEW halts \in SUBSET Commands, Publish(c, twist, halts)
  PROVE  /\ mv' = [mv EXCEPT ![c] = twist]
         /\ creating' \in {creating, creating \cup {c}}
         /\ work' \in Seq(Job) /\ woken' = woken /\ publisher' = publisher
<1>1. NewJob(c, twist, halts) \in Job /\ NewJob(c, "create", {}) \in Job
  BY JobType
<1>2. work \in Seq(Job)
  BY DEF StackTypes
<1>3. \/ work' = Append(work, NewJob(c, twist, halts))
      \/ work' = Append(work, NewJob(c, "create", {}))
  BY DEF Publish, Enqueue
<1>4. work' \in Seq(Job)
  BY <1>1, <1>2, <1>3, AppendProperties
<1>5. QED
  BY <1>4 DEF Publish, Enqueue

LEMMA ForsakeType ==
  ASSUME StackTypes, NEW c \in Commands, Forsake(c)
  PROVE  work' \in Seq(Job) /\ woken' \in Seq(Answer)
<1>1. ASSUME NEW i \in DOMAIN work
      PROVE  work[i] \in Job /\ [work[i] EXCEPT !.task = NoCommand] \in Job
  <2>1. work[i] \in Job
    BY LenProperties, ElementOfSeq DEF StackTypes
  <2>2. QED
    BY <2>1 DEF Job
<1>2. ASSUME NEW i \in DOMAIN woken
      PROVE  woken[i] \in Answer /\ [woken[i] EXCEPT !.task = NoCommand] \in Answer
  <2>1. woken[i] \in Answer
    BY LenProperties, ElementOfSeq DEF StackTypes
  <2>2. QED
    BY <2>1 DEF Answer
<1>3. work' \in [DOMAIN work -> Job]
  BY <1>1 DEF Forsake
<1>4. woken' \in [DOMAIN woken -> Answer]
  BY <1>2 DEF Forsake
<1>5. QED
  BY <1>3, <1>4, MapSeq DEF StackTypes

-----------------------------------------------------------------------------
\* Only a MOVE that a back end runs, or a STOP in its first half, is inside the
\* motion plugin, and only one with a Twist to publish waits for the publisher.
InPlugin(c) == pc[c] = "stopMotion" \/ (pc[c] = "backend" /\ Op[c] = "MOVE")

PluginInv == /\ \A c \in Commands : mv[c] # "off" => InPlugin(c)
             /\ \A c \in creating : mv[c] \in Twists

StackInv == IInv /\ StackTypes /\ PluginInv

LEMMA PlanStep ==
  ASSUME StackInv, NEW c \in Commands, Plan(c)
  PROVE  StackTypes' /\ PluginInv'
<1>1. pc[c] = "pose" /\ pc' \in [Commands -> Waits] /\ \A d \in Commands \ {c} : pc'[d] = pc[d]
  <2>1. TaskStep(c) /\ pc[c] = "pose"
    BY DEF Plan, PoseResolved, TaskStep, Reply, Runs
  <2>2. QED
    BY <2>1, TaskShape DEF Finish, Goto, StackInv, IInv, TypeOK, Waits
<1>2. mv[c] = "off" /\ c \notin creating
  BY <1>1 DEF StackInv, PluginInv, InPlugin, Twists
<1>3. CASE /\ pc'[c] = "stopMotion"
           /\ stopSet' = [stopSet EXCEPT ![c] = Found(token')]
           /\ Publish(c, "zero", stopSet'[c])
           /\ UNCHANGED <<out, silenced, wire>>
  <2>1. Found(token') \in SUBSET Commands
    BY DEF Found
  <2>2. stopSet' \in [Commands -> SUBSET Commands] /\ stopSet'[c] \in SUBSET Commands
    BY <1>3, <2>1 DEF StackInv, StackTypes
  <2>3. /\ mv' = [mv EXCEPT ![c] = "zero"]
        /\ creating' \in {creating, creating \cup {c}}
        /\ work' \in Seq(Job) /\ woken' = woken /\ publisher' = publisher
    BY <1>3, <2>2, PublishType DEF Twists, StackInv
  <2>4. StackTypes'
    BY <1>3, <2>2, <2>3 DEF StackInv, StackTypes, Twists
  <2>5. PluginInv'
    BY <1>1, <1>3, <2>3 DEF StackInv, StackTypes, PluginInv, InPlugin, Twists
  <2>6. QED
    BY <2>4, <2>5
<1>4. CASE /\ pc'[c] = "backend"
           /\ mv' = [mv EXCEPT ![c] = IF Op[c] = "MOVE" THEN "tick" ELSE "off"]
           /\ stopSet' = [s \in Commands |-> stopSet[s] \ {c}]
           /\ silenced' = silenced \ {c}
           /\ work' = [i \in DOMAIN work |-> [work[i] EXCEPT !.halts = @ \ {c}]]
           /\ UNCHANGED <<creating, out, publisher, woken, wire>>
  <2>1. ASSUME NEW i \in DOMAIN work
        PROVE  [work[i] EXCEPT !.halts = @ \ {c}] \in Job
    <3>1. work[i] \in Job
      BY LenProperties, ElementOfSeq DEF StackInv, StackTypes
    <3>2. QED
      BY <3>1 DEF Job
  <2>2. work' \in [DOMAIN work -> Job]
    BY <1>4, <2>1
  <2>3. work' \in Seq(Job)
    BY <2>2, MapSeq DEF StackInv, StackTypes
  <2>4. stopSet' \in [Commands -> SUBSET Commands] /\ silenced' \in SUBSET Commands
    BY <1>4 DEF StackInv, StackTypes
  <2>5. mv' \in [Commands -> Twists \cup {"off", "tick", "sleep"}]
    BY <1>4 DEF StackInv, StackTypes
  <2>6. \A d \in creating' : mv'[d] \in Twists
    BY <1>2, <1>4 DEF StackInv, StackTypes
  <2>7. StackTypes'
    BY <1>4, <2>3, <2>4, <2>5, <2>6 DEF StackInv, StackTypes
  <2>8. PluginInv'
    BY <1>1, <1>2, <1>4 DEF StackInv, StackTypes, PluginInv, InPlugin
  <2>9. QED
    BY <2>7, <2>8
<1>5. CASE pc'[c] = "idle" /\ UNCHANGED <<plugin, queues, history, wire>>
  <2>1. StackTypes'
    BY <1>5 DEF plugin, queues, history, StackInv, StackTypes
  <2>2. PluginInv'
    BY <1>1, <1>2, <1>5 DEF plugin, StackInv, PluginInv, InPlugin
  <2>3. QED
    BY <2>1, <2>2
<1>6. QED
  BY <1>3, <1>4, <1>5 DEF Plan

LEMMA TickStackStep ==
  ASSUME StackInv, NEW c \in Commands, Tick(c)
  PROVE  StackTypes' /\ PluginInv'
<1>1. /\ mv[c] = "tick" /\ UNCHANGED <<pc, wire, stopSet, silenced>>
      /\ out' \in [Commands -> {"none", "succeeded", "failed"}]
  BY DEF Tick, vars, history, StackInv, StackTypes
<1>2. CASE \E twist \in Twists : Publish(c, twist, {})
  <2>1. /\ creating' \in {creating, creating \cup {c}}
        /\ work' \in Seq(Job) /\ woken' = woken /\ publisher' = publisher
        /\ \E twist \in Twists : mv' = [mv EXCEPT ![c] = twist]
    BY <1>2, PublishType DEF StackInv
  <2>2. StackTypes'
    BY <1>1, <2>1 DEF StackInv, StackTypes
  <2>3. PluginInv'
    BY <1>1, <2>1 DEF StackInv, StackTypes, PluginInv, InPlugin, Twists
  <2>4. QED
    BY <2>2, <2>3
<1>3. CASE mv' = [mv EXCEPT ![c] = "sleep"] /\ UNCHANGED <<creating, out, publisher, queues>>
  <2>1. c \notin creating
    BY <1>1 DEF StackInv, PluginInv, Twists
  <2>2. StackTypes'
    BY <1>1, <1>3, <2>1 DEF queues, StackInv, StackTypes
  <2>3. PluginInv'
    BY <1>1, <1>3, <2>1 DEF StackInv, StackTypes, PluginInv, InPlugin
  <2>4. QED
    BY <2>2, <2>3
<1>4. QED
  BY <1>2, <1>3 DEF Tick, Twists

\* The manager's step ends the task of c or leaves its plugin call.
LEMMA LeaveStep ==
  ASSUME StackInv, NEW c \in Commands, Leave(c),
         \A d \in Commands \ {c} : pc'[d] = pc[d]
  PROVE  /\ mv' \in [Commands -> Twists \cup {"off", "tick", "sleep"}]
         /\ creating' \in SUBSET Commands
         /\ \A d \in creating' : mv'[d] \in Twists
         /\ out' \in [Commands -> {"none", "succeeded", "failed"}]
         /\ publisher' = publisher
         /\ PluginInv'
BY DEF Leave, StackInv, StackTypes, PluginInv, InPlugin

LEMMA AbortStep ==
  ASSUME StackInv, NEW c \in Commands, Abort(c)
  PROVE  StackTypes' /\ PluginInv'
<1>1. \A d \in Commands \ {c} : pc'[d] = pc[d]
  <2>1. TaskStep(c)
    BY DEF Abort, TaskStep, LoopStep
  <2>2. QED
    BY <2>1, TaskShape DEF Finish, Goto, StackInv, IInv, TypeOK
<1>2. /\ mv' \in [Commands -> Twists \cup {"off", "tick", "sleep"}]
      /\ creating' \in SUBSET Commands
      /\ \A d \in creating' : mv'[d] \in Twists
      /\ out' \in [Commands -> {"none", "succeeded", "failed"}]
      /\ publisher' = publisher
      /\ PluginInv'
  BY <1>1, LeaveStep DEF Abort
<1>3. work' \in Seq(Job) /\ woken' \in Seq(Answer)
  BY ForsakeType DEF Abort, StackInv
<1>4. /\ stopSet' \in [Commands -> SUBSET Commands]
      /\ wire' = wire /\ silenced' = silenced
  BY DEF Abort, StackInv, StackTypes
<1>5. QED
  BY <1>2, <1>3, <1>4 DEF StackInv, StackTypes

LEMMA RunJobStep ==
  ASSUME StackInv, RunJob
  PROVE  StackTypes' /\ PluginInv'
<1> DEFINE j == Head(work)
<1>1. j \in Job /\ work' \in Seq(Job)
  BY HeadTailProperties DEF RunJob, StackInv, StackTypes
<1>2. ASSUME NEW ok \in BOOLEAN, woken' = Append(woken, [task |-> j.task, ok |-> ok])
      PROVE  woken' \in Seq(Answer)
  <2>1. [task |-> j.task, ok |-> ok] \in Answer
    BY <1>1 DEF Job, Answer
  <2>2. woken \in Seq(Answer)
    BY DEF StackInv, StackTypes
  <2>3. QED
    BY <1>2, <2>1, <2>2, AppendProperties
<1>3. woken' \in Seq(Answer)
  BY <1>2 DEF RunJob
<1>4. silenced' \in SUBSET Commands
  BY <1>1 DEF RunJob, Job, StackInv, StackTypes
<1>5. wire' \in [by: Commands \cup {NoCommand}, what: Twists]
  <2>1. j.what # "create" => [by |-> j.by, what |-> j.what] \in [by: Commands \cup {NoCommand}, what: Twists]
    BY <1>1 DEF Job
  <2>2. wire' = wire \/ (j.what # "create" /\ wire' = [by |-> j.by, what |-> j.what])
    BY DEF RunJob
  <2>3. QED
    BY <2>1, <2>2 DEF StackInv, StackTypes
<1>6. UNCHANGED <<pc, mv, creating, out, publisher, stopSet>>
  BY DEF RunJob, vars, plugin
<1>7. QED
  BY <1>1, <1>3, <1>4, <1>5, <1>6 DEF StackInv, StackTypes, PluginInv, InPlugin

LEMMA GoOnStep ==
  ASSUME StackInv, NEW c \in Commands, NEW ok, GoOn(c, ok),
         woken' \in Seq(Answer), UNCHANGED <<wire, silenced>>
  PROVE  StackTypes' /\ PluginInv'
<1>1. CASE /\ c \in creating
           /\ publisher' = TRUE
           /\ creating' = creating \ {c}
           /\ work' = Append(work, NewJob(c, mv[c], stopSet[c]))
           /\ UNCHANGED <<vars, mv, out, stopSet>>
  <2>1. mv[c] \in Twists /\ stopSet[c] \in SUBSET Commands
    BY <1>1 DEF StackInv, PluginInv, StackTypes
  <2>2. NewJob(c, mv[c], stopSet[c]) \in Job
    BY <2>1, JobType
  <2>3. work' \in Seq(Job)
    BY <1>1, <2>2, AppendProperties DEF StackInv, StackTypes
  <2>4. StackTypes'
    BY <1>1, <2>3 DEF StackInv, StackTypes
  <2>5. PluginInv'
    BY <1>1 DEF vars, StackInv, PluginInv, InPlugin
  <2>6. QED
    BY <2>4, <2>5
<1>2. CASE /\ c \notin creating /\ mv[c] = "go"
           /\ mv' = [mv EXCEPT ![c] = "sleep"]
           /\ UNCHANGED <<vars, creating, out, publisher, work, stopSet>>
  <2>1. StackTypes'
    BY <1>2 DEF StackInv, StackTypes
  <2>2. PluginInv'
    BY <1>2 DEF vars, StackInv, StackTypes, PluginInv, InPlugin
  <2>3. QED
    BY <2>1, <2>2
<1>3. CASE /\ StopMotionReturn(c) \/ BackendReturn(c) \/ StopRaises(c)
           /\ Leave(c)
           /\ stopSet' = [stopSet EXCEPT ![c] = {}]
           /\ UNCHANGED work
  <2>1. \A d \in Commands \ {c} : pc'[d] = pc[d]
    BY <1>3, TaskShape DEF TaskStep, Reply, Finish, Goto, StackInv, IInv, TypeOK
  <2>2. /\ mv' \in [Commands -> Twists \cup {"off", "tick", "sleep"}]
        /\ creating' \in SUBSET Commands
        /\ \A d \in creating' : mv'[d] \in Twists
        /\ out' \in [Commands -> {"none", "succeeded", "failed"}]
        /\ publisher' = publisher
        /\ PluginInv'
    BY <1>3, <2>1, LeaveStep
  <2>3. stopSet' \in [Commands -> SUBSET Commands]
    BY <1>3 DEF StackInv, StackTypes
  <2>4. QED
    BY <1>3, <2>2, <2>3 DEF StackInv, StackTypes
<1>4. QED
  BY <1>1, <1>2, <1>3 DEF GoOn

LEMMA ResumeStep ==
  ASSUME StackInv, Resume
  PROVE  StackTypes' /\ PluginInv'
<1>1. Head(woken) \in Answer /\ woken' \in Seq(Answer)
  BY HeadTailProperties DEF Resume, StackInv, StackTypes
<1>2. UNCHANGED <<wire, silenced>>
  BY DEF Resume
<1>3. CASE Head(woken).task = NoCommand
  <2>1. UNCHANGED <<vars, plugin, work, stopSet>>
    BY <1>3 DEF Resume
  <2>2. StackTypes'
    BY <1>1, <1>2, <2>1 DEF plugin, StackInv, StackTypes
  <2>3. PluginInv'
    BY <2>1 DEF vars, plugin, StackInv, PluginInv, InPlugin
  <2>4. QED
    BY <2>2, <2>3
<1>4. CASE Head(woken).task # NoCommand
  <2>1. Head(woken).task \in Commands
    BY <1>1, <1>4 DEF Answer
  <2>2. GoOn(Head(woken).task, Head(woken).ok)
    BY <1>4 DEF Resume
  <2>3. QED
    BY <1>1, <1>2, <2>1, <2>2, GoOnStep
<1>5. QED
  BY <1>3, <1>4

\* The steps of the manager elsewhere do not take a command out of the plugin.
LEMMA ElsewherePlugin ==
  ASSUME StackInv, Elsewhere, NEW d \in Commands, InPlugin(d)
  PROVE  pc'[d] = pc[d]
<1>1. CASE \E r \in Requests : Submit(r) \/ Return(r) \/ CancelRequest(r)
  BY <1>1 DEF Submit, SubmitNew, SubmitDuplicate, Return, CancelRequest, InPlugin,
       StackInv, IInv, TypeOK, NoLostWakeup
<1>2. ASSUME NEW c \in Commands, Cancel(c)
      PROVE  pc'[d] = pc[d]
  BY <1>2 DEF Cancel
<1>3. ASSUME NEW c \in Commands,
             \/ Start(c) \/ ReadReturn(c) \/ PoseRaises(c) \/ StopNavReturn(c)
             \/ pc[c] = "stopNav" /\ StopRaises(c)
             \/ Op[c] = "NAVIGATE" /\ BackendReturn(c)
      PROVE  pc'[d] = pc[d]
  <2>1. c # d
    BY <1>3 DEF Start, ReadReturn, PoseRaises, StopNavReturn, BackendReturn, Runs, InPlugin
  <2>2. TaskStep(c)
    BY <1>3 DEF TaskStep, LoopStep, Reply
  <2>3. QED
    BY <2>1, <2>2, TaskShape DEF Finish, Goto, StackInv, IInv, TypeOK
<1>4. QED
  BY <1>1, <1>2, <1>3 DEF Elsewhere

LEMMA ElsewhereStep ==
  ASSUME StackInv, Elsewhere
  PROVE  StackTypes' /\ PluginInv'
<1>1. UNCHANGED <<plugin, queues, wire, history>>
  BY DEF Elsewhere
<1>2. StackTypes'
  BY <1>1 DEF plugin, queues, history, StackInv, StackTypes
<1>3. PluginInv'
  BY <1>1, ElsewherePlugin DEF plugin, StackInv, PluginInv, InPlugin
<1>4. QED
  BY <1>2, <1>3

LEMMA StackStepInv == StackInv /\ [StackNext]_stackVars => StackInv'
<1> SUFFICES ASSUME StackInv, [StackNext]_stackVars PROVE StackInv'
  OBVIOUS
<1>1. IInv'
  BY StepRefines, StepInv DEF StackInv
<1>2. StackTypes' /\ PluginInv'
  <2>1. CASE Elsewhere
    BY <2>1, ElsewhereStep
  <2>2. CASE RunJob
    BY <2>2, RunJobStep
  <2>3. CASE Resume
    BY <2>3, ResumeStep
  <2>4. ASSUME NEW c \in Commands, Awake(c)
        PROVE  StackTypes' /\ PluginInv'
    <3>1. mv[c] = "sleep" /\ c \notin creating
      BY <2>4 DEF Awake, StackInv, PluginInv, Twists
    <3>2. StackTypes'
      BY <2>4, <3>1 DEF Awake, queues, history, StackInv, StackTypes
    <3>3. PluginInv'
      BY <2>4, <3>1 DEF Awake, vars, StackInv, StackTypes, PluginInv, InPlugin
    <3>4. QED
      BY <3>2, <3>3
  <2>5. ASSUME NEW c \in Commands, Plan(c) \/ Tick(c) \/ Abort(c)
        PROVE  StackTypes' /\ PluginInv'
    BY <2>5, PlanStep, TickStackStep, AbortStep
  <2>6. CASE UNCHANGED stackVars
    BY <2>6 DEF stackVars, vars, plugin, queues, history, StackInv, StackTypes, PluginInv,
         InPlugin
  <2>7. QED
    BY <2>1, <2>2, <2>3, <2>4, <2>5, <2>6 DEF StackNext, Coroutine
<1>3. QED
  BY <1>1, <1>2 DEF StackInv

LEMMA StackInitInv == StackInit => StackInv
<1> SUFFICES ASSUME StackInit PROVE StackInv
  OBVIOUS
<1>1. IInv
  BY InitInv DEF StackInit
<1>2. work \in Seq(Job) /\ woken \in Seq(Answer)
  BY DEF StackInit
<1>3. wire \in [by: Commands \cup {NoCommand}, what: Twists]
  BY DEF StackInit, Twists
<1>4. StackTypes /\ PluginInv
  BY <1>2, <1>3 DEF StackInit, StackTypes, PluginInv
<1>5. QED
  BY <1>1, <1>4 DEF StackInv

LEMMA StackInvariance == StackSpec => []StackInv
BY StackInitInv, StackStepInv, PTL DEF StackSpec

\* Every variable of the stack keeps its type.
THEOREM StackTypeCorrect == StackSpec => []StackTypeOK
<1>1. StackInv => StackTypeOK
  BY DEF StackInv, IInv, StackTypes, StackTypeOK
<1>2. QED
  BY <1>1, StackInvariance, PTL

\* The stack implements the manager: every step of it is a step of
\* ExecutionManager or leaves the manager's variables alone.
THEOREM StackRefinesManager == StackSpec => Spec
<1>1. StackInv => StackTypes
  BY DEF StackInv
<1>2. StackInit => Init
  BY DEF StackInit
<1>3. QED
  BY <1>1, <1>2, StackInvariance, StepRefines, PTL DEF StackSpec, Spec

\* So in the stack, too, a STOP cancels the command dispatched last if it runs.
THEOREM StackStopCancels == StackSpec => StopCancelsLatest
BY StackRefinesManager, StopCancels, PTL
-----------------------------------------------------------------------------
(* The queues, seen from one command: whether an entry waits for it, where *)
(* its jobs lie, and what appending at the end and taking the head do.     *)

Has(q, c) == \E i \in DOMAIN q : q[i].task = c
Single(q, c) == \A i, j \in DOMAIN q : q[i].task = c /\ q[j].task = c => i = j
Gone(q, c) == \A i \in DOMAIN q : q[i].by # c
Last(q, c) == \A i, j \in DOMAIN q : q[i].task = c /\ q[j].by = c => j <= i
Quiet(q, c, n) == \A i \in DOMAIN q : i > n /\ q[i].by = c => q[i].what # "go"
Owned(q) == \A i \in DOMAIN q : q[i].task \in {q[i].by, NoCommand}

LEMMA AppendElements ==
  ASSUME NEW S, NEW q \in Seq(S), NEW e \in S
  PROVE  /\ Len(q) \in Nat /\ DOMAIN q = 1 .. Len(q)
         /\ DOMAIN Append(q, e) = 1 .. Len(q) + 1
         /\ \A i \in DOMAIN q : Append(q, e)[i] = q[i]
         /\ Append(q, e)[Len(q) + 1] = e
<1>1. Len(q) \in Nat /\ DOMAIN q = 1 .. Len(q)
  BY LenProperties
<1>2. /\ Append(q, e) \in Seq(S) /\ Len(Append(q, e)) = Len(q) + 1
      /\ \A i \in 1 .. Len(q) : Append(q, e)[i] = q[i]
      /\ Append(q, e)[Len(q) + 1] = e
  BY AppendProperties
<1>3. DOMAIN Append(q, e) = 1 .. Len(Append(q, e))
  BY <1>2, LenProperties
<1>4. QED
  BY <1>1, <1>2, <1>3

LEMMA TailElements ==
  ASSUME NEW S, NEW q \in Seq(S), q # <<>>
  PROVE  /\ Len(q) \in Nat \ {0} /\ DOMAIN q = 1 .. Len(q)
         /\ DOMAIN Tail(q) = 1 .. Len(q) - 1
         /\ \A i \in DOMAIN Tail(q) : Tail(q)[i] = q[i + 1]
         /\ Head(q) = q[1]
<1>1. Len(q) \in Nat \ {0} /\ DOMAIN q = 1 .. Len(q)
  BY LenProperties, EmptySeq
<1>2. /\ Tail(q) \in Seq(S) /\ Len(Tail(q)) = Len(q) - 1
      /\ \A i \in 1 .. Len(Tail(q)) : Tail(q)[i] = q[i + 1]
  BY HeadTailProperties
<1>3. DOMAIN Tail(q) = 1 .. Len(Tail(q))
  BY <1>2, LenProperties
<1>4. Head(q) = q[1]
  OBVIOUS
<1>5. QED
  BY <1>1, <1>2, <1>3, <1>4

LEMMA AppendKeeps ==
  ASSUME NEW S, NEW q \in Seq(S), NEW e \in S, NEW c
  PROVE  /\ Has(Append(q, e), c) <=> Has(q, c) \/ e.task = c
         /\ Single(q, c) /\ ~(Has(q, c) /\ e.task = c) => Single(Append(q, e), c)
<1> DEFINE n == Len(q)
<1> DEFINE r == Append(q, e)
<1>1. /\ n \in Nat /\ DOMAIN q = 1 .. n /\ DOMAIN r = 1 .. n + 1
      /\ \A i \in DOMAIN q : r[i] = q[i]
      /\ r[n + 1] = e
  BY AppendElements
<1>2. \A i \in DOMAIN r : i \in DOMAIN q \/ i = n + 1
  BY <1>1
<1>3. DOMAIN q \subseteq DOMAIN r /\ n + 1 \in DOMAIN r
  BY <1>1
<1> HIDE DEF n, r
<1>4. Has(r, c) <=> Has(q, c) \/ e.task = c
  BY <1>1, <1>2, <1>3 DEF Has
<1>5. Single(q, c) /\ ~(Has(q, c) /\ e.task = c) => Single(r, c)
  BY <1>1, <1>2, <1>3 DEF Has, Single
<1>6. QED
  BY <1>4, <1>5 DEF r

LEMMA TailKeeps ==
  ASSUME NEW S, NEW q \in Seq(S), q # <<>>, NEW c, Single(q, c)
  PROVE  /\ Has(Tail(q), c) <=> Has(q, c) /\ Head(q).task # c
         /\ Single(Tail(q), c)
<1> DEFINE n == Len(q)
<1> DEFINE r == Tail(q)
<1>1. /\ n \in Nat \ {0} /\ DOMAIN q = 1 .. n /\ DOMAIN r = 1 .. n - 1
      /\ \A i \in DOMAIN r : r[i] = q[i + 1]
      /\ Head(q) = q[1]
  BY TailElements
<1>2. \A i \in DOMAIN r : i + 1 \in DOMAIN q /\ i + 1 # 1
  BY <1>1
<1>3. \A i \in DOMAIN q : i = 1 \/ (i - 1 \in DOMAIN r /\ r[i - 1] = q[i])
  BY <1>1
<1>4. 1 \in DOMAIN q /\ \A i, j \in DOMAIN r : i + 1 = j + 1 => i = j
  BY <1>1
<1> HIDE DEF n, r
<1>5. Has(r, c) => Has(q, c) /\ Head(q).task # c
  BY <1>1, <1>2, <1>4 DEF Has, Single
<1>6. Has(q, c) /\ Head(q).task # c => Has(r, c)
  BY <1>1, <1>3 DEF Has
<1>7. Single(r, c)
  BY <1>1, <1>2, <1>4 DEF Single
<1>8. QED
  BY <1>5, <1>6, <1>7 DEF r

\* A new job is the last one; nothing else about the older jobs changes.
LEMMA AppendJob ==
  ASSUME NEW S, NEW q \in Seq(S), NEW e \in S, NEW c
  PROVE  /\ Gone(q, c) /\ e.by # c => Gone(Append(q, e), c)
         /\ Last(q, c) /\ ~Has(q, c) => Last(Append(q, e), c)
         /\ Last(q, c) /\ e.by # c /\ e.task # c => Last(Append(q, e), c)
         /\ \A n \in Nat : Quiet(q, c, n) /\ (e.by = c => e.what # "go")
                           => Quiet(Append(q, e), c, n)
         /\ Quiet(Append(q, e), c, Len(q) + 1)
         /\ Owned(q) /\ e.task \in {e.by, NoCommand} => Owned(Append(q, e))
<1> DEFINE l == Len(q)
<1> DEFINE r == Append(q, e)
<1>1. /\ l \in Nat /\ DOMAIN q = 1 .. l /\ DOMAIN r = 1 .. l + 1
      /\ \A i \in DOMAIN q : r[i] = q[i]
      /\ r[l + 1] = e
  BY AppendElements
<1>2. \A i \in DOMAIN r : /\ i \in DOMAIN q \/ i = l + 1
                          /\ i <= l + 1 /\ ~(i > l + 1)
  BY <1>1
<1> HIDE DEF l, r
<1>3. Gone(q, c) /\ e.by # c => Gone(r, c)
  BY <1>1, <1>2 DEF Gone
<1>4. Last(q, c) /\ ~Has(q, c) => Last(r, c)
  BY <1>1, <1>2 DEF Last, Has
<1>5. Last(q, c) /\ e.by # c /\ e.task # c => Last(r, c)
  BY <1>1, <1>2 DEF Last
<1>6. \A n \in Nat : Quiet(q, c, n) /\ (e.by = c => e.what # "go") => Quiet(r, c, n)
  BY <1>1, <1>2 DEF Quiet
<1>7. Quiet(r, c, l + 1)
  BY <1>2 DEF Quiet
<1>8. Owned(q) /\ e.task \in {e.by, NoCommand} => Owned(r)
  BY <1>1, <1>2 DEF Owned
<1>9. QED
  BY <1>3, <1>4, <1>5, <1>6, <1>7, <1>8 DEF r, l

\* The oldest job goes; once the job a command waits for is gone, nothing of
\* the command is left.
LEMMA TailJob ==
  ASSUME NEW S, NEW q \in Seq(S), q # <<>>, NEW c
  PROVE  /\ Gone(q, c) => Gone(Tail(q), c) /\ Head(q).by # c
         /\ Last(q, c) => Last(Tail(q), c)
         /\ Last(q, c) /\ Head(q).task = c => Gone(Tail(q), c)
         /\ \A n \in Nat : Quiet(q, c, n + 1) => Quiet(Tail(q), c, n)
         /\ \A n \in Nat : Quiet(q, c, n) => Quiet(Tail(q), c, n)
         /\ Quiet(q, c, 0) => (Head(q).by = c => Head(q).what # "go")
         /\ Owned(q) => Owned(Tail(q)) /\ Head(q).task \in {Head(q).by, NoCommand}
<1> DEFINE l == Len(q)
<1> DEFINE r == Tail(q)
<1>1. /\ l \in Nat \ {0} /\ DOMAIN q = 1 .. l /\ DOMAIN r = 1 .. l - 1
      /\ \A i \in DOMAIN r : r[i] = q[i + 1]
      /\ Head(q) = q[1]
  BY TailElements
<1>2. \A i \in DOMAIN r : i + 1 \in DOMAIN q /\ ~(i + 1 <= 1)
  BY <1>1
<1>3. 1 \in DOMAIN q /\ 1 > 0
  BY <1>1
<1>4. \A i, j \in DOMAIN r : i + 1 <= j + 1 => i <= j
  BY <1>1
<1>5. \A i \in DOMAIN r, n \in Nat : i > n => i + 1 > n + 1 /\ i + 1 > n
  BY <1>1
<1> HIDE DEF l, r
<1>6. Gone(q, c) => Gone(r, c) /\ Head(q).by # c
  BY <1>1, <1>2, <1>3 DEF Gone
<1>7. Last(q, c) => Last(r, c)
  BY <1>1, <1>2, <1>4 DEF Last
<1>8. Last(q, c) /\ Head(q).task = c => Gone(r, c)
  BY <1>1, <1>2, <1>3 DEF Last, Gone
<1>9. \A n \in Nat : (Quiet(q, c, n + 1) => Quiet(r, c, n)) /\ (Quiet(q, c, n) => Quiet(r, c, n))
  BY <1>1, <1>2, <1>5 DEF Quiet
<1>10. Quiet(q, c, 0) => (Head(q).by = c => Head(q).what # "go")
  BY <1>1, <1>3 DEF Quiet
<1>11. Owned(q) => Owned(r) /\ Head(q).task \in {Head(q).by, NoCommand}
  BY <1>1, <1>2, <1>3 DEF Owned
<1>12. QED
  BY <1>6, <1>7, <1>8, <1>9, <1>10, <1>11 DEF r

\* What the jobs a command waits for ask, and whether one has been answered.
Asks(q, c, what) == \A i \in DOMAIN q : q[i].task = c => q[i].what = what
Answered(q, c) == \E i \in DOMAIN q : q[i].task = c /\ q[i].ok

LEMMA AppendAsks ==
  ASSUME NEW S, NEW q \in Seq(S), NEW e \in S, NEW c, NEW what,
         Asks(q, c, what), e.task = c => e.what = what
  PROVE  Asks(Append(q, e), c, what)
<1>1. /\ \A i \in DOMAIN q : Append(q, e)[i] = q[i]
      /\ Append(q, e)[Len(q) + 1] = e
      /\ \A i \in DOMAIN Append(q, e) : i \in DOMAIN q \/ i = Len(q) + 1
  BY AppendElements
<1>2. QED
  BY <1>1 DEF Asks

LEMMA AppendAnswered ==
  ASSUME NEW S, NEW q \in Seq(S), NEW e \in S, NEW c
  PROVE  Answered(Append(q, e), c) => Answered(q, c) \/ (e.task = c /\ e.ok)
<1>1. /\ \A i \in DOMAIN q : Append(q, e)[i] = q[i]
      /\ Append(q, e)[Len(q) + 1] = e
      /\ \A i \in DOMAIN Append(q, e) : i \in DOMAIN q \/ i = Len(q) + 1
  BY AppendElements
<1>2. QED
  BY <1>1 DEF Answered

LEMMA TailAsks ==
  ASSUME NEW S, NEW q \in Seq(S), q # <<>>, NEW c
  PROVE  /\ Has(q, c) <=> Has(Tail(q), c) \/ Head(q).task = c
         /\ \A what : Asks(q, c, what) =>
              Asks(Tail(q), c, what) /\ (Head(q).task = c => Head(q).what = what)
         /\ Answered(q, c) <=> Answered(Tail(q), c) \/ (Head(q).task = c /\ Head(q).ok)
<1> DEFINE r == Tail(q)
<1>1. /\ 1 \in DOMAIN q /\ Head(q) = q[1]
      /\ \A i \in DOMAIN r : i + 1 \in DOMAIN q /\ r[i] = q[i + 1]
      /\ \A i \in DOMAIN q : i = 1 \/ (i - 1 \in DOMAIN r /\ r[i - 1] = q[i])
  BY TailElements
<1> HIDE DEF r
<1>2. ASSUME NEW i \in DOMAIN r
      PROVE  \E k \in DOMAIN q : r[i] = q[k]
  BY <1>1
<1>3. ASSUME NEW i \in DOMAIN q, i # 1
      PROVE  \E k \in DOMAIN r : r[k] = q[i]
  BY <1>1, <1>3
<1>4. Has(q, c) <=> Has(r, c) \/ Head(q).task = c
  BY <1>1, <1>2, <1>3 DEF Has
<1>5. \A what : Asks(q, c, what) =>
        Asks(r, c, what) /\ (Head(q).task = c => Head(q).what = what)
  BY <1>1, <1>2 DEF Asks
<1>6. Answered(q, c) <=> Answered(r, c) \/ (Head(q).task = c /\ Head(q).ok)
  BY <1>1, <1>2, <1>3 DEF Answered
<1>7. QED
  BY <1>4, <1>5, <1>6 DEF r

\* A queue in which only jobs and tasks of other commands were renamed.
LEMMA RelabelKeeps ==
  ASSUME NEW q, NEW r, NEW c, DOMAIN r = DOMAIN q,
         \A i \in DOMAIN q : r[i].task = c <=> q[i].task = c
  PROVE  /\ Has(r, c) <=> Has(q, c)
         /\ Single(r, c) <=> Single(q, c)
         /\ (\A i \in DOMAIN q : r[i].ok = q[i].ok) => (Answered(r, c) <=> Answered(q, c))
         /\ (\A i \in DOMAIN q : r[i].by = q[i].by /\ r[i].what = q[i].what) =>
              /\ Last(r, c) <=> Last(q, c)
              /\ \A what : Asks(r, c, what) <=> Asks(q, c, what)
<1>1. Has(r, c) <=> Has(q, c)
  BY DEF Has
<1>2. Single(r, c) <=> Single(q, c)
  BY DEF Single
<1>3. (\A i \in DOMAIN q : r[i].ok = q[i].ok) => (Answered(r, c) <=> Answered(q, c))
  BY DEF Answered
<1>4. ASSUME \A i \in DOMAIN q : r[i].by = q[i].by /\ r[i].what = q[i].what
      PROVE  /\ Last(r, c) <=> Last(q, c)
             /\ \A what : Asks(r, c, what) <=> Asks(q, c, what)
  BY <1>4 DEF Last, Asks
<1>5. QED
  BY <1>1, <1>2, <1>3, <1>4

-----------------------------------------------------------------------------
(* Why a command waits for one job at most, and why a MOVE that returned a *)
(* result is at rest.                                                      *)

\* A command waits exactly while it has a Twist to publish, and then for one
\* job: in the queue, or answered and not yet taken up.
WaitsOnce(c) ==
  /\ Single(work, c) /\ Single(woken, c)
  /\ ~(Has(work, c) /\ Has(woken, c))
  /\ mv[c] \in Twists <=> Has(work, c) \/ Has(woken, c)

\* The last Twist on the wire, if it is of c, stops the robot.
Still(c) == wire.by = c => wire.what = "zero"

\* The job a command waits for does what the command is at, and is the last of
\* all its jobs, so that nothing of it is queued when the answer is there; an
\* answered zero Twist is on the wire unless another command's Twist is.
InOrder(c) ==
  /\ Last(work, c)
  /\ Asks(work, c, IF c \in creating THEN "create" ELSE mv[c])
  /\ Has(woken, c) => Gone(work, c)
  /\ Answered(woken, c) /\ c \notin creating /\ mv[c] = "zero" => Still(c)

OwnResult(c) == Op[c] = "MOVE" /\ inFlight[c] \in {"succeeded", "failed"}

AtRest(c) == OwnResult(c) => Still(c) /\ Gone(work, c)

QueueInv == Owned(work) /\ \A c \in Commands : WaitsOnce(c) /\ InOrder(c)

\* Nothing that concerns c happened.
LEMMA Unconcerned ==
  ASSUME NEW c \in Commands, WaitsOnce(c), InOrder(c),
         mv'[c] = mv[c], c \in creating' <=> c \in creating,
         Has(woken, c) /\ Still(c) => Still(c)',
         Has(work', c) <=> Has(work, c), Single(work', c), Last(work', c),
         \A what : Asks(work, c, what) => Asks(work', c, what),
         Has(woken, c) /\ Gone(work, c) => Gone(work', c),
         Has(woken', c) <=> Has(woken, c), Single(woken', c),
         Answered(woken', c) => Answered(woken, c)
  PROVE  WaitsOnce(c)' /\ InOrder(c)'
<1>1. WaitsOnce(c)'
  BY DEF WaitsOnce
<1>2. Asks(work', c, IF c \in creating' THEN "create" ELSE mv'[c])
  BY DEF InOrder
<1>3. Answered(woken, c) => Has(woken, c)
  BY DEF Answered, Has
<1>4. InOrder(c)'
  BY <1>2, <1>3 DEF InOrder
<1>5. QED
  BY <1>1, <1>4

\* c waits for nothing any more.
LEMMA Free ==
  ASSUME NEW c \in Commands, mv'[c] \notin Twists, ~Has(work', c), ~Has(woken', c)
  PROVE  WaitsOnce(c)' /\ InOrder(c)'
<1>1. Single(work', c) /\ Last(work', c)
      /\ Asks(work', c, IF c \in creating' THEN "create" ELSE mv'[c])
  BY DEF Has, Single, Last, Asks
<1>2. Single(woken', c) /\ ~Answered(woken', c)
  BY DEF Has, Single, Answered
<1>3. QED
  BY <1>1, <1>2 DEF WaitsOnce, InOrder

\* c queues a job while it waits for nothing.
LEMMA QueueJob ==
  ASSUME StackInv, QueueInv, NEW c \in Commands, NEW e \in Job, e.task = c, e.by = c,
         work' = Append(work, e), ~Has(work, c), ~Has(woken', c), mv'[c] \in Twists,
         e.what = IF c \in creating' THEN "create" ELSE mv'[c]
  PROVE  WaitsOnce(c)' /\ InOrder(c)'
<1>1. work \in Seq(Job)
  BY DEF StackInv, StackTypes
<1>2. Has(work', c) /\ Single(work', c)
  BY <1>1, AppendKeeps DEF QueueInv, WaitsOnce
<1>3. Last(work', c)
  BY <1>1, AppendJob DEF QueueInv, InOrder
<1>4. Asks(work, c, e.what)
  BY DEF Asks, Has
<1>5. Asks(work', c, e.what)
  BY <1>1, <1>4, AppendAsks
<1>6. Single(woken', c) /\ ~Answered(woken', c)
  BY DEF Has, Single, Answered
<1>7. QED
  BY <1>2, <1>3, <1>5, <1>6 DEF WaitsOnce, InOrder

\* What a job of d leaves alone of another command.
LEMMA OthersJob ==
  ASSUME StackInv, QueueInv, NEW c \in Commands, NEW d \in Commands \ {c},
         NEW e \in Job, e.task = d, e.by = d, work' = Append(work, e)
  PROVE  /\ Has(work', c) <=> Has(work, c)
         /\ Single(work', c) /\ Last(work', c)
         /\ \A what : Asks(work, c, what) => Asks(work', c, what)
         /\ Gone(work, c) => Gone(work', c)
         /\ Owned(work')
<1>1. work \in Seq(Job)
  BY DEF StackInv, StackTypes
<1>2. Single(work, c) /\ Last(work, c) /\ Owned(work)
  BY DEF QueueInv, WaitsOnce, InOrder
<1>3. /\ Has(work', c) <=> Has(work, c)
      /\ Single(work', c)
  BY <1>1, <1>2, AppendKeeps
<1>4. /\ Last(work', c) /\ Owned(work')
      /\ Gone(work, c) => Gone(work', c)
  BY <1>1, <1>2, AppendJob
<1>5. \A what : Asks(work, c, what) => Asks(work', c, what)
  BY <1>1, AppendAsks
<1>6. QED
  BY <1>3, <1>4, <1>5

LEMMA PublishQueues ==
  ASSUME StackInv, QueueInv, NEW d \in Commands, NEW twist \in Twists,
         NEW halts \in SUBSET Commands, Publish(d, twist, halts), mv[d] \notin Twists,
         wire' = wire
  PROVE  /\ QueueInv'
         /\ \A c \in Commands \ {d} : Gone(work, c) => Gone(work', c)
<1>1. PICK what \in Twists \cup {"create"}, h \in SUBSET Commands :
        /\ work' = Append(work, NewJob(d, what, h))
        /\ what = IF d \in creating' THEN "create" ELSE twist
        /\ creating' \in {creating, creating \cup {d}}
  <2>1. d \notin creating
    BY DEF StackInv, PluginInv
  <2>2. CASE publisher
    BY <2>1, <2>2 DEF Publish, Enqueue
  <2>3. CASE ~publisher
    BY <2>3 DEF Publish, Enqueue
  <2>4. QED
    BY <2>2, <2>3
<1> DEFINE e == NewJob(d, what, h)
<1>2. e \in Job /\ e.task = d /\ e.by = d /\ e.what = what
  BY JobType DEF NewJob
<1>3. mv' = [mv EXCEPT ![d] = twist] /\ woken' = woken
      /\ work' = Append(work, e)
  BY <1>1 DEF Publish, Enqueue
<1> HIDE DEF e
<1>4. mv'[d] = twist /\ \A c \in Commands \ {d} : mv'[c] = mv[c]
  BY <1>3 DEF StackInv, StackTypes
<1>5. WaitsOnce(d)' /\ InOrder(d)'
  BY <1>1, <1>2, <1>3, <1>4, QueueJob DEF QueueInv, WaitsOnce
<1>6. ASSUME NEW c \in Commands \ {d}
      PROVE  /\ WaitsOnce(c)' /\ InOrder(c)'
             /\ Gone(work, c) => Gone(work', c)
             /\ Owned(work')
  <2>1. /\ Has(work', c) <=> Has(work, c)
        /\ Single(work', c) /\ Last(work', c)
        /\ \A w : Asks(work, c, w) => Asks(work', c, w)
        /\ Gone(work, c) => Gone(work', c)
        /\ Owned(work')
    BY <1>2, <1>3, OthersJob
  <2>2. WaitsOnce(c) /\ InOrder(c) /\ Single(woken, c)
    BY DEF QueueInv, WaitsOnce
  <2>3. mv'[c] = mv[c] /\ (c \in creating' <=> c \in creating) /\ (Still(c) => Still(c)')
    BY <1>1, <1>4 DEF Still
  <2>4. WaitsOnce(c)' /\ InOrder(c)'
    BY <1>3, <2>1, <2>2, <2>3, Unconcerned
  <2>5. QED
    BY <2>1, <2>4
<1>7. Owned(work')
  BY <1>2, <1>3, AppendJob DEF StackInv, StackTypes, QueueInv
<1>8. QED
  BY <1>5, <1>6, <1>7 DEF QueueInv

\* The coroutine of d is gone and so is its future.
LEMMA ForsakeQueues ==
  ASSUME StackInv, QueueInv, NEW d \in Commands, Forsake(d), Leave(d), wire' = wire
  PROVE  /\ QueueInv'
         /\ \A c \in Commands : Gone(work, c) => Gone(work', c)
<1>1. ASSUME NEW i \in DOMAIN work
      PROVE  /\ work'[i].task = IF work[i].task = d THEN NoCommand ELSE work[i].task
             /\ work'[i].by = work[i].by /\ work'[i].what = work[i].what
  <2>1. work[i] \in Job
    BY LenProperties, ElementOfSeq DEF StackInv, StackTypes
  <2>2. QED
    BY <2>1 DEF Job, Forsake
<1>2. ASSUME NEW i \in DOMAIN woken
      PROVE  /\ woken'[i].task = IF woken[i].task = d THEN NoCommand ELSE woken[i].task
             /\ woken'[i].ok = woken[i].ok
  <2>1. woken[i] \in Answer
    BY LenProperties, ElementOfSeq DEF StackInv, StackTypes
  <2>2. QED
    BY <2>1 DEF Answer, Forsake
<1>3. DOMAIN work' = DOMAIN work /\ DOMAIN woken' = DOMAIN woken
  BY DEF Forsake
<1>4. /\ mv'[d] = "off" /\ creating' = creating \ {d}
      /\ \A c \in Commands \ {d} : mv'[c] = mv[c]
  BY DEF Leave, StackInv, StackTypes
<1>5. ASSUME NEW c \in Commands \ {d}
      PROVE  WaitsOnce(c)' /\ InOrder(c)'
  <2>1. \A i \in DOMAIN work : work'[i].task = c <=> work[i].task = c
    BY <1>1, CommandsAssumption
  <2>2. \A i \in DOMAIN woken : woken'[i].task = c <=> woken[i].task = c
    BY <1>2, CommandsAssumption
  <2>3. /\ Has(work', c) <=> Has(work, c)
        /\ Single(work', c) <=> Single(work, c)
        /\ Last(work', c) <=> Last(work, c)
        /\ \A what : Asks(work', c, what) <=> Asks(work, c, what)
    BY <1>1, <1>3, <2>1, RelabelKeeps
  <2>4. /\ Has(woken', c) <=> Has(woken, c)
        /\ Single(woken', c) <=> Single(woken, c)
        /\ Answered(woken', c) <=> Answered(woken, c)
    BY <1>2, <1>3, <2>2, RelabelKeeps
  <2>5. Gone(work, c) => Gone(work', c)
    BY <1>1, <1>3 DEF Gone
  <2>6. WaitsOnce(c) /\ InOrder(c) /\ Single(work, c) /\ Single(woken, c) /\ Last(work, c)
    BY DEF QueueInv, WaitsOnce, InOrder
  <2>7. QED
    BY <1>4, <2>3, <2>4, <2>5, <2>6, Unconcerned DEF Still
<1>6. WaitsOnce(d)' /\ InOrder(d)'
  <2>1. ~Has(work', d) /\ ~Has(woken', d)
    BY <1>1, <1>2, <1>3, CommandsAssumption DEF Has
  <2>2. QED
    BY <1>4, <2>1, Free DEF Twists
<1>7. Owned(work')
  BY <1>1, <1>3 DEF Owned, QueueInv
<1>8. \A c \in Commands : Gone(work, c) => Gone(work', c)
  BY <1>1, <1>3 DEF Gone
<1>9. QED
  BY <1>5, <1>6, <1>7, <1>8 DEF QueueInv

LEMMA PlanQueues ==
  ASSUME StackInv, QueueInv, NEW d \in Commands, Plan(d)
  PROVE  /\ QueueInv'
         /\ \A c \in Commands \ {d} : Gone(work, c) => Gone(work', c)
<1>1. mv[d] = "off" /\ d \notin creating /\ wire' = wire
  BY DEF Plan, PoseResolved, Runs, StackInv, PluginInv, InPlugin, Twists
<1>2. CASE /\ stopSet' = [stopSet EXCEPT ![d] = Found(token')]
           /\ Publish(d, "zero", stopSet'[d])
  <2>1. stopSet'[d] \in SUBSET Commands
    BY <1>2 DEF Found, StackInv, StackTypes
  <2>2. QED
    BY <1>1, <1>2, <2>1, PublishQueues DEF Twists
<1>3. CASE /\ mv' = [mv EXCEPT ![d] = IF Op[d] = "MOVE" THEN "tick" ELSE "off"]
           /\ work' = [i \in DOMAIN work |-> [work[i] EXCEPT !.halts = @ \ {d}]]
           /\ UNCHANGED <<creating, out, publisher, woken>>
  <2>1. ASSUME NEW i \in DOMAIN work
        PROVE  /\ work'[i].task = work[i].task
               /\ work'[i].by = work[i].by /\ work'[i].what = work[i].what
    <3>1. work[i] \in Job
      BY LenProperties, ElementOfSeq DEF StackInv, StackTypes
    <3>2. QED
      BY <1>3, <3>1 DEF Job
  <2>2. DOMAIN work' = DOMAIN work
    BY <1>3
  <2>3. ASSUME NEW c \in Commands
        PROVE  /\ Has(work', c) <=> Has(work, c)
               /\ Single(work', c) <=> Single(work, c)
               /\ Last(work', c) <=> Last(work, c)
               /\ \A what : Asks(work', c, what) <=> Asks(work, c, what)
               /\ Gone(work, c) => Gone(work', c)
    BY <2>1, <2>2, RelabelKeeps DEF Gone
  <2>4. ASSUME NEW c \in Commands \ {d}
        PROVE  WaitsOnce(c)' /\ InOrder(c)'
    <3>1. mv'[c] = mv[c]
      BY <1>3 DEF StackInv, StackTypes
    <3>2. WaitsOnce(c) /\ InOrder(c) /\ Single(work, c) /\ Single(woken, c) /\ Last(work, c)
      BY DEF QueueInv, WaitsOnce, InOrder
    <3>3. QED
      BY <1>1, <1>3, <2>3, <3>1, <3>2, Unconcerned DEF Still
  <2>5. WaitsOnce(d)' /\ InOrder(d)'
    <3>1. ~Has(work', d) /\ ~Has(woken', d)
      BY <1>1, <1>3, <2>3 DEF QueueInv, WaitsOnce, Twists
    <3>2. mv'[d] \notin Twists
      BY <1>3 DEF StackInv, StackTypes, Twists
    <3>3. QED
      BY <3>1, <3>2, Free
  <2>6. Owned(work')
    BY <2>1, <2>2 DEF Owned, QueueInv
  <2>7. QED
    BY <2>3, <2>4, <2>5, <2>6 DEF QueueInv
<1>4. CASE UNCHANGED <<plugin, queues>>
  <2>1. mv' = mv /\ creating' = creating /\ work' = work /\ woken' = woken
    BY <1>4 DEF plugin, queues
  <2>2. QED
    BY <1>1, <2>1 DEF QueueInv, WaitsOnce, InOrder, Still
<1>5. QED
  BY <1>2, <1>3, <1>4 DEF Plan

\* The oldest job moves to the answers; it does what the command it is for is
\* at, and any Twist on the wire that it replaces is of no concern.
LEMMA RunJobQueues ==
  ASSUME StackInv, QueueInv, RunJob
  PROVE  /\ QueueInv'
         /\ \A c \in Commands : Gone(work, c) => /\ Gone(work', c)
                                                 /\ Still(c) => Still(c)'
<1> DEFINE j == Head(work)
<1>1. work \in Seq(Job) /\ work # <<>> /\ woken \in Seq(Answer) /\ j \in Job
  BY HeadTailProperties DEF RunJob, StackInv, StackTypes
<1>2. PICK ok \in BOOLEAN :
        /\ woken' = Append(woken, [task |-> j.task, ok |-> ok])
        /\ wire' = IF ok /\ j.what # "create" THEN [by |-> j.by, what |-> j.what] ELSE wire
  <2>1. CASE /\ woken' = Append(woken, [task |-> j.task, ok |-> FALSE])
             /\ wire' = wire
    BY <2>1
  <2>2. CASE /\ woken' = Append(woken, [task |-> j.task, ok |-> TRUE])
             /\ wire' = IF j.what = "create" THEN wire ELSE [by |-> j.by, what |-> j.what]
    BY <2>2
  <2>3. QED
    BY <2>1, <2>2 DEF RunJob
<1> DEFINE a == [task |-> j.task, ok |-> ok]
<1>3. a \in Answer /\ a.task = j.task /\ a.ok = ok
  BY <1>1 DEF Job, Answer
<1>4. work' = Tail(work) /\ woken' = Append(woken, a) /\ mv' = mv /\ creating' = creating
  BY <1>2 DEF RunJob, plugin
<1>5. Owned(work') /\ j.task \in {j.by, NoCommand}
  BY <1>1, <1>4, TailJob DEF QueueInv
<1> HIDE DEF a, j
<1>6. ASSUME NEW c \in Commands
      PROVE  Gone(work, c) => Gone(work', c) /\ (Still(c) => Still(c)')
  BY <1>1, <1>2, <1>4, TailJob DEF Still, j
<1>7. ASSUME NEW c \in Commands
      PROVE  WaitsOnce(c)' /\ InOrder(c)'
  <2>1. WaitsOnce(c) /\ InOrder(c)
    BY DEF QueueInv
  <2>2. /\ Has(work', c) <=> Has(work, c) /\ j.task # c
        /\ Single(work', c)
    BY <1>1, <1>4, <2>1, TailKeeps DEF WaitsOnce, j
  <2>3. /\ Has(work, c) <=> Has(work', c) \/ j.task = c
        /\ \A what : Asks(work, c, what) => Asks(work', c, what) /\ (j.task = c => j.what = what)
    BY <1>1, <1>4, TailAsks DEF j
  <2>4. /\ Last(work', c)
        /\ j.task = c => Gone(work', c)
    BY <1>1, <1>4, <2>1, TailJob DEF InOrder, j
  <2>5. /\ Has(woken', c) <=> Has(woken, c) \/ j.task = c
        /\ Single(woken', c)
    BY <1>1, <1>3, <1>4, <2>1, <2>3, AppendKeeps DEF WaitsOnce
  <2>6. Answered(woken', c) => Answered(woken, c) \/ (j.task = c /\ ok)
    BY <1>1, <1>3, <1>4, AppendAnswered
  <2>7. CASE j.task # c
    <3>1. Has(woken, c) /\ Still(c) => Still(c)'
      BY <1>6, <2>1 DEF InOrder
    <3>2. Has(woken, c) /\ Gone(work, c) => Gone(work', c)
      BY <1>6
    <3>3. QED
      BY <1>4, <2>1, <2>2, <2>3, <2>4, <2>5, <2>6, <2>7, <3>1, <3>2, Unconcerned
  <2>8. CASE j.task = c
    <3>1. WaitsOnce(c)'
      BY <1>4, <2>1, <2>2, <2>3, <2>5, <2>8 DEF WaitsOnce
    <3>2. Asks(work', c, IF c \in creating' THEN "create" ELSE mv'[c])
      BY <1>4, <2>1, <2>3 DEF InOrder
    <3>3. ~Answered(woken, c)
      BY <2>1, <2>3, <2>8 DEF WaitsOnce, Has, Answered
    <3>4. ASSUME Answered(woken', c), c \notin creating', mv'[c] = "zero"
          PROVE  Still(c)'
      <4>1. j.what = "zero" /\ ok
        BY <1>4, <2>1, <2>3, <2>6, <2>8, <3>3, <3>4 DEF InOrder
      <4>2. QED
        BY <1>2, <4>1 DEF Still
    <3>5. InOrder(c)'
      BY <2>4, <2>8, <3>2, <3>4 DEF InOrder
    <3>6. QED
      BY <3>1, <3>5
  <2>9. QED
    BY <2>7, <2>8
<1>8. QED
  BY <1>5, <1>6, <1>7 DEF QueueInv

\* What taking up the oldest answer leaves of the queue of answers.
LEMMA TakeAnswer ==
  ASSUME StackInv, QueueInv, woken # <<>>, woken' = Tail(woken), NEW c \in Commands
  PROVE  /\ Has(woken', c) <=> Has(woken, c) /\ Head(woken).task # c
         /\ Head(woken).task = c => Has(woken, c)
         /\ Single(woken', c)
         /\ Answered(woken', c) => Answered(woken, c)
         /\ Head(woken).task = c /\ Head(woken).ok => Answered(woken, c)
<1>1. woken \in Seq(Answer) /\ Single(woken, c)
  BY DEF StackInv, StackTypes, QueueInv, WaitsOnce
<1>2. QED
  BY <1>1, TailKeeps, TailAsks

LEMMA GoOnQueues ==
  ASSUME StackInv, QueueInv, woken # <<>>, woken' = Tail(woken), wire' = wire,
         NEW d \in Commands, Head(woken).task = d, GoOn(d, Head(woken).ok)
  PROVE  /\ QueueInv'
         /\ \A c \in Commands \ {d} : Gone(work, c) => Gone(work', c)
<1>1. /\ Has(woken, d) /\ ~Has(woken', d)
      /\ ~Has(work, d) /\ mv[d] \in Twists
  BY TakeAnswer DEF QueueInv, WaitsOnce
<1>2. ASSUME NEW c \in Commands \ {d}, mv'[c] = mv[c], c \in creating' <=> c \in creating,
             Has(work', c) <=> Has(work, c), Single(work', c), Last(work', c),
             \A what : Asks(work, c, what) => Asks(work', c, what),
             Gone(work, c) => Gone(work', c)
      PROVE  WaitsOnce(c)' /\ InOrder(c)'
  <2>1. /\ Has(woken', c) <=> Has(woken, c)
        /\ Single(woken', c)
        /\ Answered(woken', c) => Answered(woken, c)
    BY TakeAnswer
  <2>2. WaitsOnce(c) /\ InOrder(c)
    BY DEF QueueInv
  <2>3. QED
    BY <1>2, <2>1, <2>2, Unconcerned DEF Still
<1>3. CASE /\ creating' = creating \ {d}
           /\ work' = Append(work, NewJob(d, mv[d], stopSet[d]))
           /\ mv' = mv
  <2> DEFINE e == NewJob(d, mv[d], stopSet[d])
  <2>1. stopSet[d] \in SUBSET Commands
    BY DEF StackInv, StackTypes
  <2>2. e \in Job /\ e.task = d /\ e.by = d /\ e.what = mv[d]
    BY <1>1, <2>1, JobType DEF NewJob
  <2>3. work' = Append(work, e)
    BY <1>3
  <2> HIDE DEF e
  <2>4. WaitsOnce(d)' /\ InOrder(d)'
    BY <1>1, <1>3, <2>2, <2>3, QueueJob
  <2>5. ASSUME NEW c \in Commands \ {d}
        PROVE  /\ WaitsOnce(c)' /\ InOrder(c)'
               /\ Gone(work, c) => Gone(work', c)
    <3>1. /\ Has(work', c) <=> Has(work, c)
          /\ Single(work', c) /\ Last(work', c)
          /\ \A what : Asks(work, c, what) => Asks(work', c, what)
          /\ Gone(work, c) => Gone(work', c)
      BY <2>2, <2>3, OthersJob
    <3>2. QED
      BY <1>2, <1>3, <3>1
  <2>6. Owned(work')
    BY <2>2, <2>3, AppendJob DEF StackInv, StackTypes, QueueInv
  <2>7. QED
    BY <2>4, <2>5, <2>6 DEF QueueInv
<1>4. CASE /\ mv' = [mv EXCEPT ![d] = "sleep"] \/ mv' = [mv EXCEPT ![d] = "off"]
           /\ creating' \in {creating, creating \ {d}}
           /\ work' = work
  <2>1. mv'[d] \notin Twists /\ \A c \in Commands \ {d} : mv'[c] = mv[c]
    BY <1>4 DEF StackInv, StackTypes, Twists
  <2>2. WaitsOnce(d)' /\ InOrder(d)'
    BY <1>1, <1>4, <2>1, Free
  <2>3. ASSUME NEW c \in Commands \ {d}
        PROVE  WaitsOnce(c)' /\ InOrder(c)'
    BY <1>2, <1>4, <2>1 DEF QueueInv, WaitsOnce, InOrder
  <2>4. QED
    BY <1>4, <2>2, <2>3 DEF QueueInv
<1>5. QED
  BY <1>3, <1>4 DEF GoOn, Leave

LEMMA ResumeQueues ==
  ASSUME StackInv, QueueInv, Resume
  PROVE  QueueInv' /\ wire' = wire
<1>1. woken # <<>> /\ woken' = Tail(woken) /\ wire' = wire
  BY DEF Resume
<1>2. CASE Head(woken).task = NoCommand
  <2>1. mv' = mv /\ creating' = creating /\ work' = work
    BY <1>2 DEF Resume, plugin
  <2>2. ASSUME NEW c \in Commands
        PROVE  WaitsOnce(c)' /\ InOrder(c)'
    <3>1. /\ Has(woken', c) <=> Has(woken, c)
          /\ Single(woken', c)
          /\ Answered(woken', c) => Answered(woken, c)
      BY <1>1, <1>2, TakeAnswer, CommandsAssumption
    <3>2. WaitsOnce(c) /\ InOrder(c) /\ Single(work, c) /\ Last(work, c)
      BY DEF QueueInv, WaitsOnce, InOrder
    <3>3. QED
      BY <1>1, <2>1, <3>1, <3>2, Unconcerned DEF Still
  <2>3. QED
    BY <1>1, <2>1, <2>2 DEF QueueInv
<1>3. CASE Head(woken).task # NoCommand
  <2>1. Head(woken) \in Answer
    BY <1>1, HeadTailProperties DEF StackInv, StackTypes
  <2>2. Head(woken).task \in Commands
    BY <1>3, <2>1 DEF Answer
  <2>3. GoOn(Head(woken).task, Head(woken).ok)
    BY <1>3 DEF Resume
  <2>4. QED
    BY <1>1, <2>2, <2>3, GoOnQueues
<1>4. QED
  BY <1>2, <1>3

\* A loop that publishes nothing in this step goes on.
LEMMA PassQueues ==
  ASSUME StackInv, QueueInv, NEW d \in Commands, mv[d] \notin Twists,
         NEW x, x \notin Twists, mv' = [mv EXCEPT ![d] = x],
         UNCHANGED <<creating, queues, wire>>
  PROVE  QueueInv'
<1>1. /\ creating' = creating /\ work' = work /\ woken' = woken /\ wire' = wire
      /\ mv'[d] = x /\ \A c \in Commands \ {d} : mv'[c] = mv[c]
  BY DEF queues, StackInv, StackTypes
<1>2. WaitsOnce(d)' /\ InOrder(d)'
  BY <1>1, Free DEF QueueInv, WaitsOnce
<1>3. ASSUME NEW c \in Commands \ {d}
      PROVE  WaitsOnce(c)' /\ InOrder(c)'
  BY <1>1 DEF QueueInv, WaitsOnce, InOrder, Still
<1>4. QED
  BY <1>1, <1>2, <1>3 DEF QueueInv

\* The queues after any step; what is at rest and idle stays at rest.
LEMMA QueueStep ==
  ASSUME StackInv, QueueInv, [StackNext]_stackVars
  PROVE  /\ QueueInv'
         /\ \A c \in Commands : pc[c] = "idle" /\ Gone(work, c) /\ Still(c)
                                => Gone(work', c) /\ Still(c)'
<1> DEFINE Rests == \A c \in Commands : pc[c] = "idle" /\ Gone(work, c) /\ Still(c)
                                        => Gone(work', c) /\ Still(c)'
<1>1. ASSUME NEW c \in Commands, pc[c] = "idle"
      PROVE  mv[c] = "off" /\ mv[c] \notin Twists
  BY <1>1 DEF StackInv, PluginInv, InPlugin, Twists
<1>2. ASSUME UNCHANGED <<mv, creating, queues, wire>>
      PROVE  QueueInv' /\ Rests
  <2>1. mv' = mv /\ creating' = creating /\ work' = work /\ woken' = woken /\ wire' = wire
    BY <1>2 DEF queues
  <2>2. QED
    BY <2>1 DEF QueueInv, WaitsOnce, InOrder, Still
<1>3. CASE Elsewhere \/ UNCHANGED stackVars
  BY <1>2, <1>3 DEF Elsewhere, stackVars, plugin
<1>4. CASE RunJob
  BY <1>4, RunJobQueues
<1>5. CASE Resume
  <2>1. QueueInv' /\ wire' = wire
    BY <1>5, ResumeQueues
  <2>2. ASSUME NEW c \in Commands, pc[c] = "idle", Gone(work, c)
        PROVE  Gone(work', c)
    <3>1. woken # <<>> /\ woken' = Tail(woken)
      BY <1>5 DEF Resume
    <3>2. CASE Head(woken).task = NoCommand
      BY <1>5, <2>2, <3>2 DEF Resume
    <3>3. CASE Head(woken).task # NoCommand
      <4>1. Head(woken) \in Answer
        BY <3>1, HeadTailProperties DEF StackInv, StackTypes
      <4>2. Head(woken).task \in Commands
        BY <3>3, <4>1 DEF Answer
      <4>3. GoOn(Head(woken).task, Head(woken).ok)
        BY <1>5, <3>3 DEF Resume
      <4>4. Head(woken).task # c
        BY <1>1, <2>2, <3>1, TakeAnswer DEF QueueInv, WaitsOnce
      <4>5. QED
        BY <2>1, <2>2, <3>1, <4>2, <4>3, <4>4, GoOnQueues
    <3>4. QED
      BY <3>2, <3>3
  <2>3. QED
    BY <2>1, <2>2 DEF Still
<1>6. ASSUME NEW d \in Commands, Plan(d)
      PROVE  QueueInv' /\ Rests
  <2>1. pc[d] = "pose" /\ wire' = wire
    BY <1>6 DEF Plan, PoseResolved, Runs
  <2>2. QED
    BY <1>6, <2>1, PlanQueues DEF Still
<1>7. ASSUME NEW d \in Commands, Tick(d)
      PROVE  QueueInv' /\ Rests
  <2>1. mv[d] = "tick" /\ mv[d] \notin Twists /\ wire' = wire
    BY <1>7 DEF Tick, Twists
  <2>2. CASE \E twist \in Twists : Publish(d, twist, {})
    <3>1. QueueInv' /\ \A c \in Commands \ {d} : Gone(work, c) => Gone(work', c)
      BY <2>1, <2>2, PublishQueues
    <3>2. QED
      BY <1>1, <2>1, <3>1 DEF Still
  <2>3. CASE mv' = [mv EXCEPT ![d] = "sleep"] /\ UNCHANGED <<creating, out, publisher, queues>>
    <3>1. QueueInv'
      BY <2>1, <2>3, PassQueues DEF Twists
    <3>2. QED
      BY <2>1, <2>3, <3>1 DEF queues, Still
  <2>4. QED
    BY <1>7, <2>2, <2>3 DEF Tick, Twists
<1>8. ASSUME NEW d \in Commands, Awake(d)
      PROVE  QueueInv' /\ Rests
  <2>1. QueueInv'
    BY <1>8, PassQueues DEF Awake, Twists
  <2>2. QED
    BY <1>8, <2>1 DEF Awake, queues, Still
<1>9. ASSUME NEW d \in Commands, Abort(d)
      PROVE  QueueInv' /\ Rests
  BY <1>9, ForsakeQueues DEF Abort, Still
<1>10. QED
  BY <1>3, <1>4, <1>5, <1>6, <1>7, <1>8, <1>9 DEF StackNext, Coroutine

\* A MOVE gets a result of its own only when it goes on after its zero Twist.
LEMMA ResultStep ==
  ASSUME StackInv, QueueInv, [StackNext]_stackVars, NEW c \in Commands,
         Op[c] = "MOVE", inFlight'[c] \in {"succeeded", "failed"}, BackendReturn(c)
  PROVE  Gone(work', c) /\ Still(c)'
<1>1. pc[c] = "backend" /\ pc'[c] = "idle" /\ InPlugin(c)
  BY DEF BackendReturn, Finish, StackInv, IInv, TypeOK, InPlugin
<1>2. ASSUME NEW d \in Commands, TaskStep(d)
      PROVE  d = c
  BY <1>1, <1>2, TaskShape DEF Finish, Goto, StackInv, IInv, TypeOK
<1>3. ~Elsewhere
  BY <1>1, ElsewherePlugin
<1>4. ~RunJob /\ ~UNCHANGED stackVars
  BY <1>1 DEF RunJob, stackVars, vars
<1>5. ASSUME NEW d \in Commands, Coroutine(d)
      PROVE  FALSE
  <2>1. ~Plan(d)
    BY <1>1, <1>2 DEF Plan, PoseResolved, Runs, TaskStep, Reply
  <2>2. ~Tick(d) /\ ~Awake(d)
    BY <1>1 DEF Tick, Awake, vars
  <2>3. ~Abort(d)
    BY <1>2 DEF Abort, TaskStep, LoopStep, BackstopTimeout, TaskCancelled, Finish,
       StackInv, IInv, TypeOK
  <2>4. QED
    BY <1>5, <2>1, <2>2, <2>3 DEF Coroutine
<1>6. Resume
  BY <1>3, <1>4, <1>5 DEF StackNext
<1> DEFINE d == Head(woken).task
<1>7. d # NoCommand /\ woken # <<>> /\ woken' = Tail(woken) /\ wire' = wire
  BY <1>1, <1>6 DEF Resume, vars
<1>8. d \in Commands /\ GoOn(d, Head(woken).ok)
  <2>1. Head(woken) \in Answer
    BY <1>7, HeadTailProperties DEF StackInv, StackTypes
  <2>2. QED
    BY <1>6, <1>7, <2>1 DEF Answer, Resume
<1>9. d = c
  <2>1. StopMotionReturn(d) \/ StopRaises(d) \/ BackendReturn(d)
    BY <1>1, <1>8 DEF GoOn, vars
  <2>2. QED
    BY <1>2, <1>8, <2>1 DEF TaskStep, Reply
<1>10. Head(woken).ok /\ c \notin creating /\ mv[c] = "zero" /\ work' = work
  <2>1. ASSUME UNCHANGED vars PROVE FALSE
    BY <1>1, <2>1 DEF vars
  <2>2. ASSUME inFlight'[c] = "INTERNAL_ERROR" PROVE FALSE
    BY <2>2
  <2>3. QED
    BY <1>8, <1>9, <2>1, <2>2 DEF GoOn
<1>11. Has(woken, c) /\ Answered(woken, c)
  BY <1>7, <1>9, <1>10, TakeAnswer
<1>12. QED
  BY <1>7, <1>10, <1>11 DEF QueueInv, InOrder, Still

-----------------------------------------------------------------------------
\* The inductive invariant of the queues.
JobsInv == StackInv /\ OpsFit /\ QueueInv /\ \A c \in Commands : AtRest(c)

LEMMA JobsStep == JobsInv /\ [StackNext]_stackVars => JobsInv'
<1> SUFFICES ASSUME JobsInv, [StackNext]_stackVars PROVE JobsInv'
  OBVIOUS
<1> USE DEF JobsInv
<1>1. StackInv'
  BY StackStepInv
<1>2. [Next]_vars
  BY StepRefines DEF StackInv
<1>3. OpsFit'
  BY <1>2, OpsFitStep DEF StackInv
<1>4. QueueInv'
  BY QueueStep
<1>5. ASSUME NEW c \in Commands, OwnResult(c)'
      PROVE  Still(c)' /\ Gone(work', c)
  <2>1. inFlight'[c] = inFlight[c] \/ BackendReturn(c)
    BY <1>2, <1>5, OwnResults DEF OwnResult, StackInv
  <2>2. CASE inFlight'[c] = inFlight[c]
    <3>1. pc[c] = "idle"
      BY <1>5, <2>2 DEF OwnResult, StackInv, IInv, TypeOK, NoLostWakeup
    <3>2. Still(c) /\ Gone(work, c)
      BY <1>5, <2>2 DEF AtRest, OwnResult
    <3>3. QED
      BY <3>1, <3>2, QueueStep
  <2>3. CASE BackendReturn(c)
    BY <1>5, <2>3, ResultStep DEF OwnResult
  <2>4. QED
    BY <2>1, <2>2, <2>3
<1>6. QED
  BY <1>1, <1>3, <1>4, <1>5 DEF AtRest

LEMMA JobsInit == StackInit => JobsInv
<1> SUFFICES ASSUME StackInit PROVE JobsInv
  OBVIOUS
<1>1. StackInv
  BY StackInitInv
<1>2. work = <<>> /\ woken = <<>> /\ DOMAIN work = {} /\ DOMAIN woken = {}
  BY DEF StackInit
<1>3. OpsFit
  BY DEF StackInit, Init, OpsFit
<1>4. \A c \in Commands : mv[c] \notin Twists /\ inFlight[c] = "absent"
  BY DEF StackInit, Init, Twists
<1>5. Owned(work)
  BY <1>2 DEF Owned
<1>6. ASSUME NEW c \in Commands
      PROVE  WaitsOnce(c) /\ InOrder(c) /\ AtRest(c)
  <2>1. ~Has(work, c) /\ ~Has(woken, c) /\ Single(work, c) /\ Single(woken, c) /\ Last(work, c)
        /\ ~Answered(woken, c) /\ \A what : Asks(work, c, what)
    BY <1>2 DEF Has, Single, Last, Answered, Asks
  <2>2. QED
    BY <1>4, <2>1 DEF WaitsOnce, InOrder, AtRest, OwnResult
<1>7. QED
  BY <1>1, <1>3, <1>5, <1>6 DEF JobsInv, QueueInv

LEMMA JobsInvariance == StackSpec => []JobsInv
BY JobsInit, JobsStep, PTL DEF StackSpec

\* How many entries of a queue wait for c.
LEMMA CountEntries ==
  ASSUME NEW q, NEW c, Single(q, c)
  PROVE  Cardinality({i \in DOMAIN q : q[i].task = c}) = IF Has(q, c) THEN 1 ELSE 0
<1>1. CASE Has(q, c)
  <2>1. PICK i \in DOMAIN q : q[i].task = c
    BY <1>1 DEF Has
  <2>2. {k \in DOMAIN q : q[k].task = c} = {i}
    BY <2>1 DEF Single
  <2>3. QED
    BY <1>1, <2>2, FS_Singleton
<1>2. CASE ~Has(q, c)
  <2>1. {k \in DOMAIN q : q[k].task = c} = {}
    BY <1>2 DEF Has
  <2>2. QED
    BY <1>2, <2>1, FS_EmptySet
<1>3. QED
  BY <1>1, <1>2

\* A command inside the motion plugin waits for exactly one job at a time, one
\* outside it or between two Twists for none.
THEOREM OneJobs == StackSpec => []OneJobEach
<1>1. JobsInv => OneJobEach
  BY CountEntries DEF JobsInv, QueueInv, WaitsOnce, OneJobEach
<1>2. QED
  BY <1>1, JobsInvariance, PTL

\* A MOVE that returned by itself has its zero Twist on the wire, unless another
\* command's Twist is there, and no job of it is left to move the robot.
THEOREM RestsAfterResult == StackSpec => []RestAfterResult
<1>1. ASSUME JobsInv, NEW c \in Commands, OwnResult(c)
      PROVE  (wire.by = c => wire.what = "zero") /\ \A i \in DOMAIN work : work[i].task # c
  <2>1. Still(c) /\ Gone(work, c) /\ Owned(work)
    BY <1>1 DEF JobsInv, AtRest, QueueInv
  <2>2. QED
    BY <2>1, CommandsAssumption DEF Still, Gone, Owned
<1>2. JobsInv => RestAfterResult
  BY <1>1 DEF RestAfterResult, OwnResult
<1>3. QED
  BY <1>2, JobsInvariance, PTL

-----------------------------------------------------------------------------
(* Why a command that a STOP found cancelled stays silent.                 *)

\* The command runs no more or its token is cancelled, and it does not wait for
\* its publisher with a Twist in hand: it queues no Twist that moves the robot.
Halted(c) == token[c] # "live" /\ ~(c \in creating /\ mv[c] = "go")

\* The commands of a STOP are halted, and behind the STOP's job (once that is
\* done, anywhere in the queue) they have no Twist that moves the robot.
SilenceInv ==
  /\ \A c \in silenced : Halted(c) /\ Quiet(work, c, 0)
  /\ \A s \in Commands : \A c \in stopSet[s] : Halted(c)
  /\ \A i \in DOMAIN work : \A c \in work[i].halts : Halted(c) /\ Quiet(work, c, i)

\* Only the dispatch of a command gives it a live token.
LEMMA TokensKept ==
  ASSUME StackInv, NEW c \in Commands, NEW d \in Commands, token[c] # "live",
         \/ Cancel(d) \/ Start(d) \/ ReadReturn(d) \/ PoseRaises(d) \/ StopMotionReturn(d)
         \/ StopNavReturn(d) \/ StopRaises(d) \/ BackendReturn(d) \/ BackstopTimeout(d)
         \/ TaskCancelled(d)
  PROVE  token'[c] # "live"
<1>1. CASE Release(d)
  BY <1>1 DEF Release, StackInv, IInv, TypeOK
<1>2. CASE UNCHANGED registry
  BY <1>2 DEF registry
<1>3. CASE Cancel(d)
  BY <1>3 DEF Cancel, StackInv, IInv, TypeOK
<1>4. QED
  BY <1>1, <1>2, <1>3 DEF Start, ReadReturn, PoseRaises, StopMotionReturn, StopNavReturn,
     StopRaises, BackendReturn, BackstopTimeout, TaskCancelled

\* A step in which no job is added or moved and no command starts again but
\* those of lost, which no STOP counts as its own any more.
LEMMA SilenceSame ==
  ASSUME StackInv, SilenceInv, NEW lost,
         \A c \in Commands \ lost : Halted(c) => Halted(c)',
         silenced' \subseteq silenced \ lost,
         \A s \in Commands : stopSet'[s] \subseteq stopSet[s] \ lost,
         DOMAIN work' = DOMAIN work,
         \A i \in DOMAIN work : /\ work'[i].by = work[i].by /\ work'[i].what = work[i].what
                                /\ work'[i].halts \subseteq work[i].halts \ lost
  PROVE  SilenceInv'
<1>1. \A i \in DOMAIN work : work[i].halts \subseteq Commands
  <2>1. \A i \in DOMAIN work : work[i] \in Job
    BY LenProperties, ElementOfSeq DEF StackInv, StackTypes
  <2>2. QED
    BY <2>1 DEF Job
<1>2. silenced \subseteq Commands /\ \A s \in Commands : stopSet[s] \subseteq Commands
  BY DEF StackInv, StackTypes
<1>3. \A c, n : Quiet(work, c, n) => Quiet(work', c, n)
  BY DEF Quiet
<1>4. \A c \in silenced' : Halted(c)' /\ Quiet(work', c, 0)
  BY <1>2, <1>3 DEF SilenceInv
<1>5. \A s \in Commands : \A c \in stopSet'[s] : Halted(c)'
  BY <1>2 DEF SilenceInv
<1>6. \A i \in DOMAIN work' : \A c \in work'[i].halts : Halted(c)' /\ Quiet(work', c, i)
  BY <1>1, <1>3 DEF SilenceInv
<1>7. QED
  BY <1>4, <1>5, <1>6 DEF SilenceInv

LEMMA SilenceKept ==
  ASSUME StackInv, SilenceInv,
         \A c \in Commands : Halted(c) => Halted(c)',
         silenced' = silenced, \A s \in Commands : stopSet'[s] \subseteq stopSet[s],
         DOMAIN work' = DOMAIN work,
         \A i \in DOMAIN work : /\ work'[i].by = work[i].by /\ work'[i].what = work[i].what
                                /\ work'[i].halts = work[i].halts
  PROVE  SilenceInv'
<1> DEFINE lost == {}
<1>1. /\ \A c \in Commands \ lost : Halted(c) => Halted(c)'
      /\ silenced' \subseteq silenced \ lost
      /\ \A s \in Commands : stopSet'[s] \subseteq stopSet[s] \ lost
      /\ \A i \in DOMAIN work : /\ work'[i].by = work[i].by /\ work'[i].what = work[i].what
                                /\ work'[i].halts \subseteq work[i].halts \ lost
  OBVIOUS
<1> HIDE DEF lost
<1>2. QED
  BY <1>1, SilenceSame

\* A job is added that halts only what is halted and is no Twist of a halted
\* command that moves the robot.
LEMMA SilenceAppend ==
  ASSUME StackInv, SilenceInv,
         \A c \in Commands : Halted(c) => Halted(c)',
         silenced' = silenced, NEW e \in Job, work' = Append(work, e),
         \A s \in Commands : \A c \in stopSet'[s] : Halted(c)',
         \A c \in e.halts : Halted(c)',
         ~Halted(e.by) \/ e.what # "go"
  PROVE  SilenceInv'
<1>1. work \in Seq(Job) /\ silenced \subseteq Commands
  BY DEF StackInv, StackTypes
<1>2. /\ Len(work) \in Nat /\ DOMAIN work = 1 .. Len(work)
      /\ DOMAIN work' = 1 .. Len(work) + 1
      /\ \A i \in DOMAIN work : work'[i] = work[i]
      /\ work'[Len(work) + 1] = e
  BY <1>1, AppendElements
<1>3. \A i \in DOMAIN work : i \in Nat /\ work[i].halts \subseteq Commands
  <2>1. \A i \in DOMAIN work : work[i] \in Job
    BY <1>1, LenProperties, ElementOfSeq
  <2>2. QED
    BY <1>2, <2>1 DEF Job
<1>4. ASSUME NEW c \in Commands, NEW n \in Nat, Halted(c), Quiet(work, c, n)
      PROVE  Halted(c)' /\ Quiet(work', c, n)
  BY <1>1, <1>4, AppendJob
<1>5. \A c \in silenced' : Halted(c)' /\ Quiet(work', c, 0)
  BY <1>1, <1>4 DEF SilenceInv
<1>6. ASSUME NEW i \in DOMAIN work', NEW c \in work'[i].halts
      PROVE  Halted(c)' /\ Quiet(work', c, i)
  <2>1. CASE i \in DOMAIN work
    BY <1>2, <1>3, <1>4, <1>6, <2>1 DEF SilenceInv
  <2>2. CASE i = Len(work) + 1
    BY <1>1, <1>2, <1>6, <2>2, AppendJob
  <2>3. QED
    BY <1>2, <2>1, <2>2
<1>7. QED
  BY <1>5, <1>6 DEF SilenceInv

LEMMA SilencePublish ==
  ASSUME StackInv, SilenceInv, NEW d \in Commands, NEW twist \in Twists,
         NEW halts \in SUBSET Commands, Publish(d, twist, halts), d \notin creating,
         ~Halted(d) \/ twist # "go",
         \A c \in Commands : token[c] # "live" => token'[c] # "live",
         \A c \in halts : Halted(c)',
         \A s \in Commands : \A c \in stopSet'[s] : Halted(c)',
         silenced' = silenced
  PROVE  SilenceInv'
<1>1. \A c \in Commands : Halted(c) => Halted(c)'
  <2>1. mv' = [mv EXCEPT ![d] = twist] /\ creating' \in {creating, creating \cup {d}}
    BY DEF Publish
  <2>2. mv'[d] = twist /\ \A c \in Commands \ {d} : mv'[c] = mv[c]
    BY <2>1 DEF StackInv, StackTypes
  <2>3. QED
    BY <2>1, <2>2 DEF Halted
<1>2. PICK e \in Job : /\ work' = Append(work, e) /\ e.by = d
                       /\ e.what \in {twist, "create"} /\ e.halts \subseteq halts
  <2>1. ASSUME NEW what \in Twists \cup {"create"}, NEW h \in SUBSET Commands
        PROVE  /\ NewJob(d, what, h) \in Job
               /\ NewJob(d, what, h).by = d
               /\ NewJob(d, what, h).what = what
               /\ NewJob(d, what, h).halts = h
    BY JobType DEF NewJob
  <2>2. CASE publisher
    BY <2>1, <2>2 DEF Publish, Enqueue
  <2>3. CASE ~publisher
    <3>1. NewJob(d, "create", {}) \in Job /\ NewJob(d, "create", {}).halts = {}
      BY <2>1
    <3>2. QED
      BY <2>1, <2>3, <3>1 DEF Publish, Enqueue
  <2>4. QED
    BY <2>2, <2>3
<1>3. QED
  BY <1>1, <1>2, SilenceAppend

LEMMA PlanSilence ==
  ASSUME StackInv, SilenceInv, NEW d \in Commands, Plan(d)
  PROVE  SilenceInv'
<1>1. mv[d] = "off" /\ d \notin creating /\ pc[d] = "pose"
  BY DEF Plan, PoseResolved, Runs, StackInv, PluginInv, InPlugin, Twists
<1>2. \/ Dispatch(d) /\ pc'[d] = "backend"
      \/ BeginStop(d) /\ pc'[d] = "stopMotion"
      \/ UNCHANGED registry /\ pc'[d] = "idle"
  <2>1. PoseResolved(d) /\ TaskStep(d)
    BY DEF Plan, TaskStep, Reply
  <2>2. \/ Dispatch(d)
        \/ BeginStop(d)
        \/ UNCHANGED registry /\ \E x, s : Finish(d, x, s)
    BY <2>1 DEF PoseResolved, Refuse
  <2>3. QED
    BY <2>2 DEF Dispatch, BeginStop, Goto, Finish, StackInv, IInv, TypeOK
<1>3. CASE BeginStop(d) /\ pc'[d] = "stopMotion"
  <2>1. \A c \in Commands : token[c] # "live" => token'[c] # "live"
    BY <1>3 DEF BeginStop
  <2>2. /\ stopSet' = [stopSet EXCEPT ![d] = Found(token')]
        /\ Publish(d, "zero", stopSet'[d])
        /\ silenced' = silenced
    BY <1>3 DEF Plan
  <2>3. /\ stopSet'[d] = Found(token') /\ Found(token') \subseteq Commands
        /\ \A s \in Commands \ {d} : stopSet'[s] = stopSet[s]
    BY <2>2 DEF Found, StackInv, StackTypes
  <2>4. \A c \in Commands : Halted(c) => Halted(c)'
    <3>1. mv' = [mv EXCEPT ![d] = "zero"] /\ creating' \in {creating, creating \cup {d}}
      BY <2>2 DEF Publish
    <3>2. mv'[d] = "zero" /\ \A c \in Commands \ {d} : mv'[c] = mv[c]
      BY <3>1 DEF StackInv, StackTypes
    <3>3. QED
      BY <2>1, <3>1, <3>2 DEF Halted
  <2>5. \A c \in Found(token') : Halted(c)'
    <3>1. mv' = [mv EXCEPT ![d] = "zero"] /\ creating' \in {creating, creating \cup {d}}
      BY <2>2 DEF Publish
    <3>2. mv'[d] = "zero"
      BY <3>1 DEF StackInv, StackTypes
    <3>3. QED
      BY <3>1, <3>2 DEF Found, Halted
  <2>6. \A s \in Commands : \A c \in stopSet'[s] : Halted(c)'
    BY <2>3, <2>4, <2>5 DEF SilenceInv, StackInv, StackTypes
  <2>7. QED
    BY <1>1, <2>1, <2>2, <2>3, <2>5, <2>6, SilencePublish DEF Twists
<1>4. CASE Dispatch(d) /\ pc'[d] = "backend"
  <2>1. /\ mv' = [mv EXCEPT ![d] = IF Op[d] = "MOVE" THEN "tick" ELSE "off"]
        /\ stopSet' = [s \in Commands |-> stopSet[s] \ {d}]
        /\ silenced' = silenced \ {d}
        /\ work' = [i \in DOMAIN work |-> [work[i] EXCEPT !.halts = @ \ {d}]]
        /\ creating' = creating
    BY <1>4 DEF Plan
  <2>2. \A c \in Commands \ {d} : Halted(c) => Halted(c)'
    BY <1>4, <2>1 DEF Halted, Dispatch, StackInv, StackTypes, IInv, TypeOK
  <2>3. ASSUME NEW i \in DOMAIN work
        PROVE  /\ work'[i].by = work[i].by /\ work'[i].what = work[i].what
               /\ work'[i].halts = work[i].halts \ {d}
    <3>1. work[i] \in Job
      BY LenProperties, ElementOfSeq DEF StackInv, StackTypes
    <3>2. QED
      BY <2>1, <3>1 DEF Job
  <2>4. QED
    BY <2>1, <2>2, <2>3, SilenceSame
<1>5. CASE UNCHANGED registry /\ pc'[d] = "idle"
  <2>1. UNCHANGED <<plugin, queues, history>>
    BY <1>5 DEF Plan
  <2>2. \A c \in Commands : Halted(c) => Halted(c)'
    BY <1>5, <2>1 DEF plugin, registry, Halted
  <2>3. QED
    BY <2>1, <2>2, SilenceKept DEF queues, history
<1>6. QED
  BY <1>2, <1>3, <1>4, <1>5

LEMMA RunJobSilence ==
  ASSUME StackInv, SilenceInv, RunJob
  PROVE  SilenceInv'
<1> DEFINE j == Head(work)
<1>1. /\ work \in Seq(Job) /\ work # <<>> /\ work' = Tail(work) /\ j \in Job
      /\ silenced' \in {silenced, silenced \cup j.halts}
      /\ mv' = mv /\ creating' = creating /\ token' = token /\ stopSet' = stopSet
  BY HeadTailProperties DEF RunJob, StackInv, StackTypes, plugin, vars
<1>2. /\ 1 \in DOMAIN work /\ j = work[1]
      /\ \A i \in DOMAIN work' : i \in Nat /\ i + 1 \in DOMAIN work /\ work'[i] = work[i + 1]
  BY <1>1, TailElements
<1>3. \A c : Halted(c) => Halted(c)'
  BY <1>1 DEF Halted
<1>4. \A c : \A n \in Nat : (Quiet(work, c, n + 1) => Quiet(work', c, n))
                            /\ (Quiet(work, c, n) => Quiet(work', c, n))
  BY <1>1, TailJob
<1>5. \A c : Quiet(work, c, 1) => Quiet(work', c, 0)
  BY <1>4
<1> HIDE DEF j
<1>6. \A c \in silenced : Halted(c)' /\ Quiet(work', c, 0)
  BY <1>3, <1>4 DEF SilenceInv
<1>7. \A c \in j.halts : Halted(c)' /\ Quiet(work', c, 0)
  BY <1>2, <1>3, <1>5 DEF SilenceInv
<1>8. \A i \in DOMAIN work' : \A c \in work'[i].halts : Halted(c)' /\ Quiet(work', c, i)
  BY <1>2, <1>3, <1>4 DEF SilenceInv
<1>9. \A s \in Commands : \A c \in stopSet'[s] : Halted(c)'
  BY <1>1, <1>3 DEF SilenceInv
<1>10. QED
  BY <1>1, <1>6, <1>7, <1>8, <1>9 DEF SilenceInv

LEMMA GoOnSilence ==
  ASSUME StackInv, SilenceInv, NEW d \in Commands, NEW ok, GoOn(d, ok), silenced' = silenced
  PROVE  SilenceInv'
<1>1. CASE /\ d \in creating
           /\ creating' = creating \ {d}
           /\ work' = Append(work, NewJob(d, mv[d], stopSet[d]))
           /\ UNCHANGED <<vars, mv, out, stopSet>>
  <2> DEFINE e == NewJob(d, mv[d], stopSet[d])
  <2>1. mv[d] \in Twists /\ stopSet[d] \in SUBSET Commands
    BY <1>1 DEF StackInv, PluginInv, StackTypes
  <2>2. e \in Job /\ e.by = d /\ e.what = mv[d] /\ e.halts = stopSet[d]
    BY <2>1, JobType DEF NewJob
  <2>3. \A c \in Commands : Halted(c) => Halted(c)'
    BY <1>1 DEF vars, Halted
  <2>4. ~Halted(d) \/ mv[d] # "go"
    BY <1>1 DEF Halted
  <2>5. \A s \in Commands : \A c \in stopSet[s] : Halted(c)'
    BY <2>3 DEF SilenceInv, StackInv, StackTypes
  <2>6. work' = Append(work, e) /\ stopSet' = stopSet
    BY <1>1
  <2> HIDE DEF e
  <2>7. QED
    BY <2>2, <2>3, <2>4, <2>5, <2>6, SilenceAppend
<1>2. CASE /\ d \notin creating /\ mv' = [mv EXCEPT ![d] = "sleep"]
           /\ UNCHANGED <<vars, creating, work, stopSet>>
  <2>1. \A c \in Commands : Halted(c) => Halted(c)'
    BY <1>2 DEF vars, Halted, StackInv, StackTypes
  <2>2. QED
    BY <1>2, <2>1, SilenceKept
<1>3. CASE /\ StopMotionReturn(d) \/ StopRaises(d) \/ BackendReturn(d)
           /\ Leave(d) /\ stopSet' = [stopSet EXCEPT ![d] = {}] /\ work' = work
  <2>1. \A c \in Commands : token[c] # "live" => token'[c] # "live"
    BY <1>3, TokensKept
  <2>2. \A c \in Commands : Halted(c) => Halted(c)'
    BY <1>3, <2>1 DEF Leave, Halted, StackInv, StackTypes
  <2>3. \A s \in Commands : stopSet'[s] \subseteq stopSet[s]
    BY <1>3 DEF StackInv, StackTypes
  <2>4. QED
    BY <1>3, <2>2, <2>3, SilenceKept
<1>4. QED
  BY <1>1, <1>2, <1>3 DEF GoOn

LEMMA SilenceStep == StackInv /\ SilenceInv /\ [StackNext]_stackVars => SilenceInv'
<1> SUFFICES ASSUME StackInv, SilenceInv, [StackNext]_stackVars PROVE SilenceInv'
  OBVIOUS
<1>1. ASSUME UNCHANGED <<creating, mv, work, history>>,
             \A c \in Commands : token[c] # "live" => token'[c] # "live"
      PROVE  SilenceInv'
  <2>1. \A c \in Commands : Halted(c) => Halted(c)'
    BY <1>1 DEF Halted
  <2>2. QED
    BY <1>1, <2>1, SilenceKept DEF history
<1>2. CASE Elsewhere
  <2>1. \A c \in Commands : token[c] # "live" => token'[c] # "live"
    <3>1. CASE \E r \in Requests : Submit(r) \/ Return(r) \/ CancelRequest(r)
      BY <3>1 DEF Submit, SubmitNew, SubmitDuplicate, Return, CancelRequest, registry
    <3>2. ASSUME NEW d \in Commands,
                 \/ Cancel(d) \/ Start(d) \/ ReadReturn(d) \/ PoseRaises(d) \/ StopNavReturn(d)
                 \/ StopRaises(d) \/ BackendReturn(d)
          PROVE  \A c \in Commands : token[c] # "live" => token'[c] # "live"
      BY <3>2, TokensKept
    <3>3. QED
      BY <1>2, <3>1, <3>2 DEF Elsewhere
  <2>2. QED
    BY <1>1, <1>2, <2>1 DEF Elsewhere, plugin, queues
<1>3. CASE RunJob
  BY <1>3, RunJobSilence
<1>4. CASE Resume
  <2>1. silenced' = silenced /\ woken # <<>>
    BY <1>4 DEF Resume
  <2>2. CASE Head(woken).task = NoCommand
    <3>1. UNCHANGED <<vars, plugin, work, stopSet>>
      BY <1>4, <2>2 DEF Resume
    <3>2. QED
      BY <1>1, <2>1, <3>1 DEF vars, plugin, history
  <2>3. CASE Head(woken).task # NoCommand
    <3>1. Head(woken) \in Answer
      BY <2>1, HeadTailProperties DEF StackInv, StackTypes
    <3>2. Head(woken).task \in Commands
      BY <2>3, <3>1 DEF Answer
    <3>3. GoOn(Head(woken).task, Head(woken).ok)
      BY <1>4, <2>3 DEF Resume
    <3>4. QED
      BY <2>1, <3>2, <3>3, GoOnSilence
  <2>4. QED
    BY <2>2, <2>3
<1>5. ASSUME NEW d \in Commands, Plan(d)
      PROVE  SilenceInv'
  BY <1>5, PlanSilence
<1>6. ASSUME NEW d \in Commands, Tick(d)
      PROVE  SilenceInv'
  <2>1. mv[d] = "tick" /\ d \notin creating /\ token' = token
        /\ stopSet' = stopSet /\ silenced' = silenced
    BY <1>6 DEF Tick, vars, history, StackInv, PluginInv, Twists
  <2>2. CASE \E twist \in Twists : Publish(d, twist, {}) /\ (twist = "go" => token[d] = "live")
    <3>1. PICK twist \in Twists : Publish(d, twist, {}) /\ (twist = "go" => token[d] = "live")
      BY <2>2
    <3>2. \A c \in Commands : Halted(c) => Halted(c)'
      <4>1. mv' = [mv EXCEPT ![d] = twist] /\ creating' \in {creating, creating \cup {d}}
        BY <3>1 DEF Publish
      <4>2. mv'[d] = twist /\ \A c \in Commands \ {d} : mv'[c] = mv[c]
        BY <4>1 DEF StackInv, StackTypes
      <4>3. QED
        BY <2>1, <3>1, <4>1, <4>2 DEF Halted
    <3>3. \A s \in Commands : \A c \in stopSet'[s] : Halted(c)'
      BY <2>1, <3>2 DEF SilenceInv, StackInv, StackTypes
    <3>4. QED
      BY <2>1, <3>1, <3>3, SilencePublish DEF Halted
  <2>3. CASE mv' = [mv EXCEPT ![d] = "sleep"] /\ UNCHANGED <<creating, out, publisher, queues>>
    <3>1. \A c \in Commands : Halted(c) => Halted(c)'
      BY <2>1, <2>3 DEF Halted, StackInv, StackTypes
    <3>2. QED
      BY <2>1, <2>3, <3>1, SilenceKept DEF queues
  <2>4. QED
    BY <1>6, <2>2, <2>3 DEF Tick, Twists
<1>7. ASSUME NEW d \in Commands, Awake(d)
      PROVE  SilenceInv'
  <2>1. /\ mv[d] = "sleep" /\ d \notin creating /\ token' = token /\ work' = work
        /\ creating' = creating /\ mv' = [mv EXCEPT ![d] = "tick"]
        /\ stopSet' = stopSet /\ silenced' = silenced
    BY <1>7 DEF Awake, vars, queues, history, StackInv, PluginInv, Twists
  <2>2. \A c \in Commands : Halted(c) => Halted(c)'
    BY <2>1 DEF Halted, StackInv, StackTypes
  <2>3. QED
    BY <2>1, <2>2, SilenceKept
<1>8. ASSUME NEW d \in Commands, Abort(d)
      PROVE  SilenceInv'
  <2>1. \A c \in Commands : token[c] # "live" => token'[c] # "live"
    BY <1>8, TokensKept DEF Abort
  <2>2. \A c \in Commands : Halted(c) => Halted(c)'
    BY <1>8, <2>1 DEF Abort, Leave, Halted, StackInv, StackTypes
  <2>3. DOMAIN work' = DOMAIN work
    BY <1>8 DEF Abort, Forsake
  <2>4. ASSUME NEW i \in DOMAIN work
        PROVE  /\ work'[i].by = work[i].by /\ work'[i].what = work[i].what
               /\ work'[i].halts = work[i].halts
    <3>1. work[i] \in Job
      BY LenProperties, ElementOfSeq DEF StackInv, StackTypes
    <3>2. QED
      BY <1>8, <3>1 DEF Abort, Forsake, Job
  <2>5. silenced' = silenced /\ \A s \in Commands : stopSet'[s] \subseteq stopSet[s]
    BY <1>8 DEF Abort, StackInv, StackTypes
  <2>6. QED
    BY <2>2, <2>3, <2>4, <2>5, SilenceKept
<1>9. CASE UNCHANGED stackVars
  BY <1>1, <1>9 DEF stackVars, vars, plugin, queues
<1>10. QED
  BY <1>2, <1>3, <1>4, <1>5, <1>6, <1>7, <1>8, <1>9 DEF StackNext, Coroutine

LEMMA SilenceInit == StackInit => SilenceInv
<1> SUFFICES ASSUME StackInit PROVE SilenceInv
  OBVIOUS
<1>1. silenced = {} /\ DOMAIN work = {} /\ \A s \in Commands : stopSet[s] = {}
  BY DEF StackInit
<1>2. QED
  BY <1>1 DEF SilenceInv

\* A Twist of a command that a STOP found cancelled and has silenced is zero.
SilencedTwists == \A c \in silenced : wire' # wire /\ wire'.by = c => wire'.what = "zero"

\* Once the zero Twist of a robot.stop is published, no command that the STOP
\* found cancelled sets the robot in motion before it is dispatched again.
THEOREM StopsSilence == StackSpec => StopSilences
<1>1. StackInv /\ SilenceInv /\ [StackNext]_stackVars => [SilencedTwists]_stackVars
  <2> SUFFICES ASSUME StackInv, SilenceInv, StackNext, NEW c \in silenced,
                      wire' # wire, wire'.by = c
               PROVE  wire'.what = "zero"
    BY DEF SilencedTwists
  <2>1. RunJob
    BY DEF StackNext, Elsewhere, Resume, Coroutine, Plan, Tick, Awake, Abort
  <2>2. /\ work \in Seq(Job) /\ work # <<>> /\ Head(work) \in Job
        /\ Head(work).what # "create" /\ wire' = [by |-> Head(work).by, what |-> Head(work).what]
    BY <2>1, HeadTailProperties DEF RunJob, StackInv, StackTypes
  <2>3. Head(work).what # "go"
    BY <2>2, TailJob DEF SilenceInv
  <2>4. QED
    BY <2>2, <2>3 DEF Job, Twists
<1>2. StackSpec => [](StackInv /\ SilenceInv)
  <2>1. StackInit => StackInv /\ SilenceInv
    BY StackInitInv, SilenceInit
  <2>2. QED
    BY <2>1, StackStepInv, SilenceStep, PTL DEF StackSpec
<1>3. QED
  BY <1>1, <1>2, PTL DEF StackSpec, StopSilences, SilencedTwists
=============================================================================
