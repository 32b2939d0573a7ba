------------------------ MODULE ExecutionManagerProofs ------------------------
(***************************************************************************)
(* TLAPS proofs of the safety properties of ExecutionManager, for every    *)
(* set of commands, submit() calls and robots.                             *)
(***************************************************************************)
EXTENDS ExecutionManager, TLAPS

\* What the bookkeeping of submit() needs besides the properties themselves:
\* a call in progress names a command, and the call that made a future is woken
\* exactly when that future is done.
CallsConsistent ==
  /\ \A r \in Requests : reqState[r] # "idle" => reqCmd[r] \in Commands
  /\ \A r \in owners : /\ reqState[r] # "idle"
                       /\ reqState[r] = "ready" => inFlight[reqCmd[r]] # "pending"

\* A CancelledError is only on its way to a task that exists, and the command
\* dispatched last for a robot is one of that robot's.
TasksConsistent ==
  /\ \A c \in cancelReq : pc[c] # "idle"
  /\ \A b \in Robots : latest[b] # NoCommand => RobotOf[latest[b]] = b

\* The inductive invariant.
IInv == /\ TypeOK /\ TokenWhileBacked /\ ActiveIsLatest /\ InFlightOwned
        /\ NoLostWakeup /\ CallsConsistent /\ TasksConsistent

-----------------------------------------------------------------------------
(* What a step of a task can look like, seen from the calls and from the   *)
(* registries.                                                             *)

TaskStep(c) == LoopStep(c) \/ Reply(c)

\* A task step ends the task through Finish or moves it on through Goto.
LEMMA TaskShape ==
  ASSUME IInv, NEW c \in Commands, TaskStep(c)
  PROVE  /\ pc[c] # "idle"
         /\ \/ \E x \in Result, s \in ExecutionState : Finish(c, x, s)
            \/ \E w \in Waits \ {"idle"}, s \in ExecutionState : Goto(c, w, s)
<1> USE DEF Result, ExecutionState, Terminal, Waits, Runs
<1>1. CASE Start(c)
  BY <1>1 DEF Start
<1>2. CASE ReadReturn(c)
  BY <1>2 DEF ReadReturn, Status
<1>3. CASE PoseResolved(c)
  <2>1. PICK d \in SafetyDecisions(c) :
          \/ Refuse(c, d)
          \/ BeginStop(c)
          \/ Dispatch(c)
          \/ Finish(c, "CAPABILITY_UNAVAILABLE", "CAPABILITY_UNAVAILABLE")
    BY <1>3 DEF PoseResolved
  <2>2. QED
    BY <1>3, <2>1 DEF PoseResolved, Refuse, BeginStop, Dispatch
<1>4. CASE PoseRaises(c) \/ StopRaises(c) \/ StopNavReturn(c) \/ StopMotionReturn(c)
  BY <1>4 DEF PoseRaises, StopRaises, StopNavReturn, StopMotionReturn
<1>5. CASE BackendReturn(c)
  BY <1>5 DEF BackendReturn, Status
<1>6. CASE BackstopTimeout(c)
  BY <1>6 DEF BackstopTimeout
<1>7. CASE TaskCancelled(c)
  <2>1. pc[c] # "idle" /\ state[c] \in ExecutionState
    BY <1>7 DEF TaskCancelled, IInv, TasksConsistent, TypeOK
  <2>2. QED
    BY <1>7, <2>1 DEF TaskCancelled
<1>8. QED
  BY <1>1, <1>2, <1>3, <1>4, <1>5, <1>6, <1>7 DEF TaskStep, LoopStep, Reply

\* A task step dispatches the command, starts a stop, releases what the
\* command held, or leaves the registries alone.
LEMMA RegistryShape ==
  ASSUME IInv, NEW c \in Commands, TaskStep(c)
  PROVE  \/ pc[c] = "pose" /\ Dispatch(c)
         \/ pc[c] = "pose" /\ BeginStop(c)
         \/ Backing(c) /\ pc' = [pc EXCEPT ![c] = "idle"] /\ Release(c)
         \/ /\ ~Backing(c) /\ UNCHANGED <<token, active, latest>>
            /\ \E w \in Waits \ {"backend"} :
                 pc' = [pc EXCEPT ![c] = w] /\ (w = "stopMotion" => pc[c] # "pose")
<1> USE DEF Runs, Backing, Waits, registry, Finish, Goto
<1>1. CASE Start(c)
  BY <1>1 DEF Start
<1>2. CASE ReadReturn(c)
  BY <1>2 DEF ReadReturn
<1>3. CASE PoseResolved(c)
  <2>1. pc[c] = "pose"
    BY <1>3 DEF PoseResolved
  <2>2. PICK d \in SafetyDecisions(c) :
          \/ Refuse(c, d)
          \/ BeginStop(c)
          \/ Dispatch(c)
          \/ /\ Finish(c, "CAPABILITY_UNAVAILABLE", "CAPABILITY_UNAVAILABLE")
             /\ UNCHANGED <<registry, latest>>
    BY <1>3 DEF PoseResolved
  <2>3. QED
    BY <2>1, <2>2 DEF Refuse
<1>4. CASE PoseRaises(c) \/ StopRaises(c) \/ StopNavReturn(c) \/ StopMotionReturn(c)
  BY <1>4 DEF PoseRaises, StopRaises, StopNavReturn, StopMotionReturn
<1>5. CASE BackendReturn(c)
  BY <1>5 DEF BackendReturn
<1>6. CASE BackstopTimeout(c)
  BY <1>6 DEF BackstopTimeout
<1>7. CASE TaskCancelled(c)
  <2>1. pc' = [pc EXCEPT ![c] = "idle"]
    BY <1>7 DEF TaskCancelled
  <2>2. CASE Backing(c)
    BY <1>7, <2>1, <2>2 DEF TaskCancelled
  <2>3. CASE ~Backing(c)
    <3>1. UNCHANGED <<token, active, latest>>
      BY <1>7, <2>3 DEF TaskCancelled
    <3>2. /\ "idle" \in Waits \ {"backend"}
          /\ pc' = [pc EXCEPT ![c] = "idle"] /\ ("idle" = "stopMotion" => pc[c] # "pose")
      BY <2>1
    <3>3. \E w \in Waits \ {"backend"} :
            pc' = [pc EXCEPT ![c] = w] /\ (w = "stopMotion" => pc[c] # "pose")
      BY <3>2, Zenon
    <3>4. QED
      BY <2>3, <3>1, <3>3, Zenon
  <2>4. QED
    BY <2>2, <2>3
<1>8. QED
  BY <1>1, <1>2, <1>3, <1>4, <1>5, <1>6, <1>7 DEF TaskStep, LoopStep, Reply

-----------------------------------------------------------------------------
(* Type correctness.                                                       *)

LEMMA FinishType ==
  ASSUME TypeOK, NEW c \in Commands, NEW x \in Result, NEW s \in ExecutionState,
         Finish(c, x, s)
  PROVE  /\ pc' \in [Commands -> Waits]
         /\ state' \in [Commands -> ExecutionState]
         /\ inFlight' \in [Commands -> {"absent", "pending"} \cup Result]
         /\ cancelReq' \in SUBSET Commands
         /\ reqState' \in [Requests -> {"idle", "waiting", "ready"}]
         /\ reqResult' \in [Requests -> Result \cup {"none"}]
         /\ reqCmd' \in [Requests -> Commands \cup {NoCommand}]
         /\ owners' \in SUBSET Requests
BY DEF TypeOK, Finish, Waits

LEMMA GotoType ==
  ASSUME TypeOK, NEW c \in Commands, NEW w \in Waits, NEW s \in ExecutionState,
         Goto(c, w, s)
  PROVE  /\ pc' \in [Commands -> Waits]
         /\ state' \in [Commands -> ExecutionState]
         /\ inFlight' \in [Commands -> {"absent", "pending"} \cup Result]
         /\ cancelReq' \in SUBSET Commands
         /\ reqState' \in [Requests -> {"idle", "waiting", "ready"}]
         /\ reqResult' \in [Requests -> Result \cup {"none"}]
         /\ reqCmd' \in [Requests -> Commands \cup {NoCommand}]
         /\ owners' \in SUBSET Requests
BY DEF TypeOK, Goto, calls

LEMMA RegistryType ==
  ASSUME TypeOK, IInv, NEW c \in Commands, TaskStep(c)
  PROVE  /\ token' \in [Commands -> {"none", "live", "cancelled"}]
         /\ active' \in [Robots -> Commands \cup {NoCommand}]
         /\ latest' \in [Robots -> Commands \cup {NoCommand}]
<1>1. RobotOf[c] \in Robots
  BY CommandsAssumption
<1>2. CASE Dispatch(c)
  BY <1>1, <1>2 DEF Dispatch, TypeOK
<1>3. CASE BeginStop(c)
  BY <1>1, <1>3 DEF BeginStop, TypeOK
<1>4. CASE Release(c)
  BY <1>1, <1>4 DEF Release, TypeOK
<1>5. CASE UNCHANGED <<token, active, latest>>
  BY <1>5 DEF TypeOK
<1>6. QED
  BY <1>2, <1>3, <1>4, <1>5, RegistryShape

LEMMA TypeStep == IInv /\ [Next]_vars => TypeOK'
<1> SUFFICES ASSUME IInv, [Next]_vars PROVE TypeOK'
  OBVIOUS
<1>0. TypeOK
  BY DEF IInv
<1>1. ASSUME NEW r \in Requests, NEW c \in Commands, SubmitNew(r, c)
      PROVE  TypeOK'
  BY <1>0, <1>1 DEF TypeOK, SubmitNew, Waits, registry
<1>2. ASSUME NEW r \in Requests, NEW c \in Commands, SubmitDuplicate(r, c)
      PROVE  TypeOK'
  BY <1>0, <1>2 DEF TypeOK, SubmitDuplicate, registry
<1>3. ASSUME NEW r \in Requests, Return(r)
      PROVE  TypeOK'
  <2>1. CASE r \in owners
    BY <1>0, <1>3, <2>1 DEF TypeOK, Return, registry, ExecutionState
  <2>2. CASE r \notin owners
    BY <1>0, <1>3, <2>2 DEF TypeOK, Return, registry
  <2>3. QED
    BY <2>1, <2>2
<1>4. ASSUME NEW r \in Requests, CancelRequest(r)
      PROVE  TypeOK'
  <2>1. reqState[r] # "idle" => reqCmd[r] \in Commands
    BY DEF IInv, CallsConsistent
  <2>2. QED
    BY <1>0, <1>4, <2>1 DEF TypeOK, CancelRequest, registry, Result
<1>5. ASSUME NEW c \in Commands, Cancel(c)
      PROVE  TypeOK'
  BY <1>0, <1>5 DEF TypeOK, Cancel, calls
<1>6. ASSUME NEW c \in Commands, TaskStep(c)
      PROVE  TypeOK'
  <2>1. CASE \E x \in Result, s \in ExecutionState : Finish(c, x, s)
    BY <1>0, <1>6, <2>1, FinishType, RegistryType DEF TypeOK
  <2>2. CASE \E w \in Waits \ {"idle"}, s \in ExecutionState : Goto(c, w, s)
    BY <1>0, <1>6, <2>2, GotoType, RegistryType DEF TypeOK
  <2>3. QED
    BY <1>6, <2>1, <2>2, TaskShape
<1>7. CASE UNCHANGED vars
  BY <1>0, <1>7 DEF TypeOK, vars
<1>8. QED
  BY <1>1, <1>2, <1>3, <1>4, <1>5, <1>6, <1>7 DEF Next, Submit, TaskStep

-----------------------------------------------------------------------------
(* The registries of dispatched commands.                                  *)

RegistryInv == TokenWhileBacked /\ ActiveIsLatest /\
               \A b \in Robots : latest[b] # NoCommand => RobotOf[latest[b]] = b

LEMMA RegistryStep ==
  ASSUME IInv, NEW c \in Commands, TaskStep(c)
  PROVE  RegistryInv'
<1> USE CommandsAssumption DEF IInv, TypeOK, RegistryInv, TokenWhileBacked,
        ActiveIsLatest, TasksConsistent, Backing
<1>1. CASE pc[c] = "pose" /\ Dispatch(c)
  BY <1>1 DEF Dispatch, Goto
<1>2. CASE pc[c] = "pose" /\ BeginStop(c)
  BY <1>2 DEF BeginStop, Goto
<1>3. CASE Backing(c) /\ pc' = [pc EXCEPT ![c] = "idle"] /\ Release(c)
  <2>1. TokenWhileBacked'
    BY <1>3 DEF Release
  <2>2. ASSUME NEW b \in Robots
        PROVE  active'[b] = IF latest'[b] # NoCommand /\ pc'[latest'[b]] = "backend"
                              THEN latest'[b] ELSE NoCommand
    <3>1. CASE b = RobotOf[c]
      BY <1>3, <3>1 DEF Release
    <3>2. CASE b # RobotOf[c]
      BY <1>3, <3>2 DEF Release
    <3>3. QED
      BY <3>1, <3>2
  <2>3. QED
    BY <1>3, <2>1, <2>2 DEF Release
<1>4. CASE /\ ~Backing(c) /\ UNCHANGED <<token, active, latest>>
           /\ \E w \in Waits \ {"backend"} : pc' = [pc EXCEPT ![c] = w]
  BY <1>4
<1>5. QED
  BY <1>1, <1>2, <1>3, <1>4, RegistryShape

-----------------------------------------------------------------------------
(* The calls and the futures they wait for.                                *)

CallInv == /\ InFlightOwned /\ NoLostWakeup /\ CallsConsistent
           /\ \A c \in cancelReq : pc[c] # "idle"

LEMMA FinishCalls ==
  ASSUME IInv, NEW c \in Commands, NEW x \in Result, NEW s \in ExecutionState,
         pc[c] # "idle", Finish(c, x, s)
  PROVE  CallInv'
<1> USE DEF IInv, TypeOK, CallInv, CallsConsistent, TasksConsistent
<1>0. x # "pending" /\ x # "absent" /\ inFlight[c] = "pending"
  BY DEF Result, NoLostWakeup
<1>1. InFlightOwned'
  BY <1>0 DEF Finish, InFlightOwned
<1>2. NoLostWakeup'
  BY <1>0 DEF Finish, NoLostWakeup
<1>3. CallsConsistent'
  BY <1>0 DEF Finish, NoLostWakeup
<1>4. (\A d \in cancelReq : pc[d] # "idle")'
  BY DEF Finish
<1>5. QED
  BY <1>1, <1>2, <1>3, <1>4

LEMMA GotoCalls ==
  ASSUME IInv, NEW c \in Commands, NEW w \in Waits \ {"idle"},
         NEW s \in ExecutionState, pc[c] # "idle", Goto(c, w, s)
  PROVE  CallInv'
BY DEF IInv, TypeOK, CallInv, CallsConsistent, TasksConsistent, InFlightOwned,
       NoLostWakeup, Goto, calls

\* Steps of the calls themselves.
LEMMA CallStep ==
  ASSUME IInv, NEW r \in Requests, NEW c \in Commands,
         SubmitNew(r, c) \/ SubmitDuplicate(r, c) \/ Return(r) \/ CancelRequest(r)
  PROVE  CallInv'
<1> USE DEF IInv, TypeOK, CallInv, CallsConsistent, TasksConsistent,
            InFlightOwned, NoLostWakeup
<1>1. CASE SubmitNew(r, c)
  <2>1. r \notin owners
    BY <1>1 DEF SubmitNew
  <2>2. InFlightOwned'
    BY <1>1, <2>1 DEF SubmitNew
  <2>3. NoLostWakeup'
    BY <1>1 DEF SubmitNew
  <2>4. CallsConsistent'
    BY <1>1, <2>1 DEF SubmitNew
  <2>5. QED
    BY <1>1, <2>2, <2>3, <2>4 DEF SubmitNew
<1>2. CASE SubmitDuplicate(r, c)
  <2>1. r \notin owners
    BY <1>2 DEF SubmitDuplicate
  <2>2. InFlightOwned'
    BY <1>2, <2>1 DEF SubmitDuplicate
  <2>3. NoLostWakeup'
    BY <1>2 DEF SubmitDuplicate
  <2>4. CallsConsistent'
    BY <1>2, <2>1 DEF SubmitDuplicate
  <2>5. QED
    BY <1>2, <2>2, <2>3, <2>4 DEF SubmitDuplicate
<1>3. CASE Return(r)
  <2>1. CASE r \in owners
    <3>1. /\ reqCmd[r] \in Commands /\ inFlight[reqCmd[r]] # "pending"
          /\ \A q \in owners \ {r} : reqCmd[q] # reqCmd[r]
      BY <1>3, <2>1 DEF Return
    <3>2. InFlightOwned'
      BY <1>3, <2>1, <3>1 DEF Return
    <3>3. NoLostWakeup'
      BY <1>3, <2>1, <3>1 DEF Return
    <3>4. CallsConsistent'
      BY <1>3, <2>1, <3>1 DEF Return
    <3>5. QED
      BY <1>3, <2>1, <3>2, <3>3, <3>4 DEF Return
  <2>2. CASE r \notin owners
    BY <1>3, <2>2 DEF Return
  <2>3. QED
    BY <2>1, <2>2
<1>4. CASE CancelRequest(r)
  <2>1. reqState[r] = "waiting" => pc[reqCmd[r]] # "idle"
    OBVIOUS
  <2>2. QED
    BY <1>4, <2>1 DEF CancelRequest
<1>5. QED
  BY <1>1, <1>2, <1>3, <1>4

-----------------------------------------------------------------------------
(* The inductive invariant, and the theorems that follow from it.          *)

LEMMA InitInv == Init => IInv
BY DEF Init, IInv, TypeOK, TokenWhileBacked, ActiveIsLatest, InFlightOwned,
       NoLostWakeup, CallsConsistent, TasksConsistent, Backing, Waits, ExecutionState

LEMMA StepInv == IInv /\ [Next]_vars => IInv'
<1> SUFFICES ASSUME IInv, [Next]_vars PROVE IInv'
  OBVIOUS
<1>1. TypeOK'
  BY TypeStep
<1>2. ASSUME NEW r \in Requests, NEW c \in Commands,
             SubmitNew(r, c) \/ SubmitDuplicate(r, c) \/ Return(r) \/ CancelRequest(r)
      PROVE  RegistryInv' /\ CallInv'
  <2>1. CallInv'
    BY <1>2, CallStep
  <2>2. UNCHANGED <<token, active, latest>> /\ \A d \in Commands : Backing(d)' <=> Backing(d)
    BY <1>2 DEF SubmitNew, SubmitDuplicate, Return, CancelRequest, registry, Backing,
                IInv, TypeOK, NoLostWakeup
  <2>3. RegistryInv'
    BY <2>2 DEF RegistryInv, IInv, TypeOK, TokenWhileBacked, ActiveIsLatest,
                TasksConsistent, Backing
  <2>4. QED
    BY <2>1, <2>3
<1>3. ASSUME NEW c \in Commands, Cancel(c)
      PROVE  RegistryInv' /\ CallInv'
  BY <1>3 DEF Cancel, calls, RegistryInv, CallInv, IInv, TypeOK, TokenWhileBacked,
     ActiveIsLatest, InFlightOwned, NoLostWakeup, CallsConsistent, TasksConsistent, Backing
<1>4. ASSUME NEW c \in Commands, TaskStep(c)
      PROVE  RegistryInv' /\ CallInv'
  BY <1>4, RegistryStep, TaskShape, FinishCalls, GotoCalls
<1>5. ASSUME UNCHANGED vars
      PROVE  RegistryInv' /\ CallInv'
  BY <1>5 DEF vars, RegistryInv, CallInv, IInv, TypeOK, TokenWhileBacked,
     ActiveIsLatest, InFlightOwned, NoLostWakeup, CallsConsistent, TasksConsistent, Backing
<1>6. ASSUME NEW r \in Requests, Return(r) \/ CancelRequest(r)
      PROVE  RegistryInv' /\ CallInv'
  <2>1. reqCmd[r] \in Commands
    BY <1>6 DEF Return, CancelRequest, IInv, CallsConsistent
  <2>2. QED
    BY <1>2, <1>6, <2>1
<1>7. RegistryInv' /\ CallInv'
  <2>1. CASE \E r \in Requests : Submit(r) \/ Return(r) \/ CancelRequest(r)
    BY <1>2, <1>6, <2>1 DEF Submit
  <2>2. CASE \E c \in Commands : Cancel(c) \/ LoopStep(c) \/ Reply(c)
    BY <1>3, <1>4, <2>2 DEF TaskStep
  <2>3. QED
    BY <1>5, <2>1, <2>2 DEF Next
<1>8. QED
  BY <1>1, <1>7 DEF IInv, RegistryInv, CallInv, TasksConsistent

LEMMA Invariance == Spec => []IInv
BY InitInv, StepInv, PTL DEF Spec

\* Every variable of the manager keeps its type.
THEOREM TypeCorrect == Spec => []TypeOK
BY Invariance, PTL DEF IInv

\* The token table follows the back ends on every path out of the dispatch.
THEOREM TokensMatch == Spec => []TokenWhileBacked
BY Invariance, PTL DEF IInv

\* The active-command table names the command dispatched last while it runs.
THEOREM ActiveCorrect == Spec => []ActiveIsLatest
BY Invariance, PTL DEF IInv

\* Every registered future has exactly one call that will unregister it.
THEOREM NoLeakedFuture == Spec => []InFlightOwned
BY Invariance, PTL DEF IInv

\* No call waits for a future that nobody will complete.
THEOREM NoLostCall == Spec => []NoLostWakeup
BY Invariance, PTL DEF IInv

-----------------------------------------------------------------------------
(* What the calls are told agrees with the state the command ended in.     *)

\* The states a command is left in when it has been decided.
Over == Terminal \cup {"AWAITING_APPROVAL"}

\* The state a command is in when its future holds x.
EndState(x) == CASE x = "succeeded" -> "SUCCEEDED"
                 [] x = "awaiting_approval" -> "AWAITING_APPROVAL"
                 [] x \in {"SAFETY_REJECTED", "CAPABILITY_UNAVAILABLE"} -> x
                 [] OTHER -> "FAILED"

\* A task that ends with a result leaves the state that goes with it; one that
\* goes on, or that CancelledError ends, leaves no state of a decided command.
LEMMA EndsAgree ==
  ASSUME IInv, NEW c \in Commands, TaskStep(c)
  PROVE  /\ pc[c] # "idle"
         /\ \/ \E x \in Result, s \in ExecutionState :
                 /\ Finish(c, x, s)
                 /\ IF x = "cancelled" THEN s = state[c] ELSE s = EndState(x)
            \/ \E w \in Waits \ {"idle"}, s \in ExecutionState \ Over : Goto(c, w, s)
<1> USE DEF Result, ExecutionState, Terminal, Over, Waits, Runs, EndState
<1>0. pc[c] # "idle"
  BY TaskShape
<1>1. CASE Start(c)
  BY <1>0, <1>1 DEF Start
<1>2. CASE ReadReturn(c)
  BY <1>0, <1>2 DEF ReadReturn, Status
<1>3. CASE PoseResolved(c)
  <2>1. PICK d \in SafetyDecisions(c) :
          \/ Refuse(c, d)
          \/ BeginStop(c)
          \/ Dispatch(c)
          \/ Finish(c, "CAPABILITY_UNAVAILABLE", "CAPABILITY_UNAVAILABLE")
    BY <1>3 DEF PoseResolved
  <2>2. QED
    BY <1>0, <2>1 DEF Refuse, BeginStop, Dispatch
<1>4. CASE PoseRaises(c) \/ StopRaises(c) \/ StopNavReturn(c) \/ StopMotionReturn(c)
  BY <1>0, <1>4 DEF PoseRaises, StopRaises, StopNavReturn, StopMotionReturn
<1>5. CASE BackendReturn(c)
  BY <1>0, <1>5 DEF BackendReturn, Status
<1>6. CASE BackstopTimeout(c)
  BY <1>0, <1>6 DEF BackstopTimeout
<1>7. CASE TaskCancelled(c)
  <2>1. state[c] \in ExecutionState
    BY <1>7 DEF TaskCancelled, IInv, TypeOK
  <2>2. QED
    BY <1>0, <1>7, <2>1 DEF TaskCancelled
<1>8. QED
  BY <1>1, <1>2, <1>3, <1>4, <1>5, <1>6, <1>7 DEF TaskStep, LoopStep, Reply

\* The two halves of the invariant behind OutcomeAgrees: what an owner is told,
\* and where the state of a command is at each stage of its future.
Told == \A r \in owners : reqState[r] = "ready" =>
          reqResult[r] \in {"cancelled", inFlight[reqCmd[r]]}
StateFollows ==
  \A c \in Commands :
    /\ inFlight[c] = "absent" => state[c] = "RECEIVED"
    /\ inFlight[c] \in {"pending", "cancelled"} => state[c] \notin Over
    /\ inFlight[c] \in Result \ {"cancelled"} => state[c] = EndState(inFlight[c])

LEMMA OutcomeFollows == TypeOK /\ Told /\ StateFollows => OutcomeAgrees
<1> SUFFICES ASSUME TypeOK, Told, StateFollows, NEW c \in Commands
             PROVE  /\ state[c] = "SUCCEEDED" <=> inFlight[c] = "succeeded"
                    /\ state[c] = "AWAITING_APPROVAL" <=> inFlight[c] = "awaiting_approval"
                    /\ \A e \in {"SAFETY_REJECTED", "CAPABILITY_UNAVAILABLE"} :
                         state[c] = e <=> inFlight[c] = e
                    /\ state[c] = "FAILED" => inFlight[c] \in Result
                    /\ inFlight[c] \in Result \ {"cancelled"} => state[c] \in Over
  BY DEF OutcomeAgrees, Told, Over
<1> USE DEF StateFollows, Result, Over, Terminal, EndState
<1>1. inFlight[c] \in {"absent", "pending"} \cup Result
  BY DEF TypeOK
<1>2. CASE inFlight[c] = "absent"
  BY <1>2
<1>3. CASE inFlight[c] \in {"pending", "cancelled"}
  BY <1>3
<1>4. CASE inFlight[c] \in Result \ {"cancelled"}
  BY <1>4
<1>5. QED
  BY <1>1, <1>2, <1>3, <1>4

LEMMA OutcomeTask ==
  ASSUME IInv, Told, StateFollows, NEW c \in Commands, TaskStep(c)
  PROVE  Told' /\ StateFollows'
<1>0. inFlight[c] = "pending"
  BY EndsAgree DEF IInv, NoLostWakeup
<1> USE <1>0 DEF IInv, TypeOK, Told, StateFollows
<1>1. ASSUME NEW x \in Result, NEW s \in ExecutionState, Finish(c, x, s),
             IF x = "cancelled" THEN s = state[c] ELSE s = EndState(x)
      PROVE  Told' /\ StateFollows'
  <2>1. Told'
    <3>1. ASSUME NEW r \in owners, reqState'[r] = "ready"
          PROVE  reqResult'[r] \in {"cancelled", inFlight'[reqCmd[r]]}
      <4>1. r \in Requests /\ reqState[r] # "idle" /\ reqCmd[r] \in Commands
        BY DEF CallsConsistent
      <4>2. CASE reqState[r] = "waiting" /\ reqCmd[r] = c
        BY <1>1, <4>1, <4>2 DEF Finish
      <4>3. CASE ~ (reqState[r] = "waiting" /\ reqCmd[r] = c)
        <5>1. reqState[r] = "ready" /\ reqResult'[r] = reqResult[r]
          BY <1>1, <3>1, <4>1, <4>3 DEF Finish
        <5>2. reqCmd[r] # c
          BY <5>1 DEF CallsConsistent
        <5>3. QED
          BY <1>1, <4>1, <5>1, <5>2 DEF Finish
      <4>4. QED
        BY <4>2, <4>3
    <3>2. QED
      BY <1>1, <3>1 DEF Finish
  <2>2. StateFollows'
    BY <1>1 DEF Finish, Result
  <2>3. QED
    BY <2>1, <2>2
<1>2. ASSUME NEW w \in Waits, NEW s \in ExecutionState \ Over, Goto(c, w, s)
      PROVE  Told' /\ StateFollows'
  BY <1>2 DEF Goto, calls, Result
<1>3. QED
  BY <1>1, <1>2, EndsAgree

LEMMA OutcomeStep ==
  IInv /\ Told /\ StateFollows /\ [Next]_vars => Told' /\ StateFollows'
<1> SUFFICES ASSUME IInv, Told, StateFollows, [Next]_vars
             PROVE  Told' /\ StateFollows'
  OBVIOUS
<1>0. Told /\ StateFollows
  OBVIOUS
<1> USE DEF IInv, TypeOK, Told, StateFollows
<1>1. ASSUME NEW r \in Requests, NEW c \in Commands, SubmitNew(r, c)
      PROVE  Told' /\ StateFollows'
  BY <1>0, <1>1 DEF SubmitNew, InFlightOwned, CallsConsistent, Result, Over, Terminal
<1>2. ASSUME NEW r \in Requests, NEW c \in Commands, SubmitDuplicate(r, c)
      PROVE  Told' /\ StateFollows'
  <2>1. r \notin owners
    BY <1>2 DEF SubmitDuplicate, CallsConsistent
  <2>2. QED
    BY <1>0, <1>2, <2>1 DEF SubmitDuplicate
<1>3. ASSUME NEW r \in Requests, Return(r)
      PROVE  Told' /\ StateFollows'
  <2>1. CASE r \in owners
    <3>1. reqCmd[r] \in Commands /\ \A q \in owners \ {r} : reqCmd[q] # reqCmd[r]
      BY <1>3, <2>1 DEF Return, InFlightOwned, CallsConsistent
    <3>2. Told'
      <4>1. \A q \in owners \ {r} : q \in Requests /\ reqCmd[q] \in Commands
        BY DEF CallsConsistent
      <4>2. QED
        BY <1>0, <1>3, <2>1, <3>1, <4>1 DEF Return
    <3>3. StateFollows'
      BY <1>0, <1>3, <2>1, <3>1 DEF Return, Result
    <3>4. QED
      BY <3>2, <3>3
  <2>2. CASE r \notin owners
    BY <1>0, <1>3, <2>2 DEF Return
  <2>3. QED
    BY <2>1, <2>2
<1>4. ASSUME NEW r \in Requests, CancelRequest(r)
      PROVE  Told' /\ StateFollows'
  BY <1>0, <1>4 DEF CancelRequest
<1>5. ASSUME NEW c \in Commands, Cancel(c)
      PROVE  Told' /\ StateFollows'
  BY <1>0, <1>5 DEF Cancel, calls
<1>6. ASSUME NEW c \in Commands, TaskStep(c)
      PROVE  Told' /\ StateFollows'
  BY <1>6, OutcomeTask
<1>7. ASSUME UNCHANGED vars
      PROVE  Told' /\ StateFollows'
  BY <1>0, <1>7 DEF vars
<1>8. QED
  BY <1>1, <1>2, <1>3, <1>4, <1>5, <1>6, <1>7 DEF Next, Submit, TaskStep

\* The call that ran a command is told what its future holds, and the state the
\* command is left in does not contradict the answer, whatever was cancelled on
\* the way and however many calls share the command.
THEOREM OutcomesAgree == Spec => []OutcomeAgrees
<1>1. Init => Told /\ StateFollows
  BY DEF Init, Told, StateFollows, Result
<1>2. IInv => TypeOK
  BY DEF IInv
<1>3. QED
  BY <1>1, <1>2, Invariance, OutcomeStep, OutcomeFollows, PTL DEF Spec

-----------------------------------------------------------------------------
(* Where a command waits tells its operation.                              *)

OpsFit ==
  \A c \in Commands :
    /\ pc[c] = "reading" => Op[c] = "READ"
    /\ pc[c] = "pose" => Op[c] # "READ"
    /\ pc[c] \in {"stopMotion", "stopNav"} => Op[c] = "STOP"
    /\ pc[c] = "backend" => Op[c] \in {"MOVE", "NAVIGATE"}

\* The planner has a back end for a move and a navigation only.
LEMMA PlannedOps ==
  ASSUME NEW c \in Commands, NEW b \in Planned(c), b # "none"
  PROVE  Op[c] \in {"MOVE", "NAVIGATE"}
<1>1. PICK usable, located, navServer : b = SelectBackend(Op[c], usable, located, navServer)
  BY DEF Planned
<1>2. QED
  BY <1>1 DEF SelectBackend

LEMMA OpsFitStep == IInv /\ OpsFit /\ [Next]_vars => OpsFit'
<1> SUFFICES ASSUME IInv, OpsFit, [Next]_vars PROVE OpsFit'
  OBVIOUS
<1> USE DEF OpsFit, IInv, TypeOK
<1>1. ASSUME NEW c \in Commands, NEW w, pc' = [pc EXCEPT ![c] = w],
             w = "reading" => Op[c] = "READ",
             w = "pose" => Op[c] # "READ",
             w \in {"stopMotion", "stopNav"} => Op[c] = "STOP",
             w = "backend" => Op[c] \in {"MOVE", "NAVIGATE"}
      PROVE  OpsFit'
  BY <1>1
<1>2. ASSUME NEW c \in Commands, TaskStep(c)
      PROVE  OpsFit'
  <2>1. ASSUME NEW x, NEW s, Finish(c, x, s)
        PROVE  OpsFit'
    BY <1>1, <2>1 DEF Finish
  <2>2. CASE Start(c)
    BY <1>1, <2>1, <2>2 DEF Start, Goto
  <2>3. CASE PoseResolved(c)
    <3>1. PICK d \in SafetyDecisions(c) :
            \/ Refuse(c, d)
            \/ Op[c] = "STOP" /\ BeginStop(c)
            \/ Op[c] # "STOP" /\ \E b \in Planned(c) : b # "none" /\ Dispatch(c)
            \/ Finish(c, "CAPABILITY_UNAVAILABLE", "CAPABILITY_UNAVAILABLE")
      BY <2>3 DEF PoseResolved
    <3>2. CASE Refuse(c, d)
      BY <2>1, <3>2 DEF Refuse
    <3>3. CASE Op[c] = "STOP" /\ BeginStop(c)
      BY <1>1, <3>3 DEF BeginStop, Goto
    <3>4. CASE \E b \in Planned(c) : b # "none" /\ Dispatch(c)
      BY <1>1, <3>4, PlannedOps DEF Dispatch, Goto
    <3>5. QED
      BY <2>1, <3>1, <3>2, <3>3, <3>4
  <2>4. CASE StopMotionReturn(c)
    BY <1>1, <2>4 DEF StopMotionReturn, Runs, Goto
  <2>5. QED
    BY <1>2, <2>1, <2>2, <2>3, <2>4
       DEF TaskStep, LoopStep, Reply, ReadReturn, PoseRaises, StopRaises, StopNavReturn,
           BackendReturn, BackstopTimeout, TaskCancelled
<1>3. ASSUME NEW r \in Requests, Submit(r) \/ Return(r) \/ CancelRequest(r)
      PROVE  OpsFit'
  BY <1>3 DEF Submit, SubmitNew, SubmitDuplicate, Return, CancelRequest
<1>4. ASSUME NEW c \in Commands, Cancel(c)
      PROVE  OpsFit'
  BY <1>4 DEF Cancel
<1>5. CASE UNCHANGED vars
  BY <1>5 DEF vars
<1>6. QED
  BY <1>2, <1>3, <1>4, <1>5 DEF Next, TaskStep

\* No step of a task but the return of a read, of a navigation's or a move's
\* back end, or of a stop gives a result that the operation itself decided.
LEMMA OwnResults ==
  ASSUME IInv, OpsFit, [Next]_vars, NEW c \in Commands, Op[c] = "MOVE",
         inFlight'[c] \in {"succeeded", "failed"}
  PROVE  inFlight'[c] = inFlight[c] \/ BackendReturn(c)
<1> USE DEF IInv, TypeOK
<1>1. ASSUME NEW d \in Commands, TaskStep(d), ~BackendReturn(c)
      PROVE  inFlight'[c] = inFlight[c]
  <2>1. CASE d # c
    BY <1>1, <2>1, TaskShape DEF Finish, Goto
  <2>2. ASSUME NEW x, NEW s, Finish(c, x, s), x \notin {"succeeded", "failed"}
        PROVE  inFlight'[c] = inFlight[c]
    BY <2>2 DEF Finish
  <2>3. ASSUME NEW w, NEW s, Goto(c, w, s)
        PROVE  inFlight'[c] = inFlight[c]
    BY <2>3 DEF Goto
  <2>4. CASE d = c
    <3>1. CASE Start(c)
      BY <3>1, <2>2, <2>3 DEF Start
    <3>2. CASE PoseResolved(c)
      BY <3>2, <2>2, <2>3 DEF PoseResolved, Refuse, BeginStop, Dispatch
    <3>3. CASE PoseRaises(c) \/ StopRaises(c) \/ StopMotionReturn(c) \/ BackstopTimeout(c)
               \/ TaskCancelled(c)
      BY <3>3, <2>2, <2>3 DEF PoseRaises, StopRaises, StopMotionReturn, BackstopTimeout,
         TaskCancelled
    <3>4. ~ReadReturn(c) /\ ~StopNavReturn(c)
      BY DEF ReadReturn, StopNavReturn, Runs, OpsFit
    <3>5. QED
      BY <1>1, <2>4, <3>1, <3>2, <3>3, <3>4 DEF TaskStep, LoopStep, Reply
  <2>5. QED
    BY <2>1, <2>4
<1>2. ASSUME NEW r \in Requests, Submit(r) \/ Return(r) \/ CancelRequest(r)
      PROVE  inFlight'[c] = inFlight[c]
  <2>1. CASE Return(r)
    <3>1. reqCmd[r] \in Commands
      BY <2>1 DEF Return, CallsConsistent
    <3>2. QED
      BY <2>1, <3>1 DEF Return
  <2>2. CASE Submit(r)
    BY <2>2 DEF Submit, SubmitNew, SubmitDuplicate
  <2>3. QED
    BY <1>2, <2>1, <2>2 DEF CancelRequest
<1>3. ASSUME NEW d \in Commands, Cancel(d)
      PROVE  inFlight'[c] = inFlight[c]
  BY <1>3 DEF Cancel
<1>4. QED
  BY <1>1, <1>2, <1>3 DEF Next, TaskStep, vars

\* A STOP that passed the safety check has cancelled the command dispatched
\* last for its robot, if that one still runs.
THEOREM StopCancels == Spec => StopCancelsLatest
<1>1. IInv /\ [Next]_vars => [CancelsLatest]_vars
  <2> SUFFICES ASSUME IInv, Next, NEW s \in Commands, StopsNow(s),
                      latest[RobotOf[s]] # NoCommand,
                      pc[latest[RobotOf[s]]] = "backend"
               PROVE  token'[latest[RobotOf[s]]] = "cancelled"
    BY DEF CancelsLatest
  <2>1. BeginStop(s)
    <3>1. PICK c \in Commands : TaskStep(c)
      BY DEF Next, Submit, SubmitNew, SubmitDuplicate, Return, CancelRequest, Cancel,
             IInv, TypeOK, StopsNow, TaskStep
    <3>2. c = s
      BY <3>1, TaskShape DEF Finish, Goto, StopsNow, IInv, TypeOK
    <3>3. QED
      BY <3>1, <3>2, RegistryShape DEF StopsNow, IInv, TypeOK, Dispatch, Goto, Backing
  <2>2. QED
    BY <2>1, CommandsAssumption DEF BeginStop, IInv, TypeOK, ActiveIsLatest,
       TokenWhileBacked, Backing
<1>2. QED
  BY Invariance, <1>1, PTL DEF Spec, StopCancelsLatest
=============================================================================
