------------------------- MODULE Nav2NavigationProofs -------------------------
(***************************************************************************)
(* What Nav2NavigationPlugin keeps, for every number of navigations and    *)
(* stops.  The handle and the answers of navigate() say something true of  *)
(* the server's goal because a coroutine's place in navigate() does        *)
(* (Phases); a goal waited for alone keeps its handle because no other     *)
(* navigation is where the handle is cleared (AloneInLoop).  From the same *)
(* invariant every step is one of the contract of navigate() or invisible  *)
(* to it: the plugin, the manager and the server keep NavigationContract.  *)
(***************************************************************************)
EXTENDS Nav2Navigation, TLAPS

\* What the place where navigate(n) waits says of its goal and its locals.
Phase(n) ==
  /\ pc[n] # "off" => result[n] = "none"
  /\ pc[n] = "accept" => goal[n] = "sent"
  /\ pc[n] \in Loop \cup {"pose"} => goal[n] \in Accepted
  /\ pc[n] = "off" => watch[n] = "none"
  /\ pc[n] = "asleep" => watch[n] # "none"
  /\ pc[n] \in {"cancel", "drain"} => outcome[n] # "none"
  /\ pc[n] = "pose" => outcome[n] # "none" \/ watch[n] \in {"done", "failed"}
  /\ pc[n] = "off" /\ result[n] = "none" => goal[n] = "none"
  /\ pc[n] = "checks" => goal[n] = "none"
  /\ watch[n] # "none" => pc[n] \in Loop \cup {"pose"}
  /\ watch[n] = "done" => goal[n] \in Ended
  /\ outcome[n] # "none" => n \in tried /\ pc[n] \in {"cancel", "drain", "pose"}
  /\ outcome[n] = "cancelled" => token[n] = "cancelled"

Phases == \A n \in Navs : Phase(n)

\* The handle is of a goal the server has accepted.
HandleAccepted == handle # NoNav => goal[handle] \in Accepted

AloneInLoop == alone # NoNav => \A n \in Navs \ {alone} : pc[n] \notin Loop

IInv ==
  /\ TypeOK
  /\ Phases
  /\ AloneInLoop
  /\ HandleAccepted
  /\ NoGoalForgotten
  /\ SoleGoalHasHandle
  /\ ResultTruth

-----------------------------------------------------------------------------
LEMMA InitIInv == Init => IInv
  BY NavAssumption DEF Init, IInv, TypeOK, Phases, Phase, AloneInLoop, HandleAccepted,
     NoGoalForgotten, SoleGoalHasHandle, ResultTruth, TrueOfGoal, Waits, Accepted, Ended, Results,
     Returned, Loop

\* What a request to cancel goal n does to the goals in g.
LEMMA AskType ==
  ASSUME NEW n \in Navs, NEW g \in [Navs -> Accepted \cup {"none", "sent", "rejected"}],
         tried \in SUBSET Navs, AskToCancel(n, g)
  PROVE  /\ goal' \in [Navs -> Accepted \cup {"none", "sent", "rejected"}]
         /\ tried' = tried \cup {n}
         /\ \A m \in Navs : goal'[m] = g[m]
                            \/ (m = n /\ g[m] = "executing" /\ goal'[m] = "canceling")
  BY DEF AskToCancel, Accepted, Ended

\* A pass of the loop cancels, with an outcome, or sleeps without one.
LEMMA PassType ==
  ASSUME NEW n \in Navs, NEW g \in [Navs -> Accepted \cup {"none", "sent", "rejected"}],
         TypeOK, PassChecks(n, g), outcome[n] = "none"
  PROVE  /\ goal' \in [Navs -> Accepted \cup {"none", "sent", "rejected"}]
         /\ \A m \in Navs : goal'[m] = g[m]
                            \/ (m = n /\ g[m] = "executing" /\ goal'[m] = "canceling")
         /\ \/ /\ pc' = [pc EXCEPT ![n] = "cancel"]
               /\ \E o \in {"cancelled", "timeout"} :
                    /\ outcome' = [outcome EXCEPT ![n] = o]
                    /\ o = "cancelled" => token[n] = "cancelled"
               /\ tried' = tried \cup {n}
            \/ /\ pc' = [pc EXCEPT ![n] = "asleep"]
               /\ UNCHANGED <<outcome, tried>>
<1>1. PICK o \in {"none", "cancelled", "timeout"} :
        Pass(n, o, g) /\ (o = "cancelled" => token[n] = "cancelled")
  BY DEF PassChecks
<1>2. CASE o # "none"
  <2>1. AskToCancel(n, g)
    BY <1>1, <1>2 DEF Pass
  <2>2. QED BY <1>1, <1>2, <2>1, AskType DEF Pass, TypeOK
<1>3. CASE o = "none"
  BY <1>1, <1>3 DEF Pass, TypeOK
<1>4. QED BY <1>2, <1>3

-----------------------------------------------------------------------------
(* The type invariant.                                                     *)

LEMMA NavTyped ==
  ASSUME TypeOK, NEW n \in Navs, LoopSteps(n) \/ GoalEnds(n), Phase(n)
  PROVE  TypeOK'
<1> USE DEF TypeOK, Waits, Results, Returned, Accepted, Ended
<1>1. CASE Begin(n)
  BY <1>1 DEF Begin, locals, server, history
<1>2. CASE Checked(n)
  BY <1>2, NavAssumption DEF Checked, End, Release, locals, manager, history
<1>3. CASE GoalAnswered(n)
  <2>1. CASE pc[n] = "accept" /\ PassChecks(n, [goal EXCEPT ![n] = "executing"])
             /\ UNCHANGED <<manager, result>>
    <3>1. outcome[n] = "none" \/ outcome[n] \in {"cancelled", "timeout"}
      OBVIOUS
    <3>2. PICK o \in {"none", "cancelled", "timeout"} :
            Pass(n, o, [goal EXCEPT ![n] = "executing"])
      BY <2>1 DEF PassChecks
    <3>3. QED BY <1>3, <2>1, <3>2 DEF GoalAnswered, Pass, AskToCancel, End, Release, manager
  <2>2. CASE End(n, "goal_rejected") /\ goal' = [goal EXCEPT ![n] = "rejected"]
             /\ UNCHANGED <<handle, history>>
    BY <1>3, <2>2 DEF GoalAnswered, End, Release, history
  <2>3. CASE (\E g \in {"executing", "rejected"} : goal' = [goal EXCEPT ![n] = g])
             /\ UNCHANGED <<pc, locals, manager, result, handle, history>>
    BY <1>3, <2>3 DEF GoalAnswered, locals, manager, history
  <2>4. QED BY <1>3, <2>1, <2>2, <2>3 DEF GoalAnswered
<1>4. CASE Poll(n)
  <2>1. CASE Leave(n) /\ UNCHANGED <<outcome, goal, tried>>
    BY <1>4, <2>1, NavAssumption DEF Poll, Leave, manager
  <2>2. CASE PassChecks(n, goal) /\ UNCHANGED <<handle, alone>>
    <3>1. PICK o \in {"none", "cancelled", "timeout"} : Pass(n, o, goal)
      BY <2>2 DEF PassChecks
    <3>2. QED BY <1>4, <2>2, <3>1 DEF Poll, Pass, AskToCancel, manager
  <2>3. QED BY <1>4, <2>1, <2>2 DEF Poll
<1>5. CASE CancelAnswered(n)
  BY <1>5 DEF CancelAnswered, locals, manager, server, history
<1>6. CASE Drained(n)
  BY <1>6, NavAssumption DEF Drained, Leave, End, Release, manager, server
<1>7. CASE Resolved(n)
  <2>1. Verdict(n) \in Results
    BY DEF Verdict, Told
  <2>2. QED BY <1>7, <2>1 DEF Resolved, End, Release, server, history
<1>8. CASE SendRaises(n)
  BY <1>8 DEF SendRaises, End, Release, history
<1>9. CASE Cut(n)
  BY <1>9 DEF Cut, End, Release, server, history
<1>10. CASE ResultArrives(n)
  BY <1>10 DEF ResultArrives, manager, server, history
<1>11. CASE Cancel(n)
  BY <1>11 DEF Cancel, locals, server, history
<1>12. CASE GoalEnds(n)
  BY <1>12 DEF GoalEnds, locals, manager, history
<1>13. QED
  BY <1>1, <1>2, <1>3, <1>4, <1>5, <1>6, <1>7, <1>8, <1>9, <1>10, <1>11, <1>12
     DEF LoopSteps

LEMMA StopTyped ==
  ASSUME TypeOK, NEW s \in Stops,
         BeginStop(s) \/ CancelAll(s) \/ StopRaises(s) \/ RunCancelAll(s)
  PROVE  TypeOK'
<1> USE DEF TypeOK
<1>1. CASE BeginStop(s)
  BY <1>1 DEF BeginStop, locals, server, history
<1>2. CASE CancelAll(s)
  BY <1>2 DEF CancelAll, locals, history
<1>3. CASE StopRaises(s)
  BY <1>3 DEF StopRaises, locals, server, history
<1>4. CASE RunCancelAll(s)
  <2>1. CASE handle # NoNav /\ AskToCancel(handle, goal)
    <3>1. handle \in Navs
      BY <2>1
    <3>2. QED BY <1>4, <2>1, <3>1, AskType DEF RunCancelAll, locals, manager
  <2>2. CASE UNCHANGED <<goal, tried>>
    BY <1>4, <2>2 DEF RunCancelAll, locals, manager
  <2>3. QED BY <1>4, <2>1, <2>2 DEF RunCancelAll
<1>5. QED BY <1>1, <1>2, <1>3, <1>4

LEMMA TypedStep == ASSUME IInv, [Next]_vars PROVE TypeOK'
<1>1. CASE UNCHANGED vars
  BY <1>1 DEF IInv, TypeOK, vars, locals, manager, server, history
<1>2. CASE MoveDispatched
  BY <1>2 DEF IInv, TypeOK, MoveDispatched, locals, server, history
<1>3. CASE \E n \in Navs : LoopSteps(n) \/ GoalEnds(n)
  BY <1>3, NavTyped DEF IInv, Phases
<1>4. CASE \E s \in Stops : BeginStop(s) \/ CancelAll(s) \/ StopRaises(s) \/ RunCancelAll(s)
  BY <1>4, StopTyped DEF IInv
<1>5. QED BY <1>1, <1>2, <1>3, <1>4 DEF Next

-----------------------------------------------------------------------------
(* The rest of the invariant, a step of a navigation at a time.            *)

\* What is told when the loop is left is true of the goal.
LEMMA VerdictTrue ==
  ASSUME IInv, NEW n \in Navs, pc[n] = "pose"
  PROVE  TrueOfGoal(n, Verdict(n))
<1> USE DEF IInv, TrueOfGoal, Verdict, Told
<1>1. Phase(n)
  BY DEF Phases
<1>2. CASE outcome[n] # "none"
  BY <1>1, <1>2 DEF Phase, TypeOK
<1>3. CASE outcome[n] = "none" /\ watch[n] = "failed"
  BY <1>3
<1>4. CASE outcome[n] = "none" /\ watch[n] = "done"
  BY <1>1, <1>4 DEF Phase, Ended
<1>5. QED BY <1>1, <1>2, <1>3, <1>4 DEF Phase

\* The actions in which navigate(n) ends.
LEMMA EndKeeps ==
  ASSUME IInv, NEW n \in Navs, NEW r \in Returned \cup {"raised"},
         pc[n] # "off", End(n, r), TypeOK',
         goal' = goal \/ (pc[n] = "accept" /\ \E g \in {"none", "rejected"} : goal' = [goal EXCEPT ![n] = g]),
         UNCHANGED <<handle, alone, tried>>,
         TrueOfGoal(n, r)'
  PROVE  IInv'
<1> USE DEF IInv, TypeOK
<1>1. Phases'
  <2>1. SUFFICES ASSUME NEW m \in Navs PROVE Phase(m)'
    BY DEF Phases
  <2>2. CASE m = n
    BY <2>2 DEF End, Release, Phase, Phases, Loop, Returned
  <2>3. CASE m # n
    BY <2>3 DEF End, Release, Phase, Phases
  <2>4. QED BY <2>2, <2>3
<1>2. AloneInLoop'
  BY DEF AloneInLoop, End, Loop
<1>3. HandleAccepted'
  BY DEF HandleAccepted, Phases, Phase, Accepted, Ended
<1>4. NoGoalForgotten'
  BY DEF NoGoalForgotten, TrueOfGoal, End, Returned, Phases, Phase, Ended
<1>5. SoleGoalHasHandle'
  BY DEF SoleGoalHasHandle
<1>6. ResultTruth'
  BY DEF ResultTruth, TrueOfGoal, End, Phases, Phase, Accepted, Ended
<1>7. QED BY <1>1, <1>2, <1>3, <1>4, <1>5, <1>6

\* The actions in which navigate(n) leaves its loop and clears the handle.
LEMMA LeaveKeeps ==
  ASSUME IInv, NEW n \in Navs, pc[n] \in Loop, Leave(n), TypeOK',
         UNCHANGED <<outcome, goal, tried, result, token>>,
         watch' = watch \/ (watch' = [watch EXCEPT ![n] = "none"]),
         outcome[n] # "none" \/ watch'[n] \in {"done", "failed"}
  PROVE  IInv'
<1> USE DEF IInv, TypeOK
<1>1. Phases'
  <2>1. SUFFICES ASSUME NEW m \in Navs PROVE Phase(m)'
    BY DEF Phases
  <2>2. CASE m = n
    BY <2>2 DEF Leave, Phase, Phases, Loop
  <2>3. CASE m # n
    BY <2>3 DEF Leave, Phase, Phases
  <2>4. QED BY <2>2, <2>3
<1>2. alone' = NoNav
  BY DEF Leave, AloneInLoop
<1>3. AloneInLoop' /\ SoleGoalHasHandle' /\ HandleAccepted'
  BY <1>2 DEF AloneInLoop, SoleGoalHasHandle, HandleAccepted, Leave
<1>4. NoGoalForgotten' /\ ResultTruth'
  BY DEF NoGoalForgotten, ResultTruth, TrueOfGoal
<1>5. QED BY <1>1, <1>3, <1>4

\* A pass of the loop, with the goal of n accepted in g.
LEMMA PassKeeps ==
  ASSUME IInv, TypeOK', NEW n \in Navs, pc[n] \in {"accept", "asleep"},
         NEW g \in [Navs -> Accepted \cup {"none", "sent", "rejected"}],
         PassChecks(n, g), g[n] \in Accepted, \A m \in Navs \ {n} : g[m] = goal[m],
         watch'[n] = "pending", \A m \in Navs \ {n} : watch'[m] = watch[m],
         UNCHANGED <<result, token>>
  PROVE  Phases' /\ NoGoalForgotten' /\ ResultTruth' /\ goal'[n] \in Accepted
         /\ pc'[n] \in Loop /\ \A m \in Navs \ {n} : goal'[m] = goal[m] /\ pc'[m] = pc[m]
<1> USE DEF IInv, TypeOK
<1>1. outcome[n] = "none" /\ result[n] = "none"
  BY DEF Phases, Phase
<1>2. /\ \A m \in Navs : goal'[m] = g[m]
                         \/ (m = n /\ g[m] = "executing" /\ goal'[m] = "canceling")
      /\ \/ /\ pc' = [pc EXCEPT ![n] = "cancel"]
            /\ \E o \in {"cancelled", "timeout"} :
                 /\ outcome' = [outcome EXCEPT ![n] = o]
                 /\ o = "cancelled" => token[n] = "cancelled"
            /\ tried' = tried \cup {n}
         \/ /\ pc' = [pc EXCEPT ![n] = "asleep"]
            /\ UNCHANGED <<outcome, tried>>
  BY <1>1, PassType
<1>3. goal'[n] \in Accepted /\ \A m \in Navs \ {n} : goal'[m] = goal[m] /\ pc'[m] = pc[m]
  BY <1>2 DEF Accepted
<1>4. Phases'
  <2>1. SUFFICES ASSUME NEW m \in Navs PROVE Phase(m)'
    BY DEF Phases
  <2>2. CASE m = n
    BY <1>1, <1>2, <1>3, <2>2 DEF Phase, Loop
  <2>3. CASE m # n
    BY <1>2, <1>3, <2>3 DEF Phase, Phases
  <2>4. QED BY <2>2, <2>3
<1>5. NoGoalForgotten' /\ ResultTruth'
  BY <1>1, <1>2, <1>3 DEF NoGoalForgotten, ResultTruth, TrueOfGoal, Returned
<1>6. pc'[n] \in Loop
  BY <1>2 DEF Loop
<1>7. QED BY <1>3, <1>4, <1>5, <1>6

\* The server answers the goal of n.
LEMMA AnswerKeeps ==
  ASSUME IInv, TypeOK', NEW n \in Navs, GoalAnswered(n) PROVE IInv'
<1> USE DEF IInv, TypeOK
<1>1. CASE /\ pc[n] = "accept" /\ watch' = [watch EXCEPT ![n] = "pending"] /\ handle' = n
           /\ alone' = IF \E m \in Navs \ {n} : pc[m] \in Loop THEN NoNav ELSE n
           /\ PassChecks(n, [goal EXCEPT ![n] = "executing"])
           /\ UNCHANGED <<manager, result>>
  <2> DEFINE g == [goal EXCEPT ![n] = "executing"]
  <2>1. g \in [Navs -> Accepted \cup {"none", "sent", "rejected"}] /\ g[n] \in Accepted
        /\ \A m \in Navs \ {n} : g[m] = goal[m]
    BY DEF Accepted
  <2>2. watch'[n] = "pending" /\ \A m \in Navs \ {n} : watch'[m] = watch[m]
    BY <1>1
  <2>3. PassChecks(n, g) /\ pc[n] \in {"accept", "asleep"} /\ UNCHANGED <<result, token>>
    BY <1>1 DEF manager
  <2> HIDE DEF g
  <2>4. Phases' /\ NoGoalForgotten' /\ ResultTruth' /\ goal'[n] \in Accepted
        /\ \A m \in Navs \ {n} : goal'[m] = goal[m] /\ pc'[m] = pc[m]
    BY <2>1, <2>2, <2>3, PassKeeps
  <2>5. AloneInLoop' /\ SoleGoalHasHandle' /\ HandleAccepted'
    BY <1>1, <2>4 DEF AloneInLoop, SoleGoalHasHandle, HandleAccepted
  <2>6. QED BY <2>4, <2>5
<1>2. CASE /\ pc[n] = "accept" /\ goal' = [goal EXCEPT ![n] = "rejected"]
           /\ End(n, "goal_rejected") /\ UNCHANGED <<handle, history>>
  <2>1. TrueOfGoal(n, "goal_rejected")'
    BY <1>2 DEF TrueOfGoal
  <2>2. QED BY <1>2, <2>1, EndKeeps DEF history, Returned
<1>3. CASE /\ pc[n] # "accept" /\ goal[n] = "sent"
           /\ \E g \in {"executing", "rejected"} : goal' = [goal EXCEPT ![n] = g]
           /\ UNCHANGED <<pc, locals, manager, result, handle, history>>
  <2>1. Phases'
    <3>1. SUFFICES ASSUME NEW m \in Navs PROVE Phase(m)'
      BY DEF Phases
    <3>2. CASE m = n
      BY <1>3, <3>2 DEF Phase, Phases, Loop, locals, history, manager, Accepted, Ended
    <3>3. CASE m # n
      BY <1>3, <3>3 DEF Phase, Phases, locals, history, manager
    <3>4. QED BY <3>2, <3>3
  <2>2. HandleAccepted' /\ AloneInLoop' /\ SoleGoalHasHandle'
    BY <1>3 DEF HandleAccepted, AloneInLoop, SoleGoalHasHandle, Accepted, Ended, history
  <2>3. NoGoalForgotten' /\ ResultTruth'
    BY <1>3 DEF NoGoalForgotten, ResultTruth, TrueOfGoal, Ended, locals, history
  <2>4. QED BY <2>1, <2>2, <2>3
<1>4. QED BY <1>1, <1>2, <1>3 DEF GoalAnswered

\* The other steps of navigate(n) and of its goal.
LEMMA NavKeeps ==
  ASSUME IInv, TypeOK', NEW n \in Navs, LoopSteps(n) \/ GoalEnds(n) PROVE IInv'
<1> USE DEF IInv, TypeOK
<1>1. CASE Begin(n)
  <2>1. Phases'
    BY <1>1 DEF Begin, Phases, Phase, locals, server, history, Loop
  <2>2. HandleAccepted' /\ AloneInLoop' /\ SoleGoalHasHandle'
    BY <1>1 DEF Begin, HandleAccepted, AloneInLoop, SoleGoalHasHandle, server, history, Loop
  <2>3. NoGoalForgotten' /\ ResultTruth'
    BY <1>1 DEF Begin, NoGoalForgotten, ResultTruth, TrueOfGoal, locals, server, history
  <2>4. QED BY <2>1, <2>2, <2>3
<1>2. CASE Checked(n)
  <2>1. CASE pc' = [pc EXCEPT ![n] = "accept"] /\ goal' = [goal EXCEPT ![n] = "sent"]
             /\ UNCHANGED <<locals, manager, result>>
    <3>1. goal[n] = "none" /\ result[n] = "none" /\ pc[n] = "checks" /\ outcome[n] = "none"
      BY <1>2 DEF Checked, Phases, Phase
    <3>2. Phases'
      <4>1. SUFFICES ASSUME NEW m \in Navs PROVE Phase(m)'
        BY DEF Phases
      <4>2. CASE m = n
        BY <1>2, <2>1, <3>1, <4>2 DEF Checked, Phase, Phases, Loop, locals, history, manager
      <4>3. CASE m # n
        BY <1>2, <2>1, <4>3 DEF Checked, Phase, Phases, locals, history, manager
      <4>4. QED BY <4>2, <4>3
    <3>3. HandleAccepted' /\ AloneInLoop' /\ SoleGoalHasHandle'
      BY <1>2, <2>1, <3>1 DEF Checked, HandleAccepted, AloneInLoop, SoleGoalHasHandle,
         Accepted, Ended, history, Loop
    <3>4. NoGoalForgotten' /\ ResultTruth'
      BY <1>2, <2>1, <3>1 DEF Checked, NoGoalForgotten, ResultTruth, TrueOfGoal, Returned, locals,
         history
    <3>5. QED BY <3>2, <3>3, <3>4
  <2>2. CASE End(n, "refused") /\ UNCHANGED goal
    <3>1. TrueOfGoal(n, "refused")'
      BY <1>2, <2>2 DEF Checked, Phases, Phase, TrueOfGoal
    <3>2. QED BY <1>2, <2>2, <3>1, EndKeeps DEF Checked, history, Returned
  <2>3. QED BY <1>2, <2>1, <2>2 DEF Checked
<1>3. CASE GoalAnswered(n)
  BY <1>3, AnswerKeeps
<1>4. CASE Poll(n)
  <2>1. CASE watch[n] # "pending" /\ Leave(n) /\ UNCHANGED <<outcome, goal, tried>>
    <3>1. pc[n] \in Loop /\ watch[n] \in {"done", "failed"}
      BY <1>4, <2>1 DEF Poll, Loop, Phases, Phase
    <3>2. QED BY <1>4, <2>1, <3>1, LeaveKeeps DEF Poll, manager
  <2>2. CASE watch[n] = "pending" /\ PassChecks(n, goal) /\ UNCHANGED <<handle, alone>>
    <3>1. pc[n] = "asleep" /\ goal[n] \in Accepted
      BY <1>4 DEF Poll, Phases, Phase, Loop
    <3>2. watch'[n] = "pending" /\ UNCHANGED <<watch, result, token>>
      BY <1>4, <2>2 DEF Poll, manager
    <3>3. Phases' /\ NoGoalForgotten' /\ ResultTruth' /\ goal'[n] \in Accepted
          /\ \A m \in Navs \ {n} : goal'[m] = goal[m] /\ pc'[m] = pc[m]
      BY <2>2, <3>1, <3>2, PassKeeps
    <3>4. HandleAccepted' /\ AloneInLoop' /\ SoleGoalHasHandle'
      BY <2>2, <3>1, <3>3 DEF HandleAccepted, AloneInLoop, SoleGoalHasHandle, Loop
    <3>5. QED BY <3>3, <3>4
  <2>3. QED BY <1>4, <2>1, <2>2 DEF Poll
<1>5. CASE CancelAnswered(n)
  <2>1. Phases'
    BY <1>5 DEF CancelAnswered, Phases, Phase, Loop, locals, server, history, manager
  <2>2. HandleAccepted' /\ AloneInLoop' /\ SoleGoalHasHandle'
    BY <1>5 DEF CancelAnswered, HandleAccepted, AloneInLoop, SoleGoalHasHandle, Loop, server, history
  <2>3. NoGoalForgotten' /\ ResultTruth'
    BY <1>5 DEF CancelAnswered, NoGoalForgotten, ResultTruth, TrueOfGoal, locals, server, history
  <2>4. QED BY <2>1, <2>2, <2>3
<1>6. CASE Drained(n)
  <2>1. CASE watch[n] # "failed" /\ Leave(n) /\ UNCHANGED <<outcome, manager, result>>
             /\ watch' = [watch EXCEPT ![n] = IF @ = "pending" THEN "none" ELSE @]
    <3>1. pc[n] \in Loop /\ outcome[n] # "none"
      BY <1>6 DEF Drained, Loop, Phases, Phase
    <3>2. watch' = watch \/ watch' = [watch EXCEPT ![n] = "none"]
      BY <2>1
    <3>3. QED BY <1>6, <2>1, <3>1, <3>2, LeaveKeeps DEF Drained, server, manager
  <2>2. CASE End(n, "raised") /\ UNCHANGED <<handle, alone>>
    BY <1>6, <2>2, EndKeeps DEF Drained, server, TrueOfGoal, Returned
  <2>3. QED BY <1>6, <2>1, <2>2 DEF Drained
<1>7. CASE Resolved(n)
  <2>1. PICK v \in Returned \cup {"raised"} : v = Verdict(n)
    BY DEF Verdict, Told, Returned
  <2>2. UNCHANGED <<goal, tried>>
    BY <1>7 DEF Resolved, server, history
  <2>3. TrueOfGoal(n, v)'
    BY <1>7, <2>1, <2>2, VerdictTrue DEF TrueOfGoal, Resolved
  <2>4. pc[n] = "pose" /\ End(n, v) /\ UNCHANGED <<handle, alone>>
    BY <1>7, <2>1 DEF Resolved, history
  <2>5. QED BY <2>2, <2>3, <2>4, EndKeeps
<1>8. CASE SendRaises(n)
  BY <1>8, EndKeeps DEF SendRaises, history, TrueOfGoal, Returned
<1>9. CASE Cut(n)
  BY <1>9, EndKeeps DEF Cut, server, history, TrueOfGoal, Returned
<1>10. CASE ResultArrives(n)
  <2>1. Phases'
    BY <1>10 DEF ResultArrives, Phases, Phase, server, history, manager
  <2>2. HandleAccepted' /\ AloneInLoop' /\ SoleGoalHasHandle'
    BY <1>10 DEF ResultArrives, HandleAccepted, AloneInLoop, SoleGoalHasHandle, server, history
  <2>3. NoGoalForgotten' /\ ResultTruth'
    BY <1>10 DEF ResultArrives, NoGoalForgotten, ResultTruth, TrueOfGoal, server, history
  <2>4. QED BY <2>1, <2>2, <2>3
<1>11. CASE Cancel(n)
  BY <1>11 DEF Cancel, Phases, Phase, HandleAccepted, AloneInLoop, SoleGoalHasHandle,
     NoGoalForgotten, ResultTruth, TrueOfGoal, locals, server, history
<1>12. CASE GoalEnds(n)
  <2>1. Phases'
    <3>1. SUFFICES ASSUME NEW m \in Navs PROVE Phase(m)'
      BY DEF Phases
    <3>2. CASE m = n
      BY <1>12, <3>2 DEF GoalEnds, Phase, Phases, locals, history, manager, Accepted, Ended
    <3>3. CASE m # n
      BY <1>12, <3>3 DEF GoalEnds, Phase, Phases, locals, history, manager
    <3>4. QED BY <3>2, <3>3
  <2>2. HandleAccepted' /\ AloneInLoop' /\ SoleGoalHasHandle'
    BY <1>12 DEF GoalEnds, HandleAccepted, AloneInLoop, SoleGoalHasHandle, Accepted, history
  <2>3. NoGoalForgotten' /\ ResultTruth'
    BY <1>12 DEF GoalEnds, NoGoalForgotten, ResultTruth, TrueOfGoal, Ended, locals, history
  <2>4. QED BY <2>1, <2>2, <2>3
<1>13. QED
  BY <1>1, <1>2, <1>3, <1>4, <1>5, <1>6, <1>7, <1>8, <1>9, <1>10, <1>11, <1>12
     DEF LoopSteps

\* A step of robot.stop changes at most which goal was asked to be cancelled.
LEMMA StopKeeps ==
  ASSUME IInv, TypeOK', NEW s \in Stops,
         BeginStop(s) \/ CancelAll(s) \/ StopRaises(s) \/ RunCancelAll(s)
  PROVE  IInv'
<1> USE DEF IInv, TypeOK
<1>1. /\ UNCHANGED <<pc, outcome, watch, handle, result, alone>>
      /\ tried \subseteq tried'
      /\ \A m \in Navs : token[m] = "cancelled" => token'[m] = "cancelled"
      /\ \A m \in Navs : goal'[m] = goal[m] \/ (goal[m] = "executing" /\ goal'[m] = "canceling")
  <2>1. CASE RunCancelAll(s) /\ handle # NoNav
    <3>1. handle \in Navs /\ AskToCancel(handle, goal)
      BY <2>1 DEF RunCancelAll
    <3>2. QED BY <2>1, <3>1, AskType DEF RunCancelAll, locals, manager
  <2>2. CASE RunCancelAll(s) /\ handle = NoNav
    BY <2>2 DEF RunCancelAll, locals, manager
  <2>3. CASE BeginStop(s) \/ CancelAll(s) \/ StopRaises(s)
    BY <2>3 DEF BeginStop, CancelAll, StopRaises, locals, server, history
  <2>4. QED BY <2>1, <2>2, <2>3
<1>2. Phases'
  <2>1. SUFFICES ASSUME NEW m \in Navs PROVE Phase(m)'
    BY DEF Phases
  <2>2. QED BY <1>1 DEF Phases, Phase, Accepted, Ended
<1>3. HandleAccepted' /\ AloneInLoop' /\ SoleGoalHasHandle'
  BY <1>1 DEF HandleAccepted, AloneInLoop, SoleGoalHasHandle, Accepted
<1>4. NoGoalForgotten' /\ ResultTruth'
  BY <1>1 DEF NoGoalForgotten, ResultTruth, TrueOfGoal, Ended
<1>5. QED BY <1>2, <1>3, <1>4

LEMMA IInvStep == ASSUME IInv, [Next]_vars PROVE IInv'
<1>1. TypeOK'
  BY TypedStep
<1>2. CASE UNCHANGED vars
  BY <1>1, <1>2 DEF IInv, Phases, Phase, AloneInLoop, HandleAccepted, NoGoalForgotten,
     SoleGoalHasHandle, ResultTruth, TrueOfGoal, vars, locals, server, history, manager
<1>3. CASE MoveDispatched
  BY <1>1, <1>3 DEF MoveDispatched, IInv, Phases, Phase, AloneInLoop, HandleAccepted,
     NoGoalForgotten, SoleGoalHasHandle, ResultTruth, TrueOfGoal, locals, server, history
<1>4. CASE \E n \in Navs : LoopSteps(n) \/ GoalEnds(n)
  BY <1>1, <1>4, NavKeeps
<1>5. CASE \E s \in Stops : BeginStop(s) \/ CancelAll(s) \/ StopRaises(s) \/ RunCancelAll(s)
  BY <1>1, <1>5, StopKeeps
<1>6. QED BY <1>2, <1>3, <1>4, <1>5 DEF Next

\* Only the ROS thread takes a job of cancel_all(), and it takes it with the
\* handle of that moment.
LEMMA ReachesStep ==
  ASSUME IInv, [Next]_vars
  PROVE  [\A s \in jobs \ jobs' : alone # NoNav => alone \in tried']_vars
<1>1. SUFFICES ASSUME NEW s \in jobs \ jobs', alone # NoNav PROVE alone \in tried'
  OBVIOUS
<1>2. PICK t \in Stops : RunCancelAll(t)
  <2>1. CASE UNCHANGED jobs
    BY <1>1, <2>1
  <2>2. CASE jobs' # jobs
    BY <1>1, <2>2 DEF Next, LoopSteps, MoveDispatched, Begin, Checked, GoalAnswered, Poll,
       CancelAnswered, Drained, Resolved, SendRaises, Cut, ResultArrives, Cancel, GoalEnds,
       BeginStop, CancelAll, StopRaises, vars, server
  <2>3. QED BY <2>1, <2>2
<1>3. handle = alone
  BY <1>1 DEF IInv, SoleGoalHasHandle
<1>4. QED BY <1>1, <1>2, <1>3 DEF RunCancelAll, AskToCancel

-----------------------------------------------------------------------------
(* The theorems.                                                           *)

LEMMA Inductive == Spec => []IInv
<1>1. Init => IInv
  BY InitIInv
<1>2. IInv /\ [Next]_vars => IInv'
  BY IInvStep
<1>3. QED BY <1>1, <1>2, PTL DEF Spec

\* The variables of the plugin, the manager and the server stay in their ranges.
THEOREM TypeCorrect == Spec => []TypeOK
<1>1. IInv => TypeOK
  BY DEF IInv
<1>2. QED BY <1>1, Inductive, PTL

\* robot.stop never holds a handle to a goal the server has not accepted.
THEOREM HandlesAreAccepted == Spec => []HandleAccepted
<1>1. IInv => HandleAccepted
  BY DEF IInv
<1>2. QED BY <1>1, Inductive, PTL

\* navigate() never answers while its goal goes on and nobody asked it to stop,
\* and never gets past its decision to end the goal without having asked.
THEOREM NoGoalIsForgotten == Spec => []NoGoalForgotten
<1>1. IInv => NoGoalForgotten
  BY DEF IInv
<1>2. QED BY <1>1, Inductive, PTL

\* A goal waited for alone stays in reach of robot.stop.
THEOREM SoleGoalsHaveHandles == Spec => []SoleGoalHasHandle
<1>1. IInv => SoleGoalHasHandle
  BY DEF IInv
<1>2. QED BY <1>1, Inductive, PTL

\* A success, a rejection or a NAVIGATION_FAILED that navigate() reports is the
\* server's word on the goal; a reported refusal has no goal; one reported as timed
\* out was asked to be cancelled, and one reported as CANCELLED was, or was canceled.
THEOREM ResultsAreTrue == Spec => []ResultTruth
<1>1. IInv => ResultTruth
  BY DEF IInv
<1>2. QED BY <1>1, Inductive, PTL

\* The cancel request of robot.stop reaches a goal waited for alone.
THEOREM StopsReachSoleGoals == Spec => StopReachesSole
<1>1. IInv /\ [Next]_vars => [\A s \in jobs \ jobs' : alone # NoNav => alone \in tried']_vars
  BY ReachesStep
<1>2. QED BY <1>1, Inductive, PTL DEF Spec, StopReachesSole

-----------------------------------------------------------------------------
(* The contract.                                                           *)

\* A command has a token as long as its navigate() runs, and the command that
\* robot.stop cancels is one that runs.
Tokens ==
  /\ \A n \in Navs : token[n] = "none" <=> pc[n] = "off"
  /\ active # NoNav => pc[active] # "off"

LEMMA TokensStep == ASSUME IInv, Tokens, [Next]_vars PROVE Tokens'
<1> USE NavAssumption DEF IInv, TypeOK, Tokens
<1>1. CASE UNCHANGED vars \/ MoveDispatched
  BY <1>1 DEF vars, MoveDispatched, manager
<1>2. ASSUME NEW n \in Navs, LoopSteps(n) \/ GoalEnds(n) PROVE Tokens'
  <2>1. ASSUME NEW r, End(n, r) PROVE Tokens'
    BY <2>1 DEF End, Release
  <2>2. ASSUME UNCHANGED manager, pc[n] # "off",
               \E w \in Waits \ {"off"} : pc' = [pc EXCEPT ![n] = w]
        PROVE  Tokens'
    BY <2>2 DEF manager
  <2>3. ASSUME NEW g, PassChecks(n, g)
        PROVE  \E w \in Waits \ {"off"} : pc' = [pc EXCEPT ![n] = w]
    BY <2>3 DEF PassChecks, Pass, Waits
  <2>4. ASSUME UNCHANGED <<pc, manager>> PROVE Tokens'
    BY <2>4 DEF manager
  <2>5. CASE Begin(n)
    BY <2>5 DEF Begin
  <2>6. CASE Checked(n)
    BY <2>1, <2>2, <2>6 DEF Checked, Waits
  <2>7. CASE GoalAnswered(n)
    BY <2>1, <2>2, <2>3, <2>4, <2>7 DEF GoalAnswered
  <2>8. CASE Poll(n)
    BY <2>2, <2>3, <2>8 DEF Poll, Leave, Waits
  <2>9. CASE CancelAnswered(n)
    BY <2>2, <2>9 DEF CancelAnswered, Waits
  <2>10. CASE Drained(n)
    BY <2>1, <2>2, <2>10 DEF Drained, Leave, Waits
  <2>11. CASE Resolved(n) \/ SendRaises(n) \/ Cut(n)
    BY <2>1, <2>11 DEF Resolved, SendRaises, Cut
  <2>12. CASE ResultArrives(n) \/ GoalEnds(n)
    BY <2>4, <2>12 DEF ResultArrives, GoalEnds
  <2>13. CASE Cancel(n)
    BY <2>13 DEF Cancel
  <2>14. QED
    BY <1>2, <2>5, <2>6, <2>7, <2>8, <2>9, <2>10, <2>11, <2>12, <2>13 DEF LoopSteps
<1>3. ASSUME NEW s \in Stops, BeginStop(s) \/ CancelAll(s) \/ StopRaises(s) \/ RunCancelAll(s)
      PROVE  Tokens'
  BY <1>3 DEF BeginStop, CancelAll, StopRaises, RunCancelAll, manager
<1>4. QED BY <1>1, <1>2, <1>3 DEF Next

\* How a navigation and its token look to the contract.
CallOf(n) == IF pc[n] = "asleep" THEN "resting"
             ELSE IF pc[n] # "off" THEN "busy"
             ELSE IF result[n] = "none" THEN "new" ELSE "ended"
Calls == [n \in Navs |-> CallOf(n)]
Revoked == {n \in Navs : token[n] = "cancelled"}

\* What is left alone for the contract.
LEMMA CallsKept ==
  ASSUME UNCHANGED <<pc, result>> PROVE Calls' = Calls
  BY DEF Calls, CallOf

LEMMA RevokedKept ==
  ASSUME UNCHANGED token PROVE Revoked' = Revoked
  BY DEF Revoked

\* A step of navigate(n) moves n only.
LEMMA CallMoves ==
  ASSUME TypeOK, NEW n \in Navs, NEW w \in Waits, pc' = [pc EXCEPT ![n] = w], w # "off",
         UNCHANGED result
  PROVE  Calls' = [Calls EXCEPT ![n] = IF w = "asleep" THEN "resting" ELSE "busy"]
<1>1. pc'[n] = w /\ \A m \in Navs \ {n} : pc'[m] = pc[m]
  BY DEF TypeOK
<1>2. \A m \in Navs : CallOf(m)' = IF m = n THEN IF w = "asleep" THEN "resting" ELSE "busy"
                                   ELSE CallOf(m)
  BY <1>1 DEF CallOf
<1>3. QED BY <1>2 DEF Calls

LEMMA EndsDone ==
  ASSUME TypeOK, NEW n \in Navs, NEW r \in Results \ {"none"}, pc[n] # "off", End(n, r)
  PROVE  Contract!Done(n, r)
<1>1. pc'[n] = "off" /\ result'[n] = r /\ token'[n] = "none"
      /\ \A m \in Navs \ {n} : pc'[m] = pc[m] /\ result'[m] = result[m] /\ token'[m] = token[m]
  BY DEF TypeOK, End, Release
<1>2. \A m \in Navs : CallOf(m)' = IF m = n THEN "ended" ELSE CallOf(m)
  BY <1>1 DEF CallOf
<1>3. Calls' = [Calls EXCEPT ![n] = "ended"]
  BY <1>2 DEF Calls
<1>4. Revoked' = Revoked \ {n}
  BY <1>1 DEF Revoked
<1>5. result' = [result EXCEPT ![n] = r]
  BY DEF End
<1>6. QED BY <1>3, <1>4, <1>5 DEF Contract!Done, Calls, CallOf, Revoked

LEMMA InitContract == Init => Contract!Init
  BY DEF Init, Contract!Init

\* A pass of the loop asks to cancel the goal, or goes to sleep with the token
\* not cancelled.
LEMMA PassSeen ==
  ASSUME TypeOK, NEW n \in Navs, NEW g, PassChecks(n, g), UNCHANGED result
  PROVE  \/ Contract!Ask(n, g) /\ Calls' = [Calls EXCEPT ![n] = "busy"]
         \/ /\ n \notin Revoked
            /\ goal' = g /\ tried' = tried
            /\ Calls' = [Calls EXCEPT ![n] = "resting"]
<1>1. PICK o \in IF token[n] = "cancelled" THEN {"cancelled"} ELSE {"none", "timeout"} :
        Pass(n, o, g)
  BY DEF PassChecks
<1>2. CASE o # "none"
  <2>1. AskToCancel(n, g) /\ pc' = [pc EXCEPT ![n] = "cancel"]
    BY <1>1, <1>2 DEF Pass
  <2>2. Calls' = [Calls EXCEPT ![n] = "busy"]
    BY <2>1, CallMoves DEF Waits
  <2>3. QED BY <2>1, <2>2 DEF AskToCancel, Contract!Ask
<1>3. CASE o = "none"
  <2>1. pc' = [pc EXCEPT ![n] = "asleep"] /\ goal' = g /\ tried' = tried /\ n \notin Revoked
    BY <1>1, <1>3 DEF Pass, Revoked
  <2>2. Calls' = [Calls EXCEPT ![n] = "resting"]
    BY <2>1, CallMoves DEF Waits
  <2>3. QED BY <2>1, <2>2
<1>4. QED BY <1>2, <1>3

\* A step of navigate(n), of its goal or of its token is a step of the contract.
LEMMA NavSeen ==
  ASSUME IInv, Tokens, NEW n \in Navs, LoopSteps(n) \/ GoalEnds(n)
  PROVE  Contract!Next \/ UNCHANGED Contract!vars
<1> USE DEF IInv
<1> DEFINE Seen == Contract!Next \/ UNCHANGED Contract!vars
           Step == \/ Contract!Begin(n) \/ Contract!Cancel(n) \/ Contract!Submit(n)
                   \/ Contract!Accept(n) \/ Contract!Wake(n) \/ Contract!CancelGoal(n)
                   \/ Contract!GoalEnds(n) \/ Contract!Reject(n) \/ Contract!Answer(n)
                   \/ Contract!Interrupt(n)
<1>a. Step => Seen
  BY DEF Contract!Next
<1>b. (Calls' = Calls /\ Revoked' = Revoked /\ UNCHANGED <<goal, tried, result>>) => Seen
  BY DEF Contract!vars, Calls, CallOf, Revoked
<1>c. Phase(n) /\ Calls[n] = CallOf(n)
  BY DEF Phases, Calls
<1> HIDE DEF Seen, Step
<1>1. CASE Begin(n)
  <2>1. CallOf(n) = "new" /\ Calls' = [Calls EXCEPT ![n] = "busy"]
    BY <1>1, CallMoves DEF Begin, CallOf, Waits
  <2>2. Revoked' = Revoked
    BY <1>1 DEF Begin, Revoked, Tokens, TypeOK
  <2>3. Contract!Begin(n)
    BY <1>1, <1>c, <2>1, <2>2 DEF Begin, server, history, Contract!Begin, Calls, CallOf, Revoked
  <2>4. QED BY <1>a, <2>3 DEF Step, Seen
<1>2. CASE Checked(n)
  <2>1. CallOf(n) = "busy" /\ goal[n] = "none"
    BY <1>2, <1>c DEF Checked, CallOf, Phase
  <2>2. CASE pc' = [pc EXCEPT ![n] = "accept"] /\ goal' = [goal EXCEPT ![n] = "sent"]
             /\ UNCHANGED <<locals, manager, result>>
    <3>1. Calls' = Calls
      BY <2>1, <2>2, CallMoves, <1>c DEF Waits, Calls
    <3>2. Revoked' = Revoked /\ tried' = tried
      BY <1>2, <2>2, RevokedKept DEF Checked, manager, history
    <3>3. Contract!Submit(n)
      BY <1>c, <2>1, <2>2, <3>1, <3>2 DEF Contract!Submit, Calls, CallOf, Revoked
    <3>4. QED BY <1>a, <3>3 DEF Step, Seen
  <2>3. CASE End(n, "refused") /\ UNCHANGED goal
    <3>1. Contract!Done(n, "refused")
      BY <1>2, <2>3, EndsDone DEF Checked, Results, Returned
    <3>2. Contract!Answer(n)
      BY <1>2, <1>c, <2>1, <2>3, <3>1 DEF Checked, history, Contract!Answer, Calls, CallOf
    <3>3. QED BY <1>a, <3>2 DEF Step, Seen
  <2>4. QED BY <1>2, <2>2, <2>3 DEF Checked
<1>3. CASE GoalAnswered(n)
  <2>1. CASE pc[n] = "accept" /\ PassChecks(n, [goal EXCEPT ![n] = "executing"])
             /\ UNCHANGED <<manager, result>>
    <3>1. Revoked' = Revoked /\ CallOf(n) = "busy" /\ goal[n] = "sent"
      BY <1>3, <2>1, RevokedKept DEF manager, CallOf, GoalAnswered
    <3>2. Calls = [Calls EXCEPT ![n] = "busy"]
      BY <1>c, <3>1 DEF Calls
    <3>3. Contract!Accept(n)
      BY <1>c, <2>1, <3>1, <3>2, PassSeen DEF Contract!Accept, Calls, CallOf, Revoked
    <3>4. QED BY <1>a, <3>3 DEF Step, Seen
  <2>2. CASE pc[n] = "accept" /\ goal' = [goal EXCEPT ![n] = "rejected"]
             /\ End(n, "goal_rejected") /\ UNCHANGED <<handle, history>>
    <3>1. Contract!Done(n, "goal_rejected") /\ CallOf(n) = "busy"
      BY <2>2, EndsDone DEF Results, Returned, CallOf
    <3>2. Contract!Reject(n)
      BY <1>3, <1>c, <2>2, <3>1 DEF GoalAnswered, Contract!Reject, history, Calls, CallOf
    <3>3. QED BY <1>a, <3>2 DEF Step, Seen
  <2>3. CASE pc[n] # "accept" /\ (\E g \in {"executing", "rejected"} : goal' = [goal EXCEPT ![n] = g])
             /\ UNCHANGED <<pc, locals, manager, result, handle, history>>
    <3>1. pc[n] = "off" /\ CallOf(n) = "ended" /\ goal[n] = "sent"
      BY <1>3, <1>c, <2>3 DEF GoalAnswered, Phase, CallOf, Accepted, Ended, Loop, TypeOK, Waits
    <3>2. Calls' = Calls /\ Revoked' = Revoked /\ tried' = tried /\ result' = result
      BY <2>3, CallsKept, RevokedKept DEF manager, history
    <3>3. Contract!Accept(n) \/ Contract!Reject(n)
      BY <1>c, <2>3, <3>1, <3>2 DEF Contract!Accept, Contract!Reject, Calls, CallOf, Revoked
    <3>4. QED BY <1>a, <3>3 DEF Step, Seen
  <2>4. QED BY <1>3, <2>1, <2>2, <2>3 DEF GoalAnswered
<1>4. CASE Poll(n)
  <2>1. CallOf(n) = "resting" /\ Revoked' = Revoked /\ result' = result
    BY <1>4, RevokedKept DEF Poll, CallOf, manager
  <2>2. CASE Leave(n) /\ UNCHANGED <<outcome, goal, tried>>
    <3>1. Calls' = [Calls EXCEPT ![n] = "busy"]
      BY <2>1, <2>2, CallMoves DEF Leave, Waits
    <3>2. Contract!Wake(n)
      BY <1>c, <2>1, <2>2, <3>1 DEF Contract!Wake, Calls, CallOf, Revoked
    <3>3. QED BY <1>a, <3>2 DEF Step, Seen
  <2>3. CASE PassChecks(n, goal)
    <3>1. CASE Contract!Ask(n, goal) /\ Calls' = [Calls EXCEPT ![n] = "busy"]
      <4>1. Contract!Wake(n)
        BY <1>c, <2>1, <3>1 DEF Contract!Wake, Calls, CallOf, Revoked
      <4>2. QED BY <1>a, <4>1 DEF Step, Seen
    <3>2. CASE goal' = goal /\ tried' = tried /\ Calls' = [Calls EXCEPT ![n] = "resting"]
      <4>1. Calls' = Calls
        BY <1>c, <2>1, <3>2 DEF Calls
      <4>2. QED BY <1>b, <2>1, <3>2, <4>1 DEF Seen
    <3>3. QED BY <2>1, <2>3, <3>1, <3>2, PassSeen
  <2>4. QED BY <1>4, <2>2, <2>3 DEF Poll
<1>5. CASE CancelAnswered(n)
  <2>1. Calls' = Calls
    <3>1. CallOf(n) = "busy" /\ Calls' = [Calls EXCEPT ![n] = "busy"]
      BY <1>5, CallMoves DEF CancelAnswered, CallOf, Waits
    <3>2. QED BY <1>c, <3>1 DEF Calls
  <2>2. QED BY <1>5, <1>b, <2>1, RevokedKept DEF CancelAnswered, manager, server, history, Seen
<1>6. CASE Drained(n)
  <2>1. CallOf(n) = "busy" /\ UNCHANGED <<goal, tried>>
    BY <1>6 DEF Drained, CallOf, server
  <2>2. CASE Leave(n) /\ UNCHANGED <<outcome, manager, result>>
    <3>1. Calls' = [Calls EXCEPT ![n] = "busy"]
      BY <2>2, CallMoves DEF Leave, Waits
    <3>2. Calls' = Calls
      BY <1>c, <2>1, <3>1 DEF Calls
    <3>3. QED BY <1>b, <2>1, <2>2, <3>2, RevokedKept DEF manager, Seen
  <2>3. CASE End(n, "raised")
    <3>1. Contract!Done(n, "raised")
      BY <1>6, <2>3, EndsDone DEF Drained, Results
    <3>2. Contract!Interrupt(n)
      BY <1>c, <2>1, <3>1 DEF Contract!Interrupt, Calls, CallOf
    <3>3. QED BY <1>a, <3>2 DEF Step, Seen
  <2>4. QED BY <1>6, <2>2, <2>3 DEF Drained
<1>7. CASE Resolved(n)
  <2>1. PICK v \in (Returned \cup {"raised"}) \ {"refused", "goal_rejected"} : v = Verdict(n)
    BY DEF Verdict, Told, Returned
  <2>2. /\ pc[n] = "pose" /\ CallOf(n) = "busy" /\ UNCHANGED <<goal, tried>>
        /\ End(n, v)
    BY <1>7, <2>1 DEF Resolved, CallOf, server, history
  <2>3. TrueOfGoal(n, v)
    BY <2>1, <2>2, VerdictTrue
  <2>4. v = "CANCELLED" => goal[n] = "canceled" \/ n \in Revoked \cap tried
    <3>1. CASE outcome[n] = "cancelled"
      BY <1>c, <3>1 DEF Phase, Revoked
    <3>2. CASE v = "CANCELLED" /\ outcome[n] # "cancelled"
      BY <1>c, <2>1, <2>2, <3>2 DEF Verdict, Told, Phase, TypeOK
    <3>3. QED BY <3>1, <3>2
  <2>5. Contract!Done(n, v)
    BY <2>2, EndsDone DEF Results, Returned
  <2>6. CASE v = "raised"
    <3>1. Contract!Interrupt(n)
      BY <1>c, <2>2, <2>5, <2>6 DEF Contract!Interrupt, Calls, CallOf
    <3>2. QED BY <1>a, <3>1 DEF Step, Seen
  <2>7. CASE v # "raised"
    <3>1. Contract!Answer(n)
      BY <1>c, <2>2, <2>3, <2>4, <2>5, <2>7 DEF Contract!Answer, Calls, CallOf, Revoked, TrueOfGoal,
         Returned
    <3>2. QED BY <1>a, <3>1 DEF Step, Seen
  <2>8. QED BY <2>6, <2>7
<1>8. CASE SendRaises(n) \/ Cut(n)
  <2>1. Contract!Done(n, "raised") /\ CallOf(n) \in {"busy", "resting"} /\ tried' = tried
    BY <1>8, EndsDone DEF SendRaises, Cut, Results, CallOf, history
  <2>2. goal' = goal \/ (goal[n] = "sent" /\ goal' = [goal EXCEPT ![n] = "none"])
    BY <1>8, <1>c DEF SendRaises, Cut, server, Phase
  <2>3. Contract!Interrupt(n)
    BY <1>c, <2>1, <2>2 DEF Contract!Interrupt, Calls, CallOf
  <2>4. QED BY <1>a, <2>3 DEF Step, Seen
<1>9. CASE ResultArrives(n)
  BY <1>9, <1>b, CallsKept, RevokedKept DEF ResultArrives, manager, server, history, Seen
<1>10. CASE Cancel(n)
  <2>1. CallOf(n) \in {"busy", "resting"} /\ Calls' = Calls /\ UNCHANGED <<goal, tried, result>>
    BY <1>10, CallsKept DEF Cancel, CallOf, Tokens, server, history
  <2>2. Revoked' = Revoked \cup {n}
    BY <1>10 DEF Cancel, Revoked, TypeOK
  <2>3. Contract!Cancel(n)
    BY <1>c, <2>1, <2>2 DEF Contract!Cancel, Calls, CallOf, Revoked
  <2>4. QED BY <1>a, <2>3 DEF Step, Seen
<1>11. CASE GoalEnds(n)
  <2>1. Calls' = Calls /\ Revoked' = Revoked /\ UNCHANGED <<tried, result>>
    BY <1>11, CallsKept, RevokedKept DEF GoalEnds, manager, history
  <2>2. Contract!GoalEnds(n)
    BY <1>11, <2>1 DEF GoalEnds, Contract!GoalEnds, Contract!Ended, Calls, CallOf, Revoked, Ended
  <2>3. QED BY <1>a, <2>2 DEF Step, Seen
<1>12. QED
  BY <1>1, <1>2, <1>3, <1>4, <1>5, <1>6, <1>7, <1>8, <1>9, <1>10, <1>11 DEF LoopSteps, Seen

\* A stop cancels the token of a running call, or asks for the end of an accepted
\* goal.
LEMMA StopSeen ==
  ASSUME IInv, Tokens, NEW s \in Stops,
         BeginStop(s) \/ CancelAll(s) \/ StopRaises(s) \/ RunCancelAll(s)
  PROVE  Contract!Next \/ UNCHANGED Contract!vars
<1> USE DEF IInv
<1>1. Calls' = Calls /\ result' = result
  BY CallsKept DEF BeginStop, CancelAll, StopRaises, RunCancelAll
<1>2. CASE UNCHANGED <<token, goal, tried>>
  BY <1>1, <1>2, RevokedKept DEF Contract!vars, Calls, CallOf, Revoked
<1>3. CASE BeginStop(s) /\ active # NoNav
  <2>1. PICK n \in Navs : n = active
    BY <1>3 DEF TypeOK
  <2>2. CallOf(n) \in {"busy", "resting"}
    BY <1>3, <2>1 DEF Tokens, CallOf
  <2>3. Revoked' = Revoked \cup {n}
    BY <1>3, <2>1 DEF BeginStop, Revoked, TypeOK
  <2>4. Contract!Cancel(n)
    BY <1>1, <1>3, <2>2, <2>3 DEF BeginStop, server, history, Contract!Cancel, Calls, CallOf,
       Revoked
  <2>5. QED BY <2>4 DEF Contract!Next
<1>4. CASE RunCancelAll(s) /\ handle # NoNav
  <2>1. PICK n \in Navs : n = handle
    BY <1>4 DEF TypeOK
  <2>2. goal[n] \in Accepted /\ AskToCancel(n, goal)
    BY <1>4, <2>1 DEF HandleAccepted, RunCancelAll
  <2>3. Revoked' = Revoked
    BY <1>4, RevokedKept DEF RunCancelAll, manager
  <2>4. Contract!CancelGoal(n)
    BY <1>1, <2>2, <2>3 DEF Contract!CancelGoal, Contract!Accepted, Contract!Ended, Contract!Ask, AskToCancel,
       Accepted, Ended, Calls, CallOf, Revoked
  <2>5. QED BY <2>4 DEF Contract!Next
<1>5. CASE BeginStop(s) /\ active = NoNav
  <2>1. token' = token
    BY <1>5, NavAssumption DEF BeginStop, TypeOK
  <2>2. QED BY <1>2, <1>5, <2>1 DEF BeginStop, server, history
<1>6. CASE CancelAll(s) \/ StopRaises(s) \/ (RunCancelAll(s) /\ handle = NoNav)
  BY <1>2, <1>6 DEF CancelAll, StopRaises, RunCancelAll, server, history, manager
<1>7. QED BY <1>3, <1>4, <1>5, <1>6

LEMMA ContractStep ==
  ASSUME IInv, Tokens, [Next]_vars
  PROVE  [Contract!Next]_Contract!vars
<1>1. CASE UNCHANGED vars \/ MoveDispatched
  <2>1. UNCHANGED <<pc, token, goal, tried, result>>
    BY <1>1 DEF vars, MoveDispatched, manager, server, history
  <2>2. Calls' = Calls /\ Revoked' = Revoked
    BY <2>1, CallsKept, RevokedKept
  <2>3. QED BY <2>1, <2>2 DEF Contract!vars, Calls, CallOf, Revoked
<1>2. ASSUME NEW n \in Navs, LoopSteps(n) \/ GoalEnds(n) PROVE [Contract!Next]_Contract!vars
  BY <1>2, NavSeen
<1>3. ASSUME NEW s \in Stops, BeginStop(s) \/ CancelAll(s) \/ StopRaises(s) \/ RunCancelAll(s)
      PROVE  [Contract!Next]_Contract!vars
  BY <1>3, StopSeen
<1>4. QED BY <1>1, <1>2, <1>3 DEF Next

\* Whatever several navigations, stops and the backstop do to each other, to each
\* caller the plugin keeps its contract: one goal, no wait after a cancellation,
\* no request for a goal that is not accepted, no answer that is not true.
THEOREM ContractKept == Spec => KeepsContract
<1>1. Init => Tokens
  BY DEF Init, Tokens
<1>2. Spec => []Tokens
  BY <1>1, TokensStep, Inductive, PTL DEF Spec
<1>3. QED BY InitContract, ContractStep, Inductive, <1>2, PTL DEF Spec, KeepsContract, Contract!Spec
=============================================================================
