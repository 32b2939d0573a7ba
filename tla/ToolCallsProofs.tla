---------------------------- MODULE ToolCallsProofs ----------------------------
(***************************************************************************)
(* What holds of every tool call, whatever calls clients make, whatever    *)
(* the registry holds and however the server is configured.  The safety    *)
(* policy takes no step of its own behind the tool surface, so ToolSpec    *)
(* implements Spec and what is proved of the rate limit holds here; what   *)
(* validation lets through is what the factory and the back ends need.     *)
(***************************************************************************)
EXTENDS ToolCalls, SafetyPolicyProofs

\* What is validated as a move has a direction and numbers that can be used.
LEMMA MoveValid ==
  ASSUME NEW call \in ClientCalls, call.tool = "robot.move", Validate(call.tool, call.args)
  PROVE  /\ "direction" \in DOMAIN call.args
         /\ call.args["direction"].s \in Translations \cup Rotations
         /\ \A f \in {"distance_m", "angle_deg"} :
              f \in DOMAIN call.args => call.args[f].n \in Nat
         /\ "timeout_s" \in DOMAIN call.args =>
              /\ call.args["timeout_s"].kind \in {"integer", "float"}
              /\ call.args["timeout_s"].n \in Nat \ {0}
<1>1. /\ Definition("robot.move").required = {"direction"}
      /\ Definition("robot.move").fields = MoveFields
  BY DEF Definition, Tool
<1>2. /\ {"direction"} \subseteq DOMAIN call.args
      /\ \A f \in DOMAIN call.args : FieldConforms(MoveFields[f], call.args[f])
  BY <1>1 DEF Validate, Conforms
<1>3. call.args["direction"].s \in Translations \cup Rotations
  BY <1>2 DEF FieldConforms, MoveFields
<1>4. ASSUME NEW f \in {"distance_m", "angle_deg"}, f \in DOMAIN call.args
      PROVE  call.args[f].n \in Nat
  <2>1. /\ MoveFields[f].type = "number"
        /\ "minimum" \in DOMAIN MoveFields[f] /\ MoveFields[f].minimum = 0
    BY DEF MoveFields
  <2>2. call.args[f].kind \in {"integer", "float"} /\ call.args[f].n >= 0
    BY <1>2, <1>4, <2>1 DEF FieldConforms, Accepts
  <2>3. QED BY <1>4, <2>2, ToolAssumption
<1>5. ASSUME "timeout_s" \in DOMAIN call.args
      PROVE  /\ call.args["timeout_s"].kind \in {"integer", "float"}
             /\ call.args["timeout_s"].n \in Nat \ {0}
  <2>1. /\ MoveFields["timeout_s"].type = "number"
        /\ "minimum" \in DOMAIN MoveFields["timeout_s"] /\ MoveFields["timeout_s"].minimum = 1
    BY DEF MoveFields
  <2>2. /\ call.args["timeout_s"].kind \in {"integer", "float"}
        /\ call.args["timeout_s"].n >= 1
    BY <1>2, <1>5, <2>1 DEF FieldConforms, Accepts
  <2>3. QED BY <1>5, <2>2, ToolAssumption
<1>6. QED BY <1>2, <1>3, <1>4, <1>5

\* A motion tool's name is one of three.
LEMMA MotionTools ==
  ASSUME NEW tool \in ToolNames, Definition(tool).class = "MOTION"
  PROVE  tool \in {"robot.move", "robot.navigate", "robot.stop"}
  BY DEF ToolNames, Definition, Tool

\* Every validated call of a motion tool becomes a complete command.
Complete(call, command) ==
  /\ Builds(call.tool, call.args)
  /\ command.magnitude \in Nat /\ command.timeout \in Nat \ {0}
  /\ \/ /\ call.tool = "robot.move" /\ command.kind \in {"MOVE", "ROTATE"}
        /\ command.timeout <= MoveMax
     \/ call.tool = "robot.navigate" /\ command.kind = "NAVIGATE"
     \/ call.tool = "robot.stop" /\ command.kind = "STOP"

LEMMA CreateComplete ==
  ASSUME NEW call \in ClientCalls, Validated(call, "MOTION")
  PROVE  Complete(call, Create(call.tool, call.args))
<1>1. call.tool \in ToolNames /\ Validate(call.tool, call.args)
  BY DEF Validated
<1>2. CASE call.tool = "robot.move"
  <2>1. Definition("robot.move").operation = "MOVE"
    BY DEF Definition, Tool
  <2>2. Builds(call.tool, call.args)
    BY <1>1, <1>2, MoveValid DEF Builds
  <2>3. /\ Timeout(call.tool, call.args) \in Nat \ {0}
        /\ Timeout(call.tool, call.args) <= MoveMax
    BY <1>1, <1>2, MoveValid, ToolAssumption DEF Timeout
  <2>4. CASE call.args["direction"].s \in Rotations
    <3>1. Kind(call.tool, call.args) = "ROTATE"
      BY <1>2, <2>4 DEF Kind
    <3>2. "angle_deg" \in DOMAIN call.args
      BY <1>1, <1>2, <2>4 DEF Validate, SemanticCheck
    <3>3. Field(call.args, "angle_deg") \in Nat
      BY <1>1, <1>2, <3>2, MoveValid DEF Field
    <3>4. QED BY <1>2, <2>2, <2>3, <3>1, <3>3 DEF Complete, Create
  <2>5. CASE call.args["direction"].s \notin Rotations
    <3>1. Kind(call.tool, call.args) = "MOVE"
      BY <1>2, <2>1, <2>5 DEF Kind
    <3>2. call.args["direction"].s \in Translations
      BY <1>1, <1>2, <2>5, MoveValid
    <3>3. "distance_m" \in DOMAIN call.args
      BY <1>1, <1>2, <3>2 DEF Validate, SemanticCheck
    <3>4. Field(call.args, "distance_m") \in Nat
      BY <1>1, <1>2, <3>3, MoveValid DEF Field
    <3>5. QED BY <1>2, <2>2, <2>3, <3>1, <3>4 DEF Complete, Create
  <2>6. QED BY <2>4, <2>5
<1>3. CASE call.tool = "robot.navigate"
  <2>1. /\ Definition("robot.navigate").operation = "NAVIGATE"
        /\ Definition("robot.navigate").required = {"x", "y"}
    BY DEF Definition, Tool
  <2>2. Builds(call.tool, call.args)
    BY <1>1, <1>3, <2>1 DEF Builds, Validate, Conforms
  <2>3. Kind(call.tool, call.args) = "NAVIGATE"
    BY <1>3, <2>1 DEF Kind
  <2>4. Timeout(call.tool, call.args) = NavigateDefault
    BY <1>3 DEF Timeout
  <2>5. QED BY <1>3, <2>2, <2>3, <2>4, ToolAssumption DEF Complete, Create
<1>4. CASE call.tool = "robot.stop"
  <2>1. Definition("robot.stop").operation = "STOP"
    BY DEF Definition, Tool
  <2>2. Builds(call.tool, call.args)
    BY <1>4 DEF Builds
  <2>3. Kind(call.tool, call.args) = "STOP"
    BY <1>4, <2>1 DEF Kind
  <2>4. Timeout(call.tool, call.args) = 50
    BY <1>4 DEF Timeout
  <2>5. QED BY <1>4, <2>2, <2>3, <2>4 DEF Complete, Create
<1>5. QED BY <1>1, <1>2, <1>3, <1>4, MotionTools DEF Validated

-----------------------------------------------------------------------------
(* The policy behind the tool surface.                                     *)

\* Behind the tool surface the safety policy does what it is specified to do:
\* no call changes what it remembers in another way.
THEOREM ImplementsPolicy == ToolSpec => Spec
<1>1. ToolInit => Init
  BY DEF ToolInit
<1>2. [ToolNext]_toolVars => [Next]_vars
  <2>1. SUFFICES ASSUME ToolNext PROVE [Next]_vars
    BY DEF toolVars
  <2>2. ASSUME NEW call \in ClientCalls, NEW s \in Sessions, CallMotion(s, call)
        PROVE  [Next]_vars
    <3>1. CASE \E ask \in Ask : Check(s, ask)
      BY <3>1 DEF Next
    <3>2. QED BY <2>2, <3>1 DEF CallMotion, Asks, Answers
  <2>3. QED
    BY <2>1, <2>2 DEF ToolNext, Call, CallUnknown, CallInvalid, CallRead, Answers, Next
<1>3. QED BY <1>1, <1>2, PTL DEF ToolSpec, Spec

\* Hence the rate limit holds for what clients can call: no second lets more
\* motion commands of a session through than the rate rounded up.
THEOREM SurfaceRate == ToolSpec => []RateBound
  BY ImplementsPolicy, RateHolds, PTL

\* And a session is turned away only for commands of its own.
THEOREM SurfaceDenial == ToolSpec => []FairDenial
  BY ImplementsPolicy, DenialFair, PTL

LEMMA PolicyTyped == ToolSpec => []TypeOK
  BY ImplementsPolicy, TypeCorrect, PTL

-----------------------------------------------------------------------------
(* The answers.                                                            *)

\* Every check is answered with a verdict, and a stop is allowed.
LEMMA CheckAnswers ==
  ASSUME NEW s \in Sessions, NEW ask \in Ask, Check(s, ask)
  PROVE  last'.verdict \in Verdicts /\ (ask.op = "STOP" => last'.verdict = "ALLOW")
<1>1. CASE CheckStop(s, ask)
  BY <1>1 DEF CheckStop, Answer, Verdicts
<1>2. CASE CheckLimited(s, ask)
  BY <1>2 DEF CheckLimited, Answer, Verdicts
<1>3. ASSUME NEW c \in Calls, CheckAdmitted(s, c, ask)
      PROVE  last'.verdict \in Verdicts /\ ask.op # "STOP"
  <2>1. last'.verdict = Judge(ask) /\ ask.op # "STOP"
    BY <1>3 DEF CheckAdmitted, Answer
  <2>2. QED BY <2>1, JudgeType
<1>4. QED BY <1>1, <1>2, <1>3 DEF Check

\* What an outcome says of the verdict and the command.
LEMMA OutcomeFacts ==
  ASSUME NEW command, NEW registry, last'.verdict \in Verdicts
  PROVE  LET outcome == Outcome(command, registry)
         IN  /\ outcome \in Outcomes \ {"raised"}
             /\ outcome = "dispatched" => command.kind # "STOP"
             /\ outcome = "CAPABILITY_UNAVAILABLE" => ~Plannable(command, registry)
             /\ (command.kind = "STOP" /\ last'.verdict = "ALLOW") => outcome = "stopped"
  BY DEF Outcome, Outcomes, Verdicts

\* A listed move has a back end.
LEMMA ListedMovePlannable ==
  ASSUME NEW command, NEW registry,
         "robot.move" \in Listed(registry), command.kind \in {"MOVE", "ROTATE"}
  PROVE  Plannable(command, registry)
<1>1. Definition("robot.move").needs = {"differential_drive_motion"}
  BY DEF Definition, Tool
<1>2. registry["differential_drive_motion"] = "usable"
  BY <1>1 DEF Listed
<1>3. QED BY <1>2 DEF Plannable

ReplyType ==
  [tool: {c.tool : c \in ClientCalls} \cup {"none"}, outcome: Outcomes, listed: BOOLEAN,
   command: [kind: {"none", "MOVE", "ROTATE", "STOP", "NAVIGATE"}, magnitude: Int, timeout: Nat]]

\* The reply's part of the type invariant together with the two properties.
ReplyInv == reply \in ReplyType /\ DispatchedComplete /\ ListedCanRun

LEMMA MotionReply ==
  ASSUME NEW s \in Sessions, NEW call \in ClientCalls, CallMotion(s, call)
  PROVE  ReplyInv'
<1> DEFINE command == Create(call.tool, call.args)
<1>1. Complete(call, command) /\ Builds(call.tool, call.args)
  BY CreateComplete DEF CallMotion, Complete
<1>2. PICK ask \in Asks(command) :
        /\ Check(s, ask)
        /\ \E registry \in Registries :
             Replies(call, Outcome(command, registry),
                     call.tool \in Listed(registry), command)
  BY <1>1 DEF CallMotion
<1>3. PICK registry \in Registries :
        Replies(call, Outcome(command, registry),
                call.tool \in Listed(registry), command)
  BY <1>2
<1> DEFINE outcome == Outcome(command, registry)
<1>4. ask \in Ask /\ ask.op = command.kind
  BY DEF Asks
<1>5. last'.verdict \in Verdicts /\ (command.kind = "STOP" => last'.verdict = "ALLOW")
  BY <1>2, <1>4, CheckAnswers
<1>6. /\ outcome \in Outcomes \ {"raised"}
      /\ outcome = "dispatched" => command.kind # "STOP"
      /\ outcome = "CAPABILITY_UNAVAILABLE" => ~Plannable(command, registry)
      /\ command.kind = "STOP" => outcome = "stopped"
  BY <1>5, OutcomeFacts
<1>7. reply' = [tool |-> call.tool, outcome |-> outcome,
                listed |-> (call.tool \in Listed(registry)), command |-> command]
  BY <1>3 DEF Replies
<1>8. command \in [kind: {"none", "MOVE", "ROTATE", "STOP", "NAVIGATE"},
                  magnitude: Int, timeout: Nat]
  <2>1. command = [kind |-> command.kind, magnitude |-> command.magnitude,
                   timeout |-> command.timeout]
    BY DEF Create
  <2>2. QED BY <1>1, <2>1 DEF Complete
<1>9. (call.tool \in Listed(registry) /\ outcome = "CAPABILITY_UNAVAILABLE")
         => call.tool = "robot.navigate"
  BY <1>1, <1>6, ListedMovePlannable DEF Complete
<1> HIDE DEF command, outcome
<1>10. reply' \in ReplyType
  BY <1>6, <1>7, <1>8 DEF ReplyType
<1>11. DispatchedComplete'
  BY <1>1, <1>6, <1>7 DEF DispatchedComplete, Complete
<1>12. ListedCanRun'
  BY <1>1, <1>6, <1>7, <1>9 DEF ListedCanRun, Complete
<1>13. QED BY <1>10, <1>11, <1>12 DEF ReplyInv

\* A validated read has all the factory looks for.
LEMMA ReadBuilds ==
  ASSUME NEW call, Validated(call, "READ")
  PROVE  Builds(call.tool, call.args) /\ call.tool # "robot.stop"
<1>1. Definition(call.tool).class = "READ"
  BY DEF Validated
<1>2. call.tool \notin {"robot.move", "robot.navigate", "robot.stop"}
  BY <1>1 DEF Definition, Tool
<1>3. QED BY <1>2 DEF Builds

LEMMA AnswersReply ==
  ASSUME NEW call \in ClientCalls, NEW outcome \in {"unknown_tool", "INVALID_ARGUMENT", "read"},
         Answers(call, outcome), outcome # "INVALID_ARGUMENT" => call.tool # "robot.stop"
  PROVE  ReplyInv'
<1>1. reply' = [tool |-> call.tool, outcome |-> outcome, listed |-> FALSE,
                command |-> NoCommand]
  BY DEF Answers, Replies
<1>2. outcome \in Outcomes
  BY DEF Outcomes
<1>3. NoCommand \in [kind: {"none", "MOVE", "ROTATE", "STOP", "NAVIGATE"},
                    magnitude: Int, timeout: Nat]
  BY DEF NoCommand
<1>4. reply' \in ReplyType
  BY <1>1, <1>2, <1>3 DEF ReplyType
<1>5. QED BY <1>1, <1>4 DEF ReplyInv, DispatchedComplete, ListedCanRun

LEMMA Replied == ToolSpec => []ReplyInv
<1>1. ToolInit => ReplyInv
  BY DEF ToolInit, ReplyInv, ReplyType, Outcomes, NoCommand, DispatchedComplete, ListedCanRun
<1>2. ReplyInv /\ [ToolNext]_toolVars => ReplyInv'
  <2>1. SUFFICES ASSUME ReplyInv, [ToolNext]_toolVars PROVE ReplyInv'
    OBVIOUS
  <2>2. CASE UNCHANGED reply
    BY <2>1, <2>2 DEF ReplyInv, ReplyType, DispatchedComplete, ListedCanRun
  <2>3. ASSUME NEW call \in ClientCalls, CallUnknown(call) PROVE ReplyInv'
    BY <2>3, AnswersReply DEF CallUnknown, ToolNames
  <2>4. ASSUME NEW call \in ClientCalls, CallInvalid(call) PROVE ReplyInv'
    BY <2>4, AnswersReply DEF CallInvalid
  <2>5. ASSUME NEW call \in ClientCalls, CallRead(call) PROVE ReplyInv'
    BY <2>5, ReadBuilds, AnswersReply DEF CallRead
  <2>6. ASSUME NEW call \in ClientCalls, NEW s \in Sessions, CallMotion(s, call)
        PROVE  ReplyInv'
    BY <2>6, MotionReply
  <2>7. QED BY <2>1, <2>2, <2>3, <2>4, <2>5, <2>6 DEF ToolNext, Call, toolVars
<1>3. QED BY <1>1, <1>2, PTL DEF ToolSpec

\* Every answer is one the surface can give.
THEOREM SurfaceTyped == ToolSpec => []SurfaceTypeOK
<1>1. TypeOK /\ ReplyInv => SurfaceTypeOK
  BY DEF ReplyInv, ReplyType, SurfaceTypeOK
<1>2. QED BY <1>1, PolicyTyped, Replied, PTL

\* Whatever a client sends, the factory does not raise and what reaches a back
\* end is complete.
THEOREM DispatchesComplete == ToolSpec => []DispatchedComplete
<1>1. ReplyInv => DispatchedComplete
  BY DEF ReplyInv
<1>2. QED BY <1>1, Replied, PTL

\* A listed move always has its back end, and a well-formed stop is carried out
\* whatever the registry and the rate limit say.
THEOREM ListedRuns == ToolSpec => []ListedCanRun
<1>1. ReplyInv => ListedCanRun
  BY DEF ReplyInv
<1>2. QED BY <1>1, Replied, PTL
=============================================================================
