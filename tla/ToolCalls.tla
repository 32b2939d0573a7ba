------------------------------- MODULE ToolCalls -------------------------------
(***************************************************************************)
(* The way of a tool call, from the client's JSON to the answer:           *)
(* DefaultToolProvider.handle_call (mcp/tool_provider.py) validates it     *)
(* against the tool's schema (mcp/schemas.py, validation/), builds a       *)
(* command (commands/factory.py), and the execution manager asks the       *)
(* safety policy (SafetyPolicy) and the planner (execution/planner.py).    *)
(* Calls are handled one after another as far as these parts can tell:     *)
(* what the policy remembers changes in one step, and the registry may be  *)
(* another one at every call.  A command that is dispatched or stopped has *)
(* reached its back end; what becomes of it there, and a pose lookup that  *)
(* raises, are in ExecutionManager.                                        *)
(*                                                                         *)
(* JSON values are records with their kind; times are in tenths of a       *)
(* second.                                                                 *)
(***************************************************************************)
EXTENDS SafetyPolicy

CONSTANTS ClientCalls,     \* the calls [tool, args] clients make
          Registries,      \* what the capability registry may hold
          MoveDefault,     \* timeouts.move_default_s
          MoveMax,         \* timeouts.move_max_s
          NavigateDefault  \* timeouts.navigate_default_s

Capabilities == {"differential_drive_motion", "autonomous_navigation", "localization",
                 "range_sensing", "visual_observation", "object_detection"}

\* TimeoutConfig refuses a default above the maximum.  The numbers of a call are
\* whole in this model.
ASSUME ToolAssumption ==
  /\ \A c \in ClientCalls : \A f \in DOMAIN c.args :
       c.args[f].kind \in {"integer", "float"} => c.args[f].n \in Int
  /\ MoveDefault \in Nat \ {0} /\ MoveMax \in Nat \ {0} /\ MoveDefault <= MoveMax
  /\ NavigateDefault \in Nat \ {0}
  /\ Registries \subseteq [Capabilities -> {"absent", "AMBIGUOUS", "usable"}]

VARIABLE reply  \* the latest call and its answer

toolVars == <<vars, reply>>

-----------------------------------------------------------------------------
(* TOOL_DEFINITIONS.                                                       *)

Translations == {"forward", "backward", "left", "right"}
Rotations == {"rotate_left", "rotate_right"}

NoFields == <<>>

MoveFields ==
  [direction |-> [type |-> "string", enum |-> Translations \cup Rotations],
   distance_m |-> [type |-> "number", minimum |-> 0],
   angle_deg |-> [type |-> "number", minimum |-> 0, maximum |-> 360],
   timeout_s |-> [type |-> "number", minimum |-> 1]]

NavigateFields ==
  [x |-> [type |-> "number"], y |-> [type |-> "number"], yaw |-> [type |-> "number"],
   frame |-> [type |-> "string"]]

ImageFields == [max_width_px |-> [type |-> "integer", maximum |-> 1280]]

Tool(operation, class, needs, fields, required) ==
  [operation |-> operation, class |-> class, needs |-> needs, fields |-> fields,
   required |-> required]

ToolNames == {"robot.get_capabilities", "robot.get_state", "robot.move", "robot.stop",
              "robot.navigate", "robot.get_laser_scan", "robot.get_camera_image",
              "robot.detect_objects"}

Definition(tool) ==
  CASE tool = "robot.get_capabilities" ->
         Tool("GET_CAPABILITIES", "READ", {}, NoFields, {})
    [] tool = "robot.get_state" ->
         Tool("GET_STATE", "READ", {}, [frame |-> [type |-> "string"]], {})
    [] tool = "robot.move" ->
         Tool("MOVE", "MOTION", {"differential_drive_motion"}, MoveFields, {"direction"})
    [] tool = "robot.stop" ->
         Tool("STOP", "MOTION", {"differential_drive_motion"}, NoFields, {})
    [] tool = "robot.navigate" ->
         Tool("NAVIGATE", "MOTION", {"autonomous_navigation"}, NavigateFields, {"x", "y"})
    [] tool = "robot.get_laser_scan" ->
         Tool("GET_LASER_SCAN", "READ", {"range_sensing"},
              [include_raw_ranges |-> [type |-> "boolean"]], {})
    [] tool = "robot.get_camera_image" ->
         Tool("GET_CAMERA_IMAGE", "READ", {"visual_observation"}, ImageFields, {})
    [] tool = "robot.detect_objects" ->
         Tool("DETECT_OBJECTS", "READ", {"object_detection"},
              [labels |-> [type |-> "array", items |-> "string"]], {})

\* Mutant: a capability nobody could resolve counts as well.
ListedAny(registry) ==
  {t \in ToolNames : \A c \in Definition(t).needs : registry[c] # "absent"}

\* current_tools.
Listed(registry) ==
  {t \in ToolNames : \A c \in Definition(t).needs : registry[c] = "usable"}

-----------------------------------------------------------------------------
(* Validation.                                                             *)

\* The kinds of JSON values a type of the schemas accepts.
Accepts(type) == CASE type = "number" -> {"integer", "float"} [] OTHER -> {type}

\* _check for a field, whose number is n, whose string is s and whose items have
\* the kinds it holds.
FieldConforms(rule, value) ==
  /\ value.kind \in Accepts(rule.type)
  /\ "items" \in DOMAIN rule => value.items \subseteq {rule.items}
  /\ "enum" \in DOMAIN rule => value.s \in rule.enum
  /\ "minimum" \in DOMAIN rule => value.n >= rule.minimum
  /\ "maximum" \in DOMAIN rule => value.n <= rule.maximum

\* check_schema: no field is missing and none is unexpected.
Conforms(definition, args) ==
  /\ definition.required \subseteq DOMAIN args
  /\ DOMAIN args \subseteq DOMAIN definition.fields
  /\ \A f \in DOMAIN args : FieldConforms(definition.fields[f], args[f])

\* Mutant: the direction is not asked what it needs.
SemanticCheckEither(tool, args) ==
  tool = "robot.move" => "distance_m" \in DOMAIN args \/ "angle_deg" \in DOMAIN args

\* _semantic_check: a direction comes with the magnitude it needs.
SemanticCheck(tool, args) ==
  tool = "robot.move" =>
    /\ args["direction"].s \in Translations => "distance_m" \in DOMAIN args
    /\ args["direction"].s \in Rotations => "angle_deg" \in DOMAIN args

Validate(tool, args) == Conforms(Definition(tool), args) /\ SemanticCheck(tool, args)

-----------------------------------------------------------------------------
(* The command.                                                            *)

\* _build_target and _resolve_timeout_s raise when a field they index is not
\* there or the timeout is no number.
Builds(tool, args) ==
  /\ tool = "robot.move" => "direction" \in DOMAIN args
  /\ tool = "robot.navigate" => {"x", "y"} \subseteq DOMAIN args
  /\ (tool = "robot.move" /\ "timeout_s" \in DOMAIN args) =>
       args["timeout_s"].kind \in {"integer", "float"}

Timeout(tool, args) ==
  CASE tool = "robot.move" /\ "timeout_s" \in DOMAIN args ->
         IF args["timeout_s"].n < MoveMax THEN args["timeout_s"].n ELSE MoveMax
    [] tool = "robot.move" /\ "timeout_s" \notin DOMAIN args -> MoveDefault
    [] tool = "robot.navigate" -> NavigateDefault
    [] OTHER -> 50

\* None is -1: neither magnitude can be.
Field(args, field) == IF field \in DOMAIN args THEN args[field].n ELSE -1

\* The operation as the safety policy tells them apart.
Kind(tool, args) ==
  CASE tool = "robot.move" /\ args["direction"].s \in Rotations -> "ROTATE"
    [] OTHER -> Definition(tool).operation

Create(tool, args) ==
  [kind |-> Kind(tool, args),
   magnitude |-> CASE Kind(tool, args) = "MOVE" -> Field(args, "distance_m")
                   [] Kind(tool, args) = "ROTATE" -> Field(args, "angle_deg")
                   [] OTHER -> 0,
   timeout |-> Timeout(tool, args)]

NoCommand == [kind |-> "none", magnitude |-> 0, timeout |-> 0]

\* What the policy looks at: the distance to a goal depends on the pose.
Asks(command) ==
  {ask \in Ask : /\ ask.op = command.kind
                 /\ command.kind = "MOVE" => ask.distance = command.magnitude
                 /\ command.kind \in {"STOP", "ROTATE"} => ask.distance = 0}

\* select_backend: a navigation also needs some localization.  is_available()
\* looks at the same entry again; whether the action server answers is asked by
\* navigate() itself.
Plannable(command, registry) ==
  CASE command.kind \in {"MOVE", "ROTATE"} ->
         registry["differential_drive_motion"] = "usable"
    [] command.kind = "NAVIGATE" ->
         /\ registry["autonomous_navigation"] = "usable"
         /\ registry["localization"] # "absent"
    [] OTHER -> FALSE

-----------------------------------------------------------------------------
(* Calls.                                                                  *)

Outcomes == {"none", "unknown_tool", "INVALID_ARGUMENT", "raised", "read", "stopped",
             "dispatched", "awaiting_approval", "CAPABILITY_UNAVAILABLE"} \cup Verdicts

\* The one type invariant of the module.
SurfaceTypeOK ==
  /\ TypeOK
  /\ reply \in [tool: {c.tool : c \in ClientCalls} \cup {"none"}, outcome: Outcomes,
                listed: BOOLEAN,
                command: [kind: {"none", "MOVE", "ROTATE", "STOP", "NAVIGATE"},
                          magnitude: Int, timeout: Nat]]

Replies(call, outcome, listed, command) ==
  reply' = [tool |-> call.tool, outcome |-> outcome, listed |-> listed, command |-> command]

\* An answer the motion layer has no part in.
Answers(call, outcome) ==
  Replies(call, outcome, FALSE, NoCommand) /\ UNCHANGED vars

ToolInit ==
  /\ Init
  /\ reply = [tool |-> "none", outcome |-> "none", listed |-> FALSE, command |-> NoCommand]

CallUnknown(call) == call.tool \notin ToolNames /\ Answers(call, "unknown_tool")

\* What fails validation goes no further.
CallInvalid(call) ==
  /\ call.tool \in ToolNames
  /\ ~Validate(call.tool, call.args)
  /\ Answers(call, "INVALID_ARGUMENT")

Validated(call, class) ==
  /\ call.tool \in ToolNames
  /\ Validate(call.tool, call.args)
  /\ Definition(call.tool).class = class

\* The read handlers answer by themselves (Reading), without policy or planner.
CallRead(call) ==
  /\ Validated(call, "READ")
  /\ Answers(call, IF Builds(call.tool, call.args) THEN "read" ELSE "raised")

\* What becomes of a motion command once the policy has answered.
Outcome(command, registry) ==
  CASE last'.verdict = "REQUIRE_APPROVAL" -> "awaiting_approval"
    [] last'.verdict = "ALLOW" /\ command.kind = "STOP" -> "stopped"
    [] last'.verdict = "ALLOW" /\ command.kind # "STOP" ->
         IF Plannable(command, registry) THEN "dispatched"
         ELSE "CAPABILITY_UNAVAILABLE"
    [] OTHER -> last'.verdict

\* Nobody asks whether the tool was listed: the registry is the one of now.
CallMotion(s, call) ==
  /\ Validated(call, "MOTION")
  /\ IF Builds(call.tool, call.args)
     THEN LET command == Create(call.tool, call.args)
          IN  \E ask \in Asks(command) :
                /\ Check(s, ask)
                /\ \E registry \in Registries :
                     Replies(call, Outcome(command, registry),
                             call.tool \in Listed(registry), command)
     ELSE Answers(call, "raised")

Call(call) == \/ CallUnknown(call) \/ CallInvalid(call) \/ CallRead(call)
              \/ \E s \in Sessions : CallMotion(s, call)

ToolNext ==
  \/ Elapse /\ UNCHANGED reply
  \/ \E call \in ClientCalls : Call(call)

ToolSpec == ToolInit /\ [][ToolNext]_toolVars

-----------------------------------------------------------------------------
(* Properties.                                                             *)

\* Whatever a client sends, what reaches a back end is complete: a move has the
\* magnitude its direction needs and a timeout within the configured maximum,
\* and no validated call makes the factory raise.
DispatchedComplete ==
  /\ reply.outcome # "raised"
  /\ reply.outcome = "dispatched" =>
       /\ reply.command.magnitude >= 0
       /\ reply.command.timeout > 0
       /\ reply.command.kind # "NAVIGATE" => reply.command.timeout <= MoveMax

\* A tool the server lists is one its planner has a back end for, navigation
\* excepted; and whatever the list, a well-formed stop reaches its handler, with
\* the session's rate used up and the motion capability gone.
ListedCanRun ==
  /\ (reply.listed /\ reply.outcome = "CAPABILITY_UNAVAILABLE") => reply.tool = "robot.navigate"
  /\ reply.tool = "robot.stop" => reply.outcome \in {"stopped", "INVALID_ARGUMENT"}
=============================================================================
