------------------------------ MODULE MCToolCalls ------------------------------
(***************************************************************************)
(* An instance of ToolCalls for TLC.                                       *)
(***************************************************************************)
EXTENDS ToolCalls, TLC

Int_(n) == [kind |-> "integer", n |-> n]
Float(n) == [kind |-> "float", n |-> n]
Str(s) == [kind |-> "string", s |-> s]
Bool == [kind |-> "boolean"]
Null == [kind |-> "null"]
List(kinds) == [kind |-> "array", items |-> kinds]

Calling(tool, argSets) == {[tool |-> tool, args |-> a] : a \in argSets}

Go(direction) == "direction" :> Str(direction)

MCMoves ==
  {Go("left") @@ "distance_m" :> Int_(3),
   Go("backward") @@ "distance_m" :> Int_(0) @@ "timeout_s" :> Float(10),
   Go("rotate_right") @@ "angle_deg" :> Float(0) @@ "timeout_s" :> Int_(900),
   Go("forward") @@ "angle_deg" :> Int_(90),
   Go("rotate_left") @@ "distance_m" :> Int_(0),
   Go("sideways") @@ "distance_m" :> Int_(0),
   Go("forward") @@ "distance_m" :> Int_(-1),
   Go("rotate_left") @@ "angle_deg" :> Float(361),
   Go("forward") @@ "distance_m" :> Bool,
   "distance_m" :> Int_(0)}

MCNavigations ==
  {"x" :> Int_(1) @@ "y" :> Float(2),
   "x" :> Int_(1) @@ "y" :> Int_(2) @@ "yaw" :> Null,
   "x" :> Int_(1)}

MCClientCalls ==
  Calling("robot.move", MCMoves)
    \cup Calling("robot.navigate", MCNavigations)
    \cup Calling("robot.stop", {<<>>, "now" :> Bool})
    \cup Calling("robot.detect_objects", {"labels" :> List({"string"}),
                                          "labels" :> List({"string", "integer"})})
    \cup Calling("robot.get_camera_image", {"max_width_px" :> Int_(-5),
                                            "max_width_px" :> Float(640)})
    \cup Calling("robot.teleport", {<<>>})

Everything(confidence) == [c \in Capabilities |-> confidence]
MCRegistries == {Everything("usable"), Everything("AMBIGUOUS"),
                 [Everything("usable") EXCEPT !["localization"] = "absent"]}

\* The calls that take a place in the rate limit's window are interchangeable,
\* and so are sessions.
PolicySymmetry == Permutations(Calls) \cup Permutations(Sessions)
================================================================================
