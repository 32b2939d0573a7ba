----------------------------- MODULE CmdVelMotion -----------------------------
(***************************************************************************)
(* The control loop of CmdVelMotionPlugin.move()                           *)
(* (src/src/ros_mcp/adapters/motion/cmd_vel_plugin.py), one call after     *)
(* another.  Velocities, heading errors and distances are integers in a    *)
(* unit the instance chooses.  The positions and obstacles a tick reads      *)
(* from the odometry and scan caches are unconstrained: a robot slips or is *)
(* pushed between two ticks.                                               *)
(***************************************************************************)
EXTENDS Integers

CONSTANTS MaxLin, MaxAng,   \* max_linear_mps, max_angular_rps
          AccLin, AccAng,   \* the acceleration limits times the tick period
          KpLin, KpAng,     \* the controller's gains
          TolPos, TolAng,   \* the tolerances
          HeadingErrors,    \* heading errors the odometry may show
          Distances         \* remaining distances the odometry may show

ASSUME LimitsAssumption == MaxLin \in Nat /\ MaxAng \in Nat /\ AccLin \in Int /\ AccAng \in Int
ASSUME ControllerAssumption == KpLin \in Int /\ KpAng \in Int /\ TolPos \in Int /\ TolAng \in Int
ASSUME SensedAssumption == HeadingErrors \subseteq Int /\ Distances \subseteq Int

VARIABLES
  loc,       \* where move() waits; "idle": it is not running
  order,     \* the direction it was asked for, as a kind and a drive_sign
  phase,     \* turning or driving
  prevLin,   \* prev_linear_cmd
  prevAng,   \* prev_angular_cmd
  cmd,       \* the Twist on its way to the ROS thread
  wire,      \* the last Twist published on the topic
  own,       \* history: the last Twist this call published, zero at first
  cancelled, \* token.is_cancelled()
  late,      \* history: a Twist of the loop was published after that
  expired,   \* token.deadline_exceeded(), or the deadline of move() passed
  fresh,     \* the cached odometry is younger than odom_stale_s
  reason     \* stop_reason of the result

twists == <<cmd, wire, own>>
vars == <<loc, order, phase, prevLin, prevAng, cmd, wire, own, cancelled, late, expired,
          fresh, reason>>

Twist == [lin: Int, ang: Int]
Zero == [lin |-> 0, ang |-> 0]

\* forward, backward, left/right, rotate_left/rotate_right.
Orders == {[kind |-> "straight", sign |-> 1], [kind |-> "straight", sign |-> -1],
           [kind |-> "sideways", sign |-> 1], [kind |-> "rotate", sign |-> 0]}

Reasons == {"none", "cancelled", "timeout", "safety_stop", "target_reached", "aborted"}

\* The one type invariant of the module.
TypeOK ==
  /\ loc \in {"idle", "tick", "publishing", "stopping", "asleep"}
  /\ order \in Orders
  /\ phase \in {"turning", "driving"}
  /\ prevLin \in Int /\ prevAng \in Int
  /\ cmd \in Twist /\ wire \in Twist /\ own \in Twist
  /\ cancelled \in BOOLEAN /\ late \in BOOLEAN /\ expired \in BOOLEAN /\ fresh \in BOOLEAN
  /\ reason \in Reasons

Init ==
  /\ loc = "idle"
  /\ order = [kind |-> "rotate", sign |-> 0]
  /\ phase = "turning"
  /\ prevLin = 0 /\ prevAng = 0
  /\ cmd = Zero /\ wire = Zero /\ own = Zero
  /\ cancelled = FALSE /\ late = FALSE /\ expired = FALSE /\ fresh = FALSE
  /\ reason = "none"

-----------------------------------------------------------------------------
Least(a, b) == IF b < a THEN b ELSE a
Greatest(a, b) == IF b > a THEN b ELSE a
Abs(x) == IF x < 0 THEN -x ELSE x

\* Mutant: only the upper bound is applied.
ClampAbove(x, lo, hi) == Least(hi, x)

\* _clamp
Clamp(x, lo, hi) == Greatest(lo, Least(hi, x))

\* Mutant: braking is not limited.
ClampDeltaUp(new, prev, maxDelta) ==
  CASE maxDelta <= 0 -> prev
    [] maxDelta > 0 /\ new - prev > maxDelta -> prev + maxDelta
    [] OTHER -> new

\* _clamp_delta: a limit that is not positive freezes the command.
ClampDelta(new, prev, maxDelta) ==
  CASE maxDelta <= 0 -> prev
    [] maxDelta > 0 /\ new - prev > maxDelta -> prev + maxDelta
    [] maxDelta > 0 /\ new - prev < -maxDelta -> prev - maxDelta
    [] OTHER -> new

\* The P controller and its two clamps.
Angular(err, prev) == ClampDelta(Clamp(KpAng * err, -MaxAng, MaxAng), prev, AccAng)
Speed(rem) == Clamp(KpLin * rem, 0, MaxLin)
Linear(sign, rem, prev) ==
  ClampDelta(IF sign = -1 THEN -Speed(rem) ELSE Speed(rem), prev, AccLin)

-----------------------------------------------------------------------------
\* await _publish_zero(), then return with this stop_reason.
Halt(why) ==
  /\ loc' = "stopping"
  /\ cmd' = Zero
  /\ reason' = why
  /\ UNCHANGED <<order, phase, prevLin, prevAng, wire, own, cancelled, late, expired, fresh>>

\* await _publish_twist(lin, ang)
Publish(lin, ang) ==
  /\ loc' = "publishing"
  /\ cmd' = [lin |-> lin, ang |-> ang]
  /\ UNCHANGED <<order, phase, prevLin, prevAng, wire, own, cancelled, late, expired, fresh, reason>>

\* Mutant: the ramp goes on where the last call left it.
BeginKeepsRamp ==
  /\ loc = "idle"
  /\ order' \in Orders
  /\ phase' = IF order'.kind = "straight" THEN "driving" ELSE "turning"
  /\ cmd' = Zero /\ own' = Zero
  /\ cancelled' = FALSE /\ late' = FALSE /\ expired' = FALSE
  /\ \/ fresh /\ loc' = "tick" /\ reason' = "none"
     \/ ~fresh /\ loc' = "stopping" /\ reason' = "safety_stop"
  /\ UNCHANGED <<prevLin, prevAng, wire, fresh>>

\* Mutant: the reason of a refused start is an error code.
BeginMisreports ==
  /\ loc = "idle"
  /\ order' \in Orders
  /\ phase' = IF order'.kind = "straight" THEN "driving" ELSE "turning"
  /\ prevLin' = 0 /\ prevAng' = 0
  /\ cmd' = Zero /\ own' = Zero
  /\ cancelled' = FALSE /\ late' = FALSE /\ expired' = FALSE
  /\ \/ fresh /\ loc' = "tick" /\ reason' = "none"
     \/ ~fresh /\ loc' = "stopping" /\ reason' = "SENSOR_STALE"
  /\ UNCHANGED <<wire, fresh>>

\* move() is called: it needs fresh odometry to begin with.
Begin ==
  /\ loc = "idle"
  /\ order' \in Orders
  /\ phase' = IF order'.kind = "straight" THEN "driving" ELSE "turning"
  /\ prevLin' = 0 /\ prevAng' = 0
  /\ cmd' = Zero /\ own' = Zero
  /\ cancelled' = FALSE /\ late' = FALSE /\ expired' = FALSE
  /\ \/ fresh /\ loc' = "tick" /\ reason' = "none"
     \/ ~fresh /\ loc' = "stopping" /\ reason' = "safety_stop"
  /\ UNCHANGED <<wire, fresh>>

\* The checks at the top of the loop, in the order the code makes them.
\* near: an obstacle is within the stop distance in the sector of the
\* direction of travel.
Interrupt(near) ==
  \/ cancelled /\ Halt("cancelled")
  \/ ~cancelled /\ expired /\ Halt("timeout")
  \/ ~cancelled /\ ~expired /\ ~fresh /\ Halt("safety_stop")
  \/ /\ ~cancelled /\ ~expired /\ fresh /\ phase = "driving" /\ near
     /\ Halt("safety_stop")

Interrupted(near) == cancelled \/ expired \/ ~fresh \/ (phase = "driving" /\ near)

\* Mutant: a finished rotation returns without a zero Twist.
TurnedReturns(err) ==
  /\ Abs(err) <= TolAng
  /\ loc' = IF order.kind = "rotate" THEN "idle" ELSE "asleep"
  /\ phase' = IF order.kind = "rotate" THEN phase ELSE "driving"
  /\ prevAng' = 0
  /\ UNCHANGED <<order, prevLin, twists, cancelled, late, expired, fresh, reason>>

\* Within the angle tolerance: a rotation is done, a sideways move goes on to
\* drive at its next tick.
Turned(err) ==
  /\ Abs(err) <= TolAng
  /\ \/ order.kind = "rotate" /\ Halt("target_reached")
     \/ /\ order.kind # "rotate"
        /\ phase' = "driving"
        /\ prevAng' = 0
        /\ loc' = "asleep"
        /\ UNCHANGED <<order, prevLin, twists, cancelled, late, expired, fresh, reason>>

Turn(err) == \/ Turned(err)
             \/ Abs(err) > TolAng /\ Publish(0, Angular(err, prevAng))

Drive(err, rem) ==
  \/ rem <= TolPos /\ Halt("target_reached")
  \/ rem > TolPos /\ Publish(Linear(order.sign, rem, prevLin), Angular(err, prevAng))

\* Mutant: nobody looks at the deadline.
TickIgnoresDeadline ==
  /\ loc = "tick"
  /\ \E near \in BOOLEAN :
       \/ cancelled /\ Halt("cancelled")
       \/ ~cancelled /\ (~fresh \/ (phase = "driving" /\ near)) /\ Halt("safety_stop")
       \/ /\ ~cancelled /\ fresh /\ ~(phase = "driving" /\ near)
          /\ \E err \in HeadingErrors :
               \/ phase = "turning" /\ Turn(err)
               \/ phase = "driving" /\ \E rem \in Distances : Drive(err, rem)

Tick ==
  /\ loc = "tick"
  /\ \E near \in BOOLEAN :
       \/ Interrupt(near)
       \/ /\ ~Interrupted(near)
          /\ \E err \in HeadingErrors :
               \/ phase = "turning" /\ Turn(err)
               \/ phase = "driving" /\ \E rem \in Distances : Drive(err, rem)

\* The ROS thread has published the Twist of the loop.
Published ==
  /\ loc = "publishing"
  /\ wire' = cmd /\ own' = cmd
  /\ prevLin' = cmd.lin /\ prevAng' = cmd.ang
  /\ late' = cancelled
  /\ loc' = "asleep"
  /\ UNCHANGED <<order, phase, cmd, cancelled, expired, fresh, reason>>

\* The ROS thread has published the final zero Twist: move() returns.
Returned ==
  /\ loc = "stopping"
  /\ wire' = cmd /\ own' = cmd
  /\ loc' = "idle"
  /\ UNCHANGED <<order, phase, prevLin, prevAng, cmd, cancelled, late, expired, fresh, reason>>

Awake ==
  /\ loc = "asleep"
  /\ loc' = "tick"
  /\ UNCHANGED <<order, phase, prevLin, prevAng, twists, cancelled, late, expired, fresh, reason>>

\* External: the token is cancelled, or the deadline passes.
CancelToken ==
  /\ loc # "idle" /\ ~cancelled
  /\ cancelled' = TRUE
  /\ UNCHANGED <<loc, order, phase, prevLin, prevAng, twists, late, expired, fresh, reason>>

Expire ==
  /\ loc # "idle" /\ ~expired
  /\ expired' = TRUE
  /\ UNCHANGED <<loc, order, phase, prevLin, prevAng, twists, cancelled, late, fresh, reason>>

\* External: odometry arrives again, or stops arriving.
Odometry ==
  /\ fresh' = ~fresh
  /\ UNCHANGED <<loc, order, phase, prevLin, prevAng, twists, cancelled, late, expired, reason>>

\* CancelledError is raised in whatever move() awaits, or publish() raises: no
\* handler publishes a zero Twist.  A Twist queued before the CancelledError
\* still reaches the topic.
Abort ==
  /\ loc # "idle"
  /\ loc' = "idle"
  /\ reason' = "aborted"
  /\ wire' = IF loc \in {"publishing", "stopping"} THEN cmd ELSE wire
  /\ own' = wire'
  /\ UNCHANGED <<order, phase, prevLin, prevAng, cmd, cancelled, late, expired, fresh>>

PublishRaises ==
  /\ loc \in {"publishing", "stopping"}
  /\ loc' = "idle"
  /\ reason' = "aborted"
  /\ UNCHANGED <<order, phase, prevLin, prevAng, twists, cancelled, late, expired, fresh>>

Next == \/ Begin \/ Tick \/ Published \/ Returned \/ Awake
        \/ CancelToken \/ Expire \/ Odometry
        \/ Abort \/ PublishRaises

Spec == Init /\ [][Next]_vars

\* The event loop, the ROS thread and the clock go on.
FairSpec == Spec /\ WF_vars(Tick) /\ WF_vars(Awake) /\ WF_vars(Expire)
                 /\ WF_vars(Published \/ Returned)

-----------------------------------------------------------------------------
(* Properties.                                                             *)

\* No Twist exceeds the configured speeds, whatever the sensors show, the gains
\* are, and earlier calls left behind.
SpeedLimits ==
  \A t \in {cmd, wire} : /\ -MaxLin <= t.lin /\ t.lin <= MaxLin
                         /\ -MaxAng <= t.ang /\ t.ang <= MaxAng

\* The robot only drives into the sector the obstacle check looks at: forward
\* and sideways moves never reverse, backward moves never advance, turns do
\* neither, even while the acceleration limit lags behind the controller.
DrivesWhereItLooks ==
  loc # "idle" =>
    \A t \in {cmd, own} : CASE phase = "turning" -> t.lin = 0
                            [] phase = "driving" /\ order.sign = 1 -> t.lin >= 0
                            [] OTHER -> t.lin <= 0

\* The linear command never steps further than the acceleration limit from the
\* one published before it in this call.  (The angular one may: Turned starts its
\* ramp anew while the robot still turns.)
LinearRamp == loc = "publishing" => Abs(cmd.lin - own.lin) <= Greatest(AccLin, 0)

\* A call ends by itself no later than its deadline lets it.
MoveEnds == loc # "idle" ~> loc = "idle"

\* The promise of MotionBackend.
Contract == INSTANCE MotionContract WITH
  running <- loc # "idle",
  moving <- wire # Zero,
  aborted <- loc = "idle" /\ reason = "aborted"

\* The promise of MotionBackend, as far as the code keeps it: unless something
\* interrupts move() from outside, its own checks bring the robot to rest.
KeepsContract == Contract!Spec
=============================================================================
