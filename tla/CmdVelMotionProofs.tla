-------------------------- MODULE CmdVelMotionProofs --------------------------
(***************************************************************************)
(* TLAPS proofs about the control loop of move(), for every choice of      *)
(* limits, gains, tolerances and sensor readings.                          *)
(***************************************************************************)
EXTENDS CmdVelMotion, TLAPS

LEMMA ClampBounds ==
  ASSUME NEW x \in Int, NEW lo \in Int, NEW hi \in Int, lo <= hi
  PROVE  Clamp(x, lo, hi) \in Int /\ lo <= Clamp(x, lo, hi) /\ Clamp(x, lo, hi) <= hi
BY DEF Clamp, Least, Greatest

\* The ramped command lies between the old and the new one, and no further
\* from the old one than the limit.
LEMMA ClampDeltaBounds ==
  ASSUME NEW new \in Int, NEW prev \in Int, NEW d \in Int
  PROVE  /\ ClampDelta(new, prev, d) \in Int
         /\ \A lo \in Int : lo <= new /\ lo <= prev => lo <= ClampDelta(new, prev, d)
         /\ \A hi \in Int : new <= hi /\ prev <= hi => ClampDelta(new, prev, d) <= hi
         /\ Abs(ClampDelta(new, prev, d) - prev) <= Greatest(d, 0)
<1>1. CASE d <= 0
  BY <1>1 DEF ClampDelta, Abs, Greatest
<1>2. CASE d > 0
  <2>1. CASE new - prev > d
    BY <1>2, <2>1 DEF ClampDelta, Abs, Greatest
  <2>2. CASE new - prev < -d
    BY <1>2, <2>2 DEF ClampDelta, Abs, Greatest
  <2>3. CASE -d <= new - prev /\ new - prev <= d
    BY <1>2, <2>3 DEF ClampDelta, Abs, Greatest
  <2>4. QED
    BY <2>1, <2>2, <2>3
<1>3. QED
  BY <1>1, <1>2

LEMMA AngularBounds ==
  ASSUME NEW err \in HeadingErrors, NEW prev \in Int, -MaxAng <= prev, prev <= MaxAng
  PROVE  /\ Angular(err, prev) \in Int
         /\ -MaxAng <= Angular(err, prev) /\ Angular(err, prev) <= MaxAng
<1> DEFINE v == Clamp(KpAng * err, -MaxAng, MaxAng)
<1>1. KpAng * err \in Int /\ -MaxAng \in Int /\ MaxAng \in Int /\ -MaxAng <= MaxAng
  BY LimitsAssumption, ControllerAssumption, SensedAssumption
<1>2. v \in Int /\ -MaxAng <= v /\ v <= MaxAng
  BY <1>1, ClampBounds
<1>3. QED
  BY <1>1, <1>2, LimitsAssumption, ClampDeltaBounds DEF Angular

LEMMA LinearBounds ==
  ASSUME NEW rem \in Distances, NEW sign \in {1, -1}, NEW prev \in Int,
         -MaxLin <= prev, prev <= MaxLin,
         sign = 1 => prev >= 0, sign = -1 => prev <= 0
  PROVE  /\ Linear(sign, rem, prev) \in Int
         /\ -MaxLin <= Linear(sign, rem, prev) /\ Linear(sign, rem, prev) <= MaxLin
         /\ sign = 1 => Linear(sign, rem, prev) >= 0
         /\ sign = -1 => Linear(sign, rem, prev) <= 0
         /\ Abs(Linear(sign, rem, prev) - prev) <= Greatest(AccLin, 0)
<1> DEFINE u == IF sign = -1 THEN -Speed(rem) ELSE Speed(rem)
<1>1. KpLin * rem \in Int /\ MaxLin \in Int /\ 0 \in Int /\ 0 <= MaxLin /\ AccLin \in Int
  BY LimitsAssumption, ControllerAssumption, SensedAssumption
<1>2. Speed(rem) \in Int /\ 0 <= Speed(rem) /\ Speed(rem) <= MaxLin
  BY <1>1, ClampBounds DEF Speed
<1>3. Linear(sign, rem, prev) = ClampDelta(u, prev, AccLin)
  BY DEF Linear
<1>4. /\ u \in Int /\ -MaxLin <= u /\ u <= MaxLin
      /\ sign = 1 => u >= 0
      /\ sign = -1 => u <= 0
  BY <1>1, <1>2
<1> HIDE DEF u
<1>5. /\ ClampDelta(u, prev, AccLin) \in Int
      /\ \A lo \in Int : lo <= u /\ lo <= prev => lo <= ClampDelta(u, prev, AccLin)
      /\ \A hi \in Int : u <= hi /\ prev <= hi => ClampDelta(u, prev, AccLin) <= hi
      /\ Abs(ClampDelta(u, prev, AccLin) - prev) <= Greatest(AccLin, 0)
  BY <1>1, <1>4, ClampDeltaBounds
<1>6. QED
  BY <1>1, <1>3, <1>4, <1>5

-----------------------------------------------------------------------------
(* The inductive invariant.                                                *)

Bounded(t) == /\ -MaxLin <= t.lin /\ t.lin <= MaxLin
              /\ -MaxAng <= t.ang /\ t.ang <= MaxAng

\* The Twist goes where the direction of travel says.
Allowed(t) == CASE phase = "turning" -> t.lin = 0
                [] phase = "driving" /\ order.sign = 1 -> t.lin >= 0
                [] OTHER -> t.lin <= 0

\* What the next tick starts from is within the limits, and its linear part is
\* what this call published last.
PrevInv == /\ -MaxLin <= prevLin /\ prevLin <= MaxLin
           /\ -MaxAng <= prevAng /\ prevAng <= MaxAng
           /\ loc \in {"tick", "publishing", "asleep"} => prevLin = own.lin

RotatesInPlace == phase = "driving" => order.kind # "rotate"

IInv == /\ TypeOK /\ PrevInv /\ RotatesInPlace /\ LinearRamp
        /\ Bounded(cmd) /\ Bounded(wire) /\ Bounded(own)
        /\ loc # "idle" => Allowed(cmd) /\ Allowed(own)

\* What a step of the loop does, besides moving on.
TickEffects ==
  \/ \E why \in Reasons : Halt(why)
  \/ /\ phase = "turning" /\ phase' = "driving" /\ prevAng' = 0 /\ loc' = "asleep"
     /\ order.kind # "rotate"
     /\ UNCHANGED <<order, prevLin, twists, cancelled, late, expired, fresh, reason>>
  \/ \E err \in HeadingErrors :
       phase = "turning" /\ Publish(0, Angular(err, prevAng))
  \/ \E err \in HeadingErrors, rem \in Distances :
       phase = "driving" /\ Publish(Linear(order.sign, rem, prevLin), Angular(err, prevAng))

LEMMA TickShape == Tick => loc = "tick" /\ TickEffects
<1> SUFFICES ASSUME Tick PROVE loc = "tick" /\ TickEffects
  OBVIOUS
<1>1. PICK near \in BOOLEAN :
        \/ Interrupt(near)
        \/ \E err \in HeadingErrors :
             \/ phase = "turning" /\ Turn(err)
             \/ phase = "driving" /\ \E rem \in Distances : Drive(err, rem)
  BY DEF Tick
<1>2. CASE Interrupt(near)
  BY <1>2 DEF Interrupt, TickEffects, Reasons, Tick
<1>3. ASSUME NEW err \in HeadingErrors, phase = "turning", Turn(err)
      PROVE  TickEffects
  BY <1>3 DEF Turn, Turned, TickEffects, Reasons
<1>4. ASSUME NEW err \in HeadingErrors, NEW rem \in Distances,
             phase = "driving", Drive(err, rem)
      PROVE  TickEffects
  BY <1>4 DEF Drive, TickEffects, Reasons
<1>5. QED
  BY <1>1, <1>2, <1>3, <1>4 DEF Tick

LEMMA InitInv == Init => IInv
<1> SUFFICES ASSUME Init PROVE IInv
  OBVIOUS
<1>1. Zero \in Twist /\ Zero.lin = 0 /\ Zero.ang = 0
  BY DEF Zero, Twist
<1>2. TypeOK /\ RotatesInPlace
  <2>1. order \in Orders
    BY Zenon DEF Init, Orders
  <2>2. cancelled \in BOOLEAN /\ late \in BOOLEAN /\ expired \in BOOLEAN /\ fresh \in BOOLEAN
    BY DEF Init
  <2>3. loc = "idle" /\ phase = "turning" /\ reason \in Reasons
    BY DEF Init, Reasons
  <2>4. prevLin \in Int /\ prevAng \in Int /\ cmd \in Twist /\ wire \in Twist /\ own \in Twist
    BY <1>1 DEF Init
  <2>5. QED
    BY <2>1, <2>2, <2>3, <2>4 DEF TypeOK, RotatesInPlace
<1>3. PrevInv /\ LinearRamp /\ Bounded(cmd) /\ Bounded(wire) /\ Bounded(own)
  BY <1>1, LimitsAssumption DEF Init, PrevInv, LinearRamp, Bounded
<1>4. QED
  BY <1>2, <1>3 DEF Init, IInv

LEMMA BeginStep == IInv /\ Begin => IInv'
<1> SUFFICES ASSUME IInv, Begin PROVE IInv'
  OBVIOUS
<1>1. Zero \in Twist /\ Zero.lin = 0 /\ Zero.ang = 0
  BY DEF Zero, Twist
<1>2. TypeOK'
  <2>1. order' \in Orders /\ loc' \in {"idle", "tick", "publishing", "stopping", "asleep"}
    BY DEF Begin
  <2>2. phase' \in {"turning", "driving"} /\ reason' \in Reasons
    BY DEF Begin, Reasons
  <2>3. prevLin' \in Int /\ prevAng' \in Int /\ cmd' \in Twist /\ wire' \in Twist /\ own' \in Twist
    BY <1>1 DEF IInv, TypeOK, Begin
  <2>4. cancelled' \in BOOLEAN /\ late' \in BOOLEAN /\ expired' \in BOOLEAN /\ fresh' \in BOOLEAN
    BY DEF IInv, TypeOK, Begin
  <2>5. QED
    BY <2>1, <2>2, <2>3, <2>4 DEF TypeOK
<1>3. RotatesInPlace' /\ PrevInv' /\ LinearRamp'
  BY <1>1, LimitsAssumption DEF Begin, RotatesInPlace, PrevInv, LinearRamp
<1>4. Bounded(cmd)' /\ Bounded(wire)' /\ Bounded(own)'
  BY <1>1, LimitsAssumption DEF IInv, Begin, Bounded
<1>5. Allowed(cmd)' /\ Allowed(own)'
  BY <1>1 DEF Begin, Allowed
<1>6. QED
  BY <1>2, <1>3, <1>4, <1>5 DEF IInv

\* A Twist within the limits that goes the right way may be handed to the ROS
\* thread.
LEMMA PublishStep ==
  ASSUME IInv, loc = "tick", NEW lin \in Int, NEW ang \in Int, Publish(lin, ang),
         -MaxLin <= lin, lin <= MaxLin, -MaxAng <= ang, ang <= MaxAng,
         Abs(lin - prevLin) <= Greatest(AccLin, 0),
         Allowed([lin |-> lin, ang |-> ang])
  PROVE  IInv'
<1>1. cmd' \in Twist /\ cmd'.lin = lin /\ cmd'.ang = ang
  BY DEF Publish, Twist
<1>2. TypeOK' /\ RotatesInPlace'
  BY <1>1 DEF IInv, TypeOK, Publish, RotatesInPlace
<1>3. PrevInv' /\ LinearRamp'
  BY <1>1 DEF IInv, Publish, PrevInv, LinearRamp
<1>4. Bounded(cmd)' /\ Bounded(wire)' /\ Bounded(own)'
  BY <1>1 DEF IInv, Publish, Bounded
<1>5. Allowed(cmd)' /\ Allowed(own)'
  BY <1>1 DEF IInv, Publish, Allowed
<1>6. QED
  BY <1>2, <1>3, <1>4, <1>5 DEF IInv

LEMMA TickStep == IInv /\ Tick => IInv'
<1> SUFFICES ASSUME IInv, Tick PROVE IInv'
  OBVIOUS
<1>1. loc = "tick" /\ TickEffects
  BY TickShape
<1>2. ASSUME NEW why \in Reasons, Halt(why)
      PROVE  IInv'
  <2>1. Zero \in Twist /\ Zero.lin = 0 /\ Zero.ang = 0
    BY DEF Zero, Twist
  <2>2. TypeOK' /\ RotatesInPlace' /\ PrevInv' /\ LinearRamp'
    BY <1>2, <2>1 DEF Halt, IInv, TypeOK, RotatesInPlace, PrevInv, LinearRamp
  <2>3. Bounded(cmd)' /\ Bounded(wire)' /\ Bounded(own)'
    BY <1>2, <2>1, LimitsAssumption DEF Halt, IInv, Bounded
  <2>4. Allowed(cmd)' /\ Allowed(own)'
    BY <1>1, <1>2, <2>1 DEF Halt, IInv, Allowed
  <2>5. QED
    BY <2>2, <2>3, <2>4 DEF IInv
<1>3. ASSUME phase = "turning", phase' = "driving", prevAng' = 0, loc' = "asleep",
             order.kind # "rotate",
             UNCHANGED <<order, prevLin, twists, cancelled, late, expired, fresh, reason>>
      PROVE  IInv'
  <2>1. TypeOK' /\ RotatesInPlace' /\ LinearRamp'
    BY <1>3 DEF IInv, TypeOK, RotatesInPlace, LinearRamp, twists
  <2>2. PrevInv'
    BY <1>1, <1>3, LimitsAssumption DEF IInv, PrevInv, twists
  <2>3. Bounded(cmd)' /\ Bounded(wire)' /\ Bounded(own)'
    BY <1>3 DEF IInv, Bounded, twists
  <2>4. Allowed(cmd)' /\ Allowed(own)'
    BY <1>1, <1>3 DEF IInv, Allowed, twists
  <2>5. QED
    BY <2>1, <2>2, <2>3, <2>4 DEF IInv
<1>4. ASSUME NEW err \in HeadingErrors
      PROVE  /\ Angular(err, prevAng) \in Int
             /\ -MaxAng <= Angular(err, prevAng) /\ Angular(err, prevAng) <= MaxAng
  BY AngularBounds DEF IInv, TypeOK, PrevInv
<1>5. ASSUME NEW err \in HeadingErrors, phase = "turning", Publish(0, Angular(err, prevAng))
      PROVE  IInv'
  <2>1. prevLin = 0
    BY <1>1, <1>5 DEF IInv, PrevInv, Allowed
  <2>2. Abs(0 - prevLin) <= Greatest(AccLin, 0)
    BY <2>1, LimitsAssumption DEF Abs, Greatest
  <2>3. -MaxLin <= 0 /\ 0 <= MaxLin
    BY LimitsAssumption
  <2>4. Allowed([lin |-> 0, ang |-> Angular(err, prevAng)])
    BY <1>5 DEF Allowed
  <2>5. QED
    BY <1>1, <1>4, <1>5, <2>2, <2>3, <2>4, PublishStep
<1>6. ASSUME NEW err \in HeadingErrors, NEW rem \in Distances, phase = "driving",
             Publish(Linear(order.sign, rem, prevLin), Angular(err, prevAng))
      PROVE  IInv'
  <2>1. order.sign \in {1, -1} /\ prevLin = own.lin /\ prevLin \in Int
    BY <1>1, <1>6 DEF IInv, TypeOK, Orders, RotatesInPlace, PrevInv
  <2>2. /\ order.sign = 1 => prevLin >= 0
        /\ order.sign = -1 => prevLin <= 0
    BY <1>1, <1>6, <2>1 DEF IInv, Allowed
  <2> DEFINE v == Linear(order.sign, rem, prevLin)
  <2>3. /\ v \in Int /\ -MaxLin <= v /\ v <= MaxLin
        /\ order.sign = 1 => v >= 0
        /\ order.sign = -1 => v <= 0
        /\ Abs(v - prevLin) <= Greatest(AccLin, 0)
    BY <2>1, <2>2, LinearBounds DEF IInv, PrevInv
  <2> HIDE DEF v
  <2>4. Allowed([lin |-> v, ang |-> Angular(err, prevAng)])
    BY <1>6, <2>1, <2>3 DEF Allowed
  <2>5. Publish(v, Angular(err, prevAng))
    BY <1>6 DEF v
  <2>6. QED
    BY <1>1, <1>4, <2>3, <2>4, <2>5, PublishStep
<1>7. QED
  BY <1>1, <1>2, <1>3, <1>5, <1>6 DEF TickEffects

LEMMA OtherStep ==
  ASSUME IInv, \/ Published \/ Returned \/ Awake \/ CancelToken \/ Expire \/ Odometry
               \/ Abort \/ PublishRaises \/ UNCHANGED vars
  PROVE  IInv'
<1>1. CASE Published
  BY <1>1 DEF Published, IInv, TypeOK, Twist, RotatesInPlace, PrevInv, LinearRamp,
       Bounded, Allowed
<1>2. CASE Returned
  BY <1>2 DEF Returned, IInv, TypeOK, RotatesInPlace, PrevInv, LinearRamp, Bounded
<1>3. CASE Awake
  BY <1>3 DEF Awake, IInv, TypeOK, RotatesInPlace, PrevInv, LinearRamp, Bounded,
       Allowed, twists
<1>4. CASE CancelToken \/ Expire
  BY <1>4 DEF CancelToken, Expire, IInv, TypeOK, RotatesInPlace, PrevInv, LinearRamp,
       Bounded, Allowed, twists
<1>5. CASE Odometry
  BY <1>5 DEF Odometry, IInv, TypeOK, RotatesInPlace, PrevInv, LinearRamp,
       Bounded, Allowed, twists
<1>6. CASE Abort
  BY <1>6 DEF Abort, IInv, TypeOK, Reasons, RotatesInPlace, PrevInv, LinearRamp, Bounded
<1>7. CASE PublishRaises
  BY <1>7 DEF PublishRaises, IInv, TypeOK, Reasons, RotatesInPlace, PrevInv, LinearRamp,
       Bounded, twists
<1>8. CASE UNCHANGED vars
  BY <1>8 DEF vars, IInv, TypeOK, RotatesInPlace, PrevInv, LinearRamp, Bounded, Allowed,
       twists
<1>9. QED
  BY <1>1, <1>2, <1>3, <1>4, <1>5, <1>6, <1>7, <1>8

LEMMA StepInv == IInv /\ [Next]_vars => IInv'
BY BeginStep, TickStep, OtherStep DEF Next

LEMMA Invariance == Spec => []IInv
BY InitInv, StepInv, PTL DEF Spec

\* The state of the control loop is well typed in every reachable state.
THEOREM TypeCorrect == Spec => []TypeOK
<1>1. IInv => TypeOK
  BY DEF IInv
<1>2. QED
  BY <1>1, Invariance, PTL

\* No published or queued Twist exceeds the configured speeds.
THEOREM LimitsHold == Spec => []SpeedLimits
<1>1. IInv => SpeedLimits
  BY DEF IInv, Bounded, SpeedLimits
<1>2. QED
  BY <1>1, Invariance, PTL

\* The robot only drives into the sector its obstacle check looks at.
THEOREM DirectionHolds == Spec => []DrivesWhereItLooks
<1>1. IInv => DrivesWhereItLooks
  BY DEF IInv, Allowed, DrivesWhereItLooks
<1>2. QED
  BY <1>1, Invariance, PTL

\* The linear command changes by at most the acceleration limit.
THEOREM RampHolds == Spec => []LinearRamp
<1>1. IInv => LinearRamp
  BY DEF IInv
<1>2. QED
  BY <1>1, Invariance, PTL

-----------------------------------------------------------------------------
(* The refinement.                                                         *)

\* A call that is not interrupted from outside leaves a zero Twist behind, and
\* nothing is on its way to the ROS thread once a Twist followed the
\* cancellation.
RInv == /\ cancelled \in BOOLEAN /\ late \in BOOLEAN
        /\ loc = "idle" => wire = Zero \/ reason = "aborted"
        /\ loc # "idle" => reason # "aborted"
        /\ loc = "stopping" => cmd = Zero
        /\ late => cancelled /\ loc # "publishing"

LEMMA InitRefines == Init => RInv /\ Contract!Init
BY DEF Init, RInv, Contract!Init

\* The loop publishes only before it has seen a cancellation, and no tick
\* publishes twice.
LEMMA TickKeeps == RInv /\ Tick => RInv' /\ UNCHANGED Contract!vars
<1> SUFFICES ASSUME RInv, Tick PROVE RInv' /\ UNCHANGED Contract!vars
  OBVIOUS
<1>1. loc = "tick" /\ loc' \in {"publishing", "stopping", "asleep"}
  BY TickShape DEF TickEffects, Halt, Publish
<1>2. UNCHANGED <<wire, cancelled, late>>
  BY TickShape DEF TickEffects, Halt, Publish, twists
<1>3. loc' = "stopping" => cmd' = Zero
  BY <1>1, TickShape DEF TickEffects, Halt, Publish
<1>4. loc' = "publishing" => ~cancelled
  BY <1>1 DEF Tick, Interrupt, Interrupted, Halt
<1>5. UNCHANGED Contract!vars
  BY <1>1, <1>2 DEF Contract!vars
<1>6. reason' # "aborted"
  BY <1>1 DEF RInv, Tick, Interrupt, Turn, Turned, Drive, Publish, Halt
<1>7. QED
  BY <1>1, <1>2, <1>3, <1>4, <1>5, <1>6 DEF RInv

LEMMA StepRefines == RInv /\ [Next]_vars => RInv' /\ [Contract!Next]_(Contract!vars)
<1> SUFFICES ASSUME RInv, [Next]_vars
             PROVE  RInv' /\ [Contract!Next]_(Contract!vars)
  OBVIOUS
<1>1. CASE Begin
  <2>1. Contract!Begin
    BY <1>1 DEF Begin, Contract!Begin
  <2>2. RInv'
    BY <1>1 DEF Begin, RInv
  <2>3. QED
    BY <2>1, <2>2 DEF Contract!Next
<1>2. CASE Tick
  BY <1>2, TickKeeps
<1>3. CASE Published
  <2>1. Contract!Drive
    BY <1>3 DEF Published, RInv, Contract!Drive
  <2>2. RInv'
    BY <1>3 DEF Published, RInv
  <2>3. QED
    BY <2>1, <2>2 DEF Contract!Next
<1>4. CASE Returned
  <2>1. Contract!Finish
    BY <1>4 DEF Returned, RInv, Contract!Finish
  <2>2. RInv'
    BY <1>4 DEF Returned, RInv
  <2>3. QED
    BY <2>1, <2>2 DEF Contract!Next
<1>5. CASE CancelToken
  <2>1. Contract!Cancel
    BY <1>5 DEF CancelToken, twists, Contract!Cancel
  <2>2. RInv'
    BY <1>5 DEF CancelToken, twists, RInv
  <2>3. QED
    BY <2>1, <2>2 DEF Contract!Next
<1>6. CASE Awake \/ Expire \/ Odometry \/ UNCHANGED vars
  BY <1>6 DEF Awake, Expire, Odometry, vars, twists, RInv, Contract!vars
<1>7. CASE Abort \/ PublishRaises
  <2>1. Contract!Abort
    BY <1>7 DEF Abort, PublishRaises, twists, Contract!Abort
  <2>2. RInv'
    BY <1>7 DEF Abort, PublishRaises, twists, RInv
  <2>3. QED
    BY <2>1, <2>2 DEF Contract!Next
<1>8. QED
  BY <1>1, <1>2, <1>3, <1>4, <1>5, <1>6, <1>7 DEF Next

\* move() implements what MotionBackend promises: at most one Twist follows a
\* cancellation, and every exit but an interruption leaves a zero Twist behind.
THEOREM Refinement == Spec => KeepsContract
BY InitRefines, StepRefines, PTL DEF Spec, KeepsContract, Contract!Spec
=============================================================================
