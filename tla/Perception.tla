------------------------------ MODULE Perception -------------------------------
(***************************************************************************)
(* The pure parts of perception: what laser_scan.py makes of one scan,     *)
(* what detection_geometry.py makes of a scan and a bounding box, and the  *)
(* size camera.py gives a thumbnail.                                       *)
(*                                                                         *)
(* A scan is a function from the beams to ranges.  Angles are whole parts  *)
(* of a full turn of Circle parts, positive to the left as in ROS.         *)
(***************************************************************************)
EXTENDS Integers

CONSTANTS Beams,           \* the number of beams of a scan
          AngleMin,        \* angle_min
          AngleIncrement,  \* angle_increment
          Circle,          \* the parts of a full turn
          RangeMin,        \* range_min
          RangeMax,        \* range_max
          NaN, Inf,        \* the float values that are no number
          FieldOfView,     \* camera_horizontal_fov_rad
          Tolerance,       \* bearing_tolerance_rad
          None             \* Python's None

ASSUME PerceptionAssumption ==
  /\ Beams \in Nat /\ AngleMin \in Int /\ AngleIncrement \in Int
  /\ Circle \in Nat \ {0} /\ Circle % 12 = 0
  /\ RangeMin \in Nat /\ RangeMax \in Nat
  /\ FieldOfView \in Nat /\ Tolerance \in Nat
  /\ {NaN, Inf, None} \cap Int = {}

-----------------------------------------------------------------------------
(* laser_scan.py                                                           *)

\* atan2(sin, cos): the same direction in (-Circle / 2, Circle / 2].
Wrap(angle) ==
  LET turned == angle % Circle
  IN  IF 2 * turned > Circle THEN turned - Circle ELSE turned

Angle(i) == AngleMin + i * AngleIncrement

\* _sector_for_angle; what is in none of the three is behind the robot.
Sector(angle) ==
  LET twelfth == Circle \div 12
      wrapped == Wrap(angle)
  IN  CASE -twelfth <= wrapped /\ wrapped < twelfth -> "front"
        [] twelfth <= wrapped /\ wrapped < 5 * twelfth -> "left"
        [] -5 * twelfth <= wrapped /\ wrapped < -twelfth -> "right"
        [] OTHER -> "rear"

\* The beams that say how far an obstacle is.  The others are invalid, or saw
\* nothing as far as the sensor reaches.
Valid(scan) == {i \in DOMAIN scan : /\ scan[i] \notin {NaN, Inf}
                                    /\ RangeMin <= scan[i] /\ scan[i] <= RangeMax}

\* The readings of an analysis, in the order correlate_distance looks at them.
Readings == <<"nearest", "farthest", "front", "left", "right", "rear">>

\* The beams a reading is taken from.
BeamsOf(scan, reading) ==
  IF reading \in {"nearest", "farthest"} THEN Valid(scan)
  ELSE {i \in Valid(scan) : Sector(Angle(i)) = reading}

\* The first of several beams with the same range is kept.
Beam(scan, reading) ==
  CHOOSE i \in BeamsOf(scan, reading) : \A j \in BeamsOf(scan, reading) :
    \/ scan[i] = scan[j] /\ i <= j
    \/ IF reading = "farthest" THEN scan[i] > scan[j] ELSE scan[i] < scan[j]

-----------------------------------------------------------------------------
(* detection_geometry.py                                                   *)

\* The angle of a bounding box from its two sides.  Positive is to the right
\* of the image: the opposite of the angles of a scan.
Bearing(sides, width) ==
  IF width <= 0 THEN 0
  ELSE ((sides[1] + sides[2] - width) * FieldOfView) \div (2 * width)

Delta(a, b) == LET d == Wrap(a - b) IN IF d < 0 THEN -d ELSE d

\* Mutant: the nearest direction wins however far off it is.
CandidatesAnywhere(scan, bearing) ==
  {k \in 1 .. 6 : BeamsOf(scan, Readings[k]) # {}}

Candidates(scan, bearing) ==
  {k \in 1 .. 6 : /\ BeamsOf(scan, Readings[k]) # {}
                  /\ Delta(Angle(Beam(scan, Readings[k])), bearing) <= Tolerance}

\* The range of the reading closest in direction, the last one of equals.
CorrelateDistance(scan, bearing) ==
  LET Off(k) == Delta(Angle(Beam(scan, Readings[k])), bearing)
      near   == Candidates(scan, bearing)
      best   == CHOOSE k \in near :
                  \A l \in near : Off(k) < Off(l) \/ (Off(k) = Off(l) /\ k >= l)
  IN  IF near = {} THEN None ELSE scan[Beam(scan, Readings[best])]

-----------------------------------------------------------------------------
(* camera.py                                                               *)

\* encode_jpeg_thumbnail: an image no wider than asked is left alone, another
\* is resized, which Pillow refuses for a width of zero or less.
Thumbnail(width, asked) ==
  IF width <= asked THEN width ELSE IF asked > 0 THEN asked ELSE None
=============================================================================
