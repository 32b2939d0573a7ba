-------------------------------- MODULE Reading --------------------------------
(***************************************************************************)
(* The read side of the server: the pool of subscriptions with its cache   *)
(* (subscriptions/manager.py), and robot.get_state, get_laser_scan,        *)
(* get_camera_image and detect_objects that answer from it                 *)
(* (mcp/read_handlers.py and what it calls), together with the transforms  *)
(* they look up.                                                           *)
(*                                                                         *)
(* Two threads meet here.  The ROS thread delivers messages and            *)
(* transforms and runs the lookups, one thing at a time; the handlers read *)
(* the cache whenever they get there.  A step of a handler ends where the  *)
(* ROS thread can change what it reads next.                               *)
(***************************************************************************)
EXTENDS Perception, Sequences, FiniteSets

CONSTANTS Reads,       \* the reads that may be under way
          MaxTime,     \* bound on the clock
          TfTimeout,   \* how long a lookup may wait
          StaleAfter,  \* sensor_stale_s
          WidthCap,    \* camera_max_width_px_cap
          Widths,      \* what clients ask for as max_width_px
          Scans,       \* the scans the sensor may send
          Images,      \* the images the camera may send
          Registries   \* what the capability registry may hold

Sensors == {"odom", "scan", "image"}

\* A sensor's capability is resolved to the topic the server is configured for
\* and subscribes to, to another one, or not at all.
Topics == {"own", "other", None}

ASSUME ReadingAssumption ==
  /\ MaxTime \in Nat \ {0} /\ TfTimeout \in Nat \ {0} /\ StaleAfter \in Nat
  /\ WidthCap \in Nat \ {0} /\ Widths \subseteq Int
  /\ Scans \subseteq [0 .. Beams - 1 -> Nat \cup {NaN, Inf}]
  /\ Images \subseteq [width: Nat, sides: (Nat \X Nat) \cup {None}, supported: BOOLEAN]
  /\ Registries \subseteq [topic: [Sensors -> Topics], localized: BOOLEAN]
  /\ None \notin {"own", "other", "map", "odom", "succeeded", "stale", "SENSOR_STALE",
                 "CAPABILITY_UNAVAILABLE", "ROS_INTERFACE_ERROR"}
  /\ None \notin Reads
  /\ None \notin [stamp: Nat, at: Nat, data: {None}]

VARIABLES
  asked,     \* how many of the constructors' subscriptions were asked for
  claimed,   \* _claimed_topics, by sensor
  pending,   \* the subscribe tasks that have not ended
  opened,    \* the subscriptions that exist
  cache,     \* _cache
  now,       \* the clock
  tf,        \* the first and the last transform of the buffer
  job,       \* the lookup that blocks the ROS thread, and since when
  registry,  \* what the capability registry says
  pc,        \* where each read is
  work       \* what it holds, and answers in the end

subscriptionVars == <<asked, claimed, pending, opened>>
rosVars == <<cache, tf, job>>
vars == <<asked, claimed, pending, opened, cache, now, tf, job, registry, pc, work>>

-----------------------------------------------------------------------------
(* Reading the cache.                                                      *)

\* get_latest: nothing is ever received from a topic nobody subscribed to.
Latest(sensor, topic) == IF topic = "own" THEN cache[sensor] ELSE None

\* A transform of the time of a message; a stamp of zero asks for the latest.
Available(stamp) ==
  /\ tf.last # 0
  /\ stamp = 0 \/ (tf.first <= stamp /\ stamp <= tf.last)

NoWork == [op |-> None, frame |-> None, topic |-> None, stamp |-> 0, image |-> None,
           pose |-> None, velocity |-> None, scan |-> None, distance |-> None,
           place |-> None, outcome |-> None]

Frames == {None, "map", "odom"}
Poses == [frame: {"map", "odom"}, source: {"tf", "odometry"}, at: 0 .. MaxTime]
Places == {None, "map", "base_link", "TF_UNAVAILABLE"}
Outcomes == {None, "succeeded", "stale", "CAPABILITY_UNAVAILABLE", "SENSOR_STALE",
             "ROS_INTERFACE_ERROR"}
Data(sensor) == CASE sensor = "odom" -> {None} [] sensor = "scan" -> Scans
                  [] sensor = "image" -> Images
Messages(sensor) == [stamp: 0 .. MaxTime, at: 1 .. MaxTime, data: Data(sensor)]
Ranges == Nat \cup {NaN, Inf, None}

\* The one type invariant of the module.
TypeOK ==
  /\ asked \in 0 .. 4
  /\ claimed \subseteq Sensors
  /\ pending \in [Sensors -> Nat] /\ opened \in [Sensors -> Nat]
  /\ \A s \in Sensors : cache[s] = None \/ cache[s] \in Messages(s)
  /\ now \in 1 .. MaxTime
  /\ tf \in [first: 0 .. MaxTime, last: 0 .. MaxTime]
  /\ job \in [read: Reads \cup {None}, since: 0 .. MaxTime]
  /\ registry \in Registries
  /\ pc \in [Reads -> {"idle", "lookup", "found", "missing", "pose", "velocity", "detect"}]
  /\ work \in [Reads ->
       [op: {None, "state", "scan", "image", "detect"}, frame: Frames, topic: Topics,
        stamp: 0 .. MaxTime, image: Images \cup {None}, pose: Poses \cup {None},
        velocity: 1 .. MaxTime \cup {None}, scan: Scans \cup {None}, distance: Ranges,
        place: Places, outcome: Outcomes]]
  /\ \A r \in Reads : work[r].outcome = None => (pc[r] # "idle" \/ work[r] = NoWork)

Init ==
  /\ asked = 0 /\ claimed = {}
  /\ pending = [s \in Sensors |-> 0] /\ opened = [s \in Sensors |-> 0]
  /\ cache = [s \in Sensors |-> None]
  /\ now = 1
  /\ tf = [first |-> 0, last |-> 0]
  /\ job = [read |-> None, since |-> 0]
  /\ registry \in Registries
  /\ pc = [r \in Reads |-> "idle"]
  /\ work = [r \in Reads |-> NoWork]

-----------------------------------------------------------------------------
(* Subscriptions.                                                          *)

\* The motion plugin asks for two and the perception adapter for two, in their
\* constructors, which run without a break.
Constructors == <<"odom", "scan", "image", "scan">>
Ready == asked = Len(Constructors)

\* Mutant: the topic is claimed when the subscription exists.
EnsureSubscribedLate ==
  /\ ~Ready
  /\ asked' = asked + 1
  /\ pending' = [pending EXCEPT ![Constructors[asked + 1]] = @ + 1]
  /\ UNCHANGED <<claimed, opened, rosVars, now, registry, pc, work>>

\* A topic somebody claimed is not subscribed to again.
EnsureSubscribed ==
  /\ ~Ready
  /\ asked' = asked + 1
  /\ LET sensor == Constructors[asked + 1]
     IN  IF sensor \in claimed THEN UNCHANGED <<claimed, pending>>
         ELSE /\ claimed' = claimed \cup {sensor}
              /\ pending' = [pending EXCEPT ![sensor] = @ + 1]
  /\ UNCHANGED <<opened, rosVars, now, registry, pc, work>>

\* The subscribe task's job on the ROS thread; if it raises, the claim is given
\* up, and nobody asks again.
Subscribe(sensor) ==
  /\ Ready /\ job.read = None
  /\ pending[sensor] > 0
  /\ pending' = [pending EXCEPT ![sensor] = @ - 1]
  /\ \/ opened' = [opened EXCEPT ![sensor] = @ + 1] /\ UNCHANGED claimed
     \/ claimed' = claimed \ {sensor} /\ UNCHANGED opened
  /\ UNCHANGED <<asked, rosVars, now, registry, pc, work>>

\* The header of a message may hold no time; only an image's is looked at later.
Stamps(sensor) == IF sensor = "image" THEN {0, now} ELSE {now}

\* _on_message.
Receive(sensor) ==
  /\ job.read = None
  /\ opened[sensor] > 0
  /\ \E data \in Data(sensor), stamp \in Stamps(sensor) :
       cache' = [cache EXCEPT ![sensor] = [stamp |-> stamp, at |-> now, data |-> data]]
  /\ UNCHANGED <<subscriptionVars, tf, job, now, registry, pc, work>>

-----------------------------------------------------------------------------
(* Transforms.                                                             *)

\* Mutant: the listener has a thread of its own.
TransformArrivesAnytime ==
  /\ Ready
  /\ \E stamp \in tf.last + 1 .. now :
       tf' = [first |-> IF tf.last = 0 THEN stamp ELSE tf.first, last |-> stamp]
  /\ UNCHANGED <<subscriptionVars, cache, job, now, registry, pc, work>>

\* The transform listener's callback, on the ROS thread as well.
TransformArrives ==
  /\ Ready /\ job.read = None
  /\ \E stamp \in tf.last + 1 .. now :
       tf' = [first |-> IF tf.last = 0 THEN stamp ELSE tf.first, last |-> stamp]
  /\ UNCHANGED <<subscriptionVars, cache, job, now, registry, pc, work>>

\* The lookup is done and its read will be resumed.
Answered(r) ==
  /\ pc' = [pc EXCEPT ![r] = IF Available(work[r].stamp) THEN "found" ELSE "missing"]
  /\ UNCHANGED <<subscriptionVars, cache, tf, now, registry, work>>

\* lookup_transform finds the transform at once, or keeps the ROS thread until
\* it is there or the time is up.
Lookup(r) ==
  /\ pc[r] = "lookup" /\ job.read = None
  /\ IF Available(work[r].stamp) THEN Answered(r) /\ UNCHANGED job
     ELSE /\ job' = [read |-> r, since |-> now]
          /\ UNCHANGED <<subscriptionVars, cache, tf, now, registry, pc, work>>

LookupEnds(r) ==
  /\ job.read = r
  /\ Available(work[r].stamp) \/ now >= job.since + TfTimeout
  /\ job' = [read |-> None, since |-> 0]
  /\ Answered(r)

\* External: time passes.
Elapse ==
  /\ now < MaxTime
  /\ now' = now + 1
  /\ UNCHANGED <<subscriptionVars, rosVars, registry, pc, work>>

\* The coordinator replaces the registry's entries.
Discovered ==
  /\ registry' \in Registries
  /\ UNCHANGED <<subscriptionVars, rosVars, now, pc, work>>

-----------------------------------------------------------------------------
(* The handlers.                                                           *)

Go(r, next, held) ==
  /\ pc' = [pc EXCEPT ![r] = next]
  /\ work' = [work EXCEPT ![r] = held]
  /\ UNCHANGED <<subscriptionVars, rosVars, now, registry>>

Idle(r) == Ready /\ pc[r] = "idle"

\* robot.get_state: the entry of the motion capability is kept for both looks
\* at the odometry.  The branch for /amcl_pose finds nothing: no part of the
\* server subscribes to it.
GetState(r, frame) ==
  /\ Idle(r)
  /\ Go(r, IF frame \in {None, "map"} THEN "lookup" ELSE "pose",
        [NoWork EXCEPT !.op = "state", !.frame = frame, !.topic = registry.topic["odom"]])

\* _pose_from_live_tf.
PoseFound(r) ==
  /\ pc[r] = "found" /\ work[r].op = "state"
  /\ Go(r, "velocity",
        [work[r] EXCEPT !.pose = [frame |-> "map", source |-> "tf", at |-> now]])

\* Mutant: odometry is reported as a pose on the map.
ReadPoseAsMap(r) ==
  /\ pc[r] = "pose" \/ (pc[r] = "missing" /\ work[r].op = "state")
  /\ LET odom == Latest("odom", work[r].topic)
     IN  Go(r, "velocity", [work[r] EXCEPT !.pose = IF odom = None THEN None ELSE
              [frame |-> IF work[r].frame = None THEN "map" ELSE work[r].frame,
               source |-> "odometry", at |-> odom.at]])

\* The odometry as the pose; it goes by the name of whatever frame was asked for.
ReadPose(r) ==
  /\ pc[r] = "pose" \/ (pc[r] = "missing" /\ work[r].op = "state")
  /\ LET odom == Latest("odom", work[r].topic)
     IN  Go(r, "velocity", [work[r] EXCEPT !.pose = IF odom = None THEN None ELSE
              [frame |-> IF work[r].frame = None THEN "odom" ELSE work[r].frame,
               source |-> "odometry", at |-> odom.at]])

\* Mutant: the registry is asked again for the topic of the odometry.
ReadVelocityAsksAgain(r) ==
  /\ pc[r] = "velocity"
  /\ LET odom == Latest("odom", registry.topic["odom"])
     IN  Go(r, "idle", [work[r] EXCEPT !.velocity = IF odom = None THEN None ELSE odom.at,
                                       !.outcome = "succeeded"])

\* The velocities are read after the pose, maybe from a later message.
ReadVelocity(r) ==
  /\ pc[r] = "velocity"
  /\ LET odom == Latest("odom", work[r].topic)
     IN  Go(r, "idle", [work[r] EXCEPT !.velocity = IF odom = None THEN None ELSE odom.at,
                                       !.outcome = "succeeded"])

\* What a sensor's capability lets a handler say before it has a message.
Unavailable(sensor) ==
  CASE registry.topic[sensor] = None -> "CAPABILITY_UNAVAILABLE"
    [] registry.topic[sensor] # None
       /\ Latest(sensor, registry.topic[sensor]) = None -> "SENSOR_STALE"
    [] OTHER -> None

\* robot.get_laser_scan: old data is flagged, not refused.
GetScan(r) ==
  /\ Idle(r)
  /\ LET scan == cache["scan"]
     IN  Go(r, "idle",
            IF Unavailable("scan") # None
            THEN [NoWork EXCEPT !.op = "scan", !.outcome = Unavailable("scan")]
            ELSE [NoWork EXCEPT !.op = "scan", !.scan = scan.data,
                    !.outcome = IF now - scan.at > StaleAfter THEN "stale" ELSE "succeeded"])

\* Mutant: what the encoder raises is not caught.
GetImageRaises(r, width) ==
  /\ Idle(r)
  /\ Go(r, "idle", [NoWork EXCEPT !.op = "image", !.outcome =
           IF Unavailable("image") # None THEN Unavailable("image")
           ELSE IF cache["image"].data.supported THEN "succeeded" ELSE "raised"])

\* robot.get_camera_image.
GetImage(r, width) ==
  /\ Idle(r)
  /\ LET image == cache["image"].data
         asks  == IF width < WidthCap THEN width ELSE WidthCap
     IN  Go(r, "idle", [NoWork EXCEPT !.op = "image", !.outcome =
              IF Unavailable("image") # None THEN Unavailable("image")
              ELSE IF image.supported /\ Thumbnail(image.width, asks) # None THEN "succeeded"
              ELSE "ROS_INTERFACE_ERROR"])

\* robot.detect_objects takes the latest image,
DetectImage(r) ==
  /\ Idle(r)
  /\ IF Unavailable("image") # None
     THEN Go(r, "idle", [NoWork EXCEPT !.op = "detect", !.outcome = Unavailable("image")])
     ELSE Go(r, "detect", [NoWork EXCEPT !.op = "detect", !.image = cache["image"].data,
                                         !.stamp = cache["image"].stamp])

\* and gives the object in it, if there is one and it has a label the client
\* wants, a distance from the latest scan, whatever its age.
Distance(image, scan) ==
  IF scan = None THEN None
  ELSE CorrelateDistance(scan.data, Bearing(image.sides, image.width))

DetectObject(r, wanted) ==
  /\ pc[r] = "detect"
  /\ LET image    == work[r].image
         scan     == Latest("scan", registry.topic["scan"])
         distance == Distance(image, scan)
         found    == [work[r] EXCEPT !.scan = IF scan = None THEN None ELSE scan.data,
                                     !.distance = distance]
     IN  CASE image.sides = None \/ ~wanted ->
                Go(r, "idle", [work[r] EXCEPT !.image = None, !.outcome = "succeeded"])
           [] image.sides # None /\ wanted /\ distance = None ->
                Go(r, "idle", [found EXCEPT !.outcome = "succeeded"])
           [] image.sides # None /\ wanted /\ distance # None /\ ~registry.localized ->
                Go(r, "idle", [found EXCEPT !.place = "base_link", !.outcome = "succeeded"])
           [] OTHER -> Go(r, "lookup", found)

\* The object's place on the map, if the robot's at the time of the image is known.
PlaceObject(r) ==
  /\ pc[r] \in {"found", "missing"} /\ work[r].op = "detect"
  /\ Go(r, "idle", [work[r] EXCEPT !.outcome = "succeeded",
          !.place = IF pc[r] = "found" THEN "map" ELSE "TF_UNAVAILABLE"])

HandlerStep(r) ==
  \/ \E frame \in Frames : GetState(r, frame)
  \/ PoseFound(r) \/ ReadPose(r) \/ ReadVelocity(r)
  \/ GetScan(r)
  \/ \E width \in Widths : GetImage(r, width)
  \/ DetectImage(r)
  \/ \E wanted \in BOOLEAN : DetectObject(r, wanted)
  \/ PlaceObject(r)

Next ==
  \/ EnsureSubscribed
  \/ \E s \in Sensors : Subscribe(s) \/ Receive(s)
  \/ TransformArrives
  \/ \E r \in Reads : Lookup(r) \/ LookupEnds(r) \/ HandlerStep(r)
  \/ Elapse \/ Discovered

Spec == Init /\ [][Next]_vars

-----------------------------------------------------------------------------
(* Properties.                                                             *)

\* A topic is subscribed to at most once, and is claimed exactly as long as it
\* is or will be: the claim covers the time until the task has run, and a
\* failure leaves nothing behind that looks like a subscription.
OneSubscription ==
  \A s \in Sensors : pending[s] + opened[s] = IF s \in claimed THEN 1 ELSE 0

\* A state whose pose is the odometry has velocities as well, from the same
\* message or a later one, although discovery may drop the capability during the
\* lookup of the pose and the ROS thread may deliver odometry between the two
\* looks.  And the pose is said to be on the map exactly when the transform tree
\* put it there, unless the client named the map itself: that client is given
\* odometry under the name of the map.  A pose from the transform tree bears the
\* time of its lookup, and its velocities may be older or missing.
StateIsCoherent ==
  \A r \in Reads :
    (pc[r] = "idle" /\ work[r].op = "state" /\ work[r].pose # None) =>
      /\ work[r].pose.source = "odometry" =>
           (work[r].velocity # None /\ work[r].velocity >= work[r].pose.at)
      /\ work[r].frame # "map" =>
           (work[r].pose.frame = "map" <=> work[r].pose.source = "tf")

\* Whatever object is reported at a distance, a valid beam of the scan saw
\* something at just that distance within the tolerance of the object's bearing,
\* and if the nearest obstacle stands on the bearing, it is the one.
DistanceIsMeasured ==
  \A r \in Reads :
    (work[r].op = "detect" /\ work[r].distance # None) =>
      LET scan == work[r].scan
          bearing == Bearing(work[r].image.sides, work[r].image.width)
      IN  /\ \E i \in Valid(scan) : /\ scan[i] = work[r].distance
                                    /\ Delta(Angle(i), bearing) <= Tolerance
          /\ Delta(Angle(Beam(scan, "nearest")), bearing) = 0 =>
               work[r].distance = scan[Beam(scan, "nearest")]

\* To wait for a transform is in vain: the lookup holds the only thread that
\* could receive it, so one that is not there at once never comes in time.
WaitIsFutile ==
  [][\A r \in Reads : (job.read = r /\ job'.read = None) => pc'[r] = "missing"]_vars
=============================================================================
