----------------------------- MODULE ReadingProofs -----------------------------
(***************************************************************************)
(* What holds of the read side for any number of reads, whatever the       *)
(* sensors send and however long the clock runs.  A state is coherent      *)
(* because the cached odometry only ever gets younger (Fresh) while        *)
(* get_state is on its way; a wait for a transform is in vain because      *)
(* nothing the lookup looks at can change as long as it keeps the ROS      *)
(* thread (Blocked); a distance is one that a beam measured because a      *)
(* detection keeps the image and the scan it was computed from             *)
(* (Detection) and because of what correlate_distance is, for every scan   *)
(* and every bearing (CorrelateMeasures).                                  *)
(***************************************************************************)
EXTENDS Reading, TLAPS, WellFoundedInduction

\* The parts of the type invariant the arguments need.
PoolType ==
  /\ asked \in 0 .. 4
  /\ claimed \subseteq Sensors
  /\ pending \in [Sensors -> Nat] /\ opened \in [Sensors -> Nat]

ReadType ==
  /\ now \in Nat
  /\ DOMAIN cache = Sensors
  /\ cache["odom"] # None => cache["odom"].at \in Nat /\ cache["odom"].at <= now
  /\ DOMAIN job = {"read", "since"}
  /\ DOMAIN pc = Reads /\ DOMAIN work = Reads
  /\ \A r \in Reads : DOMAIN work[r] = DOMAIN NoWork

\* Where a read of the state is, and what it holds of the pose there.
StateReads(r) ==
  /\ pc[r] \in {"pose", "velocity"} => work[r].op = "state"
  /\ pc[r] = "detect" => work[r].op = "detect"
  /\ (work[r].op = "state" /\ pc[r] \notin {"velocity", "idle"}) => work[r].pose = None
  /\ (work[r].op = "state" /\ work[r].pose # None /\ work[r].frame # "map") =>
       (work[r].pose.frame = "map" <=> work[r].pose.source = "tf")

\* The odometry a pose was read from, or a younger one, is still in the cache.
Fresh(r) ==
  (pc[r] = "velocity" /\ work[r].pose # None /\ work[r].pose.source = "odometry") =>
    /\ work[r].topic = "own"
    /\ cache["odom"] # None
    /\ work[r].pose.at \in Nat /\ cache["odom"].at >= work[r].pose.at

Coherence == /\ ReadType
             /\ \A r \in Reads : StateReads(r) /\ Fresh(r)
             /\ StateIsCoherent

\* The lookup that has the ROS thread waits for what is not there.
Blocked == job.read # None =>
             /\ job.read \in Reads
             /\ pc[job.read] = "lookup"
             /\ ~Available(work[job.read].stamp)

-----------------------------------------------------------------------------
(* Subscriptions.                                                          *)

PoolInv == PoolType /\ OneSubscription

LEMMA PoolStep == ASSUME PoolInv, [Next]_vars PROVE PoolInv'
<1>1. CASE UNCHANGED subscriptionVars
  BY <1>1 DEF PoolInv, PoolType, OneSubscription, subscriptionVars
<1>2. CASE EnsureSubscribed
  <2> DEFINE sensor == Constructors[asked + 1]
  <2>1. asked \in 0 .. 3 /\ asked' \in 0 .. 4
    BY <1>2 DEF EnsureSubscribed, Ready, Constructors, PoolInv, PoolType
  <2>2. sensor \in Sensors
    BY <2>1 DEF Constructors, Sensors
  <2>3. CASE sensor \in claimed
    BY <1>2, <2>1, <2>3 DEF EnsureSubscribed, PoolInv, PoolType, OneSubscription
  <2>4. CASE sensor \notin claimed
    <3>1. /\ claimed' = claimed \cup {sensor}
          /\ pending' = [pending EXCEPT ![sensor] = @ + 1]
          /\ opened' = opened
      BY <1>2, <2>4 DEF EnsureSubscribed
    <3> HIDE DEF sensor
    <3>2. QED BY <2>1, <2>2, <2>4, <3>1 DEF PoolInv, PoolType, OneSubscription
  <2>5. QED BY <2>3, <2>4
<1>3. ASSUME NEW s \in Sensors, Subscribe(s) PROVE PoolInv'
  <2>1. pending[s] = 1 /\ opened[s] = 0 /\ s \in claimed
    <3>1. pending[s] \in Nat /\ opened[s] \in Nat
      BY DEF PoolInv, PoolType
    <3>2. pending[s] + opened[s] = IF s \in claimed THEN 1 ELSE 0
      BY DEF PoolInv, OneSubscription
    <3>3. pending[s] > 0
      BY <1>3 DEF Subscribe
    <3>4. QED BY <3>1, <3>2, <3>3
  <2>2. CASE opened' = [opened EXCEPT ![s] = @ + 1] /\ UNCHANGED claimed
    BY <1>3, <2>1, <2>2 DEF Subscribe, PoolInv, PoolType, OneSubscription
  <2>3. CASE claimed' = claimed \ {s} /\ UNCHANGED opened
    BY <1>3, <2>1, <2>3 DEF Subscribe, PoolInv, PoolType, OneSubscription
  <2>4. QED BY <1>3, <2>2, <2>3 DEF Subscribe
<1>4. ASSUME NEW r \in Reads, HandlerStep(r) PROVE UNCHANGED subscriptionVars
  BY <1>4 DEF HandlerStep, GetState, PoseFound, ReadPose, ReadVelocity, GetScan, GetImage,
     DetectImage, DetectObject, PlaceObject, Go, subscriptionVars
<1>5. QED
  BY <1>1, <1>2, <1>3, <1>4 DEF Next, Receive, TransformArrives, Lookup, LookupEnds, Answered,
     Elapse, Discovered, subscriptionVars, vars

\* A topic is subscribed to once at most, and claimed as long as it is or will be.
THEOREM SubscribesOnce == Spec => []OneSubscription
<1>1. Init => PoolInv
  BY DEF Init, PoolInv, PoolType, OneSubscription, Sensors
<1>2. PoolInv => OneSubscription
  BY DEF PoolInv
<1>3. PoolInv /\ [Next]_vars => PoolInv'
  BY PoolStep
<1>4. QED BY <1>1, <1>2, <1>3, PTL DEF Spec

-----------------------------------------------------------------------------
(* Waiting for a transform.                                                *)

ThreadInv == /\ DOMAIN job = {"read", "since"} /\ DOMAIN pc = Reads /\ DOMAIN work = Reads
             /\ Blocked

\* A handler never runs for a read whose lookup is under way.
LEMMA HandlerElsewhere ==
  ASSUME ThreadInv, NEW r \in Reads, HandlerStep(r)
  PROVE  /\ pc[r] # "lookup" /\ UNCHANGED <<job, tf>>
         /\ DOMAIN pc' = Reads /\ DOMAIN work' = Reads
         /\ \A q \in Reads \ {r} : pc'[q] = pc[q] /\ work'[q] = work[q]
<1>1. pc[r] # "lookup" /\ \E next, held : Go(r, next, held)
  BY DEF HandlerStep, GetState, PoseFound, ReadPose, ReadVelocity, GetScan, GetImage,
     DetectImage, DetectObject, PlaceObject, Idle
<1>2. PICK next, held : Go(r, next, held)
  BY <1>1
<1>3. QED BY <1>1, <1>2 DEF Go, ThreadInv, rosVars

LEMMA ThreadStep == ASSUME ThreadInv, [Next]_vars PROVE ThreadInv'
<1>1. CASE UNCHANGED <<tf, job, pc, work>>
  BY <1>1 DEF ThreadInv, Blocked, Available
<1>2. CASE TransformArrives
  BY <1>2 DEF TransformArrives, ThreadInv, Blocked
<1>3. ASSUME NEW r \in Reads, Lookup(r) PROVE ThreadInv'
  <2>1. CASE Answered(r) /\ UNCHANGED job
    BY <1>3, <2>1 DEF Lookup, Answered, ThreadInv, Blocked
  <2>2. CASE ~Available(work[r].stamp) /\ job' = [read |-> r, since |-> now]
             /\ UNCHANGED <<tf, pc, work>>
    BY <1>3, <2>2 DEF Lookup, ThreadInv, Blocked, Available
  <2>3. QED BY <1>3, <2>1, <2>2 DEF Lookup
<1>4. ASSUME NEW r \in Reads, LookupEnds(r) PROVE ThreadInv'
  <2>1. /\ job' = [read |-> None, since |-> 0] /\ work' = work
        /\ DOMAIN pc' = DOMAIN pc
    BY <1>4 DEF LookupEnds, Answered
  <2>2. QED BY <2>1 DEF ThreadInv, Blocked
<1>5. ASSUME NEW r \in Reads, HandlerStep(r) PROVE ThreadInv'
  BY <1>5, HandlerElsewhere DEF ThreadInv, Blocked, Available
<1>6. QED
  BY <1>1, <1>2, <1>3, <1>4, <1>5 DEF Next, EnsureSubscribed, Subscribe, Receive, Elapse,
     Discovered, vars, rosVars

LEMMA Threads == Spec => []ThreadInv
<1>1. Init => ThreadInv
  BY DEF Init, ThreadInv, Blocked
<1>2. QED BY <1>1, ThreadStep, PTL DEF Spec

\* A lookup that had to wait never finds its transform, however long it waits.
THEOREM WaitsInVain == Spec => WaitIsFutile
<1>1. ASSUME ThreadInv, [Next]_vars, NEW r \in Reads, job.read = r, job'.read = None
      PROVE  pc'[r] = "missing"
  <2>1. r # None
    BY ReadingAssumption
  <2>2. ~UNCHANGED job
    BY <1>1, <2>1
  <2>3. PICK q \in Reads : Lookup(q) \/ LookupEnds(q)
    BY <1>1, <2>2, HandlerElsewhere DEF Next, EnsureSubscribed, Subscribe, Receive,
       TransformArrives, Elapse, Discovered, vars, rosVars
  <2>4. LookupEnds(r)
    BY <1>1, <2>1, <2>3 DEF Lookup, LookupEnds
  <2>5. QED BY <1>1, <2>1, <2>4 DEF LookupEnds, Answered, ThreadInv, Blocked
<1>2. ThreadInv /\ [Next]_vars =>
        [\A r \in Reads : (job.read = r /\ job'.read = None) => pc'[r] = "missing"]_vars
  BY <1>1
<1>3. QED BY <1>2, Threads, PTL DEF Spec, WaitIsFutile

-----------------------------------------------------------------------------
(* robot.get_state.                                                        *)

\* What a step of read r leaves alone.
LEMMA GoFrame ==
  ASSUME ReadType, NEW r \in Reads, NEW next, NEW held, Go(r, next, held)
  PROVE  /\ UNCHANGED <<cache, now, job, tf>>
         /\ pc'[r] = next /\ work'[r] = held
         /\ \A q \in Reads \ {r} : pc'[q] = pc[q] /\ work'[q] = work[q]
         /\ DOMAIN pc' = Reads /\ DOMAIN work' = Reads
  BY DEF Go, ReadType, rosVars

\* Of a read that stays where it is everything stays true.
CoherentRead(r) == /\ DOMAIN work[r] = DOMAIN NoWork
                   /\ StateReads(r) /\ Fresh(r)
                   /\ (pc[r] = "idle" /\ work[r].op = "state" /\ work[r].pose # None) =>
                        /\ work[r].pose.source = "odometry" =>
                             (work[r].velocity # None /\ work[r].velocity >= work[r].pose.at)
                        /\ work[r].frame # "map" =>
                             (work[r].pose.frame = "map" <=> work[r].pose.source = "tf")

LEMMA OtherReads ==
  ASSUME NEW q \in Reads, CoherentRead(q), pc'[q] = pc[q], work'[q] = work[q],
         UNCHANGED cache
  PROVE  CoherentRead(q)'
  BY DEF CoherentRead, StateReads, Fresh

\* A read that is about something else than the state is not concerned.
LEMMA OtherOps ==
  ASSUME NEW q \in Reads, DOMAIN work'[q] = DOMAIN NoWork, work'[q].op # "state",
         pc'[q] \notin {"pose", "velocity"}, pc'[q] = "detect" => work'[q].op = "detect"
  PROVE  CoherentRead(q)'
  BY DEF CoherentRead, StateReads, Fresh

LEMMA HandlerCoherent ==
  ASSUME ReadType, NEW r \in Reads, CoherentRead(r), HandlerStep(r)
  PROVE  /\ CoherentRead(r)' /\ UNCHANGED <<cache, now, job, tf>>
         /\ \A q \in Reads \ {r} : pc'[q] = pc[q] /\ work'[q] = work[q]
         /\ DOMAIN pc' = Reads /\ DOMAIN work' = Reads
<1> DEFINE Result ==
      /\ CoherentRead(r)' /\ UNCHANGED <<cache, now, job, tf>>
      /\ \A q \in Reads \ {r} : pc'[q] = pc[q] /\ work'[q] = work[q]
      /\ DOMAIN pc' = Reads /\ DOMAIN work' = Reads
<1>1. ASSUME NEW frame \in Frames, GetState(r, frame) PROVE Result
  <2> DEFINE held == [NoWork EXCEPT !.op = "state", !.frame = frame,
                                    !.topic = registry.topic["odom"]]
             next == IF frame \in {None, "map"} THEN "lookup" ELSE "pose"
  <2>1. Go(r, next, held)
    BY <1>1 DEF GetState
  <2>2. held.op = "state" /\ held.pose = None /\ DOMAIN held = DOMAIN NoWork
    BY DEF NoWork
  <2>3. next \in {"lookup", "pose"}
    OBVIOUS
  <2> HIDE DEF held, next
  <2>4. QED BY <2>1, <2>2, <2>3, GoFrame DEF CoherentRead, StateReads, Fresh
<1>2. CASE PoseFound(r)
  <2> DEFINE pose == [frame |-> "map", source |-> "tf", at |-> now]
             held == [work[r] EXCEPT !.pose = pose]
  <2>1. Go(r, "velocity", held) /\ work[r].op = "state"
    BY <1>2 DEF PoseFound
  <2>2. /\ held.op = "state" /\ held.pose = pose /\ DOMAIN held = DOMAIN NoWork
        /\ held.frame = work[r].frame
    BY <2>1 DEF NoWork, CoherentRead
  <2>3. pose.frame = "map" /\ pose.source = "tf"
    OBVIOUS
  <2> HIDE DEF held, pose
  <2>4. QED BY <2>1, <2>2, <2>3, GoFrame DEF CoherentRead, StateReads, Fresh
<1>3. CASE ReadPose(r)
  <2> DEFINE odom == Latest("odom", work[r].topic)
             pose == IF odom = None THEN None ELSE
                       [frame |-> IF work[r].frame = None THEN "odom" ELSE work[r].frame,
                        source |-> "odometry", at |-> odom.at]
             held == [work[r] EXCEPT !.pose = pose]
  <2>1. Go(r, "velocity", held) /\ work[r].op = "state"
    BY <1>3 DEF ReadPose, CoherentRead, StateReads
  <2>2. /\ held.op = "state" /\ held.pose = pose /\ DOMAIN held = DOMAIN NoWork
        /\ held.frame = work[r].frame /\ held.topic = work[r].topic
    BY <2>1 DEF NoWork, CoherentRead
  <2>3. ASSUME pose # None
        PROVE  /\ work[r].topic = "own" /\ cache["odom"] # None
               /\ pose.at = cache["odom"].at /\ pose.at \in Nat
               /\ work[r].frame # "map" => pose.frame # "map"
               /\ pose.source = "odometry"
    BY <2>3 DEF Latest, ReadType
  <2> HIDE DEF held, pose
  <2>4. QED BY <2>1, <2>2, <2>3, GoFrame DEF CoherentRead, StateReads, Fresh, ReadType
<1>4. CASE ReadVelocity(r)
  <2> DEFINE odom == Latest("odom", work[r].topic)
             velocity == IF odom = None THEN None ELSE odom.at
             held == [work[r] EXCEPT !.velocity = velocity, !.outcome = "succeeded"]
  <2>1. Go(r, "idle", held) /\ pc[r] = "velocity" /\ work[r].op = "state"
    BY <1>4 DEF ReadVelocity, CoherentRead, StateReads
  <2>2. /\ held.op = "state" /\ held.pose = work[r].pose /\ DOMAIN held = DOMAIN NoWork
        /\ held.frame = work[r].frame /\ held.velocity = velocity
    BY <2>1 DEF NoWork, CoherentRead
  <2>3. (work[r].pose # None /\ work[r].pose.source = "odometry") =>
          velocity # None /\ velocity >= work[r].pose.at
    <3>1. ASSUME work[r].pose # None, work[r].pose.source = "odometry"
          PROVE  /\ work[r].topic = "own" /\ cache["odom"] # None
                 /\ cache["odom"].at \in Nat /\ cache["odom"].at >= work[r].pose.at
      BY <2>1, <3>1 DEF CoherentRead, Fresh, ReadType
    <3>2. None \notin Nat
      BY PerceptionAssumption
    <3>3. QED BY <3>1, <3>2 DEF Latest
  <2> HIDE DEF held, velocity
  <2>4. QED BY <2>1, <2>2, <2>3, GoFrame DEF CoherentRead, StateReads, Fresh
<1>5. ASSUME ~ \E frame \in Frames : GetState(r, frame), ~PoseFound(r), ~ReadPose(r),
             ~ReadVelocity(r)
      PROVE  Result
  <2>1. \E next \in {"idle", "detect", "lookup"} : \E held :
          /\ Go(r, next, held)
          /\ DOMAIN held = DOMAIN NoWork
          /\ held.op \in {"scan", "image", "detect"}
          /\ next = "detect" => held.op = "detect"
    <3>1. CASE GetScan(r)
      BY <3>1 DEF GetScan, NoWork
    <3>2. CASE \E width \in Widths : GetImage(r, width)
      <4>1. PICK width \in Widths : \E outcome :
              Go(r, "idle", [NoWork EXCEPT !.op = "image", !.outcome = outcome])
        BY <3>2 DEF GetImage
      <4>2. QED BY <4>1 DEF NoWork
    <3>3. CASE DetectImage(r)
      <4>1. CASE Unavailable("image") # None
        <5>1. Go(r, "idle", [NoWork EXCEPT !.op = "detect", !.outcome = Unavailable("image")])
          BY <3>3, <4>1 DEF DetectImage
        <5>2. QED BY <5>1 DEF NoWork
      <4>2. CASE Unavailable("image") = None
        <5>1. PICK image, stamp :
                Go(r, "detect", [NoWork EXCEPT !.op = "detect", !.image = image,
                                               !.stamp = stamp])
          BY <3>3, <4>2 DEF DetectImage
        <5> DEFINE held == [NoWork EXCEPT !.op = "detect", !.image = image, !.stamp = stamp]
        <5>2. DOMAIN held = DOMAIN NoWork /\ held.op = "detect"
          BY DEF NoWork
        <5> HIDE DEF held
        <5>3. QED BY <5>1, <5>2 DEF held
      <4>3. QED BY <4>1, <4>2
    <3>4. CASE \E wanted \in BOOLEAN : DetectObject(r, wanted)
      <4>1. PICK wanted \in BOOLEAN : DetectObject(r, wanted)
        BY <3>4
      <4> DEFINE image == work[r].image
                 scan == Latest("scan", registry.topic["scan"])
                 distance == Distance(image, scan)
                 found == [work[r] EXCEPT !.scan = IF scan = None THEN None ELSE scan.data,
                                          !.distance = distance]
      <4>2. work[r].op = "detect" /\ DOMAIN work[r] = DOMAIN NoWork
        BY <4>1 DEF DetectObject, CoherentRead, StateReads
      <4>3. /\ DOMAIN found = DOMAIN NoWork /\ found.op = "detect"
            /\ DOMAIN [found EXCEPT !.outcome = "succeeded"] = DOMAIN NoWork
            /\ [found EXCEPT !.outcome = "succeeded"].op = "detect"
            /\ DOMAIN [found EXCEPT !.place = "base_link", !.outcome = "succeeded"]
                 = DOMAIN NoWork
            /\ [found EXCEPT !.place = "base_link", !.outcome = "succeeded"].op = "detect"
            /\ DOMAIN [work[r] EXCEPT !.image = None, !.outcome = "succeeded"]
                 = DOMAIN NoWork
            /\ [work[r] EXCEPT !.image = None, !.outcome = "succeeded"].op = "detect"
        BY <4>2 DEF NoWork
      <4>4. \/ Go(r, "idle", [work[r] EXCEPT !.image = None, !.outcome = "succeeded"])
            \/ Go(r, "idle", [found EXCEPT !.outcome = "succeeded"])
            \/ Go(r, "idle", [found EXCEPT !.place = "base_link", !.outcome = "succeeded"])
            \/ Go(r, "lookup", found)
        BY <4>1, Zenon DEF DetectObject
      <4> HIDE DEF found
      <4>5. QED BY <4>3, <4>4
    <3>5. CASE PlaceObject(r)
      BY <3>5 DEF PlaceObject, NoWork, CoherentRead
    <3>6. QED BY <1>5, <3>1, <3>2, <3>3, <3>4, <3>5 DEF HandlerStep
  <2>2. QED BY <2>1, GoFrame, OtherOps
<1>6. QED BY <1>1, <1>2, <1>3, <1>4, <1>5

LEMMA CoherenceParts ==
  Coherence <=> ReadType /\ \A r \in Reads : CoherentRead(r)
  BY DEF Coherence, ReadType, CoherentRead, StateIsCoherent

\* The lookup of a read only moves it on, without a change to what it holds.
LEMMA LookupCoherent ==
  ASSUME ReadType, NEW r \in Reads, CoherentRead(r),
         pc[r] = "lookup", Answered(r)
  PROVE  CoherentRead(r)'
<1>1. /\ pc'[r] \in {"found", "missing"} /\ work' = work
  BY DEF Answered, ReadType
<1>2. QED BY <1>1 DEF CoherentRead, StateReads, Fresh

\* The cached odometry only gets younger.
LEMMA ReceiveCoherent ==
  ASSUME ReadType, NEW s \in Sensors, Receive(s)
  PROVE  /\ ReadType'
         /\ \A r \in Reads : CoherentRead(r) => CoherentRead(r)'
<1>1. pc' = pc /\ work' = work /\ now' = now /\ job' = job
  BY DEF Receive
<1>2. PICK data \in Data(s), stamp \in Stamps(s) :
        cache' = [cache EXCEPT ![s] = [stamp |-> stamp, at |-> now, data |-> data]]
  BY DEF Receive
<1>3. DOMAIN cache' = Sensors /\ (s # "odom" => cache'["odom"] = cache["odom"])
  BY <1>2 DEF ReadType, Sensors
<1>4. CASE s = "odom"
  <2>1. cache'["odom"] = [stamp |-> now, at |-> now, data |-> None]
    BY <1>2, <1>4 DEF ReadType, Data, Stamps
  <2>2. cache'["odom"] # None /\ cache'["odom"].at = now
    BY <2>1, ReadingAssumption DEF ReadType
  <2>3. ReadType'
    BY <1>1, <1>3, <2>2 DEF ReadType
  <2>4. ASSUME NEW r \in Reads, CoherentRead(r) PROVE CoherentRead(r)'
    BY <1>1, <2>2, <2>4 DEF CoherentRead, StateReads, Fresh, ReadType
  <2>5. QED BY <2>3, <2>4
<1>5. CASE s # "odom"
  BY <1>1, <1>3, <1>5 DEF CoherentRead, StateReads, Fresh, ReadType
<1>6. QED BY <1>4, <1>5

LEMMA CoherenceStep == ASSUME Coherence, ThreadInv, [Next]_vars PROVE Coherence'
<1>1. ReadType /\ \A r \in Reads : CoherentRead(r)
  BY CoherenceParts
<1> DEFINE Result == ReadType' /\ \A r \in Reads : CoherentRead(r)'
<1>2. ASSUME UNCHANGED <<cache, now, job, pc, work>> PROVE Result
  <2>1. ReadType'
    BY <1>1, <1>2 DEF ReadType
  <2>2. ASSUME NEW r \in Reads PROVE CoherentRead(r)'
    BY <1>1, <1>2, OtherReads
  <2>3. QED BY <2>1, <2>2
<1>3. ASSUME NEW s \in Sensors, Receive(s) PROVE Result
  BY <1>1, <1>3, ReceiveCoherent
<1>4. ASSUME Elapse PROVE Result
  <2>1. now' = now + 1 /\ UNCHANGED <<cache, job, pc, work>>
    BY <1>4 DEF Elapse, rosVars
  <2>2. ReadType'
    BY <1>1, <2>1 DEF ReadType
  <2>3. ASSUME NEW r \in Reads PROVE CoherentRead(r)'
    BY <1>1, <2>1, OtherReads
  <2>4. QED BY <2>2, <2>3
<1>5. ASSUME NEW r \in Reads, Lookup(r) \/ LookupEnds(r) PROVE Result
  <2>1. CASE UNCHANGED pc
    <3>1. UNCHANGED <<cache, now, work>> /\ DOMAIN job' = {"read", "since"}
      BY <1>1, <1>5 DEF Lookup, LookupEnds, Answered, ReadType
    <3>2. QED BY <1>1, <2>1, <3>1 DEF ReadType, CoherentRead, StateReads, Fresh
  <2>2. CASE pc' # pc
    <3>1. pc[r] = "lookup"
      BY <1>5, ReadingAssumption DEF Lookup, LookupEnds, ThreadInv, Blocked
    <3>2. /\ Answered(r) /\ UNCHANGED <<cache, now, work>>
          /\ DOMAIN job' = {"read", "since"}
      BY <1>1, <1>5, <2>2 DEF Lookup, LookupEnds, Answered, ReadType
    <3>3. ASSUME NEW q \in Reads PROVE CoherentRead(q)'
      BY <1>1, <3>1, <3>2, LookupCoherent, OtherReads DEF Answered, ReadType
    <3>4. ReadType'
      BY <1>1, <3>2 DEF ReadType, Answered
    <3>5. QED BY <3>3, <3>4
  <2>3. QED BY <2>1, <2>2
<1>6. ASSUME NEW r \in Reads, HandlerStep(r) PROVE Result
  <2>1. /\ CoherentRead(r)' /\ UNCHANGED <<cache, now, job, tf>>
        /\ \A q \in Reads \ {r} : pc'[q] = pc[q] /\ work'[q] = work[q]
        /\ DOMAIN pc' = Reads /\ DOMAIN work' = Reads
    BY <1>1, <1>6, HandlerCoherent
  <2>2. ASSUME NEW q \in Reads PROVE CoherentRead(q)'
    BY <1>1, <2>1, OtherReads
  <2>3. ReadType'
    BY <1>1, <2>1, <2>2 DEF ReadType, CoherentRead
  <2>4. QED BY <2>2, <2>3
<1>7. Coherence' <=> Result
  BY DEF Coherence, ReadType, CoherentRead, StateIsCoherent
<1> HIDE DEF Result
<1>8. Result
  <2>1. CASE UNCHANGED vars
    BY <1>2, <2>1 DEF vars
  <2>2. CASE EnsureSubscribed \/ TransformArrives \/ Discovered
    BY <1>2, <2>2 DEF EnsureSubscribed, TransformArrives, Discovered, rosVars
  <2>3. ASSUME NEW s \in Sensors, Subscribe(s) PROVE Result
    BY <1>2, <2>3 DEF Subscribe, rosVars
  <2>4. QED BY <1>3, <1>4, <1>5, <1>6, <2>1, <2>2, <2>3 DEF Next
<1>9. QED BY <1>7, <1>8

\* A state whose pose is the odometry has velocities no older than that; and a
\* client that does not name the map is told of it exactly when the pose comes
\* from the transform tree.
THEOREM StatesAreCoherent == Spec => []StateIsCoherent
<1>1. Init => Coherence
  BY DEF Init, Coherence, ReadType, StateReads, Fresh, StateIsCoherent, NoWork, Sensors
<1>2. Coherence => StateIsCoherent
  BY DEF Coherence
<1>3. QED BY <1>1, <1>2, CoherenceStep, Threads, PTL DEF Spec
-----------------------------------------------------------------------------
(* Numbers: the least one of a set, and remainders.                        *)

LEMMA LeastNat ==
  ASSUME NEW S, S \subseteq Nat, S # {}
  PROVE  \E x \in S : \A y \in S : x <= y
<1>1. \E x \in S : \A y \in S : ~ (<<y, x>> \in OpToRel(<, Nat))
  BY NatLessThanWellFounded, WFMin
<1>2. \A x, y \in S : ~ (<<y, x>> \in OpToRel(<, Nat)) => x <= y
  BY DEF OpToRel
<1>3. QED BY <1>1, <1>2

LEMMA Remainder ==
  ASSUME NEW c \in Nat \ {0}, NEW a \in Int
  PROVE  a \div c \in Int /\ a % c \in 0 .. c - 1 /\ a = c * (a \div c) + (a % c)
<1>1. a \div c \in Int
  OBVIOUS
<1>2. a % c \in 0 .. c - 1
  OBVIOUS
<1>3. a % c = a - c * (a \div c)
  BY Z3
<1>4. c * (a \div c) \in Int
  BY <1>1
<1>5. QED BY <1>1, <1>2, <1>3, <1>4

\* Numbers a whole multiple apart have the same remainder.
LEMMA SameRemainder ==
  ASSUME NEW c \in Nat \ {0}, NEW a \in Int, NEW b \in Int, NEW n \in Int, a = b + c * n
  PROVE  a % c = b % c
<1> DEFINE p == a \div c
           q == b \div c
           d == p - q - n
<1>1. /\ p \in Int /\ a % c \in 0 .. c - 1 /\ a = c * p + (a % c)
      /\ q \in Int /\ b % c \in 0 .. c - 1 /\ b = c * q + (b % c)
  BY Remainder
<1>2. d \in Int /\ c * d = (b % c) - (a % c)
  BY <1>1
<1>3. c * d < c /\ -c < c * d
  BY <1>1, <1>2
<1>4. ~ d >= 1
  <2>1. ASSUME d >= 1 PROVE c * d >= c
    BY <1>2, <2>1
  <2>2. QED BY <1>2, <1>3, <2>1
<1>5. ~ d <= -1
  <2>1. ASSUME d <= -1 PROVE c * d <= -c
    BY <1>2, <2>1
  <2>2. QED BY <1>2, <1>3, <2>1
<1>6. d = 0
  BY <1>2, <1>4, <1>5
<1>7. QED BY <1>1, <1>2, <1>6

-----------------------------------------------------------------------------
(* Directions.                                                             *)

LEMMA DeltaType ==
  ASSUME NEW a \in Int, NEW b \in Int
  PROVE  Delta(a, b) \in Nat
<1>1. (a - b) % Circle \in 0 .. Circle - 1 /\ Circle \in Nat \ {0}
  BY Remainder, PerceptionAssumption
<1>2. QED BY <1>1 DEF Delta, Wrap

\* The distance of two angles as it is meant: along the circle, the short way.
\* The code wraps the difference and takes its absolute value.
Magnitude(x) == IF x < 0 THEN -x ELSE x

\* _angular_delta, for any two angles and however many turns lie between them,
\* is the least of the differences that whole turns leave.
THEOREM DeltaIsShortest ==
  ASSUME NEW a \in Int, NEW b \in Int
  PROVE  /\ \E n \in Int : Delta(a, b) = Magnitude(a - b + Circle * n)
         /\ \A n \in Int : Delta(a, b) <= Magnitude(a - b + Circle * n)
<1> DEFINE d == (a - b) % Circle
           q == (a - b) \div Circle
<1>1. Circle \in Nat \ {0}
  BY PerceptionAssumption
<1>2. d \in 0 .. Circle - 1 /\ q \in Int /\ a - b = Circle * q + d
  <2>1. a - b \in Int
    OBVIOUS
  <2> HIDE DEF d, q
  <2>2. \A x \in Int : x % Circle \in 0 .. Circle - 1 /\ x \div Circle \in Int
                       /\ x = Circle * (x \div Circle) + (x % Circle)
    BY <1>1, Remainder
  <2>3. QED BY <2>1, <2>2 DEF d, q
<1>3. Delta(a, b) = IF 2 * d > Circle THEN Circle - d ELSE d
  BY <1>1, <1>2 DEF Delta, Wrap
<1> HIDE DEF d, q
<1>4. ASSUME NEW n \in Int
      PROVE  a - b + Circle * n = d + Circle * (q + n)
  BY <1>1, <1>2
<1>5. \E n \in Int : Delta(a, b) = Magnitude(a - b + Circle * n)
  <2>1. Circle * (q + (-q)) = 0 /\ Circle * (q + (-q - 1)) = -Circle
    BY <1>1, <1>2
  <2>2. a - b + Circle * (-q) = d /\ a - b + Circle * (-q - 1) = d - Circle
    BY <1>1, <1>2, <1>4, <2>1
  <2>3. -q \in Int /\ -q - 1 \in Int
    BY <1>2
  <2>4. CASE 2 * d > Circle
    BY <1>1, <1>2, <1>3, <2>2, <2>3, <2>4 DEF Magnitude
  <2>5. CASE ~ 2 * d > Circle
    BY <1>1, <1>2, <1>3, <2>2, <2>3, <2>5 DEF Magnitude
  <2>6. QED BY <2>4, <2>5
<1>6. ASSUME NEW n \in Int
      PROVE  Delta(a, b) <= Magnitude(a - b + Circle * n)
  <2> DEFINE k == q + n
             turns == Circle * k
  <2>1. k \in Int /\ turns \in Int /\ a - b + Circle * n = d + turns
    BY <1>1, <1>2, <1>4
  <2>2. k >= 1 => turns >= Circle
    BY <1>1, <2>1
  <2>3. k <= -1 => turns <= -Circle
    BY <1>1, <2>1
  <2>4. k = 0 => turns = 0
    BY <1>1
  <2> HIDE DEF k, turns
  <2>5. QED BY <1>1, <1>2, <1>3, <2>1, <2>2, <2>3, <2>4 DEF Magnitude
<1>7. QED BY <1>5, <1>6

\* Two angles at no distance from a third lie in the same sector.
LEMMA SameSector ==
  ASSUME NEW a \in Int, NEW b \in Int, NEW e \in Int, Delta(a, e) = 0, Delta(b, e) = 0
  PROVE  Sector(a) = Sector(b)
<1>1. Circle \in Nat \ {0}
  BY PerceptionAssumption
<1>2. ASSUME NEW x \in Int, Delta(x, e) = 0
      PROVE  \E n \in Int : x - e = Circle * n
  <2>1. (x - e) % Circle \in 0 .. Circle - 1
    BY <1>1, Remainder
  <2>2. (x - e) % Circle = 0
    BY <1>1, <1>2, <2>1 DEF Delta, Wrap
  <2>3. x - e = Circle * ((x - e) \div Circle) /\ (x - e) \div Circle \in Int
    BY <1>1, <2>2, Remainder
  <2>4. QED BY <2>3
<1>3. PICK n \in Int : a - e = Circle * n
  BY <1>2
<1>4. PICK m \in Int : b - e = Circle * m
  BY <1>2
<1>5. PICK k \in Int : a = b + Circle * k
  <2>1. n - m \in Int /\ a = b + Circle * (n - m)
    BY <1>1, <1>3, <1>4
  <2>2. QED BY <2>1
<1>6. a % Circle = b % Circle
  BY <1>1, <1>5, SameRemainder
<1>7. QED BY <1>6 DEF Sector, Wrap

-----------------------------------------------------------------------------
(* The readings of a scan.                                                 *)

ScanType == [0 .. Beams - 1 -> Nat \cup {NaN, Inf}]

LEMMA ValidBeams ==
  ASSUME NEW scan \in ScanType, NEW i \in Valid(scan)
  PROVE  i \in Nat /\ i \in DOMAIN scan /\ scan[i] \in Nat /\ scan[i] <= RangeMax
         /\ Angle(i) \in Int
<1>1. i \in 0 .. Beams - 1 /\ scan[i] \in Nat /\ scan[i] <= RangeMax
  BY DEF Valid, ScanType
<1>2. QED BY <1>1, PerceptionAssumption DEF ScanType, Angle

\* What distinguishes the beam a reading is taken from.
IsBeam(scan, reading, i) ==
  /\ i \in BeamsOf(scan, reading)
  /\ \A j \in BeamsOf(scan, reading) :
       \/ scan[i] = scan[j] /\ i <= j
       \/ IF reading = "farthest" THEN scan[i] > scan[j] ELSE scan[i] < scan[j]

\* A reading with a beam has the one it is meant to have.
LEMMA BeamFound ==
  ASSUME NEW scan \in ScanType, NEW reading, BeamsOf(scan, reading) # {}
  PROVE  IsBeam(scan, reading, Beam(scan, reading))
<1> DEFINE T == BeamsOf(scan, reading)
<1> DEFINE key(i) == IF reading = "farthest" THEN RangeMax - scan[i] ELSE scan[i]
<1>1. \A i \in T : i \in Nat /\ scan[i] \in Nat /\ scan[i] <= RangeMax
  BY ValidBeams DEF BeamsOf
<1>2. RangeMax \in Nat
  BY PerceptionAssumption
<1>3. \A i \in T : key(i) \in Nat
  BY <1>1, <1>2
<1>4. PICK m \in {key(i) : i \in T} : \A k \in {key(i) : i \in T} : m <= k
  <2>1. {key(i) : i \in T} \subseteq Nat
    BY <1>3
  <2>2. {key(i) : i \in T} # {}
    OBVIOUS
  <2>3. QED BY <2>1, <2>2, LeastNat
<1>5. PICK i \in {j \in T : key(j) = m} : \A j \in {k \in T : key(k) = m} : i <= j
  <2>1. {j \in T : key(j) = m} \subseteq Nat
    BY <1>1
  <2>2. {j \in T : key(j) = m} # {}
    BY <1>4
  <2>3. QED BY <2>1, <2>2, LeastNat
<1>6. ASSUME NEW j \in T
      PROVE  \/ scan[i] = scan[j] /\ i <= j
             \/ IF reading = "farthest" THEN scan[i] > scan[j] ELSE scan[i] < scan[j]
  <2>1. m = key(i) /\ m <= key(j) /\ i \in T
    BY <1>4, <1>5
  <2>2. key(j) = m => i <= j
    BY <1>5
  <2>3. QED BY <1>1, <1>2, <2>1, <2>2
<1>7. i \in T
  BY <1>5
<1>8. \E x \in T : \A j \in T :
        \/ scan[x] = scan[j] /\ x <= j
        \/ IF reading = "farthest" THEN scan[x] > scan[j] ELSE scan[x] < scan[j]
  BY <1>6, <1>7
<1>9. QED BY <1>8 DEF Beam, IsBeam

\* The nearest beam is the nearest of its sector as well.
LEMMA NearestInSector ==
  ASSUME NEW scan \in ScanType, NEW reading \in {"front", "left", "right", "rear"},
         Valid(scan) # {}, Sector(Angle(Beam(scan, "nearest"))) = reading
  PROVE  BeamsOf(scan, reading) # {} /\ Beam(scan, reading) = Beam(scan, "nearest")
<1> DEFINE i == Beam(scan, "nearest")
           j == Beam(scan, reading)
<1>1. BeamsOf(scan, "nearest") = Valid(scan)
      /\ BeamsOf(scan, reading) = {k \in Valid(scan) : Sector(Angle(k)) = reading}
  BY DEF BeamsOf
<1>2. IsBeam(scan, "nearest", i)
  BY <1>1, BeamFound
<1>3. i \in Valid(scan) /\ i \in BeamsOf(scan, reading)
  BY <1>1, <1>2 DEF IsBeam
<1>4. IsBeam(scan, reading, j)
  BY <1>3, BeamFound
<1>5. j \in Valid(scan)
  BY <1>1, <1>4 DEF IsBeam
<1>6. /\ i \in Nat /\ scan[i] \in Nat
      /\ j \in Nat /\ scan[j] \in Nat
  BY <1>3, <1>5, ValidBeams
<1>7. (scan[i] = scan[j] /\ i <= j) \/ scan[i] < scan[j]
  BY <1>1, <1>2, <1>5 DEF IsBeam
<1>8. (scan[j] = scan[i] /\ j <= i) \/ scan[j] < scan[i]
  BY <1>3, <1>4 DEF IsBeam
<1>9. i = j
  BY <1>6, <1>7, <1>8
<1>10. QED BY <1>3, <1>9

\* How far a reading's beam is off a bearing.
Off(scan, bearing, k) == Delta(Angle(Beam(scan, Readings[k])), bearing)

LEMMA CandidateFound ==
  ASSUME NEW scan \in ScanType, NEW bearing \in Int, NEW k \in Candidates(scan, bearing)
  PROVE  /\ k \in 1 .. 6
         /\ Beam(scan, Readings[k]) \in BeamsOf(scan, Readings[k])
         /\ Beam(scan, Readings[k]) \in Valid(scan)
         /\ Angle(Beam(scan, Readings[k])) \in Int
         /\ Off(scan, bearing, k) \in Nat
         /\ Off(scan, bearing, k) <= Tolerance
<1>1. /\ k \in 1 .. 6 /\ BeamsOf(scan, Readings[k]) # {}
      /\ Off(scan, bearing, k) <= Tolerance
  BY DEF Candidates, Off
<1>2. Beam(scan, Readings[k]) \in BeamsOf(scan, Readings[k])
  BY <1>1, BeamFound DEF IsBeam
<1>3. Beam(scan, Readings[k]) \in Valid(scan)
  BY <1>2 DEF BeamsOf
<1>4. Angle(Beam(scan, Readings[k])) \in Int
  BY <1>3, ValidBeams
<1>5. QED BY <1>1, <1>2, <1>3, <1>4, DeltaType DEF Off

\* The last of the candidates closest to the bearing.
IsBest(scan, bearing, k) ==
  /\ k \in Candidates(scan, bearing)
  /\ \A l \in Candidates(scan, bearing) :
       \/ Off(scan, bearing, k) < Off(scan, bearing, l)
       \/ Off(scan, bearing, k) = Off(scan, bearing, l) /\ k >= l

LEMMA BestFound ==
  ASSUME NEW scan \in ScanType, NEW bearing \in Int, Candidates(scan, bearing) # {}
  PROVE  \E k : /\ IsBest(scan, bearing, k)
                /\ CorrelateDistance(scan, bearing) = scan[Beam(scan, Readings[k])]
<1> DEFINE T == Candidates(scan, bearing)
<1> DEFINE off(k) == Off(scan, bearing, k)
<1>1. \A k \in T : k \in 1 .. 6 /\ off(k) \in Nat
  BY CandidateFound
<1>2. PICK m \in {off(k) : k \in T} : \A o \in {off(k) : k \in T} : m <= o
  <2>1. {off(k) : k \in T} \subseteq Nat
    BY <1>1
  <2>2. {off(k) : k \in T} # {}
    OBVIOUS
  <2>3. QED BY <2>1, <2>2, LeastNat
<1>3. PICK n \in {6 - k : k \in {l \in T : off(l) = m}} :
        \A o \in {6 - k : k \in {l \in T : off(l) = m}} : n <= o
  <2>1. {6 - k : k \in {l \in T : off(l) = m}} \subseteq Nat
    BY <1>1
  <2>2. {6 - k : k \in {l \in T : off(l) = m}} # {}
    BY <1>2
  <2>3. QED BY <2>1, <2>2, LeastNat
<1>4. PICK k \in T : off(k) = m /\ n = 6 - k
  BY <1>3
<1>5. ASSUME NEW l \in T
      PROVE  off(k) < off(l) \/ (off(k) = off(l) /\ k >= l)
  <2>1. m <= off(l)
    BY <1>2
  <2>2. off(l) = m => 6 - k <= 6 - l
    BY <1>3, <1>4
  <2>3. QED BY <1>1, <1>4, <2>1, <2>2
<1> DEFINE Best(x) == \A l \in T : off(x) < off(l) \/ (off(x) = off(l) /\ x >= l)
<1> DEFINE best == CHOOSE x \in T : Best(x)
<1>6. best \in T /\ Best(best)
  BY <1>4, <1>5
<1>7. CorrelateDistance(scan, bearing) = scan[Beam(scan, Readings[best])]
  BY DEF CorrelateDistance, Off
<1> HIDE DEF best
<1>8. QED BY <1>6, <1>7 DEF IsBest

\* What correlate_distance promises: a distance that a valid beam measured near
\* the bearing, and the nearest obstacle's if that stands on the bearing.
MeasuredAt(scan, bearing, distance) ==
  /\ \E i \in Valid(scan) : scan[i] = distance /\ Delta(Angle(i), bearing) <= Tolerance
  /\ Delta(Angle(Beam(scan, "nearest")), bearing) = 0 => distance = scan[Beam(scan, "nearest")]

\* correlate_distance keeps the last of equally close readings, so the sector
\* of the nearest beam wins against the farthest beam on the same bearing, and
\* no other sector has a beam on it.
LEMMA CorrelateMeasures ==
  ASSUME NEW scan \in ScanType, NEW bearing \in Int, CorrelateDistance(scan, bearing) # None
  PROVE  /\ CorrelateDistance(scan, bearing) \in Nat
         /\ MeasuredAt(scan, bearing, CorrelateDistance(scan, bearing))
<1> DEFINE distance == CorrelateDistance(scan, bearing)
<1>1. Candidates(scan, bearing) # {}
  BY DEF CorrelateDistance
<1>2. PICK k : /\ IsBest(scan, bearing, k)
               /\ distance = scan[Beam(scan, Readings[k])]
  BY <1>1, BestFound
<1> DEFINE i == Beam(scan, Readings[k])
           near == Beam(scan, "nearest")
<1>3. /\ k \in Candidates(scan, bearing) /\ k \in 1 .. 6
      /\ i \in BeamsOf(scan, Readings[k]) /\ i \in Valid(scan) /\ Angle(i) \in Int
      /\ Off(scan, bearing, k) \in Nat /\ Off(scan, bearing, k) <= Tolerance
  BY <1>2, CandidateFound DEF IsBest
<1>4. distance \in Nat
  BY <1>2, <1>3, ValidBeams
<1>5. \E b \in Valid(scan) : scan[b] = distance /\ Delta(Angle(b), bearing) <= Tolerance
  BY <1>2, <1>3 DEF Off
<1>6. ASSUME Delta(Angle(near), bearing) = 0
      PROVE  distance = scan[near]
  <2>1. Valid(scan) # {} /\ BeamsOf(scan, "nearest") = Valid(scan)
    BY <1>3 DEF BeamsOf
  <2>2. near \in Valid(scan) /\ Angle(near) \in Int
    BY <2>1, BeamFound, ValidBeams DEF IsBeam
  <2>3. Sector(Angle(near)) \in {"front", "left", "right", "rear"}
    BY DEF Sector
  <2>4. PICK s \in 3 .. 6 : Readings[s] = Sector(Angle(near))
    <3>1. /\ Readings[3] = "front" /\ Readings[4] = "left"
          /\ Readings[5] = "right" /\ Readings[6] = "rear"
      BY DEF Readings
    <3>2. 3 \in 3 .. 6 /\ 4 \in 3 .. 6 /\ 5 \in 3 .. 6 /\ 6 \in 3 .. 6
      OBVIOUS
    <3>3. QED BY <2>3, <3>1, <3>2
  <2>5. BeamsOf(scan, Readings[s]) # {} /\ Beam(scan, Readings[s]) = near
    BY <2>1, <2>3, <2>4, NearestInSector
  <2>6. Off(scan, bearing, s) = 0 /\ s \in Candidates(scan, bearing)
    BY <1>6, <2>4, <2>5, PerceptionAssumption DEF Off, Candidates
  <2>7. Off(scan, bearing, k) = 0 /\ k >= s
    BY <1>2, <1>3, <2>4, <2>6 DEF IsBest
  <2>8. Sector(Angle(i)) = Sector(Angle(near))
    BY <1>3, <1>6, <2>2, <2>7, SameSector DEF Off
  <2>9. k \in 3 .. 6
    BY <1>3, <2>4, <2>7
  <2>10. Readings[k] \in {"front", "left", "right", "rear"}
    BY <2>9 DEF Readings
  <2>11. Sector(Angle(i)) = Readings[k]
    BY <1>3, <2>10 DEF BeamsOf
  <2>12. Readings[k] = Readings[s]
    BY <2>4, <2>8, <2>11
  <2>13. QED BY <1>2, <2>5, <2>12
<1>7. QED BY <1>4, <1>5, <1>6 DEF MeasuredAt

-----------------------------------------------------------------------------
(* What a read holds, and where it holds it.                               *)

Phases == {"idle", "lookup", "found", "missing", "pose", "velocity", "detect"}

Held ==
  [op: {None, "state", "scan", "image", "detect"}, frame: Frames, topic: Topics,
   stamp: 0 .. MaxTime, image: Images \cup {None}, pose: Poses \cup {None},
   velocity: 1 .. MaxTime \cup {None}, scan: Scans \cup {None}, distance: Ranges,
   place: Places, outcome: Outcomes]

\* A detection that has no distance yet has its image; one that has a distance
\* still has the image and the scan it was computed from.
Detection(next, held) ==
  /\ next = "detect" => held.op = "detect" /\ held.image \in Images /\ held.distance = None
  /\ (held.op = "detect" /\ held.distance # None) =>
       /\ held.scan \in Scans /\ held.image \in Images /\ held.image.sides # None
       /\ held.distance = CorrelateDistance(held.scan, Bearing(held.image.sides, held.image.width))

Settled(next, held) == held.outcome = None => (next # "idle" \/ held = NoWork)

ReadHolds(r) ==
  pc[r] \in Phases /\ work[r] \in Held /\ Detection(pc[r], work[r]) /\ Settled(pc[r], work[r])

\* What the ROS thread and the clock own.
RosType ==
  /\ \A s \in Sensors : cache[s] = None \/ cache[s] \in Messages(s)
  /\ now \in 1 .. MaxTime
  /\ tf \in [first: 0 .. MaxTime, last: 0 .. MaxTime]
  /\ job \in [read: Reads \cup {None}, since: 0 .. MaxTime]
  /\ registry \in Registries

HoldInv == /\ RosType
           /\ pc \in [Reads -> Phases] /\ work \in [Reads -> Held]
           /\ \A r \in Reads : ReadHolds(r)

LEMMA TypeParts ==
  ASSUME PoolInv, HoldInv
  PROVE  TypeOK
<1>1. \A r \in Reads : work[r].outcome = None => (pc[r] # "idle" \/ work[r] = NoWork)
  BY DEF HoldInv, ReadHolds, Settled
<1>2. QED BY <1>1 DEF TypeOK, PoolInv, PoolType, HoldInv, RosType, Phases, Held

LEMMA BearingType ==
  ASSUME NEW image \in Images, image.sides # None
  PROVE  Bearing(image.sides, image.width) \in Int
<1>1. image.sides[1] \in Nat /\ image.sides[2] \in Nat /\ image.width \in Nat
  <2>1. image \in [width: Nat, sides: (Nat \X Nat) \cup {None}, supported: BOOLEAN]
    BY ReadingAssumption
  <2>2. image.sides \in Nat \X Nat /\ image.width \in Nat
    BY <2>1
  <2>3. QED BY <2>2
<1>2. FieldOfView \in Nat
  BY PerceptionAssumption
<1> DEFINE turn == (image.sides[1] + image.sides[2] - image.width) * FieldOfView
<1>3. turn \in Int
  BY <1>1, <1>2
<1>4. image.width > 0 => turn \div (2 * image.width) \in Int
  <2> HIDE DEF turn
  <2>1. image.width > 0 => 2 * image.width \in Nat \ {0}
    BY <1>1
  <2>2. QED BY <1>3, <2>1, Remainder
<1>5. QED BY <1>1, <1>4 DEF Bearing

\* What is computed as the distance is a range of the scan, or none.
LEMMA DistanceType ==
  ASSUME NEW image \in Images, image.sides # None, NEW scan \in Scans
  PROVE  CorrelateDistance(scan, Bearing(image.sides, image.width)) \in Ranges
<1>1. scan \in ScanType
  BY ReadingAssumption DEF ScanType
<1>2. QED BY <1>1, BearingType, CorrelateMeasures DEF Ranges

\* A message that is found is the one in the cache.
LEMMA LatestFound ==
  ASSUME RosType, NEW s \in Sensors, NEW topic, Latest(s, topic) # None
  PROVE  topic = "own" /\ Latest(s, topic) = cache[s] /\ cache[s] \in Messages(s)
  BY DEF Latest, RosType

LEMMA MessageHolds ==
  ASSUME NEW s \in Sensors, NEW m \in Messages(s)
  PROVE  /\ m.stamp \in 0 .. MaxTime /\ m.at \in 1 .. MaxTime
         /\ s = "scan" => m.data \in Scans
         /\ s = "image" => m.data \in Images
  BY DEF Messages, Data

\* A sensor either has a message or the handler says why not.
LEMMA UnavailableType ==
  ASSUME RosType, NEW s \in Sensors
  PROVE  \/ Unavailable(s) = None /\ cache[s] \in Messages(s)
         \/ Unavailable(s) \in {"CAPABILITY_UNAVAILABLE", "SENSOR_STALE"}
<1>1. CASE registry.topic[s] = None
  BY <1>1 DEF Unavailable
<1>2. CASE registry.topic[s] # None /\ Latest(s, registry.topic[s]) = None
  BY <1>2 DEF Unavailable
<1>3. CASE registry.topic[s] # None /\ Latest(s, registry.topic[s]) # None
  BY <1>3, LatestFound DEF Unavailable
<1>4. QED BY <1>1, <1>2, <1>3

LEMMA NoWorkHeld == NoWork \in Held
<1>1. 0 \in 0 .. MaxTime
  BY ReadingAssumption
<1>2. QED BY <1>1 DEF NoWork, Held, Frames, Topics, Places, Outcomes, Ranges

LEMMA UnavailableOutcome ==
  ASSUME NEW o \in {"CAPABILITY_UNAVAILABLE", "SENSOR_STALE"}
  PROVE  o \in Outcomes /\ o # None
  BY ReadingAssumption DEF Outcomes

\* A step of a read's handler leaves it holding what it should.
HandlerHolds(r) ==
  \E next \in Phases, held \in Held :
    Go(r, next, held) /\ Detection(next, held) /\ Settled(next, held)

LEMMA StateHolds ==
  ASSUME RosType, NEW r \in Reads, ReadHolds(r), StateReads(r),
         \/ \E frame \in Frames : GetState(r, frame)
         \/ PoseFound(r) \/ ReadPose(r) \/ ReadVelocity(r)
  PROVE  HandlerHolds(r)
<1>0. None \notin {"succeeded", "stale", "SENSOR_STALE", "CAPABILITY_UNAVAILABLE",
                 "ROS_INTERFACE_ERROR"}
  BY ReadingAssumption
<1>1. ASSUME NEW frame \in Frames, GetState(r, frame) PROVE HandlerHolds(r)
  <2> DEFINE held == [NoWork EXCEPT !.op = "state", !.frame = frame,
                                    !.topic = registry.topic["odom"]]
             next == IF frame \in {None, "map"} THEN "lookup" ELSE "pose"
  <2>1. Go(r, next, held)
    BY <1>1 DEF GetState
  <2>2. registry.topic["odom"] \in Topics
    BY ReadingAssumption DEF RosType, Sensors
  <2>3. held \in Held
    BY <2>2, NoWorkHeld DEF Held
  <2>4. held.op = "state" /\ next \in {"lookup", "pose"}
    BY DEF NoWork
  <2> HIDE DEF held, next
  <2>5. QED BY <2>1, <2>3, <2>4 DEF HandlerHolds, Detection, Settled, Phases
<1>2. CASE PoseFound(r)
  <2> DEFINE held == [work[r] EXCEPT !.pose = [frame |-> "map", source |-> "tf", at |-> now]]
  <2>1. Go(r, "velocity", held) /\ work[r].op = "state"
    BY <1>2 DEF PoseFound
  <2>2. held \in Held /\ held.op = "state"
    BY <2>1 DEF ReadHolds, Held, RosType, Poses
  <2> HIDE DEF held
  <2>3. QED BY <2>1, <2>2 DEF HandlerHolds, Detection, Settled, Phases
<1>3. CASE ReadPose(r)
  <2> DEFINE odom == Latest("odom", work[r].topic)
             pose == IF odom = None THEN None ELSE
                       [frame |-> IF work[r].frame = None THEN "odom" ELSE work[r].frame,
                        source |-> "odometry", at |-> odom.at]
             held == [work[r] EXCEPT !.pose = pose]
  <2>1. Go(r, "velocity", held) /\ work[r].op = "state"
    BY <1>3 DEF ReadPose, StateReads
  <2>2. odom # None => odom.at \in 1 .. MaxTime
    BY LatestFound, MessageHolds DEF Sensors
  <2>3. pose \in Poses \cup {None}
    BY <2>2 DEF Poses, ReadHolds, Held, Frames
  <2> HIDE DEF pose
  <2>4. held \in Held /\ held.op = "state"
    BY <2>1, <2>3 DEF ReadHolds, Held
  <2> HIDE DEF held
  <2>5. QED BY <2>1, <2>4 DEF HandlerHolds, Detection, Settled, Phases
<1>4. CASE ReadVelocity(r)
  <2> DEFINE odom == Latest("odom", work[r].topic)
             velocity == IF odom = None THEN None ELSE odom.at
             held == [work[r] EXCEPT !.velocity = velocity, !.outcome = "succeeded"]
  <2>1. Go(r, "idle", held) /\ work[r].op = "state"
    BY <1>4 DEF ReadVelocity, StateReads
  <2>2. velocity \in 1 .. MaxTime \cup {None}
    BY LatestFound, MessageHolds DEF Sensors
  <2> HIDE DEF velocity
  <2>3. held \in Held /\ held.op = "state" /\ held.outcome = "succeeded"
    BY <2>1, <2>2 DEF ReadHolds, Held, Outcomes
  <2> HIDE DEF held
  <2>4. QED BY <1>0, <2>1, <2>3 DEF HandlerHolds, Detection, Settled, Phases
<1>5. QED BY <1>1, <1>2, <1>3, <1>4

LEMMA SensorHolds ==
  ASSUME RosType, NEW r \in Reads,
         GetScan(r) \/ (\E width \in Widths : GetImage(r, width)) \/ DetectImage(r)
  PROVE  HandlerHolds(r)
<1>0. None \notin {"succeeded", "stale", "SENSOR_STALE", "CAPABILITY_UNAVAILABLE",
                 "ROS_INTERFACE_ERROR"}
  BY ReadingAssumption
<1>1. CASE GetScan(r)
  <2> DEFINE refused == [NoWork EXCEPT !.op = "scan", !.outcome = Unavailable("scan")]
             scanned(o) == [NoWork EXCEPT !.op = "scan", !.scan = cache["scan"].data,
                                          !.outcome = o]
  <2>1. CASE Unavailable("scan") # None
    <3>1. Go(r, "idle", refused)
      BY <1>1, <2>1 DEF GetScan
    <3>2. Unavailable("scan") \in Outcomes
      BY <2>1, UnavailableType, UnavailableOutcome DEF Sensors
    <3>3. refused \in Held /\ refused.outcome # None /\ refused.op = "scan"
      BY <2>1, <3>2, NoWorkHeld DEF Held, NoWork
    <3> HIDE DEF refused
    <3>4. QED BY <3>1, <3>3 DEF HandlerHolds, Detection, Settled, Phases
  <2>2. CASE Unavailable("scan") = None
    <3>1. PICK o \in {"stale", "succeeded"} : Go(r, "idle", scanned(o))
      BY <1>1, <2>2 DEF GetScan
    <3>2. cache["scan"].data \in Scans
      BY <1>0, <2>2, UnavailableType, MessageHolds DEF Sensors
    <3>3. /\ scanned(o) \in Held /\ scanned(o).outcome = o
          /\ scanned(o).op = "scan"
      BY <3>2, NoWorkHeld DEF Held, NoWork, Outcomes
    <3> HIDE DEF scanned
    <3>4. QED BY <1>0, <3>1, <3>3 DEF HandlerHolds, Detection, Settled, Phases
  <2>3. QED BY <2>1, <2>2
<1>2. ASSUME NEW width \in Widths, GetImage(r, width) PROVE HandlerHolds(r)
  <2> DEFINE held(o) == [NoWork EXCEPT !.op = "image", !.outcome = o]
  <2>1. PICK o : /\ Go(r, "idle", held(o))
                 /\ \/ o = Unavailable("image") /\ Unavailable("image") # None
                    \/ o \in {"succeeded", "ROS_INTERFACE_ERROR"}
    BY <1>2 DEF GetImage
  <2>2. o \in Outcomes /\ o # None
    BY <1>0, <2>1, UnavailableType, UnavailableOutcome DEF Sensors, Outcomes
  <2>3. held(o) \in Held /\ held(o).outcome = o /\ held(o).op = "image"
    BY <2>2, NoWorkHeld DEF Held, NoWork
  <2> HIDE DEF held
  <2>4. QED BY <2>1, <2>2, <2>3 DEF HandlerHolds, Detection, Settled, Phases
<1>3. CASE DetectImage(r)
  <2> DEFINE refused == [NoWork EXCEPT !.op = "detect", !.outcome = Unavailable("image")]
             held == [NoWork EXCEPT !.op = "detect", !.image = cache["image"].data,
                                    !.stamp = cache["image"].stamp]
  <2>1. CASE Unavailable("image") # None
    <3>1. Go(r, "idle", refused)
      BY <1>3, <2>1 DEF DetectImage
    <3>2. Unavailable("image") \in Outcomes
      BY <2>1, UnavailableType, UnavailableOutcome DEF Sensors
    <3>3. refused \in Held /\ refused.outcome # None /\ refused.distance = None
      BY <2>1, <3>2, NoWorkHeld DEF Held, NoWork
    <3> HIDE DEF refused
    <3>4. QED BY <3>1, <3>3 DEF HandlerHolds, Detection, Settled, Phases
  <2>2. CASE Unavailable("image") = None
    <3>1. Go(r, "detect", held)
      BY <1>3, <2>2 DEF DetectImage
    <3>2. cache["image"].data \in Images /\ cache["image"].stamp \in 0 .. MaxTime
      BY <1>0, <2>2, UnavailableType, MessageHolds DEF Sensors
    <3>3. held \in Held /\ held.op = "detect" /\ held.image \in Images /\ held.distance = None
      BY <3>2, NoWorkHeld DEF Held, NoWork
    <3> HIDE DEF held
    <3>4. QED BY <3>1, <3>3 DEF HandlerHolds, Detection, Settled, Phases
  <2>3. QED BY <2>1, <2>2
<1>4. QED BY <1>1, <1>2, <1>3

LEMMA ObjectHolds ==
  ASSUME RosType, NEW r \in Reads, ReadHolds(r), NEW wanted \in BOOLEAN, DetectObject(r, wanted)
  PROVE  HandlerHolds(r)
<1>0. None \notin {"succeeded", "stale", "SENSOR_STALE", "CAPABILITY_UNAVAILABLE",
                 "ROS_INTERFACE_ERROR"}
  BY ReadingAssumption
<1> DEFINE image == work[r].image
           scan == Latest("scan", registry.topic["scan"])
           data == IF scan = None THEN None ELSE scan.data
           distance == Distance(image, scan)
           found == [work[r] EXCEPT !.scan = data, !.distance = distance]
<1>1. /\ work[r] \in Held /\ work[r].op = "detect"
      /\ image \in Images /\ work[r].distance = None
  BY DEF DetectObject, ReadHolds, Detection
<1>2. CASE image.sides = None \/ ~wanted
  <2> DEFINE held == [work[r] EXCEPT !.image = None, !.outcome = "succeeded"]
  <2>1. Go(r, "idle", held)
    BY <1>2, Zenon DEF DetectObject
  <2>2. held \in Held /\ held.outcome = "succeeded" /\ held.distance = None
    BY <1>1 DEF Held, Outcomes
  <2> HIDE DEF held
  <2>3. QED BY <1>0, <2>1, <2>2 DEF HandlerHolds, Detection, Settled, Phases
<1>3. CASE image.sides # None /\ wanted
  <2>1. /\ data \in Scans \cup {None}
        /\ distance # None => data \in Scans
        /\ distance = IF scan = None THEN None
                      ELSE CorrelateDistance(data, Bearing(image.sides, image.width))
    <3>1. CASE scan = None
      BY <3>1 DEF Distance
    <3>2. CASE scan # None
      <4>1. data = scan.data /\ data \in Scans
        BY <3>2, LatestFound, MessageHolds DEF Sensors
      <4>2. QED BY <3>2, <4>1 DEF Distance
    <3>3. QED BY <3>1, <3>2
  <2>2. distance \in Ranges
    BY <1>1, <1>3, <2>1, DistanceType DEF Ranges
  <2>3. distance # None =>
          /\ data \in Scans
          /\ distance = CorrelateDistance(data, Bearing(image.sides, image.width))
    BY <2>1
  <2> DEFINE at(place, outcome) == [found EXCEPT !.place = place, !.outcome = outcome]
             done == [found EXCEPT !.outcome = "succeeded"]
             here == [found EXCEPT !.place = "base_link", !.outcome = "succeeded"]
  <2>4. \/ Go(r, "idle", done) \/ Go(r, "idle", here) \/ Go(r, "lookup", found)
    BY <1>3, Zenon DEF DetectObject
  <2> HIDE DEF data, distance
  <2>5. /\ found \in Held /\ found.op = "detect" /\ found.image = image
        /\ found.scan = data /\ found.distance = distance
    BY <1>1, <2>1, <2>2 DEF Held
  <2> HIDE DEF found
  <2>6. /\ done \in Held /\ done.op = "detect" /\ done.image = image
        /\ done.scan = data /\ done.distance = distance /\ done.outcome = "succeeded"
    BY <2>5 DEF Held, Outcomes
  <2>7. /\ here \in Held /\ here.op = "detect" /\ here.image = image
        /\ here.scan = data /\ here.distance = distance /\ here.outcome = "succeeded"
    BY <2>5 DEF Held, Outcomes, Places
  <2> HIDE DEF done, here, image
  <2> DEFINE Sound(held) == /\ held \in Held /\ held.op = "detect" /\ held.image = image
                            /\ held.scan = data /\ held.distance = distance
  <2>8. ASSUME NEW held, Sound(held), NEW next, next # "detect"
        PROVE  Detection(next, held)
    <3>1. image \in Images /\ image.sides # None
      BY <1>1, <1>3
    <3>2. QED BY <2>3, <2>8, <3>1 DEF Detection
  <2>9. Sound(done) /\ Sound(here) /\ Sound(found)
    BY <2>5, <2>6, <2>7
  <2>10. /\ Detection("idle", done) /\ Settled("idle", done)
         /\ Detection("idle", here) /\ Settled("idle", here)
         /\ Detection("lookup", found) /\ Settled("lookup", found)
    BY <1>0, <2>6, <2>7, <2>8, <2>9 DEF Settled
  <2>11. QED BY <2>4, <2>9, <2>10 DEF HandlerHolds, Phases
<1>4. QED BY <1>2, <1>3

LEMMA PlaceHolds ==
  ASSUME NEW r \in Reads, ReadHolds(r), PlaceObject(r)
  PROVE  HandlerHolds(r)
<1>0. None # "succeeded"
  BY ReadingAssumption
<1> DEFINE place == IF pc[r] = "found" THEN "map" ELSE "TF_UNAVAILABLE"
           held == [work[r] EXCEPT !.outcome = "succeeded", !.place = place]
<1>1. Go(r, "idle", held) /\ work[r].op = "detect"
  BY DEF PlaceObject
<1>2. place \in Places
  BY DEF Places
<1> HIDE DEF place
<1>3. /\ held \in Held /\ held.op = "detect" /\ held.outcome = "succeeded"
      /\ held.image = work[r].image /\ held.scan = work[r].scan
      /\ held.distance = work[r].distance
  BY <1>1, <1>2 DEF ReadHolds, Held, Outcomes
<1> HIDE DEF held
<1>4. Detection("idle", held)
  BY <1>1, <1>3 DEF ReadHolds, Detection
<1>5. QED BY <1>0, <1>1, <1>3, <1>4 DEF HandlerHolds, Settled, Phases

LEMMA HoldStep == ASSUME HoldInv, Coherence, [Next]_vars PROVE HoldInv'
<1> USE DEF HoldInv
<1>1. CASE UNCHANGED <<cache, now, job, tf, registry, pc, work>>
  BY <1>1 DEF RosType, ReadHolds
<1>2. ASSUME NEW s \in Sensors, Receive(s) PROVE HoldInv'
  <2>1. PICK data \in Data(s), stamp \in Stamps(s) :
          cache' = [cache EXCEPT ![s] = [stamp |-> stamp, at |-> now, data |-> data]]
    BY <1>2 DEF Receive
  <2> DEFINE message == [stamp |-> stamp, at |-> now, data |-> data]
  <2>2. message \in Messages(s)
    BY ReadingAssumption DEF Messages, Stamps, RosType
  <2>3. cache' = [cache EXCEPT ![s] = message] /\ DOMAIN cache = Sensors
    BY <2>1 DEF Coherence, ReadType
  <2> HIDE DEF message
  <2>4. \A q \in Sensors : cache'[q] = IF q = s THEN message ELSE cache[q]
    BY <2>3
  <2>5. \A q \in Sensors : (cache[q] = None \/ cache[q] \in Messages(q))'
    BY <2>2, <2>4 DEF RosType, Messages, Data
  <2>6. UNCHANGED <<now, job, tf, registry, pc, work>>
    BY <1>2 DEF Receive
  <2>7. QED BY <2>5, <2>6 DEF RosType, ReadHolds
<1>3. CASE TransformArrives
  <2>1. PICK stamp \in tf.last + 1 .. now :
          tf' = [first |-> IF tf.last = 0 THEN stamp ELSE tf.first, last |-> stamp]
    BY <1>3 DEF TransformArrives
  <2>2. tf' \in [first: 0 .. MaxTime, last: 0 .. MaxTime]
    BY <2>1, ReadingAssumption DEF RosType
  <2>3. QED BY <1>3, <2>2 DEF TransformArrives, RosType, ReadHolds
<1>4. ASSUME NEW r \in Reads, Lookup(r) \/ LookupEnds(r) PROVE HoldInv'
  <2>1. job' \in [read: Reads \cup {None}, since: 0 .. MaxTime]
    BY <1>4, ReadingAssumption DEF Lookup, LookupEnds, RosType
  <2>2. UNCHANGED <<cache, now, tf, registry, work>>
    BY <1>4 DEF Lookup, LookupEnds, Answered
  <2>3. pc' = pc \/ \E next \in {"found", "missing"} : pc' = [pc EXCEPT ![r] = next]
    BY <1>4 DEF Lookup, LookupEnds, Answered
  <2>4. RosType'
    BY <2>1, <2>2 DEF RosType
  <2>5. pc' \in [Reads -> Phases] /\ work' \in [Reads -> Held]
    BY <2>2, <2>3 DEF Phases
  <2>6. ASSUME NEW q \in Reads PROVE ReadHolds(q)'
    <3>1. pc'[q] = pc[q] \/ pc'[q] \in {"found", "missing"}
      BY <2>3
    <3>2. QED BY <2>2, <3>1 DEF ReadHolds, Detection, Settled, Phases
  <2>7. QED BY <2>4, <2>5, <2>6
<1>5. CASE Elapse
  BY <1>5, ReadingAssumption DEF Elapse, RosType, ReadHolds, rosVars
<1>6. CASE Discovered
  BY <1>6 DEF Discovered, RosType, ReadHolds, rosVars
<1>7. ASSUME NEW r \in Reads, HandlerStep(r) PROVE HoldInv'
  <2>1. HandlerHolds(r)
    BY <1>7, StateHolds, SensorHolds, ObjectHolds, PlaceHolds DEF HandlerStep, Coherence
  <2>2. PICK next \in Phases, held \in Held :
          Go(r, next, held) /\ Detection(next, held) /\ Settled(next, held)
    BY <2>1 DEF HandlerHolds
  <2>3. RosType'
    BY <2>2 DEF Go, RosType, rosVars
  <2>4. pc' = [pc EXCEPT ![r] = next] /\ work' = [work EXCEPT ![r] = held]
    BY <2>2 DEF Go
  <2>5. pc' \in [Reads -> Phases] /\ work' \in [Reads -> Held]
    BY <2>4
  <2>6. ASSUME NEW q \in Reads PROVE ReadHolds(q)'
    BY <2>2, <2>4 DEF ReadHolds, Detection, Settled
  <2>7. QED BY <2>3, <2>5, <2>6
<1>8. CASE EnsureSubscribed \/ \E s \in Sensors : Subscribe(s)
  BY <1>1, <1>8 DEF EnsureSubscribed, Subscribe, rosVars
<1>9. QED BY <1>1, <1>2, <1>3, <1>4, <1>5, <1>6, <1>7, <1>8 DEF Next, vars

LEMMA Holds == Spec => [](PoolInv /\ HoldInv)
<1>1. Init => PoolInv /\ Coherence /\ HoldInv
  <2>1. Init => PoolInv
    BY DEF Init, PoolInv, PoolType, OneSubscription, Sensors
  <2>2. Init => Coherence
    BY DEF Init, Coherence, ReadType, StateReads, Fresh, StateIsCoherent, NoWork, Sensors
  <2>3. ASSUME Init PROVE HoldInv
    <3>1. RosType
      BY <2>3, ReadingAssumption DEF Init, RosType, Sensors
    <3>2. pc \in [Reads -> Phases] /\ work \in [Reads -> Held]
      BY <2>3, NoWorkHeld DEF Init, Phases
    <3>3. Detection("idle", NoWork) /\ Settled("idle", NoWork)
      BY DEF Detection, Settled, NoWork
    <3>4. QED BY <2>3, <3>1, <3>2, <3>3 DEF Init, HoldInv, ReadHolds
  <2>4. QED BY <2>1, <2>2, <2>3
<1>2. QED BY <1>1, PoolStep, CoherenceStep, HoldStep, Threads, PTL DEF Spec

\* Whatever is read, the pool, the cache and the answers hold what TypeOK says:
\* an answered read has one of the outcomes the handlers give, and an idle one
\* that has none holds nothing.
THEOREM ReadsAreTyped == Spec => []TypeOK
<1>1. PoolInv /\ HoldInv => TypeOK
  BY TypeParts
<1>2. QED BY <1>1, Holds, PTL

\* detect_objects gives no distance that no beam measured within the tolerance
\* of the object's bearing, and the nearest obstacle's if that is dead on it,
\* whatever scan and image it had, for every number of beams.
THEOREM DistancesAreMeasured == Spec => []DistanceIsMeasured
<1>1. ASSUME HoldInv, NEW r \in Reads, work[r].op = "detect", work[r].distance # None
      PROVE  MeasuredAt(work[r].scan, Bearing(work[r].image.sides, work[r].image.width),
                        work[r].distance)
  <2>1. /\ work[r].scan \in Scans /\ work[r].image \in Images /\ work[r].image.sides # None
        /\ work[r].distance =
             CorrelateDistance(work[r].scan, Bearing(work[r].image.sides, work[r].image.width))
    BY <1>1 DEF HoldInv, ReadHolds, Detection
  <2>2. work[r].scan \in ScanType
    BY <2>1, ReadingAssumption DEF ScanType
  <2>3. Bearing(work[r].image.sides, work[r].image.width) \in Int
    BY <2>1, BearingType
  <2>4. QED BY <1>1, <2>1, <2>2, <2>3, CorrelateMeasures
<1>2. HoldInv => DistanceIsMeasured
  BY <1>1 DEF DistanceIsMeasured, MeasuredAt
<1>3. QED BY <1>2, Holds, PTL
=============================================================================
