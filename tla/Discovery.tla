------------------------------- MODULE Discovery -------------------------------
(***************************************************************************)
(* From the ROS graph to the capability registry                           *)
(* (src/src/ros_mcp/discovery and src/src/ros_mcp/capabilities): the poll  *)
(* of RclpyDiscoveryEngine, split at the two crossings of the ROS bridge,  *)
(* the inference rules, and what else the server does to the graph it      *)
(* polls: its own subscriptions, its publisher and its action client are   *)
(* part of it.                                                             *)
(*                                                                         *)
(* An interface is a topic or an action of one kind.  A capability entry   *)
(* is told apart by its confidence and the names it resolved; limits and   *)
(* the registry's version counter are left out.                            *)
(***************************************************************************)
EXTENDS Naturals, FiniteSets

CONSTANTS Interfaces,   \* the topics and actions there may be
          Kind,         \* Kind[i]: what its type is
          Configured,   \* the interfaces robot.yaml names
          Enabled,      \* capabilities with a switch that is on
          MaxChanges    \* bound on the changes of the robot's graph

Kinds == {"twist", "odom", "scan", "image", "amcl", "navigate"}

ASSUME InterfaceAssumption == /\ Kind \in [Interfaces -> Kinds]
                              /\ Configured \subseteq Interfaces
                              /\ MaxChanges \in Nat

VARIABLES
  robot,     \* external: the interfaces of every other node of the graph
  mapSeen,   \* the TF buffer has heard of the map frame; it forgets nothing
  changes,   \* how often the graph changed
  toOpen,    \* own endpoints whose job the ROS thread has not run
  own,       \* endpoints of this server's node
  phase,     \* start() awaits the first poll, the server serves, or it died
  poll,      \* refresh_once: not running, job queued, snapshot taken
  collected, \* the snapshot on its way back
  latest,    \* _latest
  entries    \* the registry: an entry per capability, or None

graph == <<robot, mapSeen, changes>>
vars == <<robot, mapSeen, changes, toOpen, own, phase, poll, collected, latest, entries>>

Capabilities == {"differential_drive_motion", "autonomous_navigation", "localization",
                 "range_sensing", "visual_observation", "object_detection"}

Entry(confidence, topics) == [confidence |-> confidence, topics |-> topics]
None == Entry("none", {})

\* A snapshot keeps apart whose endpoint an interface is, as the nodes,
\* publishers and subscribers of a GraphSnapshot do.
Content == [robot: SUBSET Interfaces, own: SUBSET Interfaces, map: BOOLEAN]
EmptySnapshot == [robot |-> {}, own |-> {}, map |-> FALSE]
Graph == [robot |-> robot, own |-> own, map |-> mapSeen]

-----------------------------------------------------------------------------
(* The inference rules of the ontology.                                    *)

\* The topics or actions of one kind; nobody asks who publishes them.
Candidates(g, kind) == {i \in g.robot \cup g.own : Kind[i] = kind}

\* Mutant: a lone candidate gets a confidence of its own.
SingleUnscored(g, kind) ==
  LET all == Candidates(g, kind) IN
  CASE all = {} -> None
    [] all \cap Configured # {} -> Entry("CONFIRMED", all \cap Configured)
    [] OTHER -> Entry("POSSIBLE", all)

\* _resolve_single_topic_capability, and the rule for NavigateToPose actions.
Single(g, kind) ==
  LET all == Candidates(g, kind)
      exact == all \cap Configured IN
  CASE all = {} -> None
    [] exact # {} -> Entry("CONFIRMED", exact)
    [] all # {} /\ exact = {} /\ Cardinality(all) = 1 -> Entry("LIKELY", all)
    [] OTHER -> Entry("AMBIGUOUS", {})

\* infer_differential_drive_motion: both names are configured, or both unique.
Motion(g) ==
  LET twists == Candidates(g, "twist")
      odoms == Candidates(g, "odom")
      present == twists # {} /\ odoms # {}
      exact == twists \cap Configured # {} /\ odoms \cap Configured # {}
      unique == Cardinality(twists) = 1 /\ Cardinality(odoms) = 1 IN
  CASE ~present -> None
    [] present /\ exact -> Entry("CONFIRMED", (twists \cup odoms) \cap Configured)
    [] present /\ ~exact /\ unique -> Entry("LIKELY", twists \cup odoms)
    [] OTHER -> Entry("AMBIGUOUS", {})

\* infer_localization: /amcl_pose by its name, or else a map frame.
Localization(g) ==
  CASE Candidates(g, "amcl") # {} -> Entry("CONFIRMED", Candidates(g, "amcl"))
    [] Candidates(g, "amcl") = {} /\ g.map -> Entry("LIKELY", {})
    [] OTHER -> None

\* DefaultCapabilityInferenceEngine.infer
Infer(g) ==
  [cap \in Capabilities |->
    CASE cap = "differential_drive_motion" -> IF cap \in Enabled THEN Motion(g) ELSE None
      [] cap = "autonomous_navigation" -> IF cap \in Enabled THEN Single(g, "navigate") ELSE None
      [] cap = "localization" -> Localization(g)
      [] cap = "range_sensing" -> Single(g, "scan")
      [] OTHER -> Single(g, "image")]

\* The capabilities whose tools are listed and whose commands are planned.
Usable == {cap \in Capabilities : entries[cap].confidence \in {"CONFIRMED", "LIKELY"}}

-----------------------------------------------------------------------------
ConstructorTopics == {i \in Configured : Kind[i] \in {"odom", "scan", "image"}}

\* The one type invariant of the module.
TypeOK ==
  /\ robot \in SUBSET Interfaces /\ own \in SUBSET Interfaces /\ toOpen \in SUBSET Interfaces
  /\ mapSeen \in BOOLEAN
  /\ changes \in 0 .. MaxChanges
  /\ phase \in {"starting", "serving", "down"}
  /\ poll \in {"idle", "queued", "taken"}
  /\ collected \in Content /\ latest \in Content
  /\ entries \in [Capabilities -> [confidence: {"none", "CONFIRMED", "LIKELY", "AMBIGUOUS"},
                                   topics: SUBSET Interfaces]]

\* start() is about to await its first refresh_once().
Init ==
  /\ robot \in SUBSET Interfaces
  /\ mapSeen = FALSE
  /\ changes = 0
  /\ toOpen = ConstructorTopics
  /\ own = {}
  /\ phase = "starting"
  /\ poll = "idle"
  /\ collected = EmptySnapshot /\ latest = EmptySnapshot
  /\ entries = [cap \in Capabilities |-> None]

-----------------------------------------------------------------------------
\* refresh_once queues its job: at the start, then after every poll interval.
Poll ==
  /\ phase # "down" /\ poll = "idle"
  /\ poll' = "queued"
  /\ UNCHANGED <<graph, toOpen, own, phase, collected, latest, entries>>

\* The ROS thread runs collect_graph_snapshot.
Collect ==
  /\ poll = "queued"
  /\ poll' = "taken"
  /\ collected' = Graph
  /\ UNCHANGED <<graph, toOpen, own, phase, latest, entries>>

\* It raises: a node left the graph while it was asked about.  _poll_loop logs
\* that, while start() hands it on and the server does not come up.
CollectRaises ==
  /\ poll = "queued"
  /\ poll' = "idle"
  /\ phase' = IF phase = "starting" THEN "down" ELSE phase
  /\ UNCHANGED <<graph, toOpen, own, collected, latest, entries>>

\* Mutant: the TF frames are not compared.
ContentEqualBut(a, b) == a.robot = b.robot /\ a.own = b.own

\* _content_equal
ContentEqual(a, b) == a = b

\* Mutant: a poll after the first one leaves the registry alone.
DeliverOnce ==
  /\ poll = "taken"
  /\ poll' = "idle"
  /\ latest' = collected
  /\ entries' = IF phase = "starting" THEN Infer(collected) ELSE entries
  /\ phase' = "serving"
  /\ collected' = EmptySnapshot
  /\ UNCHANGED <<graph, toOpen, own>>

\* refresh_once goes on: it keeps the snapshot and, if anything changed, the
\* coordinator infers the capabilities and updates the registry.
Deliver ==
  /\ poll = "taken"
  /\ poll' = "idle"
  /\ latest' = collected
  /\ entries' = IF ContentEqual(latest, collected) THEN entries ELSE Infer(collected)
  /\ phase' = "serving"
  /\ collected' = EmptySnapshot
  /\ UNCHANGED <<graph, toOpen, own>>

\* The job of a subscription asked for by a constructor, or its failure, after
\* which nobody asks again; or the job of the action client.  The first poll's
\* job is queued before those of the constructors.
Open(i) ==
  /\ i \in toOpen
  /\ phase # "down" /\ ~(phase = "starting" /\ poll \in {"idle", "queued"})
  /\ toOpen' = toOpen \ {i}
  /\ \/ own' = own \cup {i}
     \/ UNCHANGED own
  /\ UNCHANGED <<graph, phase, poll, collected, latest, entries>>

\* The first robot.stop, for which no capability is needed, or robot.move
\* creates the publisher on the configured topic.
CreatePublisher ==
  /\ phase = "serving"
  /\ \E i \in Configured \ own : Kind[i] = "twist" /\ own' = own \cup {i}
  /\ UNCHANGED <<graph, toOpen, phase, poll, collected, latest, entries>>

\* A navigation, which is dispatched only if its capability is usable and there
\* is a localization of whatever confidence, asks for the action client on the
\* configured action, unless there is one.
AskForActionClient ==
  /\ phase = "serving"
  /\ "autonomous_navigation" \in Usable /\ entries["localization"] # None
  /\ \E i \in Configured \ (own \cup toOpen) :
       Kind[i] = "navigate" /\ toOpen' = toOpen \cup {i}
  /\ UNCHANGED <<graph, own, phase, poll, collected, latest, entries>>

\* External: nodes join and leave, and the robot starts to localize.
RobotChanges ==
  /\ changes < MaxChanges
  /\ changes' = changes + 1
  /\ robot' \in SUBSET Interfaces
  /\ mapSeen' \in {mapSeen, TRUE}
  /\ UNCHANGED <<toOpen, own, phase, poll, collected, latest, entries>>

Next == \/ Poll \/ Collect \/ CollectRaises \/ Deliver
        \/ CreatePublisher \/ AskForActionClient \/ RobotChanges
        \/ \E i \in Interfaces : Open(i)

Spec == Init /\ [][Next]_vars

\* The event loop and the ROS thread go on, and a poll does not fail for ever.
FairSpec == /\ Spec
            /\ WF_vars(Poll) /\ SF_vars(Collect) /\ WF_vars(Deliver)

-----------------------------------------------------------------------------
(* Properties.                                                             *)

\* Between two steps of the event loop the registry holds what the rules infer
\* from the snapshot the discovery engine shows: no change of the graph that
\* the engine has taken up is lost on its way to the tool list.
RegistryMatchesSnapshot == entries = Infer(latest)

\* Once the graph stops changing, the registry comes to agree with it and
\* stays so, provided the server came up.
Settles == <>[](phase # "down" => entries = Infer(Graph))

\* README.md: no robot present means zero capabilities.  No node but this
\* server's own was ever there.
NoRobotNoCapabilities == changes = 0 /\ robot = {} => Usable = {}
=============================================================================
