---------------------------- MODULE DiscoveryProofs ----------------------------
(***************************************************************************)
(* The registry follows the snapshot, for every set of interfaces and      *)
(* every configuration.                                                    *)
(***************************************************************************)
EXTENDS Discovery, TLAPS

Entries == [confidence: {"none", "CONFIRMED", "LIKELY", "AMBIGUOUS"}, topics: SUBSET Interfaces]

-----------------------------------------------------------------------------
LEMMA EntryType ==
  ASSUME NEW s \in {"none", "CONFIRMED", "LIKELY", "AMBIGUOUS"}, NEW t \in SUBSET Interfaces
  PROVE  Entry(s, t) \in Entries
  BY Zenon DEF Entry, Entries

LEMMA NoneType == None \in Entries
  BY EntryType DEF None

LEMMA CandidatesType ==
  ASSUME NEW g \in Content, NEW kind
  PROVE  Candidates(g, kind) \subseteq Interfaces
  BY DEF Content, Candidates

LEMMA SingleType == ASSUME NEW g \in Content, NEW kind PROVE Single(g, kind) \in Entries
<1> DEFINE all == Candidates(g, kind)
<1>1. all \subseteq Interfaces /\ all \cap Configured \subseteq Interfaces
  BY CandidatesType
<1>2. Single(g, kind) \in {None, Entry("CONFIRMED", all \cap Configured), Entry("LIKELY", all),
                           Entry("AMBIGUOUS", {})}
  BY DEF Single
<1>3. QED BY <1>1, <1>2, EntryType, NoneType

LEMMA MotionType == ASSUME NEW g \in Content PROVE Motion(g) \in Entries
<1> DEFINE all == Candidates(g, "twist") \cup Candidates(g, "odom")
<1>1. all \subseteq Interfaces /\ all \cap Configured \subseteq Interfaces
  BY CandidatesType
<1>2. Motion(g) \in {None, Entry("CONFIRMED", all \cap Configured), Entry("LIKELY", all),
                     Entry("AMBIGUOUS", {})}
  BY DEF Motion
<1>3. QED BY <1>1, <1>2, EntryType, NoneType

LEMMA LocalizationType == ASSUME NEW g \in Content PROVE Localization(g) \in Entries
<1>1. Candidates(g, "amcl") \subseteq Interfaces
  BY CandidatesType
<1>2. Localization(g) \in {None, Entry("CONFIRMED", Candidates(g, "amcl")), Entry("LIKELY", {})}
  BY DEF Localization
<1>3. QED BY <1>1, <1>2, EntryType, NoneType

LEMMA InferType == ASSUME NEW g \in Content PROVE Infer(g) \in [Capabilities -> Entries]
  BY SingleType, MotionType, LocalizationType, NoneType DEF Infer

\* The empty snapshot has no capability, so the registry starts out right.
LEMMA InferNothing == Infer(EmptySnapshot) = [cap \in Capabilities |-> None]
<1>1. \A kind : Candidates(EmptySnapshot, kind) = {}
  BY DEF Candidates, EmptySnapshot
<1>2. \A kind : Single(EmptySnapshot, kind) = None
  BY <1>1 DEF Single
<1>3. Motion(EmptySnapshot) = None
  <2>1. Candidates(EmptySnapshot, "twist") = {}
    BY <1>1
  <2>2. QED BY <2>1, Zenon DEF Motion
<1>4. Localization(EmptySnapshot) = None
  BY <1>1 DEF Localization, EmptySnapshot
<1>5. QED BY <1>2, <1>3, <1>4 DEF Infer

LEMMA EmptyType == EmptySnapshot \in Content
  BY DEF EmptySnapshot, Content

-----------------------------------------------------------------------------
LEMMA InitTyped == Init => TypeOK
<1>1. SUFFICES ASSUME Init PROVE TypeOK
  OBVIOUS
<1>2. ConstructorTopics \subseteq Interfaces
  BY InterfaceAssumption DEF ConstructorTopics
<1>3. entries \in [Capabilities -> Entries]
  BY <1>1, NoneType DEF Init
<1>4. /\ robot \in SUBSET Interfaces /\ own \in SUBSET Interfaces /\ toOpen \in SUBSET Interfaces
      /\ changes \in 0 .. MaxChanges
  BY <1>1, <1>2, InterfaceAssumption DEF Init
<1>5. /\ mapSeen \in BOOLEAN
      /\ phase \in {"starting", "serving", "down"} /\ poll \in {"idle", "queued", "taken"}
      /\ collected \in Content /\ latest \in Content
  BY <1>1, EmptyType, Zenon DEF Init
<1>6. QED BY <1>3, <1>4, <1>5 DEF TypeOK, Entries

LEMMA NextTyped == TypeOK /\ [Next]_vars => TypeOK'
<1>1. SUFFICES ASSUME TypeOK, [Next]_vars PROVE TypeOK'
  OBVIOUS
<1>2. CASE Poll
  BY <1>1, <1>2 DEF TypeOK, Poll, graph
<1>3. CASE Collect
  <2>1. collected' \in Content
    BY <1>1, <1>3 DEF TypeOK, Collect, Graph, Content
  <2>2. QED BY <1>1, <1>3, <2>1 DEF TypeOK, Collect, graph
<1>4. CASE CollectRaises
  BY <1>1, <1>4 DEF TypeOK, CollectRaises, graph
<1>5. CASE Deliver
  <2>1. entries' \in [Capabilities -> Entries]
    BY <1>1, <1>5, InferType DEF TypeOK, Deliver, Entries
  <2>2. QED BY <1>1, <1>5, <2>1, EmptyType DEF TypeOK, Deliver, graph, Entries
<1>6. CASE CreatePublisher
  BY <1>1, <1>6, InterfaceAssumption DEF TypeOK, CreatePublisher, graph
<1>7. CASE RobotChanges
  <2>1. changes' \in 0 .. MaxChanges /\ robot' \in SUBSET Interfaces
    BY <1>1, <1>7, InterfaceAssumption DEF TypeOK, RobotChanges
  <2>2. mapSeen' \in BOOLEAN
    BY <1>1, <1>7, Zenon DEF TypeOK, RobotChanges
  <2>3. QED BY <1>1, <1>7, <2>1, <2>2 DEF TypeOK, RobotChanges
<1>8. ASSUME NEW i \in Interfaces, Open(i) PROVE TypeOK'
  BY <1>1, <1>8 DEF TypeOK, Open, graph
<1>9. CASE UNCHANGED vars
  BY <1>1, <1>9 DEF TypeOK, vars
<1>10. CASE AskForActionClient
  BY <1>1, <1>10, InterfaceAssumption DEF TypeOK, AskForActionClient, graph
<1>11. QED BY <1>1, <1>2, <1>3, <1>4, <1>5, <1>6, <1>7, <1>8, <1>9, <1>10 DEF Next

\* Discovery's state is what its types say, and inference always yields entries.
THEOREM TypeCorrect == Spec => []TypeOK
  BY InitTyped, NextTyped, PTL DEF Spec

-----------------------------------------------------------------------------
\* What the registry holds is always what the rules infer from the snapshot
\* the discovery engine shows.
THEOREM RegistryFollows == Spec => []RegistryMatchesSnapshot
<1>1. Init => RegistryMatchesSnapshot
  BY InferNothing DEF Init, RegistryMatchesSnapshot
<1>2. RegistryMatchesSnapshot /\ [Next]_vars => RegistryMatchesSnapshot'
  <2>1. SUFFICES ASSUME RegistryMatchesSnapshot, [Next]_vars PROVE RegistryMatchesSnapshot'
    OBVIOUS
  <2>2. CASE Deliver
    <3>1. CASE ContentEqual(latest, collected)
      BY <2>1, <2>2, <3>1 DEF Deliver, ContentEqual, RegistryMatchesSnapshot
    <3>2. CASE ~ContentEqual(latest, collected)
      BY <2>2, <3>2 DEF Deliver, RegistryMatchesSnapshot, Infer, Single, Motion, Localization,
                        Candidates
    <3>3. QED BY <3>1, <3>2
  <2>3. CASE UNCHANGED <<latest, entries>>
    BY <2>1, <2>3 DEF RegistryMatchesSnapshot, Infer, Single, Motion, Localization, Candidates
  <2>4. QED BY <2>1, <2>2, <2>3
       DEF Next, Poll, Collect, CollectRaises, CreatePublisher, AskForActionClient,
           RobotChanges, Open, vars
<1>3. QED BY <1>1, <1>2, PTL DEF Spec
=============================================================================
