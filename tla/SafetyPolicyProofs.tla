-------------------------- MODULE SafetyPolicyProofs ---------------------------
(***************************************************************************)
(* The rate limit of DefaultSafetyPolicyEngine, for every rate, window and *)
(* number of calls and sessions.                                           *)
(***************************************************************************)
EXTENDS SafetyPolicy, FiniteSetTheorems, TLAPS

\* What pruning keeps true: the history of a session holds all of its commands
\* that may still count, and nothing else.
HistoryOf(s) ==
  /\ history[s] \subseteq admitted[s]
  /\ IsFiniteSet(admitted[s])
  /\ \A c \in admitted[s] : when[c] <= now
  /\ \A c \in admitted[s] \ history[s] : when[c] < now - Second

IInv == TypeOK /\ \A s \in Sessions : HistoryOf(s)

-----------------------------------------------------------------------------
\* check() always answers with one of its verdicts.
LEMMA JudgeType == \A ask \in Ask : Judge(ask) \in Verdicts \ {"PERMISSION_DENIED"}
  BY DEF Judge, Verdicts

\* A call is recorded with its session, its time and its answer.
LEMMA AnswerType ==
  ASSUME NEW s \in Sessions, NEW v \in Verdicts,
         now \in 0 .. MaxTime, Answer(s, v)
  PROVE  last' \in [session: Sessions, at: 0 .. MaxTime, verdict: Verdicts]
<1>1. last' = [session |-> s, at |-> now, verdict |-> v]
  BY DEF Answer
<1>2. QED BY <1>1, Zenon

LEMMA InitTyped == Init => TypeOK
  BY RateAssumption DEF Init, TypeOK

LEMMA NextTyped == TypeOK /\ [Next]_vars => TypeOK'
<1>1. SUFFICES ASSUME TypeOK, [Next]_vars PROVE TypeOK'
  OBVIOUS
<1>2. CASE Elapse
  BY <1>1, <1>2, RateAssumption DEF TypeOK, Elapse
<1>3. ASSUME NEW s \in Sessions, NEW ask \in Ask, CheckStop(s, ask) PROVE TypeOK'
  <2>1. "ALLOW" \in Verdicts
    BY DEF Verdicts
  <2>2. Answer(s, "ALLOW") /\ UNCHANGED <<now, when, history, admitted>>
    BY <1>3 DEF CheckStop
  <2>3. last' \in [session: Sessions, at: 0 .. MaxTime, verdict: Verdicts]
    BY <1>1, <2>1, <2>2, AnswerType DEF TypeOK
  <2>4. QED BY <1>1, <2>2, <2>3 DEF TypeOK
<1>4. ASSUME NEW s \in Sessions, NEW ask \in Ask, CheckLimited(s, ask) PROVE TypeOK'
  <2>1. "PERMISSION_DENIED" \in Verdicts
    BY DEF Verdicts
  <2>2. /\ Answer(s, "PERMISSION_DENIED") /\ UNCHANGED <<now, when, admitted>>
        /\ history' = [history EXCEPT ![s] = Recent(s)]
    BY <1>4 DEF CheckLimited
  <2>3. last' \in [session: Sessions, at: 0 .. MaxTime, verdict: Verdicts]
    BY <1>1, <2>1, <2>2, AnswerType DEF TypeOK
  <2>4. history' \in [Sessions -> SUBSET Calls]
    BY <1>1, <2>2 DEF TypeOK, Recent
  <2>5. QED BY <1>1, <2>2, <2>3, <2>4 DEF TypeOK
<1>5. ASSUME NEW s \in Sessions, NEW ask \in Ask, NEW c \in Calls, CheckAdmitted(s, c, ask)
      PROVE  TypeOK'
  <2>1. Judge(ask) \in Verdicts
    BY JudgeType
  <2>2. /\ Answer(s, Judge(ask)) /\ UNCHANGED now
        /\ when' = [when EXCEPT ![c] = now]
        /\ history' = [history EXCEPT ![s] = Recent(s) \cup {c}]
        /\ admitted' = [admitted EXCEPT ![s] = @ \cup {c}]
    BY <1>5 DEF CheckAdmitted
  <2>3. last' \in [session: Sessions, at: 0 .. MaxTime, verdict: Verdicts]
    BY <1>1, <2>1, <2>2, AnswerType DEF TypeOK
  <2>4. /\ history' \in [Sessions -> SUBSET Calls]
        /\ admitted' \in [Sessions -> SUBSET Calls]
    BY <1>1, <2>2 DEF TypeOK, Recent
  <2>5. when' \in [Calls -> 0 .. MaxTime] /\ now' \in 0 .. MaxTime
    BY <1>1, <2>2 DEF TypeOK
  <2>6. QED BY <2>3, <2>4, <2>5 DEF TypeOK
<1>6. CASE UNCHANGED vars
  BY <1>1, <1>6 DEF TypeOK, vars
<1>7. QED BY <1>1, <1>2, <1>3, <1>4, <1>5, <1>6 DEF Next, Check

\* The policy engine's state and answers are what their types say.
THEOREM TypeCorrect == Spec => []TypeOK
  BY InitTyped, NextTyped, PTL DEF Spec

-----------------------------------------------------------------------------
LEMMA InitHistory == Init => \A s \in Sessions : HistoryOf(s)
  BY FS_EmptySet DEF Init, HistoryOf

\* Pruning keeps all that may count, and a new call is the latest of all.
LEMMA NextHistory ==
  ASSUME TypeOK, \A s \in Sessions : HistoryOf(s), [Next]_vars
  PROVE  \A s \in Sessions : HistoryOf(s)'
<1>1. SUFFICES ASSUME NEW q \in Sessions PROVE HistoryOf(q)'
  OBVIOUS
<1>2. HistoryOf(q) /\ now \in Int /\ Second \in Int /\ \A c \in Calls : when[c] \in Int
  BY RateAssumption DEF TypeOK
<1>3. history[q] \subseteq Calls /\ admitted[q] \subseteq Calls
  BY DEF TypeOK
<1>4. CASE Elapse
  BY <1>2, <1>3, <1>4 DEF Elapse, HistoryOf
<1>5. ASSUME NEW s \in Sessions, NEW ask \in Ask, CheckStop(s, ask) PROVE HistoryOf(q)'
  BY <1>2, <1>5 DEF CheckStop, HistoryOf
<1>6. ASSUME NEW s \in Sessions, NEW ask \in Ask, CheckLimited(s, ask) PROVE HistoryOf(q)'
  <2>1. history'[q] = IF q = s THEN Recent(q) ELSE history[q]
    BY <1>6 DEF CheckLimited, TypeOK
  <2>2. UNCHANGED <<now, when, admitted>>
    BY <1>6 DEF CheckLimited
  <2>3. QED BY <1>2, <1>3, <2>1, <2>2 DEF HistoryOf, Recent
<1>7. ASSUME NEW s \in Sessions, NEW ask \in Ask, NEW c \in Calls, CheckAdmitted(s, c, ask)
      PROVE  HistoryOf(q)'
  <2>1. /\ history'[q] = IF q = s THEN Recent(q) \cup {c} ELSE history[q]
        /\ admitted'[q] = IF q = s THEN admitted[q] \cup {c} ELSE admitted[q]
    BY <1>7 DEF CheckAdmitted, TypeOK
  <2>2. now' = now /\ \A d \in Calls : when'[d] = IF d = c THEN now ELSE when[d]
    BY <1>7 DEF CheckAdmitted, TypeOK
  <2>3. c \notin admitted[q]
    BY <1>7 DEF CheckAdmitted, Unused
  <2>4. IsFiniteSet(admitted'[q])
    BY <1>2, <2>1, FS_AddElement DEF HistoryOf
  <2>5. QED BY <1>2, <1>3, <2>1, <2>2, <2>3, <2>4 DEF HistoryOf, Recent
<1>8. CASE UNCHANGED vars
  BY <1>2, <1>8 DEF HistoryOf, vars
<1>9. QED BY <1>4, <1>5, <1>6, <1>7, <1>8 DEF Next, Check

LEMMA Inductive == Spec => []IInv
<1>1. Init => IInv
  BY InitTyped, InitHistory DEF IInv
<1>2. IInv /\ [Next]_vars => IInv'
  BY NextTyped, NextHistory DEF IInv
<1>3. QED BY <1>1, <1>2, PTL DEF Spec

-----------------------------------------------------------------------------
\* In a window that ends now or later, only what pruning leaves counts.
LEMMA WindowIsRecent ==
  ASSUME IInv, NEW s \in Sessions, NEW from \in 0 .. MaxTime, from + Second >= now
  PROVE  Within(s, from, from + Second) \subseteq Recent(s)
<1>1. ASSUME NEW c \in Within(s, from, from + Second) PROVE c \in Recent(s)
  <2>1. c \in admitted[s] /\ c \in Calls /\ from <= when[c]
    BY <1>1 DEF Within, IInv, TypeOK
  <2>2. when[c] \in Int /\ now \in Int /\ Second \in Int /\ from \in Int
    BY <2>1, RateAssumption DEF IInv, TypeOK
  <2>3. when[c] >= now - Second
    BY <2>1, <2>2
  <2>4. c \in history[s]
    BY <2>1, <2>2, <2>3 DEF IInv, HistoryOf
  <2>5. QED BY <2>3, <2>4 DEF Recent
<1>2. QED BY <1>1

LEMMA RecentFinite ==
  ASSUME IInv, NEW s \in Sessions
  PROVE  IsFiniteSet(Recent(s)) /\ Cardinality(Recent(s)) \in Nat
<1>1. IsFiniteSet(Recent(s))
  BY FS_Subset DEF IInv, HistoryOf, Recent
<1>2. QED BY <1>1, FS_CardinalityType

\* An admitted call fits in every window it falls into.
LEMMA AdmittedFits ==
  ASSUME IInv, RateBound, NEW s \in Sessions, NEW c \in Calls, NEW ask \in Ask,
         CheckAdmitted(s, c, ask), NEW q \in Sessions, NEW from \in 0 .. MaxTime
  PROVE  Cardinality(Within(q, from, from + Second)') * RateDen < RateNum + RateDen
<1> DEFINE W == Within(q, from, from + Second)
<1> DEFINE V == Within(q, from, from + Second)'
<1>1. now' = now /\ \A d \in Calls : when'[d] = IF d = c THEN now ELSE when[d]
  BY DEF CheckAdmitted, IInv, TypeOK
<1>2. admitted'[q] = IF q = s THEN admitted[q] \cup {c} ELSE admitted[q]
  BY DEF CheckAdmitted, IInv, TypeOK
<1>3. admitted[q] \subseteq Calls /\ c \notin admitted[q]
  BY DEF CheckAdmitted, Unused, IInv, TypeOK
<1>4. now \in Int /\ Second \in Int /\ from \in Int /\ RateNum \in Int /\ RateDen \in Nat
  BY RateAssumption DEF IInv, TypeOK
<1>5. V \subseteq W \cup {c} /\ (c \in V => q = s /\ now <= from + Second)
  BY <1>1, <1>2, <1>3, <1>4 DEF Within
<1>6. CASE c \notin V
  <2>1. V = W
    BY <1>1, <1>2, <1>3, <1>6 DEF Within
  <2>2. QED BY <2>1 DEF RateBound
<1>7. CASE c \in V
  <2>1. q = s /\ from + Second >= now
    BY <1>4, <1>5, <1>7
  <2>2. V \subseteq Recent(s) \cup {c}
    BY <1>5, <2>1, WindowIsRecent
  <2>3. IsFiniteSet(Recent(s)) /\ Cardinality(Recent(s)) \in Nat
    BY RecentFinite
  <2>4. IsFiniteSet(Recent(s) \cup {c}) /\ Cardinality(Recent(s) \cup {c}) <= Cardinality(Recent(s)) + 1
    <3> DEFINE R == Recent(s)
    <3>1. IsFiniteSet(R \cup {c}) /\ Cardinality(R \cup {c}) \in {Cardinality(R), Cardinality(R) + 1}
      <4> HIDE DEF R
      <4>1. IsFiniteSet(R)
        BY <2>3 DEF R
      <4>2. QED BY <4>1, FS_AddElement, Zenon
    <3> HIDE DEF R
    <3>2. Cardinality(R) \in Nat
      BY <2>3 DEF R
    <3>3. QED BY <3>1, <3>2 DEF R
  <2>5. IsFiniteSet(V) /\ Cardinality(V) <= Cardinality(Recent(s) \cup {c})
    BY <2>2, <2>4, FS_Subset
  <2>6. Cardinality(V) \in Nat /\ Cardinality(Recent(s) \cup {c}) \in Nat
    BY <2>4, <2>5, FS_CardinalityType
  <2>7. ~(Cardinality(Recent(s)) * RateDen >= RateNum)
    BY DEF CheckAdmitted, Full
  <2> HIDE DEF V
  <2>8. \A n \in Nat, m \in Nat : m <= n + 1 /\ ~(n * RateDen >= RateNum)
            => m * RateDen < RateNum + RateDen
    <3>1. SUFFICES ASSUME NEW n \in Nat, NEW m \in Nat, m <= n + 1, n * RateDen < RateNum
                   PROVE  m * RateDen < RateNum + RateDen
      BY <1>4
    <3>2. m * RateDen <= (n + 1) * RateDen
      BY <1>4, <3>1
    <3>3. (n + 1) * RateDen = n * RateDen + RateDen
      BY <1>4
    <3>4. m * RateDen \in Int /\ n * RateDen \in Int
      BY <1>4
    <3>5. QED BY <1>4, <3>1, <3>2, <3>3, <3>4
  <2>9. Cardinality(V) <= Cardinality(Recent(s)) + 1
    BY <2>3, <2>4, <2>5, <2>6
  <2>10. QED BY <2>3, <2>6, <2>7, <2>8, <2>9 DEF V
<1>8. QED BY <1>6, <1>7

\* No window of a second, wherever it begins, holds more commands of a session
\* than the rate allows.
THEOREM RateHolds == Spec => []RateBound
<1>1. Init => RateBound
  <2>1. SUFFICES ASSUME Init, NEW s \in Sessions, NEW from \in 0 .. MaxTime
                 PROVE  Cardinality(Within(s, from, from + Second)) * RateDen < RateNum + RateDen
    BY DEF RateBound
  <2>2. Within(s, from, from + Second) = {}
    BY <2>1 DEF Init, Within
  <2>3. QED BY <2>2, FS_EmptySet, RateAssumption
<1>2. IInv /\ RateBound /\ [Next]_vars => RateBound'
  <2>1. SUFFICES ASSUME IInv, RateBound, [Next]_vars PROVE RateBound'
    OBVIOUS
  <2>2. CASE UNCHANGED <<when, admitted>>
    BY <2>1, <2>2 DEF RateBound, Within
  <2>3. ASSUME NEW s \in Sessions, NEW ask \in Ask, NEW c \in Calls, CheckAdmitted(s, c, ask)
        PROVE  RateBound'
    BY <2>1, <2>3, AdmittedFits DEF RateBound
  <2>4. QED BY <2>1, <2>2, <2>3 DEF Next, Check, Elapse, CheckStop, CheckLimited, vars
<1>3. QED BY <1>1, <1>2, Inductive, PTL DEF Spec

-----------------------------------------------------------------------------
\* A denial by the rate limit is always the session's own doing.
THEOREM DenialFair == Spec => []FairDenial
<1>1. Init => FairDenial
  BY DEF Init, FairDenial, NoAnswer
<1>2. IInv /\ FairDenial /\ [Next]_vars => FairDenial'
  <2>1. SUFFICES ASSUME IInv, FairDenial, [Next]_vars PROVE FairDenial'
    OBVIOUS
  <2>2. CASE UNCHANGED <<when, admitted, last>>
    BY <2>1, <2>2 DEF FairDenial, Within
  <2>3. ASSUME NEW s \in Sessions, NEW ask \in Ask, CheckStop(s, ask) PROVE FairDenial'
    BY <2>3 DEF CheckStop, Answer, FairDenial
  <2>4. ASSUME NEW s \in Sessions, NEW ask \in Ask, NEW c \in Calls, CheckAdmitted(s, c, ask)
        PROVE  FairDenial'
    BY <2>4, JudgeType DEF CheckAdmitted, Answer, FairDenial
  <2>5. ASSUME NEW s \in Sessions, NEW ask \in Ask, CheckLimited(s, ask) PROVE FairDenial'
    <3>1. /\ last'.session = s /\ last'.at = now
          /\ UNCHANGED <<when, admitted>>
          /\ Cardinality(Recent(s)) * RateDen >= RateNum
      BY <2>5 DEF CheckLimited, Answer, Full
    <3> DEFINE W == Within(s, now - Second, now)
    <3>2. Recent(s) \subseteq W
      BY <2>1 DEF IInv, HistoryOf, Recent, Within
    <3>3. IsFiniteSet(W)
      BY <2>1, FS_Subset DEF IInv, HistoryOf, Within
    <3>4. /\ Cardinality(Recent(s)) \in Nat /\ Cardinality(W) \in Nat
          /\ Cardinality(Recent(s)) <= Cardinality(W)
      BY <3>2, <3>3, FS_Subset, FS_CardinalityType
    <3>5. Within(s, now - Second, now)' = Within(s, now' - Second, now')
          /\ now' = now
      BY <2>5, <3>1 DEF CheckLimited, Within
    <3>6. Within(last.session, last.at - Second, last.at)' = W
      BY <2>5, <3>1 DEF CheckLimited, Within
    <3> HIDE DEF W
    <3>7. \A n \in Nat, m \in Nat : n <= m /\ n * RateDen >= RateNum => m * RateDen >= RateNum
      <4>1. SUFFICES ASSUME NEW n \in Nat, NEW m \in Nat, n <= m, n * RateDen >= RateNum
                     PROVE  m * RateDen >= RateNum
        OBVIOUS
      <4>2. RateDen \in Nat /\ RateNum \in Nat
        BY RateAssumption
      <4>3. m * RateDen >= n * RateDen /\ m * RateDen \in Int /\ n * RateDen \in Int
        BY <4>1, <4>2
      <4>4. QED BY <4>1, <4>2, <4>3
    <3>8. QED BY <3>1, <3>4, <3>6, <3>7 DEF FairDenial
  <2>6. QED BY <2>1, <2>2, <2>3, <2>4, <2>5 DEF Next, Check, Elapse, vars
<1>3. QED BY <1>1, <1>2, Inductive, PTL DEF Spec
=============================================================================
