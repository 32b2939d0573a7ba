----------------------------- MODULE SafetyPolicy ------------------------------
(***************************************************************************)
(* DefaultSafetyPolicyEngine.check                                         *)
(* (src/src/ros_mcp/safety/policy_engine.py), one call after another: it   *)
(* awaits nothing, so a call is one step.  The rate limit is the part with *)
(* a memory.  Time is counted in ticks, Second of them make the window;    *)
(* the limit is the fraction RateNum / RateDen, since rate_limit_rps may be *)
(* any positive float.  The configuration never changes: nobody calls       *)
(* ConfigProvider.reload().                                                *)
(***************************************************************************)
EXTENDS Integers, FiniteSets

CONSTANTS Calls,            \* the calls of check() considered
          Sessions,         \* session ids
          RateNum, RateDen, \* rate_limit_rps
          Second,           \* the ticks of one second
          MaxTime,          \* bound on the clock
          Lengths,          \* distances a command may have
          MaxMove,          \* max_move_distance_m
          MaxNavigation,    \* max_navigation_distance_m
          FenceEnabled,     \* geofence.enabled
          ApprovalPolicy,   \* approval_policy
          ApprovalAbove     \* human_approval.required_above_distance_m

ASSUME RateAssumption == /\ RateNum \in Nat \ {0} /\ RateDen \in Nat \ {0}
                         /\ Second \in Nat \ {0} /\ MaxTime \in Nat
ASSUME PolicyAssumption == /\ Lengths \subseteq Nat
                           /\ MaxMove \in Nat /\ MaxNavigation \in Nat /\ ApprovalAbove \in Nat
                           /\ FenceEnabled \in BOOLEAN
                           /\ ApprovalPolicy \in {"automatic", "policy_based", "always_human"}

VARIABLES
  now,      \* time.monotonic()
  when,     \* the time of each call
  history,  \* _rate_limit_history[session], the calls instead of their times
  admitted, \* history: every call that ever passed the rate limit
  last      \* history: the latest call and how it was answered

vars == <<now, when, history, admitted, last>>

\* What a call asks: located says the current pose is known, inside that the
\* robot ends up within the geofence.
Operations == {"STOP", "ROTATE", "MOVE", "NAVIGATE"}
Ask == [op: Operations, distance: Lengths, located: BOOLEAN, inside: BOOLEAN]

\* A verdict other than ALLOW and REQUIRE_APPROVAL is the error of a DENY.
Verdicts == {"ALLOW", "REQUIRE_APPROVAL", "PERMISSION_DENIED", "SAFETY_REJECTED",
             "ROBOT_NOT_READY"}
NoAnswer == [verdict |-> "none"]

Unused(c) == \A s \in Sessions : c \notin admitted[s]

\* The one type invariant of the module.
TypeOK ==
  /\ now \in 0 .. MaxTime
  /\ when \in [Calls -> 0 .. MaxTime]
  /\ history \in [Sessions -> SUBSET Calls]
  /\ admitted \in [Sessions -> SUBSET Calls]
  /\ last \in [session: Sessions, at: 0 .. MaxTime, verdict: Verdicts] \cup {NoAnswer}

Init ==
  /\ now = 0
  /\ when = [c \in Calls |-> 0]
  /\ history = [s \in Sessions |-> {}]
  /\ admitted = [s \in Sessions |-> {}]
  /\ last = NoAnswer

-----------------------------------------------------------------------------
(* Checks 3, 4 and 6: what the command itself is answered.                 *)

TooFar(ask) == \/ ask.op = "MOVE" /\ ask.distance > MaxMove
               \/ ask.op = "NAVIGATE" /\ ask.distance > MaxNavigation

\* The endpoint is known: a NAVIGATE names it, the others need the pose.
Predicted(ask) == ask.op = "NAVIGATE" \/ ask.located

OutsideFence(ask) == FenceEnabled /\ Predicted(ask) /\ ~ask.inside

\* _check_hitl: a rotation has no distance.
NeedsApproval(ask) ==
  \/ ApprovalPolicy = "always_human"
  \/ /\ ApprovalPolicy = "policy_based"
     /\ ask.op # "ROTATE" /\ ask.distance > ApprovalAbove

\* Mutant: an unknown pose is reported as the caller's mistake.
JudgeBlamesCaller(ask) ==
  CASE ask.op = "NAVIGATE" /\ ~ask.located -> "INVALID_ARGUMENT"
    [] ask.op \in {"MOVE", "NAVIGATE"} /\ TooFar(ask) -> "SAFETY_REJECTED"
    [] OTHER -> "ALLOW"

Judge(ask) ==
  CASE ask.op = "NAVIGATE" /\ ~ask.located -> "ROBOT_NOT_READY"
    [] ask.op = "NAVIGATE" /\ ask.located /\ TooFar(ask) -> "SAFETY_REJECTED"
    [] ask.op = "MOVE" /\ TooFar(ask) -> "SAFETY_REJECTED"
    [] OTHER -> IF OutsideFence(ask) THEN "SAFETY_REJECTED"
                ELSE IF NeedsApproval(ask) THEN "REQUIRE_APPROVAL" ELSE "ALLOW"

-----------------------------------------------------------------------------
(* Check 1: the rate limit.                                                *)

\* Mutant: what is exactly one second old does not count any more.
RecentOpen(s) == {c \in history[s] : when[c] > now - Second}

\* Mutant: nothing is ever dropped.
RecentForever(s) == history[s]

\* What is left of the history of s once it is pruned.
Recent(s) == {c \in history[s] : when[c] >= now - Second}

Full(s) == Cardinality(Recent(s)) * RateDen >= RateNum

Answer(s, verdict) ==
  last' = [session |-> s, at |-> now, verdict |-> verdict]

\* robot.stop is allowed before anything is looked at.
CheckStop(s, ask) ==
  /\ ask.op = "STOP"
  /\ Answer(s, "ALLOW")
  /\ UNCHANGED <<now, when, history, admitted>>

\* Too many commands of the session in the last second.
CheckLimited(s, ask) ==
  /\ ask.op # "STOP" /\ Full(s)
  /\ history' = [history EXCEPT ![s] = Recent(s)]
  /\ Answer(s, "PERMISSION_DENIED")
  /\ UNCHANGED <<now, when, admitted>>

\* The call takes its place in the window whatever it is answered then.
CheckAdmitted(s, c, ask) ==
  /\ ask.op # "STOP" /\ ~Full(s)
  /\ Unused(c)
  /\ when' = [when EXCEPT ![c] = now]
  /\ history' = [history EXCEPT ![s] = Recent(s) \cup {c}]
  /\ admitted' = [admitted EXCEPT ![s] = @ \cup {c}]
  /\ Answer(s, Judge(ask))
  /\ UNCHANGED now

\* External: the clock goes on.
Elapse ==
  /\ now < MaxTime
  /\ now' = now + 1
  /\ UNCHANGED <<when, history, admitted, last>>

Check(s, ask) == \/ CheckStop(s, ask) \/ CheckLimited(s, ask)
                 \/ \E c \in Calls : CheckAdmitted(s, c, ask)

Next == Elapse \/ \E s \in Sessions, ask \in Ask : Check(s, ask)

Spec == Init /\ [][Next]_vars

-----------------------------------------------------------------------------
(* Properties.                                                             *)

Within(s, from, to) == {c \in admitted[s] : from <= when[c] /\ when[c] <= to}

\* In no second, wherever it begins, does the limit let more commands of a
\* session through than the configured rate rounded up: pruning when a command
\* arrives never forgets one that still counts, bursts across two seconds
\* included.
RateBound ==
  \A s \in Sessions, from \in 0 .. MaxTime :
    Cardinality(Within(s, from, from + Second)) * RateDen < RateNum + RateDen

\* A command is turned away by the rate limit only if commands of its own
\* session used up the second before it: neither another session nor anything
\* older, nor a STOP or a command that was turned away, counts against it.
FairDenial ==
  last.verdict = "PERMISSION_DENIED" =>
    Cardinality(Within(last.session, last.at - Second, last.at)) * RateDen >= RateNum
=============================================================================
