--------------------------- MODULE CircuitBreaker ---------------------------
(***************************************************************************)
(* The circuit breaker of core/resilience.py.  Several coroutines share it *)
(* and await the protected function at the same time; every change of its  *)
(* state is made before or after that await.                               *)
(***************************************************************************)
EXTENDS Naturals

CONSTANTS
  Callers,           \* coroutines that use the breaker
  FailureThreshold,
  SuccessThreshold,
  RecoveryTimeout,   \* in steps of the clock
  ServiceFailures    \* bound on failing calls

ASSUME BreakerConstants ==
  /\ {FailureThreshold, SuccessThreshold} \subseteq Nat \ {0}
  /\ {RecoveryTimeout, ServiceFailures} \subseteq Nat

VARIABLES
  breaker,       \* closed, open or half_open
  failureCount,
  successCount,
  elapsed,       \* time since the last failure, up to RecoveryTimeout
  inCall,        \* callers that await the function
  serviceFailed  \* calls that failed so far

breakerVars == <<breaker, failureCount, successCount, elapsed, inCall,
                 serviceFailed>>

BreakerInit ==
  /\ breaker = "closed"
  /\ failureCount = 0
  /\ successCount = 0
  /\ elapsed = 0
  /\ inCall = {}
  /\ serviceFailed = 0

\* Deviation: one probe only, whatever it takes to close.
Admits_Deviation ==
  breaker = "closed" \/ (breaker = "open" /\ elapsed = RecoveryTimeout)

\* Is a call let through?
Admits == (breaker = "open") => elapsed = RecoveryTimeout

\* A call that is let through; an open breaker rejects it until the timeout
\* has elapsed, then it is the first probe.
Call(c) ==
  /\ c \notin inCall
  /\ Admits
  /\ inCall' = inCall \cup {c}
  /\ breaker' = IF breaker = "open" THEN "half_open" ELSE breaker
  /\ successCount' = IF breaker = "open" THEN 0 ELSE successCount
  /\ UNCHANGED <<failureCount, elapsed, serviceFailed>>

\* Deviation: the successes that closed the breaker leave its failures.
Reset_Deviation ==
  /\ breaker' = "closed"
  /\ successCount' = 0
  /\ UNCHANGED failureCount

Reset ==
  /\ breaker' = "closed"
  /\ failureCount' = 0
  /\ successCount' = 0

\* Deviation: one success more than the threshold is wanted.
Proven_Deviation == successCount >= SuccessThreshold

\* Is this success the last one needed?
Proven == successCount + 1 >= SuccessThreshold

\* The call returns.  Whoever it was, and whenever it started: a success in
\* HALF_OPEN counts as a probe.
Succeed(c) ==
  /\ c \in inCall
  /\ inCall' = inCall \ {c}
  /\ IF breaker = "half_open" /\ Proven THEN Reset
     ELSE /\ successCount' = successCount +
               (IF breaker = "half_open" THEN 1 ELSE 0)
          /\ UNCHANGED <<breaker, failureCount>>
  /\ UNCHANGED <<elapsed, serviceFailed>>

\* The call raises.
Fail(c) ==
  /\ c \in inCall
  /\ serviceFailed < ServiceFailures
  /\ serviceFailed' = serviceFailed + 1
  /\ inCall' = inCall \ {c}
  /\ failureCount' = failureCount + 1
  /\ elapsed' = 0
  /\ breaker' = IF breaker = "half_open" \/ failureCount' >= FailureThreshold
                THEN "open" ELSE breaker
  /\ UNCHANGED successCount

BreakerClock ==
  /\ elapsed < RecoveryTimeout
  /\ elapsed' = elapsed + 1
  /\ UNCHANGED <<breaker, failureCount, successCount, inCall, serviceFailed>>

BreakerNext ==
  \/ \E c \in Callers : Call(c) \/ Succeed(c) \/ Fail(c)
  \/ BreakerClock

\* Time passes, calls are made and come back.
BreakerFairness ==
  /\ WF_breakerVars(BreakerClock)
  /\ \A c \in Callers : WF_breakerVars(Call(c))
  /\ \A c \in Callers : WF_breakerVars(Succeed(c) \/ Fail(c))

BreakerSpec == BreakerInit /\ [][BreakerNext]_breakerVars

-----------------------------------------------------------------------------
BreakerTypeOK ==
  /\ breaker \in {"closed", "open", "half_open"}
  /\ failureCount \in 0..ServiceFailures
  /\ successCount \in 0..SuccessThreshold - 1
  /\ elapsed \in 0..RecoveryTimeout
  /\ inCall \subseteq Callers
  /\ serviceFailed \in 0..ServiceFailures

(* A closed breaker has room for a failure: calls that come back late, from
   before it opened, never leave it closed with its threshold reached. *)
ClosedHasRoom == breaker = "closed" => failureCount < FailureThreshold

(* With a service that works again (the failures are bounded) and callers
   that go on, an open breaker closes: late failures only delay it. *)
BreakerRecovers == breaker = "open" ~> breaker = "closed"
=============================================================================
