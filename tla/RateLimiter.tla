---------------------------- MODULE RateLimiter -----------------------------
(***************************************************************************)
(* The budget of a grid worker's requests (execution/grid_rate_limiter.py) *)
(* in Redis: INCR of a counter, and EXPIRE by the one that made it 1.  The *)
(* two commands are not one; other tasks of the tenant come in between.    *)
(***************************************************************************)
EXTENDS Naturals

CONSTANTS
  Submitters,     \* tasks that ask for the budget
  MaxCalls,       \* max_calls_per_window
  Window,         \* window_seconds, in steps of the clock
  LimiterFaults,  \* bound on failing Redis commands and dying tasks
  MaxCounter      \* bound on the counter

ASSUME LimiterConstants ==
  /\ Window \in Nat \ {0}
  /\ {MaxCalls, LimiterFaults, MaxCounter} \subseteq Nat

NoExpiry == Window + 1

VARIABLES
  counter,       \* the key's value, 0: no such key
  ttl,           \* time to live of the key, or NoExpiry
  toExpire,      \* tasks that made the counter 1 and have not set EXPIRE yet
  granted,       \* calls allowed since the key last expired
  failOpen,      \* of these, allowed because a command failed
  limiterFaults  \* faults so far

limiterVars == <<counter, ttl, toExpire, granted, failOpen, limiterFaults>>

LimiterInit ==
  /\ counter = 0
  /\ ttl = NoExpiry
  /\ toExpire = {}
  /\ granted = 0
  /\ failOpen = 0
  /\ limiterFaults = 0

LimiterFault ==
  /\ limiterFaults < LimiterFaults
  /\ limiterFaults' = limiterFaults + 1

Grant == granted' = granted + 1

\* Deviation: the budget is compared before this call counts.
Within_Deviation(n) == n <= MaxCalls + 1

\* Does the n-th call of the window fit into the budget?
Within(n) == n <= MaxCalls

\* Deviation: the value before INCR is looked at.
SetsExpiry_Deviation(n) == n = 0

\* Is it up to the n-th call of the window to set its end?
SetsExpiry(n) == n = 1

\* INCR: whoever made it 1 goes on to EXPIRE, the others have their answer.
Acquire(p) ==
  /\ p \notin toExpire
  /\ counter < MaxCounter
  /\ counter' = counter + 1
  /\ IF SetsExpiry(counter')
     THEN toExpire' = toExpire \cup {p} /\ UNCHANGED granted
     ELSE /\ IF Within(counter') THEN Grant ELSE UNCHANGED granted
          /\ UNCHANGED toExpire
  /\ UNCHANGED <<ttl, failOpen, limiterFaults>>

\* INCR fails: the call is allowed.
AcquireFails(p) ==
  /\ p \notin toExpire
  /\ LimiterFault
  /\ Grant
  /\ failOpen' = failOpen + 1
  /\ UNCHANGED <<counter, ttl, toExpire>>

\* EXPIRE, without effect on a key that is gone; then the answer, which a
\* budget without any calls refuses to the first one too.
SetExpire(p) ==
  /\ p \in toExpire
  /\ toExpire' = toExpire \ {p}
  /\ ttl' = IF counter > 0 THEN Window ELSE ttl
  /\ IF Within(1) THEN Grant ELSE UNCHANGED granted
  /\ UNCHANGED <<counter, failOpen, limiterFaults>>

\* EXPIRE fails, and the call is allowed; or the task dies here.
ExpireFails(p) ==
  /\ p \in toExpire
  /\ LimiterFault
  /\ toExpire' = toExpire \ {p}
  /\ \/ Grant /\ failOpen' = failOpen + 1
     \/ UNCHANGED <<granted, failOpen>>
  /\ UNCHANGED <<counter, ttl>>

\* Redis' clock: a key that has a time to live runs out.
LimiterClock ==
  /\ ttl # NoExpiry
  /\ IF ttl > 1 THEN ttl' = ttl - 1 /\ UNCHANGED <<counter, granted, failOpen>>
     ELSE /\ ttl' = NoExpiry
          /\ counter' = 0
          /\ granted' = 0
          /\ failOpen' = 0
  /\ UNCHANGED <<toExpire, limiterFaults>>

LimiterNext ==
  \/ \E p \in Submitters :
       Acquire(p) \/ AcquireFails(p) \/ SetExpire(p) \/ ExpireFails(p)
  \/ LimiterClock

LimiterFairness ==
  /\ WF_limiterVars(LimiterClock)
  /\ \A p \in Submitters : WF_limiterVars(SetExpire(p))

LimiterSpec == LimiterInit /\ [][LimiterNext]_limiterVars

-----------------------------------------------------------------------------
LimiterTypeOK ==
  /\ counter \in 0..MaxCounter
  /\ ttl \in 1..NoExpiry
  /\ toExpire \subseteq Submitters
  /\ granted \in Nat /\ failOpen \in 0..LimiterFaults
  /\ limiterFaults \in 0..LimiterFaults

(* Between two expiries no more calls are allowed than the budget has, but
   for those let through because Redis failed. *)
BudgetKept == granted <= MaxCalls + failOpen

(* A spent budget comes back at the end of the window.  A lost EXPIRE is the
   exception: that key never runs out. *)
BudgetReturns == counter > MaxCalls ~> (counter = 0 \/ limiterFaults > 0)
=============================================================================
