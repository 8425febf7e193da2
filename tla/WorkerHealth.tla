---------------------------- MODULE WorkerHealth -----------------------------
(***************************************************************************)
(* What the API tells of a worker it does not run: the worker's monitoring *)
(* publishes its health into Redis with a time to live                     *)
(* (sgr/monitoring/engine.py, worker_health.py), and GET /health/trading   *)
(* makes of it, and of the key of the kill switch, whether orders are      *)
(* admitted (sgr/api/routers/health.py). Time is counted in intervals of   *)
(* the monitoring.                                                         *)
(***************************************************************************)
EXTENDS Integers

CONSTANTS
  HealthTtl,     \* _HEALTH_TTL_SECONDS, in intervals
  HealthFaults,  \* bound on publishes that fail
  HealthEvents   \* bound on what happens to worker, exchange and switch

ASSUME HealthAssumption ==
  HealthTtl \in Nat \ {0} /\ {HealthFaults, HealthEvents} \subseteq Nat

VARIABLES
  monitored,  \* the worker's monitoring runs
  fed,        \* the market data engine says it runs
  reachable,  \* the exchange answers
  due,        \* this interval's collection is still to be made
  pinged,     \* what the ping of this collection said
  health,     \* the key in Redis
  switch,     \* the key of the kill switch: unset, off, on
  inquiry,    \* what a request for the trading health has read so far
  answer,     \* the last answer, until the next request
  fedAgo, reachedAgo,  \* history: intervals since it was so
  misses,     \* history: publishes that failed in a row
  shown,      \* history: this worker has published
  healthFaults, healthEvents

healthVars ==
  <<monitored, fed, reachable, due, pinged, health, switch, inquiry, answer,
    fedAgo, reachedAgo, misses, shown, healthFaults, healthEvents>>

monitorVars == <<monitored, fed, due, pinged, misses, shown>>

requestVars == <<inquiry, answer>>

historyVars == <<fedAgo, reachedAgo>>

NoHealth == [ttl |-> 0]

NotAdmitted(why) == [admitted |-> FALSE, reason |-> why]

HealthInit ==
  /\ monitored = FALSE /\ fed = FALSE /\ reachable = TRUE
  /\ due = FALSE /\ pinged = "no" /\ health = NoHealth
  /\ switch \in {"unset", "off"}
  /\ inquiry = "none" /\ answer = NotAdmitted("none")
  /\ fedAgo = HealthTtl + 1 /\ reachedAgo = 0
  /\ misses = 0 /\ shown = FALSE
  /\ healthFaults = 0 /\ healthEvents = 0

Happens == healthEvents < HealthEvents /\ healthEvents' = healthEvents + 1

-----------------------------------------------------------------------------
(* The worker.                                                               *)

\* Monitoring starts with a collection; the feed was started before, if there
\* is an exchange.
StartMonitoring(feeding) ==
  /\ ~monitored /\ Happens
  /\ monitored' = TRUE /\ due' = TRUE /\ pinged' = "no"
  /\ fed' = feeding /\ misses' = 0 /\ shown' = FALSE
  /\ fedAgo' = IF feeding THEN 0 ELSE fedAgo
  /\ UNCHANGED <<reachable, health, switch, requestVars, reachedAgo,
                 healthFaults>>

\* The worker stops or dies: nothing takes the health back.
StopMonitoring ==
  /\ monitored /\ monitored' = FALSE
  /\ due' = FALSE /\ pinged' = "no" /\ fed' = FALSE
  /\ misses' = 0 /\ shown' = FALSE
  /\ UNCHANGED <<reachable, health, switch, requestVars, historyVars,
                 healthFaults, healthEvents>>

\* A collection: the metrics, each of which may fail without harm, and then
\* the ping.
Collect ==
  /\ due /\ pinged = "no"
  /\ pinged' = IF reachable THEN "answered" ELSE "failed"
  /\ UNCHANGED <<monitored, fed, reachable, due, health, switch, requestVars,
                 historyVars, misses, shown, healthFaults, healthEvents>>

\* An interval off the time to live.
Expired(h) == IF h.ttl <= 1 THEN NoHealth ELSE [h EXCEPT !.ttl = @ - 1]

\* The health is written with its time to live, or that fails and is logged.
PublishWorkerHealth ==
  /\ pinged # "no" /\ pinged' = "no" /\ due' = FALSE
  /\ \/ /\ health' = [ttl |-> HealthTtl, exchange |-> pinged = "answered",
                      feed |-> fed]
        /\ shown' = TRUE /\ misses' = 0
        /\ UNCHANGED healthFaults
     \/ /\ healthFaults < HealthFaults /\ healthFaults' = healthFaults + 1
        /\ misses' = misses + 1
        /\ UNCHANGED <<health, shown>>
  /\ UNCHANGED <<monitored, fed, reachable, switch, requestVars, historyVars,
                 healthEvents>>

\* An interval passes; a collection does not take longer than that.
Aged(ago, now) ==
  IF now THEN 0 ELSE IF ago > HealthTtl THEN ago ELSE ago + 1

HealthClock ==
  /\ ~due /\ due' = monitored
  /\ health' = Expired(health)
  /\ fedAgo' = Aged(fedAgo, fed)
  /\ reachedAgo' = Aged(reachedAgo, reachable)
  /\ UNCHANGED <<monitored, fed, reachable, pinged, switch, requestVars,
                 misses, shown, healthFaults, healthEvents>>

-----------------------------------------------------------------------------
(* The world around it.                                                      *)

ExchangeChanges ==
  /\ Happens /\ reachable' = ~reachable
  /\ reachedAgo' = IF reachable' THEN 0 ELSE reachedAgo
  /\ UNCHANGED <<monitorVars, health, switch, requestVars, fedAgo,
                 healthFaults>>

\* The key of the switch is only written when it is triggered or reset.
SwitchChanges ==
  /\ Happens /\ switch' = IF switch = "on" THEN "off" ELSE "on"
  /\ UNCHANGED <<monitorVars, reachable, health, requestVars, historyVars,
                 healthFaults>>

-----------------------------------------------------------------------------
(* The API.                                                                  *)

IsHealthy(h) == h # NoHealth /\ h.exchange /\ h.feed

\* The recovery of the worker is taken to be complete, whatever came of it.
Admission(h, key) ==
  IF ~IsHealthy(h) THEN NotAdmitted("system_unhealthy")
  ELSE IF key = "unset" THEN NotAdmitted("kill_switch_unknown")
  ELSE IF key = "on" THEN NotAdmitted("kill_switch")
  ELSE [admitted |-> TRUE, reason |-> "none"]

\* A request reads the switch first; a read that fails reads as unset.
ReadKillSwitchState ==
  /\ inquiry = "none" /\ inquiry' \in {switch, "unset"}
  /\ answer' = NotAdmitted("none")
  /\ UNCHANGED <<monitorVars, reachable, health, switch, historyVars,
                 healthFaults, healthEvents>>

\* Then the health, which may fail as well, and answers.
HealthTrading ==
  /\ inquiry # "none" /\ inquiry' = "none"
  /\ \E h \in {health, NoHealth} : answer' = Admission(h, inquiry)
  /\ UNCHANGED <<monitorVars, reachable, health, switch, historyVars,
                 healthFaults, healthEvents>>

HealthNext ==
  \/ \E feeding \in BOOLEAN : StartMonitoring(feeding)
  \/ StopMonitoring
  \/ Collect
  \/ PublishWorkerHealth
  \/ HealthClock
  \/ ExchangeChanges
  \/ SwitchChanges
  \/ ReadKillSwitchState
  \/ HealthTrading

HealthTypeOK ==
  /\ health = NoHealth \/ health \in
       [ttl : 1..HealthTtl, exchange : BOOLEAN, feed : BOOLEAN]
  /\ switch \in {"unset", "off", "on"}
  /\ inquiry \in {"none", "unset", "off", "on"}
  /\ healthFaults \in 0..HealthFaults /\ healthEvents \in 0..HealthEvents

-----------------------------------------------------------------------------

(* Orders are only admitted on news that are no older than the time to live:
   within it the feed of a worker ran and the exchange answered it, whatever
   became of both since. *)
AdmissionIsRecent ==
  (answer' # answer /\ answer'.admitted) =>
    fedAgo <= HealthTtl /\ reachedAgo <= HealthTtl

(* The health of a worker that runs is there to be read from its first publish
   on, as long as fewer publishes in a row fail than the time to live lasts. *)
AliveIsSeen ==
  (monitored /\ shown /\ misses + 1 < HealthTtl) => health # NoHealth

(* Once the worker is gone for good, no request that follows is admitted. *)
DeadIsSeen == <>[](~monitored) => <>[](~IsHealthy(health))

(* Once worker, feed and exchange stay well, the health says so for good, and
   orders are admitted if the switch has been written at all. *)
WellIsSeen ==
  <>[](monitored /\ fed /\ reachable /\ switch = "off") =>
    <>[](Admission(health, switch).admitted)

\* The loop of the monitoring goes on whatever a collection raises, and time
\* passes.
HealthFairness ==
  /\ WF_healthVars(Collect)
  /\ WF_healthVars(PublishWorkerHealth)
  /\ WF_healthVars(HealthClock)

HealthSpec == HealthInit /\ [][HealthNext]_healthVars /\ HealthFairness
=============================================================================
