----------------------------- MODULE MCServices -----------------------------
(***************************************************************************)
(* The services around trading that share no state with each other: the    *)
(* event bus, the circuit breaker, the grid's rate limiter, a candle feed, *)
(* the universe of feeds, the protection of a position, the life of the    *)
(* worker, what the API tells of it, and the reconciliation. A behaviour   *)
(* is a behaviour of one of them, chosen in the initial state; the others  *)
(* stand still.                                                            *)
(***************************************************************************)
EXTENDS EventBus, CircuitBreaker, RateLimiter, CandleFeed, FeedUniverse,
        Protection, Worker, WorkerHealth, Reconciliation

VARIABLE part  \* the component whose behaviour it is

Parts == {"bus", "breaker", "limiter", "feed", "universe", "protection",
          "worker", "health", "reconciliation"}

servicesVars ==
  <<part, busVars, breakerVars, limiterVars, feedVars, universeVars,
    protectionVars, workerVars, healthVars, reconciliationVars>>

ServicesInit ==
  /\ part \in Parts
  /\ BusInit
  /\ BreakerInit
  /\ LimiterInit
  /\ FeedInit
  /\ UniverseInit
  /\ ProtectionInit
  /\ WorkerInit
  /\ HealthInit
  /\ ReconciliationInit
  /\ part # "universe" => listed = {}
  /\ part # "health" => switch = "unset"

\* All components but p stand still.
Only(p) ==
  /\ part = p /\ UNCHANGED part
  /\ IF p = "bus" THEN TRUE ELSE UNCHANGED busVars
  /\ IF p = "breaker" THEN TRUE ELSE UNCHANGED breakerVars
  /\ IF p = "limiter" THEN TRUE ELSE UNCHANGED limiterVars
  /\ IF p = "feed" THEN TRUE ELSE UNCHANGED feedVars
  /\ IF p = "universe" THEN TRUE ELSE UNCHANGED universeVars
  /\ IF p = "protection" THEN TRUE ELSE UNCHANGED protectionVars
  /\ IF p = "worker" THEN TRUE ELSE UNCHANGED workerVars
  /\ IF p = "health" THEN TRUE ELSE UNCHANGED healthVars
  /\ IF p = "reconciliation" THEN TRUE ELSE UNCHANGED reconciliationVars

ServicesNext ==
  \/ Only("bus") /\ BusNext
  \/ Only("breaker") /\ BreakerNext
  \/ Only("limiter") /\ LimiterNext
  \/ Only("feed") /\ FeedNext
  \/ Only("universe") /\ UniverseNext
  \/ Only("protection") /\ ProtectionNext
  \/ Only("worker") /\ WorkerNext
  \/ Only("health") /\ HealthNext
  \/ Only("reconciliation") /\ ReconciliationNext

\* The fairness of each component, as its module explains it.
ServicesFairness ==
  /\ WF_busVars(part = "bus" /\ Consume)
  /\ WF_busVars(part = "bus" /\ StartBus)
  /\ WF_breakerVars(part = "breaker" /\ BreakerClock)
  /\ \A c \in Callers : WF_breakerVars(part = "breaker" /\ Call(c))
  /\ \A c \in Callers :
       WF_breakerVars(part = "breaker" /\ (Succeed(c) \/ Fail(c)))
  /\ WF_limiterVars(part = "limiter" /\ LimiterClock)
  /\ \A s \in Submitters :
       WF_limiterVars(part = "limiter" /\ SetExpire(s))
  /\ (<>[](part = "feed" /\ PollDue) => []<><<CalmPoll>>_feedVars)
  /\ WF_feedVars(part = "feed" /\ BanEnds)
  /\ WF_universeVars(part = "universe" /\ Discover(TRUE))
  /\ WF_universeVars(part = "universe" /\ Reconcile)
  /\ WF_universeVars(part = "universe" /\ Launch)
  /\ WF_protectionVars(part = "protection" /\ CheckPositionsOnce)
  /\ WF_protectionVars(part = "protection"
                         /\ (CloseFails \/ \E qty \in {1, 2} : CloseFills(qty)))
  /\ WF_workerVars(part = "worker" /\ StartupNext)
  /\ WF_workerVars(part = "worker" /\ ShutdownNext)
  /\ WF_workerVars(part = "worker"
                   /\ \E kept \in SUBSET Entries : OnKillSwitchEvent(kept))
  /\ WF_healthVars(part = "health" /\ Collect)
  /\ WF_healthVars(part = "health" /\ PublishWorkerHealth)
  /\ WF_healthVars(part = "health" /\ HealthClock)
  /\ WF_reconciliationVars(part = "reconciliation"
       /\ (ReconcileFails
             \/ \E seen \in [Symbols -> -Most..Most] : ReconcileCompleted(seen)))

ServicesSpec ==
  /\ ServicesInit /\ [][ServicesNext]_servicesVars
  /\ ServicesFairness

-----------------------------------------------------------------------------

(* The event bus delivers in order and never takes back the fate of a message
   (KeepsDelivery), acknowledges nothing unhandled, repeats a handler only for
   a failed acknowledgement, and every message comes to its end. *)
BusContract ==
  /\ []BusTypeOK
  /\ []LostIsPendingOrCut
  /\ []HandledPerAttempt
  /\ EveryMessageSettles
  /\ KeepsDelivery

(* A closed breaker has room for a failure, whatever calls come back late, and
   an open one closes once the service works again; the grid's budget of calls
   is kept between two expiries, and comes back. *)
GuardsContract ==
  /\ []BreakerTypeOK
  /\ []ClosedHasRoom
  /\ BreakerRecovers
  /\ []LimiterTypeOK
  /\ []BudgetKept
  /\ BudgetReturns

(* A candle feed has no gap the exchange could have filled, keeps its bars in
   order and announces each of them once, and comes to the newest bar, across
   restarts, bans and failing inserts. The set of feeds and the set of polling
   tasks agree, curated symbols stay polled whatever the exchange lists, and a
   market that stays tradable is polled at last. *)
FeedsContract ==
  /\ []FeedTypeOK
  /\ []NoSilentGap
  /\ []OrderedUnlessRefilled
  /\ []EachBarAnnouncedOnce
  /\ (part = "feed" => FeedCatchesUp)
  /\ []UniverseTypeOK
  /\ []FeedsArePolled
  /\ []CuratedStayPolled
  /\ TradableGetsPolled

(* A position's levels lie around its entry and pay for the trip, it keeps
   them through repricing, partial closes and restarts, and once it is overdue
   it is closed at last. *)
ProtectionContract ==
  /\ []ProtectionTypeOK
  /\ []LevelsBracket
  /\ []OpenedIsProtected
  /\ []RowKnowsLevels
  /\ [][KeepsLevels]_protectionVars
  /\ OverdueCloses

(* A worker that is told to stop goes down and its sweep leaves only what came
   too late; entries are sent on restored books and heed the switch, and a
   liquidation that was asked for is handled and complete. What the API tells
   of a worker is recent, sees it alive and sees it dead. A reconciliation
   comes to its end and is right about every symbol that stands still. *)
OperationsContract ==
  /\ []WorkerTypeOK
  /\ []SweptUnlessLate
  /\ []TradesOnRestoredBooks
  /\ [][EntriesHeedSwitch /\ LiquidationIsComplete]_workerVars
  /\ SignalEnds
  /\ RequestIsHandled
  /\ []HealthTypeOK
  /\ []AliveIsSeen
  /\ [][AdmissionIsRecent]_healthVars
  /\ DeadIsSeen
  /\ WellIsSeen
  /\ []ReconciliationTypeOK
  /\ []CleanIsClean
  /\ StillSymbolsAreRight
  /\ RunsEnd
=============================================================================
