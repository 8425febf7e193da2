---------------------------- MODULE FeedUniverse ----------------------------
(***************************************************************************)
(* Which symbols are polled: AssetUniverseEngine (market_data/             *)
(* asset_universe.py) looks at the exchange's markets again and again, and *)
(* its callback in api/main.py brings the feeds of MarketDataEngine in     *)
(* line.  The callback is a task of its own: it starts feeds after an      *)
(* await, with the engine's stop in between.                               *)
(***************************************************************************)
EXTENDS Naturals, FiniteSets

CONSTANTS
  Markets,      \* symbols the exchange may list
  Curated,      \* LIVE_MARKET_DATA_SYMBOLS, the safety net
  HasBinance,   \* does the worker's pool hold a Binance adapter?
  MaxListings,  \* bound on changes of the exchange's list
  MarketFaults  \* bound on failing discoveries and failing callbacks

ASSUME UniverseConstants ==
  /\ Curated \subseteq Markets
  /\ HasBinance \in BOOLEAN
  /\ {MaxListings, MarketFaults} \subseteq Nat

VARIABLES
  engine,       \* "down", "up", "stopping": the universe engine has stopped
  listed,       \* markets that are tradable at the exchange
  feeds,        \* keys of _feeds
  pollers,      \* keys of _tasks
  target,       \* the set a callback task is to establish, or NoTarget
  starting,     \* feeds that a reconciliation initializes right now
  listings,     \* changes of the list so far
  marketFaults  \* faults so far

universeVars == <<engine, listed, feeds, pollers, target, starting, listings,
                  marketFaults>>

NoTarget == {"none"}

UniverseInit ==
  /\ engine = "down"
  /\ listed \in SUBSET Markets
  /\ feeds = {} /\ pollers = {}
  /\ target = NoTarget
  /\ starting = {}
  /\ listings = 0
  /\ marketFaults = 0

MarketFault ==
  /\ marketFaults < MarketFaults
  /\ marketFaults' = marketFaults + 1

\* The lifespan subscribes the curated symbols and starts their tasks.
StartFeeds ==
  /\ engine = "down"
  /\ engine' = "up"
  /\ feeds' = Curated
  /\ pollers' = Curated
  /\ UNCHANGED <<listed, target, starting, listings, marketFaults>>

\* A market appears, disappears, or loses what makes it tradable.
List(s) ==
  /\ listings < MaxListings
  /\ listings' = listings + 1
  /\ listed' = IF s \in listed THEN listed \ {s} ELSE listed \cup {s}
  /\ UNCHANGED <<engine, feeds, pollers, target, starting, marketFaults>>

\* Deviation: what is discovered is displayed but not subscribed to.
Subscribed_Deviation(found) == IF HasBinance THEN Curated ELSE {}

\* What a discovery that found these markets wants to see polled.
Subscribed(found) == IF HasBinance THEN found \cup Curated ELSE {}

\* _run_once: the markets, or none if the exchange fails; the callback
\* follows as a task.  The interval is longer than a callback takes.
Discover(ok) ==
  /\ engine = "up"
  /\ target = NoTarget /\ starting = {}
  /\ IF ok THEN UNCHANGED marketFaults ELSE MarketFault
  /\ target' = Subscribed(IF ok THEN listed ELSE {})
  /\ UNCHANGED <<engine, listed, feeds, pollers, starting, listings>>

\* Tasks of feeds that are no longer wanted are cancelled.
Remaining(wanted) == pollers \cap wanted

\* reconcile_subscriptions up to its await: feeds go and come.
Reconcile ==
  /\ target # NoTarget
  /\ feeds' = target
  /\ pollers' = Remaining(target)
  /\ starting' = target \ feeds
  /\ target' = NoTarget
  /\ UNCHANGED <<engine, listed, listings, marketFaults>>

\* The new feeds get their tasks.
Launched == pollers \cup starting

\* After the await, in which each of the new feeds tried to read its history.
Launch ==
  /\ starting # {}
  /\ pollers' = Launched
  /\ starting' = {}
  /\ UNCHANGED <<engine, listed, feeds, target, listings, marketFaults>>

\* The callback's task dies before it has started.
LoseCallback ==
  /\ target # NoTarget
  /\ MarketFault
  /\ target' = NoTarget
  /\ UNCHANGED <<engine, listed, feeds, pollers, starting, listings>>

\* Shutdown: first the universe engine, with its callback, then the feeds.
StopUniverse ==
  /\ engine = "up"
  /\ engine' = "stopping"
  /\ target' = NoTarget
  /\ starting' = {}
  /\ UNCHANGED <<listed, feeds, pollers, listings, marketFaults>>

StopFeeds ==
  /\ engine = "stopping"
  /\ engine' = "down"
  /\ pollers' = {}
  /\ feeds' = {}
  /\ UNCHANGED <<listed, target, starting, listings, marketFaults>>

UniverseNext ==
  \/ StartFeeds \/ Reconcile \/ Launch \/ LoseCallback
  \/ StopUniverse \/ StopFeeds
  \/ \E s \in Markets : List(s)
  \/ \E ok \in BOOLEAN : Discover(ok)

UniverseFairness ==
  /\ WF_universeVars(Discover(TRUE))
  /\ WF_universeVars(Reconcile)
  /\ WF_universeVars(Launch)

UniverseSpec == UniverseInit /\ [][UniverseNext]_universeVars

FairUniverseSpec == UniverseSpec /\ UniverseFairness

-----------------------------------------------------------------------------
UniverseTypeOK ==
  /\ engine \in {"down", "up", "stopping"}
  /\ {listed, feeds, pollers, starting} \subseteq SUBSET Markets
  /\ target \in {NoTarget} \cup SUBSET Markets
  /\ listings \in 0..MaxListings
  /\ marketFaults \in 0..MarketFaults

(* A symbol that is no longer wanted is not polled: every task has a feed, and
   when no reconciliation runs every feed of a running engine has a task. *)
FeedsArePolled ==
  /\ pollers \subseteq feeds
  /\ engine = "up" /\ starting = {} => pollers = feeds

(* "the historically curated symbols must remain, even if a discovery round
   does not classify them as TRADABLE, for whatever reason": whatever the
   exchange lists or fails to list, they are polled. *)
CuratedStayPolled == engine = "up" => Curated \subseteq pollers

(* A market that stays tradable is polled in the end, unless the worker goes
   down: discoveries that fail, and callbacks that die, are made up for. *)
TradableGetsPolled ==
  \A s \in Markets :
    <>[](engine = "up" /\ s \in listed) => <>[](s \in pollers)
=============================================================================
