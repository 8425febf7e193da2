------------------------------ MODULE KillSwitch ------------------------------
(***************************************************************************)
(* The kill switch of one tenant and trading mode (risk/kill_switch.py)    *)
(* across processes: the worker, whose in-memory flag gates every trade;   *)
(* the API, whose requests each build a fresh KillSwitch                   *)
(* (api/routers/risk.py); the Redis key; the pub/sub channel the worker    *)
(* listens to; and the restore after a restart (core/resilience.py).       *)
(*                                                                         *)
(* An operation is one trigger() or reset().  Its state change has no      *)
(* await inside, so the asyncio lock adds nothing; the Redis SET and the    *)
(* Redis PUBLISH follow as steps of their own.  What trigger() does after   *)
(* them leaves this state alone: _cancel_all_orders returns at once, since  *)
(* no exchange pool is ever injected, and the KillSwitchEvent is consumed   *)
(* by the liquidator, which module Positions describes.                     *)
(***************************************************************************)
EXTENDS Integers, Sequences, FiniteSets

CONSTANTS
  ApiTriggers,     \* POST /kill-switch requests
  ApiResets,       \* POST /kill-switch/reset requests
  WorkerTriggers,  \* trigger() tasks of the worker's RiskEngine
  AutoResets,      \* resets of the PAPER stress auto-recovery (opt-in)
  NoOp,            \* stands for "no operation"
  Overlap,         \* TRUE: operations may run concurrently
  DuringStart,     \* TRUE: ... and begin while the worker is starting
  MaxFaults,       \* bound on failing Redis commands and subscriptions
  SubscribeFirst,  \* TRUE: the subscription stands before the restore reads
  MaxCrashes       \* bound on restarts of the worker

Triggers == ApiTriggers \cup WorkerTriggers
Resets == ApiResets \cup AutoResets
Ops == Triggers \cup Resets

ASSUME OpsOK ==
  /\ NoOp \notin Ops
  /\ Triggers \cap Resets = {}
  /\ ApiTriggers \cap WorkerTriggers = {}
  /\ ApiResets \cap AutoResets = {}
  /\ {MaxCrashes, MaxFaults} \subseteq Nat
  /\ {Overlap, DuringStart, SubscribeFirst} \subseteq BOOLEAN

VARIABLES
  up,         \* the worker process runs
  trading,    \* ... and has finished its recovery: candles are handled
  active,     \* is_active of the worker's KillSwitch
  cause,      \* the trigger the worker's state stems from (history)
  key,        \* the operation whose payload the Redis key holds
  loop,       \* the worker's _remote_sync_loop
  chan,       \* payloads published to its subscription, not yet handled
  restoring,  \* progress of _restore_kill_switch
  found,      \* the payload it has read
  pc,         \* progress of each operation
  sees,       \* the triggers begun before a reset was (history)
  crashes,    \* restarts so far
  faults      \* failures of Redis so far

worker == <<up, trading, active, cause, loop, restoring, found, crashes>>
vars == <<worker, key, chan, pc, sees, faults>>

InProgress == {"set", "publish"}

\* A payload says is_active iff a trigger wrote it.
On(o) == o \in Triggers

-----------------------------------------------------------------------------
Init ==
  /\ up = TRUE
  /\ trading = FALSE
  /\ active = FALSE
  /\ cause = NoOp
  /\ key = NoOp
  /\ loop = "starting"
  /\ chan = <<>>
  /\ restoring = "no"
  /\ found = NoOp
  /\ pc = [o \in Ops |-> "idle"]
  /\ sees = [r \in Resets |-> {}]
  /\ crashes = 0
  /\ faults = 0

\* No operation is under way and every message has been handled.
Still == chan = <<>> /\ \A o \in Ops : pc[o] \notin InProgress

MayBegin(o) ==
  /\ pc[o] = "idle"
  /\ Overlap \/ Still
  /\ DuringStart \/ trading

Goto(o, p) == pc' = [pc EXCEPT ![o] = p]

\* A Redis command fails.
RedisFault == faults < MaxFaults /\ faults' = faults + 1

Begun == {t \in Triggers : pc[t] # "idle"}

(***************************************************************************)
(* trigger() and reset()                                                   *)
(***************************************************************************)

\* A request's own instance is always inactive: there is nothing to check.
BeginApiTrigger(t) ==
  /\ MayBegin(t)
  /\ Goto(t, "set")
  /\ UNCHANGED <<worker, key, chan, sees, faults>>

\* RiskEngine found a hard limit breached.
BeginWorkerTrigger(t) ==
  /\ up /\ trading
  /\ MayBegin(t)
  /\ \/ /\ active
        /\ Goto(t, "done")
        /\ UNCHANGED <<active, cause>>
     \/ /\ ~active
        /\ active' = TRUE
        /\ cause' = t
        /\ Goto(t, "set")
  /\ UNCHANGED <<up, trading, key, loop, chan, restoring, found, sees,
                 crashes, faults>>

\* The request reads the key; a missing, inactive or unreadable one ends it.
BeginApiReset(r) ==
  /\ MayBegin(r)
  /\ sees' = [sees EXCEPT ![r] = Begun]
  /\ \/ On(key) /\ Goto(r, "set") /\ UNCHANGED faults
     \/ ~On(key) /\ Goto(r, "done") /\ UNCHANGED faults
     \/ RedisFault /\ Goto(r, "done")
  /\ UNCHANGED <<worker, key, chan>>

\* The watchdog found the switch active and no position open.
BeginAutoReset(r) ==
  /\ up /\ active
  /\ MayBegin(r)
  /\ sees' = [sees EXCEPT ![r] = Begun]
  /\ active' = FALSE
  /\ cause' = NoOp
  /\ Goto(r, "set")
  /\ UNCHANGED <<up, trading, key, loop, chan, restoring, found, crashes,
                 faults>>

(***************************************************************************)
(* _publish_to_redis                                                       *)
(***************************************************************************)

\* An exception ends _publish_to_redis, before the PUBLISH.
SetKey(o) ==
  /\ pc[o] = "set"
  /\ \/ key' = o /\ Goto(o, "publish") /\ UNCHANGED faults
     \/ RedisFault /\ key' = key /\ Goto(o, "done")
  /\ UNCHANGED <<worker, chan, sees>>

\* Deviation: the key is written, but nobody is told.
Publish_Skipped(o) ==
  /\ pc[o] = "publish"
  /\ Goto(o, "done")
  /\ UNCHANGED <<worker, key, chan, sees, faults>>

\* Pub/sub reaches who listens at that moment.
Publish(o) ==
  /\ pc[o] = "publish"
  /\ \/ loop = "listening" /\ chan' = Append(chan, o) /\ UNCHANGED faults
     \/ loop # "listening" /\ UNCHANGED <<chan, faults>>
     \/ RedisFault /\ UNCHANGED chan
  /\ Goto(o, "done")
  /\ UNCHANGED <<worker, key, sees>>

(***************************************************************************)
(* The worker: remote sync, crash, restart, restore                        *)
(***************************************************************************)

Subscribe ==
  /\ loop = "starting"
  /\ loop' = "listening"
  /\ UNCHANGED <<up, trading, active, cause, restoring, found, crashes, key,
                 chan, pc, sees, faults>>

\* Deviation: only a payload that turns the switch on is taken over.
Deliver_OnOnly ==
  /\ chan # <<>>
  /\ chan' = Tail(chan)
  /\ active' = (active \/ On(Head(chan)))
  /\ cause' = IF active \/ ~On(Head(chan)) THEN cause ELSE Head(chan)
  /\ UNCHANGED <<up, trading, loop, restoring, found, crashes, key, pc, sees,
                 faults>>

\* _apply_remote_state: a payload that differs from the local state wins,
\* whoever published it.
Deliver ==
  /\ chan # <<>>
  /\ chan' = Tail(chan)
  /\ active' = On(Head(chan))
  /\ cause' = IF ~On(Head(chan)) THEN NoOp
              ELSE IF active THEN cause
              ELSE Head(chan)
  /\ UNCHANGED <<up, trading, loop, restoring, found, crashes, key, pc, sees,
                 faults>>

\* Any exception ends the loop; nothing starts it again.
LoopDies ==
  /\ RedisFault
  /\ loop \in {"starting", "listening"}
  /\ loop' = "dead"
  /\ chan' = <<>>
  /\ UNCHANGED <<up, trading, active, cause, restoring, found, crashes, key,
                 pc, sees>>

Crash ==
  /\ up
  /\ crashes < MaxCrashes
  /\ up' = FALSE
  /\ trading' = FALSE
  /\ active' = FALSE
  /\ cause' = NoOp
  /\ loop' = "off"
  /\ chan' = <<>>
  /\ restoring' = "no"
  /\ found' = NoOp
  /\ pc' = [o \in Ops |->
              IF o \in WorkerTriggers \cup AutoResets /\ pc[o] \in InProgress
              THEN "lost" ELSE pc[o]]
  /\ crashes' = crashes + 1
  /\ UNCHANGED <<key, sees, faults>>

\* Deviation: market data starts before the recovery.
Restart_MarketDataFirst ==
  /\ ~up
  /\ up' = TRUE
  /\ trading' = TRUE
  /\ loop' = "starting"
  /\ UNCHANGED <<active, cause, restoring, found, crashes, key, chan, pc,
                 sees, faults>>

\* The lifespan starts the sync loop, and later runs the recovery.
Restart ==
  /\ ~up
  /\ up' = TRUE
  /\ loop' = "starting"
  /\ UNCHANGED <<trading, active, cause, restoring, found, crashes, key,
                 chan, pc, sees, faults>>

ReadForRestore ==
  /\ up
  /\ restoring = "no"
  /\ SubscribeFirst => loop # "starting"
  /\ restoring' = "read"
  /\ \/ found' = key /\ UNCHANGED faults
     \/ RedisFault /\ found' = NoOp
  /\ UNCHANGED <<up, trading, active, cause, loop, crashes, key, chan, pc,
                 sees>>

\* Deviation: an inactive payload is applied too.
Restore_Overwrites ==
  /\ restoring = "read"
  /\ restoring' = "done"
  /\ active' = On(found)
  /\ cause' = IF On(found) THEN found ELSE NoOp
  /\ trading' = TRUE
  /\ UNCHANGED <<up, loop, found, crashes, key, chan, pc, sees, faults>>

\* Only an active payload is applied.  Then market data starts.
Restore ==
  /\ restoring = "read"
  /\ restoring' = "done"
  /\ active' = (active \/ On(found))
  /\ cause' = IF On(found) THEN found ELSE cause
  /\ trading' = TRUE
  /\ UNCHANGED <<up, loop, found, crashes, key, chan, pc, sees, faults>>

-----------------------------------------------------------------------------
Step(o) == SetKey(o) \/ Publish(o)

Begin ==
  \/ \E t \in ApiTriggers : BeginApiTrigger(t)
  \/ \E t \in WorkerTriggers : BeginWorkerTrigger(t)
  \/ \E r \in ApiResets : BeginApiReset(r)
  \/ \E r \in AutoResets : BeginAutoReset(r)

Startup == Restart \/ Subscribe \/ ReadForRestore \/ Restore

Next ==
  \/ Begin
  \/ \E o \in Ops : Step(o)
  \/ Deliver
  \/ Startup
  \/ LoopDies
  \/ Crash

Spec == Init /\ [][Next]_vars

\* Operations that have begun go on, messages are handled, a stopped worker
\* is restarted (restart policy of its container) and starts up.
FairSpec ==
  /\ Spec
  /\ \A o \in Ops : WF_vars(Step(o))
  /\ WF_vars(Deliver)
  /\ WF_vars(Startup)

-----------------------------------------------------------------------------
(* Properties *)

\* Every variable keeps its type; a worker that is down has no state, and an
\* inactive switch has no cause.
TypeOK ==
  /\ {up, trading, active} \subseteq BOOLEAN
  /\ cause \in Triggers \cup {NoOp}
  /\ active <=> cause # NoOp
  /\ {key, found} \subseteq Ops \cup {NoOp}
  /\ loop \in {"off", "starting", "listening", "dead"}
  /\ chan \in Seq(Ops)
  /\ restoring \in {"no", "read", "done"}
  /\ pc \in [Ops -> InProgress \cup {"idle", "done", "lost"}]
  /\ sees \in [Resets -> SUBSET Triggers]
  /\ crashes \in 0..MaxCrashes
  /\ faults \in 0..MaxFaults
  /\ trading => up /\ restoring = "done"
  /\ chan # <<>> => loop = "listening"
  /\ ~up => ~active /\ loop = "off"

Quiet == trading /\ Still

\* When things come to rest, no worker trades while the key says the switch
\* is on, whatever restarts lie in between - unless Redis failed on the way.
KeyOnMeansStopped == Quiet /\ On(key) /\ faults = 0 => active

GoesOff == active /\ up' /\ ~active'

\* This step begins reset r, or delivers its message; r has seen the trigger
\* that turned the switch on.
AskedToGoOff(r) ==
  /\ cause \in sees'[r]
  /\ \/ r \in AutoResets /\ pc[r] = "idle" /\ pc'[r] # "idle"
     \/ chan # <<>> /\ Head(chan) = r /\ chan' = Tail(chan)

\* "Kein automatischer Reset": the worker's switch only goes off by a reset
\* that was asked for after the trigger that turned it on.
DeliberateReset == [][GoesOff => \E r \in Resets : AskedToGoOff(r)]_vars

\* A trigger through the API that has reached Redis stops the worker, also
\* if that is just starting - unless a reset was asked for as well.
TriggerStopsWorker ==
  \A t \in ApiTriggers :
    pc[t] = "publish" ~>
      active \/ faults > 0 \/ \E r \in Resets : pc[r] # "idle"

\* A reset of the API that found the switch on lets the worker trade again,
\* unless the switch was triggered once more.
ResetFreesWorker ==
  \A r \in ApiResets :
    (pc[r] = "publish" /\ trading) ~>
      \/ ~active \/ faults > 0
      \/ \E t \in Triggers : t \notin sees[r] /\ pc[t] # "idle"

\* What the API writes comes to the worker, both ways.
SwitchReachesWorker == TriggerStopsWorker /\ ResetFreesWorker

=============================================================================
