------------------------------- MODULE Worker --------------------------------
(***************************************************************************)
(* The life of a trading worker (sgr/api/main.py lifespan,                 *)
(* sgr/worker/main.py): what its startup brings up and in which order,     *)
(* what lives on while it goes down, and what happens in between: candles, *)
(* entries, the kill switch and the liquidation it asks for. The candles   *)
(* and the liquidation are messages of the event bus and outlive a worker  *)
(* that has not read them; module EventBus has those it was reading.       *)
(* Modules OrderExecution, Positions and KillSwitch have the details of    *)
(* what is one step here.                                                  *)
(***************************************************************************)
EXTENDS Integers, FiniteSets

CONSTANTS
  Entries,       \* the entry orders that may be sent
  WorkerRuns,    \* bound on starts
  WorkerFaults   \* bound on exits in between, failing reads and orders

ASSUME WorkerAssumption ==
  IsFiniteSet(Entries) /\ {WorkerRuns, WorkerFaults} \subseteq Nat

VARIABLES
  step,       \* the last step of the startup or of the shutdown that is done
  signalled,  \* SIGTERM or SIGINT has come
  adapters,   \* the pool has the adapter of the primary exchange
  keyOn,      \* the switch in Redis
  stopped,    \* the switch in the worker
  news,       \* the message of the switch is on its way to the worker
  request,    \* the liquidation waits in the stream
  candle,     \* a candle waits in the stream
  rows,       \* open positions in the table, each named for its entry
  books,      \* open positions in memory
  restored,   \* what the recovery read: "positions", "switch"
  sending,    \* entries in an await of the adapter
  standing,   \* entries that stand at the exchange
  tracked,    \* the in-flight table, the entries with an exchange id
  snap,       \* what the sweep has still to cancel
  excused,    \* history: entries no sweep could have closed
  clean,      \* history: the last run went down step by step
  workerRuns, workerFaults

workerVars ==
  <<step, signalled, adapters, keyOn, stopped, news, request, candle, rows,
    books, restored, sending, standing, tracked, snap, excused, clean,
    workerRuns, workerFaults>>

streamVars == <<keyOn, request, candle>>

bookVars == <<rows, books>>

orderVars == <<sending, standing, tracked, snap, excused>>

-----------------------------------------------------------------------------
(* What runs at which step.                                                  *)

Leaving == {"quiet", "dry", "sweeping", "closed"}

\* The consumers of the orchestrator, until the bus closes.
Trading == {"trading", "up"} \union Leaving

Feeding == {"fed", "trading", "up", "quiet"}

\* The liquidator's consumer, and a little later the books it reads.
Recovered == {"recovered", "fed"} \union Trading

Guarded == {"guarded"} \union Recovered

Listening == {"synced", "validated", "guarded", "recovered", "fed",
              "trading", "up"}

-----------------------------------------------------------------------------

\* A deployment: its mode, its exchange, the exchanges it has credentials for,
\* sane limits and leverage, a cap on the value of an order.
Configs ==
  [live : BOOLEAN, exchange : {"pionex", "binance"},
   keys : SUBSET {"pionex", "binance"}, sane : BOOLEAN, capped : BOOLEAN]

\* The switch of a new process is never on; the rest is asked of a live worker.
Fails(c, check) ==
  \/ check = "kill switch" /\ stopped
  \/ c.live /\ check = "credentials" /\ "pionex" \notin c.keys
  \/ c.live /\ check = "limits" /\ ~c.sane
  \/ c.live /\ check = "notional" /\ ~c.capped

Failures(c) ==
  {check \in {"kill switch", "credentials", "limits", "notional"} :
     Fails(c, check)}

\* Pionex on paper needs no credentials.
HasAdapter(c) == c.exchange \in c.keys \/ (c.exchange = "pionex" /\ ~c.live)

WorkerInit ==
  /\ step = "down" /\ signalled = FALSE /\ adapters = FALSE
  /\ keyOn = FALSE /\ stopped = FALSE /\ news = FALSE
  /\ request = FALSE /\ candle = FALSE
  /\ rows = {} /\ books = {} /\ restored = {}
  /\ sending = {} /\ standing = {} /\ tracked = {} /\ snap = {}
  /\ excused = {} /\ clean = TRUE
  /\ workerRuns = 0 /\ workerFaults = 0

\* The worker starts, if no check of its configuration fails, and connects to
\* the database, the bus and the feature store. That the exchange cannot be
\* reached is logged; without credentials the pool stays empty.
LaunchWorker(c) ==
  /\ step = "down" /\ workerRuns < WorkerRuns
  /\ Failures(c) = {}
  /\ step' = "connected" /\ workerRuns' = workerRuns + 1
  /\ adapters' = HasAdapter(c)
  /\ UNCHANGED <<signalled, stopped, news, restored, clean, workerFaults,
                 streamVars, bookVars, orderVars>>

\* One step of the startup that only brings something up.
Step(from, to) ==
  /\ step = from /\ step' = to
  /\ UNCHANGED <<signalled, adapters, stopped, news, restored, clean,
                 workerRuns, workerFaults, streamVars, bookVars, orderVars>>

\* The worker listens for the switch, but does not yet read it.
StartRemoteSync == Step("connected", "synced")

\* The strategies are validated and activated; what fails is logged.
StartStrategies == Step("synced", "validated")

\* The liquidator's consumer, the watchdog and the grids.
StartGuards == Step("validated", "guarded")

\* Positions and switch are read, each of which may fail; what comes of it is
\* not looked at.
RecoverAfterCrash(read) ==
  /\ step = "guarded" /\ step' = "recovered"
  /\ \/ read = {"positions", "switch"} /\ UNCHANGED workerFaults
     \/ workerFaults < WorkerFaults /\ workerFaults' = workerFaults + 1
  /\ restored' = read
  /\ books' = IF "positions" \in read THEN rows ELSE books
  /\ stopped' = (stopped \/ ("switch" \in read /\ keyOn))
  /\ UNCHANGED <<signalled, adapters, news, clean, workerRuns, rows,
                 streamVars, orderVars>>

\* The feed is started if there is an exchange, the orchestrator in any case.
StartFeed == Step("recovered", "fed")

SubscribeOrchestrator == Step("fed", "trading")

\* Deviation: a signal that came before the worker was up is forgotten.
ComeUp_Deviation ==
  /\ step = "trading" /\ step' = "up" /\ signalled' = FALSE
  /\ UNCHANGED <<adapters, stopped, news, restored, clean, workerRuns,
                 workerFaults, streamVars, bookVars, orderVars>>

\* Monitoring, metrics, discovery of symbols, the heartbeat.
ComeUp == Step("trading", "up")

-----------------------------------------------------------------------------

\* The process is gone, with what it had in memory. An entry that was being
\* sent may stand; nobody will look after what it leaves.
Gone(reached, left) ==
  /\ step' = "down" /\ signalled' = FALSE /\ adapters' = FALSE
  /\ stopped' = FALSE /\ news' = FALSE /\ restored' = {}
  /\ books' = {} /\ sending' = {} /\ tracked' = {} /\ snap' = {}
  /\ standing' = standing \union reached
  /\ excused' = excused \union left
  /\ UNCHANGED <<rows, workerRuns, streamVars>>

\* A crash, an exception in a step of the startup or of the shutdown, or a
\* cancelled main task: the rest of the shutdown is left out.
Die(reached) ==
  /\ step # "down" /\ workerRuns < WorkerRuns
  /\ workerFaults < WorkerFaults /\ workerFaults' = workerFaults + 1
  /\ reached \subseteq sending
  /\ Gone(reached, standing \union reached) /\ clean' = FALSE

\* The signal only sets an event, which is awaited once the worker is up.
Signal ==
  /\ step # "down" /\ ~signalled /\ workerRuns < WorkerRuns
  /\ signalled' = TRUE
  /\ UNCHANGED <<step, adapters, stopped, news, restored, clean, workerRuns,
                 workerFaults, streamVars, bookVars, orderVars>>

\* Remote sync, watchdog, discovery, metrics and monitoring stop. The strategy
\* engine is told to, but takes no notice.
StopServices ==
  /\ signalled /\ step = "up" /\ step' = "quiet" /\ news' = FALSE
  /\ UNCHANGED <<signalled, adapters, stopped, restored, clean, workerRuns,
                 workerFaults, streamVars, bookVars, orderVars>>

StopFeed == Step("quiet", "dry")

\* The sweep reads the in-flight table once. An entry that is being sent has no
\* exchange id yet and is left out.
BeginSweep ==
  /\ step = "dry" /\ step' = "sweeping"
  /\ snap' = tracked
  /\ excused' = excused \union sending
  /\ UNCHANGED <<signalled, adapters, stopped, news, restored, clean,
                 workerRuns, workerFaults, streamVars, bookVars, sending,
                 standing, tracked>>

\* One entry after the other is cancelled; that it fails is logged.
CancelSwept(o) ==
  /\ step = "sweeping" /\ o \in snap /\ snap' = snap \ {o}
  /\ \/ standing' = standing \ {o} /\ UNCHANGED <<excused, workerFaults>>
     \/ /\ workerFaults < WorkerFaults /\ workerFaults' = workerFaults + 1
        /\ excused' = excused \union {o}
        /\ UNCHANGED standing
  /\ UNCHANGED <<step, signalled, adapters, stopped, news, restored, clean,
                 workerRuns, streamVars, bookVars, sending, tracked>>

\* The in-flight table is cleared and the pool closed and emptied.
ClosePool ==
  /\ step = "sweeping" /\ snap = {} /\ step' = "closed"
  /\ tracked' = {} /\ adapters' = FALSE
  /\ UNCHANGED <<signalled, stopped, news, restored, clean, workerRuns,
                 workerFaults, streamVars, bookVars, sending, standing, snap,
                 excused>>

\* The bus closes and with it the consumers, wherever they are.
CloseBus(reached) ==
  /\ step = "closed" /\ reached \subseteq sending
  /\ Gone(reached, reached) /\ clean' = TRUE
  /\ UNCHANGED workerFaults

-----------------------------------------------------------------------------

PublishCandle ==
  /\ step \in Feeding /\ adapters /\ ~candle /\ candle' = TRUE
  /\ UNCHANGED <<step, signalled, adapters, keyOn, stopped, news, request,
                 restored, clean, workerRuns, workerFaults, bookVars,
                 orderVars>>

\* A cycle of the orchestrator: no signal, or a new entry, unless the switch is
\* on. Without an adapter nothing is sent.
OnCandleEvent(decided) ==
  /\ step \in Trading /\ candle /\ candle' = FALSE
  /\ sending = {} /\ Cardinality(decided) <= 1
  /\ decided \intersect (rows \union standing \union excused) = {}
  /\ decided # {} => adapters /\ ~stopped
  /\ sending' = decided
  /\ excused' = IF step = "sweeping" THEN excused \union decided ELSE excused
  /\ UNCHANGED <<step, signalled, adapters, keyOn, stopped, news, request,
                 restored, clean, workerRuns, workerFaults, bookVars,
                 standing, tracked, snap>>

\* The answer: refused, or the entry stands and is tracked.
Answered(o) ==
  /\ o \in sending /\ sending' = sending \ {o}
  /\ \/ UNCHANGED <<standing, tracked>>
     \/ /\ standing' = standing \union {o}
        /\ tracked' = IF adapters THEN tracked \union {o} ELSE tracked
  /\ UNCHANGED <<step, signalled, adapters, stopped, news, restored, clean,
                 workerRuns, workerFaults, streamVars, bookVars, snap,
                 excused>>

\* A tracked entry is filled and booked.
FillEntry(o) ==
  /\ o \in tracked \intersect standing
  /\ standing' = standing \ {o} /\ tracked' = tracked \ {o}
  /\ rows' = rows \union {o} /\ books' = books \union {o}
  /\ UNCHANGED <<step, signalled, adapters, stopped, news, restored, clean,
                 workerRuns, workerFaults, streamVars, sending, snap, excused>>

\* The switch is triggered from outside, with the liquidation of positions.
TriggerRemotely ==
  /\ ~keyOn /\ keyOn' = TRUE
  /\ news' = (step \in Listening)
  /\ request' = TRUE
  /\ UNCHANGED <<step, signalled, adapters, stopped, candle, restored, clean,
                 workerRuns, workerFaults, bookVars, orderVars>>

ApplyRemoteState ==
  /\ news /\ step \in Listening
  /\ news' = FALSE /\ stopped' = TRUE
  /\ UNCHANGED <<step, signalled, adapters, restored, clean, workerRuns,
                 workerFaults, streamVars, bookVars, orderVars>>

\* The liquidator closes what is in the books, without an adapter nothing.
OnKillSwitchEvent(kept) ==
  /\ step \in Guarded /\ request /\ request' = FALSE
  /\ kept \subseteq books
  /\ IF adapters
       THEN \/ kept = {} /\ UNCHANGED workerFaults
            \/ /\ kept # {} /\ workerFaults < WorkerFaults
               /\ workerFaults' = workerFaults + 1
       ELSE kept = books /\ UNCHANGED workerFaults
  /\ rows' = rows \ (books \ kept) /\ books' = kept
  /\ UNCHANGED <<step, signalled, adapters, keyOn, stopped, news, candle,
                 restored, clean, workerRuns, orderVars>>

StartupNext ==
  \/ \E c \in Configs : LaunchWorker(c)
  \/ StartRemoteSync
  \/ StartStrategies
  \/ StartGuards
  \/ \E read \in SUBSET {"positions", "switch"} : RecoverAfterCrash(read)
  \/ StartFeed
  \/ SubscribeOrchestrator
  \/ ComeUp

ShutdownNext ==
  \/ StopServices
  \/ StopFeed
  \/ BeginSweep
  \/ \E o \in Entries : CancelSwept(o)
  \/ ClosePool
  \/ \E reached \in SUBSET Entries : CloseBus(reached)

WorkerNext ==
  \/ StartupNext
  \/ ShutdownNext
  \/ Signal
  \/ \E reached \in SUBSET Entries : Die(reached)
  \/ PublishCandle
  \/ \E decided \in SUBSET Entries : OnCandleEvent(decided)
  \/ \E o \in Entries : Answered(o) \/ FillEntry(o)
  \/ TriggerRemotely
  \/ ApplyRemoteState
  \/ \E kept \in SUBSET Entries : OnKillSwitchEvent(kept)

WorkerTypeOK ==
  /\ step \in {"down", "connected"} \union Listening \union Leaving
  /\ restored \subseteq {"positions", "switch"}
  /\ {rows, books, sending, standing, tracked, snap, excused}
       \subseteq SUBSET Entries
  /\ workerRuns \in 0..WorkerRuns /\ workerFaults \in 0..WorkerFaults

-----------------------------------------------------------------------------

(* What stands at the exchange after a shutdown that went through was sent or
   answered too late for the sweep, could not be cancelled, or was left by a
   worker that died (lifespan, ExecutionEngine.shutdown). *)
SweptUnlessLate == step = "down" /\ clean => standing \subseteq excused

(* No entry is sent on books that miss a position of the table, unless the
   recovery failed to read it: the consumers of candles start after it. *)
TradesOnRestoredBooks ==
  sending # {} => rows = books \/ "positions" \notin restored

(* With the switch on in Redis, an entry is only decided while the news of it
   is still on its way, on a worker that is leaving, or on one that could not
   read the switch when it started. *)
EntriesHeedSwitch ==
  (sending' \ sending # {} /\ keyOn) =>
    news \/ step \in Leaving \/ "switch" \notin restored

(* A liquidation that was asked for leaves nothing open, unless it is handled
   before the positions were read, on books that could not be read, after the
   pool was closed or by a worker without an exchange, or a close failed. *)
LiquidationIsComplete ==
  (request /\ ~request') =>
    \/ rows' = {}
    \/ step \notin Recovered \/ "positions" \notin restored
    \/ ~adapters \/ workerFaults' > workerFaults

(* A worker that was told to stop goes down, whenever the signal came. *)
SignalEnds == signalled ~> step = "down"

(* A liquidation that was asked for is handled, by the next worker if need be:
   the message waits in the stream. *)
RequestIsHandled == request ~> ~request

\* The container is started again when the process has ended, no step of the
\* startup or the shutdown waits for ever, and consumers read what is there.
WorkerFairness ==
  /\ WF_workerVars(StartupNext)
  /\ WF_workerVars(ShutdownNext)
  /\ WF_workerVars(\E kept \in SUBSET Entries : OnKillSwitchEvent(kept))

WorkerSpec == WorkerInit /\ [][WorkerNext]_workerVars /\ WorkerFairness
=============================================================================
