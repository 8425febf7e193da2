------------------------------ MODULE EventBus ------------------------------
(***************************************************************************)
(* One stream of the event bus (core/event_bus.py) and one of its consumer *)
(* groups, such as position_liquidator or orchestrator: publish, and the   *)
(* consumer loop _consume with _process_message.  The group reads a batch  *)
(* once; what is read and not acknowledged stays on Redis' pending list,   *)
(* which no code reads.                                                    *)
(***************************************************************************)
EXTENDS Naturals

CONSTANTS
  MaxMessages,  \* bound on messages published
  BatchSize,    \* count of xreadgroup
  MaxAttempts,  \* max_retries of _process_message
  StreamLen,    \* maxlen of a stream
  BusFaults,    \* bound on failing handlers and Redis commands
  BusStops      \* bound on stops of the process, orderly or not

ASSUME BusConstants ==
  /\ {BatchSize, MaxAttempts, StreamLen} \subseteq Nat \ {0}
  /\ {MaxMessages, BusFaults, BusStops} \subseteq Nat

VARIABLES
  published,  \* messages 1..published were added to the stream
  cut,        \* messages 1..cut are no longer in the stream
  lastRead,   \* the group's last delivered message
  current,    \* current..lastRead are read and not yet finished with
  attempt,    \* attempt at the current message, from 1
  stage,      \* where the consumer stands
  pending,    \* the group's pending list: read, not acknowledged
  calls,      \* how often each message's handler ran to its end
  dead,       \* the dead letter stream
  busFaults,  \* faults so far
  busStops    \* stops so far

busVars == <<published, cut, lastRead, current, attempt, stage, pending, calls,
             dead, busFaults, busStops>>

BusMessages == 1..MaxMessages
Stages == {"start", "read", "handle", "ack", "bury", "ackdead", "gone",
           "down"}

BusInit ==
  /\ published = 0
  /\ cut = 0
  /\ lastRead = 0
  /\ current = 1
  /\ attempt = 1
  /\ stage = "start"
  /\ pending = {}
  /\ calls = [m \in BusMessages |-> 0]
  /\ dead = {}
  /\ busFaults = 0
  /\ busStops = 0

BusFault ==
  /\ busFaults < BusFaults
  /\ busFaults' = busFaults + 1

\* publish: xadd with maxlen; Redis may keep more than that.
Publish ==
  /\ published < MaxMessages
  /\ published' = published + 1
  /\ cut' \in cut..(IF published' > StreamLen THEN published' - StreamLen
                    ELSE cut)
  /\ cut' <= published'
  /\ UNCHANGED <<lastRead, current, attempt, stage, pending, calls, dead,
                 busFaults, busStops>>

\* The group is created, or exists already; any other error ends the task.
CreateGroup ==
  /\ stage = "start"
  /\ \/ stage' = "read" /\ UNCHANGED busFaults
     \/ stage' = "gone" /\ BusFault
  /\ UNCHANGED <<published, cut, lastRead, current, attempt, pending, calls,
                 dead, busStops>>

\* Deviation: the group is read from the beginning of the stream.
Unread_Deviation(k) == cut + 1

\* First message after k that is still in the stream.
Unread(k) == IF k < cut THEN cut + 1 ELSE k + 1

\* Deviation: the consumer waits for a whole batch.
Readable_Deviation(first) == first + BatchSize - 1 <= published

\* Is there something to read from here on?
Readable(first) == first <= published

\* Last message of a batch that starts with first.
LastOf(first) ==
  IF published < first + BatchSize - 1 THEN published
  ELSE first + BatchSize - 1

\* xreadgroup with ">": the next messages, which the group now owes.
ReadBatch ==
  /\ stage = "read"
  /\ Readable(Unread(lastRead))
  /\ current' = Unread(lastRead)
  /\ lastRead' = LastOf(current')
  /\ pending' = pending \cup current'..lastRead'
  /\ attempt' = 1
  /\ stage' = "handle"
  /\ UNCHANGED <<published, cut, calls, dead, busFaults, busStops>>

\* Deviation: one attempt too many.
AfterFailure_OneMore ==
  IF attempt > MaxAttempts
  THEN stage' = "bury" /\ UNCHANGED attempt
  ELSE stage' = "handle" /\ attempt' = attempt + 1

\* Deviation: the last attempt's message is acknowledged without a burial.
AfterFailure_NotBuried ==
  IF attempt = MaxAttempts
  THEN stage' = "ackdead" /\ UNCHANGED attempt
  ELSE stage' = "handle" /\ attempt' = attempt + 1

\* An attempt ended in an exception: try again, or bury the message.
AfterFailure ==
  IF attempt = MaxAttempts
  THEN stage' = "bury" /\ UNCHANGED attempt
  ELSE stage' = "handle" /\ attempt' = attempt + 1

\* The handler of the first message runs to its end, or fails.
Handle ==
  /\ stage = "handle"
  /\ \/ /\ calls' = [calls EXCEPT ![current] = @ + 1]
        /\ stage' = "ack"
        /\ UNCHANGED <<attempt, busFaults>>
     \/ /\ BusFault
        /\ AfterFailure
        /\ UNCHANGED calls
  /\ UNCHANGED <<published, cut, lastRead, current, pending, dead, busStops>>

\* Acknowledged: on to the next message of the batch, if there is one.
NextMessage ==
  /\ pending' = pending \ {current}
  /\ current' = current + 1
  /\ attempt' = 1
  /\ stage' = IF current = lastRead THEN "read" ELSE "handle"

\* xack after the handler; its failure counts as one of the attempt, so the
\* handler runs again.
Ack ==
  /\ stage = "ack"
  /\ \/ NextMessage /\ UNCHANGED busFaults
     \/ BusFault /\ AfterFailure /\ UNCHANGED <<current, pending>>
  /\ UNCHANGED <<published, cut, lastRead, calls, dead, busStops>>

\* An exception leaves _process_message: the rest of the batch is dropped.
Abandon ==
  /\ BusFault
  /\ current' = lastRead + 1
  /\ attempt' = 1
  /\ stage' = "read"
  /\ UNCHANGED pending

\* xadd to the dead letter stream, after the last attempt.
Bury ==
  /\ stage = "bury"
  /\ \/ /\ dead' = dead \cup {current}
        /\ stage' = "ackdead"
        /\ UNCHANGED <<current, attempt, pending, busFaults>>
     \/ Abandon /\ UNCHANGED dead
  /\ UNCHANGED <<published, cut, lastRead, calls, busStops>>

AckDead ==
  /\ stage = "ackdead"
  /\ \/ NextMessage /\ UNCHANGED busFaults
     \/ Abandon
  /\ UNCHANGED <<published, cut, lastRead, calls, dead, busStops>>

\* The process dies, or close() cancels the consumer: what was read is not
\* given back.
StopBus ==
  /\ stage # "down"
  /\ busStops < BusStops
  /\ busStops' = busStops + 1
  /\ current' = lastRead + 1
  /\ attempt' = 1
  /\ stage' = "down"
  /\ UNCHANGED <<published, cut, lastRead, pending, calls, dead, busFaults>>

\* The worker starts again and subscribes; the group goes on behind the last
\* message it was given.
StartBus ==
  /\ stage = "down"
  /\ stage' = "start"
  /\ UNCHANGED <<published, cut, lastRead, current, attempt, pending, calls,
                 dead, busFaults, busStops>>

Consume == CreateGroup \/ ReadBatch \/ Handle \/ Ack \/ Bury \/ AckDead

BusNext == Publish \/ Consume \/ StopBus \/ StartBus

\* The event loop runs the consumer's task; the supervisor starts the worker.
BusFairness == WF_busVars(Consume) /\ WF_busVars(StartBus)

BusSpec == BusInit /\ [][BusNext]_busVars
FairBusSpec == BusSpec /\ BusFairness

-----------------------------------------------------------------------------
BusTypeOK ==
  /\ published \in 0..MaxMessages /\ cut \in 0..published
  /\ lastRead \in 0..published
  /\ current \in 1..lastRead + 1
  /\ attempt \in 1..MaxAttempts
  /\ stage \in Stages
  /\ pending \subseteq BusMessages /\ dead \subseteq BusMessages
  /\ calls \in [BusMessages -> Nat]
  /\ busFaults \in 0..BusFaults /\ busStops \in 0..BusStops

InBatch(m) == current <= m /\ m <= lastRead

Fate(m) ==
  IF m > published THEN "unsent"
  ELSE IF calls[m] > 0 THEN "handled"
  ELSE IF m \in dead THEN "dead"
  ELSE IF InBatch(m) \/ (m > lastRead /\ m > cut) THEN "queued"
  ELSE "lost"

(* A message that was neither handled nor buried is still on the pending
   list, or was cut off the stream before the group came to it: an
   acknowledgement is never given for nothing. *)
LostIsPendingOrCut ==
  \A m \in BusMessages : Fate(m) = "lost" => m \in pending \/ m <= cut

(* A handler is run to its end for a message at most once per attempt: a
   failing acknowledgement repeats it, a restart never does. *)
HandledPerAttempt == \A m \in BusMessages : calls[m] <= MaxAttempts

(* Every message that is published is handled, buried, or lost by a stop, a
   fault of Redis or the limit of the stream; none waits forever, unless the
   consumer's task has ended. *)
EveryMessageSettles ==
  \A m \in BusMessages :
    Fate(m) = "queued" ~> (Fate(m) # "queued" \/ stage = "gone")

\* The bus as its consumers see it.
Promise == INSTANCE Delivery WITH
  Messages <- BusMessages,
  fate <- [m \in BusMessages |-> Fate(m)]

(* The bus delivers in order of publication, and never takes back the fate of
   a message, through failing handlers, failing commands and restarts. *)
KeepsDelivery == Promise!Spec
=============================================================================
