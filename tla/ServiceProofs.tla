---------------------------- MODULE ServiceProofs ---------------------------
(***************************************************************************)
(* Of the services around trading, each on its own: that the event bus     *)
(* implements what Delivery promises, step by step, and loses nothing      *)
(* without a trace; that the circuit breaker and the budget of the grid's  *)
(* calls keep within their thresholds, whatever comes back late; that the  *)
(* worker trades on restored books and heeds the kill switch at every      *)
(* entry; that an opened position gets levels around its entry and keeps   *)
(* them; that the universe of feeds keeps its tasks, the health of a       *)
(* worker is recent, and a reconciliation is right.                        *)
(***************************************************************************)
EXTENDS EventBus, CircuitBreaker, RateLimiter, FeedUniverse, Protection,
        Worker, WorkerHealth, Reconciliation, TLAPS

-----------------------------------------------------------------------------
(***************************************************************************)
(* The event bus                                                           *)
(***************************************************************************)

InHand == {"handle", "ack", "bury", "ackdead"}

\* The consumer has a message in hand, or has finished with its batch.
HandInv ==
  IF stage \in InHand THEN current <= lastRead ELSE current = lastRead + 1

\* Behind the message in hand nothing has been tried yet.
OrderInv ==
  \A m \in BusMessages :
    m > current \/ (m = current /\ stage \notin InHand) =>
      calls[m] = 0 /\ m \notin dead

\* What the stage says of the current message.
StageInv ==
  /\ stage = "handle" => calls[current] < attempt
  /\ stage \in InHand => calls[current] <= attempt
  /\ stage = "ack" => calls[current] > 0
  /\ current \in dead <=> stage = "ackdead"

\* What was read has been handled or buried, or is on the pending list.
TraceInv ==
  \A m \in BusMessages :
    m <= lastRead =>
      \/ calls[m] > 0 \/ m \in dead \/ m <= cut
      \/ m \in pending

\* What is read and not finished with is on the pending list.
BatchPending == \A m \in BusMessages : InBatch(m) => m \in pending

BusInv ==
  /\ BusTypeOK /\ HandInv /\ OrderInv /\ StageInv /\ TraceInv
  /\ HandledPerAttempt /\ BatchPending

LEMMA BusParams ==
  /\ BatchSize \in Nat /\ BatchSize > 0
  /\ MaxAttempts \in Nat /\ MaxAttempts > 0
  /\ StreamLen \in Nat /\ StreamLen > 0
  /\ MaxMessages \in Nat /\ BusFaults \in Nat /\ BusStops \in Nat
BY BusConstants

LEMMA InitBusInv == BusInit => BusInv
<1> USE BusParams
    DEF BusInit, BusInv, BusTypeOK, HandInv, OrderInv, StageInv, TraceInv,
        HandledPerAttempt, BatchPending, InBatch, InHand, Stages, BusMessages
<1> QED
  OBVIOUS

LEMMA NextBusInv == BusInv /\ [BusNext]_busVars => BusInv'
<1> SUFFICES ASSUME BusInv, [BusNext]_busVars PROVE BusInv'
  OBVIOUS
<1> USE BusParams
    DEF BusInv, BusTypeOK, HandInv, OrderInv, StageInv, TraceInv,
        HandledPerAttempt, BatchPending, InBatch, InHand, Stages, BusMessages,
        BusFault
<1>1. CASE Publish
  BY <1>1 DEF Publish
<1>2. CASE CreateGroup
  BY <1>2 DEF CreateGroup
<1>3. CASE ReadBatch
  <2>1. /\ current' \in Nat /\ lastRead < current'
         /\ (current' = lastRead + 1 \/ current' = cut + 1)
         /\ current' <= published /\ lastRead' \in current'..published
         /\ lastRead \in Nat
    BY <1>3 DEF ReadBatch, Readable, Unread, LastOf
  <2>2. current = lastRead + 1
    BY <1>3, <2>1 DEF ReadBatch, Readable, Unread, LastOf
  <2>3. BusTypeOK'
    BY <1>3, <2>1, <2>2 DEF ReadBatch, Readable, Unread, LastOf
  <2>4. HandInv'
    BY <1>3, <2>1, <2>2 DEF ReadBatch, Readable, Unread, LastOf
  <2>5. OrderInv'
    BY <1>3, <2>1, <2>2 DEF ReadBatch, Readable, Unread, LastOf
  <2>6. StageInv'
    BY <1>3, <2>1, <2>2 DEF ReadBatch, Readable, Unread, LastOf
  <2>7. TraceInv'
    BY <1>3, <2>1, <2>2 DEF ReadBatch, Readable, Unread, LastOf
  <2>8. HandledPerAttempt'
    BY <1>3, <2>1, <2>2 DEF ReadBatch, Readable, Unread, LastOf
  <2>9. BatchPending'
    BY <1>3, <2>1, <2>2 DEF ReadBatch, Readable, Unread, LastOf
  <2> QED
    BY <2>3, <2>4, <2>5, <2>6, <2>7, <2>8, <2>9
<1>4. CASE Handle
  <2>1. current \in BusMessages
    BY <1>4 DEF Handle, AfterFailure
  <2>2. BusTypeOK'
    <3>1. attempt' \in 1..MaxAttempts /\ stage' \in Stages
      BY <1>4, <2>1 DEF Handle, AfterFailure
    <3>2. busFaults' \in 0..BusFaults
      BY <1>4, <2>1 DEF Handle, AfterFailure
    <3>3. current' \in 1..lastRead' + 1
      BY <1>4, <2>1 DEF Handle, AfterFailure
    <3>4. calls' \in [BusMessages -> Nat]
      BY <1>4, <2>1 DEF Handle, AfterFailure
    <3>5. pending' \subseteq BusMessages /\ dead' \subseteq BusMessages
      BY <1>4, <2>1 DEF Handle, AfterFailure
    <3> QED
      BY <1>4, <3>1, <3>2, <3>3, <3>4, <3>5 DEF Handle
  <2>3. HandInv'
    BY <1>4, <2>1 DEF Handle, AfterFailure
  <2>4. OrderInv'
    BY <1>4, <2>1 DEF Handle, AfterFailure
  <2>5. StageInv'
    BY <1>4, <2>1 DEF Handle, AfterFailure
  <2>6. TraceInv'
    BY <1>4, <2>1 DEF Handle, AfterFailure
  <2>7. HandledPerAttempt'
    BY <1>4, <2>1 DEF Handle, AfterFailure
  <2>8. BatchPending'
    BY <1>4, <2>1 DEF Handle, AfterFailure
  <2> QED
    BY <2>2, <2>3, <2>4, <2>5, <2>6, <2>7, <2>8
<1>5. CASE Ack
  <2>1. current \in BusMessages
    BY <1>5 DEF Ack, AfterFailure, NextMessage
  <2>2. BusTypeOK'
    <3>1. attempt' \in 1..MaxAttempts /\ stage' \in Stages
      BY <1>5, <2>1 DEF Ack, AfterFailure, NextMessage
    <3>2. busFaults' \in 0..BusFaults
      BY <1>5, <2>1 DEF Ack, AfterFailure, NextMessage
    <3>3. current' \in 1..lastRead' + 1
      BY <1>5, <2>1 DEF Ack, AfterFailure, NextMessage
    <3>4. calls' \in [BusMessages -> Nat]
      BY <1>5, <2>1 DEF Ack, AfterFailure, NextMessage
    <3>5. pending' \subseteq BusMessages /\ dead' \subseteq BusMessages
      BY <1>5, <2>1 DEF Ack, AfterFailure, NextMessage
    <3> QED
      BY <1>5, <3>1, <3>2, <3>3, <3>4, <3>5 DEF Ack
  <2>3. HandInv'
    BY <1>5, <2>1 DEF Ack, AfterFailure, NextMessage
  <2>4. OrderInv'
    BY <1>5, <2>1 DEF Ack, AfterFailure, NextMessage
  <2>5. StageInv'
    BY <1>5, <2>1 DEF Ack, AfterFailure, NextMessage
  <2>6. TraceInv'
    BY <1>5, <2>1 DEF Ack, AfterFailure, NextMessage
  <2>7. HandledPerAttempt'
    BY <1>5, <2>1 DEF Ack, AfterFailure, NextMessage
  <2>8. BatchPending'
    BY <1>5, <2>1 DEF Ack, AfterFailure, NextMessage
  <2> QED
    BY <2>2, <2>3, <2>4, <2>5, <2>6, <2>7, <2>8
<1>6. CASE Bury
  <2>1. current \in BusMessages
    BY <1>6 DEF Bury, Abandon
  <2>2. BusTypeOK'
    <3>1. attempt' \in 1..MaxAttempts /\ stage' \in Stages
      BY <1>6, <2>1 DEF Bury, Abandon
    <3>2. busFaults' \in 0..BusFaults
      BY <1>6, <2>1 DEF Bury, Abandon
    <3>3. current' \in 1..lastRead' + 1
      BY <1>6, <2>1 DEF Bury, Abandon
    <3>4. calls' \in [BusMessages -> Nat]
      BY <1>6, <2>1 DEF Bury, Abandon
    <3>5. pending' \subseteq BusMessages /\ dead' \subseteq BusMessages
      BY <1>6, <2>1 DEF Bury, Abandon
    <3> QED
      BY <1>6, <3>1, <3>2, <3>3, <3>4, <3>5 DEF Bury
  <2>3. HandInv'
    BY <1>6, <2>1 DEF Bury, Abandon
  <2>4. OrderInv'
    BY <1>6, <2>1 DEF Bury, Abandon
  <2>5. StageInv'
    BY <1>6, <2>1 DEF Bury, Abandon
  <2>6. TraceInv'
    BY <1>6, <2>1 DEF Bury, Abandon
  <2>7. HandledPerAttempt'
    BY <1>6, <2>1 DEF Bury, Abandon
  <2>8. BatchPending'
    BY <1>6, <2>1 DEF Bury, Abandon
  <2> QED
    BY <2>2, <2>3, <2>4, <2>5, <2>6, <2>7, <2>8
<1>7. CASE AckDead
  <2>1. current \in BusMessages
    BY <1>7 DEF AckDead, NextMessage, Abandon
  <2>2. BusTypeOK'
    <3>1. attempt' \in 1..MaxAttempts /\ stage' \in Stages
      BY <1>7, <2>1 DEF AckDead, NextMessage, Abandon
    <3>2. busFaults' \in 0..BusFaults
      BY <1>7, <2>1 DEF AckDead, NextMessage, Abandon
    <3>3. current' \in 1..lastRead' + 1
      BY <1>7, <2>1 DEF AckDead, NextMessage, Abandon
    <3>4. calls' \in [BusMessages -> Nat]
      BY <1>7, <2>1 DEF AckDead, NextMessage, Abandon
    <3>5. pending' \subseteq BusMessages /\ dead' \subseteq BusMessages
      BY <1>7, <2>1 DEF AckDead, NextMessage, Abandon
    <3> QED
      BY <1>7, <3>1, <3>2, <3>3, <3>4, <3>5 DEF AckDead
  <2>3. HandInv'
    BY <1>7, <2>1 DEF AckDead, NextMessage, Abandon
  <2>4. OrderInv'
    BY <1>7, <2>1 DEF AckDead, NextMessage, Abandon
  <2>5. StageInv'
    BY <1>7, <2>1 DEF AckDead, NextMessage, Abandon
  <2>6. TraceInv'
    BY <1>7, <2>1 DEF AckDead, NextMessage, Abandon
  <2>7. HandledPerAttempt'
    BY <1>7, <2>1 DEF AckDead, NextMessage, Abandon
  <2>8. BatchPending'
    BY <1>7, <2>1 DEF AckDead, NextMessage, Abandon
  <2> QED
    BY <2>2, <2>3, <2>4, <2>5, <2>6, <2>7, <2>8
<1>8. CASE StopBus
  BY <1>8 DEF StopBus
<1>9. CASE StartBus
  BY <1>9 DEF StartBus
<1>10. CASE UNCHANGED busVars
  BY <1>10 DEF busVars
<1> QED
  BY <1>1, <1>2, <1>3, <1>4, <1>5, <1>6, <1>7, <1>8, <1>9, <1>10
     DEF BusNext, Consume

LEMMA BusInvariant == BusSpec => []BusInv
BY InitBusInv, NextBusInv, PTL DEF BusSpec

(* The event bus never acknowledges a message for nothing: what was neither
   handled nor buried is on the pending list or was cut off the stream,
   whatever fails and however often the process stops. *)
THEOREM NothingForNothing == BusSpec => []LostIsPendingOrCut
<1>1. BusInv => LostIsPendingOrCut
  BY DEF BusInv, TraceInv, LostIsPendingOrCut, Fate, InBatch, BusTypeOK,
         BusMessages
<1> QED
  BY <1>1, BusInvariant, PTL

(* No handler runs to its end for a message more often than there are
   attempts. *)
THEOREM AttemptsBound == BusSpec => []HandledPerAttempt
BY BusInvariant, PTL DEF BusInv

\* The three steps of Delivery, told of the bus.
LEMMA SendMaps ==
  ASSUME NEW m \in BusMessages, NEW S \in SUBSET BusMessages,
         Fate(m) = "unsent",
         \A k \in BusMessages : k < m => Fate(k) # "unsent",
         \A k \in S : Fate(k) = "queued",
         \A k \in BusMessages :
           Fate(k)' = IF k = m THEN "queued"
                      ELSE IF k \in S THEN "lost" ELSE Fate(k)
  PROVE  Promise!Next
<1>1. Promise!Send(m, S)
  BY DEF Promise!Send, Promise!Losing, Promise!Queued, Promise!Before
<1> QED
  BY <1>1 DEF Promise!Next

LEMMA SettleMaps ==
  ASSUME NEW m \in BusMessages, NEW end \in {"handled", "dead"},
         Fate(m) = "queued",
         \A k \in BusMessages : k < m => Fate(k) # "queued",
         \A k \in BusMessages : Fate(k)' = IF k = m THEN end ELSE Fate(k)
  PROVE  Promise!Next
<1>1. Promise!Settle(m, end)
  BY DEF Promise!Settle, Promise!Before
<1> QED
  BY <1>1 DEF Promise!Next

LEMMA LoseMaps ==
  ASSUME NEW S \in SUBSET BusMessages,
         \A k \in S : Fate(k) = "queued",
         \A k \in BusMessages :
           Fate(k)' = IF k \in S THEN "lost" ELSE Fate(k)
  PROVE  Promise!Next
<1>1. Promise!Lose(S)
  BY DEF Promise!Lose, Promise!Losing, Promise!Queued
<1> QED
  BY <1>1 DEF Promise!Next

\* Every step of the bus is one of these, or changes no fate.
LEMMA BusStepMaps ==
  ASSUME BusInv, [BusNext]_busVars
  PROVE  \/ Promise!Next
         \/ \A m \in BusMessages : Fate(m)' = Fate(m)
<1> USE BusParams
    DEF BusInv, BusTypeOK, HandInv, OrderInv, StageInv, InHand, InBatch,
        BusMessages, BusFault
<1>1. CASE Publish
  <2> PICK m : m = published + 1
    OBVIOUS
  <2> DEFINE S == {k \in BusMessages :
                     Fate(k) = "queued" /\ lastRead < k /\ k <= cut'}
  <2>1. m \in BusMessages /\ Fate(m) = "unsent"
    BY <1>1 DEF Publish, Fate
  <2>2. \A k \in BusMessages : k < m => Fate(k) # "unsent"
    BY <1>1 DEF Publish, Fate
  <2>3. cut' \in cut..published
    BY <1>1 DEF Publish
  <2>4. Fate(m)' = "queued"
    BY <1>1, <2>1, <2>3 DEF Publish, Fate
  <2>5. ASSUME NEW k \in BusMessages, k # m
        PROVE  Fate(k)' = IF k \in S THEN "lost" ELSE Fate(k)
    BY <1>1, <2>3, <2>5 DEF Publish, Fate
  <2> QED
    BY <2>1, <2>2, <2>4, <2>5, SendMaps
<1>2. CASE CreateGroup
  BY <1>2 DEF CreateGroup, Fate
<1>3. CASE ReadBatch
  BY <1>3 DEF ReadBatch, Readable, Unread, LastOf, Fate
\* The message in hand is handled, or buried.
<1>4. ASSUME NEW end \in {"handled", "dead"}, NEW c \in BusMessages,
             c = current, c <= lastRead,
             Fate(c) = "queued", Fate(c)' = end,
             \A k \in BusMessages : k # c => Fate(k)' = Fate(k)
      PROVE  Promise!Next
  <2>1. \A k \in BusMessages : k < c => Fate(k) # "queued"
    BY <1>4 DEF Fate
  <2> QED
    BY <1>4, <2>1, SettleMaps
\* The consumer lets go of what it has in hand.
<1>5. ASSUME current' = lastRead + 1,
             UNCHANGED <<published, cut, lastRead, calls, dead>>
      PROVE  Promise!Next
  <2> DEFINE S == {k \in BusMessages : Fate(k) = "queued" /\ InBatch(k)}
  <2>1. \A k \in BusMessages :
          Fate(k)' = IF k \in S THEN "lost" ELSE Fate(k)
    BY <1>5 DEF Fate
  <2> QED
    BY <2>1, LoseMaps
<1>6. CASE Handle
  <2> PICK c : c = current
    OBVIOUS
  <2>1. c \in BusMessages /\ c <= lastRead
    BY <1>6 DEF Handle
  <2>2. CASE UNCHANGED calls
    BY <1>6, <2>2 DEF Handle, AfterFailure, Fate
  <2>3. CASE calls' = [calls EXCEPT ![c] = @ + 1]
    <3>1. Fate(c)' = "handled"
      BY <1>6, <2>1, <2>3 DEF Handle, Fate
    <3>2. \A k \in BusMessages : k # c => Fate(k)' = Fate(k)
      BY <1>6, <2>1, <2>3 DEF Handle, Fate
    <3>3. Fate(c) \in {"handled", "queued"}
      BY <1>6, <2>1 DEF Handle, Fate
    <3> QED
      BY <1>4, <2>1, <3>1, <3>2, <3>3
  <2> QED
    BY <1>6, <2>2, <2>3 DEF Handle
<1>7. CASE Ack
  BY <1>7 DEF Ack, NextMessage, AfterFailure, Fate
<1>8. CASE Bury
  <2> PICK c : c = current
    OBVIOUS
  <2>1. c \in BusMessages /\ c <= lastRead
    BY <1>8 DEF Bury
  <2>2. CASE Abandon
    BY <1>5, <1>8, <2>2 DEF Bury, Abandon
  <2>3. CASE dead' = dead \cup {c} /\ UNCHANGED current
    <3>1. \A k \in BusMessages : k # c => Fate(k)' = Fate(k)
      BY <1>8, <2>1, <2>3 DEF Bury, Fate
    <3>2. CASE calls[c] = 0
      <4>1. Fate(c) = "queued" /\ Fate(c)' = "dead"
        BY <1>8, <2>1, <2>3, <3>2 DEF Bury, Fate
      <4> QED
        BY <1>4, <2>1, <3>1, <4>1
    <3>3. CASE calls[c] > 0
      <4>1. Fate(c)' = Fate(c)
        BY <1>8, <2>1, <2>3, <3>3 DEF Bury, Fate
      <4> QED
        BY <3>1, <4>1
    <3> QED
      BY <2>1, <3>2, <3>3
  <2> QED
    BY <1>8, <2>2, <2>3 DEF Bury
<1>9. CASE AckDead
  <2>1. CASE Abandon
    BY <1>5, <1>9, <2>1 DEF AckDead, Abandon
  <2>2. CASE NextMessage
    BY <1>9, <2>2 DEF AckDead, NextMessage, Fate
  <2> QED
    BY <1>9, <2>1, <2>2 DEF AckDead
<1>10. CASE StopBus
  BY <1>5, <1>10 DEF StopBus
<1>11. CASE StartBus \/ UNCHANGED busVars
  BY <1>11 DEF StartBus, busVars, Fate
<1> QED
  BY <1>1, <1>2, <1>3, <1>6, <1>7, <1>8, <1>9, <1>10, <1>11
     DEF BusNext, Consume

(* The bus delivers in the order of publication, one message at a time, and
   never takes back the fate of a message - through failing handlers, failing
   commands of Redis, a full stream and restarts, for any number of messages
   and attempts, and any sizes of batch and stream. *)
THEOREM BusKeepsDelivery == BusSpec => KeepsDelivery
<1>1. BusInit => Promise!Init
  BY BusParams DEF BusInit, Promise!Init, Fate, BusMessages
<1>2. BusInv /\ [BusNext]_busVars
        => [Promise!Next]_[m \in BusMessages |-> Fate(m)]
  BY BusStepMaps
<1> QED
  BY <1>1, <1>2, BusInvariant, PTL DEF BusSpec, KeepsDelivery, Promise!Spec

-----------------------------------------------------------------------------
(***************************************************************************)
(* The circuit breaker                                                     *)
(***************************************************************************)

\* Failures that are counted have happened.
BreakerInv ==
  /\ BreakerTypeOK
  /\ failureCount <= serviceFailed
  /\ ClosedHasRoom

(* A breaker that is closed has room for a failure: for any number of callers,
   any thresholds, and calls that come back however late - a success in the
   half-open state may be of a call from before the breaker opened. *)
THEOREM BreakerHasRoom == BreakerSpec => [](BreakerTypeOK /\ ClosedHasRoom)
<1> USE BreakerConstants DEF BreakerInv, BreakerTypeOK, ClosedHasRoom
<1>1. BreakerInit => BreakerInv
  BY DEF BreakerInit
<1>2. BreakerInv /\ [BreakerNext]_breakerVars => BreakerInv'
  <2> SUFFICES ASSUME BreakerInv, [BreakerNext]_breakerVars
               PROVE  BreakerInv'
    OBVIOUS
  <2>1. ASSUME NEW c \in Callers, Call(c) PROVE BreakerInv'
    BY <2>1 DEF Call
  <2>2. ASSUME NEW c \in Callers, Succeed(c) PROVE BreakerInv'
    BY <2>2 DEF Succeed, Proven, Reset
  <2>3. ASSUME NEW c \in Callers, Fail(c) PROVE BreakerInv'
    BY <2>3 DEF Fail
  <2>4. CASE BreakerClock
    BY <2>4 DEF BreakerClock
  <2>5. CASE UNCHANGED breakerVars
    BY <2>5 DEF breakerVars
  <2> QED
    BY <2>1, <2>2, <2>3, <2>4, <2>5 DEF BreakerNext
<1> QED
  BY <1>1, <1>2, PTL DEF BreakerSpec

-----------------------------------------------------------------------------
(***************************************************************************)
(* The budget of the grid's calls                                          *)
(***************************************************************************)

\* Calls that are as good as allowed: whoever made the counter 1 has yet to
\* set the window's end.
Owed == IF toExpire # {} /\ Within(1) THEN 1 ELSE 0

\* One task at most is to set the window's end, and until it has done so the
\* key does not run out.
ExpireInv ==
  /\ \A p, q \in toExpire : p = q
  /\ toExpire # {} => counter > 0 /\ ttl = NoExpiry
  /\ counter = 0 => ttl = NoExpiry

\* What was allowed, and what is owed, was counted.
CountedInv ==
  /\ granted + Owed <= counter + failOpen
  /\ granted + Owed <= MaxCalls + failOpen

LimiterInv ==
  /\ LimiterTypeOK /\ failOpen <= limiterFaults
  /\ ExpireInv /\ CountedInv

(* Between two expiries of the counter no more calls are allowed than the
   budget has, but for those let through because Redis failed: for any number
   of tasks and any budget, though INCR and EXPIRE are two commands. *)
THEOREM BudgetIsKept == LimiterSpec => []BudgetKept
<1> USE LimiterConstants
    DEF LimiterInv, LimiterTypeOK, ExpireInv, CountedInv, Owed, Within,
        NoExpiry, LimiterFault, Grant
<1>1. LimiterInit => LimiterInv
  BY DEF LimiterInit
<1>2. LimiterInv /\ [LimiterNext]_limiterVars => LimiterInv'
  <2> SUFFICES ASSUME LimiterInv, [LimiterNext]_limiterVars
               PROVE  LimiterInv'
    OBVIOUS
  <2>1. ASSUME NEW p \in Submitters, Acquire(p) PROVE LimiterInv'
    BY <2>1 DEF Acquire, SetsExpiry
  <2>2. ASSUME NEW p \in Submitters, AcquireFails(p) PROVE LimiterInv'
    BY <2>2 DEF AcquireFails
  <2>3. ASSUME NEW p \in Submitters, SetExpire(p) PROVE LimiterInv'
    BY <2>3 DEF SetExpire
  <2>4. ASSUME NEW p \in Submitters, ExpireFails(p) PROVE LimiterInv'
    BY <2>4 DEF ExpireFails
  <2>5. CASE LimiterClock
    BY <2>5 DEF LimiterClock
  <2>6. CASE UNCHANGED limiterVars
    BY <2>6 DEF limiterVars
  <2> QED
    BY <2>1, <2>2, <2>3, <2>4, <2>5, <2>6 DEF LimiterNext
<1>3. LimiterInv => BudgetKept
  BY DEF BudgetKept
<1> QED
  BY <1>1, <1>2, <1>3, PTL DEF LimiterSpec

-----------------------------------------------------------------------------
(***************************************************************************)
(* The life of the worker                                                  *)
(***************************************************************************)

\* Entries are sent and tracked while the orchestrator's consumer runs, with
\* an adapter as long as the pool is open.
SendInv ==
  /\ step \notin Trading => sending = {} /\ tracked = {}
  /\ sending # {} => adapters \/ step = "closed"
  /\ step = "closed" => ~adapters

\* What the recovery read is in the books, and books and table stay together.
BooksInv == step \in Recovered => rows = books \/ "positions" \notin restored

\* A switch that is set has stopped the worker, or the news is on its way.
HeedInv ==
  keyOn /\ step \in Recovered \ Leaving =>
    stopped \/ news \/ "switch" \notin restored

\* What stands at the exchange is in reach of the sweep, or excused.
SweepInv ==
  /\ step \in {"down", "closed"} => standing \subseteq excused
  /\ step \notin {"sweeping", "closed"} =>
       standing \subseteq excused \cup tracked
  /\ step = "sweeping" => standing \subseteq excused \cup snap
  /\ step \in {"sweeping", "closed"} => sending \subseteq excused

WorkerInv == WorkerTypeOK /\ SendInv /\ BooksInv /\ HeedInv /\ SweepInv

LEMMA InitWorkerInv == WorkerInit => WorkerInv
BY WorkerAssumption
   DEF WorkerInit, WorkerInv, WorkerTypeOK, SendInv, BooksInv, HeedInv,
       SweepInv, Listening, Leaving, Trading, Recovered

LEMMA NextWorkerInv == WorkerInv /\ [WorkerNext]_workerVars => WorkerInv'
<1> SUFFICES ASSUME WorkerInv, [WorkerNext]_workerVars PROVE WorkerInv'
  OBVIOUS
<1> USE WorkerAssumption
    DEF WorkerInv, WorkerTypeOK, SendInv, BooksInv, HeedInv, SweepInv,
        Listening, Leaving, Trading, Recovered, streamVars, bookVars,
        orderVars
<1>1. CASE \E c \in Configs : LaunchWorker(c)
  BY <1>1 DEF LaunchWorker
<1>2. CASE \/ StartRemoteSync \/ StartStrategies \/ StartGuards
           \/ StartFeed \/ SubscribeOrchestrator \/ ComeUp
  <2>1. CASE StartRemoteSync \/ StartStrategies
    BY <2>1 DEF StartRemoteSync, StartStrategies, Step
  <2>2. CASE StartGuards
    BY <2>2 DEF StartGuards, Step
  <2>3. CASE StartFeed
    BY <2>3 DEF StartFeed, Step
  <2>4. CASE SubscribeOrchestrator
    BY <2>4 DEF SubscribeOrchestrator, Step
  <2>5. CASE ComeUp
    BY <2>5 DEF ComeUp, Step
  <2> QED
    BY <1>2, <2>1, <2>2, <2>3, <2>4, <2>5
<1>3. CASE \E read \in SUBSET {"positions", "switch"} : RecoverAfterCrash(read)
  <2>1. WorkerTypeOK'
    BY <1>3 DEF RecoverAfterCrash
  <2>2. SendInv'
    BY <1>3 DEF RecoverAfterCrash
  <2>3. BooksInv'
    BY <1>3 DEF RecoverAfterCrash
  <2>4. HeedInv'
    <3> PICK read \in SUBSET {"positions", "switch"} : RecoverAfterCrash(read)
      BY <1>3
    <3>1. "switch" \in read /\ keyOn => stopped'
      BY Zenon DEF RecoverAfterCrash
    <3>2. keyOn' = keyOn /\ restored' = read
      BY DEF RecoverAfterCrash
    <3> QED
      BY <3>1, <3>2, Zenon DEF HeedInv
  <2>5. SweepInv'
    BY <1>3 DEF RecoverAfterCrash
  <2> QED
    BY <2>1, <2>2, <2>3, <2>4, <2>5
<1>4. CASE StopServices \/ StopFeed
  BY <1>4 DEF StopServices, StopFeed, Step
<1>5. CASE BeginSweep
  BY <1>5 DEF BeginSweep
<1>6. CASE \E o \in Entries : CancelSwept(o)
  BY <1>6 DEF CancelSwept
<1>7. CASE ClosePool
  BY <1>7 DEF ClosePool
<1>8. CASE \E reached \in SUBSET Entries : CloseBus(reached)
  BY <1>8 DEF CloseBus, Gone
<1>9. CASE \E reached \in SUBSET Entries : Die(reached)
  BY <1>9 DEF Die, Gone
<1>10. CASE Signal \/ PublishCandle
  <2>1. CASE Signal
    BY <2>1 DEF Signal
  <2>2. CASE PublishCandle
    BY <2>2 DEF PublishCandle
  <2> QED
    BY <1>10, <2>1, <2>2
<1>11. CASE \E decided \in SUBSET Entries : OnCandleEvent(decided)
  <2>1. WorkerTypeOK'
    BY <1>11 DEF OnCandleEvent
  <2>2. SendInv'
    BY <1>11 DEF OnCandleEvent
  <2>3. BooksInv'
    BY <1>11 DEF OnCandleEvent
  <2>4. HeedInv'
    BY <1>11 DEF OnCandleEvent
  <2>5. SweepInv'
    BY <1>11 DEF OnCandleEvent
  <2> QED
    BY <2>1, <2>2, <2>3, <2>4, <2>5
<1>12. CASE \E o \in Entries : Answered(o)
  BY <1>12 DEF Answered
<1>13. CASE \E o \in Entries : FillEntry(o)
  BY <1>13 DEF FillEntry
<1>14. CASE TriggerRemotely \/ ApplyRemoteState
  <2>1. CASE TriggerRemotely
    <3>1. step \in Recovered \ Leaving => news'
      BY <2>1 DEF TriggerRemotely
    <3>2. HeedInv'
      BY <2>1, <3>1 DEF TriggerRemotely
    <3> QED
      BY <2>1, <3>2 DEF TriggerRemotely
  <2>2. CASE ApplyRemoteState
    BY <2>2 DEF ApplyRemoteState
  <2> QED
    BY <1>14, <2>1, <2>2
<1>15. CASE \E kept \in SUBSET Entries : OnKillSwitchEvent(kept)
  BY <1>15 DEF OnKillSwitchEvent, Guarded
<1>16. CASE UNCHANGED workerVars
  BY <1>16 DEF workerVars
<1> QED
  BY <1>1, <1>2, <1>3, <1>4, <1>5, <1>6, <1>7, <1>8, <1>9, <1>10, <1>11,
     <1>12, <1>13, <1>14, <1>15, <1>16
     DEF WorkerNext, StartupNext, ShutdownNext

LEMMA WorkerInvariant == WorkerSpec => []WorkerInv
BY InitWorkerInv, NextWorkerInv, PTL DEF WorkerSpec

(* What stands at the exchange after a shutdown that went through was sent or
   answered too late for the sweep of the in-flight table, could not be
   cancelled, or was left by an earlier worker that died - for any entries and
   any number of starts. *)
THEOREM SweepIsComplete == WorkerSpec => []SweptUnlessLate
<1>1. WorkerInv => SweptUnlessLate
  BY DEF WorkerInv, SweepInv, SweptUnlessLate
<1> QED
  BY <1>1, WorkerInvariant, PTL

(* No entry is sent on books that miss a position of the table, unless the
   recovery failed to read it. *)
THEOREM BooksBeforeEntries == WorkerSpec => []TradesOnRestoredBooks
<1>1. WorkerInv => TradesOnRestoredBooks
  BY DEF WorkerInv, SendInv, BooksInv, TradesOnRestoredBooks, Recovered
<1> QED
  BY <1>1, WorkerInvariant, PTL

(* With the switch on in Redis an entry is decided only while the news of it
   is on its way, on a worker that is leaving, or on one that could not read
   the switch; and a liquidation that is handled leaves nothing open, but for
   the cases its property names. *)
THEOREM SwitchIsHeeded ==
  WorkerSpec => [][EntriesHeedSwitch /\ LiquidationIsComplete]_workerVars
<1>1. ASSUME WorkerInv, [WorkerNext]_workerVars,
             NEW o, o \in sending' \ sending
      PROVE  OnCandleEvent(sending')
  BY <1>1
     DEF WorkerNext, StartupNext, ShutdownNext, LaunchWorker, Step,
         StartRemoteSync, StartStrategies, StartGuards, RecoverAfterCrash,
         StartFeed, SubscribeOrchestrator, ComeUp, StopServices, StopFeed,
         BeginSweep, CancelSwept, ClosePool, CloseBus, Die, Gone, Signal,
         PublishCandle, OnCandleEvent, Answered, FillEntry, TriggerRemotely,
         ApplyRemoteState, OnKillSwitchEvent, workerVars, orderVars
<1>2. ASSUME WorkerInv, [WorkerNext]_workerVars PROVE EntriesHeedSwitch
  <2> SUFFICES ASSUME NEW o \in sending' \ sending, keyOn
               PROVE  news \/ step \in Leaving \/ "switch" \notin restored
    BY DEF EntriesHeedSwitch
  <2>1. OnCandleEvent(sending') /\ sending' # {}
    BY <1>1, <1>2
  <2>2. step \in Trading /\ ~stopped
    BY <2>1 DEF OnCandleEvent
  <2> QED
    BY <1>2, <2>2 DEF WorkerInv, HeedInv, Trading, Recovered
<1>3. ASSUME WorkerInv, [WorkerNext]_workerVars PROVE LiquidationIsComplete
  <2> SUFFICES ASSUME request, ~request' PROVE LiquidationIsComplete
    BY DEF LiquidationIsComplete
  <2>1. PICK kept \in SUBSET Entries : OnKillSwitchEvent(kept)
    BY <1>3
       DEF WorkerNext, StartupNext, ShutdownNext, LaunchWorker, Step,
           StartRemoteSync, StartStrategies, StartGuards, RecoverAfterCrash,
           StartFeed, SubscribeOrchestrator, ComeUp, StopServices, StopFeed,
           BeginSweep, CancelSwept, ClosePool, CloseBus, Die, Gone, Signal,
           PublishCandle, OnCandleEvent, Answered, FillEntry, TriggerRemotely,
           ApplyRemoteState, workerVars, streamVars
  <2>2. CASE adapters /\ kept = {}
    BY <1>3, <2>1, <2>2
       DEF OnKillSwitchEvent, WorkerInv, BooksInv, LiquidationIsComplete
  <2>3. CASE adapters /\ kept # {}
    BY <1>3, <2>1, <2>3, WorkerAssumption
       DEF OnKillSwitchEvent, WorkerInv, WorkerTypeOK, LiquidationIsComplete
  <2>4. CASE ~adapters
    BY <2>4 DEF LiquidationIsComplete
  <2> QED
    BY <2>2, <2>3, <2>4
<1> QED
  BY <1>2, <1>3, WorkerInvariant, PTL DEF WorkerSpec

-----------------------------------------------------------------------------
(***************************************************************************)
(* The protection of a position                                            *)
(***************************************************************************)

LevelRecords ==
  [stop : Int, target : Int, until : Nat,
   regime : {"none", "ranging", "trending"}]

\* Positions, in the books, in a row or in the copy a task holds.
PositionRecords ==
  [id : 1..opened, side : {1, -1}, qty : {1, 2}, price : Nat,
   since : 0..LastTick, levels : LevelRecords]

\* Levels lie around the entry, on the position's side.
Bracketed(p) ==
  p.levels # NoLevels =>
    /\ p.side * p.levels.stop < p.side * EntryPrice
    /\ p.side * (p.levels.target - EntryPrice) >= CostTicks
    /\ p.levels.until = p.since + Holding

PlacesInv ==
  \A p \in {held, row, copy} :
    p # Flat => p \in PositionRecords /\ Bracketed(p)

\* The row of the position in the books has its levels, or none yet; the copy
\* about to be saved has them; and the row is there when they are given.
SameLevels ==
  /\ IsHeld /\ row # Flat /\ row.id = held.id =>
       row.levels \in {held.levels, NoLevels}
  /\ IsHeld /\ copy # Flat => copy.id = held.id /\ copy.levels = held.levels
  /\ IsHeld /\ trader = "protected" /\ writeFaults = 0 =>
       row # Flat /\ row.levels \in {held.levels, NoLevels}

\* Where the orchestrator stands, and what that means for the levels.
TraderInv ==
  /\ trader \in {"idle", "opened", "protected", "repriced"}
  /\ trader = "opened" =>
       IsHeld /\ guard = "idle" /\ held.levels = NoLevels
  /\ copy = Flat <=> trader \in {"idle", "opened"}

CountsInv ==
  /\ exposure \in 0..2 /\ regimeNow \in MarketRegimes
  /\ offered \in [stop : Nat, target : Nat,
                  regime : {"none", "ranging", "trending"}]
  /\ opened \in Nat /\ clockNow \in 0..LastTick
  /\ writeFaults \in Nat /\ restarts \in Nat

ProtectionInv ==
  /\ PlacesInv /\ SameLevels /\ TraderInv /\ CountsInv
  /\ OpenedIsProtected /\ RowKnowsLevels

LEMMA ProtectionParams ==
  /\ EntryPrice \in Nat /\ Prices \subseteq Nat /\ Proposed \subseteq Nat
  /\ StopTicks \in Nat /\ StopTicks > 0
  /\ TargetTicks \in Nat /\ TargetTicks > 0
  /\ Holding \in Nat /\ Holding > 0
  /\ CostTicks \in Nat /\ Cutover \in Nat /\ LastTick \in Nat
  /\ Openings \in Nat /\ WriteFaults \in Nat /\ OrderFaults \in Nat
  /\ Restarts \in Nat
BY ProtectionAssumption

\* The levels the hook gives to a position: they bracket its entry, whatever
\* was proposed, and are there for every position since the cutover.
LEMMA LevelsOf ==
  ASSUME NEW p \in PositionRecords, opened \in Nat,
         NEW offer \in [stop : Nat, target : Nat,
                       regime : {"none", "ranging", "trending"}]
  PROVE  /\ Levels(p, offer) \in LevelRecords
         /\ p.since >= Cutover => Levels(p, offer) # NoLevels
         /\ Levels(p, offer) # NoLevels =>
              LET l == Levels(p, offer)
              IN  /\ p.side * l.stop < p.side * EntryPrice
                  /\ p.side * (l.target - EntryPrice) >= CostTicks
                  /\ l.until = p.since + Holding
<1> USE ProtectionParams DEF PositionRecords, LevelRecords
<1> PICK side \in {1, -1} : side = p.side
  OBVIOUS
<1> DEFINE c == Chosen(side, offer)
<1>1. /\ c.stop \in Int /\ c.target \in Int
      /\ side * c.stop < side * EntryPrice
  <2>1. CASE side = 1
    BY <2>1 DEF Chosen, Sound
  <2>2. CASE side = -1
    BY <2>2 DEF Chosen, Sound
  <2> QED
    BY <2>1, <2>2
<1> PICK stop \in Int, goal \in Int : stop = c.stop /\ goal = c.target
  BY <1>1
<1> HIDE DEF c
<1> DEFINE g == CostGuard(side, goal)
<1>2. g \in Int /\ side * (g - EntryPrice) >= CostTicks
  <2>1. CASE side = 1
    BY <2>1 DEF CostGuard
  <2>2. CASE side = -1
    BY <2>2 DEF CostGuard
  <2> QED
    BY <2>1, <2>2
<1> DEFINE l == [stop |-> stop, target |-> g, until |-> p.since + Holding,
                 regime |-> offer.regime]
<1>3. Levels(p, offer) = IF p.since < Cutover THEN NoLevels ELSE l
  BY DEF Levels, c
<1> HIDE DEF g
<1>4. l \in LevelRecords /\ NoLevels \in LevelRecords
  BY <1>2 DEF NoLevels
<1>5. l # NoLevels
  BY DEF NoLevels
<1> QED
  BY <1>1, <1>2, <1>3, <1>4, <1>5

LEMMA FlatIsNone == Flat \notin PositionRecords
BY DEF Flat, PositionRecords

LEMMA InitProtectionInv == ProtectionInit => ProtectionInv
<1> USE ProtectionParams
    DEF ProtectionInit, ProtectionInv, PlacesInv, SameLevels, TraderInv,
        CountsInv, OpenedIsProtected, RowKnowsLevels, IsHeld, NoOffer,
        MarketRegimes
<1> QED
  OBVIOUS

LEMMA NextProtectionInv ==
  ProtectionInv /\ [ProtectionNext]_protectionVars => ProtectionInv'
<1> SUFFICES ASSUME ProtectionInv, [ProtectionNext]_protectionVars
             PROVE  ProtectionInv'
  OBVIOUS
<1> USE ProtectionParams, FlatIsNone
    DEF ProtectionInv, PlacesInv, SameLevels, TraderInv, CountsInv,
        OpenedIsProtected, RowKnowsLevels, IsHeld, IsProtected, Bracketed,
        MarketRegimes, PositionRecords
<1>1. CASE \E side \in {1, -1}, offer \in Offers : OpenProtected(side, offer)
  <2> PICK side \in {1, -1}, offer \in Offers : OpenProtected(side, offer)
    BY <1>1
  <2>1. /\ held' \in PositionRecords' /\ held'.levels = NoLevels
        /\ held'.id = opened + 1 /\ held' # Flat
    BY DEF OpenProtected, NoLevels, LevelRecords, Flat
  <2>2. PlacesInv'
    BY <2>1 DEF OpenProtected
  <2>3. SameLevels'
    BY <2>1 DEF OpenProtected
  <2>4. TraderInv'
    BY <2>1 DEF OpenProtected
  <2>5. CountsInv'
    <3>1. offer \in [stop : Nat, target : Nat,
                    regime : {"none", "ranging", "trending"}]
      BY DEF Offers
    <3> QED
      BY <3>1 DEF OpenProtected
  <2>6. OpenedIsProtected' /\ RowKnowsLevels'
    BY DEF OpenProtected
  <2> QED
    BY <2>2, <2>3, <2>4, <2>5, <2>6
<1>2. CASE Protect
  BY <1>2, LevelsOf DEF Protect, Write, NoOffer
<1>3. CASE SaveLevels
  <2>1. PlacesInv'
    BY <1>3 DEF SaveLevels, WriteCopy, Write
  <2>2. SameLevels'
    BY <1>3 DEF SaveLevels, WriteCopy, Write
  <2>3. TraderInv' /\ CountsInv'
    BY <1>3 DEF SaveLevels, WriteCopy, Write
  <2>4. OpenedIsProtected'
    BY <1>3 DEF SaveLevels, WriteCopy, Write
  <2>5. RowKnowsLevels'
    BY <1>3 DEF SaveLevels, WriteCopy, Write
  <2> QED
    BY <2>1, <2>2, <2>3, <2>4, <2>5
<1>4. CASE \E p \in Prices : UpdatePrices(p)
  BY <1>4 DEF UpdatePrices
<1>5. CASE SavePrices
  BY <1>5 DEF SavePrices, WriteCopy, Write
<1>6. CASE \E r \in MarketRegimes : SaveRegime(r)
  BY <1>6 DEF SaveRegime
<1>7. CASE CheckPositionsOnce
  BY <1>7 DEF CheckPositionsOnce, ExitReason, TakeProfit, StopLoss,
              RegimeExit, Overdue, NoLevels
<1>8. CASE \E qty \in {1, 2} : CloseFills(qty)
  BY <1>8 DEF CloseFills, Write
<1>9. CASE CloseFails
  BY <1>9 DEF CloseFails
<1>10. CASE RestoreFromPersistence
  BY <1>10 DEF RestoreFromPersistence, NoOffer
<1>11. CASE ProtectionClock
  BY <1>11 DEF ProtectionClock
<1>12. CASE UNCHANGED protectionVars
  BY <1>12 DEF protectionVars
<1> QED
  BY <1>1, <1>2, <1>3, <1>4, <1>5, <1>6, <1>7, <1>8, <1>9, <1>10, <1>11,
     <1>12 DEF ProtectionNext

LEMMA ProtectionInvariant == ProtectionSpec => []ProtectionInv
BY InitProtectionInv, NextProtectionInv, PTL DEF ProtectionSpec

(* The levels of a protected position bracket its entry and pay for the round
   trip, whatever a strategy proposed (_extract_strategy_prices,
   _apply_cost_guard, sgr/risk/position_protection.py). *)
THEOREM LevelsAreAroundEntry == ProtectionSpec => []LevelsBracket
<1>1. ProtectionInv => LevelsBracket
  BY DEF ProtectionInv, PlacesInv, LevelsBracket, IsProtected, Bracketed
<1> QED
  BY <1>1, ProtectionInvariant, PTL

(* A position opened after the cutover has its levels once its opening is done,
   if no write failed and nothing restarted; and the row has the levels of the
   books when no write is under way (the hook of position_protection.py, the
   second write of portfolio/engine.py). *)
THEOREM OpeningProtects ==
  ProtectionSpec => [](OpenedIsProtected /\ RowKnowsLevels)
<1>1. ProtectionInv => OpenedIsProtected /\ RowKnowsLevels
  BY DEF ProtectionInv
<1> QED
  BY <1>1, ProtectionInvariant, PTL

(* A position keeps its levels and its deadline through repricing and partial
   closes; only a restart takes them, from a position whose row has none
   (update_prices, _update_position and restore_from_persistence of
   portfolio/engine.py). *)
THEOREM LevelsAreKept == ProtectionSpec => [][KeepsLevels]_protectionVars
<1>1. ProtectionInv /\ [ProtectionNext]_protectionVars
        => [KeepsLevels]_protectionVars
  <2> SUFFICES ASSUME ProtectionInv, ProtectionNext,
                      IsProtected(held), held' # Flat, held'.id = held.id,
                      held'.levels # held.levels
               PROVE  restarts' > restarts /\ row.levels = NoLevels
    BY DEF KeepsLevels
  <2> USE FlatIsNone
      DEF ProtectionInv, PlacesInv, SameLevels, TraderInv, CountsInv, IsHeld,
          IsProtected, PositionRecords
  <2>1. CASE \E side \in {1, -1}, offer \in Offers :
               OpenProtected(side, offer)
    BY <2>1 DEF OpenProtected
  <2>2. CASE Protect
    BY <2>2 DEF Protect
  <2>3. CASE SaveLevels \/ SavePrices \/ CheckPositionsOnce \/ CloseFails
               \/ ProtectionClock \/ \E r \in MarketRegimes : SaveRegime(r)
    BY <2>3 DEF SaveLevels, SavePrices, CheckPositionsOnce, CloseFails,
                ProtectionClock, SaveRegime
  <2>4. CASE \E p \in Prices : UpdatePrices(p)
    BY <2>4 DEF UpdatePrices
  <2>5. CASE \E qty \in {1, 2} : CloseFills(qty)
    BY <2>5 DEF CloseFills
  <2>6. CASE RestoreFromPersistence
    <3>1. row # Flat /\ row.id = held.id /\ row.levels # held.levels
      BY <2>6 DEF RestoreFromPersistence
    <3> QED
      BY <3>1, <2>6 DEF RestoreFromPersistence
  <2> QED
    BY <2>1, <2>2, <2>3, <2>4, <2>5, <2>6 DEF ProtectionNext
<1> QED
  BY <1>1, ProtectionInvariant, PTL DEF ProtectionSpec

-----------------------------------------------------------------------------
(***************************************************************************)
(* The universe of feeds                                                   *)
(***************************************************************************)

\* Feeds and tasks, and where a reconciliation stands between them.
FeedsInv ==
  /\ engine \in {"down", "up", "stopping"}
  /\ pollers \subseteq feeds /\ starting \subseteq feeds
  /\ engine = "up" => pollers \cup starting = feeds
  /\ engine # "up" => target = NoTarget /\ starting = {}
  /\ target # NoTarget => starting = {}

\* The curated symbols are in every set that is to be established.
CuratedInv ==
  HasBinance =>
    /\ engine = "up" => Curated \subseteq pollers
    /\ target # NoTarget => Curated \subseteq target

UniverseInv == FeedsInv /\ CuratedInv

LEMMA UniverseInvariant == UniverseSpec => []UniverseInv
<1>1. UniverseInit => UniverseInv
  BY DEF UniverseInit, UniverseInv, FeedsInv, CuratedInv
<1>2. UniverseInv /\ [UniverseNext]_universeVars => UniverseInv'
  <2> SUFFICES ASSUME UniverseInv, [UniverseNext]_universeVars
               PROVE  UniverseInv'
    OBVIOUS
  <2> USE DEF UniverseInv, FeedsInv, CuratedInv
  <2>1. CASE StartFeeds
    BY <2>1 DEF StartFeeds
  <2>2. CASE Reconcile
    BY <2>2 DEF Reconcile, Remaining
  <2>3. CASE Launch
    BY <2>3 DEF Launch, Launched
  <2>4. CASE LoseCallback
    BY <2>4 DEF LoseCallback
  <2>5. CASE StopUniverse \/ StopFeeds
    BY <2>5 DEF StopUniverse, StopFeeds
  <2>6. CASE \E s \in Markets : List(s)
    BY <2>6 DEF List
  <2>7. CASE \E ok \in BOOLEAN : Discover(ok)
    BY <2>7 DEF Discover, Subscribed
  <2>8. CASE UNCHANGED universeVars
    BY <2>8 DEF universeVars
  <2> QED
    BY <2>1, <2>2, <2>3, <2>4, <2>5, <2>6, <2>7, <2>8 DEF UniverseNext
<1> QED
  BY <1>1, <1>2, PTL DEF UniverseSpec

(* Every task that polls has a feed, and every feed of a running engine a task
   unless a reconciliation is starting it (reconcile_subscriptions of
   market_data/engine.py, with the engine's stop between its two halves). *)
THEOREM FeedsHaveTasks == UniverseSpec => []FeedsArePolled
<1>1. UniverseInv => FeedsArePolled
  BY DEF UniverseInv, FeedsInv, FeedsArePolled
<1> QED
  BY <1>1, UniverseInvariant, PTL

(* A worker that has a Binance adapter polls the curated symbols whatever the
   exchange lists or fails to list (the callback in api/main.py). Without the
   adapter the set that is subscribed to is empty. *)
THEOREM CuratedArePolled ==
  UniverseSpec => [](HasBinance => CuratedStayPolled)
<1>1. UniverseInv => (HasBinance => CuratedStayPolled)
  BY DEF UniverseInv, CuratedInv, CuratedStayPolled
<1> QED
  BY <1>1, UniverseInvariant, PTL

-----------------------------------------------------------------------------
(***************************************************************************)
(* What the API tells of a worker                                          *)
(***************************************************************************)

\* The health in Redis: present as long as its time to live is above zero, and
\* as old as what has run off it.
HealthKeyInv ==
  /\ health.ttl \in 0..HealthTtl
  /\ health = NoHealth <=> health.ttl = 0
  /\ IsHealthy(health) =>
       /\ fedAgo + health.ttl <= HealthTtl
       /\ reachedAgo + health.ttl <= HealthTtl

\* A collection under way.
CollectInv ==
  /\ {monitored, due} \subseteq BOOLEAN
  /\ pinged \in {"no", "answered", "failed"}
  /\ due => monitored
  /\ pinged # "no" => due

\* What the history says of the moment.
AgoInv ==
  /\ fedAgo \in Nat /\ reachedAgo \in Nat /\ misses \in Nat
  /\ fed => fedAgo = 0
  /\ reachable => reachedAgo = 0
  /\ pinged = "answered" => reachedAgo = 0

\* What has run off the key since the last publish that worked.
AliveInv ==
  monitored /\ shown =>
    HealthTtl <= health.ttl + misses + IF due THEN 1 ELSE 0

HealthInv == HealthKeyInv /\ CollectInv /\ AgoInv /\ AliveInv

LEMMA HealthInvariant == HealthSpec => []HealthInv
<1>1. HealthInit => HealthInv
  <2> SUFFICES ASSUME HealthInit PROVE HealthInv
    OBVIOUS
  <2> USE HealthAssumption DEF HealthInit
  <2>1. HealthKeyInv
    BY DEF HealthKeyInv, NoHealth, IsHealthy
  <2>2. CollectInv
    BY DEF CollectInv
  <2>3. AgoInv
    BY DEF AgoInv
  <2>4. AliveInv
    BY DEF AliveInv
  <2> QED
    BY <2>1, <2>2, <2>3, <2>4 DEF HealthInv
<1>2. HealthInv /\ [HealthNext]_healthVars => HealthInv'
  <2> SUFFICES ASSUME HealthInv, [HealthNext]_healthVars
               PROVE  HealthInv'
    OBVIOUS
  <2> USE HealthAssumption
      DEF HealthInv, HealthKeyInv, CollectInv, AgoInv, AliveInv, NoHealth,
          IsHealthy, requestVars, historyVars, monitorVars
  <2>1. CASE \E feeding \in BOOLEAN : StartMonitoring(feeding)
    BY <2>1 DEF StartMonitoring
  <2>2. CASE StopMonitoring
    BY <2>2 DEF StopMonitoring
  <2>3. CASE Collect
    BY <2>3 DEF Collect
  <2>4. CASE PublishWorkerHealth
    <3>1. CollectInv'
      BY <2>4, Zenon DEF PublishWorkerHealth
    <3>2. misses' \in Nat
      BY <2>4 DEF PublishWorkerHealth
    <3>3. CollectInv' /\ AgoInv'
      BY <2>4, <3>1, <3>2 DEF PublishWorkerHealth
    <3>4. HealthKeyInv' /\ AliveInv'
      <4>1. CASE UNCHANGED <<health, shown>>
        BY <2>4, <4>1 DEF PublishWorkerHealth
      <4>2. CASE health' = [ttl |-> HealthTtl,
                            exchange |-> pinged = "answered", feed |-> fed]
        <5>1. /\ health'.ttl = HealthTtl /\ health' # NoHealth
              /\ health'.exchange => pinged = "answered"
              /\ health'.feed => fed
          BY <4>2
        <5>2. due' = FALSE /\ fedAgo' = fedAgo /\ reachedAgo' = reachedAgo
          BY <2>4 DEF PublishWorkerHealth
        <5>3. HealthKeyInv'
          BY <5>1, <5>2
        <5>4. AliveInv'
          <6>1. health'.ttl \in Nat /\ health'.ttl >= HealthTtl
            BY <5>1
          <6> QED
            BY <3>2, <5>2, <6>1
        <5> QED
          BY <5>3, <5>4
      <4> QED
        BY <2>4, <4>1, <4>2 DEF PublishWorkerHealth
    <3> QED
      BY <3>3, <3>4
  <2>5. CASE HealthClock
    <3>1. /\ fedAgo' \in Nat /\ reachedAgo' \in Nat
          /\ fed => fedAgo' = 0
          /\ reachable => reachedAgo' = 0
          /\ fedAgo' <= fedAgo + 1 /\ reachedAgo' <= reachedAgo + 1
      BY <2>5 DEF HealthClock, Aged
    <3>2. CollectInv' /\ AgoInv'
      BY <2>5, <3>1 DEF HealthClock
    <3>3. CASE health.ttl <= 1
      BY <2>5, <3>1, <3>2, <3>3 DEF HealthClock, Expired
    <3>4. CASE health.ttl > 1
      BY <2>5, <3>1, <3>2, <3>4 DEF HealthClock, Expired
    <3> QED
      BY <3>3, <3>4
  <2>6. CASE ExchangeChanges
    BY <2>6 DEF ExchangeChanges
  <2>7. CASE SwitchChanges \/ ReadKillSwitchState \/ HealthTrading
    BY <2>7 DEF SwitchChanges, ReadKillSwitchState, HealthTrading
  <2>8. CASE UNCHANGED healthVars
    BY <2>8 DEF healthVars
  <2> QED
    BY <2>1, <2>2, <2>3, <2>4, <2>5, <2>6, <2>7, <2>8 DEF HealthNext
<1> QED
  BY <1>1, <1>2, PTL DEF HealthSpec

(* The health of a worker that runs stays readable from its first publish on,
   as long as fewer publishes fail in a row than the time to live lasts
   (worker_health.py and the loop of monitoring/engine.py). *)
THEOREM RunningWorkerIsSeen == HealthSpec => []AliveIsSeen
<1>1. HealthInv => AliveIsSeen
  BY HealthAssumption
     DEF HealthInv, HealthKeyInv, CollectInv, AgoInv, AliveInv, AliveIsSeen,
         NoHealth
<1> QED
  BY <1>1, HealthInvariant, PTL

(* Orders are only reported as admitted on news no older than the time to live,
   however the request's two reads fall between the changes (GET
   /health/trading of api/routers/health.py). *)
THEOREM AdmissionOnRecentNews ==
  HealthSpec => [][AdmissionIsRecent]_healthVars
<1>1. HealthInv /\ [HealthNext]_healthVars => [AdmissionIsRecent]_healthVars
  <2> SUFFICES ASSUME HealthInv, HealthNext, answer' # answer,
                      answer'.admitted
               PROVE  fedAgo <= HealthTtl /\ reachedAgo <= HealthTtl
    BY DEF AdmissionIsRecent
  <2>1. HealthTrading
    BY DEF HealthNext, StartMonitoring, StopMonitoring, Collect,
           PublishWorkerHealth, HealthClock, ExchangeChanges, SwitchChanges,
           ReadKillSwitchState, NotAdmitted, requestVars
  <2>2. IsHealthy(health)
    BY <2>1 DEF HealthTrading, Admission, NotAdmitted, IsHealthy
  <2> QED
    BY <2>2, HealthAssumption DEF HealthInv, HealthKeyInv, CollectInv, AgoInv
<1> QED
  BY <1>1, HealthInvariant, PTL DEF HealthSpec

-----------------------------------------------------------------------------
(***************************************************************************)
(* The reconciliation                                                      *)
(***************************************************************************)

Legs == [long : Nat, short : Nat]

\* A run keeps the books it read: of a symbol that has not moved since, they
\* are still the books; and no report is out while it waits.
AskedInv ==
  asked # NotAsked =>
    /\ \A s \in Symbols \ moved : asked[s] = mine[s]
    /\ report.status = "none"

ReconciliationInv ==
  /\ mine \in [Symbols -> Int] /\ theirs \in [Symbols -> Legs]
  /\ AskedInv /\ CleanIsClean

\* What a run says of a symbol that stands still and is held on one side.
LEMMA ComparisonIsRight ==
  ASSUME ReconciliationInv, NEW seen, ReconcileCompleted(seen),
         NEW s \in Symbols \ moved,
         theirs[s].long = 0 \/ theirs[s].short = 0
  PROVE  /\ seen[s] = Net(theirs[s])
         /\ report'.found[s] = Compare(mine[s], Net(theirs[s]))
         /\ report'.status = "CLEAN" => report'.found[s] = "MATCHED"
<1>1. theirs[s] \in Legs
  BY DEF ReconciliationInv
<1>2. seen[s] = Net(theirs[s])
  <2>1. seen[s] \in Kept(theirs[s])
    BY DEF ReconcileCompleted
  <2> QED
    BY <1>1, <2>1 DEF Kept, Legs
<1>3. asked[s] = mine[s]
  BY DEF ReconciliationInv, AskedInv, ReconcileCompleted
<1> QED
  BY <1>2, <1>3 DEF ReconcileCompleted

LEMMA ReconciliationInvariant == ReconciliationSpec => []ReconciliationInv
<1>1. ReconciliationInit => ReconciliationInv
  BY DEF ReconciliationInit, ReconciliationInv, AskedInv, CleanIsClean,
         Untold, Legs
<1>2. ReconciliationInv /\ [ReconciliationNext]_reconciliationVars
        => ReconciliationInv'
  <2> SUFFICES ASSUME ReconciliationInv,
                      [ReconciliationNext]_reconciliationVars
               PROVE  ReconciliationInv'
    OBVIOUS
  <2> USE ReconciliationAssumption
      DEF ReconciliationInv, AskedInv, CleanIsClean
  <2>1. CASE \E s \in Symbols, l, t \in 0..Most :
               Trade(s, [long |-> l, short |-> t])
    <3> PICK s \in Symbols, l \in 0..Most, t \in 0..Most :
          Trade(s, [long |-> l, short |-> t])
      BY <2>1
    <3>1. [long |-> l, short |-> t] \in Legs
      BY DEF Legs
    <3> QED
      BY <3>1 DEF Trade, Moves
  <2>2. CASE \E s \in Symbols : Book(s)
    <3> PICK s \in Symbols : Book(s)
      BY <2>2
    <3>1. Net(theirs[s]) \in Int
      BY DEF Net, Legs
    <3> QED
      BY <3>1 DEF Book, Moves
  <2>3. CASE ReconcileInternal
    BY <2>3 DEF ReconcileInternal, Untold
  <2>4. CASE ReconcileNotLive
    BY <2>4 DEF ReconcileNotLive, Untold
  <2>5. CASE \E seen \in [Symbols -> -Most..Most] : ReconcileCompleted(seen)
    <3> PICK seen \in [Symbols -> -Most..Most] : ReconcileCompleted(seen)
      BY <2>5
    <3>1. UNCHANGED <<mine, theirs, moved>> /\ asked' = NotAsked
      BY DEF ReconcileCompleted
    <3>2. ASSUME report'.status = "CLEAN", NEW s \in Symbols \ moved,
                 ~(theirs[s].long > 0 /\ theirs[s].short > 0)
          PROVE  mine[s] = Net(theirs[s])
      <4>1. theirs[s].long = 0 \/ theirs[s].short = 0
        BY <3>2 DEF Legs
      <4>2. Compare(mine[s], Net(theirs[s])) = "MATCHED"
        BY <3>2, <4>1, ComparisonIsRight
      <4> QED
        BY <4>2 DEF Compare
    <3> QED
      BY <3>1, <3>2 DEF Net
  <2>6. CASE ReconcileFails
    BY <2>6 DEF ReconcileFails, Untold
  <2>7. CASE UNCHANGED reconciliationVars
    BY <2>7 DEF reconciliationVars
  <2> QED
    BY <2>1, <2>2, <2>3, <2>4, <2>5, <2>6, <2>7 DEF ReconciliationNext
<1> QED
  BY <1>1, <1>2, PTL DEF ReconciliationSpec

(* What a reconciliation says of a symbol that stood still is right, however
   the others move between the read of the books and the exchange's answer, and
   a clean result hides no difference (reconcile of reconciliation/engine.py).
   Of a symbol held on both sides only one leg is seen. *)
THEOREM ReportsAreRight ==
  ReconciliationSpec => []CleanIsClean /\ StillSymbolsAreRight
<1>1. ReconciliationInv => CleanIsClean
  BY DEF ReconciliationInv
<1> DEFINE A ==
      asked # NotAsked /\ report'.status \in {"CLEAN", "DISCREPANCIES_FOUND"}
        => \A s \in Symbols \ moved :
             theirs[s].long = 0 \/ theirs[s].short = 0 =>
               /\ report'.found[s] = "MATCHED" <=> mine[s] = Net(theirs[s])
               /\ report'.found[s] = "MISSING_LOCALLY" =>
                    mine[s] = 0 /\ Net(theirs[s]) # 0
               /\ report'.found[s] = "MISSING_ON_EXCHANGE" =>
                    mine[s] # 0 /\ Net(theirs[s]) = 0
<1>2. ReconciliationInv /\ [ReconciliationNext]_reconciliationVars
        => [A]_reconciliationVars
  <2> SUFFICES ASSUME ReconciliationInv, ReconciliationNext, asked # NotAsked,
                      report'.status \in {"CLEAN", "DISCREPANCIES_FOUND"},
                      NEW s \in Symbols \ moved,
                      theirs[s].long = 0 \/ theirs[s].short = 0
               PROVE  /\ report'.found[s] = "MATCHED"
                           <=> mine[s] = Net(theirs[s])
                      /\ report'.found[s] = "MISSING_LOCALLY" =>
                           mine[s] = 0 /\ Net(theirs[s]) # 0
                      /\ report'.found[s] = "MISSING_ON_EXCHANGE" =>
                           mine[s] # 0 /\ Net(theirs[s]) = 0
    OBVIOUS
  <2>1. report'.status # report.status
    BY DEF ReconciliationInv, AskedInv
  <2>2. ~ReconcileInternal /\ ~ReconcileNotLive /\ ~ReconcileFails
    BY DEF ReconcileInternal, ReconcileNotLive, ReconcileFails, Untold
  <2>3. \E seen \in [Symbols -> -Most..Most] : ReconcileCompleted(seen)
    BY <2>1, <2>2 DEF ReconciliationNext, Trade, Book
  <2>4. report'.found[s] = Compare(mine[s], Net(theirs[s]))
    BY <2>3, ComparisonIsRight
  <2> QED
    BY <2>4 DEF Compare
<1> QED
  BY <1>1, <1>2, ReconciliationInvariant, PTL
     DEF ReconciliationSpec, StillSymbolsAreRight
=============================================================================
