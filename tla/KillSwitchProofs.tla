--------------------------- MODULE KillSwitchProofs ---------------------------
(***************************************************************************)
(* What holds of the kill switch for every number of operations and        *)
(* restarts.  The types are inductive together with PathInv.   That the    *)
(* switch goes off deliberately only (DeliberateReset) rests on SeenInv:   *)
(* while operations follow each other, a reset that is under way, or whose *)
(* message waits, has seen every trigger that has begun, hence also the    *)
(* one the worker's state stems from.  That a worker at rest heeds the key *)
(* (KeyOnMeansStopped) rests on StopInv.                                   *)
(***************************************************************************)
EXTENDS KillSwitch, TLAPS

\* The recovery runs in a process that is up.
PathInv == restoring # "no" => up

InFlight(o) == pc[o] \in InProgress \/ \E i \in DOMAIN chan : chan[i] = o

\* Whatever is stored or on its way stems from an operation that has begun.
BegunInv ==
  /\ \A t \in Triggers : t \in {cause, found, key} => pc[t] # "idle"
  /\ \A i \in DOMAIN chan : pc[chan[i]] # "idle"

SeenInv == \A r \in Resets, t \in Triggers :
             InFlight(r) /\ pc[t] # "idle" => t \in sees[r]

TypeInv == TypeOK /\ PathInv

-----------------------------------------------------------------------------
(* Type correctness *)

LEMMA InitTypeInv == Init => TypeInv
<1> SUFFICES ASSUME Init PROVE TypeInv
  OBVIOUS
<1>1. chan \in Seq(Ops) /\ sees \in [Resets -> SUBSET Triggers]
  BY DEF Init
<1>2. pc \in [Ops -> InProgress \cup {"idle", "done", "lost"}]
  BY DEF Init
<1>3. crashes \in 0..MaxCrashes /\ faults \in 0..MaxFaults
  BY OpsOK DEF Init, OpsOK
<1> QED
  BY <1>1, <1>2, <1>3, Zenon DEF Init, TypeInv, TypeOK, PathInv

LEMMA NextTypeInv == TypeInv /\ [Next]_vars => TypeInv'
<1> SUFFICES ASSUME TypeInv, [Next]_vars PROVE TypeInv'
  OBVIOUS
<1> USE DEF TypeInv, TypeOK, PathInv, Goto, MayBegin
<1>1. ASSUME NEW t \in ApiTriggers, BeginApiTrigger(t) PROVE TypeInv'
  BY <1>1 DEF BeginApiTrigger, worker, InProgress
<1>2. ASSUME NEW t \in WorkerTriggers, BeginWorkerTrigger(t) PROVE TypeInv'
  <2>1. t \in Triggers /\ t \in Ops /\ t # NoOp
    BY OpsOK DEF OpsOK, Triggers, Ops
  <2>2. pc' \in [Ops -> InProgress \cup {"idle", "done", "lost"}]
    BY <1>2 DEF BeginWorkerTrigger, InProgress
  <2>4. /\ active' \in BOOLEAN
        /\ cause' \in Triggers \cup {NoOp}
        /\ active' <=> cause' # NoOp
    <3>1. CASE active /\ UNCHANGED <<active, cause>>
      BY <3>1
    <3>2. CASE ~active /\ active' = TRUE /\ cause' = t
      BY <3>2, <2>1
    <3> QED
      BY <1>2, <3>1, <3>2, Zenon DEF BeginWorkerTrigger
  <2> QED
    BY <1>2, <2>2, <2>4, Zenon DEF BeginWorkerTrigger
<1>3. ASSUME NEW r \in ApiResets, BeginApiReset(r) PROVE TypeInv'
  <2>1. faults' \in 0..MaxFaults
    <3>1. faults' = faults \/ RedisFault
      BY <1>3, Zenon DEF BeginApiReset
    <3> QED
      BY <3>1, OpsOK DEF RedisFault, OpsOK
  <2>2. pc' \in [Ops -> InProgress \cup {"idle", "done", "lost"}]
    BY <1>3 DEF BeginApiReset, InProgress
  <2>3. sees' \in [Resets -> SUBSET Triggers]
    BY <1>3 DEF BeginApiReset, Begun
  <2> QED
    BY <1>3, <2>1, <2>2, <2>3, Zenon DEF BeginApiReset, worker
<1>4. ASSUME NEW r \in AutoResets, BeginAutoReset(r) PROVE TypeInv'
  BY <1>4 DEF BeginAutoReset, InProgress, Begun
<1>5. ASSUME NEW o \in Ops, SetKey(o) PROVE TypeInv'
  BY <1>5, OpsOK DEF SetKey, worker, InProgress, RedisFault, OpsOK
<1>6. ASSUME NEW o \in Ops, Publish(o) PROVE TypeInv'
  <2>1. chan' \in Seq(Ops) /\ (chan' # <<>> => loop = "listening")
    BY <1>6 DEF Publish
  <2>2. pc' \in [Ops -> InProgress \cup {"idle", "done", "lost"}]
    BY <1>6 DEF Publish, InProgress
  <2>3. faults' \in 0..MaxFaults
    BY <1>6, OpsOK DEF Publish, RedisFault, OpsOK
  <2> QED
    BY <1>6, <2>1, <2>2, <2>3, Zenon DEF Publish, worker
<1>9. ASSUME Deliver PROVE TypeInv'
  <2>1. Head(chan) \in Ops /\ chan' \in Seq(Ops)
    BY <1>9 DEF Deliver
  <2>2. NoOp \notin Triggers
    BY OpsOK DEF OpsOK, Ops
  <2>3. loop = "listening"
    BY <1>9 DEF Deliver
  <2>4. /\ active' \in BOOLEAN
        /\ cause' \in Triggers \cup {NoOp}
        /\ active' <=> cause' # NoOp
    <3>1. active' = (Head(chan) \in Triggers)
      BY <1>9, Zenon DEF Deliver, On
    <3>2. active' \in BOOLEAN
      BY <3>1
    <3>3. CASE Head(chan) \notin Triggers
      <4>1. cause' = NoOp
        BY <1>9, <3>3 DEF Deliver, On
      <4>2. ~active'
        BY <3>1, <3>3
      <4> QED
        BY <3>2, <4>1, <4>2, Zenon
    <3>4. CASE Head(chan) \in Triggers
      <4>1. cause' = IF active THEN cause ELSE Head(chan)
        BY <1>9, <3>4, Zenon DEF Deliver, On
      <4>2. cause' \in Triggers
        BY <3>4, <4>1
      <4>3. active'
        BY <3>1, <3>4
      <4> QED
        BY <3>2, <4>2, <4>3, <2>2, Zenon
    <3> QED
      BY <3>3, <3>4
  <2>5. up
    BY <2>3
  <2> QED
    BY <1>9, <2>1, <2>3, <2>4, <2>5, Zenon DEF Deliver
<1>10. ASSUME Subscribe PROVE TypeInv'
  BY <1>10 DEF Subscribe
<1>11. ASSUME ReadForRestore PROVE TypeInv'
  BY <1>11, OpsOK DEF ReadForRestore, RedisFault, OpsOK
<1>12. ASSUME Restore PROVE TypeInv'
  BY <1>12, OpsOK DEF Restore, On, OpsOK, Ops
<1>13. ASSUME Restart PROVE TypeInv'
  BY <1>13 DEF Restart
<1>14. ASSUME LoopDies PROVE TypeInv'
  BY <1>14, OpsOK DEF LoopDies, RedisFault, OpsOK
<1>15. ASSUME Crash PROVE TypeInv'
  <2>1. pc' \in [Ops -> InProgress \cup {"idle", "done", "lost"}]
    BY <1>15, Zenon DEF Crash
  <2>3. crashes' \in 0..MaxCrashes /\ chan' \in Seq(Ops)
    BY <1>15, OpsOK DEF Crash, OpsOK
  <2> QED
    BY <1>15, <2>1, <2>3, Zenon DEF Crash
<1>16. ASSUME UNCHANGED vars PROVE TypeInv'
  BY <1>16 DEF vars, worker
<1> QED
  BY <1>1, <1>2, <1>3, <1>4, <1>5, <1>6, <1>9, <1>10, <1>11, <1>12,
     <1>13, <1>14, <1>15, <1>16 DEF Next, Begin, Step, Startup

\* Every variable keeps its type, a worker that is down has no state, and an
\* active switch has a cause, for any operations and any number of restarts.
THEOREM TypeCorrect == Spec => []TypeOK
<1>1. TypeInv => TypeOK
  BY DEF TypeInv
<1> QED
  BY <1>1, InitTypeInv, NextTypeInv, PTL DEF Spec

-----------------------------------------------------------------------------
(* The switch goes off deliberately only *)

LEMMA InitSeen == Init => BegunInv /\ SeenInv
BY OpsOK DEF Init, BegunInv, SeenInv, OpsOK, Ops, InFlight, InProgress

\* A step that begins no operation, and lets no message appear that was not
\* under way, keeps what the resets have seen.
LEMMA KeepsSeen ==
  ASSUME TypeOK, SeenInv, sees' = sees,
         \A t \in Triggers : pc'[t] # "idle" => pc[t] # "idle",
         \A r \in Resets : InFlight(r)' => InFlight(r)
  PROVE  SeenInv'
BY DEF SeenInv

LEMMA NextSeen ==
  ASSUME ~Overlap, TypeInv, BegunInv, SeenInv, [Next]_vars
  PROVE  BegunInv' /\ SeenInv'
<1> USE DEF TypeInv, TypeOK, Goto, MayBegin
<1>0. \A r \in Resets : r \notin Triggers /\ r \in Ops
  BY OpsOK DEF OpsOK, Ops
<1>1. ASSUME Still PROVE \A o \in Ops : ~InFlight(o)
  BY <1>1 DEF Still, InFlight
<1>2. ASSUME NEW t \in ApiTriggers, BeginApiTrigger(t)
      PROVE  BegunInv' /\ SeenInv'
  <2>1. t \in Triggers /\ t \in Ops
    BY DEF Triggers, Ops
  <2>2. \A r \in Resets : ~InFlight(r)'
    BY <1>0, <1>1, <1>2, <2>1 DEF BeginApiTrigger, InFlight
  <2> QED
    BY <1>2, <2>1, <2>2 DEF BeginApiTrigger, worker, BegunInv, SeenInv
<1>3. ASSUME NEW t \in WorkerTriggers, BeginWorkerTrigger(t)
      PROVE  BegunInv' /\ SeenInv'
  <2>1. t \in Triggers /\ t \in Ops
    BY DEF Triggers, Ops
  <2>2. \A r \in Resets : ~InFlight(r)'
    BY <1>0, <1>1, <1>3, <2>1 DEF BeginWorkerTrigger, InFlight
  <2>3. pc'[t] # "idle" /\ \A p \in Ops : pc[p] # "idle" => pc'[p] # "idle"
    BY <1>3, <2>1 DEF BeginWorkerTrigger
  <2>4. cause' \in {cause, t} /\ UNCHANGED <<key, found, chan>>
    BY <1>3 DEF BeginWorkerTrigger
  <2>5. BegunInv'
    BY <2>1, <2>3, <2>4 DEF BegunInv, Ops
  <2> QED
    BY <2>2, <2>5 DEF SeenInv
<1>4. ASSUME NEW r \in ApiResets, BeginApiReset(r)
      PROVE  BegunInv' /\ SeenInv'
  <2>1. r \in Resets /\ r \in Ops /\ r \notin Triggers
    BY <1>0 DEF Resets
  <2>2. \A q \in Resets : InFlight(q)' => q = r
    BY <1>0, <1>1, <1>4, <2>1 DEF BeginApiReset, InFlight
  <2>3. sees'[r] = Begun /\ \A t \in Triggers : pc'[t] = pc[t]
    BY <1>4, <2>1 DEF BeginApiReset, Ops
  <2>4. BegunInv'
    BY <1>4, <2>3 DEF BeginApiReset, worker, BegunInv
  <2> QED
    BY <2>2, <2>3, <2>4 DEF SeenInv, Begun
<1>5. ASSUME NEW r \in AutoResets, BeginAutoReset(r)
      PROVE  BegunInv' /\ SeenInv'
  <2>1. r \in Resets /\ r \in Ops /\ r \notin Triggers
    BY <1>0 DEF Resets
  <2>2. \A q \in Resets : InFlight(q)' => q = r
    BY <1>0, <1>1, <1>5, <2>1 DEF BeginAutoReset, InFlight
  <2>3. sees'[r] = Begun /\ \A t \in Triggers : pc'[t] = pc[t]
    BY <1>5, <2>1 DEF BeginAutoReset, Ops
  <2>4. NoOp \notin Triggers
    BY OpsOK DEF OpsOK, Ops
  <2>5. BegunInv'
    BY <1>5, <2>3, <2>4 DEF BeginAutoReset, BegunInv
  <2> QED
    BY <2>2, <2>3, <2>5 DEF SeenInv, Begun
<1>6. ASSUME NEW o \in Ops, SetKey(o) PROVE BegunInv' /\ SeenInv'
  <2>1. /\ \A p \in Ops : pc'[p] # "idle" <=> pc[p] # "idle"
        /\ \A p \in Ops : pc'[p] \in InProgress => pc[p] \in InProgress
    BY <1>6 DEF SetKey, InProgress
  <2>2. key' \in {key, o} /\ pc[o] # "idle"
    BY <1>6 DEF SetKey
  <2>3. BegunInv'
    BY <1>6, <2>1, <2>2 DEF SetKey, worker, BegunInv, Ops
  <2>4. \A r \in Resets : InFlight(r)' => InFlight(r)
    BY <1>0, <1>6, <2>1 DEF SetKey, InFlight
  <2> QED
    BY <1>6, <2>1, <2>3, <2>4, KeepsSeen DEF SetKey, Ops
<1>7. ASSUME NEW o \in Ops, Publish(o) PROVE BegunInv' /\ SeenInv'
  <2>1. /\ \A p \in Ops : pc'[p] # "idle" <=> pc[p] # "idle"
        /\ \A p \in Ops : pc'[p] \in InProgress => pc[p] \in InProgress
    BY <1>7 DEF Publish, InProgress
  <2>2. pc[o] = "publish"
    BY <1>7 DEF Publish
  <2>3. \A i \in DOMAIN chan' :
          \/ chan'[i] = o
          \/ i \in DOMAIN chan /\ chan'[i] = chan[i]
    <3>1. chan' = chan \/ chan' = Append(chan, o)
      BY <1>7, Zenon DEF Publish
    <3> QED
      BY <3>1
  <2>4. BegunInv'
    BY <1>7, <2>1, <2>2, <2>3 DEF Publish, worker, BegunInv, Ops
  <2>5. \A r \in Resets : InFlight(r)' => InFlight(r)
    BY <1>0, <2>1, <2>2, <2>3 DEF InFlight, InProgress
  <2> QED
    BY <1>7, <2>1, <2>4, <2>5, KeepsSeen DEF Publish, Ops
<1>9. ASSUME Deliver PROVE BegunInv' /\ SeenInv'
  <2>1. Head(chan) \in Ops /\ pc[Head(chan)] # "idle"
    BY <1>9 DEF Deliver, BegunInv
  <2>2. \A i \in DOMAIN chan' : i + 1 \in DOMAIN chan
                                 /\ chan'[i] = chan[i + 1]
    BY <1>9 DEF Deliver
  <2>3. cause' \in {NoOp, cause, Head(chan)} /\ NoOp \notin Triggers
    BY <1>9, OpsOK DEF Deliver, OpsOK, Ops
  <2>4. UNCHANGED <<pc, key, found, sees>>
    BY <1>9 DEF Deliver
  <2>5. BegunInv'
    BY <2>1, <2>2, <2>3, <2>4 DEF BegunInv
  <2>6. \A r \in Resets : InFlight(r)' => InFlight(r)
    BY <2>2, <2>4 DEF InFlight
  <2> QED
    BY <2>4, <2>5, <2>6, KeepsSeen
<1>10. ASSUME Subscribe \/ Restart PROVE BegunInv' /\ SeenInv'
  BY <1>10 DEF Subscribe, Restart, BegunInv, SeenInv, InFlight
<1>11. ASSUME ReadForRestore PROVE BegunInv' /\ SeenInv'
  <2>1. found' \in {key, NoOp} /\ NoOp \notin Triggers
    BY <1>11, OpsOK DEF ReadForRestore, OpsOK, Ops
  <2> QED
    BY <1>11, <2>1 DEF ReadForRestore, BegunInv, SeenInv, InFlight
<1>12. ASSUME Restore PROVE BegunInv' /\ SeenInv'
  <2>1. cause' \in {cause, found}
    BY <1>12 DEF Restore
  <2> QED
    BY <1>12, <2>1 DEF Restore, BegunInv, SeenInv, InFlight
<1>13. ASSUME LoopDies PROVE BegunInv' /\ SeenInv'
  BY <1>13 DEF LoopDies, BegunInv, SeenInv, InFlight
<1>14. ASSUME Crash PROVE BegunInv' /\ SeenInv'
  <2>1. /\ \A p \in Ops : pc'[p] # "idle" <=> pc[p] # "idle"
        /\ \A p \in Ops : pc'[p] \in InProgress => pc[p] \in InProgress
    BY <1>14 DEF Crash, InProgress
  <2>2. UNCHANGED <<key, sees>> /\ chan' = <<>> /\ cause' = NoOp
        /\ found' = NoOp /\ NoOp \notin Triggers
    BY <1>14, OpsOK DEF Crash, OpsOK, Ops
  <2>3. BegunInv'
    BY <2>1, <2>2 DEF BegunInv, Ops
  <2>4. \A r \in Resets : InFlight(r)' => InFlight(r)
    BY <1>0, <2>1, <2>2 DEF InFlight
  <2> QED
    BY <2>1, <2>2, <2>3, <2>4, KeepsSeen DEF Ops
<1>15. ASSUME UNCHANGED vars PROVE BegunInv' /\ SeenInv'
  BY <1>15 DEF vars, worker, BegunInv, SeenInv, InFlight
<1> QED
  BY <1>2, <1>3, <1>4, <1>5, <1>6, <1>7, <1>9, <1>10, <1>11, <1>12, <1>13,
     <1>14, <1>15 DEF Next, Begin, Step, Startup

LEMMA OffDeliberately ==
  ASSUME TypeInv, BegunInv, SeenInv, [Next]_vars, active, up', ~active'
  PROVE  \E r \in Resets : AskedToGoOff(r)
<1> USE DEF TypeInv, TypeOK, Goto, MayBegin
<1>0. cause \in Triggers /\ pc[cause] # "idle"
  BY DEF BegunInv
<1>1. ASSUME NEW r \in AutoResets, BeginAutoReset(r)
      PROVE  AskedToGoOff(r)
  <2>1. r \in Resets /\ r \in Ops
    BY DEF Resets, Ops
  <2>2. pc[r] = "idle" /\ pc'[r] # "idle"
    BY <1>1, <2>1 DEF BeginAutoReset
  <2>3. cause \in sees'[r]
    BY <1>0, <1>1, <2>1 DEF BeginAutoReset, Begun
  <2> QED
    BY <2>2, <2>3 DEF AskedToGoOff
<1>2. ASSUME Deliver PROVE \E r \in Resets : AskedToGoOff(r)
  <2>1. Head(chan) \in Ops /\ Head(chan) = chan[1] /\ 1 \in DOMAIN chan
    BY <1>2 DEF Deliver
  <2>2. Head(chan) \notin Triggers
    BY <1>2, Zenon DEF Deliver, On
  <2>3. Head(chan) \in Resets
    BY <2>1, <2>2 DEF Ops
  <2>4. cause \in sees[Head(chan)]
    BY <1>0, <2>1, <2>3 DEF SeenInv, InFlight
  <2>5. chan # <<>> /\ chan' = Tail(chan) /\ sees' = sees
    BY <1>2 DEF Deliver
  <2> QED
    BY <2>3, <2>4, <2>5 DEF AskedToGoOff
<1>3. CASE UNCHANGED active
  BY <1>3
<1>4. ASSUME NEW t \in WorkerTriggers, BeginWorkerTrigger(t) PROVE FALSE
  BY <1>4, Zenon DEF BeginWorkerTrigger
<1>5. ASSUME Restore PROVE FALSE
  BY <1>5, Zenon DEF Restore
<1>6. ASSUME Crash PROVE FALSE
  BY <1>6, Zenon DEF Crash
<1>7. ASSUME NEW o \in Ops, Step(o) PROVE UNCHANGED active
  BY <1>7 DEF Step, SetKey, Publish, worker
<1>8. ASSUME \/ \E t \in ApiTriggers : BeginApiTrigger(t)
             \/ \E r \in ApiResets : BeginApiReset(r)
             \/ Subscribe \/ ReadForRestore \/ Restart \/ LoopDies
             \/ UNCHANGED vars
      PROVE  UNCHANGED active
  BY <1>8 DEF BeginApiTrigger, BeginApiReset, Subscribe, ReadForRestore,
              Restart, LoopDies, vars, worker
<1> QED
  BY <1>1, <1>2, <1>3, <1>4, <1>5, <1>6, <1>7, <1>8
     DEF Next, Begin, Startup, Resets

\* "Kein automatischer Reset": as long as operations follow each other, the
\* worker's switch goes off only by a reset that was asked for after the
\* trigger that turned it on - for any number of triggers, resets and
\* restarts, and whatever Redis loses.
THEOREM OnlyDeliberateResets ==
  ASSUME ~Overlap
  PROVE  Spec => DeliberateReset
<1>1. Init => TypeInv /\ BegunInv /\ SeenInv
  BY InitTypeInv, InitSeen
<1>2. TypeInv /\ BegunInv /\ SeenInv /\ [Next]_vars
        => (TypeInv /\ BegunInv /\ SeenInv)'
  BY NextTypeInv, NextSeen
<1>3. TypeInv /\ BegunInv /\ SeenInv /\ [Next]_vars
        => [GoesOff => \E r \in Resets : AskedToGoOff(r)]_vars
  BY OffDeliberately DEF GoesOff
<1> QED
  BY <1>1, <1>2, <1>3, PTL DEF Spec, DeliberateReset

-----------------------------------------------------------------------------
(* The key is on: the worker is stopped *)

\* Operations follow each other: while one is under way no other is, and no
\* message waits.
SerialInv ==
  \A o \in Ops :
    pc[o] \in InProgress =>
      chan = <<>> /\ \A p \in Ops : pc[p] \in InProgress => p = o

\* The sync loop is only missing where the process is down or Redis failed.
LoopInv ==
  /\ up => loop # "off"
  /\ loop = "dead" => faults > 0
  /\ faults = 0 /\ restoring # "no" => loop = "listening"

\* What is published, or about to be, is what the key holds.
KeyInv ==
  faults = 0 =>
    /\ \A o \in Ops : pc[o] = "publish" => key = o
    /\ \A i \in DOMAIN chan : chan[i] = key

\* A worker that does not know yet that the key is on is going to find out:
\* it has the key still to read, has read a trigger, or gets the message - or
\* it turned the switch off itself and is about to write that.
WillKnow ==
  \/ restoring = "no"
  \/ restoring = "read" /\ On(found)
  \/ loop = "listening" /\ pc[key] = "publish"
  \/ chan # <<>>
  \/ \E r \in AutoResets : pc[r] = "set"

KnowInv == faults = 0 /\ up /\ On(key) => active \/ WillKnow

StopInv == SerialInv /\ LoopInv /\ KeyInv /\ KnowInv

LEMMA InitStop == Init => StopInv
BY OpsOK DEF Init, StopInv, SerialInv, LoopInv, KeyInv, KnowInv, On, OpsOK,
  Ops, InProgress

\* A step that begins an operation: none was under way, no message waited.
LEMMA BeginKeeps ==
  ASSUME TypeOK, StopInv, Still, NEW o \in Ops, NEW p,
         pc[o] = "idle", p \in {"set", "done"}, pc' = [pc EXCEPT ![o] = p],
         UNCHANGED <<key, chan, up, loop, restoring, found>>,
         faults' >= faults, faults' \in Nat,
         active => active' \/ (o \in AutoResets /\ p = "set")
  PROVE  StopInv'
<1> USE DEF TypeOK
<1>1. \A q \in Ops : pc'[q] = IF q = o THEN p ELSE pc[q]
  OBVIOUS
<1>2. SerialInv'
  BY <1>1 DEF Still, SerialInv
<1>3. LoopInv' /\ KeyInv'
  BY <1>1 DEF StopInv, LoopInv, KeyInv, Still
<1>4. KnowInv'
  <2> SUFFICES ASSUME faults' = 0, up, On(key) PROVE active' \/ WillKnow'
    BY DEF KnowInv
  <2>1. active \/ WillKnow
    BY DEF StopInv, KnowInv
  <2>2. key \in Ops
    BY DEF On, Ops
  <2>3. AutoResets \subseteq Ops
    BY DEF Ops, Resets
  <2>4. WillKnow => WillKnow'
    BY <1>1, <2>2, <2>3 DEF WillKnow
  <2>5. o \in AutoResets /\ p = "set" => WillKnow'
    BY <1>1 DEF WillKnow
  <2> QED
    BY <2>1, <2>4, <2>5, Zenon
<1> QED
  BY <1>2, <1>3, <1>4 DEF StopInv

LEMMA NextStop ==
  ASSUME ~Overlap, SubscribeFirst, TypeInv, StopInv, [Next]_vars
  PROVE  StopInv'
<1> USE DEF TypeInv, TypeOK, Goto, MayBegin
<1>0. /\ ApiTriggers \subseteq Ops /\ WorkerTriggers \subseteq Ops
      /\ ApiResets \subseteq Ops /\ AutoResets \subseteq Ops
      /\ Triggers \subseteq Ops
  BY DEF Ops, Triggers, Resets
<1>f. faults \in Nat /\ (RedisFault => faults' > 0 /\ faults' \in Nat)
  BY OpsOK DEF OpsOK, RedisFault
<1>t. TypeOK
  OBVIOUS
<1>1. ASSUME NEW t \in ApiTriggers, BeginApiTrigger(t) PROVE StopInv'
  <2>1. /\ Still /\ pc[t] = "idle" /\ t \in Ops
        /\ pc' = [pc EXCEPT ![t] = "set"]
        /\ UNCHANGED <<key, chan, up, loop, restoring, found, active, faults>>
    BY <1>0, <1>1 DEF BeginApiTrigger, worker
  <2>2. faults' >= faults /\ faults' \in Nat
    BY <1>f, <2>1
  <2> QED
    BY <1>t, <2>1, <2>2, BeginKeeps, Zenon
<1>2. ASSUME NEW t \in WorkerTriggers, BeginWorkerTrigger(t) PROVE StopInv'
  <2>1. /\ Still /\ pc[t] = "idle" /\ t \in Ops
        /\ UNCHANGED <<key, chan, up, loop, restoring, found, faults>>
    BY <1>0, <1>2 DEF BeginWorkerTrigger
  <2>2. PICK p \in {"set", "done"} : pc' = [pc EXCEPT ![t] = p]
    BY <1>2, Zenon DEF BeginWorkerTrigger
  <2>3. active'
    <3>1. CASE active /\ UNCHANGED <<active, cause>>
      BY <3>1
    <3>2. CASE active' = TRUE
      BY <3>2
    <3> QED
      BY <1>2, <3>1, <3>2, Zenon DEF BeginWorkerTrigger
  <2>4. faults' >= faults /\ faults' \in Nat
    BY <1>f, <2>1
  <2> QED
    BY <1>t, <2>1, <2>2, <2>3, <2>4, BeginKeeps, Zenon
<1>3. ASSUME NEW r \in ApiResets, BeginApiReset(r) PROVE StopInv'
  <2>1. /\ Still /\ pc[r] = "idle" /\ r \in Ops
        /\ UNCHANGED <<key, chan, up, loop, restoring, found, active>>
    BY <1>0, <1>3 DEF BeginApiReset, worker
  <2>2. PICK p \in {"set", "done"} : pc' = [pc EXCEPT ![r] = p]
    BY <1>3, Zenon DEF BeginApiReset
  <2>3. faults' = faults \/ faults' = faults + 1
    BY <1>3, Zenon DEF BeginApiReset, RedisFault
  <2>4. faults' >= faults /\ faults' \in Nat
    BY <1>f, <2>3
  <2> QED
    BY <1>t, <2>1, <2>2, <2>4, BeginKeeps, Zenon
<1>4. ASSUME NEW r \in AutoResets, BeginAutoReset(r) PROVE StopInv'
  <2>1. /\ Still /\ pc[r] = "idle" /\ r \in Ops
        /\ pc' = [pc EXCEPT ![r] = "set"]
        /\ UNCHANGED <<key, chan, up, loop, restoring, found, faults>>
    BY <1>0, <1>4 DEF BeginAutoReset
  <2>2. faults' >= faults /\ faults' \in Nat
    BY <1>f, <2>1
  <2> QED
    BY <1>t, <2>1, <2>2, BeginKeeps, Zenon
<1>5. ASSUME NEW o \in Ops, SetKey(o) PROVE StopInv'
  <2>1. /\ UNCHANGED <<chan, up, active, loop, restoring, found>>
        /\ pc[o] = "set"
        /\ chan = <<>> /\ \A p \in Ops : pc[p] \in InProgress => p = o
    BY <1>5 DEF SetKey, worker, StopInv, SerialInv, InProgress
  <2>2. CASE key' = o /\ pc' = [pc EXCEPT ![o] = "publish"] /\ UNCHANGED faults
    <3>1. SerialInv' /\ LoopInv' /\ KeyInv'
      BY <2>1, <2>2 DEF StopInv, SerialInv, LoopInv, KeyInv, InProgress
    <3>2. faults = 0 => WillKnow'
      BY <2>1, <2>2 DEF StopInv, LoopInv, WillKnow
    <3> QED
      BY <2>2, <3>1, <3>2 DEF StopInv, KnowInv
  <2>3. CASE RedisFault /\ key' = key /\ pc' = [pc EXCEPT ![o] = "done"]
    BY <1>f, <2>1, <2>3 DEF StopInv, SerialInv, LoopInv, KeyInv, KnowInv,
      InProgress
  <2> QED
    BY <1>5, <2>2, <2>3 DEF SetKey
<1>6. ASSUME NEW o \in Ops, Publish(o) PROVE StopInv'
  <2>1. /\ UNCHANGED <<up, active, loop, restoring, found, key>>
        /\ pc[o] = "publish" /\ pc' = [pc EXCEPT ![o] = "done"]
        /\ chan = <<>> /\ \A p \in Ops : pc[p] \in InProgress => p = o
    BY <1>6 DEF Publish, worker, StopInv, SerialInv, InProgress
  <2>2. SerialInv'
    BY <2>1 DEF SerialInv, InProgress
  <2>3. CASE RedisFault /\ UNCHANGED chan
    BY <1>f, <2>1, <2>2, <2>3 DEF StopInv, LoopInv, KeyInv, KnowInv
  <2>4. CASE loop = "listening" /\ chan' = Append(chan, o) /\ UNCHANGED faults
    <3>1. chan' = <<o>> /\ chan' # <<>> /\ chan'[1] = o /\ DOMAIN chan' = {1}
      BY <2>1, <2>4
    <3>2. LoopInv'
      BY <2>1, <2>4 DEF StopInv, LoopInv
    <3>3. KeyInv'
      BY <2>1, <2>4, <3>1 DEF StopInv, KeyInv
    <3>4. WillKnow'
      BY <3>1 DEF WillKnow
    <3> QED
      BY <2>2, <3>2, <3>3, <3>4 DEF StopInv, KnowInv
  <2>5. CASE loop # "listening" /\ UNCHANGED <<chan, faults>>
    <3>1. LoopInv' /\ KeyInv'
      BY <2>1, <2>5 DEF StopInv, LoopInv, KeyInv
    <3>2. faults = 0 => WillKnow'
      BY <2>1, <2>5 DEF StopInv, LoopInv, WillKnow
    <3> QED
      BY <2>2, <2>5, <3>1, <3>2 DEF StopInv, KnowInv
  <2> QED
    BY <1>6, <2>3, <2>4, <2>5 DEF Publish
<1>7. ASSUME Deliver PROVE StopInv'
  <2>1. /\ chan # <<>> /\ chan' = Tail(chan)
        /\ UNCHANGED <<up, loop, restoring, found, key, pc, faults>>
    BY <1>7 DEF Deliver
  <2>2. /\ 1 \in DOMAIN chan /\ Head(chan) = chan[1]
        /\ \A i \in DOMAIN chan' : i + 1 \in DOMAIN chan
                                   /\ chan'[i] = chan[i + 1]
    BY <2>1
  <2>3. SerialInv'
    BY <2>1 DEF StopInv, SerialInv
  <2>4. LoopInv' /\ KeyInv'
    BY <2>1, <2>2 DEF StopInv, LoopInv, KeyInv
  <2>5. faults = 0 => active' = On(key)
    BY <1>7, <2>2, Zenon DEF Deliver, StopInv, KeyInv
  <2> QED
    BY <2>1, <2>3, <2>4, <2>5 DEF StopInv, KnowInv, On
<1>8. ASSUME Subscribe PROVE StopInv'
  <2>1. WillKnow => WillKnow'
    BY <1>8 DEF Subscribe, WillKnow
  <2> QED
    BY <1>8, <2>1 DEF Subscribe, StopInv, SerialInv, LoopInv, KeyInv,
      KnowInv
<1>9. ASSUME ReadForRestore PROVE StopInv'
  <2>1. UNCHANGED <<up, active, loop, key, chan, pc>> /\ restoring' = "read"
        /\ up /\ loop # "starting"
    BY <1>9 DEF ReadForRestore
  <2>2. SerialInv'
    BY <2>1 DEF StopInv, SerialInv
  <2>3. CASE found' = key /\ UNCHANGED faults
    <3>1. LoopInv' /\ KeyInv'
      BY <2>1, <2>3, <1>f DEF StopInv, LoopInv, KeyInv
    <3>2. On(key) => WillKnow'
      BY <2>1, <2>3 DEF WillKnow, On
    <3> QED
      BY <2>1, <2>2, <3>1, <3>2 DEF StopInv, KnowInv
  <2>4. CASE RedisFault
    BY <1>f, <2>1, <2>2, <2>4 DEF StopInv, LoopInv, KeyInv, KnowInv
  <2> QED
    BY <1>9, <2>3, <2>4 DEF ReadForRestore
<1>10. ASSUME Restore PROVE StopInv'
  <2>1. /\ UNCHANGED <<up, loop, found, key, chan, pc, faults>>
        /\ restoring = "read" /\ restoring' = "done"
        /\ active' = (active \/ On(found))
    BY <1>10 DEF Restore
  <2>2. SerialInv' /\ LoopInv' /\ KeyInv'
    BY <2>1 DEF StopInv, SerialInv, LoopInv, KeyInv
  <2>3. active \/ WillKnow => active' \/ WillKnow'
    BY <2>1 DEF WillKnow
  <2> QED
    BY <2>1, <2>2, <2>3 DEF StopInv, KnowInv
<1>11. ASSUME Restart PROVE StopInv'
  <2>1. restoring = "no"
    BY <1>11, Zenon DEF Restart, PathInv
  <2>2. WillKnow'
    BY <1>11, <2>1 DEF Restart, WillKnow
  <2> QED
    BY <1>11, <2>1, <2>2 DEF Restart, StopInv, SerialInv, LoopInv, KeyInv,
      KnowInv
<1>12. ASSUME LoopDies PROVE StopInv'
  BY <1>12, <1>f DEF LoopDies, StopInv, SerialInv, LoopInv, KeyInv, KnowInv
<1>13. ASSUME Crash PROVE StopInv'
  <2>1. /\ up' = FALSE /\ chan' = <<>> /\ loop' = "off" /\ restoring' = "no"
        /\ UNCHANGED <<key, faults>>
        /\ \A p \in Ops : pc'[p] \in InProgress => pc'[p] = pc[p]
    BY <1>13 DEF Crash, InProgress
  <2> QED
    BY <2>1 DEF StopInv, SerialInv, LoopInv, KeyInv, KnowInv, InProgress
<1>14. ASSUME UNCHANGED vars PROVE StopInv'
  <2>1. WillKnow => WillKnow'
    BY <1>14 DEF vars, worker, WillKnow
  <2> QED
    BY <1>14, <2>1 DEF vars, worker, StopInv, SerialInv, LoopInv, KeyInv,
      KnowInv
<1> QED
  BY <1>1, <1>2, <1>3, <1>4, <1>5, <1>6, <1>7, <1>8, <1>9, <1>10, <1>11,
     <1>12, <1>13, <1>14 DEF Next, Begin, Step, Startup

\* A worker at rest does not trade while the key says the switch is on: for
\* any number of triggers, resets and restarts, as long as operations follow
\* each other, the subscription stands before the restore reads the key, and
\* no Redis command failed.
THEOREM KeyStopsWorker ==
  ASSUME ~Overlap, SubscribeFirst
  PROVE  Spec => []KeyOnMeansStopped
<1>1. Init => TypeInv /\ StopInv
  BY InitTypeInv, InitStop
<1>2. (TypeInv /\ StopInv) /\ [Next]_vars => (TypeInv /\ StopInv)'
  BY NextTypeInv, NextStop
<1>3. TypeInv /\ StopInv => KeyOnMeansStopped
  <2> SUFFICES ASSUME TypeInv, StopInv, Quiet, On(key), faults = 0
               PROVE  active
    BY DEF KeyOnMeansStopped
  <2>1. up /\ restoring = "done" /\ chan = <<>>
    BY DEF TypeInv, TypeOK, Quiet, Still
  <2>2. \A o \in Ops : pc[o] \notin {"set", "publish"}
    BY DEF Quiet, Still, InProgress
  <2>3. key \in Ops /\ AutoResets \subseteq Ops
    BY DEF On, Ops, Resets
  <2>4. ~WillKnow
    BY <2>1, <2>2, <2>3 DEF WillKnow
  <2> QED
    BY <2>1, <2>4 DEF StopInv, KnowInv
<1> QED
  BY <1>1, <1>2, <1>3, PTL DEF Spec

=============================================================================
