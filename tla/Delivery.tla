------------------------------ MODULE Delivery ------------------------------
(***************************************************************************)
(* What the event bus promises a consumer group of one stream: messages    *)
(* are taken in the order they were published, one at a time, and the fate *)
(* of a message never changes once it has one.  A message may be lost; it  *)
(* never comes back.  EventBus implements this.                            *)
(***************************************************************************)
EXTENDS Naturals

CONSTANT Messages  \* numbered in the order of publication

VARIABLE fate

Fates == {"unsent", "queued", "handled", "dead", "lost"}

Init == fate = [m \in Messages |-> "unsent"]

\* Messages before m.
Before(m) == {k \in Messages : k < m}

\* Some queued messages are lost: a consumer stops with messages in its
\* hands, or the stream is cut.
Losing(S) == [m \in Messages |-> IF m \in S THEN "lost" ELSE fate[m]]
Queued == {m \in Messages : fate[m] = "queued"}

Lose(S) == S \subseteq Queued /\ fate' = Losing(S)

\* A message is added; a stream that is full loses others for it.
Send(m, S) ==
  /\ fate[m] = "unsent"
  /\ \A k \in Before(m) : fate[k] # "unsent"
  /\ S \subseteq Queued
  /\ fate' = [Losing(S) EXCEPT ![m] = "queued"]

\* The oldest queued message is handled, or gets into the dead letter queue.
Settle(m, end) ==
  /\ fate[m] = "queued"
  /\ \A k \in Before(m) : fate[k] # "queued"
  /\ fate' = [fate EXCEPT ![m] = end]

Next ==
  \/ \E m \in Messages, S \in SUBSET Messages : Send(m, S)
  \/ \E m \in Messages, end \in {"handled", "dead"} : Settle(m, end)
  \/ \E S \in SUBSET Messages : Lose(S)

Spec == Init /\ [][Next]_fate
=============================================================================
