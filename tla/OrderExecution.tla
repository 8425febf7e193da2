--------------------------- MODULE OrderExecution ---------------------------
(***************************************************************************)
(* The life of an order in one worker process: ExecutionEngine.execute     *)
(* (execution/engine.py), the SafeOrderExecutor middleware                 *)
(* (execution/order_safety.py) and CCXTBaseAdapter.place_order / get_order *)
(* / cancel_order (exchanges/ccxt_base.py), against an exchange and the    *)
(* orders table.                                                           *)
(*                                                                         *)
(* A call is one coroutine running execute(order).  It may be suspended at *)
(* each await, so every action below is the code between two awaits.       *)
(* Several calls may carry the same order id: that is the repetition       *)
(* order_safety.py exists for.                                             *)
(***************************************************************************)
EXTENDS Integers, Sequences, FiniteSets

CONSTANTS
  Orders,       \* order ids (OrderRequest.id, the idempotency key)
  Calls,        \* invocations of execute(), each used once
  Qty,          \* quantity of every order, in lots
  MaxPolls,     \* polls before the fill timeout (timeout / poll interval)
  MaxAttempts,  \* attempts of place_order (_retryable_exchange_call)
  MaxCrashes,   \* bound on crashes and shutdowns of the worker
  Modes,        \* trading modes considered: LIVE, PAPER (fills are simulated)
  Overlap,      \* TRUE: calls with the same order id may run concurrently
  DbFails,      \* TRUE: an operation on the orders table may fail
  LookupFails,  \* TRUE: fetchOrder by client id may fail or be unsupported
  CancelFails   \* TRUE: cancel_order may fail

ASSUME ConstantsOK ==
  /\ Qty \in Nat \ {0}
  /\ MaxPolls \in Nat \ {0}
  /\ MaxAttempts \in Nat \ {0}
  /\ MaxCrashes \in Nat
  /\ Modes \subseteq {"PAPER", "LIVE"}
  /\ {Overlap, DbFails, LookupFails, CancelFails} \subseteq BOOLEAN

VARIABLES
  up,        \* the worker process is running
  kill,      \* KillSwitch.is_active as this worker sees it
  pc,        \* where each call stands
  ord,       \* the order id a call carries
  bypass,    \* the call's bypass_kill_switch argument
  mode,      \* the worker's trading mode, carried by every order
  attempt,   \* place_order attempts the call has started
  polls,     \* polls done by _monitor_fill
  cur,       \* the OrderResult the call holds
  how,       \* how a finished call ended
  inFlight,  \* SafeOrderExecutor._in_flight
  db,        \* the orders table
  book,      \* the exchange's orders; the index is the exchange order id
  submits,   \* times exchange_submit_fn was called, per order (history)
  draining,  \* ExecutionEngine.shutdown() is running
  todo,      \* exchange order ids shutdown() has still to cancel
  crashes    \* crashes and shutdowns so far

callVars == <<pc, ord, bypass, mode, attempt, polls, cur, how>>
vars == <<up, kill, callVars, inFlight, db, book, submits,
          draining, todo, crashes>>

-----------------------------------------------------------------------------
(* Values *)

Statuses == {"PENDING", "SUBMITTED", "PARTIALLY_FILLED", "FILLED",
             "CANCELLED", "REJECTED", "EXPIRED"}
TerminalStatuses == {"FILLED", "CANCELLED", "REJECTED", "EXPIRED"}
MonitorStops == {"FILLED", "CANCELLED", "REJECTED"}

NoRow  == [status |-> "NONE", filled |-> 0]
Untracked   == [xid |-> 0, status |-> "NONE", filled |-> 0]
Placeholder == [xid |-> 0, status |-> "PENDING", filled |-> 0]
UnknownResult == [xid |-> 0, status |-> "REJECTED", filled |-> 0]

Results == [xid : Nat, status : Statuses \cup {"NONE"}, filled : 0..Qty]
Rows    == [status : Statuses \cup {"NONE"}, filled : 0..Qty]

ExchangeStates == {"open", "closed", "canceled", "expired", "rejected"}
ExchangeOrders == [order : Orders, state : ExchangeStates, filled : 0..Qty]

StatusMap == [open |-> "SUBMITTED", closed |-> "FILLED",
              canceled |-> "CANCELLED", expired |-> "EXPIRED",
              rejected |-> "REJECTED"]

\* Deviation: any filled quantity counts as a complete fill.
ParseStatus_AnyFill(x) ==
  IF 0 < x.filled THEN "FILLED" ELSE StatusMap[x.state]

\* A quantity strictly between 0 and the amount overrides the status.
ParseStatus(x) ==
  IF 0 < x.filled /\ x.filled < Qty THEN "PARTIALLY_FILLED"
  ELSE StatusMap[x.state]

ParseOrderResult(i) ==
  [xid |-> i, status |-> ParseStatus(book[i]), filled |-> book[i].filled]

Running == {"checked", "lookup", "persist", "find", "sent", "accepted",
            "simulate", "record", "recordUnknown", "recordFill",
            "recordEnd", "poll", "cancel", "recordCancel"}
Ends == {"none", "rejected", "duplicate", "unknown", "filled", "ended",
         "timeout", "killed"}

Active(c) == pc[c] \in Running

-----------------------------------------------------------------------------
Init ==
  /\ up = TRUE
  /\ kill = FALSE
  /\ pc = [c \in Calls |-> "idle"]
  /\ ord \in [Calls -> Orders]
  /\ bypass \in [Calls -> BOOLEAN]
  /\ mode \in Modes
  /\ attempt = [c \in Calls |-> 0]
  /\ polls = [c \in Calls |-> 0]
  /\ cur = [c \in Calls |-> Untracked]
  /\ how = [c \in Calls |-> "none"]
  /\ inFlight = [o \in Orders |-> Untracked]
  /\ db = [o \in Orders |-> NoRow]
  /\ book = <<>>
  /\ submits = [o \in Orders |-> 0]
  /\ draining = FALSE
  /\ todo = {}
  /\ crashes = 0

Goto(c, p) == pc' = [pc EXCEPT ![c] = p]

\* The call hands its result back; execute()'s "finally" releases the
\* in-flight entry of the order whatever the result was.
Return(c, h) ==
  /\ Goto(c, "done")
  /\ how' = [how EXCEPT ![c] = h]
  /\ inFlight' = [inFlight EXCEPT ![ord[c]] = Untracked]

\* OrderRepository.update_status: an UPDATE, without effect when no row has
\* the id; every caller swallows an error.
UpdateRow(c, r) ==
  \/ db' = IF db[ord[c]] = NoRow THEN db
           ELSE [db EXCEPT ![ord[c]] = [status |-> r.status,
                                        filled |-> r.filled]]
  \/ DbFails /\ db' = db

(***************************************************************************)
(* ExecutionEngine.execute                                                 *)
(***************************************************************************)

\* The checks before the first await: live trading gate and kill switch.
Execute(c) ==
  /\ up
  /\ pc[c] = "idle"
  /\ Overlap \/ \A d \in Calls : ord[d] = ord[c] => ~Active(d)
  /\ \/ /\ kill => bypass[c]
        /\ Goto(c, "checked")
        /\ UNCHANGED how
     \/ /\ Goto(c, "done")        \* gate closed, or kill switch active
        /\ how' = [how EXCEPT ![c] = "rejected"]
  /\ UNCHANGED <<up, kill, ord, bypass, mode, attempt, polls, cur, inFlight,
                 db, book, submits, draining, todo, crashes>>

\* Preflight, leverage, quantization or the verification gate refuse the
\* order after one of their awaits.
Refuse(c) ==
  /\ pc[c] = "checked"
  /\ Goto(c, "done")
  /\ how' = [how EXCEPT ![c] = "rejected"]
  /\ UNCHANGED <<up, kill, ord, bypass, mode, attempt, polls, cur, inFlight,
                 db, book, submits, draining, todo, crashes>>

\* They let it pass; execute_safely begins with the in-process check.
EnterSafe(c) ==
  /\ pc[c] = "checked"
  /\ \/ /\ inFlight[ord[c]] # Untracked
        /\ Return(c, "duplicate")
     \/ /\ inFlight[ord[c]] = Untracked
        /\ Goto(c, "lookup")
        /\ UNCHANGED <<how, inFlight>>
  /\ UNCHANGED <<up, kill, ord, bypass, mode, attempt, polls, cur, db, book,
                 submits, draining, todo, crashes>>

(***************************************************************************)
(* SafeOrderExecutor.execute_safely                                        *)
(***************************************************************************)

\* Deviation: the duplicate's own result is written to the row.
LookupHit_PersistsDuplicate(c) ==
  /\ pc[c] = "lookup"
  /\ db[ord[c]] # NoRow
  /\ Return(c, "duplicate")
  /\ db' = [db EXCEPT ![ord[c]] = [status |-> "REJECTED", filled |-> 0]]
  /\ UNCHANGED <<up, kill, ord, bypass, mode, attempt, polls, cur, book,
                 submits, draining, todo, crashes>>

\* A persisted row stops the call: its terminal result is returned, or an
\* unknown state is reported.
LookupHit(c) ==
  /\ pc[c] = "lookup"
  /\ db[ord[c]] # NoRow
  /\ \/ /\ db[ord[c]].status \in TerminalStatuses
        /\ Return(c, "duplicate")
        /\ cur' = [cur EXCEPT ![c].status = db[ord[c]].status,
                              ![c].filled = db[ord[c]].filled]
     \/ /\ db[ord[c]].status \notin TerminalStatuses
        /\ Return(c, "unknown")
        /\ cur' = [cur EXCEPT ![c] = UnknownResult]
  /\ UNCHANGED <<up, kill, ord, bypass, mode, attempt, polls, db, book,
                 submits, draining, todo, crashes>>

\* Deviation: only a terminal row stops the call.
LookupMiss_OpenRowPasses(c) ==
  /\ pc[c] = "lookup"
  /\ db[ord[c]].status \notin TerminalStatuses \/ DbFails
  /\ inFlight' = [inFlight EXCEPT ![ord[c]] = Placeholder]
  /\ Goto(c, "persist")
  /\ UNCHANGED <<up, kill, ord, bypass, mode, attempt, polls, cur, how, db,
                 book, submits, draining, todo, crashes>>

\* No row, or the query failed: track the placeholder.
LookupMiss(c) ==
  /\ pc[c] = "lookup"
  /\ db[ord[c]] = NoRow \/ DbFails
  /\ inFlight' = [inFlight EXCEPT ![ord[c]] = Placeholder]
  /\ Goto(c, "persist")
  /\ UNCHANGED <<up, kill, ord, bypass, mode, attempt, polls, cur, how, db,
                 book, submits, draining, todo, crashes>>

\* Deviation: the row is left to be written after the exchange call.
PersistPending_Skipped(c) ==
  /\ pc[c] = "persist"
  /\ submits' = [submits EXCEPT ![ord[c]] = @ + 1]
  /\ attempt' = [attempt EXCEPT ![c] = 1]
  /\ Goto(c, IF mode = "PAPER" THEN "simulate" ELSE "find")
  /\ UNCHANGED <<up, kill, ord, bypass, mode, polls, cur, how, inFlight, db,
                 book, draining, todo, crashes>>

\* _persist_pending (an INSERT: a second one with the same id fails, and the
\* failure is swallowed), then the call of exchange_submit_fn.
PersistPending(c) ==
  /\ pc[c] = "persist"
  /\ \/ /\ db[ord[c]] = NoRow
        /\ db' = [db EXCEPT ![ord[c]] = [status |-> "PENDING", filled |-> 0]]
     \/ /\ db[ord[c]] # NoRow \/ DbFails
        /\ db' = db
  /\ submits' = [submits EXCEPT ![ord[c]] = @ + 1]
  /\ attempt' = [attempt EXCEPT ![c] = 1]
  /\ Goto(c, IF mode = "PAPER" THEN "simulate" ELSE "find")
  /\ UNCHANGED <<up, kill, ord, bypass, mode, polls, cur, how, inFlight,
                 book, draining, todo, crashes>>

\* Deviation: the placeholder is left in _in_flight.
Submitted_KeepsPlaceholder(c, r) ==
  /\ cur' = [cur EXCEPT ![c] = r]
  /\ Goto(c, "record")
  /\ UNCHANGED inFlight

\* exchange_submit_fn returned r: tracked, and about to be persisted.
Submitted(c, r) ==
  /\ cur' = [cur EXCEPT ![c] = r]
  /\ inFlight' = [inFlight EXCEPT ![ord[c]] = r]
  /\ Goto(c, "record")

(***************************************************************************)
(* CCXTBaseAdapter.place_order                                             *)
(***************************************************************************)

\* Live: an order the exchange already has under this client id is adopted.
FindExisting(c) ==
  /\ pc[c] = "find"
  /\ \E i \in DOMAIN book :
       /\ book[i].order = ord[c]
       /\ Submitted(c, ParseOrderResult(i))
  /\ UNCHANGED <<up, kill, ord, bypass, mode, attempt, polls, how, db, book,
                 submits, draining, todo, crashes>>

\* Deviation: a retry creates the order without looking for it first.
SendCreate_Blind(c) ==
  /\ pc[c] = "find"
  /\ Goto(c, "sent")
  /\ UNCHANGED <<up, kill, ord, bypass, mode, attempt, polls, cur, how,
                 inFlight, db, book, submits, draining, todo, crashes>>

\* Live: none is found (or the lookup failed): create_order is sent.
SendCreate(c) ==
  /\ pc[c] = "find"
  /\ LookupFails \/ \A i \in DOMAIN book : book[i].order # ord[c]
  /\ Goto(c, "sent")
  /\ UNCHANGED <<up, kill, ord, bypass, mode, attempt, polls, cur, how,
                 inFlight, db, book, submits, draining, todo, crashes>>

\* The exchange takes the order.
Accept(c) ==
  /\ pc[c] = "sent"
  /\ book' = Append(book, [order |-> ord[c], state |-> "open", filled |-> 0])
  /\ cur' = [cur EXCEPT ![c].xid = Len(book) + 1]
  /\ Goto(c, "accepted")
  /\ UNCHANGED <<up, kill, ord, bypass, mode, attempt, polls, how, inFlight,
                 db, submits, draining, todo, crashes>>

\* ... and its answer arrives.
Respond(c) ==
  /\ pc[c] = "accepted"
  /\ Submitted(c, ParseOrderResult(cur[c].xid))
  /\ UNCHANGED <<up, kill, ord, bypass, mode, attempt, polls, how, db, book,
                 submits, draining, todo, crashes>>

\* _simulate_order: a complete fill, at once.
Simulate(c) ==
  /\ pc[c] = "simulate"
  /\ book' = Append(book, [order |-> ord[c], state |-> "closed",
                           filled |-> Qty])
  /\ Submitted(c, [xid |-> Len(book) + 1, status |-> "FILLED",
                   filled |-> Qty])
  /\ UNCHANGED <<up, kill, ord, bypass, mode, attempt, polls, how, db,
                 submits, draining, todo, crashes>>

\* Deviation: no attempt is the last one.
SubmitFails_RetriesForever(c) ==
  /\ pc[c] \in {"sent", "accepted", "simulate"}
  /\ Goto(c, IF mode = "PAPER" THEN "simulate" ELSE "find")
  /\ cur' = [cur EXCEPT ![c] = Untracked]
  /\ UNCHANGED <<up, kill, ord, bypass, mode, attempt, polls, how, inFlight,
                 db, book, submits, draining, todo, crashes>>

\* The submission fails although the exchange may have taken the order: a
\* transient error is retried while attempts are left, any other is final.
SubmitFails(c) ==
  /\ pc[c] \in {"sent", "accepted", "simulate"}
  /\ \/ /\ attempt[c] < MaxAttempts
        /\ attempt' = [attempt EXCEPT ![c] = @ + 1]
        /\ Goto(c, IF mode = "PAPER" THEN "simulate" ELSE "find")
     \/ /\ Goto(c, "recordUnknown")
        /\ UNCHANGED attempt
  /\ cur' = [cur EXCEPT ![c] = Untracked]
  /\ UNCHANGED <<up, kill, ord, bypass, mode, polls, how, inFlight, db, book,
                 submits, draining, todo, crashes>>

(***************************************************************************)
(* After the submission                                                    *)
(***************************************************************************)

\* Deviation: the row of a failed submission is left as it is.
RecordUnknown_RowLeft(c) ==
  /\ pc[c] = "recordUnknown"
  /\ cur' = [cur EXCEPT ![c] = UnknownResult]
  /\ Return(c, "unknown")
  /\ UNCHANGED <<up, kill, ord, bypass, mode, attempt, polls, db, book,
                 submits, draining, todo, crashes>>

\* The row of a failed submission is closed as REJECTED.
RecordUnknown(c) ==
  /\ pc[c] = "recordUnknown"
  /\ UpdateRow(c, UnknownResult)
  /\ cur' = [cur EXCEPT ![c] = UnknownResult]
  /\ Return(c, "unknown")
  /\ UNCHANGED <<up, kill, ord, bypass, mode, attempt, polls, book, submits,
                 draining, todo, crashes>>

\* The head of _monitor_fill's loop: an active kill switch ends it.
Monitor(c) == Goto(c, IF kill THEN "cancel" ELSE "poll")

\* _persist_final, then the branch on an immediate fill.
Record(c) ==
  /\ pc[c] = "record"
  /\ UpdateRow(c, cur[c])
  /\ \/ cur[c].status = "FILLED" /\ Goto(c, "recordFill")
     \/ cur[c].status # "FILLED" /\ Monitor(c)
  /\ UNCHANGED <<up, kill, ord, bypass, mode, attempt, polls, cur, how,
                 inFlight, book, submits, draining, todo, crashes>>

\* update_inflight: refreshes a tracked entry, never creates one.
UpdateInflight(o, r) ==
  inFlight' = IF inFlight[o] = Untracked THEN inFlight
              ELSE [inFlight EXCEPT ![o] = r]

\* Where the loop goes after a poll that leaves the call with result r.
AfterPoll(c, r) ==
  \/ r.status = "FILLED" /\ Goto(c, "recordFill")
  \/ r.status \in MonitorStops \ {"FILLED"} /\ Goto(c, "recordEnd")
  \/ /\ r.status \notin MonitorStops
     /\ IF polls[c] + 1 < MaxPolls THEN Monitor(c) ELSE Goto(c, "cancel")

\* Deviation: the loop does not end at the timeout.
Poll_NoTimeout(c) ==
  /\ pc[c] = "poll"
  /\ \E r \in {cur[c], ParseOrderResult(cur[c].xid)} :
       /\ cur' = [cur EXCEPT ![c] = r]
       /\ UpdateInflight(ord[c], r)
       /\ \/ r.status = "FILLED" /\ Goto(c, "recordFill")
          \/ r.status \in MonitorStops \ {"FILLED"} /\ Goto(c, "recordEnd")
          \/ r.status \notin MonitorStops /\ Monitor(c)
  /\ polls' = [polls EXCEPT ![c] = @ + 1]
  /\ UNCHANGED <<up, kill, ord, bypass, mode, attempt, how, db, book,
                 submits, draining, todo, crashes>>

\* One turn of the loop: get_order answers, or fails and changes nothing.
Poll(c) ==
  /\ pc[c] = "poll"
  /\ \E r \in {cur[c], ParseOrderResult(cur[c].xid)} :
       /\ cur' = [cur EXCEPT ![c] = r]
       /\ UpdateInflight(ord[c], r)
       /\ AfterPoll(c, r)
  /\ polls' = [polls EXCEPT ![c] = @ + 1]
  /\ UNCHANGED <<up, kill, ord, bypass, mode, attempt, how, db, book,
                 submits, draining, todo, crashes>>

\* _on_fill: the event is published and the row closed as FILLED.
RecordFill(c) ==
  /\ pc[c] = "recordFill"
  /\ UpdateRow(c, cur[c])
  /\ Return(c, "filled")
  /\ UNCHANGED <<up, kill, ord, bypass, mode, attempt, polls, cur, book,
                 submits, draining, todo, crashes>>

\* The exchange ended the order without a complete fill.
RecordEnd(c) ==
  /\ pc[c] = "recordEnd"
  /\ UpdateRow(c, cur[c])
  /\ Return(c, "ended")
  /\ UNCHANGED <<up, kill, ord, bypass, mode, attempt, polls, cur, book,
                 submits, draining, todo, crashes>>

\* cancel_order for exchange order i; an order that is not open is "not
\* found", an error is logged.
CancelOnExchange(i) ==
  \/ book' = [book EXCEPT ![i].state = IF @ = "open" THEN "canceled" ELSE @]
  \/ CancelFails /\ book' = book

\* Timeout, or kill switch: the order is cancelled, best effort.
Cancel(c) ==
  /\ pc[c] = "cancel"
  /\ CancelOnExchange(cur[c].xid)
  /\ Goto(c, "recordCancel")
  /\ UNCHANGED <<up, kill, ord, bypass, mode, attempt, polls, cur, how,
                 inFlight, db, submits, draining, todo, crashes>>

\* Deviation: the row is closed as CANCELLED whether the cancel worked or not.
RecordCancel_AssumesCancelled(c) ==
  /\ pc[c] = "recordCancel"
  /\ UpdateRow(c, [cur[c] EXCEPT !.status = "CANCELLED"])
  /\ Return(c, IF polls[c] = MaxPolls THEN "timeout" ELSE "killed")
  /\ UNCHANGED <<up, kill, ord, bypass, mode, attempt, polls, cur, book,
                 submits, draining, todo, crashes>>

\* ... and the result of the last poll is persisted and returned.
RecordCancel(c) ==
  /\ pc[c] = "recordCancel"
  /\ UpdateRow(c, cur[c])
  /\ Return(c, IF polls[c] = MaxPolls THEN "timeout" ELSE "killed")
  /\ UNCHANGED <<up, kill, ord, bypass, mode, attempt, polls, cur, book,
                 submits, draining, todo, crashes>>

(***************************************************************************)
(* ExecutionEngine.shutdown, and the end of the process                    *)
(***************************************************************************)

BeginShutdown ==
  /\ up
  /\ ~draining
  /\ crashes < MaxCrashes
  /\ draining' = TRUE
  /\ todo' = {inFlight[o].xid :
                o \in {p \in Orders :
                         /\ inFlight[p].status \notin MonitorStops
                         /\ inFlight[p].xid # 0}}
  /\ UNCHANGED <<up, kill, callVars, inFlight, db, book, submits, crashes>>

ShutdownCancel(i) ==
  /\ draining
  /\ CancelOnExchange(i)
  /\ todo' = todo \ {i}
  /\ UNCHANGED <<up, kill, callVars, inFlight, db, submits, draining,
                 crashes>>

\* The process ends: coroutines and memory are gone.
Stop ==
  /\ up' = FALSE
  /\ pc' = [c \in Calls |-> IF Active(c) THEN "lost" ELSE pc[c]]
  /\ inFlight' = [o \in Orders |-> Untracked]
  /\ draining' = FALSE
  /\ todo' = {}
  /\ crashes' = crashes + 1
  /\ UNCHANGED <<kill, ord, bypass, mode, attempt, polls, cur, how, db, book,
                 submits>>

FinishShutdown == up /\ draining /\ todo = {} /\ Stop
Crash == up /\ crashes < MaxCrashes /\ Stop

Restart ==
  /\ ~up
  /\ up' = TRUE
  /\ UNCHANGED <<kill, callVars, inFlight, db, book, submits, draining, todo,
                 crashes>>

(***************************************************************************)
(* Environment: the exchange fills or ends an order, the switch is turned. *)
(***************************************************************************)

Fill(i) ==
  /\ book[i].state = "open"
  /\ \E q \in 1..(Qty - book[i].filled) :
       book' = [book EXCEPT
                  ![i].filled = @ + q,
                  ![i].state = IF book[i].filled + q = Qty
                               THEN "closed" ELSE @]
  /\ UNCHANGED <<up, kill, callVars, inFlight, db, submits, draining, todo,
                 crashes>>

EndOnExchange(i) ==
  /\ book[i].state = "open"
  /\ \E s \in {"canceled", "expired", "rejected"} :
       /\ s = "rejected" => book[i].filled = 0
       /\ book' = [book EXCEPT ![i].state = s]
  /\ UNCHANGED <<up, kill, callVars, inFlight, db, submits, draining, todo,
                 crashes>>

Switch ==
  /\ kill' = ~kill
  /\ UNCHANGED <<up, callVars, inFlight, db, book, submits, draining, todo,
                 crashes>>

-----------------------------------------------------------------------------
Step(c) ==
  \/ Refuse(c) \/ EnterSafe(c) \/ LookupHit(c) \/ LookupMiss(c)
  \/ PersistPending(c) \/ FindExisting(c) \/ SendCreate(c) \/ Accept(c)
  \/ Respond(c) \/ Simulate(c) \/ SubmitFails(c) \/ RecordUnknown(c)
  \/ Record(c) \/ Poll(c) \/ RecordFill(c) \/ RecordEnd(c) \/ Cancel(c)
  \/ RecordCancel(c)

Process ==
  \/ BeginShutdown
  \/ \E i \in todo : ShutdownCancel(i)
  \/ FinishShutdown
  \/ Crash
  \/ Restart

Environment ==
  \/ \E i \in DOMAIN book : Fill(i) \/ EndOnExchange(i)
  \/ Switch

Next ==
  \/ \E c \in Calls : Execute(c) \/ Step(c)
  \/ Process
  \/ Environment

Spec == Init /\ [][Next]_vars

\* The event loop resumes a suspended call, and every await ends: each
\* exchange and database operation has a timeout of its own.
FairSpec == Spec /\ \A c \in Calls : WF_vars(Step(c))

-----------------------------------------------------------------------------
(* Properties *)

CallTypes ==
  /\ pc \in [Calls -> Running \cup {"idle", "done", "lost"}]
  /\ ord \in [Calls -> Orders]
  /\ bypass \in [Calls -> BOOLEAN]
  /\ mode \in Modes
  /\ attempt \in [Calls -> 0..MaxAttempts]
  /\ polls \in [Calls -> 0..MaxPolls]
  /\ how \in [Calls -> Ends]

ResultTypes == cur \in [Calls -> Results] /\ inFlight \in [Orders -> Results]

TableTypes == db \in [Orders -> Rows] /\ submits \in [Orders -> Nat]

ExchangeTypes == book \in Seq(ExchangeOrders) /\ todo \subseteq DOMAIN book

ProcessTypes ==
  {up, kill, draining} \subseteq BOOLEAN /\ crashes \in Nat

\* Every variable keeps its type: results and rows hold a status the code
\* knows and a quantity of at most the order's, the loops stay within their
\* bounds, and shutdown() only cancels ids the exchange gave out.
TypeOK ==
  CallTypes /\ ResultTypes /\ TableTypes /\ ExchangeTypes /\ ProcessTypes

\* order_safety.py, fail-safe rule: an order id is handed to the exchange
\* adapter at most once, whatever crashes, restarts and repeated execute()
\* calls with the same id lie in between.
AtMostOneSubmission == \A o \in Orders : submits[o] <= 1

\* place_order: the retry after a lost answer adopts the order the exchange
\* already has instead of creating a second one; likewise a paper fill is
\* simulated once.
AtMostOneExchangeOrder ==
  \A i, j \in DOMAIN book : book[i].order = book[j].order => i = j

\* _persist_pending runs before the exchange call: at no point can a crash
\* leave an order at the exchange without a row in the orders table.
ExchangeOrderHasRow == \A i \in DOMAIN book : db[book[i].order] # NoRow

\* What the orders table says happened did happen at the exchange: a FILLED
\* or CANCELLED row has an order of that id in that state, and a row never
\* claims a quantity the exchange did not fill.
RowIsTruthful ==
  \A o \in Orders :
    LET own == {i \in DOMAIN book : book[i].order = o}
    IN /\ db[o].status = "FILLED" =>
            \E i \in own : book[i].state = "closed"
       /\ db[o].status = "CANCELLED" =>
            \E i \in own : book[i].state = "canceled"
       /\ db[o].filled > 0 =>
            \E i \in own : book[i].filled >= db[o].filled

\* No later write (a duplicate, an unknown result, a late poll) replaces the
\* row of a filled order.
FilledRowIsFinal ==
  [][\A o \in Orders : db[o].status = "FILLED" => db'[o] = db[o]]_db

\* shutdown() finds the exchange order of every call that is past its
\* submission: the call's exchange order id is in _in_flight until it returns.
MonitoredIsTracked ==
  \A c \in Calls :
    pc[c] \in {"record", "poll", "cancel", "recordCancel"} =>
      /\ cur[c].xid \in DOMAIN book
      /\ inFlight[ord[c]].xid = cur[c].xid

\* execute() never reports more than the exchange did: the result names an
\* exchange order of the call's own order id, with at least the reported
\* quantity filled, and a call that ended as filled has a closed order.
NeverOverReports ==
  \A c \in Calls :
    pc[c] = "done" /\ cur[c].xid # 0 =>
      /\ cur[c].xid \in DOMAIN book
      /\ book[cur[c].xid].order = ord[c]
      /\ book[cur[c].xid].filled >= cur[c].filled
      /\ how[c] = "filled" => book[cur[c].xid].state = "closed"

\* Every call of execute() returns, or dies with the process, whatever the
\* database, the lookups, the polls and the cancels do: none is retried
\* without a bound.
EveryCallReturns == \A c \in Calls : Active(c) ~> ~Active(c)

\* The orphaned PENDING rows of order_safety.py's audit note do not come
\* back: while the process lives and the database works, a PENDING row is
\* always closed or moved on.
NoPendingForever ==
  \A o \in Orders :
    db[o].status = "PENDING" ~> (db[o].status # "PENDING" \/ crashes > 0)

\* What the caller and the table can wait for: calls return, PENDING rows are
\* closed or moved on.
CallsSettle == EveryCallReturns /\ NoPendingForever

=============================================================================
