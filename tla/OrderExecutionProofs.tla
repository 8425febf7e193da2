------------------------ MODULE OrderExecutionProofs ------------------------
(***************************************************************************)
(* Theorems about OrderExecution: its types, and what relates the orders   *)
(* table, the results and the exchange: an id is submitted at most once,   *)
(* and nothing is reported that did not happen.                            *)
(*                                                                         *)
(* Some of them are about callers that repeat an order id only after the   *)
(* call before it has ended (~Overlap): a call under way is tracked, the   *)
(* exchange has at most one order per id, and the row of a filled order is *)
(* final.  The last section makes no such assumption.                      *)
(***************************************************************************)
EXTENDS OrderExecution, TLAPS

-----------------------------------------------------------------------------
(* Types *)

\* Where a call holds a result that names an exchange order.
Holding == {"record", "recordFill", "recordEnd", "poll", "cancel",
            "recordCancel"}

\* A call that holds an exchange order id holds one the exchange gave out,
\* and what is tracked is tracked under such an id.
XidOK ==
  /\ \A c \in Calls :
       /\ pc[c] \in Holding \cup {"accepted"} => cur[c].xid \in DOMAIN book
       /\ pc[c] \in Holding => cur[c].status \in Statuses
  /\ \A o \in Orders : inFlight[o].xid \in {0} \cup DOMAIN book

\* The loop is only entered with polls left.
PollsOK ==
  \A c \in Calls :
    /\ pc[c] = "poll" => polls[c] < MaxPolls
    /\ pc[c] \in {"idle", "checked", "lookup", "persist", "find", "sent",
                  "accepted", "simulate", "record"} => polls[c] = 0

TypeInv == TypeOK /\ XidOK /\ PollsOK

-----------------------------------------------------------------------------
LEMMA ParseType ==
  ASSUME TypeOK, NEW i \in DOMAIN book
  PROVE  /\ ParseOrderResult(i) \in Results
         /\ ParseOrderResult(i).xid = i
         /\ ParseOrderResult(i).status \in Statuses
         /\ ParseOrderResult(i).filled = book[i].filled
<1>1. book[i] \in ExchangeOrders /\ i \in Nat
  BY DEF TypeOK, ExchangeTypes
<1>2. ParseStatus(book[i]) \in Statuses
  BY <1>1 DEF ParseStatus, StatusMap, Statuses, ExchangeOrders, ExchangeStates
<1> QED
  BY <1>1, <1>2 DEF ParseOrderResult, Results, ExchangeOrders

\* The results and rows the code builds itself have the right type.
LEMMA ResultValues ==
  /\ Untracked \in Results /\ Untracked.xid = 0
  /\ Placeholder \in Results /\ Placeholder.xid = 0
  /\ UnknownResult \in Results /\ UnknownResult.xid = 0
  /\ NoRow \in Rows
<1>1. 0 \in 0..Qty
  BY ConstantsOK DEF ConstantsOK
<1> QED
  BY <1>1 DEF Untracked, Placeholder, UnknownResult, NoRow, Results, Rows,
    Statuses

LEMMA RowValue ==
  ASSUME NEW s \in Statuses, NEW n \in 0..Qty
  PROVE  [status |-> s, filled |-> n] \in Rows
BY DEF Rows

LEMMA ResultFields ==
  ASSUME NEW r \in Results
  PROVE  /\ r.xid \in Nat
         /\ r.status \in Statuses \cup {"NONE"}
         /\ r.filled \in 0..Qty
BY DEF Results

LEMMA RowFields ==
  ASSUME NEW r \in Rows
  PROVE  /\ r.status \in Statuses \cup {"NONE"}
         /\ r.filled \in 0..Qty
BY DEF Rows

LEMMA RowResult ==
  ASSUME NEW r \in Results, NEW w \in Rows
  PROVE  [r EXCEPT !.status = w.status, !.filled = w.filled] \in Results
BY DEF Results, Rows

LEMMA ResultXid ==
  ASSUME NEW r \in Results, NEW i \in Nat
  PROVE  [r EXCEPT !.xid = i] \in Results
BY DEF Results

\* An update of one exchange order in place keeps the book's type.
LEMMA BookUpdate ==
  ASSUME ExchangeTypes, NEW i \in DOMAIN book, NEW x \in ExchangeOrders,
         book' = [book EXCEPT ![i] = x]
  PROVE  book' \in Seq(ExchangeOrders) /\ DOMAIN book' = DOMAIN book
BY DEF ExchangeTypes

LEMMA OrderState ==
  ASSUME NEW x \in ExchangeOrders, NEW s \in ExchangeStates
  PROVE  [x EXCEPT !.state = s] \in ExchangeOrders
BY DEF ExchangeOrders

LEMMA OrderFilled ==
  ASSUME NEW x \in ExchangeOrders, NEW s \in ExchangeStates,
         NEW n \in 0..Qty
  PROVE  [x EXCEPT !.filled = n, !.state = s] \in ExchangeOrders
BY DEF ExchangeOrders

LEMMA CancelBook ==
  ASSUME ExchangeTypes, NEW i \in DOMAIN book, CancelOnExchange(i)
  PROVE  book' \in Seq(ExchangeOrders) /\ DOMAIN book' = DOMAIN book
<1>1. CASE book' = book
  BY <1>1 DEF ExchangeTypes
<1>2. CASE book' # book
  <2> DEFINE s == IF book[i].state = "open" THEN "canceled"
                  ELSE book[i].state
  <2>1. book[i] \in ExchangeOrders
    BY DEF ExchangeTypes
  <2>2. s \in ExchangeStates
    BY <2>1 DEF ExchangeOrders, ExchangeStates
  <2>3. book' = [book EXCEPT ![i] = [book[i] EXCEPT !.state = s]]
    BY <1>2 DEF CancelOnExchange
  <2>4. [book[i] EXCEPT !.state = s] \in ExchangeOrders
    BY <2>1, <2>2, OrderState
  <2> QED
    BY <2>3, <2>4, BookUpdate
<1> QED
  BY <1>1, <1>2

LEMMA InitTypeInv == Init => TypeInv
<1> SUFFICES ASSUME Init PROVE TypeInv
  OBVIOUS
<1> USE DEF Init
<1>1. TypeOK
  <2>1. /\ attempt \in [Calls -> 0..MaxAttempts]
        /\ polls \in [Calls -> 0..MaxPolls]
    BY ConstantsOK DEF ConstantsOK
  <2>2. /\ cur \in [Calls -> Results] /\ inFlight \in [Orders -> Results]
        /\ db \in [Orders -> Rows]
    BY ResultValues
  <2>3. pc \in [Calls -> Running \cup {"idle", "done", "lost"}]
    OBVIOUS
  <2>4. /\ how \in [Calls -> Ends] /\ book \in Seq(ExchangeOrders)
        /\ submits \in [Orders -> Nat] /\ todo \subseteq DOMAIN book
    BY DEF Ends
  <2> QED
    BY <2>1, <2>2, <2>3, <2>4 DEF TypeOK, CallTypes, ResultTypes, TableTypes,
      ExchangeTypes, ProcessTypes
<1>2. XidOK
  BY ResultValues DEF XidOK, Holding
<1>3. PollsOK
  BY DEF PollsOK
<1> QED
  BY <1>1, <1>2, <1>3 DEF TypeInv

LEMMA NextTypeInv == TypeInv /\ [Next]_vars => TypeInv'
<1> SUFFICES ASSUME TypeInv, [Next]_vars PROVE TypeInv'
  OBVIOUS
<1> USE DEF TypeInv, callVars
<1>1. ASSUME NEW c \in Calls, Execute(c) PROVE TypeInv'
  <2>1. CallTypes'
    BY <1>1 DEF Execute, Goto, TypeOK, CallTypes, Running, Ends
  <2>2. ResultTypes' /\ TableTypes' /\ ExchangeTypes' /\ ProcessTypes'
    BY <1>1 DEF Execute, Goto, TypeOK, ResultTypes, TableTypes,
      ExchangeTypes, ProcessTypes
  <2>3. XidOK'
    BY <1>1 DEF Execute, Goto, TypeOK, CallTypes, ResultTypes,
      ExchangeTypes, XidOK, Holding
  <2>4. PollsOK'
    BY <1>1 DEF Execute, Goto, TypeOK, CallTypes, PollsOK
  <2> QED
    BY <2>1, <2>2, <2>3, <2>4 DEF TypeInv, TypeOK
<1>2. ASSUME NEW c \in Calls, Refuse(c) PROVE TypeInv'
  <2>1. CallTypes'
    BY <1>2 DEF Refuse, Goto, TypeOK, CallTypes, Running, Ends
  <2>2. ResultTypes' /\ TableTypes' /\ ExchangeTypes' /\ ProcessTypes'
    BY <1>2 DEF Refuse, Goto, TypeOK, ResultTypes, TableTypes,
      ExchangeTypes, ProcessTypes
  <2>3. XidOK'
    BY <1>2 DEF Refuse, Goto, TypeOK, CallTypes, ResultTypes,
      ExchangeTypes, XidOK, Holding
  <2>4. PollsOK'
    BY <1>2 DEF Refuse, Goto, TypeOK, CallTypes, PollsOK
  <2> QED
    BY <2>1, <2>2, <2>3, <2>4 DEF TypeInv, TypeOK
<1>3. ASSUME NEW c \in Calls, EnterSafe(c) PROVE TypeInv'
  <2>1. CallTypes'
    BY <1>3 DEF EnterSafe, Goto, Return, TypeOK, CallTypes, Running, Ends
  <2>2. ResultTypes'
    BY <1>3, ResultValues DEF EnterSafe, Goto, Return, TypeOK, ResultTypes
  <2>3. TableTypes' /\ ExchangeTypes' /\ ProcessTypes'
    BY <1>3 DEF EnterSafe, Goto, Return, TypeOK, TableTypes,
      ExchangeTypes, ProcessTypes
  <2>4. XidOK'
    BY <1>3, ResultValues DEF EnterSafe, Goto, Return, TypeOK, CallTypes,
      ResultTypes, ExchangeTypes, XidOK, Holding
  <2>5. PollsOK'
    BY <1>3 DEF EnterSafe, Goto, Return, TypeOK, CallTypes, PollsOK
  <2> QED
    BY <2>1, <2>2, <2>3, <2>4, <2>5 DEF TypeInv, TypeOK
<1>4. ASSUME NEW c \in Calls, LookupHit(c) PROVE TypeInv'
  <2>1. CallTypes'
    BY <1>4 DEF LookupHit, Goto, Return, TypeOK, CallTypes, Running, Ends
  <2>2. ResultTypes'
    <3>1. /\ inFlight' = [inFlight EXCEPT ![ord[c]] = Untracked]
          /\ \/ cur' = [cur EXCEPT ![c] = [cur[c] EXCEPT
                             !.status = db[ord[c]].status,
                             !.filled = db[ord[c]].filled]]
             \/ cur' = [cur EXCEPT ![c] = UnknownResult]
      BY <1>4 DEF LookupHit, Return
    <3>2. cur[c] \in Results /\ db[ord[c]] \in Rows
      BY DEF TypeOK, CallTypes, ResultTypes, TableTypes
    <3>3. [cur[c] EXCEPT !.status = db[ord[c]].status,
                         !.filled = db[ord[c]].filled] \in Results
      BY <3>2, RowResult
    <3> QED
      BY <3>1, <3>3, ResultValues DEF TypeOK, ResultTypes
  <2>3. TableTypes' /\ ExchangeTypes' /\ ProcessTypes'
    BY <1>4 DEF LookupHit, Goto, Return, TypeOK, TableTypes,
      ExchangeTypes, ProcessTypes
  <2>4. XidOK'
    BY <1>4, ResultValues DEF LookupHit, Goto, Return, TypeOK, CallTypes,
      ResultTypes, ExchangeTypes, XidOK, Holding
  <2>5. PollsOK'
    BY <1>4 DEF LookupHit, Goto, Return, TypeOK, CallTypes, PollsOK
  <2> QED
    BY <2>1, <2>2, <2>3, <2>4, <2>5 DEF TypeInv, TypeOK
<1>5. ASSUME NEW c \in Calls, LookupMiss(c) PROVE TypeInv'
  <2>1. CallTypes'
    BY <1>5 DEF LookupMiss, Goto, TypeOK, CallTypes, Running, Ends
  <2>2. ResultTypes'
    BY <1>5, ResultValues DEF LookupMiss, Goto, TypeOK, ResultTypes
  <2>3. TableTypes' /\ ExchangeTypes' /\ ProcessTypes'
    BY <1>5 DEF LookupMiss, Goto, TypeOK, TableTypes, ExchangeTypes,
      ProcessTypes
  <2>4. XidOK'
    BY <1>5, ResultValues DEF LookupMiss, Goto, TypeOK, CallTypes,
      ResultTypes, ExchangeTypes, XidOK, Holding
  <2>5. PollsOK'
    BY <1>5 DEF LookupMiss, Goto, TypeOK, CallTypes, PollsOK
  <2> QED
    BY <2>1, <2>2, <2>3, <2>4, <2>5 DEF TypeInv, TypeOK
<1>6. ASSUME NEW c \in Calls, PersistPending(c) PROVE TypeInv'
  <2>1. CallTypes'
    BY <1>6, ConstantsOK DEF PersistPending, Goto, TypeOK, CallTypes,
      Running, Ends, ConstantsOK
  <2>2. TableTypes'
    <3>1. 0 \in 0..Qty /\ "PENDING" \in Statuses
      BY ConstantsOK DEF ConstantsOK, Statuses
    <3>2. [status |-> "PENDING", filled |-> 0] \in Rows
      BY <3>1, RowValue
    <3>3. db' \in [Orders -> Rows]
      BY <1>6, <3>2 DEF PersistPending, TypeOK, TableTypes
    <3>4. submits' \in [Orders -> Nat]
      <4>1. submits[ord[c]] + 1 \in Nat
        BY DEF TypeOK, TableTypes, CallTypes
      <4>2. submits' = [submits EXCEPT ![ord[c]] = submits[ord[c]] + 1]
        BY <1>6 DEF PersistPending
      <4> QED
        BY <4>1, <4>2 DEF TypeOK, TableTypes
    <3> QED
      BY <3>3, <3>4 DEF TableTypes
  <2>3. ResultTypes' /\ ExchangeTypes' /\ ProcessTypes'
    BY <1>6 DEF PersistPending, Goto, TypeOK, ResultTypes, ExchangeTypes,
      ProcessTypes
  <2>4. XidOK'
    BY <1>6 DEF PersistPending, Goto, TypeOK, CallTypes, ResultTypes,
      ExchangeTypes, XidOK, Holding
  <2>5. PollsOK'
    BY <1>6 DEF PersistPending, Goto, TypeOK, CallTypes, PollsOK
  <2> QED
    BY <2>1, <2>2, <2>3, <2>4, <2>5 DEF TypeInv, TypeOK
<1>7. ASSUME NEW c \in Calls, FindExisting(c) PROVE TypeInv'
  <2>1. CallTypes'
    BY <1>7 DEF FindExisting, Goto, Submitted, TypeOK, CallTypes, Running,
      Ends
  <2>2. ResultTypes'
    BY <1>7, ParseType DEF FindExisting, Goto, Submitted, TypeOK,
      ResultTypes
  <2>3. TableTypes' /\ ExchangeTypes' /\ ProcessTypes'
    BY <1>7 DEF FindExisting, Goto, Submitted, TypeOK, TableTypes,
      ExchangeTypes, ProcessTypes
  <2>4. XidOK'
    BY <1>7, ParseType DEF FindExisting, Goto, Submitted, TypeOK,
      CallTypes, ResultTypes, ExchangeTypes, XidOK, Holding
  <2>5. PollsOK'
    BY <1>7 DEF FindExisting, Goto, Submitted, TypeOK, CallTypes, PollsOK
  <2> QED
    BY <2>1, <2>2, <2>3, <2>4, <2>5 DEF TypeInv, TypeOK
<1>8. ASSUME NEW c \in Calls, SendCreate(c) PROVE TypeInv'
  <2>1. CallTypes'
    BY <1>8 DEF SendCreate, Goto, TypeOK, CallTypes, Running, Ends
  <2>2. ResultTypes' /\ TableTypes' /\ ExchangeTypes' /\ ProcessTypes'
    BY <1>8 DEF SendCreate, Goto, TypeOK, ResultTypes, TableTypes,
      ExchangeTypes, ProcessTypes
  <2>3. XidOK'
    BY <1>8 DEF SendCreate, Goto, TypeOK, CallTypes, ResultTypes,
      ExchangeTypes, XidOK, Holding
  <2>4. PollsOK'
    BY <1>8 DEF SendCreate, Goto, TypeOK, CallTypes, PollsOK
  <2> QED
    BY <2>1, <2>2, <2>3, <2>4 DEF TypeInv, TypeOK
<1>9. ASSUME NEW c \in Calls, Accept(c) PROVE TypeInv'
  <2>1. CallTypes'
    BY <1>9 DEF Accept, Goto, TypeOK, CallTypes, Running, Ends
  <2>2. ResultTypes'
    <3>1. Len(book) + 1 \in Nat /\ cur[c] \in Results
      BY DEF TypeOK, ResultTypes, ExchangeTypes
    <3>2. [cur[c] EXCEPT !.xid = Len(book) + 1] \in Results
      BY <3>1, ResultXid
    <3>3. cur' = [cur EXCEPT ![c] = [cur[c] EXCEPT !.xid = Len(book) + 1]]
      BY <1>9 DEF Accept
    <3> QED
      BY <1>9, <3>2, <3>3 DEF Accept, TypeOK, ResultTypes
  <2>3. ExchangeTypes'
    BY <1>9, ConstantsOK DEF Accept, Goto, TypeOK, ExchangeTypes,
      CallTypes, ConstantsOK, ExchangeOrders, ExchangeStates
  <2>4. TableTypes' /\ ProcessTypes'
    BY <1>9 DEF Accept, Goto, TypeOK, TableTypes, ProcessTypes
  <2>5. XidOK'
    BY <1>9 DEF Accept, Goto, TypeOK, CallTypes, ResultTypes,
      ExchangeTypes, XidOK, Holding
  <2>6. PollsOK'
    BY <1>9 DEF Accept, Goto, TypeOK, CallTypes, PollsOK
  <2> QED
    BY <2>1, <2>2, <2>3, <2>4, <2>5, <2>6 DEF TypeInv, TypeOK
<1>10. ASSUME NEW c \in Calls, Respond(c) PROVE TypeInv'
  <2>1. CallTypes'
    BY <1>10 DEF Respond, Goto, Submitted, TypeOK, CallTypes, Running,
      Ends
  <2>2. ResultTypes'
    BY <1>10, ParseType DEF Respond, Goto, Submitted, TypeOK, ResultTypes,
      XidOK
  <2>3. TableTypes' /\ ExchangeTypes' /\ ProcessTypes'
    BY <1>10 DEF Respond, Goto, Submitted, TypeOK, TableTypes,
      ExchangeTypes, ProcessTypes
  <2>4. XidOK'
    BY <1>10, ParseType DEF Respond, Goto, Submitted, TypeOK, CallTypes,
      ResultTypes, ExchangeTypes, XidOK, Holding
  <2>5. PollsOK'
    BY <1>10 DEF Respond, Goto, Submitted, TypeOK, CallTypes, PollsOK
  <2> QED
    BY <2>1, <2>2, <2>3, <2>4, <2>5 DEF TypeInv, TypeOK
<1>11. ASSUME NEW c \in Calls, Simulate(c) PROVE TypeInv'
  <2>1. CallTypes'
    BY <1>11 DEF Simulate, Goto, Submitted, TypeOK, CallTypes, Running,
      Ends
  <2>2. ResultTypes'
    <3> DEFINE r == [xid |-> Len(book) + 1, status |-> "FILLED",
                     filled |-> Qty]
    <3>1. Len(book) + 1 \in Nat /\ Qty \in 0..Qty
      BY ConstantsOK DEF TypeOK, ExchangeTypes, ConstantsOK
    <3>2. r \in Results
      BY <3>1 DEF Results, Statuses
    <3>3. /\ cur' = [cur EXCEPT ![c] = r]
          /\ inFlight' = [inFlight EXCEPT ![ord[c]] = r]
      BY <1>11 DEF Simulate, Submitted
    <3> QED
      BY <3>2, <3>3 DEF TypeOK, ResultTypes
  <2>3. ExchangeTypes'
    BY <1>11, ConstantsOK DEF Simulate, Goto, Submitted, TypeOK,
      ExchangeTypes, CallTypes, ConstantsOK, ExchangeOrders,
      ExchangeStates
  <2>4. TableTypes' /\ ProcessTypes'
    BY <1>11 DEF Simulate, Goto, Submitted, TypeOK, TableTypes,
      ProcessTypes
  <2>5. XidOK'
    <3> DEFINE r == [xid |-> Len(book) + 1, status |-> "FILLED",
                     filled |-> Qty]
    <3>1. DOMAIN book' = DOMAIN book \cup {Len(book) + 1}
      BY <1>11 DEF Simulate, TypeOK, ExchangeTypes
    <3>2. r.xid \in DOMAIN book' /\ r.status \in Statuses
      BY <3>1 DEF Statuses
    <3>3. /\ cur' = [cur EXCEPT ![c] = r]
          /\ inFlight' = [inFlight EXCEPT ![ord[c]] = r]
          /\ pc' = [pc EXCEPT ![c] = "record"]
      BY <1>11 DEF Simulate, Submitted, Goto
    <3> HIDE DEF r
    <3> QED
      BY <3>1, <3>2, <3>3 DEF TypeOK, CallTypes, ResultTypes, XidOK, Holding
  <2>6. PollsOK'
    BY <1>11 DEF Simulate, Goto, Submitted, TypeOK, CallTypes, PollsOK
  <2> QED
    BY <2>1, <2>2, <2>3, <2>4, <2>5, <2>6 DEF TypeInv, TypeOK
<1>12. ASSUME NEW c \in Calls, SubmitFails(c) PROVE TypeInv'
  <2>1. CallTypes'
    BY <1>12, ConstantsOK DEF SubmitFails, Goto, TypeOK, CallTypes,
      Running, Ends, ConstantsOK
  <2>2. ResultTypes'
    BY <1>12, ResultValues DEF SubmitFails, Goto, TypeOK, ResultTypes
  <2>3. TableTypes' /\ ExchangeTypes' /\ ProcessTypes'
    BY <1>12 DEF SubmitFails, Goto, TypeOK, TableTypes, ExchangeTypes,
      ProcessTypes
  <2>4. XidOK'
    BY <1>12, ResultValues DEF SubmitFails, Goto, TypeOK, CallTypes,
      ResultTypes, ExchangeTypes, XidOK, Holding
  <2>5. PollsOK'
    BY <1>12 DEF SubmitFails, Goto, TypeOK, CallTypes, PollsOK
  <2> QED
    BY <2>1, <2>2, <2>3, <2>4, <2>5 DEF TypeInv, TypeOK
<1>13. ASSUME NEW c \in Calls, RecordUnknown(c) PROVE TypeInv'
  <2>1. CallTypes'
    BY <1>13 DEF RecordUnknown, Goto, Return, UpdateRow, TypeOK,
      CallTypes, Running, Ends
  <2>2. ResultTypes'
    BY <1>13, ResultValues DEF RecordUnknown, Goto, Return, UpdateRow,
      TypeOK, ResultTypes
  <2>3. TableTypes'
    BY <1>13, RowValue, ConstantsOK DEF RecordUnknown, Goto, Return,
      UpdateRow, TypeOK, TableTypes, ConstantsOK, CallTypes,
      UnknownResult, Statuses
  <2>4. ExchangeTypes' /\ ProcessTypes'
    BY <1>13 DEF RecordUnknown, Goto, Return, UpdateRow, TypeOK,
      ExchangeTypes, ProcessTypes
  <2>5. XidOK'
    BY <1>13, ResultValues DEF RecordUnknown, Goto, Return, UpdateRow,
      TypeOK, CallTypes, ResultTypes, ExchangeTypes, XidOK, Holding
  <2>6. PollsOK'
    BY <1>13 DEF RecordUnknown, Goto, Return, UpdateRow, TypeOK,
      CallTypes, PollsOK
  <2> QED
    BY <2>1, <2>2, <2>3, <2>4, <2>5, <2>6 DEF TypeInv, TypeOK
<1>14. ASSUME NEW c \in Calls, Record(c) PROVE TypeInv'
  <2>1. CallTypes'
    BY <1>14 DEF Record, Goto, Monitor, UpdateRow, TypeOK, CallTypes,
      Running, Ends
  <2>2. TableTypes'
    BY <1>14, RowValue, ResultFields DEF Record, Goto, Monitor, UpdateRow,
      TypeOK, TableTypes, CallTypes, ResultTypes, XidOK, Holding
  <2>3. ResultTypes' /\ ExchangeTypes' /\ ProcessTypes'
    BY <1>14 DEF Record, Goto, Monitor, UpdateRow, TypeOK, ResultTypes,
      ExchangeTypes, ProcessTypes
  <2>4. XidOK'
    BY <1>14 DEF Record, Goto, Monitor, UpdateRow, TypeOK, CallTypes,
      ResultTypes, ExchangeTypes, XidOK, Holding
  <2>5. PollsOK'
    BY <1>14, ConstantsOK DEF Record, Goto, Monitor, TypeOK, CallTypes,
      PollsOK, ConstantsOK
  <2> QED
    BY <2>1, <2>2, <2>3, <2>4, <2>5 DEF TypeInv, TypeOK
<1>15. ASSUME NEW c \in Calls, Poll(c) PROVE TypeInv'
  <2>1. CallTypes'
    BY <1>15, ConstantsOK DEF Poll, Goto, Monitor, UpdateInflight,
      AfterPoll, TypeOK, CallTypes, Running, Ends, ConstantsOK, PollsOK
  <2>2. ResultTypes'
    BY <1>15, ParseType DEF Poll, Goto, Monitor, UpdateInflight,
      AfterPoll, TypeOK, ResultTypes, CallTypes, XidOK, Holding
  <2>3. TableTypes' /\ ExchangeTypes' /\ ProcessTypes'
    BY <1>15 DEF Poll, Goto, Monitor, UpdateInflight, AfterPoll, TypeOK,
      TableTypes, ExchangeTypes, ProcessTypes
  <2>4. XidOK'
    BY <1>15, ParseType DEF Poll, Goto, Monitor, UpdateInflight,
      AfterPoll, TypeOK, CallTypes, ResultTypes, ExchangeTypes, XidOK,
      Holding
  <2>5. PollsOK'
    BY <1>15 DEF Poll, Goto, Monitor, UpdateInflight, AfterPoll, TypeOK,
      CallTypes, PollsOK
  <2> QED
    BY <2>1, <2>2, <2>3, <2>4, <2>5 DEF TypeInv, TypeOK
<1>16. ASSUME NEW c \in Calls, RecordFill(c) PROVE TypeInv'
  <2>1. CallTypes'
    BY <1>16 DEF RecordFill, Goto, Return, UpdateRow, TypeOK, CallTypes,
      Running, Ends
  <2>2. ResultTypes'
    BY <1>16, ResultValues DEF RecordFill, Goto, Return, UpdateRow,
      TypeOK, ResultTypes
  <2>3. TableTypes'
    BY <1>16, RowValue, ResultFields DEF RecordFill, Goto, Return,
      UpdateRow, TypeOK, TableTypes, CallTypes, ResultTypes, XidOK,
      Holding
  <2>4. ExchangeTypes' /\ ProcessTypes'
    BY <1>16 DEF RecordFill, Goto, Return, UpdateRow, TypeOK,
      ExchangeTypes, ProcessTypes
  <2>5. XidOK'
    BY <1>16, ResultValues DEF RecordFill, Goto, Return, UpdateRow,
      TypeOK, CallTypes, ResultTypes, ExchangeTypes, XidOK, Holding
  <2>6. PollsOK'
    BY <1>16 DEF RecordFill, Goto, Return, UpdateRow, TypeOK, CallTypes,
      PollsOK
  <2> QED
    BY <2>1, <2>2, <2>3, <2>4, <2>5, <2>6 DEF TypeInv, TypeOK
<1>17. ASSUME NEW c \in Calls, RecordEnd(c) PROVE TypeInv'
  <2>1. CallTypes'
    BY <1>17 DEF RecordEnd, Goto, Return, UpdateRow, TypeOK, CallTypes,
      Running, Ends
  <2>2. ResultTypes'
    BY <1>17, ResultValues DEF RecordEnd, Goto, Return, UpdateRow, TypeOK,
      ResultTypes
  <2>3. TableTypes'
    BY <1>17, RowValue, ResultFields DEF RecordEnd, Goto, Return,
      UpdateRow, TypeOK, TableTypes, CallTypes, ResultTypes, XidOK,
      Holding
  <2>4. ExchangeTypes' /\ ProcessTypes'
    BY <1>17 DEF RecordEnd, Goto, Return, UpdateRow, TypeOK,
      ExchangeTypes, ProcessTypes
  <2>5. XidOK'
    BY <1>17, ResultValues DEF RecordEnd, Goto, Return, UpdateRow, TypeOK,
      CallTypes, ResultTypes, ExchangeTypes, XidOK, Holding
  <2>6. PollsOK'
    BY <1>17 DEF RecordEnd, Goto, Return, UpdateRow, TypeOK, CallTypes,
      PollsOK
  <2> QED
    BY <2>1, <2>2, <2>3, <2>4, <2>5, <2>6 DEF TypeInv, TypeOK
<1>18. ASSUME NEW c \in Calls, RecordCancel(c) PROVE TypeInv'
  <2>1. CallTypes'
    BY <1>18 DEF RecordCancel, Goto, Return, UpdateRow, TypeOK, CallTypes,
      Running, Ends
  <2>2. ResultTypes'
    BY <1>18, ResultValues DEF RecordCancel, Goto, Return, UpdateRow,
      TypeOK, ResultTypes
  <2>3. TableTypes'
    BY <1>18, RowValue, ResultFields DEF RecordCancel, Goto, Return,
      UpdateRow, TypeOK, TableTypes, CallTypes, ResultTypes, XidOK,
      Holding
  <2>4. ExchangeTypes' /\ ProcessTypes'
    BY <1>18 DEF RecordCancel, Goto, Return, UpdateRow, TypeOK,
      ExchangeTypes, ProcessTypes
  <2>5. XidOK'
    BY <1>18, ResultValues DEF RecordCancel, Goto, Return, UpdateRow,
      TypeOK, CallTypes, ResultTypes, ExchangeTypes, XidOK, Holding
  <2>6. PollsOK'
    BY <1>18 DEF RecordCancel, Goto, Return, UpdateRow, TypeOK, CallTypes,
      PollsOK
  <2> QED
    BY <2>1, <2>2, <2>3, <2>4, <2>5, <2>6 DEF TypeInv, TypeOK
<1>19. ASSUME NEW c \in Calls, Cancel(c) PROVE TypeInv'
  <2>1. CallTypes'
    BY <1>19 DEF Cancel, Goto, CancelOnExchange, TypeOK, CallTypes,
      Running, Ends
  <2>2. ExchangeTypes'
    BY <1>19, CancelBook DEF Cancel, TypeOK, ExchangeTypes, XidOK, Holding
  <2>3. ResultTypes' /\ TableTypes' /\ ProcessTypes'
    BY <1>19 DEF Cancel, Goto, CancelOnExchange, TypeOK, ResultTypes,
      TableTypes, ProcessTypes
  <2>4. XidOK'
    BY <1>19 DEF Cancel, Goto, CancelOnExchange, TypeOK, CallTypes,
      ResultTypes, ExchangeTypes, XidOK, Holding
  <2>5. PollsOK'
    BY <1>19 DEF Cancel, Goto, CancelOnExchange, TypeOK, CallTypes,
      PollsOK
  <2> QED
    BY <2>1, <2>2, <2>3, <2>4, <2>5 DEF TypeInv, TypeOK
<1>20. ASSUME BeginShutdown PROVE TypeInv'
  <2>1. ExchangeTypes'
    BY <1>20 DEF BeginShutdown, TypeOK, ExchangeTypes, XidOK
  <2>2. CallTypes' /\ ResultTypes' /\ TableTypes' /\ ProcessTypes'
    BY <1>20 DEF BeginShutdown, TypeOK, CallTypes, ResultTypes,
      TableTypes, ProcessTypes
  <2>3. XidOK'
    BY <1>20 DEF BeginShutdown, TypeOK, CallTypes, ResultTypes,
      ExchangeTypes, XidOK, Holding
  <2>4. PollsOK'
    BY <1>20 DEF BeginShutdown, TypeOK, CallTypes, PollsOK
  <2> QED
    BY <2>1, <2>2, <2>3, <2>4 DEF TypeInv, TypeOK
<1>21. ASSUME NEW i \in todo, ShutdownCancel(i) PROVE TypeInv'
  <2>1. ExchangeTypes'
    BY <1>21, CancelBook DEF ShutdownCancel, TypeOK, ExchangeTypes
  <2>2. CallTypes' /\ ResultTypes' /\ TableTypes' /\ ProcessTypes'
    BY <1>21 DEF ShutdownCancel, CancelOnExchange, TypeOK, CallTypes,
      ResultTypes, TableTypes, ProcessTypes
  <2>3. XidOK'
    BY <1>21 DEF ShutdownCancel, CancelOnExchange, TypeOK, CallTypes,
      ResultTypes, ExchangeTypes, XidOK, Holding
  <2>4. PollsOK'
    BY <1>21 DEF ShutdownCancel, CancelOnExchange, TypeOK, CallTypes,
      PollsOK
  <2> QED
    BY <2>1, <2>2, <2>3, <2>4 DEF TypeInv, TypeOK
<1>22. ASSUME FinishShutdown \/ Crash PROVE TypeInv'
  <2>1. CallTypes'
    BY <1>22 DEF FinishShutdown, Crash, Stop, Active, TypeOK, CallTypes,
      Running
  <2>2. ResultTypes'
    BY <1>22, ResultValues DEF FinishShutdown, Crash, Stop, Active,
      TypeOK, ResultTypes
  <2>3. TableTypes' /\ ExchangeTypes'
    BY <1>22 DEF FinishShutdown, Crash, Stop, TypeOK, TableTypes,
      ExchangeTypes
  <2>6. ProcessTypes'
    <3>1. /\ up' = FALSE /\ kill' = kill /\ draining' = FALSE
          /\ crashes' = crashes + 1
      BY <1>22 DEF FinishShutdown, Crash, Stop
    <3>2. {up, kill, draining} \subseteq BOOLEAN /\ crashes \in Nat
      BY DEF TypeOK, ProcessTypes
    <3>3. crashes + 1 \in Nat
      BY <3>2
    <3>4. {up', kill', draining'} \subseteq BOOLEAN
      BY <3>1, <3>2, Zenon
    <3> QED
      BY <3>1, <3>3, <3>4 DEF ProcessTypes
  <2>4. XidOK'
    BY <1>22, ResultValues DEF FinishShutdown, Crash, Stop, Active,
      TypeOK, CallTypes, ResultTypes, ExchangeTypes, XidOK, Holding
  <2>5. PollsOK'
    BY <1>22 DEF FinishShutdown, Crash, Stop, Active, TypeOK, CallTypes,
      PollsOK
  <2> QED
    BY <2>1, <2>2, <2>3, <2>4, <2>5, <2>6 DEF TypeInv, TypeOK
<1>23. ASSUME Restart PROVE TypeInv'
  <2>1. CallTypes' /\ ResultTypes' /\ TableTypes' /\ ExchangeTypes' /\ ProcessTypes'
    BY <1>23 DEF Restart, TypeOK, CallTypes, ResultTypes, TableTypes,
      ExchangeTypes, ProcessTypes
  <2>2. XidOK'
    BY <1>23 DEF Restart, TypeOK, CallTypes, ResultTypes, ExchangeTypes,
      XidOK, Holding
  <2>3. PollsOK'
    BY <1>23 DEF Restart, TypeOK, CallTypes, PollsOK
  <2> QED
    BY <2>1, <2>2, <2>3 DEF TypeInv, TypeOK
<1>24. ASSUME NEW i \in DOMAIN book, Fill(i) PROVE TypeInv'
  <2>1. ExchangeTypes'
    <3>1. PICK q \in 1..(Qty - book[i].filled) :
            book' = [book EXCEPT
                       ![i].filled = @ + q,
                       ![i].state = IF book[i].filled + q = Qty
                                    THEN "closed" ELSE @]
      BY <1>24 DEF Fill
    <3> DEFINE s == IF book[i].filled + q = Qty THEN "closed"
                    ELSE book[i].state
               n == book[i].filled + q
    <3>2. book[i] \in ExchangeOrders
      BY DEF TypeOK, ExchangeTypes
    <3>3. n \in 0..Qty
      BY <3>2, ConstantsOK DEF ExchangeOrders, ConstantsOK
    <3>4. s \in ExchangeStates
      BY <3>2 DEF ExchangeOrders, ExchangeStates
    <3>5. [book[i] EXCEPT !.filled = n, !.state = s] \in ExchangeOrders
      BY <3>2, <3>3, <3>4, OrderFilled
    <3>6. book' = [book EXCEPT ![i] =
                     [book[i] EXCEPT !.filled = n, !.state = s]]
      BY <3>1
    <3>7. book' \in Seq(ExchangeOrders) /\ DOMAIN book' = DOMAIN book
      BY <3>5, <3>6, BookUpdate DEF TypeOK
    <3> QED
      BY <1>24, <3>7 DEF Fill, TypeOK, ExchangeTypes
  <2>2. CallTypes' /\ ResultTypes' /\ TableTypes' /\ ProcessTypes'
    BY <1>24 DEF Fill, TypeOK, CallTypes, ResultTypes, TableTypes,
      ProcessTypes
  <2>3. XidOK'
    BY <1>24 DEF Fill, TypeOK, CallTypes, ResultTypes, ExchangeTypes,
      XidOK, Holding
  <2>4. PollsOK'
    BY <1>24 DEF Fill, TypeOK, CallTypes, PollsOK
  <2> QED
    BY <2>1, <2>2, <2>3, <2>4 DEF TypeInv, TypeOK
<1>25. ASSUME NEW i \in DOMAIN book, EndOnExchange(i) PROVE TypeInv'
  <2>1. ExchangeTypes'
    <3>1. PICK s \in {"canceled", "expired", "rejected"} :
            book' = [book EXCEPT ![i].state = s]
      BY <1>25 DEF EndOnExchange
    <3>2. book[i] \in ExchangeOrders /\ s \in ExchangeStates
      BY DEF TypeOK, ExchangeTypes, ExchangeStates
    <3>3. [book[i] EXCEPT !.state = s] \in ExchangeOrders
      BY <3>2, OrderState
    <3>4. book' \in Seq(ExchangeOrders) /\ DOMAIN book' = DOMAIN book
      BY <3>1, <3>3, BookUpdate DEF TypeOK
    <3> QED
      BY <1>25, <3>4 DEF EndOnExchange, TypeOK, ExchangeTypes
  <2>2. CallTypes' /\ ResultTypes' /\ TableTypes' /\ ProcessTypes'
    BY <1>25 DEF EndOnExchange, TypeOK, CallTypes, ResultTypes,
      TableTypes, ProcessTypes
  <2>3. XidOK'
    BY <1>25 DEF EndOnExchange, TypeOK, CallTypes, ResultTypes,
      ExchangeTypes, XidOK, Holding
  <2>4. PollsOK'
    BY <1>25 DEF EndOnExchange, TypeOK, CallTypes, PollsOK
  <2> QED
    BY <2>1, <2>2, <2>3, <2>4 DEF TypeInv, TypeOK
<1>26. ASSUME Switch PROVE TypeInv'
  <2>1. CallTypes' /\ ResultTypes' /\ TableTypes' /\ ExchangeTypes' /\ ProcessTypes'
    BY <1>26 DEF Switch, TypeOK, CallTypes, ResultTypes, TableTypes,
      ExchangeTypes, ProcessTypes
  <2>2. XidOK'
    BY <1>26 DEF Switch, TypeOK, CallTypes, ResultTypes, ExchangeTypes,
      XidOK, Holding
  <2>3. PollsOK'
    BY <1>26 DEF Switch, TypeOK, CallTypes, PollsOK
  <2> QED
    BY <2>1, <2>2, <2>3 DEF TypeInv, TypeOK
<1>27. ASSUME UNCHANGED vars PROVE TypeInv'
  <2>1. CallTypes' /\ ResultTypes' /\ TableTypes' /\ ExchangeTypes' /\ ProcessTypes'
    BY <1>27 DEF vars, TypeOK, CallTypes, ResultTypes, TableTypes,
      ExchangeTypes, ProcessTypes
  <2>2. XidOK'
    BY <1>27 DEF vars, TypeOK, CallTypes, ResultTypes, ExchangeTypes,
      XidOK, Holding
  <2>3. PollsOK'
    BY <1>27 DEF vars, TypeOK, CallTypes, PollsOK
  <2> QED
    BY <2>1, <2>2, <2>3 DEF TypeInv, TypeOK
<1> QED
  BY <1>1, <1>2, <1>3, <1>4, <1>5, <1>6, <1>7, <1>8, <1>9, <1>10, <1>11,
     <1>12, <1>13, <1>14, <1>15, <1>16, <1>17, <1>18, <1>19, <1>20, <1>21,
     <1>22, <1>23, <1>24, <1>25, <1>26, <1>27 DEF Next, Step, Process,
     Environment

\* Every reachable state is well typed.
THEOREM TypeCorrect == Spec => []TypeOK
<1>1. TypeInv => TypeOK
  BY DEF TypeInv
<1> QED
  BY <1>1, InitTypeInv, NextTypeInv, PTL DEF Spec

-----------------------------------------------------------------------------
(* The table, the results and the exchange *)

\* From the insert of the PENDING row on.
Past == Running \ {"checked", "lookup", "persist"}

\* The exchange's orders only grow: an order keeps its id, its filled
\* quantity never shrinks, and an order that is not open stays as it is.
BookGrows ==
  \A i \in DOMAIN book :
    /\ i \in DOMAIN book'
    /\ book'[i].order = book[i].order
    /\ book'[i].filled >= book[i].filled
    /\ book[i].state # "open" => book'[i].state = book[i].state

-----------------------------------------------------------------------------
LEMMA BookFields ==
  ASSUME TypeOK, NEW i \in DOMAIN book
  PROVE  /\ book[i] \in ExchangeOrders
         /\ book[i].order \in Orders
         /\ book[i].filled \in Nat
         /\ book[i].filled \in 0..Qty
<1>1. book[i] \in ExchangeOrders
  BY DEF TypeOK, ExchangeTypes
<1> QED
  BY <1>1, ConstantsOK DEF ExchangeOrders, ConstantsOK

LEMMA SameBookGrows ==
  ASSUME TypeOK, book' = book
  PROVE  BookGrows
<1>1. \A i \in DOMAIN book : book[i].filled \in Nat
  BY BookFields
<1> QED
  BY <1>1 DEF BookGrows

LEMMA AppendBookGrows ==
  ASSUME TypeOK, NEW x \in ExchangeOrders, book' = Append(book, x)
  PROVE  /\ BookGrows
         /\ DOMAIN book' = DOMAIN book \cup {Len(book) + 1}
         /\ book'[Len(book) + 1] = x
<1>1. \A i \in DOMAIN book : book[i].filled \in Nat
  BY BookFields
<1>2. \A i \in DOMAIN book : i \in DOMAIN book' /\ book'[i] = book[i]
  BY DEF TypeOK, ExchangeTypes
<1> QED
  BY <1>1, <1>2 DEF BookGrows, TypeOK, ExchangeTypes

\* An open order may be given a new state, and more filled.
LEMMA UpdateBookGrows ==
  ASSUME TypeOK, NEW i \in DOMAIN book, NEW s, NEW n \in 0..Qty,
         n >= book[i].filled,
         book[i].state # "open" => s = book[i].state,
         book' = [book EXCEPT ![i] =
                    [book[i] EXCEPT !.filled = n, !.state = s]]
  PROVE  BookGrows /\ DOMAIN book' = DOMAIN book
<1>1. book[i] \in ExchangeOrders
  BY BookFields
<1> DEFINE x == [book[i] EXCEPT !.filled = n, !.state = s]
<1>2. x.order = book[i].order /\ x.filled = n /\ x.state = s
  BY <1>1 DEF ExchangeOrders
<1>3. \A j \in DOMAIN book : book[j].filled \in Nat
  BY BookFields
<1>4. DOMAIN book' = DOMAIN book
  OBVIOUS
<1>5. \A j \in DOMAIN book : book'[j] = IF j = i THEN x ELSE book[j]
  OBVIOUS
<1> HIDE DEF x
<1> QED
  BY <1>2, <1>3, <1>4, <1>5 DEF BookGrows

LEMMA EndBookGrows ==
  ASSUME TypeOK, NEW i \in DOMAIN book, NEW s,
         book[i].state # "open" => s = book[i].state,
         book' = [book EXCEPT ![i] = [book[i] EXCEPT !.state = s]]
  PROVE  BookGrows /\ DOMAIN book' = DOMAIN book
<1>1. book[i] \in ExchangeOrders
  BY BookFields
<1> DEFINE x == [book[i] EXCEPT !.state = s]
<1>2. x.order = book[i].order /\ x.filled = book[i].filled /\ x.state = s
  BY <1>1 DEF ExchangeOrders
<1>3. \A j \in DOMAIN book : book[j].filled \in Nat
  BY BookFields
<1>4. DOMAIN book' = DOMAIN book
  OBVIOUS
<1>5. \A j \in DOMAIN book : book'[j] = IF j = i THEN x ELSE book[j]
  OBVIOUS
<1> HIDE DEF x
<1> QED
  BY <1>2, <1>3, <1>4, <1>5 DEF BookGrows

LEMMA CancelBookGrows ==
  ASSUME TypeOK, NEW i \in DOMAIN book, CancelOnExchange(i)
  PROVE  BookGrows /\ DOMAIN book' = DOMAIN book
<1>1. CASE book' = book
  BY <1>1, SameBookGrows
<1>2. CASE book' # book
  <2> DEFINE s == IF book[i].state = "open" THEN "canceled"
                  ELSE book[i].state
  <2>1. book' = [book EXCEPT ![i] = [book[i] EXCEPT !.state = s]]
    BY <1>2 DEF CancelOnExchange
  <2>2. book[i].state # "open" => s = book[i].state
    OBVIOUS
  <2> QED
    BY <2>1, <2>2, EndBookGrows
<1> QED
  BY <1>1, <1>2

LEMMA FillBookGrows ==
  ASSUME TypeOK, NEW i \in DOMAIN book, Fill(i)
  PROVE  BookGrows /\ DOMAIN book' = DOMAIN book
<1>1. PICK q \in 1..(Qty - book[i].filled) :
        book' = [book EXCEPT
                   ![i].filled = @ + q,
                   ![i].state = IF book[i].filled + q = Qty
                                THEN "closed" ELSE @]
  BY DEF Fill
<1> DEFINE s == IF book[i].filled + q = Qty THEN "closed"
                ELSE book[i].state
           n == book[i].filled + q
<1>2. book[i].filled \in 0..Qty
  BY BookFields
<1>3. n \in 0..Qty /\ n >= book[i].filled
  BY <1>2, ConstantsOK DEF ConstantsOK
<1>4. book' = [book EXCEPT ![i] =
                 [book[i] EXCEPT !.filled = n, !.state = s]]
  BY <1>1
<1>5. book[i].state = "open"
  BY DEF Fill
<1> QED
  BY <1>3, <1>4, <1>5, UpdateBookGrows

LEMMA CloseBookGrows ==
  ASSUME TypeOK, NEW i \in DOMAIN book, EndOnExchange(i)
  PROVE  BookGrows /\ DOMAIN book' = DOMAIN book
<1>1. PICK s : book' = [book EXCEPT ![i] = [book[i] EXCEPT !.state = s]]
  BY DEF EndOnExchange
<1>2. book[i].state = "open"
  BY DEF EndOnExchange
<1> QED
  BY <1>1, <1>2, EndBookGrows

-----------------------------------------------------------------------------
(* One submission per order id, when the database works and a caller       *)
(* repeats an id only after the call before it has ended.                  *)

OneActiveCall ==
  \A c, d \in Calls : Active(c) /\ Active(d) /\ ord[c] = ord[d] => c = d

RowBeforeSubmission ==
  \A o \in Orders : submits[o] <= 1 /\ (db[o] = NoRow => submits[o] = 0)

\* Only a call about to insert the row is allowed to find none.
RowFollowsCall ==
  \A c \in Calls :
    /\ pc[c] = "persist" => db[ord[c]] = NoRow
    /\ pc[c] \in Past => db[ord[c]] # NoRow

SubmitInv ==
  OneActiveCall /\ RowBeforeSubmission /\ RowFollowsCall /\ ExchangeOrderHasRow

LEMMA InitSubmitInv == Init => SubmitInv
BY DEF Init, SubmitInv, OneActiveCall, RowBeforeSubmission, RowFollowsCall,
  ExchangeOrderHasRow, Active, Running, Past

\* A step of a call that leaves the submissions and the exchange's list
\* alone, and at most overwrites the row the call has inserted.
LEMMA QuietStep ==
  ASSUME TypeInv, SubmitInv, NEW c \in Calls, NEW p,
         Active(c), pc' = [pc EXCEPT ![c] = p],
         p # "persist", p \in Past => pc[c] \in Past,
         ord' = ord, submits' = submits,
         BookGrows, DOMAIN book' = DOMAIN book,
         \/ db' = db
         \/ pc[c] \in Past /\ \E w : w # NoRow
                                     /\ db' = [db EXCEPT ![ord[c]] = w]
  PROVE  SubmitInv'
<1>1. /\ pc \in [Calls -> Running \cup {"idle", "done", "lost"}]
      /\ ord \in [Calls -> Orders] /\ db \in [Orders -> Rows]
  BY DEF TypeInv, TypeOK, CallTypes, TableTypes
<1>2. \A d \in Calls : pc'[d] = IF d = c THEN p ELSE pc[d]
  BY <1>1
<1>3. \A d \in Calls : pc[d] = "persist" \/ pc[d] \in Past => Active(d)
  BY DEF Past, Active, Running
<1>4. \A o \in Orders : db'[o] = NoRow <=> db[o] = NoRow
  <2>1. CASE db' = db
    BY <2>1
  <2>2. CASE pc[c] \in Past /\ \E w : w # NoRow
                               /\ db' = [db EXCEPT ![ord[c]] = w]
    BY <2>2, <1>1 DEF SubmitInv, RowFollowsCall
  <2> QED
    BY <2>1, <2>2
<1>5. OneActiveCall'
  BY <1>2 DEF SubmitInv, OneActiveCall, Active
<1>6. RowBeforeSubmission'
  BY <1>4 DEF SubmitInv, RowBeforeSubmission
<1>7. RowFollowsCall'
  BY <1>1, <1>2, <1>4 DEF SubmitInv, RowFollowsCall
<1>8. ExchangeOrderHasRow'
  <2>1. \A i \in DOMAIN book : book[i].order \in Orders
    BY BookFields DEF TypeInv
  <2> QED
    BY <2>1, <1>4 DEF SubmitInv, ExchangeOrderHasRow, BookGrows
<1> QED
  BY <1>5, <1>6, <1>7, <1>8 DEF SubmitInv

\* A step outside the calls: the environment, or the end of the process.
LEMMA OutsideStep ==
  ASSUME TypeInv, SubmitInv, UNCHANGED <<ord, submits, db>>,
         BookGrows, DOMAIN book' = DOMAIN book,
         \A d \in Calls : pc'[d] \in {pc[d], "lost"}
  PROVE  SubmitInv'
<1>1. OneActiveCall' /\ RowBeforeSubmission' /\ RowFollowsCall'
  BY DEF SubmitInv, OneActiveCall, RowBeforeSubmission, RowFollowsCall,
    Active, Running, Past
<1>2. ExchangeOrderHasRow'
  BY DEF SubmitInv, ExchangeOrderHasRow, BookGrows
<1> QED
  BY <1>1, <1>2 DEF SubmitInv

LEMMA NextSubmitInv ==
  ASSUME ~Overlap, ~DbFails
  PROVE  TypeInv /\ SubmitInv /\ [Next]_vars => SubmitInv'
<1> SUFFICES ASSUME TypeInv, SubmitInv, [Next]_vars PROVE SubmitInv'
  OBVIOUS
<1> USE DEF callVars
<1>a. TypeOK /\ (book' = book => BookGrows)
  BY SameBookGrows DEF TypeInv
<1>b. /\ pc \in [Calls -> Running \cup {"idle", "done", "lost"}]
      /\ ord \in [Calls -> Orders] /\ db \in [Orders -> Rows]
      /\ submits \in [Orders -> Nat]
  BY <1>a DEF TypeOK, CallTypes, TableTypes
<1>1. ASSUME NEW c \in Calls, Execute(c) PROVE SubmitInv'
  <2>1. UNCHANGED <<ord, submits, db, book>> /\ BookGrows
    BY <1>1, <1>a DEF Execute
  <2>2. PICK p \in {"checked", "done"} : pc' = [pc EXCEPT ![c] = p]
    BY <1>1 DEF Execute, Goto
  <2>3. \A d \in Calls : ord[d] = ord[c] => ~Active(d)
    BY <1>1 DEF Execute
  <2>4. OneActiveCall'
    BY <1>b, <2>1, <2>2, <2>3 DEF SubmitInv, OneActiveCall, Active
  <2>5. RowBeforeSubmission' /\ RowFollowsCall' /\ ExchangeOrderHasRow'
    BY <1>b, <2>1, <2>2 DEF SubmitInv, RowBeforeSubmission, RowFollowsCall,
      ExchangeOrderHasRow, Past, Running
  <2> QED
    BY <2>4, <2>5 DEF SubmitInv
<1>2. ASSUME NEW c \in Calls, Refuse(c) PROVE SubmitInv'
  <2>1. PICK p \in {"done"} : pc' = [pc EXCEPT ![c] = p]
    BY <1>2 DEF Refuse, Goto
  <2>2. UNCHANGED <<ord, submits, db, book>> /\ Active(c)
    BY <1>2 DEF Refuse, Active, Running
  <2>3. p \in Past => pc[c] \in Past
    BY <1>2, <2>1 DEF Refuse, Past, Running
  <2> QED
    BY <1>a, <2>1, <2>2, <2>3, QuietStep
<1>3. ASSUME NEW c \in Calls, EnterSafe(c) PROVE SubmitInv'
  <2>1. PICK p \in {"done", "lookup"} : pc' = [pc EXCEPT ![c] = p]
    BY <1>3 DEF EnterSafe, Goto, Return
  <2>2. UNCHANGED <<ord, submits, db, book>> /\ Active(c)
    BY <1>3 DEF EnterSafe, Active, Running
  <2>3. p \in Past => pc[c] \in Past
    BY <1>3, <2>1 DEF EnterSafe, Past, Running
  <2> QED
    BY <1>a, <2>1, <2>2, <2>3, QuietStep
<1>4. ASSUME NEW c \in Calls, LookupHit(c) PROVE SubmitInv'
  <2>1. PICK p \in {"done"} : pc' = [pc EXCEPT ![c] = p]
    BY <1>4 DEF LookupHit, Goto, Return
  <2>2. UNCHANGED <<ord, submits, db, book>> /\ Active(c)
    BY <1>4 DEF LookupHit, Active, Running
  <2>3. p \in Past => pc[c] \in Past
    BY <1>4, <2>1 DEF LookupHit, Past, Running
  <2> QED
    BY <1>a, <2>1, <2>2, <2>3, QuietStep
<1>5. ASSUME NEW c \in Calls, LookupMiss(c) PROVE SubmitInv'
  <2>1. /\ UNCHANGED <<ord, submits, db, book>> /\ BookGrows
        /\ pc' = [pc EXCEPT ![c] = "persist"]
        /\ Active(c) /\ db[ord[c]] = NoRow
    BY <1>5, <1>a DEF LookupMiss, Goto, Active, Running
  <2>2. OneActiveCall'
    BY <1>b, <2>1 DEF SubmitInv, OneActiveCall, Active, Running
  <2>3. RowBeforeSubmission' /\ RowFollowsCall' /\ ExchangeOrderHasRow'
    BY <1>b, <2>1 DEF SubmitInv, RowBeforeSubmission, RowFollowsCall,
      ExchangeOrderHasRow, Past, Running
  <2> QED
    BY <2>2, <2>3 DEF SubmitInv
<1>6. ASSUME NEW c \in Calls, PersistPending(c) PROVE SubmitInv'
  <2> DEFINE w == [status |-> "PENDING", filled |-> 0]
  <2>1. /\ UNCHANGED <<ord, book>> /\ Active(c) /\ pc[c] = "persist"
        /\ submits' = [submits EXCEPT ![ord[c]] = submits[ord[c]] + 1]
    BY <1>6 DEF PersistPending, Active, Running
  <2>2. PICK p \in {"find", "simulate"} : pc' = [pc EXCEPT ![c] = p]
    BY <1>6 DEF PersistPending, Goto
  <2>3. db[ord[c]] = NoRow /\ submits[ord[c]] = 0
    BY <1>b, <2>1 DEF SubmitInv, RowFollowsCall, RowBeforeSubmission
  <2>4. db' = [db EXCEPT ![ord[c]] = w] /\ w # NoRow
    BY <1>6, <2>3 DEF PersistPending, NoRow
  <2> HIDE DEF w
  <2>5. OneActiveCall'
    BY <1>b, <2>1, <2>2 DEF SubmitInv, OneActiveCall, Active, Running
  <2>6. RowBeforeSubmission'
    BY <1>b, <2>1, <2>3, <2>4 DEF SubmitInv, RowBeforeSubmission
  <2>7. RowFollowsCall'
    <3> SUFFICES ASSUME NEW d \in Calls
                 PROVE  /\ pc'[d] = "persist" => db'[ord[d]] = NoRow
                        /\ pc'[d] \in Past => db'[ord[d]] # NoRow
      BY <2>1 DEF RowFollowsCall
    <3>1. CASE d = c
      BY <3>1, <1>b, <2>2, <2>4
    <3>2. CASE d # c
      <4>1. pc'[d] = pc[d]
        BY <3>2, <1>b, <2>2
      <4>2. pc[d] = "persist" => ord[d] # ord[c]
        BY <3>2, <2>1 DEF SubmitInv, OneActiveCall, Active, Running
      <4> QED
        BY <4>1, <4>2, <1>b, <2>4 DEF SubmitInv, RowFollowsCall
    <3> QED
      BY <3>1, <3>2
  <2>8. ExchangeOrderHasRow'
    BY <1>b, <2>1, <2>4 DEF SubmitInv, ExchangeOrderHasRow
  <2> QED
    BY <2>5, <2>6, <2>7, <2>8 DEF SubmitInv
<1>7. ASSUME NEW c \in Calls, FindExisting(c) PROVE SubmitInv'
  <2>1. PICK p \in {"record"} : pc' = [pc EXCEPT ![c] = p]
    BY <1>7 DEF FindExisting, Goto, Submitted
  <2>2. UNCHANGED <<ord, submits, db, book>> /\ Active(c)
    BY <1>7 DEF FindExisting, Active, Running
  <2>3. p \in Past => pc[c] \in Past
    BY <1>7, <2>1 DEF FindExisting, Past, Running
  <2> QED
    BY <1>a, <2>1, <2>2, <2>3, QuietStep
<1>8. ASSUME NEW c \in Calls, SendCreate(c) PROVE SubmitInv'
  <2>1. PICK p \in {"sent"} : pc' = [pc EXCEPT ![c] = p]
    BY <1>8 DEF SendCreate, Goto
  <2>2. UNCHANGED <<ord, submits, db, book>> /\ Active(c)
    BY <1>8 DEF SendCreate, Active, Running
  <2>3. p \in Past => pc[c] \in Past
    BY <1>8, <2>1 DEF SendCreate, Past, Running
  <2> QED
    BY <1>a, <2>1, <2>2, <2>3, QuietStep
<1>9. ASSUME NEW c \in Calls, Accept(c) PROVE SubmitInv'
  <2> DEFINE x == [order |-> ord[c], state |-> "open", filled |-> 0]
  <2>1. /\ UNCHANGED <<ord, submits, db>> /\ book' = Append(book, x)
        /\ pc' = [pc EXCEPT ![c] = "accepted"] /\ pc[c] = "sent"
    BY <1>9 DEF Accept, Goto
  <2>2. x \in ExchangeOrders /\ x.order = ord[c]
    BY <1>b, ConstantsOK DEF ExchangeOrders, ExchangeStates, ConstantsOK
  <2> HIDE DEF x
  <2>3. /\ BookGrows /\ book'[Len(book) + 1] = x
        /\ DOMAIN book' = DOMAIN book \cup {Len(book) + 1}
    BY <1>a, <2>1, <2>2, AppendBookGrows
  <2>4. OneActiveCall' /\ RowBeforeSubmission' /\ RowFollowsCall'
    BY <1>b, <2>1 DEF SubmitInv, OneActiveCall, RowBeforeSubmission,
      RowFollowsCall, Active, Running, Past
  <2>5. ExchangeOrderHasRow'
    BY <2>1, <2>2, <2>3 DEF SubmitInv, ExchangeOrderHasRow, BookGrows,
      RowFollowsCall, Past, Running
  <2> QED
    BY <2>4, <2>5 DEF SubmitInv
<1>10. ASSUME NEW c \in Calls, Simulate(c) PROVE SubmitInv'
  <2> DEFINE x == [order |-> ord[c], state |-> "closed", filled |-> Qty]
  <2>1. /\ UNCHANGED <<ord, submits, db>> /\ book' = Append(book, x)
        /\ pc' = [pc EXCEPT ![c] = "record"] /\ pc[c] = "simulate"
    BY <1>10 DEF Simulate, Goto, Submitted
  <2>2. x \in ExchangeOrders /\ x.order = ord[c]
    BY <1>b, ConstantsOK DEF ExchangeOrders, ExchangeStates, ConstantsOK
  <2> HIDE DEF x
  <2>3. /\ BookGrows /\ book'[Len(book) + 1] = x
        /\ DOMAIN book' = DOMAIN book \cup {Len(book) + 1}
    BY <1>a, <2>1, <2>2, AppendBookGrows
  <2>4. OneActiveCall' /\ RowBeforeSubmission' /\ RowFollowsCall'
    BY <1>b, <2>1 DEF SubmitInv, OneActiveCall, RowBeforeSubmission,
      RowFollowsCall, Active, Running, Past
  <2>5. ExchangeOrderHasRow'
    BY <2>1, <2>2, <2>3 DEF SubmitInv, ExchangeOrderHasRow, BookGrows,
      RowFollowsCall, Past, Running
  <2> QED
    BY <2>4, <2>5 DEF SubmitInv
<1>11. ASSUME NEW c \in Calls, Respond(c) PROVE SubmitInv'
  <2>1. PICK p \in {"record"} : pc' = [pc EXCEPT ![c] = p]
    BY <1>11 DEF Respond, Goto, Submitted
  <2>2. UNCHANGED <<ord, submits, db, book>> /\ Active(c)
    BY <1>11 DEF Respond, Active, Running
  <2>3. p \in Past => pc[c] \in Past
    BY <1>11, <2>1 DEF Respond, Past, Running
  <2> QED
    BY <1>a, <2>1, <2>2, <2>3, QuietStep
<1>12. ASSUME NEW c \in Calls, SubmitFails(c) PROVE SubmitInv'
  <2>1. PICK p \in {"find", "simulate", "recordUnknown"} : pc' = [pc EXCEPT ![c] = p]
    BY <1>12 DEF SubmitFails, Goto
  <2>2. UNCHANGED <<ord, submits, db, book>> /\ Active(c)
    BY <1>12 DEF SubmitFails, Active, Running
  <2>3. p \in Past => pc[c] \in Past
    BY <1>12, <2>1 DEF SubmitFails, Past, Running
  <2> QED
    BY <1>a, <2>1, <2>2, <2>3, QuietStep
<1>13. ASSUME NEW c \in Calls, Poll(c) PROVE SubmitInv'
  <2>1. PICK p \in {"recordFill", "recordEnd", "poll", "cancel"} : pc' = [pc EXCEPT ![c] = p]
    BY <1>13 DEF Poll, Goto, AfterPoll, Monitor
  <2>2. UNCHANGED <<ord, submits, db, book>> /\ Active(c)
    BY <1>13 DEF Poll, Active, Running
  <2>3. p \in Past => pc[c] \in Past
    BY <1>13, <2>1 DEF Poll, Past, Running
  <2> QED
    BY <1>a, <2>1, <2>2, <2>3, QuietStep
<1>14. ASSUME NEW c \in Calls, RecordUnknown(c) PROVE SubmitInv'
  <2>1. PICK p \in {"done"} : pc' = [pc EXCEPT ![c] = p]
    BY <1>14 DEF RecordUnknown, Goto, Return
  <2>2. UNCHANGED <<ord, submits, book>> /\ Active(c) /\ pc[c] \in Past
    BY <1>14 DEF RecordUnknown, Active, Running, Past
  <2>3. p # "persist"
    OBVIOUS
  <2>4. UnknownResult.status # "NONE"
    BY DEF UnknownResult
  <2>5. \/ db' = db
        \/ \E w : w # NoRow /\ db' = [db EXCEPT ![ord[c]] = w]
    BY <1>14, <2>4 DEF RecordUnknown, UpdateRow, NoRow
  <2> QED
    BY <1>a, <2>1, <2>2, <2>3, <2>5, QuietStep
<1>15. ASSUME NEW c \in Calls, Record(c) PROVE SubmitInv'
  <2>1. PICK p \in {"recordFill", "poll", "cancel"} : pc' = [pc EXCEPT ![c] = p]
    BY <1>15 DEF Record, Goto, Monitor
  <2>2. UNCHANGED <<ord, submits, book>> /\ Active(c) /\ pc[c] \in Past
    BY <1>15 DEF Record, Active, Running, Past
  <2>3. p # "persist"
    OBVIOUS
  <2>4. cur[c].status # "NONE"
    BY <1>15 DEF Record, TypeInv, XidOK, Holding, Statuses
  <2>5. \/ db' = db
        \/ \E w : w # NoRow /\ db' = [db EXCEPT ![ord[c]] = w]
    BY <1>15, <2>4 DEF Record, UpdateRow, NoRow
  <2> QED
    BY <1>a, <2>1, <2>2, <2>3, <2>5, QuietStep
<1>16. ASSUME NEW c \in Calls, RecordFill(c) PROVE SubmitInv'
  <2>1. PICK p \in {"done"} : pc' = [pc EXCEPT ![c] = p]
    BY <1>16 DEF RecordFill, Goto, Return
  <2>2. UNCHANGED <<ord, submits, book>> /\ Active(c) /\ pc[c] \in Past
    BY <1>16 DEF RecordFill, Active, Running, Past
  <2>3. p # "persist"
    OBVIOUS
  <2>4. cur[c].status # "NONE"
    BY <1>16 DEF RecordFill, TypeInv, XidOK, Holding, Statuses
  <2>5. \/ db' = db
        \/ \E w : w # NoRow /\ db' = [db EXCEPT ![ord[c]] = w]
    BY <1>16, <2>4 DEF RecordFill, UpdateRow, NoRow
  <2> QED
    BY <1>a, <2>1, <2>2, <2>3, <2>5, QuietStep
<1>17. ASSUME NEW c \in Calls, RecordEnd(c) PROVE SubmitInv'
  <2>1. PICK p \in {"done"} : pc' = [pc EXCEPT ![c] = p]
    BY <1>17 DEF RecordEnd, Goto, Return
  <2>2. UNCHANGED <<ord, submits, book>> /\ Active(c) /\ pc[c] \in Past
    BY <1>17 DEF RecordEnd, Active, Running, Past
  <2>3. p # "persist"
    OBVIOUS
  <2>4. cur[c].status # "NONE"
    BY <1>17 DEF RecordEnd, TypeInv, XidOK, Holding, Statuses
  <2>5. \/ db' = db
        \/ \E w : w # NoRow /\ db' = [db EXCEPT ![ord[c]] = w]
    BY <1>17, <2>4 DEF RecordEnd, UpdateRow, NoRow
  <2> QED
    BY <1>a, <2>1, <2>2, <2>3, <2>5, QuietStep
<1>18. ASSUME NEW c \in Calls, RecordCancel(c) PROVE SubmitInv'
  <2>1. PICK p \in {"done"} : pc' = [pc EXCEPT ![c] = p]
    BY <1>18 DEF RecordCancel, Goto, Return
  <2>2. UNCHANGED <<ord, submits, book>> /\ Active(c) /\ pc[c] \in Past
    BY <1>18 DEF RecordCancel, Active, Running, Past
  <2>3. p # "persist"
    OBVIOUS
  <2>4. cur[c].status # "NONE"
    BY <1>18 DEF RecordCancel, TypeInv, XidOK, Holding, Statuses
  <2>5. \/ db' = db
        \/ \E w : w # NoRow /\ db' = [db EXCEPT ![ord[c]] = w]
    BY <1>18, <2>4 DEF RecordCancel, UpdateRow, NoRow
  <2> QED
    BY <1>a, <2>1, <2>2, <2>3, <2>5, QuietStep
<1>19. ASSUME NEW c \in Calls, Cancel(c) PROVE SubmitInv'
  <2>1. /\ pc' = [pc EXCEPT ![c] = "recordCancel"] /\ Active(c)
        /\ pc[c] \in Past /\ UNCHANGED <<ord, submits, db>>
    BY <1>19 DEF Cancel, Goto, Active, Running, Past
  <2>2. BookGrows /\ DOMAIN book' = DOMAIN book
    BY <1>19, <1>a, CancelBookGrows DEF Cancel, TypeInv, XidOK, Holding
  <2> QED
    BY <2>1, <2>2, QuietStep
<1>20. ASSUME Process PROVE SubmitInv'
  <2>1. UNCHANGED <<ord, submits, db>>
    BY <1>20 DEF Process, BeginShutdown, ShutdownCancel, FinishShutdown,
      Crash, Restart, Stop
  <2>2. \A d \in Calls : pc'[d] \in {pc[d], "lost"}
    BY <1>20, <1>b DEF Process, BeginShutdown, ShutdownCancel,
      FinishShutdown, Crash, Restart, Stop
  <2>3. BookGrows /\ DOMAIN book' = DOMAIN book
    <3>1. CASE \E i \in todo : ShutdownCancel(i)
      BY <3>1, <1>a, CancelBookGrows DEF ShutdownCancel, TypeOK,
        ExchangeTypes
    <3>2. CASE BeginShutdown \/ FinishShutdown \/ Crash \/ Restart
      BY <3>2, <1>a DEF BeginShutdown, FinishShutdown, Crash, Restart, Stop
    <3> QED
      BY <1>20, <3>1, <3>2 DEF Process
  <2> QED
    BY <2>1, <2>2, <2>3, OutsideStep
<1>21. ASSUME Environment PROVE SubmitInv'
  <2>1. UNCHANGED <<pc, ord, submits, db>>
    BY <1>21 DEF Environment, Fill, EndOnExchange, Switch
  <2>2. BookGrows /\ DOMAIN book' = DOMAIN book
    <3>1. ASSUME NEW i \in DOMAIN book, Fill(i)
          PROVE  BookGrows /\ DOMAIN book' = DOMAIN book
      BY <3>1, <1>a, FillBookGrows
    <3>2. ASSUME NEW i \in DOMAIN book, EndOnExchange(i)
          PROVE  BookGrows /\ DOMAIN book' = DOMAIN book
      BY <3>2, <1>a, CloseBookGrows
    <3>3. CASE Switch
      BY <3>3, <1>a DEF Switch
    <3> QED
      BY <1>21, <3>1, <3>2, <3>3 DEF Environment
  <2> QED
    BY <2>1, <2>2, OutsideStep
<1>22. CASE UNCHANGED vars
  BY <1>22, <1>a, OutsideStep DEF vars
<1> QED
  BY <1>1, <1>2, <1>3, <1>4, <1>5, <1>6, <1>7, <1>8, <1>9, <1>10, <1>11,
     <1>12, <1>13, <1>14, <1>15, <1>16, <1>17, <1>18, <1>19, <1>20, <1>21,
     <1>22 DEF Next, Step

\* order_safety.py's promise, for any number of calls, orders, polls,
\* attempts, crashes and shutdowns: with a working database, and ids repeated
\* one call after the other, an id reaches the exchange adapter once.
THEOREM SubmittedOnce ==
  ASSUME ~Overlap, ~DbFails
  PROVE  Spec => []AtMostOneSubmission
<1>1. Init => TypeInv /\ SubmitInv
  BY InitTypeInv, InitSubmitInv
<1>2. (TypeInv /\ SubmitInv) /\ [Next]_vars => (TypeInv /\ SubmitInv)'
  BY NextTypeInv, NextSubmitInv
<1>3. SubmitInv => AtMostOneSubmission
  BY DEF SubmitInv, RowBeforeSubmission, AtMostOneSubmission
<1> QED
  BY <1>1, <1>2, <1>3, PTL DEF Spec

\* Under the same assumptions a crash never leaves an order at the exchange
\* that the orders table does not know.
THEOREM NoUnrecordedOrder ==
  ASSUME ~Overlap, ~DbFails
  PROVE  Spec => []ExchangeOrderHasRow
<1>1. Init => TypeInv /\ SubmitInv
  BY InitTypeInv, InitSubmitInv
<1>2. (TypeInv /\ SubmitInv) /\ [Next]_vars => (TypeInv /\ SubmitInv)'
  BY NextTypeInv, NextSubmitInv
<1>3. SubmitInv => ExchangeOrderHasRow
  BY DEF SubmitInv
<1> QED
  BY <1>1, <1>2, <1>3, PTL DEF Spec

-----------------------------------------------------------------------------
(* Callers that repeat an order id only after the call before it has ended *)

\* Where shutdown() relies on the in-flight entry of a call.
Monitored == {"record", "poll", "cancel", "recordCancel"}

TrackedInv ==
  \A c \in Calls :
    pc[c] \in Monitored => inFlight[ord[c]].xid = cur[c].xid

TrackInv == OneActiveCall /\ TrackedInv

\* A call about to create an order is the first to do so, and it does so the
\* way its trading mode says.
FirstOrder ==
  \A c \in Calls :
    /\ pc[c] \in {"sent", "simulate"} =>
         \A i \in DOMAIN book : book[i].order # ord[c]
    /\ pc[c] = "simulate" => mode = "PAPER"
    /\ pc[c] \in {"find", "sent", "accepted"} => mode # "PAPER"

\* In paper mode only the row keeps a repeated call from a second order.
PaperInv == "PAPER" \in Modes => SubmitInv

OneOrderInv == AtMostOneExchangeOrder /\ FirstOrder

\* The row of a call under way is not yet FILLED, unless by the call itself.
FillInv ==
  \A c \in Calls :
    /\ pc[c] \in Past \ {"recordFill"} => db[ord[c]].status # "FILLED"
    /\ pc[c] = "recordFill" =>
         /\ cur[c].status = "FILLED"
         /\ db[ord[c]].status = "FILLED" => db[ord[c]].filled = cur[c].filled

-----------------------------------------------------------------------------
(* The shape of a step *)

\* A step of a call touches that call, and the entries of its order, only.
LEMMA StepIsLocal ==
  ASSUME TypeOK, NEW c \in Calls, Step(c)
  PROVE  /\ Active(c)
         /\ UNCHANGED <<ord, mode>>
         /\ \A d \in Calls \ {c} : pc'[d] = pc[d] /\ cur'[d] = cur[d]
         /\ \A o \in Orders \ {ord[c]} :
              inFlight'[o] = inFlight[o] /\ db'[o] = db[o]
<1> USE DEF TypeOK, CallTypes, ResultTypes, TableTypes, Goto, Active, Running
<1>1. CASE Refuse(c)
  BY <1>1 DEF Refuse
<1>2. CASE EnterSafe(c)
  BY <1>2 DEF EnterSafe, Return
<1>3. CASE LookupHit(c)
  BY <1>3 DEF LookupHit, Return
<1>4. CASE LookupMiss(c)
  BY <1>4 DEF LookupMiss
<1>5. CASE PersistPending(c)
  BY <1>5 DEF PersistPending
<1>6. CASE FindExisting(c)
  BY <1>6 DEF FindExisting, Submitted
<1>7. CASE SendCreate(c)
  BY <1>7 DEF SendCreate
<1>8. CASE Accept(c)
  BY <1>8 DEF Accept
<1>9. CASE Respond(c)
  BY <1>9 DEF Respond, Submitted
<1>10. CASE Simulate(c)
  BY <1>10 DEF Simulate, Submitted
<1>11. CASE SubmitFails(c)
  BY <1>11 DEF SubmitFails
<1>12. CASE RecordUnknown(c)
  BY <1>12 DEF RecordUnknown, UpdateRow, Return
<1>13. CASE Record(c)
  BY <1>13 DEF Record, UpdateRow, Monitor
<1>14. CASE Poll(c)
  BY <1>14 DEF Poll, UpdateInflight, AfterPoll, Monitor
<1>15. CASE RecordFill(c)
  BY <1>15 DEF RecordFill, UpdateRow, Return
<1>16. CASE RecordEnd(c)
  BY <1>16 DEF RecordEnd, UpdateRow, Return
<1>17. CASE Cancel(c)
  BY <1>17 DEF Cancel
<1>18. CASE RecordCancel(c)
  BY <1>18 DEF RecordCancel, UpdateRow, Return
<1> QED
  BY <1>1, <1>2, <1>3, <1>4, <1>5, <1>6, <1>7, <1>8, <1>9, <1>10, <1>11,
     <1>12, <1>13, <1>14, <1>15, <1>16, <1>17, <1>18 DEF Step

\* The beginning of a call changes nothing but its own progress.
LEMMA ExecuteIsLocal ==
  ASSUME TypeOK, NEW c \in Calls, Execute(c)
  PROVE  /\ pc[c] = "idle" /\ pc'[c] \in {"checked", "done"}
         /\ \A d \in Calls \ {c} : pc'[d] = pc[d]
         /\ UNCHANGED <<ord, mode, cur, inFlight, db, book, submits>>
         /\ ~Overlap => \A d \in Calls : ord[d] = ord[c] => ~Active(d)
BY DEF Execute, Goto, TypeOK, CallTypes

\* The process and the environment leave results and rows alone, end calls
\* only all at once, and only ever add to what the exchange did.
LEMMA OutsideIsLocal ==
  ASSUME TypeOK, Process \/ Environment \/ UNCHANGED vars
  PROVE  /\ UNCHANGED <<ord, mode, cur, db, submits>>
         /\ BookGrows /\ DOMAIN book' = DOMAIN book
         /\ \/ UNCHANGED <<pc, inFlight>>
            \/ \A d \in Calls :
                 pc'[d] = IF Active(d) THEN "lost" ELSE pc[d]
<1> USE DEF callVars
<1>0. book' = book => BookGrows
  BY SameBookGrows
<1>1. CASE \E i \in todo : ShutdownCancel(i)
  BY <1>1, CancelBookGrows DEF ShutdownCancel, TypeOK, ExchangeTypes
<1>2. CASE BeginShutdown \/ Restart
  BY <1>2, <1>0 DEF BeginShutdown, Restart
<1>3. CASE FinishShutdown \/ Crash
  <2>1. Stop
    BY <1>3 DEF FinishShutdown, Crash
  <2> QED
    BY <2>1, <1>0 DEF Stop
<1>4. CASE \E i \in DOMAIN book : Fill(i)
  BY <1>4, FillBookGrows DEF Fill
<1>5. CASE \E i \in DOMAIN book : EndOnExchange(i)
  BY <1>5, CloseBookGrows DEF EndOnExchange
<1>6. CASE Switch \/ UNCHANGED vars
  BY <1>6, <1>0 DEF Switch, vars
<1> QED
  BY <1>1, <1>2, <1>3, <1>4, <1>5, <1>6 DEF Process, Environment

-----------------------------------------------------------------------------
(* A call under way is tracked *)

LEMMA NextOneActive ==
  ASSUME ~Overlap, TypeOK, OneActiveCall, [Next]_vars
  PROVE  OneActiveCall'
<1>1. ASSUME NEW c \in Calls, Execute(c) PROVE OneActiveCall'
  BY <1>1, ExecuteIsLocal DEF OneActiveCall, Active
<1>2. ASSUME NEW c \in Calls, Step(c) PROVE OneActiveCall'
  BY <1>2, StepIsLocal DEF OneActiveCall, Active
<1>3. CASE Process \/ Environment \/ UNCHANGED vars
  BY <1>3, OutsideIsLocal DEF OneActiveCall, Active, Running
<1> QED
  BY <1>1, <1>2, <1>3 DEF Next

\* What the step of a call does to its own result and in-flight entry.
LEMMA StepTracks ==
  ASSUME TypeInv, TrackInv, NEW c \in Calls, Step(c), pc'[c] \in Monitored
  PROVE  inFlight'[ord[c]].xid = cur'[c].xid
<1> USE DEF TypeInv, TypeOK, CallTypes, ResultTypes, Goto, Monitored
<1>0. ord[c] \in Orders
  OBVIOUS
<1>1. CASE FindExisting(c)
  BY <1>1 DEF FindExisting, Submitted
<1>2. CASE Respond(c)
  BY <1>2 DEF Respond, Submitted
<1>3. CASE Simulate(c)
  BY <1>3 DEF Simulate, Submitted
<1>4. CASE Record(c) \/ Cancel(c)
  BY <1>4 DEF Record, Cancel, TrackInv, TrackedInv
<1>5. CASE Poll(c)
  <2>1. cur[c].xid \in DOMAIN book /\ inFlight[ord[c]].xid = cur[c].xid
    BY <1>5 DEF Poll, XidOK, Holding, TrackInv, TrackedInv
  <2>2. inFlight[ord[c]] # Untracked
    BY <2>1, ResultValues DEF ExchangeTypes
  <2>3. PICK r \in {cur[c], ParseOrderResult(cur[c].xid)} :
          cur' = [cur EXCEPT ![c] = r] /\ UpdateInflight(ord[c], r)
    BY <1>5 DEF Poll
  <2> QED
    BY <2>2, <2>3 DEF UpdateInflight
<1>6. CASE \/ Refuse(c) \/ EnterSafe(c) \/ LookupHit(c) \/ LookupMiss(c)
           \/ PersistPending(c) \/ SendCreate(c) \/ Accept(c)
           \/ SubmitFails(c) \/ RecordUnknown(c) \/ RecordFill(c)
           \/ RecordEnd(c) \/ RecordCancel(c)
  BY <1>6 DEF Refuse, EnterSafe, LookupHit, LookupMiss, PersistPending,
    SendCreate, Accept, SubmitFails, RecordUnknown, RecordFill, RecordEnd,
    RecordCancel, Return
<1> QED
  BY <1>1, <1>2, <1>3, <1>4, <1>5, <1>6 DEF Step

LEMMA NextTracked ==
  ASSUME ~Overlap, TypeInv, TrackInv, [Next]_vars
  PROVE  TrackInv'
<1>0. TypeOK /\ OneActiveCall /\ ord \in [Calls -> Orders]
  BY DEF TypeInv, TrackInv, TypeOK, CallTypes
<1>1. OneActiveCall'
  BY <1>0, NextOneActive
<1>2. ASSUME NEW c \in Calls, Execute(c) PROVE TrackedInv'
  BY <1>2, <1>0, ExecuteIsLocal DEF TrackInv, TrackedInv, Monitored
<1>3. ASSUME NEW c \in Calls, Step(c) PROVE TrackedInv'
  <2> SUFFICES ASSUME NEW d \in Calls, pc'[d] \in Monitored
               PROVE  inFlight'[ord'[d]].xid = cur'[d].xid
    BY DEF TrackedInv
  <2>1. CASE d = c
    BY <2>1, <1>0, <1>3, StepTracks, StepIsLocal
  <2>2. CASE d # c
    <3>1. pc[d] \in Monitored /\ Active(d) /\ cur'[d] = cur[d]
      BY <2>2, <1>0, <1>3, StepIsLocal DEF Monitored, Active, Running
    <3>2. ord[d] # ord[c]
      BY <2>2, <3>1, <1>0, <1>3, StepIsLocal DEF OneActiveCall
    <3>3. inFlight'[ord[d]] = inFlight[ord[d]] /\ ord' = ord
      BY <3>2, <1>0, <1>3, StepIsLocal
    <3> QED
      BY <3>1, <3>3 DEF TrackInv, TrackedInv
  <2> QED
    BY <2>1, <2>2
<1>4. ASSUME Process \/ Environment \/ UNCHANGED vars PROVE TrackedInv'
  BY <1>4, <1>0, OutsideIsLocal DEF TrackInv, TrackedInv, Monitored, Active,
    Running
<1> QED
  BY <1>1, <1>2, <1>3, <1>4 DEF Next, TrackInv

\* shutdown() finds every order that is past its submission: as long as ids
\* are repeated one call after the other, the exchange order id of a call is
\* in _in_flight until it returns - whatever the database, the lookups and
\* the cancels do, and for any number of calls and orders.
THEOREM ShutdownFindsOrders ==
  ASSUME ~Overlap
  PROVE  Spec => []MonitoredIsTracked
<1>1. Init => TypeInv /\ TrackInv
  BY InitTypeInv DEF Init, TrackInv, OneActiveCall, TrackedInv, Active,
    Running, Monitored
<1>2. (TypeInv /\ TrackInv) /\ [Next]_vars => (TypeInv /\ TrackInv)'
  BY NextTypeInv, NextTracked
<1>3. TypeInv /\ TrackInv => MonitoredIsTracked
  BY DEF TypeInv, XidOK, Holding, TrackInv, TrackedInv, Monitored,
    MonitoredIsTracked
<1> QED
  BY <1>1, <1>2, <1>3, PTL DEF Spec

-----------------------------------------------------------------------------
(* One order at the exchange per id *)

LEMMA InitOneOrder == Init => OneOrderInv /\ FillInv
BY DEF Init, OneOrderInv, AtMostOneExchangeOrder, FirstOrder, FillInv, Past,
  Running

\* Steps that give the exchange no new order.
LEMMA KeepsOneOrder ==
  ASSUME TypeOK, OneOrderInv, UNCHANGED <<ord, mode>>,
         BookGrows, DOMAIN book' = DOMAIN book,
         \A d \in Calls :
           \/ pc'[d] = pc[d]
           \/ pc'[d] \notin {"find", "sent", "accepted", "simulate"}
           \/ pc'[d] = "find" /\ mode # "PAPER"
           \/ /\ pc'[d] = "sent" /\ mode # "PAPER"
              /\ \A i \in DOMAIN book : book[i].order # ord[d]
           \/ /\ pc'[d] = "simulate" /\ mode = "PAPER"
              /\ \A i \in DOMAIN book : book[i].order # ord[d]
  PROVE  OneOrderInv'
<1>1. AtMostOneExchangeOrder'
  BY DEF OneOrderInv, AtMostOneExchangeOrder, BookGrows
<1>2. FirstOrder'
  BY DEF OneOrderInv, FirstOrder, BookGrows
<1> QED
  BY <1>1, <1>2 DEF OneOrderInv

\* The step that creates an order for a call that is the first to do so.
LEMMA CreatesOneOrder ==
  ASSUME TypeOK, OneActiveCall, OneOrderInv, NEW c \in Calls,
         pc[c] \in {"sent", "simulate"}, Step(c),
         NEW x \in ExchangeOrders, x.order = ord[c],
         book' = Append(book, x),
         \/ pc'[c] = "record"
         \/ pc'[c] = "accepted" /\ mode # "PAPER"
  PROVE  OneOrderInv'
<1>0. /\ Active(c) /\ UNCHANGED <<ord, mode>>
      /\ \A d \in Calls \ {c} : pc'[d] = pc[d]
  BY StepIsLocal
<1>1. /\ BookGrows /\ book'[Len(book) + 1] = x
      /\ DOMAIN book' = DOMAIN book \cup {Len(book) + 1}
      /\ \A i \in DOMAIN book : book'[i].order = book[i].order
  BY AppendBookGrows DEF BookGrows
<1>2. \A i \in DOMAIN book : book[i].order # ord[c]
  BY DEF OneOrderInv, FirstOrder
<1>3. AtMostOneExchangeOrder'
  BY <1>1, <1>2 DEF OneOrderInv, AtMostOneExchangeOrder
<1>4. ASSUME NEW d \in Calls, d # c, pc[d] \in {"sent", "simulate"}
      PROVE  ord[d] # ord[c]
  BY <1>0, <1>4 DEF OneActiveCall, Active, Running
<1>5. FirstOrder'
  BY <1>0, <1>1, <1>4 DEF OneOrderInv, FirstOrder
<1> QED
  BY <1>3, <1>5 DEF OneOrderInv

LEMMA NextOneOrder ==
  ASSUME ~LookupFails, TypeInv, OneActiveCall, PaperInv, OneOrderInv,
         [Next]_vars
  PROVE  OneOrderInv'
<1>0. /\ TypeOK /\ ord \in [Calls -> Orders]
      /\ pc \in [Calls -> Running \cup {"idle", "done", "lost"}]
      /\ book' = book => BookGrows /\ DOMAIN book' = DOMAIN book
  BY SameBookGrows DEF TypeInv, TypeOK, CallTypes
<1>1. ASSUME NEW c \in Calls, Execute(c) PROVE OneOrderInv'
  BY <1>0, <1>1, ExecuteIsLocal, KeepsOneOrder
<1>2. ASSUME NEW c \in Calls, Step(c) PROVE OneOrderInv'
  <2>0. /\ UNCHANGED <<ord, mode>>
        /\ \A d \in Calls \ {c} : pc'[d] = pc[d]
    BY <1>0, <1>2, StepIsLocal
  <2>1. CASE \/ Refuse(c) \/ EnterSafe(c) \/ LookupHit(c) \/ LookupMiss(c)
             \/ FindExisting(c) \/ Respond(c) \/ RecordUnknown(c)
             \/ Record(c) \/ Poll(c) \/ RecordFill(c) \/ RecordEnd(c)
             \/ RecordCancel(c)
    <3>1. /\ book' = book
          /\ pc'[c] \notin {"find", "sent", "accepted", "simulate"}
      BY <1>0, <2>1 DEF Refuse, EnterSafe, LookupHit, LookupMiss,
        FindExisting, Respond, RecordUnknown, Record, Poll, RecordFill,
        RecordEnd, RecordCancel, Return, Submitted, Goto, Monitor, AfterPoll
    <3> QED
      BY <1>0, <2>0, <3>1, KeepsOneOrder
  <2>2. CASE PersistPending(c)
    <3>1. /\ book' = book /\ pc[c] = "persist"
          /\ pc'[c] = IF mode = "PAPER" THEN "simulate" ELSE "find"
      BY <1>0, <2>2 DEF PersistPending, Goto
    <3>2. mode = "PAPER" =>
            \A i \in DOMAIN book : book[i].order # ord[c]
      BY <3>1 DEF PaperInv, SubmitInv, RowFollowsCall, ExchangeOrderHasRow,
        TypeInv, TypeOK, CallTypes
    <3> QED
      BY <1>0, <2>0, <3>1, <3>2, KeepsOneOrder
  <2>3. CASE SendCreate(c)
    <3>1. /\ book' = book /\ pc[c] = "find" /\ pc'[c] = "sent"
          /\ \A i \in DOMAIN book : book[i].order # ord[c]
      BY <1>0, <2>3 DEF SendCreate, Goto
    <3>2. mode # "PAPER"
      BY <3>1 DEF OneOrderInv, FirstOrder
    <3> QED
      BY <1>0, <2>0, <3>1, <3>2, KeepsOneOrder
  <2>4. CASE SubmitFails(c)
    <3>1. /\ book' = book /\ pc[c] \in {"sent", "accepted", "simulate"}
          /\ \/ pc'[c] = "recordUnknown"
             \/ pc'[c] = IF mode = "PAPER" THEN "simulate" ELSE "find"
      BY <1>0, <2>4 DEF SubmitFails, Goto
    <3>2. mode = "PAPER" =>
            \A i \in DOMAIN book : book[i].order # ord[c]
      BY <3>1 DEF OneOrderInv, FirstOrder
    <3> QED
      BY <1>0, <2>0, <3>1, <3>2, KeepsOneOrder
  <2>5. CASE Cancel(c)
    <3>1. pc'[c] = "recordCancel"
      BY <1>0, <2>5 DEF Cancel, Goto
    <3>2. BookGrows /\ DOMAIN book' = DOMAIN book
      BY <2>5, <1>0, CancelBookGrows DEF Cancel, TypeInv, XidOK, Holding
    <3> QED
      BY <1>0, <2>0, <3>1, <3>2, KeepsOneOrder
  <2>6. CASE Accept(c)
    <3> DEFINE x == [order |-> ord[c], state |-> "open", filled |-> 0]
    <3>1. /\ book' = Append(book, x) /\ pc[c] = "sent"
          /\ pc'[c] = "accepted"
      BY <1>0, <2>6 DEF Accept, Goto
    <3>2. x \in ExchangeOrders /\ x.order = ord[c]
      BY <1>0, ConstantsOK DEF ExchangeOrders, ExchangeStates, ConstantsOK
    <3>3. mode # "PAPER"
      BY <3>1 DEF OneOrderInv, FirstOrder
    <3> HIDE DEF x
    <3> QED
      BY <1>0, <1>2, <3>1, <3>2, <3>3, CreatesOneOrder
  <2>7. CASE Simulate(c)
    <3> DEFINE x == [order |-> ord[c], state |-> "closed", filled |-> Qty]
    <3>1. /\ book' = Append(book, x) /\ pc[c] = "simulate"
          /\ pc'[c] = "record"
      BY <1>0, <2>7 DEF Simulate, Submitted, Goto
    <3>2. x \in ExchangeOrders /\ x.order = ord[c]
      BY <1>0, ConstantsOK DEF ExchangeOrders, ExchangeStates, ConstantsOK
    <3> HIDE DEF x
    <3> QED
      BY <1>0, <1>2, <3>1, <3>2, CreatesOneOrder
  <2> QED
    BY <1>2, <2>1, <2>2, <2>3, <2>4, <2>5, <2>6, <2>7 DEF Step
<1>3. CASE Process \/ Environment \/ UNCHANGED vars
  <2>1. \A d \in Calls : pc'[d] \in {pc[d], "lost"}
    BY <1>0, <1>3, OutsideIsLocal
  <2> QED
    BY <1>0, <1>3, <2>1, OutsideIsLocal, KeepsOneOrder
<1> QED
  BY <1>1, <1>2, <1>3 DEF Next

\* place_order never makes a second order of an id, in any number of retries
\* after lost answers, crashes and repeated calls, when ids are repeated one
\* call after the other and the lookup by client id answers.  The database
\* may fail as it likes in live trading: there the lookup alone decides.  In
\* paper trading nothing is looked up, and the row has to be there.
THEOREM OneExchangeOrder ==
  ASSUME ~Overlap, ~LookupFails, "PAPER" \in Modes => ~DbFails
  PROVE  Spec => []AtMostOneExchangeOrder
<1> DEFINE Inv == TypeInv /\ OneActiveCall /\ PaperInv /\ OneOrderInv
<1>1. Init => Inv
  BY InitTypeInv, InitSubmitInv, InitOneOrder DEF PaperInv, SubmitInv, Init,
    OneActiveCall, Active, Running
<1>2. Inv /\ [Next]_vars => Inv'
  <2> SUFFICES ASSUME Inv, [Next]_vars PROVE Inv'
    OBVIOUS
  <2>1. TypeInv' /\ TypeOK
    BY NextTypeInv DEF TypeInv
  <2>2. OneActiveCall'
    BY <2>1, NextOneActive
  <2>3. PaperInv'
    BY NextSubmitInv DEF PaperInv
  <2>4. OneOrderInv'
    BY NextOneOrder
  <2> QED
    BY <2>1, <2>2, <2>3, <2>4
<1>3. Inv => AtMostOneExchangeOrder
  BY DEF OneOrderInv
<1> QED
  BY <1>1, <1>2, <1>3, PTL DEF Spec

-----------------------------------------------------------------------------
(* The row of a filled order is final *)

\* What the step of a call does to its own row.
LEMMA StepKeepsFill ==
  ASSUME ~DbFails, TypeInv, SubmitInv, FillInv, NEW c \in Calls, Step(c)
  PROVE  /\ db[ord[c]].status = "FILLED" => db'[ord[c]] = db[ord[c]]
         /\ pc'[c] \in Past \ {"recordFill"} =>
              db'[ord[c]].status # "FILLED"
         /\ pc'[c] = "recordFill" =>
              /\ cur'[c].status = "FILLED"
              /\ db'[ord[c]].status = "FILLED" =>
                   db'[ord[c]].filled = cur'[c].filled
<1> DEFINE Goal ==
       /\ db[ord[c]].status = "FILLED" => db'[ord[c]] = db[ord[c]]
       /\ pc'[c] \in Past \ {"recordFill"} => db'[ord[c]].status # "FILLED"
       /\ pc'[c] = "recordFill" =>
            /\ cur'[c].status = "FILLED"
            /\ db'[ord[c]].status = "FILLED" =>
                 db'[ord[c]].filled = cur'[c].filled
<1>0. /\ ord \in [Calls -> Orders] /\ db \in [Orders -> Rows]
      /\ pc \in [Calls -> Running \cup {"idle", "done", "lost"}]
      /\ cur \in [Calls -> Results]
  BY DEF TypeInv, TypeOK, CallTypes, ResultTypes, TableTypes
<1> USE DEF Goto
<1>1. CASE \/ Refuse(c) \/ EnterSafe(c) \/ LookupHit(c) \/ LookupMiss(c)
  <2>1. db' = db /\ pc'[c] \in {"done", "lookup", "persist"}
    BY <1>0, <1>1 DEF Refuse, EnterSafe, LookupHit, LookupMiss, Return
  <2> QED
    BY <2>1 DEF Past, Running
<1>2. CASE PersistPending(c)
  <2>1. db[ord[c]] = NoRow
    BY <1>2 DEF PersistPending, SubmitInv, RowFollowsCall
  <2>2. /\ db' = [db EXCEPT ![ord[c]] = [status |-> "PENDING", filled |-> 0]]
        /\ pc'[c] # "recordFill"
    BY <1>0, <1>2, <2>1 DEF PersistPending
  <2> QED
    BY <1>0, <2>1, <2>2 DEF NoRow
<1>3. CASE \/ FindExisting(c) \/ SendCreate(c) \/ Accept(c) \/ Respond(c)
           \/ Simulate(c) \/ SubmitFails(c) \/ Cancel(c)
  <2>1. /\ db' = db /\ pc[c] \in Past \ {"recordFill"}
        /\ pc'[c] # "recordFill"
    BY <1>0, <1>3 DEF FindExisting, SendCreate, Accept, Respond, Simulate,
      SubmitFails, Cancel, Submitted, Past, Running
  <2> QED
    BY <2>1 DEF FillInv
<1>4. CASE Poll(c)
  <2>1. db' = db /\ pc[c] = "poll"
    BY <1>4 DEF Poll
  <2>2. pc'[c] = "recordFill" => cur'[c].status = "FILLED"
    BY <1>0, <1>4 DEF Poll, AfterPoll, Monitor
  <2> QED
    BY <2>1, <2>2 DEF FillInv, Past, Running
<1>5. CASE Record(c)
  <2>1. /\ pc[c] = "record" /\ cur' = cur
        /\ \/ cur[c].status = "FILLED" /\ pc'[c] = "recordFill"
           \/ cur[c].status # "FILLED" /\ pc'[c] # "recordFill"
    BY <1>0, <1>5 DEF Record, Monitor
  <2>2. db[ord[c]].status # "FILLED"
    BY <2>1 DEF FillInv, Past, Running
  <2>3. \/ db' = db
        \/ db' = [db EXCEPT ![ord[c]] = [status |-> cur[c].status,
                                         filled |-> cur[c].filled]]
    BY <1>5 DEF Record, UpdateRow
  <2> QED
    BY <1>0, <2>1, <2>2, <2>3
<1>6. CASE RecordFill(c)
  <2>1. pc[c] = "recordFill" /\ pc'[c] = "done"
    BY <1>0, <1>6 DEF RecordFill, Return
  <2>2. \/ db' = db
        \/ db' = [db EXCEPT ![ord[c]] = [status |-> cur[c].status,
                                         filled |-> cur[c].filled]]
    BY <1>6 DEF RecordFill, UpdateRow
  <2>3. db[ord[c]].status = "FILLED" =>
          [status |-> cur[c].status, filled |-> cur[c].filled] = db[ord[c]]
    BY <1>0, <2>1 DEF FillInv, Rows
  <2> QED
    BY <1>0, <2>1, <2>2, <2>3 DEF Past, Running
<1>7. CASE RecordUnknown(c) \/ RecordEnd(c) \/ RecordCancel(c)
  <2>1. pc[c] \in Past \ {"recordFill"} /\ pc'[c] = "done"
    BY <1>0, <1>7 DEF RecordUnknown, RecordEnd, RecordCancel, Return, Past,
      Running
  <2>2. db[ord[c]].status # "FILLED"
    BY <2>1 DEF FillInv
  <2> QED
    BY <2>1, <2>2 DEF Past, Running
<1> QED
  BY <1>1, <1>2, <1>3, <1>4, <1>5, <1>6, <1>7 DEF Step

LEMMA NextFill ==
  ASSUME ~Overlap, ~DbFails, TypeInv, SubmitInv, FillInv, [Next]_vars
  PROVE  /\ FillInv'
         /\ \A o \in Orders : db[o].status = "FILLED" => db'[o] = db[o]
<1>0. TypeOK /\ ord \in [Calls -> Orders]
  BY DEF TypeInv, TypeOK, CallTypes
<1>1. ASSUME NEW c \in Calls, Execute(c)
      PROVE  /\ FillInv'
             /\ \A o \in Orders : db[o].status = "FILLED" => db'[o] = db[o]
  BY <1>0, <1>1, ExecuteIsLocal DEF FillInv, Past, Running
<1>2. ASSUME NEW c \in Calls, Step(c)
      PROVE  /\ FillInv'
             /\ \A o \in Orders : db[o].status = "FILLED" => db'[o] = db[o]
  <2>0. /\ Active(c) /\ ord' = ord
        /\ \A d \in Calls \ {c} : pc'[d] = pc[d] /\ cur'[d] = cur[d]
        /\ \A o \in Orders \ {ord[c]} : db'[o] = db[o]
    BY <1>0, <1>2, StepIsLocal
  <2>1. ASSUME NEW d \in Calls, d # c, pc[d] \in Past
        PROVE  db'[ord[d]] = db[ord[d]]
    <3>1. ord[d] # ord[c]
      BY <2>0, <2>1 DEF SubmitInv, OneActiveCall, Active, Past
    <3> QED
      BY <1>0, <2>0, <3>1
  <2>2. "recordFill" \in Past
    BY DEF Past, Running
  <2>3. FillInv'
    BY <1>2, <2>0, <2>1, <2>2, StepKeepsFill DEF FillInv
  <2> QED
    BY <1>2, <2>0, <2>3, StepKeepsFill
<1>3. ASSUME Process \/ Environment \/ UNCHANGED vars
      PROVE  /\ FillInv'
             /\ \A o \in Orders : db[o].status = "FILLED" => db'[o] = db[o]
  BY <1>0, <1>3, OutsideIsLocal DEF FillInv, Past, Running
<1> QED
  BY <1>1, <1>2, <1>3 DEF Next

\* No later write of any call (a duplicate, an unknown result, a late poll)
\* replaces the row of a filled order: with a working database, and ids
\* repeated one call after the other.
THEOREM FilledRowsStay ==
  ASSUME ~Overlap, ~DbFails
  PROVE  Spec => FilledRowIsFinal
<1> DEFINE Inv == TypeInv /\ SubmitInv /\ FillInv
<1>1. Init => Inv
  BY InitTypeInv, InitSubmitInv, InitOneOrder
<1>2. Inv /\ [Next]_vars => Inv'
  BY NextTypeInv, NextSubmitInv, NextFill
<1>3. Inv /\ [Next]_vars =>
        [\A o \in Orders : db[o].status = "FILLED" => db'[o] = db[o]]_db
  BY NextFill
<1> QED
  BY <1>1, <1>2, <1>3, PTL DEF Spec, FilledRowIsFinal

-----------------------------------------------------------------------------
(***************************************************************************)
(* Neither the orders table nor a result of execute() claims more than the *)
(* exchange did - whatever fails, overlaps or crashes.                     *)
(***************************************************************************)

\* The result a call holds is true of its exchange order.
TrueResult(c) ==
  /\ cur[c].xid \in DOMAIN book
  /\ book[cur[c].xid].order = ord[c]
  /\ book[cur[c].xid].filled >= cur[c].filled
  /\ cur[c].status = "FILLED" => book[cur[c].xid].state = "closed"
  /\ cur[c].status = "CANCELLED" => book[cur[c].xid].state = "canceled"

\* Where a call holds no exchange order id.
Early == {"idle", "checked", "lookup", "persist", "find", "sent", "simulate",
          "recordUnknown"}

CallTrue(c) ==
  /\ pc[c] \in Early => cur[c].xid = 0
  /\ pc[c] = "accepted" => book[cur[c].xid].order = ord[c]
  /\ pc[c] \in Holding => TrueResult(c)
  /\ pc[c] = "recordFill" => cur[c].status = "FILLED"
  /\ pc[c] = "done" /\ cur[c].xid # 0 =>
       /\ TrueResult(c)
       /\ how[c] = "filled" => cur[c].status = "FILLED"

RowTrue(o) ==
  /\ db[o].status = "FILLED" =>
       \E i \in DOMAIN book : book[i].order = o /\ book[i].state = "closed"
  /\ db[o].status = "CANCELLED" =>
       \E i \in DOMAIN book : book[i].order = o /\ book[i].state = "canceled"
  /\ db[o].filled > 0 =>
       \E i \in DOMAIN book :
         book[i].order = o /\ book[i].filled >= db[o].filled

TruthInv == (\A c \in Calls : CallTrue(c)) /\ (\A o \in Orders : RowTrue(o))

-----------------------------------------------------------------------------
LEMMA TruthImplies == TruthInv => RowIsTruthful /\ NeverOverReports
BY DEF TruthInv, RowTrue, RowIsTruthful, CallTrue, TrueResult,
  NeverOverReports

LEMMA InitTruthInv == Init => TruthInv
BY DEF Init, TruthInv, CallTrue, RowTrue, Untracked, NoRow, Holding, Early

LEMMA ParseTruth ==
  ASSUME TypeOK, NEW i \in DOMAIN book
  PROVE  /\ ParseOrderResult(i).status = "FILLED" => book[i].state = "closed"
         /\ ParseOrderResult(i).status = "CANCELLED" =>
              book[i].state = "canceled"
<1>1. book[i].state \in ExchangeStates
  BY BookFields DEF ExchangeOrders
<1> QED
  BY <1>1 DEF ParseOrderResult, ParseStatus, StatusMap, ExchangeStates

LEMMA ParsedIsTrue ==
  ASSUME TypeOK, NEW c \in Calls, NEW i \in DOMAIN book,
         book[i].order = ord[c], cur'[c] = ParseOrderResult(i),
         book' = book, ord' = ord
  PROVE  TrueResult(c)'
<1>1. /\ cur'[c].xid = i /\ cur'[c].filled = book[i].filled
      /\ book[i].filled \in Nat
  BY ParseType, BookFields
<1> QED
  BY <1>1, ParseTruth DEF TrueResult

\* What was true of an exchange order stays true as the book grows.
LEMMA ResultStable ==
  ASSUME TypeOK, BookGrows, NEW c \in Calls, TrueResult(c),
         cur'[c] = cur[c], ord' = ord, TypeOK'
  PROVE  TrueResult(c)'
<1>1. cur[c].filled \in 0..Qty
  BY ResultFields DEF TypeOK, ResultTypes
<1>2. book[cur[c].xid].filled \in Nat
  BY BookFields DEF TrueResult
<1>3. book'[cur[c].xid].filled \in Int
  <2>1. \A i \in DOMAIN book' : book'[i] \in ExchangeOrders
    BY DEF TypeOK, ExchangeTypes
  <2> QED
    BY <2>1, ConstantsOK DEF BookGrows, TrueResult, ExchangeOrders,
      ConstantsOK
<1> QED
  BY <1>1, <1>2, <1>3, ConstantsOK DEF TrueResult, BookGrows, ConstantsOK

LEMMA CallStable ==
  ASSUME TypeInv, TypeOK', BookGrows, NEW d \in Calls, CallTrue(d),
         pc'[d] \in {pc[d], "lost"}, cur'[d] = cur[d], how'[d] = how[d],
         ord' = ord
  PROVE  CallTrue(d)'
<1>1. TrueResult(d) => TrueResult(d)'
  BY ResultStable DEF TypeInv
<1>2. pc[d] = "accepted" => book'[cur[d].xid].order = book[cur[d].xid].order
  BY DEF TypeInv, XidOK, BookGrows
<1> QED
  BY <1>1, <1>2 DEF CallTrue, Early, Holding

LEMMA RowStable ==
  ASSUME TypeOK, TypeOK', BookGrows, NEW o \in Orders, RowTrue(o),
         db'[o] = db[o]
  PROVE  RowTrue(o)'
<1>1. db[o].filled \in 0..Qty
  BY RowFields DEF TypeOK, TableTypes
<1>2. \A i \in DOMAIN book : book[i].filled \in Nat
  BY BookFields
<1>3. \A i \in DOMAIN book' : book'[i].filled \in Int
  <2>1. \A i \in DOMAIN book' : book'[i] \in ExchangeOrders
    BY DEF TypeOK, ExchangeTypes
  <2> QED
    BY <2>1, ConstantsOK DEF ExchangeOrders, ConstantsOK
<1>4. db[o].filled > 0 => \E i \in DOMAIN book' :
        book'[i].order = o /\ book'[i].filled >= db[o].filled
  <2> SUFFICES ASSUME db[o].filled > 0
               PROVE  \E i \in DOMAIN book' :
                        book'[i].order = o /\ book'[i].filled >= db[o].filled
    OBVIOUS
  <2>1. PICK i \in DOMAIN book :
          book[i].order = o /\ book[i].filled >= db[o].filled
    BY DEF RowTrue
  <2>2. /\ i \in DOMAIN book' /\ book'[i].order = o
        /\ book'[i].filled >= book[i].filled
    BY <2>1 DEF BookGrows
  <2> QED
    BY <1>1, <1>2, <1>3, <2>1, <2>2, ConstantsOK DEF ConstantsOK
<1> QED
  BY <1>4 DEF RowTrue, BookGrows

\* A row written from a true result is true.
LEMMA WrittenRow ==
  ASSUME TypeOK, NEW c \in Calls, TrueResult(c), book' = book,
         db' = [db EXCEPT ![ord[c]] = [status |-> cur[c].status,
                                       filled |-> cur[c].filled]]
  PROVE  \A o \in Orders : db'[o] = db[o] \/ RowTrue(o)'
<1> SUFFICES ASSUME NEW o \in Orders, db'[o] # db[o] PROVE RowTrue(o)'
  OBVIOUS
<1>1. ord[c] \in Orders /\ db \in [Orders -> Rows]
  BY DEF TypeOK, TableTypes, CallTypes
<1>2. o = ord[c]
  BY <1>1
<1>3. db'[o].status = cur[c].status /\ db'[o].filled = cur[c].filled
  BY <1>1, <1>2
<1> QED
  BY <1>2, <1>3 DEF RowTrue, TrueResult

\* A row that claims nothing is true.
LEMMA EmptyRow ==
  ASSUME TypeOK, NEW c \in Calls,
         NEW s \in Statuses \ {"FILLED", "CANCELLED"},
         db' = [db EXCEPT ![ord[c]] = [status |-> s, filled |-> 0]]
  PROVE  \A o \in Orders : db'[o] = db[o] \/ RowTrue(o)'
<1> SUFFICES ASSUME NEW o \in Orders, db'[o] # db[o] PROVE RowTrue(o)'
  OBVIOUS
<1>1. ord[c] \in Orders /\ db \in [Orders -> Rows]
  BY DEF TypeOK, TableTypes, CallTypes
<1>2. o = ord[c]
  BY <1>1
<1>3. db'[o].status = s /\ db'[o].filled = 0
  BY <1>1, <1>2
<1> QED
  BY <1>3 DEF RowTrue

\* One call takes a step: it suffices to look at that call, and at the rows
\* that changed.
LEMMA OneCallStep ==
  ASSUME TypeInv, TypeOK', TruthInv, BookGrows, NEW c \in Calls, CallTrue(c)',
         ord' = ord,
         \A d \in Calls \ {c} :
           pc'[d] = pc[d] /\ cur'[d] = cur[d] /\ how'[d] = how[d],
         \A o \in Orders : db'[o] = db[o] \/ RowTrue(o)'
  PROVE  TruthInv'
<1>1. \A d \in Calls : CallTrue(d)'
  BY CallStable DEF TruthInv
<1>2. \A o \in Orders : RowTrue(o)'
  BY RowStable DEF TruthInv, TypeInv
<1> QED
  BY <1>1, <1>2 DEF TruthInv

LEMMA NextTruthInv == TypeInv /\ TruthInv /\ [Next]_vars => TruthInv'
<1> SUFFICES ASSUME TypeInv, TruthInv, [Next]_vars PROVE TruthInv'
  OBVIOUS
<1> USE DEF callVars
<1>a. TypeOK /\ TypeOK' /\ TypeInv' /\ (book' = book => BookGrows)
  BY SameBookGrows, NextTypeInv DEF TypeInv
<1>b. /\ pc \in [Calls -> Running \cup {"idle", "done", "lost"}]
      /\ ord \in [Calls -> Orders] /\ db \in [Orders -> Rows]
      /\ cur \in [Calls -> Results] /\ how \in [Calls -> Ends]
  BY <1>a DEF TypeOK, CallTypes, TableTypes, ResultTypes
<1>c. \A c \in Calls : CallTrue(c)
  BY DEF TruthInv
<1>1. ASSUME NEW c \in Calls, Execute(c) PROVE TruthInv'
  <2>1. UNCHANGED <<ord, db, book, cur>> /\ pc[c] \in Early
    BY <1>1 DEF Execute, Early
  <2>2. PICK p \in {"checked", "done"} : pc' = [pc EXCEPT ![c] = p]
    BY <1>1 DEF Execute, Goto
  <2>3. \A d \in Calls \ {c} : how'[d] = how[d]
    BY <1>1, <1>b DEF Execute
  <2>4. CallTrue(c)'
    BY <1>b, <1>c, <2>1, <2>2 DEF CallTrue, Early, Holding
  <2> QED
    BY <1>a, <1>b, <2>1, <2>2, <2>3, <2>4, OneCallStep
<1>2. ASSUME NEW c \in Calls, Refuse(c) PROVE TruthInv'
  <2>1. UNCHANGED <<ord, db, book, cur>> /\ pc[c] \in Early
    BY <1>2 DEF Refuse, Early
  <2>2. PICK p \in {"done"} : pc' = [pc EXCEPT ![c] = p]
    BY <1>2 DEF Refuse, Goto
  <2>3. \A d \in Calls \ {c} : how'[d] = how[d]
    BY <1>2, <1>b DEF Refuse
  <2>4. CallTrue(c)'
    BY <1>b, <1>c, <2>1, <2>2 DEF CallTrue, Early, Holding
  <2> QED
    BY <1>a, <1>b, <2>1, <2>2, <2>3, <2>4, OneCallStep
<1>3. ASSUME NEW c \in Calls, EnterSafe(c) PROVE TruthInv'
  <2>1. UNCHANGED <<ord, db, book, cur>> /\ pc[c] \in Early
    BY <1>3 DEF EnterSafe, Early, Return
  <2>2. PICK p \in {"lookup", "done"} : pc' = [pc EXCEPT ![c] = p]
    BY <1>3 DEF EnterSafe, Goto, Return
  <2>3. \A d \in Calls \ {c} : how'[d] = how[d]
    BY <1>3, <1>b DEF EnterSafe, Return
  <2>4. CallTrue(c)'
    BY <1>b, <1>c, <2>1, <2>2 DEF CallTrue, Early, Holding
  <2> QED
    BY <1>a, <1>b, <2>1, <2>2, <2>3, <2>4, OneCallStep
<1>4. ASSUME NEW c \in Calls, LookupHit(c) PROVE TruthInv'
  <2>1. UNCHANGED <<ord, db, book>>
    BY <1>4 DEF LookupHit
  <2>2. PICK p \in {"done"} : pc' = [pc EXCEPT ![c] = p]
    BY <1>4 DEF LookupHit, Goto, Return
  <2>3. \A d \in Calls \ {c} : how'[d] = how[d] /\ cur'[d] = cur[d]
    BY <1>4, <1>b DEF LookupHit, Return
  <2>4. cur'[c].xid = 0
    <3>1. cur[c].xid = 0
      BY <1>4, <1>c DEF LookupHit, CallTrue, Early
    <3>2. \/ cur' = [cur EXCEPT ![c] = UnknownResult]
          \/ cur' = [cur EXCEPT ![c] = [cur[c] EXCEPT
                       !.status = db[ord[c]].status,
                       !.filled = db[ord[c]].filled]]
      BY <1>4 DEF LookupHit
    <3>3. cur[c] \in Results
      BY <1>b
    <3>4. [cur[c] EXCEPT !.status = db[ord[c]].status,
                         !.filled = db[ord[c]].filled].xid = 0
      BY <3>1, <3>3 DEF Results
    <3> QED
      BY <1>b, <3>2, <3>4, ResultValues
  <2>5. CallTrue(c)'
    BY <1>b, <2>2, <2>4 DEF CallTrue, Early, Holding
  <2> QED
    BY <1>a, <1>b, <2>1, <2>2, <2>3, <2>5, OneCallStep
<1>5. ASSUME NEW c \in Calls, LookupMiss(c) PROVE TruthInv'
  <2>1. UNCHANGED <<ord, db, book, cur>> /\ pc[c] \in Early
    BY <1>5 DEF LookupMiss, Early
  <2>2. PICK p \in {"persist"} : pc' = [pc EXCEPT ![c] = p]
    BY <1>5 DEF LookupMiss, Goto
  <2>3. \A d \in Calls \ {c} : how'[d] = how[d]
    BY <1>5, <1>b DEF LookupMiss
  <2>4. CallTrue(c)'
    BY <1>b, <1>c, <2>1, <2>2 DEF CallTrue, Early, Holding
  <2> QED
    BY <1>a, <1>b, <2>1, <2>2, <2>3, <2>4, OneCallStep
<1>6. ASSUME NEW c \in Calls, PersistPending(c) PROVE TruthInv'
  <2> DEFINE w == [status |-> "PENDING", filled |-> 0]
  <2>1. UNCHANGED <<ord, book, cur, how>> /\ pc[c] \in Early
    BY <1>6 DEF PersistPending, Early
  <2>2. PICK p \in {"find", "simulate"} : pc' = [pc EXCEPT ![c] = p]
    BY <1>6 DEF PersistPending, Goto
  <2>3. db' = db \/ db' = [db EXCEPT ![ord[c]] = w]
    BY <1>6 DEF PersistPending
  <2>4. \A o \in Orders : db'[o] = db[o] \/ RowTrue(o)'
    <3>1. "PENDING" \in Statuses \ {"FILLED", "CANCELLED"}
      BY DEF Statuses
    <3> QED
      BY <1>a, <3>1, <2>3, EmptyRow
  <2>5. CallTrue(c)'
    BY <1>b, <1>c, <2>1, <2>2 DEF CallTrue, Early, Holding
  <2> QED
    BY <1>a, <1>b, <2>1, <2>2, <2>3, <2>4, <2>5, OneCallStep
<1>7. ASSUME NEW c \in Calls, FindExisting(c) PROVE TruthInv'
  <2>1. PICK i \in DOMAIN book :
          book[i].order = ord[c] /\ cur' = [cur EXCEPT ![c] = ParseOrderResult(i)]
    BY <1>7 DEF FindExisting, Submitted
  <2>2. UNCHANGED <<ord, db, book, how>> /\ pc' = [pc EXCEPT ![c] = "record"]
    BY <1>7 DEF FindExisting, Submitted, Goto
  <2>3. TrueResult(c)'
    BY <1>a, <1>b, <2>1, <2>2, ParsedIsTrue
  <2>4. CallTrue(c)'
    BY <1>b, <2>2, <2>3 DEF CallTrue, Early
  <2> QED
    BY <1>a, <1>b, <2>1, <2>2, <2>4, OneCallStep
<1>8. ASSUME NEW c \in Calls, SendCreate(c) PROVE TruthInv'
  <2>1. UNCHANGED <<ord, db, book, cur>> /\ pc[c] \in Early
    BY <1>8 DEF SendCreate, Early
  <2>2. PICK p \in {"sent"} : pc' = [pc EXCEPT ![c] = p]
    BY <1>8 DEF SendCreate, Goto
  <2>3. \A d \in Calls \ {c} : how'[d] = how[d]
    BY <1>8, <1>b DEF SendCreate
  <2>4. CallTrue(c)'
    BY <1>b, <1>c, <2>1, <2>2 DEF CallTrue, Early, Holding
  <2> QED
    BY <1>a, <1>b, <2>1, <2>2, <2>3, <2>4, OneCallStep
<1>9. ASSUME NEW c \in Calls, Accept(c) PROVE TruthInv'
  <2> DEFINE x == [order |-> ord[c], state |-> "open", filled |-> 0]
             r == [cur[c] EXCEPT !.xid = Len(book) + 1]
  <2>1. /\ UNCHANGED <<ord, db, how>> /\ book' = Append(book, x)
        /\ pc' = [pc EXCEPT ![c] = "accepted"]
        /\ cur' = [cur EXCEPT ![c] = r]
    BY <1>9 DEF Accept, Goto
  <2>2. x \in ExchangeOrders /\ x.order = ord[c]
    BY <1>b, ConstantsOK DEF ExchangeOrders, ExchangeStates, ConstantsOK
  <2>3. r.xid = Len(book) + 1
    BY <1>b DEF Results
  <2> HIDE DEF x, r
  <2>4. BookGrows /\ book'[Len(book) + 1] = x
    BY <1>a, <2>1, <2>2, AppendBookGrows
  <2>5. CallTrue(c)'
    BY <1>b, <2>1, <2>2, <2>3, <2>4 DEF CallTrue, Early, Holding
  <2> QED
    BY <1>a, <1>b, <2>1, <2>4, <2>5, OneCallStep
<1>10. ASSUME NEW c \in Calls, Respond(c) PROVE TruthInv'
  <2> DEFINE i == cur[c].xid
  <2>1. /\ cur' = [cur EXCEPT ![c] = ParseOrderResult(i)]
        /\ UNCHANGED <<ord, db, book, how>> /\ pc[c] = "accepted"
        /\ pc' = [pc EXCEPT ![c] = "record"]
    BY <1>10 DEF Respond, Submitted, Goto
  <2>2. i \in DOMAIN book /\ book[i].order = ord[c]
    BY <1>c, <2>1 DEF TypeInv, XidOK, CallTrue
  <2>3. TrueResult(c)'
    BY <1>a, <1>b, <2>1, <2>2, ParsedIsTrue
  <2>4. CallTrue(c)'
    BY <1>b, <2>1, <2>3 DEF CallTrue, Early
  <2> QED
    BY <1>a, <1>b, <2>1, <2>4, OneCallStep
<1>11. ASSUME NEW c \in Calls, Simulate(c) PROVE TruthInv'
  <2> DEFINE x == [order |-> ord[c], state |-> "closed", filled |-> Qty]
             r == [xid |-> Len(book) + 1, status |-> "FILLED", filled |-> Qty]
  <2>1. /\ UNCHANGED <<ord, db, how>> /\ book' = Append(book, x)
        /\ pc' = [pc EXCEPT ![c] = "record"] /\ cur' = [cur EXCEPT ![c] = r]
    BY <1>11 DEF Simulate, Submitted, Goto
  <2>2. x \in ExchangeOrders
    BY <1>b, ConstantsOK DEF ExchangeOrders, ExchangeStates, ConstantsOK
  <2>3. /\ BookGrows /\ book'[Len(book) + 1] = x
        /\ DOMAIN book' = DOMAIN book \cup {Len(book) + 1}
    BY <1>a, <2>1, <2>2, AppendBookGrows
  <2>4. cur'[c] = r /\ Qty \in Nat
    BY <1>b, <2>1, ConstantsOK DEF ConstantsOK
  <2>5. TrueResult(c)'
    BY <2>1, <2>3, <2>4 DEF TrueResult
  <2>6. CallTrue(c)'
    BY <1>b, <2>1, <2>5 DEF CallTrue, Early
  <2> QED
    BY <1>a, <1>b, <2>1, <2>3, <2>6, OneCallStep
<1>12. ASSUME NEW c \in Calls, SubmitFails(c) PROVE TruthInv'
  <2>1. UNCHANGED <<ord, db, book>>
    BY <1>12 DEF SubmitFails
  <2>2. PICK p \in {"find", "simulate", "recordUnknown"} : pc' = [pc EXCEPT ![c] = p]
    BY <1>12 DEF SubmitFails, Goto
  <2>3. \A d \in Calls \ {c} : how'[d] = how[d] /\ cur'[d] = cur[d]
    BY <1>12, <1>b DEF SubmitFails
  <2>4. cur'[c].xid = 0
    BY <1>12, <1>b, ResultValues DEF SubmitFails
  <2>5. CallTrue(c)'
    BY <1>b, <2>2, <2>4 DEF CallTrue, Early, Holding
  <2> QED
    BY <1>a, <1>b, <2>1, <2>2, <2>3, <2>5, OneCallStep
<1>13. ASSUME NEW c \in Calls, RecordUnknown(c) PROVE TruthInv'
  <2> DEFINE w == [status |-> "REJECTED", filled |-> 0]
  <2>1. /\ UNCHANGED <<ord, book>> /\ pc' = [pc EXCEPT ![c] = "done"]
        /\ cur' = [cur EXCEPT ![c] = UnknownResult]
        /\ how' = [how EXCEPT ![c] = "unknown"]
    BY <1>13 DEF RecordUnknown, Return, Goto
  <2>2. db' = db \/ db' = [db EXCEPT ![ord[c]] = w]
    BY <1>13 DEF RecordUnknown, UpdateRow, UnknownResult
  <2>3. \A o \in Orders : db'[o] = db[o] \/ RowTrue(o)'
    <3>1. "REJECTED" \in Statuses \ {"FILLED", "CANCELLED"}
      BY DEF Statuses
    <3> QED
      BY <1>a, <3>1, <2>2, EmptyRow
  <2>4. CallTrue(c)'
    BY <1>b, <2>1, ResultValues DEF CallTrue, Early, Holding
  <2> QED
    BY <1>a, <1>b, <2>1, <2>2, <2>3, <2>4, OneCallStep
<1>14. ASSUME NEW c \in Calls, Record(c) PROVE TruthInv'
  <2>1. UNCHANGED <<ord, book, cur>> /\ pc[c] \in Holding
    BY <1>14 DEF Record, Holding
  <2>2. PICK p \in {"recordFill", "poll", "cancel"} : pc' = [pc EXCEPT ![c] = p]
    BY <1>14 DEF Record, Goto, Monitor
  <2>3. how' = how /\ (p = "recordFill" => cur[c].status = "FILLED")
    BY <1>14, <1>b, <2>2 DEF Record, Goto, Monitor
  <2>4. TrueResult(c) /\ TrueResult(c)'
    BY <1>a, <1>c, <2>1, ResultStable DEF CallTrue
  <2>5. \A o \in Orders : db'[o] = db[o] \/ RowTrue(o)'
    BY <1>14, <1>a, <2>1, <2>4, WrittenRow DEF Record, UpdateRow
  <2>6. CallTrue(c)'
    BY <1>b, <2>1, <2>2, <2>3, <2>4 DEF CallTrue, Early, Holding
  <2> QED
    BY <1>a, <1>b, <2>1, <2>2, <2>3, <2>5, <2>6, OneCallStep
<1>15. ASSUME NEW c \in Calls, Poll(c) PROVE TruthInv'
  <2> DEFINE i == cur[c].xid
  <2>1. PICK r \in {cur[c], ParseOrderResult(i)} :
          cur' = [cur EXCEPT ![c] = r] /\ AfterPoll(c, r)
    BY <1>15 DEF Poll
  <2>2. UNCHANGED <<ord, db, book, how>> /\ pc[c] \in Holding
    BY <1>15 DEF Poll, Holding
  <2>3. TrueResult(c)
    BY <1>c, <2>2 DEF CallTrue
  <2>4. TrueResult(c)'
    <3>1. CASE r = cur[c]
      BY <3>1, <1>a, <1>b, <2>1, <2>2, <2>3, ResultStable
    <3>2. CASE r = ParseOrderResult(i)
      BY <3>2, <1>a, <1>b, <2>1, <2>2, <2>3, ParsedIsTrue DEF TrueResult
    <3> QED
      BY <2>1, <3>1, <3>2
  <2>5. PICK p \in {"recordFill", "recordEnd", "poll", "cancel"} :
          /\ pc' = [pc EXCEPT ![c] = p]
          /\ p = "recordFill" => r.status = "FILLED"
    BY <2>1 DEF AfterPoll, Monitor, Goto
  <2>6. CallTrue(c)'
    BY <1>b, <2>1, <2>4, <2>5 DEF CallTrue, Early
  <2> QED
    BY <1>a, <1>b, <2>1, <2>2, <2>5, <2>6, OneCallStep
<1>16. ASSUME NEW c \in Calls, RecordFill(c) PROVE TruthInv'
  <2>1. UNCHANGED <<ord, book, cur>> /\ pc[c] \in Holding
    BY <1>16 DEF RecordFill, Holding
  <2>2. PICK p \in {"done"} : pc' = [pc EXCEPT ![c] = p]
    BY <1>16 DEF RecordFill, Goto, Return
  <2>3. /\ \A d \in Calls \ {c} : how'[d] = how[d]
        /\ cur[c].status = "FILLED"
    BY <1>16, <1>b, <1>c DEF RecordFill, Return, CallTrue
  <2>4. TrueResult(c) /\ TrueResult(c)'
    BY <1>a, <1>c, <2>1, ResultStable DEF CallTrue
  <2>5. \A o \in Orders : db'[o] = db[o] \/ RowTrue(o)'
    BY <1>16, <1>a, <2>1, <2>4, WrittenRow DEF RecordFill, UpdateRow
  <2>6. CallTrue(c)'
    BY <1>b, <2>1, <2>2, <2>3, <2>4 DEF CallTrue, Early, Holding
  <2> QED
    BY <1>a, <1>b, <2>1, <2>2, <2>3, <2>5, <2>6, OneCallStep
<1>17. ASSUME NEW c \in Calls, RecordEnd(c) PROVE TruthInv'
  <2>1. UNCHANGED <<ord, book, cur>> /\ pc[c] \in Holding
    BY <1>17 DEF RecordEnd, Holding
  <2>2. PICK p \in {"done"} : pc' = [pc EXCEPT ![c] = p]
    BY <1>17 DEF RecordEnd, Goto, Return
  <2>3. /\ \A d \in Calls \ {c} : how'[d] = how[d]
        /\ how'[c] # "filled"
    BY <1>17, <1>b DEF RecordEnd, Return
  <2>4. TrueResult(c) /\ TrueResult(c)'
    BY <1>a, <1>c, <2>1, ResultStable DEF CallTrue
  <2>5. \A o \in Orders : db'[o] = db[o] \/ RowTrue(o)'
    BY <1>17, <1>a, <2>1, <2>4, WrittenRow DEF RecordEnd, UpdateRow
  <2>6. CallTrue(c)'
    BY <1>b, <2>1, <2>2, <2>3, <2>4 DEF CallTrue, Early, Holding
  <2> QED
    BY <1>a, <1>b, <2>1, <2>2, <2>3, <2>5, <2>6, OneCallStep
<1>18. ASSUME NEW c \in Calls, RecordCancel(c) PROVE TruthInv'
  <2>1. UNCHANGED <<ord, book, cur>> /\ pc[c] \in Holding
    BY <1>18 DEF RecordCancel, Holding
  <2>2. PICK p \in {"done"} : pc' = [pc EXCEPT ![c] = p]
    BY <1>18 DEF RecordCancel, Goto, Return
  <2>3. /\ \A d \in Calls \ {c} : how'[d] = how[d]
        /\ how'[c] # "filled"
    BY <1>18, <1>b DEF RecordCancel, Return
  <2>4. TrueResult(c) /\ TrueResult(c)'
    BY <1>a, <1>c, <2>1, ResultStable DEF CallTrue
  <2>5. \A o \in Orders : db'[o] = db[o] \/ RowTrue(o)'
    BY <1>18, <1>a, <2>1, <2>4, WrittenRow DEF RecordCancel, UpdateRow
  <2>6. CallTrue(c)'
    BY <1>b, <2>1, <2>2, <2>3, <2>4 DEF CallTrue, Early, Holding
  <2> QED
    BY <1>a, <1>b, <2>1, <2>2, <2>3, <2>5, <2>6, OneCallStep
<1>19. ASSUME NEW c \in Calls, Cancel(c) PROVE TruthInv'
  <2>1. /\ UNCHANGED <<ord, db, cur, how>> /\ pc[c] \in Holding
        /\ pc' = [pc EXCEPT ![c] = "recordCancel"]
    BY <1>19 DEF Cancel, Goto, Holding
  <2>2. TrueResult(c) /\ BookGrows
    BY <1>19, <1>a, <1>c, <2>1, CancelBookGrows DEF Cancel, CallTrue,
      TrueResult
  <2>3. TrueResult(c)'
    BY <1>a, <2>1, <2>2, ResultStable
  <2>4. CallTrue(c)'
    BY <1>b, <2>1, <2>3 DEF CallTrue, Early
  <2> QED
    BY <1>a, <1>b, <2>1, <2>2, <2>4, OneCallStep
<1>20. ASSUME Process \/ Environment \/ UNCHANGED vars PROVE TruthInv'
  <2>1. UNCHANGED <<ord, db, cur, how>>
    BY <1>20 DEF Process, BeginShutdown, ShutdownCancel, FinishShutdown,
      Crash, Restart, Stop, Environment, Fill, EndOnExchange, Switch, vars
  <2>2. \A d \in Calls : pc'[d] \in {pc[d], "lost"}
    BY <1>20, <1>b DEF Process, BeginShutdown, ShutdownCancel,
      FinishShutdown, Crash, Restart, Stop, Environment, Fill,
      EndOnExchange, Switch, vars
  <2>3. BookGrows
    <3>1. ASSUME NEW i \in todo, ShutdownCancel(i) PROVE BookGrows
      BY <3>1, <1>a, CancelBookGrows DEF ShutdownCancel, TypeOK,
        ExchangeTypes
    <3>2. CASE BeginShutdown \/ FinishShutdown \/ Crash \/ Restart \/ Switch
               \/ UNCHANGED vars
      BY <3>2, <1>a DEF BeginShutdown, FinishShutdown, Crash, Restart, Stop,
        Switch, vars
    <3>3. ASSUME NEW i \in DOMAIN book, Fill(i) \/ EndOnExchange(i)
          PROVE  BookGrows
      BY <3>3, <1>a, FillBookGrows, CloseBookGrows
    <3> QED
      BY <1>20, <3>1, <3>2, <3>3 DEF Process, Environment
  <2>4. \A d \in Calls : CallTrue(d)'
    BY <1>c, <2>1, <2>2, <2>3, <1>a, CallStable
  <2>5. \A o \in Orders : RowTrue(o)'
    BY <1>a, <2>1, <2>3, RowStable DEF TruthInv
  <2> QED
    BY <2>4, <2>5 DEF TruthInv
<1> QED
  BY <1>1, <1>2, <1>3, <1>4, <1>5, <1>6, <1>7, <1>8, <1>9, <1>10, <1>11,
    <1>12, <1>13, <1>14, <1>15, <1>16, <1>17, <1>18, <1>19, <1>20 DEF
    Next, Step

\* The orders table never says that an order was filled or cancelled, or how
\* much of it was filled, unless the exchange did it: for every constant,
\* with failing databases, overlapping calls, crashes and shutdowns.
THEOREM TableIsTruthful == Spec => []RowIsTruthful
<1>1. Init => TypeInv /\ TruthInv
  BY InitTypeInv, InitTruthInv
<1>2. (TypeInv /\ TruthInv) /\ [Next]_vars => (TypeInv /\ TruthInv)'
  BY NextTypeInv, NextTruthInv
<1>3. TruthInv => RowIsTruthful
  BY TruthImplies
<1> QED
  BY <1>1, <1>2, <1>3, PTL DEF Spec

\* Nor does a result that execute() returns: it names an exchange order of
\* the call's own id with at least the reported quantity filled.
THEOREM ResultsAreTruthful == Spec => []NeverOverReports
<1>1. Init => TypeInv /\ TruthInv
  BY InitTypeInv, InitTruthInv
<1>2. (TypeInv /\ TruthInv) /\ [Next]_vars => (TypeInv /\ TruthInv)'
  BY NextTypeInv, NextTruthInv
<1>3. TruthInv => NeverOverReports
  BY TruthImplies
<1> QED
  BY <1>1, <1>2, <1>3, PTL DEF Spec

=============================================================================
