--------------------------- MODULE PositionProofs ---------------------------
(***************************************************************************)
(* Theorems about Positions, for any symbols, lots and bounds.             *)
(*                                                                         *)
(* The positions table keeps one open row of a symbol (OneRow), whatever   *)
(* interleaves, fails and restarts.                                        *)
(*                                                                         *)
(* The other theorems are about workers whose emergency close runs while   *)
(* the other tasks rest (Undisturbed).  The closers list Position objects, *)
(* await an order and book its fill on what they listed, without a lock:   *)
(* what makes that right is that nobody else changes a position that is    *)
(* listed or being closed (Listed, Closing), that an entry's symbol is     *)
(* empty until its fill is booked (Entering), and that the exchange is     *)
(* ahead of the books by the fill under way and no more (NetInv).  From    *)
(* these follow that the books are true at rest                            *)
(* (BooksAreTrue), that a symbol is exposed to one entry at most           *)
(* (OneEntry), that closers only close (ClosersOnlyClose) and, with        *)
(* FlatInv, that "flat" is flat (FlatIsFlat).                              *)
(*                                                                         *)
(* Cash balances the positions (BooksBalance): their sum moves by what one *)
(* position moves (WorthUpdate), and each booking moves cash against it.   *)
(* The types (PositionsTyped) need that ids are given out once (Ids).      *)
(***************************************************************************)
EXTENDS Positions, FoldTheorems, FunctionTheorems

-----------------------------------------------------------------------------
(* Types *)

PCs == {"idle", "next", "savePrice", "sent", "filled", "saveOpened",
        "saveAgain", "traded", "saveClosed"}
Maybe == Position \cup {NoPosition}
OrderRecords ==
  [symbol : Symbols \cup {NoOrder.symbol}, side : {1, -1, 0}, qty : 0..Lots,
   reduceOnly : BOOLEAN, filled : 0..Lots]
RowRecords == [symbol : Symbols, position : Position, open : BOOLEAN]

\* The part of TypeOK that is needed: all but the cash, which is a sum, and
\* the counters.
BookTypes ==
  /\ mode \in Modes
  /\ net \in [Symbols -> Int]
  /\ positions \in [Symbols -> Maybe]
  /\ opens \in Nat
  /\ \A r \in rows : r \in RowRecords
  /\ pc \in [Tasks -> PCs]
  /\ order \in [Tasks -> OrderRecords]
  /\ mine \in [Tasks -> Maybe]
  /\ todo \in [Closers -> [Symbols -> Maybe]]

\* A task at work has an order, and holds the position it is about to write.
WorkTypes ==
  \A a \in Tasks :
    /\ pc[a] \notin {"idle", "next"} => order[a].symbol \in Symbols
    /\ pc[a] \in {"sent", "filled", "traded"} =>
         order[a].side \in {1, -1} /\ order[a].qty \in 1..Lots
    /\ pc[a] \in {"filled", "traded"} =>
         order[a].filled \in 1..Lots /\ order[a].filled <= order[a].qty
    /\ pc[a] \in {"savePrice", "saveOpened", "saveAgain", "traded",
                  "saveClosed"} => mine[a] \in Position

\* Which task goes through which stages.
Roles ==
  /\ pc["orchestrator"] # "next"
  /\ \A a \in Closers :
       /\ pc[a] \notin {"savePrice"}
       /\ pc[a] = "idle" => todo[a] = NoPositions
  /\ ~up => \A a \in Tasks : pc[a] = "idle"

TypeInv == BookTypes /\ WorkTypes /\ Roles

-----------------------------------------------------------------------------
(* The emergency close runs alone *)

Working(a, s) ==
  pc[a] \in {"sent", "filled", "traded"} /\ order[a].symbol = s
Unbooked(a, s) == pc[a] \in {"filled", "traded"} /\ order[a].symbol = s
Delta(o) == o.side * o.filled

Exclusive ==
  pc["liquidator"] # "idle" =>
    pc["orchestrator"] = "idle" /\ pc["watchdog"] = "idle"

\* What a closer has listed, and not yet handled, is what the books hold.
Listed ==
  \A a \in Closers, s \in Symbols :
    todo[a][s] # NoPosition => positions[s] = todo[a][s]

\* So is what it is closing.
Closing ==
  \A a \in Closers, s \in Symbols :
    /\ pc[a] # "saveOpened"
    /\ Working(a, s) =>
         /\ positions[s] # NoPosition
         /\ todo[a][s] = NoPosition
         /\ order[a].side = -positions[s].side
         /\ order[a].qty = positions[s].qty
         /\ pc[a] = "traded" => mine[a] = positions[s]

\* The books hold nothing of a symbol until its entry is booked; then they
\* hold that, and no closer has seen it before it is guarded.
Entering ==
  /\ pc["orchestrator"] \notin {"traded", "saveClosed"}
  /\ \A s \in Symbols :
       /\ Working("orchestrator", s) => positions[s] = NoPosition
       /\ pc["orchestrator"] = "saveOpened" /\ order["orchestrator"].symbol = s
            => /\ positions[s] = mine["orchestrator"]
               /\ ~positions[s].guarded
               /\ \A a \in Closers :
                    todo[a][s] = NoPosition /\ ~Working(a, s)

\* The exchange is ahead of the books by the fill that is being booked.
NetInv ==
  up /\ ~torn =>
    \A s \in Symbols :
      /\ (\A a \in Tasks : ~Unbooked(a, s)) => net[s] = Signed(positions[s])
      /\ \A a \in Tasks : Unbooked(a, s) =>
           net[s] = Signed(positions[s]) + Delta(order[a])

\* The position of a symbol that a restart restores.
RowPosition(s) ==
  IF \E r \in rows : r.open /\ r.symbol = s
  THEN (CHOOSE r \in rows : r.open /\ r.symbol = s).position
  ELSE NoPosition

\* While the worker is down, the table stands for the books.
DownInv ==
  ~up /\ ~torn => \A s \in Symbols : net[s] = Signed(RowPosition(s))

BooksInv ==
  Exclusive /\ Listed /\ Closing /\ Entering /\ NetInv /\ DownInv

\* As long as the liquidator's verdict is "flat", what is still in the books
\* is on its list, or the order at work closes it.
FlatInv ==
  flat /\ pc["liquidator"] # "idle" =>
    \A s \in Symbols :
      positions[s] # NoPosition =>
        \/ todo["liquidator"][s] # NoPosition
        \/ /\ Working("liquidator", s)
           /\ Unbooked("liquidator", s) =>
                order["liquidator"].filled = order["liquidator"].qty

-----------------------------------------------------------------------------
(* The types are invariant *)

\* The tasks, the roles and the records that stand for nothing.
LEMMA Basics ==
  /\ Closers \subseteq Tasks
  /\ "orchestrator" \in Tasks /\ "orchestrator" \notin Closers
  /\ "watchdog" \in Closers /\ "liquidator" \in Closers
  /\ Lots \in Nat /\ Lots > 0
  /\ NoPosition \notin Position
  /\ NoOrder \in OrderRecords
  /\ NoPositions \in [Symbols -> Maybe]
  /\ NoPosition.side = 0 /\ NoPosition.qty = 0 /\ ~NoPosition.guarded
  /\ Signed(NoPosition) = 0
BY ConstantsOK
   DEF Closers, Tasks, NoPosition, Position, NoOrder, OrderRecords,
       NoPositions, Maybe, Signed

\* A save leaves the table as it is, upserts or closes a row.
LEMMA SaveIsLocal ==
  /\ \A s, p : SaveUpsert(s, p) => Upsert(s, p) \/ rows' = rows
  /\ \A id : SaveClose(id) => CloseRow(id) \/ rows' = rows
BY DEF SaveUpsert, SaveClose, DbFault

\* All that a step does to the positions table: nothing, the upsert of a
\* position that a task holds, or the closing of a row by its id.
LEMMA RowsStep ==
  ASSUME TypeInv, [Next]_vars
  PROVE  \/ rows' = rows
         \/ \E a \in Tasks, s \in Symbols :
              mine[a] \in Position /\ Upsert(s, mine[a])
         \/ \E id : CloseRow(id)
<1>1. CASE SavePrice
  BY <1>1, Basics, SaveIsLocal DEF SavePrice, TypeInv, WorkTypes
<1>2. ASSUME NEW a \in Tasks, SaveOpened(a) \/ SaveAgain(a)
      PROVE  \/ rows' = rows
             \/ \E s \in Symbols :
                  mine[a] \in Position /\ Upsert(s, mine[a])
  <2>1. order[a].symbol \in Symbols /\ mine[a] \in Position
    BY <1>2 DEF SaveOpened, SaveAgain, TypeInv, WorkTypes
  <2>2. SaveUpsert(order[a].symbol, mine[a])
    BY <1>2 DEF SaveOpened, SaveAgain
  <2> QED
    BY <2>1, <2>2, SaveIsLocal
<1>3. ASSUME NEW a \in Tasks, SaveClosed(a)
      PROVE  rows' = rows \/ \E id : CloseRow(id)
  BY <1>3, SaveIsLocal DEF SaveClosed
<1>4. CASE RestartEmpty
  BY <1>4 DEF RestartEmpty, DbFault
<1>5. CASE Crash \/ Restart \/ Trigger \/ Reset \/ UNCHANGED vars
  BY <1>5 DEF Crash, Restart, Trigger, Reset, vars
<1>6. ASSUME NEW s \in Symbols, Reprice(s) \/ Enter(s) \/ Keep(s)
      PROVE  rows' = rows
  BY <1>6 DEF Reprice, Enter, Keep
<1>7. ASSUME NEW a \in Closers, NEW s \in Symbols, Close(a, s)
      PROVE  rows' = rows
  BY <1>7 DEF Close
<1>8. CASE Tick \/ EndTick \/ OnKillSwitchEvent \/ EndLiquidation
  BY <1>8 DEF Tick, EndTick, OnKillSwitchEvent, EndLiquidation
<1>9. ASSUME NEW a \in Tasks, Fill(a) \/ NoFill(a)
      PROVE  rows' = rows
  BY <1>9 DEF Fill, NoFill
<1>10. ASSUME NEW a \in Tasks,
              \/ OpenPosition(a) \/ IgnoreFill(a) \/ RecordTrade(a)
              \/ ClosePosition(a) \/ CloseFails(a) \/ ReducePosition(a)
       PROVE  rows' = rows
  BY <1>10 DEF OpenPosition, IgnoreFill, RecordTrade, ClosePosition,
               CloseFails, ReducePosition
<1> QED
  BY <1>1, <1>2, <1>3, <1>4, <1>5, <1>6, <1>7, <1>8, <1>9, <1>10
  DEF Next, OnOrderFilled

LEMMA RowsKeepType ==
  ASSUME TypeInv, [Next]_vars
  PROVE  \A r \in rows' : r \in RowRecords
<1>1. \A r \in rows : r \in RowRecords
  BY DEF TypeInv, BookTypes
<1>2. ASSUME NEW s \in Symbols, NEW p \in Position, Upsert(s, p)
      PROVE  \A r \in rows' : r \in RowRecords
  <2>1. ASSUME NEW id \in Nat \ {0}
        PROVE  Row(s, [p EXCEPT !.id = id]) \in RowRecords
    BY <2>1 DEF Row, RowRecords, Position
  <2>2. Row(s, p) \in RowRecords
    BY DEF Row, RowRecords
  <2>3. \A r \in rows : r.position.id \in Nat \ {0}
    BY <1>1 DEF RowRecords, Position
  <2> QED
    BY <1>1, <1>2, <2>1, <2>2, <2>3 DEF Upsert
<1>3. ASSUME NEW id, CloseRow(id)
      PROVE  \A r \in rows' : r \in RowRecords
  BY <1>1, <1>3 DEF CloseRow, RowRecords
<1> QED
  BY <1>1, <1>2, <1>3, RowsStep

\* The fresh ids of Init exist: the symbols are finitely many.
LEMMA FreshIds ==
  LET n == Cardinality(Symbols)
      id == CHOOSE f \in [Symbols -> 1..n] :
              \A s, t \in Symbols : f[s] = f[t] => s = t
  IN  /\ n \in Nat
      /\ id \in [Symbols -> 1..n]
      /\ \A s, t \in Symbols : id[s] = id[t] => s = t
<1> DEFINE n == Cardinality(Symbols)
<1>1. n \in Nat
  BY ConstantsOK, FS_CardinalityType
<1>2. ExistsBijection(1..n, Symbols)
  BY ConstantsOK, FS_CardinalityType
<1>3. ExistsBijection(Symbols, 1..n)
  BY <1>2, Fun_ExistsBijSymmetric
<1>4. PICK f : f \in Bijection(Symbols, 1..n)
  BY <1>3 DEF ExistsBijection
<1>5. /\ f \in [Symbols -> 1..n]
      /\ \A s, t \in Symbols : f[s] = f[t] => s = t
  BY <1>4 DEF Bijection, Injection, Surjection, IsInjective
<1>6. \E g \in [Symbols -> 1..n] :
        \A s, t \in Symbols : g[s] = g[t] => s = t
  BY <1>5
<1> QED
  BY <1>1, <1>6

LEMMA InitTypeInv == Init => TypeInv
<1> SUFFICES ASSUME Init PROVE TypeInv
  OBVIOUS
<1> DEFINE n == Cardinality(Symbols)
           id == CHOOSE f \in [Symbols -> 1..n] :
                   \A s, t \in Symbols : f[s] = f[t] => s = t
<1>1. n \in Nat /\ id \in [Symbols -> 1..n]
  BY FreshIds
<1>3. PICK held \in SUBSET Symbols, d \in {1, -1} :
        positions = [s \in Symbols |->
          IF s \in held THEN [id |-> id[s], side |-> d, qty |-> Lots,
                              guarded |-> TRUE]
          ELSE NoPosition]
  BY DEF Init
<1>4. ASSUME NEW s \in Symbols
      PROVE  positions[s] \in Maybe /\ Signed(positions[s]) \in Int
  <2>1. id[s] \in Nat \ {0}
    BY <1>1
  <2>2. CASE s \in held
    BY <1>3, <2>1, <2>2, Basics DEF Maybe, Position, Signed
  <2>3. CASE s \notin held
    BY <1>3, <2>3, Basics DEF Maybe
  <2> QED
    BY <2>2, <2>3
<1>5. positions \in [Symbols -> Maybe]
  BY <1>3, <1>4
<1>6. net \in [Symbols -> Int]
  BY <1>4 DEF Init
<1>7. \A r \in rows : r \in RowRecords
  <2>1. rows = BookRows
    BY DEF Init
  <2>2. ASSUME NEW s \in Symbols, positions[s] # NoPosition
        PROVE  Row(s, positions[s]) \in RowRecords
    BY <1>4, <2>2 DEF Row, RowRecords, Maybe
  <2> QED
    BY <2>1, <2>2 DEF BookRows
<1>8. BookTypes
  BY <1>1, <1>5, <1>6, <1>7, Basics DEF Init, BookTypes, PCs, Maybe
<1> QED
  <2>1. /\ up = TRUE
        /\ \A a \in Tasks : pc[a] = "idle"
        /\ \A a \in Closers : todo[a] = NoPositions
    BY DEF Init
  <2> QED
    BY <1>8, <2>1, Basics DEF TypeInv, WorkTypes, Roles

LEMMA NextTypeInv == TypeInv /\ [Next]_vars => TypeInv'
<1> SUFFICES ASSUME TypeInv, [Next]_vars PROVE TypeInv'
  OBVIOUS
<1> USE Basics DEF TypeInv, BookTypes, WorkTypes, Roles, PCs, fixed
<1>r. \A r \in rows' : r \in RowRecords
  BY RowsKeepType
<1>1. ASSUME NEW s \in Symbols, Reprice(s)
      PROVE  TypeInv'
  BY <1>r, <1>1 DEF Reprice, books, Goto, Tasks, Maybe, MayBegin, OrderRecords
<1>2. ASSUME NEW s \in Symbols, Enter(s)
      PROVE  TypeInv'
  BY <1>r, <1>2 DEF Enter, books, Goto, Tasks, OrderRecords, MayBegin
<1>3. ASSUME NEW s \in Symbols, Keep(s)
      PROVE  TypeInv'
  BY <1>r, <1>3 DEF Keep, books, Goto, Tasks, Closers, Maybe
<1>4. CASE SavePrice
  BY <1>r, <1>4 DEF SavePrice, Finish, books, Goto, Tasks, Closers, Maybe
<1>5. CASE Tick
  BY <1>r, <1>5 DEF Tick, books, Goto, Tasks, Closers, Maybe, MayBegin
<1>6. CASE EndTick
  BY <1>r, <1>6 DEF EndTick, ListDone, books, Goto, Tasks, Closers
<1>7. CASE OnKillSwitchEvent
  BY <1>r, <1>7 DEF OnKillSwitchEvent, books, Goto, Tasks, Closers, MayBegin
<1>8. CASE EndLiquidation
  BY <1>r, <1>8 DEF EndLiquidation, ListDone, books, Goto, Tasks, Closers
<1>9. ASSUME NEW a \in Closers, NEW s \in Symbols, Close(a, s)
      PROVE  TypeInv'
  BY <1>r, <1>9 DEF Close, books, Goto, Tasks, Closers, Maybe, Position,
                    OrderRecords
<1>10. ASSUME NEW a \in Tasks, Fill(a)
       PROVE  TypeInv'
  BY <1>r, <1>10 DEF Fill, Fillable, books, Goto, Tasks, Closers,
                     OrderRecords
<1>11. ASSUME NEW a \in Tasks, NoFill(a)
       PROVE  TypeInv'
  BY <1>r, <1>11 DEF NoFill, Proceed, Finish, books, Goto, Tasks, Closers,
                     Maybe
<1>12. ASSUME NEW a \in Tasks, OpenPosition(a)
       PROVE  TypeInv'
  BY <1>r, <1>12 DEF OpenPosition, books, Goto, Tasks, Closers,
                     Maybe, Position
<1>13. ASSUME NEW a \in Tasks, SaveOpened(a)
       PROVE  TypeInv'
  <2> DEFINE guarded == [mine[a] EXCEPT !.guarded = TRUE]
  <2>1. guarded \in Position /\ order[a].symbol \in Symbols
    BY <1>13 DEF SaveOpened, Position
  <2>2. CASE /\ positions' = [positions EXCEPT ![order[a].symbol] = guarded]
             /\ mine' = [mine EXCEPT ![a] = guarded]
             /\ Goto(a, "saveAgain")
             /\ UNCHANGED order
    <3> HIDE DEF guarded
    <3> QED
      BY <1>r, <1>13, <2>1, <2>2 DEF SaveOpened, Goto, Tasks, Closers, Maybe
  <2>3. CASE Proceed(a) /\ UNCHANGED positions
    BY <1>r, <1>13, <2>3 DEF SaveOpened, Proceed, Finish, Goto, Tasks,
                             Closers, Maybe
  <2> QED
    BY <1>13, <2>2, <2>3 DEF SaveOpened
<1>14. ASSUME NEW a \in Tasks, SaveAgain(a)
       PROVE  TypeInv'
  BY <1>r, <1>14 DEF SaveAgain, Proceed, Finish, books, Goto, Tasks, Closers,
                     Maybe
<1>15. ASSUME NEW a \in Tasks, IgnoreFill(a)
       PROVE  TypeInv'
  BY <1>r, <1>15 DEF IgnoreFill, Proceed, Finish, books, Goto, Tasks, Closers,
                     Maybe
<1>16. ASSUME NEW a \in Tasks, RecordTrade(a)
       PROVE  TypeInv'
  BY <1>r, <1>16 DEF RecordTrade, books, Goto, Tasks, Closers, Maybe
<1>17. ASSUME NEW a \in Tasks, ClosePosition(a)
       PROVE  TypeInv'
  BY <1>r, <1>17 DEF ClosePosition, books, Goto, Tasks, Closers, Maybe
<1>18. ASSUME NEW a \in Tasks, SaveClosed(a)
       PROVE  TypeInv'
  BY <1>r, <1>18 DEF SaveClosed, Proceed, Finish, books, Goto, Tasks, Closers,
                     Maybe
<1>19. ASSUME NEW a \in Tasks, CloseFails(a)
       PROVE  TypeInv'
  BY <1>r, <1>19 DEF CloseFails, Proceed, Finish, books, Goto, Tasks, Closers,
                     Maybe
<1>20. ASSUME NEW a \in Tasks, ReducePosition(a)
       PROVE  TypeInv'
  BY <1>r, <1>20 DEF ReducePosition, books, Goto, Tasks, Closers, Maybe,
                     Position
<1>21. CASE Trigger \/ Reset \/ UNCHANGED vars
  BY <1>r, <1>21 DEF Trigger, Reset, vars, books, tasks
<1>22. CASE Crash
  BY <1>r, <1>22 DEF Crash, Maybe
<1>23. CASE Restart
  BY <1>r, <1>23 DEF Restart, Maybe, tasks, RowRecords
<1>24. CASE RestartEmpty
  BY <1>r, <1>24 DEF RestartEmpty, DbFault, books, tasks
<1> QED
  BY <1>1, <1>2, <1>3, <1>4, <1>5, <1>6, <1>7, <1>8, <1>9, <1>10, <1>11,
     <1>12, <1>13, <1>14, <1>15, <1>16, <1>17, <1>18, <1>19, <1>20, <1>21,
     <1>22, <1>23, <1>24
  DEF Next, OnOrderFilled

LEMMA TypeInvariant == Spec => []TypeInv
<1>1. Init => TypeInv
  BY InitTypeInv
<1>2. TypeInv /\ [Next]_vars => TypeInv'
  BY NextTypeInv
<1> QED
  BY <1>1, <1>2, PTL DEF Spec

-----------------------------------------------------------------------------
(* The positions table *)

LEMMA InitOneOpenRow == Init => OneOpenRow
<1> SUFFICES ASSUME Init PROVE OneOpenRow
  OBVIOUS
<1>1. \A r \in rows : r = Row(r.symbol, positions[r.symbol])
  <2>1. rows = BookRows
    BY DEF Init
  <2>2. \A r \in rows : \E s \in Symbols : r = Row(s, positions[s])
    BY <2>1 DEF BookRows
  <2>3. ASSUME NEW r, NEW s, r = Row(s, positions[s])
        PROVE  r = Row(r.symbol, positions[r.symbol])
    <3>1. r.symbol = s
      BY <2>3 DEF Row
    <3> QED
      BY <2>3, <3>1
  <2> QED
    BY <2>2, <2>3
<1>2. ASSUME NEW q \in rows, NEW r \in rows, q.symbol = r.symbol
      PROVE  q = r
  BY <1>1, <1>2
<1> QED
  BY <1>2 DEF OneOpenRow

LEMMA NextOneOpenRow ==
  TypeInv /\ OneOpenRow /\ [Next]_vars => OneOpenRow'
<1> SUFFICES ASSUME TypeInv, OneOpenRow, [Next]_vars PROVE OneOpenRow'
  OBVIOUS
<1>1. ASSUME NEW s \in Symbols, NEW p \in Position, Upsert(s, p)
      PROVE  OneOpenRow'
  <2> DEFINE old == {r \in rows : r.open /\ r.symbol = s}
             new == {Row(s, [p EXCEPT !.id = r.position.id]) : r \in old}
  <2>u. rows' = IF old # {} THEN (rows \ old) \cup new
                ELSE IF \E r \in rows : r.position.id = p.id THEN rows
                ELSE rows \cup {Row(s, p)}
    BY <1>1 DEF Upsert
  <2>1. CASE old = {}
    <3>1. rows' \subseteq rows \cup {Row(s, p)}
      <4> HIDE DEF old, new
      <4> QED
        BY <2>u, <2>1
    <3>2. \A r \in rows : r.open => r.symbol # s
      BY <2>1
    <3>3. Row(s, p).symbol = s
      BY DEF Row
    <3> HIDE DEF old, new
    <3> QED
      BY <3>1, <3>2, <3>3 DEF OneOpenRow
  <2>2. ASSUME NEW o \in old
        PROVE  OneOpenRow'
    <3>1. old = {o}
      BY <2>2 DEF OneOpenRow
    <3>2. rows' = (rows \ {o}) \cup {Row(s, [p EXCEPT !.id = o.position.id])}
      <4>1. new = {Row(s, [p EXCEPT !.id = o.position.id])}
        BY <3>1
      <4> HIDE DEF old, new
      <4> QED
        BY <2>u, <3>1, <4>1
    <3>3. \A r \in rows : r.open /\ r.symbol = s => r = o
      BY <3>1
    <3>4. Row(s, [p EXCEPT !.id = o.position.id]).symbol = s
      BY DEF Row
    <3> HIDE DEF old, new
    <3> QED
      BY <3>2, <3>3, <3>4 DEF OneOpenRow
  <2> QED
    BY <2>1, <2>2
<1>2. ASSUME NEW id, CloseRow(id)
      PROVE  OneOpenRow'
  <2>1. \A r \in rows : r \in RowRecords
    BY DEF TypeInv, BookTypes
  <2>2. \A r \in rows' : r.open => r \in rows
    BY <1>2, <2>1 DEF CloseRow, RowRecords
  <2> QED
    BY <2>2 DEF OneOpenRow
<1>3. ASSUME rows' = rows PROVE OneOpenRow'
  BY <1>3 DEF OneOpenRow
<1> QED
  BY <1>1, <1>2, <1>3, RowsStep

\* The table has at most one open row of a symbol, whichever tasks interleave,
\* database calls fail and restarts happen.
THEOREM OneRow == Spec => []OneOpenRow
<1>1. Init => OneOpenRow
  BY InitOneOpenRow
<1>2. TypeInv /\ OneOpenRow /\ [Next]_vars => OneOpenRow'
  BY NextOneOpenRow
<1> QED
  BY <1>1, <1>2, TypeInvariant, PTL DEF Spec

-----------------------------------------------------------------------------
(* The books while the emergency close runs alone *)

LEMMA FixedStays == [Next]_vars => mode' = mode /\ alone' = alone
BY DEF Next, OnOrderFilled, vars, fixed, Reprice, Enter, Keep, SavePrice,
       Tick, EndTick, OnKillSwitchEvent, EndLiquidation, Close, Fill, NoFill,
       OpenPosition, SaveOpened, SaveAgain, IgnoreFill, RecordTrade,
       ClosePosition, SaveClosed, CloseFails, ReducePosition, Trigger, Reset,
       Crash, Restart, RestartEmpty

\* Two tasks never work on the same symbol.
LEMMA OneWorks ==
  ASSUME TypeInv, BooksInv, NEW a \in Tasks, NEW b \in Tasks, a # b,
         NEW s \in Symbols, Working(a, s)
  PROVE  ~Working(b, s)
BY Basics DEF BooksInv, Exclusive, Closing, Entering, Working, Tasks, Closers

\* While a closer is at work, the other one has no list.
LEMMA OneLists ==
  ASSUME TypeInv, BooksInv, NEW a \in Closers, pc[a] # "idle",
         NEW b \in Closers, a # b
  PROVE  todo[b] = NoPositions
BY DEF BooksInv, Exclusive, TypeInv, Roles, Closers

\* A fill against a position leaves what the books make of it: the rest, or
\* nothing.
LEMMA FillReduces ==
  ASSUME NEW p \in Position, NEW o \in OrderRecords,
         o.side = -p.side, o.filled \in 1..p.qty
  PROVE  /\ Signed([p EXCEPT !.qty = @ - o.filled]) = Signed(p) + Delta(o)
         /\ o.filled >= p.qty => Signed(p) + Delta(o) = 0
<1>1. CASE p.side = 1
  BY <1>1, Basics DEF Position, OrderRecords, Signed, Delta
<1>2. CASE p.side = -1
  BY <1>2, Basics DEF Position, OrderRecords, Signed, Delta
<1> QED
  BY <1>1, <1>2 DEF Position

LEMMA InitBooks == Init => BooksInv
<1> SUFFICES ASSUME Init PROVE BooksInv
  OBVIOUS
<1>1. /\ up = TRUE
      /\ \A a \in Tasks : pc[a] = "idle"
      /\ \A a \in Closers, s \in Symbols : todo[a][s] = NoPosition
      /\ \A s \in Symbols : net[s] = Signed(positions[s])
  BY DEF Init, NoPositions
<1>2. NetInv
  BY <1>1 DEF NetInv, Unbooked
<1>3. DownInv
  BY <1>1 DEF DownInv
<1> QED
  BY <1>1, <1>2, <1>3, Basics
  DEF BooksInv, Exclusive, Listed, Closing, Entering, Working

\* Every step keeps the books true.
LEMMA NextBooks ==
  ASSUME Undisturbed, TypeInv, BooksInv, [Next]_vars
  PROVE  BooksInv'
<1> USE Basics
        DEF Undisturbed, TypeInv, BookTypes, WorkTypes, Roles, PCs, Maybe,
            BooksInv, Exclusive, Listed, Closing, Entering, NetInv, DownInv,
            Working, Unbooked, RowPosition
<1>1. ASSUME NEW s \in Symbols, Reprice(s)
      PROVE  BooksInv'
  BY <1>1 DEF Reprice, books, Goto, MayBegin, Tasks, Closers
<1>2. ASSUME NEW s \in Symbols, Enter(s)
      PROVE  BooksInv'
  BY <1>2 DEF Enter, books, Goto, MayBegin, Tasks, Closers
<1>3. ASSUME NEW s \in Symbols, Keep(s)
      PROVE  BooksInv'
  BY <1>3 DEF Keep, books, Tasks, Closers
<1>4. CASE SavePrice
  BY <1>4 DEF SavePrice, Finish, books, Goto, Tasks, Closers
<1>5. CASE Tick
  BY <1>5 DEF Tick, books, Goto, MayBegin, Tasks, Closers
<1>6. CASE EndTick
  BY <1>6 DEF EndTick, ListDone, books, Goto, Tasks, Closers
<1>7. CASE OnKillSwitchEvent
  BY <1>7 DEF OnKillSwitchEvent, books, Goto, MayBegin, Tasks, Closers
<1>8. CASE EndLiquidation
  BY <1>8 DEF EndLiquidation, ListDone, books, Goto, Tasks, Closers
<1>9. ASSUME NEW a \in Closers, NEW s \in Symbols, Close(a, s)
      PROVE  BooksInv'
  BY <1>9 DEF Close, books, Goto, Tasks, Closers
<1>10. ASSUME NEW a \in Tasks, Fill(a)
       PROVE  BooksInv'
  <2>1. Exclusive'
    BY <1>10 DEF Fill, Fillable, books, Goto, Tasks, Closers
  <2>2. Listed'
    BY <1>10 DEF Fill, Fillable, books, Goto, Tasks, Closers
  <2>3. Closing'
    BY <1>10 DEF Fill, Fillable, books, Goto, Tasks, Closers
  <2>4. Entering'
    BY <1>10 DEF Fill, Fillable, books, Goto, Tasks, Closers
  <2>5. NetInv'
    BY <1>10 DEF Fill, Fillable, books, Goto, Tasks, Closers, Signed, Delta
  <2>6. DownInv'
    BY <1>10 DEF Fill, Fillable, books, Goto, Tasks, Closers
  <2> QED
    BY <2>1, <2>2, <2>3, <2>4, <2>5, <2>6
<1>11. ASSUME NEW a \in Tasks, NoFill(a)
       PROVE  BooksInv'
  BY <1>11 DEF NoFill, Proceed, Finish, books, Goto, Tasks, Closers
<1>12. ASSUME NEW a \in Tasks, OpenPosition(a)
       PROVE  BooksInv'
  <2>1. Exclusive'
    BY <1>12 DEF OpenPosition, Goto, Tasks, Closers
  <2>2. Listed'
    BY <1>12 DEF OpenPosition, Goto, Tasks, Closers
  <2>3. Closing'
    BY <1>12 DEF OpenPosition, Goto, Tasks, Closers
  <2>4. Entering'
    BY <1>12 DEF OpenPosition, Goto, Tasks, Closers
  <2>5. NetInv'
    BY <1>12 DEF OpenPosition, Goto, Tasks, Closers, Signed, Delta
  <2>6. DownInv'
    BY <1>12 DEF OpenPosition, Goto, Tasks, Closers
  <2> QED
    BY <2>1, <2>2, <2>3, <2>4, <2>5, <2>6
<1>13. ASSUME NEW a \in Tasks, SaveOpened(a)
       PROVE  BooksInv'
  <2>1. a = "orchestrator" /\ positions[order[a].symbol] = mine[a]
    BY <1>13 DEF SaveOpened, Tasks, Closers
  <2>2. \A s \in Symbols : Signed(positions'[s]) = Signed(positions[s])
    <3>1. \/ positions' = positions
          \/ positions' = [positions EXCEPT ![order[a].symbol] =
                             [mine[a] EXCEPT !.guarded = TRUE]]
      BY <1>13 DEF SaveOpened
    <3>2. Signed([mine[a] EXCEPT !.guarded = TRUE]) = Signed(mine[a])
      BY <1>13 DEF SaveOpened, Signed, Position
    <3> QED
      BY <2>1, <3>1, <3>2
  <2>3. NetInv'
    BY <1>13, <2>1, <2>2 DEF SaveOpened, Proceed, Finish, Goto, Tasks, Closers
  <2> QED
    BY <1>13, <2>1, <2>3 DEF SaveOpened, Proceed, Finish, Goto, Tasks, Closers
<1>14. ASSUME NEW a \in Tasks, SaveAgain(a)
       PROVE  BooksInv'
  BY <1>14 DEF SaveAgain, Proceed, Finish, books, Goto, Tasks, Closers
<1>15. ASSUME NEW a \in Tasks, IgnoreFill(a)
       PROVE  BooksInv'
  BY <1>15 DEF IgnoreFill, Proceed, Finish, books, Goto, Tasks, Closers
<1>16. ASSUME NEW a \in Tasks, RecordTrade(a)
       PROVE  BooksInv'
  BY <1>16 DEF RecordTrade, books, Goto, Tasks, Closers
<1>17. ASSUME NEW a \in Tasks, ClosePosition(a)
       PROVE  BooksInv'
  <2>0. PICK s \in Symbols, p \in Maybe :
          s = order[a].symbol /\ p = positions[s]
    BY <1>17 DEF ClosePosition
  <2>1. /\ a \in Closers
        /\ Working(a, s) /\ Unbooked(a, s)
        /\ p \in Position /\ mine[a] = p
        /\ order[a] \in OrderRecords
        /\ order[a].side = -p.side
        /\ order[a].filled \in 1..p.qty
    BY <1>17, <2>0 DEF ClosePosition, Tasks, Closers
  <2>2. Signed(positions'[s]) = Signed(p) + Delta(order[a])
    <3>1. \/ /\ order[a].filled >= p.qty
             /\ positions'[s] = NoPosition
          \/ positions'[s] = [p EXCEPT !.qty = @ - order[a].filled]
      BY <1>17, <2>0, <2>1 DEF ClosePosition
    <3>2. Signed(NoPosition) = 0
      BY Basics
    <3> QED
      BY <2>1, <3>1, <3>2, FillReduces
  <2>3. \A b \in Tasks, t \in Symbols :
          /\ t # s => positions'[t] = positions[t]
          /\ Unbooked(b, t)' <=> b # a /\ Unbooked(b, t)
    BY <1>17, <2>0, <2>1 DEF ClosePosition, Goto
  <2>4. \A b \in Tasks \ {a} : ~Working(b, s)
    BY <2>1, OneWorks
  <2>5. NetInv'
    <3>1. ASSUME up', ~torn', NEW t \in Symbols, t # s
          PROVE  /\ (\A b \in Tasks : ~Unbooked(b, t)') =>
                      net'[t] = Signed(positions'[t])
                 /\ \A b \in Tasks : Unbooked(b, t)' =>
                      net'[t] = Signed(positions'[t]) + Delta(order'[b])
      BY <1>17, <2>0, <2>1, <2>3, <3>1 DEF ClosePosition
    <3>2. ASSUME up', ~torn'
          PROVE  net'[s] = Signed(positions'[s])
      BY <1>17, <2>0, <2>1, <2>2, <3>2 DEF ClosePosition
    <3>3. \A b \in Tasks : ~Unbooked(b, s)'
      BY <2>1, <2>3, <2>4
    <3>4. ASSUME up', ~torn', NEW t \in Symbols
          PROVE  /\ (\A b \in Tasks : ~Unbooked(b, t)') =>
                      net'[t] = Signed(positions'[t])
                 /\ \A b \in Tasks : Unbooked(b, t)' =>
                      net'[t] = Signed(positions'[t]) + Delta(order'[b])
      <4>1. CASE t = s
        BY <3>2, <3>3, <3>4, <4>1
      <4> QED
        BY <3>1, <3>4, <4>1
    <3> QED
      BY <3>4
  <2>6. \A b \in Closers : todo[b][s] = NoPosition
    BY <2>1, OneLists DEF NoPositions
  <2>7. Listed'
    BY <1>17, <2>0, <2>3, <2>6 DEF ClosePosition
  <2>f. /\ pc' = [pc EXCEPT ![a] = "saveClosed"]
        /\ order' = order /\ todo' = todo
        /\ \A b \in Tasks : b # a => mine'[b] = mine[b]
    BY <1>17 DEF ClosePosition, Goto
  <2>8. Closing'
    <3>1. ASSUME NEW b \in Tasks, NEW t \in Symbols, Working(b, t)'
          PROVE  b # a /\ t # s /\ Working(b, t)
      BY <2>0, <2>1, <2>4, <2>f, <3>1
    <3> QED
      BY <2>1, <2>3, <2>f, <3>1 DEF Tasks, Closers
  <2>9. Entering'
    BY <2>0, <2>1, <2>3, <2>4, <2>f DEF Tasks, Closers
  <2> QED
    BY <1>17, <2>0, <2>5, <2>7, <2>8, <2>9
    DEF ClosePosition, Goto, Tasks, Closers
<1>18. ASSUME NEW a \in Tasks, SaveClosed(a)
       PROVE  BooksInv'
  BY <1>18 DEF SaveClosed, Proceed, Finish, books, Goto, Tasks, Closers
<1>19. ASSUME NEW a \in Tasks, CloseFails(a)
       PROVE  BooksInv'
  BY <1>19 DEF CloseFails, Proceed, Finish, books, Goto, Tasks, Closers
<1>20. ASSUME NEW a \in Tasks, ReducePosition(a)
       PROVE  BooksInv'
  <2>0. PICK s \in Symbols, p \in Maybe :
          s = order[a].symbol /\ p = positions[s]
    BY <1>20 DEF ReducePosition
  <2>1. /\ a \in Closers
        /\ Working(a, s) /\ Unbooked(a, s)
        /\ p \in Position /\ mine[a] = p
        /\ order[a] \in OrderRecords
        /\ order[a].side = -p.side
        /\ order[a].filled \in 1..p.qty
    BY <1>20, <2>0 DEF ReducePosition, Tasks, Closers
  <2>2. Signed(positions'[s]) = Signed(p) + Delta(order[a])
    <3>1. \/ /\ order[a].filled >= p.qty
             /\ positions'[s] = NoPosition
          \/ positions'[s] = [p EXCEPT !.qty = @ - order[a].filled]
      BY <1>20, <2>0, <2>1 DEF ReducePosition
    <3>2. Signed(NoPosition) = 0
      BY Basics
    <3> QED
      BY <2>1, <3>1, <3>2, FillReduces
  <2>3. \A b \in Tasks, t \in Symbols :
          /\ t # s => positions'[t] = positions[t]
          /\ Unbooked(b, t)' <=> b # a /\ Unbooked(b, t)
    BY <1>20, <2>0, <2>1 DEF ReducePosition, Goto
  <2>4. \A b \in Tasks \ {a} : ~Working(b, s)
    BY <2>1, OneWorks
  <2>5. NetInv'
    <3>1. ASSUME up', ~torn', NEW t \in Symbols, t # s
          PROVE  /\ (\A b \in Tasks : ~Unbooked(b, t)') =>
                      net'[t] = Signed(positions'[t])
                 /\ \A b \in Tasks : Unbooked(b, t)' =>
                      net'[t] = Signed(positions'[t]) + Delta(order'[b])
      BY <1>20, <2>0, <2>1, <2>3, <3>1 DEF ReducePosition
    <3>2. ASSUME up', ~torn'
          PROVE  net'[s] = Signed(positions'[s])
      BY <1>20, <2>0, <2>1, <2>2, <3>2 DEF ReducePosition
    <3>3. \A b \in Tasks : ~Unbooked(b, s)'
      BY <2>1, <2>3, <2>4
    <3>4. ASSUME up', ~torn', NEW t \in Symbols
          PROVE  /\ (\A b \in Tasks : ~Unbooked(b, t)') =>
                      net'[t] = Signed(positions'[t])
                 /\ \A b \in Tasks : Unbooked(b, t)' =>
                      net'[t] = Signed(positions'[t]) + Delta(order'[b])
      <4>1. CASE t = s
        BY <3>2, <3>3, <3>4, <4>1
      <4> QED
        BY <3>1, <3>4, <4>1
    <3> QED
      BY <3>4
  <2>6. \A b \in Closers : todo[b][s] = NoPosition
    BY <2>1, OneLists DEF NoPositions
  <2>7. Listed'
    BY <1>20, <2>0, <2>3, <2>6 DEF ReducePosition
  <2>f. /\ pc' = [pc EXCEPT ![a] = "saveAgain"]
        /\ order' = order /\ todo' = todo
        /\ \A b \in Tasks : b # a => mine'[b] = mine[b]
    BY <1>20 DEF ReducePosition, Goto
  <2>8. Closing'
    <3>1. ASSUME NEW b \in Tasks, NEW t \in Symbols, Working(b, t)'
          PROVE  b # a /\ t # s /\ Working(b, t)
      BY <2>0, <2>1, <2>4, <2>f, <3>1
    <3> QED
      BY <2>1, <2>3, <2>f, <3>1 DEF Tasks, Closers
  <2>9. Entering'
    BY <2>0, <2>1, <2>3, <2>4, <2>f DEF Tasks, Closers
  <2> QED
    BY <1>20, <2>0, <2>5, <2>7, <2>8, <2>9
    DEF ReducePosition, Goto, Tasks, Closers
<1>21. CASE Trigger \/ Reset \/ UNCHANGED vars
  BY <1>21 DEF Trigger, Reset, vars, books, tasks, Tasks, Closers
<1>22. CASE Crash
  <2>1. \A a \in Tasks : pc'[a] = "idle"
    BY <1>22 DEF Crash
  <2>2. \A a \in Closers, s \in Symbols : todo'[a][s] = NoPosition
    BY <1>22 DEF Crash, NoPositions
  <2>3. ASSUME ~torn'
        PROVE  \A s \in Symbols : net'[s] = Signed(RowPosition(s)')
    <3>1. /\ ~torn /\ up
          /\ OpenRows = BookRows
          /\ \A a \in Tasks : ~Busy(a)
      BY <1>22, <2>3 DEF Crash
    <3>2. TAKE s \in Symbols
    <3>3. net[s] = Signed(positions[s])
      BY <3>1 DEF Busy
    <3>4. \A r : r \in rows /\ r.open /\ r.symbol = s <=>
                 positions[s] # NoPosition /\ r = Row(s, positions[s])
      <4>1. \A r : r \in OpenRows <=>
              \E t \in Symbols :
                positions[t] # NoPosition /\ r = Row(t, positions[t])
        BY <3>1 DEF BookRows
      <4>2. \A t, p : Row(t, p).symbol = t /\ Row(t, p).open
        BY DEF Row
      <4> QED
        BY <4>1, <4>2 DEF OpenRows
    <3>5. Row(s, positions[s]).position = positions[s]
      BY DEF Row
    <3>6. RowPosition(s) = positions[s]
      BY <3>4, <3>5
    <3>7. RowPosition(s)' = RowPosition(s) /\ net' = net
      BY <1>22 DEF Crash
    <3> QED
      BY <3>3, <3>6, <3>7
  <2>4. ~up'
    BY <1>22 DEF Crash
  <2>5. Exclusive' /\ Listed' /\ Closing' /\ Entering'
    BY <2>1, <2>2
  <2>6. NetInv'
    BY <2>4
  <2>7. DownInv'
    BY <2>3
  <2> QED
    BY <2>5, <2>6, <2>7
<1>23. CASE Restart
  <2>1. \A a \in Tasks : pc'[a] = "idle" /\ pc[a] = "idle"
    BY <1>23 DEF Restart, tasks
  <2>2. \A a \in Closers, s \in Symbols : todo'[a][s] = NoPosition
    BY <1>23 DEF Restart, tasks, NoPositions
  <2>3. \A s \in Symbols : positions'[s] = RowPosition(s)
    BY <1>23 DEF Restart
  <2>4. up' /\ net' = net /\ torn' = torn /\ ~up
    BY <1>23 DEF Restart
  <2>5. Exclusive' /\ Listed' /\ Closing' /\ Entering'
    BY <2>1, <2>2
  <2>6. NetInv'
    BY <2>1, <2>3, <2>4
  <2>7. DownInv'
    BY <2>4
  <2> QED
    BY <2>5, <2>6, <2>7
<1>24. CASE RestartEmpty
  BY <1>24 DEF RestartEmpty, DbFault, books, tasks, Tasks, Closers
<1> QED
  BY <1>1, <1>2, <1>3, <1>4, <1>5, <1>6, <1>7, <1>8, <1>9, <1>10, <1>11,
     <1>12, <1>13, <1>14, <1>15, <1>16, <1>17, <1>18, <1>19, <1>20, <1>21,
     <1>22, <1>23, <1>24
  DEF Next, OnOrderFilled

LEMMA BooksInvariant == Spec => [](TypeInv /\ (Undisturbed => BooksInv))
<1> DEFINE Inv == TypeInv /\ (Undisturbed => BooksInv)
<1>1. Init => Inv
  BY InitTypeInv, InitBooks
<1>2. Inv /\ [Next]_vars => Inv'
  BY NextTypeInv, NextBooks, FixedStays DEF Undisturbed
<1> QED
  BY <1>1, <1>2, PTL DEF Spec

\* When no order is under way, the books say what the exchange holds, if the
\* emergency close runs while the other tasks rest.
THEOREM BooksAreTrue == Spec => []BooksMatchExchange
<1>1. TypeInv /\ (Undisturbed => BooksInv) => BooksMatchExchange
  BY DEF BooksInv, NetInv, BooksMatchExchange, AtRest, Busy, Unbooked
<1> QED
  BY <1>1, BooksInvariant, PTL

\* With the same assumption, no interleaving of cycles, ticks and emergency
\* closes, and no restart, exposes a symbol to more than one entry.
THEOREM OneEntry == Spec => []OneEntryPerSymbol
<1>1. ASSUME TypeInv, BooksInv, ~torn, NEW s \in Symbols
      PROVE  net[s] \in -Lots..Lots
  <2>1. ASSUME NEW p \in Maybe
        PROVE  Signed(p) \in -Lots..Lots
    BY <2>1, Basics DEF Maybe, Position, Signed
  <2>2. CASE ~up
    <3>1. RowPosition(s) \in Maybe
      BY <1>1 DEF RowPosition, TypeInv, BookTypes, RowRecords, Maybe
    <3> QED
      BY <1>1, <2>1, <2>2, <3>1 DEF BooksInv, DownInv
  <2>3. CASE up /\ \A a \in Tasks : ~Unbooked(a, s)
    BY <1>1, <2>1, <2>3 DEF BooksInv, NetInv, TypeInv, BookTypes
  <2>4. ASSUME up, NEW a \in Tasks, Unbooked(a, s)
        PROVE  net[s] \in -Lots..Lots
    <3> DEFINE o == order[a]
    <3>1. net[s] = Signed(positions[s]) + Delta(o)
      BY <1>1, <2>4 DEF BooksInv, NetInv
    <3>2. o.side \in {1, -1} /\ o.filled \in 1..Lots /\ o.filled <= o.qty
      BY <1>1, <2>4 DEF TypeInv, WorkTypes, Unbooked
    <3>3. Working(a, s)
      BY <2>4 DEF Unbooked, Working
    <3>4. CASE a = "orchestrator"
      <4>1. Signed(positions[s]) = 0
        BY <1>1, <3>3, <3>4, Basics DEF BooksInv, Entering
      <4> QED
        BY <3>1, <3>2, <4>1, Basics DEF Delta
    <3>5. CASE a \in Closers
      <4>1. /\ positions[s] \in Position
            /\ o.side = -positions[s].side /\ o.qty = positions[s].qty
        BY <1>1, <3>3, <3>5 DEF BooksInv, Closing, TypeInv, BookTypes, Maybe
      <4>2. positions[s].side = 1 \/ positions[s].side = -1
        BY <4>1 DEF Position
      <4> QED
        BY <3>1, <3>2, <4>1, <4>2, Basics DEF Position, Signed, Delta
    <3> QED
      BY <3>4, <3>5 DEF Tasks, Closers
  <2> QED
    BY <2>2, <2>3, <2>4
<1>2. TypeInv /\ (Undisturbed => BooksInv) => OneEntryPerSymbol
  BY <1>1 DEF OneEntryPerSymbol, WithinOneEntry
<1> QED
  BY <1>2, BooksInvariant, PTL

\* With the same assumption, the fill of a watchdog's or a liquidator's order
\* always meets the position it was to close, and never opens one.
THEOREM ClosersOnlyClose == Spec => ClosersNeverOpen
<1>1. TypeInv /\ (Undisturbed => BooksInv) =>
        [Undisturbed => \A a \in Closers : ~OpenPosition(a)]_vars
  BY DEF BooksInv, Closing, Working, OpenPosition, TypeInv, WorkTypes,
         Closers, Tasks
<1> QED
  BY <1>1, BooksInvariant, PTL DEF ClosersNeverOpen

-----------------------------------------------------------------------------
(* The verdict of the emergency close *)

LEMMA NextFlat ==
  ASSUME Undisturbed, TypeInv, BooksInv, FlatInv, [Next]_vars
  PROVE  FlatInv'
<1> USE Basics
        DEF Undisturbed, TypeInv, BookTypes, WorkTypes, Roles, PCs, Maybe,
            BooksInv, Exclusive, Listed, Closing, Working, Unbooked, FlatInv
<1>1. ASSUME NEW s \in Symbols, Reprice(s)
      PROVE  FlatInv'
  BY <1>1 DEF Reprice, books, Goto, MayBegin, kill, Tasks, Closers
<1>2. ASSUME NEW s \in Symbols, Enter(s)
      PROVE  FlatInv'
  BY <1>2 DEF Enter, books, Goto, MayBegin, kill, Tasks, Closers
<1>3. ASSUME NEW s \in Symbols, Keep(s)
      PROVE  FlatInv'
  BY <1>3 DEF Keep, books, kill, Tasks, Closers
<1>4. CASE SavePrice
  BY <1>4 DEF SavePrice, Finish, books, Goto, kill, Tasks, Closers
<1>5. CASE Tick
  BY <1>5 DEF Tick, books, Goto, MayBegin, kill, Tasks, Closers
<1>6. CASE EndTick
  BY <1>6 DEF EndTick, ListDone, books, Goto, kill, Tasks, Closers
<1>7. CASE OnKillSwitchEvent
  BY <1>7 DEF OnKillSwitchEvent, books, Goto, MayBegin, kill, Tasks, Closers
<1>8. CASE EndLiquidation
  BY <1>8 DEF EndLiquidation, ListDone, books, Goto, kill, Tasks, Closers
<1>9. ASSUME NEW a \in Closers, NEW s \in Symbols, Close(a, s)
      PROVE  FlatInv'
  BY <1>9 DEF Close, books, Goto, kill, Tasks, Closers
<1>10. ASSUME NEW a \in Tasks, Fill(a)
       PROVE  FlatInv'
  <2>1. CASE a = "liquidator"
    <3>1. PICK q :
            /\ order' = [order EXCEPT ![a].filled = q]
            /\ flat' = (flat /\ (a = "liquidator" => q = order[a].qty))
      BY <1>10, Zenon DEF Fill
    <3>2. flat' => flat /\ q = order[a].qty
      BY <2>1, <3>1
    <3>3. /\ positions' = positions /\ todo' = todo
          /\ pc' = [pc EXCEPT ![a] = "filled"] /\ pc[a] = "sent"
      BY <1>10 DEF Fill, books, Goto
    <3> QED
      BY <2>1, <3>1, <3>2, <3>3 DEF Tasks, Closers
  <2>2. CASE a # "liquidator"
    <3>1. pc[a] = "sent"
      BY <1>10 DEF Fill
    <3>2. pc["liquidator"] = "idle"
      BY <2>2, <3>1 DEF Tasks
    <3> QED
      BY <1>10, <2>2, <3>2 DEF Fill, Goto, Tasks
  <2> QED
    BY <2>1, <2>2
<1>11. ASSUME NEW a \in Tasks, NoFill(a)
       PROVE  FlatInv'
  BY <1>11 DEF NoFill, Proceed, Finish, books, Goto, kill, Tasks, Closers
<1>12. ASSUME NEW a \in Tasks, OpenPosition(a)
       PROVE  FlatInv'
  BY <1>12 DEF OpenPosition, Goto, kill, Tasks, Closers
<1>13. ASSUME NEW a \in Tasks, SaveOpened(a)
       PROVE  FlatInv'
  BY <1>13 DEF SaveOpened, Proceed, Finish, Goto, kill, Tasks, Closers
<1>14. ASSUME NEW a \in Tasks, SaveAgain(a)
       PROVE  FlatInv'
  BY <1>14 DEF SaveAgain, Proceed, Finish, books, Goto, kill, Tasks, Closers
<1>15. ASSUME NEW a \in Tasks, IgnoreFill(a)
       PROVE  FlatInv'
  BY <1>15 DEF IgnoreFill, Proceed, Finish, books, Goto, kill, Tasks, Closers
<1>16. ASSUME NEW a \in Tasks, RecordTrade(a)
       PROVE  FlatInv'
  BY <1>16 DEF RecordTrade, books, Goto, kill, Tasks, Closers
<1>17. ASSUME NEW a \in Tasks, ClosePosition(a)
       PROVE  FlatInv'
  BY <1>17 DEF ClosePosition, Goto, kill, Tasks, Closers
<1>18. ASSUME NEW a \in Tasks, SaveClosed(a)
       PROVE  FlatInv'
  BY <1>18 DEF SaveClosed, Proceed, Finish, books, Goto, kill, Tasks, Closers
<1>19. ASSUME NEW a \in Tasks, CloseFails(a)
       PROVE  FlatInv'
  BY <1>19 DEF CloseFails, Proceed, Finish, books, Goto, kill, Tasks, Closers
<1>20. ASSUME NEW a \in Tasks, ReducePosition(a)
       PROVE  FlatInv'
  BY <1>20, SMTT(30) DEF ReducePosition, Goto, kill, Tasks, Closers
<1>21. CASE Trigger \/ Reset \/ UNCHANGED vars
  BY <1>21 DEF Trigger, Reset, vars, books, tasks, kill, Tasks, Closers
<1>22. CASE Crash
  BY <1>22 DEF Crash, kill, Tasks, Closers
<1>23. CASE Restart
  BY <1>23 DEF Restart, tasks, kill, Tasks, Closers
<1>24. CASE RestartEmpty
  BY <1>24 DEF RestartEmpty, DbFault, books, tasks, kill, Tasks, Closers
<1> QED
  BY <1>1, <1>2, <1>3, <1>4, <1>5, <1>6, <1>7, <1>8, <1>9, <1>10, <1>11,
     <1>12, <1>13, <1>14, <1>15, <1>16, <1>17, <1>18, <1>19, <1>20, <1>21,
     <1>22, <1>23, <1>24
  DEF Next, OnOrderFilled

\* With the same assumption, the liquidator reports net exposure zero only
\* when the exchange holds nothing.
THEOREM FlatIsFlat == Spec => FlatMeansFlat
<1> DEFINE Inv == TypeInv /\ (Undisturbed => BooksInv)
<1>1. Init => (Undisturbed => FlatInv)
  BY DEF Init, FlatInv, Tasks
<1>2. Inv /\ (Undisturbed => FlatInv) /\ [Next]_vars =>
        (Undisturbed => FlatInv)'
  BY NextFlat, FixedStays DEF Undisturbed
<1>3. ASSUME TypeInv, BooksInv, FlatInv, EndLiquidation, flat, ~torn,
             NEW s \in Symbols
      PROVE  net[s] = 0
  <2>1. /\ pc["liquidator"] = "next"
        /\ todo["liquidator"][s] = NoPosition
    BY <1>3 DEF EndLiquidation, ListDone, NoPositions
  <2>2. positions[s] = NoPosition
    BY <1>3, <2>1 DEF FlatInv, Working
  <2>3. up
    BY <1>3, <2>1, Basics DEF TypeInv, Roles
  <2>4. \A a \in Tasks : ~Unbooked(a, s)
    BY <1>3, <2>1 DEF BooksInv, Exclusive, Unbooked, Tasks
  <2> QED
    BY <1>3, <2>2, <2>3, <2>4, Basics DEF BooksInv, NetInv
<1>4. Inv /\ (Undisturbed => FlatInv) =>
        [Undisturbed /\ EndLiquidation /\ flat /\ ~torn =>
           \A s \in Symbols : net[s] = 0]_vars
  BY <1>3
<1> QED
  BY <1>1, <1>2, <1>4, BooksInvariant, PTL DEF Spec, FlatMeansFlat

-----------------------------------------------------------------------------
(* What TypeOK says beyond BookTypes: counters, ids, flags and quantities  *)

\* Within their bounds: a task at work was started by an event, and the
\* liquidator rests when its attempts are used up.
Counters ==
  /\ events \in 0..MaxEvents
  /\ tries \in 0..3
  /\ faults \in 0..MaxFaults
  /\ crashes \in 0..MaxCrashes
  /\ pc["liquidator"] = "idle" => tries < 3
  /\ pc["liquidator"] # "idle" => events > 0

\* An id was given out once and stands in one row.
Ids ==
  /\ \A s \in Symbols : positions[s].id <= opens
  /\ \A a \in Tasks : mine[a].id <= opens
  /\ \A r \in rows : r.position.id <= opens
  /\ \A q, r \in rows : q.position.id = r.position.id => q = r

Flags ==
  /\ up \in BOOLEAN
  /\ halted \in BOOLEAN
  /\ flat \in BOOLEAN
  /\ torn \in BOOLEAN
  /\ alone \in Regimes

\* Nothing is filled that was not asked for.
FilledPart == \A a \in Tasks : order[a].filled <= order[a].qty

\* A failed write is counted.
LEMMA FaultStep ==
  ASSUME [Next]_vars
  PROVE  faults' = faults \/ (faults < MaxFaults /\ faults' = faults + 1)
BY DEF Next, OnOrderFilled, vars, Reprice, Enter, Keep, SavePrice,
       Tick, EndTick, OnKillSwitchEvent, EndLiquidation, Close, Fill, NoFill,
       OpenPosition, SaveOpened, SaveAgain, IgnoreFill, RecordTrade,
       ClosePosition, SaveClosed, CloseFails, ReducePosition, Trigger, Reset,
       Crash, Restart, RestartEmpty, SaveUpsert, SaveClose, DbFault

LEMMA NextCounters ==
  ASSUME TypeInv, Counters, [Next]_vars
  PROVE  Counters'
<1> USE DEF Counters, TypeInv, BookTypes, Goto, Proceed, Finish
<1>0. /\ MaxEvents \in Nat /\ MaxFaults \in Nat /\ MaxCrashes \in Nat
      /\ "liquidator" \in Tasks
  BY ConstantsOK, Basics
<1>f. faults' \in 0..MaxFaults
  BY <1>0, FaultStep
<1>1. ASSUME NEW s \in Symbols, Reprice(s) \/ Enter(s) \/ Keep(s)
      PROVE  Counters'
  BY <1>0, <1>f, <1>1 DEF Reprice, Enter, Keep, kill
<1>2. CASE SavePrice \/ Tick \/ EndTick
  BY <1>0, <1>f, <1>2 DEF SavePrice, Tick, EndTick, ListDone, kill
<1>3. CASE OnKillSwitchEvent
  BY <1>0, <1>f, <1>3 DEF OnKillSwitchEvent, MayBegin
<1>4. CASE EndLiquidation
  BY <1>0, <1>f, <1>4 DEF EndLiquidation, ListDone
<1>5. ASSUME NEW a \in Closers, NEW s \in Symbols, Close(a, s)
      PROVE  Counters'
  BY <1>0, <1>f, <1>5 DEF Close, kill
<1>6. ASSUME NEW a \in Tasks, Fill(a)
      PROVE  Counters'
  BY <1>0, <1>f, <1>6 DEF Fill
<1>7. ASSUME NEW a \in Tasks, NoFill(a)
      PROVE  Counters'
  BY <1>0, <1>f, <1>7 DEF NoFill
<1>8. ASSUME NEW a \in Tasks, OpenPosition(a) \/ RecordTrade(a)
                              \/ ClosePosition(a) \/ ReducePosition(a)
      PROVE  Counters'
  BY <1>0, <1>f, <1>8
  DEF OpenPosition, RecordTrade, ClosePosition, ReducePosition, kill
<1>9. ASSUME NEW a \in Tasks, SaveOpened(a) \/ SaveAgain(a) \/ SaveClosed(a)
                              \/ IgnoreFill(a)
      PROVE  Counters'
  BY <1>0, <1>f, <1>9 DEF SaveOpened, SaveAgain, SaveClosed, IgnoreFill, kill
<1>10. ASSUME NEW a \in Tasks, CloseFails(a)
       PROVE  Counters'
  BY <1>0, <1>f, <1>10 DEF CloseFails
<1>11. CASE Trigger \/ Reset \/ UNCHANGED vars
  BY <1>0, <1>f, <1>11 DEF Trigger, Reset, vars, tasks, kill
<1>12. CASE Crash
  BY <1>0, <1>f, <1>12 DEF Crash
<1>13. CASE Restart \/ RestartEmpty
  BY <1>0, <1>f, <1>13 DEF Restart, RestartEmpty, tasks, kill
<1> QED
  BY <1>1, <1>2, <1>3, <1>4, <1>5, <1>6, <1>7, <1>8, <1>9, <1>10, <1>11,
     <1>12, <1>13
  DEF Next, OnOrderFilled

LEMMA NextFlags ==
  ASSUME TypeInv, Flags, [Next]_vars
  PROVE  Flags'
<1> USE DEF Flags
<1>0. alone' \in Regimes
  BY FixedStays
<1>1. ASSUME NEW s \in Symbols, Reprice(s) \/ Enter(s) \/ Keep(s)
      PROVE  Flags'
  BY <1>0, <1>1 DEF Reprice, Enter, Keep, kill
<1>2. CASE SavePrice \/ Tick \/ EndTick \/ OnKillSwitchEvent
  BY <1>0, <1>2 DEF SavePrice, Tick, EndTick, OnKillSwitchEvent, kill
<1>4. CASE EndLiquidation
  BY <1>0, <1>4 DEF EndLiquidation
<1>5. ASSUME NEW a \in Closers, NEW s \in Symbols, Close(a, s)
      PROVE  Flags'
  BY <1>0, <1>5 DEF Close, kill
<1>6. ASSUME NEW a \in Tasks, Fill(a)
      PROVE  Flags'
  <2>1. flat' \in BOOLEAN
    BY <1>6, Zenon DEF Fill
  <2> QED
    BY <1>0, <1>6, <2>1 DEF Fill
<1>7. ASSUME NEW a \in Tasks, NoFill(a)
      PROVE  Flags'
  <2>1. flat' \in BOOLEAN
    BY <1>7, Zenon DEF NoFill
  <2> QED
    BY <1>0, <1>7, <2>1 DEF NoFill
<1>8. ASSUME NEW a \in Tasks, OpenPosition(a) \/ RecordTrade(a)
                              \/ ClosePosition(a) \/ ReducePosition(a)
      PROVE  Flags'
  BY <1>0, <1>8
  DEF OpenPosition, RecordTrade, ClosePosition, ReducePosition, kill
<1>9. ASSUME NEW a \in Tasks, SaveOpened(a) \/ SaveAgain(a) \/ SaveClosed(a)
                              \/ IgnoreFill(a)
      PROVE  Flags'
  BY <1>0, <1>9 DEF SaveOpened, SaveAgain, SaveClosed, IgnoreFill, kill
<1>10. ASSUME NEW a \in Tasks, CloseFails(a)
       PROVE  Flags'
  BY <1>0, <1>10 DEF CloseFails
<1>11. CASE Trigger \/ Reset \/ UNCHANGED vars
  BY <1>0, <1>11 DEF Trigger, Reset, vars, tasks, kill
<1>12. CASE Crash
  <2>1. torn' \in BOOLEAN
    BY <1>12, Zenon DEF Crash
  <2> QED
    BY <1>0, <1>12, <2>1 DEF Crash
<1>13. CASE Restart \/ RestartEmpty
  BY <1>0, <1>13 DEF Restart, RestartEmpty, tasks, kill
<1> QED
  BY <1>1, <1>2, <1>4, <1>5, <1>6, <1>7, <1>8, <1>9, <1>10, <1>11,
     <1>12, <1>13
  DEF Next, OnOrderFilled

LEMMA NextFilledPart ==
  ASSUME TypeInv, FilledPart, [Next]_vars
  PROVE  FilledPart'
<1>  USE Basics DEF FilledPart, TypeInv, BookTypes, WorkTypes, OrderRecords
<1>0. \A a \in Tasks : order[a] \in OrderRecords
  OBVIOUS
<1>n. NoOrder.filled = 0 /\ NoOrder.qty = 0
  BY DEF NoOrder
<1>1. ASSUME NEW s \in Symbols, Reprice(s) \/ Keep(s)
      PROVE  FilledPart'
  <2>1. \/ order' = order
        \/ order' = [order EXCEPT !["orchestrator"].symbol = s]
    BY <1>1 DEF Reprice, Keep
  <2>2. \A a \in Tasks : order'[a].filled = order[a].filled
                         /\ order'[a].qty = order[a].qty
    BY <1>0, <2>1
  <2> QED
    BY <2>2
<1>3. ASSUME NEW s \in Symbols, Enter(s)
      PROVE  FilledPart'
  <2>1. PICK o : /\ o.filled = 0 /\ o.qty = Lots
                 /\ order' = [order EXCEPT !["orchestrator"] = o]
    BY <1>3 DEF Enter
  <2> QED
    BY <2>1
<1>2. CASE Tick \/ EndTick \/ OnKillSwitchEvent \/ EndLiquidation
  BY <1>2 DEF Tick, EndTick, OnKillSwitchEvent, EndLiquidation
<1>4. CASE SavePrice
  BY <1>n, <1>4 DEF SavePrice, Finish
<1>5. ASSUME NEW a \in Closers, NEW s \in Symbols, Close(a, s)
      PROVE  FilledPart'
  <2>1. todo[a][s] \in Position
    BY <1>5 DEF Close, Maybe
  <2> QED
    BY <1>5, <2>1 DEF Close, Position
<1>6. ASSUME NEW a \in Tasks, Fill(a)
      PROVE  FilledPart'
  BY <1>6 DEF Fill, Fillable
<1>7. ASSUME NEW a \in Tasks, NoFill(a) \/ SaveAgain(a) \/ SaveClosed(a)
                              \/ IgnoreFill(a) \/ CloseFails(a)
      PROVE  FilledPart'
  BY <1>n, <1>7 DEF NoFill, SaveAgain, SaveClosed, IgnoreFill, CloseFails,
                    Proceed, Finish
<1>8. ASSUME NEW a \in Tasks, OpenPosition(a) \/ RecordTrade(a)
                              \/ ClosePosition(a) \/ ReducePosition(a)
      PROVE  FilledPart'
  BY <1>8
  DEF OpenPosition, RecordTrade, ClosePosition, ReducePosition
<1>9. ASSUME NEW a \in Tasks, SaveOpened(a)
      PROVE  FilledPart'
  BY <1>n, <1>9 DEF SaveOpened, Proceed, Finish
<1>11. CASE Trigger \/ Reset \/ UNCHANGED vars \/ Restart \/ RestartEmpty
  BY <1>11 DEF Trigger, Reset, vars, tasks, Restart, RestartEmpty
<1>12. CASE Crash
  BY <1>n, <1>12 DEF Crash
<1> QED
  BY <1>1, <1>2, <1>3, <1>4, <1>5, <1>6, <1>7, <1>8, <1>9, <1>11, <1>12
  DEF Next, OnOrderFilled

\* The table keeps its ids apart: a new row has an id that no row has.
LEMMA UpsertIds ==
  ASSUME TypeInv, Ids, NEW s \in Symbols, NEW p \in Position, p.id <= opens,
         Upsert(s, p), OneOpenRow
  PROVE  /\ \A r \in rows' : r.position.id <= opens
         /\ \A q, r \in rows' : q.position.id = r.position.id => q = r
<1> DEFINE old == {r \in rows : r.open /\ r.symbol = s}
           new == {Row(s, [p EXCEPT !.id = r.position.id]) : r \in old}
<1>u. rows' = IF old # {} THEN (rows \ old) \cup new
              ELSE IF \E r \in rows : r.position.id = p.id THEN rows
              ELSE rows \cup {Row(s, p)}
  BY DEF Upsert
<1>r. Row(s, p).position = p
  BY DEF Row
<1>1. CASE old = {}
  <2>1. \/ rows' = rows
        \/ /\ rows' = rows \cup {Row(s, p)}
           /\ \A r \in rows : r.position.id # p.id
    <3> HIDE DEF old, new
    <3> QED
      BY <1>u, <1>1
  <2> QED
    BY <2>1, <1>r DEF Ids
<1>2. ASSUME NEW o \in old
      PROVE  /\ \A r \in rows' : r.position.id <= opens
             /\ \A q, r \in rows' : q.position.id = r.position.id => q = r
  <2> DEFINE row == Row(s, [p EXCEPT !.id = o.position.id])
  <2>1. old = {o}
    BY <1>2 DEF OneOpenRow
  <2>2. rows' = (rows \ {o}) \cup {row}
    <3>1. new = {row}
      BY <2>1
    <3> HIDE DEF old, new
    <3> QED
      BY <1>u, <2>1, <3>1
  <2>3. row.position.id = o.position.id
    BY DEF Row, Position
  <2>4. o \in rows
    BY <1>2
  <2> HIDE DEF row
  <2> QED
    BY <2>2, <2>3, <2>4 DEF Ids
<1> QED
  BY <1>1, <1>2

\* Closing a row keeps its id.
LEMMA CloseRowIds ==
  ASSUME TypeInv, Ids, NEW id, CloseRow(id)
  PROVE  /\ \A r \in rows' : r.position.id <= opens
         /\ \A q, r \in rows' : q.position.id = r.position.id => q = r
<1>1. \A r \in rows : r \in RowRecords
  BY DEF TypeInv, BookTypes
<1>2. \A r \in rows' : \E q \in rows :
         /\ r.position = q.position
         /\ r = IF q.position.id = id THEN [q EXCEPT !.open = FALSE] ELSE q
  BY <1>1 DEF CloseRow, RowRecords
<1>3. ASSUME NEW q \in rows', NEW r \in rows', q.position.id = r.position.id
      PROVE  q = r
  <2>1. PICK q1 \in rows :
         /\ q.position = q1.position
         /\ q = IF q1.position.id = id THEN [q1 EXCEPT !.open = FALSE] ELSE q1
    BY <1>2
  <2>2. PICK r1 \in rows :
         /\ r.position = r1.position
         /\ r = IF r1.position.id = id THEN [r1 EXCEPT !.open = FALSE] ELSE r1
    BY <1>2
  <2>3. q1 = r1
    BY <1>3, <2>1, <2>2 DEF Ids
  <2> QED
    BY <2>1, <2>2, <2>3
<1> QED
  BY <1>2, <1>3 DEF Ids

LEMMA NextRowIds ==
  ASSUME TypeInv, Ids, OneOpenRow, [Next]_vars
  PROVE  /\ \A r \in rows' : r.position.id <= opens
         /\ \A q, r \in rows' : q.position.id = r.position.id => q = r
<1>1. CASE rows' = rows
  BY <1>1 DEF Ids
<1>2. ASSUME NEW id, CloseRow(id)
      PROVE  /\ \A r \in rows' : r.position.id <= opens
             /\ \A q, r \in rows' : q.position.id = r.position.id => q = r
  BY <1>2, CloseRowIds
<1>3. ASSUME NEW a \in Tasks, NEW s \in Symbols, mine[a] \in Position,
             Upsert(s, mine[a])
      PROVE  /\ \A r \in rows' : r.position.id <= opens
             /\ \A q, r \in rows' : q.position.id = r.position.id => q = r
  BY <1>3, UpsertIds DEF Ids
<1>4. \/ rows' = rows
      \/ \E id : CloseRow(id)
      \/ \E a \in Tasks, s \in Symbols :
           mine[a] \in Position /\ Upsert(s, mine[a])
  BY RowsStep
<1> QED
  BY <1>1, <1>2, <1>3, <1>4

LEMMA NextIds ==
  ASSUME TypeInv, Ids, OneOpenRow, [Next]_vars
  PROVE  Ids'
<1> USE Basics DEF TypeInv, BookTypes, WorkTypes
<1>0. NoPosition.id = 0 /\ NoPosition.id <= opens
  BY DEF NoPosition
<1>r. /\ opens' \in Nat /\ opens' >= opens
      /\ \A r \in rows : r.position.id \in Nat
      /\ \A s \in Symbols : positions[s].id \in Nat
      /\ \A a \in Tasks : mine[a].id \in Nat
  <2>1. opens' = opens \/ opens' = opens + 1
    BY DEF Next, OnOrderFilled, vars, books, Reprice, Enter, Keep, SavePrice,
       Tick, EndTick, OnKillSwitchEvent, EndLiquidation, Close, Fill, NoFill,
       OpenPosition, SaveOpened, SaveAgain, IgnoreFill, RecordTrade,
       ClosePosition, SaveClosed, CloseFails, ReducePosition, Trigger, Reset,
       Crash, Restart, RestartEmpty
  <2>2. \A p \in Maybe : p.id \in Nat
    BY <1>0 DEF Maybe, Position
  <2>3. \A r \in rows : r.position \in Maybe
    BY DEF RowRecords, Maybe
  <2> QED
    BY <2>1, <2>2, <2>3
<1> DEFINE Kept == /\ \A s \in Symbols : positions'[s].id <= opens'
                   /\ \A a \in Tasks : mine'[a].id <= opens'
<1>s. ASSUME Kept PROVE Ids'
  <2>1. /\ \A r \in rows' : r.position.id <= opens
        /\ \A q, r \in rows' : q.position.id = r.position.id => q = r
    BY NextRowIds
  <2>2. \A r \in rows' : r.position.id \in Nat
    BY RowsKeepType DEF RowRecords, Position
  <2> QED
    BY <1>s, <1>r, <2>1, <2>2 DEF Ids
<1>1. ASSUME NEW s \in Symbols, Reprice(s) \/ Enter(s) \/ Keep(s)
      PROVE  Kept
  BY <1>1, <1>r DEF Reprice, Enter, Keep, books, Ids
<1>2. ASSUME Tick \/ EndTick \/ OnKillSwitchEvent \/ EndLiquidation
      PROVE  Kept
  BY <1>2, <1>r DEF Tick, EndTick, OnKillSwitchEvent, EndLiquidation, books,
                    Ids
<1>k. ASSUME positions' = positions, opens' = opens,
             \A a \in Tasks : mine'[a] \in {mine[a], NoPosition}
      PROVE  Kept
  BY <1>k, <1>0, <1>r DEF Ids
<1>4. ASSUME SavePrice
      PROVE  Kept
  <2>1. /\ positions' = positions /\ opens' = opens
        /\ mine' = [mine EXCEPT !["orchestrator"] = NoPosition]
    BY <1>4 DEF SavePrice, Finish, books
  <2>2. \A a \in Tasks : mine'[a] \in {mine[a], NoPosition}
    BY <2>1
  <2> HIDE DEF Kept
  <2> QED
    BY <1>k, <2>1, <2>2
<1>5. ASSUME NEW a \in Closers, NEW s \in Symbols, Close(a, s)
      PROVE  Kept
  BY <1>5, <1>r DEF Close, books, Ids
<1>6. ASSUME NEW a \in Tasks, Fill(a)
      PROVE  Kept
  BY <1>6, <1>r DEF Fill, books, Ids
<1>7. ASSUME NEW a \in Tasks, NoFill(a) \/ SaveAgain(a) \/ SaveClosed(a)
                              \/ IgnoreFill(a) \/ CloseFails(a)
      PROVE  Kept
  BY <1>0, <1>r, <1>7
  DEF NoFill, SaveAgain, SaveClosed, IgnoreFill, CloseFails, Proceed, Finish,
      books, Ids
<1>8. ASSUME NEW a \in Tasks, OpenPosition(a)
      PROVE  Kept
  <2>1. PICK p : /\ p.id = opens + 1
                 /\ positions' = [positions EXCEPT ![order[a].symbol] = p]
                 /\ mine' = [mine EXCEPT ![a] = p]
                 /\ opens' = opens + 1
    BY <1>8 DEF OpenPosition
  <2> QED
    BY <1>r, <2>1 DEF Ids
<1>9. ASSUME NEW a \in Tasks, SaveOpened(a)
      PROVE  Kept
  <2> DEFINE guarded == [mine[a] EXCEPT !.guarded = TRUE]
  <2>1. guarded.id = mine[a].id
    BY <1>9 DEF SaveOpened, Position
  <2>2. \/ /\ positions' = [positions EXCEPT ![order[a].symbol] = guarded]
           /\ mine' = [mine EXCEPT ![a] = guarded]
        \/ /\ mine' = [mine EXCEPT ![a] = NoPosition]
           /\ positions' = positions
    BY <1>9 DEF SaveOpened, Proceed, Finish
  <2> HIDE DEF guarded
  <2>3. opens' = opens
    BY <1>9 DEF SaveOpened
  <2> QED
    BY <1>0, <1>r, <2>1, <2>2, <2>3 DEF Ids
<1>10. ASSUME NEW a \in Tasks, RecordTrade(a) \/ ClosePosition(a)
       PROVE  Kept
  BY <1>0, <1>r, <1>10 DEF RecordTrade, ClosePosition, books, Ids
<1>14. ASSUME NEW a \in Tasks, ReducePosition(a)
       PROVE  Kept
  <2> DEFINE rest == [mine[a] EXCEPT !.qty = @ - order[a].filled]
  <2>1. rest.id = mine[a].id
    BY <1>14 DEF ReducePosition, Position
  <2>2. /\ positions' = [positions EXCEPT ![order[a].symbol] = rest]
        /\ mine' = [mine EXCEPT ![a] = rest]
        /\ opens' = opens
    BY <1>14 DEF ReducePosition
  <2> HIDE DEF rest
  <2> QED
    BY <1>r, <2>1, <2>2 DEF Ids
<1>11. ASSUME Trigger \/ Reset \/ UNCHANGED vars \/ RestartEmpty
      PROVE  Kept
  <2>1. positions' = positions /\ opens' = opens /\ mine' = mine
    BY <1>11 DEF Trigger, Reset, vars, tasks, books, RestartEmpty
  <2> HIDE DEF Kept
  <2> QED
    BY <1>k, <2>1
<1>12. ASSUME Crash
      PROVE  Kept
  BY <1>0, <1>r, <1>12 DEF Crash, NoPositions, Ids
<1>13. ASSUME Restart
      PROVE  Kept
  <2>1. \A s \in Symbols : \/ positions'[s] = NoPosition
                           \/ \E r \in rows : positions'[s] = r.position
    BY <1>13 DEF Restart
  <2>2. mine' = mine /\ opens' = opens
    BY <1>13 DEF Restart, tasks
  <2>3. ASSUME NEW s \in Symbols PROVE positions'[s].id <= opens
    <3>1. ASSUME NEW r \in rows, positions'[s] = r.position
          PROVE  positions'[s].id <= opens
      BY <3>1 DEF Ids
    <3> QED
      BY <1>0, <2>1, <3>1
  <2>4. \A a \in Tasks : mine'[a].id <= opens
    BY <2>2 DEF Ids
  <2> QED
    BY <2>2, <2>3, <2>4
<1> QED
  <2> HIDE DEF Kept
  <2> QED
    BY <1>s, <1>1, <1>2, <1>4, <1>5, <1>6, <1>7, <1>8, <1>9, <1>10, <1>11,
       <1>12, <1>13, <1>14
    DEF Next, OnOrderFilled

-----------------------------------------------------------------------------
(* Cash *)

\* What the held positions are worth, in lots: the sum of ValueConserved.
Worth(held) == SumFunction([s \in Symbols |-> Signed(held[s])])

\* Cash and positions balance; a worker that is down has neither.
CashInv ==
  /\ cash \in Int
  /\ ~up => positions = NoPositions /\ cash = 0

LEMMA SignedType == \A p \in Maybe : Signed(p) \in Int
BY Basics DEF Maybe, Position, Signed

LEMMA WorthType ==
  ASSUME NEW held, \A s \in Symbols : Signed(held[s]) \in Int
  PROVE  Worth(held) \in Int
<1> DEFINE f == [s \in Symbols |-> Signed(held[s])]
<1>1. \A s \in Symbols : f[s] \in Int
  OBVIOUS
<1>2. DOMAIN f = Symbols
  OBVIOUS
<1> HIDE DEF f
<1>3. SumFunctionOnSet(f, Symbols) \in Int
  BY <1>1, SumType, ConstantsOK
<1> QED BY <1>2, <1>3 DEF Worth, SumFunction, f

LEMMA WorthSame ==
  ASSUME NEW old, NEW new,
         \A s \in Symbols : Signed(new[s]) = Signed(old[s])
  PROVE  Worth(new) = Worth(old)
<1>1. [s \in Symbols |-> Signed(new[s])] = [s \in Symbols |-> Signed(old[s])]
  OBVIOUS
<1> QED BY <1>1 DEF Worth

\* One position is replaced.
LEMMA WorthUpdate ==
  ASSUME NEW old, NEW new, NEW s \in Symbols,
         \A t \in Symbols : Signed(old[t]) \in Int /\ Signed(new[t]) \in Int,
         \A t \in Symbols : t # s => new[t] = old[t]
  PROVE  Worth(new) = Worth(old) - Signed(old[s]) + Signed(new[s])
<1> DEFINE f == [t \in Symbols |-> Signed(old[t])]
           g == [t \in Symbols |-> Signed(new[t])]
<1>1. /\ \A t \in Symbols : f[t] \in Int /\ g[t] \in Int
      /\ \A t \in Symbols : t # s => f[t] = g[t]
      /\ f[s] = Signed(old[s]) /\ g[s] = Signed(new[s])
  OBVIOUS
<1>2. DOMAIN f = Symbols /\ DOMAIN g = Symbols
  OBVIOUS
<1> HIDE DEF f, g
<1>3. SumFunctionOnSet(g, Symbols) = SumFunctionOnSet(f, Symbols) - f[s] + g[s]
  BY <1>1, SumUpdate, ConstantsOK
<1> QED BY <1>1, <1>2, <1>3 DEF Worth, SumFunction, f, g

LEMMA WorthNothing == Worth(NoPositions) = 0
<1> DEFINE f == [s \in Symbols |-> Signed(NoPositions[s])]
<1>1. DOMAIN f = Symbols /\ \A s \in Symbols : f[s] = 0
  BY Basics DEF NoPositions
<1> HIDE DEF f
<1>2. SumFunctionOnSet(f, Symbols) = 0
  BY <1>1, SumZero, ConstantsOK
<1> QED BY <1>1, <1>2 DEF Worth, SumFunction, f

LEMMA InitCash == Init => CashInv /\ cash + Worth(positions) = 0
<1> SUFFICES ASSUME Init PROVE CashInv /\ cash + Worth(positions) = 0
  OBVIOUS
<1>1. net = [s \in Symbols |-> Signed(positions[s])]
  BY DEF Init
<1>2. cash = -Worth(positions)
  BY <1>1 DEF Init, Worth
<1>3. Worth(positions) \in Int
  BY InitTypeInv, SignedType, WorthType DEF TypeInv, BookTypes
<1> QED
  BY <1>2, <1>3 DEF CashInv, Init

LEMMA NextCashInv ==
  ASSUME TypeInv, CashInv, [Next]_vars
  PROVE  CashInv'
<1> USE Basics DEF CashInv, TypeInv, BookTypes, WorkTypes, Roles
<1>1. ASSUME NEW s \in Symbols, Reprice(s) \/ Enter(s) \/ Keep(s)
      PROVE  CashInv'
  BY <1>1 DEF Reprice, Enter, Keep, books
<1>2. CASE Tick \/ EndTick \/ OnKillSwitchEvent \/ EndLiquidation
           \/ SavePrice
  BY <1>2 DEF Tick, EndTick, OnKillSwitchEvent, EndLiquidation, SavePrice,
              books
<1>3. ASSUME NEW a \in Closers, NEW s \in Symbols, Close(a, s)
      PROVE  CashInv'
  BY <1>3 DEF Close, books
<1>4. ASSUME NEW a \in Tasks,
             \/ Fill(a) \/ NoFill(a) \/ SaveAgain(a) \/ SaveClosed(a)
             \/ IgnoreFill(a) \/ CloseFails(a) \/ RecordTrade(a)
      PROVE  CashInv'
  BY <1>4 DEF Fill, NoFill, SaveAgain, SaveClosed, IgnoreFill, CloseFails,
              RecordTrade, books
<1>5. ASSUME NEW a \in Tasks, pc[a] # "idle", cash' \in Int, up' = up
      PROVE  CashInv'
  BY <1>5
<1>6. ASSUME NEW a \in Tasks,
             SaveOpened(a) \/ OpenPosition(a) \/ ClosePosition(a)
      PROVE  CashInv'
  <2>1. \A p \in Maybe : Signed(p) \in Int
    BY SignedType
  <2>2. ASSUME OpenPosition(a) PROVE cash' \in Int
    <3>1. PICK p : /\ p.side = order[a].side /\ p.qty = order[a].filled
                   /\ cash' = cash - Signed(p)
      BY <2>2 DEF OpenPosition
    <3>2. Signed(p) \in Int
      BY <2>2, <3>1 DEF OpenPosition, Signed
    <3> QED
      BY <3>1, <3>2
  <2>3. cash' \in Int
    BY <1>6, <2>1, <2>2 DEF SaveOpened, ClosePosition
  <2>4. pc[a] # "idle" /\ up' = up
    BY <1>6 DEF SaveOpened, OpenPosition, ClosePosition
  <2> QED
    BY <1>5, <2>3, <2>4
<1>7. ASSUME NEW a \in Tasks, ReducePosition(a)
      PROVE  CashInv'
  <2>1. pc[a] = "traded" /\ up' = up
        /\ cash' = cash + mine[a].side * order[a].filled
    BY <1>7 DEF ReducePosition
  <2>2. mine[a].side * order[a].filled \in Int
    BY <2>1 DEF Position
  <2> QED
    BY <1>5, <2>1, <2>2
<1>8. CASE Trigger \/ Reset \/ UNCHANGED vars
  BY <1>8 DEF Trigger, Reset, vars, books
<1>9. CASE Crash
  BY <1>9 DEF Crash
<1>10. CASE Restart
  <2>1. \A s \in Symbols : Signed(positions'[s]) \in Int
    BY NextTypeInv, SignedType
  <2>2. cash' = -Worth(positions')
    BY <1>10 DEF Restart, Worth
  <2>3. Worth(positions') \in Int
    BY <2>1, WorthType
  <2> QED
    BY <1>10, <2>2, <2>3 DEF Restart
<1>11. CASE RestartEmpty
  BY <1>11 DEF RestartEmpty, books
<1> QED
  BY <1>1, <1>2, <1>3, <1>4, <1>6, <1>7, <1>8, <1>9, <1>10, <1>11
  DEF Next, OnOrderFilled

\* Cash and positions of a running worker.
Balanced == up => cash + Worth(positions) = 0

LEMMA NextBalanced ==
  ASSUME TypeInv, BooksInv, CashInv, Balanced, [Next]_vars
  PROVE  Balanced'
<1> USE Basics DEF TypeInv, BookTypes, WorkTypes, Roles
<1>t. /\ \A s \in Symbols : /\ Signed(positions[s]) \in Int
                            /\ Signed(positions'[s]) \in Int
      /\ Worth(positions) \in Int
      /\ cash \in Int /\ cash' \in Int
  BY NextTypeInv, SignedType, WorthType, NextCashInv DEF CashInv
<1>k. ASSUME cash' = cash, positions' = positions, up' => up
      PROVE  Balanced'
  <2>1. Worth(positions') = Worth(positions)
    BY <1>k
  <2>2. up' => cash' + Worth(positions') = 0
    BY <1>k, <2>1 DEF Balanced
  <2> QED
    BY <2>2 DEF Balanced
<1>u. ASSUME NEW s \in Symbols,
             \A t \in Symbols : t # s => positions'[t] = positions[t],
             cash' = cash + Signed(positions[s]) - Signed(positions'[s]),
             up' => up
      PROVE  Balanced'
  <2>1. Worth(positions') =
          Worth(positions) - Signed(positions[s]) + Signed(positions'[s])
    <3>1. PICK old, new : old = positions /\ new = positions'
      OBVIOUS
    <3>2. /\ \A t \in Symbols : /\ Signed(old[t]) \in Int
                                /\ Signed(new[t]) \in Int
          /\ \A t \in Symbols : t # s => new[t] = old[t]
      BY <1>t, <1>u, <3>1
    <3>3. Worth(new) = Worth(old) - Signed(old[s]) + Signed(new[s])
      <4> HIDE Basics DEF TypeInv, BookTypes, WorkTypes, Roles
      <4> QED
        BY <3>2, WorthUpdate
    <3>4. Worth(new) = Worth(positions')
      BY <3>1
    <3>5. Worth(old) = Worth(positions)
      BY <3>1
    <3>6. Signed(old[s]) = Signed(positions[s])
      BY <3>1
    <3>7. Signed(new[s]) = Signed(positions'[s])
      BY <3>1
    <3> QED
      BY <3>3, <3>4, <3>5, <3>6, <3>7
  <2>2. ASSUME up' PROVE cash' + Worth(positions') = 0
    <3>1. cash + Worth(positions) = 0
      BY <1>u, <2>2 DEF Balanced
    <3> DEFINE w == Worth(positions)
               v == Worth(positions')
               p == Signed(positions[s])
               q == Signed(positions'[s])
    <3>2. /\ w \in Int /\ p \in Int /\ q \in Int /\ cash \in Int
          /\ v = w - p + q /\ cash' = cash + p - q /\ cash + w = 0
      BY <1>t, <1>u, <2>1, <3>1
    <3> HIDE DEF w, v, p, q
    <3>3. cash' + v = 0
      BY <3>2
    <3> QED
      BY <3>3 DEF v
  <2> QED
    BY <2>2 DEF Balanced
<1>1. ASSUME NEW s \in Symbols, Reprice(s) \/ Enter(s) \/ Keep(s)
      PROVE  Balanced'
  BY <1>1, <1>k DEF Reprice, Enter, Keep, books
<1>2. CASE Tick \/ EndTick \/ OnKillSwitchEvent \/ EndLiquidation
           \/ SavePrice
  BY <1>2, <1>k DEF Tick, EndTick, OnKillSwitchEvent, EndLiquidation,
                    SavePrice, books
<1>3. ASSUME NEW a \in Closers, NEW s \in Symbols, Close(a, s)
      PROVE  Balanced'
  BY <1>3, <1>k DEF Close, books
<1>4. ASSUME NEW a \in Tasks,
             \/ Fill(a) \/ NoFill(a) \/ SaveAgain(a) \/ SaveClosed(a)
             \/ IgnoreFill(a) \/ CloseFails(a) \/ RecordTrade(a)
      PROVE  Balanced'
  BY <1>4, <1>k DEF Fill, NoFill, SaveAgain, SaveClosed, IgnoreFill,
                    CloseFails, RecordTrade, books
<1>5. ASSUME NEW a \in Tasks, OpenPosition(a)
      PROVE  Balanced'
  <2>0. PICK s \in Symbols : \E p :
          /\ positions[s] = NoPosition
          /\ positions' = [positions EXCEPT ![s] = p]
          /\ cash' = cash - Signed(p)
          /\ up' = up
    BY <1>5 DEF OpenPosition
  <2>1. PICK p : /\ positions[s] = NoPosition
                 /\ positions' = [positions EXCEPT ![s] = p]
                 /\ cash' = cash - Signed(p)
                 /\ up' = up
    BY <2>0
  <2>2. Signed(p) \in Int
    BY <1>t, <2>1
  <2> QED
    BY <1>t, <1>u, <2>1, <2>2
<1>6. ASSUME NEW a \in Tasks, SaveOpened(a)
      PROVE  Balanced'
  <2>1. a = "orchestrator" /\ positions[order[a].symbol] = mine[a]
    BY <1>6 DEF SaveOpened, Tasks, Closers, BooksInv, Closing, Entering
  <2>2. \A s \in Symbols : Signed(positions'[s]) = Signed(positions[s])
    <3>1. \/ positions' = positions
          \/ positions' = [positions EXCEPT ![order[a].symbol] =
                             [mine[a] EXCEPT !.guarded = TRUE]]
      BY <1>6 DEF SaveOpened
    <3>2. Signed([mine[a] EXCEPT !.guarded = TRUE]) = Signed(mine[a])
      BY <1>6 DEF SaveOpened, Signed, Position
    <3> QED
      BY <2>1, <3>1, <3>2
  <2>3. Worth(positions') = Worth(positions)
    BY <2>2, WorthSame
  <2> QED
    BY <1>6, <2>3 DEF SaveOpened, Balanced
<1>7. ASSUME NEW a \in Tasks, ClosePosition(a) \/ ReducePosition(a)
      PROVE  Balanced'
  <2>1. PICK s \in Symbols, p \in Maybe :
          s = order[a].symbol /\ p = positions[s]
    BY <1>7 DEF ClosePosition, ReducePosition
  <2>2. /\ a \in Closers /\ Working(a, s)
        /\ p \in Position /\ mine[a] = p
        /\ order[a] \in OrderRecords
        /\ order[a].side = -p.side
        /\ order[a].filled \in 1..p.qty
        /\ up' = up
    BY <1>7, <2>1 DEF ClosePosition, ReducePosition, Tasks, Closers, BooksInv,
                      Closing, Entering, Working, Maybe
  <2>3. CASE ClosePosition(a)
    <3>1. /\ positions' = [positions EXCEPT ![s] = NoPosition]
          /\ cash' = cash + Signed(p)
      BY <2>1, <2>2, <2>3 DEF ClosePosition
    <3> QED
      BY <1>t, <1>u, <2>1, <2>2, <3>1
  <2>4. CASE ReducePosition(a)
    <3> DEFINE rest == [p EXCEPT !.qty = @ - order[a].filled]
    <3>1. /\ positions' = [positions EXCEPT ![s] = rest]
          /\ cash' = cash + p.side * order[a].filled
      BY <2>1, <2>2, <2>4 DEF ReducePosition
    <3>2. Signed(rest) = Signed(p) + Delta(order[a])
      BY <2>2, FillReduces
    <3>3. /\ Delta(order[a]) \in Int
          /\ p.side * order[a].filled = -Delta(order[a])
      <4>1. p.side = 1 \/ p.side = -1
        BY <2>2 DEF Position
      <4> QED
        BY <2>2, <4>1 DEF Delta, OrderRecords
    <3> HIDE DEF rest
    <3>4. /\ \A t \in Symbols : t # s => positions'[t] = positions[t]
          /\ positions'[s] = rest
      BY <3>1
    <3>5. cash' = cash + Signed(positions[s]) - Signed(positions'[s])
      BY <1>t, <2>1, <3>1, <3>2, <3>3, <3>4
    <3> QED
      BY <1>u, <2>2, <3>4, <3>5
  <2> QED
    BY <1>7, <2>3, <2>4
<1>8. CASE Trigger \/ Reset \/ UNCHANGED vars
  BY <1>8, <1>k DEF Trigger, Reset, vars, books
<1>9. CASE Crash
  BY <1>9 DEF Crash, Balanced
<1>10. CASE Restart
  <2>1. cash' = -Worth(positions')
    BY <1>10 DEF Restart, Worth
  <2>2. Worth(positions') \in Int
    BY <1>t, WorthType
  <2> QED
    BY <2>1, <2>2 DEF Balanced
<1>11. CASE RestartEmpty
  <2>1. positions' = NoPositions /\ cash' = 0
    BY <1>11 DEF RestartEmpty, CashInv, books
  <2> QED
    BY <2>1, WorthNothing DEF Balanced
<1> QED
  BY <1>1, <1>2, <1>3, <1>4, <1>5, <1>6, <1>7, <1>8, <1>9, <1>10, <1>11
  DEF Next, OnOrderFilled

LEMMA InitRest == Init => Counters /\ Ids /\ Flags /\ FilledPart
<1> SUFFICES ASSUME Init PROVE Counters /\ Ids /\ Flags /\ FilledPart
  OBVIOUS
<1>1. Counters
  BY ConstantsOK, Basics DEF Init, Counters
<1>2. Flags /\ FilledPart
  <2>1. NoOrder.filled <= NoOrder.qty
    BY DEF NoOrder
  <2>2. \A a \in Tasks : order[a] = NoOrder
    BY DEF Init
  <2> QED
    BY <2>1, <2>2 DEF Init, Flags, FilledPart
<1>3. Ids
  <2> DEFINE n == Cardinality(Symbols)
             id == CHOOSE f \in [Symbols -> 1..n] :
                     \A s, t \in Symbols : f[s] = f[t] => s = t
  <2>1. n \in Nat
    BY ConstantsOK, FS_CardinalityType
  <2>2. /\ id \in [Symbols -> 1..n]
        /\ \A s, t \in Symbols : id[s] = id[t] => s = t
    BY FreshIds
  <2>3. PICK held \in SUBSET Symbols, d \in {1, -1} :
          positions = [s \in Symbols |->
            IF s \in held THEN [id |-> id[s], side |-> d, qty |-> Lots,
                                guarded |-> TRUE]
            ELSE NoPosition]
    BY DEF Init
  <2> HIDE DEF id
  <2>4. /\ \A s \in Symbols : positions[s].id \in 0..n
        /\ \A s \in Symbols : positions[s] # NoPosition =>
                              positions[s].id = id[s]
    BY <2>1, <2>2, <2>3 DEF NoPosition
  <2>5. \A r \in rows : \E s \in Symbols :
          r = Row(s, positions[s]) /\ positions[s] # NoPosition
    BY DEF Init, BookRows
  <2>6. \A s \in Symbols : Row(s, positions[s]).position = positions[s]
    BY DEF Row
  <2>7. \A q, r \in rows : q.position.id = r.position.id => q = r
    BY <2>2, <2>4, <2>5, <2>6
  <2>8. opens = n /\ \A a \in Tasks : mine[a].id = 0
    BY DEF Init, NoPosition
  <2> QED
    BY <2>1, <2>4, <2>5, <2>6, <2>7, <2>8 DEF Ids
<1> QED
  BY <1>1, <1>2, <1>3

\* The books, the table and the tasks keep their types, the ids are given out
\* once, the attempts and failures stay within their bounds, and an order is
\* never filled by more than it asked for.
THEOREM PositionsTyped == Spec => []TypeOK
<1> DEFINE Inv == /\ TypeInv /\ OneOpenRow /\ Counters /\ Ids /\ Flags
                  /\ FilledPart /\ CashInv
<1>1. Init => Inv
  BY InitTypeInv, InitOneOpenRow, InitRest, InitCash
<1>2. Inv /\ [Next]_vars => Inv'
  BY NextTypeInv, NextOneOpenRow, NextCounters, NextIds, NextFlags,
     NextFilledPart, NextCashInv
<1>3. Inv => TypeOK
  BY DEF TypeInv, BookTypes, Counters, Ids, Flags, FilledPart, CashInv,
         TypeOK, Maybe, RowRecords
<1> QED
  BY <1>1, <1>2, <1>3, PTL DEF Spec

\* Cash and positions balance in every running worker whose emergency close
\* runs undisturbed: an entry, a close, a reduction and a restore book the
\* same quantity on both sides, because what a closer lists is what the books
\* hold when its fill is booked (BooksInv).
THEOREM BooksBalance == Spec => []ValueConserved
<1> DEFINE Inv == /\ TypeInv /\ CashInv
                  /\ Undisturbed => BooksInv /\ Balanced
<1>1. Init => Inv
  BY InitTypeInv, InitBooks, InitCash DEF Balanced
<1>2. Inv /\ [Next]_vars => Inv'
  BY NextTypeInv, NextBooks, NextCashInv, NextBalanced, FixedStays
     DEF Undisturbed
<1>3. Inv => ValueConserved
  BY DEF ValueConserved, Balanced, Worth
<1> QED
  BY <1>1, <1>2, <1>3, PTL DEF Spec

=============================================================================
