----------------------------- MODULE GridProofs -----------------------------
(***************************************************************************)
(* Of the grids of a symbol at most one is active, across restarts, and    *)
(* the books of a grid are true: net quantity, levels and ledger agree     *)
(* with what the exchange holds, a closed grid is flat, and a restart      *)
(* brings exposure back.  For the first only rows and ledgers matter: they *)
(* decide which grids a restart brings back.  For the books: between the   *)
(* exchange's answer and its booking a fill is in flight with one task;    *)
(* booking it moves it from there into all three books; and on a grid that *)
(* no close raced nobody else is at work, so a closing order is for just   *)
(* what its level holds and a close leaves nothing behind the level it has *)
(* come to.                                                                *)
(***************************************************************************)
EXTENDS Grid, FoldTheorems

-----------------------------------------------------------------------------
(* One active grid *)

\* The form of grids, rows and tasks, whatever their fields hold.
IsGrid(b) == b = [status |-> b.status, dir |-> b.dir, held |-> b.held,
                  net |-> b.net, price |-> b.price]

IsTask(r) == r = [at |-> r.at, grid |-> r.grid, next |-> r.next,
                  price |-> r.price, level |-> r.level,
                  opening |-> r.opening, qty |-> r.qty, got |-> r.got,
                  todo |-> r.todo]

GridShape ==
  /\ grid = [g \in Grids |-> grid[g]]
  /\ \A g \in Grids : IsGrid(grid[g])

TaskShape ==
  /\ task = [t \in Tasks |-> task[t]]
  /\ \A t \in Tasks : IsTask(task[t])

TableShape ==
  /\ row = [g \in Grids |-> row[g]]
  /\ ledger = [g \in Grids |-> ledger[g]]

Shape == GridShape /\ TaskShape /\ TableShape

\* A task past its choice of a grid works on one the worker knows.
TasksWork ==
  \A t \in Tasks :
    task[t].at \notin {"idle", "list"} =>
      task[t].grid \in Grids /\ grid[task[t].grid].status # "none"

\* A grid that the worker does not know is one no restart will bring back as
\* active, but for those a restart failed to read.
Forgotten ==
  up => \A g \in Grids :
          grid[g].status = "none" =>
            g \in missed \/ row[g].status # "active" \/ ~AllWhole(ledger[g])

\* While the worker is down there are no grids and no tasks.
DownIsEmpty ==
  ~up => /\ grid = [g \in Grids |-> NoGrid]
         /\ task = [t \in Tasks |-> NoTask]

\* What a restart would bring back as active.
Resting == {g \in Grids : row[g].status = "active" /\ AllWhole(ledger[g])}

Alike(S) == \A g, h \in S : g = h

OneAlive ==
  /\ Alike(ActiveGrids \ (missed \cup behind))
  /\ ~up => Alike(Resting \ (missed \cup behind))

GridInv == Shape /\ TasksWork /\ Forgotten /\ DownIsEmpty /\ OneAlive

-----------------------------------------------------------------------------
\* What a change of a field leaves of a grid.
LEMMA GridFields ==
  ASSUME NEW b, IsGrid(b), NEW a, NEW c, NEW s
  PROVE  /\ s = [b EXCEPT !.status = a] => IsGrid(s) /\ s.status = a
         /\ s = [b EXCEPT !.price = a] => IsGrid(s) /\ s.status = b.status
         /\ s = [b EXCEPT !.held = a, !.net = c]
              => IsGrid(s) /\ s.status = b.status
<1>1. ASSUME s = [b EXCEPT !.status = a] PROVE IsGrid(s) /\ s.status = a
  BY <1>1 DEF IsGrid
<1>2. ASSUME s = [b EXCEPT !.price = a]
      PROVE  IsGrid(s) /\ s.status = b.status
  BY <1>2 DEF IsGrid
<1>3. ASSUME s = [b EXCEPT !.held = a, !.net = c]
      PROVE  IsGrid(s) /\ s.status = b.status
  BY <1>3 DEF IsGrid
<1> QED
  BY <1>1, <1>2, <1>3

\* What the records are that the code makes.
LEMMA FreshRecords ==
  /\ IsGrid(NoGrid) /\ NoGrid.status = "none"
  /\ IsTask(NoTask) /\ NoTask.at = "idle"
  /\ \A d, p : IsGrid(NewGrid(d, p)) /\ NewGrid(d, p).status = "active"
  /\ \A g : IsGrid(FromTables(g)) /\ FromTables(g).status = row[g].status
  /\ \A b : RowOf(b).status = b.status
  /\ NoRow.status = "none"
<1>1. IsGrid(NoGrid) /\ NoGrid.status = "none"
  BY DEF IsGrid, NoGrid
<1>2. IsTask(NoTask) /\ NoTask.at = "idle"
  BY DEF IsTask, NoTask
<1>3. ASSUME NEW d, NEW p
      PROVE  IsGrid(NewGrid(d, p)) /\ NewGrid(d, p).status = "active"
  <2>1. ASSUME NEW b, IsGrid(b), NEW n,
               n = [b EXCEPT !.status = "active", !.dir = d, !.price = p]
        PROVE  IsGrid(n) /\ n.status = "active"
    BY <2>1 DEF IsGrid
  <2> QED
    BY <1>1, <2>1 DEF NewGrid
<1>4. ASSUME NEW g
      PROVE  IsGrid(FromTables(g)) /\ FromTables(g).status = row[g].status
  BY DEF IsGrid, FromTables
<1>5. ASSUME NEW b PROVE RowOf(b).status = b.status
  BY DEF RowOf
<1>6. NoRow.status = "none"
  BY DEF NoRow
<1> QED
  BY <1>1, <1>2, <1>3, <1>4, <1>5, <1>6

LEMMA InitGridInv == Init => GridInv
<1> SUFFICES ASSUME Init PROVE GridInv
  OBVIOUS
<1> USE FreshRecords DEF Init
<1>1. Shape
  BY DEF Shape, GridShape, TaskShape, TableShape
<1>2. TasksWork
  BY DEF TasksWork
<1>3. Forgotten
  BY DEF Forgotten
<1>4. DownIsEmpty
  BY DEF DownIsEmpty
<1>5. OneAlive
  BY DEF OneAlive, Alike, ActiveGrids, IsActive
<1> QED
  BY <1>1, <1>2, <1>3, <1>4, <1>5 DEF GridInv

-----------------------------------------------------------------------------
\* A step in which the worker lives on, starts no grid, and touches only grids
\* it knows in the tables, disturbs nothing but what the tasks hold.
LEMMA LivingStep ==
  ASSUME GridInv, up, up' = up,
         \A g \in Grids : IsActive(g)' => IsActive(g),
         \A g \in Grids :
           grid'[g].status = "none" =>
             /\ grid[g].status = "none"
             /\ row'[g] = row[g]
             /\ ledger'[g] = ledger[g],
         missed' = missed, behind' = behind
  PROVE  Forgotten' /\ DownIsEmpty' /\ OneAlive'
<1>1. Forgotten'
  BY DEF GridInv, Forgotten, AllWhole
<1>2. DownIsEmpty'
  BY DEF DownIsEmpty
<1>3. (ActiveGrids \ (missed \cup behind))'
        \subseteq ActiveGrids \ (missed \cup behind)
  BY DEF ActiveGrids, IsActive
<1>4. OneAlive'
  BY <1>3 DEF GridInv, OneAlive, Alike
<1> QED
  BY <1>1, <1>2, <1>4

\* A task moves, and nothing else that matters here changes.
LEMMA TaskStep ==
  ASSUME GridInv, up, NEW t, NEW r,
         UNCHANGED <<up, grid, row, ledger, missed, behind>>,
         task' = [task EXCEPT ![t] = r],
         IsTask(r),
         r.at \notin {"idle", "list"} =>
           r.grid \in Grids /\ grid[r.grid].status # "none"
  PROVE  GridInv'
<1> USE DEF GridInv
<1>1. Shape'
  BY DEF Shape, GridShape, TaskShape, TableShape
<1>2. TasksWork'
  BY DEF Shape, TaskShape, TasksWork
<1>3. Forgotten' /\ DownIsEmpty' /\ OneAlive'
  BY LivingStep DEF IsActive
<1> QED
  BY <1>1, <1>2, <1>3

\* A row takes the state of its grid, or stays.
LEMMA RowStep ==
  ASSUME GridInv, up, NEW g, SaveRow(g),
         g \in Grids => grid[g].status # "none",
         UNCHANGED <<up, grid, ledger, missed, behind>>,
         NEW t, NEW r, task' = [task EXCEPT ![t] = r],
         IsTask(r),
         r.at \notin {"idle", "list"} =>
           r.grid \in Grids /\ grid[r.grid].status # "none"
  PROVE  GridInv'
<1> USE DEF GridInv
<1>1. Shape' /\ \A h \in Grids : h # g => row'[h] = row[h]
  BY DEF Shape, GridShape, TaskShape, TableShape, SaveRow
<1>2. TasksWork'
  BY DEF Shape, TaskShape, TasksWork
<1>3. Forgotten' /\ DownIsEmpty' /\ OneAlive'
  BY <1>1, LivingStep DEF IsActive
<1> QED
  BY <1>1, <1>2, <1>3

-----------------------------------------------------------------------------
\* The steps by which a task walks over the levels and sends its orders.
LEMMA WalkSteps ==
  ASSUME GridInv, NEW t \in Tasks,
         \/ Walk(t) \/ Refuse(t) \/ Send(t)
         \/ \E n \in 0..task[t].qty : Answer(t, n)
         \/ \E n \in 1..task[t].qty : AnswerLost(t, n)
  PROVE  GridInv'
<1>1. TaskShape /\ TasksWork /\ IsTask(task[t])
  BY DEF GridInv, Shape, TaskShape
<1>2. ASSUME NEW s, NEW a, IsTask(s), s.grid = task[t].grid, up,
             task[t].at \in {"walk", "submit", "sent"},
             task' = [task EXCEPT ![t] = s],
             UNCHANGED <<up, grid, row, ledger, missed, behind>>
      PROVE  GridInv'
  BY <1>1, <1>2, TaskStep DEF TasksWork
<1>3. CASE Walk(t)
  <2> DEFINE i == Min(Due(t))
             l == IF t = "scheduler" THEN Entry(task[t].grid, i) ELSE i
             o == t = "scheduler" /\ TickOpens(t, i)
             q == IF o THEN Lots ELSE grid[task[t].grid].held[l]
  <2>1. task' = [task EXCEPT ![t] =
                   [task[t] EXCEPT !.at = "submit", !.next = i + 1,
                                   !.level = l, !.opening = o, !.qty = q]]
    BY <1>3 DEF Walk
  <2> HIDE DEF i, l, o, q
  <2>2. PICK s : s = [task[t] EXCEPT !.at = "submit", !.next = i + 1,
                                     !.level = l, !.opening = o, !.qty = q]
    OBVIOUS
  <2>3. IsTask(s) /\ s.grid = task[t].grid
    BY <1>1, <2>2 DEF IsTask
  <2> QED
    BY <1>2, <1>3, <2>1, <2>2, <2>3 DEF Walk, books, tables, history
<1>4. CASE Refuse(t) \/ Send(t) \/ \E n \in 1..task[t].qty : AnswerLost(t, n)
  <2>1. PICK a : task' = [task EXCEPT ![t] = [task[t] EXCEPT !.at = a]]
    BY <1>1, <1>4 DEF Refuse, Send, AnswerLost, TaskShape
  <2>2. PICK s : /\ task' = [task EXCEPT ![t] = s]
                 /\ s = [task[t] EXCEPT !.at = a]
    BY <2>1
  <2>3. IsTask(s) /\ s.grid = task[t].grid
    BY <1>1, <2>2 DEF IsTask
  <2> QED
    BY <1>2, <1>4, <2>2, <2>3
       DEF Refuse, Send, AnswerLost, books, tables, history
<1>5. CASE \E n \in 0..task[t].qty : Answer(t, n)
  <2> PICK n \in 0..task[t].qty : Answer(t, n)
    BY <1>5
  <2> DEFINE a == IF n = 0 THEN "walk" ELSE "ledger"
  <2>1. task' = [task EXCEPT ![t] = [task[t] EXCEPT !.got = n, !.at = a]]
    BY <1>1 DEF Answer, TaskShape
  <2> HIDE DEF a
  <2>2. PICK s : s = [task[t] EXCEPT !.got = n, !.at = a]
    OBVIOUS
  <2>3. IsTask(s) /\ s.grid = task[t].grid
    BY <1>1, <2>2 DEF IsTask
  <2> QED
    BY <1>2, <2>1, <2>2, <2>3 DEF Answer, books, tables
<1> QED
  BY <1>3, <1>4, <1>5

\* A grid changes while tables stay, and a task moves; the grid was known and
\* stays known, and does not become active.
LEMMA GridStep ==
  ASSUME GridInv, up, NEW g, NEW b,
         UNCHANGED <<up, row, missed, behind>>,
         grid' = [grid EXCEPT ![g] = b],
         \/ UNCHANGED ledger
         \/ \E x : ledger' = [ledger EXCEPT ![g] = x],
         g \in Grids =>
           /\ IsGrid(b)
           /\ b.status # "none"
           /\ b.status = "active" => grid[g].status = "active",
         NEW t, NEW r, task' = [task EXCEPT ![t] = r],
         IsTask(r),
         r.at \notin {"idle", "list"} =>
           r.grid \in Grids /\ grid'[r.grid].status # "none"
  PROVE  GridInv'
<1> USE DEF GridInv
<1>1. Shape'
  BY DEF Shape, GridShape, TaskShape, TableShape
<1>2. \A h \in Grids : grid'[h] = IF h = g THEN b ELSE grid[h]
  BY DEF Shape, GridShape
<1>3. TasksWork'
  BY <1>2 DEF Shape, TaskShape, TasksWork
<1>4. \A h \in Grids : h # g => ledger'[h] = ledger[h]
  BY DEF Shape, TableShape
<1>5. \A h \in Grids : grid'[h].status = "none" => h # g
  BY <1>2
<1>6. \A h \in Grids : IsActive(h)' => IsActive(h)
  BY <1>2 DEF IsActive
<1>7. Forgotten' /\ DownIsEmpty' /\ OneAlive'
  BY <1>2, <1>4, <1>5, <1>6, LivingStep
<1> QED
  BY <1>1, <1>3, <1>7

\* A fill is booked; whatever it does to the level, the status stays.
LEMMA BookStep ==
  ASSUME GridInv, NEW t \in Tasks, Book(t)
  PROVE  GridInv'
<1>1. /\ TaskShape /\ IsTask(task[t]) /\ GridShape
      /\ task[t].grid \in Grids /\ grid[task[t].grid].status # "none"
  BY DEF GridInv, Shape, TaskShape, TasksWork, Book
<1> DEFINE g == task[t].grid
           l == task[t].level
           h == [grid[g].held EXCEPT ![l] =
                   IF task[t].opening THEN Counted(t)
                   ELSE Rest(@, Counted(t))]
           n == grid[g].net + Delta(t, Counted(t))
<1>2. PICK b : b = [grid[g] EXCEPT !.held = h, !.net = n]
  OBVIOUS
<1>3. grid' = [grid EXCEPT ![g] = b]
  BY <1>1, <1>2 DEF Book, GridShape
<1> HIDE DEF h, n
<1>4. IsGrid(b) /\ b.status = grid[g].status
  <2>1. IsGrid(grid[g])
    BY <1>1 DEF GridShape
  <2> QED
    BY <1>2, <2>1 DEF IsGrid
<1>5. PICK r : r = [task[t] EXCEPT !.at = "save"]
  OBVIOUS
<1>6. IsTask(r) /\ r.grid = g
  BY <1>1, <1>5 DEF IsTask
<1>7. task' = [task EXCEPT ![t] = r]
  BY <1>1, <1>5 DEF Book, TaskShape
<1>8. \/ UNCHANGED ledger
      \/ \E x : ledger' = [ledger EXCEPT ![g] = x]
  BY DEF Book
<1>9. grid'[g].status # "none"
  BY <1>1, <1>3, <1>4 DEF GridShape
<1>10. up /\ UNCHANGED <<up, row, missed, behind>>
  BY DEF Book
<1>11. g \in Grids /\ grid[g].status # "none"
  BY <1>1
<1> HIDE DEF g
<1> QED
  BY <1>3, <1>4, <1>6, <1>7, <1>8, <1>9, <1>10, <1>11, GridStep

\* The steps that write a grid's row and let the task go on.
LEMMA SaveSteps ==
  ASSUME GridInv, NEW t \in Tasks,
         \/ Save(t)
         \/ SaveClose(t)
         \/ t = "scheduler" /\ (SaveTick \/ SaveOpen)
  PROVE  GridInv'
<1>1. /\ TaskShape /\ IsTask(task[t])
      /\ task[t].grid \in Grids /\ grid[task[t].grid].status # "none"
  BY DEF GridInv, Shape, TaskShape, TasksWork, Save, SaveClose, SaveTick,
         SaveOpen
<1>2. /\ up /\ SaveRow(task[t].grid)
      /\ UNCHANGED <<up, grid, ledger, missed, behind>>
  BY DEF Save, SaveClose, SaveTick, SaveOpen, books, history
<1>3. CASE Save(t) \/ SaveClose(t)
  <2>1. PICK a : task' = [task EXCEPT ![t] = [task[t] EXCEPT !.at = a]]
    BY <1>1, <1>3 DEF Save, SaveClose, TaskShape
  <2>2. PICK r : r = [task[t] EXCEPT !.at = a]
    OBVIOUS
  <2>3. IsTask(r) /\ r.grid = task[t].grid
    BY <1>1, <2>2 DEF IsTask
  <2> QED
    BY <1>1, <1>2, <2>1, <2>2, <2>3, RowStep
<1>4. CASE t = "scheduler" /\ (SaveTick \/ SaveOpen)
  <2>1. task' = [task EXCEPT ![t] = NoTask]
    BY <1>4 DEF SaveTick, SaveOpen
  <2> QED
    BY <1>1, <1>2, <2>1, FreshRecords, RowStep
<1> QED
  BY <1>3, <1>4

\* The steps that change a grid and leave its row for later.
LEMMA ChangeSteps ==
  ASSUME GridInv, NEW t \in Tasks,
         \/ EndClose(t)
         \/ t = "scheduler" /\ EndTick
         \/ \E g \in Grids : CloseNext(t, g)
  PROVE  GridInv'
<1>1. TaskShape /\ GridShape /\ IsTask(task[t])
  BY DEF GridInv, Shape, TaskShape
<1>2. CASE EndClose(t) \/ (t = "scheduler" /\ EndTick)
  <2> DEFINE g == task[t].grid
  <2>1. g \in Grids /\ grid[g].status # "none" /\ IsGrid(grid[g])
    BY <1>1, <1>2 DEF GridInv, TasksWork, EndClose, EndTick, GridShape
  <2>2. PICK r, a : /\ r = [task[t] EXCEPT !.at = a]
                    /\ task' = [task EXCEPT ![t] = r]
    <3>1. CASE EndClose(t)
      <4>1. task' = [task EXCEPT ![t] = [task[t] EXCEPT !.at = "closesave"]]
        BY <1>1, <3>1 DEF EndClose, TaskShape
      <4> QED
        BY <4>1
    <3>2. CASE t = "scheduler" /\ EndTick
      <4>1. task' = [task EXCEPT ![t] = [task[t] EXCEPT !.at = "ticksave"]]
        BY <1>1, <3>2 DEF EndTick, TaskShape
      <4> QED
        BY <4>1
    <3> QED
      BY <1>2, <3>1, <3>2
  <2>3. IsTask(r) /\ r.grid = g
    BY <1>1, <2>2 DEF IsTask
  <2>4. PICK b : /\ grid' = [grid EXCEPT ![g] = b]
                 /\ IsGrid(b) /\ b.status # "none"
                 /\ b.status = "active" => grid[g].status = "active"
    <3>1. CASE EndClose(t)
      <4>1. PICK b : b = [grid[g] EXCEPT !.status = "closed"]
        OBVIOUS
      <4>2. IsGrid(b) /\ b.status = "closed"
        BY <2>1, <4>1 DEF IsGrid
      <4>3. grid' = [grid EXCEPT ![g] = b]
        BY <1>1, <3>1, <4>1 DEF EndClose, GridShape
      <4> QED
        BY <4>2, <4>3
    <3>2. CASE t = "scheduler" /\ EndTick
      <4>1. PICK b : b = [grid[g] EXCEPT !.price = task[t].price]
        OBVIOUS
      <4>2. IsGrid(b) /\ b.status = grid[g].status
        BY <2>1, <4>1 DEF IsGrid
      <4>3. grid' = [grid EXCEPT ![g] = b]
        BY <1>1, <3>2, <4>1 DEF EndTick, GridShape
      <4> QED
        BY <2>1, <4>2, <4>3
    <3> QED
      BY <1>2, <3>1, <3>2
  <2>5. grid'[g].status # "none"
    BY <1>1, <2>1, <2>4 DEF GridShape
  <2>6. up /\ UNCHANGED <<up, row, ledger, missed, behind>>
    BY <1>2 DEF EndClose, EndTick, tables, history
  <2> HIDE DEF g
  <2> QED
    BY <2>2, <2>3, <2>4, <2>5, <2>6, <2>1, GridStep
<1>3. CASE \E g \in Grids : CloseNext(t, g)
  <2> PICK g \in Grids : CloseNext(t, g)
    BY <1>3
  <2>1. IsGrid(grid[g])
    BY <1>1 DEF GridShape
  <2>2. PICK b : b = [grid[g] EXCEPT !.status = "closing"]
    OBVIOUS
  <2>3. IsGrid(b) /\ b.status = "closing"
    BY <2>1, <2>2 DEF IsGrid
  <2>4. grid' = [grid EXCEPT ![g] = b]
    BY <1>1, <2>2 DEF CloseNext, GridShape
  <2> DEFINE d == task[t].todo \ {g}
  <2>5. PICK r : r = [task[t] EXCEPT !.at = "walk", !.grid = g, !.next = 1,
                                     !.todo = d]
    OBVIOUS
  <2>6. IsTask(r) /\ r.grid = g
    <3> HIDE DEF d
    <3> QED
      BY <1>1, <2>5 DEF IsTask
  <2>7. task' = [task EXCEPT ![t] = r]
    BY <1>1, <2>5 DEF CloseNext, TaskShape
  <2>8. up /\ UNCHANGED <<up, row, ledger, missed, behind>>
    BY DEF CloseNext, tables
  <2>9. grid'[g].status # "none"
    BY <1>1, <2>3, <2>4 DEF GridShape
  <2> QED
    BY <2>3, <2>4, <2>6, <2>7, <2>8, <2>9, GridStep
<1> QED
  BY <1>2, <1>3

\* The steps by which a task begins, passes a grid over, or comes to rest.
LEMMA TaskSteps ==
  ASSUME GridInv,
         \/ \E g \in Grids, p \in Levels : BeginTick(g, p)
         \/ \E t \in Closers, g \in Grids : SkipNext(t, g)
         \/ \E t \in Closers : EndList(t)
         \/ Deactivate
         \/ Liquidate
  PROVE  GridInv'
<1>1. TaskShape
  BY DEF GridInv, Shape
<1>2. IsTask(NoTask) /\ NoTask.at = "idle"
  BY FreshRecords
<1>3. CASE \E g \in Grids, p \in Levels : BeginTick(g, p)
  <2> PICK g \in Grids, p \in Levels : BeginTick(g, p)
    BY <1>3
  <2>1. PICK r : r = [NoTask EXCEPT !.at = "walk", !.grid = g, !.price = p]
    OBVIOUS
  <2>2. IsTask(r) /\ r.grid = g
    BY <1>2, <2>1 DEF IsTask
  <2> QED
    BY <2>1, <2>2, TaskStep
       DEF BeginTick, MayStart, IsActive, books, tables, history
<1>4. CASE \E t \in Closers, g \in Grids : SkipNext(t, g)
  <2> PICK t \in Closers, g \in Grids : SkipNext(t, g)
    BY <1>4
  <2> DEFINE d == task[t].todo \ {g}
  <2>1. PICK r : r = [task[t] EXCEPT !.todo = d]
    OBVIOUS
  <2>2. IsTask(task[t]) /\ task[t].at = "list"
    BY <1>1 DEF TaskShape, Tasks, SkipNext
  <2>3. IsTask(r) /\ r.at = "list"
    <3> HIDE DEF d
    <3> QED
      BY <2>1, <2>2 DEF IsTask
  <2>4. task' = [task EXCEPT ![t] = r]
    BY <1>1, <2>1 DEF SkipNext, TaskShape
  <2> QED
    BY <2>3, <2>4, TaskStep DEF SkipNext, books, tables, history
<1>5. CASE \E t \in Closers : EndList(t)
  BY <1>2, <1>5, TaskStep DEF EndList, books, tables, history
<1>6. ASSUME NEW t, NEW s, s = List(t)
      PROVE  IsTask(s) /\ s.at = "list"
  BY <1>2, <1>6 DEF List, IsTask
<1>7. CASE Deactivate \/ Liquidate
  <2>1. PICK t, s : /\ s = List(t)
                    /\ \/ task' = [task EXCEPT ![t] = s]
                       \/ UNCHANGED task
    BY <1>7 DEF Deactivate, Liquidate
  <2>2. up /\ UNCHANGED <<up, grid, row, ledger, missed, behind>>
    BY <1>7 DEF Deactivate, Liquidate, MayStart, books, tables, history
  <2>3. CASE UNCHANGED task
    BY <2>2, <2>3 DEF GridInv, Shape, GridShape, TaskShape, TableShape,
         TasksWork, Forgotten, DownIsEmpty, OneAlive, ActiveGrids, IsActive
  <2>4. CASE task' = [task EXCEPT ![t] = s]
    BY <1>6, <2>1, <2>2, <2>4, TaskStep
  <2> QED
    BY <2>1, <2>3, <2>4
<1> QED
  BY <1>3, <1>4, <1>5, <1>7

\* A grid is opened only when none is active, so it is the only one.
LEMMA OpenStep ==
  ASSUME GridInv, NEW g \in Grids, NEW d \in Directions, NEW p \in Levels,
         Open(g, d, p)
  PROVE  GridInv'
<1> DEFINE b == NewGrid(d, p)
<1>1. /\ up /\ UNCHANGED <<up, row, ledger, missed, behind>>
      /\ grid' = [grid EXCEPT ![g] = b]
      /\ ActiveGrids = {}
  BY DEF Open, MayStart, MayOpen, tables, history
<1>2. IsGrid(b) /\ b.status = "active"
  BY FreshRecords
<1> HIDE DEF b
<1>3. PICK r : r = [NoTask EXCEPT !.at = "opensave", !.grid = g]
  OBVIOUS
<1>4. IsTask(r) /\ r.grid = g
  BY <1>3, FreshRecords DEF IsTask
<1>5. task' = [task EXCEPT !["scheduler"] = r]
  BY <1>3 DEF Open
<1>6. Shape /\ TasksWork /\ Forgotten
  BY DEF GridInv
<1>7. \A h \in Grids : grid'[h] = IF h = g THEN b ELSE grid[h]
  BY <1>1, <1>6 DEF Shape, GridShape
<1>8. Shape'
  BY <1>1, <1>2, <1>4, <1>5, <1>6, <1>7
     DEF Shape, GridShape, TaskShape, TableShape
<1>9. TasksWork'
  BY <1>2, <1>4, <1>5, <1>6, <1>7 DEF Shape, TaskShape, TasksWork
<1>10. Forgotten'
  BY <1>1, <1>2, <1>6, <1>7 DEF Forgotten, AllWhole
<1>11. ActiveGrids' \subseteq {g}
  BY <1>1, <1>7 DEF ActiveGrids, IsActive
<1>12. OneAlive' /\ DownIsEmpty'
  BY <1>1, <1>11 DEF OneAlive, Alike, DownIsEmpty
<1> QED
  BY <1>8, <1>9, <1>10, <1>12 DEF GridInv

\* What a crash leaves behind for the next start: a grid whose row says
\* active was active, or is one whose row is older than the books.
LEMMA CrashStep == GridInv /\ Crash => GridInv'
<1> SUFFICES ASSUME GridInv, Crash PROVE GridInv'
  OBVIOUS
<1>1. /\ up /\ up' = FALSE
      /\ grid' = [g \in Grids |-> NoGrid]
      /\ task' = [t \in Tasks |-> NoTask]
      /\ UNCHANGED <<row, ledger, missed>>
      /\ behind' = behind \cup
           {g \in Grids : grid[g] # NoGrid /\ RowOf(grid[g]) # row[g]}
  BY DEF Crash, tables
<1>2. Shape'
  BY <1>1, FreshRecords
     DEF GridInv, Shape, GridShape, TaskShape, TableShape
<1>3. TasksWork' /\ Forgotten' /\ DownIsEmpty'
  BY <1>1, FreshRecords DEF TasksWork, Forgotten, DownIsEmpty
<1>4. ActiveGrids' = {}
  BY <1>1, FreshRecords DEF ActiveGrids, IsActive
<1>5. ASSUME NEW g \in (Resting \ (missed \cup behind))'
      PROVE  g \in ActiveGrids \ (missed \cup behind)
  <2>1. /\ g \in Grids /\ g \notin missed /\ g \notin behind
        /\ row[g].status = "active" /\ AllWhole(ledger[g])
        /\ grid[g] = NoGrid \/ RowOf(grid[g]) = row[g]
    BY <1>1, <1>5 DEF Resting, AllWhole
  <2>2. grid[g].status # "none"
    BY <1>1, <2>1 DEF GridInv, Forgotten
  <2>3. grid[g].status = row[g].status
    BY <2>1, <2>2, FreshRecords
  <2> QED
    BY <2>1, <2>3 DEF ActiveGrids, IsActive
<1>6. OneAlive'
  BY <1>1, <1>4, <1>5 DEF GridInv, OneAlive, Alike
<1> QED
  BY <1>2, <1>3, <1>6 DEF GridInv

\* A restart brings back what rests, or nothing.
LEMMA RestartStep == GridInv /\ Restart => GridInv'
<1> SUFFICES ASSUME GridInv, Restart PROVE GridInv'
  OBVIOUS
<1>1. /\ ~up /\ up' /\ UNCHANGED <<task, row, ledger, behind>>
      /\ grid = [g \in Grids |-> NoGrid]
      /\ task = [t \in Tasks |-> NoTask]
  BY DEF GridInv, DownIsEmpty, Restart, tables
<1>2. TasksWork' /\ DownIsEmpty'
  BY <1>1, FreshRecords DEF TasksWork, DownIsEmpty
<1>3. CASE /\ grid' = [g \in Grids |-> IF Restorable(g) THEN FromTables(g)
                                       ELSE NoGrid]
           /\ UNCHANGED missed
  <2>1. \A g \in Grids : /\ IsGrid(grid'[g])
                         /\ Restorable(g) => grid'[g].status = row[g].status
                         /\ ~Restorable(g) => grid'[g].status = "none"
    BY <1>3, FreshRecords
  <2>2. Shape'
    BY <1>1, <1>3, <2>1, FreshRecords
       DEF GridInv, Shape, GridShape, TaskShape, TableShape
  <2>3. Forgotten'
    BY <1>1, <1>3, <2>1
       DEF Forgotten, Restorable, OpenStatuses, AllWhole
  <2>4. ActiveGrids' \subseteq Resting
    BY <2>1 DEF ActiveGrids, IsActive, Resting, Restorable
  <2>5. OneAlive'
    BY <1>1, <1>3, <2>4 DEF GridInv, OneAlive, Alike
  <2> QED
    BY <1>2, <2>2, <2>3, <2>5 DEF GridInv
<1>4. CASE /\ UNCHANGED grid
           /\ missed' = missed \cup {g \in Grids : Restorable(g)}
  <2>1. Shape'
    BY <1>1, <1>4 DEF GridInv, Shape, GridShape, TaskShape, TableShape
  <2>2. Forgotten'
    BY <1>1, <1>4 DEF Forgotten, Restorable, OpenStatuses, AllWhole
  <2>3. ActiveGrids' = {}
    BY <1>1, <1>4, FreshRecords DEF ActiveGrids, IsActive
  <2>4. OneAlive'
    BY <1>1, <2>3 DEF OneAlive, Alike
  <2> QED
    BY <1>2, <2>1, <2>2, <2>4 DEF GridInv
<1> QED
  BY <1>3, <1>4 DEF Restart

\* The switches, and stuttering.
LEMMA QuietStep ==
  ASSUME GridInv,
         UNCHANGED <<up, grid, task, row, ledger, missed, behind>>
  PROVE  GridInv'
BY DEF GridInv, Shape, GridShape, TaskShape, TableShape, TasksWork,
       Forgotten, DownIsEmpty, OneAlive, ActiveGrids, IsActive, Resting,
       AllWhole

LEMMA NextGridInv == GridInv /\ [Next]_gridVars => GridInv'
<1> SUFFICES ASSUME GridInv, [Next]_gridVars PROVE GridInv'
  OBVIOUS
<1>1. CASE Scheduler
  <2>1. "scheduler" \in Tasks
    BY DEF Tasks
  <2>2. CASE \E g \in Grids, d \in Directions, p \in Levels : Open(g, d, p)
    BY <2>2, OpenStep
  <2>3. CASE SaveOpen \/ SaveTick
    BY <2>1, <2>3, SaveSteps
  <2>4. CASE \E g \in Grids, p \in Levels : BeginTick(g, p)
    BY <2>4, TaskSteps
  <2>5. CASE EndTick
    BY <2>1, <2>5, ChangeSteps
  <2> QED
    BY <1>1, <2>2, <2>3, <2>4, <2>5 DEF Scheduler
<1>2. CASE \E t \in Tasks : Step(t)
  <2> PICK t \in Tasks : Step(t)
    BY <1>2
  <2>1. CASE Book(t)
    BY <2>1, BookStep
  <2>2. CASE Save(t)
    BY <2>2, SaveSteps
  <2>3. CASE \/ Walk(t) \/ Refuse(t) \/ Send(t)
             \/ \E n \in 0..task[t].qty : Answer(t, n)
             \/ \E n \in 1..task[t].qty : AnswerLost(t, n)
    BY <2>3, WalkSteps
  <2> QED
    BY <2>1, <2>2, <2>3 DEF Step
<1>3. CASE \E t \in Closers : Close(t)
  <2> PICK t \in Closers : Close(t)
    BY <1>3
  <2>1. t \in Tasks
    BY DEF Tasks
  <2>2. CASE \E g \in Grids : CloseNext(t, g)
    BY <2>1, <2>2, ChangeSteps
  <2>3. CASE \E g \in Grids : SkipNext(t, g)
    BY <2>3, TaskSteps
  <2>4. CASE EndClose(t)
    BY <2>1, <2>4, ChangeSteps
  <2>5. CASE SaveClose(t)
    BY <2>1, <2>5, SaveSteps
  <2>6. CASE EndList(t)
    BY <2>6, TaskSteps
  <2> QED
    BY <2>2, <2>3, <2>4, <2>5, <2>6 DEF Close
<1>4. CASE Deactivate \/ Liquidate
  BY <1>4, TaskSteps
<1>5. CASE Activate \/ Kill \/ Release \/ UNCHANGED gridVars
  BY <1>5, QuietStep
     DEF Activate, Kill, Release, gridVars, books, tables, history
<1>6. CASE Crash
  BY <1>6, CrashStep
<1>7. CASE Restart
  BY <1>7, RestartStep
<1> QED
  BY <1>1, <1>2, <1>3, <1>4, <1>5, <1>6, <1>7 DEF Next

(* At most one grid of a symbol is active: for any number of grids, levels and
   lots, with scheduler, symbol switch and liquidator interleaving at every
   await, failing writes and any number of restarts - except grids that a
   restart failed to read, or read from a row older than the books. *)
THEOREM OneGrid == Spec => []OneActiveGrid
<1>1. GridInv => OneActiveGrid
  <2> SUFFICES ASSUME GridInv PROVE OneActiveGrid
    OBVIOUS
  <2> DEFINE S == ActiveGrids \ (missed \cup behind)
  <2>1. \A g, h \in S : g = h
    BY DEF GridInv, OneAlive, Alike
  <2>2. CASE S = {}
    BY <2>2, FS_EmptySet DEF OneActiveGrid
  <2>3. CASE S # {}
    <3>1. PICK g : S = {g}
      BY <2>1, <2>3
    <3>2. Cardinality(S) = 1
      BY <3>1, FS_Singleton
    <3> QED
      BY <3>2 DEF OneActiveGrid
  <2> QED
    BY <2>2, <2>3
<1> QED
  BY <1>1, InitGridInv, NextGridInv, PTL DEF Spec

-----------------------------------------------------------------------------
(* Replays: a fold over a ledger, by induction over the places in it. *)

Fills == [level : Levels, opening : BOOLEAN, qty : Nat, whole : BOOLEAN]
HeldLevels == [Levels -> Nat]

\* One step of a replay, and the replay of every set of a ledger's places.
Replayed(held, f) ==
  [held EXCEPT ![f.level] = IF f.opening THEN @ + f.qty ELSE Rest(@, f.qty)]

ReplayOf(rec, fills, s) ==
  IF s = {} THEN Flat ELSE Replayed(rec[s \ {Max(s)}], fills[Max(s)])

IsReplay(rec, fills) ==
  rec = [s \in SUBSET DOMAIN fills |-> ReplayOf(rec, fills, s)]

Replays(fills) == CHOOSE rec : IsReplay(rec, fills)

\* A replay is the chosen recursion over sets of places, at all places.
LEMMA ReplayIsChosen ==
  ASSUME NEW fills
  PROVE  Replay(fills) = Replays(fills)[DOMAIN fills]
BY Zenon DEF Replay, FoldLeft, MapThenFoldSet, Replays, IsReplay, ReplayOf,
             Replayed

\* A set of places has a last one.
LEMMA LastPlace ==
  ASSUME NEW n \in Nat, NEW s \in SUBSET (1..n), s # {}
  PROVE  Max(s) \in s /\ \A i \in s : i <= Max(s)
<1> DEFINE A == {k \in Nat : n - k \in s}
<1>1. A \subseteq Nat /\ A # {}
  <2>1. PICK i : i \in s
    OBVIOUS
  <2>2. n - i \in Nat /\ n - (n - i) = i
    BY <2>1
  <2>3. n - i \in A
    BY <2>1, <2>2
  <2> QED
    BY <2>3
<1>2. PICK k \in A : \A j \in A : k <= j
  <2> HIDE DEF A
  <2> QED
    BY <1>1, LeastNatural
<1>3. \A i \in s : i <= n - k
  <2> SUFFICES ASSUME NEW i \in s PROVE i <= n - k
    OBVIOUS
  <2>1. i \in Nat /\ n - i \in Nat /\ n - (n - i) = i
    OBVIOUS
  <2>2. n - i \in A
    BY <2>1
  <2>3. k \in Nat
    BY <1>2
  <2>4. k <= n - i
    BY <1>2, <2>2
  <2> HIDE DEF A
  <2> QED
    BY <2>1, <2>3, <2>4
<1>4. \E m \in s : \A i \in s : m >= i
  BY <1>2, <1>3
<1>5. Max(s) \in s /\ \A i \in s : Max(s) >= i
  BY <1>4 DEF Max
<1> QED
  BY <1>5

\* A set of numbers has a least one, and Min finds it.
LEMMA FirstPlace ==
  ASSUME NEW s \in SUBSET Nat, s # {}
  PROVE  Min(s) \in s /\ \A i \in s : Min(s) <= i
<1>1. \E m \in s : \A i \in s : m <= i
  <2>1. \E i \in Nat : i \in s
    OBVIOUS
  <2> QED
    BY <2>1, LeastNatural
<1> QED
  BY <1>1 DEF Min

\* One fill more leaves a quantity on every level.
LEMMA ReplayedType ==
  ASSUME NEW held \in HeldLevels, NEW f \in Fills
  PROVE  Replayed(held, f) \in HeldLevels
BY DEF HeldLevels, Fills, Replayed, Rest

\* The recursion over the sets of places exists.
LEMMA ReplaysExist ==
  ASSUME NEW n \in Nat, NEW fills \in [1..n -> Fills]
  PROVE  /\ Replays(fills) \in [SUBSET (1..n) -> HeldLevels]
         /\ IsReplay(Replays(fills), fills)
<1> DEFINE S == 1..n
           pick == [s \in SUBSET S |-> Max(s)]
           step == [p \in (SUBSET S) \X HeldLevels |->
                      IF p[1] = {} THEN Flat
                      ELSE Replayed(p[2], fills[Max(p[1])])]
<1>0. DOMAIN fills = S /\ IsFiniteSet(S) /\ Flat \in HeldLevels
  BY FS_Interval DEF Flat, HeldLevels
<1>1. \A s \in SUBSET S : s # {} => pick[s] \in s
  BY LastPlace
<1>2. \A s \in SUBSET S, v \in HeldLevels :
        step[<<s, v>>] = IF s = {} THEN Flat
                         ELSE Replayed(v, fills[Max(s)])
  OBVIOUS
<1>3. \A s \in SUBSET S, v \in HeldLevels : step[<<s, v>>] \in HeldLevels
  <2> SUFFICES ASSUME NEW s \in SUBSET S, NEW v \in HeldLevels
               PROVE  step[<<s, v>>] \in HeldLevels
    OBVIOUS
  <2>1. CASE s = {}
    BY <1>0, <1>2, <2>1
  <2>2. CASE s # {}
    <3>1. fills[Max(s)] \in Fills
      BY <2>2, LastPlace
    <3>2. Replayed(v, fills[Max(s)]) \in HeldLevels
      BY <3>1, ReplayedType
    <3> HIDE DEF step
    <3> QED
      BY <1>2, <2>2, <3>2
  <2> QED
    BY <2>1, <2>2
<1>4. \A s \in SUBSET S : pick[s] = Max(s)
  OBVIOUS
<1> HIDE DEF pick, step
<1>5. PICK rec \in [SUBSET S -> HeldLevels] :
        IsRecursion(rec, S, Flat, pick, step)
  <2> HIDE DEF S
  <2> QED
    BY <1>0, <1>1, <1>3, RecursionExists, Zenon
<1>6. ASSUME NEW s \in SUBSET S
      PROVE  (IF s = {} THEN Flat ELSE step[<<s, rec[s \ {pick[s]}]>>])
               = ReplayOf(rec, fills, s)
  <2>1. rec[s \ {Max(s)}] \in HeldLevels
    OBVIOUS
  <2> QED
    BY <1>2, <1>4, <2>1 DEF ReplayOf
<1>7. rec = [s \in SUBSET S |-> ReplayOf(rec, fills, s)]
  BY <1>5, <1>6 DEF IsRecursion
<1>8. IsReplay(rec, fills)
  BY <1>0, <1>7 DEF IsReplay
<1>9. IsReplay(Replays(fills), fills)
  BY <1>8, Zenon DEF Replays
<1>10. Replays(fills) \in [SUBSET (1..n) -> HeldLevels]
  <2> DEFINE r == Replays(fills)
  <2>1. r = [s \in SUBSET S |-> ReplayOf(r, fills, s)]
    BY <1>0, <1>9 DEF IsReplay
  <2> HIDE DEF r
  <2> DEFINE G == {s \in SUBSET S : r[s] \in HeldLevels}
  <2>2. \A s \in SUBSET S : (\A u \in SUBSET s : u # s => u \in G) => s \in G
    <3> SUFFICES ASSUME NEW s \in SUBSET S,
                        \A u \in SUBSET s : u # s => u \in G
                 PROVE  r[s] \in HeldLevels
      OBVIOUS
    <3>1. r[s] = ReplayOf(r, fills, s)
      BY <2>1
    <3>2. CASE s = {}
      BY <1>0, <3>1, <3>2 DEF ReplayOf
    <3>3. CASE s # {}
      <4>1. Max(s) \in s /\ Max(s) \in S
        BY <3>3, LastPlace
      <4>2. r[s \ {Max(s)}] \in HeldLevels
        BY <4>1
      <4>3. fills[Max(s)] \in Fills
        BY <4>1
      <4> QED
        BY <3>1, <3>3, <4>2, <4>3, ReplayedType DEF ReplayOf
    <3> QED
      BY <3>2, <3>3
  <2>3. SUBSET S \subseteq G
    <3> HIDE DEF G, S
    <3> QED
      BY <1>0, <2>2, SubsetInduction
  <2>4. \A s \in SUBSET S : r[s] \in HeldLevels
    BY <2>3
  <2> QED
    BY <2>1, <2>4 DEF r
<1> QED
  BY <1>9, <1>10

\* A replay of the first places does not look at the later ones.
LEMMA ReplaysAgree ==
  ASSUME NEW n \in Nat, NEW fills \in [1..n -> Fills],
         NEW m \in Nat, m <= n, NEW first \in [1..m -> Fills],
         \A i \in 1..m : first[i] = fills[i]
  PROVE  \A s \in SUBSET (1..m) : Replays(fills)[s] = Replays(first)[s]
<1> DEFINE S == 1..m
           r == Replays(fills)
           q == Replays(first)
           G == {s \in SUBSET S : r[s] = q[s]}
<1>0. /\ IsFiniteSet(S) /\ DOMAIN fills = 1..n /\ DOMAIN first = S
      /\ S \subseteq 1..n
  BY FS_Interval
<1>1. /\ r = [s \in SUBSET (1..n) |-> ReplayOf(r, fills, s)]
      /\ q = [s \in SUBSET S |-> ReplayOf(q, first, s)]
  BY <1>0, ReplaysExist DEF IsReplay
<1> HIDE DEF r, q
<1>2. \A s \in SUBSET S : (\A u \in SUBSET s : u # s => u \in G) => s \in G
  <2> SUFFICES ASSUME NEW s \in SUBSET S,
                      \A u \in SUBSET s : u # s => u \in G
               PROVE  r[s] = q[s]
    OBVIOUS
  <2>1. s \in SUBSET (1..n)
    BY <1>0
  <2>2. r[s] = ReplayOf(r, fills, s)
    BY <1>1, <2>1
  <2>3. q[s] = ReplayOf(q, first, s)
    BY <1>1
  <2>4. CASE s = {}
    BY <2>2, <2>3, <2>4 DEF ReplayOf
  <2>5. CASE s # {}
    <3>1. Max(s) \in s /\ Max(s) \in S
      BY <2>5, LastPlace
    <3>2. r[s \ {Max(s)}] = q[s \ {Max(s)}]
      BY <3>1
    <3>3. first[Max(s)] = fills[Max(s)]
      BY <3>1
    <3> QED
      BY <2>2, <2>3, <2>5, <3>2, <3>3 DEF ReplayOf
  <2> QED
    BY <2>4, <2>5
<1>3. SUBSET S \subseteq G
  <2>1. IsFiniteSet(S)
    BY <1>0
  <2> HIDE DEF G, S
  <2> QED
    BY <1>2, <2>1, SubsetInduction, Zenon
<1> QED
  BY <1>3 DEF r, q

\* A grid without fills holds nothing.
LEMMA ReplayOfNothing == Replay(<<>>) = Flat
<1>1. <<>> \in [1..0 -> Fills] /\ DOMAIN <<>> = {}
  OBVIOUS
<1>2. IsReplay(Replays(<<>>), <<>>)
  BY <1>1, ReplaysExist
<1>3. Replays(<<>>)[{}] = ReplayOf(Replays(<<>>), <<>>, {})
  <2> DEFINE r == Replays(<<>>)
             e == <<>>
  <2>1. r = [s \in SUBSET DOMAIN e |-> ReplayOf(r, e, s)]
    BY <1>2 DEF IsReplay
  <2>2. {} \in SUBSET DOMAIN e
    OBVIOUS
  <2> HIDE DEF r, e
  <2>3. r[{}] = ReplayOf(r, e, {})
    BY <2>1, <2>2
  <2> QED
    BY <2>3 DEF r, e
<1> QED
  BY <1>1, <1>3, ReplayIsChosen DEF ReplayOf

\* A replay gives every level a quantity.
LEMMA ReplayType ==
  ASSUME NEW L \in Seq(Fills)
  PROVE  Replay(L) \in HeldLevels
<1>1. PICK n \in Nat : L \in [1..n -> Fills]
  OBVIOUS
<1>2. Replays(L) \in [SUBSET (1..n) -> HeldLevels]
  BY <1>1, ReplaysExist
<1>3. DOMAIN L \in SUBSET (1..n)
  BY <1>1
<1> QED
  BY <1>2, <1>3, ReplayIsChosen

\* Appending a fill is one more step of the replay.
LEMMA ReplayOfAppend ==
  ASSUME NEW L \in Seq(Fills), NEW f \in Fills
  PROVE  Replay(Append(L, f)) = Replayed(Replay(L), f)
<1> DEFINE n == Len(L)
           M == Append(L, f)
           T == 1..(n + 1)
           r == Replays(M)
<1>1. /\ n \in Nat /\ L \in [1..n -> Fills] /\ M \in [T -> Fills]
      /\ DOMAIN L = 1..n /\ DOMAIN M = T
      /\ \A i \in 1..n : L[i] = M[i]
      /\ M[n + 1] = f
  <2>1. n \in Nat /\ L \in [1..n -> Fills] /\ DOMAIN L = 1..n
    OBVIOUS
  <2>2. M \in Seq(Fills) /\ Len(M) = n + 1
    OBVIOUS
  <2>3. M \in [T -> Fills] /\ DOMAIN M = T
    <3> HIDE DEF M
    <3> QED
      BY <2>2
  <2>4. \A i \in 1..n : L[i] = M[i]
    OBVIOUS
  <2>5. M[n + 1] = f
    OBVIOUS
  <2> QED
    BY <2>1, <2>3, <2>4, <2>5
<1> HIDE DEF n, M
<1>2. \A s \in SUBSET (1..n) : r[s] = Replays(L)[s]
  <2>1. n + 1 \in Nat /\ n <= n + 1
    BY <1>1
  <2> QED
    BY <1>1, <2>1, ReplaysAgree
<1>3. r = [s \in SUBSET T |-> ReplayOf(r, M, s)]
  <2>1. n + 1 \in Nat
    BY <1>1
  <2>2. IsReplay(Replays(M), M)
    BY <1>1, <2>1, ReplaysExist
  <2> QED
    BY <1>1, <2>2 DEF IsReplay
<1>4. Max(T) = n + 1 /\ T \ {n + 1} = 1..n
  <2>1. n + 1 \in T /\ T # {}
    BY <1>1
  <2>2. Max(T) \in T /\ \A i \in T : i <= Max(T)
    <3>1. n + 1 \in Nat /\ T \in SUBSET (1..(n + 1))
      BY <1>1
    <3> QED
      BY <2>1, <3>1, LastPlace
  <2> QED
    BY <1>1, <2>1, <2>2
<1> HIDE DEF r
<1>5. r[T] = ReplayOf(r, M, T)
  BY <1>3
<1>6. r[T] = Replayed(r[1..n], f)
  <2>1. T # {}
    <3>1. n + 1 \in T
      BY <1>1
    <3> QED
      BY <3>1
  <2>2. M[n + 1] = f
    BY <1>1
  <2> HIDE DEF T
  <2>3. r[T] = Replayed(r[T \ {Max(T)}], M[Max(T)])
    BY <1>5, <2>1 DEF ReplayOf
  <2> QED
    BY <1>4, <2>2, <2>3, Zenon
<1>7. Replay(M) = r[T] /\ Replay(L) = Replays(L)[1..n]
  BY <1>1, ReplayIsChosen DEF r
<1> QED
  BY <1>2, <1>6, <1>7 DEF M

-----------------------------------------------------------------------------
(* Types of the books, and fills on their way. *)

Statuses == {"none", "active", "closing", "closed"}
Places == {"idle", "opensave", "walk", "submit", "sent", "ledger", "save",
           "ticksave", "list", "closesave"}
GridRecords == [status : Statuses, dir : Directions, held : HeldLevels,
                net : Int, price : Levels]
RowRecords == [status : Statuses, dir : Directions, net : Int,
               price : Levels]
TaskRecords ==
  [at : Places, grid : Grids \cup {0}, next : 1..NLevels + 1,
   price : Levels, level : Levels, opening : BOOLEAN,
   qty : Nat, got : Nat, todo : SUBSET Grids]

BookTypes ==
  /\ grid \in [Grids -> GridRecords]
  /\ row \in [Grids -> RowRecords]
  /\ task \in [Tasks -> TaskRecords]
  /\ exch \in [Grids -> Int]
  /\ ledger \in [Grids -> Seq(Fills)]

\* What a task's fill adds to a grid when it is booked.
PendingOf(gs, ts, t, g) ==
  IF ts[t].at = "ledger" /\ ts[t].grid = g
  THEN Sign(gs[g].dir) * (IF ts[t].opening THEN ts[t].got ELSE -ts[t].got)
  ELSE 0

FlightOf(gs, ts, g) ==
  SumFunctionOnSet([t \in Tasks |-> PendingOf(gs, ts, t, g)], Tasks)

Pending(t, g) == PendingOf(grid, task, t, g)

\* There are three tasks at most.
LEMMA TasksFinite == IsFiniteSet(Tasks)
<1>1. IsFiniteSet({"scheduler", "hook", "liquidator"})
  <2>1. IsFiniteSet({"scheduler"} \cup {"hook"})
    BY FS_Singleton, FS_AddElement
  <2>2. IsFiniteSet(({"scheduler"} \cup {"hook"}) \cup {"liquidator"})
    BY <2>1, FS_AddElement
  <2>3. {"scheduler", "hook", "liquidator"} =
          ({"scheduler"} \cup {"hook"}) \cup {"liquidator"}
    OBVIOUS
  <2> QED
    BY <2>2, <2>3
<1>2. Tasks \subseteq {"scheduler", "hook", "liquidator"}
  BY GridConstants DEF Tasks
<1> QED
  BY <1>1, <1>2, FS_Subset

\* A pending fill is a whole number.
LEMMA PendingType ==
  ASSUME NEW gs \in [Grids -> GridRecords], NEW ts \in [Tasks -> TaskRecords],
         NEW t \in Tasks, NEW g \in Grids
  PROVE  PendingOf(gs, ts, t, g) \in Int
<1>1. ts[t].got \in Nat /\ ts[t].opening \in BOOLEAN /\ Sign(gs[g].dir) \in Int
  BY DEF TaskRecords, Sign
<1> QED
  BY <1>1 DEF PendingOf

\* The sum over the tasks with a fill for a grid is one over all tasks.
LEMMA FlightIsSum ==
  ASSUME NEW gs \in [Grids -> GridRecords], NEW ts \in [Tasks -> TaskRecords],
         NEW g \in Grids
  PROVE  SumFunction(
           [t \in {u \in Tasks : ts[u].at = "ledger"
                                 /\ (ts[u].at # "idle" /\ ts[u].grid = g)} |->
              Sign(gs[ts[t].grid].dir) *
                (IF ts[t].opening THEN ts[t].got ELSE -ts[t].got)])
         = FlightOf(gs, ts, g)
<1> DEFINE T == {u \in Tasks : ts[u].at = "ledger"
                               /\ (ts[u].at # "idle" /\ ts[u].grid = g)}
           f == [t \in T |-> Sign(gs[ts[t].grid].dir) *
                  (IF ts[t].opening THEN ts[t].got ELSE -ts[t].got)]
           h == [t \in Tasks |-> PendingOf(gs, ts, t, g)]
<1>1. T \in SUBSET Tasks
  OBVIOUS
<1>2. \A t \in Tasks : h[t] \in Int
  BY PendingType
<1>3. \A t \in T : f[t] = h[t]
  BY DEF PendingOf
<1>4. \A t \in Tasks \ T : h[t] = 0
  BY DEF PendingOf
<1>5. DOMAIN f = T
  OBVIOUS
<1> HIDE DEF f, h, T
<1>6. SumFunctionOnSet(f, T) = SumFunctionOnSet(h, Tasks)
  BY <1>1, <1>2, <1>3, <1>4, TasksFinite, SumInside
<1>7. SumFunction(f) = SumFunctionOnSet(f, T)
  BY <1>5 DEF SumFunction
<1> QED
  BY <1>6, <1>7 DEF f, h, T, FlightOf

\* So is the sum of all that are pending.
LEMMA FlightType ==
  ASSUME NEW gs \in [Grids -> GridRecords], NEW ts \in [Tasks -> TaskRecords],
         NEW g \in Grids
  PROVE  FlightOf(gs, ts, g) \in Int
<1> DEFINE h == [t \in Tasks |-> PendingOf(gs, ts, t, g)]
<1>1. \A t \in Tasks : h[t] \in Int
  BY PendingType
<1> HIDE DEF h
<1>2. SumFunctionOnSet(h, Tasks) \in Int
  BY <1>1, SumType, TasksFinite
<1> QED
  BY <1>2 DEF FlightOf, h

\* Nothing is in flight when nothing is pending.
LEMMA FlightZero ==
  ASSUME NEW gs, NEW ts, NEW g,
         \A t \in Tasks : PendingOf(gs, ts, t, g) = 0
  PROVE  FlightOf(gs, ts, g) = 0
<1> DEFINE h == [t \in Tasks |-> PendingOf(gs, ts, t, g)]
<1>1. \A t \in Tasks : h[t] = 0
  OBVIOUS
<1> HIDE DEF h
<1>2. SumFunctionOnSet(h, Tasks) = 0
  BY <1>1, SumZero, TasksFinite
<1> QED
  BY <1>2 DEF FlightOf, h

\* What is in flight depends on what is pending only.
LEMMA FlightSame ==
  ASSUME NEW gs, NEW ts, NEW hs, NEW us, NEW g,
         \A t \in Tasks : PendingOf(hs, us, t, g) = PendingOf(gs, ts, t, g)
  PROVE  FlightOf(hs, us, g) = FlightOf(gs, ts, g)
<1>1. [t \in Tasks |-> PendingOf(hs, us, t, g)] =
      [t \in Tasks |-> PendingOf(gs, ts, t, g)]
  OBVIOUS
<1> QED
  BY <1>1 DEF FlightOf

\* One task's fill comes or goes.
LEMMA FlightUpdate ==
  ASSUME NEW gs \in [Grids -> GridRecords], NEW ts \in [Tasks -> TaskRecords],
         NEW hs \in [Grids -> GridRecords], NEW us \in [Tasks -> TaskRecords],
         NEW g \in Grids, NEW t \in Tasks,
         \A u \in Tasks \ {t} :
           PendingOf(hs, us, u, g) = PendingOf(gs, ts, u, g)
  PROVE  FlightOf(hs, us, g) = FlightOf(gs, ts, g)
           - PendingOf(gs, ts, t, g) + PendingOf(hs, us, t, g)
<1> DEFINE f == [u \in Tasks |-> PendingOf(gs, ts, u, g)]
           h == [u \in Tasks |-> PendingOf(hs, us, u, g)]
<1>1. \A u \in Tasks : f[u] \in Int /\ h[u] \in Int
  BY PendingType
<1>2. \A u \in Tasks : u # t => f[u] = h[u]
  OBVIOUS
<1>3. f[t] = PendingOf(gs, ts, t, g) /\ h[t] = PendingOf(hs, us, t, g)
  OBVIOUS
<1> HIDE DEF f, h
<1>4. SumFunctionOnSet(h, Tasks) = SumFunctionOnSet(f, Tasks) - f[t] + h[t]
  BY <1>1, <1>2, SumUpdate, TasksFinite
<1> QED
  BY <1>3, <1>4 DEF FlightOf, f, h

\* Fills under way, before and after a step.
LEMMA InFlightIs ==
  ASSUME BookTypes, NEW g \in Grids
  PROVE  InFlight(g) = FlightOf(grid, task, g) /\ InFlight(g) \in Int
<1>1. InFlight(g) = FlightOf(grid, task, g)
  BY FlightIsSum, Zenon DEF BookTypes, InFlight, Working, Delta
<1> QED
  BY <1>1, FlightType DEF BookTypes

\* The same of the state after a step.
LEMMA InFlightWillBe ==
  ASSUME BookTypes', NEW g \in Grids
  PROVE  InFlight(g)' = FlightOf(grid', task', g) /\ InFlight(g)' \in Int
<1>1. InFlight(g)' = FlightOf(grid', task', g)
  BY FlightIsSum, Zenon DEF BookTypes, InFlight, Working, Delta
<1> QED
  BY <1>1, FlightType DEF BookTypes

\* A grid nobody has a fill for has nothing in flight.
LEMMA NothingInFlight ==
  ASSUME BookTypes, NEW g \in Grids, \A t \in Tasks : Pending(t, g) = 0
  PROVE  InFlight(g) = 0
BY InFlightIs, FlightZero DEF Pending

\* The same of the state after a step.
LEMMA NothingInFlightThen ==
  ASSUME BookTypes', NEW g \in Grids, \A t \in Tasks : Pending(t, g)' = 0
  PROVE  InFlight(g)' = 0
BY InFlightWillBe, FlightZero DEF Pending

\* A step that changes no pending fill changes nothing in flight.
LEMMA InFlightKept ==
  ASSUME BookTypes, BookTypes', NEW g \in Grids,
         \A t \in Tasks : Pending(t, g)' = Pending(t, g)
  PROVE  InFlight(g)' = InFlight(g)
<1>1. FlightOf(grid', task', g) = FlightOf(grid, task, g)
  BY FlightSame DEF Pending
<1> QED
  BY <1>1, InFlightIs, InFlightWillBe

\* A step of one task changes what that task has pending.
LEMMA InFlightMoves ==
  ASSUME BookTypes, BookTypes', NEW g \in Grids, NEW t \in Tasks,
         \A u \in Tasks \ {t} : Pending(u, g)' = Pending(u, g)
  PROVE  InFlight(g)' = InFlight(g) - Pending(t, g) + Pending(t, g)'
<1>1. FlightOf(grid', task', g) = FlightOf(grid, task, g)
        - PendingOf(grid, task, t, g) + PendingOf(grid', task', t, g)
  <2>1. \A u \in Tasks \ {t} :
          PendingOf(grid', task', u, g) = PendingOf(grid, task, u, g)
    BY DEF Pending
  <2> QED
    BY <2>1, FlightUpdate DEF BookTypes
<1> QED
  BY <1>1, InFlightIs, InFlightWillBe DEF Pending

-----------------------------------------------------------------------------
(* Sums over levels. *)

\* Tasks, closing tasks, levels and grids.
LEMMA Basics ==
  /\ NLevels \in Nat \ {0} /\ Lots \in Nat \ {0} /\ MaxGrids \in Nat \ {0}
  /\ Closers \subseteq Tasks /\ "scheduler" \in Tasks
  /\ "scheduler" \notin Closers
  /\ \A t \in Tasks : t = "scheduler" \/ t \in Closers
  /\ Levels \subseteq Nat \ {0} /\ 1 \in Levels
  /\ 0 \notin Grids
BY GridConstants DEF Tasks, Levels, Grids

\* The records that the code makes have the types of their tables.
LEMMA Records ==
  /\ Flat \in HeldLevels
  /\ NoGrid \in GridRecords /\ NoGrid.status = "none"
  /\ NoRow \in RowRecords /\ NoRow.status = "none"
  /\ NoTask \in TaskRecords /\ NoTask.at = "idle"
  /\ \A b \in GridRecords :
       /\ RowOf(b) \in RowRecords
       /\ RowOf(b).status = b.status /\ RowOf(b).dir = b.dir
       /\ RowOf(b).net = b.net
<1>1. Flat \in HeldLevels
  BY DEF Flat, HeldLevels
<1>2. NoGrid \in GridRecords /\ NoGrid.status = "none"
  BY <1>1, Basics DEF NoGrid, GridRecords, Statuses, Directions
<1>3. NoRow \in RowRecords /\ NoRow.status = "none"
  BY Basics DEF NoRow, RowRecords, Statuses, Directions
<1>4. NoTask \in TaskRecords /\ NoTask.at = "idle"
  BY Basics DEF NoTask, TaskRecords, Places
<1>5. ASSUME NEW b \in GridRecords
      PROVE  /\ RowOf(b) \in RowRecords
             /\ RowOf(b).status = b.status /\ RowOf(b).dir = b.dir
             /\ RowOf(b).net = b.net
  BY DEF RowOf, GridRecords, RowRecords
<1> QED
  BY <1>1, <1>2, <1>3, <1>4, <1>5

\* What a grid holds is a sum over its levels.
LEMMA HeldIs ==
  ASSUME NEW held \in HeldLevels
  PROVE  Held(held) = SumFunctionOnSet(held, Levels) /\ Held(held) \in Int
<1>1. IsFiniteSet(Levels) /\ \A l \in Levels : held[l] \in Int
  BY FS_Interval, Basics DEF Levels, HeldLevels
<1>2. Held(held) = SumFunctionOnSet(held, Levels)
  BY DEF Held, SumFunction, HeldLevels
<1> QED
  BY <1>1, <1>2, SumType

\* A grid whose levels are empty holds nothing.
LEMMA HeldFlat == Held(Flat) = 0
<1>1. IsFiniteSet(Levels) /\ \A l \in Levels : Flat[l] = 0
  BY FS_Interval, Basics DEF Levels, Flat
<1> QED
  BY <1>1, HeldIs, Records, SumZero

\* One level changes what a grid holds by what it changes itself.
LEMMA HeldUpdate ==
  ASSUME NEW old \in HeldLevels, NEW new \in HeldLevels, NEW l \in Levels,
         \A m \in Levels : m # l => old[m] = new[m]
  PROVE  Held(new) = Held(old) - old[l] + new[l]
<1>1. /\ IsFiniteSet(Levels)
      /\ \A m \in Levels : old[m] \in Int /\ new[m] \in Int
  <2>1. IsFiniteSet(Levels)
    BY FS_Interval, Basics DEF Levels
  <2> QED
    BY <2>1 DEF HeldLevels
<1>2. SumFunctionOnSet(new, Levels) =
        SumFunctionOnSet(old, Levels) - old[l] + new[l]
  <2>1. \A m \in Levels : old[m] \in Int /\ new[m] \in Int
    BY <1>1
  <2>2. IsFiniteSet(Levels)
    BY <1>1
  <2> QED
    BY <2>1, <2>2, SumUpdate
<1> QED
  BY <1>2, HeldIs

-----------------------------------------------------------------------------
(* The invariant *)

Sending(t) == task[t].at \in {"submit", "sent", "ledger"}
AtRest(t) == task[t].at \in {"idle", "list"}
Busy(t, g) == ~AtRest(t) /\ task[t].grid = g

\* An order under way: what it opens is empty and still is, what it closes is
\* the whole level unless a close raced, and it fills no more than it asks.
Sized(t) ==
  Sending(t) =>
    /\ task[t].opening =>
         /\ t = "scheduler"
         /\ task[t].qty = Lots
         /\ grid[task[t].grid].held[task[t].level] = 0
    /\ ~task[t].opening /\ task[t].grid \notin raced =>
         task[t].qty = grid[task[t].grid].held[task[t].level]
    /\ task[t].at = "ledger" => 1 <= task[t].got /\ task[t].got <= task[t].qty

\* Who works on which grids.
Placed(t) ==
  /\ task[t].at \in {"opensave", "ticksave"} => t = "scheduler"
  /\ task[t].at \in {"list", "closesave"} => t \in Closers
  /\ ~AtRest(t) /\ t \in Closers =>
       grid[task[t].grid].status =
         IF task[t].at = "closesave" THEN "closed" ELSE "closing"
  /\ ~AtRest(t) /\ t = "scheduler" /\ task[t].grid \notin raced =>
       grid[task[t].grid].status = "active"

Fine(g) == g \notin raced \cup unfilled \cup torn

\* A close leaves nothing behind it.
Swept(t) ==
  t \in Closers /\ ~AtRest(t) /\ Fine(task[t].grid) =>
    /\ task[t].at \in {"walk", "save"} =>
         \A l \in Levels : l < task[t].next =>
           grid[task[t].grid].held[l] = 0
    /\ Sending(t) =>
         /\ ~task[t].opening
         /\ task[t].level = task[t].next - 1
         /\ \A l \in Levels : l < task[t].level =>
              grid[task[t].grid].held[l] = 0
    /\ task[t].at = "ledger" => task[t].got = task[t].qty

TaskOk(t) == Sized(t) /\ Placed(t) /\ Swept(t)

\* Two closes do not work on one grid.
OneCloser ==
  \A t, u \in Closers, g \in Grids : Busy(t, g) /\ Busy(u, g) => t = u

\* Net quantity: of a grid, of its row, and of a grid without fills.
NetOf(g) ==
  /\ g \notin torn \cup behind =>
       /\ grid[g].status # "none" => exch[g] = grid[g].net + InFlight(g)
       /\ grid[g].status = "none" /\ Restorable(g) => exch[g] = row[g].net
  /\ g \notin torn /\ ledger[g] = <<>> => exch[g] = InFlight(g)

\* Levels: of a grid, and of its ledger.
LevelsOf(g) ==
  /\ g \notin torn \cup raced =>
       /\ grid[g].status # "none" =>
            exch[g] = Sign(grid[g].dir) * Held(grid[g].held) + InFlight(g)
       /\ grid[g].status = "none" /\ Restorable(g) =>
            exch[g] = Sign(row[g].dir) * Held(Replay(ledger[g]))
  /\ grid[g].status # "none" /\ row[g].status # "none" =>
       row[g].dir = grid[g].dir
  /\ g \notin torn =>
       /\ grid[g].status # "none" => Replay(ledger[g]) = grid[g].held
       /\ \A l \in Levels : Replay(ledger[g])[l] <= Lots

\* What is closed stays closed, and holds nothing.
ClosedOf(g) ==
  /\ grid[g].status = "closed" /\ Fine(g) =>
       grid[g].held = Flat /\ exch[g] = 0
  /\ row[g].status = "closed" =>
       /\ grid[g].status \in {"closed", "none"}
       /\ Fine(g) => exch[g] = 0
  /\ row[g].status = "none" => row[g] = NoRow

BooksOf(g) == NetOf(g) /\ LevelsOf(g) /\ ClosedOf(g)

BooksInv ==
  /\ BookTypes
  /\ \A t \in Tasks : TaskOk(t)
  /\ OneCloser
  /\ \A g \in Grids : BooksOf(g)

-----------------------------------------------------------------------------
(* Frames *)

HistoryGrows ==
  /\ torn \subseteq torn' /\ behind \subseteq behind'
  /\ raced \subseteq raced' /\ unfilled \subseteq unfilled'

\* A task's invariant stands while its grid's status and levels do.
LEMMA TaskFrame ==
  ASSUME NEW t \in Tasks, TaskOk(t), task'[t] = task[t], HistoryGrows,
         AtRest(t) \/
           /\ grid'[task[t].grid].status = grid[task[t].grid].status
           /\ grid'[task[t].grid].held = grid[task[t].grid].held
  PROVE  TaskOk(t)'
BY DEF TaskOk, Sized, Placed, Swept, Fine, HistoryGrows, AtRest, Sending

\* Books stand while what they count stands.
LEMMA BooksStand ==
  ASSUME NEW g \in Grids, BooksOf(g), HistoryGrows,
         grid'[g].status = grid[g].status, grid'[g].dir = grid[g].dir,
         grid'[g].net = grid[g].net, grid'[g].held = grid[g].held,
         row'[g] = row[g], ledger'[g] = ledger[g],
         exch'[g] = exch[g], InFlight(g)' = InFlight(g)
  PROVE  BooksOf(g)'
BY DEF BooksOf, NetOf, LevelsOf, ClosedOf, Fine, HistoryGrows, Restorable

\* A task works alone on a grid that was not raced.
LEMMA WorksAlone ==
  ASSUME BooksInv, NEW t \in Tasks, NEW u \in Tasks, NEW g \in Grids,
         g \notin raced, Busy(t, g), Busy(u, g)
  PROVE  t = u
<1>1. CASE t \in Closers /\ u \in Closers
  BY <1>1 DEF BooksInv, OneCloser
<1>2. ASSUME NEW v \in Tasks, v \in Closers, Busy(v, g), Busy("scheduler", g)
      PROVE  FALSE
  BY <1>2, Basics DEF BooksInv, TaskOk, Placed, Busy
<1> QED
  BY <1>1, <1>2, Basics

\* What a task holds after its place alone has changed.
SameWork(r, s) ==
  /\ r.grid = s.grid /\ r.next = s.next /\ r.price = s.price
  /\ r.level = s.level /\ r.opening = s.opening /\ r.qty = s.qty
  /\ r.got = s.got /\ r.todo = s.todo

\* One task moves, the others stay.
LEMMA TaskMoves ==
  ASSUME BookTypes, NEW t \in Tasks, NEW r \in TaskRecords,
         task' = [task EXCEPT ![t] = r]
  PROVE  /\ task' \in [Tasks -> TaskRecords]
         /\ \A u \in Tasks \ {t} : task'[u] = task[u]
         /\ task'[t] = r
BY DEF BookTypes

\* A task that moves to another place keeps its work.
LEMMA AtMoves ==
  ASSUME BookTypes, NEW t \in Tasks, NEW a \in Places,
         task' = [task EXCEPT ![t].at = a]
  PROVE  /\ task' \in [Tasks -> TaskRecords]
         /\ \A u \in Tasks \ {t} : task'[u] = task[u]
         /\ task'[t].at = a
         /\ SameWork(task'[t], task[t])
<1>1. task[t] \in TaskRecords
  BY DEF BookTypes
<1>2. PICK r : r = [task[t] EXCEPT !.at = a]
  OBVIOUS
<1>3. r \in TaskRecords /\ r.at = a /\ SameWork(r, task[t])
  BY <1>1, <1>2 DEF TaskRecords, SameWork
<1>4. task' = [task EXCEPT ![t] = r]
  BY <1>2
<1> QED
  BY <1>3, <1>4, TaskMoves

-----------------------------------------------------------------------------
(* Steps of one task that change no books. *)

\* A fill lost in a step excuses the books of its grid.
LEMMA BooksStandUnlessTorn ==
  ASSUME NEW g \in Grids, BooksOf(g), HistoryGrows,
         grid'[g] = grid[g], row'[g] = row[g], ledger'[g] = ledger[g],
         g \notin torn' => exch'[g] = exch[g] /\ InFlight(g)' = InFlight(g)
  PROVE  BooksOf(g)'
<1>1. CASE g \notin torn'
  BY <1>1, BooksStand
<1>2. CASE g \in torn'
  BY <1>2 DEF BooksOf, NetOf, LevelsOf, ClosedOf, Fine
<1> QED
  BY <1>1, <1>2

\* A task moves without touching books and tables; what it changes at the
\* exchange is a fill that got lost.
LEMMA TaskOnly ==
  ASSUME BooksInv, HistoryGrows, NEW t \in Tasks,
         task' \in [Tasks -> TaskRecords],
         \A u \in Tasks \ {t} : task'[u] = task[u],
         task[t].at # "ledger", task'[t].at # "ledger",
         UNCHANGED <<grid, row, ledger>>,
         exch' \in [Grids -> Int],
         \A h \in Grids : h \notin torn' => exch'[h] = exch[h],
         TaskOk(t)',
         t \in Closers => \A g \in Grids : Busy(t, g)' => Busy(t, g)
  PROVE  BooksInv'
<1>1. BookTypes'
  BY DEF BooksInv, BookTypes
<1>2. \A u \in Tasks : TaskOk(u)'
  <2> SUFFICES ASSUME NEW u \in Tasks, u # t PROVE TaskOk(u)'
    OBVIOUS
  <2> QED
    BY TaskFrame DEF BooksInv
<1>3. OneCloser'
  <2> SUFFICES ASSUME NEW u \in Closers, NEW v \in Closers, NEW g \in Grids,
                      Busy(u, g)', Busy(v, g)'
               PROVE  u = v
    BY DEF OneCloser
  <2>1. u \in Tasks /\ v \in Tasks
    BY Basics
  <2>2. Busy(u, g) /\ Busy(v, g)
    BY <2>1 DEF Busy, AtRest
  <2> QED
    BY <2>2 DEF BooksInv, OneCloser
<1>4. ASSUME NEW g \in Grids PROVE BooksOf(g)'
  <2>1. \A u \in Tasks : Pending(u, g)' = Pending(u, g)
    BY DEF Pending, PendingOf
  <2>2. InFlight(g)' = InFlight(g)
    BY <1>1, <2>1, InFlightKept DEF BooksInv
  <2> QED
    BY <2>2, BooksStandUnlessTorn DEF BooksInv
<1> QED
  BY <1>1, <1>2, <1>3, <1>4 DEF BooksInv

\* The switches, and what a closing task does between two grids.
LEMMA ListSteps ==
  ASSUME BooksInv,
         \/ \E t \in Closers, g \in Grids : SkipNext(t, g)
         \/ \E t \in Closers : EndList(t)
         \/ Deactivate
         \/ Liquidate
         \/ Activate
         \/ Kill
         \/ Release
         \/ UNCHANGED gridVars
  PROVE  BooksInv'
<1>1. /\ UNCHANGED <<grid, row, ledger, exch>>
      /\ UNCHANGED <<torn, behind, raced, unfilled>>
  BY DEF SkipNext, EndList, Deactivate, Liquidate, Activate, Kill, Release,
         gridVars, books, tables, history
<1>2. BookTypes /\ exch' \in [Grids -> Int] /\ HistoryGrows
  BY <1>1 DEF BooksInv, BookTypes, HistoryGrows
<1>3. ASSUME NEW t \in Closers, AtRest(t), AtRest(t)',
             NEW r \in TaskRecords, task' = [task EXCEPT ![t] = r]
      PROVE  BooksInv'
  <2>1. t \in Tasks /\ t # "scheduler"
    BY Basics
  <2>2. /\ task' \in [Tasks -> TaskRecords]
        /\ \A u \in Tasks \ {t} : task'[u] = task[u]
    BY <1>2, <1>3, <2>1, TaskMoves
  <2>3. TaskOk(t)'
    BY <1>3, <2>1 DEF TaskOk, Sized, Placed, Swept, AtRest, Sending
  <2> QED
    BY <1>1, <1>2, <1>3, <2>1, <2>2, <2>3, TaskOnly DEF AtRest, Busy
<1>4. ASSUME NEW t \in Closers, NEW g \in Grids, SkipNext(t, g)
      PROVE  BooksInv'
  <2>1. task[t] \in TaskRecords /\ task[t].at = "list"
    BY <1>2, <1>4, Basics DEF BookTypes, SkipNext
  <2>2. PICK r : r = [task[t] EXCEPT !.todo = @ \ {g}]
    OBVIOUS
  <2>3. r \in TaskRecords /\ r.at = "list"
    BY <2>1, <2>2 DEF TaskRecords
  <2>4. task' = [task EXCEPT ![t] = r]
    BY <1>4, <2>2 DEF SkipNext
  <2>5. task'[t] = r
    BY <1>2, <2>3, <2>4, TaskMoves, Basics
  <2> QED
    BY <1>3, <2>1, <2>3, <2>4, <2>5 DEF AtRest
<1>5. ASSUME NEW t \in Closers, EndList(t)
      PROVE  BooksInv'
  <2>1. task' = [task EXCEPT ![t] = NoTask] /\ task[t].at = "list"
    BY <1>5 DEF EndList
  <2>2. task'[t] = NoTask
    BY <1>2, <2>1, TaskMoves, Basics, Records
  <2> QED
    BY <1>3, <2>1, <2>2, Records DEF AtRest
<1>6. CASE UNCHANGED task
  <2>1. "scheduler" \in Tasks
    BY Basics
  <2>2. BookTypes'
    BY <1>1, <1>6 DEF BooksInv, BookTypes
  <2>3. \A t \in Tasks : TaskOk(t)'
    BY <1>1, <1>2, <1>6, TaskFrame DEF BooksInv
  <2>4. OneCloser'
    BY <1>6 DEF BooksInv, OneCloser, Busy, AtRest
  <2>5. ASSUME NEW g \in Grids PROVE BooksOf(g)'
    <3>1. \A u \in Tasks : Pending(u, g)' = Pending(u, g)
      BY <1>1, <1>6 DEF Pending
    <3>2. InFlight(g)' = InFlight(g)
      BY <2>2, <3>1, InFlightKept DEF BooksInv
    <3> QED
      BY <1>1, <1>2, <3>2, BooksStand DEF BooksInv
  <2> QED
    BY <2>2, <2>3, <2>4, <2>5 DEF BooksInv
<1>7. ASSUME NEW t \in Closers, task[t].at = "idle",
             task' = [task EXCEPT ![t] = List(t)]
      PROVE  BooksInv'
  <2>1. PICK r : r = List(t)
    OBVIOUS
  <2>2. r \in TaskRecords /\ r.at = "list"
    BY <2>1, Records DEF List, TaskRecords, ActiveGrids, Places
  <2>3. task'[t] = r
    BY <1>2, <1>7, <2>1, <2>2, TaskMoves, Basics
  <2> QED
    BY <1>3, <1>7, <2>1, <2>2, <2>3 DEF AtRest
<1>8. CASE Deactivate \/ Liquidate
  <2>1. \/ UNCHANGED task
        \/ \E t \in Closers : /\ task[t].at = "idle"
                              /\ task' = [task EXCEPT ![t] = List(t)]
    BY <1>8 DEF Deactivate, Liquidate, MayStart
  <2> QED
    BY <1>6, <1>7, <2>1
<1>9. CASE Activate \/ Kill \/ Release \/ UNCHANGED gridVars
  BY <1>6, <1>9 DEF Activate, Kill, Release, gridVars
<1> QED
  BY <1>4, <1>5, <1>8, <1>9

\* A tick begins: the scheduler takes up an active grid.
LEMMA TickSteps ==
  ASSUME BooksInv, NEW g \in Grids, NEW p \in Levels, BeginTick(g, p)
  PROVE  BooksInv'
<1>1. PICK r : r = [NoTask EXCEPT !.at = "walk", !.grid = g, !.price = p]
  OBVIOUS
<1>2. r \in TaskRecords /\ r.at = "walk" /\ r.grid = g
  BY <1>1, Records DEF TaskRecords, Places
<1>3. task' = [task EXCEPT !["scheduler"] = r]
  BY <1>1 DEF BeginTick
<1>4. /\ task' \in [Tasks -> TaskRecords]
      /\ \A u \in Tasks \ {"scheduler"} : task'[u] = task[u]
      /\ task'["scheduler"] = r
  BY <1>2, <1>3, TaskMoves, Basics DEF BooksInv
<1>5. /\ UNCHANGED <<grid, row, ledger, exch>>
      /\ UNCHANGED <<torn, behind, raced, unfilled>>
      /\ task["scheduler"].at = "idle" /\ IsActive(g)
  BY DEF BeginTick, MayStart, books, tables, history
<1>6. TaskOk("scheduler")'
  BY <1>2, <1>4, <1>5, Basics
  DEF TaskOk, Sized, Placed, Swept, AtRest, Sending, IsActive
<1>7. exch' \in [Grids -> Int] /\ HistoryGrows
  BY <1>5 DEF BooksInv, BookTypes, HistoryGrows
<1> QED
  BY <1>2, <1>4, <1>5, <1>6, <1>7, TaskOnly, Basics

\* What a walk picks: the first level that is due.
LEMMA WalkPicks ==
  ASSUME BooksInv, TasksWork, NEW t \in Tasks, Walk(t)
  PROVE  \E i \in Nat, l \in Levels, o \in BOOLEAN, q \in Nat :
           /\ task' = [task EXCEPT ![t] =
                [@ EXCEPT !.at = "submit", !.next = i + 1, !.level = l,
                          !.opening = o, !.qty = q]]
           /\ i + 1 \in 1..NLevels + 1
           /\ o => /\ t = "scheduler"
                   /\ q = Lots
                   /\ grid[task[t].grid].held[l] = 0
           /\ ~o => q = grid[task[t].grid].held[l]
           /\ t # "scheduler" =>
                /\ ~o /\ l = i
                /\ \A m \in Levels : task[t].next <= m /\ m < i =>
                     grid[task[t].grid].held[m] = 0
<1> DEFINE g == task[t].grid
           D == Due(t)
           i == Min(D)
           l == IF t = "scheduler" THEN Entry(g, i) ELSE i
           o == t = "scheduler" /\ TickOpens(t, i)
           q == IF o THEN Lots ELSE grid[g].held[l]
<1>1. /\ g \in Grids /\ task[t] \in TaskRecords /\ grid[g] \in GridRecords
      /\ task[t].next \in 1..NLevels + 1
      /\ \A m \in Levels : grid[g].held[m] \in Nat
  <2>1. g \in Grids
    BY DEF TasksWork, Walk
  <2>2. task[t] \in TaskRecords /\ grid[g] \in GridRecords
    BY <2>1 DEF BooksInv, BookTypes
  <2>3. grid[g].held \in HeldLevels
    BY <2>2 DEF GridRecords
  <2> QED
    BY <2>1, <2>2, <2>3 DEF TaskRecords, HeldLevels
<1>2. D \in SUBSET Nat /\ D # {}
  BY <1>1, Basics DEF Walk, Due
<1>3. i \in D /\ \A j \in D : i <= j
  <2> HIDE DEF D
  <2> QED
    BY <1>2, FirstPlace
<1>4. i \in task[t].next..NLevels /\ (t = "scheduler" => i <= NLevels - 1)
  BY <1>1, <1>3, Basics DEF Due
<1>5. l \in Levels
  <2> HIDE DEF i, D
  <2>1. i \in Levels /\ (t = "scheduler" => i + 1 \in Levels)
    BY <1>1, <1>4, Basics DEF Levels
  <2> QED
    BY <2>1 DEF Entry
<1>6. o \in BOOLEAN
  BY Zenon
<1>7. q \in Nat
  <2> HIDE DEF l, o
  <2> QED
    BY <1>1, <1>5, Basics
<1>8. task' = [task EXCEPT ![t] =
                [@ EXCEPT !.at = "submit", !.next = i + 1, !.level = l,
                          !.opening = o, !.qty = q]]
  BY DEF Walk
<1>9. o => /\ t = "scheduler" /\ q = Lots /\ grid[g].held[l] = 0
  BY DEF TickOpens
<1>10. ~o => q = grid[g].held[l]
  OBVIOUS
<1>11. t # "scheduler" =>
         \A m \in Levels : task[t].next <= m /\ m < i => grid[g].held[m] = 0
  <2> SUFFICES ASSUME t # "scheduler", NEW m \in Levels,
                      task[t].next <= m, m < i
               PROVE  grid[g].held[m] = 0
    OBVIOUS
  <2>1. i \in Nat /\ m \in Nat /\ task[t].next \in Nat
    BY <1>2, <1>3, <1>1, Basics
  <2>2. m \notin D
    <3> HIDE DEF D, i
    <3> QED
      BY <1>3, <2>1
  <2>3. ~(grid[g].held[m] > 0)
    BY <2>2, <2>1, Basics DEF Due, Levels
  <2> QED
    BY <1>1, <2>3
<1>12. t # "scheduler" => ~o /\ l = i
  OBVIOUS
<1>13. i \in Nat /\ i + 1 \in 1..NLevels + 1
  <2> HIDE DEF i
  <2> QED
    BY <1>1, <1>4, Basics
<1> HIDE DEF g, D, i, l, o, q
<1> QED
  BY <1>5, <1>6, <1>7, <1>8, <1>9, <1>10, <1>11, <1>12, <1>13 DEF g

\* The next order is chosen: its size is what its level holds, or a whole
\* opening order for an empty level.
LEMMA WalkKeepsBooks ==
  ASSUME BooksInv, TasksWork, NEW t \in Tasks, Walk(t)
  PROVE  BooksInv'
<1>1. PICK i \in Nat, l \in Levels, o \in BOOLEAN, q \in Nat :
           /\ task' = [task EXCEPT ![t] =
                [@ EXCEPT !.at = "submit", !.next = i + 1, !.level = l,
                          !.opening = o, !.qty = q]]
           /\ i + 1 \in 1..NLevels + 1
           /\ o => /\ t = "scheduler"
                   /\ q = Lots
                   /\ grid[task[t].grid].held[l] = 0
           /\ ~o => q = grid[task[t].grid].held[l]
           /\ t # "scheduler" =>
                /\ ~o /\ l = i
                /\ \A m \in Levels : task[t].next <= m /\ m < i =>
                     grid[task[t].grid].held[m] = 0
  BY WalkPicks
<1>2. task[t] \in TaskRecords /\ task[t].at = "walk"
  BY DEF Walk, BooksInv, BookTypes
<1>3. PICK r : r = [task[t] EXCEPT !.at = "submit", !.next = i + 1,
                                   !.level = l, !.opening = o, !.qty = q]
  OBVIOUS
<1>4. /\ r \in TaskRecords /\ r.at = "submit" /\ r.grid = task[t].grid
      /\ r.next = i + 1 /\ r.level = l /\ r.opening = o /\ r.qty = q
  BY <1>1, <1>2, <1>3 DEF TaskRecords, Places
<1>5. task' = [task EXCEPT ![t] = r]
  BY <1>1, <1>3
<1>6. /\ task' \in [Tasks -> TaskRecords]
      /\ \A u \in Tasks \ {t} : task'[u] = task[u]
      /\ task'[t] = r
  BY <1>4, <1>5, TaskMoves DEF BooksInv
<1>7. /\ UNCHANGED <<grid, row, ledger, exch>>
      /\ UNCHANGED <<torn, behind, raced, unfilled>>
  BY DEF Walk, books, tables, history
<1>8. exch' \in [Grids -> Int] /\ HistoryGrows
  BY <1>7 DEF BooksInv, BookTypes, HistoryGrows
<1>9. TaskOk(t)'
  <2>1. Sized(t)'
    BY <1>1, <1>4, <1>6, <1>7 DEF Sized
  <2>2. Placed(t)'
    BY <1>2, <1>4, <1>6, <1>7 DEF BooksInv, TaskOk, Placed, AtRest
  <2>3. Swept(t)'
    <3> SUFFICES ASSUME t \in Closers, Fine(task[t].grid)
                 PROVE  Swept(t)'
      BY <1>4, <1>6, <1>7 DEF Swept, Fine
    <3>1. \A m \in Levels : m < task[t].next =>
            grid[task[t].grid].held[m] = 0
      BY <1>2 DEF BooksInv, TaskOk, Swept, AtRest
    <3>2. \A m \in Levels : m < l => grid[task[t].grid].held[m] = 0
      <4> SUFFICES ASSUME NEW m \in Levels, m < l
                   PROVE  grid[task[t].grid].held[m] = 0
        OBVIOUS
      <4>1. m \in Nat /\ task[t].next \in Nat
        BY <1>2, Basics DEF TaskRecords
      <4>2. l = i
        BY <1>1, Basics
      <4> QED
        BY <1>1, <3>1, <4>1, <4>2, Basics
    <3>3. ~o /\ l = i
      BY <1>1, Basics
    <3> QED
      BY <1>4, <1>6, <1>7, <3>2, <3>3 DEF Swept, Sending
  <2> QED
    BY <2>1, <2>2, <2>3 DEF TaskOk
<1> QED
  BY <1>2, <1>4, <1>6, <1>7, <1>8, <1>9, TaskOnly DEF Busy, AtRest

\* Orders that do not get through, and answers that do not arrive.
LEMMA NoFillSteps ==
  ASSUME BooksInv, TasksWork, NEW t \in Tasks,
         \/ Refuse(t) \/ Send(t)
         \/ \E n \in 1..task[t].qty : AnswerLost(t, n)
  PROVE  BooksInv'
<1>1. PICK a \in {"walk", "sent"} :
        /\ task' = [task EXCEPT ![t].at = a]
        /\ task[t].at \in {"submit", "sent"}
        /\ a = "walk" => unfilled' =
             unfilled \cup (IF task[t].opening THEN {} ELSE {task[t].grid})
        /\ a = "sent" => unfilled' = unfilled
  BY DEF Refuse, Send, AnswerLost, history
<1>2. /\ task' \in [Tasks -> TaskRecords]
      /\ \A u \in Tasks \ {t} : task'[u] = task[u]
      /\ task'[t].at = a /\ SameWork(task'[t], task[t])
  BY <1>1, AtMoves DEF BooksInv, Places
<1>3. /\ UNCHANGED <<grid, row, ledger>> /\ HistoryGrows
      /\ UNCHANGED raced
  BY DEF Refuse, Send, AnswerLost, books, tables, history, HistoryGrows
<1>4. /\ task[t] \in TaskRecords /\ task[t].grid \in Grids
      /\ exch \in [Grids -> Int]
  BY <1>1 DEF TasksWork, BooksInv, BookTypes
<1>5. /\ exch' \in [Grids -> Int]
      /\ \A h \in Grids : h \notin torn' => exch'[h] = exch[h]
  <2>1. CASE Refuse(t) \/ Send(t)
    BY <1>4, <2>1 DEF Refuse, Send
  <2>2. ASSUME NEW n \in 1..task[t].qty, AnswerLost(t, n)
        PROVE  /\ exch' \in [Grids -> Int]
               /\ \A h \in Grids : h \notin torn' => exch'[h] = exch[h]
    <3>1. n \in Int
      OBVIOUS
    <3>2. Delta(t, n) \in Int
      BY <3>1 DEF Delta, Sign
    <3>3. /\ exch' = [exch EXCEPT ![task[t].grid] = @ + Delta(t, n)]
          /\ torn' = torn \cup {task[t].grid}
      BY <2>2 DEF AnswerLost
    <3> QED
      BY <1>4, <3>2, <3>3
  <2> QED
    BY <2>1, <2>2
<1>6. TaskOk(t)'
  <2>1. TaskOk(t)
    BY DEF BooksInv
  <2>2. Sized(t)'
    BY <1>1, <1>2, <1>3, <2>1 DEF TaskOk, Sized, Sending, SameWork
  <2>3. Placed(t)'
    BY <1>1, <1>2, <1>3, <2>1 DEF TaskOk, Placed, AtRest, SameWork
  <2>4. Swept(t)'
    <3> SUFFICES ASSUME t \in Closers, Fine(task[t].grid)'
                 PROVE  Swept(t)'
      BY DEF Swept, Fine
    <3>1. Fine(task[t].grid) /\ task'[t].grid = task[t].grid
      BY <1>2, <1>3 DEF Fine, HistoryGrows, SameWork
    <3>2. ~task[t].opening
      BY <1>1, <2>1, <3>1 DEF TaskOk, Swept, AtRest, Sending
    <3>3. a = "sent"
      BY <1>1, <3>1, <3>2 DEF Fine
    <3> QED
      BY <1>1, <1>2, <1>3, <2>1, <3>1, <3>3
      DEF TaskOk, Swept, AtRest, Sending, SameWork
  <2> QED
    BY <2>2, <2>3, <2>4 DEF TaskOk
<1>7. task[t].at # "ledger" /\ task'[t].at # "ledger"
  BY <1>1, <1>2
<1>8. \A g \in Grids : Busy(t, g)' => Busy(t, g)
  BY <1>1, <1>2 DEF Busy, AtRest, SameWork
<1> QED
  BY <1>2, <1>3, <1>5, <1>6, <1>7, <1>8, TaskOnly

-----------------------------------------------------------------------------
(* Answers. *)

\* A task at work on a grid that is fine works on one that is not closed,
\* unless it has just closed it.
LEMMA WorksOnOpen ==
  ASSUME BooksInv, NEW t \in Tasks, ~AtRest(t), task[t].at # "closesave",
         Fine(task[t].grid)
  PROVE  grid[task[t].grid].status \in {"active", "closing"}
BY Basics DEF BooksInv, TaskOk, Placed, Fine

\* Long grids count upwards, short grids downwards.
LEMMA SignIs == \A d : Sign(d) = 1 \/ Sign(d) = -1
BY DEF Sign

\* The exchange answers: what it filled is now in flight.
LEMMA AnswerStep ==
  ASSUME BooksInv, TasksWork, NEW t \in Tasks,
         NEW n \in 0..task[t].qty, Answer(t, n)
  PROVE  BooksInv'
<1>0. PICK g, d, a :
        /\ g = task[t].grid
        /\ d = Delta(t, n)
        /\ a = IF n = 0 THEN "walk" ELSE "ledger"
  OBVIOUS
<1>1. /\ task[t] \in TaskRecords /\ g \in Grids /\ task[t].at = "sent"
      /\ task[t].grid = g
      /\ n \in Nat /\ n <= task[t].qty /\ task[t].qty \in Nat
      /\ grid \in [Grids -> GridRecords] /\ exch \in [Grids -> Int]
      /\ grid[g].status # "none" /\ grid[g] \in GridRecords
  <2>1. task[t].at = "sent" /\ task[t] \in TaskRecords
    BY DEF Answer, BooksInv, BookTypes
  <2>2. g \in Grids /\ grid[g].status # "none"
    BY <1>0, <2>1 DEF TasksWork
  <2>3. task[t].qty \in Nat
    BY <2>1 DEF TaskRecords
  <2>4. n \in Nat /\ n <= task[t].qty
    BY <2>3
  <2> QED
    BY <1>0, <2>1, <2>2, <2>3, <2>4 DEF BooksInv, BookTypes
<1>2. PICK r : r = [task[t] EXCEPT !.got = n, !.at = a]
  OBVIOUS
<1>3. /\ r \in TaskRecords /\ r.at = a /\ r.got = n /\ r.grid = g
      /\ r.next = task[t].next /\ r.level = task[t].level
      /\ r.opening = task[t].opening /\ r.qty = task[t].qty
      /\ r.at = IF n = 0 THEN "walk" ELSE "ledger"
  BY <1>0, <1>1, <1>2 DEF TaskRecords, Places
<1>4. task' = [task EXCEPT ![t] = r]
  BY <1>0, <1>2 DEF Answer
<1>5. /\ task' \in [Tasks -> TaskRecords]
      /\ \A u \in Tasks \ {t} : task'[u] = task[u]
      /\ task'[t] = r
  BY <1>3, <1>4, TaskMoves DEF BooksInv
<1>6. /\ UNCHANGED <<grid, row, ledger, torn, behind, raced>>
      /\ exch' = [exch EXCEPT ![g] = @ + d]
      /\ unfilled' = unfilled \cup
           (IF ~task[t].opening /\ n < task[t].qty THEN {g} ELSE {})
  BY <1>0 DEF Answer, books, tables
<1>7. /\ d \in Int
      /\ d = Sign(grid[g].dir) * (IF task[t].opening THEN n ELSE -n)
  BY <1>0, <1>1, SignIs DEF Delta
<1>8. HistoryGrows
  BY <1>6 DEF HistoryGrows
<1>9. BookTypes'
  <2>1. exch' \in [Grids -> Int]
    BY <1>1, <1>6, <1>7
  <2> QED
    BY <1>5, <1>6, <2>1 DEF BooksInv, BookTypes
<1>10. TaskOk(t)'
  <2>1. TaskOk(t)
    BY DEF BooksInv
  <2>2. Sized(t)'
    BY <1>1, <1>3, <1>5, <1>6, <2>1 DEF TaskOk, Sized, Sending
  <2>3. Placed(t)'
    BY <1>1, <1>3, <1>5, <1>6, <2>1 DEF TaskOk, Placed, AtRest
  <2>4. Swept(t)'
    <3> SUFFICES ASSUME t \in Closers, Fine(g)'
                 PROVE  Swept(t)'
      BY <1>3, <1>5 DEF Swept, Fine
    <3>1. Fine(g)
      BY <1>6 DEF Fine
    <3>2. /\ ~task[t].opening /\ task[t].level = task[t].next - 1
          /\ \A l \in Levels : l < task[t].level => grid[g].held[l] = 0
      BY <1>1, <2>1, <3>1 DEF TaskOk, Swept, AtRest, Sending
    <3>3. n = task[t].qty
      <4>1. g \notin unfilled'
        BY DEF Fine
      <4> QED
        BY <1>1, <1>6, <3>2, <4>1
    <3>4. CASE n = 0
      <4>1. grid[g].held[task[t].level] = 0
        BY <1>1, <2>1, <3>1, <3>2, <3>3, <3>4
        DEF TaskOk, Sized, Sending, Fine
      <4>2. \A l \in Levels : l < task[t].next => grid[g].held[l] = 0
        <5> SUFFICES ASSUME NEW l \in Levels, l < task[t].next
                     PROVE  grid[g].held[l] = 0
          OBVIOUS
        <5>1. l \in Nat /\ task[t].next \in Nat
          BY <1>1, Basics DEF TaskRecords
        <5>2. l < task[t].level \/ l = task[t].level
          BY <3>2, <5>1
        <5> QED
          BY <3>2, <4>1, <5>2
      <4> QED
        BY <1>3, <1>5, <1>6, <3>4, <4>2 DEF Swept, Sending
    <3>5. CASE n # 0
      BY <1>3, <1>5, <1>6, <3>2, <3>3, <3>5 DEF Swept, Sending
    <3> QED
      BY <3>4, <3>5
  <2> QED
    BY <2>2, <2>3, <2>4 DEF TaskOk
<1>11. \A u \in Tasks : TaskOk(u)'
  <2> SUFFICES ASSUME NEW u \in Tasks, u # t PROVE TaskOk(u)'
    BY <1>10
  <2> QED
    BY <1>5, <1>6, <1>8, TaskFrame DEF BooksInv
<1>12. OneCloser'
  <2>1. \A u \in Tasks, h \in Grids : Busy(u, h)' => Busy(u, h)
    BY <1>1, <1>3, <1>5 DEF Busy, AtRest
  <2> QED
    BY <2>1, Basics DEF BooksInv, OneCloser
<1>13. ASSUME NEW h \in Grids, h # g PROVE BooksOf(h)'
  <2>1. \A u \in Tasks : Pending(u, h)' = Pending(u, h)
    BY <1>1, <1>3, <1>5, <1>6, <1>13 DEF Pending, PendingOf
  <2>2. InFlight(h)' = InFlight(h)
    BY <1>9, <2>1, InFlightKept DEF BooksInv
  <2>3. exch'[h] = exch[h]
    BY <1>1, <1>6, <1>13
  <2> QED
    BY <1>6, <1>8, <2>2, <2>3, BooksStand DEF BooksInv
<1>14. BooksOf(g)'
  <2>1. BooksOf(g) /\ InFlight(g) \in Int /\ exch[g] \in Int
    BY <1>1, InFlightIs DEF BooksInv
  <2>2. InFlight(g)' = InFlight(g) + d
    <3>1. \A u \in Tasks \ {t} : Pending(u, g)' = Pending(u, g)
      BY <1>5, <1>6 DEF Pending, PendingOf
    <3>2. Pending(t, g) = 0
      BY <1>1 DEF Pending, PendingOf
    <3>3. Pending(t, g)' = d
      <4>1. CASE n = 0
        <5>1. d = 0
          BY <1>7, <4>1, SignIs
        <5> QED
          BY <1>3, <1>5, <4>1, <5>1 DEF Pending, PendingOf
      <4>2. CASE n # 0
        BY <1>3, <1>5, <1>6, <1>7, <4>2 DEF Pending, PendingOf
      <4> QED
        BY <4>1, <4>2
    <3>4. InFlight(g)' = InFlight(g) - Pending(t, g) + Pending(t, g)'
      BY <1>1, <1>9, <3>1, InFlightMoves DEF BooksInv
    <3> QED
      BY <1>7, <2>1, <3>2, <3>3, <3>4
  <2>3. exch'[g] = exch[g] + d
    BY <1>1, <1>6
  <2>4. Fine(g) => grid[g].status \in {"active", "closing"}
    BY <1>1, WorksOnOpen DEF AtRest
  <2>5. Fine(g)' => Fine(g)
    BY <1>6 DEF Fine
  <2>6. NetOf(g)'
    <3>1. g \notin torn \cup behind =>
            exch'[g] = grid[g].net + InFlight(g)'
      <4>1. grid[g].net \in Int
        BY <1>1 DEF GridRecords
      <4> QED
        BY <1>1, <1>7, <2>1, <2>2, <2>3, <4>1 DEF BooksOf, NetOf
    <3>2. g \notin torn /\ ledger[g] = <<>> => exch'[g] = InFlight(g)'
      BY <1>7, <2>1, <2>2, <2>3 DEF BooksOf, NetOf
    <3> QED
      BY <1>1, <1>6, <3>1, <3>2 DEF NetOf
  <2>7. LevelsOf(g)'
    <3> DEFINE w == Sign(grid[g].dir) * Held(grid[g].held)
    <3>1. g \notin torn \cup raced => exch'[g] = w + InFlight(g)'
      <4>1. w \in Int
        BY <1>1, HeldIs, SignIs DEF GridRecords
      <4>2. g \notin torn \cup raced => exch[g] = w + InFlight(g)
        BY <1>1, <2>1 DEF BooksOf, LevelsOf
      <4> HIDE DEF w
      <4> QED
        BY <1>7, <2>1, <2>2, <2>3, <4>1, <4>2
    <3> QED
      BY <1>1, <1>6, <2>1, <3>1 DEF BooksOf, LevelsOf
  <2>8. ClosedOf(g)'
    BY <1>1, <1>6, <2>1, <2>4, <2>5 DEF BooksOf, ClosedOf
  <2> QED
    BY <2>6, <2>7, <2>8 DEF BooksOf
<1> QED
  BY <1>9, <1>11, <1>12, <1>13, <1>14 DEF BooksInv

-----------------------------------------------------------------------------
(* Booking a fill. *)

\* What booking a fill does to a grid and to its ledger.
Booked(t, g, l, n, d, h, f, b) ==
  /\ task[t].at = "ledger" /\ g = task[t].grid /\ l = task[t].level
  /\ n = task[t].got /\ 1 <= n /\ n <= task[t].qty
  /\ d = Sign(grid[g].dir) * (IF task[t].opening THEN n ELSE -n)
  /\ h = [grid[g].held EXCEPT ![l] =
            IF task[t].opening THEN n ELSE Rest(@, n)]
  /\ f.level = l /\ f.opening = task[t].opening /\ f.qty = n
  /\ b.held = h /\ b.net = grid[g].net + d
  /\ b.status = grid[g].status /\ b.dir = grid[g].dir
  /\ grid' = [grid EXCEPT ![g] = b]
  /\ \/ /\ ledger' = [ledger EXCEPT ![g] = Append(@, f)]
        /\ torn' = torn
     \/ /\ ledger' = ledger
        /\ torn' = torn \cup {g}

\* Booking a fill, in terms of the values it reads.
LEMMA BookIs ==
  ASSUME BooksInv, TasksWork, NEW t \in Tasks, Book(t)
  PROVE  \E g \in Grids, l \in Levels, n \in Nat, d \in Int, h \in HeldLevels,
            f \in Fills, b \in GridRecords : Booked(t, g, l, n, d, h, f, b)
<1>1. PICK g, l, n, f :
        /\ g = task[t].grid /\ l = task[t].level /\ n = task[t].got
        /\ f = Fill(t)
  OBVIOUS
<1>2. /\ task[t] \in TaskRecords /\ task[t].at = "ledger"
      /\ g \in Grids /\ grid[g] \in GridRecords /\ grid[g].held \in HeldLevels
      /\ n \in Nat /\ l \in Levels /\ task[t].qty \in Nat
      /\ 1 <= n /\ n <= task[t].qty
  <2>1. task[t] \in TaskRecords /\ task[t].at = "ledger"
    BY DEF BooksInv, BookTypes, Book
  <2>2. g \in Grids
    BY <1>1, <2>1 DEF TasksWork
  <2>3. grid[g] \in GridRecords
    BY <2>2 DEF BooksInv, BookTypes
  <2>4. grid[g].held \in HeldLevels
    BY <2>3 DEF GridRecords
  <2>5. n \in Nat /\ l \in Levels /\ task[t].qty \in Nat
    BY <1>1, <2>1 DEF TaskRecords
  <2>6. 1 <= n /\ n <= task[t].qty
    BY <1>1, <2>1 DEF BooksInv, TaskOk, Sized, Sending
  <2> QED
    BY <2>1, <2>2, <2>3, <2>4, <2>5, <2>6
<1>3. PICK d : d = Delta(t, n)
  OBVIOUS
<1>4. /\ d \in Int
      /\ d = Sign(grid[g].dir) * (IF task[t].opening THEN n ELSE -n)
  BY <1>1, <1>2, <1>3, SignIs DEF Delta
<1>5. PICK h : h = [grid[g].held EXCEPT ![l] =
                      IF task[t].opening THEN n ELSE Rest(@, n)]
  OBVIOUS
<1>6. h \in HeldLevels
  BY <1>2, <1>5 DEF HeldLevels, Rest
<1>7. f \in Fills /\ f.level = l /\ f.opening = task[t].opening /\ f.qty = n
  <2>1. PICK w : w = (task[t].got = task[t].qty)
    OBVIOUS
  <2>2. w \in BOOLEAN
    BY <2>1
  <2>3. f = [level |-> l, opening |-> task[t].opening, qty |-> n, whole |-> w]
    BY <1>1, <2>1 DEF Fill
  <2>4. task[t].opening \in BOOLEAN
    BY <1>2 DEF TaskRecords
  <2> QED
    BY <1>2, <2>2, <2>3, <2>4 DEF Fills
<1>8. PICK b : b = [grid[g] EXCEPT !.held = h, !.net = grid[g].net + d]
  OBVIOUS
<1>10. /\ b \in GridRecords /\ b.held = h /\ b.net = grid[g].net + d
       /\ b.status = grid[g].status /\ b.dir = grid[g].dir
  <2>1. grid[g].net + d \in Int
    BY <1>2, <1>4 DEF GridRecords
  <2> QED
    BY <1>2, <1>6, <1>8, <2>1 DEF GridRecords
<1>11. grid' = [grid EXCEPT ![g] = b]
  BY <1>1, <1>2, <1>3, <1>5, <1>8 DEF Book, Counted, BooksInv, BookTypes
<1>9. \/ /\ ledger' = [ledger EXCEPT ![g] = Append(@, f)]
         /\ torn' = torn
      \/ /\ ledger' = ledger
         /\ torn' = torn \cup {g}
  BY <1>1 DEF Book
<1>12. /\ task[t].at = "ledger" /\ g = task[t].grid /\ l = task[t].level
       /\ n = task[t].got /\ 1 <= n /\ n <= task[t].qty
  BY <1>1, <1>2
<1>13. g \in Grids /\ l \in Levels /\ n \in Nat /\ d \in Int
  BY <1>2, <1>4
<1>14. h \in HeldLevels /\ f \in Fills /\ b \in GridRecords
  BY <1>6, <1>7, <1>10
<1>15. Booked(t, g, l, n, d, h, f, b)
  BY <1>4, <1>5, <1>7, <1>9, <1>10, <1>11, <1>12 DEF Booked
<1> QED
  BY <1>13, <1>14, <1>15

\* A fill moves from flight into net quantity, level and ledger at once; a
\* failing write of the ledger tears the grid.
LEMMA BookKeepsBooks ==
  ASSUME BooksInv, TasksWork, NEW t \in Tasks, Book(t)
  PROVE  BooksInv'
<1>0. PICK g \in Grids, l \in Levels, n \in Nat, d \in Int, h \in HeldLevels,
           f \in Fills, b \in GridRecords : Booked(t, g, l, n, d, h, f, b)
  BY BookIs
<1>1. /\ task[t].at = "ledger" /\ g = task[t].grid /\ l = task[t].level
      /\ n = task[t].got /\ 1 <= n /\ n <= task[t].qty
      /\ d = Sign(grid[g].dir) * (IF task[t].opening THEN n ELSE -n)
      /\ h = [grid[g].held EXCEPT ![l] =
                IF task[t].opening THEN n ELSE Rest(@, n)]
      /\ f.level = l /\ f.opening = task[t].opening /\ f.qty = n
      /\ b.held = h /\ b.net = grid[g].net + d
      /\ b.status = grid[g].status /\ b.dir = grid[g].dir
      /\ grid' = [grid EXCEPT ![g] = b]
      /\ \/ /\ ledger' = [ledger EXCEPT ![g] = Append(@, f)]
            /\ torn' = torn
         \/ /\ ledger' = ledger
            /\ torn' = torn \cup {g}
  BY <1>0 DEF Booked
<1>2. /\ grid \in [Grids -> GridRecords] /\ grid[g] \in GridRecords
      /\ task[t] \in TaskRecords /\ task[t].qty \in Nat
      /\ grid[g].held \in HeldLevels /\ grid[g].net \in Int
      /\ grid[g].status # "none"
      /\ ledger[g] \in Seq(Fills) /\ ledger \in [Grids -> Seq(Fills)]
  <2>1. grid \in [Grids -> GridRecords] /\ grid[g] \in GridRecords
    BY DEF BooksInv, BookTypes
  <2>2. task[t] \in TaskRecords
    BY DEF BooksInv, BookTypes
  <2> QED
    BY <1>1, <2>1, <2>2
    DEF GridRecords, TaskRecords, TasksWork, BooksInv, BookTypes
<1>4. /\ b \in GridRecords /\ b.held = h /\ b.net = grid[g].net + d
      /\ b.status = grid[g].status /\ b.dir = grid[g].dir
  BY <1>1
<1>5. /\ grid' \in [Grids -> GridRecords] /\ grid'[g] = b
      /\ \A i \in Grids \ {g} : grid'[i] = grid[i]
  BY <1>1, <1>2
<1>6. /\ task' \in [Tasks -> TaskRecords]
      /\ \A u \in Tasks \ {t} : task'[u] = task[u]
      /\ task'[t].at = "save"
      /\ SameWork(task'[t], task[t])
  BY AtMoves DEF BooksInv, Book, Places
<1>7. UNCHANGED <<row, exch, behind, raced, unfilled>> /\ HistoryGrows
  BY <1>1 DEF Book, HistoryGrows
<1>8. /\ ledger' \in [Grids -> Seq(Fills)]
      /\ \A i \in Grids \ {g} : ledger'[i] = ledger[i]
      /\ g \notin torn' => ledger'[g] = Append(ledger[g], f)
  <2>1. Append(ledger[g], f) \in Seq(Fills)
    BY <1>2
  <2>2. CASE ledger' = ledger /\ torn' = torn \cup {g}
    BY <1>2, <2>2
  <2>3. CASE ledger' = [ledger EXCEPT ![g] = Append(@, f)]
    BY <1>2, <2>1, <2>3
  <2> QED
    BY <1>1, <2>2, <2>3
<1>9. BookTypes'
  BY <1>5, <1>6, <1>7, <1>8 DEF BooksInv, BookTypes
<1>10. /\ h[l] = IF task[t].opening THEN n ELSE Rest(grid[g].held[l], n)
       /\ \A m \in Levels : m # l => h[m] = grid[g].held[m]
       /\ \A m \in Levels : grid[g].held[m] \in Nat /\ h[m] \in Nat
  BY <1>1, <1>2 DEF HeldLevels
<1>11. /\ task[t].opening => /\ t = "scheduler" /\ task[t].qty = Lots
                             /\ grid[g].held[l] = 0
       /\ ~task[t].opening /\ g \notin raced =>
            task[t].qty = grid[g].held[l]
  BY <1>1 DEF BooksInv, TaskOk, Sized, Sending
<1>12. TaskOk(t)'
  <2>1. TaskOk(t)
    BY DEF BooksInv
  <2>2. Sized(t)'
    BY <1>6 DEF Sized, Sending
  <2>3. Placed(t)'
    BY <1>1, <1>4, <1>5, <1>6, <1>7, <2>1
    DEF TaskOk, Placed, AtRest, SameWork
  <2>4. Swept(t)'
    <3> SUFFICES ASSUME t \in Closers, Fine(g)'
                 PROVE  Swept(t)'
      BY <1>1, <1>6 DEF Swept, Fine, SameWork
    <3>1. Fine(g)
      BY <1>7 DEF Fine, HistoryGrows
    <3>2. /\ ~task[t].opening /\ l = task[t].next - 1
          /\ \A m \in Levels : m < l => grid[g].held[m] = 0
          /\ n = task[t].qty
      BY <1>1, <2>1, <3>1 DEF TaskOk, Swept, AtRest, Sending
    <3>3. h[l] = 0
      BY <1>10, <1>11, <3>1, <3>2 DEF Rest, Fine
    <3>4. \A m \in Levels : m < task[t].next => h[m] = 0
      <4> SUFFICES ASSUME NEW m \in Levels, m < task[t].next
                   PROVE  h[m] = 0
        OBVIOUS
      <4>1. m \in Nat /\ task[t].next \in Nat
        BY <1>2, Basics DEF TaskRecords
      <4>2. m < l \/ m = l
        BY <3>2, <4>1
      <4>3. m < l => m # l
        BY <4>1, Basics
      <4> QED
        BY <1>10, <3>2, <3>3, <4>2, <4>3
    <3> QED
      BY <1>1, <1>4, <1>5, <1>6, <3>4 DEF Swept, Sending, SameWork
  <2> QED
    BY <2>2, <2>3, <2>4 DEF TaskOk
<1>13. ASSUME NEW u \in Tasks, u # t PROVE TaskOk(u)'
  <2>1. TaskOk(u) /\ task'[u] = task[u]
    BY <1>6, <1>13 DEF BooksInv
  <2>2. CASE ~Busy(u, g)
    <3>1. AtRest(u) \/ task[u].grid \in Grids \ {g}
      BY <2>2 DEF Busy, AtRest, TasksWork
    <3> QED
      BY <1>5, <1>7, <2>1, <3>1, TaskFrame
  <2>3. CASE Busy(u, g)
    <3>1. task[u].grid = g
      BY <2>3 DEF Busy
    <3>2. Busy(t, g)
      BY <1>1 DEF Busy, AtRest
    <3>3. g \in raced
      BY <1>13, <2>3, <3>2, WorksAlone
    <3>4. ASSUME Sending(u), task[u].opening
          PROVE  h[task[u].level] = 0
      <4>1. u = "scheduler" /\ grid[g].held[task[u].level] = 0
        BY <2>1, <3>1, <3>4 DEF TaskOk, Sized
      <4>2. ~task[t].opening
        BY <1>11, <1>13, <4>1
      <4>3. task[u].level \in Levels
        BY DEF BooksInv, BookTypes, TaskRecords
      <4> QED
        BY <1>10, <4>1, <4>2, <4>3 DEF Rest
    <3>5. Sized(u)'
      BY <1>4, <1>5, <1>7, <2>1, <3>1, <3>3, <3>4 DEF TaskOk, Sized, Sending
    <3>6. Placed(u)'
      BY <1>4, <1>5, <1>7, <2>1, <3>1 DEF TaskOk, Placed, AtRest
    <3>7. Swept(u)'
      BY <1>7, <2>1, <3>1, <3>3 DEF Swept, Fine
    <3> QED
      BY <3>5, <3>6, <3>7 DEF TaskOk
  <2> QED
    BY <2>2, <2>3
<1>14. OneCloser'
  <2>1. \A u \in Tasks, i \in Grids : Busy(u, i)' => Busy(u, i)
    BY <1>1, <1>6 DEF Busy, AtRest, SameWork
  <2> QED
    BY <2>1, Basics DEF BooksInv, OneCloser
<1>15. ASSUME NEW i \in Grids, i # g PROVE BooksOf(i)'
  <2>1. \A u \in Tasks : Pending(u, i)' = Pending(u, i)
    BY <1>1, <1>5, <1>6, <1>15 DEF Pending, PendingOf, SameWork
  <2>2. InFlight(i)' = InFlight(i)
    BY <1>9, <2>1, InFlightKept DEF BooksInv
  <2> QED
    BY <1>5, <1>7, <1>8, <1>15, <2>2, BooksStand DEF BooksInv
<1>16. BooksOf(g)'
  <2>1. BooksOf(g) /\ InFlight(g) \in Int /\ exch[g] \in Int
    BY InFlightIs DEF BooksInv, BookTypes
  <2>2. InFlight(g)' = InFlight(g) - d
    <3>1. \A u \in Tasks \ {t} : Pending(u, g)' = Pending(u, g)
      BY <1>4, <1>5, <1>6 DEF Pending, PendingOf
    <3>2. Pending(t, g) = d
      BY <1>1 DEF Pending, PendingOf
    <3>3. Pending(t, g)' = 0
      BY <1>6 DEF Pending, PendingOf
    <3>4. InFlight(g)' = InFlight(g) - Pending(t, g) + Pending(t, g)'
      BY <1>9, <3>1, InFlightMoves DEF BooksInv
    <3> QED
      BY <2>1, <3>2, <3>3, <3>4
  <2>3. Fine(g) => grid[g].status \in {"active", "closing"}
    BY <1>1, WorksOnOpen DEF AtRest
  <2>4. Fine(g)' => Fine(g)
    BY <1>7 DEF Fine, HistoryGrows
  <2>5. torn \subseteq torn'
    BY <1>1
  <2>6. NetOf(g)'
    <3>1. g \notin torn' \cup behind => exch[g] = b.net + InFlight(g)'
      BY <1>2, <1>4, <2>1, <2>2, <2>5 DEF BooksOf, NetOf
    <3>2. g \notin torn' => ledger'[g] # <<>>
      BY <1>2, <1>8
    <3> QED
      BY <1>2, <1>4, <1>5, <1>7, <3>1, <3>2 DEF NetOf
  <2>7. ASSUME g \notin raced
        PROVE  h[l] = IF task[t].opening THEN n ELSE grid[g].held[l] - n
    <3>1. grid[g].held[l] \in Nat
      BY <1>10
    <3>2. CASE task[t].opening
      BY <1>10, <3>2
    <3>3. CASE ~task[t].opening
      <4>1. n <= grid[g].held[l]
        BY <1>1, <1>11, <2>7, <3>3
      <4>2. h[l] = Rest(grid[g].held[l], n)
        BY <1>10, <3>3
      <4> QED
        BY <3>1, <3>3, <4>1, <4>2 DEF Rest
    <3> QED
      BY <3>2, <3>3
  <2>8. ASSUME g \notin torn' \cup raced
        PROVE  exch[g] = Sign(grid[g].dir) * Held(h) + InFlight(g)'
    <3>1. exch[g] = Sign(grid[g].dir) * Held(grid[g].held) + InFlight(g)
      BY <1>2, <2>1, <2>5, <2>8 DEF BooksOf, LevelsOf
    <3>2. Held(h) = Held(grid[g].held) - grid[g].held[l] + h[l]
      BY <1>2, <1>10, HeldUpdate
    <3>3. PICK c \in Int : c = IF task[t].opening THEN n ELSE -n
      OBVIOUS
    <3>4. Held(grid[g].held) \in Int /\ grid[g].held[l] \in Nat
      BY <1>2, <1>10, HeldIs
    <3>5. Held(h) = Held(grid[g].held) + c /\ d = Sign(grid[g].dir) * c
      <4>1. CASE task[t].opening
        <5>1. c = n /\ h[l] = n /\ grid[g].held[l] = 0
          BY <1>11, <2>7, <2>8, <3>3, <4>1
        <5> QED
          BY <1>1, <3>2, <3>4, <4>1, <5>1
      <4>2. CASE ~task[t].opening
        <5>1. c = -n /\ h[l] = grid[g].held[l] - n
          BY <2>7, <2>8, <3>3, <4>2
        <5>2. Held(h) = Held(grid[g].held) + c
          BY <3>2, <3>4, <5>1
        <5> QED
          BY <1>1, <4>2, <5>1, <5>2
      <4> QED
        BY <4>1, <4>2
    <3>6. CASE Sign(grid[g].dir) = 1
      BY <2>1, <2>2, <3>1, <3>4, <3>5, <3>6
    <3>7. CASE Sign(grid[g].dir) = -1
      BY <2>1, <2>2, <3>1, <3>4, <3>5, <3>7
    <3> QED
      BY <3>6, <3>7, SignIs
  <2>9. ASSUME g \notin torn'
        PROVE  Replay(ledger'[g]) = h /\ \A m \in Levels : h[m] <= Lots
    <3>1. /\ Replay(ledger[g]) = grid[g].held
          /\ \A m \in Levels : grid[g].held[m] <= Lots
      BY <1>2, <2>1, <2>5, <2>9 DEF BooksOf, LevelsOf
    <3>2. Replay(ledger'[g]) = Replayed(grid[g].held, f)
      BY <1>2, <1>8, <2>9, <3>1, ReplayOfAppend
    <3>3. Replayed(grid[g].held, f) = h
      <4>1. Replayed(grid[g].held, f) =
              [grid[g].held EXCEPT ![l] = IF task[t].opening
                                          THEN grid[g].held[l] + n
                                          ELSE Rest(grid[g].held[l], n)]
        BY <1>1, <1>2 DEF Replayed
      <4>2. h = [grid[g].held EXCEPT ![l] = IF task[t].opening THEN n
                                            ELSE Rest(grid[g].held[l], n)]
        BY <1>1
      <4>3. task[t].opening => grid[g].held[l] + n = n
        BY <1>11
      <4> QED
        BY <4>1, <4>2, <4>3
    <3>4. h[l] <= Lots
      <4>1. grid[g].held[l] \in Nat /\ grid[g].held[l] <= Lots
        BY <1>10, <3>1
      <4>2. CASE task[t].opening
        BY <1>1, <1>10, <1>11, <4>2
      <4>3. CASE ~task[t].opening
        BY <1>10, <4>1, <4>3, Basics DEF Rest
      <4> QED
        BY <4>2, <4>3
    <3> QED
      BY <1>10, <3>1, <3>2, <3>3, <3>4
  <2>10. LevelsOf(g)'
    BY <1>2, <1>4, <1>5, <1>7, <2>1, <2>8, <2>9 DEF BooksOf, LevelsOf
  <2>11. ClosedOf(g)'
    BY <1>4, <1>5, <1>7, <2>1, <2>3, <2>4 DEF BooksOf, ClosedOf
  <2> QED
    BY <2>6, <2>10, <2>11 DEF BooksOf
<1> QED
  BY <1>9, <1>12, <1>13, <1>14, <1>15, <1>16 DEF BooksInv

-----------------------------------------------------------------------------
(* Saving rows, ending a tick. *)

\* A row takes what its grid is, or stays.
LEMMA SaveKeepsBooks ==
  ASSUME BooksInv, NEW t \in Tasks, NEW g \in Grids, grid[g].status # "none",
         task[t].grid = g,
         task[t].at \in {"save", "ticksave", "opensave", "closesave"},
         SaveRow(g),
         UNCHANGED <<grid, ledger, exch, torn, behind, raced, unfilled>>,
         NEW r \in TaskRecords, task' = [task EXCEPT ![t] = r],
         r.at \in {"idle", "list"} \/ (r.at = "walk" /\ r.grid = g),
         TaskOk(t)'
  PROVE  BooksInv'
<1>1. /\ task' \in [Tasks -> TaskRecords]
      /\ \A u \in Tasks \ {t} : task'[u] = task[u]
      /\ task'[t] = r
  BY TaskMoves DEF BooksInv
<1>2. row' = row \/ row' = [row EXCEPT ![g] = RowOf(grid[g])]
  BY DEF SaveRow
<1>3. /\ row' \in [Grids -> RowRecords]
      /\ \A i \in Grids \ {g} : row'[i] = row[i]
      /\ row'[g] = row[g] \/ row'[g] = RowOf(grid[g])
  <2>1. row \in [Grids -> RowRecords] /\ RowOf(grid[g]) \in RowRecords
    BY Records DEF BooksInv, BookTypes
  <2> QED
    BY <1>2, <2>1
<1>4. BookTypes'
  BY <1>1, <1>3 DEF BooksInv, BookTypes
<1>5. HistoryGrows
  BY DEF HistoryGrows
<1>6. \A u \in Tasks : TaskOk(u)'
  <2> SUFFICES ASSUME NEW u \in Tasks, u # t PROVE TaskOk(u)'
    OBVIOUS
  <2> QED
    BY <1>1, <1>5, TaskFrame DEF BooksInv
<1>7. OneCloser'
  <2>1. \A u \in Tasks, i \in Grids : Busy(u, i)' => Busy(u, i)
    BY <1>1 DEF Busy, AtRest
  <2> QED
    BY <2>1, Basics DEF BooksInv, OneCloser
<1>8. ASSUME NEW i \in Grids
      PROVE  InFlight(i)' = InFlight(i)
  <2>1. \A u \in Tasks : Pending(u, i)' = Pending(u, i)
    BY <1>1 DEF Pending, PendingOf
  <2> QED
    BY <1>4, <2>1, InFlightKept DEF BooksInv
<1>9. ASSUME NEW i \in Grids, row'[i] = row[i]
      PROVE  BooksOf(i)'
  BY <1>5, <1>8, <1>9, BooksStand DEF BooksInv
<1>10. ASSUME row'[g] = RowOf(grid[g])
       PROVE  BooksOf(g)'
  <2>1. /\ row'[g].status = grid[g].status
        /\ row'[g].dir = grid[g].dir
    BY <1>10, Records DEF BooksInv, BookTypes
  <2>2. BooksOf(g)
    BY DEF BooksInv
  <2>3. NetOf(g)'
    BY <1>8, <2>2 DEF BooksOf, NetOf
  <2>4. LevelsOf(g)'
    BY <1>8, <2>1, <2>2 DEF BooksOf, LevelsOf
  <2>5. ClosedOf(g)'
    BY <2>1, <2>2 DEF BooksOf, ClosedOf, Fine
  <2> QED
    BY <2>3, <2>4, <2>5 DEF BooksOf
<1>11. \A i \in Grids : BooksOf(i)'
  BY <1>3, <1>9, <1>10
<1> QED
  BY <1>4, <1>6, <1>7, <1>11 DEF BooksInv

\* Every place that saves a row: after a fill, a tick, an opening, a close.
LEMMA SavesKeepBooks ==
  ASSUME BooksInv, TasksWork, NEW t \in Tasks,
         \/ Save(t)
         \/ t \in Closers /\ SaveClose(t)
         \/ t = "scheduler" /\ (SaveTick \/ SaveOpen)
  PROVE  BooksInv'
<1>1. PICK g : g = task[t].grid
  OBVIOUS
<1>2. /\ task[t].at \in {"save", "ticksave", "opensave", "closesave"}
      /\ SaveRow(g)
      /\ UNCHANGED <<grid, ledger, exch, torn, behind, raced, unfilled>>
  BY <1>1 DEF Save, SaveClose, SaveTick, SaveOpen, books, history
<1>3. /\ g \in Grids /\ grid[g].status # "none" /\ task[t] \in TaskRecords
      /\ TaskOk(t)
  BY <1>1, <1>2 DEF TasksWork, BooksInv, BookTypes
<1>4. CASE Save(t)
  <2>1. PICK r : r = [task[t] EXCEPT !.at = "walk"]
    OBVIOUS
  <2>2. /\ r \in TaskRecords /\ r.at = "walk" /\ r.grid = g
        /\ r.next = task[t].next
    BY <1>1, <1>3, <2>1 DEF TaskRecords, Places
  <2>3. task' = [task EXCEPT ![t] = r] /\ task[t].at = "save"
    BY <1>4, <2>1 DEF Save
  <2>4. task'[t] = r
    BY <2>2, <2>3, TaskMoves DEF BooksInv
  <2>5. TaskOk(t)'
    <3>1. Sized(t)'
      BY <2>2, <2>4 DEF Sized, Sending
    <3>2. Placed(t)'
      BY <1>1, <1>2, <1>3, <2>2, <2>3, <2>4 DEF TaskOk, Placed, AtRest
    <3>3. Swept(t)'
      BY <1>1, <1>2, <1>3, <2>2, <2>3, <2>4
      DEF TaskOk, Swept, AtRest, Sending, Fine
    <3> QED
      BY <3>1, <3>2, <3>3 DEF TaskOk
  <2> QED
    BY <1>1, <1>2, <1>3, <2>2, <2>3, <2>5, SaveKeepsBooks
<1>5. CASE t \in Closers /\ SaveClose(t)
  <2>1. PICK r : r = [task[t] EXCEPT !.at = "list"]
    OBVIOUS
  <2>2. r \in TaskRecords /\ r.at = "list"
    BY <1>3, <2>1 DEF TaskRecords, Places
  <2>3. task' = [task EXCEPT ![t] = r]
    BY <1>5, <2>1 DEF SaveClose
  <2>4. task'[t] = r
    BY <2>2, <2>3, TaskMoves DEF BooksInv
  <2>5. TaskOk(t)'
    <3>1. Sized(t)' /\ Placed(t)'
      BY <1>5, <2>2, <2>4 DEF Sized, Placed, AtRest, Sending
    <3>2. Swept(t)'
      BY <2>2, <2>4 DEF Swept, AtRest
    <3> QED
      BY <3>1, <3>2 DEF TaskOk
  <2>6. r.at \in {"idle", "list"} \/ (r.at = "walk" /\ r.grid = g)
    BY <2>2
  <2>7. r \in TaskRecords /\ task[t].grid = g
    BY <1>1, <2>2
  <2> QED
    BY <1>2, <1>3, <2>3, <2>5, <2>6, <2>7, SaveKeepsBooks
<1>6. CASE t = "scheduler" /\ (SaveTick \/ SaveOpen)
  <2>0. PICK r : r = NoTask
    OBVIOUS
  <2>1. task' = [task EXCEPT ![t] = r]
    BY <1>6, <2>0 DEF SaveTick, SaveOpen
  <2>2. r \in TaskRecords /\ r.at = "idle"
    BY <2>0, Records
  <2>3. task'[t] = r
    BY <2>1, <2>2, TaskMoves DEF BooksInv
  <2>4. TaskOk(t)'
    <3>1. Sized(t)' /\ Placed(t)'
      BY <2>2, <2>3 DEF Sized, Placed, AtRest, Sending
    <3>2. Swept(t)'
      BY <2>2, <2>3 DEF Swept, AtRest
    <3> QED
      BY <3>1, <3>2 DEF TaskOk
  <2>6. r.at \in {"idle", "list"} \/ (r.at = "walk" /\ r.grid = g)
    BY <2>2
  <2>7. r \in TaskRecords /\ task[t].grid = g
    BY <1>1, <2>2
  <2> QED
    BY <1>2, <1>3, <2>1, <2>4, <2>6, <2>7, SaveKeepsBooks
<1> QED
  BY <1>4, <1>5, <1>6

\* A step that changes one grid's record, but not what it holds, and the
\* task that does so.
LEMMA GridChanges ==
  ASSUME BooksInv, TasksWork, NEW t \in Tasks, NEW g \in Grids,
         NEW b \in GridRecords, NEW r \in TaskRecords,
         grid' = [grid EXCEPT ![g] = b],
         task' = [task EXCEPT ![t] = r],
         UNCHANGED <<row, ledger, exch>>, HistoryGrows,
         b.dir = grid[g].dir \/ grid[g].status = "none",
         task[t].at # "ledger", r.at # "ledger",
         TaskOk(t)',
         \A u \in Tasks \ {t} : Busy(u, g) => TaskOk(u)',
         OneCloser',
         InFlight(g)' = InFlight(g) => BooksOf(g)'
  PROVE  BooksInv'
<1>1. /\ task' \in [Tasks -> TaskRecords]
      /\ \A u \in Tasks \ {t} : task'[u] = task[u]
      /\ task'[t] = r
  BY TaskMoves DEF BooksInv
<1>2. /\ grid' \in [Grids -> GridRecords] /\ grid'[g] = b
      /\ \A i \in Grids \ {g} : grid'[i] = grid[i]
  BY DEF BooksInv, BookTypes
<1>3. BookTypes'
  BY <1>1, <1>2 DEF BooksInv, BookTypes
<1>4. \A u \in Tasks : TaskOk(u)'
  <2> SUFFICES ASSUME NEW u \in Tasks, u # t, ~Busy(u, g) PROVE TaskOk(u)'
    OBVIOUS
  <2>1. AtRest(u) \/ task[u].grid \in Grids \ {g}
    BY DEF Busy, AtRest, TasksWork
  <2> QED
    BY <1>1, <1>2, <2>1, TaskFrame DEF BooksInv
<1>5. ASSUME NEW i \in Grids
      PROVE  InFlight(i)' = InFlight(i)
  <2>1. \A u \in Tasks : Pending(u, i)' = Pending(u, i)
    <3> SUFFICES ASSUME NEW u \in Tasks
                 PROVE  Pending(u, i)' = Pending(u, i)
      OBVIOUS
    <3>1. CASE u = t
      BY <1>1, <3>1 DEF Pending, PendingOf
    <3>2. CASE u # t /\ i # g
      BY <1>1, <1>2, <3>2 DEF Pending, PendingOf
    <3>3. CASE u # t /\ i = g
      <4>1. task[u].at = "ledger" /\ task[u].grid = g => b.dir = grid[g].dir
        BY DEF TasksWork
      <4> QED
        BY <1>1, <1>2, <3>3, <4>1 DEF Pending, PendingOf
    <3> QED
      BY <3>1, <3>2, <3>3
  <2> QED
    BY <1>3, <2>1, InFlightKept DEF BooksInv
<1>6. \A i \in Grids : BooksOf(i)'
  <2> SUFFICES ASSUME NEW i \in Grids, i # g PROVE BooksOf(i)'
    BY <1>5
  <2> QED
    BY <1>2, <1>5, BooksStand DEF BooksInv
<1> QED
  BY <1>3, <1>4, <1>6 DEF BooksInv

\* The end of a tick changes the price of a grid only.
LEMMA EndTickKeepsBooks ==
  ASSUME BooksInv, TasksWork, EndTick
  PROVE  BooksInv'
<1>1. PICK t, g, r, b :
        /\ t = "scheduler" /\ g = task[t].grid
        /\ r = [task[t] EXCEPT !.at = "ticksave"]
        /\ b = [grid[g] EXCEPT !.price = task[t].price]
  OBVIOUS
<1>2. /\ t \in Tasks /\ t \notin Closers
      /\ task[t].at = "walk" /\ task[t] \in TaskRecords
      /\ g \in Grids /\ grid[g] \in GridRecords
  <2>1. t \in Tasks /\ t \notin Closers /\ task[t].at = "walk"
    BY <1>1, Basics DEF EndTick
  <2>2. g \in Grids
    BY <1>1, <2>1 DEF TasksWork
  <2> QED
    BY <2>1, <2>2 DEF BooksInv, BookTypes
<1>3. r \in TaskRecords /\ r.at = "ticksave" /\ r.grid = g
  BY <1>1, <1>2 DEF TaskRecords, Places
<1>4. /\ b \in GridRecords /\ b.status = grid[g].status
      /\ b.dir = grid[g].dir /\ b.net = grid[g].net /\ b.held = grid[g].held
  BY <1>1, <1>2 DEF GridRecords, TaskRecords
<1>5. /\ grid' = [grid EXCEPT ![g] = b] /\ task' = [task EXCEPT ![t] = r]
      /\ UNCHANGED <<row, ledger, exch, torn, behind, raced, unfilled>>
  BY <1>1, <1>2 DEF EndTick, tables, history, BooksInv, BookTypes
<1>6. HistoryGrows
  BY <1>5 DEF HistoryGrows
<1>7. task'[t] = r /\ \A u \in Tasks \ {t} : task'[u] = task[u]
  BY <1>2, <1>3, <1>5, TaskMoves DEF BooksInv
<1>8. grid'[g] = b
  BY <1>2, <1>5 DEF BooksInv, BookTypes
<1>9. TaskOk(t)'
  <2>1. Sized(t)' /\ Swept(t)'
    BY <1>2, <1>3, <1>7 DEF Sized, Swept, Sending
  <2>2. Placed(t)'
    <3>1. Placed(t)
      BY <1>2 DEF BooksInv, TaskOk
    <3> QED
      BY <1>1, <1>2, <1>3, <1>4, <1>5, <1>7, <1>8, <3>1 DEF Placed, AtRest
  <2> QED
    BY <2>1, <2>2 DEF TaskOk
<1>10. ASSUME NEW u \in Tasks \ {t}, Busy(u, g) PROVE TaskOk(u)'
  BY <1>4, <1>6, <1>7, <1>8, <1>10, TaskFrame DEF BooksInv, Busy
<1>11. OneCloser'
  <2>1. \A u \in Closers : u \in Tasks \ {t}
    BY <1>2, Basics
  <2> QED
    BY <1>7, <2>1 DEF BooksInv, OneCloser, Busy, AtRest
<1>12. InFlight(g)' = InFlight(g) => BooksOf(g)'
  BY <1>2, <1>4, <1>5, <1>6, <1>8, BooksStand DEF BooksInv
<1> QED
  BY <1>2, <1>3, <1>4, <1>5, <1>6, <1>9, <1>10, <1>11, <1>12, GridChanges

-----------------------------------------------------------------------------
(* Closing and opening. *)

\* A close begins; it races every task that works on the grid.
LEMMA CloseNextKeepsBooks ==
  ASSUME BooksInv, TasksWork, NEW t \in Closers, NEW g \in Grids,
         CloseNext(t, g)
  PROVE  BooksInv'
<1>1. PICK r, b :
        /\ r = [task[t] EXCEPT !.at = "walk", !.grid = g, !.next = 1,
                               !.todo = @ \ {g}]
        /\ b = [grid[g] EXCEPT !.status = "closing"]
  OBVIOUS
<1>2. /\ t \in Tasks /\ t # "scheduler"
      /\ task[t].at = "list" /\ task[t] \in TaskRecords
      /\ grid[g].status = "active" /\ grid[g] \in GridRecords
  BY Basics DEF CloseNext, IsActive, BooksInv, BookTypes
<1>3. r \in TaskRecords /\ r.at = "walk" /\ r.grid = g /\ r.next = 1
  <2>1. 1 \in 1..NLevels + 1 /\ task[t].todo \ {g} \in SUBSET Grids
    BY <1>2, Basics DEF TaskRecords
  <2> QED
    BY <1>1, <1>2, <2>1 DEF TaskRecords, Places
<1>4. /\ b \in GridRecords /\ b.status = "closing"
      /\ b.dir = grid[g].dir /\ b.net = grid[g].net /\ b.held = grid[g].held
  BY <1>1, <1>2 DEF GridRecords, Statuses
<1>5. /\ grid' = [grid EXCEPT ![g] = b] /\ task' = [task EXCEPT ![t] = r]
      /\ UNCHANGED <<row, ledger, exch, torn, behind, unfilled>>
      /\ raced' = raced \cup {h \in {g} : \E u \in Tasks : Working(u, h)}
  <2>1. grid' = [grid EXCEPT ![g] = b]
    BY <1>1, <1>2 DEF CloseNext, BooksInv, BookTypes
  <2>2. task' = [task EXCEPT ![t] = r]
    BY <1>1, <1>2 DEF CloseNext, BooksInv, BookTypes
  <2> QED
    BY <2>1, <2>2 DEF CloseNext, tables
<1>6. HistoryGrows
  BY <1>5 DEF HistoryGrows
<1>7. task'[t] = r /\ \A u \in Tasks \ {t} : task'[u] = task[u]
  BY <1>2, <1>3, <1>5, TaskMoves DEF BooksInv
<1>8. grid'[g] = b
  BY <1>2, <1>5 DEF BooksInv, BookTypes
<1>9. TaskOk(t)'
  <2>1. Sized(t)'
    BY <1>3, <1>7 DEF Sized, Sending
  <2>2. Placed(t)'
    BY <1>2, <1>3, <1>4, <1>7, <1>8 DEF Placed, AtRest
  <2>3. Swept(t)'
    <3>1. \A l \in Levels : ~(l < 1)
      BY Basics
    <3> QED
      BY <1>3, <1>7, <3>1 DEF Swept, Sending
  <2> QED
    BY <2>1, <2>2, <2>3 DEF TaskOk
<1>10. \A u \in Closers : ~Busy(u, g)
  BY <1>2, Basics DEF BooksInv, TaskOk, Placed, Busy
<1>11. ASSUME NEW u \in Tasks \ {t}, Busy(u, g) PROVE TaskOk(u)'
  <2>1. g \in raced'
    BY <1>5, <1>11 DEF Working, Busy, AtRest
  <2>2. u \notin Closers /\ u = "scheduler" /\ task'[u] = task[u]
    BY <1>7, <1>10, <1>11, Basics
  <2>3. TaskOk(u) /\ task[u].grid = g
    BY <1>11 DEF BooksInv, Busy
  <2>4. Sized(u)'
    BY <1>4, <1>8, <2>1, <2>2, <2>3 DEF TaskOk, Sized, Sending
  <2>5. Placed(u)'
    BY <2>1, <2>2, <2>3 DEF TaskOk, Placed, AtRest
  <2>6. Swept(u)'
    BY <2>2 DEF Swept
  <2> QED
    BY <2>4, <2>5, <2>6 DEF TaskOk
<1>12. OneCloser'
  <2> SUFFICES ASSUME NEW u \in Closers, NEW v \in Closers, NEW i \in Grids,
                      Busy(u, i)', Busy(v, i)'
               PROVE  u = v
    BY DEF OneCloser
  <2>1. u \in Tasks /\ v \in Tasks
    BY Basics
  <2>2. \A w \in Tasks \ {t} : Busy(w, i)' => Busy(w, i)
    BY <1>7 DEF Busy, AtRest
  <2>3. Busy(t, i)' => i = g
    BY <1>3, <1>7 DEF Busy
  <2>4. CASE u # t /\ v # t
    BY <2>1, <2>2, <2>4 DEF BooksInv, OneCloser
  <2>5. CASE u = t \/ v = t
    BY <1>10, <2>1, <2>2, <2>3, <2>5
  <2> QED
    BY <2>4, <2>5
<1>13. ASSUME InFlight(g)' = InFlight(g) PROVE BooksOf(g)'
  <2>1. BooksOf(g)
    BY DEF BooksInv
  <2>2. Fine(g)' => Fine(g)
    BY <1>6 DEF Fine, HistoryGrows
  <2>3. NetOf(g)'
    BY <1>2, <1>4, <1>5, <1>8, <1>13, <2>1 DEF BooksOf, NetOf
  <2>4. LevelsOf(g)'
    BY <1>2, <1>4, <1>5, <1>8, <1>13, <2>1 DEF BooksOf, LevelsOf
  <2>5. ClosedOf(g)'
    BY <1>2, <1>4, <1>5, <1>8, <2>1 DEF BooksOf, ClosedOf
  <2> QED
    BY <2>3, <2>4, <2>5 DEF BooksOf
<1> QED
  BY <1>2, <1>3, <1>4, <1>5, <1>6, <1>9, <1>11, <1>12, <1>13, GridChanges

\* A close ends: the levels before the last order are empty, none is due
\* after it, and nobody else has a fill on its way.
LEMMA EndCloseKeepsBooks ==
  ASSUME BooksInv, TasksWork, NEW t \in Closers, EndClose(t)
  PROVE  BooksInv'
<1>1. PICK g, r, b :
        /\ g = task[t].grid
        /\ r = [task[t] EXCEPT !.at = "closesave"]
        /\ b = [grid[g] EXCEPT !.status = "closed"]
  OBVIOUS
<1>2. /\ t \in Tasks /\ t # "scheduler"
      /\ task[t].at = "walk" /\ task[t] \in TaskRecords
      /\ g \in Grids /\ grid[g] \in GridRecords
      /\ grid[g].held \in HeldLevels
  <2>1. t \in Tasks /\ t # "scheduler" /\ task[t].at = "walk"
    BY Basics DEF EndClose
  <2>2. g \in Grids
    BY <1>1, <2>1 DEF TasksWork
  <2> QED
    BY <2>1, <2>2 DEF BooksInv, BookTypes, GridRecords
<1>3. r \in TaskRecords /\ r.at = "closesave" /\ r.grid = g
  BY <1>1, <1>2 DEF TaskRecords, Places
<1>4. /\ b \in GridRecords /\ b.status = "closed"
      /\ b.dir = grid[g].dir /\ b.net = grid[g].net /\ b.held = grid[g].held
  BY <1>1, <1>2 DEF GridRecords, Statuses
<1>5. /\ grid' = [grid EXCEPT ![g] = b] /\ task' = [task EXCEPT ![t] = r]
      /\ UNCHANGED <<row, ledger, exch, torn, behind, raced, unfilled>>
  BY <1>1, <1>2 DEF EndClose, tables, history, BooksInv, BookTypes
<1>6. HistoryGrows
  BY <1>5 DEF HistoryGrows
<1>7. task'[t] = r /\ \A u \in Tasks \ {t} : task'[u] = task[u]
  BY <1>2, <1>3, <1>5, TaskMoves DEF BooksInv
<1>8. grid'[g] = b
  BY <1>2, <1>5 DEF BooksInv, BookTypes
<1>9. Busy(t, g) /\ TaskOk(t) /\ grid[g].status = "closing"
  BY <1>1, <1>2 DEF BooksInv, TaskOk, Placed, Busy, AtRest
<1>10. TaskOk(t)'
  <2>1. Sized(t)' /\ Swept(t)'
    BY <1>3, <1>7 DEF Sized, Swept, Sending
  <2>2. task'[t].at = "closesave" /\ grid'[task'[t].grid].status = "closed"
    BY <1>3, <1>4, <1>7, <1>8
  <2>3. Placed(t)'
    BY <1>2, <2>2 DEF Placed, AtRest
  <2> QED
    BY <2>1, <2>3 DEF TaskOk
<1>11. ASSUME NEW u \in Tasks \ {t}, Busy(u, g) PROVE TaskOk(u)'
  <2>1. g \in raced
    BY <1>2, <1>9, <1>11, WorksAlone
  <2>2. u \notin Closers /\ u = "scheduler" /\ task'[u] = task[u]
    <3>1. u \notin Closers
      BY <1>2, <1>9, <1>11 DEF BooksInv, OneCloser
    <3> QED
      BY <1>7, <3>1, Basics
  <2>3. TaskOk(u) /\ task[u].grid = g
    BY <1>11 DEF BooksInv, Busy
  <2>4. Sized(u)'
    BY <1>4, <1>5, <1>8, <2>1, <2>2, <2>3 DEF TaskOk, Sized, Sending
  <2>5. Placed(u)'
    BY <1>5, <2>1, <2>2, <2>3 DEF TaskOk, Placed, AtRest
  <2>6. Swept(u)'
    BY <2>2 DEF Swept
  <2> QED
    BY <2>4, <2>5, <2>6 DEF TaskOk
<1>12. OneCloser'
  <2>1. \A u \in Tasks, i \in Grids : Busy(u, i)' => Busy(u, i)
    BY <1>1, <1>2, <1>3, <1>7 DEF Busy, AtRest
  <2> QED
    BY <2>1, Basics DEF BooksInv, OneCloser
<1>13. ASSUME Fine(g) PROVE grid[g].held = Flat /\ exch[g] = 0
  <2>1. g \notin raced \cup torn
    BY <1>13 DEF Fine
  <2>2. ASSUME NEW l \in Levels PROVE grid[g].held[l] = 0
    <3>1. /\ l \in Nat /\ task[t].next \in Nat /\ l <= NLevels
          /\ grid[g].held[l] \in Nat
      BY <1>2, Basics DEF TaskRecords, HeldLevels, Levels
    <3>2. CASE l < task[t].next
      BY <1>1, <1>2, <1>9, <1>13, <3>2 DEF TaskOk, Swept, AtRest
    <3>3. CASE task[t].next <= l
      <4>1. l \in task[t].next..NLevels
        BY <3>1, <3>3, Basics
      <4>2. ~(grid[g].held[l] > 0)
        BY <1>1, <1>2, <4>1 DEF EndClose, Due
      <4> QED
        BY <3>1, <4>2
    <3> QED
      BY <3>1, <3>2, <3>3
  <2>3. grid[g].held = Flat
    BY <1>2, <2>2 DEF HeldLevels, Flat
  <2>4. \A u \in Tasks : Pending(u, g) = 0
    <3> SUFFICES ASSUME NEW u \in Tasks, Pending(u, g) # 0 PROVE FALSE
      OBVIOUS
    <3>1. task[u].at = "ledger" /\ Busy(u, g)
      BY DEF Pending, PendingOf, Busy, AtRest
    <3>2. u = t
      BY <1>2, <1>9, <2>1, <3>1, WorksAlone
    <3> QED
      BY <1>2, <3>1, <3>2
  <2>5. InFlight(g) = 0
    BY <1>2, <2>4, NothingInFlight DEF BooksInv
  <2>6. exch[g] = Sign(grid[g].dir) * Held(grid[g].held) + InFlight(g)
    BY <1>2, <1>9, <2>1 DEF BooksInv, BooksOf, LevelsOf
  <2> QED
    BY <2>3, <2>5, <2>6, HeldFlat, SignIs
<1>14. ASSUME InFlight(g)' = InFlight(g) PROVE BooksOf(g)'
  <2>1. BooksOf(g)
    BY <1>2 DEF BooksInv
  <2>2. NetOf(g)'
    BY <1>4, <1>5, <1>8, <1>9, <1>14, <2>1 DEF BooksOf, NetOf
  <2>3. LevelsOf(g)'
    BY <1>4, <1>5, <1>8, <1>9, <1>14, <2>1 DEF BooksOf, LevelsOf
  <2>4. ClosedOf(g)'
    BY <1>4, <1>5, <1>8, <1>13, <2>1 DEF BooksOf, ClosedOf, Fine
  <2> QED
    BY <2>2, <2>3, <2>4 DEF BooksOf
<1> QED
  BY <1>2, <1>3, <1>4, <1>5, <1>6, <1>10, <1>11, <1>12, <1>14, GridChanges

\* A new grid holds nothing, and the exchange holds nothing for it.
LEMMA OpenKeepsBooks ==
  ASSUME BooksInv, TasksWork, NEW g \in Grids, NEW d \in Directions,
         NEW p \in Levels, Open(g, d, p)
  PROVE  BooksInv'
<1>1. PICK t, r, b :
        /\ t = "scheduler"
        /\ r = [NoTask EXCEPT !.at = "opensave", !.grid = g]
        /\ b = NewGrid(d, p)
  OBVIOUS
<1>2. t \in Tasks /\ t \notin Closers /\ task[t].at = "idle"
  BY <1>1, Basics DEF Open, MayStart
<1>3. r \in TaskRecords /\ r.at = "opensave" /\ r.grid = g
  BY <1>1, Records DEF TaskRecords, Places
<1>4. /\ b \in GridRecords /\ b.status = "active"
      /\ b.dir = d /\ b.net = 0 /\ b.held = Flat
  <2>1. NoGrid.net = 0 /\ NoGrid.held = Flat
    BY DEF NoGrid
  <2>2. b = [NoGrid EXCEPT !.status = "active", !.dir = d, !.price = p]
    BY <1>1 DEF NewGrid
  <2> QED
    BY <2>1, <2>2, Records DEF GridRecords, Statuses
<1>5. /\ grid' = [grid EXCEPT ![g] = b] /\ task' = [task EXCEPT ![t] = r]
      /\ UNCHANGED <<row, ledger, exch, torn, behind, raced, unfilled>>
      /\ grid[g] = NoGrid /\ row[g] = NoRow /\ ledger[g] = <<>>
  BY <1>1 DEF Open, tables, history, Unused
<1>6. HistoryGrows
  BY <1>5 DEF HistoryGrows
<1>7. task'[t] = r
  BY <1>2, <1>3, <1>5, TaskMoves DEF BooksInv
<1>8. grid'[g] = b
  BY <1>5 DEF BooksInv, BookTypes
<1>9. grid[g].status = "none" /\ row[g].status = "none"
  BY <1>5, Records
<1>10. \A u \in Tasks : ~Busy(u, g)
  BY <1>9 DEF Busy, AtRest, TasksWork
<1>11. TaskOk(t)'
  <2>1. Sized(t)' /\ Swept(t)'
    BY <1>2, <1>3, <1>7 DEF Sized, Swept, Sending
  <2>2. Placed(t)'
    BY <1>1, <1>2, <1>3, <1>4, <1>7, <1>8 DEF Placed, AtRest
  <2> QED
    BY <2>1, <2>2 DEF TaskOk
<1>12. OneCloser'
  <2>1. \A u \in Closers : u \in Tasks \ {t} /\ task'[u] = task[u]
    BY <1>2, <1>3, <1>5, TaskMoves, Basics DEF BooksInv
  <2> QED
    BY <2>1 DEF BooksInv, OneCloser, Busy, AtRest
<1>13. InFlight(g) = 0
  <2>1. \A u \in Tasks : Pending(u, g) = 0
    BY <1>10 DEF Pending, PendingOf, Busy, AtRest
  <2> QED
    BY <2>1, NothingInFlight DEF BooksInv
<1>14. ASSUME InFlight(g)' = InFlight(g) PROVE BooksOf(g)'
  <2>1. g \notin torn => exch[g] = 0
    BY <1>5, <1>13 DEF BooksInv, BooksOf, NetOf
  <2>2. NetOf(g)'
    BY <1>4, <1>5, <1>8, <1>13, <1>14, <2>1 DEF NetOf
  <2>3. LevelsOf(g)'
    <3>1. Sign(d) * Held(Flat) + 0 = 0
      BY HeldFlat, SignIs
    <3>2. \A l \in Levels : Flat[l] <= Lots
      BY Basics DEF Flat
    <3> QED
      BY <1>4, <1>5, <1>8, <1>9, <1>13, <1>14, <2>1, <3>1, <3>2,
         ReplayOfNothing DEF LevelsOf
  <2>4. ClosedOf(g)'
    BY <1>4, <1>5, <1>8, <1>9 DEF ClosedOf
  <2> QED
    BY <2>2, <2>3, <2>4 DEF BooksOf
<1> QED
  BY <1>2, <1>3, <1>4, <1>5, <1>6, <1>9, <1>10, <1>11, <1>12, <1>14,
     GridChanges

-----------------------------------------------------------------------------
(* Crash, restart, and every step. *)

\* What late fills add at the exchange when the worker dies: whole numbers,
\* and nothing to a grid that none of them is for.
LateFills(late, g) ==
  SumFunction([t \in late |-> IF task[t].grid = g THEN Delta(t, task[t].qty)
                              ELSE 0])

\* Late fills are whole numbers, and concern the grids they are for.
LEMMA LateFillsAre ==
  ASSUME BooksInv, NEW late \in SUBSET Tasks, NEW g \in Grids
  PROVE  /\ LateFills(late, g) \in Int
         /\ (\A t \in late : task[t].grid # g) => LateFills(late, g) = 0
<1> DEFINE f == [t \in late |-> IF task[t].grid = g
                                THEN Delta(t, task[t].qty) ELSE 0]
<1>1. IsFiniteSet(late)
  BY TasksFinite, FS_Subset
<1>2. \A t \in late : Delta(t, task[t].qty) \in Int
  <2> SUFFICES ASSUME NEW t \in late PROVE Delta(t, task[t].qty) \in Int
    OBVIOUS
  <2>1. task[t].qty \in Nat
    BY DEF BooksInv, BookTypes, TaskRecords
  <2> QED
    BY <2>1, SignIs DEF Delta
<1>3. \A t \in late : f[t] \in Int
  BY <1>2
<1>4. (\A t \in late : task[t].grid # g) => \A t \in late : f[t] = 0
  OBVIOUS
<1>5. DOMAIN f = late
  OBVIOUS
<1>6. LateFills(late, g) = SumFunction(f)
  BY DEF LateFills
<1> HIDE DEF f
<1>7. LateFills(late, g) = SumFunctionOnSet(f, late)
  BY <1>5, <1>6 DEF SumFunction
<1> QED
  BY <1>1, <1>3, <1>4, <1>7, SumType, SumZero

\* A crash leaves behind, in rows and ledgers, what the exchange holds, but
\* for fills that reached no ledger and rows older than the books.
LEMMA CrashKeepsBooks ==
  ASSUME BooksInv, TasksWork, Crash
  PROVE  BooksInv'
<1>1. PICK late \in SUBSET {t \in Tasks : task[t].at = "sent"} :
        /\ exch' = [g \in Grids |-> exch[g] + LateFills(late, g)]
        /\ torn' = torn \cup {task[t].grid : t \in late}
                        \cup {task[t].grid :
                                t \in {u \in Tasks : task[u].at = "ledger"}}
  BY DEF Crash, LateFills
<1>2. /\ behind' = behind \cup
           {g \in Grids : grid[g] # NoGrid /\ RowOf(grid[g]) # row[g]}
      /\ grid' = [g \in Grids |-> NoGrid]
      /\ task' = [t \in Tasks |-> NoTask]
      /\ UNCHANGED <<row, ledger, raced, unfilled>>
  BY DEF Crash, tables
<1>3. late \in SUBSET Tasks
  OBVIOUS
<1>4. BookTypes'
  <2>1. \A g \in Grids : exch[g] + LateFills(late, g) \in Int
    <3>1. \A g \in Grids : LateFills(late, g) \in Int
      BY <1>3, LateFillsAre
    <3>2. \A g \in Grids : exch[g] \in Int
      BY DEF BooksInv, BookTypes
    <3> QED
      BY <3>1, <3>2
  <2>2. exch' \in [Grids -> Int]
    BY <1>1, <2>1
  <2>3. /\ grid' \in [Grids -> GridRecords]
        /\ task' \in [Tasks -> TaskRecords]
    BY <1>2, Records
  <2> QED
    BY <1>2, <2>2, <2>3 DEF BooksInv, BookTypes
<1>5. HistoryGrows
  BY <1>1, <1>2 DEF HistoryGrows
<1>6. \A t \in Tasks : task'[t].at = "idle"
  BY <1>2, Records
<1>7. \A t \in Tasks : TaskOk(t)'
  <2> SUFFICES ASSUME NEW t \in Tasks PROVE TaskOk(t)'
    OBVIOUS
  <2>1. task'[t].at = "idle"
    BY <1>6
  <2>2. Sized(t)' /\ Placed(t)'
    BY <2>1 DEF Sized, Placed, AtRest, Sending
  <2>3. Swept(t)'
    BY <2>1 DEF Swept, AtRest
  <2> QED
    BY <2>2, <2>3 DEF TaskOk
<1>8. OneCloser'
  BY <1>6, Basics DEF OneCloser, Busy, AtRest
<1>9. ASSUME NEW g \in Grids PROVE BooksOf(g)'
  <2>1. grid'[g].status = "none" /\ row'[g] = row[g] /\ ledger'[g] = ledger[g]
    BY <1>2, Records
  <2>2. BooksOf(g)
    BY DEF BooksInv
  <2>3. InFlight(g)' = 0
    BY <1>4, <1>6, NothingInFlightThen DEF Pending, PendingOf
  <2>4. ASSUME g \notin torn'
        PROVE  exch'[g] = exch[g] /\ InFlight(g) = 0 /\ g \notin torn
    <3>1. /\ g \notin torn /\ \A t \in late : task[t].grid # g
          /\ \A t \in Tasks : task[t].at = "ledger" => task[t].grid # g
      BY <1>1, <2>4
    <3>2. LateFills(late, g) = 0
      BY <1>3, <3>1, LateFillsAre
    <3>3. exch'[g] = exch[g]
      BY <1>1, <3>2 DEF BooksInv, BookTypes
    <3>4. \A t \in Tasks : Pending(t, g) = 0
      BY <3>1 DEF Pending, PendingOf
    <3> QED
      BY <3>1, <3>3, <3>4, NothingInFlight DEF BooksInv
  <2>5. Restorable(g)' => Restorable(g) /\ row[g].status # "none"
    BY <2>1 DEF Restorable, OpenStatuses, AllWhole
  <2>6. grid[g].status # "none" => grid[g] # NoGrid
    BY Records
  <2>7. NetOf(g)'
    <3>1. ASSUME g \notin torn' \cup behind', Restorable(g)
          PROVE  exch'[g] = row[g].net
      <4>1. CASE grid[g].status = "none"
        BY <1>5, <2>2, <2>4, <3>1, <4>1 DEF BooksOf, NetOf, HistoryGrows
      <4>2. CASE grid[g].status # "none"
        <5>1. RowOf(grid[g]) = row[g]
          BY <1>2, <2>6, <3>1, <4>2
        <5>2. row[g].net = grid[g].net
          BY <5>1, Records DEF BooksInv, BookTypes
        <5>3. exch[g] = grid[g].net + InFlight(g)
          BY <1>5, <2>2, <2>4, <3>1, <4>2 DEF BooksOf, NetOf, HistoryGrows
        <5>4. grid[g].net \in Int
          BY DEF BooksInv, BookTypes, GridRecords
        <5> QED
          BY <2>4, <3>1, <5>2, <5>3, <5>4
      <4> QED
        BY <4>1, <4>2
    <3>2. g \notin torn' /\ ledger[g] = <<>> => exch'[g] = 0
      BY <2>2, <2>4 DEF BooksOf, NetOf
    <3> QED
      BY <2>1, <2>3, <2>5, <3>1, <3>2 DEF NetOf
  <2>8. LevelsOf(g)'
    <3>1. ASSUME g \notin torn' \cup raced, Restorable(g)
          PROVE  exch'[g] = Sign(row[g].dir) * Held(Replay(ledger[g]))
      <4>1. CASE grid[g].status = "none"
        BY <2>2, <2>4, <3>1, <4>1 DEF BooksOf, LevelsOf
      <4>2. CASE grid[g].status # "none"
        <5>1. /\ exch[g] = Sign(grid[g].dir) * Held(grid[g].held)
                           + InFlight(g)
              /\ Replay(ledger[g]) = grid[g].held
              /\ row[g].dir = grid[g].dir
          BY <2>2, <2>4, <3>1, <4>2
          DEF BooksOf, LevelsOf, Restorable, OpenStatuses
        <5>2. Held(grid[g].held) \in Int
          BY HeldIs DEF BooksInv, BookTypes, GridRecords
        <5> QED
          BY <2>4, <3>1, <5>1, <5>2, SignIs
      <4> QED
        BY <4>1, <4>2
    <3>2. g \notin torn' => \A l \in Levels : Replay(ledger[g])[l] <= Lots
      BY <2>2, <2>4 DEF BooksOf, LevelsOf
    <3> QED
      BY <1>2, <2>1, <2>5, <3>1, <3>2 DEF LevelsOf
  <2>9. ClosedOf(g)'
    <3>1. Fine(g)' => Fine(g) /\ g \notin torn'
      BY <1>2, <2>4 DEF Fine
    <3> QED
      BY <2>1, <2>2, <2>4, <3>1 DEF BooksOf, ClosedOf
  <2> QED
    BY <2>7, <2>8, <2>9 DEF BooksOf
<1> QED
  BY <1>4, <1>7, <1>8, <1>9 DEF BooksInv

\* A restart takes rows and ledgers for books, or finds nothing.
LEMMA RestartKeepsBooks ==
  ASSUME BooksInv, DownIsEmpty, Restart
  PROVE  BooksInv'
<1>1. /\ \A g \in Grids : grid[g] = NoGrid
      /\ \A t \in Tasks : task[t].at = "idle"
      /\ UNCHANGED <<task, row, ledger, exch, torn, behind, raced, unfilled>>
  BY Records DEF DownIsEmpty, Restart, tables
<1>2. \A g \in Grids :
        \/ grid'[g] = NoGrid
        \/ Restorable(g) /\ grid'[g] = FromTables(g)
  BY <1>1 DEF Restart
<1>3. \A g \in Grids : FromTables(g) \in GridRecords
  <2> SUFFICES ASSUME NEW g \in Grids PROVE FromTables(g) \in GridRecords
    OBVIOUS
  <2>1. Replay(ledger[g]) \in HeldLevels
    BY ReplayType DEF BooksInv, BookTypes
  <2>2. row[g] \in RowRecords
    BY DEF BooksInv, BookTypes
  <2> QED
    BY <2>1, <2>2 DEF FromTables, GridRecords, RowRecords
<1>4. BookTypes'
  <2>1. grid' \in [Grids -> GridRecords]
    <3>1. \A g \in Grids : grid'[g] \in GridRecords
      BY <1>2, <1>3, Records
    <3>2. grid' = [g \in Grids |-> grid'[g]]
      BY DEF Restart, BooksInv, BookTypes
    <3> QED
      BY <3>1, <3>2
  <2> QED
    BY <1>1, <2>1 DEF BooksInv, BookTypes
<1>5. HistoryGrows
  BY <1>1 DEF HistoryGrows
<1>6. \A t \in Tasks : TaskOk(t)'
  BY <1>1, <1>5, TaskFrame DEF BooksInv, AtRest
<1>7. OneCloser'
  BY <1>1 DEF BooksInv, OneCloser, Busy, AtRest
<1>8. \A g \in Grids : InFlight(g) = 0 /\ InFlight(g)' = 0
  <2> SUFFICES ASSUME NEW g \in Grids
               PROVE  InFlight(g) = 0 /\ InFlight(g)' = 0
    OBVIOUS
  <2>1. \A t \in Tasks : Pending(t, g) = 0 /\ Pending(t, g)' = 0
    BY <1>1 DEF Pending, PendingOf
  <2> QED
    BY <1>4, <2>1, NothingInFlight, NothingInFlightThen DEF BooksInv
<1>9. ASSUME NEW g \in Grids PROVE BooksOf(g)'
  <2>1. CASE grid'[g] = NoGrid
    BY <1>1, <1>5, <1>8, <2>1, BooksStand DEF BooksInv
  <2>2. CASE Restorable(g) /\ grid'[g] = FromTables(g)
    <3>1. /\ grid'[g].status = row[g].status /\ grid'[g].dir = row[g].dir
          /\ grid'[g].net = row[g].net
          /\ grid'[g].held = Replay(ledger[g])
      BY <2>2 DEF FromTables
    <3>2. row[g].status \in OpenStatuses /\ grid[g].status = "none"
      BY <1>1, <2>2, Records DEF Restorable
    <3>3. BooksOf(g)
      BY DEF BooksInv
    <3>4. NetOf(g)'
      <4>1. row[g].net \in Int
        BY DEF BooksInv, BookTypes, RowRecords
      <4> QED
        BY <1>1, <1>8, <2>2, <3>1, <3>2, <3>3, <4>1
        DEF BooksOf, NetOf, OpenStatuses
    <3>5. LevelsOf(g)'
      <4>1. Replay(ledger[g]) \in HeldLevels
        BY ReplayType DEF BooksInv, BookTypes
      <4>2. PICK w \in Int :
              w = Sign(row[g].dir) * Held(Replay(ledger[g]))
        BY <4>1, HeldIs, SignIs
      <4>3. g \notin torn \cup raced => exch[g] = w + 0
        BY <2>2, <3>2, <3>3, <4>2 DEF BooksOf, LevelsOf
      <4> QED
        BY <1>1, <1>8, <3>1, <3>2, <3>3, <4>2, <4>3
        DEF BooksOf, LevelsOf, OpenStatuses
    <3>6. ClosedOf(g)'
      BY <1>1, <3>1, <3>2, <3>3 DEF BooksOf, ClosedOf, OpenStatuses
    <3> QED
      BY <3>4, <3>5, <3>6 DEF BooksOf
  <2> QED
    BY <1>2, <2>1, <2>2
<1> QED
  BY <1>4, <1>6, <1>7, <1>9 DEF BooksInv

\* At the start there are no grids.
LEMMA InitBooksInv == Init => BooksInv
<1> SUFFICES ASSUME Init PROVE BooksInv
  OBVIOUS
<1>1. /\ \A g \in Grids : /\ grid[g] = NoGrid /\ row[g] = NoRow
                          /\ ledger[g] = <<>> /\ exch[g] = 0
      /\ \A t \in Tasks : task[t] = NoTask /\ task[t].at = "idle"
  BY Records DEF Init
<1>2. BookTypes
  BY Records DEF Init, BookTypes
<1>3. ASSUME NEW t \in Tasks PROVE TaskOk(t)
  <2>1. task[t].at = "idle"
    BY <1>1
  <2>2. Sized(t) /\ Placed(t)
    BY <2>1 DEF Sized, Placed, AtRest, Sending
  <2>3. Swept(t)
    BY <2>1 DEF Swept, AtRest
  <2> QED
    BY <2>2, <2>3 DEF TaskOk
<1>4. OneCloser
  BY <1>1, Basics DEF OneCloser, Busy, AtRest
<1>5. ASSUME NEW g \in Grids PROVE BooksOf(g)
  <2>1. InFlight(g) = 0
    BY <1>1, <1>2, NothingInFlight DEF Pending, PendingOf
  <2>2. ~Restorable(g) /\ grid[g].status = "none" /\ row[g].status = "none"
    BY <1>1, Records DEF Restorable, OpenStatuses
  <2>3. \A l \in Levels : Replay(ledger[g])[l] <= Lots
    BY <1>1, ReplayOfNothing, Basics DEF Flat
  <2> QED
    BY <1>1, <2>1, <2>2, <2>3 DEF BooksOf, NetOf, LevelsOf, ClosedOf
<1> QED
  BY <1>2, <1>3, <1>4, <1>5 DEF BooksInv

\* Every step keeps the books.
LEMMA NextBooksInv ==
  BooksInv /\ TasksWork /\ DownIsEmpty /\ [Next]_gridVars => BooksInv'
<1> SUFFICES ASSUME BooksInv, TasksWork, DownIsEmpty, [Next]_gridVars
             PROVE  BooksInv'
  OBVIOUS
<1>1. CASE Scheduler
  <2>1. CASE \E g \in Grids, d \in Directions, p \in Levels : Open(g, d, p)
    BY <2>1, OpenKeepsBooks
  <2>2. CASE SaveOpen \/ SaveTick
    BY <2>2, SavesKeepBooks, Basics
  <2>3. CASE \E g \in Grids, p \in Levels : BeginTick(g, p)
    BY <2>3, TickSteps
  <2>4. CASE EndTick
    BY <2>4, EndTickKeepsBooks
  <2> QED
    BY <1>1, <2>1, <2>2, <2>3, <2>4 DEF Scheduler
<1>2. CASE \E t \in Tasks : Step(t)
  <2> PICK t \in Tasks : Step(t)
    BY <1>2
  <2>1. CASE Walk(t)
    BY <2>1, WalkKeepsBooks
  <2>2. CASE Refuse(t) \/ Send(t) \/ \E n \in 1..task[t].qty : AnswerLost(t, n)
    BY <2>2, NoFillSteps
  <2>3. CASE \E n \in 0..task[t].qty : Answer(t, n)
    BY <2>3, AnswerStep
  <2>4. CASE Book(t)
    BY <2>4, BookKeepsBooks
  <2>5. CASE Save(t)
    BY <2>5, SavesKeepBooks
  <2> QED
    BY <2>1, <2>2, <2>3, <2>4, <2>5 DEF Step
<1>3. CASE \E t \in Closers : Close(t)
  <2> PICK t \in Closers : Close(t)
    BY <1>3
  <2>1. CASE \E g \in Grids : CloseNext(t, g)
    BY <2>1, CloseNextKeepsBooks
  <2>2. CASE \E g \in Grids : SkipNext(t, g)
    BY <2>2, ListSteps
  <2>3. CASE EndClose(t)
    BY <2>3, EndCloseKeepsBooks
  <2>4. CASE SaveClose(t)
    BY <2>4, SavesKeepBooks, Basics
  <2>5. CASE EndList(t)
    BY <2>5, ListSteps
  <2> QED
    BY <2>1, <2>2, <2>3, <2>4, <2>5 DEF Close
<1>4. CASE \/ Deactivate \/ Liquidate \/ Activate \/ Kill \/ Release
           \/ UNCHANGED gridVars
  BY <1>4, ListSteps
<1>5. CASE Crash
  BY <1>5, CrashKeepsBooks
<1>6. CASE Restart
  BY <1>6, RestartKeepsBooks
<1> QED
  BY <1>1, <1>2, <1>3, <1>4, <1>5, <1>6 DEF Next

\* So the books hold always.
LEMMA BooksHold == Spec => [](BooksInv /\ TasksWork /\ DownIsEmpty)
<1>1. GridInv => TasksWork /\ DownIsEmpty
  BY DEF GridInv
<1>2. Spec => []GridInv
  BY InitGridInv, NextGridInv, PTL DEF Spec
<1>3. Spec => []BooksInv
  BY <1>1, <1>2, InitBooksInv, NextBooksInv, PTL DEF Spec
<1> QED
  BY <1>1, <1>2, <1>3, PTL

\* The rest of the types: flags, histories, and what an untracked grid holds.
FlagTypes ==
  /\ up \in BOOLEAN /\ opened \in BOOLEAN /\ symbolOn \in BOOLEAN
  /\ killed \in BOOLEAN /\ event \in BOOLEAN
  /\ {torn, behind, raced, unfilled, missed} \subseteq SUBSET Grids
  /\ \A g \in Grids : grid[g].status = "none" => grid[g].held = Flat

\* Grids that a step touches are tracked after it, or hold nothing.
LEMMA TouchedGrids ==
  ASSUME BooksInv, TasksWork, FlagTypes, [Next]_gridVars
  PROVE  \A g \in Grids : grid'[g].status = "none" => grid'[g].held = Flat
<1> DEFINE Kept == \A g \in Grids :
             grid'[g].status = "none" => grid'[g].held = Flat
<1>1. grid \in [Grids -> GridRecords]
  BY DEF BooksInv, BookTypes
<1>2. ASSUME UNCHANGED grid PROVE Kept
  BY <1>2 DEF FlagTypes
<1>3. ASSUME NEW h \in Grids, NEW b,
             grid' = [grid EXCEPT ![h] = b], b.status # "none"
      PROVE  Kept
  BY <1>1, <1>3 DEF FlagTypes
<1>4. NoGrid.held = Flat
  BY DEF NoGrid
<1>5. ASSUME NEW g \in Grids, NEW d \in Directions, NEW p \in Levels,
             Open(g, d, p)
      PROVE  Kept
  <2>1. PICK b : b = NewGrid(d, p)
    OBVIOUS
  <2>2. b.status # "none"
    BY <2>1, FreshRecords
  <2>3. grid' = [grid EXCEPT ![g] = b]
    BY <1>5, <2>1 DEF Open
  <2> QED
    BY <1>3, <2>2, <2>3
<1>6. ASSUME EndTick PROVE Kept
  <2>1. PICK t, h, b : /\ t = "scheduler" /\ h = task[t].grid
                       /\ b = [grid[h] EXCEPT !.price = task[t].price]
    OBVIOUS
  <2>2. h \in Grids /\ grid[h].status # "none"
    BY <1>6, <2>1, Basics DEF EndTick, TasksWork
  <2>3. b.status = grid[h].status
    BY <1>1, <2>1, <2>2 DEF GridRecords
  <2>4. grid' = [grid EXCEPT ![h] = b]
    BY <1>1, <1>6, <2>1, <2>2 DEF EndTick
  <2> QED
    BY <1>3, <2>2, <2>3, <2>4
<1>7. ASSUME NEW t \in Tasks, Book(t) PROVE Kept
  <2>1. PICK h \in Grids, b \in GridRecords :
          /\ h = task[t].grid /\ task[t].at = "ledger"
          /\ b.status = grid[h].status
          /\ grid' = [grid EXCEPT ![h] = b]
    BY <1>7, BookIs DEF Booked
  <2>2. grid[h].status # "none"
    BY <2>1 DEF TasksWork
  <2> QED
    BY <1>3, <2>1, <2>2
<1>8. ASSUME NEW t \in Closers, NEW g \in Grids, CloseNext(t, g) PROVE Kept
  <2>1. PICK b : b = [grid[g] EXCEPT !.status = "closing"]
    OBVIOUS
  <2>2. b.status # "none"
    BY <1>1, <2>1 DEF GridRecords
  <2>3. grid' = [grid EXCEPT ![g] = b]
    BY <1>1, <1>8, <2>1 DEF CloseNext
  <2> QED
    BY <1>3, <2>2, <2>3
<1>9. ASSUME NEW t \in Closers, EndClose(t) PROVE Kept
  <2>1. PICK h, b : /\ h = task[t].grid
                    /\ b = [grid[h] EXCEPT !.status = "closed"]
    OBVIOUS
  <2>2. h \in Grids
    BY <1>9, <2>1, Basics DEF EndClose, TasksWork
  <2>3. b.status # "none"
    BY <1>1, <2>1, <2>2 DEF GridRecords
  <2>4. grid' = [grid EXCEPT ![h] = b]
    BY <1>1, <1>9, <2>1, <2>2 DEF EndClose
  <2> QED
    BY <1>3, <2>2, <2>3, <2>4
<1>10. CASE Crash
  BY <1>4, <1>10 DEF Crash
<1>11. CASE Restart
  <2>1. \A g \in Grids : Restorable(g) =>
          FromTables(g).status \in OpenStatuses
    BY DEF FromTables, Restorable
  <2>2. \A g \in Grids :
          Restorable(g) => FromTables(g).status # "none"
    BY <2>1 DEF OpenStatuses
  <2>3. CASE UNCHANGED grid
    BY <1>2, <2>3
  <2>4. CASE grid' = [g \in Grids |-> IF Restorable(g) THEN FromTables(g)
                                      ELSE NoGrid]
    BY <1>4, <2>2, <2>4
  <2> QED
    BY <1>11, <2>3, <2>4 DEF Restart
<1>12. ASSUME \/ SaveOpen \/ SaveTick
              \/ \E g \in Grids, p \in Levels : BeginTick(g, p)
              \/ \E t \in Tasks :
                   \/ Walk(t) \/ Refuse(t) \/ Send(t) \/ Save(t)
                   \/ \E n \in 0..task[t].qty : Answer(t, n)
                   \/ \E n \in 1..task[t].qty : AnswerLost(t, n)
              \/ \E t \in Closers :
                   \/ \E g \in Grids : SkipNext(t, g)
                   \/ SaveClose(t) \/ EndList(t)
              \/ Deactivate \/ Activate \/ Kill \/ Release \/ Liquidate
              \/ UNCHANGED gridVars
       PROVE  Kept
  <2>1. UNCHANGED grid
    BY <1>12 DEF SaveOpen, SaveTick, BeginTick, Walk, Refuse, Send, Answer,
         AnswerLost, Save, SkipNext, SaveClose, EndList, Deactivate, Activate,
         Kill, Release, Liquidate, gridVars, books
  <2> QED
    BY <1>2, <2>1
<1> HIDE DEF Kept
<1> QED
  BY <1>5, <1>6, <1>7, <1>8, <1>9, <1>10, <1>11, <1>12
  DEF Next, Scheduler, Step, Close, Kept

\* Every step keeps the rest of the types.
LEMMA NextFlagTypes ==
  ASSUME BooksInv, TasksWork, FlagTypes, [Next]_gridVars
  PROVE  FlagTypes'
<1>1. \A t \in Tasks : task[t].at \notin {"idle", "list"} =>
                        task[t].grid \in Grids
  BY DEF TasksWork
<1>2. "scheduler" \in Tasks /\ \A t \in Closers : t \in Tasks
  BY Basics
<1>3. /\ torn' \in SUBSET Grids /\ behind' \in SUBSET Grids
      /\ raced' \in SUBSET Grids /\ unfilled' \in SUBSET Grids
      /\ missed' \in SUBSET Grids
  <2> DEFINE Kept ==
        /\ torn' \in SUBSET Grids /\ behind' \in SUBSET Grids
        /\ raced' \in SUBSET Grids /\ unfilled' \in SUBSET Grids
        /\ missed' \in SUBSET Grids
  <2>0. /\ torn \in SUBSET Grids /\ behind \in SUBSET Grids
        /\ raced \in SUBSET Grids /\ unfilled \in SUBSET Grids
        /\ missed \in SUBSET Grids
    BY DEF FlagTypes
  <2>1. ASSUME NEW t \in Tasks, Step(t) PROVE Kept
    <3>1. \/ UNCHANGED <<torn, behind, raced, unfilled, missed>>
          \/ /\ task[t].at \in {"submit", "sent", "ledger"}
             /\ torn' \subseteq torn \cup {task[t].grid}
             /\ unfilled' \subseteq unfilled \cup {task[t].grid}
             /\ UNCHANGED <<behind, raced, missed>>
      BY <2>1 DEF Step, Walk, Refuse, Send, Answer, AnswerLost, Book, Save,
                  history
    <3>2. CASE UNCHANGED <<torn, behind, raced, unfilled, missed>>
      BY <2>0, <3>2
    <3>3. CASE /\ task[t].at \in {"submit", "sent", "ledger"}
               /\ torn' \subseteq torn \cup {task[t].grid}
               /\ unfilled' \subseteq unfilled \cup {task[t].grid}
               /\ UNCHANGED <<behind, raced, missed>>
      <4>1. task[t].grid \in Grids
        BY <1>1, <3>3
      <4> QED
        BY <2>0, <3>3, <4>1
    <3> QED
      BY <3>1, <3>2, <3>3
  <2>2. ASSUME NEW t \in Closers, Close(t) PROVE Kept
    <3>1. /\ UNCHANGED <<torn, behind, unfilled, missed>>
          /\ raced' \subseteq raced \cup Grids
      BY <2>2 DEF Close, CloseNext, SkipNext, EndClose, SaveClose, EndList,
                  history
    <3> QED
      BY <2>0, <3>1
  <2>3. CASE Crash
    <3>1. /\ torn' \subseteq torn \cup Grids
          /\ behind' \subseteq behind \cup Grids
          /\ UNCHANGED <<raced, unfilled, missed>>
      BY <1>1, <2>3 DEF Crash
    <3> QED
      BY <2>0, <3>1
  <2>4. CASE Restart
    BY <2>0, <2>4 DEF Restart
  <2>5. CASE \/ Scheduler \/ Deactivate \/ Activate \/ Kill \/ Release
             \/ Liquidate \/ UNCHANGED gridVars
    BY <2>0, <2>5 DEF Scheduler, Open, SaveOpen, BeginTick, EndTick, SaveTick,
         Deactivate, Activate, Kill, Release, Liquidate, gridVars, history
  <2>6. CASE \/ \E t \in Tasks : Step(t)
             \/ \E t \in Closers : Close(t)
    BY <2>1, <2>2, <2>6
  <2>7. \/ \E t \in Tasks : Step(t)
        \/ \E t \in Closers : Close(t)
        \/ Crash
        \/ Restart
        \/ \/ Scheduler \/ Deactivate \/ Activate \/ Kill \/ Release
           \/ Liquidate \/ UNCHANGED gridVars
    BY DEF Next
  <2>8. Kept
    BY <2>3, <2>4, <2>5, <2>6, <2>7
  <2> QED
    BY <2>8 DEF Kept
<1>4. up' \in BOOLEAN
  BY DEF FlagTypes, Next, Scheduler, Step, Close, Open, SaveOpen, BeginTick,
     EndTick, SaveTick, Walk, Refuse, Send, Answer, AnswerLost, Book, Save,
     CloseNext, SkipNext, EndClose, SaveClose, EndList, Deactivate, Activate,
     Kill, Release, Liquidate, Crash, Restart, gridVars
<1>5. opened' \in BOOLEAN
  <2>1. opened' = opened \/ opened' = TRUE \/ opened' = FALSE
    BY DEF Next, Scheduler, Step, Close, Open, SaveOpen, BeginTick,
       EndTick, SaveTick, Walk, Refuse, Send, Answer, AnswerLost, Book, Save,
       CloseNext, SkipNext, EndClose, SaveClose, EndList, Deactivate, Activate,
       Kill, Release, Liquidate, Crash, Restart, gridVars, books
  <2> QED
    BY <2>1 DEF FlagTypes
<1>6. symbolOn' \in BOOLEAN /\ killed' \in BOOLEAN /\ event' \in BOOLEAN
  <2>1. /\ symbolOn' = symbolOn \/ symbolOn' = TRUE \/ symbolOn' = FALSE
        /\ killed' = killed \/ killed' = TRUE \/ killed' = FALSE
        /\ event' = event \/ event' = TRUE \/ event' = FALSE
    <3>1. CASE Scheduler
      BY <3>1 DEF Scheduler, Open, SaveOpen, BeginTick, EndTick, SaveTick,
                  switches
    <3>2. CASE \E t \in Tasks : Step(t)
      BY <3>2 DEF Step, Walk, Refuse, Send, Answer, AnswerLost, Book, Save,
                  switches
    <3>3. CASE \E t \in Closers : Close(t)
      BY <3>3 DEF Close, CloseNext, SkipNext, EndClose, SaveClose, EndList,
                  switches
    <3>4. CASE \/ Deactivate \/ Activate \/ Kill \/ Release \/ Liquidate
               \/ Crash \/ Restart \/ UNCHANGED gridVars
      BY <3>4 DEF Deactivate, Activate, Kill, Release, Liquidate, Crash,
                  Restart, gridVars, switches
    <3> QED
      BY <3>1, <3>2, <3>3, <3>4 DEF Next
  <2> QED
    BY <2>1 DEF FlagTypes
<1> QED
  BY <1>3, <1>4, <1>5, <1>6, TouchedGrids DEF FlagTypes

\* And they hold at the start.
LEMMA InitFlagTypes == Init => FlagTypes
<1>1. NoGrid.held = Flat
  BY DEF NoGrid
<1> QED
  BY <1>1 DEF Init, FlagTypes

(* Every variable has its type, and a level never holds more than one opening
   order, however many grids, levels, lots, faults and restarts there are -
   except in a grid whose ledger lost a fill: its restart replays an opening
   over a level that was never seen to close. *)
THEOREM GridTyped == Spec => []TypeOK
<1>1. BooksInv /\ FlagTypes => TypeOK
  <2> SUFFICES ASSUME BooksInv, FlagTypes PROVE TypeOK
    OBVIOUS
  <2>1. ASSUME NEW g \in Grids \ torn, NEW l \in Levels
        PROVE  grid[g].held[l] <= Lots
    <3>1. CASE grid[g].status = "none"
      BY <3>1, Basics DEF FlagTypes, Flat
    <3>2. CASE grid[g].status # "none"
      <4>1. /\ Replay(ledger[g]) = grid[g].held
            /\ Replay(ledger[g])[l] <= Lots
        BY <3>2 DEF BooksInv, BooksOf, LevelsOf
      <4> QED
        BY <4>1
    <3> QED
      BY <3>1, <3>2
  <2>2. /\ up \in BOOLEAN /\ opened \in BOOLEAN /\ symbolOn \in BOOLEAN
        /\ killed \in BOOLEAN /\ event \in BOOLEAN
        /\ {torn, behind, raced, unfilled, missed} \subseteq SUBSET Grids
    BY DEF FlagTypes
  <2>3. /\ grid \in [Grids -> GridRecords] /\ row \in [Grids -> RowRecords]
        /\ task \in [Tasks -> TaskRecords] /\ exch \in [Grids -> Int]
    BY DEF BooksInv, BookTypes
  <2> QED
    BY <2>1, <2>2, <2>3, Zenon
    DEF TypeOK, GridRecords, RowRecords, TaskRecords, HeldLevels, Statuses,
        Places
<1>2. BooksInv /\ TasksWork /\ FlagTypes /\ [Next]_gridVars => FlagTypes'
  BY NextFlagTypes
<1>3. Spec => []FlagTypes
  BY <1>2, InitFlagTypes, BooksHold, PTL DEF Spec
<1> QED
  BY <1>1, <1>3, BooksHold, PTL

(* _fill_level books what _place_order reports filled, on the level, on the net
   quantity and in the ledger: these three agree with each other and with the
   exchange in every state, through partial fills, refused orders, failing
   writes, crashes and restarts, each as far as it is meant to. *)
THEOREM GridBooksAgree == Spec => []BooksAgree
<1>1. BooksInv => BooksAgree
  BY DEF BooksInv, BooksOf, NetOf, LevelsOf, BooksAgree, NetMatchesExchange,
         LevelsMatchExchange, ReplayMatchesLevels, Tracked
<1> QED
  BY <1>1, BooksHold, PTL

(* close_grid gives every filled level one closing order: a grid it has marked
   closed holds nothing, here and at the exchange, if those orders were filled
   whole and nothing else worked on the grid. *)
THEOREM ClosedGridsAreFlat == Spec => []ClosedIsFlatIfFilled
<1>1. BooksInv => ClosedIsFlatIfFilled
  BY DEF BooksInv, BooksOf, ClosedOf, Fine, ClosedIsFlatIfFilled, Tracked
<1> QED
  BY <1>1, BooksHold, PTL

(* restore_from_persistence loses no exposure that rows and ledger of a grid
   account for: what the exchange holds is in a restored grid, level by
   level, whatever happened before the crash. *)
THEOREM ExposureIsKept == Spec => RestartKeepsExposure
<1> DEFINE Kept == ~up /\ up' =>
       \A g \in Grids \ (torn \cup raced \cup unfilled \cup missed') :
         exch[g] # 0 /\ row[g] # NoRow /\ AllWhole(ledger[g])
           => /\ grid'[g].status \in OpenStatuses
              /\ exch[g] = Sign(grid'[g].dir) * Held(grid'[g].held)
<1>1. BooksInv /\ TasksWork /\ DownIsEmpty /\ [Next]_gridVars
        => Kept \/ UNCHANGED gridVars
  <2> SUFFICES ASSUME BooksInv, DownIsEmpty, Next, ~up, up',
                      NEW g \in Grids \ (torn \cup raced \cup unfilled
                                         \cup missed'),
                      exch[g] # 0, row[g] # NoRow, AllWhole(ledger[g])
               PROVE  /\ grid'[g].status \in OpenStatuses
                      /\ exch[g] = Sign(grid'[g].dir) * Held(grid'[g].held)
    OBVIOUS
  <2>1. Restart
    BY DEF Next, Scheduler, Step, Close, Open, SaveOpen, BeginTick, EndTick,
           SaveTick, Walk, Refuse, Send, Answer, AnswerLost, Book, Save,
           CloseNext, SkipNext, EndClose, SaveClose, EndList, Deactivate,
           Activate, Kill, Release, Liquidate, Crash, MayStart
  <2>2. BooksOf(g) /\ Fine(g) /\ grid[g].status = "none"
    BY Records DEF BooksInv, Fine, DownIsEmpty
  <2>3. row[g].status \notin {"none", "closed"}
    BY <2>2 DEF BooksOf, ClosedOf
  <2>4. row[g].status \in {"active", "closing"}
    BY <2>3 DEF BooksInv, BookTypes, RowRecords, Statuses
  <2>5. Restorable(g)
    BY <2>4 DEF Restorable, OpenStatuses
  <2>6. grid'[g] = FromTables(g)
    BY <2>1, <2>5 DEF Restart
  <2>7. exch[g] = Sign(row[g].dir) * Held(Replay(ledger[g]))
    BY <2>2, <2>5 DEF BooksOf, LevelsOf
  <2> QED
    BY <2>4, <2>6, <2>7 DEF FromTables, OpenStatuses
<1> QED
  BY <1>1, BooksHold, PTL DEF Spec, RestartKeepsExposure
=============================================================================
