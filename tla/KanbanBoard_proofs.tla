------------------------- MODULE KanbanBoard_proofs -------------------------
(***************************************************************************)
(* The books of the Kanban board, for any tasks, runs, limits and          *)
(* scenarios.                                                              *)
(*                                                                         *)
(* Almost every transaction of kanban_db.py does one of two things to a    *)
(* task: it keeps its run and its worker, or it frees the task and ends    *)
(* its run. A step that does no more is a flow (Flows), and a flow keeps   *)
(* the books. What is left are the claim, which starts a run, the write of *)
(* a worker's pid, and the count of a crash.                               *)
(*                                                                         *)
(* The dispatcher acts on rows that it read in an earlier transaction. The *)
(* induction says what such a row is still worth (RowBook): the task it    *)
(* was read of is not running any more, or has the same pid; the worker of *)
(* a row that was signalled is gone or was seen alive; the run that a      *)
(* claim started is the task's, or nobody's. That and the pid of an open   *)
(* run (PidBook) is why a run that is taken back has no living worker.     *)
(***************************************************************************)
EXTENDS KanbanBoard, TLAPS

-----------------------------------------------------------------------------
(* The rows of the board.                                                  *)

Statuses == {"triage", "todo", "scheduled", "ready", "running", "blocked", "done", "archived"}

\* A row of tasks.
TaskRow ==
  [status : Statuses, claim : {"free", "dispatcher", "operator"}, expired : BOOLEAN,
   stale : BOOLEAN, pid : Runs \union {None}, run : Runs \union {None}, failures : Nat,
   error : {"none", "plain", "auth"}, sticky : BOOLEAN, kind : {"none", "dependency"},
   recur : 0 .. 2]

TasksTyped == task \in [Tasks -> TaskRow]

\* How a run can end.
Endings == {"completed", "blocked", "reclaimed", "stale", "crashed", "rate_limited",
            "timed_out", "gave_up", "spawn_failed", "released"}

RunsTyped ==
  /\ outcome \in [Runs -> Endings \union {"unused", "open"}]
  /\ of \in [Runs -> Tasks \union {None}]

\* The row y has the run and the worker that x has, and is running if x is.
SameWork(x, y) ==
  y \in TaskRow /\ y.run = x.run /\ y.pid = x.pid /\ (y.status = "running" <=> x.status = "running")

\* The row y is of a task that nobody has.
FreeRow(y) == y \in TaskRow /\ y.run = None /\ y.status # "running"

LEMMA SameRow ==
  ASSUME NEW x \in TaskRow
  PROVE  SameWork(x, x)
BY DEF SameWork

LEMMA TimedRow ==
  ASSUME NEW x \in TaskRow, NEW b \in BOOLEAN, NEW c \in BOOLEAN
  PROVE  /\ SameWork(x, [x EXCEPT !.expired = b])
         /\ SameWork(x, [x EXCEPT !.stale = b])
         /\ SameWork(x, [x EXCEPT !.expired = b, !.stale = c])
BY DEF TaskRow, SameWork

LEMMA WaitingRow ==
  ASSUME NEW x \in TaskRow, x.status # "running", NEW s \in Statuses \ {"running"}
  PROVE  SameWork(x, [x EXCEPT !.status = s])
BY DEF TaskRow, SameWork

LEMMA CountedRow ==
  ASSUME NEW x \in TaskRow, NEW n \in Nat, NEW e \in {"none", "plain", "auth"}
  PROVE  SameWork(x, [x EXCEPT !.failures = n, !.error = e])
BY DEF TaskRow, SameWork

LEMMA FreedRow ==
  ASSUME NEW x \in TaskRow, NEW s \in Statuses \ {"running"}, NEW b \in BOOLEAN, NEW n \in Nat,
         NEW e \in {"none", "plain", "auth"}, NEW k \in {"none", "dependency"}, NEW m \in 0 .. 2
  PROVE  /\ FreeRow(Freed(x, s))
         /\ FreeRow([Freed(x, s) EXCEPT !.stale = b])
         /\ FreeRow([Freed(x, s) EXCEPT !.error = e])
         /\ FreeRow([Freed(x, s) EXCEPT !.kind = k])
         /\ FreeRow([Freed(x, s) EXCEPT !.kind = k, !.recur = m])
         /\ FreeRow([Freed(x, s) EXCEPT !.kind = k, !.recur = m, !.sticky = b])
         /\ FreeRow([Freed(x, s) EXCEPT !.failures = n, !.error = e])
<1> USE DEF Freed, TaskRow, FreeRow, None
<1>1. FreeRow(Freed(x, s)) OBVIOUS
<1>2. FreeRow([Freed(x, s) EXCEPT !.stale = b]) /\ FreeRow([Freed(x, s) EXCEPT !.error = e])
  BY ZenonT(60)
<1>3. FreeRow([Freed(x, s) EXCEPT !.kind = k]) OBVIOUS
<1>4. FreeRow([Freed(x, s) EXCEPT !.kind = k, !.recur = m]) OBVIOUS
<1>5. FreeRow([Freed(x, s) EXCEPT !.kind = k, !.recur = m, !.sticky = b]) OBVIOUS
<1>6. FreeRow([Freed(x, s) EXCEPT !.failures = n, !.error = e]) OBVIOUS
<1> QED BY <1>1, <1>2, <1>3, <1>4, <1>5, <1>6

LEMMA UnblockedRow ==
  ASSUME NEW x \in TaskRow, NEW s \in Statuses \ {"running"}
  PROVE  FreeRow([x EXCEPT !.status = s, !.run = None, !.failures = 0, !.error = "none",
                           !.sticky = FALSE])
BY DEF TaskRow, FreeRow, None

\* What one transaction writes is one row.
LEMMA OneRow ==
  ASSUME TasksTyped, NEW t \in Tasks, NEW x \in TaskRow, task' = [task EXCEPT ![t] = x]
  PROVE  TasksTyped' /\ task'[t] = x /\ \A u \in Tasks : u # t => task'[u] = task[u]
BY DEF TasksTyped

LEMMA RecomputedRows ==
  ASSUME NEW tk \in [Tasks -> TaskRow], NEW ps, NEW limit
  PROVE  /\ Recomputed(tk, ps, limit) \in [Tasks -> TaskRow]
         /\ \A t \in Tasks : SameWork(tk[t], Recomputed(tk, ps, limit)[t])
<1> DEFINE new == Recomputed(tk, ps, limit)
<1>1. \A t \in Tasks :
        new[t] = IF Promotable(tk, ps, t, limit) THEN [tk[t] EXCEPT !.status = "ready"]
                 ELSE tk[t]
  BY DEF Recomputed
<1>2. ASSUME NEW t \in Tasks PROVE SameWork(tk[t], new[t])
  <2>1. tk[t] \in TaskRow OBVIOUS
  <2>2. CASE Promotable(tk, ps, t, limit)
    <3>1. tk[t].status # "running" BY <2>2 DEF Promotable
    <3>2. SameWork(tk[t], [tk[t] EXCEPT !.status = "ready"]) BY <2>1, <3>1, WaitingRow DEF Statuses
    <3> QED BY <1>1, <2>2, <3>2
  <2>3. CASE ~Promotable(tk, ps, t, limit) BY <1>1, <2>1, <2>3, SameRow
  <2> QED BY <2>2, <2>3
<1>3. new \in [Tasks -> TaskRow]
  <2>1. \A t \in Tasks : new[t] \in TaskRow BY <1>2 DEF SameWork
  <2> QED BY <2>1 DEF Recomputed
<1> QED BY <1>2, <1>3

-----------------------------------------------------------------------------
(* What a step does to the books of tasks and runs.                        *)

Keeps(t) == SameWork(task[t], task'[t])
Frees(t) == FreeRow(task'[t])

\* Every task keeps its run or loses it; a run that is lost is over, and no other ends.
Flows ==
  /\ TasksTyped' /\ of' = of
  /\ outcome' \in [Runs -> Endings \union {"unused", "open"}]
  /\ \A t \in Tasks : Keeps(t) \/ Frees(t)
  /\ \A t \in Tasks, r \in Runs : Frees(t) /\ task[t].run = r => outcome'[r] # "open"
  /\ \A r \in Runs : \/ outcome'[r] = outcome[r]
                     \/ /\ outcome'[r] \in Endings
                        /\ \E t \in Tasks : Frees(t) /\ task[t].run = r

LEMMA KeptFlow ==
  ASSUME TasksTyped, RunsTyped, TasksTyped', UNCHANGED <<outcome, of>>, \A t \in Tasks : Keeps(t)
  PROVE  Flows
<1>1. ASSUME NEW t \in Tasks, NEW r \in Runs, Frees(t), task[t].run = r PROVE outcome'[r] # "open"
  <2>1. task'[t].run = None /\ task'[t].run = r BY <1>1 DEF Keeps, Frees, SameWork, FreeRow
  <2> QED BY <2>1 DEF Runs, None
<1> QED BY <1>1 DEF Flows, RunsTyped

LEMMA FreedFlow ==
  ASSUME TasksTyped, RunsTyped, TasksTyped', UNCHANGED of, NEW t \in Tasks, NEW how \in Endings,
         RunEnds(t, how), Frees(t), \A u \in Tasks : u # t => Keeps(u)
  PROVE  Flows
<1>1. /\ outcome' \in [Runs -> Endings \union {"unused", "open"}]
      /\ \A r \in Runs :
           outcome'[r] = IF r = task[t].run /\ outcome[r] = "open" THEN how ELSE outcome[r]
  BY DEF RunEnds, RunsTyped
<1>2. how # "open" BY DEF Endings
<1>3. ASSUME NEW u \in Tasks, NEW r \in Runs, Frees(u), task[u].run = r PROVE outcome'[r] # "open"
  <2>1. CASE u = t BY <1>1, <1>2, <1>3, <2>1
  <2>2. CASE u # t
    <3>1. task'[u].run = None /\ task'[u].run = r BY <1>3, <2>2 DEF Keeps, Frees, SameWork, FreeRow
    <3> QED BY <3>1 DEF Runs, None
  <2> QED BY <2>1, <2>2
<1> QED BY <1>1, <1>3 DEF Flows

LEMMA RowFreed ==
  ASSUME TasksTyped, RunsTyped, UNCHANGED of, NEW t \in Tasks, NEW x, FreeRow(x),
         task' = [task EXCEPT ![t] = x], NEW how \in Endings, RunEnds(t, how)
  PROVE  Flows
<1>1. x \in TaskRow BY DEF FreeRow
<1>2. TasksTyped' /\ task'[t] = x /\ \A u \in Tasks : u # t => task'[u] = task[u] BY <1>1, OneRow
<1>3. \A u \in Tasks : u # t => Keeps(u) BY <1>2, SameRow DEF Keeps, TasksTyped
<1> QED BY <1>2, <1>3, FreedFlow DEF Frees

LEMMA RowKept ==
  ASSUME TasksTyped, RunsTyped, UNCHANGED <<outcome, of>>, NEW t \in Tasks, NEW x,
         SameWork(task[t], x), task' = [task EXCEPT ![t] = x]
  PROVE  Flows
<1>1. x \in TaskRow BY DEF SameWork
<1>2. TasksTyped' /\ task'[t] = x /\ \A u \in Tasks : u # t => task'[u] = task[u] BY <1>1, OneRow
<1>3. \A u \in Tasks : Keeps(u) BY <1>2, SameRow DEF Keeps, TasksTyped
<1> QED BY <1>2, <1>3, KeptFlow

LEMMA NothingFlows ==
  ASSUME TasksTyped, RunsTyped, UNCHANGED <<task, outcome, of>>
  PROVE  Flows
<1>1. TasksTyped' /\ \A u \in Tasks : Keeps(u) BY SameRow DEF Keeps, TasksTyped
<1> QED BY <1>1, KeptFlow

LEMMA RecomputedFlow ==
  ASSUME TasksTyped, NEW t \in Tasks, NEW x \in TaskRow, NEW ps, NEW limit,
         task' = Recomputed([task EXCEPT ![t] = x], ps, limit)
  PROVE  TasksTyped' /\ SameWork(x, task'[t]) /\ \A u \in Tasks : u # t => Keeps(u)
<1> DEFINE tk == [task EXCEPT ![t] = x]
<1>1. tk \in [Tasks -> TaskRow] /\ tk[t] = x /\ \A u \in Tasks : u # t => tk[u] = task[u]
  BY DEF TasksTyped
<1>2. Recomputed(tk, ps, limit) \in [Tasks -> TaskRow]
      /\ \A u \in Tasks : SameWork(tk[u], Recomputed(tk, ps, limit)[u])
  BY <1>1, RecomputedRows
<1> QED BY <1>1, <1>2 DEF Keeps, TasksTyped

\* Of what complete_task() and block_task() do, and the commands of an operator.
LEMMA CompleteFlows ==
  ASSUME TasksTyped, RunsTyped, NEW t \in Tasks, NEW r, CompleteTask(t, r)
  PROVE  Flows
<1> DEFINE x == [Freed(task[t], "done") EXCEPT !.kind = "none", !.recur = 0]
<1>1. FreeRow(x)
  <2>1. task[t] \in TaskRow BY DEF TasksTyped
  <2>2. "done" \in Statuses \ {"running"} /\ "none" \in {"none", "dependency"} /\ 0 \in 0 .. 2
    BY DEF Statuses
  <2>3. 0 \in Nat /\ TRUE \in BOOLEAN OBVIOUS
  <2> QED BY <2>1, <2>2, <2>3, FreedRow
<1>2. task' = [task EXCEPT ![t] = x] /\ UNCHANGED of /\ RunEnds(t, "completed")
  BY DEF CompleteTask
<1> HIDE DEF x
<1> QED BY <1>1, <1>2, RowFreed DEF Endings

LEMMA AfterCompleteFlows ==
  ASSUME TasksTyped, RunsTyped, NEW t \in Tasks, AfterComplete(t)
  PROVE  Flows
<1> DEFINE x == [task[t] EXCEPT !.failures = 0, !.error = "none"]
<1>1. SameWork(task[t], x) BY CountedRow DEF TasksTyped
<1>2. [task EXCEPT ![t].failures = 0, ![t].error = "none"] = [task EXCEPT ![t] = x]
  BY DEF TasksTyped, TaskRow
<1>3. task' = Recomputed([task EXCEPT ![t] = x], parents, DefaultLimit) /\ UNCHANGED <<outcome, of>>
  BY <1>2 DEF AfterComplete
<1> HIDE DEF x
<1>4. x \in TaskRow BY <1>1 DEF SameWork
<1>5. TasksTyped' /\ SameWork(x, task'[t]) /\ \A u \in Tasks : u # t => Keeps(u)
  BY <1>3, <1>4, RecomputedFlow
<1>6. Keeps(t) BY <1>1, <1>5 DEF Keeps, SameWork
<1> QED BY <1>3, <1>5, <1>6, KeptFlow

LEMMA BlockFlows ==
  ASSUME TasksTyped, RunsTyped, NEW t \in Tasks, NEW r, NEW kind \in {"none", "dependency"},
         BlockTask(t, r, kind)
  PROVE  Flows
<1> DEFINE m == IF task[t].kind = kind THEN task[t].recur + 1 ELSE 1
           y == [Freed(task[t], "todo") EXCEPT !.kind = kind]
           z == [Freed(task[t], "triage") EXCEPT !.kind = kind, !.recur = 2]
           w == [Freed(task[t], "blocked") EXCEPT !.kind = kind, !.recur = m, !.sticky = TRUE]
           x == IF kind = "dependency" THEN y ELSE IF m >= 2 THEN z ELSE w
<1>1. task[t] \in TaskRow BY DEF TasksTyped
<1>2. m \in Nat /\ (m >= 2 \/ m \in 0 .. 2) BY <1>1 DEF TaskRow
<1>3. task' = [task EXCEPT ![t] = x] /\ UNCHANGED of /\ RunEnds(t, "blocked") BY DEF BlockTask
<1> HIDE DEF m
<1>4. {"todo", "triage", "blocked"} \subseteq Statuses \ {"running"} /\ 2 \in 0 .. 2 /\ 0 \in Nat
      /\ "none" \in {"none", "plain", "auth"} /\ TRUE \in BOOLEAN
  BY DEF Statuses
<1>5. FreeRow(y) BY <1>1, <1>4, FreedRow
<1>6. FreeRow(z) BY <1>1, <1>4, FreedRow
<1>7. m \in 0 .. 2 => FreeRow(w) BY <1>1, <1>4, FreedRow
<1> HIDE DEF y, z, w
<1>8. FreeRow(x) BY <1>2, <1>5, <1>6, <1>7
<1> HIDE DEF x
<1> QED BY <1>3, <1>8, RowFreed DEF Endings

LEMMA ReleaseFlows ==
  ASSUME TasksTyped, RunsTyped, NEW t \in Tasks, NEW limit,
         NEW error \in {"none", "plain", "auth"}, NEW how \in Endings,
         RecordFailure(t, limit, TRUE, error, how)
  PROVE  Flows
<1> DEFINE n == task[t].failures + 1
           trips == n >= limit
           counted == [task[t] EXCEPT !.failures = n, !.error = error]
           stopped == [counted EXCEPT !.status = "blocked"]
           waiting == [counted EXCEPT !.status = "ready"]
           picked == IF trips THEN stopped ELSE waiting
           freed == [picked EXCEPT !.claim = "free", !.expired = FALSE, !.pid = None]
           goes == task[t].status \in {"ready", "running"} /\ (trips \/ task[t].status = "running")
           next == IF goes THEN freed ELSE task[t]
           x == [next EXCEPT !.run = None]
           end == IF trips THEN "gave_up" ELSE how
<1>1. /\ task' = [task EXCEPT ![t] = x] /\ UNCHANGED of
      /\ RunEnds(t, end)
  BY Zenon DEF RecordFailure
<1>2. task[t] \in TaskRow BY DEF TasksTyped
<1>3. n \in Nat BY <1>2 DEF TaskRow
<1>4. task[t].status = "running" => goes BY Zenon
<1> HIDE DEF n, trips, goes
<1>5. counted \in TaskRow BY <1>2, <1>3 DEF TaskRow
<1> HIDE DEF counted
<1>6. picked \in TaskRow /\ picked.status # "running"
  <2>1. stopped \in TaskRow /\ stopped.status = "blocked" BY <1>5 DEF TaskRow, Statuses
  <2>2. waiting \in TaskRow /\ waiting.status = "ready" BY <1>5 DEF TaskRow, Statuses
  <2> QED BY <2>1, <2>2
<1> HIDE DEF picked
<1>7. freed \in TaskRow /\ freed.status # "running" BY <1>6 DEF TaskRow, None
<1> HIDE DEF freed
<1>8. next \in TaskRow /\ next.status # "running" BY <1>2, <1>4, <1>7
<1> HIDE DEF next
<1>9. FreeRow(x) BY <1>8 DEF TaskRow, FreeRow, None
<1>10. end \in Endings BY DEF Endings
<1> HIDE DEF x, end
<1> QED BY <1>1, <1>9, <1>10, RowFreed

\* A worker, when the task of its run is known.
LEMMA WorkerFlows ==
  ASSUME TasksTyped, RunsTyped, NEW r \in Runs, worker[r] # "none" => of[r] \in Tasks,
         WorkerStep(r)
  PROVE  Flows
<1> DEFINE t == of[r]
<1>1. t \in Tasks BY DEF WorkerStep, WorkerEnds, Heartbeat, WorkerCompletes, WorkerFinishes,
        WorkerBlocks, BudgetExhausted, GoalLoopBlocks, WorkerExits, WorkerDies, WorkerWedges
<1>2. task[t] \in TaskRow BY <1>1 DEF TasksTyped
<1>3. CASE Heartbeat(r)
  <2> DEFINE b == task[t].expired /\ task[t].claim # "dispatcher"
             c == task[t].stale /\ task[t].run # r
             x == [task[t] EXCEPT !.expired = b, !.stale = c]
  <2>1. task' = [task EXCEPT ![t].expired = b, ![t].stale = c] /\ UNCHANGED <<outcome, of>>
    BY <1>3 DEF Heartbeat
  <2>2. b \in BOOLEAN /\ c \in BOOLEAN OBVIOUS
  <2> HIDE DEF b, c
  <2>3. SameWork(task[t], x) BY <1>2, <2>2, TimedRow
  <2>4. task' = [task EXCEPT ![t] = x] BY <1>1, <2>1 DEF TasksTyped, TaskRow
  <2> HIDE DEF x, t
  <2> QED BY <1>1, <2>1, <2>3, <2>4, RowKept
<1>4. CASE WorkerCompletes(r)
  BY <1>1, <1>4, CompleteFlows DEF WorkerCompletes
<1>5. CASE WorkerFinishes(r)
  BY <1>1, <1>5, AfterCompleteFlows DEF WorkerFinishes
<1>6. ASSUME NEW kind \in {"none", "dependency"}, WorkerBlocks(r, kind) PROVE Flows
  <2>1. BlockTask(t, r, kind) BY <1>6 DEF WorkerBlocks
  <2> QED BY <1>1, <2>1, BlockFlows
<1>7. CASE BudgetExhausted(r)
  <2>1. RecordFailure(t, DefaultLimit, TRUE, "plain", "timed_out") BY <1>7 DEF BudgetExhausted
  <2>2. "timed_out" \in Endings /\ "plain" \in {"none", "plain", "auth"} BY DEF Endings
  <2> QED BY <1>1, <2>1, <2>2, ReleaseFlows
<1>8. CASE GoalLoopBlocks(r)
  <2>1. BlockTask(t, None, "none") BY <1>8 DEF GoalLoopBlocks
  <2>2. "none" \in {"none", "dependency"} OBVIOUS
  <2> QED BY <1>1, <2>1, <2>2, BlockFlows
<1>9. CASE WorkerExits(r) \/ WorkerDies(r) \/ WorkerWedges(r)
  <2>1. UNCHANGED <<task, outcome, of>> BY <1>9 DEF WorkerExits, WorkerDies, WorkerWedges, board
  <2> QED BY <2>1, NothingFlows
<1> QED BY <1>3, <1>4, <1>5, <1>6, <1>7, <1>8, <1>9 DEF WorkerStep, WorkerEnds

\* Time passes for a task.
LEMMA TimeFlows ==
  ASSUME TasksTyped, RunsTyped, NEW t \in Tasks, ClaimExpires(t) \/ HeartbeatAges(t)
  PROVE  Flows
<1>1. task[t] \in TaskRow /\ UNCHANGED <<outcome, of>>
  BY DEF TasksTyped, ClaimExpires, HeartbeatAges
<1>2. CASE ClaimExpires(t)
  <2> DEFINE x == [task[t] EXCEPT !.expired = TRUE]
  <2>1. task' = [task EXCEPT ![t] = x] BY <1>2 DEF ClaimExpires, TasksTyped, TaskRow
  <2>2. SameWork(task[t], x) BY <1>1, TimedRow
  <2> HIDE DEF x
  <2> QED BY <1>1, <2>1, <2>2, RowKept
<1>3. CASE HeartbeatAges(t)
  <2> DEFINE x == [task[t] EXCEPT !.stale = TRUE]
  <2>1. task' = [task EXCEPT ![t] = x] BY <1>3 DEF HeartbeatAges, TasksTyped, TaskRow
  <2>2. SameWork(task[t], x) BY <1>1, TimedRow
  <2> HIDE DEF x
  <2> QED BY <1>1, <2>1, <2>2, RowKept
<1> QED BY <1>2, <1>3

LEMMA PromotionFlows ==
  ASSUME TasksTyped, RunsTyped, UNCHANGED <<outcome, of>>, NEW ps, NEW limit,
         task' = Recomputed(task, ps, limit)
  PROVE  Flows
<1>1. task \in [Tasks -> TaskRow] BY DEF TasksTyped
<1>2. TasksTyped' /\ \A t \in Tasks : Keeps(t)
  BY <1>1, RecomputedRows DEF TasksTyped, Keeps
<1> QED BY <1>2, KeptFlow

\* A command that has a task, and is not a claim.
LEMMA CommandFlows ==
  ASSUME TasksTyped, RunsTyped, NEW t \in Tasks,
         \/ OpComplete(t) \/ OpBlock(t) \/ OpUnblock(t) \/ OpPromote(t) \/ OpArchive(t)
         \/ OpSchedule(t) \/ OpReclaim(t)
  PROVE  Flows
<1>1. task[t] \in TaskRow BY DEF TasksTyped
<1>2. CASE OpComplete(t)
  <2>1. CompleteTask(t, None) BY <1>2 DEF OpComplete
  <2> QED BY <2>1, CompleteFlows
<1>3. CASE OpBlock(t)
  <2>1. BlockTask(t, None, "none") BY <1>3 DEF OpBlock
  <2>2. "none" \in {"none", "dependency"} OBVIOUS
  <2> QED BY <2>1, <2>2, BlockFlows
<1>4. CASE OpUnblock(t)
  <2> DEFINE s == IF \E p \in parents[t] : task[p].status # "done" THEN "todo" ELSE "ready"
             x == [task[t] EXCEPT !.status = s, !.run = None, !.failures = 0, !.error = "none",
                                  !.sticky = FALSE]
  <2>1. /\ task' = [task EXCEPT ![t].status = s, ![t].run = None, ![t].failures = 0,
                                ![t].error = "none", ![t].sticky = FALSE]
        /\ UNCHANGED of /\ RunEnds(t, "reclaimed")
    BY <1>4 DEF OpUnblock
  <2>2. s \in Statuses \ {"running"} BY DEF Statuses
  <2> HIDE DEF s
  <2>3. task' = [task EXCEPT ![t] = x] BY <1>1, <2>1 DEF TasksTyped, TaskRow
  <2>4. FreeRow(x) BY <1>1, <2>2, UnblockedRow
  <2>5. "reclaimed" \in Endings BY DEF Endings
  <2> HIDE DEF x
  <2> QED BY <2>1, <2>3, <2>4, <2>5, RowFreed
<1>5. CASE OpPromote(t) \/ OpReclaim(t)
  <2>1. UNCHANGED <<task, outcome, of>> BY <1>5 DEF OpPromote, OpReclaim, board
  <2> QED BY <2>1, NothingFlows
<1>6. ASSUME NEW s \in {"archived", "scheduled"} PROVE FreeRow(Freed(task[t], s))
  <2>1. s \in Statuses \ {"running"} BY DEF Statuses
  <2>2. "none" \in {"none", "plain", "auth"} /\ "none" \in {"none", "dependency"} /\ 0 \in Nat
        /\ 0 \in 0 .. 2 /\ TRUE \in BOOLEAN
    OBVIOUS
  <2> QED BY <1>1, <2>1, <2>2, FreedRow
<1>7. CASE OpArchive(t)
  <2> DEFINE x == Freed(task[t], "archived")
  <2>1. /\ task' = Recomputed([task EXCEPT ![t] = x], parents, DefaultLimit)
        /\ UNCHANGED of /\ RunEnds(t, "released")
    BY <1>7 DEF OpArchive
  <2>2. FreeRow(x) BY <1>6
  <2> HIDE DEF x
  <2>3. x \in TaskRow BY <2>2 DEF FreeRow
  <2>4. TasksTyped' /\ SameWork(x, task'[t]) /\ \A u \in Tasks : u # t => Keeps(u)
    BY <2>1, <2>3, RecomputedFlow
  <2>5. Frees(t) BY <2>2, <2>4 DEF Frees, FreeRow, SameWork
  <2>6. "released" \in Endings BY DEF Endings
  <2> QED BY <2>1, <2>4, <2>5, <2>6, FreedFlow
<1>8. CASE OpSchedule(t)
  <2> DEFINE x == Freed(task[t], "scheduled")
  <2>1. task' = [task EXCEPT ![t] = x] /\ UNCHANGED of /\ RunEnds(t, "released")
    BY <1>8 DEF OpSchedule
  <2>2. FreeRow(x) BY <1>6
  <2>3. "released" \in Endings BY DEF Endings
  <2> HIDE DEF x
  <2> QED BY <2>1, <2>2, <2>3, RowFreed
<1> QED BY <1>2, <1>3, <1>4, <1>5, <1>7, <1>8

LEMMA LinkFlows ==
  ASSUME TasksTyped, RunsTyped, NEW p \in Tasks, NEW c \in Tasks, OpLink(p, c) \/ OpUnlink(p, c)
  PROVE  Flows
<1>1. CASE OpLink(p, c)
  <2> DEFINE x == [task[c] EXCEPT !.status = "todo"]
  <2>1. UNCHANGED <<outcome, of>> BY <1>1 DEF OpLink
  <2>2. CASE task[p].status # "done" /\ task[c].status = "ready"
    <3>1. task[c] \in TaskRow BY DEF TasksTyped
    <3>2. "todo" \in Statuses \ {"running"} BY DEF Statuses
    <3>3. SameWork(task[c], x) BY <2>2, <3>1, <3>2, WaitingRow
    <3>4. task' = [task EXCEPT ![c] = x] BY <1>1, <2>2, <3>1 DEF OpLink, TasksTyped, TaskRow
    <3> HIDE DEF x
    <3> QED BY <2>1, <3>3, <3>4, RowKept
  <2>3. CASE ~(task[p].status # "done" /\ task[c].status = "ready")
    BY <1>1, <2>1, <2>3, NothingFlows DEF OpLink
  <2> QED BY <2>2, <2>3
<1>2. CASE OpUnlink(p, c)
  <2>1. task' = Recomputed(task, parents', DefaultLimit) /\ UNCHANGED <<outcome, of>>
    BY <1>2 DEF OpUnlink
  <2> QED BY <2>1, PromotionFlows
<1> QED BY <1>1, <1>2

\* The second half of a command, when the task it read is one.
LEMMA RestFlows ==
  ASSUME TasksTyped, RunsTyped, operator.at # "idle" => operator.row \in Row, OperatorGoesOn
  PROVE  Flows
<1> DEFINE t == operator.row.task
<1>1. t \in Tasks BY DEF OperatorGoesOn, OpCompleted, OpPromoted, OpReclaimed, Row
<1>2. task[t] \in TaskRow BY <1>1 DEF TasksTyped
<1>3. CASE OpCompleted BY <1>1, <1>3, AfterCompleteFlows DEF OpCompleted
<1>4. CASE OpPromoted
  <2> DEFINE x == [task[t] EXCEPT !.status = "ready"]
  <2>1. UNCHANGED <<outcome, of>> BY <1>4 DEF OpPromoted
  <2>2. CASE task[t].status \in {"todo", "blocked"}
    <3>1. "ready" \in Statuses \ {"running"} BY DEF Statuses
    <3>2. SameWork(task[t], x) BY <1>2, <2>2, <3>1, WaitingRow
    <3>3. task' = [task EXCEPT ![t] = x] BY <1>2, <1>4, <2>2 DEF OpPromoted, TasksTyped, TaskRow
    <3> HIDE DEF x
    <3> QED BY <1>1, <2>1, <3>2, <3>3, RowKept
  <2>3. CASE task[t].status \notin {"todo", "blocked"}
    BY <1>4, <2>1, <2>3, NothingFlows DEF OpPromoted
  <2> QED BY <2>2, <2>3
<1>5. CASE OpReclaimed
  <2> DEFINE x == [Freed(task[t], "ready") EXCEPT !.failures = 0, !.error = "none"]
             same == /\ task[t].status \in {"running", "ready", "blocked"}
                     /\ task[t].claim = operator.row.claim
  <2>1. CASE same
    <3>1. task' = [task EXCEPT ![t] = x] /\ UNCHANGED of /\ RunEnds(t, "released")
      BY <1>5, <2>1 DEF OpReclaimed
    <3>2. "ready" \in Statuses \ {"running"} /\ "released" \in Endings BY DEF Statuses, Endings
    <3>3. "none" \in {"none", "plain", "auth"} /\ "none" \in {"none", "dependency"} /\ 0 \in Nat
          /\ 0 \in 0 .. 2 /\ TRUE \in BOOLEAN
      OBVIOUS
    <3>4. FreeRow(x) BY <1>2, <3>2, <3>3, FreedRow
    <3> HIDE DEF x
    <3> QED BY <1>1, <3>1, <3>2, <3>4, RowFreed
  <2>2. CASE ~same
    <3>1. UNCHANGED <<task, outcome, of>> BY <1>5, <2>2 DEF OpReclaimed, board
    <3> QED BY <3>1, NothingFlows
  <2> QED BY <2>1, <2>2
<1> QED BY <1>3, <1>4, <1>5 DEF OperatorGoesOn

Held == tick.at \in {"ttlKilled", "silentKilled", "overtimeKilled", "claimed", "spawned"}

RowsKnown == tick.rows \subseteq Row /\ (Held => tick.row \in Row)

LEMMA FreedReady ==
  ASSUME NEW x \in TaskRow, NEW b \in BOOLEAN, NEW e \in {"none", "plain", "auth"}
  PROVE  /\ FreeRow([Freed(x, "ready") EXCEPT !.stale = b])
         /\ FreeRow([Freed(x, "ready") EXCEPT !.error = e])
<1>1. "ready" \in Statuses \ {"running"} /\ "none" \in {"none", "dependency"} /\ 0 \in Nat
      /\ 0 \in 0 .. 2
  BY DEF Statuses
<1> QED BY <1>1, FreedRow

LEMMA TakeBackFlows ==
  ASSUME TasksTyped, RunsTyped, RowsKnown, TakeBack
  PROVE  Flows
<1> DEFINE row == tick.row
           t == row.task
           silent == tick.at = "silentKilled"
           same == SameClaim(row) /\ (silent \/ Survived(row) \/ task[t].expired)
           x == [Freed(task[t], "ready") EXCEPT !.stale = @ /\ ~silent]
           y == [task[t] EXCEPT !.expired = FALSE]
<1>1. t \in Tasks BY DEF TakeBack, RowsKnown, Held, Row
<1>2. task[t] \in TaskRow BY <1>1 DEF TasksTyped
<1>3. UNCHANGED of BY DEF TakeBack
<1>4. CASE ~same
  <2>1. UNCHANGED <<task, outcome>> BY <1>4 DEF TakeBack
  <2> QED BY <1>3, <2>1, NothingFlows
<1>5. CASE same /\ Survived(row)
  <2>1. task' = [task EXCEPT ![t].expired = FALSE] /\ UNCHANGED outcome BY <1>5 DEF TakeBack
  <2>2. task' = [task EXCEPT ![t] = y] BY <1>1, <1>2, <2>1 DEF TasksTyped, TaskRow
  <2>3. SameWork(task[t], y) BY <1>2, TimedRow
  <2> HIDE DEF y, t
  <2> QED BY <1>1, <1>3, <2>1, <2>2, <2>3, RowKept
<1>6. CASE same /\ ~Survived(row)
  <2> DEFINE how == IF silent THEN "stale" ELSE "reclaimed"
  <2>1. task' = [task EXCEPT ![t] = x] /\ RunEnds(t, how) BY <1>6 DEF TakeBack
  <2>2. FreeRow(x)
    <3> DEFINE b == Freed(task[t], "ready").stale /\ ~silent
    <3>1. b \in BOOLEAN OBVIOUS
    <3> HIDE DEF b
    <3>2. FreeRow([Freed(task[t], "ready") EXCEPT !.stale = b]) BY <1>2, <3>1, FreedReady
    <3> QED BY <3>2 DEF b
  <2>3. how \in Endings BY DEF Endings
  <2> HIDE DEF x, t, how
  <2> QED BY <1>1, <1>3, <2>1, <2>2, <2>3, RowFreed
<1> QED BY <1>4, <1>5, <1>6

LEMMA TimeOutFlows ==
  ASSUME TasksTyped, RunsTyped, RowsKnown, TimeOut
  PROVE  Flows
<1> DEFINE t == tick.row.task
           x == [Freed(task[t], "ready") EXCEPT !.stale = FALSE]
<1>1. t \in Tasks BY DEF TimeOut, RowsKnown, Held, Row
<1>2. task[t] \in TaskRow BY <1>1 DEF TasksTyped
<1>3. UNCHANGED of BY DEF TimeOut
<1>4. CASE UNCHANGED <<task, outcome>> BY <1>3, <1>4, NothingFlows
<1>5. CASE task' = [task EXCEPT ![t] = x] /\ RunEnds(t, "timed_out")
  <2>1. FALSE \in BOOLEAN /\ "none" \in {"none", "plain", "auth"} OBVIOUS
  <2>2. FreeRow(x) BY <1>2, <2>1, FreedReady
  <2>3. "timed_out" \in Endings BY DEF Endings
  <2> HIDE DEF x, t
  <2> QED BY <1>1, <1>3, <1>5, <2>2, <2>3, RowFreed
<1> QED BY <1>4, <1>5 DEF TimeOut

\* The one transaction of detect_crashed_workers() over all tasks.
LEMMA CrashFlows ==
  ASSUME TasksTyped, RunsTyped, DetectCrashed
  PROVE  Flows
<1> DEFINE gone == {t \in Tasks : Running(t) /\ task[t].pid # None /\ ~Live(task[t].pid)}
           rate(t) == ExitOf(task[t].pid) = "rate"
           over == {task[t].run : t \in gone}
<1>1. /\ UNCHANGED of
      /\ task' = [t \in Tasks |-> IF t \notin gone THEN task[t]
                  ELSE [Freed(task[t], "ready") EXCEPT !.error = IF rate(t) THEN "auth" ELSE @]]
      /\ outcome' = [r \in Runs |-> IF r \in over THEN IF rate(of[r]) THEN "rate_limited"
                                                      ELSE "crashed"
                                    ELSE outcome[r]]
  BY DEF DetectCrashed
<1>2. ASSUME NEW t \in gone PROVE Frees(t)
  <2> DEFINE e == IF rate(t) THEN "auth" ELSE Freed(task[t], "ready").error
  <2>1. task[t] \in TaskRow /\ t \in Tasks BY DEF TasksTyped
  <2>2. Freed(task[t], "ready").error = task[t].error BY <2>1 DEF Freed, TaskRow
  <2>3. e \in {"none", "plain", "auth"} BY <2>1, <2>2 DEF TaskRow
  <2>4. task'[t] = [Freed(task[t], "ready") EXCEPT !.error = e] BY <1>1, <2>1
  <2> HIDE DEF e
  <2>5. TRUE \in BOOLEAN OBVIOUS
  <2> QED BY <2>1, <2>3, <2>4, <2>5, FreedReady DEF Frees
<1>3. ASSUME NEW t \in Tasks \ gone PROVE task'[t] = task[t] /\ Keeps(t)
  <2>1. task'[t] = task[t] BY <1>1
  <2> QED BY <2>1, SameRow DEF Keeps, TasksTyped
<1>4. TasksTyped'
  <2>1. \A t \in Tasks : task'[t] \in TaskRow BY <1>2, <1>3 DEF Frees, FreeRow, Keeps, SameWork
  <2>2. DOMAIN task' = Tasks /\ task' = [t \in DOMAIN task' |-> task'[t]] BY <1>1
  <2> QED BY <2>1, <2>2 DEF TasksTyped
<1>5. \A r \in Runs : IF r \in over THEN outcome'[r] \in {"rate_limited", "crashed"}
                      ELSE outcome'[r] = outcome[r]
  BY <1>1
<1>6. outcome' \in [Runs -> Endings \union {"unused", "open"}]
  BY <1>1, <1>5 DEF RunsTyped, Endings
<1>7. ASSUME NEW t \in Tasks, NEW r \in Runs, Frees(t), task[t].run = r PROVE outcome'[r] # "open"
  <2>1. CASE t \in gone BY <1>5, <1>7, <2>1
  <2>2. CASE t \notin gone
    <3>1. task'[t].run = None /\ task'[t].run = r BY <1>3, <1>7, <2>2 DEF Frees, FreeRow
    <3> QED BY <3>1 DEF Runs, None
  <2> QED BY <2>1, <2>2
<1>8. \A r \in Runs : \/ outcome'[r] = outcome[r]
                      \/ /\ outcome'[r] \in Endings
                         /\ \E t \in Tasks : Frees(t) /\ task[t].run = r
  <2> TAKE r \in Runs
  <2>1. CASE r \in over
    <3>1. PICK t \in gone : task[t].run = r BY <2>1
    <3> QED BY <1>2, <1>5, <2>1, <3>1 DEF Endings
  <2> QED BY <1>5, <2>1
<1> HIDE DEF gone, over
<1>9. \A t \in Tasks : Keeps(t) \/ Frees(t)
  <2> TAKE t \in Tasks
  <2> QED BY <1>2, <1>3
<1> QED BY <1>1, <1>4, <1>6, <1>7, <1>8, <1>9 DEF Flows

\* The dispatcher, but for the claim, the pid, and the count of a crash.
LEMMA TickFlows ==
  ASSUME TasksTyped, RunsTyped, RowsKnown,
         \/ TickBegins \/ ExtendClaim \/ TerminateWorker \/ TakeBack \/ SelectSilent
         \/ DetectCrashed \/ SelectOvertime \/ TerminateOvertime \/ TimeOut \/ PromoteReady
         \/ SelectReady \/ SkipGuarded \/ SpawnFails \/ Spawn \/ TickEnds \/ DispatcherCrashes
  PROVE  Flows
<1>1. CASE \/ TickBegins \/ TerminateWorker \/ SelectSilent \/ SelectOvertime
           \/ TerminateOvertime \/ SelectReady \/ SkipGuarded \/ Spawn \/ TickEnds
           \/ DispatcherCrashes
  <2>1. UNCHANGED board
    BY <1>1 DEF TickBegins, TerminateWorker, SelectSilent, SelectOvertime, TerminateOvertime,
        SelectReady, SkipGuarded, Spawn, TickEnds, DispatcherCrashes
  <2>2. UNCHANGED <<task, outcome, of>> BY <2>1 DEF board
  <2> QED BY <2>2, NothingFlows
<1>2. CASE ExtendClaim
  <2>1. PICK row \in tick.rows :
          task' = IF SameClaim(row) THEN [task EXCEPT ![row.task].expired = FALSE] ELSE task
    BY <1>2 DEF ExtendClaim
  <2>2. UNCHANGED <<outcome, of>> BY <1>2 DEF ExtendClaim
  <2>3. CASE SameClaim(row)
    <3> DEFINE t == row.task
               x == [task[t] EXCEPT !.expired = FALSE]
    <3>1. t \in Tasks BY DEF RowsKnown, Row
    <3>2. task[t] \in TaskRow BY <3>1 DEF TasksTyped
    <3>3. task' = [task EXCEPT ![t] = x] BY <2>1, <2>3, <3>1, <3>2 DEF TasksTyped, TaskRow
    <3>4. SameWork(task[t], x) BY <3>2, TimedRow
    <3> HIDE DEF x, t
    <3> QED BY <2>2, <3>1, <3>3, <3>4, RowKept
  <2>4. CASE ~SameClaim(row) BY <2>1, <2>2, <2>4, NothingFlows
  <2> QED BY <2>3, <2>4
<1>3. CASE TakeBack BY <1>3, TakeBackFlows
<1>4. CASE DetectCrashed BY <1>4, CrashFlows
<1>5. CASE TimeOut BY <1>5, TimeOutFlows
<1>6. CASE PromoteReady
  <2>1. task' = Recomputed(task, parents, FailureLimit) /\ UNCHANGED <<outcome, of>>
    BY <1>6 DEF PromoteReady
  <2> QED BY <2>1, PromotionFlows
<1>7. CASE SpawnFails
  <2>1. PICK error \in {"plain", "auth"} :
          RecordFailure(tick.row.task, FailureLimit, TRUE, error, "spawn_failed")
    BY <1>7 DEF SpawnFails
  <2>2. tick.row.task \in Tasks BY <1>7 DEF SpawnFails, RowsKnown, Held, Row
  <2>3. "spawn_failed" \in Endings /\ error \in {"none", "plain", "auth"} BY DEF Endings
  <2> QED BY <2>1, <2>2, <2>3, ReleaseFlows
<1> QED BY <1>1, <1>2, <1>3, <1>4, <1>5, <1>6, <1>7

-----------------------------------------------------------------------------
(* The claim, the pid, and the count of a crash.                           *)

\* A run that has begun stays begun, and its task is the one it began with.
Grows ==
  /\ \A r \in Runs : outcome[r] # "unused" => outcome'[r] # "unused" /\ of'[r] = of[r]
  /\ \A r \in Runs : outcome'[r] = "open" => outcome[r] = "open" \/ of'[r] \in Tasks

LEMMA FlowsGrow ==
  ASSUME Flows
  PROVE  TasksTyped' /\ Grows
BY DEF Flows, Grows, Endings

\* A run begins on the task t, which had none.
Starts(t, r) ==
  /\ outcome[r] = "unused" /\ task[t].status = "ready"
  /\ task'[t] \in TaskRow /\ task'[t].status = "running" /\ task'[t].run = r
  /\ task'[t].pid = task[t].pid
  /\ \A u \in Tasks : u # t => task'[u] = task[u]
  /\ outcome'[r] = "open" /\ of'[r] = t
  /\ \A s \in Runs : s # r => /\ of'[s] = of[s]
                              /\ outcome'[s] = IF s = task[t].run THEN "reclaimed" ELSE outcome[s]

LEMMA ClaimIs ==
  ASSUME TasksTyped, RunsTyped, NEW t \in Tasks, NEW who \in {"dispatcher", "operator"},
         ClaimTask(t, who)
  PROVE  /\ TasksTyped' /\ RunsTyped' /\ Grows
         /\ \/ Flows /\ UNCHANGED outcome
            \/ /\ UNCHANGED <<task, of>> /\ task[t].status = "ready"
               /\ RunEnds(t, "reclaimed")
            \/ \E r \in Runs : Starts(t, r)
         /\ of' # of => \E r \in Runs : Starts(t, r)
<1>1. task[t] \in TaskRow BY DEF TasksTyped
<1>2. CASE ~ParentsOver(task, parents, t)
  <2>1. UNCHANGED <<outcome, of>>
        /\ task' = IF task[t].status = "ready" THEN [task EXCEPT ![t].status = "todo"] ELSE task
    BY <1>2 DEF ClaimTask
  <2>2. Flows
    <3> DEFINE x == [task[t] EXCEPT !.status = "todo"]
    <3>1. CASE task[t].status = "ready"
      <4>1. "todo" \in Statuses \ {"running"} BY DEF Statuses
      <4>2. SameWork(task[t], x) BY <1>1, <3>1, <4>1, WaitingRow
      <4>3. task' = [task EXCEPT ![t] = x] BY <1>1, <2>1, <3>1 DEF TasksTyped, TaskRow
      <4> HIDE DEF x
      <4> QED BY <2>1, <4>2, <4>3, RowKept
    <3>2. CASE task[t].status # "ready" BY <2>1, <3>2, NothingFlows
    <3> QED BY <3>1, <3>2
  <2> QED BY <2>1, <2>2, FlowsGrow DEF RunsTyped
<1>3. CASE ParentsOver(task, parents, t) /\ (task[t].status # "ready" \/ task[t].claim # "free")
  <2>1. /\ UNCHANGED <<task, of>>
        /\ IF task[t].status = "ready" THEN RunEnds(t, "reclaimed") ELSE UNCHANGED outcome
    BY <1>3 DEF ClaimTask
  <2>2. TasksTyped' BY <2>1 DEF TasksTyped
  <2>3. CASE task[t].status = "ready"
    <3>1. \A r \in Runs : outcome'[r] = IF r = task[t].run /\ outcome[r] = "open" THEN "reclaimed"
                                        ELSE outcome[r]
      BY <2>1, <2>3 DEF RunEnds
    <3>2. RunsTyped' BY <2>1, <2>3 DEF RunsTyped, RunEnds, Endings
    <3>3. Grows BY <2>1, <3>1 DEF Grows
    <3> QED BY <2>1, <2>2, <2>3, <3>2, <3>3
  <2>4. CASE task[t].status # "ready"
    <3>1. UNCHANGED outcome BY <2>1, <2>4
    <3>2. Flows BY <2>1, <3>1, NothingFlows
    <3> QED BY <2>1, <3>1, <3>2, FlowsGrow DEF RunsTyped
  <2> QED BY <2>3, <2>4
<1>4. CASE /\ ParentsOver(task, parents, t)
           /\ ~(task[t].status # "ready" \/ task[t].claim # "free")
  <2>1. PICK r \in Runs :
          /\ outcome[r] = "unused"
          /\ task' = [task EXCEPT ![t].status = "running", ![t].claim = who, ![t].run = r]
          /\ outcome' = [s \in Runs |-> IF s = r THEN "open"
                                       ELSE IF s = task[t].run THEN "reclaimed" ELSE outcome[s]]
          /\ of' = [of EXCEPT ![r] = t]
    BY <1>4 DEF ClaimTask
  <2> DEFINE x == [task[t] EXCEPT !.status = "running", !.claim = who, !.run = r]
  <2>2. task' = [task EXCEPT ![t] = x] BY <1>1, <2>1 DEF TasksTyped, TaskRow
  <2>3. x \in TaskRow /\ x.status = "running" /\ x.run = r /\ x.pid = task[t].pid
    BY <1>1 DEF TaskRow, Statuses
  <2> HIDE DEF x
  <2>4. TasksTyped' /\ task'[t] = x /\ \A u \in Tasks : u # t => task'[u] = task[u]
    BY <2>2, <2>3, OneRow
  <2>5. /\ of' \in [Runs -> Tasks \union {None}] /\ of'[r] = t
        /\ \A s \in Runs : s # r => of'[s] = of[s]
    BY <2>1 DEF RunsTyped
  <2>6. outcome'[r] = "open" /\ \A s \in Runs : s # r =>
          outcome'[s] = IF s = task[t].run THEN "reclaimed" ELSE outcome[s]
    BY <2>1
  <2>7. outcome' \in [Runs -> Endings \union {"unused", "open"}] BY <2>1 DEF RunsTyped, Endings
  <2>8. Starts(t, r) BY <1>4, <2>1, <2>3, <2>4, <2>5, <2>6 DEF Starts
  <2>9. Grows
    <3>1. ASSUME NEW s \in Runs, outcome[s] # "unused"
          PROVE  outcome'[s] # "unused" /\ of'[s] = of[s]
      <4>1. s # r BY <2>1, <3>1
      <4> QED BY <2>5, <2>6, <3>1, <4>1
    <3>2. ASSUME NEW s \in Runs, outcome'[s] = "open" PROVE outcome[s] = "open" \/ of'[s] \in Tasks
      BY <2>5, <2>6, <3>2
    <3> QED BY <3>1, <3>2 DEF Grows
  <2> QED BY <2>4, <2>5, <2>7, <2>8, <2>9 DEF RunsTyped
<1> QED BY <1>2, <1>3, <1>4

\* A failure that is only counted: no run ends, and the task keeps its worker, if it is not
\* running.
LEMMA CountIs ==
  ASSUME TasksTyped, RunsTyped, NEW t \in Tasks, NEW limit,
         RecordFailure(t, limit, FALSE, "plain", "crashed")
  PROVE  /\ TasksTyped' /\ UNCHANGED <<outcome, of>>
         /\ ~Running(t) => Flows
<1> DEFINE n == task[t].failures + 1
           trips == n >= limit
           current == task[t].status \in {"ready", "running"}
           counted == [task[t] EXCEPT !.failures = n, !.error = "plain"]
           stopped == [counted EXCEPT !.status = "blocked"]
           x == IF ~trips THEN counted ELSE IF current THEN stopped ELSE task[t]
<1>1. task' = [task EXCEPT ![t] = x] /\ UNCHANGED <<outcome, of>> BY DEF RecordFailure
<1>2. task[t] \in TaskRow BY DEF TasksTyped
<1>3. n \in Nat BY <1>2 DEF TaskRow
<1> HIDE DEF n, trips, current
<1>4. SameWork(task[t], counted) BY <1>2, <1>3, CountedRow
<1>5. counted \in TaskRow BY <1>4 DEF SameWork
<1>6. stopped \in TaskRow BY <1>5 DEF TaskRow, Statuses
<1>7. ~Running(t) => SameWork(task[t], stopped)
  <2> SUFFICES ASSUME ~Running(t) PROVE SameWork(task[t], stopped) OBVIOUS
  <2>1. counted.status # "running" /\ "blocked" \in Statuses \ {"running"}
    BY <1>4 DEF SameWork, Running, Statuses
  <2>2. SameWork(counted, stopped) BY <1>5, <2>1, WaitingRow
  <2> QED BY <1>4, <2>2 DEF SameWork
<1>8. SameWork(task[t], task[t]) BY <1>2, SameRow
<1> HIDE DEF counted, stopped
<1>9. x \in TaskRow /\ (~Running(t) => SameWork(task[t], x)) BY <1>2, <1>4, <1>5, <1>6, <1>7, <1>8
<1> HIDE DEF x
<1>10. TasksTyped' BY <1>1, <1>9, OneRow
<1>11. ~Running(t) => Flows BY <1>1, <1>9, RowKept
<1> QED BY <1>1, <1>10, <1>11

LEMMA PidIs ==
  ASSUME TasksTyped, RowsKnown, SetWorkerPid
  PROVE  /\ TasksTyped' /\ UNCHANGED <<outcome, of>>
         /\ \A u \in Tasks : /\ task'[u].run = task[u].run /\ task'[u].status = task[u].status
                             /\ task'[u].pid = IF u = tick.row.task THEN tick.row.pid
                                               ELSE task[u].pid
<1> DEFINE t == tick.row.task
           x == [task[t] EXCEPT !.pid = tick.row.pid]
<1>1. tick.row.pid \in Runs \union {None} /\ t \in Tasks
  BY DEF SetWorkerPid, RowsKnown, Held, Row
<1>2. task[t] \in TaskRow BY <1>1 DEF TasksTyped
<1>3. task' = [task EXCEPT ![t] = x] /\ UNCHANGED <<outcome, of>>
  BY <1>1, <1>2 DEF SetWorkerPid, TasksTyped, TaskRow
<1>4. /\ x \in TaskRow /\ x.run = task[t].run /\ x.status = task[t].status
      /\ x.pid = tick.row.pid
  BY <1>1, <1>2 DEF TaskRow
<1> HIDE DEF x
<1>5. TasksTyped' /\ task'[t] = x /\ \A u \in Tasks : u # t => task'[u] = task[u]
  BY <1>1, <1>3, <1>4, OneRow
<1> QED BY <1>3, <1>4, <1>5

-----------------------------------------------------------------------------
(* Types, and the books that every behaviour keeps.                        *)

Places == {"idle", "ttl", "ttlKilled", "silent", "silentKilled", "crashes", "count", "overtime",
           "overtimeKilled", "promote", "select", "dispatch", "claimed", "spawned"}

\* The dispatcher, and a command in progress.
TickRecord ==
  [at : Places, rows : SUBSET Row, row : Row \union {NoRow},
   due : SUBSET (Tasks \X {1, DefaultLimit}), reaped : SUBSET Runs]
CommandRecord ==
  [at : {"idle", "promoting", "reclaiming", "completing"}, row : Row \union {NoRow}]

WorkTyped ==
  /\ worker \in [Runs -> {"none", "alive", "wedged", "reported", "clean", "rate", "dead"}]
  /\ tick \in TickRecord /\ operator \in CommandRecord
  /\ children \subseteq Runs /\ tick.reaped \subseteq children

BoundsTyped == plan \in Scenarios /\ acts \in 0 .. plan.acts /\ ills \in 0 .. plan.ills

HistoryTyped ==
  /\ parents \in [Tasks -> SUBSET Tasks]
  /\ gaveUp \subseteq Tasks /\ recorded \subseteq Runs
  /\ reporter \in [Runs -> Runs \union {None}]

\* What the dispatcher holds: a row it has read, or the run that came of its claim; crashes
\* are counted before it goes on.
TickBook ==
  /\ Held => tick.row \in Row
  /\ tick.at \in {"claimed", "spawned"} =>
       /\ tick.row.pid \in Runs /\ of[tick.row.pid] = tick.row.task
       /\ outcome[tick.row.pid] # "unused"
  /\ tick.due # {} => tick.at = "count"

CommandBook == operator.at # "idle" => operator.row \in Row

\* A run that is open, or that has a worker, has begun, and on a task.
RunBooks ==
  /\ \A r \in Runs : outcome[r] = "open" \/ worker[r] # "none" => of[r] \in Tasks
  /\ \A r \in Runs : worker[r] # "none" => outcome[r] # "unused"
  /\ \A r \in recorded : outcome[r] # "unused"

TypeInv ==
  /\ TasksTyped /\ RunsTyped /\ WorkTyped /\ BoundsTyped /\ HistoryTyped
  /\ TickBook /\ CommandBook /\ RunBooks

LEMMA TypedBoard == TypeInv => BoardTypeOK
<1> SUFFICES ASSUME TypeInv PROVE BoardTypeOK OBVIOUS
<1>1. plan \in Scenarios /\ acts \in 0 .. plan.acts /\ ills \in 0 .. plan.ills
  BY DEF TypeInv, BoundsTyped
<1>2. /\ parents \in [Tasks -> SUBSET Tasks] /\ gaveUp \subseteq Tasks /\ recorded \subseteq Runs
      /\ reporter \in [Runs -> Runs \union {None}]
  BY DEF TypeInv, HistoryTyped
<1>3. /\ worker \in [Runs -> {"none", "alive", "wedged", "reported", "clean", "rate", "dead"}]
      /\ children \subseteq Runs /\ tick.reaped \subseteq children
  BY DEF TypeInv, WorkTyped
<1>4. /\ tick.at \in Places /\ tick.rows \subseteq Row /\ (tick.row \in Row \/ tick.row = NoRow)
      /\ tick.due \subseteq (Tasks \X {1, DefaultLimit})
  BY DEF TypeInv, WorkTyped, TickRecord
<1>5. /\ operator.at \in {"idle", "promoting", "reclaiming", "completing"}
      /\ (operator.row \in Row \/ operator.row = NoRow)
  BY DEF TypeInv, WorkTyped, CommandRecord
<1>6. of \in [Runs -> Tasks \union {None}]
      /\ outcome \in [Runs -> {"unused", "open", "completed", "blocked", "reclaimed", "stale",
                               "crashed", "rate_limited", "timed_out", "gave_up", "spawn_failed",
                               "released"}]
  BY DEF TypeInv, RunsTyped, Endings
<1>7. task \in [Tasks -> TaskRow] BY DEF TypeInv, TasksTyped
<1> HIDE DEF TypeInv
<1> QED BY <1>1, <1>2, <1>3, <1>4, <1>5, <1>6, <1>7 DEF BoardTypeOK, TaskRow, Statuses, Places

LEMMA RowOfTask ==
  ASSUME TasksTyped, NEW t \in Tasks
  PROVE  RowOf(t) \in Row
<1>1. task[t] \in TaskRow BY DEF TasksTyped
<1> QED BY <1>1 DEF RowOf, Row, TaskRow

LEMMA ScenarioBounds == \A p \in Scenarios : p.acts \in Nat /\ p.ills \in Nat
BY BoardAssumption DEF Scenario

\* What every step does to the tables.
LEMMA TablesTyped ==
  ASSUME TypeInv, BoardNext
  PROVE  TasksTyped' /\ RunsTyped' /\ Grows
<1> USE DEF TypeInv
<1>1. RowsKnown BY DEF WorkTyped, TickRecord, TickBook, RowsKnown
<1>2. Flows => TasksTyped' /\ RunsTyped' /\ Grows
  BY FlowsGrow DEF Flows, RunsTyped
<1>3. CASE \/ TickBegins \/ ExtendClaim \/ TerminateWorker \/ TakeBack \/ SelectSilent
           \/ DetectCrashed \/ SelectOvertime \/ TerminateOvertime \/ TimeOut \/ PromoteReady
           \/ SelectReady \/ SkipGuarded \/ SpawnFails \/ Spawn \/ TickEnds \/ DispatcherCrashes
  BY <1>1, <1>2, <1>3, TickFlows
<1>4. CASE CountFailure
  <2>1. PICK d \in tick.due : RecordFailure(d[1], d[2], FALSE, "plain", "crashed")
    BY <1>4 DEF CountFailure
  <2>2. d[1] \in Tasks BY DEF WorkTyped, TickRecord
  <2>3. TasksTyped' /\ UNCHANGED <<outcome, of>> BY <2>1, <2>2, CountIs
  <2> QED BY <2>3 DEF RunsTyped, Grows
<1>5. CASE ClaimReady
  <2>1. PICK row \in tick.rows : ClaimTask(row.task, "dispatcher") BY <1>5 DEF ClaimReady
  <2>2. row.task \in Tasks BY <1>1 DEF RowsKnown, Row
  <2>3. "dispatcher" \in {"dispatcher", "operator"} OBVIOUS
  <2> QED BY <2>1, <2>2, <2>3, ClaimIs
<1>6. CASE SetWorkerPid
  <2>1. TasksTyped' /\ UNCHANGED <<outcome, of>> BY <1>1, <1>6, PidIs
  <2> QED BY <2>1 DEF RunsTyped, Grows
<1>7. ASSUME NEW t \in Tasks, OpClaim(t) PROVE TasksTyped' /\ RunsTyped' /\ Grows
  <2>1. ClaimTask(t, "operator") /\ "operator" \in {"dispatcher", "operator"} BY <1>7 DEF OpClaim
  <2> QED BY <2>1, ClaimIs
<1>8. ASSUME NEW t \in Tasks,
             \/ OpComplete(t) \/ OpBlock(t) \/ OpUnblock(t) \/ OpPromote(t) \/ OpArchive(t)
             \/ OpSchedule(t) \/ OpReclaim(t)
      PROVE  TasksTyped' /\ RunsTyped' /\ Grows
  BY <1>2, <1>8, CommandFlows
<1>9. ASSUME NEW p \in Tasks, NEW c \in Tasks, OpLink(p, c) \/ OpUnlink(p, c)
      PROVE  TasksTyped' /\ RunsTyped' /\ Grows
  BY <1>2, <1>9, LinkFlows
<1>10. CASE OperatorGoesOn
  <2>1. Flows BY <1>10, RestFlows DEF CommandBook
  <2> QED BY <1>2, <2>1
<1>11. ASSUME NEW r \in Runs, WorkerStep(r) PROVE TasksTyped' /\ RunsTyped' /\ Grows
  <2>1. Flows BY <1>11, WorkerFlows DEF RunBooks
  <2> QED BY <1>2, <2>1
<1>12. ASSUME NEW t \in Tasks, ClaimExpires(t) \/ HeartbeatAges(t)
       PROVE  TasksTyped' /\ RunsTyped' /\ Grows
  BY <1>2, <1>12, TimeFlows
<1> HIDE DEF TypeInv
<1> QED BY <1>3, <1>4, <1>5, <1>6, <1>7, <1>8, <1>9, <1>10, <1>11, <1>12 DEF BoardNext, Tick,
           OperatorStep

-----------------------------------------------------------------------------
(* What a step of the dispatcher leaves it with.                           *)

TickIs(at, rows, row, due, reaped) ==
  tick' = [at |-> at, rows |-> rows, row |-> row, due |-> due, reaped |-> reaped]

TickTyped == tick \in TickRecord /\ children \subseteq Runs /\ tick.reaped \subseteq children

LEMMA TickStands ==
  ASSUME NEW at \in Places, NEW rows, NEW row, NEW due, NEW reaped,
         TickIs(at, rows, row, due, reaped),
         rows \subseteq Row, row = NoRow \/ row \in Row, due \subseteq (Tasks \X {1, DefaultLimit}),
         children' \subseteq Runs, reaped \subseteq children',
         due # {} => at = "count",
         at \in {"ttlKilled", "silentKilled", "overtimeKilled", "claimed", "spawned"} =>
           row \in Row,
         at \in {"claimed", "spawned"} =>
           row.pid \in Runs /\ of'[row.pid] = row.task /\ outcome'[row.pid] # "unused"
  PROVE  TickTyped' /\ TickBook'
<1>1. /\ tick'.at = at /\ tick'.rows = rows /\ tick'.row = row /\ tick'.due = due
      /\ tick'.reaped = reaped
  BY DEF TickIs
<1>2. tick' \in TickRecord
  <2>1. row \in Row \union {NoRow} /\ reaped \in SUBSET Runs OBVIOUS
  <2> QED BY <2>1 DEF TickIs, TickRecord
<1>3. TickTyped' BY <1>1, <1>2 DEF TickTyped
<1>4. TickBook' BY <1>1 DEF TickBook, Held
<1> QED BY <1>3, <1>4

LEMMA DealtIs ==
  ASSUME tick \in TickRecord, NEW row, NEW place, Dealt(row, place)
  PROVE  TickIs(place, tick.rows \ {row}, NoRow, tick.due, tick.reaped)
BY DEF TickRecord, TickIs, Dealt

\* The dispatcher reads, or has dealt with a row.
LEMMA TickReads ==
  ASSUME TasksTyped, TickTyped, TickBook, UNCHANGED children,
         \/ TickBegins \/ ExtendClaim \/ TakeBack \/ SelectSilent \/ SelectOvertime
         \/ PromoteReady \/ SelectReady \/ SkipGuarded \/ TickEnds
  PROVE  TickTyped' /\ TickBook'
<1> USE DEF TickTyped
<1>0. /\ tick.rows \subseteq Row /\ tick.due \subseteq (Tasks \X {1, DefaultLimit})
      /\ tick.reaped \subseteq children /\ tick.row \in Row \union {NoRow}
  BY DEF TickRecord
<1>1. ASSUME NEW row, NEW place \in {"ttl", "silent", "dispatch"}, Dealt(row, place),
             tick.at # "count"
      PROVE  TickTyped' /\ TickBook'
  <2>1. TickIs(place, tick.rows \ {row}, NoRow, tick.due, tick.reaped) BY <1>1, DealtIs
  <2>2. tick.due = {} BY <1>1 DEF TickBook
  <2>3. tick.rows \ {row} \subseteq Row /\ place \in Places BY <1>0 DEF Places
  <2> QED BY <1>0, <2>1, <2>2, <2>3, TickStands
<1>2. CASE ExtendClaim
  <2>1. PICK row \in tick.rows : Dealt(row, "ttl") BY <1>2 DEF ExtendClaim
  <2> QED BY <1>1, <1>2, <2>1 DEF ExtendClaim
<1>3. CASE TakeBack
  <2>1. \E place \in {"ttl", "silent", "dispatch"} : Dealt(tick.row, place) BY <1>3 DEF TakeBack
  <2> QED BY <1>1, <1>3, <2>1 DEF TakeBack
<1>4. CASE SkipGuarded
  <2>1. PICK row \in tick.rows : Dealt(row, "dispatch") BY <1>4 DEF SkipGuarded
  <2> QED BY <1>1, <1>4, <2>1 DEF SkipGuarded
<1>5. ASSUME NEW place \in Places \ {"ttlKilled", "silentKilled", "overtimeKilled", "claimed",
                                    "spawned", "count"}, NEW T \in SUBSET Tasks,
             NEW due, due = {}, NEW row, row = NoRow \/ row = tick.row,
             NEW reaped \in SUBSET children,
             TickIs(place, {RowOf(t) : t \in T}, row, due, reaped)
      PROVE  TickTyped' /\ TickBook'
  <2>1. {RowOf(t) : t \in T} \subseteq Row BY RowOfTask
  <2>2. place \in Places /\ children' \subseteq Runs /\ reaped \subseteq children' OBVIOUS
  <2>3. due \subseteq (Tasks \X {1, DefaultLimit}) /\ (row = NoRow \/ row \in Row) BY <1>0, <1>5
  <2>4. place \notin {"ttlKilled", "silentKilled", "overtimeKilled", "claimed", "spawned"}
    OBVIOUS
  <2> QED BY <1>5, <2>1, <2>2, <2>3, <2>4, TickStands
<1>6. CASE TickBegins
  <2> DEFINE T == {u \in Tasks : Running(u) /\ task[u].expired}
             reaped == {r \in children : ~Live(r)}
  <2>1. TickIs("ttl", {RowOf(t) : t \in T}, NoRow, {}, reaped) BY <1>6 DEF TickBegins, Idle, TickIs
  <2>2. T \in SUBSET Tasks /\ reaped \in SUBSET children OBVIOUS
  <2>3. "ttl" \in Places \ {"ttlKilled", "silentKilled", "overtimeKilled", "claimed", "spawned",
                            "count"}
    BY DEF Places
  <2> HIDE DEF T, reaped
  <2> QED BY <1>5, <2>1, <2>2, <2>3
<1>7. CASE SelectSilent
  <2>1. PICK T \in SUBSET Tasks :
          tick' = [tick EXCEPT !.at = "silent", !.rows = {RowOf(t) : t \in T}]
    BY <1>7 DEF SelectSilent
  <2>2. TickIs("silent", {RowOf(t) : t \in T}, tick.row, tick.due, tick.reaped)
    BY <2>1 DEF TickRecord, TickIs
  <2>3. tick.due = {} BY <1>7 DEF SelectSilent, TickBook
  <2>4. "silent" \in Places \ {"ttlKilled", "silentKilled", "overtimeKilled", "claimed", "spawned",
                               "count"}
    BY DEF Places
  <2> QED BY <1>0, <1>5, <2>2, <2>3, <2>4
<1>8. CASE SelectReady
  <2> DEFINE T == {u \in Tasks : task[u].status = "ready" /\ task[u].claim = "free"}
  <2>1. TickIs("dispatch", {RowOf(t) : t \in T}, tick.row, tick.due, tick.reaped)
    BY <1>8 DEF SelectReady, TickRecord, TickIs
  <2>2. tick.due = {} BY <1>8 DEF SelectReady, TickBook
  <2>3. "dispatch" \in Places \ {"ttlKilled", "silentKilled", "overtimeKilled", "claimed",
                                 "spawned", "count"}
    BY DEF Places
  <2>4. T \in SUBSET Tasks OBVIOUS
  <2> HIDE DEF T
  <2> QED BY <1>0, <1>5, <2>1, <2>2, <2>3, <2>4
<1>9. CASE SelectOvertime
  <2>1. PICK T \in SUBSET Tasks :
          tick' = [tick EXCEPT !.at = "overtime", !.rows = {RowOf(t) : t \in T}]
    <3>1. CASE tick' = [tick EXCEPT !.at = "overtime", !.rows = {}]
      <4>1. {RowOf(t) : t \in {}} = {} OBVIOUS
      <4> QED BY <3>1, <4>1
    <3>2. ASSUME NEW u \in Tasks, tick' = [tick EXCEPT !.at = "overtime", !.rows = {RowOf(u)}]
          PROVE  \E T \in SUBSET Tasks :
                   tick' = [tick EXCEPT !.at = "overtime", !.rows = {RowOf(t) : t \in T}]
      <4>1. {RowOf(t) : t \in {u}} = {RowOf(u)} OBVIOUS
      <4> QED BY <3>2, <4>1
    <3> QED BY <1>9, <3>1, <3>2 DEF SelectOvertime
  <2>2. TickIs("overtime", {RowOf(t) : t \in T}, tick.row, tick.due, tick.reaped)
    BY <2>1 DEF TickRecord, TickIs
  <2>3. tick.due = {} BY <1>9 DEF SelectOvertime
  <2>4. "overtime" \in Places \ {"ttlKilled", "silentKilled", "overtimeKilled", "claimed",
                                 "spawned", "count"}
    BY DEF Places
  <2> QED BY <1>0, <1>5, <2>2, <2>3, <2>4
<1>10. CASE PromoteReady
  <2>1. TickIs("select", {}, tick.row, tick.due, tick.reaped)
    BY <1>10 DEF PromoteReady, Goes, TickRecord, TickIs
  <2>2. tick.due = {} BY <1>10 DEF PromoteReady, TickBook
  <2>3. "select" \in Places BY DEF Places
  <2> QED BY <1>0, <2>1, <2>2, <2>3, TickStands
<1>11. CASE TickEnds
  <2>1. TickIs("idle", {}, NoRow, {}, {}) BY <1>11 DEF TickEnds, Idle, TickIs
  <2>2. "idle" \in Places BY DEF Places
  <2> QED BY <2>1, <2>2, TickStands
<1> QED BY <1>2, <1>3, <1>4, <1>6, <1>7, <1>8, <1>9, <1>10, <1>11

LEMMA KilledRow ==
  ASSUME NEW row \in Row, NEW b \in BOOLEAN
  PROVE  /\ [row EXCEPT !.lives = b] \in Row
         /\ [row EXCEPT !.lives = b].task = row.task /\ [row EXCEPT !.lives = b].pid = row.pid
         /\ [row EXCEPT !.lives = b].lives = b
BY DEF Row

\* The dispatcher holds a row it has signalled, or counts what it found.
LEMMA TickSignals ==
  ASSUME TasksTyped, TickTyped, TickBook, UNCHANGED children,
         TerminateWorker \/ TerminateOvertime \/ TimeOut \/ DetectCrashed \/ CountFailure
  PROVE  TickTyped' /\ TickBook'
<1> USE DEF TickTyped
<1>0. /\ tick.rows \subseteq Row /\ tick.due \subseteq (Tasks \X {1, DefaultLimit})
      /\ tick.reaped \subseteq children /\ (tick.row = NoRow \/ tick.row \in Row)
  BY DEF TickRecord
<1>1. "count" \in Places /\ "overtimeKilled" \in Places /\ "overtime" \in Places
      /\ "ttlKilled" \in Places /\ "silentKilled" \in Places
  BY DEF Places
<1>2. CASE TerminateWorker
  <2>1. PICK row \in tick.rows, lives \in BOOLEAN :
          tick' = [tick EXCEPT !.at = IF @ = "ttl" THEN "ttlKilled" ELSE "silentKilled",
                               !.rows = @ \ {row}, !.row = [row EXCEPT !.lives = lives]]
    BY <1>2 DEF TerminateWorker
  <2> DEFINE place == IF tick.at = "ttl" THEN "ttlKilled" ELSE "silentKilled"
             held == [row EXCEPT !.lives = lives]
  <2>2. TickIs(place, tick.rows \ {row}, held, tick.due, tick.reaped)
    BY <2>1 DEF TickRecord, TickIs
  <2>3. held \in Row BY <1>0, KilledRow
  <2>4. tick.due = {} BY <1>2 DEF TerminateWorker, TickBook
  <2>5. place \in Places /\ place \notin {"claimed", "spawned"} BY <1>1
  <2>6. tick.rows \ {row} \subseteq Row BY <1>0
  <2> HIDE DEF held, place
  <2> QED BY <1>0, <2>2, <2>3, <2>4, <2>5, <2>6, TickStands
<1>3. CASE TerminateOvertime
  <2>1. PICK row \in tick.rows :
          tick' = [tick EXCEPT !.at = "overtimeKilled", !.rows = {}, !.row = row]
    BY <1>3 DEF TerminateOvertime
  <2>2. TickIs("overtimeKilled", {}, row, tick.due, tick.reaped)
    BY <2>1 DEF TickRecord, TickIs
  <2>3. tick.due = {} BY <1>3 DEF TerminateOvertime, TickBook
  <2>4. row \in Row BY <1>0
  <2> QED BY <1>0, <1>1, <2>2, <2>3, <2>4, TickStands
<1>4. CASE TimeOut
  <2>1. CASE Dealt(tick.row, "overtime")
    <3>1. TickIs("overtime", tick.rows \ {tick.row}, NoRow, tick.due, tick.reaped)
      BY <2>1, DealtIs
    <3>2. tick.due = {} BY <1>4 DEF TimeOut, TickBook
    <3>3. tick.rows \ {tick.row} \subseteq Row BY <1>0
    <3> QED BY <1>0, <1>1, <3>1, <3>2, <3>3, TickStands
  <2>2. CASE tick' = [tick EXCEPT !.at = "count", !.row = NoRow,
                                  !.due = {<<tick.row.task, DefaultLimit>>}]
    <3>1. TickIs("count", tick.rows, NoRow, {<<tick.row.task, DefaultLimit>>}, tick.reaped)
      BY <2>2 DEF TickRecord, TickIs
    <3>2. tick.row.task \in Tasks BY <1>4 DEF TimeOut, TickBook, Held, Row
    <3>3. {<<tick.row.task, DefaultLimit>>} \subseteq (Tasks \X {1, DefaultLimit}) BY <3>2
    <3> QED BY <1>0, <1>1, <3>1, <3>3, TickStands
  <2> QED BY <1>4, <2>1, <2>2 DEF TimeOut
<1>5. CASE DetectCrashed
  <2>1. PICK due \in SUBSET (Tasks \X {1, DefaultLimit}) :
          tick' = [tick EXCEPT !.at = "count", !.reaped = {}, !.due = due]
    <3> DEFINE gone == {t \in Tasks : Running(t) /\ task[t].pid # None /\ ~Live(task[t].pid)}
               exit(t) == ExitOf(task[t].pid)
               due == {<<t, IF exit(t) = "clean" THEN 1 ELSE DefaultLimit>> :
                        t \in {u \in gone : exit(u) # "rate"}}
    <3>1. tick' = [tick EXCEPT !.at = "count", !.reaped = {}, !.due = due]
      BY <1>5 DEF DetectCrashed
    <3>2. due \in SUBSET (Tasks \X {1, DefaultLimit}) OBVIOUS
    <3> HIDE DEF due
    <3> QED BY <3>1, <3>2
  <2>2. TickIs("count", tick.rows, tick.row, due, {}) BY <2>1 DEF TickRecord, TickIs
  <2> QED BY <1>0, <1>1, <2>2, TickStands
<1>6. CASE CountFailure
  <2>1. PICK d \in tick.due : tick' = [tick EXCEPT !.due = @ \ {d}] BY <1>6 DEF CountFailure
  <2>2. TickIs("count", tick.rows, tick.row, tick.due \ {d}, tick.reaped)
    BY <1>6, <2>1 DEF CountFailure, TickRecord, TickIs
  <2>3. tick.due \ {d} \subseteq (Tasks \X {1, DefaultLimit}) BY <1>0
  <2> QED BY <1>0, <1>1, <2>2, <2>3, TickStands
<1> QED BY <1>2, <1>3, <1>4, <1>5, <1>6

\* The dispatcher claims a task, and starts a worker for the run that came of it.
LEMMA TickStarts ==
  ASSUME TasksTyped, TickTyped, TickBook, RunsTyped, Grows,
         ClaimReady \/ SpawnFails \/ Spawn \/ SetWorkerPid
  PROVE  TickTyped' /\ TickBook'
<1> USE DEF TickTyped
<1>0. /\ tick.rows \subseteq Row /\ tick.due \subseteq (Tasks \X {1, DefaultLimit})
      /\ tick.reaped \subseteq children /\ (tick.row = NoRow \/ tick.row \in Row)
  BY DEF TickRecord
<1>1. "dispatch" \in Places /\ "claimed" \in Places /\ "spawned" \in Places BY DEF Places
<1>2. tick.due = {} BY DEF TickBook, ClaimReady, SpawnFails, Spawn, SetWorkerPid
<1>3. CASE ClaimReady
  <2>0. UNCHANGED children BY <1>3 DEF ClaimReady
  <2>1. PICK row \in tick.rows :
          /\ ClaimTask(row.task, "dispatcher")
          /\ IF of' = of THEN Dealt(row, "dispatch")
             ELSE tick' = [tick EXCEPT !.at = "claimed", !.rows = @ \ {row},
                                       !.row = [row EXCEPT !.pid = task'[row.task].run]]
    BY <1>3 DEF ClaimReady
  <2>2. row \in Row /\ row.task \in Tasks BY <1>0 DEF Row
  <2>3. tick.rows \ {row} \subseteq Row BY <1>0
  <2>4. CASE of' = of
    <3>1. TickIs("dispatch", tick.rows \ {row}, NoRow, tick.due, tick.reaped)
      BY <2>1, <2>4, DealtIs
    <3> QED BY <1>0, <1>1, <1>2, <2>0, <2>3, <3>1, TickStands
  <2>5. CASE of' # of
    <3>1. "dispatcher" \in {"dispatcher", "operator"} OBVIOUS
    <3>2. PICK r \in Runs : Starts(row.task, r) BY <2>1, <2>2, <2>5, <3>1, ClaimIs
    <3>3. task'[row.task].run = r /\ of'[r] = row.task /\ outcome'[r] = "open"
      BY <3>2 DEF Starts
    <3> DEFINE held == [row EXCEPT !.pid = r]
    <3>4. tick' = [tick EXCEPT !.at = "claimed", !.rows = @ \ {row}, !.row = held]
      BY <2>1, <2>5, <3>3
    <3>5. held \in Row /\ held.task = row.task /\ held.pid = r BY <2>2 DEF Row
    <3> HIDE DEF held
    <3>6. TickIs("claimed", tick.rows \ {row}, held, tick.due, tick.reaped)
      BY <3>4 DEF TickRecord, TickIs
    <3> QED BY <1>0, <1>1, <1>2, <2>0, <2>3, <3>3, <3>5, <3>6, TickStands
  <2> QED BY <2>4, <2>5
<1>4. CASE SpawnFails \/ SetWorkerPid
  <2>1. UNCHANGED children /\ tick' = [tick EXCEPT !.at = "dispatch", !.row = NoRow]
    BY <1>4 DEF SpawnFails, SetWorkerPid
  <2>2. TickIs("dispatch", tick.rows, NoRow, tick.due, tick.reaped)
    BY <2>1 DEF TickRecord, TickIs
  <2> QED BY <1>0, <1>1, <1>2, <2>1, <2>2, TickStands
<1>5. CASE Spawn
  <2>1. /\ tick.row \in Row /\ tick.row.pid \in Runs /\ of[tick.row.pid] = tick.row.task
        /\ outcome[tick.row.pid] # "unused"
    BY <1>5 DEF Spawn, TickBook, Held
  <2>2. of'[tick.row.pid] = tick.row.task /\ outcome'[tick.row.pid] # "unused"
    BY <2>1 DEF Grows
  <2>3. TickIs("spawned", tick.rows, tick.row, tick.due, tick.reaped)
    BY <1>5 DEF Spawn, Goes, TickRecord, TickIs
  <2>4. children' \subseteq Runs /\ tick.reaped \subseteq children' BY <1>0, <1>5, <2>1 DEF Spawn
  <2> QED BY <1>0, <1>1, <1>2, <2>1, <2>2, <2>3, <2>4, TickStands
<1> QED BY <1>3, <1>4, <1>5

\* The steps of the others leave the dispatcher where it was; a crash of the gateway, nowhere.
LEMMA TickWaits ==
  ASSUME TickTyped, TickBook, RunsTyped, Grows,
         UNCHANGED <<tick, children>> \/ DispatcherCrashes
  PROVE  TickTyped' /\ TickBook'
<1>1. CASE UNCHANGED <<tick, children>>
  <2>1. TickTyped' BY <1>1 DEF TickTyped
  <2>2. TickBook' BY <1>1 DEF TickBook, Held, Grows
  <2> QED BY <2>1, <2>2
<1>2. CASE DispatcherCrashes
  <2>1. TickIs("idle", {}, NoRow, {}, {}) /\ children' = {}
    BY <1>2 DEF DispatcherCrashes, Idle, TickIs
  <2>2. "idle" \in Places BY DEF Places
  <2> QED BY <2>1, <2>2, TickStands
<1> QED BY <1>1, <1>2

-----------------------------------------------------------------------------
(* The workers, the commands and the histories.                            *)

\* A worker appears, or comes to life, only when it is spawned.
WorkersMove ==
  /\ worker' \in [Runs -> {"none", "alive", "wedged", "reported", "clean", "rate", "dead"}]
  /\ \A r \in Runs : \/ worker'[r] # "none" => worker[r] # "none"
                     \/ Spawn /\ r = tick.row.pid
  /\ \A r \in Runs : \/ Live(r)' => Live(r)
                     \/ Spawn /\ r = tick.row.pid

LEMMA WorkerBecomes ==
  ASSUME WorkTyped, NEW r \in Runs, worker[r] # "none",
         NEW how \in {"alive", "wedged", "reported", "clean", "rate", "dead"},
         how \in {"alive", "wedged", "reported"} => Live(r),
         worker' = [worker EXCEPT ![r] = how]
  PROVE  WorkersMove
BY DEF WorkTyped, WorkersMove, Live

LEMMA WorkersStay ==
  ASSUME WorkTyped, UNCHANGED worker
  PROVE  WorkersMove
BY DEF WorkTyped, WorkersMove, Live

LEMMA WorkersTyped ==
  ASSUME TypeInv, BoardNext
  PROVE  WorkersMove
<1> USE WorkersStay
<1>0. WorkTyped /\ tick.rows \subseteq Row /\ TasksTyped BY DEF TypeInv, WorkTyped, TickRecord
<1> USE <1>0
<1>a. ASSUME NEW row \in Row, NEW lives \in BOOLEAN, Terminated(row, lives) PROVE WorkersMove
  <2>1. CASE UNCHANGED worker BY <2>1
  <2>2. CASE Live(row.pid) /\ worker' = [worker EXCEPT ![row.pid] = "dead"]
    <3>1. row.pid \in Runs /\ worker[row.pid] # "none" BY <2>2 DEF Live, Row
    <3> QED BY <2>2, <3>1, WorkerBecomes
  <2> QED BY <1>a, <2>1, <2>2 DEF Terminated
<1>b. ASSUME NEW r \in Runs, worker[r] \in {"alive", "reported"} PROVE worker[r] # "none" /\ Live(r)
  BY <1>b DEF Live, Runs, None
<1>1. CASE TickBegins BY <1>1 DEF TickBegins
<1>2. CASE ExtendClaim BY <1>2 DEF ExtendClaim
<1>3. CASE TerminateWorker
  BY <1>3, <1>a DEF TerminateWorker
<1>4. CASE TakeBack BY <1>4 DEF TakeBack
<1>5. CASE SelectSilent BY <1>5 DEF SelectSilent
<1>6. CASE DetectCrashed BY <1>6 DEF DetectCrashed
<1>7. CASE CountFailure BY <1>7 DEF CountFailure
<1>8. CASE SelectOvertime BY <1>8 DEF SelectOvertime
<1>9. CASE TerminateOvertime
  BY <1>9, <1>a DEF TerminateOvertime
<1>10. CASE TimeOut BY <1>10 DEF TimeOut
<1>11. CASE PromoteReady BY <1>11 DEF PromoteReady
<1>12. CASE SelectReady BY <1>12 DEF SelectReady
<1>13. CASE SkipGuarded BY <1>13 DEF SkipGuarded
<1>14. CASE ClaimReady BY <1>14 DEF ClaimReady
<1>15. CASE SpawnFails BY <1>15 DEF SpawnFails
<1>16. CASE Spawn
  <2>1. worker' = [worker EXCEPT ![tick.row.pid] = "alive"] BY <1>16 DEF Spawn
  <2> QED BY <1>16, <2>1 DEF WorkTyped, WorkersMove, Live
<1>17. CASE SetWorkerPid BY <1>17 DEF SetWorkerPid
<1>18. CASE TickEnds BY <1>18 DEF TickEnds
<1>19. CASE DispatcherCrashes BY <1>19 DEF DispatcherCrashes
<1>20. ASSUME NEW r \in Runs, Heartbeat(r) PROVE WorkersMove BY <1>20 DEF Heartbeat
<1>21. ASSUME NEW r \in Runs, WorkerCompletes(r) PROVE WorkersMove
  BY <1>21, <1>b, WorkerBecomes DEF WorkerCompletes
<1>22. ASSUME NEW r \in Runs, WorkerFinishes(r) PROVE WorkersMove
  BY <1>22, <1>b, WorkerBecomes DEF WorkerFinishes
<1>23. ASSUME NEW r \in Runs, NEW kind \in {"none", "dependency"}, WorkerBlocks(r, kind)
        PROVE  WorkersMove
  BY <1>23 DEF WorkerBlocks
<1>24. ASSUME NEW r \in Runs, BudgetExhausted(r) PROVE WorkersMove
  BY <1>24, <1>b, WorkerBecomes DEF BudgetExhausted
<1>25. ASSUME NEW r \in Runs, GoalLoopBlocks(r) PROVE WorkersMove BY <1>25 DEF GoalLoopBlocks
<1>26. ASSUME NEW r \in Runs, WorkerExits(r) PROVE WorkersMove
  BY <1>26, <1>b, WorkerBecomes DEF WorkerExits
<1>27. ASSUME NEW r \in Runs, WorkerDies(r) PROVE WorkersMove
  BY <1>27, <1>b, WorkerBecomes DEF WorkerDies
<1>28. ASSUME NEW r \in Runs, WorkerWedges(r) PROVE WorkersMove
  BY <1>28, <1>b, WorkerBecomes DEF WorkerWedges
<1>29. ASSUME NEW t \in Tasks, ClaimExpires(t) PROVE WorkersMove BY <1>29 DEF ClaimExpires
<1>30. ASSUME NEW t \in Tasks, HeartbeatAges(t) PROVE WorkersMove BY <1>30 DEF HeartbeatAges
<1>31. ASSUME NEW t \in Tasks, OpClaim(t) PROVE WorkersMove BY <1>31 DEF OpClaim
<1>32. ASSUME NEW t \in Tasks, OpComplete(t) PROVE WorkersMove BY <1>32 DEF OpComplete
<1>33. CASE OpCompleted BY <1>33 DEF OpCompleted
<1>34. ASSUME NEW t \in Tasks, OpBlock(t) PROVE WorkersMove BY <1>34 DEF OpBlock
<1>35. ASSUME NEW t \in Tasks, OpUnblock(t) PROVE WorkersMove BY <1>35 DEF OpUnblock
<1>36. ASSUME NEW t \in Tasks, OpPromote(t) PROVE WorkersMove BY <1>36 DEF OpPromote
<1>37. CASE OpPromoted BY <1>37 DEF OpPromoted
<1>38. ASSUME NEW t \in Tasks, OpArchive(t) PROVE WorkersMove BY <1>38 DEF OpArchive
<1>39. ASSUME NEW t \in Tasks, OpSchedule(t) PROVE WorkersMove BY <1>39 DEF OpSchedule
<1>40. ASSUME NEW p \in Tasks, NEW c \in Tasks, OpLink(p, c) PROVE WorkersMove BY <1>40 DEF OpLink
<1>41. ASSUME NEW p \in Tasks, NEW c \in Tasks, OpUnlink(p, c) PROVE WorkersMove
  BY <1>41 DEF OpUnlink
<1>42. ASSUME NEW t \in Tasks, OpReclaim(t) PROVE WorkersMove
  <2>1. CASE UNCHANGED worker BY <2>1
  <2>2. CASE Live(task[t].pid) /\ worker' = [worker EXCEPT ![task[t].pid] = "dead"]
    <3>1. task[t].pid \in Runs /\ worker[task[t].pid] # "none"
      BY <2>2 DEF Live, TasksTyped, TaskRow
    <3> QED BY <2>2, <3>1, WorkerBecomes
  <2> QED BY <1>42, <2>1, <2>2 DEF OpReclaim
<1>43. CASE OpReclaimed BY <1>43 DEF OpReclaimed
<1> QED
  BY <1>1, <1>2, <1>3, <1>4, <1>5, <1>6, <1>7, <1>8, <1>9, <1>10, <1>11, <1>12, <1>13, <1>14,
     <1>15, <1>16, <1>17, <1>18, <1>19, <1>20, <1>21, <1>22, <1>23, <1>24, <1>25, <1>26, <1>27,
     <1>28, <1>29, <1>30, <1>31, <1>32, <1>33, <1>34, <1>35, <1>36, <1>37, <1>38, <1>39, <1>40,
     <1>41, <1>42, <1>43 DEF BoardNext, Tick, WorkerStep, WorkerEnds, OperatorStep, OperatorGoesOn

LEMMA CommandsTyped ==
  ASSUME TypeInv, BoardNext
  PROVE  (operator \in CommandRecord /\ CommandBook)'
<1> DEFINE Goal == (operator \in CommandRecord /\ CommandBook)'
<1>0. operator \in CommandRecord /\ CommandBook /\ TasksTyped BY DEF TypeInv, WorkTyped
<1>a. UNCHANGED operator => Goal BY <1>0 DEF CommandBook
<1>b. ASSUME NEW t \in Tasks, NEW at \in {"promoting", "reclaiming", "completing"},
             operator' = [at |-> at, row |-> RowOf(t)]
      PROVE  Goal
  <2>1. RowOf(t) \in Row BY <1>0, RowOfTask
  <2> QED BY <1>b, <2>1 DEF CommandRecord, CommandBook
<1>c. operator' = [at |-> "idle", row |-> NoRow] => Goal BY DEF CommandRecord, CommandBook
<1> SUFFICES Goal OBVIOUS
<1> HIDE DEF Goal
<1>1. CASE TickBegins BY <1>1, <1>a DEF TickBegins
<1>2. CASE ExtendClaim BY <1>2, <1>a DEF ExtendClaim
<1>3. CASE TerminateWorker BY <1>3, <1>a DEF TerminateWorker
<1>4. CASE TakeBack BY <1>4, <1>a DEF TakeBack
<1>5. CASE SelectSilent BY <1>5, <1>a DEF SelectSilent
<1>6. CASE DetectCrashed BY <1>6, <1>a DEF DetectCrashed
<1>7. CASE CountFailure BY <1>7, <1>a DEF CountFailure
<1>8. CASE SelectOvertime BY <1>8, <1>a DEF SelectOvertime
<1>9. CASE TerminateOvertime BY <1>9, <1>a DEF TerminateOvertime
<1>10. CASE TimeOut BY <1>10, <1>a DEF TimeOut
<1>11. CASE PromoteReady BY <1>11, <1>a DEF PromoteReady
<1>12. CASE SelectReady BY <1>12, <1>a DEF SelectReady
<1>13. CASE SkipGuarded BY <1>13, <1>a DEF SkipGuarded
<1>14. CASE ClaimReady BY <1>14, <1>a DEF ClaimReady
<1>15. CASE SpawnFails BY <1>15, <1>a DEF SpawnFails
<1>16. CASE Spawn BY <1>16, <1>a DEF Spawn
<1>17. CASE SetWorkerPid BY <1>17, <1>a DEF SetWorkerPid
<1>18. CASE TickEnds BY <1>18, <1>a DEF TickEnds
<1>19. CASE DispatcherCrashes BY <1>19, <1>a DEF DispatcherCrashes
<1>20. ASSUME NEW r \in Runs, Heartbeat(r) PROVE Goal BY <1>20, <1>a DEF Heartbeat
<1>21. ASSUME NEW r \in Runs, WorkerCompletes(r) PROVE Goal BY <1>21, <1>a DEF WorkerCompletes
<1>22. ASSUME NEW r \in Runs, WorkerFinishes(r) PROVE Goal BY <1>22, <1>a DEF WorkerFinishes
<1>23. ASSUME NEW r \in Runs, NEW kind \in {"none", "dependency"}, WorkerBlocks(r, kind)
        PROVE  Goal
  BY <1>23, <1>a DEF WorkerBlocks
<1>24. ASSUME NEW r \in Runs, BudgetExhausted(r) PROVE Goal BY <1>24, <1>a DEF BudgetExhausted
<1>25. ASSUME NEW r \in Runs, GoalLoopBlocks(r) PROVE Goal BY <1>25, <1>a DEF GoalLoopBlocks
<1>26. ASSUME NEW r \in Runs, WorkerExits(r) PROVE Goal BY <1>26, <1>a DEF WorkerExits
<1>27. ASSUME NEW r \in Runs, WorkerDies(r) PROVE Goal BY <1>27, <1>a DEF WorkerDies
<1>28. ASSUME NEW r \in Runs, WorkerWedges(r) PROVE Goal BY <1>28, <1>a DEF WorkerWedges
<1>29. ASSUME NEW t \in Tasks, ClaimExpires(t) PROVE Goal BY <1>29, <1>a DEF ClaimExpires
<1>30. ASSUME NEW t \in Tasks, HeartbeatAges(t) PROVE Goal BY <1>30, <1>a DEF HeartbeatAges
<1>31. ASSUME NEW t \in Tasks, OpClaim(t) PROVE Goal BY <1>31, <1>a DEF OpClaim
<1>32. ASSUME NEW t \in Tasks, OpComplete(t) PROVE Goal
  BY <1>32, <1>b DEF OpComplete
<1>33. CASE OpCompleted
  BY <1>33, <1>c DEF OpCompleted
<1>34. ASSUME NEW t \in Tasks, OpBlock(t) PROVE Goal BY <1>34, <1>a DEF OpBlock
<1>35. ASSUME NEW t \in Tasks, OpUnblock(t) PROVE Goal BY <1>35, <1>a DEF OpUnblock
<1>36. ASSUME NEW t \in Tasks, OpPromote(t) PROVE Goal
  BY <1>36, <1>b DEF OpPromote
<1>37. CASE OpPromoted
  BY <1>37, <1>c DEF OpPromoted
<1>38. ASSUME NEW t \in Tasks, OpArchive(t) PROVE Goal BY <1>38, <1>a DEF OpArchive
<1>39. ASSUME NEW t \in Tasks, OpSchedule(t) PROVE Goal BY <1>39, <1>a DEF OpSchedule
<1>40. ASSUME NEW p \in Tasks, NEW c \in Tasks, OpLink(p, c) PROVE Goal BY <1>40, <1>a DEF OpLink
<1>41. ASSUME NEW p \in Tasks, NEW c \in Tasks, OpUnlink(p, c) PROVE Goal
  BY <1>41, <1>a DEF OpUnlink
<1>42. ASSUME NEW t \in Tasks, OpReclaim(t) PROVE Goal
  BY <1>42, <1>b DEF OpReclaim
<1>43. CASE OpReclaimed
  BY <1>43, <1>c DEF OpReclaimed
<1> QED
  BY <1>1, <1>2, <1>3, <1>4, <1>5, <1>6, <1>7, <1>8, <1>9, <1>10, <1>11, <1>12, <1>13, <1>14,
     <1>15, <1>16, <1>17, <1>18, <1>19, <1>20, <1>21, <1>22, <1>23, <1>24, <1>25, <1>26, <1>27,
     <1>28, <1>29, <1>30, <1>31, <1>32, <1>33, <1>34, <1>35, <1>36, <1>37, <1>38, <1>39, <1>40,
     <1>41, <1>42, <1>43 DEF BoardNext, Tick, WorkerStep, WorkerEnds, OperatorStep, OperatorGoesOn

LEMMA BoundsKept ==
  ASSUME TypeInv, BoardNext
  PROVE  BoundsTyped'
<1>0. BoundsTyped /\ plan.acts \in Nat /\ plan.ills \in Nat
  BY ScenarioBounds DEF TypeInv, BoundsTyped
<1>a. UNCHANGED bounds => BoundsTyped' BY <1>0 DEF BoundsTyped, bounds
<1>b. ASSUME NEW kind, Ill(kind) PROVE BoundsTyped' BY <1>0, <1>b DEF BoundsTyped, Ill
<1>c. ASSUME acts < plan.acts, acts' = acts + 1, UNCHANGED <<plan, ills>> PROVE BoundsTyped'
  BY <1>0, <1>c DEF BoundsTyped
<1>d. ASSUME NEW kind, Command(kind) PROVE BoundsTyped' BY <1>c, <1>d DEF Command
<1>1. CASE TickBegins BY <1>1, <1>a DEF TickBegins
<1>2. CASE ExtendClaim BY <1>2, <1>a DEF ExtendClaim
<1>3. CASE TerminateWorker
  BY <1>3, <1>a, <1>b DEF TerminateWorker, Terminated
<1>4. CASE TakeBack BY <1>4, <1>a DEF TakeBack
<1>5. CASE SelectSilent BY <1>5, <1>a DEF SelectSilent
<1>6. CASE DetectCrashed BY <1>6, <1>a DEF DetectCrashed
<1>7. CASE CountFailure BY <1>7, <1>a DEF CountFailure
<1>8. CASE SelectOvertime
  BY <1>8, <1>a, <1>b DEF SelectOvertime
<1>9. CASE TerminateOvertime
  BY <1>9, <1>a, <1>b DEF TerminateOvertime, Terminated
<1>10. CASE TimeOut BY <1>10, <1>a DEF TimeOut
<1>11. CASE PromoteReady BY <1>11, <1>a DEF PromoteReady
<1>12. CASE SelectReady BY <1>12, <1>a DEF SelectReady
<1>13. CASE SkipGuarded BY <1>13, <1>a DEF SkipGuarded
<1>14. CASE ClaimReady BY <1>14, <1>a DEF ClaimReady
<1>15. CASE SpawnFails
  BY <1>15, <1>b DEF SpawnFails
<1>16. CASE Spawn BY <1>16, <1>a DEF Spawn
<1>17. CASE SetWorkerPid BY <1>17, <1>a DEF SetWorkerPid
<1>18. CASE TickEnds BY <1>18, <1>a DEF TickEnds
<1>19. CASE DispatcherCrashes
  BY <1>19, <1>b DEF DispatcherCrashes
<1>20. ASSUME NEW r \in Runs, Heartbeat(r) PROVE BoundsTyped' BY <1>20, <1>a DEF Heartbeat
<1>21. ASSUME NEW r \in Runs, WorkerCompletes(r) PROVE BoundsTyped'
  BY <1>21, <1>a DEF WorkerCompletes
<1>22. ASSUME NEW r \in Runs, WorkerFinishes(r) PROVE BoundsTyped'
  BY <1>22, <1>a DEF WorkerFinishes
<1>23. ASSUME NEW r \in Runs, NEW kind \in {"none", "dependency"}, WorkerBlocks(r, kind)
        PROVE  BoundsTyped'
  BY <1>23, <1>a DEF WorkerBlocks
<1>24. ASSUME NEW r \in Runs, BudgetExhausted(r) PROVE BoundsTyped'
  BY <1>24, <1>b DEF BudgetExhausted
<1>25. ASSUME NEW r \in Runs, GoalLoopBlocks(r) PROVE BoundsTyped'
  BY <1>25, <1>b DEF GoalLoopBlocks
<1>26. ASSUME NEW r \in Runs, WorkerExits(r) PROVE BoundsTyped'
  BY <1>26, <1>a, <1>b DEF WorkerExits
<1>27. ASSUME NEW r \in Runs, WorkerDies(r) PROVE BoundsTyped'
  BY <1>27, <1>b DEF WorkerDies
<1>28. ASSUME NEW r \in Runs, WorkerWedges(r) PROVE BoundsTyped'
  BY <1>28, <1>b DEF WorkerWedges
<1>29. ASSUME NEW t \in Tasks, ClaimExpires(t) PROVE BoundsTyped'
  BY <1>29, <1>a, <1>b DEF ClaimExpires
<1>30. ASSUME NEW t \in Tasks, HeartbeatAges(t) PROVE BoundsTyped' BY <1>30, <1>a DEF HeartbeatAges
<1>31. ASSUME NEW t \in Tasks, OpClaim(t) PROVE BoundsTyped'
  BY <1>31, <1>d DEF OpClaim
<1>32. ASSUME NEW t \in Tasks, OpComplete(t) PROVE BoundsTyped'
  BY <1>32, <1>d DEF OpComplete
<1>33. CASE OpCompleted BY <1>33, <1>a DEF OpCompleted
<1>34. ASSUME NEW t \in Tasks, OpBlock(t) PROVE BoundsTyped'
  BY <1>34, <1>d DEF OpBlock
<1>35. ASSUME NEW t \in Tasks, OpUnblock(t) PROVE BoundsTyped'
  BY <1>35, <1>d DEF OpUnblock
<1>36. ASSUME NEW t \in Tasks, OpPromote(t) PROVE BoundsTyped'
  BY <1>36, <1>d DEF OpPromote
<1>37. CASE OpPromoted BY <1>37, <1>a DEF OpPromoted
<1>38. ASSUME NEW t \in Tasks, OpArchive(t) PROVE BoundsTyped'
  BY <1>38, <1>d DEF OpArchive
<1>39. ASSUME NEW t \in Tasks, OpSchedule(t) PROVE BoundsTyped'
  BY <1>39, <1>d DEF OpSchedule
<1>40. ASSUME NEW p \in Tasks, NEW c \in Tasks, OpLink(p, c) PROVE BoundsTyped'
  BY <1>40, <1>d DEF OpLink
<1>41. ASSUME NEW p \in Tasks, NEW c \in Tasks, OpUnlink(p, c) PROVE BoundsTyped'
  BY <1>41, <1>d DEF OpUnlink
<1>42. ASSUME NEW t \in Tasks, OpReclaim(t) PROVE BoundsTyped'
  <2>1. plan' = plan /\ acts < plan.acts /\ acts' = acts + 1 BY <1>42 DEF OpReclaim
  <2>2. ills' = ills \/ (ills < plan.ills /\ ills' = ills + 1) BY <1>42 DEF OpReclaim
  <2> QED BY <1>0, <2>1, <2>2 DEF BoundsTyped
<1>43. CASE OpReclaimed BY <1>43, <1>a DEF OpReclaimed
<1> QED
  BY <1>1, <1>2, <1>3, <1>4, <1>5, <1>6, <1>7, <1>8, <1>9, <1>10, <1>11, <1>12, <1>13, <1>14,
     <1>15, <1>16, <1>17, <1>18, <1>19, <1>20, <1>21, <1>22, <1>23, <1>24, <1>25, <1>26, <1>27,
     <1>28, <1>29, <1>30, <1>31, <1>32, <1>33, <1>34, <1>35, <1>36, <1>37, <1>38, <1>39, <1>40,
     <1>41, <1>42, <1>43 DEF BoardNext, Tick, WorkerStep, WorkerEnds, OperatorStep, OperatorGoesOn

LEMMA HistoryKept ==
  ASSUME TypeInv, BoardNext
  PROVE  HistoryTyped'
<1> DEFINE tables == <<parents, gaveUp, recorded, reporter>>
<1>0. /\ parents \in [Tasks -> SUBSET Tasks] /\ gaveUp \subseteq Tasks /\ recorded \subseteq Runs
      /\ reporter \in [Runs -> Runs \union {None}] /\ TasksTyped
      /\ tick.rows \subseteq Row /\ tick.due \subseteq (Tasks \X {1, DefaultLimit})
      /\ \A r \in Runs : worker[r] # "none" => of[r] \in Tasks
  BY DEF TypeInv, HistoryTyped, WorkTyped, TickRecord, RunBooks
<1>a. UNCHANGED tables => HistoryTyped' BY <1>0 DEF HistoryTyped
<1>b. ASSUME UNCHANGED <<parents, recorded, reporter>>, gaveUp' \subseteq Tasks PROVE HistoryTyped'
  BY <1>0, <1>b DEF HistoryTyped
<1>c. ASSUME NEW t \in Tasks, NEW limit, NEW release, NEW error, NEW how,
             RecordFailure(t, limit, release, error, how)
      PROVE  gaveUp' \subseteq Tasks
  <2>1. gaveUp' = gaveUp \/ gaveUp' = gaveUp \union {t} BY <1>c DEF RecordFailure
  <2> QED BY <1>0, <2>1
<1>d. ASSUME NEW t \in Tasks, NEW r \in Runs, Reported(t, r), gaveUp' \subseteq Tasks,
             UNCHANGED <<parents, recorded>>
      PROVE  HistoryTyped'
  <2>1. task[t].run \in Runs \union {None} BY <1>0 DEF TasksTyped, TaskRow
  <2>2. reporter' \in [Runs -> Runs \union {None}] BY <1>0, <1>d, <2>1 DEF Reported
  <2> QED BY <1>0, <1>d, <2>2 DEF HistoryTyped
<1>e. ASSUME NEW p \in Tasks, NEW c \in Tasks, UNCHANGED <<gaveUp, recorded, reporter>>,
             \/ parents' = [parents EXCEPT ![c] = @ \union {p}]
             \/ parents' = [parents EXCEPT ![c] = @ \ {p}]
      PROVE  HistoryTyped'
  BY <1>0, <1>e DEF HistoryTyped
<1>1. CASE TickBegins BY <1>1, <1>a DEF TickBegins, board, history
<1>2. CASE ExtendClaim BY <1>2, <1>a DEF ExtendClaim, board, history
<1>3. CASE TerminateWorker BY <1>3, <1>a DEF TerminateWorker, board, history
<1>4. CASE TakeBack BY <1>4, <1>a DEF TakeBack, board, history
<1>5. CASE SelectSilent BY <1>5, <1>a DEF SelectSilent, board, history
<1>6. CASE DetectCrashed BY <1>6, <1>a DEF DetectCrashed, board, history
<1>7. CASE CountFailure
  <2>1. PICK d \in tick.due : RecordFailure(d[1], d[2], FALSE, "plain", "crashed")
    BY <1>7 DEF CountFailure
  <2>2. d[1] \in Tasks BY <1>0
  <2>3. gaveUp' \subseteq Tasks BY <1>c, <2>1, <2>2
  <2> QED BY <1>7, <1>b, <2>3 DEF CountFailure, history
<1>8. CASE SelectOvertime BY <1>8, <1>a DEF SelectOvertime, board, history
<1>9. CASE TerminateOvertime BY <1>9, <1>a DEF TerminateOvertime, board, history
<1>10. CASE TimeOut BY <1>10, <1>a DEF TimeOut, board, history
<1>11. CASE PromoteReady BY <1>11, <1>a DEF PromoteReady, board, history
<1>12. CASE SelectReady BY <1>12, <1>a DEF SelectReady, board, history
<1>13. CASE SkipGuarded BY <1>13, <1>a DEF SkipGuarded, board, history
<1>14. CASE ClaimReady
  <2>1. UNCHANGED gaveUp BY <1>14 DEF ClaimReady, ClaimTask
  <2> QED BY <1>14, <1>a, <2>1 DEF ClaimReady, history
<1>15. CASE SpawnFails
  <2>1. PICK error \in {"plain", "auth"} :
          RecordFailure(tick.row.task, FailureLimit, TRUE, error, "spawn_failed")
    BY <1>15 DEF SpawnFails
  <2>2. tick.row.task \in Tasks BY <1>15 DEF SpawnFails, TypeInv, TickBook, Held, Row
  <2>3. gaveUp' \subseteq Tasks BY <1>c, <2>1, <2>2
  <2> QED BY <1>15, <1>b, <2>3 DEF SpawnFails, history
<1>16. CASE Spawn BY <1>16, <1>a DEF Spawn, board, history
<1>17. CASE SetWorkerPid
  <2>1. tick.row.pid \in Runs BY <1>17 DEF SetWorkerPid, TypeInv, TickBook
  <2> QED BY <1>17, <1>0, <2>1 DEF SetWorkerPid, HistoryTyped
<1>18. CASE TickEnds BY <1>18, <1>a DEF TickEnds, board, history
<1>19. CASE DispatcherCrashes BY <1>19, <1>a DEF DispatcherCrashes, board, history
<1>20. ASSUME NEW r \in Runs, Heartbeat(r) PROVE HistoryTyped'
  BY <1>20, <1>a DEF Heartbeat, board, history
<1>21. ASSUME NEW r \in Runs, WorkerCompletes(r) PROVE HistoryTyped'
  <2>1. of[r] \in Tasks BY <1>21, <1>0 DEF WorkerCompletes
  <2>2. gaveUp' \subseteq Tasks BY <1>21, <1>0 DEF WorkerCompletes, CompleteTask
  <2> QED BY <1>21, <1>d, <2>1, <2>2 DEF WorkerCompletes
<1>22. ASSUME NEW r \in Runs, WorkerFinishes(r) PROVE HistoryTyped'
  BY <1>22, <1>a DEF WorkerFinishes, AfterComplete, history
<1>23. ASSUME NEW r \in Runs, NEW kind \in {"none", "dependency"}, WorkerBlocks(r, kind)
        PROVE  HistoryTyped'
  <2>1. of[r] \in Tasks BY <1>23, <1>0 DEF WorkerBlocks
  <2>2. gaveUp' \subseteq Tasks BY <1>23, <1>0 DEF WorkerBlocks, BlockTask
  <2> QED BY <1>23, <1>d, <2>1, <2>2 DEF WorkerBlocks
<1>24. ASSUME NEW r \in Runs, BudgetExhausted(r) PROVE HistoryTyped'
  <2>1. of[r] \in Tasks BY <1>24, <1>0 DEF BudgetExhausted
  <2>2. gaveUp' \subseteq Tasks BY <1>24, <1>c, <2>1 DEF BudgetExhausted
  <2> QED BY <1>24, <1>d, <2>1, <2>2 DEF BudgetExhausted
<1>25. ASSUME NEW r \in Runs, GoalLoopBlocks(r) PROVE HistoryTyped'
  <2>1. of[r] \in Tasks BY <1>25, <1>0 DEF GoalLoopBlocks
  <2>2. gaveUp' \subseteq Tasks BY <1>25, <1>0 DEF GoalLoopBlocks, BlockTask
  <2> QED BY <1>25, <1>d, <2>1, <2>2 DEF GoalLoopBlocks
<1>26. ASSUME NEW r \in Runs, WorkerExits(r) PROVE HistoryTyped'
  BY <1>26, <1>a DEF WorkerExits, board, history
<1>27. ASSUME NEW r \in Runs, WorkerDies(r) PROVE HistoryTyped'
  BY <1>27, <1>a DEF WorkerDies, board, history
<1>28. ASSUME NEW r \in Runs, WorkerWedges(r) PROVE HistoryTyped'
  BY <1>28, <1>a DEF WorkerWedges, board, history
<1>29. ASSUME NEW t \in Tasks, ClaimExpires(t) PROVE HistoryTyped'
  BY <1>29, <1>a DEF ClaimExpires, board, history
<1>30. ASSUME NEW t \in Tasks, HeartbeatAges(t) PROVE HistoryTyped'
  BY <1>30, <1>a DEF HeartbeatAges, board, history
<1>31. ASSUME NEW t \in Tasks, OpClaim(t) PROVE HistoryTyped'
  <2>1. UNCHANGED gaveUp BY <1>31 DEF OpClaim, ClaimTask
  <2> QED BY <1>31, <1>a, <2>1 DEF OpClaim, history
<1>32. ASSUME NEW t \in Tasks, OpComplete(t) PROVE HistoryTyped'
  BY <1>32, <1>0, <1>b DEF OpComplete, CompleteTask, history
<1>33. CASE OpCompleted
  BY <1>33, <1>a DEF OpCompleted, AfterComplete, history
<1>34. ASSUME NEW t \in Tasks, OpBlock(t) PROVE HistoryTyped'
  BY <1>34, <1>a DEF OpBlock, BlockTask, history
<1>35. ASSUME NEW t \in Tasks, OpUnblock(t) PROVE HistoryTyped'
  BY <1>35, <1>0, <1>b DEF OpUnblock, history
<1>36. ASSUME NEW t \in Tasks, OpPromote(t) PROVE HistoryTyped'
  BY <1>36, <1>a DEF OpPromote, board, history
<1>37. CASE OpPromoted
  BY <1>37, <1>0, <1>b DEF OpPromoted, history
<1>38. ASSUME NEW t \in Tasks, OpArchive(t) PROVE HistoryTyped'
  BY <1>38, <1>a DEF OpArchive, board, history
<1>39. ASSUME NEW t \in Tasks, OpSchedule(t) PROVE HistoryTyped'
  BY <1>39, <1>a DEF OpSchedule, board, history
<1>40. ASSUME NEW p \in Tasks, NEW c \in Tasks, OpLink(p, c) PROVE HistoryTyped'
  BY <1>40, <1>e DEF OpLink, history
<1>41. ASSUME NEW p \in Tasks, NEW c \in Tasks, OpUnlink(p, c) PROVE HistoryTyped'
  BY <1>41, <1>e DEF OpUnlink, history
<1>42. ASSUME NEW t \in Tasks, OpReclaim(t) PROVE HistoryTyped'
  BY <1>42, <1>a DEF OpReclaim, board, history
<1>43. CASE OpReclaimed
  BY <1>43, <1>0, <1>b DEF OpReclaimed, history, board
<1> QED
  BY <1>1, <1>2, <1>3, <1>4, <1>5, <1>6, <1>7, <1>8, <1>9, <1>10, <1>11, <1>12, <1>13, <1>14,
     <1>15, <1>16, <1>17, <1>18, <1>19, <1>20, <1>21, <1>22, <1>23, <1>24, <1>25, <1>26, <1>27,
     <1>28, <1>29, <1>30, <1>31, <1>32, <1>33, <1>34, <1>35, <1>36, <1>37, <1>38, <1>39, <1>40,
     <1>41, <1>42, <1>43 DEF BoardNext, Tick, WorkerStep, WorkerEnds, OperatorStep, OperatorGoesOn

LEMMA RunsKept ==
  ASSUME TypeInv, BoardNext, Grows, WorkersMove
  PROVE  RunBooks'
<1>0. RunBooks /\ TickBook /\ of \in [Runs -> Tasks \union {None}] /\ recorded \subseteq Runs
  BY DEF TypeInv, RunsTyped, HistoryTyped
<1>1. ASSUME Spawn \/ SetWorkerPid
      PROVE  /\ tick.row.pid \in Runs /\ outcome[tick.row.pid] # "unused"
             /\ of[tick.row.pid] \in Tasks
  BY <1>0, <1>1 DEF Spawn, SetWorkerPid, TickBook, Held, Row
<1>2. ASSUME NEW r \in Runs, worker'[r] # "none" PROVE of[r] \in Tasks /\ outcome[r] # "unused"
  BY <1>0, <1>1, <1>2 DEF WorkersMove, RunBooks
<1>3. recorded' = recorded \/ (SetWorkerPid /\ recorded' = recorded \union {tick.row.pid})
  <2> USE DEF history
  <2>1. TickBegins => UNCHANGED recorded BY DEF TickBegins
  <2>2. ExtendClaim => UNCHANGED recorded BY DEF ExtendClaim
  <2>3. TerminateWorker => UNCHANGED recorded BY DEF TerminateWorker
  <2>4. TakeBack => UNCHANGED recorded BY DEF TakeBack
  <2>5. SelectSilent => UNCHANGED recorded BY DEF SelectSilent
  <2>6. DetectCrashed => UNCHANGED recorded BY DEF DetectCrashed
  <2>7. CountFailure => UNCHANGED recorded BY DEF CountFailure
  <2>8. SelectOvertime => UNCHANGED recorded BY DEF SelectOvertime
  <2>9. TerminateOvertime => UNCHANGED recorded BY DEF TerminateOvertime
  <2>10. TimeOut => UNCHANGED recorded BY DEF TimeOut
  <2>11. PromoteReady => UNCHANGED recorded BY DEF PromoteReady
  <2>12. SelectReady => UNCHANGED recorded BY DEF SelectReady
  <2>13. SkipGuarded => UNCHANGED recorded BY DEF SkipGuarded
  <2>14. ClaimReady => UNCHANGED recorded BY DEF ClaimReady
  <2>15. SpawnFails => UNCHANGED recorded BY DEF SpawnFails
  <2>16. Spawn => UNCHANGED recorded BY DEF Spawn
  <2>17. SetWorkerPid => recorded' = recorded \union {tick.row.pid} BY DEF SetWorkerPid
  <2>18. TickEnds => UNCHANGED recorded BY DEF TickEnds
  <2>19. DispatcherCrashes => UNCHANGED recorded BY DEF DispatcherCrashes
  <2>20. (\E r \in Runs : Heartbeat(r)) =>
          UNCHANGED recorded
    BY DEF Heartbeat
  <2>21. (\E r \in Runs : WorkerCompletes(r)) =>
          UNCHANGED recorded
    BY DEF WorkerCompletes
  <2>22. (\E r \in Runs : WorkerFinishes(r)) =>
          UNCHANGED recorded
    BY DEF WorkerFinishes
  <2>23. (\E r \in Runs, kind \in {"none", "dependency"} : WorkerBlocks(r, kind)) =>
          UNCHANGED recorded
    BY DEF WorkerBlocks
  <2>24. (\E r \in Runs : BudgetExhausted(r)) =>
          UNCHANGED recorded
    BY DEF BudgetExhausted
  <2>25. (\E r \in Runs : GoalLoopBlocks(r)) =>
          UNCHANGED recorded
    BY DEF GoalLoopBlocks
  <2>26. (\E r \in Runs : WorkerExits(r)) =>
          UNCHANGED recorded
    BY DEF WorkerExits
  <2>27. (\E r \in Runs : WorkerDies(r)) =>
          UNCHANGED recorded
    BY DEF WorkerDies
  <2>28. (\E r \in Runs : WorkerWedges(r)) =>
          UNCHANGED recorded
    BY DEF WorkerWedges
  <2>29. (\E t \in Tasks : ClaimExpires(t)) =>
          UNCHANGED recorded
    BY DEF ClaimExpires
  <2>30. (\E t \in Tasks : HeartbeatAges(t)) =>
          UNCHANGED recorded
    BY DEF HeartbeatAges
  <2>31. (\E t \in Tasks : OpClaim(t)) =>
          UNCHANGED recorded
    BY DEF OpClaim
  <2>32. (\E t \in Tasks : OpComplete(t)) =>
          UNCHANGED recorded
    BY DEF OpComplete
  <2>33. OpCompleted => UNCHANGED recorded BY DEF OpCompleted
  <2>34. (\E t \in Tasks : OpBlock(t)) =>
          UNCHANGED recorded
    BY DEF OpBlock
  <2>35. (\E t \in Tasks : OpUnblock(t)) =>
          UNCHANGED recorded
    BY DEF OpUnblock
  <2>36. (\E t \in Tasks : OpPromote(t)) =>
          UNCHANGED recorded
    BY DEF OpPromote
  <2>37. OpPromoted => UNCHANGED recorded BY DEF OpPromoted
  <2>38. (\E t \in Tasks : OpArchive(t)) =>
          UNCHANGED recorded
    BY DEF OpArchive
  <2>39. (\E t \in Tasks : OpSchedule(t)) =>
          UNCHANGED recorded
    BY DEF OpSchedule
  <2>40. (\E p \in Tasks, c \in Tasks : OpLink(p, c)) =>
          UNCHANGED recorded
    BY DEF OpLink
  <2>41. (\E p \in Tasks, c \in Tasks : OpUnlink(p, c)) =>
          UNCHANGED recorded
    BY DEF OpUnlink
  <2>42. (\E t \in Tasks : OpReclaim(t)) =>
          UNCHANGED recorded
    BY DEF OpReclaim
  <2>43. OpReclaimed => UNCHANGED recorded BY DEF OpReclaimed
  <2> QED
    BY <2>1, <2>2, <2>3, <2>4, <2>5, <2>6, <2>7, <2>8, <2>9, <2>10, <2>11, <2>12, <2>13, <2>14,
       <2>15, <2>16, <2>17, <2>18, <2>19, <2>20, <2>21, <2>22, <2>23, <2>24, <2>25, <2>26, <2>27,
       <2>28, <2>29, <2>30, <2>31, <2>32, <2>33, <2>34, <2>35, <2>36, <2>37, <2>38, <2>39, <2>40,
       <2>41, <2>42, <2>43 DEF BoardNext, Tick, WorkerStep, WorkerEnds, OperatorStep,
       OperatorGoesOn
<1>4. ASSUME NEW r \in recorded' PROVE r \in Runs /\ outcome[r] # "unused"
  BY <1>0, <1>1, <1>3, <1>4 DEF RunBooks
<1>5. ASSUME NEW r \in Runs, outcome'[r] = "open" \/ worker'[r] # "none" PROVE of'[r] \in Tasks
  <2>1. CASE outcome'[r] = "open"
    <3>1. CASE outcome[r] = "open"
      <4>1. of[r] \in Tasks /\ of'[r] = of[r] BY <1>0, <3>1 DEF RunBooks, Grows
      <4> QED BY <4>1
    <3> QED BY <2>1, <3>1 DEF Grows
  <2>2. CASE worker'[r] # "none" BY <1>2, <2>2 DEF Grows
  <2> QED BY <1>5, <2>1, <2>2
<1>6. ASSUME NEW r \in Runs, worker'[r] # "none" PROVE outcome'[r] # "unused"
  BY <1>2, <1>6 DEF Grows
<1>7. ASSUME NEW r \in recorded' PROVE outcome'[r] # "unused" BY <1>4, <1>7 DEF Grows
<1> QED BY <1>5, <1>6, <1>7 DEF RunBooks

LEMMA TickKept ==
  ASSUME TypeInv, BoardNext, TasksTyped', RunsTyped', Grows
  PROVE  TickTyped' /\ TickBook'
<1>0. TasksTyped /\ RunsTyped /\ TickTyped /\ TickBook
  BY DEF TypeInv, WorkTyped, TickTyped
<1>1. CASE \/ TickBegins \/ ExtendClaim \/ TakeBack \/ SelectSilent \/ SelectOvertime
           \/ PromoteReady \/ SelectReady \/ SkipGuarded \/ TickEnds
  <2>1. UNCHANGED children
    BY <1>1 DEF TickBegins, ExtendClaim, TakeBack, SelectSilent, SelectOvertime, PromoteReady,
         SelectReady, SkipGuarded, TickEnds
  <2> QED BY <1>0, <1>1, <2>1, TickReads
<1>2. CASE TerminateWorker \/ TerminateOvertime \/ TimeOut \/ DetectCrashed \/ CountFailure
  <2>1. UNCHANGED children
    BY <1>2 DEF TerminateWorker, TerminateOvertime, TimeOut, DetectCrashed, CountFailure
  <2> QED BY <1>0, <1>2, <2>1, TickSignals
<1>3. CASE ClaimReady \/ SpawnFails \/ Spawn \/ SetWorkerPid
  BY <1>0, <1>3, TickStarts
<1>4. CASE UNCHANGED <<tick, children>> \/ DispatcherCrashes BY <1>0, <1>4, TickWaits
<1>5. CASE OperatorStep
  <2>1. UNCHANGED <<tick, children>>
    BY <1>5 DEF OperatorStep, OpClaim, OpComplete, OpBlock, OpUnblock, OpPromote, OpArchive,
         OpSchedule, OpLink, OpUnlink, OpReclaim
  <2> QED BY <1>4, <2>1
<1>6. CASE OperatorGoesOn
  <2>1. UNCHANGED <<tick, children>>
    BY <1>6 DEF OperatorGoesOn, OpCompleted, OpPromoted, OpReclaimed
  <2> QED BY <1>4, <2>1
<1>7. ASSUME NEW r \in Runs, WorkerStep(r) PROVE UNCHANGED <<tick, children>>
  BY <1>7 DEF WorkerStep, WorkerEnds, Heartbeat, WorkerCompletes, WorkerFinishes, WorkerBlocks,
       BudgetExhausted, GoalLoopBlocks, WorkerExits, WorkerDies, WorkerWedges
<1>8. ASSUME NEW t \in Tasks, ClaimExpires(t) \/ HeartbeatAges(t) PROVE UNCHANGED <<tick, children>>
  BY <1>8 DEF ClaimExpires, HeartbeatAges
<1> QED BY <1>1, <1>2, <1>3, <1>4, <1>5, <1>6, <1>7, <1>8 DEF BoardNext, Tick

LEMMA TypeStep == TypeInv /\ [BoardNext]_vars => TypeInv'
<1> SUFFICES ASSUME TypeInv, [BoardNext]_vars PROVE TypeInv' OBVIOUS
<1>1. CASE BoardNext
  <2>1. TasksTyped' /\ RunsTyped' /\ Grows BY <1>1, TablesTyped
  <2>2. WorkersMove BY <1>1, WorkersTyped
  <2>3. TickTyped' /\ TickBook' BY <1>1, <2>1, TickKept
  <2>4. (operator \in CommandRecord /\ CommandBook)' BY <1>1, CommandsTyped
  <2>5. BoundsTyped' BY <1>1, BoundsKept
  <2>6. HistoryTyped' BY <1>1, HistoryKept
  <2>7. RunBooks' BY <1>1, <2>1, <2>2, RunsKept
  <2>8. WorkTyped' BY <2>2, <2>3, <2>4 DEF WorkTyped, WorkersMove, TickTyped
  <2> QED BY <2>1, <2>3, <2>4, <2>5, <2>6, <2>7, <2>8 DEF TypeInv
<1>2. CASE UNCHANGED vars
  BY <1>2 DEF TypeInv, TasksTyped, RunsTyped, WorkTyped, BoundsTyped, HistoryTyped, TickBook, Held,
       CommandBook, RunBooks, vars, board, history, bounds
<1> QED BY <1>1, <1>2

LEMMA TypeBegins == Init => TypeInv
<1> SUFFICES ASSUME Init PROVE TypeInv OBVIOUS
<1>0. plan \in Scenario /\ plan.parents \in [Tasks -> SUBSET Tasks]
  BY BoardAssumption DEF Init, Scenario
<1>1. TasksTyped
  <2>1. ASSUME NEW t \in Tasks PROVE NewTask(plan.parents[t]) \in TaskRow
    BY DEF NewTask, TaskRow, Statuses
  <2> QED BY <2>1 DEF Init, TasksTyped
<1>2. RunsTyped BY DEF Init, RunsTyped
<1>3. WorkTyped /\ TickBook
  <2>1. Idle \in TickRecord BY DEF Idle, TickRecord, Places
  <2>2. [at |-> "idle", row |-> NoRow] \in CommandRecord BY DEF CommandRecord
  <2>3. Idle.at = "idle" /\ Idle.due = {} /\ Idle.reaped = {} BY DEF Idle
  <2> QED BY <2>1, <2>2, <2>3 DEF Init, WorkTyped, TickBook, Held
<1>4. BoundsTyped BY ScenarioBounds DEF Init, BoundsTyped
<1>5. HistoryTyped BY <1>0 DEF Init, HistoryTyped
<1>6. CommandBook /\ RunBooks BY DEF Init, CommandBook, RunBooks
<1> QED BY <1>1, <1>2, <1>3, <1>4, <1>5, <1>6 DEF TypeInv

-----------------------------------------------------------------------------
(* The books agree, and a worker whose run was taken back is gone.         *)

\* An operator leaves the claiming to the dispatcher.
DispatcherClaims == "claim" \notin plan.ops

\* What an outcome says of a run that the dispatcher took back.
TakenBack == {"reclaimed", "stale", "crashed"}

\* The task of a crash that is still to be counted has no worker.
DueBook == \A d \in tick.due : ~Running(d[1])

\* The pid that was recorded for a run that is open is the one on its task.
PidBook == \A r \in recorded : outcome[r] = "open" => task[of[r]].pid = r

\* A row that was read of a task that is running still has its pid.
Fresh(row) == Running(row.task) => row.pid = task[row.task].pid

\* What the dispatcher knows of the rows it holds: they are fresh; the worker of the one it has
\* signalled is gone, or was seen alive; the run it has begun is the task's, or nobody's, and
\* nobody took it back.
RowBook ==
  /\ tick.at \in {"ttl", "silent"} => \A row \in tick.rows : Fresh(row)
  /\ tick.at \in {"ttlKilled", "silentKilled"} =>
       /\ \A row \in tick.rows : Fresh(row)
       /\ Fresh(tick.row)
       /\ tick.row.lives \/ ~Live(tick.row.pid)
  /\ tick.at \in {"claimed", "spawned"} =>
       /\ task[tick.row.task].run \in {None, tick.row.pid}
       /\ outcome[tick.row.pid] \notin TakenBack

Books == RunsAgree /\ TakenBackIsGone /\ PidBook /\ DueBook /\ RowBook

\* What a flow does to the current run of a task.
LEMMA FlowRuns ==
  ASSUME TypeInv, RunsAgree, Flows
  PROVE  /\ RunsAgree'
         /\ \A r \in Runs : outcome'[r] = "open" =>
              outcome[r] = "open" /\ of[r] \in Tasks /\ Keeps(of[r])
<1>0. TasksTyped /\ RunsTyped /\ RunBooks BY DEF TypeInv
<1>1. ASSUME NEW r \in Runs, outcome'[r] = "open"
      PROVE  /\ outcome[r] = "open" /\ of[r] \in Tasks /\ task[of[r]].run = r
             /\ Keeps(of[r]) /\ task'[of[r]].run = r
  <2>1. outcome[r] = "open" BY <1>1 DEF Flows, Endings
  <2>2. of[r] \in Tasks BY <1>0, <2>1 DEF RunBooks
  <2>3. task[of[r]].run = r BY <2>1 DEF RunsAgree
  <2>4. Keeps(of[r]) BY <1>1, <2>2, <2>3 DEF Flows
  <2> QED BY <2>1, <2>2, <2>3, <2>4 DEF Keeps, SameWork
<1>2. ASSUME NEW t \in Tasks, task'[t].run # None
      PROVE  of'[task'[t].run] = t /\ outcome'[task'[t].run] = "open"
  <2> DEFINE r == task[t].run
  <2>1. Keeps(t) /\ ~Frees(t) BY <1>2 DEF Flows, Frees, FreeRow
  <2>2. task'[t].run = r BY <2>1 DEF Keeps, SameWork
  <2>3. r \in Runs BY <1>0, <1>2, <2>2 DEF TasksTyped, TaskRow
  <2>4. of[r] = t /\ outcome[r] = "open" BY <1>2, <2>2 DEF RunsAgree
  <2>5. outcome'[r] = outcome[r]
    <3>1. ASSUME NEW u \in Tasks, Frees(u), task[u].run = r PROVE FALSE
      <4>1. of[task[u].run] = u BY <2>3, <3>1 DEF RunsAgree, Runs, None
      <4> QED BY <2>1, <2>4, <3>1, <4>1
    <3> QED BY <2>3, <3>1 DEF Flows
  <2>6. of' = of BY DEF Flows
  <2> QED BY <2>2, <2>4, <2>5, <2>6
<1>3. ASSUME NEW t \in Tasks PROVE Running(t)' <=> task'[t].run # None
  <2>1. Running(t) <=> task[t].run # None BY DEF RunsAgree
  <2> QED BY <2>1 DEF Flows, Keeps, Frees, SameWork, FreeRow, Running
<1>4. of' = of BY DEF Flows
<1> QED BY <1>1, <1>2, <1>3, <1>4 DEF RunsAgree

\* A flow that takes nothing back from a worker that may live.
LEMMA QuietBooks ==
  ASSUME TypeInv, Books, Flows, UNCHANGED recorded,
         \A r \in Runs : Live(r)' => Live(r),
         \A r \in recorded : outcome'[r] = outcome[r] \/ outcome'[r] \notin TakenBack \/ ~Live(r)
  PROVE  RunsAgree' /\ PidBook' /\ TakenBackIsGone'
<1>1. RunsAgree' /\ \A r \in Runs : outcome'[r] = "open" =>
                     outcome[r] = "open" /\ of[r] \in Tasks /\ Keeps(of[r])
  BY FlowRuns DEF Books
<1>2. recorded \subseteq Runs /\ of' = of BY DEF TypeInv, HistoryTyped, Flows
<1>3. PidBook'
  <2> SUFFICES ASSUME NEW r \in recorded, outcome'[r] = "open" PROVE task'[of[r]].pid = r
    BY <1>2 DEF PidBook
  <2>1. outcome[r] = "open" /\ Keeps(of[r]) BY <1>1, <1>2
  <2>2. task[of[r]].pid = r BY <2>1 DEF Books, PidBook
  <2> QED BY <2>1, <2>2 DEF Keeps, SameWork
<1>4. TakenBackIsGone'
  <2> SUFFICES ASSUME NEW r \in recorded, outcome'[r] \in TakenBack PROVE ~Live(r)'
    BY DEF TakenBackIsGone, TakenBack
  <2>1. outcome'[r] = outcome[r] \/ ~Live(r) OBVIOUS
  <2>2. outcome'[r] = outcome[r] => ~Live(r) BY DEF Books, TakenBackIsGone, TakenBack
  <2> QED BY <1>2, <2>1, <2>2
<1> QED BY <1>1, <1>3, <1>4

LEMMA FlowKeepsFresh ==
  ASSUME Flows, NEW t \in Tasks, Running(t)'
  PROVE  Running(t) /\ task'[t].pid = task[t].pid
BY DEF Flows, Keeps, Frees, SameWork, FreeRow, Running

\* A flow by somebody else leaves the dispatcher with what it knew.
LEMMA QuietRows ==
  ASSUME TypeInv, Books, Flows, UNCHANGED tick, \A r \in Runs : Live(r)' => Live(r),
         \A r \in Runs : outcome'[r] = outcome[r] \/ outcome'[r] \notin TakenBack
  PROVE  DueBook' /\ RowBook'
<1>0. /\ tick.rows \subseteq Row /\ (Held => tick.row \in Row)
      /\ tick.due \subseteq (Tasks \X {1, DefaultLimit})
      /\ tick.at \in {"claimed", "spawned"} => tick.row.pid \in Runs
  BY DEF TypeInv, WorkTyped, TickRecord, TickBook
<1>1. DueBook'
  <2> SUFFICES ASSUME NEW d \in tick.due PROVE ~Running(d[1])' BY DEF DueBook
  <2>1. d[1] \in Tasks BY <1>0
  <2>2. ~Running(d[1]) BY DEF Books, DueBook
  <2> QED BY <2>1, <2>2, FlowKeepsFresh
<1>2. ASSUME NEW row \in Row, Fresh(row)
      PROVE  task'[row.task].status = "running" => row.pid = task'[row.task].pid
  <2> SUFFICES ASSUME task'[row.task].status = "running" PROVE row.pid = task'[row.task].pid
    OBVIOUS
  <2>1. row.task \in Tasks BY DEF Row
  <2>2. task[row.task].status = "running" /\ task'[row.task].pid = task[row.task].pid
    BY <2>1, FlowKeepsFresh DEF Running
  <2> QED BY <1>2, <2>2 DEF Fresh, Running
<1>3. ASSUME NEW row \in Row, ~Live(row.pid) PROVE ~Live(row.pid)'
  <2>1. row.pid \in Runs \/ row.pid = None BY DEF Row
  <2> QED BY <1>3, <2>1 DEF Live
<1>4. ASSUME tick.at \in {"ttl", "silent"}
      PROVE  \A row \in tick.rows :
               task'[row.task].status = "running" => row.pid = task'[row.task].pid
  BY <1>0, <1>2, <1>4 DEF Books, RowBook
<1>5. ASSUME tick.at \in {"ttlKilled", "silentKilled"}
      PROVE  /\ \A row \in tick.rows :
                  task'[row.task].status = "running" => row.pid = task'[row.task].pid
             /\ task'[tick.row.task].status = "running" => tick.row.pid = task'[tick.row.task].pid
             /\ tick.row.lives \/ ~Live(tick.row.pid)'
  <2>1. tick.row \in Row BY <1>0, <1>5 DEF Held
  <2>2. /\ \A row \in tick.rows : Fresh(row)
        /\ Fresh(tick.row) /\ (tick.row.lives \/ ~Live(tick.row.pid))
    BY <1>5 DEF Books, RowBook
  <2>3. \A row \in tick.rows : task'[row.task].status = "running" => row.pid = task'[row.task].pid
    BY <1>0, <1>2, <2>2
  <2> QED BY <1>2, <1>3, <2>1, <2>2, <2>3
<1>6. ASSUME tick.at \in {"claimed", "spawned"}
      PROVE  /\ task'[tick.row.task].run \in {None, tick.row.pid}
             /\ outcome'[tick.row.pid] \notin TakenBack
  <2>1. tick.row.task \in Tasks /\ tick.row.pid \in Runs BY <1>0, <1>6 DEF Held, Row
  <2>2. /\ task[tick.row.task].run \in {None, tick.row.pid}
        /\ outcome[tick.row.pid] \notin TakenBack
    BY <1>6 DEF Books, RowBook
  <2>3. task'[tick.row.task].run \in {None, task[tick.row.task].run}
    BY <2>1 DEF Flows, Keeps, Frees, SameWork, FreeRow
  <2> QED BY <2>1, <2>2, <2>3
<1>7. RowBook' BY <1>4, <1>5, <1>6 DEF RowBook, Fresh, Running
<1> QED BY <1>1, <1>7

\* No run that was not taken back is taken back.
Gentle == \A r \in Runs : outcome'[r] = outcome[r] \/ outcome'[r] \notin TakenBack

LEMMA EndsGently ==
  ASSUME NEW t, NEW how, how \notin TakenBack, RunEnds(t, how)
  PROVE  Gentle
BY DEF RunEnds, Gentle

LEMMA IdleTaskEnds ==
  ASSUME RunsAgree, NEW t \in Tasks, ~Running(t), NEW how, RunEnds(t, how), RunsTyped
  PROVE  UNCHANGED outcome
<1>1. task[t].run = None BY DEF RunsAgree
<1>2. \A r \in Runs : r # None BY DEF Runs, None
<1> QED BY <1>1, <1>2 DEF RunEnds, RunsTyped

LEMMA WorkerIsGentle ==
  ASSUME NEW r \in Runs, WorkerStep(r)
  PROVE  Gentle /\ UNCHANGED <<tick, recorded>>
<1>1. Gentle
  <2>1. UNCHANGED outcome => Gentle BY DEF Gentle
  <2>2. CASE Heartbeat(r) \/ WorkerFinishes(r) \/ WorkerExits(r) \/ WorkerDies(r) \/ WorkerWedges(r)
    BY <2>1, <2>2
    DEF Heartbeat, WorkerFinishes, AfterComplete, WorkerExits, WorkerDies, WorkerWedges, board
  <2>3. CASE WorkerCompletes(r)
    <3>1. RunEnds(of[r], "completed") BY <2>3 DEF WorkerCompletes, CompleteTask
    <3> QED BY <3>1, EndsGently DEF TakenBack
  <2>4. ASSUME NEW kind, WorkerBlocks(r, kind) PROVE Gentle
    <3>1. RunEnds(of[r], "blocked") BY <2>4 DEF WorkerBlocks, BlockTask
    <3> QED BY <3>1, EndsGently DEF TakenBack
  <2>5. CASE GoalLoopBlocks(r)
    <3>1. RunEnds(of[r], "blocked") BY <2>5 DEF GoalLoopBlocks, BlockTask
    <3> QED BY <3>1, EndsGently DEF TakenBack
  <2>6. CASE BudgetExhausted(r)
    <3>1. RecordFailure(of[r], DefaultLimit, TRUE, "plain", "timed_out")
      BY <2>6 DEF BudgetExhausted
    <3>2. RunEnds(of[r], "gave_up") \/ RunEnds(of[r], "timed_out") BY <3>1 DEF RecordFailure
    <3> QED BY <3>2, EndsGently DEF TakenBack
  <2> QED BY <2>2, <2>3, <2>4, <2>5, <2>6 DEF WorkerStep, WorkerEnds
<1>2. UNCHANGED <<tick, recorded>>
  BY DEF WorkerStep, WorkerEnds, Heartbeat, WorkerCompletes, WorkerFinishes, WorkerBlocks,
     BudgetExhausted, GoalLoopBlocks, WorkerExits, WorkerDies, WorkerWedges, history
<1> QED BY <1>1, <1>2

LEMMA CommandIsGentle ==
  ASSUME RunsAgree, RunsTyped, NEW t \in Tasks,
         \/ OpComplete(t) \/ OpBlock(t) \/ OpUnblock(t) \/ OpPromote(t) \/ OpArchive(t)
         \/ OpSchedule(t) \/ OpReclaim(t)
  PROVE  Gentle /\ UNCHANGED <<tick, recorded>>
<1>1. Gentle
  <2>1. UNCHANGED outcome => Gentle BY DEF Gentle
  <2>2. CASE OpPromote(t) \/ OpReclaim(t) BY <2>1, <2>2 DEF OpPromote, OpReclaim, board
  <2>3. CASE OpUnblock(t)
    <3>1. RunEnds(t, "reclaimed") /\ ~Running(t) BY <2>3 DEF OpUnblock, Running
    <3> QED BY <2>1, <3>1, IdleTaskEnds
  <2>4. CASE OpComplete(t)
    <3>1. RunEnds(t, "completed") BY <2>4 DEF OpComplete, CompleteTask
    <3> QED BY <3>1, EndsGently DEF TakenBack
  <2>5. CASE OpBlock(t)
    <3>1. RunEnds(t, "blocked") BY <2>5 DEF OpBlock, BlockTask
    <3> QED BY <3>1, EndsGently DEF TakenBack
  <2>6. CASE OpArchive(t) \/ OpSchedule(t)
    <3>1. RunEnds(t, "released") BY <2>6 DEF OpArchive, OpSchedule
    <3> QED BY <3>1, EndsGently DEF TakenBack
  <2> QED BY <2>2, <2>3, <2>4, <2>5, <2>6
<1>2. UNCHANGED <<tick, recorded>>
  BY DEF OpComplete, OpBlock, OpUnblock, OpPromote, OpArchive, OpSchedule, OpReclaim, history
<1> QED BY <1>1, <1>2

LEMMA RestIsGentle ==
  ASSUME OperatorGoesOn
  PROVE  Gentle /\ UNCHANGED <<tick, recorded>>
<1>1. UNCHANGED <<tick, recorded>>
  BY DEF OperatorGoesOn, OpCompleted, OpPromoted, OpReclaimed, history
<1>2. UNCHANGED outcome \/ RunEnds(operator.row.task, "released")
  BY DEF OperatorGoesOn, OpCompleted, AfterComplete, OpPromoted, OpReclaimed, board
<1>3. Gentle
  <2>1. UNCHANGED outcome => Gentle BY DEF Gentle
  <2> QED BY <1>2, <2>1, EndsGently DEF TakenBack
<1> QED BY <1>1, <1>3

\* The workers, the operator and time leave the books as they should be.
LEMMA OthersKeepBooks ==
  ASSUME TypeInv, DispatcherClaims, Books, BoardNext,
         \/ OperatorStep \/ OperatorGoesOn \/ \E r \in Runs : WorkerStep(r)
         \/ \E t \in Tasks : ClaimExpires(t) \/ HeartbeatAges(t)
  PROVE  Books'
<1>0. TasksTyped /\ RunsTyped /\ RunBooks /\ CommandBook /\ RunsAgree /\ tick \in TickRecord
      /\ recorded \subseteq Runs
  BY DEF TypeInv, Books, WorkTyped, HistoryTyped
<1>1. ASSUME Flows, Gentle, UNCHANGED <<tick, recorded>> PROVE Books'
  <2>1. ~Spawn BY <1>0, <1>1 DEF Spawn, Goes, TickRecord
  <2>2. \A r \in Runs : Live(r)' => Live(r) BY <2>1, WorkersTyped DEF WorkersMove
  <2>3. \A r \in Runs : outcome'[r] = outcome[r] \/ outcome'[r] \notin TakenBack
    BY <1>1 DEF Gentle
  <2>4. \A r \in recorded : outcome'[r] = outcome[r] \/ outcome'[r] \notin TakenBack \/ ~Live(r)
    BY <1>0, <2>3
  <2>5. RunsAgree' /\ PidBook' /\ TakenBackIsGone' BY <1>1, <2>2, <2>4, QuietBooks
  <2>6. DueBook' /\ RowBook' BY <1>1, <2>2, <2>3, QuietRows
  <2> QED BY <2>5, <2>6 DEF Books
<1>2. CASE OperatorStep
  <2>1. ASSUME NEW t \in Tasks, OpClaim(t) PROVE Books'
    BY <2>1 DEF OpClaim, Command, DispatcherClaims
  <2>2. ASSUME NEW t \in Tasks,
               \/ OpComplete(t) \/ OpBlock(t) \/ OpUnblock(t) \/ OpPromote(t) \/ OpArchive(t)
               \/ OpSchedule(t) \/ OpReclaim(t)
        PROVE  Books'
    <3>1. Flows BY <1>0, <2>2, CommandFlows
    <3>2. Gentle /\ UNCHANGED <<tick, recorded>> BY <1>0, <2>2, CommandIsGentle
    <3> QED BY <1>1, <3>1, <3>2
  <2>3. ASSUME NEW p \in Tasks, NEW c \in Tasks, OpLink(p, c) \/ OpUnlink(p, c) PROVE Books'
    <3>1. Flows BY <1>0, <2>3, LinkFlows
    <3>2. UNCHANGED <<outcome, tick, recorded>> BY <2>3 DEF OpLink, OpUnlink, history
    <3> QED BY <1>1, <3>1, <3>2 DEF Gentle
  <2> QED BY <1>2, <2>1, <2>2, <2>3 DEF OperatorStep
<1>3. CASE OperatorGoesOn
  <2>1. Flows BY <1>0, <1>3, RestFlows DEF CommandBook
  <2> QED BY <1>1, <1>3, <2>1, RestIsGentle
<1>4. ASSUME NEW r \in Runs, WorkerStep(r) PROVE Books'
  <2>1. Flows BY <1>0, <1>4, WorkerFlows DEF RunBooks
  <2> QED BY <1>1, <1>4, <2>1, WorkerIsGentle
<1>5. ASSUME NEW t \in Tasks, ClaimExpires(t) \/ HeartbeatAges(t) PROVE Books'
  <2>1. Flows BY <1>0, <1>5, TimeFlows
  <2>2. UNCHANGED <<outcome, tick, recorded>> BY <1>5 DEF ClaimExpires, HeartbeatAges, history
  <2> QED BY <1>1, <2>1, <2>2 DEF Gentle
<1> QED BY <1>2, <1>3, <1>4, <1>5

\* A place where the dispatcher holds nothing that the books speak of.
Free(place) == place \notin {"ttl", "silent", "ttlKilled", "silentKilled", "claimed", "spawned"}

LEMMA FreePlace ==
  ASSUME TypeInv', Free(tick'.at)
  PROVE  RowBook' /\ (tick'.at # "count" => DueBook')
<1>1. RowBook' BY DEF RowBook, Free
<1>2. tick'.at # "count" => DueBook' BY DEF DueBook, TypeInv, TickBook
<1> QED BY <1>1, <1>2

LEMMA FreshRow ==
  ASSUME NEW t \in Tasks
  PROVE  RowOf(t).task = t /\ RowOf(t).pid = task[t].pid
BY DEF RowOf

\* What a place of the dispatcher asks for, said of the rows in it.
LEMMA ReadRows ==
  ASSUME TypeInv', tick'.at \in {"ttl", "silent"},
         \A row \in tick'.rows : Running(row.task)' => row.pid = task'[row.task].pid
  PROVE  RowBook' /\ DueBook'
<1>1. DueBook' BY DEF DueBook, TypeInv, TickBook
<1>2. RowBook' BY DEF RowBook, Fresh, Running
<1> QED BY <1>1, <1>2

LEMMA FlowKeepsRows ==
  ASSUME TypeInv, Flows, NEW row \in Row, Fresh(row)
  PROVE  Running(row.task)' => row.pid = task'[row.task].pid
<1> SUFFICES ASSUME Running(row.task)' PROVE row.pid = task'[row.task].pid OBVIOUS
<1>1. row.task \in Tasks BY DEF Row
<1>2. Running(row.task) /\ task'[row.task].pid = task[row.task].pid BY <1>1, FlowKeepsFresh
<1> QED BY <1>2 DEF Fresh

\* The dispatcher reads, signals, or deals with a row without taking anything back.
LEMMA ReadingKeepsBooks ==
  ASSUME TypeInv, TypeInv', Books, BoardNext,
         \/ TickBegins \/ ExtendClaim \/ TerminateWorker \/ SelectSilent \/ SelectOvertime
         \/ TerminateOvertime \/ PromoteReady \/ SelectReady \/ SkipGuarded \/ SpawnFails
         \/ TickEnds \/ DispatcherCrashes
  PROVE  Books'
<1>0. TasksTyped /\ RunsTyped /\ RowsKnown /\ tick \in TickRecord /\ recorded \subseteq Runs
  BY DEF TypeInv, WorkTyped, TickRecord, TickBook, RowsKnown, HistoryTyped
<1>1. Flows BY <1>0, TickFlows
<1>2. UNCHANGED recorded /\ ~Spawn
  <2>1. CASE TickBegins BY <1>0, <2>1 DEF TickBegins, Spawn, history
  <2>2. CASE ExtendClaim BY <1>0, <2>2 DEF ExtendClaim, Spawn, history
  <2>3. CASE TerminateWorker BY <1>0, <2>3 DEF TerminateWorker, Spawn, history
  <2>4. CASE SelectSilent BY <1>0, <2>4 DEF SelectSilent, Spawn, history
  <2>5. CASE SelectOvertime BY <1>0, <2>5 DEF SelectOvertime, Spawn, history
  <2>6. CASE TerminateOvertime BY <1>0, <2>6 DEF TerminateOvertime, Spawn, history
  <2>7. CASE PromoteReady BY <1>0, <2>7 DEF PromoteReady, Spawn, history
  <2>8. CASE SelectReady BY <1>0, <2>8 DEF SelectReady, Spawn, history
  <2>9. CASE SkipGuarded BY <1>0, <2>9 DEF SkipGuarded, Spawn, history
  <2>10. CASE SpawnFails
    <3>1. tick'.at = "dispatch" BY <1>0, <2>10 DEF SpawnFails, TickRecord
    <3> QED BY <1>0, <2>10, <3>1 DEF SpawnFails, Spawn, Goes, TickRecord, history
  <2>11. CASE TickEnds BY <1>0, <2>11 DEF TickEnds, Spawn, history
  <2>12. CASE DispatcherCrashes
    <3>1. tick'.at = "idle" BY <2>12 DEF DispatcherCrashes, Idle
    <3> QED BY <1>0, <2>12, <3>1 DEF DispatcherCrashes, Spawn, Goes, TickRecord, history
  <2> QED BY <2>1, <2>2, <2>3, <2>4, <2>5, <2>6, <2>7, <2>8, <2>9, <2>10, <2>11, <2>12
<1>3. Gentle
  <2>1. CASE SpawnFails
    <3>1. PICK error \in {"plain", "auth"} :
            RecordFailure(tick.row.task, FailureLimit, TRUE, error, "spawn_failed")
      BY <2>1 DEF SpawnFails
    <3>2. \/ RunEnds(tick.row.task, "gave_up") \/ RunEnds(tick.row.task, "spawn_failed")
      BY <3>1 DEF RecordFailure
    <3> QED BY <3>2, EndsGently DEF TakenBack
  <2>2. CASE ~SpawnFails
    <3>1. UNCHANGED outcome
      BY <2>2 DEF TickBegins, ExtendClaim, TerminateWorker, SelectSilent, SelectOvertime,
           TerminateOvertime, PromoteReady, SelectReady, SkipGuarded, TickEnds,
           DispatcherCrashes, board
    <3> QED BY <3>1 DEF Gentle
  <2> QED BY <2>1, <2>2
<1>4. \A r \in Runs : Live(r)' => Live(r) BY <1>2, WorkersTyped DEF WorkersMove
<1>5. RunsAgree' /\ PidBook' /\ TakenBackIsGone'
  BY <1>0, <1>1, <1>2, <1>3, <1>4, QuietBooks DEF Gentle
<1>6. RowBook' /\ DueBook'
  <2>1. CASE TickBegins
    <3>1. /\ tick'.at = "ttl" /\ UNCHANGED task
          /\ tick'.rows = {RowOf(t) : t \in {u \in Tasks : Running(u) /\ task[u].expired}}
      BY <2>1 DEF TickBegins, Idle, board
    <3>2. \A row \in tick'.rows : Running(row.task)' => row.pid = task'[row.task].pid
      BY <3>1, FreshRow
    <3> QED BY <3>1, <3>2, ReadRows
  <2>2. CASE SelectSilent
    <3>1. PICK old \in SUBSET Tasks :
            tick' = [tick EXCEPT !.at = "silent", !.rows = {RowOf(t) : t \in old}]
      BY <2>2 DEF SelectSilent
    <3>2. tick'.at = "silent" /\ tick'.rows = {RowOf(t) : t \in old} /\ UNCHANGED task
      BY <1>0, <2>2, <3>1 DEF SelectSilent, TickRecord, board
    <3>3. \A row \in tick'.rows : Running(row.task)' => row.pid = task'[row.task].pid
      BY <3>2, FreshRow
    <3> QED BY <3>2, <3>3, ReadRows
  <2>3. CASE ExtendClaim
    <3>1. PICK row \in tick.rows : Dealt(row, "ttl") BY <2>3 DEF ExtendClaim
    <3>2. tick'.at = "ttl" /\ tick'.rows \subseteq tick.rows
      BY <1>0, <3>1 DEF Dealt, TickRecord
    <3>3. \A w \in tick.rows : w \in Row /\ Fresh(w)
      BY <1>0, <2>3 DEF ExtendClaim, Books, RowBook, RowsKnown
    <3>4. \A w \in tick'.rows : Running(w.task)' => w.pid = task'[w.task].pid
      BY <1>1, <3>2, <3>3, FlowKeepsRows
    <3> QED BY <3>2, <3>4, ReadRows
  <2>4. CASE TerminateWorker
    <3>1. PICK row \in tick.rows, lives \in BOOLEAN :
            /\ Terminated(row, lives)
            /\ tick' = [tick EXCEPT !.at = IF @ = "ttl" THEN "ttlKilled" ELSE "silentKilled",
                                    !.rows = @ \ {row}, !.row = [row EXCEPT !.lives = lives]]
      BY <2>4 DEF TerminateWorker
    <3> DEFINE held == [row EXCEPT !.lives = lives]
    <3>2. row \in Row BY <1>0 DEF RowsKnown
    <3>3. held.task = row.task /\ held.pid = row.pid /\ held.lives = lives BY <3>2, KilledRow
    <3>4. /\ tick'.at \in {"ttlKilled", "silentKilled"} /\ tick'.row = held
          /\ tick'.rows \subseteq tick.rows
      BY <1>0, <3>1 DEF TickRecord
    <3> HIDE DEF held
    <3>5. UNCHANGED task BY <2>4 DEF TerminateWorker, board
    <3>6. \A w \in tick.rows : w \in Row /\ Fresh(w)
      BY <1>0, <2>4 DEF TerminateWorker, Books, RowBook, RowsKnown
    <3>7. lives \/ ~Live(row.pid)'
      <4>1. CASE ~Live(row.pid)
        <5>1. UNCHANGED worker BY <3>1, <4>1 DEF Terminated
        <5> QED BY <4>1, <5>1 DEF Live
      <4>2. CASE Live(row.pid) /\ ~lives
        <5>1. worker' = [worker EXCEPT ![row.pid] = "dead"] BY <3>1, <4>2 DEF Terminated
        <5>2. row.pid \in Runs BY <3>2, <4>2 DEF Row, Live
        <5> QED BY <5>1, <5>2 DEF TypeInv, WorkTyped, Live
      <4> QED BY <4>1, <4>2
    <3>8. DueBook' BY <3>4 DEF DueBook, TypeInv, TickBook
    <3>9. Live(tick.row.pid)' = Live(row.pid)' BY <3>3, <3>4 DEF Live
    <3>10. RowBook' BY <3>3, <3>4, <3>5, <3>6, <3>7, <3>9 DEF RowBook, Fresh, Running
    <3> QED BY <3>8, <3>10
  <2>5. CASE \/ SelectOvertime \/ TerminateOvertime \/ PromoteReady \/ SelectReady \/ SkipGuarded
             \/ SpawnFails \/ TickEnds \/ DispatcherCrashes
    <3>1. tick'.at \in {"idle", "overtime", "overtimeKilled", "select", "dispatch"}
      <4>1. CASE SelectOvertime BY <1>0, <4>1 DEF SelectOvertime, TickRecord
      <4>2. CASE TerminateOvertime BY <1>0, <4>2 DEF TerminateOvertime, TickRecord
      <4>3. CASE PromoteReady \/ SelectReady
        BY <1>0, <4>3 DEF PromoteReady, SelectReady, Goes, TickRecord
      <4>4. CASE SkipGuarded BY <1>0, <4>4 DEF SkipGuarded, Dealt, TickRecord
      <4>5. CASE SpawnFails BY <1>0, <4>5 DEF SpawnFails, TickRecord
      <4>6. CASE TickEnds \/ DispatcherCrashes BY <4>6 DEF TickEnds, DispatcherCrashes, Idle
      <4> QED BY <2>5, <4>1, <4>2, <4>3, <4>4, <4>5, <4>6
    <3> QED BY <3>1, FreePlace DEF Free
  <2> QED BY <2>1, <2>2, <2>3, <2>4, <2>5
<1> QED BY <1>5, <1>6 DEF Books

\* A row is taken back only when its worker is gone: the row is fresh, so it was that worker
\* that was signalled, and nobody saw it alive.
LEMMA TakingKeepsBooks ==
  ASSUME TypeInv, TypeInv', Books, BoardNext, TakeBack
  PROVE  Books'
<1> DEFINE row == tick.row
           t == row.task
<1>0. TasksTyped /\ RunsTyped /\ RowsKnown /\ tick \in TickRecord /\ recorded \subseteq Runs
      /\ RunBooks
  BY DEF TypeInv, WorkTyped, TickRecord, TickBook, RowsKnown, HistoryTyped
<1>1. Flows BY <1>0, TakeBackFlows
<1>2. UNCHANGED <<worker, recorded>> BY DEF TakeBack, history
<1>3. \A r \in Runs : Live(r)' => Live(r) BY <1>2 DEF Live
<1>4. row \in Row /\ t \in Tasks BY <1>0 DEF TakeBack, RowsKnown, Held, Row
<1>5. Fresh(row) /\ (row.lives \/ ~Live(row.pid)) /\ \A w \in tick.rows : w \in Row /\ Fresh(w)
  BY <1>0 DEF TakeBack, Books, RowBook, RowsKnown
<1>6. ASSUME NEW r \in recorded, outcome'[r] # outcome[r] PROVE ~Live(r)
  <2>1. SameClaim(row) /\ ~Survived(row) /\ \E how : RunEnds(t, how)
    BY <1>6 DEF TakeBack
  <2>2. r = task[t].run /\ outcome[r] = "open" BY <1>0, <1>6, <2>1 DEF RunEnds
  <2>3. of[r] = t BY <1>0, <1>4, <2>2 DEF Books, RunsAgree, Runs, None
  <2>4. task[t].pid = r BY <2>2, <2>3 DEF Books, PidBook
  <2>5. row.pid = r BY <1>5, <2>1, <2>4 DEF Fresh, SameClaim
  <2> QED BY <1>5, <2>1, <2>5 DEF Survived
<1>7. RunsAgree' /\ PidBook' /\ TakenBackIsGone'
  BY <1>1, <1>2, <1>3, <1>6, QuietBooks
<1>8. tick'.at \in {"ttl", "silent"} /\ tick'.rows \subseteq tick.rows
  BY <1>0 DEF TakeBack, Dealt, TickRecord
<1>9. \A w \in tick'.rows : Running(w.task)' => w.pid = task'[w.task].pid
  BY <1>1, <1>5, <1>8, FlowKeepsRows
<1>10. RowBook' /\ DueBook' BY <1>8, <1>9, ReadRows
<1> QED BY <1>7, <1>10 DEF Books

\* detect_crashed_workers() reads and writes in one transaction.
LEMMA CrashKeepsBooks ==
  ASSUME TypeInv, TypeInv', Books, BoardNext, DetectCrashed
  PROVE  Books'
<1> DEFINE gone == {t \in Tasks : Running(t) /\ task[t].pid # None /\ ~Live(task[t].pid)}
           over == {task[t].run : t \in gone}
<1>0. TasksTyped /\ RunsTyped /\ tick \in TickRecord /\ recorded \subseteq Runs
  BY DEF TypeInv, WorkTyped, HistoryTyped
<1>1. Flows BY <1>0, CrashFlows
<1>2. UNCHANGED <<worker, recorded>> BY DEF DetectCrashed, history
<1>3. \A r \in Runs : Live(r)' => Live(r) BY <1>2 DEF Live
<1>4. ASSUME NEW r \in recorded, outcome'[r] # outcome[r] PROVE ~Live(r)
  <2>1. r \in over BY <1>0, <1>4 DEF DetectCrashed
  <2>2. PICK t \in gone : task[t].run = r BY <2>1
  <2>3. of[r] = t /\ outcome[r] = "open" BY <1>0, <2>2 DEF Books, RunsAgree, Runs, None
  <2>4. task[t].pid = r BY <2>3 DEF Books, PidBook
  <2> QED BY <2>2, <2>4
<1>5. RunsAgree' /\ PidBook' /\ TakenBackIsGone'
  BY <1>1, <1>2, <1>3, <1>4, QuietBooks
<1>6. tick'.at = "count" /\ \A d \in tick'.due : d[1] \in gone
  BY <1>0 DEF DetectCrashed, TickRecord
<1>7. DueBook'
  <2> SUFFICES ASSUME NEW t \in gone PROVE task'[t].status # "running"
    BY <1>6 DEF DueBook, Running
  <2> DEFINE e == IF ExitOf(task[t].pid) = "rate" THEN "auth" ELSE Freed(task[t], "ready").error
  <2>1. task'[t] = [Freed(task[t], "ready") EXCEPT !.error = e] BY DEF DetectCrashed
  <2>2. task[t] \in TaskRow BY <1>0 DEF TasksTyped
  <2> HIDE DEF e
  <2> QED BY <2>1, <2>2 DEF Freed, TaskRow
<1>8. RowBook' BY <1>6, FreePlace DEF Free
<1> QED BY <1>5, <1>7, <1>8 DEF Books

LEMMA CountingKeepsBooks ==
  ASSUME TypeInv, TypeInv', Books, BoardNext, CountFailure \/ TimeOut
  PROVE  Books'
<1>0. /\ TasksTyped /\ RunsTyped /\ tick \in TickRecord /\ recorded \subseteq Runs /\ RowsKnown
      /\ tick.due \subseteq (Tasks \X {1, DefaultLimit})
  BY DEF TypeInv, WorkTyped, HistoryTyped, TickRecord, RowsKnown, TickBook
<1>1. UNCHANGED <<worker, recorded>> BY DEF CountFailure, TimeOut, history
<1>2. \A r \in Runs : Live(r)' => Live(r) BY <1>1 DEF Live
<1>3. ASSUME Flows, Gentle PROVE RunsAgree' /\ PidBook' /\ TakenBackIsGone'
  BY <1>0, <1>1, <1>2, <1>3, QuietBooks DEF Gentle
<1>4. CASE CountFailure
  <2>1. PICK d \in tick.due : /\ RecordFailure(d[1], d[2], FALSE, "plain", "crashed")
                              /\ tick' = [tick EXCEPT !.due = @ \ {d}]
    BY <1>4 DEF CountFailure
  <2>2. d[1] \in Tasks /\ ~Running(d[1]) BY <1>0 DEF Books, DueBook
  <2>3. Flows /\ UNCHANGED outcome BY <1>0, <2>1, <2>2, CountIs
  <2>4. RunsAgree' /\ PidBook' /\ TakenBackIsGone' BY <1>3, <2>3 DEF Gentle
  <2>5. tick'.at = "count" /\ tick'.due \subseteq tick.due
    BY <1>0, <1>4, <2>1 DEF CountFailure, TickRecord
  <2>6. DueBook'
    <3> SUFFICES ASSUME NEW c \in tick.due PROVE ~Running(c[1])' BY <2>5 DEF DueBook
    <3>1. c[1] \in Tasks /\ ~Running(c[1]) BY <1>0 DEF Books, DueBook
    <3> QED BY <2>3, <3>1, FlowKeepsFresh
  <2>7. RowBook' BY <2>5, FreePlace DEF Free
  <2> QED BY <2>4, <2>6, <2>7 DEF Books
<1>5. CASE TimeOut
  <2> DEFINE t == tick.row.task
  <2>1. Flows BY <1>0, <1>5, TimeOutFlows
  <2>2. UNCHANGED outcome \/ RunEnds(t, "timed_out") BY <1>5 DEF TimeOut
  <2>3. Gentle
    <3>1. UNCHANGED outcome => Gentle BY DEF Gentle
    <3> QED BY <2>2, <3>1, EndsGently DEF TakenBack
  <2>4. RunsAgree' /\ PidBook' /\ TakenBackIsGone' BY <1>3, <2>1, <2>3
  <2>5. CASE Dealt(tick.row, "overtime")
    <3>1. tick'.at = "overtime" BY <1>0, <2>5 DEF Dealt, TickRecord
    <3> QED BY <2>4, <3>1, FreePlace DEF Free, Books
  <2>6. CASE /\ task' = [task EXCEPT ![t] = [Freed(@, "ready") EXCEPT !.stale = FALSE]]
             /\ tick' = [tick EXCEPT !.at = "count", !.row = NoRow, !.due = {<<t, DefaultLimit>>}]
    <3>1. t \in Tasks BY <1>0, <1>5 DEF TimeOut, RowsKnown, Held, Row
    <3>2. task[t] \in TaskRow BY <1>0, <3>1 DEF TasksTyped
    <3>3. task'[t] = [Freed(task[t], "ready") EXCEPT !.stale = FALSE]
      BY <1>0, <2>6, <3>1 DEF TasksTyped
    <3>4. task'[t].status = "ready" BY <3>2, <3>3 DEF Freed, TaskRow
    <3>5. tick'.at = "count" /\ tick'.due = {<<t, DefaultLimit>>} BY <1>0, <2>6 DEF TickRecord
    <3>6. DueBook' BY <3>4, <3>5 DEF DueBook, Running
    <3>7. RowBook' BY <3>5, FreePlace DEF Free
    <3> QED BY <2>4, <3>6, <3>7 DEF Books
  <2> QED BY <1>5, <2>5, <2>6 DEF TimeOut
<1> QED BY <1>4, <1>5

\* A run begins on a task that had none.
LEMMA StartKeepsBooks ==
  ASSUME TypeInv, Books, NEW t \in Tasks, NEW r \in Runs, Starts(t, r),
         UNCHANGED <<worker, recorded>>
  PROVE  RunsAgree' /\ PidBook' /\ TakenBackIsGone'
<1>0. TasksTyped /\ RunsTyped /\ RunBooks /\ recorded \subseteq Runs
  BY DEF TypeInv, HistoryTyped
<1>1. task[t].run = None BY DEF Starts, Books, RunsAgree, Running
<1>2. \A s \in Runs : s # r => outcome'[s] = outcome[s] /\ of'[s] = of[s]
  BY <1>1 DEF Starts, Runs, None
<1>3. RunsAgree'
  <2>1. ASSUME NEW u \in Tasks, task'[u].run # None
        PROVE  of'[task'[u].run] = u /\ outcome'[task'[u].run] = "open"
    <3>1. CASE u = t BY <3>1 DEF Starts
    <3>2. CASE u # t
      <4>1. task'[u] = task[u] BY <3>2 DEF Starts
      <4>2. of[task[u].run] = u /\ outcome[task[u].run] = "open"
        BY <2>1, <4>1 DEF Books, RunsAgree
      <4>3. task[u].run \in Runs /\ task[u].run # r
        BY <1>0, <2>1, <4>1, <4>2 DEF TasksTyped, TaskRow, Starts
      <4> QED BY <1>2, <4>1, <4>2, <4>3
    <3> QED BY <3>1, <3>2
  <2>2. ASSUME NEW s \in Runs, outcome'[s] = "open" PROVE task'[of'[s]].run = s
    <3>1. CASE s = r BY <3>1 DEF Starts
    <3>2. CASE s # r
      <4>1. outcome[s] = "open" /\ of'[s] = of[s] BY <1>2, <2>2, <3>2
      <4>2. of[s] \in Tasks /\ task[of[s]].run = s BY <1>0, <4>1 DEF RunBooks, Books, RunsAgree
      <4>3. of[s] # t BY <1>1, <4>2 DEF Runs, None
      <4> QED BY <4>1, <4>2, <4>3 DEF Starts
    <3> QED BY <3>1, <3>2
  <2>3. ASSUME NEW u \in Tasks PROVE Running(u)' <=> task'[u].run # None
    <3>1. CASE u = t BY <3>1 DEF Starts, Running, Runs, None
    <3>2. CASE u # t BY <3>2 DEF Starts, Running, Books, RunsAgree
    <3> QED BY <3>1, <3>2
  <2> QED BY <2>1, <2>2, <2>3 DEF RunsAgree
<1>4. r \notin recorded BY <1>0 DEF RunBooks, Starts
<1>5. PidBook'
  <2> SUFFICES ASSUME NEW s \in recorded, outcome'[s] = "open" PROVE task'[of'[s]].pid = s
    BY DEF PidBook
  <2>1. s \in Runs /\ s # r BY <1>0, <1>4
  <2>2. outcome[s] = "open" /\ of'[s] = of[s] BY <1>2, <2>1
  <2>3. of[s] \in Tasks /\ task[of[s]].pid = s BY <1>0, <2>1, <2>2 DEF RunBooks, Books, PidBook
  <2> QED BY <2>2, <2>3 DEF Starts
<1>6. TakenBackIsGone' BY <1>0, <1>2, <1>4 DEF TakenBackIsGone, Books, Live
<1> QED BY <1>3, <1>5, <1>6

LEMMA ClaimingKeepsBooks ==
  ASSUME TypeInv, TypeInv', Books, BoardNext, ClaimReady
  PROVE  Books'
<1>0. TasksTyped /\ RunsTyped /\ tick \in TickRecord /\ recorded \subseteq Runs
      /\ tick.rows \subseteq Row
  BY DEF TypeInv, WorkTyped, HistoryTyped, TickRecord
<1>1. UNCHANGED <<worker, recorded>> BY DEF ClaimReady, history
<1>2. \A r \in Runs : Live(r)' => Live(r) BY <1>1 DEF Live
<1>3. PICK row \in tick.rows :
        /\ ClaimTask(row.task, "dispatcher")
        /\ IF of' = of THEN Dealt(row, "dispatch")
           ELSE tick' = [tick EXCEPT !.at = "claimed", !.rows = @ \ {row},
                                     !.row = [row EXCEPT !.pid = task'[row.task].run]]
  BY DEF ClaimReady
<1> DEFINE t == row.task
<1>4. row \in Row /\ t \in Tasks BY <1>0 DEF Row
<1>5. "dispatcher" \in {"dispatcher", "operator"} OBVIOUS
<1>6. /\ \/ Flows /\ UNCHANGED outcome
         \/ UNCHANGED <<task, of>> /\ task[t].status = "ready" /\ RunEnds(t, "reclaimed")
         \/ \E r \in Runs : Starts(t, r)
      /\ of' # of => \E r \in Runs : Starts(t, r)
  BY <1>0, <1>3, <1>4, <1>5, ClaimIs
<1>7. RunsAgree' /\ PidBook' /\ TakenBackIsGone'
  <2>1. ASSUME NEW r \in Runs, Starts(t, r) PROVE RunsAgree' /\ PidBook' /\ TakenBackIsGone'
    BY <1>1, <1>4, <2>1, StartKeepsBooks
  <2>2. ASSUME Flows, UNCHANGED outcome PROVE RunsAgree' /\ PidBook' /\ TakenBackIsGone'
    BY <1>1, <1>2, <2>2, QuietBooks
  <2>3. CASE UNCHANGED <<task, of>> /\ task[t].status = "ready" /\ RunEnds(t, "reclaimed")
    <3>1. ~Running(t) /\ RunsAgree BY <2>3 DEF Running, Books
    <3>2. UNCHANGED outcome BY <1>0, <1>4, <2>3, <3>1, IdleTaskEnds
    <3>3. Flows BY <1>0, <2>3, <3>2, NothingFlows
    <3> QED BY <2>2, <3>2, <3>3
  <2> QED BY <1>6, <2>1, <2>2, <2>3
<1>8. CASE of' = of
  <2>1. tick'.at = "dispatch" BY <1>0, <1>3, <1>8 DEF Dealt, TickRecord
  <2> QED BY <1>7, <2>1, FreePlace DEF Free, Books
<1>9. CASE of' # of
  <2>1. PICK r \in Runs : Starts(t, r) BY <1>6, <1>9
  <2>2. task'[t].run = r /\ outcome'[r] = "open" BY <2>1 DEF Starts
  <2> DEFINE held == [row EXCEPT !.pid = r]
  <2>3. tick' = [tick EXCEPT !.at = "claimed", !.rows = @ \ {row}, !.row = held]
    BY <1>3, <1>9, <2>2
  <2>4. held.task = t /\ held.pid = r BY <1>4 DEF Row
  <2> HIDE DEF held
  <2>5. tick'.at = "claimed" /\ tick'.row = held BY <1>0, <2>3 DEF TickRecord
  <2>6. RowBook' BY <2>2, <2>4, <2>5 DEF RowBook, TakenBack
  <2>7. DueBook' BY <2>5 DEF DueBook, TypeInv, TickBook
  <2> QED BY <1>7, <2>6, <2>7 DEF Books
<1> QED BY <1>8, <1>9

\* The worker that is spawned is new: nobody took its run back.
LEMMA SpawningKeepsBooks ==
  ASSUME TypeInv, TypeInv', Books, BoardNext, Spawn
  PROVE  Books'
<1>0. TasksTyped /\ RunsTyped /\ RowsKnown /\ tick \in TickRecord /\ recorded \subseteq Runs
  BY DEF TypeInv, WorkTyped, HistoryTyped, TickRecord, TickBook, RowsKnown
<1>1. UNCHANGED <<task, outcome, of, recorded>> BY DEF Spawn, board, history
<1>2. /\ task[tick.row.task].run \in {None, tick.row.pid}
      /\ outcome[tick.row.pid] \notin TakenBack
  BY DEF Spawn, Books, RowBook
<1>3. tick'.at = "spawned" /\ tick'.row = tick.row BY <1>0 DEF Spawn, Goes, TickRecord
<1>4. RunsAgree' BY <1>1 DEF RunsAgree, Books, Running
<1>5. PidBook' BY <1>1 DEF PidBook, Books
<1>6. TakenBackIsGone'
  <2> SUFFICES ASSUME NEW r \in recorded, outcome[r] \in TakenBack PROVE ~Live(r)'
    BY <1>1 DEF TakenBackIsGone, TakenBack
  <2>1. ~Live(r) /\ r # tick.row.pid BY <1>2 DEF Books, TakenBackIsGone, TakenBack
  <2> QED BY <1>0, <2>1, WorkersTyped DEF WorkersMove
<1>7. DueBook' BY <1>3 DEF DueBook, TypeInv, TickBook
<1>8. RowBook' BY <1>1, <1>2, <1>3 DEF RowBook
<1> QED BY <1>4, <1>5, <1>6, <1>7, <1>8 DEF Books

\* The pid is written whatever has become of the task, which has that run or none.
LEMMA RecordingKeepsBooks ==
  ASSUME TypeInv, TypeInv', Books, BoardNext, SetWorkerPid
  PROVE  Books'
<1> DEFINE pid == tick.row.pid
           t == tick.row.task
<1>0. TasksTyped /\ RunsTyped /\ RowsKnown /\ tick \in TickRecord /\ recorded \subseteq Runs
      /\ RunBooks
  BY DEF TypeInv, WorkTyped, HistoryTyped, TickRecord, TickBook, RowsKnown
<1>1. /\ pid \in Runs /\ of[pid] = t
      /\ task[t].run \in {None, pid} /\ outcome[pid] \notin TakenBack
  BY DEF SetWorkerPid, TypeInv, TickBook, Books, RowBook
<1>2. /\ UNCHANGED <<outcome, of>>
      /\ \A u \in Tasks : /\ task'[u].run = task[u].run /\ task'[u].status = task[u].status
                          /\ task'[u].pid = IF u = t THEN pid ELSE task[u].pid
  BY <1>0, PidIs
<1>3. UNCHANGED worker /\ recorded' = recorded \union {pid} BY DEF SetWorkerPid
<1>4. tick'.at = "dispatch" BY <1>0 DEF SetWorkerPid, TickRecord
<1>5. RunsAgree'
  <2>1. \A r \in Runs : outcome[r] = "open" => of[r] \in Tasks /\ task[of[r]].run = r
    BY <1>0 DEF RunBooks, Books, RunsAgree
  <2>2. \A u \in Tasks : /\ task[u].run # None =>
                             of[task[u].run] = u /\ outcome[task[u].run] = "open"
                         /\ task[u].status = "running" <=> task[u].run # None
    BY DEF Books, RunsAgree, Running
  <2> QED BY <1>2, <2>1, <2>2 DEF RunsAgree, Running
<1>6. PidBook'
  <2> SUFFICES ASSUME NEW r \in recorded \union {pid}, outcome[r] = "open"
               PROVE  task'[of[r]].pid = r
    BY <1>2, <1>3 DEF PidBook
  <2>1. r \in Runs BY <1>0, <1>1
  <2>2. of[r] \in Tasks /\ task[of[r]].run = r BY <1>0, <2>1 DEF RunBooks, Books, RunsAgree
  <2>3. CASE of[r] = t
    <3>1. r = pid BY <1>1, <2>1, <2>2, <2>3 DEF Runs, None
    <3> QED BY <1>2, <2>2, <2>3, <3>1
  <2>4. CASE of[r] # t
    <3>1. r # pid BY <1>1, <2>4
    <3>2. task[of[r]].pid = r BY <3>1 DEF Books, PidBook
    <3> QED BY <1>2, <2>2, <2>4, <3>2
  <2> QED BY <2>3, <2>4
<1>7. TakenBackIsGone'
  BY <1>1, <1>2, <1>3 DEF TakenBackIsGone, TakenBack, Books, Live
<1>8. RowBook' /\ DueBook' BY <1>4, FreePlace DEF Free
<1> QED BY <1>5, <1>6, <1>7, <1>8 DEF Books

-----------------------------------------------------------------------------
(* The reports, and the theorems.                                          *)

\* No report leaves out the id of its run, as do those of a budget that is used up and of a
\* goal loop that ends.
ReportsNameRuns == {"exhaust", "goal"} \cap plan.faults = {}

BookInv == DispatcherClaims => Books
ReportInv == ReportsNameRuns => OwnReport

IndInv == TypeInv /\ BookInv /\ ReportInv

LEMMA PlanStays ==
  ASSUME BoardNext
  PROVE  UNCHANGED plan
<1> USE DEF bounds, Ill, Command
<1>1. CASE TickBegins BY <1>1 DEF TickBegins
<1>2. CASE ExtendClaim BY <1>2 DEF ExtendClaim
<1>3. CASE TerminateWorker BY <1>3 DEF TerminateWorker, Terminated
<1>4. CASE TakeBack BY <1>4 DEF TakeBack
<1>5. CASE SelectSilent BY <1>5 DEF SelectSilent
<1>6. CASE DetectCrashed BY <1>6 DEF DetectCrashed
<1>7. CASE CountFailure BY <1>7 DEF CountFailure
<1>8. CASE SelectOvertime BY <1>8 DEF SelectOvertime
<1>9. CASE TerminateOvertime BY <1>9 DEF TerminateOvertime, Terminated
<1>10. CASE TimeOut BY <1>10 DEF TimeOut
<1>11. CASE PromoteReady BY <1>11 DEF PromoteReady
<1>12. CASE SelectReady BY <1>12 DEF SelectReady
<1>13. CASE SkipGuarded BY <1>13 DEF SkipGuarded
<1>14. CASE ClaimReady BY <1>14 DEF ClaimReady
<1>15. CASE SpawnFails BY <1>15 DEF SpawnFails
<1>16. CASE Spawn BY <1>16 DEF Spawn
<1>17. CASE SetWorkerPid BY <1>17 DEF SetWorkerPid
<1>18. CASE TickEnds BY <1>18 DEF TickEnds
<1>19. CASE DispatcherCrashes BY <1>19 DEF DispatcherCrashes
<1>20. ASSUME NEW r \in Runs, Heartbeat(r) PROVE UNCHANGED plan BY <1>20 DEF Heartbeat
<1>21. ASSUME NEW r \in Runs, WorkerCompletes(r) PROVE UNCHANGED plan BY <1>21 DEF WorkerCompletes
<1>22. ASSUME NEW r \in Runs, WorkerFinishes(r) PROVE UNCHANGED plan BY <1>22 DEF WorkerFinishes
<1>23. ASSUME NEW r \in Runs, NEW kind \in {"none", "dependency"}, WorkerBlocks(r, kind)
        PROVE  UNCHANGED plan
  BY <1>23 DEF WorkerBlocks
<1>24. ASSUME NEW r \in Runs, BudgetExhausted(r) PROVE UNCHANGED plan BY <1>24 DEF BudgetExhausted
<1>25. ASSUME NEW r \in Runs, GoalLoopBlocks(r) PROVE UNCHANGED plan BY <1>25 DEF GoalLoopBlocks
<1>26. ASSUME NEW r \in Runs, WorkerExits(r) PROVE UNCHANGED plan BY <1>26 DEF WorkerExits
<1>27. ASSUME NEW r \in Runs, WorkerDies(r) PROVE UNCHANGED plan BY <1>27 DEF WorkerDies
<1>28. ASSUME NEW r \in Runs, WorkerWedges(r) PROVE UNCHANGED plan BY <1>28 DEF WorkerWedges
<1>29. ASSUME NEW t \in Tasks, ClaimExpires(t) PROVE UNCHANGED plan BY <1>29 DEF ClaimExpires
<1>30. ASSUME NEW t \in Tasks, HeartbeatAges(t) PROVE UNCHANGED plan BY <1>30 DEF HeartbeatAges
<1>31. ASSUME NEW t \in Tasks, OpClaim(t) PROVE UNCHANGED plan BY <1>31 DEF OpClaim
<1>32. ASSUME NEW t \in Tasks, OpComplete(t) PROVE UNCHANGED plan BY <1>32 DEF OpComplete
<1>33. CASE OpCompleted BY <1>33 DEF OpCompleted
<1>34. ASSUME NEW t \in Tasks, OpBlock(t) PROVE UNCHANGED plan BY <1>34 DEF OpBlock
<1>35. ASSUME NEW t \in Tasks, OpUnblock(t) PROVE UNCHANGED plan BY <1>35 DEF OpUnblock
<1>36. ASSUME NEW t \in Tasks, OpPromote(t) PROVE UNCHANGED plan BY <1>36 DEF OpPromote
<1>37. CASE OpPromoted BY <1>37 DEF OpPromoted
<1>38. ASSUME NEW t \in Tasks, OpArchive(t) PROVE UNCHANGED plan BY <1>38 DEF OpArchive
<1>39. ASSUME NEW t \in Tasks, OpSchedule(t) PROVE UNCHANGED plan BY <1>39 DEF OpSchedule
<1>40. ASSUME NEW p \in Tasks, NEW c \in Tasks, OpLink(p, c) PROVE UNCHANGED plan
  BY <1>40 DEF OpLink
<1>41. ASSUME NEW p \in Tasks, NEW c \in Tasks, OpUnlink(p, c) PROVE UNCHANGED plan
  BY <1>41 DEF OpUnlink
<1>42. ASSUME NEW t \in Tasks, OpReclaim(t) PROVE UNCHANGED plan BY <1>42 DEF OpReclaim
<1>43. CASE OpReclaimed BY <1>43 DEF OpReclaimed
<1> QED
  BY <1>1, <1>2, <1>3, <1>4, <1>5, <1>6, <1>7, <1>8, <1>9, <1>10, <1>11, <1>12, <1>13, <1>14,
     <1>15, <1>16, <1>17, <1>18, <1>19, <1>20, <1>21, <1>22, <1>23, <1>24, <1>25, <1>26, <1>27,
     <1>28, <1>29, <1>30, <1>31, <1>32, <1>33, <1>34, <1>35, <1>36, <1>37, <1>38, <1>39, <1>40,
     <1>41, <1>42, <1>43 DEF BoardNext, Tick, WorkerStep, WorkerEnds, OperatorStep, OperatorGoesOn

LEMMA BooksStep ==
  ASSUME TypeInv, TypeInv', BookInv, BoardNext
  PROVE  BookInv'
<1> SUFFICES ASSUME DispatcherClaims PROVE Books' BY PlanStays DEF BookInv, DispatcherClaims
<1>0. Books BY DEF BookInv
<1>1. CASE \/ TickBegins \/ ExtendClaim \/ TerminateWorker \/ SelectSilent \/ SelectOvertime
           \/ TerminateOvertime \/ PromoteReady \/ SelectReady \/ SkipGuarded \/ SpawnFails
           \/ TickEnds \/ DispatcherCrashes
  BY <1>0, <1>1, ReadingKeepsBooks
<1>2. CASE TakeBack BY <1>0, <1>2, TakingKeepsBooks
<1>3. CASE DetectCrashed BY <1>0, <1>3, CrashKeepsBooks
<1>4. CASE CountFailure \/ TimeOut BY <1>0, <1>4, CountingKeepsBooks
<1>5. CASE ClaimReady BY <1>0, <1>5, ClaimingKeepsBooks
<1>6. CASE Spawn BY <1>0, <1>6, SpawningKeepsBooks
<1>7. CASE SetWorkerPid BY <1>0, <1>7, RecordingKeepsBooks
<1>8. CASE \/ OperatorStep \/ OperatorGoesOn \/ \E r \in Runs : WorkerStep(r)
           \/ \E t \in Tasks : ClaimExpires(t) \/ HeartbeatAges(t)
  BY <1>0, <1>8, OthersKeepBooks
<1> QED BY <1>1, <1>2, <1>3, <1>4, <1>5, <1>6, <1>7, <1>8 DEF BoardNext, Tick

\* A report with the id of its run is taken only while the task has that run.
LEMMA ReportsStep ==
  ASSUME TypeInv, ReportInv, BoardNext
  PROVE  ReportInv'
<1> SUFFICES ASSUME ReportsNameRuns PROVE OwnReport' BY PlanStays DEF ReportInv, ReportsNameRuns
<1>0. OwnReport /\ reporter \in [Runs -> Runs \union {None}] BY DEF ReportInv, TypeInv, HistoryTyped
<1>a. UNCHANGED reporter => OwnReport' BY <1>0 DEF OwnReport
<1>b. ASSUME NEW r \in Runs, NEW t, Reported(t, r), OfRun(t, r) PROVE OwnReport'
  <2>1. task[t].run = r BY <1>b DEF OfRun, Runs, None
  <2>2. reporter' = [reporter EXCEPT ![r] = r] BY <1>b, <2>1 DEF Reported, Runs, None
  <2> QED BY <1>0, <2>2 DEF OwnReport
<1>1. CASE TickBegins BY <1>1, <1>a DEF TickBegins, history
<1>2. CASE ExtendClaim BY <1>2, <1>a DEF ExtendClaim, history
<1>3. CASE TerminateWorker BY <1>3, <1>a DEF TerminateWorker, history
<1>4. CASE TakeBack BY <1>4, <1>a DEF TakeBack, history
<1>5. CASE SelectSilent BY <1>5, <1>a DEF SelectSilent, history
<1>6. CASE DetectCrashed BY <1>6, <1>a DEF DetectCrashed, history
<1>7. CASE CountFailure BY <1>7, <1>a DEF CountFailure, history
<1>8. CASE SelectOvertime BY <1>8, <1>a DEF SelectOvertime, history
<1>9. CASE TerminateOvertime BY <1>9, <1>a DEF TerminateOvertime, history
<1>10. CASE TimeOut BY <1>10, <1>a DEF TimeOut, history
<1>11. CASE PromoteReady BY <1>11, <1>a DEF PromoteReady, history
<1>12. CASE SelectReady BY <1>12, <1>a DEF SelectReady, history
<1>13. CASE SkipGuarded BY <1>13, <1>a DEF SkipGuarded, history
<1>14. CASE ClaimReady BY <1>14, <1>a DEF ClaimReady, history
<1>15. CASE SpawnFails BY <1>15, <1>a DEF SpawnFails, history
<1>16. CASE Spawn BY <1>16, <1>a DEF Spawn, history
<1>17. CASE SetWorkerPid BY <1>17, <1>a DEF SetWorkerPid, history
<1>18. CASE TickEnds BY <1>18, <1>a DEF TickEnds, history
<1>19. CASE DispatcherCrashes BY <1>19, <1>a DEF DispatcherCrashes, history
<1>20. ASSUME NEW r \in Runs, Heartbeat(r) PROVE OwnReport' BY <1>20, <1>a DEF Heartbeat, history
<1>21. ASSUME NEW r \in Runs, WorkerCompletes(r) PROVE OwnReport'
  BY <1>21, <1>b DEF WorkerCompletes, CompleteTask
<1>22. ASSUME NEW r \in Runs, WorkerFinishes(r) PROVE OwnReport'
  BY <1>22, <1>a DEF WorkerFinishes, history
<1>23. ASSUME NEW r \in Runs, NEW kind \in {"none", "dependency"}, WorkerBlocks(r, kind)
        PROVE  OwnReport'
  BY <1>23, <1>b DEF WorkerBlocks, BlockTask
<1>24. ASSUME NEW r \in Runs, BudgetExhausted(r) PROVE OwnReport'
  BY <1>24 DEF BudgetExhausted, Ill, ReportsNameRuns
<1>25. ASSUME NEW r \in Runs, GoalLoopBlocks(r) PROVE OwnReport'
  BY <1>25 DEF GoalLoopBlocks, Ill, ReportsNameRuns
<1>26. ASSUME NEW r \in Runs, WorkerExits(r) PROVE OwnReport'
  BY <1>26, <1>a DEF WorkerExits, history
<1>27. ASSUME NEW r \in Runs, WorkerDies(r) PROVE OwnReport' BY <1>27, <1>a DEF WorkerDies, history
<1>28. ASSUME NEW r \in Runs, WorkerWedges(r) PROVE OwnReport'
  BY <1>28, <1>a DEF WorkerWedges, history
<1>29. ASSUME NEW t \in Tasks, ClaimExpires(t) PROVE OwnReport'
  BY <1>29, <1>a DEF ClaimExpires, history
<1>30. ASSUME NEW t \in Tasks, HeartbeatAges(t) PROVE OwnReport'
  BY <1>30, <1>a DEF HeartbeatAges, history
<1>31. ASSUME NEW t \in Tasks, OpClaim(t) PROVE OwnReport' BY <1>31, <1>a DEF OpClaim, history
<1>32. ASSUME NEW t \in Tasks, OpComplete(t) PROVE OwnReport'
  BY <1>32, <1>a DEF OpComplete, history
<1>33. CASE OpCompleted BY <1>33, <1>a DEF OpCompleted, history
<1>34. ASSUME NEW t \in Tasks, OpBlock(t) PROVE OwnReport' BY <1>34, <1>a DEF OpBlock, history
<1>35. ASSUME NEW t \in Tasks, OpUnblock(t) PROVE OwnReport' BY <1>35, <1>a DEF OpUnblock, history
<1>36. ASSUME NEW t \in Tasks, OpPromote(t) PROVE OwnReport' BY <1>36, <1>a DEF OpPromote, history
<1>37. CASE OpPromoted BY <1>37, <1>a DEF OpPromoted, history
<1>38. ASSUME NEW t \in Tasks, OpArchive(t) PROVE OwnReport' BY <1>38, <1>a DEF OpArchive, history
<1>39. ASSUME NEW t \in Tasks, OpSchedule(t) PROVE OwnReport'
  BY <1>39, <1>a DEF OpSchedule, history
<1>40. ASSUME NEW p \in Tasks, NEW c \in Tasks, OpLink(p, c) PROVE OwnReport'
  BY <1>40, <1>a DEF OpLink, history
<1>41. ASSUME NEW p \in Tasks, NEW c \in Tasks, OpUnlink(p, c) PROVE OwnReport'
  BY <1>41, <1>a DEF OpUnlink, history
<1>42. ASSUME NEW t \in Tasks, OpReclaim(t) PROVE OwnReport' BY <1>42, <1>a DEF OpReclaim, history
<1>43. CASE OpReclaimed BY <1>43, <1>a DEF OpReclaimed, history
<1> QED
  BY <1>1, <1>2, <1>3, <1>4, <1>5, <1>6, <1>7, <1>8, <1>9, <1>10, <1>11, <1>12, <1>13, <1>14,
     <1>15, <1>16, <1>17, <1>18, <1>19, <1>20, <1>21, <1>22, <1>23, <1>24, <1>25, <1>26, <1>27,
     <1>28, <1>29, <1>30, <1>31, <1>32, <1>33, <1>34, <1>35, <1>36, <1>37, <1>38, <1>39, <1>40,
     <1>41, <1>42, <1>43 DEF BoardNext, Tick, WorkerStep, WorkerEnds, OperatorStep, OperatorGoesOn

LEMMA InvStep == IndInv /\ [BoardNext]_vars => IndInv'
<1> SUFFICES ASSUME IndInv, [BoardNext]_vars PROVE IndInv' OBVIOUS
<1>1. TypeInv /\ TypeInv' BY TypeStep DEF IndInv
<1>2. CASE BoardNext
  <2>1. BookInv' BY <1>1, <1>2, BooksStep DEF IndInv
  <2>2. ReportInv' BY <1>1, <1>2, ReportsStep DEF IndInv
  <2> QED BY <1>1, <2>1, <2>2 DEF IndInv
<1>3. CASE UNCHANGED vars
  <2>1. BookInv'
    BY <1>3 DEF IndInv, BookInv, DispatcherClaims, Books, RunsAgree, Running, TakenBackIsGone, Live,
         PidBook, DueBook, RowBook, Fresh, vars, board, history, bounds
  <2>2. ReportInv'
    BY <1>3 DEF IndInv, ReportInv, ReportsNameRuns, OwnReport, vars, board, history, bounds
  <2> QED BY <1>1, <2>1, <2>2 DEF IndInv
<1> QED BY <1>2, <1>3

LEMMA InvBegins == Init => IndInv
<1> SUFFICES ASSUME Init PROVE IndInv OBVIOUS
<1>1. TypeInv BY TypeBegins
<1>2. \A t \in Tasks : task[t].run = None /\ task[t].status # "running"
  BY DEF Init, NewTask
<1>3. RunsAgree BY <1>2 DEF Init, RunsAgree, Running
<1>4. TakenBackIsGone /\ PidBook BY DEF Init, TakenBackIsGone, PidBook
<1>5. DueBook /\ RowBook BY DEF Init, Idle, DueBook, RowBook
<1>6. OwnReport BY DEF Init, OwnReport
<1> QED BY <1>1, <1>3, <1>4, <1>5, <1>6 DEF IndInv, BookInv, Books, ReportInv

\* In every behaviour the rows, the tick and the commands have their types, and as long as only
\* the dispatcher claims, the books hold that the next two theorems rest on.
THEOREM BoardInvariance == BoardSpec => []IndInv
BY InvBegins, InvStep, PTL DEF BoardSpec

\* Whatever the dispatcher, the workers and the operator do in between, no transaction of
\* kanban_db.py writes a row of another shape.
THEOREM BoardIsTyped == BoardSpec => []BoardTypeOK
<1>1. IndInv => BoardTypeOK BY TypedBoard DEF IndInv
<1> QED BY <1>1, BoardInvariance, PTL

\* tasks.current_run_id and task_runs agree: a running task has exactly one open run, which is
\* its own, as long as only the dispatcher claims.  (With a claim from the command line between
\* the two transactions of crash detection they need not.)
THEOREM BooksAgree == BoardSpec => [](DispatcherClaims => RunsAgree)
<1>1. IndInv => (DispatcherClaims => RunsAgree) BY DEF IndInv, BookInv, Books
<1> QED BY <1>1, BoardInvariance, PTL

\* A run that the dispatcher took back has no worker that lives, although the rows it goes by
\* were read before the signals, in another transaction than the one that takes the task back.
THEOREM TakenBackWorkersAreGone == BoardSpec => [](DispatcherClaims => TakenBackIsGone)
<1>1. IndInv => (DispatcherClaims => TakenBackIsGone) BY DEF IndInv, BookInv, Books
<1> QED BY <1>1, BoardInvariance, PTL

\* A worker whose task was taken from it does not speak for the one that came after, unless a
\* budget runs out or a goal loop gives up, whose reports leave out expected_run_id.
THEOREM WorkersReportTheirOwn == BoardSpec => [](ReportsNameRuns => OwnReport)
<1>1. IndInv => (ReportsNameRuns => OwnReport) BY DEF IndInv, ReportInv
<1> QED BY <1>1, BoardInvariance, PTL
=============================================================================
