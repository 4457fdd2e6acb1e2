----------------------------- MODULE KanbanBoard -----------------------------
(***************************************************************************)
(* The Kanban board of fan_cli/kanban_db.py: tasks with parents, claimed   *)
(* by the dispatcher of the gateway, which starts a worker process for     *)
(* each and takes the task back when the worker dies, falls silent or runs *)
(* too long; workers that report; and an operator on the command line.     *)
(* They share a database: a write transaction is one step, what a process  *)
(* read before it may be old when it writes.                               *)
(*                                                                         *)
(* A worker is named by the run it was started for, which also stands for  *)
(* its pid.  Time is reduced to what a task's row can show: the claim has  *)
(* expired, the last heartbeat is over an hour old.                        *)
(***************************************************************************)
EXTENDS Integers, FiniteSets

CONSTANTS
  Tasks,
  MaxRuns,       \* bound: rows of task_runs in one behaviour
  FailureLimit,  \* kanban.failure_limit, which the dispatcher passes on
  DefaultLimit,  \* DEFAULT_FAILURE_LIMIT, what everybody else takes
  Scenarios      \* what may happen in a behaviour

Runs == 1 .. MaxRuns
Ops == {"claim", "complete", "block", "unblock", "promote", "archive", "schedule",
        "link", "unlink", "reclaim"}
Faults == {"die", "late", "wedge", "survive", "overtime", "rate", "clean", "workspace", "auth",
           "exhaust", "goal", "crash"}

\* Of a behaviour: the first links, what an operator may do, what may go wrong, how often.
Scenario == [parents : [Tasks -> SUBSET Tasks], ops : SUBSET Ops, acts : Nat,
             faults : SUBSET Faults, ills : Nat]

ASSUME BoardAssumption ==
  /\ MaxRuns \in Nat /\ FailureLimit \in Nat \ {0} /\ DefaultLimit \in Nat \ {0}
  /\ Scenarios \subseteq Scenario

VARIABLES
  plan,
  task,      \* the rows of tasks
  parents,   \* task_links
  outcome,   \* of each run, "open" while its ended_at is NULL
  of,        \* the task of each run
  worker,    \* what became of the worker process of each run
  tick,      \* the dispatcher in a tick: where it is, and what it read
  children,  \* the workers whose exit status the dispatcher's process can reap
  operator,  \* a command in progress, with what it read
  gaveUp,    \* history: tasks whose breaker has tripped and nobody has touched since
  reporter,  \* history: the worker that said how the run ended, 0 if none did
  recorded,  \* history: the workers whose pid reached the database
  acts, ills

board == <<task, outcome, of, gaveUp>>
history == <<reporter, recorded>>
bounds == <<plan, acts, ills>>
vars == <<board, parents, worker, tick, children, operator, history, bounds>>

None == 0
Row == [task : Tasks, claim : {"free", "dispatcher", "operator"}, pid : Runs \union {None},
        stale : BOOLEAN, lives : BOOLEAN]
NoRow == [task |-> None, claim |-> "free", pid |-> None, stale |-> FALSE, lives |-> FALSE]

BoardTypeOK ==
  /\ plan \in Scenarios /\ parents \in [Tasks -> SUBSET Tasks]
  /\ task \in [Tasks ->
       [status : {"triage", "todo", "scheduled", "ready", "running", "blocked", "done",
                  "archived"},
        claim : {"free", "dispatcher", "operator"}, expired : BOOLEAN, stale : BOOLEAN,
        pid : Runs \union {None}, run : Runs \union {None}, failures : Nat,
        error : {"none", "plain", "auth"}, sticky : BOOLEAN,
        kind : {"none", "dependency"}, recur : 0 .. 2]]
  /\ outcome \in [Runs -> {"unused", "open", "completed", "blocked", "reclaimed", "stale",
                           "crashed", "rate_limited", "timed_out", "gave_up",
                           "spawn_failed", "released"}]
  /\ of \in [Runs -> Tasks \union {None}]
  /\ worker \in [Runs -> {"none", "alive", "wedged", "reported", "clean", "rate", "dead"}]
  /\ tick.at \in {"idle", "ttl", "ttlKilled", "silent", "silentKilled", "crashes", "count",
                  "overtime", "overtimeKilled", "promote", "select", "dispatch", "claimed",
                  "spawned"}
  /\ tick.rows \subseteq Row /\ (tick.row \in Row \/ tick.row = NoRow)
  /\ tick.due \subseteq (Tasks \X {1, DefaultLimit})
  /\ tick.reaped \subseteq children /\ children \subseteq Runs /\ gaveUp \subseteq Tasks /\ recorded \subseteq Runs
  /\ reporter \in [Runs -> Runs \union {None}]
  /\ operator.at \in {"idle", "promoting", "reclaiming", "completing"}
  /\ (operator.row \in Row \/ operator.row = NoRow)
  /\ acts \in 0 .. plan.acts /\ ills \in 0 .. plan.ills

NewTask(ps) ==
  [status |-> IF ps = {} THEN "ready" ELSE "todo", claim |-> "free", expired |-> FALSE,
   stale |-> FALSE, pid |-> None, run |-> None, failures |-> 0, error |-> "none",
   sticky |-> FALSE, kind |-> "none", recur |-> 0]

Idle == [at |-> "idle", rows |-> {}, row |-> NoRow, due |-> {}, reaped |-> {}]

Init ==
  /\ plan \in Scenarios /\ parents = plan.parents
  /\ task = [t \in Tasks |-> NewTask(plan.parents[t])]
  /\ outcome = [r \in Runs |-> "unused"] /\ of = [r \in Runs |-> None]
  /\ worker = [r \in Runs |-> "none"]
  /\ tick = Idle /\ children = {} /\ operator = [at |-> "idle", row |-> NoRow]
  /\ gaveUp = {} /\ reporter = [r \in Runs |-> None] /\ recorded = {}
  /\ acts = 0 /\ ills = 0

Live(r) == r # None /\ worker[r] \in {"alive", "wedged", "reported"}

\* Something of that kind goes wrong, within the bounds.
Ill(kind) == kind \in plan.faults /\ ills < plan.ills /\ ills' = ills + 1 /\ UNCHANGED <<plan, acts>>

-----------------------------------------------------------------------------
(* What the transactions are made of.                                      *)

\* Seeded fault: two columns of the UPDATE are swapped.
FreedSwapped(rec, status) ==
  [rec EXCEPT !.status = "free", !.claim = status, !.expired = FALSE, !.pid = None, !.run = None]

\* Seeded fault: the UPDATE forgets the lock.
FreedLocked(rec, status) ==
  [rec EXCEPT !.status = status, !.expired = FALSE, !.pid = None, !.run = None]

\* The UPDATE that gives a task back.
Freed(rec, status) ==
  [rec EXCEPT !.status = status, !.claim = "free", !.expired = FALSE, !.pid = None, !.run = None]

\* Seeded fault: a run is left open.
RunGoesOn(t, how) == UNCHANGED outcome

\* _end_run(): the current run of t is over.
RunEnds(t, how) ==
  outcome' = [r \in Runs |-> IF r = task[t].run /\ outcome[r] = "open" THEN how ELSE outcome[r]]

ParentsOver(tk, ps, t) == \A p \in ps[t] : tk[p].status \in {"done", "archived"}

\* May recompute_ready() make t ready?
Promotable(tk, ps, t, limit) ==
  /\ tk[t].status = "todo"
     \/ (tk[t].status = "blocked" /\ ~tk[t].sticky /\ tk[t].failures < limit)
  /\ ParentsOver(tk, ps, t)

Recomputed(tk, ps, limit) ==
  [t \in Tasks |-> IF Promotable(tk, ps, t, limit) THEN [tk[t] EXCEPT !.status = "ready"] ELSE tk[t]]

\* claim_task(): the task becomes running, with a run of its own, if its parents are over;
\* it goes back to todo if they are not.  A run that was left on it is closed.
ClaimTask(t, who) ==
  IF ~ParentsOver(task, parents, t) THEN
    /\ task' = IF task[t].status = "ready" THEN [task EXCEPT ![t].status = "todo"] ELSE task
    /\ UNCHANGED <<outcome, of, gaveUp>>
  ELSE IF task[t].status # "ready" \/ task[t].claim # "free"
  THEN /\ UNCHANGED <<task, of, gaveUp>>
       /\ IF task[t].status = "ready" THEN RunEnds(t, "reclaimed") ELSE UNCHANGED outcome
  ELSE \E r \in Runs :
    /\ outcome[r] = "unused" /\ \A s \in Runs : s < r => outcome[s] # "unused"
    /\ task' = [task EXCEPT ![t].status = "running", ![t].claim = who, ![t].run = r]
    /\ outcome' = [s \in Runs |-> IF s = r THEN "open"
                                 ELSE IF s = task[t].run THEN "reclaimed" ELSE outcome[s]]
    /\ of' = [of EXCEPT ![r] = t]
    /\ UNCHANGED gaveUp

\* _record_task_failure(): one more failure, and at the limit the breaker trips.  `release' is
\* the mode that also gives the claim back and ends the run.
RecordFailure(t, limit, release, error, how) ==
  LET n == task[t].failures + 1
      trips == n >= limit
      current == task[t].status \in {"ready", "running"}
      counted == [task[t] EXCEPT !.failures = n, !.error = error]
      stopped == [counted EXCEPT !.status = "blocked"]
      freed == [(IF trips THEN stopped ELSE [counted EXCEPT !.status = "ready"]) EXCEPT
                  !.claim = "free", !.expired = FALSE, !.pid = None]
      next == IF release THEN IF current /\ (trips \/ task[t].status = "running")
                              THEN freed ELSE task[t]
              ELSE IF ~trips THEN counted
              ELSE IF current THEN stopped ELSE task[t]
  IN /\ task' = [task EXCEPT ![t] = IF release THEN [next EXCEPT !.run = None] ELSE next]
     /\ IF release THEN RunEnds(t, IF trips THEN "gave_up" ELSE how) ELSE UNCHANGED outcome
     /\ gaveUp' = IF trips /\ current THEN gaveUp \union {t} ELSE gaveUp
     /\ UNCHANGED of

\* Seeded fault: the worker's run id is not part of the condition.
OfAnyRun(t, r) == TRUE

\* The condition `current_run_id = ?' of a report; without an id it is left out.
OfRun(t, r) == r = None \/ task[t].run = r

\* complete_task(), its first transaction; r is the run the caller reports for, if any.
CompleteTask(t, r) ==
  /\ task[t].status \in {"running", "ready", "blocked"} /\ OfRun(t, r)
  /\ RunEnds(t, "completed")
  /\ task' = [task EXCEPT ![t] = [Freed(@, "done") EXCEPT !.kind = "none", !.recur = 0]]
  /\ gaveUp' = gaveUp \ {t}
  /\ UNCHANGED of

\* What complete_task() does next: the count of failures, then the children.
AfterComplete(t) ==
  /\ task' = Recomputed([task EXCEPT ![t].failures = 0, ![t].error = "none"], parents, DefaultLimit)
  /\ UNCHANGED <<outcome, of, gaveUp>>

\* block_task(): a wait for other tasks goes back to todo, another reason waits for a human;
\* the second time in a row for the same reason, in triage.
BlockTask(t, r, kind) ==
  LET recur == IF task[t].kind = kind THEN task[t].recur + 1 ELSE 1
  IN /\ task[t].status \in {"running", "ready"} /\ OfRun(t, r)
     /\ RunEnds(t, "blocked")
     /\ task' = [task EXCEPT ![t] =
          IF kind = "dependency" THEN [Freed(@, "todo") EXCEPT !.kind = kind]
          ELSE IF recur >= 2 THEN [Freed(@, "triage") EXCEPT !.kind = kind, !.recur = 2]
          ELSE [Freed(@, "blocked") EXCEPT !.kind = kind, !.recur = recur, !.sticky = TRUE]]
     /\ UNCHANGED <<of, gaveUp>>

\* The worker of r said how the current run of t ends.
Reported(t, r) ==
  reporter' = IF task[t].run = None THEN reporter ELSE [reporter EXCEPT ![task[t].run] = r]

-----------------------------------------------------------------------------
(* The dispatcher: one tick, under the lock of the board.                  *)

RowOf(t) == [task |-> t, claim |-> task[t].claim, pid |-> task[t].pid,
             stale |-> task[t].stale, lives |-> FALSE]

Running(t) == task[t].status = "running"

\* The tick goes to another place; a row has been dealt with.
Goes(place) == tick' = [tick EXCEPT !.at = place]
Dealt(row, place) == tick' = [tick EXCEPT !.at = place, !.rows = @ \ {row}, !.row = NoRow]

\* reap_worker_zombies() and the SELECT of release_stale_claims().
TickBegins ==
  /\ tick.at = "idle"
  /\ tick' = [Idle EXCEPT !.at = "ttl", !.reaped = {r \in children : ~Live(r)},
                          !.rows = {RowOf(t) : t \in {u \in Tasks : Running(u) /\ task[u].expired}}]
  /\ UNCHANGED <<board, parents, worker, children, operator, history, bounds>>

\* Does the task still hold the claim that was read?
SameClaim(row) == Running(row.task) /\ task[row.task].claim = row.claim

\* release_stale_claims(): the claim of a worker that is alive and not silent is extended.
ExtendClaim ==
  /\ tick.at = "ttl"
  /\ \E row \in tick.rows :
       /\ Live(row.pid) /\ ~row.stale
       /\ task' = IF SameClaim(row) THEN [task EXCEPT ![row.task].expired = FALSE] ELSE task
       /\ Dealt(row, "ttl")
  /\ UNCHANGED <<outcome, of, gaveUp, parents, worker, children, operator, history, bounds>>

\* Signals to a worker, and a look at it afterwards; it may be past killing.
Terminated(row, lives) ==
  IF ~Live(row.pid) THEN ~lives /\ UNCHANGED <<worker, bounds>>
  ELSE IF lives THEN Ill("survive") /\ UNCHANGED worker
  ELSE worker' = [worker EXCEPT ![row.pid] = "dead"] /\ UNCHANGED bounds

\* _terminate_reclaimed_worker(), for a claim that expired or a worker that fell silent.
TerminateWorker ==
  /\ tick.at \in {"ttl", "silent"}
  /\ \E row \in tick.rows, lives \in BOOLEAN :
       /\ tick.at = "ttl" => ~Live(row.pid) \/ row.stale
       /\ Terminated(row, lives)
       /\ tick' = [tick EXCEPT !.at = IF @ = "ttl" THEN "ttlKilled" ELSE "silentKilled",
                               !.rows = @ \ {row}, !.row = [row EXCEPT !.lives = lives]]
  /\ UNCHANGED <<board, parents, children, operator, history>>

\* Seeded fault: nobody asks whether the worker is gone.
SurvivedUnseen(row) == FALSE

\* _worker_survived_termination()
Survived(row) == row.lives

\* The claim of a worker that survived is extended instead; else the task is ready again.
TakeBack ==
  /\ tick.at \in {"ttlKilled", "silentKilled"}
  /\ LET row == tick.row
         t == row.task
         silent == tick.at = "silentKilled"
         same == SameClaim(row) /\ (silent \/ Survived(row) \/ task[t].expired)
     IN /\ IF ~same THEN UNCHANGED <<task, outcome>>
           ELSE IF Survived(row)
           THEN task' = [task EXCEPT ![t].expired = FALSE] /\ UNCHANGED outcome
           ELSE /\ task' = [task EXCEPT ![t] =
                              [Freed(task[t], "ready") EXCEPT !.stale = @ /\ ~silent]]
                /\ RunEnds(t, IF silent THEN "stale" ELSE "reclaimed")
        /\ Dealt(row, IF silent THEN "silent" ELSE "ttl")
  /\ UNCHANGED <<of, gaveUp, parents, worker, children, operator, history, bounds>>

\* The SELECT of detect_stale_running(): no heartbeat for an hour, and long enough running.
SelectSilent ==
  /\ tick.at = "ttl" /\ tick.rows = {}
  /\ \E old \in SUBSET {t \in Tasks : Running(t) /\ task[t].stale} :
       tick' = [tick EXCEPT !.at = "silent", !.rows = {RowOf(t) : t \in old}]
  /\ UNCHANGED <<board, parents, worker, children, operator, history, bounds>>

\* What the reap registry says of a worker that is not alive.
ExitOf(r) == IF r \in tick.reaped THEN worker[r] ELSE "dead"

\* detect_crashed_workers(), its one transaction over all tasks.
DetectCrashed ==
  /\ tick.at = "silent" /\ tick.rows = {}
  /\ LET gone == {t \in Tasks : Running(t) /\ task[t].pid # None /\ ~Live(task[t].pid)}
         exit(t) == ExitOf(task[t].pid)
         over == {task[t].run : t \in gone}
     IN /\ task' = [t \in Tasks |->
             IF t \notin gone THEN task[t]
             ELSE [Freed(task[t], "ready") EXCEPT
                     !.error = IF exit(t) = "rate" THEN "auth" ELSE @]]
        /\ outcome' = [r \in Runs |->
             IF r \in over THEN IF exit(of[r]) = "rate" THEN "rate_limited" ELSE "crashed"
             ELSE outcome[r]]
        /\ tick' = [tick EXCEPT !.at = "count", !.reaped = {}, !.due =
             {<<t, IF exit(t) = "clean" THEN 1 ELSE DefaultLimit>> :
                t \in {u \in gone : exit(u) # "rate"}}]
  /\ UNCHANGED <<of, gaveUp, parents, worker, children, operator, history, bounds>>

\* Each crash is counted, in a transaction of its own.
CountFailure ==
  /\ tick.at = "count"
  /\ \E d \in tick.due :
       /\ RecordFailure(d[1], d[2], FALSE, "plain", "crashed")
       /\ tick' = [tick EXCEPT !.due = @ \ {d}]
  /\ UNCHANGED <<parents, worker, children, operator, history, bounds>>

\* The SELECT of enforce_max_runtime().
SelectOvertime ==
  /\ tick.at = "count" /\ tick.due = {}
  /\ \/ tick' = [tick EXCEPT !.at = "overtime", !.rows = {}] /\ UNCHANGED bounds
     \/ \E t \in Tasks : /\ Running(t) /\ task[t].pid # None /\ Ill("overtime")
                         /\ tick' = [tick EXCEPT !.at = "overtime", !.rows = {RowOf(t)}]
  /\ UNCHANGED <<board, parents, worker, children, operator, history>>

TerminateOvertime ==
  /\ tick.at = "overtime"
  /\ \E row \in tick.rows, lives \in BOOLEAN :
       /\ Terminated(row, lives)
       /\ tick' = [tick EXCEPT !.at = "overtimeKilled", !.rows = {}, !.row = row]
  /\ UNCHANGED <<board, parents, children, operator, history>>

\* enforce_max_runtime() after the signals: whether the worker is gone is not asked.
TimeOut ==
  /\ tick.at = "overtimeKilled"
  /\ LET t == tick.row.task IN
     IF SameClaim(tick.row) /\ task[t].pid = tick.row.pid
     THEN /\ task' = [task EXCEPT ![t] = [Freed(@, "ready") EXCEPT !.stale = FALSE]]
          /\ RunEnds(t, "timed_out")
          /\ tick' = [tick EXCEPT !.at = "count", !.row = NoRow, !.due = {<<t, DefaultLimit>>}]
     ELSE Dealt(tick.row, "overtime") /\ UNCHANGED <<task, outcome>>
  /\ UNCHANGED <<of, gaveUp, parents, worker, children, operator, history, bounds>>

PromoteReady ==
  /\ tick.at = "overtime" /\ tick.rows = {}
  /\ task' = Recomputed(task, parents, FailureLimit)
  /\ Goes("select")
  /\ UNCHANGED <<outcome, of, gaveUp, parents, worker, children, operator, history, bounds>>

SelectReady ==
  /\ tick.at = "select"
  /\ tick' = [tick EXCEPT !.at = "dispatch", !.rows =
       {RowOf(t) : t \in {u \in Tasks : task[u].status = "ready" /\ task[u].claim = "free"}}]
  /\ UNCHANGED <<board, parents, worker, children, operator, history, bounds>>

\* The last run of t that is over.
LatestOutcome(t) ==
  LET past == {r \in Runs : of[r] = t /\ outcome[r] # "open"}
  IN IF past = {} THEN "none" ELSE outcome[CHOOSE r \in past : \A s \in past : s <= r]

\* check_respawn_guard(): the last error looks like quota or authorization.
Guarded(t) == task[t].error = "auth" /\ LatestOutcome(t) # "rate_limited"

SkipGuarded ==
  /\ tick.at = "dispatch"
  /\ \E row \in tick.rows : Guarded(row.task) /\ Dealt(row, "dispatch")
  /\ UNCHANGED <<board, parents, worker, children, operator, history, bounds>>

\* The claim; the row is kept with the run that came of it.
ClaimReady ==
  /\ tick.at = "dispatch"
  /\ \E row \in tick.rows :
       LET t == row.task IN
       /\ ~Guarded(t) /\ ClaimTask(t, "dispatcher")
       /\ IF of' = of THEN Dealt(row, "dispatch")
          ELSE tick' = [tick EXCEPT !.at = "claimed", !.rows = @ \ {row},
                                    !.row = [row EXCEPT !.pid = task'[t].run]]
  /\ UNCHANGED <<parents, worker, children, operator, history, bounds>>

\* The workspace cannot be made, the worker cannot be started, or its pid cannot be written:
\* then it lives on, although its run is over.
SpawnFails ==
  /\ tick.at \in {"claimed", "spawned"}
  /\ \E error \in {"plain", "auth"} :
       /\ error = "auth" => tick.at = "claimed"
       /\ Ill(IF error = "auth" THEN "auth" ELSE "workspace")
       /\ RecordFailure(tick.row.task, FailureLimit, TRUE, error, "spawn_failed")
  /\ tick' = [tick EXCEPT !.at = "dispatch", !.row = NoRow]
  /\ UNCHANGED <<parents, worker, children, operator, history>>

Spawn ==
  /\ tick.at = "claimed"
  /\ worker' = [worker EXCEPT ![tick.row.pid] = "alive"]
  /\ children' = children \union {tick.row.pid}
  /\ Goes("spawned")
  /\ UNCHANGED <<board, parents, operator, history, bounds>>

\* _set_worker_pid(): whatever has become of the task since.
SetWorkerPid ==
  /\ tick.at = "spawned"
  /\ task' = [task EXCEPT ![tick.row.task].pid = tick.row.pid]
  /\ recorded' = recorded \union {tick.row.pid}
  /\ tick' = [tick EXCEPT !.at = "dispatch", !.row = NoRow]
  /\ UNCHANGED <<outcome, of, gaveUp, parents, worker, children, operator, reporter, bounds>>

TickEnds ==
  /\ tick.at = "dispatch" /\ tick.rows = {}
  /\ tick' = Idle
  /\ UNCHANGED <<board, parents, worker, children, operator, history, bounds>>

\* The gateway dies, and another one takes over the board; the workers live on.
DispatcherCrashes ==
  /\ Ill("crash")
  /\ tick' = Idle /\ children' = {}
  /\ UNCHANGED <<board, parents, worker, operator, history>>

Tick ==
  \/ TickBegins \/ ExtendClaim \/ TerminateWorker \/ TakeBack \/ SelectSilent \/ DetectCrashed
  \/ CountFailure \/ SelectOvertime \/ TerminateOvertime \/ TimeOut \/ PromoteReady
  \/ SelectReady \/ SkipGuarded \/ ClaimReady \/ SpawnFails \/ Spawn \/ SetWorkerPid
  \/ TickEnds

-----------------------------------------------------------------------------
(* The worker of run r, and time.                                          *)

\* heartbeat_claim() goes by the lock of the dispatcher, heartbeat_worker() by the run.
Heartbeat(r) ==
  LET t == of[r] IN
  /\ worker[r] = "alive" /\ Running(t)
  /\ task' = [task EXCEPT ![t].expired = @ /\ task[t].claim # "dispatcher",
                          ![t].stale = @ /\ task[t].run # r]
  /\ UNCHANGED <<outcome, of, gaveUp, parents, worker, tick, children, operator, history, bounds>>

WorkerCompletes(r) ==
  /\ worker[r] = "alive"
  /\ CompleteTask(of[r], r) /\ Reported(of[r], r)
  /\ worker' = [worker EXCEPT ![r] = "reported"]
  /\ UNCHANGED <<parents, tick, children, operator, recorded, bounds>>

WorkerFinishes(r) ==
  /\ worker[r] = "reported"
  /\ AfterComplete(of[r])
  /\ worker' = [worker EXCEPT ![r] = "alive"]
  /\ UNCHANGED <<parents, tick, children, operator, history, bounds>>

\* A worker waits for other tasks, which it linked as parents, or for a human.
WorkerBlocks(r, kind) ==
  /\ worker[r] = "alive"
  /\ kind = "dependency" => ~ParentsOver(task, parents, of[r])
  /\ BlockTask(of[r], r, kind) /\ Reported(of[r], r)
  /\ UNCHANGED <<parents, worker, tick, children, operator, recorded, bounds>>

\* The iteration budget is used up: the worker counts the failure itself, whoever has the
\* task by then, and exits.
BudgetExhausted(r) ==
  /\ worker[r] = "alive" /\ Ill("exhaust")
  /\ RecordFailure(of[r], DefaultLimit, TRUE, "plain", "timed_out") /\ Reported(of[r], r)
  /\ worker' = [worker EXCEPT ![r] = "clean"]
  /\ UNCHANGED <<parents, tick, children, operator, recorded>>

\* The goal loop of a worker sees its task open, and blocks it at the end of its turns.
GoalLoopBlocks(r) ==
  /\ worker[r] = "alive" /\ Ill("goal")
  /\ BlockTask(of[r], None, "none") /\ Reported(of[r], r)
  /\ UNCHANGED <<parents, worker, tick, children, operator, recorded>>

\* The process exits: its run is over, or it forgot to report, or met a quota wall.
WorkerExits(r) ==
  /\ worker[r] = "alive"
  /\ \/ outcome[r] # "open" /\ worker' = [worker EXCEPT ![r] = "clean"] /\ UNCHANGED bounds
     \/ outcome[r] = "open" /\ Ill("clean") /\ worker' = [worker EXCEPT ![r] = "clean"]
     \/ outcome[r] = "open" /\ Ill("rate") /\ worker' = [worker EXCEPT ![r] = "rate"]
  /\ UNCHANGED <<board, parents, tick, children, operator, history>>

WorkerDies(r) ==
  /\ worker[r] \in {"alive", "reported"} /\ Ill("die")
  /\ worker' = [worker EXCEPT ![r] = "dead"]
  /\ UNCHANGED <<board, parents, tick, children, operator, history>>

WorkerWedges(r) ==
  /\ worker[r] = "alive" /\ Ill("wedge")
  /\ worker' = [worker EXCEPT ![r] = "wedged"]
  /\ UNCHANGED <<board, parents, tick, children, operator, history>>

\* Is a worker at work on the current run of t, or about to be started?
Attended(t) ==
  \/ task[t].run # None /\ worker[task[t].run] = "alive"
  \/ tick.at = "claimed" /\ tick.row.task = t

ClaimExpires(t) ==
  /\ Running(t) /\ ~task[t].expired
  /\ IF Attended(t) THEN Ill("late") ELSE UNCHANGED bounds
  /\ task' = [task EXCEPT ![t].expired = TRUE]
  /\ UNCHANGED <<outcome, of, gaveUp, parents, worker, tick, children, operator, history>>

\* An hour without a heartbeat: there is no worker, or it is wedged or gone.
HeartbeatAges(t) ==
  /\ "late" \in plan.faults /\ Running(t) /\ ~task[t].stale /\ ~Attended(t)
  /\ task' = [task EXCEPT ![t].stale = TRUE]
  /\ UNCHANGED <<outcome, of, gaveUp, parents, worker, tick, children, operator, history, bounds>>

-----------------------------------------------------------------------------
(* An operator, on the command line or through a tool without a task.      *)

Command(kind) ==
  /\ operator.at = "idle" /\ kind \in plan.ops /\ acts < plan.acts /\ acts' = acts + 1
  /\ UNCHANGED <<plan, ills>>

OpClaim(t) ==
  /\ Command("claim") /\ task[t].status = "ready" /\ ClaimTask(t, "operator")
  /\ UNCHANGED <<parents, worker, tick, children, operator, history>>

OpComplete(t) ==
  /\ Command("complete") /\ CompleteTask(t, None)
  /\ operator' = [at |-> "completing", row |-> RowOf(t)]
  /\ UNCHANGED <<parents, worker, tick, children, history>>

OpCompleted ==
  /\ operator.at = "completing"
  /\ AfterComplete(operator.row.task)
  /\ operator' = [at |-> "idle", row |-> NoRow]
  /\ UNCHANGED <<parents, worker, tick, children, history, bounds>>

OpBlock(t) ==
  /\ Command("block") /\ BlockTask(t, None, "none")
  /\ UNCHANGED <<parents, worker, tick, children, operator, history>>

\* unblock_task() closes a run that is left, and does not touch the claim.
OpUnblock(t) ==
  /\ Command("unblock") /\ task[t].status \in {"blocked", "scheduled"}
  /\ RunEnds(t, "reclaimed")
  /\ task' = [task EXCEPT ![t].status =
                IF \E p \in parents[t] : task[p].status # "done" THEN "todo" ELSE "ready",
              ![t].run = None, ![t].failures = 0, ![t].error = "none", ![t].sticky = FALSE]
  /\ gaveUp' = gaveUp \ {t}
  /\ UNCHANGED <<of, parents, worker, tick, children, operator, history>>

\* promote_task() looks at the parents before its transaction.
OpPromote(t) ==
  /\ Command("promote") /\ task[t].status \in {"todo", "blocked"} /\ ParentsOver(task, parents, t)
  /\ operator' = [at |-> "promoting", row |-> RowOf(t)]
  /\ UNCHANGED <<board, parents, worker, tick, children, history>>

OpPromoted ==
  /\ operator.at = "promoting"
  /\ LET t == operator.row.task
         open == task[t].status \in {"todo", "blocked"}
     IN /\ task' = IF open THEN [task EXCEPT ![t].status = "ready"] ELSE task
        /\ gaveUp' = IF open THEN gaveUp \ {t} ELSE gaveUp
  /\ operator' = [at |-> "idle", row |-> NoRow]
  /\ UNCHANGED <<outcome, of, parents, worker, tick, children, history, bounds>>

\* archive_task(), and the promotion of the children.
OpArchive(t) ==
  /\ Command("archive") /\ task[t].status # "archived"
  /\ RunEnds(t, "released")
  /\ task' = Recomputed([task EXCEPT ![t] = Freed(@, "archived")], parents, DefaultLimit)
  /\ UNCHANGED <<of, gaveUp, parents, worker, tick, children, operator, history>>

OpSchedule(t) ==
  /\ Command("schedule") /\ task[t].status \in {"todo", "ready", "running", "blocked"}
  /\ RunEnds(t, "released")
  /\ task' = [task EXCEPT ![t] = Freed(@, "scheduled")]
  /\ UNCHANGED <<of, gaveUp, parents, worker, tick, children, operator, history>>

\* Is a an ancestor of b, or b itself?
Reaches(a, b) ==
  \A S \in SUBSET Tasks : b \in S /\ (\A t \in S : parents[t] \subseteq S) => a \in S

OpLink(p, c) ==
  /\ Command("link") /\ ~Reaches(c, p) /\ p \notin parents[c]
  /\ parents' = [parents EXCEPT ![c] = @ \union {p}]
  /\ task' = IF task[p].status # "done" /\ task[c].status = "ready"
             THEN [task EXCEPT ![c].status = "todo"] ELSE task
  /\ UNCHANGED <<outcome, of, gaveUp, worker, tick, children, operator, history>>

OpUnlink(p, c) ==
  /\ Command("unlink") /\ p \in parents[c]
  /\ parents' = [parents EXCEPT ![c] = @ \ {p}]
  /\ task' = Recomputed(task, parents', DefaultLimit)
  /\ UNCHANGED <<outcome, of, gaveUp, worker, tick, children, operator, history>>

\* reclaim_task(): read, signal, and a transaction that asks for the same claim only.
OpReclaim(t) ==
  /\ operator.at = "idle" /\ "reclaim" \in plan.ops /\ acts < plan.acts
  /\ Running(t) \/ task[t].claim # "free"
  /\ \/ ~Live(task[t].pid) /\ UNCHANGED <<worker, ills>>
     \/ Live(task[t].pid) /\ worker' = [worker EXCEPT ![task[t].pid] = "dead"] /\ UNCHANGED ills
     \/ /\ Live(task[t].pid) /\ UNCHANGED worker
        /\ "survive" \in plan.faults /\ ills < plan.ills /\ ills' = ills + 1
  /\ acts' = acts + 1
  /\ operator' = [at |-> "reclaiming", row |-> RowOf(t)]
  /\ UNCHANGED <<board, parents, tick, children, history, plan>>

\* The run ends as "reclaimed" in the code as well; it has a name of its own here, since nobody
\* looks whether the worker survived.
OpReclaimed ==
  /\ operator.at = "reclaiming"
  /\ LET t == operator.row.task
         same == /\ task[t].status \in {"running", "ready", "blocked"}
                 /\ task[t].claim = operator.row.claim
     IN IF ~same THEN UNCHANGED board
        ELSE /\ RunEnds(t, "released")
             /\ task' = [task EXCEPT ![t] =
                           [Freed(@, "ready") EXCEPT !.failures = 0, !.error = "none"]]
             /\ gaveUp' = gaveUp \ {t}
             /\ UNCHANGED of
  /\ operator' = [at |-> "idle", row |-> NoRow]
  /\ UNCHANGED <<parents, worker, tick, children, history, bounds>>

-----------------------------------------------------------------------------
WorkerEnds(r) ==
  \/ WorkerCompletes(r) \/ WorkerFinishes(r) \/ WorkerExits(r) \/ WorkerDies(r)
  \/ \E kind \in {"none", "dependency"} : WorkerBlocks(r, kind)

WorkerStep(r) ==
  Heartbeat(r) \/ WorkerEnds(r) \/ WorkerWedges(r) \/ BudgetExhausted(r) \/ GoalLoopBlocks(r)

OperatorStep ==
  \/ \E t \in Tasks : \/ OpClaim(t) \/ OpComplete(t) \/ OpBlock(t) \/ OpUnblock(t)
                      \/ OpPromote(t) \/ OpArchive(t) \/ OpSchedule(t) \/ OpReclaim(t)
  \/ \E p, c \in Tasks : OpLink(p, c) \/ OpUnlink(p, c)

OperatorGoesOn == OpCompleted \/ OpPromoted \/ OpReclaimed

BoardNext ==
  \/ Tick \/ DispatcherCrashes \/ OperatorStep \/ OperatorGoesOn
  \/ \E r \in Runs : WorkerStep(r)
  \/ \E t \in Tasks : ClaimExpires(t) \/ HeartbeatAges(t)

BoardSpec == Init /\ [][BoardNext]_vars

\* The dispatcher ticks, commands come to an end, time passes, and a worker that is not
\* wedged reports or exits at last, or dies.
BoardFairSpec ==
  /\ BoardSpec
  /\ WF_vars(Tick) /\ WF_vars(OperatorGoesOn)
  /\ \A r \in Runs : WF_vars(WorkerEnds(r))
  /\ \A t \in Tasks : WF_vars(ClaimExpires(t)) /\ WF_vars(HeartbeatAges(t))

-----------------------------------------------------------------------------
(* Properties.                                                             *)

\* The books agree: the current run of a task is its only run that is not over, and a task
\* has one while it is running (every transaction that ends a claim ends its run).
RunsAgree ==
  /\ \A t \in Tasks : task[t].run # None =>
       of[task[t].run] = t /\ outcome[task[t].run] = "open"
  /\ \A r \in Runs : outcome[r] = "open" => task[of[r]].run = r
  /\ \A t \in Tasks : Running(t) <=> task[t].run # None

\* A worker whose task was taken from it does not speak for the worker that came after: a run
\* that a worker ended was ended by its own (expected_run_id of complete_task, block_task).
OwnReport == \A r \in Runs : reporter[r] # None => reporter[r] = r

\* A worker whose run the dispatcher took back, because its claim expired or it fell silent or
\* seemed dead, is gone, if the database ever knew its pid (_defer_reclaim_for_live_worker).
TakenBackIsGone ==
  \A r \in recorded : outcome[r] \in {"reclaimed", "stale", "crashed"} => ~Live(r)

\* After the breaker has tripped, the task waits for somebody to look at it.
GaveUpStays == \A t \in gaveUp : task[t].status \notin {"ready", "running"}

\* A ready task can be claimed: nothing of an earlier claim is left on it.
ReadyIsClaimable == \A t \in Tasks : task[t].status = "ready" => task[t].claim = "free"

\* Held back by the respawn guard: an error of quota or authorization is its last.
HeldBack(t) == task[t].status = "ready" /\ Guarded(t)

Due(t) == task[t].status \in {"ready", "running"} /\ ~HeldBack(t)
Waits(t) == task[t].status = "todo" /\ ParentsOver(task, parents, t)

\* Whatever becomes of its workers, a task that is due ends, waits for a human or for other
\* tasks, or is held back; and a task whose parents are over does not wait for them.
TasksSettle == \A t \in Tasks : (Due(t) ~> ~Due(t)) /\ (Waits(t) ~> ~Waits(t))

\* A task that is held back is not held back for ever.
HeldBackEnds == \A t \in Tasks : HeldBack(t) ~> ~HeldBack(t)
=============================================================================
