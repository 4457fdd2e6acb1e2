# Verification of the Fan browser agent

This directory holds TLA+ models of the concurrent core of the repository, the
TLC configurations that model-check them, and theorems about them with proofs
that TLAPS checks. Paths below are relative to the root of the repository; `BR/`
stands for `apps/desktop/electron/browser-runtime/`, `server.py` for
`tui_gateway/server.py`.

## 1. The system and its parts

Fan is an agent that drives a browser. An Electron application shows the browser
and talks to a Python gateway, which runs the agent loop; the tools of the agent
call back into the browser through an RPC server inside Electron. The gateway
also hands tasks of a Kanban board to worker processes and runs scheduled jobs.

```
 React UI --IPC--> Electron main --JSON-RPC--> gateway (tui_gateway) --> agent loop (agent/)
                        |                       |      ^                        |
                        |                       |      | questions, events      v
                        +-- browser runtime (BR/) <----+--- HTTP RPC ------- tools/
                                                |
                                                +--- kanban.db <---> worker processes
```

| part | state it keeps | operations | what is hard | what makes it correct |
|---|---|---|---|---|
| task limiter `BR/task-limiter.cjs` | slots in use, busy sessions, fences, queue, leases | run, runWithLease, executeWithinLease, blockSessionUntil, cancel..., close | re-entrant drain, finally handlers, leases draining | one call per session, slots never leak, no lost wakeup, nothing slips past a fence |
| action ledger `BR/rpc-server.cjs` (executeTracked) | a record per action id, a ledger per session | tracked execution, duplicate requests, trimming, program capacity | wrappers that give up before the browser effect does; timers against late answers | an action runs once, effects never overlap, every caller is answered |
| control boundary `BR/rpc-server.cjs` (dispatch) | boundary fences, pending releases | programStop, programHandoff, endControl | waiting for accepted work with a time budget, deferred release | the page is handed to the user only when accepted work is over |
| control leases `BR/visual/operations.cjs`, `BR/runtime.cjs` | control state, intervention latch | beginControl, endControl, latch, acknowledge | every operation awaits in its middle | an older request never disturbs a newer lease; no intervention is lost |
| program runner `BR/program/` | active runs, pending requests | run, stop, intervention, worker messages | Worker exit, timeout, stop and intervention race for one terminal result | one terminal result, no step admitted after it |
| session, tab and view controllers `apps/desktop/electron/browser-*.cjs` | tabs, views, ownership, resource budget | open, close, switch, evict, restore | eviction against running actions, async navigation | no view in use is evicted |
| JSON-RPC client `apps/shared/src/json-rpc-gateway.ts` and its hooks `use-gateway-boot.ts`, `use-gateway-request.ts` | socket, attempt, pending calls; reconnect timer | connect, request, close; boot, reconnect, repeat a request | late events of a replaced socket; three drivers of one client | nobody awaits a dead attempt, an answer is one's own, a lost connection comes back |
| chat session turns `server.py` | running, cancel latch, queued prompt, the Agent's interrupt flag and steer slot | prompt.submit in three busy modes, session.interrupt, follow-ups of a turn | flags read by threads without their lock; a Stop against a turn being born | one turn at a time, a prompt is heard once and not lost |
| pending interactions `tui_gateway/pending_interactions.py`, `ws.py`, `store/prompts.ts`, `store/pending-interactions.ts` | open questions with deadlines and revisions; prompts shown | create, respond, wait, cancel, snapshot, hydrate | answer, deadline, Stop and close race; frames lost with the connection | an accepted answer counts, what waits is shown |
| asynchronous delegation `tools/async_delegation.py` | running and finished delegations, tombstones | dispatch, finalize, cancel, push | cancellation between end and delivery | none told after a cancellation |
| completion queue `tools/process_registry.py`, `server.py` | one queue for all sessions, pollers, drains, a durable Kanban cursor | take, put back, tell, acknowledge, last drain | several pollers pass items around while sessions close | told once, nothing lost but in the places that are named, the cursor passes nothing untold |
| Kanban `fan_cli/kanban_db.py`, `fan_cli/kanban_worker.py` | tasks, links, runs, claims, failure counts | dispatcher tick, claim, heartbeat, reclaim, complete, block, promote | reads before a transaction; workers that die, stay silent, survive a signal | tasks and runs agree, one worker per task, every task settles |
| approvals, processes, MCP `tools/` | approval queue, process table, connections | request, approve, poll, reconnect | threads, timeouts | a blocked tool is always released |
| cron `cron/jobs.py`, `cron/scheduler.py` | job file with claims and leases; per process: jobs running, working directory | tick, claim, renew, mark, run by hand, edit | several schedulers, crash between run and mark, sleep, commands beside a run | no job runs twice at once, no job stays due, what is claimed is carried out, a stolen claim is silent |
| agent loop, session database, CLI, providers, plugins, UI | conversation text, rows, settings | | I/O and data | not modelled: mostly sequential, or third-party |

How they interact. An HTTP request enters `dispatch` of the RPC server, which
sends a passive read straight to the limiter, a mutating action through
`executeTracked` to the limiter, and a program through `executeTracked` to the
limiter with a lease; the program runner sends each step back through
`executeTracked` and the lease. Control requests bypass the queue and act on the
limiter from outside. On the gateway side a prompt becomes a turn with a thread of
its own; the turn's tools ask the user through the registry of questions, start
processes and delegations, and their ends come back through the completion queue,
whose pollers start turns of their own. The renderer hears of all this over one
websocket that may be lost and resumed at any time. The dispatcher of the Kanban
board runs in the gateway and shares only the database with its workers; the cron tickers
of several processes share only the job file.

## 2. Structure and plan

A module that is composed comes before its composition.

| module | extends | models | state |
|---|---|---|---|
| `Subsequences` | | what remains of an array when entries are deleted | done |
| `SessionLanes` | | the abstract promise of the limiter to one session | done |
| `BrowserTaskLimiter` | | the limiter | done, proved, refinement included |
| `ActionLedger` | limiter | executeTracked and the ledgers | done, proved |
| `ControlBoundary` | limiter | control requests, leases, deferred releases | done, proved |
| `SessionTurn` | | turns, Stop and follow-ups of a chat session | done, proved |
| `CompletionQueue` | | delegations, processes, Kanban notifications, pollers | done, proved |
| `PendingInteractions` | | registry of questions, handlers, resume, the renderer's prompts | done, proved |
| `JsonRpcClient` | | the websocket client | done |
| `GatewayLink` | client | the hooks that boot, reconnect and repeat requests | done, proved |
| `KanbanBoard` | | dispatcher, workers and operator on one board | done, proved |
| `CronJobs` | | the job file, ticks, claims and their leases, threads, an operator | done, proved |

A module `M_proofs` holds the theorems about M (section 6). Those of `ActionLedger` and
`ControlBoundary`, which rest on the same facts about the limiter, are together in
`RpcServer_proofs`, and the refinement of `SessionLanes` is in `BrowserTaskLimiter_proofs`.
"Proved" in the table speaks of safety; liveness stays with TLC.

What the plan has left, most important first: the intervention latch of the control
leases with the tab it restores; the approval queue of `tools/approval.py`; the view
lifecycle of Electron; abstract specifications, with their refinement, of the delivery of a
completion and of the life of a Kanban task; the premises of section 6 (`DispatcherClaims`,
`MemoryLives`) narrowed to what exactly goes wrong without them.

Two idioms run through the later modules. A *scenario* says what a behaviour may
contain (which prompts, questions, processes or tasks, how many Stops, lost
connections or faults of each kind); the variable `plan` holds it and never changes, so
one run checks a family of small situations in place of one that is too big. A scenario
restricts inputs and bounds only, never what the code does with them. *History
variables*, marked as such, record what no variable of the code does and are read by
properties only.

## 3. The modules

### BrowserTaskLimiter

JavaScript runs a synchronous section to its end, so an action is one such
section. A call passes through the phases of the promise chain that `_drain`
builds: `queued`, `slotted` (taken, its first microtask is pending), `running`,
`draining` (the task returned, the tail of its lease did not), `settled` (the
caller is answered, the finally handler is pending) and `over`; or `refused`.
Calls are numbered in order of arrival, so the array `queue` is a set of numbers.
`_drain` is the operator `Drain`; every action that calls it in the code contains
it. A lease is three numbers (accepted, finished, where the head of the chain
is), since its tail is a chain of promises. The settlement given to
`blockSessionUntil` arrives at any time or never.

`SessionLanes` is the abstract promise: each session is a lane that serves one
call at a time in order of arrival. `EverySessionIsALane` maps the limiter to it
session by session (`Lanes == INSTANCE SessionLanes WITH ...`).

### ActionLedger

It extends the limiter: its actions are the limiter's conjoined with what
`executeTracked` does around them. An execution `<<c, k>>` is the task of call c
(k = 0) or the k-th step of its lease; the same name denotes the one fence it may
raise. `task` is where the async function given to `schedule` stands, `effect`
the browser action under it, `status` and `response` the record and the promise
of the caller. The outcomes are those of the code: the operation settles by
itself; a human intervention returns a result that carries the settlement of the
effect; an error carries it; a step times out and has a recovery window; an error
omits it; the hard cap fires. `eventualOutcome` is `settlement[e]` of the limiter:
the fence falls first (its reaction is registered first), the late `finish`
follows. `records` holds the entries of all ledgers in insertion order, `recency`
the keys of `actionLedger`; `Trim` and `Prune` are `trimLedger` and
`pruneActionLedgers` with their count limits. Time is abstract: any terminal
record may become `aged`.

`Subsequences` defines what is left of an array when entries are deleted (`Among`), without recursion,
so that it can be proved about; the boundary (order of the waits) and the completion queue use it too.

Merged or left out: the operation is called one microtask after its task began
(the slot is held meanwhile, nothing looks at it); a step that the lease turns
away at once gets its failed record in one action; request fingerprints (a
conflict only throws) and the content of results.

### ControlBoundary

It extends the limiter by the requests that bypass it. A boundary request raises a
fence in the turn in which it arrives (`Arrives`: cancel, fence, stop the
program), waits until the session is idle, and ends the lease; `bstate` says where
it stands. The fence is a fence of the limiter named by the request, so the token
set `controlBoundaryTokens` is `Boundaries`. A handoff awaits the protocol drain
before it retires the lease (`HandoffDrained`), an endControl retires it and then
awaits the visuals (`EndCleaned`); a handoff whose budget ends leaves the rest to
`release`, the map `pendingControlReleases`. A lease is named by the beginControl
call that began it; that call is a call of the limiter like any other, so a fence
holds it off too. `ProgramCalls` says which calls are executeProgram; `stopped` holds
the programs whose terminal result is set: they send no further step. Publishing the
end of a lease cancels queued work and stops the program (`Retire`), as the
listeners of CONTROL_STATE do.

All waits have the same budget, so `waits`, the order in which they were set, is
the order in which they may time out; a protocol drain is bounded by a shorter
time and therefore ends before any wait set after it. That order is what
`NamedHandoffHonoured` rests on. Requests, events and timers come in turns of
their own: a call that was given a slot starts before them (`BetweenTurns`).

Of the tracked execution it keeps what the boundary can see: a wrapper may give up
and leave its effect to a fence (`GivesUp`, `FencedEffectSettles`). Left out: the
intervention latch, which a failed drain sets, and what the visuals show.

### SessionTurn

One session; one client, whose calls the connection handles one after the other.
`stage[t]` says where the thread of turn t stands: waiting for the Agent, about to
be dispatched, assigned to `_run_thread` and not started, in the conversation loop, in a
model call (`asking`), and then through the steps of its end (`leaving` until
clear_interrupt, `post` until running is cleared, then the late steer follow-up, the
queue slot, the goal and the notifications, in the code's order). A section under
`history_lock` is one step; the interrupt flag and `_run_thread` are read and written
outside it, so session.interrupt is three steps (`StopLook`, `StopLatch`,
`StopDeclare`), with the locals it carries in `stop`. `heard` counts how often a
prompt was given to the model; `excused` holds the prompts a later Stop, replacement or
reported error has disposed of. A user's turn may fail once `running` is set, before its thread
starts or when `_run_prompt_submit` raises in it (`SubmitFails`): no handler clears `running`
then, `orphaned` is set, and the session stays taken until the next Stop. Where a follow-up is
dispatched there is a handler (`DispatchFails`).

Left out: images, history truncation, streaming, slash commands, and what a
conversation says.

### CompletionQueue

One FIFO queue, the poller thread of each session, and the drain at the end of a
turn. A session object has a conversation (`Key`): "a1" and "a2" are two objects of
one conversation, one after the other, as close and resume make them. `life` follows
the object through `session.close` and its poller's last rounds. What a poller reads of
an item it took is one step, the section under history_lock that takes the session for a
turn another, so a session may become busy, closed or another's in between.
A Kanban batch is the range of events after the durable cursor; a crash loses
everything but `posted` and `cursor`. At most one after-turn drain per session is under
way. Both drains of the queue pop item by item. A dispatch may raise (`PlaceFails`,
`DrainFails`): the handler gives the session back and releases a Kanban batch, and any other item
is gone. Two histories name what is lost: `failed` there, `drained` in the loop of an after-turn
drain. Delegations have the capacity check of dispatch, the record's states, the event
pushed outside the lock, cancellation, and tombstones (2 in place of 256).

Left out: retargeting after compression, watch matches of processes, the wording of
notifications, the child Agent's run. A crash meets Kanban events only, since the
other ends do not survive it.

### PendingInteractions

One session, one renderer. An asker's thread creates a question, emits it, waits, and
emits its resolution; of the three modes of admission, `turn` creates and emits under the
lock of the cancel latch, `live` and `plain` emit afterwards. The calls of the connection
are served in order, session.resume on a thread of its own in three steps (bind, snapshot,
reply), session.interrupt in three (`StopLatch`, `StopRelease`, `StopReply`), since between the
release and the reply it ends the browser's control and denies approvals, and askers go on
meanwhile; one Stop at a time is a bound. A prompt in the busy mode "interrupt" latches and
releases as well (`Replace`). Turns start on a call of the user or by themselves (queued prompts
and notifications). The history `late` holds what was asked between a Stop's release and its
reply, `cleared` what that reply then hid. A lost connection loses the frames under way in both directions. The renderer
orders what it hears by `seen`, the newest revision. Left out: the epoch of the gateway,
payloads, the cleanup of finished items after ten minutes.

### JsonRpcClient and GatewayLink

An action is one task of the browser; `JsonRpcClient` has the operations and events of
the client (the events of a replaced or closed socket still come), `GatewayLink` extends
it by its three drivers: `boot`, `reconnect` and `ensure` (ensureGatewayOpen), each with
the await it stands at, and by the stages of a request that may be repeated once. A
settled promise resumes its waiter before the next task (`Quiet`). `Heard` is the state
handler of the boot hook, which runs inside the task that changes the state. The error and
the close event of a failed handshake are one task; refreshes go over HTTP and do not need
the socket. Left out: event subscriptions and a WebSocket constructor that throws.

### KanbanBoard

A write transaction of the database is one step; what a process read before it is kept in
`tick.rows`, `tick.row` or `operator.row` and may be old. The dispatcher's tick goes through
the places of `dispatch_once` in order: expired claims, silent workers, crashed workers and
their failure counts, overtime, promotion, selection, claim, spawn, pid. A worker is named by
the run it was started for, which also stands for its pid. Time is reduced to what a row can
show: the claim of a task has expired (an attended claim only as a counted fault "late"), the
last heartbeat is over an hour old. Faults are counted (`ills`), an operator's commands too
(`acts`). A spawn fails before there is a worker, or after, when its pid cannot be written: then
it lives on, unknown to the board. The operator's reclaim signals the worker and does not ask
whether it survived (`fan_cli/kanban_db.py:3436-3449`); the model gives such a run the outcome
"released", where the code writes "reclaimed" as the dispatcher does, so that a property can tell
the two apart.

Left out: reviews (the source has no writer of that status), the caps on running tasks, the
cool-down after a rate limit (a delay), the guards `recent_success` and `active_pr`, the launch
grace, the systemic-crash fingerprint, reuse of a pid, triage and decomposition, comments,
workspaces, deletion of archived tasks. Lumped: the second transactions of archive, unlink and
reclaim. All claims of the command line share one lock name.

### CronJobs

A section under `_jobs_lock` is one step on the file, `row`. A fire is one claim, named by its
token: the same name stands for the thread that carries it out, whose place is `fire[t].at` (won
by a tick, queued in a pool, waiting for the directory lock, running, and the steps of its end),
for its heartbeat and for its result. A tick is the process that holds `.tick.lock` with what it
read (`tick.todo`), claimed (`tick.won`) and waits for (`tick.mine`); `command` is an operator's
command between its read and its write. Times are numbers in the order in which they are computed
(`stamp`), so that a claim can compare the time it read with the one in the file; of the clock the
file shows only that a job is due and that a lease has run out. A lease that is attended runs out
only as a counted fault, the machine asleep. A crashed process stays down; one that ticks is
always left, or started anew under another name. On one host (`plan.together`) the processes can
see whether an owner lives, on two they cannot. `_ReadWriteLock` and the noted `TERMINAL_CWD` are
kept in full, since the working directory is a variable of the whole process. A heartbeat that cannot be
started leaves the job in `_running_job_ids` for good (`TickHeartbeatFails`).

Merged or left out: the catch-up of a missed time is a claim like any other; a schedule whose next
time cannot be computed; records malformed or edited by hand, and the repair of a missing
`next_run_at`; scripts without an agent; the limit on parallel jobs; an agent thread that outlives
its timeout; a change of the working directory by an edit; output files and whether a result is a
success; a `TERMINAL_CWD` in the `.env` file, which `load_dotenv(override=True)` writes over the job's
own directory for every job (`cron/scheduler.py:1083`, after 1076: `WorkdirsAreOwn` speaks of processes
whose `.env` has none); `advance_next_run`, which nothing calls. The
first branch of `TickSubmits` (the job already runs in this process) guards against a case the tick
lock excludes for a process that claims and submits in one tick.

## 4. The runs

| run | question | bounds and why they suffice |
|---|---|---|
| `limiter` | do steps stay inside the slot, is each session a lane, is every queued call answered? | 2 sessions, 1 slot, queue of 2, 3 calls, leases of 2 steps, fair scheduling: two steps show the chain, three calls overtaking |
| `ledger` | do effects overlap, is one unguarded, is every caller answered? | 1 session, a program with a step and a further call, every outcome at every step, fair timers; nothing is evicted (`MaxRecords` 9) |
| `ledger_retention` | is a record that matters evicted, does anything slip past a fence? | 2 sessions, 2 slots, queue of 1, 3 calls, `MaxRecords` 0 in place of 32, `MaxLedgers` 1, one record may expire: every count limit is crossed, with every finished record over the limit at once; fences rise and fall beside a second session. `MaxSteps` is 0 here, so for the steps of programs `ProgramRunsOnce` rests on its proof |
| `boundary` | is the page quiet when it is handed over, is every request answered, is a settling handoff honoured? | 1 session, 2 calls, one of them a program with a step, 2 requests of either kind: one request can wait for the work of one call while the other request or the deferred release it joined ends; the lease can change between two handoffs |
| `turn` | is there one turn at a time, is guidance heard once, does every turn end? | 9 scenarios, 2 prompts (3 as guidance), 4 turns; a Stop, a continuation, a notification or a failure each (of a submission, a conversation or a dispatch), a Stop with a failure in one |
| `queue` | is an end told once, to the right side of a cancellation, and at last? | 10 scenarios: up to 3 session objects of 2 conversations, 2 processes, 2 delegations, 2 Kanban events, a crash, 2 user turns, a dispatch that raises |
| `pending` | does what is shown agree with what waits, does an accepted answer count? | 7 scenarios: up to 3 questions of the three modes, one with a deadline, 2 turns, 2 calls that are Stops or replacements, 2 lost connections, a close |
| `link` | does a lost connection come back, is an answer one's own? | 4 scenarios: up to 2 requests, 3 faults, a wake signal, an unmount; 4 sockets and 4 calls, never exhausted before the faults are |
| `kanban` | do tasks and runs agree, does every task settle? | 9 scenarios: 2 tasks, one the parent of the other, 6 runs, at most two faults out of a family, one command of any kind, a reclaim whose worker survives |
| `cron` | does a job run twice, does a job stay due, is what is claimed carried out, does a stolen claim stay silent? | 12 scenarios: 2 jobs, 2 processes, 4 fires, up to two faults or commands of a family; a fire each for two processes and jobs, and one again after a crash |
| `kanban_breaker`, `cron_workdir` | do two comments hold? | one scenario each; violated, see section 7 |

Deadlock is checked for the limiter, the ledger, the boundary (`close()` may be called at
any time, so a system that has answered everything does not count as stuck) and the
Kanban board (the dispatcher ticks for ever). It is not checked for `turn`, `queue`,
`pending`, `link` and `cron`: when the bounded inputs of a scenario are used up the system may rest,
and their liveness properties say that nothing rests too early.

The runs are kept to the questions that need them. The type invariants of the limiter,
`SessionTurn`, `PendingInteractions`, `GatewayLink` and `CronJobs`, and `SessionExclusion` and
`WorkConserving` of the limiter are proved for every value of the constants (section 6) and
not run again.

Every property of a passing run is tested by a seeded fault: the operators marked
"Seeded fault" are mutations of the definition that follows them, and the property must
fail when the mutation takes its place.

The scenarios of `kanban` leave out what section 7 shows to be wrong: a worker that exits
without a report (`kanban_breaker`), a goal loop or used-up budget together with any way in which
a worker loses its task and lives (a late claim, a crash or a failed write before its pid is known, a
block and unblock, a reclaim it survives: `OwnReport`), a claim from the command line together with a dying worker
(`ReadyIsClaimable`); `TasksSettle` excepts tasks held back by the respawn guard.

## 5. Fairness

- `limiter`: the event loop runs every microtask, and tasks and steps return. The
  second is what `executeTracked` provides.
- `ledger` does without it: fairness of the limiter's microtasks and of the two timers (hard
  cap and recovery window) only. No run assumes that a browser effect settles or that a user
  ever answers.
- `boundary`: timers fire and the protocol drain (bounded by 1000 ms in the code) and the visual
  cleanup end; nothing of the calls. `NamedHandoffHonoured` has the premise that accepted work
  settles: a release that waits for an effect that never settles waits for ever, by design.
- `turn`: handlers return, the Agent is built, threads run and a model call ends.
- `queue`: threads run (weak fairness per worker, poller and turn); strong fairness of a poller's
  end, since a last drain that finds the queue empty ends before the next item comes (pollers
  look once in a second).
- `pending`: threads of the gateway run, and a timed wait sees its deadline; nothing is assumed
  of the user or the connection.
- `link`: promises resume, the main process answers, timers fire, a handshake that is not failed
  succeeds. Socket events and call timers have strong fairness: they wait while there is
  something to resume, again and again.
- `kanban`: the dispatcher ticks, commands end, time passes, and a worker that is not wedged
  reports, exits or dies.
- `cron`: some process ticks and its tick goes on, threads and heartbeats run, a command that
  has read is written, and a lease nobody renews runs out. Nothing is assumed of crashes,
  faults or operators.

## 6. What is proved

All theorems hold for every value of the constants that the named assumption admits. In each
module an inductive invariant is established first; TLC checked the invariants of the listed
runs, the proofs show that they need no bound.

| module | theorems | from |
|---|---|---|
| `BrowserTaskLimiter_proofs` | `TypeCorrect`, `SlotsAreExclusive`, `QueueIsSound`, `StepsStayInside`, `FencesKeepQuiet`; `LimiterKeepsLanes` (the limiter implements `SessionLanes`) | `LimiterAssumption` (the limits are natural numbers, there is a slot, the set of sessions is finite) |
| `RpcServer_proofs`, the ledger | `EffectsAreGuarded`, `LedgerRunsTheLimiter`, `LedgerIsTyped`, `LiveRecordsStay`, `ProgramsRunOnce` | besides, `LedgerAssumption` (executions are fences, actions have sessions) |
| `RpcServer_proofs`, the boundary | `PageIsQuietAtHandover`, `BoundaryRunsTheLimiter`, `ControlIsTyped` | besides, `BoundaryAssumption` (calls and requests are different fences) |
| `SessionTurn_proofs` | `TurnTypeCorrect`, `SessionHasOneOwner`, `PromptsAreHeardOnce`, `EveryPromptIsServed` | `TurnAssumption` |
| `CompletionQueue_proofs` | `QueueIsTyped`, `WorkIsToldOnce`, `CursorIsTold`, `CompletionsAreKept`, `RetiredNeverSpeaks` | `QueueAssumption` (delegations are finitely many, names differ) |
| `PendingInteractions_proofs` | `PendingTypeCorrect`, `AnswersCount`, `StopIsFinal`, `PromptsAreRight` | `InteractionAssumption` |
| `GatewayLink_proofs` | `LinkTypeCorrect`, `AttemptsAreAttended`, `AnswersBelong` | `ClientAssumption`, `LinkAssumption` |
| `KanbanBoard_proofs` | `BoardIsTyped`, `BooksAgree`, `TakenBackWorkersAreGone`, `WorkersReportTheirOwn` | `BoardAssumption` |
| `CronJobs_proofs` | `CronTypeCorrect`, `NeverTwiceAtOnce`, `StolenIsSilent`, `WorkdirsAreOwn`, `OneRunForEachTime` | `CronAssumption` |

Each module also names its inductive invariant as a theorem (`Invariance`, `RecordInvariance`,
`BoardInvariance` and so on). Six theorems have a premise besides the assumption, in their
statement; it says what a behaviour contains, and each is explained below. They are
`MemoryLives => NothingDropped`, `TombstonesHold => (Spec => RetiredStaysSilent)`,
`DispatcherClaims` for two properties of the Kanban board, `ReportsNameRuns` for the third,
and `DoneStaysDone => FiredOnce`. The scenarios of the runs meet them but for three of the board, with
a used-up budget, a goal loop or one command that may be a claim; TLC finds the properties true there
as well.

**The limiter.** `IndInv` is the type invariant and the safety invariants together with `CallBook`
(numbers, queue and phases tell one story) and `LeaseBook` (so do leases and phases). The
strengthening is needed because a drain looks at the queue, which says nothing of the phases by
itself, and because a release frees the session of its call, which is sound only while phases and
`activeSessions` agree. The heart is `DrainStep`: whatever set of queued calls a drain starts from,
the calls it takes are at most the free slots, of distinct sessions, none busy or fenced, and
afterwards no startable call is left unless the limiter is full. It rests on `TakenFacts`, a
counting argument over finite sets of naturals (`LeastNatural`, `GreatestNatural`).
`LimiterAdvances` sums up what any step leaves true (fences stand, a decided call gets no second
slot, a step that runs goes on or settles); the modules built on the limiter argue from it.

**The lanes.** Three facts: one run of the drain loop takes at most the first call of a session, and
only of an idle one (`DrainIsPerLane`); what empties the queue of a session empties all of it; and
a call that arrives is never taken together with one that was queued, since the limiter is work
conserving (`ArrivalsLine`). The refinement mapping is per session, so nothing about the number of
free slots is needed but that.

**The ledger.** `GuardInv` adds to the limiter's invariant where each execution is (`Whereabouts`:
while its task awaits the effect, its call holds the slot and the step is the current one; once it
gave up, its fence is pending), and that nothing is slotted or admitted beside an effect on the
page (`Alone`). Since a tracked execution only acts on the limiter through the limiter's own
actions, `LedgerSpec => Spec`. `RecordInv` adds the records: what is queued or running has its
record, and what the limiter or a lease still holds back is queued (`Recorded`); of the runs of one
program at most one has a record that has not expired (`OneValid`). Each way to prune takes only what
is over, and of programs only what has expired (`LiveRecordsStay`, `ProgramsRunOnce`). What is left
of an insertion order after deletions is `Among` of `Subsequences`; that it holds just the elements
that were to stay is proved once (`AmongKeeps`), and again with their number for the queue
(`AmongHolds`).

**The control boundary.** `ControlInv` says that a request keeps its fence until it answers, that a
call which left its effect to a fence has had its slot, and what a release owes is decided. A
request that saw the session idle keeps it quiet because of its fence; a deferred release, which
has none, because a decided call gets no second slot.

**The gateway link.** Two books that do not depend on each other: in `SocketBook` the one attempt
that is pending, the current socket and the state tell one story, so the events of any other
socket find nothing to change; in `CallBook` an id is used once. `TimerBook` and `StageBook`
say where the hooks and the repeated requests may stand.

**The pending interactions.** A question that is no longer waiting never changes again
(`FinishKeeps`), so the registry orders the four events that race for it, and what the asker
reads later is what the user was told. `LinkGood` and `RendererGood` say that nothing on its way
to the renderer is ahead of the registry. `PromptBooks` adds what a frame says: every frame on its
way tells what was true at its revision (`FrameBook`); that a question is over, or waits, the
renderer has heard, or a frame or a snapshot that says so is still to come, unless it was overtaken
(`missed`) or refused; and no end of a turn is behind the request of a question that still waits,
so its prompt is not cleared. `StopGood` says the same of a Stop: its reply can only hide what was
asked after its release (`late`). When nothing is under way only the exceptions remain
(`PromptsAreRight`).

**The turns.** The owners' book follows `running` through the places that take and release it, a submission
that fails included (`orphaned`); the
text book says that a prompt the model has not read is in one place at a time (the text of a turn,
the queue slot, the steer slot, the result of run_conversation).
`ServiceBook` says who will look at what waits: a prompt in
the queue slot has a turn that still looks there, guidance in the steer slot an owner of the
session, and in a session that only knows guidance and no Stop, each prompt that was accepted was
read, is disposed of, or is in one of the places. At rest there is no such turn and nothing is in a
place (`EveryPromptIsServed`).

**The completion queue.** A flow lemma says of each operation which items leave the four kinds of
places (the queue, a poller's hand, what a stopping poller keeps, what is left of a drain), and a
place lemma that none comes to be in two of them, or twice in one. So what is told was before one
thread and is before none afterwards (`WorkIsToldOnce`), and what leaves is told, read, lost by a drain
or by a dispatch that raised (`CompletionsAreKept`); the premise `MemoryLives` is there because the
completion of a process is only in memory, and the code promises nothing of it across a crash. `BatchBook` ties a Kanban batch
to the durable cursor (`CursorIsTold`). `RetiredNeverSpeaks` needs that the tombstones, a list of
bounded length, can hold every delegation (`TombstonesHold`): the code forgets the oldest beyond
`_MAX_CANCELLED_DELIVERY_IDS`, 256.

**The Kanban board.** Almost every transaction keeps a task's run and worker, or frees the task and
ends its run; it is a flow (`Flows`), and flows keep the books of tasks and runs. The other steps are the
claim, the write of a pid and the count of a crash. The dispatcher acts on rows that an earlier
transaction read, so the induction says what such a row is still worth (`RowBook`): its task is not
running any more or has the same pid, and its worker, once signalled, is gone or was seen alive.
`PidBook` ties a pid to an open run. Two theorems have the premise `DispatcherClaims`: a task that an
operator claims between the two transactions of a crash's detection is blocked with the new run on it
(`MCKanbanBoardStranded` in section 7), so without it the books do not agree. The same
happens with no fault at all: a task is reclaimed and claimed again before the pid of its first worker
is written, that worker's exit counts as a crash of the second run, and a third claim comes between
the two transactions. `WorkersReportTheirOwn` has
`ReportsNameRuns`: the reports of a used-up budget and of a goal loop do not name a run
(`MCKanbanBoardLateGoal`).

**The cron jobs.** Whoever carries out a job is named by the claim in the file and lives (`HeldBook`,
`AliveBook`), so a process that can see him does not take the claim, however late the lease. A claim
that was taken, or whose result was recorded, never stands in the file again (`SilentBook`), so the
old owner can never record. All steps but a claim are `Calm`: they withdraw a claim at most when
nobody carries out its job any more.
`CwdBook` says that a job with a workdir works alone in its process
(`WorkdirsAreOwn`). `OnceBooks` follows the times of the schedule: for the next time of a recurring
job no fire was made yet, and for that of a one-shot none whose result is recorded (`NextBook`); who
made a fire holds its claim, has recorded its result or has lost the claim (`OwnerBook`); what an
operator is about to write as the next time is no time that was spent (`ResumeBook`).
`OneRunForEachTime` has the premise `DoneStaysDone`: an operator who
resumes a one-shot that is done asks for a second run of its one time.

Only model-checked is liveness: `QueuedCallsSettle`, `ResponseSettles`, `BoundariesAnswered`,
`NamedHandoffHonoured`, `TurnsEnd`, `EndsArrive`, `Released`, `LinkRecovers`, `TasksSettle` and
`DueJobsAreServed`. It rests on fairness, and fairness on ENABLED, which the prover does not treat. The
refutations of section 7 are TLC's as well.

## 7. Findings

Places where the code does not do what a comment, docstring or test of it says. Two of them
are runs of the project. The others are run by hand, `tlc -config <cfg> <module>` (the module is
the part of the name up to its suffix), with a configuration that stays beside the runs, or with
one changed as said: another set of scenarios, and the one property named in place of its own.
Each ends in a violation of that property.

Listed runs:

- `kanban_breaker` (`GaveUpStays`, `fan_cli/kanban_db.py:6077`, also confirmed by executing the
  code). The breaker of a worker that exits without a report trips at the first failure; the
  promotion of the same tick goes by the configured limit, finds one failure below it and makes
  the task ready again.
- `cron_workdir` (`WorkdirStaysPrivate`, `cron/scheduler.py:1067`). A job with a workdir that is run
  by hand beside one run by the ticker notes that job's directory as the one to restore, and leaves
  it in the process, where jobs without a workdir then work (comment at line 169).

By hand:

| configuration | property | what happens |
|---|---|---|
| `MCActionLedgerUnproven` | `UnprovenEffectFenced` | after the hard cap an error without the private handoff is taken for the outcome of the effect, and the fence falls (`BR/rpc-server.cjs:542`; the comment at 595-599 promises a permanent fence). The stock runtime always attaches the handoff. `EffectsStayGuarded` therefore speaks of effects that some promise still tracks. |
| `MCControlBoundaryExposed` | `AcceptedWorkFirst` | the deferred release holds no fence: a call accepted during its protocol drain, and a second handoff waiting for that call, do not stop it from retiring the lease (`BR/rpc-server.cjs:802`, comment `BR/task-limiter.cjs:163-166`). `PageQuietAtHandover` holds for requests that still hold their fence and for the work the deferred release was left with. |
| `MCControlBoundaryLost` | `SettlingHandoffHonoured` | a handoff of a session that never had a lease defers a release of nothing, which a later handoff joins and is lost with it (`BR/rpc-server.cjs:770`); `NamedHandoffHonoured` shows that this is the only way to lose one |
| `MCSessionTurnPoisoned` | `NotBornPoisoned` | the flag of an interrupt that came after the turn cleared it ends the queued turn before its first model call (`server.py:4270`, comment 6056-6060) |
| `MCSessionTurnForgotten` | `NothingForgotten` | a prompt queued behind a turn that was given up before its conversation stays in the slot (`server.py:6095`, comment 6029) |
| `MCSessionTurnLate` | `SteerKept` | a Stop's latch is still set in a turn of the poller or the goal judge, so late guidance of that turn is dropped (`server.py:4309`, docstring 4301) |
| `MCSessionTurnStop` | `StopStops` | a Stop takes a thread that is assigned and not started for dead; the next prompt runs beside the turn it stopped (`server.py:5718`, docstring 5681). This is the exception `undead` of `OneOwner`. |
| `MCSessionTurnOrphan` | `NothingForgotten` | a submission that raises after it set `running` leaves it set with no turn; a prompt queued behind it stays there until a Stop (`server.py:6052-6103`). This is the exception `orphaned` of `OneOwner`. |
| `MCCompletionQueueLost` | `CompletionNeverLost` | at a turn's end the whole queue is popped into a list; when the session is taken between two of its items, the current one is put back and those behind it are gone (`server.py:7201`). This is the exception `drained` of `NothingDropped`. |
| `MCCompletionQueueLost` with `Scenarios <- Raises` | `CompletionNeverLost` | the handlers of a dispatch that raises release a Kanban batch and drop any other item (`server.py:6619`, 6689, 7206; the comment at 6629 has the last drain lose nothing). This is the exception `failed` of `NothingDropped`. |
| `MCCompletionQueueStuck` with `Scenarios <- Beside` and this invariant | `ExactOwner` | the drain at a turn's end tells results of other conversations in its own (`server.py:7195`, docstring 6536) |
| `MCCompletionQueueStuck` with `Scenarios <- Resumed` and this invariant | `OwnSessionOnly` | a delegation dispatched after its session was finalized is told in the session that resumes the conversation (`tools/async_delegation.py:195`, comment 369) |
| `MCCompletionQueueStuck` | `PendingReleased` | a Kanban batch taken by a turn's drain is never acknowledged or released, and not offered again (`server.py:7195`, comment 6259) |
| `MCCompletionQueueStuck` with `Scenarios <- TwoEvents` and this invariant | `RangeOnce` | a second event while a batch waits makes a batch with both beside it (docstring at `server.py:6275`) |
| `MCCompletionQueueStuck` with `Scenarios <- EventAtClose` and this invariant | `ClosingNotWoken` | a poller waiting for an item when its session is finalized takes the next batch on the ordinary path (`server.py:6553`, comment 6646) |
| `MCPendingInteractionsOrder` | `EachAdmitted` | two tools that ask at once may emit in the other order; the renderer refuses the lower revision (`apps/desktop/src/store/pending-interactions.ts:71`) |
| `MCPendingInteractionsStale` with `Scenarios <- TwoAtResume` and this invariant | `SnapshotRestores` | a request emitted between the binding and the reply of session.resume makes the renderer discard the snapshot (same file, 170) |
| `MCPendingInteractionsStale` | `NoPromptStale` | a resolution lost with the connection stays shown for the same reason (same file, 180) |
| `MCPendingInteractionsStale` with `Scenarios <- Background` and this invariant | `BackgroundShown` | the end of a turn clears the prompts of background work too (`apps/desktop/src/app/session/hooks/use-message-stream.ts:860`) |
| `MCPendingInteractionsStale` with `Scenarios <- AskedInStop` and this invariant | `StopClearsOwn` | session.interrupt releases what waits (`server.py:5707`) and answers 30 lines later; a plain question asked in between is hidden by the renderer on the reply, and waits unshown (`use-prompt-actions.ts:899`, comments there at 986 and in `store/prompts.ts:7`). This is the exception `cleared` of `PromptsMatch`. |
| `MCPendingInteractionsStale` with `Scenarios <- AfterClose` and this invariant | `NoneParked` | an approval asked after session.close released the waits is never released (`server.py:1424`, comment 1409) |
| `MCGatewayLinkBoot` | `ReconnectOwned` | a socket lost during the refreshes of the boot has nobody to reconnect it (`use-gateway-boot.ts:71`). This is the exception `lostInBoot` of `LinkRecovers`. |
| `MCGatewayLinkResend` | `ResentWhenOpen` | connect() returns at once while another is connecting, and the request is repeated too early (`use-gateway-request.ts:57`) |
| `MCKanbanBoardGuarded` | `HeldBackEnds` | one failed spawn that reads like an authorization error holds the task back for ever (`fan_cli/kanban_db.py:6403`, comment 6334; confirmed by executing the code) |
| `MCKanbanBoardLateGoal` | `OwnReport` | an operator blocks and unblocks the task of a worker in a goal loop; the loop then blocks the run of its successor. The same happens however else the worker loses its task and lives (`fan_cli/kanban_worker.py:406`, comment `fan_cli/goals.py:900`) |
| `MCKanbanBoardStranded` | `ReadyIsClaimable` | a task claimed between the two transactions of a crash's detection is blocked with its claim on it, and after unblock never claimable (comment `fan_cli/kanban_db.py:6351`) |
| `MCCronJobs` with `Scenarios <- EditAndPause` and this property | `PauseHolds` | an edit whose job was paused after it was read enables the job again (`tools/cronjob_tools.py:785`; the docstring at `cron/jobs.py:80-84` says that the lock prevents it) |
| `MCCronJobs` with `Scenarios <- EditWhileRunning` and this property | `EditsSurvive` | a new time given to a one-shot while it runs is thrown away when its result is recorded (`cron/jobs.py:1171`) |
| `MCCronJobs` with `Scenarios <- RepeatWhileRunning` and this property | `RunsCounted` | a new limit is written with the count that was read, and takes back a run recorded in between (`tools/cronjob_tools.py:779`) |
| `MCCronJobs` with `Scenarios <- Failing` and this invariant | `NoneForsaken` | a write that fails in the middle of a tick, or a thread that ends without a mark, leaves a claim whose owner lives: no other process takes it and the job does not run until that process ends (`cron/scheduler.py:1640`, `cron/jobs.py:1261`; the comment at `cron/jobs.py:1178` says that a recurring job must never be silently disabled). `DueJobsAreServed` excepts it. |
| `MCCronJobs` with `Scenarios <- Failing` and this invariant | `RunningIsReal` | a heartbeat that cannot be started leaves the job in `_running_job_ids`: that process never runs it again (`cron/scheduler.py:1734`; the comment at 1712 has the worker release it) |

Seen on the way and not modelled further: a plain question cancelled before its request is
emitted carries its last revision, so a snapshot with an equal revision is discarded; unmounting
while the URL is minted lets connect() open a socket nobody closes; a call repeated after
"connection closed" may be executed twice by the gateway; `last_heartbeat_at` is not reset by a
new claim, so a healthy worker can inherit a stale heartbeat; a crash of the gateway between a
spawn and `_set_worker_pid` lets a second worker start beside the first (hence `recorded` in
`TakenBackIsGone`), and so does a write of the pid that fails; `enforce_max_runtime` does not ask whether its worker survived (hence
"timed_out" is not in it), nor does the operator's reclaim; a `TERMINAL_CWD` in `.env` overrides the
workdir of every job (`cron/scheduler.py:1083`); unblock asks parents to be done where the others accept archived.

## 8. Not modelled

The components marked `not_modelled` in `PROJECT.json`, each with its reason: the runtime's page
actions and the DOM, Electron's windows and views (the decisive behaviour is that of Electron's own
events), tool approval lists and MCP transports, the session database, the CLI, providers,
plugins and scripts. Of the modelled files: HTTP parsing and authentication, request fingerprints,
the wording and codes of errors, passive reads (they are limiter calls like any other), and
wall-clock time (timers fire at any moment, which covers every clock). What each module leaves out
of its own files is said in section 3.
