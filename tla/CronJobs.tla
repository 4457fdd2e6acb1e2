------------------------------- MODULE CronJobs -------------------------------
(***************************************************************************)
(* The scheduled jobs of cron/jobs.py and cron/scheduler.py.  Processes -- *)
(* the desktop backend with its ticker, the command line -- share one file *)
(* of jobs; what a process does under _jobs_lock is one step.  A tick      *)
(* scans for due jobs, claims them and hands them to the pools of its      *)
(* process; a job can also be run by hand.  A claim carries a lease that a *)
(* heartbeat renews and that another process may take when it has run out  *)
(* and its owner is dead.                                                  *)
(*                                                                         *)
(* A fire is one claim, named by its token.  Times are numbered in the     *)
(* order in which they are computed; the file shows only whether the next  *)
(* run of a job is due and whether the lease of its claim has run out.     *)
(***************************************************************************)
EXTENDS Integers

CONSTANTS
  Jobs,
  Procs,     \* processes; one that crashed does not come back, another takes its place
  NoJob,
  NoProc,
  MaxFires,  \* bound: claims in one behaviour
  Scenarios  \* what may happen in a behaviour

Fires == 1 .. MaxFires
None == 0
Kinds == {"once", "every"}
Ops == {"create", "pause", "resume", "trigger", "edit", "repeat", "remove", "run"}
Faults == {"crash", "sleep", "raise", "exit", "disk", "submit"}

\* Of a behaviour: the jobs, who ticks and who waits in his tick, whether the processes are on
\* one host, how often time makes a job due, what an operator may do, what may go wrong.
Scenario ==
  [kind : [Jobs -> Kinds], dir : [Jobs -> BOOLEAN], times : [Jobs -> Nat], new : SUBSET Jobs,
   ticks : SUBSET Procs, sync : SUBSET Procs, together : BOOLEAN, falls : Nat,
   ops : SUBSET Ops, acts : Nat, faults : SUBSET Faults, ills : Nat]

ASSUME CronAssumption ==
  /\ NoJob \notin Jobs /\ NoProc \notin Procs /\ MaxFires \in Nat
  /\ Scenarios \subseteq Scenario

VARIABLES
  plan,
  row,       \* jobs.json
  fire,      \* what became of each claim: its thread
  proc,      \* is the process up?
  running,   \* _running_job_ids of each process
  cwd,       \* the job whose workdir is TERMINAL_CWD of the process
  tick,      \* the tick that holds .tick.lock, and what it read
  command,   \* an operator's command in progress, with what it read
  stamp,     \* the last time computed
  recorded,  \* history: fires whose result was recorded
  replaced,  \* history: fires whose claim another has taken
  falls, acts, ills

threads == <<fire, running, cwd>>
history == <<recorded, replaced>>
bounds == <<plan, falls, acts, ills>>
vars == <<row, threads, proc, tick, command, stamp, history, bounds>>

Phases == {"none", "won", "queued", "waiting", "running", "ran", "marking", "marked", "over",
           "released", "forsaken", "dead"}
NoTick == [by |-> NoProc, todo |-> {}, won |-> {}, mine |-> {}]
NoCommand == [op |-> "none", job |-> NoJob, kind |-> "once", at |-> 0, due |-> FALSE,
              paused |-> FALSE, done |-> 0]

CronTypeOK ==
  /\ plan \in Scenarios
  /\ row \in [Jobs -> [here : {"new", "here", "gone"}, kind : Kinds, on : BOOLEAN,
                       paused : BOOLEAN, at : Nat, due : BOOLEAN, when : Nat, ran : BOOLEAN,
                       times : Nat, done : Nat, claim : Fires \union {None}, late : BOOLEAN]]
  /\ fire \in [Fires -> [job : Jobs \union {NoJob}, proc : Procs \union {NoProc},
                         how : {"tick", "hand"}, kind : Kinds, slot : Nat, at : Phases,
                         was : Jobs \union {NoJob}]]
  /\ \A t \in Fires : fire[t].at # "none" => fire[t].job \in Jobs /\ fire[t].proc \in Procs
  /\ proc \in [Procs -> BOOLEAN]
  /\ running \in [Procs -> SUBSET Jobs]
  /\ cwd \in [Procs -> Jobs \union {NoJob}]
  /\ tick \in [by : Procs \union {NoProc}, todo : SUBSET (Jobs \X Nat), won : SUBSET Fires,
               mine : SUBSET Fires]
  /\ command \in [op : {"none", "resume", "edit", "repeat"}, job : Jobs \union {NoJob},
                  kind : Kinds, at : Nat, due : BOOLEAN, paused : BOOLEAN, done : Nat]
  /\ command.op # "none" => command.job \in Jobs
  /\ stamp \in Nat
  /\ recorded \subseteq Fires /\ replaced \subseteq Fires
  /\ falls \in Nat /\ acts \in Nat /\ ills \in Nat

Init ==
  /\ plan \in Scenarios
  /\ row = [j \in Jobs |->
       [here |-> IF j \in plan.new THEN "new" ELSE "here", kind |-> plan.kind[j], on |-> TRUE,
        paused |-> FALSE, at |-> 1, due |-> FALSE, when |-> 1, ran |-> FALSE,
        times |-> plan.times[j], done |-> 0, claim |-> None, late |-> FALSE]]
  /\ fire = [t \in Fires |-> [job |-> NoJob, proc |-> NoProc, how |-> "tick", kind |-> "once",
                              slot |-> 0, at |-> "none", was |-> NoJob]]
  /\ proc = [p \in Procs |-> TRUE]
  /\ running = [p \in Procs |-> {}]
  /\ cwd = [p \in Procs |-> NoJob]
  /\ tick = NoTick /\ command = NoCommand
  /\ stamp = 1
  /\ recorded = {} /\ replaced = {}
  /\ falls = 0 /\ acts = 0 /\ ills = 0

Ill(kind) == kind \in plan.faults /\ ills < plan.ills /\ ills' = ills + 1

-----------------------------------------------------------------------------
(* The file.                                                               *)

\* The owner is a process of this host that lives.
OwnerAlive(p, t) == (plan.together \/ fire[t].proc = p) /\ proc[fire[t].proc]

\* Seeded fault: a claim is judged by its lease alone.
ActiveByLease(p, r) == r.claim # None /\ ~r.late

\* _run_claim_is_active()
Active(p, r) == r.claim # None /\ (~r.late \/ OwnerAlive(p, r.claim))

Unused(t) == fire[t].at = "none" /\ \A u \in Fires : u < t => fire[u].at # "none"

\* A new claim of j for a thread of p, which leaves the job as r.
Claim(t, p, j, how, slot, r) ==
  /\ Unused(t)
  /\ fire' = [fire EXCEPT ![t] =
       [job |-> j, proc |-> p, how |-> how, kind |-> r.kind, slot |-> slot,
        at |-> IF how = "tick" THEN "won" ELSE "queued", was |-> NoJob]]
  /\ row' = [row EXCEPT ![j] = [r EXCEPT !.claim = t, !.late = FALSE]]
  /\ replaced' = replaced \union ({row[j].claim} \ {None})

\* claim_job_for_fire(): what the scan read must still hold.
Claimable(p, j, at) ==
  LET r == row[j] IN
  /\ r.here = "here" /\ r.on /\ ~r.paused
  /\ r.at = at /\ r.due
  /\ ~Active(p, r)

\* Seeded fault: a recurring job is moved on when its result is recorded, not when it is claimed.
ClaimWithoutAdvance(t, p, j) == Claim(t, p, j, "tick", row[j].at, row[j]) /\ UNCHANGED stamp

\* claim_job_for_fire(): a recurring job moves on at once.
ClaimForFire(t, p, j) ==
  LET r == row[j] IN
  IF r.kind = "every"
  THEN /\ Claim(t, p, j, "tick", r.at, [r EXCEPT !.at = stamp + 1, !.due = FALSE])
       /\ stamp' = stamp + 1
  ELSE Claim(t, p, j, "tick", r.at, r) /\ UNCHANGED stamp

\* claim_job_for_immediate_fire()
ClaimForImmediateFire(t, p, j) ==
  LET r == [row[j] EXCEPT !.on = TRUE, !.paused = FALSE]
      now == stamp + 1
  IN /\ row[j].here = "here" /\ ~Active(p, row[j])
     /\ IF r.kind = "every"
        THEN /\ Claim(t, p, j, "hand", now, [r EXCEPT !.at = now + 1, !.due = FALSE])
             /\ stamp' = now + 1
        ELSE /\ Claim(t, p, j, "hand", now, [r EXCEPT !.at = now, !.due = TRUE])
             /\ stamp' = now

\* release_job_run_claim()
ReleasedClaim(t) ==
  LET j == fire[t].job IN
  IF row[j].here = "here" /\ row[j].claim = t
  THEN [row EXCEPT ![j].claim = None] ELSE row

\* mark_job_run(): the row after the owner of claim t has recorded its result.
Completed(r) ==
  LET done == [r EXCEPT !.claim = None, !.late = FALSE, !.ran = TRUE, !.done = @ + 1]
      next == IF r.kind = "every" THEN done ELSE [done EXCEPT !.at = 0, !.due = FALSE]
  IN IF r.times > 0 /\ done.done >= r.times THEN [done EXCEPT !.here = "gone"]
     ELSE IF next.at # 0 THEN next
     ELSE [next EXCEPT !.on = (r.kind = "every"), !.paused = FALSE]

\* Seeded fault: the owner of the claim is not asked for.
CurrentUnlessGone(t) == row[fire[t].job].here = "here"

\* job_run_claim_is_current()
Current(t) ==
  LET r == row[fire[t].job] IN r.here = "here" /\ r.claim = t

-----------------------------------------------------------------------------
(* Time.                                                                   *)

FallsDue(j) ==
  /\ row[j].here = "here" /\ row[j].on /\ row[j].at # 0 /\ ~row[j].due
  /\ falls < plan.falls /\ falls' = falls + 1
  /\ row' = [row EXCEPT ![j].due = TRUE]
  /\ UNCHANGED <<threads, proc, tick, command, stamp, history, plan, acts, ills>>

\* _start_claim_heartbeat(): from the submission to the end of the thread.
Beating(t) == fire[t].at \in {"queued", "waiting", "running", "ran", "marking", "marked"}

Attended(t) == fire[t].at = "won" \/ Beating(t)

\* A lease outlives a tick and many heartbeats, unless the machine sleeps.
LeaseExpires(j) ==
  /\ row[j].here = "here" /\ row[j].claim # None /\ ~row[j].late
  /\ IF Attended(row[j].claim) THEN Ill("sleep") ELSE UNCHANGED ills
  /\ row' = [row EXCEPT ![j].late = TRUE]
  /\ UNCHANGED <<threads, proc, tick, command, stamp, history, plan, falls, acts>>

\* renew_job_run_claim()
Heartbeat(t) ==
  /\ Beating(t) /\ Current(t) /\ row[fire[t].job].late
  /\ row' = [row EXCEPT ![fire[t].job].late = FALSE]
  /\ UNCHANGED <<threads, proc, tick, command, stamp, history, bounds>>

-----------------------------------------------------------------------------
(* A tick.                                                                 *)

\* tick() takes the lock and scans (get_due_jobs); with nothing due it returns.
TickStarts(p) ==
  LET due == {j \in Jobs : Claimable(p, j, row[j].at)} IN
  /\ proc[p] /\ p \in plan.ticks /\ tick.by = NoProc
  /\ due # {}
  /\ tick' = [NoTick EXCEPT !.by = p, !.todo = {<<j, row[j].at>> : j \in due}]
  /\ UNCHANGED <<row, threads, proc, command, stamp, history, bounds>>

\* A candidate of the scan becomes a claim, unless it runs here or has changed.
TickClaims(j, at) ==
  LET p == tick.by
      rest == [tick EXCEPT !.todo = @ \ {<<j, at>>}]
  IN /\ <<j, at>> \in tick.todo
     /\ IF j \notin running[p] /\ Claimable(p, j, at)
        THEN \E t \in Fires :
               /\ ClaimForFire(t, p, j)
               /\ tick' = [rest EXCEPT !.won = @ \union {t}]
        ELSE tick' = rest /\ UNCHANGED <<row, fire, stamp, replaced>>
     /\ UNCHANGED <<running, cwd, proc, command, recorded, bounds>>

\* The tick is left by an exception; what it has claimed and not submitted stays claimed.
Abandon(f) == [u \in Fires |-> IF u \in tick.won /\ f[u].at = "won"
                               THEN [f[u] EXCEPT !.at = "forsaken"] ELSE f[u]]

TickClaimFails(j, at) ==
  /\ <<j, at>> \in tick.todo /\ Ill("disk")
  /\ j \notin running[tick.by] /\ Claimable(tick.by, j, at)
  /\ fire' = Abandon(fire) /\ tick' = NoTick
  /\ UNCHANGED <<row, running, cwd, proc, command, stamp, history, plan, falls, acts>>

Dir(t) == plan.dir[fire[t].job]

\* Jobs with a workdir are submitted first.
Submits(t) ==
  /\ tick.todo = {} /\ t \in tick.won
  /\ Dir(t) \/ \A u \in tick.won : ~Dir(u)

\* _submit_with_guard()
TickSubmits(t) ==
  LET p == tick.by
      j == fire[t].job
      rest == [tick EXCEPT !.won = @ \ {t}]
  IN /\ Submits(t)
     /\ IF j \in running[p]
        THEN /\ row' = ReleasedClaim(t)
             /\ fire' = [fire EXCEPT ![t].at = "released"]
             /\ tick' = rest /\ UNCHANGED running
        ELSE /\ running' = [running EXCEPT ![p] = @ \union {j}]
             /\ fire' = [fire EXCEPT ![t].at = "queued"]
             /\ tick' = [rest EXCEPT !.mine = IF p \in plan.sync THEN @ \union {t} ELSE @]
             /\ UNCHANGED row
     /\ UNCHANGED <<cwd, proc, command, stamp, history, bounds>>

\* The pool refuses: the claim is given back, and the exception ends the tick.
TickSubmitFails(t) ==
  /\ Submits(t) /\ fire[t].job \notin running[tick.by] /\ Ill("submit")
  /\ row' = ReleasedClaim(t)
  /\ fire' = Abandon([fire EXCEPT ![t].at = "released"])
  /\ tick' = NoTick
  /\ UNCHANGED <<running, cwd, proc, command, stamp, history, plan, falls, acts>>

\* The heartbeat cannot be started: the exception ends the tick, the job stays in
\* _running_job_ids.
TickHeartbeatFails(t) ==
  /\ Submits(t) /\ fire[t].job \notin running[tick.by] /\ Ill("submit")
  /\ running' = [running EXCEPT ![tick.by] = @ \union {fire[t].job}]
  /\ fire' = Abandon([fire EXCEPT ![t].at = "forsaken"])
  /\ tick' = NoTick
  /\ UNCHANGED <<row, cwd, proc, command, stamp, history, plan, falls, acts>>

\* A manual tick waits for its jobs before it gives the lock back.
TickEnds ==
  /\ tick.by # NoProc /\ tick.todo = {} /\ tick.won = {}
  /\ \A t \in tick.mine : fire[t].at \in {"over", "forsaken"}
  /\ tick' = NoTick
  /\ UNCHANGED <<row, threads, proc, command, stamp, history, bounds>>

-----------------------------------------------------------------------------
(* The thread of a fire.                                                   *)

Advances(t, at) == fire' = [fire EXCEPT ![t].at = at]

\* The fires of t's process at one of the phases.
Beside(t, phases) ==
  {u \in Fires \ {t} : fire[u].proc = fire[t].proc /\ fire[u].at \in phases}

\* A scheduled job with a workdir waits for the one worker of the sequential pool.
WorkerFree(t) ==
  fire[t].how = "tick" /\ Dir(t) =>
    \A u \in Beside(t, {"queued", "waiting", "running", "ran", "marking", "marked"}) :
      fire[u].how = "tick" /\ Dir(u) => u > t /\ fire[u].at = "queued"

\* run_job() notes TERMINAL_CWD and asks for the lock.
AsksForCwd(t) ==
  /\ fire[t].at = "queued" /\ WorkerFree(t)
  /\ fire' = [fire EXCEPT ![t].at = "waiting", ![t].was = cwd[fire[t].proc]]
  /\ UNCHANGED <<row, running, cwd, proc, tick, command, stamp, history, bounds>>

\* Seeded fault: a writer waits for the readers only.
CwdFreeForWriters(t) ==
  \A u \in Beside(t, {"waiting", "running"}) :
    IF Dir(t) THEN fire[u].at = "running" => Dir(u) ELSE ~Dir(u)

\* acquire_write() and acquire_read() of _ReadWriteLock
CwdFree(t) ==
  IF Dir(t) THEN Beside(t, {"running"}) = {}
  ELSE \A u \in Beside(t, {"waiting", "running"}) : ~Dir(u)

RunStarts(t) ==
  /\ fire[t].at = "waiting" /\ CwdFree(t)
  /\ Advances(t, "running")
  /\ cwd' = IF Dir(t) THEN [cwd EXCEPT ![fire[t].proc] = fire[t].job] ELSE cwd
  /\ UNCHANGED <<row, running, proc, tick, command, stamp, history, bounds>>

\* The finally of run_job().
CwdRestored(t) ==
  IF Dir(t) THEN [cwd EXCEPT ![fire[t].proc] = fire[t].was] ELSE cwd

RunEnds(t) ==
  /\ fire[t].at = "running" /\ cwd' = CwdRestored(t)
  /\ \/ Advances(t, "ran") /\ UNCHANGED ills
     \/ Advances(t, "marking") /\ Ill("raise")
  /\ UNCHANGED <<row, running, proc, tick, command, stamp, history, plan, falls, acts>>

\* run_one_job() discards the result of a claim that is no longer its own.
ChecksClaim(t) ==
  /\ fire[t].at = "ran"
  /\ Advances(t, IF Current(t) THEN "marking" ELSE "marked")
  /\ UNCHANGED <<row, running, cwd, proc, tick, command, stamp, history, bounds>>

\* mark_job_run()
Marks(t) ==
  /\ fire[t].at = "marking" /\ Advances(t, "marked")
  /\ IF Current(t)
     THEN /\ row' = [row EXCEPT ![fire[t].job] = Completed(@)]
          /\ recorded' = recorded \union {t}
     ELSE UNCHANGED <<row, recorded>>
  /\ UNCHANGED <<running, cwd, proc, tick, command, stamp, replaced, bounds>>

\* Seeded fault: the job stays in _running_job_ids.
LeftRunningForGood(t) == running

\* The finally of the pool's thread, or of _execute_job_now().
LeftRunning(t) ==
  IF fire[t].how = "tick"
  THEN [running EXCEPT ![fire[t].proc] = @ \ {fire[t].job}] ELSE running

ThreadEnds(t) ==
  /\ fire[t].at = "marked" /\ Advances(t, "over")
  /\ running' = LeftRunning(t)
  /\ UNCHANGED <<row, cwd, proc, tick, command, stamp, history, bounds>>

\* What run_one_job() does not catch: SystemExit out of the agent; a file that cannot be written
\* when the result is marked, and again when the error is.
ThreadFails(t) ==
  /\ \/ fire[t].at = "running" /\ cwd' = CwdRestored(t) /\ Ill("exit")
     \/ fire[t].at = "marking" /\ Current(t) /\ UNCHANGED cwd /\ Ill("disk")
  /\ Advances(t, "forsaken")
  /\ running' = LeftRunning(t)
  /\ UNCHANGED <<row, proc, tick, command, stamp, history, plan, falls, acts>>

\* The process dies, with its threads and its locks; one that ticks is left, or started anew.
Crash(p) ==
  /\ proc[p] /\ (\E q \in plan.ticks \ {p} : proc[q]) /\ Ill("crash")
  /\ proc' = [proc EXCEPT ![p] = FALSE]
  /\ fire' = [t \in Fires |-> IF fire[t].proc = p /\ fire[t].at \notin {"over", "released"}
                              THEN [fire[t] EXCEPT !.at = "dead"] ELSE fire[t]]
  /\ running' = [running EXCEPT ![p] = {}]
  /\ cwd' = [cwd EXCEPT ![p] = NoJob]
  /\ tick' = IF tick.by = p THEN NoTick ELSE tick
  /\ UNCHANGED <<row, command, stamp, history, plan, falls, acts>>

-----------------------------------------------------------------------------
(* An operator: the cronjob tool, the command line.                        *)

Command(op) == op \in plan.ops /\ acts < plan.acts /\ acts' = acts + 1

CreateJob(j) ==
  /\ Command("create") /\ row[j].here = "new"
  /\ row' = [row EXCEPT ![j].here = "here", ![j].at = stamp + 1, ![j].when = stamp + 1]
  /\ stamp' = stamp + 1
  /\ UNCHANGED <<threads, proc, tick, command, history, plan, falls, ills>>

PauseJob(j) ==
  /\ Command("pause") /\ row[j].here = "here"
  /\ row' = [row EXCEPT ![j].on = FALSE, ![j].paused = TRUE]
  /\ UNCHANGED <<threads, proc, tick, command, stamp, history, plan, falls, ills>>

RemoveJob(j) ==
  /\ Command("remove") /\ row[j].here = "here"
  /\ row' = [row EXCEPT ![j].here = "gone"]
  /\ UNCHANGED <<threads, proc, tick, command, stamp, history, plan, falls, ills>>

\* _execute_job_now(), in a thread of p
RunJobNow(p, j) ==
  /\ Command("run") /\ proc[p]
  /\ \E t \in Fires : ClaimForImmediateFire(t, p, j)
  /\ UNCHANGED <<running, cwd, proc, tick, command, recorded, plan, falls, ills>>

\* These commands read the job first, and write under the lock later.
Reads(c) == command.op = "none" /\ row[c.job].here = "here" /\ command' = c

\* resume_job(): the next run by the schedule it has read; the time of a one-shot may be past.
ResumeReads(j) ==
  LET r == row[j] IN
  /\ Command("resume")
  /\ IF r.kind = "every"
     THEN /\ stamp' = stamp + 1
          /\ Reads([NoCommand EXCEPT !.op = "resume", !.job = j, !.at = stamp + 1])
     ELSE /\ \E due \in IF r.at = r.when THEN {r.due} ELSE BOOLEAN :
               Reads([NoCommand EXCEPT !.op = "resume", !.job = j, !.at = r.when, !.due = due])
          /\ UNCHANGED stamp
  /\ UNCHANGED <<row, threads, proc, tick, history, plan, falls, ills>>

\* trigger_job() of the web interface: written like a resume, and due at once.
TriggerReads(j) ==
  /\ Command("trigger") /\ stamp' = stamp + 1
  /\ Reads([NoCommand EXCEPT !.op = "resume", !.job = j, !.at = stamp + 1, !.due = TRUE])
  /\ UNCHANGED <<row, threads, proc, tick, history, plan, falls, ills>>

\* update of the tool: a new schedule, and enabled unless the job was read as paused; the web
\* interface sends the schedule alone.
EditReads(j, kind) ==
  /\ Command("edit")
  /\ \E paused \in {row[j].paused, TRUE} :
       Reads([NoCommand EXCEPT !.op = "edit", !.job = j, !.kind = kind, !.paused = paused])
  /\ UNCHANGED <<row, threads, proc, tick, stamp, history, plan, falls, ills>>

\* update of the tool: a new limit, beside the count that was read.
RepeatReads(j) ==
  /\ Command("repeat")
  /\ Reads([NoCommand EXCEPT !.op = "repeat", !.job = j, !.done = row[j].done])
  /\ UNCHANGED <<row, threads, proc, tick, stamp, history, plan, falls, ills>>

Resumed(r) ==
  [r EXCEPT !.on = TRUE, !.paused = FALSE, !.at = command.at, !.due = command.due]

Edited(r) ==
  LET paused == command.paused /\ r.paused
      new == [r EXCEPT !.kind = command.kind, !.when = stamp + 1,
                       !.on = @ \/ ~command.paused, !.paused = paused]
  IN IF paused THEN new ELSE [new EXCEPT !.at = stamp + 1, !.due = FALSE]

\* update_job()
UpdateJob ==
  LET j == command.job IN
  /\ command.op # "none" /\ command' = NoCommand
  /\ IF row[j].here # "here" THEN UNCHANGED <<row, stamp>>
     ELSE \/ /\ command.op = "resume" /\ row' = [row EXCEPT ![j] = Resumed(@)]
             /\ UNCHANGED stamp
          \/ /\ command.op = "edit" /\ row' = [row EXCEPT ![j] = Edited(@)]
             /\ stamp' = stamp + 1
          \/ /\ command.op = "repeat" /\ UNCHANGED stamp
             /\ \E n \in {0, 2} :
                  row' = [row EXCEPT ![j].times = n, ![j].done = command.done]
  /\ UNCHANGED <<threads, proc, tick, history, bounds>>

-----------------------------------------------------------------------------
TickGoesOn ==
  \/ \E j \in Jobs, at \in 0 .. stamp : TickClaims(j, at)
  \/ \E t \in Fires : TickSubmits(t)
  \/ TickEnds

ThreadStep(t) ==
  AsksForCwd(t) \/ RunStarts(t) \/ RunEnds(t) \/ ChecksClaim(t) \/ Marks(t) \/ ThreadEnds(t)

OperatorStep ==
  \/ \E j \in Jobs : \/ CreateJob(j) \/ PauseJob(j) \/ RemoveJob(j)
                     \/ ResumeReads(j) \/ TriggerReads(j) \/ RepeatReads(j)
                     \/ \E kind \in Kinds : EditReads(j, kind)
                     \/ \E p \in Procs : RunJobNow(p, j)

CronNext ==
  \/ \E j \in Jobs : FallsDue(j) \/ LeaseExpires(j)
  \/ \E t \in Fires : \/ ThreadStep(t) \/ Heartbeat(t) \/ ThreadFails(t)
                        \/ TickSubmitFails(t) \/ TickHeartbeatFails(t)
  \/ \E j \in Jobs, at \in 0 .. stamp : TickClaimFails(j, at)
  \/ \E p \in Procs : TickStarts(p) \/ Crash(p)
  \/ TickGoesOn \/ OperatorStep \/ UpdateJob

CronSpec == Init /\ [][CronNext]_vars

\* Some process ticks, a tick goes on, a job ends, a lease nobody renews runs out.
CronFairSpec ==
  /\ CronSpec
  /\ WF_vars(\E p \in Procs : TickStarts(p)) /\ WF_vars(TickGoesOn) /\ WF_vars(UpdateJob)
  /\ \A t \in Fires : WF_vars(ThreadStep(t)) /\ WF_vars(Heartbeat(t))
  /\ \A j \in Jobs : WF_vars(row[j].claim # None /\ ~Attended(row[j].claim) /\ LeaseExpires(j))

-----------------------------------------------------------------------------
(* Properties.                                                             *)

\* A job is being carried out, from its claim to the mark.
Executing(t) == fire[t].at \in {"won", "queued", "waiting", "running", "ran", "marking"}

\* A job is never carried out twice at once, as long as the processes can see one another: not
\* by two ticks, by a tick and a run by hand, after a sleep, or after the crash of another
\* (claim_job_for_fire, _run_claim_is_active).
NoOverlap ==
  plan.together =>
    \A t, u \in Fires : Executing(t) /\ Executing(u) /\ fire[t].job = fire[u].job => t = u

\* A worker whose claim another has taken records nothing, wherever the two run
\* (job_run_claim_is_current, mark_job_run).
StolenStaysSilent == replaced \intersect recorded = {}

\* One time of the schedule starts one run.  It starts another only of a one-shot, and only when
\* the claim of the first was taken without a result: a crash never repeats a recurring job.
FiredOnce ==
  \A t, u \in Fires :
    /\ t < u /\ fire[u].at # "none" /\ fire[t].at # "released"
    /\ fire[t].job = fire[u].job /\ fire[t].slot = fire[u].slot
    => t \in replaced /\ t \notin recorded /\ fire[u].kind = "once"

\* A job with a workdir works in its own (_ReadWriteLock).
WorkdirIsOwn ==
  \A t \in Fires : fire[t].at = "running" /\ Dir(t) => cwd[fire[t].proc] = fire[t].job

\* A job without a workdir never works in that of another.
WorkdirStaysPrivate ==
  \A t \in Fires : fire[t].at = "running" /\ ~Dir(t) => cwd[fire[t].proc] = NoJob

Owed(j) == row[j].here = "here" /\ row[j].on /\ row[j].due

\* Claimed for a thread that is gone, by a process that is not.
Forsaken(j) ==
  LET t == row[j].claim IN t # None /\ fire[t].at = "forsaken" /\ proc[fire[t].proc]

\* A job does not stay due: a recurring one until it is claimed, which moves it on
\* (claim_job_for_fire, at most once: a run that crashes afterwards is lost), a one-shot until
\* a run of it is recorded, whoever crashes; unless its claim is forsaken.  And what is claimed
\* is carried out to the end, past the lock of TERMINAL_CWD and the one worker of the sequential
\* pool, unless the tick or the thread fails or the process dies.
DueJobsAreServed ==
  /\ \A j \in Jobs : Owed(j) ~> ~Owed(j) \/ Forsaken(j)
  /\ \A t \in Fires : Executing(t) ~> fire[t].at \in {"over", "released", "forsaken", "dead"}

\* A job is in _running_job_ids only for a fire that goes on (scheduler.py:1712 says that the
\* membership is released in the finally of the worker).
RunningIsReal ==
  \A p \in Procs : \A j \in running[p] :
    \E t \in Fires : fire[t].job = j /\ fire[t].proc = p /\ fire[t].how = "tick" /\ Beating(t)

\* No claim is left behind in a process that lives on.
NoneForsaken == \A j \in Jobs : row[j].here = "here" => ~Forsaken(j)

\* A new time given to a one-shot while it runs is not thrown away with the old one.
EditsSurvive ==
  [][\A t \in recorded' \ recorded :
       LET r == row[fire[t].job] IN
       r.kind = "once" /\ r.at # fire[t].slot
         => row'[fire[t].job].here = "here" /\ row'[fire[t].job].at = r.at]_vars

\* The count of a job is the count of its recorded runs.
RunsCounted == [][\A j \in Jobs : row'[j].done >= row[j].done]_vars

\* A paused job is not made to run by a change that did not know of the pause.
PauseHolds ==
  [][\A j \in Jobs : row[j].paused /\ command.op = "edit" /\ command' = NoCommand
       => row'[j].paused]_vars
===============================================================================
