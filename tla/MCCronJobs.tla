------------------------------ MODULE MCCronJobs ------------------------------
(* Small instances of CronJobs. *)
EXTENDS CronJobs

CONSTANTS j1, j2, j3, p1, p2

\* The one-shots and the recurring jobs among them, those with a workdir, those not created yet.
Base(once, dirs, new) ==
  [kind |-> [j \in Jobs |-> IF j \in once THEN "once" ELSE "every"],
   dir |-> [j \in Jobs |-> j \in dirs],
   times |-> [j \in Jobs |-> IF j \in once THEN 1 ELSE 0],
   new |-> new, ticks |-> Procs, sync |-> {p2}, together |-> TRUE, falls |-> 2,
   ops |-> {}, acts |-> 0, faults |-> {}, ills |-> 0]

With(base, commands, many, wrongs, often) ==
  [base EXCEPT !.ops = commands, !.acts = many, !.faults = wrongs, !.ills = often]

Mixed(new) == Base({j1}, {j2}, new)
Rare(base) == [base EXCEPT !.falls = 1]
BothDirs == [Base({j1}, {j1, j2}, {}) EXCEPT !.sync = {}]
TwoHosts == [Mixed({}) EXCEPT !.together = FALSE]

\* A crash, a sleep, processes of two hosts; a file that cannot be written, a pool that refuses,
\* an agent that raises SystemExit; and every command of an operator.
MCScenarios ==
  { With(Mixed({}), {}, 0, {"crash"}, 1),
    With(Rare(Mixed({})), {"run"}, 1, {"crash", "sleep", "raise"}, 2),
    With(Mixed({}), {}, 0, {"sleep", "raise"}, 1),
    With(Mixed({j2}), {"run"}, 1, {"crash", "sleep", "raise"}, 2),
    With(TwoHosts, {}, 0, {"crash", "sleep"}, 2),
    With(Mixed({}), {}, 0, {"disk", "submit", "exit", "crash"}, 2),
    With(BothDirs, {"run"}, 1, {}, 0),
    With(Mixed({j1}), {"create", "pause", "resume", "remove"}, 2, {}, 0),
    With(Mixed({j2}), {"pause", "edit", "trigger", "run"}, 2, {}, 0),
    With(Mixed({j1}), {"trigger"}, 2, {}, 0),
    With(Rare(Mixed({j1})), {"trigger", "run"}, 2, {}, 0),
    With(Rare(Mixed({j1})), {"repeat", "run"}, 2, {}, 0) }

\* A job with a workdir is run by hand while another is run by the ticker; one without follows.
ByHand ==
  { [With(Base({j1, j2, j3}, {j1, j2}, {}), {"run"}, 1, {}, 0) EXCEPT !.ticks = {p1}] }

\* An edit that read the job before it was paused; one that is written while the job runs; a
\* limit that is changed while a run is recorded; a tick or a thread that ends without a mark.
EditAndPause == { With(Mixed({j1}), {"pause", "edit"}, 2, {}, 0) }
EditWhileRunning == { With(Mixed({j2}), {"edit"}, 1, {}, 0) }
RepeatWhileRunning == { With(Mixed({j1}), {"repeat"}, 1, {}, 0) }
Failing == { With(Mixed({}), {}, 0, {"disk", "submit", "exit"}, 1) }
===============================================================================
