---------------------------- MODULE MCKanbanBoard ----------------------------
(* Small instances of KanbanBoard. *)
EXTENDS KanbanBoard

CONSTANTS t1, t2

Alone == [t \in Tasks |-> {}]
InTurn == [t \in Tasks |-> IF t = t2 THEN {t1} ELSE {}]

Scene(links, commands, many, wrongs, often) ==
  [parents |-> links, ops |-> commands, acts |-> many, faults |-> wrongs, ills |-> often]

\* Workers that stay silent, that survive their signals, that die before they have reported;
\* a gateway that crashes; spawns that fail; and every command an operator has.
MCScenarios ==
  { Scene(InTurn, {}, 0, {"late", "wedge", "survive"}, 2),
    Scene(InTurn, {}, 0, {"overtime", "survive"}, 2),
    Scene(InTurn, {}, 0, {"die", "exhaust"}, 2),
    Scene(InTurn, {}, 0, {"die", "rate", "workspace"}, 1),
    Scene(InTurn, {}, 0, {"crash", "late", "die", "goal"}, 1),
    Scene(InTurn, {}, 0, {"auth", "workspace"}, 2),
    Scene(InTurn, {"claim", "complete", "block", "unblock", "promote", "archive", "schedule",
                   "unlink", "reclaim"}, 1, {}, 0),
    Scene(InTurn, {"reclaim"}, 1, {"survive"}, 1),
    Scene(Alone, {"link"}, 1, {}, 0) }

\* One worker that exits without a report; one error of authorization; a goal loop whose task
\* is blocked and unblocked under it; a claim from the command line in the middle of a tick.
SilentExit == {Scene(InTurn, {}, 0, {"clean"}, 1)}
Denied == {Scene(InTurn, {}, 0, {"auth"}, 1)}
LateGoal == {Scene(InTurn, {"block", "unblock"}, 2, {"goal"}, 1)}
ClaimInTick == {Scene(InTurn, {"claim", "unblock"}, 2, {"die"}, 2)}
==============================================================================
