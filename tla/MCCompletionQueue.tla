------------------------- MODULE MCCompletionQueue -------------------------
(* Small instances of CompletionQueue: conversations "a" and "b", the first with
   two session objects, one after the other; the second process is b's. *)
EXTENDS CompletionQueue

CONSTANTS p1, p2, p3, d1, d2

MCKey == [s \in {"a1", "a2", "b1"} |-> IF s = "b1" THEN "b" ELSE "a"]
MCOwnerKey == [e \in Procs \cup Delegs |-> IF e = p2 THEN "b" ELSE "a"]

Scene(atStart, opened, started, events, userTurns, restarts, failures, closes) ==
  [first |-> atStart, later |-> opened, work |-> started, posts |-> events,
   turns |-> userTurns, crashes |-> restarts, faults |-> failures, close |-> closes]

\* Completions of processes beside a second conversation; delegations of a conversation
\* that is closed and resumed; two sessions with a turn each; terminal events with a
\* close and resume, a crash, and a process beside them.
MCScenarios == {
  Scene({"a1"}, {}, {p1, p2}, 0, 1, 0, 1, TRUE),
  Scene({"a1", "b1"}, {}, {p1, p2}, 0, 0, 0, 0, TRUE),
  Scene({"a1", "b1"}, {}, {p1}, 0, 1, 0, 1, TRUE),
  Scene({"a1"}, {"a2"}, {d1, d2}, 0, 1, 0, 0, TRUE),
  Scene({"a1", "b1"}, {"a2"}, {d1}, 0, 1, 0, 1, TRUE),
  Scene({"a1", "b1"}, {}, {d1}, 0, 2, 0, 1, FALSE),
  Scene({"a1"}, {"a2"}, {}, 1, 1, 1, 0, TRUE),
  Scene({"a1"}, {}, {}, 2, 0, 0, 0, TRUE),
  Scene({"a1"}, {}, {}, 2, 1, 1, 1, FALSE),
  Scene({"a1"}, {}, {p1}, 1, 1, 0, 1, TRUE)}

\* For the statements the code does not satisfy.
Raises == {Scene({"a1"}, {}, {p1}, 0, 1, 0, 1, TRUE)}
ThreeWaiting == {Scene({"a1"}, {}, {p1, p2, p3}, 0, 1, 0, 0, FALSE)}
Beside == {Scene({"a1", "b1"}, {}, {d1}, 0, 2, 0, 0, FALSE)}
Resumed == {Scene({"a1", "b1"}, {"a2"}, {d1}, 0, 1, 0, 0, TRUE)}
EventInTurn == {Scene({"a1"}, {}, {}, 1, 1, 0, 0, FALSE)}
TwoEvents == {Scene({"a1"}, {}, {}, 2, 0, 0, 0, FALSE)}
EventAtClose == {Scene({"a1"}, {}, {}, 1, 0, 0, 0, TRUE)}
=============================================================================
