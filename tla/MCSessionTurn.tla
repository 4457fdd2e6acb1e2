---------------------------- MODULE MCSessionTurn ----------------------------
(* Small instances of SessionTurn. *)
EXTENDS SessionTurn

Scene(typed, allowed, exists, stopCalls, goalWishes, failures) ==
  [prompts |-> typed, modes |-> allowed, built |-> exists, stops |-> stopCalls,
   goals |-> goalWishes, faults |-> failures]

\* A failure in each mode; goal continuations in the modes that queue; a Stop in any
\* mode, and with a continuation; three prompts as guidance.
MCScenarios ==
  {Scene({1, 2}, {m}, FALSE, 0, 0, 1) : m \in {"queue", "steer", "interrupt"}}
  \cup {Scene({1, 2}, {m}, TRUE, 0, 1, 0) : m \in {"queue", "interrupt"}}
  \cup {Scene({1, 2}, {"queue", "steer", "interrupt"}, FALSE, 1, 0, 0),
        Scene({1}, {"queue"}, TRUE, 1, 1, 0), Scene({1, 2}, {"queue"}, TRUE, 1, 0, 1), Scene({1, 2, 3}, {"steer"}, TRUE, 0, 0, 0)}

\* For the statements the code does not satisfy.
Replaced == {Scene({1, 2}, {"interrupt"}, TRUE, 0, 0, 0)}
QueuedEarly == {Scene({1, 2}, {"queue"}, FALSE, 1, 0, 0)}
Orphaned == {Scene({1, 2}, {"queue"}, TRUE, 0, 0, 1)}
SteeredLate == {Scene({1, 2}, {"steer"}, TRUE, 1, 0, 0)}
StoppedEarly == {Scene({1, 2}, {"queue"}, TRUE, 1, 0, 0)}
==============================================================================
