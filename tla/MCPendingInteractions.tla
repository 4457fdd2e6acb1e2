----------------------- MODULE MCPendingInteractions -----------------------
(* Small instances of PendingInteractions. *)
EXTENDS PendingInteractions

CONSTANTS t1, t2, b1, p1, p2   \* of a turn's browser, of background work, of tools

MCMode == [q \in Questions |-> IF q \in {t1, t2} THEN "turn" ELSE IF q = b1 THEN "live" ELSE "plain"]

Scene(asked, atOnce, userTurns, userCalls, losses, closes) ==
  [questions |-> asked, open |-> atOnce, turns |-> userTurns, calls |-> userCalls,
   disconnects |-> losses, close |-> closes]

\* One question or two, one after the other or at once, with lost connections, with two
\* calls (an answer, a Stop or a prompt that replaces the turn), or with a close; three at
\* once.
MCScenarios == {
  Scene({t1}, 1, 2, 2, 2, FALSE),
  Scene({t1, p1}, 1, 2, 1, 1, FALSE),
  Scene({t1, p1}, 2, 1, 1, 1, FALSE),
  Scene({t1, p1}, 2, 1, 2, 0, FALSE),
  Scene({t1, b1, p1}, 2, 1, 1, 0, FALSE),
  Scene({b1, p1}, 2, 1, 1, 0, TRUE),
  Scene({t1, b1}, 2, 1, 1, 0, TRUE)}

\* For the statements the code does not satisfy.
TwoTools == {Scene({p1, p2}, 2, 1, 0, 0, FALSE)}
TwoAtResume == {Scene({t1, t2}, 2, 1, 0, 1, FALSE)}
LostResolution == {Scene({t1, p1}, 1, 1, 0, 1, FALSE)}
Background == {Scene({b1}, 1, 1, 0, 0, FALSE)}
AfterClose == {Scene({p2}, 1, 1, 0, 0, TRUE)}
AskedInStop == {Scene({p2}, 1, 1, 1, 0, FALSE)}
=============================================================================
