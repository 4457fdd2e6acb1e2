---------------------------- MODULE MCGatewayLink ----------------------------
(* Small instances of GatewayLink. *)
EXTENDS GatewayLink

CONSTANTS r1, r2

Scene(asked, failures, signals, goes) ==
  [requests |-> asked, faults |-> failures, wakes |-> signals, unmount |-> goes]

MCScenarios ==
  {Scene({r1, r2}, 1, 0, FALSE), Scene({r1}, 2, 0, FALSE), Scene({r1}, 1, 1, TRUE),
   Scene({}, 3, 1, FALSE)}

\* For the statements the code does not satisfy.
LostInBoot == {Scene({}, 1, 0, FALSE)}
BothReconnect == {Scene({r1}, 1, 0, FALSE)}
==============================================================================
