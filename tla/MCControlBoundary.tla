-------------------------- MODULE MCControlBoundary --------------------------
(* Small instances of ControlBoundary. *)
EXTENDS ControlBoundary

MCFences == (1..MaxCalls) \cup Boundaries
==============================================================================
