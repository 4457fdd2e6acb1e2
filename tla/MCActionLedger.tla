---------------------------- MODULE MCActionLedger ----------------------------
(* Small instances of ActionLedger. *)
EXTENDS ActionLedger

\* Fences are named by the executions that raise them.
MCFences == (1..MaxCalls) \X (0..MaxSteps)

CONSTANTS s1, s2, p1, a1, a2, b1

\* One program and two ordinary actions of s1, one ordinary action of s2.
TwoSessions == (p1 :> s1) @@ (a1 :> s1) @@ (a2 :> s1) @@ (b1 :> s2)

\* The actions of s1 only.
OneSession == (p1 :> s1) @@ (a1 :> s1) @@ (a2 :> s1)
===============================================================================
