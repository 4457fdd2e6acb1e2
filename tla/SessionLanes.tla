----------------------------- MODULE SessionLanes -----------------------------
(***************************************************************************)
(* What every browser session is promised by the task limiter, whatever    *)
(* the other sessions, the concurrency limit, the fences and close() do:   *)
(* its calls form a lane of their own.  They are served one at a time, in  *)
(* the order in which they arrived; a call leaves either after it was      *)
(* served or because it was turned away, and never comes back.             *)
(*                                                                         *)
(* Calls are numbers, in the order in which they are made.  One section of *)
(* the limiter's code may move several lanes, so a step is a step of each  *)
(* lane, or none.                                                          *)
(***************************************************************************)
EXTENDS Naturals

CONSTANTS Sessions, Calls

VARIABLES
  waiting,   \* of each session, the calls that wait for their turn
  serving,   \* the call that is served: {} or a singleton
  left       \* the calls that were served or turned away

lanes == <<waiting, serving, left>>

Empty == [s \in Sessions |-> {}]

Init == waiting = Empty /\ serving = Empty /\ left = Empty

\* c is a call later than all the lane of s has seen.
Fresh(s, c) == \A d \in waiting[s] \cup serving[s] \cup left[s] : d < c

\* c is the first of the waiting calls.
First(s, c) == c \in waiting[s] /\ \A d \in waiting[s] : c <= d

Lane(s, w, v, l) == waiting'[s] = w /\ serving'[s] = v /\ left'[s] = l

\* A call arrives and is turned away, waits, or finds the lane empty and is
\* served at once.
TurnAway(s, c) ==
  /\ Fresh(s, c)
  /\ Lane(s, waiting[s], serving[s], left[s] \cup {c})

Wait(s, c) ==
  /\ Fresh(s, c)
  /\ Lane(s, waiting[s] \cup {c}, serving[s], left[s])

ServeAtOnce(s, c) ==
  /\ Fresh(s, c)
  /\ waiting[s] = {} /\ serving[s] = {}
  /\ Lane(s, {}, {c}, left[s])

\* The lane is idle and its first call is served.
Serve(s, c) ==
  /\ serving[s] = {}
  /\ First(s, c)
  /\ Lane(s, waiting[s] \ {c}, {c}, left[s])

\* The call being served leaves, and the next may take its place in the same step.
Leave(s) ==
  /\ serving[s] # {}
  /\ Lane(s, waiting[s], {}, left[s] \cup serving[s])

LeaveAndServe(s, c) ==
  /\ serving[s] # {}
  /\ First(s, c)
  /\ Lane(s, waiting[s] \ {c}, {c}, left[s] \cup serving[s])

\* Everything that waits is turned away.
Flush(s) == Lane(s, {}, serving[s], left[s] \cup waiting[s])

Stay(s) == Lane(s, waiting[s], serving[s], left[s])

LaneNext(s) ==
  \/ \E c \in Calls : \/ TurnAway(s, c) \/ Wait(s, c) \/ ServeAtOnce(s, c)
                      \/ Serve(s, c) \/ LeaveAndServe(s, c)
  \/ Leave(s)
  \/ Flush(s)
  \/ Stay(s)

Next == \A s \in Sessions : LaneNext(s)

Spec == Init /\ [][Next]_lanes
=============================================================================
