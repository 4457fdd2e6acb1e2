--------------------------- MODULE ControlBoundary ---------------------------
(***************************************************************************)
(* Handing the page back to the user                                       *)
(* (apps/desktop/electron/browser-runtime/rpc-server.cjs, dispatch of      *)
(* programStop, programHandoff and endControl).                            *)
(*                                                                         *)
(* Control requests do not queue.  They fence the session, stop its        *)
(* program, wait for the work that was accepted before, and only then end  *)
(* the control lease of the agent.  A handoff that has waited its budget   *)
(* answers at once and leaves the release to the background.               *)
(*                                                                         *)
(* All waits have the same budget, so their timers fire in the order in    *)
(* which they were set; the protocol drain before a release is bounded by  *)
(* a shorter time.  `waits' is that order; time itself is not modelled.    *)
(*                                                                         *)
(* The fence of an effect that outlives its wrapper is named by its call,  *)
(* the fence of a boundary by its request.                                 *)
(***************************************************************************)
EXTENDS BrowserTaskLimiter, Subsequences, SequencesExt

CONSTANTS
  Boundaries,      \* programHandoff and endControl requests
  ProgramCalls     \* the calls that are executeProgram and may ask for steps

ASSUME BoundaryAssumption ==
  /\ Calls \cup Boundaries \subseteq Fences
  /\ Calls \cap Boundaries = {}
  /\ ProgramCalls \subseteq Calls
  /\ Sessions \cap Boundaries = {}

VARIABLES
  control,   \* _controlStates; a lease is named by the call that began it
  stopped,   \* programs whose terminal result is set
  bstate,    \* where a boundary request stands
  bsess,     \* its session
  bid,       \* the control id it is to end, 0 for none
  accepted,  \* history: the calls accepted before it whose work was not over
  settling,  \* the handoffs answered with controlSettling
  release,   \* pendingControlReleases
  waits      \* timers of waits and drains, in the order in which they were set

boundaryVars == <<bstate, bsess, bid, accepted, settling>>
controlVars  == <<control, stopped, boundaryVars, release, waits>>
allVars      == <<vars, controlVars>>

Ids == 0..MaxCalls

NoRelease == [stage |-> "none", id |-> 0, owed |-> {}]

Stages ==
  { "idle",      \* not made yet
    "handing",   \* programHandoff in waitForAcceptedSessionWork
    "draining",  \* programHandoff in the protocol drain of endControl
    "ending",    \* endControl in waitForAcceptedSessionWork
    "cleaning",  \* endControl after retiring the lease, awaiting the visuals
    "leaving",   \* the result is known, the fence is to be released
    "answered" }

ControlTypeOK ==
  /\ control \in [Sessions -> [id : Ids, active : BOOLEAN]]
  /\ stopped \subseteq Calls
  /\ bstate \in [Boundaries -> Stages]
  /\ bsess \in [Boundaries -> Sessions \cup {NoSession}]
  /\ bid \in [Boundaries -> Ids]
  /\ accepted \in [Boundaries -> SUBSET Calls]
  /\ settling \subseteq Boundaries
  /\ release \in [Sessions -> [stage : {"none", "waiting", "draining"},
                               id : Ids, owed : SUBSET Calls]]
  /\ waits \in Seq(Boundaries \cup Sessions)

ControlInit ==
  /\ Init
  /\ control = [s \in Sessions |-> [id |-> 0, active |-> FALSE]]
  /\ stopped = {}
  /\ bstate = [b \in Boundaries |-> "idle"]
  /\ bsess = [b \in Boundaries |-> NoSession]
  /\ bid = [b \in Boundaries |-> 0]
  /\ accepted = [b \in Boundaries |-> {}]
  /\ settling = {}
  /\ release = [s \in Sessions |-> NoRelease]
  /\ waits = <<>>

-----------------------------------------------------------------------------
(* Calls and programs *)

\* The lease `id' is the one in force.
InForce(s, id) == control[s].active /\ control[s].id = id

\* programRunner.stop: the programs of s that run get their terminal result.
Stopping(s) ==
  {c \in Calls : sess[c] = s /\ withLease[c] /\ phase[c] = "running"}

CallStarts(c) ==
  /\ Start(c)
  /\ UNCHANGED <<control, stopped, boundaryVars, release, waits>>

\* assertProgramControl: a program that names a lease which is not in force ends
\* before its first step.
ProgramTurnedAway(c) ==
  /\ Start(c)
  /\ withLease[c]
  /\ \E id \in Ids \ {0} : ~InForce(sess[c], id)
  /\ stopped' = stopped \cup {c}
  /\ UNCHANGED <<control, boundaryVars, release, waits>>

\* A beginControl call sets the lease in the turn in which it starts.
BeginControl(c) ==
  /\ Start(c)
  /\ ~withLease[c] /\ ~closed
  /\ control' = [control EXCEPT ![sess[c]] = [id |-> c, active |-> TRUE]]
  /\ UNCHANGED <<stopped, boundaryVars, release, waits>>

\* The page did not arm the intervention watch: beginControl takes it back.
ArmingFails(c) ==
  /\ phase[c] = "running" \/ settlement[c] = "pending"
  /\ InForce(sess[c], c)
  /\ control' = [control EXCEPT ![sess[c]].active = FALSE]
  /\ UNCHANGED <<vars, stopped, boundaryVars, release, waits>>

\* A stopped program sends no request.
ProgramRequestsStep(c) ==
  /\ c \in ProgramCalls \ stopped
  /\ ExecuteWithinLease(c)
  /\ UNCHANGED controlVars

\* The call or its current step is touching the page.
Touching(c) ==
  \/ phase[c] = "running" /\ ~withLease[c]
  \/ lease[c].head = "running"

\* A timeout or intervention wrapper leaves the effect to a fence.
GivesUp(c) ==
  /\ Touching(c)
  /\ BlockSessionUntil(sess[c], c, "pending")
  /\ UNCHANGED controlVars

FencedEffectSettles(c) ==
  /\ ReleaseSessionBlock(c)
  /\ UNCHANGED controlVars

SchedulerTurn(c) ==
  /\ \/ TaskReturns(c)
     \/ LeaseDrained(c)
     \/ Release(c)
     \/ StepTurn(c)
     \/ StepBegins(c)
     \/ StepSettles(c)
  /\ UNCHANGED controlVars

\* Requests and events come in turns of their own, after the microtasks in which
\* calls that were given a slot start.
BetweenTurns == \A c \in Calls : phase[c] # "slotted"

\* programStop, or the listeners of USER_INTERVENED.
StopProgram(s) ==
  /\ BetweenTurns
  /\ CancelQueuedSession(s)
  /\ stopped' = stopped \cup Stopping(s)
  /\ UNCHANGED <<control, boundaryVars, release, waits>>

-----------------------------------------------------------------------------
(* The requests *)

Without(w) == Among(waits, (Boundaries \cup Sessions) \ {w})

Unsettled(c) == HoldsSlot(c) \/ settlement[c] = "pending"

\* Cancel the queue, raise the fence, stop the program, start to wait.
Arrives(b, s, id, stage) ==
  /\ BetweenTurns
  /\ bstate[b] = "idle"
  /\ BlockSessionUntil(s, b, "pending")
  /\ stopped' = stopped \cup Stopping(s)
  /\ bstate' = [bstate EXCEPT ![b] = stage]
  /\ bsess' = [bsess EXCEPT ![b] = s]
  /\ bid' = [bid EXCEPT ![b] = id]
  /\ accepted' = [accepted EXCEPT ![b] = {c \in Calls : sess[c] = s /\ Unsettled(c)}]
  /\ waits' = Append(waits, b)
  /\ UNCHANGED <<control, settling, release>>

\* The callers of programHandoff (tools/browser_program_tool.py) name no lease: it
\* is the one the server finds, active or not.
Handoff(b, s) == Arrives(b, s, control[s].id, "handing")

\* The caller names a lease it has begun.
EndControl(b, s) ==
  \E id \in Ids \ {0} : id <= control[s].id /\ Arrives(b, s, id, "ending")

\* Seeded fault: the wait looks at the slot only.
IdleButFenced(s) == s \notin activeSessions

\* waitForAcceptedSessionWork finds the session idle, the fences of boundaries
\* (controlBoundaryTokens) apart.
Idle(s) == s \notin activeSessions /\ blockedSessions[s] \subseteq Boundaries

\* endControl ends the lease and publishes it: queued work is rejected and the
\* program stopped.
Retire(s) ==
  /\ control' = [control EXCEPT ![s].active = FALSE]
  /\ CancelQueuedSession(s)
  /\ stopped' = stopped \cup Stopping(s)

NothingRetired == UNCHANGED <<vars, control, stopped>>

Proceed(b, stage) == bstate' = [bstate EXCEPT ![b] = stage]

\* endProgramControl compares the lease and awaits the protocol drain.
HandoffWaitEnds(b) ==
  /\ bstate[b] = "handing"
  /\ Idle(bsess[b])
  /\ IF InForce(bsess[b], bid[b])
     THEN Proceed(b, "draining") /\ waits' = Append(Without(b), b)
     ELSE Proceed(b, "leaving") /\ waits' = Without(b)
  /\ NothingRetired
  /\ UNCHANGED <<bsess, bid, accepted, settling, release>>

\* The lease may have changed during the drain.
HandoffDrained(b) ==
  /\ bstate[b] = "draining"
  /\ IF InForce(bsess[b], bid[b]) THEN Retire(bsess[b]) ELSE NothingRetired
  /\ Proceed(b, "leaving")
  /\ waits' = Without(b)
  /\ UNCHANGED <<bsess, bid, accepted, settling, release>>

\* Seeded fault: the deferred release has a shorter budget than the waits.
FirstOut(w) == waits # <<>>

\* The timer of w is the next to fire.
FirstDue(w) == waits # <<>> /\ Head(waits) = w

\* finishProgramControlRelease: one pending release per session, later requests
\* join it.
DeferRelease(b, s) ==
  IF release[s].stage = "none" /\ ~closed
  THEN /\ release' = [release EXCEPT
             ![s] = [stage |-> "waiting", id |-> bid[b], owed |-> accepted[b]]]
       /\ waits' = Append(Without(b), s)
  ELSE /\ UNCHANGED release
       /\ waits' = Without(b)

\* Seeded fault: the handoff awaits the release it has deferred.
HandoffTimesOutAwaiting(b) ==
  /\ bstate[b] = "handing"
  /\ FirstDue(b)
  /\ ~Idle(bsess[b])
  /\ DeferRelease(b, bsess[b])
  /\ settling' = settling \cup {b}
  /\ NothingRetired
  /\ UNCHANGED <<bstate, bsess, bid, accepted>>

HandoffTimesOut(b) ==
  /\ bstate[b] = "handing"
  /\ FirstDue(b)
  /\ ~Idle(bsess[b])
  /\ DeferRelease(b, bsess[b])
  /\ Proceed(b, "leaving")
  /\ settling' = settling \cup {b}
  /\ NothingRetired
  /\ UNCHANGED <<bsess, bid, accepted>>

\* The endControl of the runtime retires the lease before it awaits anything.
EndWaitEnds(b) ==
  /\ bstate[b] = "ending"
  /\ Idle(bsess[b])
  /\ IF InForce(bsess[b], bid[b])
     THEN Proceed(b, "cleaning") /\ control' = [control EXCEPT ![bsess[b]].active = FALSE]
     ELSE Proceed(b, "leaving") /\ UNCHANGED control
  /\ waits' = Without(b)
  /\ UNCHANGED <<vars, stopped, bsess, bid, accepted, settling, release>>

\* The end is published unless a newer lease has begun meanwhile.
EndCleaned(b) ==
  /\ bstate[b] = "cleaning"
  /\ IF control[bsess[b]].id = bid[b] THEN Retire(bsess[b]) ELSE NothingRetired
  /\ Proceed(b, "leaving")
  /\ UNCHANGED <<bsess, bid, accepted, settling, release, waits>>

EndTimesOut(b) ==
  /\ bstate[b] = "ending"
  /\ FirstDue(b)
  /\ ~Idle(bsess[b])
  /\ Proceed(b, "leaving")
  /\ waits' = Without(b)
  /\ NothingRetired
  /\ UNCHANGED <<bsess, bid, accepted, settling, release>>

\* boundary.release(), in every case.
Leaves(b) ==
  /\ bstate[b] = "leaving"
  /\ ReleaseSessionBlock(b)
  /\ Proceed(b, "answered")
  /\ UNCHANGED <<control, stopped, bsess, bid, accepted, settling, release, waits>>

-----------------------------------------------------------------------------
(* The deferred release *)

\* Seeded fault: the promise that is over stays in the map.
EndedKept(s) == release' = [release EXCEPT ![s].stage = "ended"]

Ended(s) == release' = [release EXCEPT ![s] = NoRelease]

ReleaseWaitEnds(s) ==
  /\ release[s].stage = "waiting"
  /\ Idle(s)
  /\ IF ~closed /\ InForce(s, release[s].id)
     THEN /\ release' = [release EXCEPT ![s].stage = "draining"]
          /\ waits' = Append(Without(s), s)
     ELSE Ended(s) /\ waits' = Without(s)
  /\ NothingRetired
  /\ UNCHANGED boundaryVars

\* Another round of the loop, unless the lease is no longer the one to end.
ReleaseWaitTimesOut(s) ==
  /\ release[s].stage = "waiting"
  /\ FirstDue(s)
  /\ ~Idle(s)
  /\ IF ~closed /\ control[s].active /\ release[s].id \in {0, control[s].id}
     THEN UNCHANGED release /\ waits' = Append(Without(s), s)
     ELSE Ended(s) /\ waits' = Without(s)
  /\ NothingRetired
  /\ UNCHANGED boundaryVars

ReleaseDrained(s) ==
  /\ release[s].stage = "draining"
  /\ IF InForce(s, release[s].id) THEN Retire(s) ELSE NothingRetired
  /\ Ended(s)
  /\ waits' = Without(s)
  /\ UNCHANGED boundaryVars

-----------------------------------------------------------------------------
CallArrives ==
  /\ \E s \in Sessions, leased \in BOOLEAN : Enqueue(s, leased) \/ EnqueueRefused(s, leased)
  /\ UNCHANGED controlVars

\* programRunner.close() and limiter.close().
ShutDown ==
  /\ Close
  /\ stopped' = stopped \cup UNION {Stopping(s) : s \in Sessions}
  /\ UNCHANGED <<control, boundaryVars, release, waits>>

CallTurn(c) ==
  CallStarts(c) \/ ProgramTurnedAway(c) \/ BeginControl(c) \/ SchedulerTurn(c)

\* What timers, the drain (it has a time limit) and microtasks bring about.
BoundaryTurn(b) ==
  \/ HandoffWaitEnds(b)
  \/ HandoffDrained(b)
  \/ HandoffTimesOut(b)
  \/ EndWaitEnds(b)
  \/ EndCleaned(b)
  \/ EndTimesOut(b)
  \/ Leaves(b)

ReleaseTurn(s) ==
  \/ ReleaseWaitEnds(s)
  \/ ReleaseWaitTimesOut(s)
  \/ ReleaseDrained(s)

ControlNext ==
  \/ CallArrives
  \/ \E s \in Sessions : StopProgram(s) \/ ReleaseTurn(s)
  \/ \E c \in Calls :
       \/ CallTurn(c) \/ ArmingFails(c) \/ ProgramRequestsStep(c)
       \/ GivesUp(c) \/ FencedEffectSettles(c)
  \/ \E b \in Boundaries, s \in Sessions : Handoff(b, s) \/ EndControl(b, s)
  \/ \E b \in Boundaries : BoundaryTurn(b)
  \/ ShutDown

ControlSpec == ControlInit /\ [][ControlNext]_allVars

\* Timers fire and the drain and the visual cleanup come to an end.
TimersFair ==
  /\ \A b \in Boundaries : WF_allVars(BoundaryTurn(b))
  /\ \A s \in Sessions : WF_allVars(ReleaseTurn(s))

TimerFairSpec == ControlSpec /\ TimersFair

\* Besides, calls go on and accepted work settles.
WorkSettles == \A c \in Calls : WF_allVars(CallTurn(c)) /\ WF_allVars(FencedEffectSettles(c))

WorkFairSpec == TimerFairSpec /\ WorkSettles

-----------------------------------------------------------------------------
(* Properties *)

Open(b) == bstate[b] \in {"handing", "draining", "ending", "cleaning"}

\* From the end of the wait until its answer a handoff or endControl has the page
\* to itself, across the drain and the cleanup it awaits, and a deferred release ends
\* the lease only after the work its handoff waited for.
PageQuietAtHandover ==
  ~closed =>
    /\ \A b \in Boundaries : bstate[b] \in {"draining", "cleaning"} =>
         \A c \in Calls : sess[c] = bsess[b] => ~Unsettled(c)
    /\ \A s \in Sessions : release[s].stage = "draining" =>
         \A c \in release[s].owed : ~Unsettled(c)

\* Every control request is answered, even if the accepted work never settles.
BoundariesAnswered ==
  \A b \in Boundaries : Open(b) ~> bstate[b] = "answered"

\* The lease a settling handoff named is still in force.
Outstanding(b) ==
  /\ b \in settling
  /\ ~closed
  /\ \E s \in Sessions : bsess[b] = s /\ InForce(s, bid[b])

\* A handoff answered with controlSettling is honoured once the accepted work
\* settles: the lease it named does not stay in force.  Joining an older pending
\* release must not lose it.  (dispatch of programHandoff: `release control
\* asynchronously the instant that action settles'.)
SettlingHandoffHonoured ==
  \A b \in Boundaries : Outstanding(b) ~> ~Outstanding(b)

\* So it is, if the work settles, unless a handoff of a session without any lease was
\* also settling.
NamedHandoffHonoured ==
  WorkSettles =>
    \A b \in Boundaries :
      Outstanding(b) ~> ~Outstanding(b) \/ \E d \in settling : bid[d] = 0

\* The comment in waitForAcceptedSessionWork: native work accepted before a
\* boundary stays authoritative, `never expose the page to the user until it has
\* actually settled'.  (A beginControl that fails may take back its own lease.)
AcceptedWorkFirst ==
  [][\A s \in Sessions :
       LET ends == InForce(s, control[s].id) /\ ~control'[s].active
       IN ends /\ ~closed /\ ~Unsettled(control[s].id) =>
            \A b \in Boundaries : Open(b) /\ bsess[b] = s =>
              \A c \in accepted[b] : ~Unsettled(c)]_allVars
=============================================================================
