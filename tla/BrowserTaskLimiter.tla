------------------------- MODULE BrowserTaskLimiter -------------------------
(***************************************************************************)
(* The admission control of the browser runtime                            *)
(* (apps/desktop/electron/browser-runtime/task-limiter.cjs).               *)
(*                                                                         *)
(* Every browser effect runs inside a call admitted by this limiter: at    *)
(* most one call per browser session, at most MaxConcurrent calls in all,  *)
(* a bounded queue behind them, fences that keep new work away from a      *)
(* session whose last effect has an unknown outcome, and leases through    *)
(* which one long call (a browser program) runs its steps one by one.      *)
(*                                                                         *)
(* JavaScript runs each synchronous section to its end, so an action here  *)
(* is one such section; two sections joined by a promise are two actions.  *)
(*                                                                         *)
(* Calls are numbered in the order in which they reach _enqueue.  The      *)
(* array `queue' is only ever appended to, so the set of queued numbers    *)
(* together with their numeric order is the array.                         *)
(***************************************************************************)
EXTENDS Naturals, FiniteSets

CONSTANTS
  Sessions,        \* browser session ids (keys of activeSessions, blockedSessions)
  NoSession,       \* the session of a call nobody has made yet
  Fences,          \* the opaque tokens blockSessionUntil creates
  MaxConcurrent,   \* limiter option maxConcurrent
  MaxQueued,       \* limiter option maxQueued
  MaxCalls,        \* model bound: how many calls are ever made
  MaxSteps         \* model bound: how many steps one lease is asked for

ASSUME LimiterAssumption ==
  /\ MaxConcurrent \in Nat \ {0}
  /\ MaxQueued \in Nat
  /\ MaxCalls \in Nat
  /\ MaxSteps \in Nat
  /\ IsFiniteSet(Sessions)
  /\ NoSession \notin Sessions

VARIABLES
  closed,          \* this.closed
  active,          \* this.active
  activeSessions,  \* this.activeSessions
  blockedSessions, \* this.blockedSessions, {} for a session without an entry
  queue,           \* this.queue
  calls,           \* how many calls have reached _enqueue
  sess,            \* item.sessionId
  withLease,       \* item.withLease
  phase,           \* where the promise chain of the call stands
  lease,           \* LEASE_STATES of a call that holds a lease
  settlement       \* what became of the promise given to blockSessionUntil

queueVars == <<closed, active, activeSessions, blockedSessions, queue>>
callVars  == <<calls, sess, withLease, phase>>
vars == <<queueVars, callVars, lease, settlement>>

Calls == 1..MaxCalls

Phases ==
  { "unmade",    \* the caller has not called yet
    "queued",    \* in this.queue
    "slotted",   \* taken by _drain, its first microtask has not run
    "running",   \* item.task is executing
    "draining",  \* the task has returned, `await state.tail' has not
    "settled",   \* the caller's promise is settled, the finally is pending
    "over",      \* the slot is released
    "refused" }  \* rejected without a slot

\* The calls that occupy a slot: between _drain and the finally handler.
SlotPhases == {"slotted", "running", "draining", "settled"}

HoldsSlot(c) == phase[c] \in SlotPhases

\* activeLeaseStates: the leases between their creation and the end of the drain.
LeaseActive(c) == withLease[c] /\ phase[c] \in {"running", "draining"}

\* Seeded fault: one fence alone does not count.
FencedTwiceIn(blocked, s) == Cardinality(blocked[s]) > 1

\* blockedSessions.has(s)
FencedIn(blocked, s) == blocked[s] # {}

Blocked(s) == FencedIn(blockedSessions, s)

NoLease == [accepting |-> FALSE, accepted |-> 0, finished |-> 0, head |-> "idle"]

TypeOK ==
  /\ closed \in BOOLEAN
  /\ active \in Nat
  /\ activeSessions \subseteq Sessions
  /\ blockedSessions \in [Sessions -> SUBSET Fences]
  /\ queue \subseteq Calls
  /\ calls \in 0..MaxCalls
  /\ sess \in [Calls -> Sessions \cup {NoSession}]
  /\ withLease \in [Calls -> BOOLEAN]
  /\ phase \in [Calls -> Phases]
  /\ lease \in [Calls -> [accepting : BOOLEAN, accepted : 0..MaxSteps,
                          finished : 0..MaxSteps, head : {"idle", "admitted", "running"}]]
  /\ settlement \in [Fences -> {"unused", "pending", "never", "arrived"}]

Init ==
  /\ closed = FALSE
  /\ active = 0
  /\ activeSessions = {}
  /\ blockedSessions = [s \in Sessions |-> {}]
  /\ queue = {}
  /\ calls = 0
  /\ sess = [c \in Calls |-> NoSession]
  /\ withLease = [c \in Calls |-> FALSE]
  /\ phase = [c \in Calls |-> "unmade"]
  /\ lease = [c \in Calls |-> NoLease]
  /\ settlement = [f \in Fences |-> "unused"]

-----------------------------------------------------------------------------
(* _drain *)

SessionsOf(home, C) == {home[c] : c \in C}

\* Seeded fault: the loop takes the newest.
StartableNewestFirst(q, home, busy, blocked) ==
  {c \in q : /\ home[c] \notin busy
             /\ ~FencedIn(blocked, home[c])
             /\ \A d \in q : home[d] = home[c] => c >= d}

\* The queued calls the loop of _drain may take, when `busy' are the sessions
\* that hold a slot and `home' gives the session of a call: findIndex skips
\* active and blocked sessions, and a call makes its session active, so of each
\* session only the earliest call counts.
Startable(q, home, busy, blocked) ==
  {c \in q : /\ home[c] \notin busy
             /\ ~FencedIn(blocked, home[c])
             /\ \A d \in q : home[d] = home[c] => c <= d}

\* The calls one run of the loop takes: the earliest of them, as many as there
\* are free slots.
Taken(q, home, n, busy, blocked) ==
  LET able == Startable(q, home, busy, blocked)
  IN {c \in able : n + Cardinality({d \in able : d < c}) < MaxConcurrent}

\* _drain on the queue q with n slots in use by the sessions `busy'.  The phases
\* of the calls are `at' before it.
Drain(q, home, n, busy, blocked, at) ==
  LET taken == Taken(q, home, n, busy, blocked)
  IN /\ queue' = q \ taken
     /\ active' = n + Cardinality(taken)
     /\ activeSessions' = busy \cup SessionsOf(home, taken)
     /\ phase' = [c \in Calls |-> IF c \in taken THEN "slotted" ELSE at[c]]

-----------------------------------------------------------------------------
(* run, runWithLease: _enqueue *)

CanStartImmediately(s) == active < MaxConcurrent /\ s \notin activeSessions

Admissible(s) ==
  /\ ~closed
  /\ ~Blocked(s)
  /\ CanStartImmediately(s) \/ Cardinality(queue) < MaxQueued

\* The next call is made, for session s.
Made(s, leased) ==
  /\ calls < MaxCalls
  /\ calls' = calls + 1
  /\ sess' = [sess EXCEPT ![calls + 1] = s]
  /\ withLease' = [withLease EXCEPT ![calls + 1] = leased]
  /\ UNCHANGED <<closed, blockedSessions, lease, settlement>>

Enqueue(s, leased) ==
  /\ Admissible(s)
  /\ Made(s, leased)
  /\ Drain(queue \cup {calls + 1}, sess', active, activeSessions, blockedSessions,
           [phase EXCEPT ![calls + 1] = "queued"])

\* BROWSER_QUEUE_CLOSED, BROWSER_SESSION_ACTION_SETTLING or BROWSER_QUEUE_FULL.
EnqueueRefused(s, leased) ==
  /\ ~Admissible(s)
  /\ Made(s, leased)
  /\ phase' = [phase EXCEPT ![calls + 1] = "refused"]
  /\ UNCHANGED <<active, activeSessions, queue>>

-----------------------------------------------------------------------------
(* The promise chain _drain builds for a call it took *)

\* The first microtask looks at `closed' again, but not at the fences.
Start(c) ==
  /\ phase[c] = "slotted"
  /\ phase' = [phase EXCEPT ![c] = IF closed THEN "settled" ELSE "running"]
  /\ lease' = [lease EXCEPT ![c].accepting = withLease[c] /\ ~closed]
  /\ UNCHANGED <<queueVars, calls, sess, withLease, settlement>>

\* Seeded fault: the tail of the lease is not awaited.
TaskReturnsAtOnce(c) ==
  /\ phase[c] = "running"
  /\ phase' = [phase EXCEPT ![c] = "settled"]
  /\ lease' = [lease EXCEPT ![c].accepting = FALSE]
  /\ UNCHANGED <<queueVars, calls, sess, withLease, settlement>>

\* The task resolves or rejects.  A lease stops accepting before its tail is
\* awaited.
TaskReturns(c) ==
  /\ phase[c] = "running"
  /\ phase' = [phase EXCEPT ![c] = IF withLease[c] THEN "draining" ELSE "settled"]
  /\ lease' = [lease EXCEPT ![c].accepting = FALSE]
  /\ UNCHANGED <<queueVars, calls, sess, withLease, settlement>>

LeaseDrained(c) ==
  /\ phase[c] = "draining"
  /\ lease[c].finished = lease[c].accepted
  /\ phase' = [phase EXCEPT ![c] = "settled"]
  /\ UNCHANGED <<queueVars, calls, sess, withLease, lease, settlement>>

\* Seeded fault: the finally handler frees the slot and leaves the queue alone.
ReleaseWithoutDrain(c) ==
  /\ phase[c] = "settled"
  /\ active' = active - 1
  /\ activeSessions' = activeSessions \ {sess[c]}
  /\ phase' = [phase EXCEPT ![c] = "over"]
  /\ UNCHANGED <<closed, blockedSessions, queue, calls, sess, withLease, lease, settlement>>

\* The finally handler.  The caller's own continuation is an earlier microtask.
Release(c) ==
  /\ phase[c] = "settled"
  /\ LET n == active - 1
         busy == activeSessions \ {sess[c]}
         at == [phase EXCEPT ![c] = "over"]
     IN IF closed
        THEN /\ active' = n
             /\ activeSessions' = busy
             /\ phase' = at
             /\ UNCHANGED queue
        ELSE Drain(queue, sess, n, busy, blockedSessions, at)
  /\ UNCHANGED <<closed, blockedSessions, calls, sess, withLease, lease, settlement>>

-----------------------------------------------------------------------------
(* executeWithinLease: the tail is a chain, so a lease is known by how many  *)
(* steps it accepted, how many of them settled, and how far the next one is. *)

LeaseStep(c) == [lease EXCEPT ![c].accepted = @ + 1]

\* A call the code rejects (released, closed or fenced) changes nothing.
ExecuteWithinLease(c) ==
  /\ phase[c] \in {"running", "draining"}
  /\ ~closed
  /\ lease[c].accepting
  /\ ~Blocked(sess[c])
  /\ lease[c].accepted < MaxSteps
  /\ lease' = LeaseStep(c)
  /\ UNCHANGED <<queueVars, callVars, settlement>>

\* The step's turn has come: it looks at `closed' and the fences again, and is
\* rejected or goes on to a further microtask.
StepTurn(c) ==
  /\ lease[c].head = "idle"
  /\ lease[c].finished < lease[c].accepted
  /\ lease' = IF closed \/ Blocked(sess[c])
              THEN [lease EXCEPT ![c].finished = @ + 1]
              ELSE [lease EXCEPT ![c].head = "admitted"]
  /\ UNCHANGED <<queueVars, callVars, settlement>>

StepBegins(c) ==
  /\ lease[c].head = "admitted"
  /\ lease' = [lease EXCEPT ![c].head = "running"]
  /\ UNCHANGED <<queueVars, callVars, settlement>>

\* Fulfilled or rejected: a failed step does not poison the tail.
StepSettles(c) ==
  /\ lease[c].head = "running"
  /\ lease' = [lease EXCEPT ![c].head = "idle", ![c].finished = @ + 1]
  /\ UNCHANGED <<queueVars, callVars, settlement>>

-----------------------------------------------------------------------------
(* Fences, cancellation, close *)

\* Reject the queued calls of the sessions S.
CancelQueued(S) ==
  LET cancelled == {c \in queue : sess[c] \in S}
  IN /\ queue' = queue \ cancelled
     /\ phase' = [c \in Calls |-> IF c \in cancelled THEN "refused" ELSE phase[c]]

\* blockSessionUntil(s, settlement); without a settlement the fence is permanent.
BlockSessionUntil(s, f, kind) ==
  /\ settlement[f] = "unused"
  /\ settlement' = [settlement EXCEPT ![f] = kind]
  /\ blockedSessions' = [blockedSessions EXCEPT ![s] = @ \cup {f}]
  /\ CancelQueued({s})
  /\ UNCHANGED <<closed, active, activeSessions, calls, sess, withLease, lease>>

\* The settlement of a fence arrives: _releaseSessionBlock.  close() may have
\* dropped the fence before.
ReleaseSessionBlock(f) ==
  /\ settlement[f] = "pending"
  /\ settlement' = [settlement EXCEPT ![f] = "arrived"]
  /\ blockedSessions' = [s \in Sessions |-> blockedSessions[s] \ {f}]
  /\ IF closed
     THEN UNCHANGED <<active, activeSessions, queue, phase>>
     ELSE Drain(queue, sess, active, activeSessions, blockedSessions', phase)
  /\ UNCHANGED <<closed, calls, sess, withLease, lease>>

CancelQueuedSession(s) ==
  /\ CancelQueued({s})
  /\ UNCHANGED <<closed, active, activeSessions, blockedSessions,
                 calls, sess, withLease, lease, settlement>>

CancelAllQueued ==
  /\ CancelQueued(Sessions)
  /\ UNCHANGED <<closed, active, activeSessions, blockedSessions,
                 calls, sess, withLease, lease, settlement>>

Close ==
  /\ closed' = TRUE
  /\ lease' = [c \in Calls |->
                 [lease[c] EXCEPT !.accepting = @ /\ ~LeaseActive(c)]]
  /\ blockedSessions' = [s \in Sessions |-> {}]
  /\ CancelQueued(Sessions)
  /\ UNCHANGED <<active, activeSessions, calls, sess, withLease, settlement>>

-----------------------------------------------------------------------------
CallStep(c) ==
  \/ Start(c)
  \/ TaskReturns(c)
  \/ LeaseDrained(c)
  \/ Release(c)
  \/ StepTurn(c)
  \/ StepBegins(c)
  \/ StepSettles(c)

Next ==
  \/ \E s \in Sessions, leased \in BOOLEAN : Enqueue(s, leased) \/ EnqueueRefused(s, leased)
  \/ \E c \in Calls : CallStep(c) \/ ExecuteWithinLease(c)
  \/ \E s \in Sessions, f \in Fences, kind \in {"pending", "never"} : BlockSessionUntil(s, f, kind)
  \/ \E f \in Fences : ReleaseSessionBlock(f)
  \/ \E s \in Sessions : CancelQueuedSession(s)
  \/ CancelAllQueued
  \/ Close

Spec == Init /\ [][Next]_vars

\* The event loop runs every pending microtask, and the tasks and steps the
\* callers hand over settle (the RPC layer puts a deadline on each of them).
\* Nothing is assumed of the settlement of a fence.
FairSpec == Spec /\ \A c \in Calls : WF_vars(CallStep(c))

-----------------------------------------------------------------------------
(* Properties *)

\* The counter and the set of sessions agree with the calls that hold a slot:
\* no slot is leaked or freed twice, whichever of close, fence and finally came
\* first, and the limit holds.
SlotAccounting ==
  /\ activeSessions = SessionsOf(sess, {d \in Calls : HoldsSlot(d)})
  /\ active = Cardinality(activeSessions)
  /\ active <= MaxConcurrent

\* Two calls of one session never hold a slot together.
SessionExclusion ==
  \A c, d \in Calls : HoldsSlot(c) /\ HoldsSlot(d) /\ sess[c] = sess[d] => c = d

\* No lost wakeup: between two sections of code, a free slot and a queued call
\* mean that the session of that call is busy.
WorkConserving ==
  ~closed /\ active < MaxConcurrent => \A c \in queue : sess[c] \in activeSessions

\* Nothing waits behind a fence: what was queued is rejected when the fence
\* rises and nothing is queued while it stands.
NoQueueBehindFence == \A c \in queue : blockedSessions[sess[c]] = {}

\* _enqueue tests the length only when the call cannot start immediately, and
\* pushes before it drains; the queue is never longer than maxQueued afterwards.
QueueBounded == Cardinality(queue) <= MaxQueued

\* A step accepted by a lease runs, or is rejected, before the slot of its call
\* is released, so no step of a returned program overlaps the next call.
StepsInsideSlot ==
  \A c \in Calls :
    lease[c].finished < lease[c].accepted => phase[c] \in {"running", "draining"}

\* A session that is fenced and has no slot stays without one while the fence
\* stands: what the control boundary relies on once it has seen the session idle.
FenceKeepsQuiet ==
  [][\A s \in Sessions :
       /\ s \notin activeSessions
       /\ blockedSessions[s] # {} /\ blockedSessions'[s] # {}
       => s \notin activeSessions']_vars

\* What makes the properties above inductive: the numbering of the calls, the
\* queue and the phases tell one story, and so do the leases and the phases.
CallBook ==
  /\ \A c \in Calls : c <= calls <=> phase[c] # "unmade"
  /\ \A c \in Calls : phase[c] # "unmade" => sess[c] \in Sessions
  /\ \A c \in Calls : c \in queue <=> phase[c] = "queued"
  /\ closed => queue = {}

LeaseBook ==
  \A c \in Calls :
    /\ lease[c].finished <= lease[c].accepted
    /\ lease[c].head # "idle" => lease[c].finished < lease[c].accepted
    /\ lease[c].accepting => phase[c] = "running"
    /\ lease[c].accepting \/ lease[c].accepted > 0 => withLease[c] /\ phase[c] # "unmade"

IndInv ==
  /\ TypeOK
  /\ CallBook
  /\ LeaseBook
  /\ StepsInsideSlot
  /\ SlotAccounting
  /\ SessionExclusion
  /\ WorkConserving
  /\ NoQueueBehindFence
  /\ QueueBounded

\* Seen from one session, the limiter is a lane that serves one call at a time in
\* the order of arrival: neither the other sessions nor the limits, fences and
\* close() let a call overtake, run twice, or run beside another.
PerSession(C) == [s \in Sessions |-> {c \in C : sess[c] = s}]

Lanes == INSTANCE SessionLanes WITH
  waiting <- PerSession(queue),
  serving <- PerSession({c \in Calls : HoldsSlot(c)}),
  left    <- PerSession({c \in Calls : phase[c] \in {"over", "refused"}})

EverySessionIsALane == Lanes!Spec

\* Every call that was queued settles, and after close() every slot is released.
QueuedCallsSettle ==
  /\ \A c \in Calls : phase[c] = "queued" ~> phase[c] \in {"over", "refused"}
  /\ closed ~> active = 0
=============================================================================
