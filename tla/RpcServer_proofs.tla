--------------------------- MODULE RpcServer_proofs ---------------------------
(***************************************************************************)
(* What the RPC server promises about the page, with its action ledger and *)
(* with its control boundary, proved for every number of sessions, calls,  *)
(* steps, action ids and requests and every setting of the limits.         *)
(*                                                                         *)
(* Both rest on the limiter's invariant: every step of either is a step of *)
(* the limiter or leaves it alone.                                         *)
(*                                                                         *)
(* The ledger.  An effect is awaited by its task, and then its call holds  *)
(* the slot, or its settlement holds a fence; and nothing is taken into a  *)
(* slot or admitted by a lease while the fence stands.  The records rest   *)
(* on one more fact: what the limiter still holds back has a record that   *)
(* is queued, and pruning takes away a record only when it is over, and    *)
(* that of a program only when it has expired.                             *)
(*                                                                         *)
(* The boundary.  A request that has waited keeps its own fence across the *)
(* drain and the cleanup, so the session gets no slot again, and only a    *)
(* call that holds one can leave an effect to a fence.  A deferred release *)
(* has no fence; what it owes is a set of calls decided long ago, and a    *)
(* decided call gets no second slot.                                       *)
(***************************************************************************)
EXTENDS ActionLedger, ControlBoundary, BrowserTaskLimiter_proofs

-----------------------------------------------------------------------------
(***************************************************************************)
(*                         The action ledger                               *)
(***************************************************************************)

-----------------------------------------------------------------------------
(* Where an execution stands.                                               *)

\* The task of e is the one its call or its lease is executing.
Current(e) ==
  IF e[2] = 0 THEN phase[e[1]] = "running"
  ELSE e[2] = lease[e[1]].finished + 1 /\ lease[e[1]].head = "running"

ExecTyped == task \in [Execs -> Tasks] /\ effect \in [Execs -> Effects]

\* What the rows of one execution say together.
Whereabouts(e) ==
  /\ task[e] # "idle" => Begun(e)
  /\ task[e] = "idle" => effect[e] = "none"
  /\ task[e] \in {"idle", "awaiting"} => settlement[e] = "unused"
  /\ task[e] = "awaiting" => effect[e] = "inflight" /\ Current(e)
  /\ task[e] \notin {"idle", "awaiting"} /\ effect[e] = "inflight" => settlement[e] = "pending"
  /\ settlement[e] = "pending" /\ ~closed => e \in blockedSessions[sess[e[1]]]

\* Nothing is slotted or admitted beside an effect on the page.
Alone(c) ==
  phase[c] = "slotted" \/ lease[c].head = "admitted" =>
    \A f \in Execs : InFlight(f) => sess[f[1]] # sess[c]

OneEffect == \A e, f \in Execs : InFlight(e) /\ InFlight(f) /\ sess[e[1]] = sess[f[1]] => e = f

GuardInv ==
  /\ IndInv /\ ExecTyped
  /\ \A e \in Execs : Whereabouts(e)
  /\ \A c \in Calls : Alone(c)
  /\ OneEffect

LEMMA BegunIsMade ==
  ASSUME IndInv, NEW e \in Execs, Begun(e)
  PROVE  phase[e[1]] # "unmade" /\ sess[e[1]] \in Sessions
<1>1. e[1] \in Calls /\ e[2] \in 0 .. MaxSteps BY DEF Execs
<1>2. /\ lease[e[1]].finished \in Nat /\ lease[e[1]].accepted \in Nat /\ e[2] \in Nat
      /\ lease[e[1]].finished <= lease[e[1]].accepted
      /\ lease[e[1]].head # "idle" => lease[e[1]].finished < lease[e[1]].accepted
      /\ lease[e[1]].accepted > 0 => phase[e[1]] # "unmade"
  BY <1>1, LimiterAssumption DEF IndInv, TypeOK, LeaseBook
<1>3. phase[e[1]] # "unmade" BY <1>2 DEF Begun
<1> QED BY <1>1, <1>3 DEF IndInv, CallBook

LEMMA LedgerMovesTheLimiter ==
  ASSUME GuardInv, LedgerNext
  PROVE  [Next]_vars
<1>1. ASSUME NEW a \in Actions, Request(a) \/ AnswerFromLedger(a) PROVE [Next]_vars
  <2>1. ActionSession[a] \in Sessions /\ (a \in Programs) \in BOOLEAN
    BY LedgerAssumption
  <2> DEFINE leased == a \in Programs
  <2>2. leased \in BOOLEAN BY <2>1
  <2>3. CASE Enqueue(ActionSession[a], leased) \/ EnqueueRefused(ActionSession[a], leased)
    <3> HIDE DEF leased
    <3> QED BY <2>1, <2>2, <2>3 DEF Next
  <2>4. CASE AnswerFromLedger(a) BY <2>4 DEF AnswerFromLedger
  <2> QED BY <1>1, <2>3, <2>4 DEF Request
<1>2. ASSUME NEW c \in Calls, NEW a \in Actions, RequestStep(c, a) \/ StepTurnedAway(c, a)
      PROVE  [Next]_vars
  BY <1>2 DEF RequestStep, StepTurnedAway, Next
<1>3. ASSUME NEW r \in ToSet(records), TtlElapses(r) PROVE [Next]_vars
  BY <1>3 DEF TtlElapses
<1>4. ASSUME NEW c \in Calls, CallBegins(c) \/ ProgramStepBegins(c) \/ LimiterTurn(c) PROVE [Next]_vars
  BY <1>4 DEF CallBegins, ProgramStepBegins, LimiterTurn, CallStep, Next
<1>5. ASSUME NEW e \in Execs, Outcome(e) \/ Aftermath(e) PROVE [Next]_vars
  <2>1. e \in Fences BY LedgerAssumption
  <2>2. task[e] # "idle" => sess[e[1]] \in Sessions
    BY BegunIsMade DEF GuardInv, Whereabouts
  <2>3. ASSUME NEW kind \in {"pending", "never"}, task[e] # "idle", BlockSessionUntil(sess[e[1]], e, kind)
        PROVE  Next
    BY <2>1, <2>2, <2>3 DEF Next
  <2>4. ReleaseSessionBlock(e) => Next
    BY <2>1 DEF Next
  <2> QED BY <1>5, <2>3, <2>4 DEF Outcome, OperationSettles, Intervened, Interrupted, TimesOut, HandoffOmitted, HardCap,
              HandoffOmittedLate, Aftermath, EffectSettles, FenceFalls, LateFinish, Recovered,
              RecoveryElapses, ScheduleRejected, HandOver
<1>6. CASE FromOutside
  BY <1>6 DEF FromOutside, Next
<1> QED BY <1>1, <1>2, <1>3, <1>4, <1>5, <1>6 DEF LedgerNext

\* The fence of f stands or falls by itself.
FenceKept(f) ==
  settlement'[f] = "pending" /\ ~closed' =>
    \A s \in Sessions : f \in blockedSessions[s] => f \in blockedSessions'[s]

\* The limiter does not end what the ledger awaits.
NotEnded(f) ==
  task[f] = "awaiting" => IF f[2] = 0 THEN ~TaskReturns(f[1]) ELSE ~StepSettles(f[1])

\* An execution of which nothing new is seen.
Stands(f) == Whereabouts(f)' /\ (InFlight(f)' => InFlight(f))

\* An execution that is not the one that moves.
LEMMA BystanderStands ==
  ASSUME Advance, NEW f \in Execs, Whereabouts(f), FenceKept(f), NotEnded(f),
         task'[f] = task[f], effect'[f] = effect[f],
         \/ settlement'[f] = settlement[f]
         \/ settlement'[f] = "arrived" /\ settlement[f] = "pending" /\ effect[f] # "inflight"
  PROVE  Stands(f)
<1>1. PICK c \in Calls, k \in 0 .. MaxSteps : f = <<c, k>> /\ f[1] = c /\ f[2] = k
  BY DEF Execs
<1>2. Begun(f) => Begun(f)' BY <1>1 DEF Advance, CallAdvances
<1>3. Begun(f) => phase[c] # "unmade" /\ sess[c] \in Sessions /\ sess'[c] = sess[c]
  BY <1>1, BegunIsMade DEF Advance, CallAdvances
<1>4. task[f] = "awaiting" => Current(f)'
  BY <1>1 DEF Whereabouts, Current, NotEnded, Advance, CallAdvances
<1>5. settlement'[f] = "pending" /\ ~closed' => f \in blockedSessions'[sess'[c]]
  BY <1>1, <1>3 DEF Whereabouts, FenceKept, Advance
<1>6. Whereabouts(f)' BY <1>1, <1>2, <1>4, <1>5 DEF Whereabouts
<1>7. InFlight(f)' => InFlight(f)
  <2>1. effect[f] = "inflight" => withLease'[c] = withLease[c]
    BY <1>1, <1>3 DEF Whereabouts, Advance, CallAdvances
  <2> QED BY <1>1, <2>1 DEF InFlight, TouchesPage
<1> QED BY <1>6, <1>7 DEF Stands

\* The limiter does not move.
LEMMA StillStands ==
  ASSUME GuardInv, Advance, UNCHANGED vars, NEW f \in Execs, task'[f] = task[f], effect'[f] = effect[f]
  PROVE  Stands(f)
<1>1. FenceKept(f) /\ settlement'[f] = settlement[f]
  BY DEF FenceKept, vars, queueVars
<1>2. NotEnded(f)
  <2>1. f[1] \in Calls BY DEF Execs
  <2>2. phase \in [Calls -> Phases] /\ lease[f[1]].head # "idle" => lease' = lease
    BY DEF vars
  <2> QED BY <2>1 DEF NotEnded, TaskReturns, StepSettles, vars, callVars, GuardInv, IndInv, TypeOK
<1> QED BY <1>1, <1>2, BystanderStands DEF GuardInv

\* The effect of e begins in this step.
Begins(e) ==
  /\ Whereabouts(e)' /\ task'[e] = "awaiting"
  /\ IF e[2] = 0 THEN phase[e[1]] = "slotted" ELSE lease[e[1]].head = "admitted"
  /\ \A f \in Execs \ {e} : Stands(f)

LedgerMoves == (\A e \in Execs : Stands(e)) \/ \E e \in Execs : Begins(e)

\* Steps in which the limiter stands still and the execution e moves.
LEMMA SettlingMoves ==
  ASSUME GuardInv, Advance, NEW e \in Execs, UNCHANGED vars,
         \/ \E v \in Verdicts : OperationSettles(e, v) \/ LateFinish(e, v) \/ Recovered(e, v)
         \/ HandoffOmittedLate(e) \/ EffectSettles(e) \/ RecoveryElapses(e) \/ ScheduleRejected(e)
  PROVE  ExecTyped' /\ LedgerMoves
<1> USE DEF OperationSettles, LateFinish, Recovered, HandoffOmittedLate, EffectSettles, RecoveryElapses,
            ScheduleRejected, Finish, RejectEarly
<1>1. ExecTyped /\ Whereabouts(e) BY DEF GuardInv
<1>2. ExecTyped' BY <1>1 DEF ExecTyped, Tasks, Effects
<1>3. ASSUME NEW f \in Execs, f # e PROVE Stands(f)
  <2>1. task'[f] = task[f] /\ effect'[f] = effect[f] BY <1>1, <1>3 DEF ExecTyped
  <2> QED BY <2>1, StillStands
<1>4. Whereabouts(e)' /\ (effect'[e] = "inflight" => effect[e] = "inflight")
  <2>1. /\ Begun(e)' = Begun(e) /\ Current(e)' = Current(e) /\ settlement'[e] = settlement[e]
        /\ closed' = closed /\ blockedSessions' = blockedSessions /\ sess' = sess
    BY DEF vars, queueVars, callVars, Begun, Current
  <2>2. /\ task'[e] = task[e] \/ (task'[e] = "returned" /\ task[e] \in {"awaiting", "recovering"})
        /\ effect'[e] \in {effect[e], "settled", "disowned"}
        /\ task[e] = "awaiting" => (task'[e] = "returned" /\ effect'[e] = "settled") \/ UNCHANGED <<task, effect>>
        /\ effect'[e] # effect[e] => task[e] # "idle"
    BY <1>1 DEF ExecTyped, Whereabouts
  <2> QED BY <1>1, <2>1, <2>2 DEF Whereabouts
<1>5. Stands(e) BY <1>4 DEF Stands, InFlight, TouchesPage, vars, callVars
<1> QED BY <1>2, <1>3, <1>5 DEF LedgerMoves

\* Steps in which the task of e gives up on its effect and raises the fence.
LEMMA HandingOverMoves ==
  ASSUME GuardInv, Advance, NEW e \in Execs,
         Intervened(e) \/ Interrupted(e) \/ TimesOut(e) \/ HandoffOmitted(e) \/ HardCap(e)
  PROVE  ExecTyped' /\ LedgerMoves
<1> DEFINE kind == settlement'[e]
<1>1. ExecTyped /\ Whereabouts(e) /\ e[1] \in Calls /\ e \in Fences
  BY LedgerAssumption DEF GuardInv, Execs
<1>2. /\ task[e] = "awaiting"
      /\ BlockSessionUntil(sess[e[1]], e, "pending") \/ BlockSessionUntil(sess[e[1]], e, "never")
      /\ \E to \in {"returned", "recovering", "capped"} : task' = [task EXCEPT ![e] = to]
      /\ \/ effect' = effect /\ BlockSessionUntil(sess[e[1]], e, "pending")
         \/ effect' = [effect EXCEPT ![e] = "disowned"] /\ BlockSessionUntil(sess[e[1]], e, "never")
  BY DEF Intervened, Interrupted, TimesOut, HandoffOmitted, HardCap, HandOver
<1>3. ExecTyped' BY <1>1, <1>2 DEF ExecTyped, Tasks, Effects
<1>4. sess[e[1]] \in Sessions /\ Begun(e)
  BY <1>1, <1>2, BegunIsMade DEF GuardInv, Whereabouts
<1>5. /\ UNCHANGED <<closed, sess, withLease, lease>>
      /\ \A f \in Execs \ {e} : settlement'[f] = settlement[f]
      /\ \A s \in Sessions : blockedSessions[s] \subseteq blockedSessions'[s]
      /\ e \in blockedSessions'[sess[e[1]]]
      /\ \A d \in Calls : phase[d] = "running" => phase'[d] = "running"
      /\ settlement'[e] = "pending" \/ effect'[e] = "disowned"
      /\ settlement'[e] # "unused"
  <2>1. /\ blockedSessions \in [Sessions -> SUBSET Fences] /\ phase \in [Calls -> Phases]
        /\ settlement \in [Fences -> {"unused", "pending", "never", "arrived"}] /\ Execs \subseteq Fences
        /\ \A d \in queue : d \in Calls => phase[d] = "queued"
    BY LedgerAssumption DEF GuardInv, IndInv, TypeOK, CallBook
  <2> QED BY <1>1, <1>2, <1>4, <2>1 DEF BlockSessionUntil, CancelQueued, ExecTyped
<1>6. ASSUME NEW f \in Execs, f # e PROVE Stands(f)
  <2>1. task'[f] = task[f] /\ effect'[f] = effect[f] BY <1>1, <1>2, <1>6 DEF ExecTyped
  <2>2. FenceKept(f) /\ settlement'[f] = settlement[f] BY <1>5, <1>6 DEF FenceKept
  <2>3. NotEnded(f)
    <3>1. f[1] \in Calls BY DEF Execs
    <3> QED BY <1>5, <3>1 DEF NotEnded, TaskReturns, StepSettles, GuardInv, IndInv, TypeOK
  <2> QED BY <2>1, <2>2, <2>3, BystanderStands DEF GuardInv
<1>7. Stands(e)
  <2>1. Begun(e)' BY <1>1, <1>4 DEF Advance, CallAdvances, Execs
  <2>2. task'[e] \notin {"idle", "awaiting"} /\ (effect'[e] = effect[e] \/ effect'[e] = "disowned")
    BY <1>1, <1>2 DEF ExecTyped
  <2>3. Whereabouts(e)' BY <1>5, <2>1, <2>2 DEF Whereabouts
  <2> QED BY <1>5, <2>2, <2>3 DEF Stands, InFlight, TouchesPage
<1> QED BY <1>3, <1>6, <1>7 DEF LedgerMoves

\* Steps in which the limiter calls the task of e.
LEMMA BeginningMoves ==
  ASSUME GuardInv, Advance, NEW c \in Calls, CallBegins(c) \/ ProgramStepBegins(c)
  PROVE  ExecTyped' /\ LedgerMoves
<1>1. IndInv /\ ExecTyped /\ \A f \in Execs : Whereabouts(f)
  BY DEF GuardInv
<1>2. /\ lease \in [Calls -> [accepting : BOOLEAN, accepted : 0..MaxSteps,
                       finished : 0..MaxSteps, head : {"idle", "admitted", "running"}]]
      /\ phase \in [Calls -> Phases] /\ MaxSteps \in Nat /\ closed \in BOOLEAN
      /\ \A d \in Calls : lease[d].finished \in Nat /\ lease[d].accepted \in Nat
           /\ lease[d].accepted <= MaxSteps
           /\ (lease[d].head # "idle" => lease[d].finished < lease[d].accepted)
  BY <1>1, LimiterAssumption DEF IndInv, TypeOK, LeaseBook
<1>3. UNCHANGED <<closed, blockedSessions, settlement, sess, withLease>>
  BY DEF CallBegins, ProgramStepBegins, Start, StepBegins, queueVars, callVars
<1>4. ASSUME NEW f \in Execs, task'[f] = task[f], effect'[f] = effect[f] PROVE Stands(f)
  <2>1. FenceKept(f) BY <1>3 DEF FenceKept
  <2>2. NotEnded(f)
    <3>1. f[1] \in Calls BY DEF Execs
    <3>2. \A d \in Calls : /\ phase[d] = "running" => phase'[d] = "running"
                           /\ lease[d].head = "running" => lease'[d].head = "running"
      BY <1>2 DEF CallBegins, ProgramStepBegins, Start, StepBegins, callVars
    <3> QED BY <1>2, <3>1, <3>2 DEF NotEnded, TaskReturns, StepSettles
  <2> QED BY <1>1, <1>3, <1>4, <2>1, <2>2, BystanderStands
<1>5. ASSUME NEW e \in Execs, TaskBegins(e), ~Begun(e), Begun(e)', Current(e)',
             IF e[2] = 0 THEN phase[e[1]] = "slotted" ELSE lease[e[1]].head = "admitted"
      PROVE  ExecTyped' /\ Begins(e)
  <2>1. task[e] = "idle" /\ settlement'[e] = "unused"
    BY <1>1, <1>3, <1>5 DEF Whereabouts
  <2>2. task'[e] = "awaiting" /\ effect'[e] = "inflight" /\ ExecTyped'
        /\ \A f \in Execs \ {e} : task'[f] = task[f] /\ effect'[f] = effect[f]
    BY <1>1, <1>5 DEF TaskBegins, ExecTyped, Tasks, Effects
  <2>3. Whereabouts(e)' BY <1>5, <2>1, <2>2 DEF Whereabouts
  <2> QED BY <1>4, <1>5, <2>2, <2>3 DEF Begins
<1>6. CASE CallBegins(c) /\ closed
  <2>1. task' = task /\ effect' = effect BY <1>6 DEF CallBegins, execVars
  <2> QED BY <1>1, <1>4, <2>1 DEF LedgerMoves, ExecTyped
<1>7. CASE CallBegins(c) /\ ~closed
  <2> DEFINE e == <<c, 0>>
  <2>1. e \in Execs /\ e[1] = c /\ e[2] = 0 BY <1>2 DEF Execs
  <2>2. phase[c] = "slotted" /\ phase'[c] = "running" /\ TaskBegins(e)
    BY <1>2, <1>7 DEF CallBegins, Start
  <2>3. ~Begun(e) /\ Begun(e)' /\ Current(e)' BY <2>1, <2>2 DEF Begun, Current
  <2> HIDE DEF e
  <2> QED BY <1>5, <2>1, <2>2, <2>3 DEF LedgerMoves
<1>8. CASE ProgramStepBegins(c)
  <2>1. lease[c].head = "admitted" /\ lease'[c].head = "running" /\ lease'[c].finished = lease[c].finished
    BY <1>2, <1>8 DEF ProgramStepBegins, StepBegins
  <2>2. PICK e \in Execs : e[1] = c /\ e[2] = lease[c].finished + 1 /\ e = <<c, lease[c].finished + 1>>
    <3>1. lease[c].finished + 1 \in 0 .. MaxSteps BY <1>2, <2>1
    <3> QED BY <3>1 DEF Execs
  <2>3. TaskBegins(e) BY <1>8, <2>2 DEF ProgramStepBegins, CurrentStep
  <2>4. e[2] # 0 /\ ~Begun(e) /\ Begun(e)' /\ Current(e)' BY <1>2, <2>1, <2>2 DEF Begun, Current
  <2> QED BY <1>5, <2>1, <2>2, <2>3, <2>4 DEF LedgerMoves
<1> QED BY <1>6, <1>7, <1>8

\* Steps in which no execution moves.
LEMMA LimiterMoves ==
  ASSUME GuardInv, Advance, UNCHANGED <<task, effect>>,
         \/ \E a \in Actions : Request(a) \/ AnswerFromLedger(a)
         \/ \E c \in Calls, a \in Actions : RequestStep(c, a) \/ StepTurnedAway(c, a)
         \/ \E r \in ToSet(records) : TtlElapses(r)
         \/ \E c \in Calls : LimiterTurn(c)
         \/ \E e \in Execs : FenceFalls(e)
         \/ FromOutside
  PROVE  ExecTyped' /\ LedgerMoves
<1>1. IndInv /\ ExecTyped /\ \A f \in Execs : Whereabouts(f)
  BY DEF GuardInv
<1>2. /\ lease \in [Calls -> [accepting : BOOLEAN, accepted : 0..MaxSteps,
                       finished : 0..MaxSteps, head : {"idle", "admitted", "running"}]]
      /\ phase \in [Calls -> Phases] /\ calls \in Nat
      /\ settlement \in [Fences -> {"unused", "pending", "never", "arrived"}]
      /\ blockedSessions \in [Sessions -> SUBSET Fences]
      /\ \A d \in queue : d \in Calls => phase[d] = "queued"
      /\ Execs \subseteq Fences
  BY <1>1, LedgerAssumption DEF IndInv, TypeOK, CallBook
<1> DEFINE NobodyEnds == \A d \in Calls : ~TaskReturns(d) /\ ~StepSettles(d)
           FencesStay == UNCHANGED <<blockedSessions, settlement>>
           Goal == \A f \in Execs : Stands(f)
<1>3. ASSUME NobodyEnds, FencesStay \/ (closed' /\ UNCHANGED settlement) PROVE Goal
  <2> SUFFICES ASSUME NEW f \in Execs PROVE Stands(f)
    OBVIOUS
  <2>1. FenceKept(f) /\ settlement'[f] = settlement[f] BY <1>3 DEF FenceKept
  <2>2. NotEnded(f)
    <3>1. f[1] \in Calls BY DEF Execs
    <3> QED BY <1>3, <3>1 DEF NotEnded
  <2> QED BY <1>1, <2>1, <2>2, BystanderStands
<1>4. ASSUME NEW a \in Actions, Request(a) PROVE Goal
  <2>1. /\ calls' = calls + 1 /\ UNCHANGED <<blockedSessions, lease, settlement>>
    BY <1>4 DEF Request, Enqueue, EnqueueRefused, Made
  <2>2. NobodyEnds BY <1>2, <2>1 DEF TaskReturns, StepSettles, callVars
  <2> QED BY <1>3, <2>1, <2>2
<1>5. ASSUME NEW c \in Calls, NEW a \in Actions, RequestStep(c, a) PROVE Goal
  <2>1. /\ UNCHANGED <<phase, blockedSessions, settlement>>
        /\ \A d \in Calls : lease'[d].head = lease[d].head
    BY <1>2, <1>5 DEF RequestStep, ExecuteWithinLease, LeaseStep, queueVars, callVars
  <2>2. NobodyEnds BY <1>2, <2>1 DEF TaskReturns, StepSettles
  <2> QED BY <1>3, <2>1, <2>2
<1>6. ASSUME UNCHANGED vars PROVE Goal
  <2>1. NobodyEnds BY <1>2, <1>6 DEF TaskReturns, StepSettles, vars, callVars
  <2>2. FencesStay BY <1>6 DEF vars, queueVars
  <2> QED BY <1>3, <2>1, <2>2
<1>7. ASSUME NEW c \in Calls, LimiterTurn(c) PROVE Goal
  <2>1. FencesStay
    BY <1>7 DEF LimiterTurn, TaskReturns, StepSettles, LeaseDrained, Release, StepTurn, queueVars
  <2>2. CASE LeaseDrained(c) \/ Release(c) \/ StepTurn(c)
    <3>1. NobodyEnds
      <4>1. CASE LeaseDrained(c)
        BY <1>2, <4>1 DEF LeaseDrained, TaskReturns, StepSettles
      <4>2. CASE StepTurn(c)
        BY <1>2, <4>2 DEF StepTurn, TaskReturns, StepSettles, callVars
      <4>3. CASE Release(c)
        <5>1. UNCHANGED lease /\ \A d \in Calls : phase[d] = "running" => phase'[d] \in {"running", "slotted"}
          <6> DEFINE at == [phase EXCEPT ![c] = "over"]
          <6>1. /\ UNCHANGED lease
                /\ \A d \in Calls : phase[d] = "running" => at[d] = "running"
                /\ phase' = at \/ Drain(queue, sess, active - 1, activeSessions \ {sess[c]}, blockedSessions, at)
            BY <1>2, <4>3 DEF Release
          <6> HIDE DEF at
          <6>2. phase' = at \/ OnlyTakes(queue, sess, blockedSessions, at)
            BY <6>1, DrainTakesQueued
          <6> QED BY <6>1, <6>2 DEF OnlyTakes
        <5> QED BY <1>2, <5>1 DEF TaskReturns, StepSettles
      <4> QED BY <2>2, <4>1, <4>2, <4>3
    <3> QED BY <1>3, <2>1, <3>1
  <2>3. CASE TaskReturns(c) /\ HasReturned(<<c, 0>>)
    <3>1. \A d \in Calls : ~StepSettles(d) /\ (TaskReturns(d) => d = c)
      BY <1>2, <2>3 DEF TaskReturns, StepSettles, callVars
    <3>2. ASSUME NEW f \in Execs PROVE Stands(f)
      <4>1. f[1] \in Calls /\ (f[2] = 0 /\ f[1] = c => f = <<c, 0>>) BY DEF Execs
      <4>2. NotEnded(f) BY <2>3, <3>1, <4>1 DEF NotEnded, HasReturned
      <4>3. FenceKept(f) BY <2>1 DEF FenceKept
      <4> QED BY <1>1, <2>1, <4>2, <4>3, BystanderStands
    <3> QED BY <3>2
  <2>4. CASE StepSettles(c) /\ HasReturned(CurrentStep(c))
    <3>1. \A d \in Calls : ~TaskReturns(d) /\ (StepSettles(d) => d = c)
      BY <1>2, <2>4 DEF TaskReturns, StepSettles, callVars
    <3>2. ASSUME NEW f \in Execs PROVE Stands(f)
      <4>1. f[1] \in Calls /\ f = <<f[1], f[2]>> BY DEF Execs
      <4>2. NotEnded(f)
        BY <1>1, <2>4, <3>1, <4>1 DEF NotEnded, HasReturned, CurrentStep, Whereabouts, Current
      <4>3. FenceKept(f) BY <2>1 DEF FenceKept
      <4> QED BY <1>1, <2>1, <4>2, <4>3, BystanderStands
    <3> QED BY <3>2
  <2> QED BY <1>7, <2>2, <2>3, <2>4 DEF LimiterTurn
<1>8. ASSUME NEW e \in Execs, FenceFalls(e) PROVE Goal
  <2> SUFFICES ASSUME NEW f \in Execs PROVE Stands(f)
    OBVIOUS
  <2>1. /\ settlement[e] = "pending" /\ settlement' = [settlement EXCEPT ![e] = "arrived"]
        /\ blockedSessions' = [s \in Sessions |-> blockedSessions[s] \ {e}]
        /\ effect[e] # "inflight"
    BY <1>8 DEF FenceFalls, ReleaseSessionBlock
  <2>2. NotEnded(f)
    <3>1. settlement' # settlement BY <1>2, <2>1
    <3> QED BY <3>1 DEF NotEnded, TaskReturns, StepSettles
  <2>3. FenceKept(f) BY <1>2, <2>1 DEF FenceKept
  <2>4. \/ settlement'[f] = settlement[f]
        \/ settlement'[f] = "arrived" /\ settlement[f] = "pending" /\ effect[f] # "inflight"
    BY <1>2, <2>1
  <2> QED BY <1>1, <2>2, <2>3, <2>4, BystanderStands
<1>9. ASSUME FromOutside PROVE Goal
  <2>1. /\ FencesStay \/ (closed' /\ UNCHANGED settlement)
        /\ \A d \in Calls : lease'[d].head = lease[d].head /\ (phase[d] = "running" => phase'[d] = "running")
    BY <1>2, <1>9 DEF FromOutside, CancelQueuedSession, CancelAllQueued, CancelQueued, Close
  <2>2. NobodyEnds BY <1>2, <2>1 DEF TaskReturns, StepSettles
  <2> QED BY <1>3, <2>1, <2>2
<1>10. ExecTyped' BY <1>1 DEF ExecTyped
<1> HIDE DEF NobodyEnds, FencesStay
<1>11. Goal
  BY <1>4, <1>5, <1>6, <1>7, <1>8, <1>9 DEF AnswerFromLedger, StepTurnedAway, TtlElapses
<1> QED BY <1>10, <1>11 DEF LedgerMoves

-----------------------------------------------------------------------------
(* The invariant.                                                           *)

LEMMA EveryStepMoves ==
  ASSUME GuardInv, LedgerNext
  PROVE  Advance /\ ExecTyped' /\ LedgerMoves
<1>1. Advance
  BY LedgerMovesTheLimiter, LimiterAdvances DEF GuardInv
<1>2. ASSUME NEW e \in Execs,
             \/ \E v \in Verdicts : OperationSettles(e, v) \/ LateFinish(e, v) \/ Recovered(e, v)
             \/ HandoffOmittedLate(e) \/ EffectSettles(e) \/ RecoveryElapses(e) \/ ScheduleRejected(e)
      PROVE  ExecTyped' /\ LedgerMoves
  <2>1. UNCHANGED vars
    BY <1>2 DEF OperationSettles, LateFinish, Recovered, HandoffOmittedLate, EffectSettles,
                RecoveryElapses, ScheduleRejected
  <2> QED BY <1>1, <1>2, <2>1, SettlingMoves
<1>3. ASSUME NEW e \in Execs,
             Intervened(e) \/ Interrupted(e) \/ TimesOut(e) \/ HandoffOmitted(e) \/ HardCap(e)
      PROVE  ExecTyped' /\ LedgerMoves
  BY <1>1, <1>3, HandingOverMoves
<1>4. ASSUME NEW c \in Calls, CallBegins(c) \/ ProgramStepBegins(c)
      PROVE  ExecTyped' /\ LedgerMoves
  BY <1>1, <1>4, BeginningMoves
<1>5. CASE \/ \E a \in Actions : Request(a) \/ AnswerFromLedger(a)
           \/ \E c \in Calls, a \in Actions : RequestStep(c, a) \/ StepTurnedAway(c, a)
           \/ \E r \in ToSet(records) : TtlElapses(r)
           \/ \E c \in Calls : LimiterTurn(c)
           \/ \E e \in Execs : FenceFalls(e)
           \/ FromOutside
  <2>1. UNCHANGED <<task, effect>>
    BY <1>5 DEF Request, AnswerFromLedger, RequestStep, StepTurnedAway, Track, TtlElapses, LimiterTurn,
                FenceFalls, FromOutside, execVars
  <2> QED BY <1>1, <1>5, <2>1, LimiterMoves
<1>6. ExecTyped' /\ LedgerMoves
  BY <1>2, <1>3, <1>4, <1>5 DEF LedgerNext, Outcome, Aftermath
<1> QED BY <1>1, <1>6

\* What an effect on the page holds.
LEMMA EffectHolds ==
  ASSUME IndInv, NEW e \in Execs, Whereabouts(e), InFlight(e)
  PROVE  \/ task[e] = "awaiting" /\ Current(e) /\ HoldsSlot(e[1])
         \/ task[e] # "awaiting" /\ (closed \/ e \in blockedSessions[sess[e[1]]])
<1>1. e[1] \in Calls /\ e[2] \in Nat BY LimiterAssumption DEF Execs
<1>2. Current(e) => HoldsSlot(e[1])
  <2>1. lease[e[1]].head # "idle" => phase[e[1]] \in {"running", "draining"}
    BY <1>1 DEF IndInv, LeaseBook, StepsInsideSlot
  <2> QED BY <2>1 DEF Current, HoldsSlot, SlotPhases
<1> QED BY <1>2 DEF Whereabouts, InFlight

LEMMA CandidateIsMade ==
  ASSUME IndInv, NEW c \in Calls, phase[c] = "slotted" \/ lease[c].head = "admitted"
  PROVE  phase[c] # "unmade"
<1>1. /\ lease[c].accepted \in Nat /\ lease[c].finished \in Nat
      /\ (lease[c].head # "idle" => lease[c].finished < lease[c].accepted)
      /\ (lease[c].accepted > 0 => phase[c] # "unmade")
  BY LimiterAssumption DEF IndInv, TypeOK, LeaseBook
<1> QED BY <1>1

LEMMA AloneStays ==
  ASSUME GuardInv, Advance, LedgerMoves, NEW c \in Calls
  PROVE  Alone(c)'
<1>1. /\ IndInv /\ IndInv' /\ Alone(c) /\ CallAdvances(c)
      /\ \A e \in Execs : Whereabouts(e) /\ Whereabouts(e)'
      /\ \A e \in Execs : InFlight(e)' => InFlight(e) \/ task'[e] = "awaiting"
  BY DEF GuardInv, Advance, LedgerMoves, Stands, Begins
<1> SUFFICES ASSUME phase'[c] = "slotted" \/ lease'[c].head = "admitted",
                    NEW f \in Execs, InFlight(f)', sess'[f[1]] = sess'[c]
             PROVE  FALSE
  BY DEF Alone
<1>2. f[1] \in Calls /\ f[2] \in Nat /\ f = <<f[1], f[2]>> BY LimiterAssumption DEF Execs
<1>3. /\ lease'[c].head # "idle" => phase'[c] \in {"running", "draining"} /\ withLease'[c]
      /\ HoldsSlot(c)'
  <2>1. lease'[c].head # "idle" => lease'[c].finished < lease'[c].accepted /\ lease'[c].finished \in Nat
                                   /\ lease'[c].accepted \in Nat
    BY <1>1, LimiterAssumption DEF IndInv, LeaseBook, TypeOK
  <2>2. lease'[c].head # "idle" => phase'[c] \in {"running", "draining"} /\ withLease'[c]
    BY <1>1, <2>1 DEF IndInv, LeaseBook, StepsInsideSlot
  <2> QED BY <2>2 DEF HoldsSlot, SlotPhases
<1>4. CASE task'[f] = "awaiting"
  <2>1. Current(f)' /\ HoldsSlot(f[1])'
    <3>1. (task[f] = "awaiting" => Current(f) /\ HoldsSlot(f[1]))'
      <4>1. f[1] \in Calls /\ (lease'[f[1]].head # "idle" => phase'[f[1]] \in {"running", "draining"})
        BY <1>1, <1>2 DEF IndInv, LeaseBook, StepsInsideSlot
      <4> QED BY <1>1, <4>1 DEF Whereabouts, Current, HoldsSlot, SlotPhases
    <3> QED BY <1>4, <3>1
  <2>2. f[1] = c BY <1>1, <1>2, <1>3, <2>1 DEF IndInv, SessionExclusion
  <2> QED BY <1>2, <1>3, <2>1, <2>2 DEF Current, InFlight, TouchesPage
<1>5. CASE task'[f] # "awaiting"
  <2>1. InFlight(f) BY <1>1, <1>5
  <2>2. closed' \/ f \in blockedSessions'[sess'[f[1]]]
    BY <1>1, <1>5 DEF Whereabouts, InFlight
  <2>3. ~Admits(c)' BY <2>2 DEF Admits
  <2>4. phase[c] = "slotted" \/ lease[c].head = "admitted"
    BY <1>1, <2>3 DEF CallAdvances
  <2>5. phase[c] # "unmade" /\ sess'[c] = sess[c]
    BY <1>1, <2>4, CandidateIsMade DEF CallAdvances
  <2>6. sess'[f[1]] = sess[f[1]]
    <3>1. Begun(f) BY <1>1, <2>1 DEF Whereabouts, InFlight
    <3> QED BY <1>1, <1>2, <3>1, BegunIsMade DEF Advance, CallAdvances
  <2> QED BY <1>1, <2>1, <2>4, <2>5, <2>6 DEF Alone
<1> QED BY <1>4, <1>5

LEMMA OneEffectStays ==
  ASSUME GuardInv, Advance, LedgerMoves
  PROVE  OneEffect'
<1>1. /\ IndInv /\ OneEffect /\ (\A d \in Calls : Alone(d) /\ CallAdvances(d))
      /\ \A e \in Execs : Whereabouts(e) /\ e[1] \in Calls
  BY DEF GuardInv, Advance, Execs
<1>2. ASSUME NEW e \in Execs, Begun(e) PROVE sess'[e[1]] = sess[e[1]]
  BY <1>1, <1>2, BegunIsMade DEF CallAdvances
<1>3. ASSUME NEW e \in Execs, InFlight(e) PROVE sess'[e[1]] = sess[e[1]]
  BY <1>1, <1>2, <1>3 DEF Whereabouts, InFlight
<1>4. CASE \A e \in Execs : Stands(e)
  BY <1>1, <1>3, <1>4 DEF OneEffect, Stands
<1>5. ASSUME NEW e \in Execs, Begins(e) PROVE OneEffect'
  <2>1. phase[e[1]] = "slotted" \/ lease[e[1]].head = "admitted" BY <1>5 DEF Begins
  <2>2. sess'[e[1]] = sess[e[1]]
    BY <1>1, <2>1, CandidateIsMade DEF CallAdvances
  <2>3. ASSUME NEW f \in Execs, f # e, InFlight(f)' PROVE InFlight(f) /\ sess'[f[1]] # sess'[e[1]]
    <3>1. InFlight(f) BY <1>5, <2>3 DEF Begins, Stands
    <3> QED BY <1>1, <1>3, <2>1, <2>2, <3>1 DEF Alone
  <2> QED BY <1>1, <1>3, <2>3 DEF OneEffect
<1> QED BY <1>4, <1>5 DEF LedgerMoves

LEMMA LedgerInitGuards == LedgerInit => GuardInv
<1> SUFFICES ASSUME LedgerInit PROVE GuardInv
  OBVIOUS
<1>1. IndInv BY InitIndInv DEF LedgerInit
<1>2. ExecTyped BY DEF LedgerInit, ExecTyped, Tasks, Effects
<1>3. /\ \A e \in Execs : Whereabouts(e) /\ ~InFlight(e)
  BY LedgerAssumption DEF LedgerInit, Init, Whereabouts, InFlight
<1> QED BY <1>1, <1>2, <1>3 DEF GuardInv, Alone, OneEffect

LEMMA LedgerNextGuards == GuardInv /\ [LedgerNext]_ledgerVars => GuardInv'
<1> SUFFICES ASSUME GuardInv, [LedgerNext]_ledgerVars PROVE GuardInv'
  OBVIOUS
<1>1. CASE LedgerNext
  <2>1. Advance /\ ExecTyped' /\ LedgerMoves BY <1>1, EveryStepMoves
  <2>2. \A e \in Execs : Whereabouts(e)' BY <2>1 DEF LedgerMoves, Begins, Stands
  <2> QED BY <2>1, <2>2, AloneStays, OneEffectStays DEF GuardInv, Advance
<1>2. CASE UNCHANGED ledgerVars
  <2>1. UNCHANGED vars /\ UNCHANGED <<task, effect>> BY <1>2 DEF ledgerVars, execVars
  <2>2. Advance BY <2>1, LimiterAdvances DEF GuardInv
  <2>3. \A e \in Execs : Stands(e) BY <2>1, <2>2, StillStands
  <2>4. ExecTyped' BY <2>1 DEF GuardInv, ExecTyped
  <2>5. LedgerMoves BY <2>3 DEF LedgerMoves
  <2> QED BY <2>2, <2>3, <2>4, <2>5, AloneStays, OneEffectStays DEF GuardInv, Advance, Stands
<1> QED BY <1>1, <1>2

\* The invariant behind the two theorems below.
THEOREM GuardInvariance == LedgerSpec => []GuardInv
BY LedgerInitGuards, LedgerNextGuards, PTL DEF LedgerSpec

\* Whatever gives up on an effect of executeTracked (an intervention, a timeout, the
\* hard cap), the effect stays behind the slot of its call or behind its own fence
\* until it settles, and two effects on the page of a session never overlap.
THEOREM EffectsAreGuarded == LedgerSpec => []EffectsStayGuarded
<1>1. GuardInv => EffectsStayGuarded
  BY EffectHolds DEF GuardInv, OneEffect, EffectsStayGuarded
<1> QED BY <1>1, GuardInvariance, PTL

\* What executeTracked does never takes the limiter outside its own specification, so
\* every theorem about the limiter holds of the limiter under the ledger.
THEOREM LedgerRunsTheLimiter == LedgerSpec => Spec
<1>1. LedgerInit => Init BY DEF LedgerInit
<1>2. GuardInv /\ [LedgerNext]_ledgerVars => [Next]_vars
  BY LedgerMovesTheLimiter DEF ledgerVars
<1> QED BY <1>1, <1>2, GuardInvariance, PTL DEF LedgerSpec, Spec
-----------------------------------------------------------------------------
(* What the ledgers keep.                                                   *)

Tracked(e) == status[e] # "none"

\* The limiter or the lease holds e and has not called its task.
Due(e) ==
  IF e[2] = 0 THEN phase[e[1]] \in {"queued", "slotted"}
  ELSE /\ lease[e[1]].finished < e[2] /\ e[2] <= lease[e[1]].accepted
       /\ ~(lease[e[1]].head = "running" /\ e[2] = lease[e[1]].finished + 1)

Recorded(e) ==
  /\ status[e] \in {"queued", "running"} => e \in ToSet(records)
  /\ Due(e) => status[e] = "queued"
  /\ task[e] # "idle" => Tracked(e)
  /\ Tracked(e) /\ act[e] \in Programs => e \in ToSet(records) \cup aged

\* Of the runs of one program at most one has a record that is still valid.
OneValid ==
  \A e, f \in Execs :
    e # f /\ Tracked(e) /\ Tracked(f) /\ act[e] = act[f] /\ act[e] \in Programs
    => e \in aged \/ f \in aged

Entries == Execs \cup Actions

MapsTyped ==
  /\ act \in [Execs -> Actions \cup {NoAction}]
  /\ status \in [Execs -> Statuses]
  /\ response \in [Execs -> Responses]
  /\ records \in Seq(Entries)
  /\ recency \in Seq(Sessions)
  /\ aged \subseteq Entries

RecordBooks ==
  /\ MapsTyped
  /\ \A e \in Execs : Recorded(e)
  /\ OneValid

RecordInv == GuardInv /\ RecordBooks

\* What a count limit or an expiry never takes away.
Firm(r, st) == ~Over(r, st) \/ (OfProgram(r) /\ r \notin aged)

LEMMA TrimKeepsFirm ==
  ASSUME NEW recs, NEW st
  PROVE  /\ Trim(recs, st) \subseteq ToSet(recs)
         /\ \A r \in ToSet(recs) : Firm(r, st) => r \in Trim(recs, st)
<1> DEFINE young == {r \in ToSet(recs) : ~(Over(r, st) /\ r \in aged)}
           spent == {r \in young : Evictable(r, st)}
<1>1. PICK excess : excess \subseteq spent /\ Trim(recs, st) \in {young, young \ excess}
  <2> DEFINE Mates(r, S) == {q \in S : LedgerOf(q) = LedgerOf(r)}
             Place(r) == CHOOSE i \in DOMAIN recs : recs[i] = r
             Older(r) == {q \in Mates(r, spent) : Place(q) < Place(r)}
             gone == {r \in spent : Cardinality(Older(r)) + MaxRecords < Cardinality(Mates(r, young))}
  <2>1. Trim(recs, st) = IF Cardinality(young) <= MaxRecords THEN young ELSE young \ gone
    BY DEF Trim
  <2>2. gone \subseteq spent OBVIOUS
  <2> HIDE DEF gone
  <2> QED BY <2>1, <2>2
<1>2. \A r \in ToSet(recs) : Firm(r, st) => r \in young /\ r \notin spent
  BY DEF Firm, Evictable
<1> HIDE DEF spent
<1> QED BY <1>1, <1>2

LEMMA PruneKeepsFirm ==
  ASSUME NEW recs \in Seq(Entries), NEW lru \in Seq(Sessions), NEW st, NEW p, p = Prune(recs, lru, st)
  PROVE  /\ p.records \in Seq(Entries) /\ p.recency \in Seq(Sessions)
         /\ \A r \in ToSet(recs) : Firm(r, st) => r \in ToSet(p.records)
<1> DEFINE trimmed == Trim(recs, st)
           Of(s) == {r \in trimmed : LedgerOf(r) = s}
           held == {s \in ToSet(lru) : Of(s) # {}}
           spare == {s \in held : \A r \in Of(s) : Evictable(r, st)}
<1>1. PICK excess :
        /\ excess \subseteq spare
        /\ \/ p.records = Among(recs, trimmed)
           \/ p.records = Among(recs, {r \in trimmed : LedgerOf(r) \notin excess})
        /\ \E S : p.recency = Among(lru, S)
  <2> DEFINE Place(s) == CHOOSE i \in DOMAIN lru : lru[i] = s
             Older(s) == {t \in spare : Place(t) < Place(s)}
             gone == {s \in spare : Cardinality(Older(s)) + MaxLedgers < Cardinality(held)}
  <2>1. Prune(recs, lru, st) =
          IF Cardinality(held) <= MaxLedgers
          THEN [records |-> Among(recs, trimmed), recency |-> Among(lru, held)]
          ELSE [records |-> Among(recs, {r \in trimmed : LedgerOf(r) \notin gone}),
                recency |-> Among(lru, held \ gone)]
    BY DEF Prune
  <2>2. gone \subseteq spare OBVIOUS
  <2> HIDE DEF gone, held, trimmed, spare
  <2>3. /\ \/ p.records = Among(recs, trimmed)
           \/ p.records = Among(recs, {r \in trimmed : LedgerOf(r) \notin gone})
        /\ p.recency = Among(lru, held) \/ p.recency = Among(lru, held \ gone)
    <3>1. CASE Cardinality(held) <= MaxLedgers
      <4>1. p = [records |-> Among(recs, trimmed), recency |-> Among(lru, held)]
        BY <2>1, <3>1
      <4> QED BY <4>1
    <3>2. CASE ~(Cardinality(held) <= MaxLedgers)
      <4>1. p = [records |-> Among(recs, {r \in trimmed : LedgerOf(r) \notin gone}),
                 recency |-> Among(lru, held \ gone)]
        BY <2>1, <3>2
      <4> QED BY <4>1
    <3> QED BY <3>1, <3>2
  <2>4. \E S : p.recency = Among(lru, S) BY <2>3
  <2> WITNESS gone
  <2> QED BY <2>2, <2>3, <2>4
<1>2. \A S : Among(recs, S) \in Seq(Entries) /\ ToSet(Among(recs, S)) = ToSet(recs) \cap S
  BY AmongKeeps
<1>3. \A S : Among(lru, S) \in Seq(Sessions)
  BY AmongKeeps
<1>4. ASSUME NEW r \in ToSet(recs), Firm(r, st) PROVE r \in trimmed /\ LedgerOf(r) \notin excess
  <2>1. r \in trimmed BY <1>4, TrimKeepsFirm
  <2>2. ~Evictable(r, st) BY <1>4 DEF Firm, Evictable
  <2>3. r \in Of(LedgerOf(r)) BY <2>1
  <2>4. LedgerOf(r) \notin spare
    <3> HIDE DEF trimmed, held, Of
    <3> QED BY <2>2, <2>3
  <2> QED BY <1>1, <2>1, <2>4
<1> HIDE DEF trimmed, spare
<1> QED BY <1>1, <1>2, <1>3, <1>4
\* What becomes due is the call that is made or the step that is accepted.
LEMMA DueComes ==
  ASSUME IndInv, [Next]_vars, NEW e \in Execs, Due(e)'
  PROVE  \/ Due(e)
         \/ calls' = calls + 1 /\ e = <<calls + 1, 0>>
         \/ \E c \in Calls : ExecuteWithinLease(c) /\ e = <<c, lease[c].accepted + 1>>
<1>1. PICK d \in Calls, k \in 0 .. MaxSteps : e = <<d, k>> /\ e[1] = d /\ e[2] = k
  BY DEF Execs
<1>2. /\ lease \in [Calls -> [accepting : BOOLEAN, accepted : 0..MaxSteps,
                       finished : 0..MaxSteps, head : {"idle", "admitted", "running"}]]
      /\ phase \in [Calls -> Phases] /\ queue \subseteq Calls
      /\ \A c \in queue : phase[c] = "queued"
      /\ k \in Nat
  BY LimiterAssumption DEF IndInv, TypeOK, CallBook
<1>3. /\ lease[d].finished \in Nat /\ lease[d].accepted \in Nat
      /\ lease[d].head # "idle" => lease[d].finished < lease[d].accepted
  BY <1>1, <1>2, LimiterAssumption DEF IndInv, LeaseBook
<1>4. CASE k = 0
  <2>1. phase'[d] \in {"queued", "slotted"} BY <1>1, <1>4 DEF Due
  <2> SUFFICES phase[d] \in {"queued", "slotted"} \/ (calls' = calls + 1 /\ d = calls + 1)
    BY <1>1, <1>4 DEF Due
  <2>2. ASSUME NEW s \in Sessions, NEW leased \in BOOLEAN, Enqueue(s, leased) \/ EnqueueRefused(s, leased)
        PROVE  phase[d] \in {"queued", "slotted"} \/ (calls' = calls + 1 /\ d = calls + 1)
    BY <1>1, <1>2, <2>1, <2>2 DEF Enqueue, EnqueueRefused, Made, Drain, Taken, Startable
  <2>3. ASSUME NEW c \in Calls, Release(c) PROVE phase[d] \in {"queued", "slotted"}
    BY <1>1, <1>2, <2>1, <2>3 DEF Release, Drain, Taken, Startable
  <2>4. ASSUME NEW f \in Fences, ReleaseSessionBlock(f) PROVE phase[d] \in {"queued", "slotted"}
    BY <1>1, <1>2, <2>1, <2>4 DEF ReleaseSessionBlock, Drain, Taken, Startable
  <2>5. ASSUME NEW S, CancelQueued(S) PROVE phase[d] \in {"queued", "slotted"}
    BY <1>1, <1>2, <2>1, <2>5 DEF CancelQueued
  <2>6. ASSUME NEW c \in Calls, Start(c) \/ TaskReturns(c) \/ LeaseDrained(c) PROVE phase[d] \in {"queued", "slotted"}
    BY <1>1, <1>2, <2>1, <2>6 DEF Start, TaskReturns, LeaseDrained
  <2>7. ASSUME UNCHANGED phase PROVE phase[d] \in {"queued", "slotted"}
    BY <2>1, <2>7
  <2> QED BY <2>2, <2>3, <2>4, <2>5, <2>6, <2>7
          DEF Next, CallStep, StepTurn, StepBegins, StepSettles, ExecuteWithinLease, BlockSessionUntil,
              CancelQueuedSession, CancelAllQueued, Close, vars, callVars
<1>5. CASE k # 0
  <2>1. /\ lease'[d].finished < k /\ k <= lease'[d].accepted
        /\ ~(lease'[d].head = "running" /\ k = lease'[d].finished + 1)
    BY <1>1, <1>5 DEF Due
  <2> DEFINE Still == /\ lease[d].finished < k /\ k <= lease[d].accepted
                      /\ ~(lease[d].head = "running" /\ k = lease[d].finished + 1)
  <2>2. Still => Due(e) BY <1>1, <1>5 DEF Due
  <2>3. ASSUME NEW c \in Calls, ExecuteWithinLease(c) PROVE Still \/ (c = d /\ k = lease[d].accepted + 1)
    <3>1. CASE c # d
      BY <1>1, <1>2, <2>1, <2>3, <3>1 DEF ExecuteWithinLease, LeaseStep
    <3>2. CASE c = d
      <4>1. /\ lease'[d].accepted = lease[d].accepted + 1 /\ lease'[d].finished = lease[d].finished
            /\ lease'[d].head = lease[d].head
        BY <1>1, <1>2, <2>3, <3>2 DEF ExecuteWithinLease, LeaseStep
      <4> QED BY <1>2, <1>3, <2>1, <3>2, <4>1
    <3> QED BY <3>1, <3>2
  <2>4. ASSUME NEW c \in Calls, StepTurn(c) \/ StepBegins(c) \/ StepSettles(c) PROVE Still
    <3>1. CASE c # d
      <4>1. lease'[d] = lease[d]
        BY <1>1, <1>2, <2>4, <3>1 DEF StepTurn, StepBegins, StepSettles
      <4> QED BY <2>1, <4>1
    <3>2. CASE c = d
      <4>1. /\ lease'[d].accepted = lease[d].accepted
            /\ \/ lease'[d].finished = lease[d].finished
                  /\ (lease[d].head = "running" => lease'[d].head = "running")
               \/ lease'[d].finished = lease[d].finished + 1
        BY <1>1, <1>2, <2>4, <3>2 DEF StepTurn, StepBegins, StepSettles
      <4> QED BY <1>2, <1>3, <2>1, <4>1
    <3> QED BY <3>1, <3>2
  <2>5. ASSUME /\ lease'[d].accepted = lease[d].accepted /\ lease'[d].finished = lease[d].finished
               /\ lease'[d].head = lease[d].head
        PROVE  Still
    BY <2>1, <2>5
  <2>6. ASSUME NEW c \in Calls, Start(c) \/ TaskReturns(c) \/ Close
        PROVE  /\ lease'[d].accepted = lease[d].accepted /\ lease'[d].finished = lease[d].finished
               /\ lease'[d].head = lease[d].head
    BY <1>1, <1>2, <2>6 DEF Start, TaskReturns, Close
  <2> HIDE DEF Still
  <2>7. Still \/ \E c \in Calls : ExecuteWithinLease(c) /\ c = d /\ k = lease[d].accepted + 1
    BY <1>1, <2>3, <2>4, <2>5, <2>6
       DEF Next, CallStep, LeaseDrained, Release, Enqueue, EnqueueRefused, Made, BlockSessionUntil,
           ReleaseSessionBlock, CancelQueuedSession, CancelAllQueued, vars, callVars
  <2> QED BY <1>1, <2>2, <2>7
<1> QED BY <1>4, <1>5
\* A step in which nothing is made or accepted.
Calm == calls' = calls /\ \A c \in Calls : lease'[c].accepted = lease[c].accepted

NothingNewDue == \A f \in Execs : Due(f)' => Due(f)

LEMMA CalmBringsNothing ==
  ASSUME IndInv, [Next]_vars, Calm
  PROVE  NothingNewDue
<1> SUFFICES ASSUME NEW f \in Execs, Due(f)' PROVE Due(f)
  BY DEF NothingNewDue
<1>1. calls \in Nat /\ \A c \in Calls : lease[c].accepted \in Nat /\ c \in Calls
  BY LimiterAssumption DEF IndInv, TypeOK
<1>2. ~(calls' = calls + 1) BY <1>1 DEF Calm
<1>3. ASSUME NEW c \in Calls, ExecuteWithinLease(c) PROVE FALSE
  <2>1. lease'[c].accepted = lease[c].accepted + 1
    BY <1>3 DEF ExecuteWithinLease, LeaseStep, IndInv, TypeOK
  <2> QED BY <1>1, <2>1 DEF Calm
<1> QED BY <1>2, <1>3, DueComes

\* An execution whose own record does not change.
Undisturbed(f) ==
  /\ act'[f] = act[f] /\ status'[f] = status[f]
  /\ task'[f] # "idle" => task[f] # "idle"
  /\ f \in aged => f \in aged'
  /\ Due(f)' => Due(f)
  /\ Firm(f, status) /\ f \in ToSet(records) => f \in ToSet(records')

LEMMA RecordStands ==
  ASSUME NEW f \in Execs, Recorded(f), Undisturbed(f)
  PROVE  Recorded(f)' /\ (Tracked(f)' <=> Tracked(f))
<1>1. f \notin Actions BY LedgerAssumption
<1>2. status[f] \in {"queued", "running"} => Firm(f, status)
  BY DEF Firm, Over
<1>3. act[f] \in Programs /\ f \notin aged => Firm(f, status)
  BY <1>1 DEF Firm, OfProgram, ActionOf
<1> QED BY <1>2, <1>3 DEF Recorded, Undisturbed, Tracked

\* The valid runs of a program are still one when none is added.
LEMMA OneValidStays ==
  ASSUME OneValid,
         \A f \in Execs : act'[f] = act[f] /\ (Tracked(f)' => Tracked(f)) /\ (f \in aged => f \in aged')
  PROVE  OneValid'
BY DEF OneValid

\* Request, RequestStep: a record is made for e.
LEMMA TrackingKeeps ==
  ASSUME RecordBooks, NEW e \in Execs, NEW a \in Actions, Track(e, a), UNCHANGED task,
         \A f \in Execs : Due(f)' => Due(f) \/ f = e
  PROVE  RecordBooks'
<1>1. MapsTyped /\ (\A f \in Execs : Recorded(f)) /\ OneValid BY DEF RecordBooks
<1>2. PICK kept : kept = Kept OBVIOUS
<1>3. /\ ~Known(a, kept)
      /\ records' = Append(kept.records, e)
      /\ recency' = MostRecent(kept.recency, ActionSession[a])
      /\ act' = [act EXCEPT ![e] = a] /\ status' = [status EXCEPT ![e] = "queued"]
      /\ response' = [response EXCEPT ![e] = "pending"] /\ aged' = aged
  BY <1>2 DEF Track
<1>4. /\ kept.records \in Seq(Entries) /\ kept.recency \in Seq(Sessions)
      /\ \A r \in ToSet(records) : Firm(r, status) => r \in ToSet(kept.records)
  BY <1>1, <1>2, PruneKeepsFirm DEF MapsTyped, Kept
<1>5. e \in Entries /\ ActionSession[a] \in Sessions
  BY LedgerAssumption DEF Entries
<1>6. /\ records' \in Seq(Entries) /\ e \in ToSet(records')
      /\ \A r \in ToSet(kept.records) : r \in ToSet(records')
  <2>1. records' \in Seq(Entries) BY <1>3, <1>4, <1>5
  <2>2. /\ DOMAIN records' = 1 .. Len(kept.records) + 1 /\ Len(kept.records) \in Nat
        /\ DOMAIN kept.records = 1 .. Len(kept.records)
        /\ records'[Len(kept.records) + 1] = e
        /\ \A i \in 1 .. Len(kept.records) : records'[i] = kept.records[i]
    BY <1>3, <1>4, <1>5
  <2> QED BY <2>1, <2>2 DEF ToSet
<1>7. recency' \in Seq(Sessions)
  <2>1. Among(kept.recency, Sessions \ {ActionSession[a]}) \in Seq(Sessions) BY <1>4, AmongKeeps
  <2> QED BY <1>3, <1>5, <2>1 DEF MostRecent
<1>8. MapsTyped'
  BY <1>1, <1>3, <1>6, <1>7 DEF MapsTyped, Statuses, Responses
<1>9. act'[e] = a /\ status'[e] = "queued"
  BY <1>1, <1>3 DEF MapsTyped
<1>10. ASSUME NEW f \in Execs, f # e
       PROVE  act'[f] = act[f] /\ Recorded(f)' /\ (Tracked(f)' <=> Tracked(f))
  <2>1. act'[f] = act[f] /\ status'[f] = status[f] BY <1>1, <1>3, <1>10 DEF MapsTyped
  <2>2. Undisturbed(f) BY <1>3, <1>4, <1>6, <1>10, <2>1 DEF Undisturbed
  <2> QED BY <1>1, <2>1, <2>2, RecordStands
<1>11. Recorded(e)' BY <1>6, <1>9 DEF Recorded, Tracked
<1>12. ASSUME NEW f \in Execs, f # e, Tracked(f), act[f] = a, a \in Programs
       PROVE  f \in aged
  <2>1. f \in ToSet(records) \cup aged BY <1>1, <1>12 DEF Recorded
  <2>2. f \notin Actions /\ ActionOf(f) = a BY <1>12, LedgerAssumption DEF ActionOf
  <2>3. f \notin aged => Firm(f, status) BY <1>12, <2>2 DEF Firm, OfProgram
  <2> QED BY <1>3, <1>4, <2>1, <2>2, <2>3 DEF Known
<1>13. OneValid'
  <2> SUFFICES ASSUME NEW f \in Execs, NEW g \in Execs, f # g, Tracked(f)', Tracked(g)',
                      act'[f] = act'[g], act'[f] \in Programs
               PROVE  f \in aged \/ g \in aged
    BY <1>3 DEF OneValid
  <2>1. CASE f = e BY <1>9, <1>10, <1>12, <2>1
  <2>2. CASE g = e BY <1>9, <1>10, <1>12, <2>2
  <2>3. CASE f # e /\ g # e BY <1>1, <1>10, <2>3 DEF OneValid
  <2> QED BY <2>1, <2>2, <2>3
<1> QED BY <1>8, <1>10, <1>11, <1>13 DEF RecordBooks
\* A ledger is pruned to make room or to look at it; the record that is appended, if
\* any, is that of a step turned away.
LEMMA LookingKeeps ==
  ASSUME RecordBooks, NothingNewDue, UNCHANGED execVars,
         \/ \E a \in Actions : AnswerFromLedger(a)
         \/ \E c \in Calls, a \in Actions : StepTurnedAway(c, a)
  PROVE  RecordBooks'
<1>1. MapsTyped /\ (\A f \in Execs : Recorded(f)) /\ OneValid BY DEF RecordBooks
<1>2. PICK kept : kept = Kept OBVIOUS
<1>3. /\ kept.records \in Seq(Entries) /\ kept.recency \in Seq(Sessions)
      /\ \A r \in ToSet(records) : Firm(r, status) => r \in ToSet(kept.records)
  BY <1>1, <1>2, PruneKeepsFirm DEF MapsTyped, Kept
<1>4. ASSUME NEW s \in Sessions
      PROVE  MostRecent(kept.recency, s) \in Seq(Sessions)
  <2>1. Among(kept.recency, Sessions \ {s}) \in Seq(Sessions) BY <1>3, AmongKeeps
  <2> QED BY <2>1 DEF MostRecent
<1> DEFINE Goal == /\ records' \in Seq(Entries) /\ recency' \in Seq(Sessions)
                   /\ aged' \subseteq aged /\ \A f \in Execs : f \in aged => f \in aged'
                   /\ \A r \in ToSet(records) : Firm(r, status) => r \in ToSet(records')
<1>5. ASSUME NEW a \in Actions, AnswerFromLedger(a) PROVE Goal
  <2>1. /\ records' = kept.records /\ aged' = aged
        /\ recency' \in {MostRecent(kept.recency, ActionSession[a]), kept.recency}
    BY <1>2, <1>5 DEF AnswerFromLedger, LookAt
  <2>2. ActionSession[a] \in Sessions BY LedgerAssumption
  <2> QED BY <1>3, <1>4, <2>1, <2>2
<1>6. ASSUME NEW c \in Calls, NEW a \in Actions, StepTurnedAway(c, a) PROVE Goal
  <2>1. /\ PruneTo(Append(kept.records, a), MostRecent(kept.recency, sess[c]), status)
        /\ aged' = aged \ {a} /\ sess[c] = ActionSession[a] /\ sess[c] \in Sessions
    BY <1>2, <1>6, LedgerAssumption DEF StepTurnedAway, StepOf
  <2>2. PICK recs, lru : recs = Append(kept.records, a) /\ lru = MostRecent(kept.recency, sess[c])
    OBVIOUS
  <2>3. a \in Entries BY DEF Entries
  <2>4. recs \in Seq(Entries) /\ lru \in Seq(Sessions)
        /\ \A r \in ToSet(kept.records) : r \in ToSet(recs)
    <3>1. recs \in Seq(Entries) BY <1>3, <2>2, <2>3
    <3>2. lru \in Seq(Sessions) BY <1>4, <2>1, <2>2
    <3>3. /\ DOMAIN recs = 1 .. Len(kept.records) + 1 /\ Len(kept.records) \in Nat
          /\ DOMAIN kept.records = 1 .. Len(kept.records)
          /\ \A i \in 1 .. Len(kept.records) : recs[i] = kept.records[i]
      BY <1>3, <2>2, <2>3
    <3> QED BY <3>1, <3>2, <3>3 DEF ToSet
  <2>5. PICK p : p = Prune(recs, lru, status) /\ records' = p.records /\ recency' = p.recency
    BY <2>1, <2>2 DEF PruneTo
  <2>6. /\ p.records \in Seq(Entries) /\ p.recency \in Seq(Sessions)
        /\ \A r \in ToSet(recs) : Firm(r, status) => r \in ToSet(p.records)
    BY <2>4, <2>5, PruneKeepsFirm
  <2>7. \A f \in Execs : f # a BY LedgerAssumption
  <2> QED BY <1>3, <2>1, <2>4, <2>5, <2>6, <2>7
<1>7. Goal BY <1>5, <1>6
<1>8. MapsTyped' BY <1>1, <1>7 DEF MapsTyped, execVars
<1>9. \A f \in Execs : Undisturbed(f) BY <1>7 DEF Undisturbed, NothingNewDue, execVars
<1>10. \A f \in Execs : act'[f] = act[f] /\ Recorded(f)' /\ (Tracked(f)' <=> Tracked(f))
  BY <1>1, <1>9, RecordStands DEF execVars
<1>11. OneValid' BY <1>1, <1>7, <1>10, OneValidStays
<1> QED BY <1>8, <1>10, <1>11 DEF RecordBooks

\* The record of e becomes terminal, and the ledgers are pruned.
LEMMA FinishingKeeps ==
  ASSUME RecordBooks, NothingNewDue, NEW e \in Execs, NEW v \in Verdicts, Finish(e, v),
         Tracked(e), ~Due(e), \A f \in Execs : task'[f] # "idle" => task[f] # "idle"
  PROVE  RecordBooks'
<1>1. MapsTyped /\ (\A f \in Execs : Recorded(f)) /\ OneValid BY DEF RecordBooks
<1>2. PICK st : st = status' OBVIOUS
<1>3. /\ st = [status EXCEPT ![e] = v]
      /\ response' = Answered(e, IF v = "completed" THEN "resolved" ELSE "rejected")
      /\ PruneAfter(records, st) /\ UNCHANGED <<act, aged>>
  BY <1>2 DEF Finish
<1>4. PICK p : p = Prune(records, recency, st) /\ records' = p.records /\ recency' = p.recency
  BY <1>3 DEF PruneAfter, PruneTo
<1>5. /\ records' \in Seq(Entries) /\ recency' \in Seq(Sessions)
      /\ \A r \in ToSet(records) : Firm(r, st) => r \in ToSet(records')
  BY <1>1, <1>4, PruneKeepsFirm DEF MapsTyped
<1>6. st \in [Execs -> Statuses] /\ st[e] = v /\ \A f \in Execs \ {e} : st[f] = status[f]
  BY <1>1, <1>3 DEF MapsTyped, Verdicts, Statuses
<1>7. MapsTyped'
  <2>1. response' \in [Execs -> Responses] BY <1>1, <1>3 DEF MapsTyped, Answered, Responses
  <2> QED BY <1>1, <1>2, <1>3, <1>5, <1>6, <2>1 DEF MapsTyped
<1>8. ASSUME NEW f \in Execs, f # e PROVE Recorded(f)' /\ (Tracked(f)' <=> Tracked(f))
  <2>1. Firm(f, status) => Firm(f, st)
    BY <1>6, <1>8 DEF Firm, Over, OfProgram
  <2>2. Undisturbed(f)
    BY <1>2, <1>3, <1>5, <1>6, <1>8, <2>1 DEF Undisturbed, NothingNewDue
  <2> QED BY <1>1, <2>2, RecordStands
<1>9. Recorded(e)' /\ Tracked(e)'
  <2>1. status'[e] \notin {"none", "queued", "running"} BY <1>2, <1>6 DEF Verdicts
  <2>2. ~Due(e)' BY DEF NothingNewDue
  <2>3. ASSUME act[e] \in Programs, e \notin aged PROVE e \in ToSet(records')
    <3>1. e \in ToSet(records) BY <1>1, <2>3 DEF Recorded
    <3>2. Firm(e, st) BY <2>3, LedgerAssumption DEF Firm, OfProgram, ActionOf
    <3> QED BY <1>5, <3>1, <3>2
  <2> QED BY <1>3, <2>1, <2>2, <2>3 DEF Recorded, Tracked
<1>10. OneValid' BY <1>1, <1>3, <1>8, OneValidStays
<1> QED BY <1>7, <1>8, <1>9, <1>10 DEF RecordBooks

\* The task of e is called.
LEMMA TaskBeginningKeeps ==
  ASSUME RecordBooks, NothingNewDue, ExecTyped, NEW e \in Execs, TaskBegins(e), Due(e), ~Due(e)'
  PROVE  RecordBooks'
<1>1. MapsTyped /\ (\A f \in Execs : Recorded(f)) /\ OneValid BY DEF RecordBooks
<1>2. /\ status' = [status EXCEPT ![e] = "running"] /\ task' = [task EXCEPT ![e] = "awaiting"]
      /\ UNCHANGED <<act, response, records, recency, aged>>
  BY DEF TaskBegins, mapVars
<1>3. MapsTyped' BY <1>1, <1>2 DEF MapsTyped, Statuses
<1>4. ASSUME NEW f \in Execs, f # e PROVE Recorded(f)' /\ (Tracked(f)' <=> Tracked(f))
  <2>1. status'[f] = status[f] /\ task'[f] = task[f] BY <1>1, <1>2, <1>4 DEF MapsTyped, ExecTyped
  <2>2. Undisturbed(f) BY <1>2, <2>1 DEF Undisturbed, NothingNewDue
  <2> QED BY <1>1, <2>2, RecordStands
<1>5. status'[e] = "running" /\ status[e] = "queued" /\ e \in ToSet(records)
  BY <1>1, <1>2 DEF MapsTyped, Recorded
<1>6. Recorded(e)' /\ Tracked(e)
  BY <1>2, <1>5 DEF Recorded, Tracked
<1>7. OneValid' BY <1>1, <1>2, <1>4, <1>6, OneValidStays
<1> QED BY <1>3, <1>4, <1>6, <1>7 DEF RecordBooks

\* The records stand still.
LEMMA MapsStandKeeps ==
  ASSUME RecordBooks, NothingNewDue, UNCHANGED <<act, status, records, recency>>,
         response' \in [Execs -> Responses], aged \subseteq aged', aged' \subseteq Entries,
         \A f \in Execs : task'[f] # "idle" => task[f] # "idle"
  PROVE  RecordBooks'
<1>1. MapsTyped /\ (\A f \in Execs : Recorded(f)) /\ OneValid BY DEF RecordBooks
<1>2. MapsTyped' BY <1>1 DEF MapsTyped
<1>3. \A f \in Execs : Undisturbed(f) BY DEF Undisturbed, NothingNewDue
<1>4. \A f \in Execs : Recorded(f)' /\ (Tracked(f)' <=> Tracked(f))
  BY <1>1, <1>3, RecordStands
<1>5. OneValid' BY <1>1, <1>4, OneValidStays
<1> QED BY <1>2, <1>4, <1>5 DEF RecordBooks
\* Only Request and RequestStep make or accept anything.
LEMMA OthersAreCalm ==
  ASSUME IndInv,
         \/ UNCHANGED vars \/ FromOutside
         \/ \E c \in Calls : CallStep(c)
         \/ \E s, f, kind : BlockSessionUntil(s, f, kind)
         \/ \E f : ReleaseSessionBlock(f)
  PROVE  Calm
<1>1. /\ lease \in [Calls -> [accepting : BOOLEAN, accepted : 0..MaxSteps,
                       finished : 0..MaxSteps, head : {"idle", "admitted", "running"}]]
  BY DEF IndInv, TypeOK
<1>2. ASSUME NEW c \in Calls, CallStep(c) PROVE Calm
  BY <1>1, <1>2 DEF CallStep, Calm, Start, TaskReturns, LeaseDrained, Release, StepTurn, StepBegins, StepSettles,
                    callVars
<1>3. CASE FromOutside
  <2>1. CASE Close
    BY <1>1, <2>1 DEF Close, Calm
  <2>2. CASE CancelAllQueued \/ \E s \in Sessions : CancelQueuedSession(s)
    BY <2>2 DEF CancelQueuedSession, CancelAllQueued, Calm
  <2> QED BY <1>3, <2>1, <2>2 DEF FromOutside
<1> QED BY <1>2, <1>3 DEF Calm, BlockSessionUntil, ReleaseSessionBlock, vars, callVars

LEMMA MakingKeeps ==
  ASSUME RecordInv, [Next]_vars,
         \/ \E a \in Actions : Request(a)
         \/ \E c \in Calls, a \in Actions : RequestStep(c, a)
  PROVE  RecordBooks'
<1>1. IndInv /\ RecordBooks BY DEF RecordInv, GuardInv
<1>2. /\ calls \in Nat /\ MaxCalls \in Nat /\ MaxSteps \in Nat
      /\ lease \in [Calls -> [accepting : BOOLEAN, accepted : 0..MaxSteps,
                       finished : 0..MaxSteps, head : {"idle", "admitted", "running"}]]
      /\ \A c \in Calls : lease[c].accepted \in Nat
  BY <1>1, LimiterAssumption DEF IndInv, TypeOK
<1>3. ASSUME NEW a \in Actions, Request(a) PROVE RecordBooks'
  <2>1. calls < MaxCalls /\ calls' = calls + 1 /\ Track(<<calls + 1, 0>>, a) /\ lease' = lease
    BY <1>3 DEF Request, Enqueue, EnqueueRefused, Made
  <2>2. PICK e \in Execs : e = <<calls + 1, 0>>
    <3>1. calls + 1 \in Calls /\ 0 \in 0 .. MaxSteps BY <1>2, <2>1 DEF Calls
    <3> QED BY <3>1 DEF Execs
  <2>3. ~ \E c \in Calls : ExecuteWithinLease(c)
    BY <1>2, <2>1 DEF ExecuteWithinLease, callVars
  <2>4. \A f \in Execs : Due(f)' => Due(f) \/ f = e
    BY <1>1, <2>2, <2>3, DueComes
  <2>5. UNCHANGED task BY <2>1 DEF Track
  <2> QED BY <1>1, <2>1, <2>2, <2>4, <2>5, TrackingKeeps
<1>4. ASSUME NEW c \in Calls, NEW a \in Actions, RequestStep(c, a) PROVE RecordBooks'
  <2>1. ExecuteWithinLease(c) /\ Track(<<c, lease[c].accepted + 1>>, a)
    BY <1>4 DEF RequestStep
  <2>2. PICK e \in Execs : e = <<c, lease[c].accepted + 1>>
    <3>1. lease[c].accepted + 1 \in 0 .. MaxSteps BY <1>2, <2>1 DEF ExecuteWithinLease
    <3> QED BY <3>1 DEF Execs
  <2>3. calls' = calls /\ lease' = LeaseStep(c) BY <2>1 DEF ExecuteWithinLease, callVars
  <2>4. ASSUME NEW d \in Calls, ExecuteWithinLease(d) PROVE d = c
    <3>1. lease'[d].accepted = lease[d].accepted + 1
      BY <1>2, <2>4 DEF ExecuteWithinLease, LeaseStep
    <3>2. d # c => lease'[d] = lease[d] BY <1>2, <2>3 DEF LeaseStep
    <3> QED BY <1>2, <3>1, <3>2
  <2>5. ~(calls' = calls + 1) BY <1>2, <2>3
  <2>6. \A f \in Execs : Due(f)' => Due(f) \/ f = e
    BY <1>1, <2>2, <2>4, <2>5, DueComes
  <2>7. UNCHANGED task BY <2>1 DEF Track
  <2> QED BY <1>1, <2>1, <2>2, <2>6, <2>7, TrackingKeeps
<1> QED BY <1>3, <1>4

LEMMA BegunIsNotDue ==
  ASSUME IndInv, NEW e \in Execs, Begun(e) \/ NeverCalled(e)
  PROVE  ~Due(e)
<1>1. PICK c \in Calls, k \in 0 .. MaxSteps : e = <<c, k>> /\ e[1] = c /\ e[2] = k
  BY DEF Execs
<1>2. lease[c].finished \in Nat /\ k \in Nat BY LimiterAssumption DEF IndInv, TypeOK
<1> QED BY <1>1, <1>2 DEF Begun, NeverCalled, Due

\* Every other step, by what it does to the records.
LEMMA CalmKeeps ==
  ASSUME RecordInv, [Next]_vars, LedgerNext, Calm,
         ~ \E a \in Actions : Request(a), ~ \E c \in Calls, a \in Actions : RequestStep(c, a)
  PROVE  RecordBooks'
<1>1. /\ IndInv /\ RecordBooks /\ MapsTyped /\ NothingNewDue /\ ExecTyped
      /\ \A e \in Execs : Recorded(e) /\ Whereabouts(e)
  BY CalmBringsNothing DEF RecordInv, GuardInv, RecordBooks
<1>2. /\ lease \in [Calls -> [accepting : BOOLEAN, accepted : 0..MaxSteps,
                       finished : 0..MaxSteps, head : {"idle", "admitted", "running"}]]
      /\ phase \in [Calls -> Phases] /\ MaxSteps \in Nat
      /\ \A c \in Calls : lease[c].finished \in Nat /\ lease[c].accepted \in Nat
           /\ lease[c].accepted <= MaxSteps
           /\ (lease[c].head # "idle" => lease[c].finished < lease[c].accepted)
  BY <1>1, LimiterAssumption DEF IndInv, TypeOK, LeaseBook
<1>3. \A e \in Execs, how \in {"resolved", "rejected"} : Answered(e, how) \in [Execs -> Responses]
  BY <1>1 DEF MapsTyped, Answered, Responses
<1> DEFINE TasksGoOn == \A f \in Execs : task'[f] # "idle" => task[f] # "idle"
           Still == /\ UNCHANGED <<act, status, records, recency>> /\ aged \subseteq aged' /\ aged' \subseteq Entries
                    /\ response' \in [Execs -> Responses] /\ TasksGoOn
<1>4. Still => RecordBooks' BY <1>1, MapsStandKeeps
<1>5. ASSUME NEW a \in Actions, AnswerFromLedger(a) PROVE RecordBooks'
  BY <1>1, <1>5, LookingKeeps DEF AnswerFromLedger
<1>6. ASSUME NEW c \in Calls, NEW a \in Actions, StepTurnedAway(c, a) PROVE RecordBooks'
  BY <1>1, <1>6, LookingKeeps DEF StepTurnedAway
<1>7. ASSUME NEW r \in ToSet(records), TtlElapses(r) PROVE RecordBooks'
  <2>1. r \in Entries BY <1>1 DEF MapsTyped, ToSet
  <2>2. Still BY <1>1, <1>7, <2>1 DEF TtlElapses, execVars, MapsTyped
  <2> QED BY <1>4, <2>2
<1>8. ASSUME NEW c \in Calls, CallBegins(c) \/ ProgramStepBegins(c) PROVE RecordBooks'
  <2>1. CASE CallBegins(c) /\ closed
    <3>1. Still BY <1>1, <2>1 DEF CallBegins, execVars, mapVars, MapsTyped
    <3> QED BY <1>4, <3>1
  <2>2. CASE CallBegins(c) /\ ~closed
    <3> DEFINE e == <<c, 0>>
    <3>1. e \in Execs /\ e[1] = c /\ e[2] = 0 BY <1>2 DEF Execs
    <3>2. phase[c] = "slotted" /\ phase'[c] = "running" /\ TaskBegins(e)
      BY <1>2, <2>2 DEF CallBegins, Start
    <3>3. Due(e) /\ ~Due(e)' BY <3>1, <3>2 DEF Due
    <3> HIDE DEF e
    <3> QED BY <1>1, <3>1, <3>2, <3>3, TaskBeginningKeeps
  <2>3. CASE ProgramStepBegins(c)
    <3>1. lease[c].head = "admitted" /\ lease'[c].head = "running" /\ lease'[c].finished = lease[c].finished
      BY <1>2, <2>3 DEF ProgramStepBegins, StepBegins
    <3>2. PICK e \in Execs : e[1] = c /\ e[2] = lease[c].finished + 1 /\ e = <<c, lease[c].finished + 1>>
      <4>1. lease[c].finished + 1 \in 0 .. MaxSteps BY <1>2, <3>1
      <4> QED BY <4>1 DEF Execs
    <3>3. TaskBegins(e) BY <2>3, <3>2 DEF ProgramStepBegins, CurrentStep
    <3>4. e[2] # 0 /\ Due(e) /\ ~Due(e)' BY <1>2, <3>1, <3>2 DEF Due
    <3> QED BY <1>1, <3>3, <3>4, TaskBeginningKeeps
  <2> QED BY <1>8, <2>1, <2>2, <2>3
<1>9. ASSUME NEW e \in Execs, NEW v \in Verdicts, Finish(e, v), TasksGoOn,
             task[e] # "idle" \/ status[e] = "running" \/ (status[e] = "queued" /\ NeverCalled(e))
      PROVE  RecordBooks'
  <2>1. Tracked(e) /\ ~Due(e)
    <3>1. CASE task[e] # "idle"
      BY <1>1, <3>1, BegunIsNotDue DEF Whereabouts, Recorded
    <3>2. CASE status[e] = "running"
      BY <1>1, <3>2 DEF Recorded, Tracked
    <3>3. CASE status[e] = "queued" /\ NeverCalled(e)
      BY <1>1, <3>3, BegunIsNotDue DEF Tracked
    <3> QED BY <1>9, <3>1, <3>2, <3>3
  <2> QED BY <1>1, <1>9, <2>1, FinishingKeeps
<1>9a. ASSUME NEW e \in Execs, NEW v \in Verdicts,
              OperationSettles(e, v) \/ LateFinish(e, v) \/ Recovered(e, v)
       PROVE  RecordBooks'
  <2>1. Finish(e, v) BY <1>9a DEF OperationSettles, LateFinish, Recovered
  <2>2. TasksGoOn BY <1>1, <1>9a DEF OperationSettles, LateFinish, Recovered, ExecTyped
  <2>3. task[e] # "idle" \/ status[e] = "running"
    BY <1>9a DEF OperationSettles, LateFinish, Recovered
  <2> QED BY <1>9, <2>1, <2>2, <2>3
<1>9b. ASSUME NEW e \in Execs, Intervened(e) \/ ScheduleRejected(e) PROVE RecordBooks'
  <2>1. PICK v \in Verdicts : Finish(e, v)
    BY <1>9b DEF Intervened, ScheduleRejected, Verdicts
  <2>2. TasksGoOn BY <1>1, <1>9b DEF Intervened, ScheduleRejected, ExecTyped
  <2>3. task[e] # "idle" \/ (status[e] = "queued" /\ NeverCalled(e))
    BY <1>9b DEF Intervened, ScheduleRejected
  <2> QED BY <1>9, <2>1, <2>2, <2>3
<1>10. ASSUME NEW e \in Execs,
              \/ Interrupted(e) \/ TimesOut(e) \/ HandoffOmitted(e) \/ HardCap(e)
              \/ HandoffOmittedLate(e) \/ EffectSettles(e) \/ FenceFalls(e) \/ RecoveryElapses(e)
       PROVE  RecordBooks'
  <2>1. UNCHANGED <<act, status, records, recency, aged>>
    BY <1>10 DEF Interrupted, TimesOut, HandoffOmitted, HardCap, HandoffOmittedLate, EffectSettles, FenceFalls,
                 RecoveryElapses, RejectEarly, mapVars, execVars
  <2>2. response' = response \/ response' = Answered(e, "rejected")
    BY <1>10 DEF Interrupted, TimesOut, HandoffOmitted, HardCap, HandoffOmittedLate, EffectSettles, FenceFalls,
                 RecoveryElapses, RejectEarly, execVars
  <2>3. TasksGoOn
    BY <1>1, <1>10 DEF Interrupted, TimesOut, HandoffOmitted, HardCap, HandoffOmittedLate, EffectSettles,
                       FenceFalls, RecoveryElapses, execVars, ExecTyped
  <2>4. Still BY <1>1, <1>3, <2>1, <2>2, <2>3 DEF MapsTyped
  <2> QED BY <1>4, <2>4
<1>11. ASSUME (\E c \in Calls : LimiterTurn(c)) \/ FromOutside PROVE RecordBooks'
  <2>1. Still BY <1>1, <1>11 DEF LimiterTurn, FromOutside, execVars, mapVars, MapsTyped
  <2> QED BY <1>4, <2>1
<1> HIDE DEF Still, TasksGoOn
<1>12. ASSUME NEW e \in Execs, Outcome(e) \/ Aftermath(e) PROVE RecordBooks'
  <2>1. Outcome(e) => RecordBooks' BY <1>9a, <1>9b, <1>10 DEF Outcome
  <2>2. Aftermath(e) => RecordBooks' BY <1>9a, <1>9b, <1>10 DEF Aftermath
  <2> QED BY <1>12, <2>1, <2>2
<1> QED BY <1>5, <1>6, <1>7, <1>8, <1>11, <1>12 DEF LedgerNext
LEMMA LedgerNextKeepsRecords == RecordInv /\ [LedgerNext]_ledgerVars => RecordInv'
<1> SUFFICES ASSUME RecordInv, [LedgerNext]_ledgerVars PROVE RecordInv'
  OBVIOUS
<1>1. GuardInv' /\ GuardInv /\ IndInv /\ RecordBooks
  BY LedgerNextGuards DEF RecordInv, GuardInv
<1>2. CASE UNCHANGED ledgerVars
  <2>1. UNCHANGED vars /\ UNCHANGED execVars /\ UNCHANGED mapVars BY <1>2 DEF ledgerVars
  <2>2. Calm BY <1>1, <2>1, OthersAreCalm
  <2>3. NothingNewDue BY <1>1, <2>1, <2>2, CalmBringsNothing
  <2>4. RecordBooks' BY <1>1, <2>1, <2>3, MapsStandKeeps DEF execVars, mapVars, RecordBooks, MapsTyped
  <2> QED BY <1>1, <2>4 DEF RecordInv
<1>3. CASE LedgerNext
  <2>1. [Next]_vars BY <1>1, <1>3, LedgerMovesTheLimiter
  <2>2. CASE \/ \E a \in Actions : Request(a)
             \/ \E c \in Calls, a \in Actions : RequestStep(c, a)
    BY <1>1, <2>1, <2>2, MakingKeeps DEF RecordInv
  <2>3. CASE ~ \/ \E a \in Actions : Request(a)
               \/ \E c \in Calls, a \in Actions : RequestStep(c, a)
    <3>1. ASSUME NEW a \in Actions, AnswerFromLedger(a) PROVE Calm
      BY <1>1, <3>1, OthersAreCalm DEF AnswerFromLedger
    <3>2. ASSUME NEW c \in Calls, NEW a \in Actions, StepTurnedAway(c, a) PROVE Calm
      BY <1>1, <3>2, OthersAreCalm DEF StepTurnedAway
    <3>3. ASSUME NEW r \in ToSet(records), TtlElapses(r) PROVE Calm
      BY <1>1, <3>3, OthersAreCalm DEF TtlElapses
    <3>4. ASSUME NEW c \in Calls, CallBegins(c) \/ ProgramStepBegins(c) \/ LimiterTurn(c) PROVE Calm
      BY <1>1, <3>4, OthersAreCalm DEF CallBegins, ProgramStepBegins, LimiterTurn, CallStep
    <3>5. ASSUME NEW e \in Execs, Outcome(e) PROVE Calm
      BY <1>1, <3>5, OthersAreCalm
         DEF Outcome, OperationSettles, Intervened, Interrupted, TimesOut, HandoffOmitted, HardCap,
             HandoffOmittedLate, HandOver
    <3>6. ASSUME NEW e \in Execs, Aftermath(e) PROVE Calm
      BY <1>1, <3>6, OthersAreCalm
         DEF Aftermath, EffectSettles, FenceFalls, LateFinish, Recovered, RecoveryElapses, ScheduleRejected
    <3>7. Calm
      BY <1>1, <1>3, <2>3, <3>1, <3>2, <3>3, <3>4, <3>5, <3>6, OthersAreCalm DEF LedgerNext
    <3> QED BY <1>1, <1>3, <2>1, <2>3, <3>7, CalmKeeps DEF RecordInv
  <2> QED BY <1>1, <2>2, <2>3 DEF RecordInv
<1> QED BY <1>2, <1>3

LEMMA LedgerInitRecords == LedgerInit => RecordInv
<1> SUFFICES ASSUME LedgerInit PROVE RecordInv
  OBVIOUS
<1>1. GuardInv BY LedgerInitGuards
<1>2. MapsTyped BY DEF LedgerInit, MapsTyped, Statuses, Responses
<1>3. ASSUME NEW e \in Execs PROVE Recorded(e) /\ ~Tracked(e)
  <2>1. e[1] \in Calls /\ e[2] \in 0 .. MaxSteps BY DEF Execs
  <2>2. ~Due(e) BY <2>1, LimiterAssumption DEF LedgerInit, Init, NoLease, Due
  <2> QED BY <2>2 DEF LedgerInit, Recorded, Tracked
<1> QED BY <1>1, <1>2, <1>3 DEF RecordInv, RecordBooks, OneValid

\* The invariant behind the three theorems below: what the limiter holds back has a
\* record that is still queued, a record leaves its ledger only when it is over, that of
\* a program only when it has expired, and of the runs of a program one at most is valid.
THEOREM RecordInvariance == LedgerSpec => []RecordInv
BY LedgerInitRecords, LedgerNextKeepsRecords, PTL DEF LedgerSpec

\* Every record, answer, task and ledger has the shape executeTracked gives it.
THEOREM LedgerIsTyped == LedgerSpec => []LedgerTypeOK
<1>1. RecordInv => LedgerTypeOK
  BY DEF RecordInv, RecordBooks, GuardInv, MapsTyped, ExecTyped, Entries, LedgerTypeOK
<1> QED BY <1>1, RecordInvariance, PTL

\* Neither the limit of a ledger, nor that of the number of ledgers, nor an expiry, nor a
\* step turned away takes away the record of an action that is queued or running: a
\* duplicate request always meets it.
THEOREM LiveRecordsStay == LedgerSpec => []LiveRecordsRetained
<1>1. RecordInv => LiveRecordsRetained
  BY DEF RecordInv, RecordBooks, Recorded, LiveRecordsRetained
<1> QED BY <1>1, RecordInvariance, PTL

\* A program is not run a second time while the record of its last run is valid,
\* whatever its own steps and the other sessions do to the ledgers.
THEOREM ProgramsRunOnce == LedgerSpec => []ProgramRunsOnce
<1>1. ASSUME RecordInv, NEW e \in Execs, effect[e] # "none" PROVE Tracked(e)
  BY <1>1 DEF RecordInv, RecordBooks, GuardInv, Whereabouts, Recorded
<1>2. RecordInv => ProgramRunsOnce
  BY <1>1 DEF RecordInv, RecordBooks, OneValid, ProgramRunsOnce
<1> QED BY <1>2, RecordInvariance, PTL

-----------------------------------------------------------------------------
(***************************************************************************)
(*                        The control boundary                             *)
(***************************************************************************)

-----------------------------------------------------------------------------
(* The invariant.                                                           *)

BoundaryTyped ==
  /\ bstate \in [Boundaries -> Stages]
  /\ bsess \in [Boundaries -> Sessions \cup {NoSession}]
  /\ bid \in [Boundaries -> Ids]
  /\ accepted \in [Boundaries -> SUBSET Calls]
  /\ release \in [Sessions -> [stage : {"none", "waiting", "draining"},
                               id : Ids, owed : SUBSET Calls]]
  /\ control \in [Sessions -> [id : Ids, active : BOOLEAN]]

\* A call that left its effect to a fence has had its slot, and the fence stands in
\* its session.
EffectFence(c) ==
  /\ settlement[c] # "unused" => Decided(c)
  /\ settlement[c] = "pending" /\ ~closed => c \in blockedSessions[sess[c]]

Fencing == {"handing", "draining", "ending", "cleaning", "leaving"}

\* A request keeps its fence until it answers.
OwnFence(b) ==
  bstate[b] \in Fencing =>
    /\ bsess[b] \in Sessions
    /\ settlement[b] = "pending"
    /\ ~closed => b \in blockedSessions[bsess[b]]

\* The calls C are decided calls of s.
DecidedIn(C, s) == \A c \in C : Decided(c) /\ sess[c] = s

\* No call of C is at work.
Quiet(C) == ~closed => \A c \in C : ~Unsettled(c)

CallsOf(s) == {c \in Calls : sess[c] = s}

RequestGood(b) ==
  /\ OwnFence(b)
  /\ DecidedIn(accepted[b], bsess[b])
  /\ bstate[b] \in {"draining", "cleaning"} => Quiet(CallsOf(bsess[b]))

ReleaseGood(s) ==
  /\ DecidedIn(release[s].owed, s)
  /\ release[s].stage = "draining" => Quiet(release[s].owed)

ControlInv ==
  /\ IndInv /\ BoundaryTyped
  /\ \A c \in Calls : EffectFence(c)
  /\ \A b \in Boundaries : RequestGood(b)
  /\ \A s \in Sessions : ReleaseGood(s)

-----------------------------------------------------------------------------
(* Calls.                                                                   *)

LEMMA SlotsAreDecided ==
  ASSUME IndInv, NEW c \in Calls, HoldsSlot(c)
  PROVE  Decided(c) /\ sess[c] \in activeSessions /\ sess[c] \in Sessions
<1>1. Decided(c) /\ phase[c] # "unmade" BY DEF HoldsSlot, SlotPhases, Decided
<1> QED BY <1>1 DEF IndInv, CallBook, SlotAccounting, SessionsOf

LEMMA TouchingHoldsSlot ==
  ASSUME IndInv, NEW c \in Calls, Touching(c)
  PROVE  HoldsSlot(c)
BY DEF Touching, HoldsSlot, SlotPhases, IndInv, LeaseBook, StepsInsideSlot

\* Of the fences named by calls, a step raises only that of a call with a slot.
RaisedWithSlot ==
  \A c \in Calls :
    \/ settlement'[c] = settlement[c]
    \/ settlement'[c] = "arrived" /\ settlement[c] = "pending"
    \/ HoldsSlot(c) /\ c \in blockedSessions'[sess[c]]

LEMMA IdleIsQuiet ==
  ASSUME ControlInv, NEW s \in Sessions, Idle(s)
  PROVE  Quiet(CallsOf(s))
<1> SUFFICES ASSUME ~closed, NEW c \in Calls, sess[c] = s, Unsettled(c) PROVE FALSE
  BY DEF Quiet, CallsOf
<1>1. ~HoldsSlot(c) BY SlotsAreDecided DEF ControlInv, Idle
<1>2. c \in blockedSessions[s] BY <1>1 DEF Unsettled, ControlInv, EffectFence
<1> QED BY <1>2, BoundaryAssumption DEF Idle

LEMMA EffectFenceStays ==
  ASSUME ControlInv, Advance, RaisedWithSlot, NEW c \in Calls
  PROVE  EffectFence(c)'
<1>1. IndInv /\ EffectFence(c) /\ c \in Fences
  BY BoundaryAssumption DEF ControlInv
<1>2. Decided(c) => Decided(c)' /\ sess'[c] = sess[c] /\ sess[c] \in Sessions
  BY <1>1 DEF Advance, CallAdvances, Decided, IndInv, CallBook
<1>3. settlement'[c] # "unused" => Decided(c)
  BY <1>1, SlotsAreDecided DEF RaisedWithSlot, EffectFence
<1>4. settlement'[c] = "pending" /\ ~closed' => c \in blockedSessions'[sess[c]]
  BY <1>1, <1>2, <1>3 DEF RaisedWithSlot, EffectFence, Advance, FencesStand
<1> QED BY <1>2, <1>3, <1>4 DEF EffectFence

LEMMA DecidedStay ==
  ASSUME IndInv, Advance, NEW C \in SUBSET Calls, NEW s, DecidedIn(C, s)
  PROVE  DecidedIn(C, s)'
BY DEF DecidedIn, Advance, CallAdvances, Decided

\* Decided calls that are at rest stay at rest.
LEMMA QuietStays ==
  ASSUME ControlInv, Advance, RaisedWithSlot, NEW C \in SUBSET Calls, NEW s,
         DecidedIn(C, s), Quiet(C)
  PROVE  Quiet(C)'
<1> SUFFICES ASSUME ~closed', NEW c \in C, Unsettled(c)' PROVE FALSE
  BY DEF Quiet
<1>1. ~closed /\ ~Unsettled(c) /\ Decided(c)
  BY DEF Advance, Quiet, DecidedIn
<1>2. ~HoldsSlot(c)' BY <1>1 DEF Unsettled, Advance, CallAdvances
<1> QED BY <1>1, <1>2 DEF Unsettled, RaisedWithSlot

\* So does a session that is fenced before and after the step.
LEMMA SessionStaysQuiet ==
  ASSUME ControlInv, Advance, RaisedWithSlot, NEW s \in Sessions, Quiet(CallsOf(s)),
         ~closed' => blockedSessions'[s] # {}
  PROVE  Quiet(CallsOf(s))'
<1> SUFFICES ASSUME ~closed', NEW c \in Calls, sess'[c] = s, Unsettled(c)' PROVE FALSE
  BY DEF Quiet, CallsOf
<1>1. ~closed /\ \A d \in Calls : sess[d] = s => ~Unsettled(d)
  BY DEF Advance, Quiet, CallsOf
<1>2. s \notin activeSessions
  BY <1>1 DEF ControlInv, IndInv, SlotAccounting, SessionsOf, Unsettled
<1>3. s \notin activeSessions'
  BY <1>2 DEF Advance, GrantsUnfenced
<1>4. ~HoldsSlot(c)'
  <2>1. (HoldsSlot(c) => sess[c] \in activeSessions)'
    BY DEF Advance, IndInv, SlotAccounting, SessionsOf
  <2> QED BY <1>3, <2>1
<1>5. settlement'[c] = "pending" BY <1>4 DEF Unsettled
<1>6. settlement[c] = "pending" \/ HoldsSlot(c)
  BY <1>5 DEF RaisedWithSlot
<1>7. Decided(c) BY <1>6, SlotsAreDecided DEF ControlInv, EffectFence
<1>8. sess[c] = s BY <1>7 DEF Advance, CallAdvances, Decided
<1> QED BY <1>1, <1>6, <1>8 DEF Unsettled

-----------------------------------------------------------------------------
(* Requests and releases.                                                   *)

\* The request keeps its place, or goes on to a place with the same fence; it reaches
\* the drain or the cleanup only from an idle session.
Walks(b) ==
  /\ UNCHANGED <<bsess[b], accepted[b]>>
  /\ bstate'[b] \in Fencing => bstate[b] \in Fencing /\ settlement'[b] = settlement[b]
  /\ bstate'[b] \in {"draining", "cleaning"} => bstate'[b] = bstate[b] \/ (Idle(bsess[b]) /\ UNCHANGED vars)

LEMMA WalkKeeps ==
  ASSUME ControlInv, Advance, RaisedWithSlot, NEW b \in Boundaries, Walks(b)
  PROVE  RequestGood(b)'
<1>1. IndInv /\ RequestGood(b) /\ accepted[b] \in SUBSET Calls /\ b \in Fences
  BY BoundaryAssumption DEF ControlInv, BoundaryTyped
<1>2. OwnFence(b)'
  BY <1>1 DEF OwnFence, RequestGood, Walks, Advance, FencesStand
<1>3. DecidedIn(accepted[b], bsess[b])'
  BY <1>1, DecidedStay DEF RequestGood, Walks
<1>4. ASSUME bstate'[b] \in {"draining", "cleaning"} PROVE Quiet(CallsOf(bsess[b]))'
  <2>1. bsess[b] \in Sessions /\ bsess'[b] = bsess[b]
    BY <1>1, <1>4 DEF Walks, RequestGood, OwnFence, Fencing
  <2>2. PICK s \in Sessions : s = bsess[b] /\ s = bsess'[b]
    BY <2>1
  <2>3. Quiet(CallsOf(s))
    BY <1>1, <1>4, <2>2, IdleIsQuiet DEF Walks, RequestGood
  <2>4. ~closed' => blockedSessions'[s] # {}
    BY <1>2, <1>4, <2>2 DEF OwnFence, Fencing
  <2>5. Quiet(CallsOf(s))' BY <2>3, <2>4, SessionStaysQuiet
  <2> QED BY <2>2, <2>5
<1> QED BY <1>2, <1>3, <1>4 DEF RequestGood

LEMMA ReleaseStays ==
  ASSUME ControlInv, Advance, RaisedWithSlot, NEW s \in Sessions, UNCHANGED release[s]
  PROVE  ReleaseGood(s)'
<1>1. IndInv /\ ReleaseGood(s) /\ release[s].owed \in SUBSET Calls
  BY DEF ControlInv, BoundaryTyped
<1> QED BY <1>1, DecidedStay, QuietStays DEF ReleaseGood

-----------------------------------------------------------------------------
(* The steps.                                                               *)

LEMMA ControlMovesTheLimiter ==
  ASSUME ControlInv, ControlNext
  PROVE  [Next]_vars
<1>1. CASE CallArrives BY <1>1 DEF CallArrives, Next
<1>2. ASSUME NEW s \in Sessions, StopProgram(s) \/ ReleaseTurn(s) PROVE [Next]_vars
  BY <1>2 DEF StopProgram, ReleaseTurn, ReleaseWaitEnds, ReleaseWaitTimesOut, ReleaseDrained,
              Retire, NothingRetired, Next
<1>3. ASSUME NEW c \in Calls, CallTurn(c) \/ ArmingFails(c) \/ ProgramRequestsStep(c) PROVE [Next]_vars
  BY <1>3 DEF CallTurn, CallStarts, ProgramTurnedAway, BeginControl, SchedulerTurn, ArmingFails,
              ProgramRequestsStep, CallStep, Next
<1>4. ASSUME NEW c \in Calls, GivesUp(c) \/ FencedEffectSettles(c) PROVE [Next]_vars
  <2>1. c \in Fences BY BoundaryAssumption
  <2>2. Touching(c) => sess[c] \in Sessions
    BY TouchingHoldsSlot, SlotsAreDecided DEF ControlInv
  <2> QED BY <1>4, <2>1, <2>2 DEF GivesUp, FencedEffectSettles, Next
<1>5. ASSUME NEW b \in Boundaries, NEW s \in Sessions, Handoff(b, s) \/ EndControl(b, s)
      PROVE  [Next]_vars
  <2>1. b \in Fences BY BoundaryAssumption
  <2> QED BY <1>5, <2>1 DEF Handoff, EndControl, Arrives, Next
<1>6. ASSUME NEW b \in Boundaries, BoundaryTurn(b) PROVE [Next]_vars
  <2>1. b \in Fences BY BoundaryAssumption
  <2>2. bstate[b] \in Fencing => bsess[b] \in Sessions
    BY DEF ControlInv, RequestGood, OwnFence
  <2> QED BY <1>6, <2>1, <2>2
          DEF BoundaryTurn, HandoffWaitEnds, HandoffDrained, HandoffTimesOut, EndWaitEnds, EndCleaned,
              EndTimesOut, Leaves, Retire, NothingRetired, Fencing, Next
<1>7. CASE ShutDown BY <1>7 DEF ShutDown, Next
<1> QED BY <1>1, <1>2, <1>3, <1>4, <1>5, <1>6, <1>7 DEF ControlNext

\* A step on the side of the calls leaves requests and releases alone.
CallSide ==
  \/ CallArrives \/ ShutDown
  \/ \E s \in Sessions : StopProgram(s)
  \/ \E c \in Calls : \/ CallTurn(c) \/ ArmingFails(c) \/ ProgramRequestsStep(c)
                      \/ GivesUp(c) \/ FencedEffectSettles(c)

LEMMA CallSideKeeps ==
  ASSUME ControlInv, Advance, CallSide
  PROVE  /\ BoundaryTyped' /\ RaisedWithSlot
         /\ \A b \in Boundaries : Walks(b)
         /\ \A s \in Sessions : UNCHANGED release[s]
<1>1. /\ IndInv /\ BoundaryTyped /\ Calls \cup Boundaries \subseteq Fences
      /\ Calls \cap Boundaries = {} /\ Calls \subseteq Ids
      /\ settlement \in [Fences -> {"unused", "pending", "never", "arrived"}]
      /\ blockedSessions \in [Sessions -> SUBSET Fences]
  BY BoundaryAssumption, LimiterAssumption DEF ControlInv, IndInv, TypeOK, Calls, Ids
<1>2. UNCHANGED <<boundaryVars, release>>
  BY DEF CallSide, CallArrives, ShutDown, StopProgram, CallTurn, CallStarts, ProgramTurnedAway,
         BeginControl, SchedulerTurn, ArmingFails, ProgramRequestsStep, GivesUp, FencedEffectSettles, controlVars
<1>3. \/ UNCHANGED settlement
      \/ \E c \in Calls : GivesUp(c) \/ FencedEffectSettles(c)
  BY DEF CallSide, CallArrives, ShutDown, StopProgram, CallTurn, CallStarts, ProgramTurnedAway,
         BeginControl, SchedulerTurn, ArmingFails, ProgramRequestsStep, Enqueue, EnqueueRefused, Made,
         Start, TaskReturns, LeaseDrained, Release, StepTurn, StepBegins, StepSettles,
         ExecuteWithinLease, CancelQueuedSession, Close, vars
<1>4. control' \in [Sessions -> [id : Ids, active : BOOLEAN]]
  <2>1. \/ UNCHANGED control
        \/ \E c \in Calls : BeginControl(c) \/ ArmingFails(c)
    BY DEF CallSide, CallArrives, ShutDown, StopProgram, CallTurn, CallStarts, ProgramTurnedAway,
           SchedulerTurn, ProgramRequestsStep, GivesUp, FencedEffectSettles, controlVars
  <2>2. ASSUME NEW c \in Calls, BeginControl(c)
        PROVE  control' \in [Sessions -> [id : Ids, active : BOOLEAN]]
    BY <1>1, <2>2 DEF BeginControl, BoundaryTyped
  <2>3. ASSUME NEW c \in Calls, ArmingFails(c)
        PROVE  control' \in [Sessions -> [id : Ids, active : BOOLEAN]]
    BY <1>1, <2>3, ZenonT(60) DEF ArmingFails, BoundaryTyped
  <2> QED BY <1>1, <2>1, <2>2, <2>3 DEF BoundaryTyped
<1>5. BoundaryTyped' BY <1>1, <1>2, <1>4 DEF BoundaryTyped, boundaryVars
<1>6. RaisedWithSlot /\ \A b \in Boundaries : settlement'[b] = settlement[b]
  <2>1. CASE UNCHANGED settlement BY <2>1 DEF RaisedWithSlot
  <2>2. ASSUME NEW c \in Calls, GivesUp(c)
        PROVE  RaisedWithSlot /\ \A b \in Boundaries : settlement'[b] = settlement[b]
    <3>1. HoldsSlot(c) /\ sess[c] \in Sessions
      BY <1>1, <2>2, TouchingHoldsSlot, SlotsAreDecided DEF GivesUp
    <3> QED BY <1>1, <2>2, <3>1 DEF GivesUp, BlockSessionUntil, RaisedWithSlot
  <2>3. ASSUME NEW c \in Calls, FencedEffectSettles(c)
        PROVE  RaisedWithSlot /\ \A b \in Boundaries : settlement'[b] = settlement[b]
    BY <1>1, <2>3 DEF FencedEffectSettles, ReleaseSessionBlock, RaisedWithSlot
  <2> QED BY <1>3, <2>1, <2>2, <2>3
<1>7. ASSUME NEW b \in Boundaries PROVE Walks(b)
  BY <1>2, <1>6 DEF Walks, boundaryVars
<1> QED BY <1>2, <1>5, <1>6, <1>7

\* A request arrives.
LEMMA ArrivalKeeps ==
  ASSUME ControlInv, Advance, NEW b \in Boundaries, NEW s \in Sessions, NEW id \in Ids,
         NEW stage \in {"handing", "ending"}, Arrives(b, s, id, stage)
  PROVE  /\ BoundaryTyped' /\ RaisedWithSlot /\ RequestGood(b)'
         /\ \A d \in Boundaries \ {b} : Walks(d)
         /\ \A r \in Sessions : UNCHANGED release[r]
<1>1. /\ IndInv /\ BoundaryTyped /\ Calls \cup Boundaries \subseteq Fences
      /\ Calls \cap Boundaries = {}
      /\ settlement \in [Fences -> {"unused", "pending", "never", "arrived"}]
      /\ blockedSessions \in [Sessions -> SUBSET Fences]
  BY BoundaryAssumption DEF ControlInv, IndInv, TypeOK
<1>2. PICK C \in SUBSET Calls : C = {c \in Calls : sess[c] = s /\ Unsettled(c)}
  OBVIOUS
<1>3. DecidedIn(C, s)
  BY <1>2, SlotsAreDecided DEF ControlInv, DecidedIn, Unsettled, EffectFence
<1>4. /\ bstate' = [bstate EXCEPT ![b] = stage] /\ bsess' = [bsess EXCEPT ![b] = s]
      /\ bid' = [bid EXCEPT ![b] = id] /\ accepted' = [accepted EXCEPT ![b] = C]
      /\ UNCHANGED <<control, release, sess>>
      /\ settlement' = [settlement EXCEPT ![b] = "pending"]
      /\ blockedSessions' = [blockedSessions EXCEPT ![s] = @ \cup {b}]
  BY <1>2 DEF Arrives, BlockSessionUntil
<1>5. BoundaryTyped' BY <1>1, <1>4 DEF BoundaryTyped, Stages
<1>6. RaisedWithSlot BY <1>1, <1>4 DEF RaisedWithSlot
<1>7. RequestGood(b)'
  <2>1. bstate'[b] = stage /\ bsess'[b] = s /\ accepted'[b] = C /\ settlement'[b] = "pending"
        /\ b \in blockedSessions'[s]
    BY <1>1, <1>4 DEF BoundaryTyped
  <2>2. DecidedIn(C, s)' BY <1>1, <1>3, DecidedStay
  <2>3. DecidedIn(accepted[b], bsess[b])'
    BY <2>1, <2>2 DEF DecidedIn
  <2> QED BY <2>1, <2>3 DEF RequestGood, OwnFence
<1>8. ASSUME NEW d \in Boundaries \ {b} PROVE Walks(d)
  BY <1>1, <1>4 DEF Walks, BoundaryTyped
<1> QED BY <1>4, <1>5, <1>6, <1>7, <1>8

\* A request goes on.  What it may leave to a release is what it was owed.
LEMMA RequestWalks ==
  ASSUME ControlInv, Advance, NEW b \in Boundaries, BoundaryTurn(b)
  PROVE  /\ BoundaryTyped' /\ RaisedWithSlot
         /\ \A d \in Boundaries : Walks(d)
         /\ \A s \in Sessions :
              \/ UNCHANGED release[s]
              \/ /\ release'[s].stage = "waiting" /\ release'[s].owed = accepted[b]
                 /\ bsess[b] = s /\ UNCHANGED vars
<1>1. /\ IndInv /\ BoundaryTyped /\ Calls \cup Boundaries \subseteq Fences
      /\ Calls \cap Boundaries = {}
      /\ settlement \in [Fences -> {"unused", "pending", "never", "arrived"}]
  BY BoundaryAssumption DEF ControlInv, IndInv, TypeOK
<1>2. PICK to \in {"draining", "cleaning", "leaving", "answered"} :
        /\ bstate[b] \in Fencing /\ bstate' = [bstate EXCEPT ![b] = to]
        /\ to \in {"draining", "cleaning"} => Idle(bsess[b]) /\ UNCHANGED vars
        /\ \/ to # "answered" /\ UNCHANGED settlement
           \/ to = "answered" /\ settlement[b] = "pending" /\ settlement' = [settlement EXCEPT ![b] = "arrived"]
  BY DEF BoundaryTurn, HandoffWaitEnds, HandoffDrained, HandoffTimesOut, EndWaitEnds, EndCleaned,
         EndTimesOut, Leaves, Proceed, Retire, CancelQueuedSession, NothingRetired, ReleaseSessionBlock,
         Fencing, vars
<1>3. UNCHANGED <<bsess, bid, accepted>>
  BY DEF BoundaryTurn, HandoffWaitEnds, HandoffDrained, HandoffTimesOut, EndWaitEnds, EndCleaned,
         EndTimesOut, Leaves
<1>4. bsess[b] \in Sessions
  BY <1>2 DEF ControlInv, RequestGood, OwnFence
<1>5. \/ UNCHANGED release
      \/ /\ UNCHANGED vars
         /\ release' = [release EXCEPT
               ![bsess[b]] = [stage |-> "waiting", id |-> bid[b], owed |-> accepted[b]]]
  BY DEF BoundaryTurn, HandoffWaitEnds, HandoffDrained, HandoffTimesOut, EndWaitEnds, EndCleaned,
         EndTimesOut, Leaves, DeferRelease, NothingRetired
<1>6. \/ UNCHANGED control \/ control' = [control EXCEPT ![bsess[b]].active = FALSE]
  BY DEF BoundaryTurn, HandoffWaitEnds, HandoffDrained, HandoffTimesOut, EndWaitEnds, EndCleaned,
         EndTimesOut, Leaves, Retire, NothingRetired
<1>7. BoundaryTyped'
  <2>1. bstate' \in [Boundaries -> Stages] BY <1>1, <1>2 DEF BoundaryTyped, Stages
  <2>2. control' \in [Sessions -> [id : Ids, active : BOOLEAN]]
    <3>1. PICK s \in Sessions : s = bsess[b] BY <1>4
    <3>2. [control[s] EXCEPT !.active = FALSE] \in [id : Ids, active : BOOLEAN]
      BY <1>1 DEF BoundaryTyped
    <3>3. UNCHANGED control \/ control' = [control EXCEPT ![s].active = FALSE]
      BY <1>6, <3>1
    <3> QED BY <1>1, <3>2, <3>3 DEF BoundaryTyped
  <2>3. release' \in [Sessions -> [stage : {"none", "waiting", "draining"}, id : Ids, owed : SUBSET Calls]]
    BY <1>1, <1>4, <1>5 DEF BoundaryTyped
  <2> QED BY <1>1, <1>3, <2>1, <2>2, <2>3 DEF BoundaryTyped
<1>8. RaisedWithSlot BY <1>1, <1>2 DEF RaisedWithSlot
<1>9. ASSUME NEW d \in Boundaries PROVE Walks(d)
  BY <1>1, <1>2, <1>3 DEF Walks, BoundaryTyped, Fencing
<1>10. ASSUME NEW s \in Sessions
       PROVE  \/ UNCHANGED release[s]
              \/ /\ release'[s].stage = "waiting" /\ release'[s].owed = accepted[b]
                 /\ bsess[b] = s /\ UNCHANGED vars
  BY <1>1, <1>5 DEF BoundaryTyped
<1> QED BY <1>7, <1>8, <1>9, <1>10

\* A deferred release goes on.
LEMMA ReleaseMoves ==
  ASSUME ControlInv, Advance, NEW s \in Sessions, ReleaseTurn(s)
  PROVE  /\ BoundaryTyped' /\ RaisedWithSlot
         /\ \A d \in Boundaries : Walks(d)
         /\ \A r \in Sessions :
              \/ UNCHANGED release[r]
              \/ release'[r] = NoRelease
              \/ release'[r].owed = release[r].owed /\ Idle(r) /\ UNCHANGED vars
<1>1. BoundaryTyped BY DEF ControlInv
<1>2. UNCHANGED <<boundaryVars, settlement>>
  BY DEF ReleaseTurn, ReleaseWaitEnds, ReleaseWaitTimesOut, ReleaseDrained, Retire, CancelQueuedSession,
         NothingRetired, vars
<1>3. \/ UNCHANGED control \/ control' = [control EXCEPT ![s].active = FALSE]
  BY DEF ReleaseTurn, ReleaseWaitEnds, ReleaseWaitTimesOut, ReleaseDrained, Retire, NothingRetired
<1>4. \/ UNCHANGED release
      \/ release' = [release EXCEPT ![s] = NoRelease]
      \/ release' = [release EXCEPT ![s].stage = "draining"] /\ Idle(s) /\ UNCHANGED vars
  BY DEF ReleaseTurn, ReleaseWaitEnds, ReleaseWaitTimesOut, ReleaseDrained, NothingRetired, Ended
<1>5. BoundaryTyped'
  <2>1. control' \in [Sessions -> [id : Ids, active : BOOLEAN]] BY <1>1, <1>3, ZenonT(60) DEF BoundaryTyped
  <2>2. NoRelease \in [stage : {"none", "waiting", "draining"}, id : Ids, owed : SUBSET Calls]
    BY LimiterAssumption DEF NoRelease, Ids
  <2>3. release' \in [Sessions -> [stage : {"none", "waiting", "draining"}, id : Ids, owed : SUBSET Calls]]
    <3>1. release[s] \in [stage : {"none", "waiting", "draining"}, id : Ids, owed : SUBSET Calls]
      BY <1>1 DEF BoundaryTyped
    <3>2. [release[s] EXCEPT !.stage = "draining"] \in
            [stage : {"none", "waiting", "draining"}, id : Ids, owed : SUBSET Calls]
      BY <3>1
    <3> QED BY <1>1, <1>4, <2>2, <3>2 DEF BoundaryTyped
  <2> QED BY <1>1, <1>2, <2>1, <2>3 DEF BoundaryTyped, boundaryVars
<1>6. RaisedWithSlot BY <1>2 DEF RaisedWithSlot
<1>7. ASSUME NEW d \in Boundaries PROVE Walks(d)
  BY <1>2 DEF Walks, boundaryVars
<1>8. ASSUME NEW r \in Sessions
      PROVE  \/ UNCHANGED release[r]
             \/ release'[r] = NoRelease
             \/ release'[r].owed = release[r].owed /\ Idle(r) /\ UNCHANGED vars
  BY <1>1, <1>4 DEF BoundaryTyped
<1> QED BY <1>5, <1>6, <1>7, <1>8

LEMMA ControlNextKeeps == ControlInv /\ [ControlNext]_allVars => ControlInv'
<1> SUFFICES ASSUME ControlInv, [ControlNext]_allVars PROVE ControlInv'
  OBVIOUS
<1>1. Advance
  <2>1. [Next]_vars BY ControlMovesTheLimiter DEF allVars
  <2> QED BY <2>1, LimiterAdvances DEF ControlInv
<1> DEFINE BooksHold == /\ BoundaryTyped' /\ RaisedWithSlot
                        /\ \A b \in Boundaries : RequestGood(b)'
                        /\ \A s \in Sessions : ReleaseGood(s)'
<1>2. BooksHold => ControlInv'
  BY <1>1, EffectFenceStays DEF ControlInv, Advance
<1> SUFFICES BooksHold
  BY <1>2
<1>3. CASE CallSide
  <2>1. /\ BoundaryTyped' /\ RaisedWithSlot
        /\ \A b \in Boundaries : Walks(b)
        /\ \A s \in Sessions : UNCHANGED release[s]
    BY <1>1, <1>3, CallSideKeeps
  <2> QED BY <1>1, <2>1, WalkKeeps, ReleaseStays
<1>4. ASSUME NEW b \in Boundaries, NEW s \in Sessions, Handoff(b, s) \/ EndControl(b, s)
      PROVE  BooksHold
  <2>1. control[s].id \in Ids BY DEF ControlInv, BoundaryTyped
  <2>2. PICK id \in Ids, stage \in {"handing", "ending"} : Arrives(b, s, id, stage)
    BY <1>4, <2>1 DEF Handoff, EndControl
  <2>3. /\ BoundaryTyped' /\ RaisedWithSlot /\ RequestGood(b)'
        /\ \A d \in Boundaries \ {b} : Walks(d)
        /\ \A r \in Sessions : UNCHANGED release[r]
    BY <1>1, <2>2, ArrivalKeeps
  <2> QED BY <1>1, <2>3, WalkKeeps, ReleaseStays
<1>5. ASSUME NEW b \in Boundaries, BoundaryTurn(b) PROVE BooksHold
  <2>1. /\ BoundaryTyped' /\ RaisedWithSlot
        /\ \A d \in Boundaries : Walks(d)
        /\ \A s \in Sessions :
             \/ UNCHANGED release[s]
             \/ /\ release'[s].stage = "waiting" /\ release'[s].owed = accepted[b]
                /\ bsess[b] = s /\ UNCHANGED vars
    BY <1>1, <1>5, RequestWalks
  <2>2. ASSUME NEW s \in Sessions, release'[s].stage = "waiting", release'[s].owed = accepted[b],
               bsess[b] = s, UNCHANGED vars
        PROVE  ReleaseGood(s)'
    BY <2>2 DEF ControlInv, RequestGood, ReleaseGood, DecidedIn, Decided, vars, callVars
  <2> QED BY <1>1, <2>1, <2>2, WalkKeeps, ReleaseStays
<1>6. ASSUME NEW s \in Sessions, ReleaseTurn(s) PROVE BooksHold
  <2>1. /\ BoundaryTyped' /\ RaisedWithSlot
        /\ \A d \in Boundaries : Walks(d)
        /\ \A r \in Sessions :
             \/ UNCHANGED release[r]
             \/ release'[r] = NoRelease
             \/ release'[r].owed = release[r].owed /\ Idle(r) /\ UNCHANGED vars
    BY <1>1, <1>6, ReleaseMoves
  <2>2. ASSUME NEW r \in Sessions, release'[r] = NoRelease PROVE ReleaseGood(r)'
    BY <2>2 DEF ReleaseGood, NoRelease, DecidedIn
  <2>3. ASSUME NEW r \in Sessions, release'[r].owed = release[r].owed, Idle(r), UNCHANGED vars
        PROVE  ReleaseGood(r)'
    <3>1. Quiet(CallsOf(r)) BY <2>3, IdleIsQuiet
    <3>2. DecidedIn(release[r].owed, r) /\ release[r].owed \subseteq Calls
      BY DEF ControlInv, BoundaryTyped, ReleaseGood
    <3>3. Quiet(release[r].owed) BY <3>1, <3>2 DEF Quiet, CallsOf, DecidedIn
    <3> QED BY <2>3, <3>2, <3>3
            DEF ReleaseGood, Quiet, DecidedIn, Decided, Unsettled, HoldsSlot, vars, queueVars, callVars
  <2> QED BY <1>1, <2>1, <2>2, <2>3, WalkKeeps, ReleaseStays
<1>7. CASE UNCHANGED allVars
  <2>1. UNCHANGED <<vars, control, boundaryVars, release>> BY <1>7 DEF allVars, controlVars
  <2>2. BoundaryTyped' BY <2>1 DEF ControlInv, BoundaryTyped, boundaryVars
  <2>3. RaisedWithSlot BY <2>1 DEF RaisedWithSlot, vars
  <2>4. ASSUME NEW b \in Boundaries PROVE Walks(b)
    BY <2>1 DEF Walks, vars, boundaryVars
  <2> QED BY <1>1, <2>1, <2>2, <2>3, <2>4, WalkKeeps, ReleaseStays
<1> HIDE DEF BooksHold
<1> QED BY <1>3, <1>4, <1>5, <1>6, <1>7 DEF ControlNext, CallSide

LEMMA ControlInitKeeps == ControlInit => ControlInv
<1> SUFFICES ASSUME ControlInit PROVE ControlInv
  OBVIOUS
<1>1. IndInv BY InitIndInv DEF ControlInit
<1>2. BoundaryTyped
  BY LimiterAssumption DEF ControlInit, BoundaryTyped, Stages, Ids, NoRelease
<1>3. \A c \in Calls : EffectFence(c)
  BY BoundaryAssumption DEF ControlInit, Init, EffectFence
<1>4. \A b \in Boundaries : RequestGood(b)
  BY DEF ControlInit, RequestGood, OwnFence, Fencing, DecidedIn
<1>5. \A s \in Sessions : ReleaseGood(s)
  BY DEF ControlInit, ReleaseGood, DecidedIn, NoRelease
<1> QED BY <1>1, <1>2, <1>3, <1>4, <1>5 DEF ControlInv

-----------------------------------------------------------------------------
(* The theorems.                                                            *)

\* Requests and releases keep their books in every reachable state.
THEOREM ControlInvariance == ControlSpec => []ControlInv
BY ControlInitKeeps, ControlNextKeeps, PTL DEF ControlSpec

\* From the end of its wait until its answer a handoff or endControl has the page to
\* itself, whatever calls, steps, programs and other requests come meanwhile; and a
\* deferred release ends the lease only after the work its handoff waited for.
THEOREM PageIsQuietAtHandover == ControlSpec => []PageQuietAtHandover
<1>1. ControlInv => PageQuietAtHandover
  BY DEF ControlInv, RequestGood, ReleaseGood, Quiet, CallsOf, PageQuietAtHandover
<1> QED BY <1>1, ControlInvariance, PTL

-----------------------------------------------------------------------------
(* What the requests keep beside the fences.                                *)

Waiters == Boundaries \cup Sessions

BooksTyped == stopped \subseteq Calls /\ settling \subseteq Boundaries /\ waits \in Seq(Waiters)

\* Timers are set and cleared.
LEMMA TimersTyped ==
  ASSUME waits \in Seq(Waiters), NEW w \in Waiters
  PROVE  /\ Without(w) \in Seq(Waiters)
         /\ Append(waits, w) \in Seq(Waiters)
         /\ \A v \in Waiters : Append(Without(w), v) \in Seq(Waiters)
<1>1. Without(w) \in Seq(Waiters)
  BY AmongKeeps DEF Without, Waiters
<1> QED BY <1>1

LEMMA BooksStayTyped == BooksTyped /\ ControlInv /\ [ControlNext]_allVars => BooksTyped'
<1> SUFFICES ASSUME BooksTyped, ControlInv, [ControlNext]_allVars PROVE BooksTyped'
  OBVIOUS
<1> DEFINE Timers == waits' \in Seq(Waiters)
           Others == stopped' \subseteq Calls /\ settling' \subseteq Boundaries
<1>1. \A w \in Waiters : /\ Without(w) \in Seq(Waiters)
                        /\ Append(waits, w) \in Seq(Waiters)
                        /\ \A v \in Waiters : Append(Without(w), v) \in Seq(Waiters)
  BY TimersTyped DEF BooksTyped
<1>2. Boundaries \subseteq Waiters /\ Sessions \subseteq Waiters BY DEF Waiters
<1>3. \A s \in Sessions \cup {NoSession} : Stopping(s) \subseteq Calls BY DEF Stopping
<1>4. UNION {Stopping(s) : s \in Sessions} \subseteq Calls BY DEF Stopping
<1>5. CASE UNCHANGED <<stopped, settling, waits>>
  BY <1>5 DEF BooksTyped
<1>6. ASSUME UNCHANGED <<settling, waits>>, stopped' \subseteq stopped \cup Calls PROVE BooksTyped'
  BY <1>6 DEF BooksTyped
<1>7. CASE CallSide
  <2>1. UNCHANGED <<settling, waits>> /\ stopped' \subseteq stopped \cup Calls
    BY <1>3, <1>4, <1>7
       DEF CallSide, CallArrives, ShutDown, CallTurn, CallStarts, ProgramTurnedAway, BeginControl,
           SchedulerTurn, ArmingFails, ProgramRequestsStep, GivesUp, FencedEffectSettles, StopProgram,
           controlVars, boundaryVars
  <2> QED BY <1>6, <2>1
<1>8. ASSUME NEW b \in Boundaries, NEW s \in Sessions, Handoff(b, s) \/ EndControl(b, s)
      PROVE  BooksTyped'
  <2>1. /\ waits' = Append(waits, b) /\ UNCHANGED settling
        /\ stopped' = stopped \cup Stopping(s)
    BY <1>8 DEF Handoff, EndControl, Arrives
  <2> QED BY <1>1, <1>2, <1>3, <2>1 DEF BooksTyped
<1>9. ASSUME NEW b \in Boundaries, BoundaryTurn(b) PROVE BooksTyped'
  <2>1. /\ bsess[b] \in Sessions \cup {NoSession}
        /\ bstate[b] = "handing" => bsess[b] \in Sessions
    BY DEF ControlInv, BoundaryTyped, RequestGood, OwnFence, Fencing
  <2>2. /\ stopped' \in {stopped, stopped \cup Stopping(bsess[b])}
        /\ settling' \in {settling, settling \cup {b}}
    BY <1>9 DEF BoundaryTurn, HandoffWaitEnds, HandoffDrained, HandoffTimesOut, EndWaitEnds, EndCleaned,
                EndTimesOut, Leaves, NothingRetired, Retire
  <2>3. Others BY <1>3, <2>1, <2>2 DEF BooksTyped
  <2>4. \/ waits' = waits \/ waits' = Without(b) \/ waits' = Append(Without(b), b)
        \/ bsess[b] \in Sessions /\ waits' = Append(Without(b), bsess[b])
    BY <1>9, <2>1
       DEF BoundaryTurn, HandoffWaitEnds, HandoffDrained, HandoffTimesOut, EndWaitEnds, EndCleaned,
           EndTimesOut, Leaves, DeferRelease
  <2>5. Timers BY <1>1, <1>2, <2>4 DEF BooksTyped
  <2> QED BY <2>3, <2>5 DEF BooksTyped
<1>10. ASSUME NEW s \in Sessions, ReleaseTurn(s) PROVE BooksTyped'
  <2>1. /\ stopped' \in {stopped, stopped \cup Stopping(s)} /\ UNCHANGED settling
        /\ waits' = Without(s) \/ waits' = Append(Without(s), s)
    BY <1>10 DEF ReleaseTurn, ReleaseWaitEnds, ReleaseWaitTimesOut, ReleaseDrained, NothingRetired,
                 Retire, boundaryVars
  <2> QED BY <1>1, <1>2, <1>3, <2>1 DEF BooksTyped
<1> QED BY <1>5, <1>7, <1>8, <1>9, <1>10 DEF ControlNext, CallSide, allVars, controlVars, boundaryVars

\* Every control request, lease, deferred release and timer has the shape the server
\* gives it, for every number of sessions, calls and requests.
THEOREM ControlIsTyped == ControlSpec => []ControlTypeOK
<1>1. ControlInit => BooksTyped
  BY DEF ControlInit, BooksTyped
<1>2. ControlInv /\ BooksTyped => ControlTypeOK
  BY DEF ControlInv, BoundaryTyped, BooksTyped, Waiters, ControlTypeOK
<1> QED BY <1>1, <1>2, BooksStayTyped, ControlInvariance, PTL DEF ControlSpec

\* The requests that bypass the queue never take the limiter outside its own
\* specification, so every theorem about the limiter holds of it under their control.
THEOREM BoundaryRunsTheLimiter == ControlSpec => Spec
<1>1. ControlInit => Init BY DEF ControlInit
<1>2. ControlInv /\ [ControlNext]_allVars => [Next]_vars
  BY ControlMovesTheLimiter DEF allVars
<1> QED BY <1>1, <1>2, ControlInvariance, PTL DEF ControlSpec, Spec
===============================================================================
