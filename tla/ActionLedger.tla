---------------------------- MODULE ActionLedger ----------------------------
(***************************************************************************)
(* Tracked actions of the browser RPC server                               *)
(* (apps/desktop/electron/browser-runtime/rpc-server.cjs, executeTracked). *)
(*                                                                         *)
(* A mutating action is executed once under its action id: a ledger per    *)
(* session remembers it, a duplicate request is answered from the ledger,  *)
(* and the caller gets a public response even when the browser effect      *)
(* behind it never settles.  An effect whose wrapper gave up is guarded by *)
(* a fence of the limiter until it has really settled.                     *)
(*                                                                         *)
(* An execution is a pair <<c, k>>: <<c, 0>> is the task of the limiter's  *)
(* call c, and <<c, k>> the k-th step accepted by the lease of that call.  *)
(* Its name is also the name of the one fence it may raise.                *)
(***************************************************************************)
EXTENDS BrowserTaskLimiter, Subsequences, SequencesExt

CONSTANTS
  Actions,            \* action ids; the ledger is per session, so an id has one
  NoAction,           \* the action of an execution that does not exist yet
  ActionSession,      \* the session each action id belongs to
  Programs,           \* the ids requested with action = 'programRun'
  MaxRecords,         \* ACTION_LEDGER_MAX_RECORDS
  MaxLedgers,         \* ACTION_LEDGER_MAX_SESSIONS
  ProgramsPerSession, \* programRunLimitPerSession
  ProgramsGlobal,     \* programRunLimitGlobal
  MaxAged             \* model bound: how many records outlive their TTL

Execs == Calls \X (0..MaxSteps)

ASSUME LedgerAssumption ==
  /\ Execs \subseteq Fences
  /\ Actions \cap Execs = {}
  /\ NoAction \notin Actions
  /\ \A a \in Actions : ActionSession[a] \in Sessions
  /\ Programs \subseteq Actions
  /\ {MaxRecords, MaxLedgers, MaxAged} \subseteq Nat
  /\ {ProgramsPerSession, ProgramsGlobal} \subseteq Nat \ {0}

VARIABLES
  act,      \* record.actionId
  status,   \* record.status
  response, \* record.promise, as the caller sees it
  task,     \* where the async function given to `schedule' stands
  effect,   \* the underlying browser action
  records,  \* the entries of all ledgers, each ledger in insertion order
  recency,  \* the keys of actionLedger in insertion order
  aged      \* the records that finished ACTION_LEDGER_TTL_MS ago

execVars    == <<act, status, response, task, effect>>
mapVars     == <<records, recency, aged>>
ledgerVars  == <<vars, execVars, mapVars>>

Statuses  == {"none", "queued", "running", "completed", "failed"}
Responses == {"none", "pending", "resolved", "rejected"}
Tasks ==
  { "idle",       \* the limiter has not called it
    "awaiting",   \* in waitWithin(operationOutcome)
    "recovering", \* in waitWithin(eventualOutcome)
    "returned",   \* returned, the operation had settled or was wrapped
    "capped" }    \* returned at the hard cap, the operation is still open
Effects ==
  { "none", "inflight", "settled",
    "disowned" }  \* in flight, and no promise tells when it settles

LedgerTypeOK ==
  /\ act \in [Execs -> Actions \cup {NoAction}]
  /\ status \in [Execs -> Statuses]
  /\ response \in [Execs -> Responses]
  /\ task \in [Execs -> Tasks]
  /\ effect \in [Execs -> Effects]
  /\ records \in Seq(Execs \cup Actions)
  /\ recency \in Seq(Sessions)
  /\ aged \subseteq Execs \cup Actions

LedgerInit ==
  /\ Init
  /\ act = [e \in Execs |-> NoAction]
  /\ status = [e \in Execs |-> "none"]
  /\ response = [e \in Execs |-> "none"]
  /\ task = [e \in Execs |-> "idle"]
  /\ effect = [e \in Execs |-> "none"]
  /\ records = <<>>
  /\ recency = <<>>
  /\ aged = {}

\* The operation of a programRun is the program; its steps touch the page.
TouchesPage(e) == e[2] > 0 \/ ~withLease[e[1]]

-----------------------------------------------------------------------------
(* trimLedger, pruneActionLedgers, ledgerFor                                *)
(* A record is the execution it tracks, or the action id of a step the lease *)
(* turned away at once: that one has failed and was never executed.          *)

ActionOf(r) == IF r \in Actions THEN r ELSE act[r]
LedgerOf(r) == ActionSession[ActionOf(r)]
OfProgram(r) == ActionOf(r) \in Programs

\* Terminal, given the statuses st.
Over(r, st) == r \in Execs => st[r] \in {"completed", "failed"}

\* Seeded fault: the count cap evicts the records of programs as well.
EvictableProgramsToo(r, st) == Over(r, st)

\* Seeded fault: the count cap evicts what is still running.
EvictableRunningToo(r, st) == ~OfProgram(r)

Evictable(r, st) == Over(r, st) /\ ~OfProgram(r)

\* The records that stay: expired ones go, and of a ledger that is still too long the
\* oldest evictable.
Trim(recs, st) ==
  LET young == {r \in ToSet(recs) : ~(Over(r, st) /\ r \in aged)}
      spent == {r \in young : Evictable(r, st)}
      Mates(r, S) == {q \in S : LedgerOf(q) = LedgerOf(r)}
      Place(r) == CHOOSE i \in DOMAIN recs : recs[i] = r
      Older(r) == {q \in Mates(r, spent) : Place(q) < Place(r)}
      excess == {r \in spent : Cardinality(Older(r)) + MaxRecords < Cardinality(Mates(r, young))}
  IN IF Cardinality(young) <= MaxRecords THEN young ELSE young \ excess

\* Empty ledgers go; of too many ledgers, those longest unused that hold neither
\* a live record nor one of a program.
Prune(recs, lru, st) ==
  LET trimmed == Trim(recs, st)
      Entries(s) == {r \in trimmed : LedgerOf(r) = s}
      held == {s \in ToSet(lru) : Entries(s) # {}}
      spare == {s \in held : \A r \in Entries(s) : Evictable(r, st)}
      Place(s) == CHOOSE i \in DOMAIN lru : lru[i] = s
      Older(s) == {t \in spare : Place(t) < Place(s)}
      excess == {s \in spare : Cardinality(Older(s)) + MaxLedgers < Cardinality(held)}
  IN IF Cardinality(held) <= MaxLedgers
     THEN [records |-> Among(recs, trimmed), recency |-> Among(lru, held)]
     ELSE [records |-> Among(recs, {r \in trimmed : LedgerOf(r) \notin excess}),
           recency |-> Among(lru, held \ excess)]

Kept == Prune(records, recency, status)

MostRecent(lru, s) == Append(Among(lru, Sessions \ {s}), s)

Known(a, kept) == \E r \in ToSet(kept.records) : ActionOf(r) = a

\* assertProgramRunCapacity
Room(a, kept) ==
  LET runs == {r \in ToSet(kept.records) : OfProgram(r)}
  IN a \in Programs =>
       /\ Cardinality({r \in runs : LedgerOf(r) = ActionSession[a]}) < ProgramsPerSession
       /\ Cardinality(runs) < ProgramsGlobal

\* A ledger is looked at: all are pruned and, if it survives, it is the most
\* recent one.
LookAt(s, kept) ==
  /\ records' = kept.records
  /\ recency' = IF s \in ToSet(kept.recency) THEN MostRecent(kept.recency, s)
                                             ELSE kept.recency

\* All ledgers are pruned (a quantifier over one value makes TLC prune once).
PruneTo(recs, lru, st) ==
  \E p \in {Prune(recs, lru, st)} : records' = p.records /\ recency' = p.recency

\* The tail of `finish'.
PruneAfter(recs, st) == PruneTo(recs, recency, st)

-----------------------------------------------------------------------------
(* executeTracked: the record *)

\* A record is made for execution e of action a.
Track(e, a) ==
  /\ \E kept \in {Kept} :
       /\ ~Known(a, kept)
       /\ Room(a, kept)
       /\ records' = Append(kept.records, e)
       /\ recency' = MostRecent(kept.recency, ActionSession[a])
  /\ act' = [act EXCEPT ![e] = a]
  /\ status' = [status EXCEPT ![e] = "queued"]
  /\ response' = [response EXCEPT ![e] = "pending"]
  /\ UNCHANGED <<task, effect, aged>>

\* A mutating action or a program arrives and goes to the limiter.
Request(a) ==
  /\ \/ Enqueue(ActionSession[a], a \in Programs)
     \/ EnqueueRefused(ActionSession[a], a \in Programs)
  /\ Track(<<calls + 1, 0>>, a)

\* A duplicate is answered from the ledger, a program too many is refused, and
\* actionStatus, asked of an action that is known or not, only reads.
AnswerFromLedger(a) ==
  /\ \E kept \in {Kept} : LookAt(ActionSession[a], kept)
  /\ UNCHANGED <<vars, execVars, aged>>

\* executeProgramStep, while the program of call c runs.
StepOf(c, a) ==
  /\ withLease[c]
  /\ effect[<<c, 0>>] = "inflight"
  /\ a \notin Programs
  /\ ActionSession[a] = sess[c]

RequestStep(c, a) ==
  /\ StepOf(c, a)
  /\ ExecuteWithinLease(c)
  /\ Track(<<c, lease[c].accepted + 1>>, a)

\* The lease is released, the session fenced or the limiter closed.
StepTurnedAway(c, a) ==
  /\ StepOf(c, a)
  /\ closed \/ ~lease[c].accepting \/ Blocked(sess[c])
  /\ \E kept \in {Kept} :
       /\ ~Known(a, kept)
       /\ PruneTo(Append(kept.records, a), MostRecent(kept.recency, sess[c]), status)
  /\ aged' = aged \ {a}
  /\ UNCHANGED <<vars, execVars>>

\* resolvePublic, rejectPublic: the first one counts.
Answered(e, how) ==
  [response EXCEPT ![e] = IF @ = "pending" THEN how ELSE @]

\* Seeded fault: a failure is stored under the name of the response.
FinishMislabelled(e, verdict) ==
  /\ status' = [status EXCEPT ![e] = IF verdict = "failed" THEN "rejected" ELSE verdict]
  /\ response' = Answered(e, IF verdict = "completed" THEN "resolved" ELSE "rejected")
  /\ PruneAfter(records, status')
  /\ UNCHANGED <<act, aged>>

Finish(e, verdict) ==
  /\ status' = [status EXCEPT ![e] = verdict]
  /\ response' = Answered(e, IF verdict = "completed" THEN "resolved" ELSE "rejected")
  /\ PruneAfter(records, status')
  /\ UNCHANGED <<act, aged>>

\* The promise of `schedule' rejects and the task was never called.
NeverCalled(e) ==
  IF e[2] = 0 THEN phase[e[1]] \in {"refused", "settled", "over"}
              ELSE e[2] <= lease[e[1]].finished

ScheduleRejected(e) ==
  /\ status[e] = "queued"
  /\ NeverCalled(e)
  /\ Finish(e, "failed")
  /\ UNCHANGED <<vars, task, effect>>

\* ACTION_LEDGER_TTL_MS pass after a record finished.
TtlElapses(r) ==
  /\ Over(r, status)
  /\ r \notin aged
  /\ Cardinality(aged) < MaxAged
  /\ aged' = aged \cup {r}
  /\ UNCHANGED <<vars, execVars, records, recency>>

-----------------------------------------------------------------------------
(* executeTracked: the task *)

CurrentStep(c) == <<c, lease[c].finished + 1>>

\* The operation is called one microtask later; the slot is held meanwhile.
TaskBegins(e) ==
  /\ status' = [status EXCEPT ![e] = "running"]
  /\ task' = [task EXCEPT ![e] = "awaiting"]
  /\ effect' = [effect EXCEPT ![e] = "inflight"]
  /\ UNCHANGED <<act, response, mapVars>>

CallBegins(c) ==
  /\ Start(c)
  /\ IF closed THEN UNCHANGED <<execVars, mapVars>> ELSE TaskBegins(<<c, 0>>)

ProgramStepBegins(c) ==
  /\ StepBegins(c)
  /\ TaskBegins(CurrentStep(c))

\* The operation settles by itself.
OperationSettles(e, verdict) ==
  /\ task[e] = "awaiting"
  /\ effect' = [effect EXCEPT ![e] = "settled"]
  /\ task' = [task EXCEPT ![e] = "returned"]
  /\ Finish(e, verdict)
  /\ UNCHANGED vars

\* The task gives the effect to a fence that lasts until eventualOutcome.
HandOver(e) == BlockSessionUntil(sess[e[1]], e, "pending")

\* Human intervention: a result that carries the settlement of the effect.
Intervened(e) ==
  /\ task[e] = "awaiting"
  /\ TouchesPage(e)
  /\ HandOver(e)
  /\ task' = [task EXCEPT ![e] = "returned"]
  /\ Finish(e, "completed")
  /\ UNCHANGED effect

\* rejectPublic, while the record stays `running'.
RejectEarly(e) ==
  /\ response' = Answered(e, "rejected")
  /\ UNCHANGED <<act, status, mapVars>>

\* An error that carries the settlement.  ACTION_TIMEOUT_PENDING of a program
\* step, which has a recovery window, is TimesOut.
Interrupted(e) ==
  /\ task[e] = "awaiting"
  /\ TouchesPage(e)
  /\ HandOver(e)
  /\ task' = [task EXCEPT ![e] = "returned"]
  /\ RejectEarly(e)
  /\ UNCHANGED effect

TimesOut(e) ==
  /\ task[e] = "awaiting"
  /\ e[2] > 0
  /\ HandOver(e)
  /\ task' = [task EXCEPT ![e] = "recovering"]
  /\ UNCHANGED <<act, status, response, effect, mapVars>>

\* An error that claims a pending effect and carries no settlement.
HandoffOmitted(e) ==
  /\ task[e] = "awaiting"
  /\ TouchesPage(e)
  /\ BlockSessionUntil(sess[e[1]], e, "never")
  /\ task' = [task EXCEPT ![e] = "returned"]
  /\ effect' = [effect EXCEPT ![e] = "disowned"]
  /\ RejectEarly(e)

\* Seeded fault: the hard cap raises no fence.
HardCapUnfenced(e) ==
  /\ task[e] = "awaiting"
  /\ task' = [task EXCEPT ![e] = "capped"]
  /\ RejectEarly(e)
  /\ UNCHANGED <<vars, effect>>

\* Seeded fault: the hard cap leaves the answer to eventualOutcome.
HardCapSilent(e) ==
  /\ task[e] = "awaiting"
  /\ HandOver(e)
  /\ task' = [task EXCEPT ![e] = "capped"]
  /\ UNCHANGED <<act, status, response, effect, mapVars>>

\* TRACKED_ACTION_HARD_CAP_MS
HardCap(e) ==
  /\ task[e] = "awaiting"
  /\ HandOver(e)
  /\ task' = [task EXCEPT ![e] = "capped"]
  /\ RejectEarly(e)
  /\ UNCHANGED effect

\* After the hard cap the operation rejects as in HandoffOmitted.  eventualOutcome
\* takes that rejection for the outcome of the effect.
HandoffOmittedLate(e) ==
  /\ task[e] = "capped"
  /\ TouchesPage(e)
  /\ effect[e] = "inflight"
  /\ effect' = [effect EXCEPT ![e] = "disowned"]
  /\ UNCHANGED <<vars, act, status, response, task, mapVars>>

\* Nothing is assumed of how long the effect takes.
EffectSettles(e) ==
  /\ effect[e] = "inflight"
  /\ task[e] # "awaiting"
  /\ effect' = [effect EXCEPT ![e] = "settled"]
  /\ UNCHANGED <<vars, act, status, response, task, mapVars>>

\* eventualOutcome: the reaction of the fence was registered first.
FenceFalls(e) ==
  /\ effect[e] \in {"settled", "disowned"}
  /\ ReleaseSessionBlock(e)
  /\ UNCHANGED <<execVars, mapVars>>

LateFinish(e, verdict) ==
  /\ status[e] = "running"
  /\ task[e] \in {"returned", "capped"}
  /\ settlement[e] = "arrived"
  /\ Finish(e, verdict)
  /\ UNCHANGED <<vars, task, effect>>

Recovered(e, verdict) ==
  /\ task[e] = "recovering"
  /\ settlement[e] = "arrived"
  /\ task' = [task EXCEPT ![e] = "returned"]
  /\ Finish(e, verdict)
  /\ UNCHANGED <<vars, effect>>

\* The timer is a later turn of the event loop than the reactions.
RecoveryElapses(e) ==
  /\ task[e] = "recovering"
  /\ settlement[e] = "pending"
  /\ task' = [task EXCEPT ![e] = "returned"]
  /\ RejectEarly(e)
  /\ UNCHANGED <<vars, effect>>

-----------------------------------------------------------------------------
(* What the limiter does with the task *)

HasReturned(e) == task[e] \in {"returned", "capped"}

LimiterTurn(c) ==
  /\ \/ TaskReturns(c) /\ HasReturned(<<c, 0>>)
     \/ StepSettles(c) /\ HasReturned(CurrentStep(c))
     \/ LeaseDrained(c)
     \/ Release(c)
     \/ StepTurn(c)
  /\ UNCHANGED <<execVars, mapVars>>

\* Control boundaries and shutdown reach into the limiter from outside.
FromOutside ==
  /\ (\E s \in Sessions : CancelQueuedSession(s)) \/ CancelAllQueued \/ Close
  /\ UNCHANGED <<execVars, mapVars>>

Verdicts == {"completed", "failed"}

Outcome(e) ==
  \/ \E v \in Verdicts : OperationSettles(e, v)
  \/ Intervened(e)
  \/ Interrupted(e)
  \/ TimesOut(e)
  \/ HandoffOmitted(e)
  \/ HardCap(e)
  \/ HandoffOmittedLate(e)

Aftermath(e) ==
  \/ EffectSettles(e)
  \/ FenceFalls(e)
  \/ \E v \in Verdicts : LateFinish(e, v) \/ Recovered(e, v)
  \/ RecoveryElapses(e)
  \/ ScheduleRejected(e)

LedgerNext ==
  \/ \E a \in Actions : Request(a) \/ AnswerFromLedger(a)
  \/ \E c \in Calls, a \in Actions : RequestStep(c, a) \/ StepTurnedAway(c, a)
  \/ \E r \in ToSet(records) : TtlElapses(r)
  \/ \E c \in Calls : CallBegins(c) \/ ProgramStepBegins(c) \/ LimiterTurn(c)
  \/ \E e \in Execs : Outcome(e) \/ Aftermath(e)
  \/ FromOutside

LedgerSpec == LedgerInit /\ [][LedgerNext]_ledgerVars

\* Microtasks run and timers fire: the turns of the limiter, the rejection of
\* `schedule', the hard cap and the recovery window.  No effect need ever settle.
LedgerFairSpec ==
  /\ LedgerSpec
  /\ \A c \in Calls :
       WF_ledgerVars(CallBegins(c) \/ ProgramStepBegins(c) \/ LimiterTurn(c))
  /\ \A e \in Execs :
       WF_ledgerVars(\/ HardCap(e)
                     \/ RecoveryElapses(e)
                     \/ \E v \in Verdicts : Recovered(e, v)
                     \/ ScheduleRejected(e))

-----------------------------------------------------------------------------
(* Properties *)

InFlight(e) == effect[e] = "inflight" /\ TouchesPage(e)

\* Whatever gave up on an effect (timeout, intervention, hard cap), the effect
\* stays behind the slot of its call or behind its own fence until it settles;
\* only close() drops fences.  So two effects on the page of a session never overlap.
EffectsStayGuarded ==
  \A e \in Execs : InFlight(e) =>
    /\ ~closed => HoldsSlot(e[1]) \/ e \in blockedSessions[sess[e[1]]]
    /\ \A f \in Execs : InFlight(f) /\ sess[e[1]] = sess[f[1]] => e = f

\* What is queued or running is never trimmed or pruned away: a duplicate request
\* meets its record, never a second execution.
LiveRecordsRetained ==
  \A e \in Execs : status[e] \in {"queued", "running"} => e \in ToSet(records)

\* A program is not replayed while the record of its last run is valid: neither
\* its own steps nor other sessions push that record out.
ProgramRunsOnce ==
  \A e, f \in Execs :
    /\ e # f /\ act[e] = act[f] /\ act[e] \in Programs
    /\ effect[e] # "none" /\ effect[f] # "none"
    => e \in aged \/ f \in aged

\* Every caller is answered, even if no effect ever settles.
ResponseSettles ==
  \A e \in Execs : response[e] = "pending" ~> response[e] \in {"resolved", "rejected"}

\* The comment in executeTracked: an effect whose wrapper omitted the handoff
\* `cannot be proven safe', the session is fenced permanently.
UnprovenEffectFenced ==
  \A e \in Execs : effect[e] = "disowned" /\ ~closed => Blocked(sess[e[1]])
=============================================================================
