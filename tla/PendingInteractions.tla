------------------------- MODULE PendingInteractions -------------------------
(***************************************************************************)
(* The questions a session puts to the user: the registry of               *)
(* tui_gateway/pending_interactions.py, its callers and handlers in        *)
(* tui_gateway/server.py, and the prompts of the desktop renderer with the *)
(* revision by which it orders what it hears.                              *)
(*                                                                         *)
(* One session and one renderer.  The threads that ask, the handlers of    *)
(* the connection (one call at a time), session.resume on its own thread   *)
(* and the renderer run concurrently; a lost connection loses the frames   *)
(* under way in both directions.  The gateway's epoch is left out: the id  *)
(* of a session, by which the renderer keeps its revisions, does not       *)
(* outlive the process.                                                    *)
(***************************************************************************)
EXTENDS Naturals, Sequences, FiniteSets, SequencesExt

CONSTANTS
  Questions,      \* interactions, by request_id
  Mode,           \* of each, how it is admitted: "turn" (active_turn_only), "live"
                  \* (live_session_only, asked by background work) or "plain"
  Timed,          \* questions with a timeout
  NoQuestion,     \* the subject of a frame about the whole session
  Scenarios       \* the bounds a behaviour may have

\* In one behaviour `questions' may be asked, so many of them open at a time, with so
\* many turns of the user, calls of the renderer and lost connections; may the session
\* be closed?
Scenario == [questions : SUBSET Questions, open : Nat, turns : Nat, calls : Nat,
             disconnects : Nat, close : BOOLEAN]

ASSUME InteractionAssumption ==
  /\ IsFiniteSet(Questions) /\ NoQuestion \notin Questions /\ Timed \subseteq Questions
  /\ Mode \in [Questions -> {"turn", "live", "plain"}]
  /\ Scenarios \subseteq Scenario

VARIABLES
  plan,      \* the scenario of this behaviour
  status,    \* of each question, its status in the registry, or "absent"
  stamp,     \* of each question, its revision
  revision,  \* the registry's revision
  pc,        \* of each question, where its asker is in _block
  outcome,   \* of each question, the result of its wait
  running,   \* session["running"]
  cancelReq, \* session["_turn_cancel_requested"]
  life,      \* of the session: "live", "closing" (removed, tearing down), "closed"
  stopping,  \* session.interrupt: "no", "latched", or "released" and not yet answered
  caller,    \* has the session.interrupt under way still its caller?
  transport, \* is the session bound to the renderer's connection?
  resume,    \* of session.resume: "no", "asked", "bound", or its snapshot
  inbox,     \* frames on their way to the renderer
  outbox,    \* calls on their way to the gateway
  connected, \* has the renderer a connection?
  shown,     \* prompts of the renderer
  seen,      \* the newest revision the renderer has recorded
  accepted,  \* history: questions whose answer was acknowledged as accepted
  refused,   \* history: questions whose request the renderer did not admit
  missed,    \* history: questions about which a snapshot was right and not applied
  late,      \* history: questions asked after a Stop's release and before its reply
  cleared,   \* history: of these, the ones whose prompt the reply cleared
  turns, calls, disconnects

registry == <<status, stamp, revision>>
askers == <<pc, outcome>>
session == <<running, cancelReq, life, stopping, caller>>
link == <<transport, resume, inbox, outbox, connected>>
renderer == <<shown, seen>>
history == <<accepted, refused, missed, late, cleared>>
bounds == <<turns, calls, disconnects, plan>>
vars == <<registry, askers, session, link, renderer, history, bounds>>

PendingTypeOK ==
  /\ plan \in Scenarios
  /\ status \in [Questions -> {"absent", "waiting", "submitted", "expired", "interrupted"}]
  /\ revision \in Nat /\ \A q \in Questions : stamp[q] \in 0 .. revision
  /\ pc \in [Questions -> {"new", "made", "asked", "woken", "done", "turned_away"}]
  /\ outcome \in [Questions -> {"none", "submitted", "expired", "interrupted"}]
  /\ running \in BOOLEAN /\ cancelReq \in BOOLEAN
  /\ stopping \in {"no", "latched", "released"}
  /\ caller \in BOOLEAN /\ (caller => cancelReq /\ stopping # "no")
  /\ life \in {"live", "closing", "closed"}
  /\ transport \in BOOLEAN /\ connected \in BOOLEAN /\ (transport => connected)
  /\ resume.at \in {"no", "asked", "bound", "taken"} /\ resume.rev \in 0 .. revision
  /\ resume.waiting \subseteq Questions
  /\ shown \subseteq {q \in Questions : stamp[q] > 0} /\ seen \in 0 .. revision
  /\ accepted \cup refused \cup missed \cup late \subseteq Questions /\ cleared \subseteq late

NoResume == [at |-> "no", rev |-> 0, waiting |-> {}]

Init ==
  /\ plan \in Scenarios
  /\ status = [q \in Questions |-> "absent"] /\ stamp = [q \in Questions |-> 0]
  /\ revision = 0
  /\ pc = [q \in Questions |-> "new"] /\ outcome = [q \in Questions |-> "none"]
  /\ running = FALSE /\ cancelReq = FALSE /\ life = "live"
  /\ stopping = "no" /\ caller = FALSE
  /\ transport = TRUE /\ connected = TRUE /\ resume = NoResume
  /\ inbox = <<>> /\ outbox = <<>>
  /\ shown = {} /\ seen = 0
  /\ accepted = {} /\ refused = {} /\ missed = {} /\ late = {} /\ cleared = {}
  /\ turns = 0 /\ calls = 0 /\ disconnects = 0

Waiting == {q \in Questions : status[q] = "waiting"}
Open == {q \in Questions : pc[q] \in {"made", "asked", "woken"}}

Frame(type, q, rev, waiting) == [type |-> type, q |-> q, rev |-> rev, waiting |-> waiting]

\* _emit: an event goes to the transport of the live session, or nowhere.
Send(f) == inbox' = IF transport /\ life = "live" THEN Append(inbox, f) ELSE inbox

-----------------------------------------------------------------------------
(* A thread that asks.                                                     *)

\* _pending_interactions.create.
Create(q) ==
  /\ status' = [status EXCEPT ![q] = "waiting"]
  /\ stamp' = [stamp EXCEPT ![q] = revision + 1]
  /\ revision' = revision + 1

\* Seeded fault: the cancel latch is not looked at.
TurnLiveLatched == running /\ life = "live"

TurnLive == running /\ ~cancelReq /\ life = "live"

\* A question of the turn's browser: under the lock that Stop takes for its latch it
\* is created and published in one, or the caller is told to stop.
AskTurn(q) ==
  /\ Mode[q] = "turn" /\ pc[q] = "new" /\ Cardinality(Open) < plan.open /\ q \in plan.questions
  /\ IF TurnLive
     THEN /\ Create(q) /\ pc' = [pc EXCEPT ![q] = "asked"]
          /\ Send(Frame("request", q, revision + 1, {}))
     ELSE pc' = [pc EXCEPT ![q] = "turned_away"] /\ UNCHANGED <<registry, inbox>>
  /\ UNCHANGED <<outcome, session, transport, resume, outbox, connected, renderer,
                 history, bounds>>

\* A question of background work is created while the session is in _sessions.
AskLive(q) ==
  /\ Mode[q] = "live" /\ pc[q] = "new" /\ Cardinality(Open) < plan.open /\ q \in plan.questions
  /\ IF life = "live"
     THEN Create(q) /\ pc' = [pc EXCEPT ![q] = "made"]
     ELSE pc' = [pc EXCEPT ![q] = "turned_away"] /\ UNCHANGED registry
  /\ UNCHANGED <<outcome, session, link, renderer, history, bounds>>

\* Any other question of a turn, an approval or a form, is created as it comes.
AskPlain(q) ==
  /\ Mode[q] = "plain" /\ pc[q] = "new" /\ Cardinality(Open) < plan.open /\ q \in plan.questions
  /\ running
  /\ Create(q) /\ pc' = [pc EXCEPT ![q] = "made"]
  /\ late' = IF stopping = "released" THEN late \cup {q} ELSE late
  /\ UNCHANGED <<outcome, session, link, renderer, accepted, refused, missed, cleared,
                 bounds>>

\* The request is emitted after the question was created.
Emit(q) ==
  /\ pc[q] = "made"
  /\ pc' = [pc EXCEPT ![q] = "asked"]
  /\ Send(Frame("request", q, stamp[q], {}))
  /\ UNCHANGED <<registry, outcome, session, transport, resume, outbox, connected,
                 renderer, history, bounds>>

\* Questions qs end with status st, each with a revision of its own, in the order of
\* their creation.
Finish(qs, st) ==
  /\ status' = [q \in Questions |-> IF q \in qs THEN st ELSE status[q]]
  /\ stamp' = [q \in Questions |->
                 IF q \in qs THEN revision + Cardinality({r \in qs : stamp[r] <= stamp[q]})
                 ELSE stamp[q]]
  /\ revision' = revision + Cardinality(qs)

\* Seeded fault: the status is not read again under the lock.
ExpireBlind(q) ==
  /\ q \in Timed /\ pc[q] = "asked" /\ status[q] # "absent"
  /\ Finish({q}, "expired")
  /\ UNCHANGED <<askers, session, link, renderer, history, bounds>>

\* The deadline of the wait.
Expire(q) ==
  /\ q \in Timed /\ pc[q] = "asked" /\ status[q] = "waiting"
  /\ Finish({q}, "expired")
  /\ UNCHANGED <<askers, session, link, renderer, history, bounds>>

\* Seeded fault: an interruption does not signal the wait.
WakeUninterrupted(q) ==
  /\ pc[q] = "asked" /\ status[q] \in {"submitted", "expired"}
  /\ pc' = [pc EXCEPT ![q] = "woken"]
  /\ outcome' = [outcome EXCEPT ![q] = status[q]]
  /\ UNCHANGED <<registry, session, link, renderer, history, bounds>>

\* The wait ends with what the registry says.
Wake(q) ==
  /\ pc[q] = "asked" /\ status[q] # "waiting"
  /\ pc' = [pc EXCEPT ![q] = "woken"]
  /\ outcome' = [outcome EXCEPT ![q] = status[q]]
  /\ UNCHANGED <<registry, session, link, renderer, history, bounds>>

\* interaction.resolved is emitted with the question's last revision.
Resolve(q) ==
  /\ pc[q] = "woken"
  /\ pc' = [pc EXCEPT ![q] = "done"]
  /\ Send(Frame("resolved", q, stamp[q], {}))
  /\ UNCHANGED <<registry, outcome, session, transport, resume, outbox, connected,
                 renderer, history, bounds>>

-----------------------------------------------------------------------------
(* The turns and the handlers of the gateway.                              *)

\* A turn starts.  A prompt of the user, submitted or taken from the queue, takes the
\* cancel latch back: the calls of a connection are served in order, and a Stop empties
\* the queue.  A notification and the continuation of a goal leave the latch.
TurnStarts ==
  /\ ~running /\ turns < plan.turns
  /\ running' = TRUE /\ turns' = turns + 1
  /\ \/ life = "live" /\ ~caller /\ cancelReq' = FALSE
     \/ UNCHANGED cancelReq
  /\ UNCHANGED <<registry, askers, life, stopping, caller, link, renderer, history, calls,
                 disconnects, plan>>

\* The turn ends, when none of its threads waits for an answer any more.
TurnEnds ==
  /\ running /\ \A q \in Open : Mode[q] = "live"
  /\ running' = FALSE
  /\ Send(Frame("complete", NoQuestion, 0, {}))
  /\ UNCHANGED <<registry, askers, cancelReq, life, stopping, caller, transport, resume,
                 outbox, connected, renderer, history, bounds>>

\* _respond: the first answer of a waiting question counts; the reply says so.
Respond ==
  LET q == Head(outbox).q IN
  /\ outbox # <<>> /\ Head(outbox).type = "answer" /\ ~caller
  /\ outbox' = Tail(outbox)
  /\ inbox' = Append(inbox, Frame("answered", q, 0, {}))
  /\ IF status[q] = "waiting"
     THEN Finish({q}, "submitted") /\ accepted' = accepted \cup {q}
     ELSE UNCHANGED <<registry, accepted>>
  /\ UNCHANGED <<askers, session, transport, resume, connected, renderer, refused, missed,
                 late, cleared, bounds>>

\* session.interrupt sets the latch; of a session that is gone it is only answered with
\* an error.  One Stop at a time is a bound: the handler of a lost connection runs on.
StopLatch ==
  /\ outbox # <<>> /\ Head(outbox).type = "stop" /\ stopping = "no"
  /\ outbox' = Tail(outbox)
  /\ IF life = "live"
     THEN cancelReq' = TRUE /\ stopping' = "latched" /\ caller' = TRUE
     ELSE UNCHANGED <<cancelReq, stopping, caller>>
  /\ UNCHANGED <<registry, askers, running, life, transport, resume, inbox, connected,
                 renderer, history, bounds>>

\* It then releases every question of the session.
StopRelease ==
  /\ stopping = "latched"
  /\ stopping' = "released"
  /\ Finish(Waiting, "interrupted")
  /\ UNCHANGED <<askers, running, cancelReq, life, caller, link, renderer, history, bounds>>

\* It ends the browser's control and denies the approvals of the session, which takes
\* time, and answers; with an error if the browser does not confirm the end.
StopReply ==
  /\ stopping = "released"
  /\ stopping' = "no" /\ caller' = FALSE
  /\ \/ caller /\ inbox' = Append(inbox, Frame("stopped", NoQuestion, 0, {}))
     \/ UNCHANGED inbox
  /\ UNCHANGED <<registry, askers, running, cancelReq, life, transport, resume, outbox,
                 connected, renderer, history, bounds>>

\* A prompt sent while a turn runs replaces it (busy mode "interrupt"): it sets the
\* latch, releases what waits, and is queued.
Replace ==
  /\ running /\ life = "live" /\ connected /\ ~caller /\ outbox = <<>> /\ calls < plan.calls
  /\ cancelReq' = TRUE /\ calls' = calls + 1
  /\ Finish(Waiting, "interrupted")
  /\ UNCHANGED <<askers, running, life, stopping, caller, link, renderer, history, turns,
                 disconnects, plan>>

\* session.close takes the session out of _sessions and marks it.
CloseMark ==
  /\ plan.close /\ life = "live" /\ ~caller
  /\ life' = "closing"
  /\ UNCHANGED <<registry, askers, running, cancelReq, stopping, caller, link, renderer,
                 history, bounds>>

\* The teardown releases what waits.
CloseClear ==
  /\ life = "closing"
  /\ life' = "closed"
  /\ Finish(Waiting, "interrupted")
  /\ UNCHANGED <<askers, running, cancelReq, stopping, caller, link, renderer, history,
                 bounds>>

-----------------------------------------------------------------------------
(* The connection and session.resume.                                      *)

Disconnect ==
  /\ connected /\ disconnects < plan.disconnects
  /\ connected' = FALSE /\ transport' = FALSE
  /\ inbox' = <<>> /\ outbox' = <<>> /\ resume' = NoResume /\ caller' = FALSE
  /\ disconnects' = disconnects + 1
  /\ UNCHANGED <<registry, askers, running, cancelReq, life, stopping, renderer, history,
                 turns, calls, plan>>

\* The renderer connects again and asks for the session.
Reconnect ==
  /\ ~connected /\ life = "live"
  /\ connected' = TRUE /\ resume' = [NoResume EXCEPT !.at = "asked"]
  /\ UNCHANGED <<registry, askers, session, transport, inbox, outbox, renderer, history,
                 bounds>>

\* The session is bound to the new connection, from now on events flow.
ResumeBind ==
  /\ resume.at = "asked" /\ life = "live"
  /\ transport' = TRUE /\ resume' = [resume EXCEPT !.at = "bound"]
  /\ UNCHANGED <<registry, askers, session, inbox, outbox, connected, renderer, history,
                 bounds>>

\* pending_snapshot, apart from the binding.
ResumeSnapshot ==
  /\ resume.at = "bound"
  /\ resume' = [at |-> "taken", rev |-> revision, waiting |-> Waiting]
  /\ UNCHANGED <<registry, askers, session, transport, inbox, outbox, connected, renderer,
                 history, bounds>>

\* The reply is written.
ResumeReply ==
  /\ resume.at = "taken"
  /\ inbox' = Append(inbox, Frame("resumed", NoQuestion, resume.rev, resume.waiting))
  /\ resume' = NoResume
  /\ UNCHANGED <<registry, askers, session, transport, outbox, connected, renderer,
                 history, bounds>>

-----------------------------------------------------------------------------
(* The renderer.                                                           *)

\* The user answers a prompt, more than once if the reply is slow.
Answer(q) ==
  /\ q \in shown /\ connected /\ calls < plan.calls
  /\ outbox' = Append(outbox, [type |-> "answer", q |-> q]) /\ calls' = calls + 1
  /\ UNCHANGED <<registry, askers, session, transport, resume, inbox, connected, renderer,
                 history, turns, disconnects, plan>>

\* The user presses Stop, perhaps when the turn is already over.
Stop ==
  /\ turns > 0 /\ connected /\ calls < plan.calls
  /\ outbox' = Append(outbox, [type |-> "stop", q |-> NoQuestion]) /\ calls' = calls + 1
  /\ UNCHANGED <<registry, askers, session, transport, resume, inbox, connected, renderer,
                 history, turns, disconnects, plan>>

\* The next frame reaches the renderer.
Heard == inbox # <<>> /\ inbox' = Tail(inbox)

Newest(rev) == IF rev > seen THEN rev ELSE seen

\* acceptPendingInteractionRequest: only a newer revision is admitted.
HearRequest ==
  LET f == Head(inbox) IN
  /\ Heard /\ f.type = "request"
  /\ seen' = Newest(f.rev)
  /\ shown' = IF f.rev > seen THEN shown \cup {f.q} ELSE shown
  /\ refused' = IF f.rev > seen \/ f.q \in shown THEN refused ELSE refused \cup {f.q}
  /\ UNCHANGED <<registry, askers, session, transport, resume, outbox, connected,
                 accepted, missed, late, cleared, bounds>>

\* resolvePendingInteraction, and the reply to an answer.
HearEnd ==
  LET f == Head(inbox) IN
  /\ Heard /\ f.type \in {"resolved", "answered"}
  /\ seen' = Newest(f.rev)
  /\ shown' = shown \ {f.q}
  /\ UNCHANGED <<registry, askers, session, transport, resume, outbox, connected, history,
                 bounds>>

\* The end of a turn, and the reply to Stop, clear every prompt of the session.
HearTurnEnd ==
  /\ Heard /\ Head(inbox).type \in {"complete", "stopped"}
  /\ shown' = {}
  /\ cleared' = IF Head(inbox).type = "stopped" THEN cleared \cup (shown \cap late) ELSE cleared
  /\ UNCHANGED <<registry, askers, session, transport, resume, outbox, connected, seen,
                 accepted, refused, missed, late, bounds>>

\* What a snapshot that is left alone would have put right.
Unrepaired(waiting) == ((waiting \cap Waiting) \ shown) \cup (shown \ (waiting \cup Waiting))

\* Seeded fault: a snapshot that is one revision ahead is taken for an old one.
HearResumedLate ==
  LET f == Head(inbox) IN
  /\ Heard /\ f.type = "resumed"
  /\ seen' = Newest(f.rev)
  /\ shown' = IF f.rev > seen + 1 THEN f.waiting ELSE shown
  /\ missed' = IF f.rev > seen THEN missed
               ELSE missed \cup Unrepaired(f.waiting)
  /\ UNCHANGED <<registry, askers, session, transport, resume, outbox, connected,
                 accepted, refused, late, cleared, bounds>>

\* hydratePendingInteractions: a snapshot that is not newer than what was heard is
\* left alone.
HearResumed ==
  LET f == Head(inbox) IN
  /\ Heard /\ f.type = "resumed"
  /\ seen' = Newest(f.rev)
  /\ shown' = IF f.rev > seen THEN f.waiting ELSE shown
  /\ missed' = IF f.rev > seen THEN missed
               ELSE missed \cup Unrepaired(f.waiting)
  /\ UNCHANGED <<registry, askers, session, transport, resume, outbox, connected,
                 accepted, refused, late, cleared, bounds>>

Asker(q) == AskTurn(q) \/ AskLive(q) \/ AskPlain(q) \/ Emit(q) \/ Expire(q) \/ Wake(q)
              \/ Resolve(q)
Gateway == TurnStarts \/ TurnEnds \/ Respond \/ StopLatch \/ StopRelease \/ StopReply
             \/ Replace \/ CloseMark \/ CloseClear \/ ResumeBind \/ ResumeSnapshot
             \/ ResumeReply
Hear == HearRequest \/ HearEnd \/ HearTurnEnd \/ HearResumed

Next ==
  \/ \E q \in Questions : Asker(q) \/ Answer(q)
  \/ Gateway \/ Hear \/ Stop \/ Disconnect \/ Reconnect

Spec == Init /\ [][Next]_vars

\* The threads of the gateway run, and a timed wait sees its deadline.  Nothing is
\* assumed of the user or the connection.
FairSpec ==
  /\ Spec /\ WF_vars(StopRelease) /\ WF_vars(StopReply) /\ WF_vars(CloseClear)
  /\ \A q \in Questions : WF_vars(Emit(q)) /\ WF_vars(Expire(q)) /\ WF_vars(Wake(q))
                            /\ WF_vars(Resolve(q))

-----------------------------------------------------------------------------
(* What the registry and the prompts promise.                              *)

\* A deadline, an answer, a Stop and a close race for one question: the asker gets the
\* answer exactly if the user was told that it was accepted.
AcceptedAnswerCounts ==
  \A q \in Questions :
    pc[q] \in {"woken", "done"} => (outcome[q] = "submitted") = (q \in accepted)

\* Once a Stop, or a prompt that replaces the turn, has released the questions of a turn,
\* none of its browser's is born or comes back until a prompt of the user takes the latch
\* back (server.py:1395), whatever turns of other origin start in between.
NoneAfterStop ==
  cancelReq /\ stopping # "latched" => \A q \in Questions : Mode[q] = "turn" => status[q] # "waiting"

\* The renderer has heard everything, and no thread has anything to add.
Settled ==
  /\ life = "live" /\ connected /\ transport /\ inbox = <<>> /\ resume.at = "no"
  /\ stopping = "no"
  /\ \A q \in Open : pc[q] = "asked" /\ status[q] = "waiting"

\* Nobody is shown a prompt that is over, through reconnects, late replies and lost
\* resolutions, unless a snapshot that would have cleared it was overtaken.  And nobody
\* waits for an answer that the user cannot give: what waits is shown, a Stop and its
\* late reply included (store/prompts.ts:7 says that otherwise the agent silently
\* stalls), unless its request or the snapshot was overtaken, it was asked in the window
\* of a Stop between release and reply, whose reply then cleared it, or background work
\* asked.
PromptsMatch ==
  Settled =>
    /\ shown \subseteq Waiting \cup missed
    /\ {q \in Waiting : Mode[q] # "live"} \subseteq shown \cup refused \cup missed \cup cleared

\* What waits is shown, also after a Stop: use-prompt-actions.ts:986 says that the prompts
\* are cleared only after the gateway confirms the interrupt, and store/prompts.ts:7 that
\* a prompt nobody is shown stalls the agent silently.
StopClearsOwn == Settled => cleared \cap Waiting \subseteq shown

\* No prompt that is over stays: pending-interactions.ts:180 says that an older
\* snapshot never erases or resurrects newer local state.
NoPromptStale == Settled => shown \subseteq Waiting

\* The questions of background work are shown as well: use-message-stream.ts:860 takes
\* every prompt open at the end of a turn for one that is interrupted or resolved.
BackgroundShown ==
  Settled => \A q \in Waiting : Mode[q] = "live" => q \in shown

\* Every request that is emitted is admitted once: pending-interactions.ts:71 says
\* "admit one live request exactly once in gateway lifecycle order".
EachAdmitted == refused = {}

\* The reply to session.resume rebuilds the prompts that wait:
\* pending-interactions.ts:170 says "rebuild one session's replayable prompt queues".
SnapshotRestores == missed = {}

\* When the session is closed nobody is left waiting: server.py:1411 says that an
\* ordinary prompt must not be born after session.close, instead of parking an
\* invisible thread forever.
NoneParked == life = "closed" => Waiting \subseteq Timed

\* A question with a deadline ends, and a Stop ends every question that was asked,
\* whatever the user and the connection do.
Released ==
  /\ \A q \in Questions : (pc[q] = "asked" /\ q \in Timed) ~> pc[q] = "done"
  /\ \A q \in Questions : (pc[q] = "asked" /\ stopping = "latched") ~> pc[q] = "done"
=============================================================================
