----------------------------- MODULE SessionTurn -----------------------------
(***************************************************************************)
(* The turns of one chat session of the gateway: tui_gateway/server.py and *)
(* the interrupt and steer slots of the Agent that every turn of the       *)
(* session shares.                                                         *)
(*                                                                         *)
(* One client sends prompt.submit and session.interrupt; the connection    *)
(* handles them one after the other.  Every turn has a thread of its own.  *)
(* The flags running and _turn_cancel_requested and the slot queued_prompt *)
(* are guarded by history_lock: a section under that lock is one step.     *)
(* The Agent's interrupt flag and the thread in _run_thread are not.       *)
(***************************************************************************)
EXTENDS Naturals, FiniteSets

CONSTANTS
  Prompts,     \* what the user types: numbers, sent in increasing order
  MaxTurns,    \* bound: turns ever started
  Scenarios    \* the configurations and bounds a behaviour may have

\* In one behaviour the user types `prompts', a submission may find one of `modes' as
\* busy_input_mode, `built' says whether the Agent exists at the start, and there are
\* at most so many session.interrupt calls, goal continuations and failures.
Scenario == [prompts : SUBSET Prompts, modes : SUBSET {"queue", "steer", "interrupt"},
             built : BOOLEAN, stops : Nat, goals : Nat, faults : Nat]

ASSUME TurnAssumption ==
  Prompts \subseteq Nat /\ MaxTurns \in Nat /\ Scenarios \subseteq Scenario

VARIABLES
  plan,        \* the scenario of this behaviour
  running,     \* session["running"]
  cancelled,   \* session["_turn_cancel_requested"]
  queued,      \* session["queued_prompt"]: the prompts merged into the slot
  runThread,   \* session["_run_thread"]: the turn whose thread it is, or 0
  built,       \* session["agent"] exists and agent_ready is set
  flag,        \* agent._interrupt_requested
  slot,        \* agent._pending_steer: the prompts merged into the slot
  note,        \* a completion notification waits in the completion queue
  stage,       \* of each turn, where its thread is
  carries,     \* of each turn, the prompts its text consists of
  parent,      \* of each turn, the turn whose thread dispatches it, or 0
  left,        \* of each turn, the steer text run_conversation returned
  tools,       \* of each turn, has the model seen a tool result?
  goal,        \* of each turn, did it end uninterrupted, and once the goal judge
               \* was asked: does it want a continuation?
  stop,        \* the locals of the session.interrupt being handled
  sent,        \* history: the prompts submitted
  heard,       \* history: of each prompt, how often it was given to the model
  excused,     \* history: the prompts a later Stop or replacement, or an
               \* error the user was shown, has disposed of
  abandoned,   \* history: a turn was given up before its conversation began
  orphaned,    \* history: `running' was left set by a turn that failed on its way
  undead,      \* history: a Stop has declared a live turn dead
  halted,      \* history: the prompts submitted before a Stop took effect
  stops, goals, faults

session == <<running, cancelled, queued, runThread, built, note>>
agent == <<flag, slot>>
threads == <<stage, carries, parent, left, tools, goal>>
history == <<sent, heard, excused, abandoned, orphaned, undead, halted>>
bounds == <<stops, goals, faults, plan>>
vars == <<session, agent, threads, stop, history, bounds>>

Turns == 1 .. MaxTurns

Stages == {"none", "waiting", "dispatch", "assigned", "loop", "asking",
           "result", "leaving", "post", "handoff", "after", "goal", "notes",
           "done"}

Idle == [at |-> "idle", ran |-> FALSE, alive |-> FALSE]

Live == {t \in Turns : stage[t] \notin {"none", "done"}}

\* The turns that hold the session: reserved, and not yet released.
Owners == {t \in Turns : stage[t] \in {"waiting", "dispatch", "assigned", "loop",
                                      "asking", "result", "leaving", "post"}}

\* is_alive() of the thread in _run_thread: a thread that was assigned but not
\* started is not alive.
ThreadAlive ==
  runThread # 0 /\ stage[runThread] \notin {"assigned", "done"}

\* The session is given back: whatever held it does so no longer.
FreeSession == running' = FALSE /\ orphaned' = FALSE

\* The next turn's identity, while the bound allows one.
NewTurn(t) == stage[t] = "none" /\ \A u \in Turns : u < t => stage[u] # "none"

TypeOK ==
  /\ plan \in Scenarios
  /\ running \in BOOLEAN /\ cancelled \in BOOLEAN /\ queued \subseteq Prompts
  /\ runThread \in Turns \cup {0} /\ built \in BOOLEAN /\ note \in BOOLEAN
  /\ flag \in BOOLEAN /\ slot \subseteq Prompts
  /\ stage \in [Turns -> Stages] /\ carries \in [Turns -> SUBSET Prompts]
  /\ parent \in [Turns -> Turns \cup {0}] /\ left \in [Turns -> SUBSET Prompts]
  /\ tools \in [Turns -> BOOLEAN] /\ goal \in [Turns -> BOOLEAN]
  /\ stop \in [at : {"idle", "latch", "declare"}, ran : BOOLEAN, alive : BOOLEAN]
  /\ sent \subseteq Prompts /\ heard \in [Prompts -> Nat]
  /\ excused \subseteq sent /\ abandoned \in BOOLEAN
  /\ orphaned \in BOOLEAN /\ undead \in BOOLEAN
  /\ halted \subseteq sent /\ stops \in 0 .. plan.stops
  /\ goals \in 0 .. plan.goals /\ faults \in 0 .. plan.faults

Init ==
  /\ running = FALSE /\ cancelled = FALSE /\ queued = {} /\ runThread = 0
  /\ plan \in Scenarios /\ built = plan.built /\ note \in BOOLEAN /\ flag = FALSE /\ slot = {}
  /\ stage = [t \in Turns |-> "none"] /\ carries = [t \in Turns |-> {}]
  /\ parent = [t \in Turns |-> 0] /\ left = [t \in Turns |-> {}]
  /\ tools = [t \in Turns |-> FALSE] /\ goal = [t \in Turns |-> FALSE]
  /\ stop = Idle /\ sent = {} /\ heard = [p \in Prompts |-> 0]
  /\ excused = {} /\ abandoned = FALSE /\ orphaned = FALSE /\ undead = FALSE /\ halted = {}
  /\ stops = 0 /\ goals = 0 /\ faults = 0

-----------------------------------------------------------------------------
(* The Agent's slots.                                                      *)

\* Agent.interrupt: the flag is raised, whatever the Agent is doing.
InterruptAgent == flag' = (flag \/ built)

\* Agent.clear_interrupt: an interrupt that was pending takes the steer text along.
ClearFlag == flag' = FALSE /\ slot' = IF flag THEN {} ELSE slot

\* Agent.steer: the text is merged into the slot.
Steer(p) == slot' = slot \cup {p}

-----------------------------------------------------------------------------
(* The client's calls.                                                     *)

\* The user's next prompt.
Typed(p) == p \in plan.prompts \ sent /\ \A q \in plan.prompts : q < p => q \in sent

\* prompt.submit of an idle session: the turn is reserved, a stale interrupt is
\* cleared, and a thread starts to wait for the Agent.
SubmitIdle(p, t) ==
  /\ stop.at = "idle" /\ Typed(p) /\ NewTurn(t)
  /\ ~running
  /\ running' = TRUE /\ cancelled' = FALSE /\ runThread' = t
  /\ sent' = sent \cup {p}
  /\ stage' = [stage EXCEPT ![t] = "waiting"]
  /\ carries' = [carries EXCEPT ![t] = {p}]
  /\ IF built THEN ClearFlag ELSE UNCHANGED agent
  /\ UNCHANGED <<queued, built, note, parent, left, tools, goal, stop, heard,
                 excused, abandoned, orphaned, undead, halted, bounds>>

\* prompt.submit of an idle session raises after the reservation: the row, the build
\* or the new thread fails, and nobody takes the reservation back.  The user is shown
\* the error; the thread in _run_thread is the old one or one that never starts.
SubmitFails(p, t) ==
  /\ stop.at = "idle" /\ Typed(p) /\ NewTurn(t)
  /\ ~running /\ faults < plan.faults
  /\ faults' = faults + 1
  /\ running' = TRUE /\ cancelled' = FALSE /\ runThread' \in {runThread, t}
  /\ sent' = sent \cup {p} /\ excused' = excused \cup {p}
  /\ stage' = [stage EXCEPT ![t] = "done"]
  /\ abandoned' = TRUE /\ orphaned' = TRUE
  /\ IF built THEN ClearFlag ELSE UNCHANGED agent
  /\ UNCHANGED <<queued, built, note, carries, parent, left, tools, goal, stop, heard,
                 undead, halted, stops, goals, plan>>

\* _handle_busy_submit in steer mode: the text goes to the Agent's steer slot.
SubmitSteer(p) ==
  /\ stop.at = "idle" /\ Typed(p) /\ "steer" \in plan.modes
  /\ running /\ built
  /\ sent' = sent \cup {p}
  /\ Steer(p)
  /\ UNCHANGED <<session, flag, threads, stop, heard, excused, abandoned, orphaned, undead,
                 halted, bounds>>

\* _handle_busy_submit in queue mode, or in interrupt mode while a compression is
\* in flight: the text is merged into the one slot.
SubmitQueue(p) ==
  /\ stop.at = "idle" /\ Typed(p)
  /\ plan.modes \cap {"queue", "interrupt"} # {}
  /\ running
  /\ sent' = sent \cup {p}
  /\ queued' = queued \cup {p}
  /\ UNCHANGED <<running, cancelled, runThread, built, note, agent, threads, stop,
                 heard, excused, abandoned, orphaned, undead, halted, bounds>>

\* _handle_busy_submit in interrupt mode, or in steer mode while there is no
\* Agent: the running turn is cancelled, the Agent interrupted, and the text
\* queued as the turn that replaces it.
SubmitInterrupt(p) ==
  /\ stop.at = "idle" /\ Typed(p)
  /\ "interrupt" \in plan.modes \/ ("steer" \in plan.modes /\ ~built)
  /\ running
  /\ sent' = sent \cup {p}
  /\ cancelled' = TRUE
  /\ InterruptAgent
  /\ queued' = queued \cup {p}
  /\ excused' = excused \cup (sent \ queued)
  /\ UNCHANGED <<running, runThread, built, note, slot, threads, stop, heard,
                 abandoned, orphaned, undead, halted, bounds>>

\* session.interrupt, first step: it looks at the session and interrupts the
\* Agent, without the lock.
StopLook ==
  /\ stop.at = "idle" /\ stops < plan.stops
  /\ stops' = stops + 1
  /\ stop' = [at |-> "latch", ran |-> running, alive |-> ThreadAlive]
  /\ IF running THEN InterruptAgent ELSE UNCHANGED flag
  /\ UNCHANGED <<session, slot, threads, history, goals, faults, plan>>

\* Second step: the cancel latch and the queue slot, under the lock.
StopLatch ==
  /\ stop.at = "latch"
  /\ cancelled' = TRUE /\ queued' = {}
  /\ excused' = sent /\ halted' = sent
  /\ stop' = IF stop.ran /\ ~stop.alive THEN [stop EXCEPT !.at = "declare"] ELSE Idle
  /\ UNCHANGED <<running, runThread, built, note, agent, threads, sent, heard,
                 abandoned, orphaned, undead, bounds>>

\* Third step: a turn without a live thread is declared dead, under the lock; so is
\* the reservation of one that failed on its way.
StopDeclare ==
  /\ stop.at = "declare"
  /\ stop' = Idle
  /\ FreeSession
  /\ undead' = (undead \/ Owners # {})
  /\ UNCHANGED <<cancelled, queued, runThread, built, note, agent, threads, sent,
                 heard, excused, abandoned, halted, bounds>>

-----------------------------------------------------------------------------
(* The thread of a turn.                                                   *)

\* The Agent's build finishes.
Build == /\ ~built
         /\ built' = TRUE
         /\ UNCHANGED <<running, cancelled, queued, runThread, note, agent, threads,
                        stop, history, bounds>>

\* Seeded fault: a cancelled turn is not given up, it waits for the latch to go.
ReadyUncancelled(t) ==
  /\ stage[t] = "waiting" /\ built /\ ~cancelled /\ running
  /\ stage' = [stage EXCEPT ![t] = "dispatch"]
  /\ UNCHANGED <<session, agent, carries, parent, left, tools, goal, stop, history,
                 bounds>>

\* run_after_agent_ready: the Agent is ready, and the latch is read under the lock.
Ready(t) ==
  /\ stage[t] = "waiting" /\ built
  /\ IF cancelled \/ ~running
     THEN /\ FreeSession
          /\ stage' = [stage EXCEPT ![t] = "done"]
          /\ abandoned' = TRUE
     ELSE /\ stage' = [stage EXCEPT ![t] = "dispatch"]
          /\ UNCHANGED <<running, abandoned, orphaned>>
  /\ UNCHANGED <<cancelled, queued, runThread, built, note, agent, carries, parent,
                 left, tools, goal, stop, sent, heard, excused, undead, halted, bounds>>

\* run_after_agent_ready: the Agent failed to initialise, or took 30 s; the user
\* is shown an error.
InitFails(t) ==
  /\ stage[t] = "waiting" /\ ~built /\ faults < plan.faults
  /\ faults' = faults + 1
  /\ FreeSession
  /\ stage' = [stage EXCEPT ![t] = "done"]
  /\ abandoned' = TRUE
  /\ excused' = excused \cup carries[t]
  /\ UNCHANGED <<cancelled, queued, runThread, built, note, agent, carries, parent,
                 left, tools, goal, stop, sent, heard, undead, halted, stops,
                 goals, plan>>

\* _run_prompt_submit up to the assignment of _run_thread.
Assign(t) ==
  /\ stage[t] = "dispatch"
  /\ stage' = [stage EXCEPT ![t] = "assigned"]
  /\ runThread' = t
  /\ UNCHANGED <<running, cancelled, queued, built, note, agent, carries, parent,
                 left, tools, goal, stop, history, bounds>>

\* Where the thread that dispatched turn t goes on.
Resume(t) == IF parent[t] # 0 /\ stage[parent[t]] = "handoff"
             THEN [stage EXCEPT ![t] = "loop", ![parent[t]] =
                     IF goal[parent[t]] THEN "notes" ELSE "done"]
             ELSE [stage EXCEPT ![t] = "loop"]

\* The thread of the turn starts; its dispatcher returns.
Start(t) ==
  /\ stage[t] = "assigned"
  /\ stage' = Resume(t)
  /\ UNCHANGED <<session, agent, carries, parent, left, tools, goal, stop, history, bounds>>

\* Seeded fault: the handler of a failed dispatch does not release the session.
DispatchFailsBusy(t) ==
  /\ stage[t] \in {"dispatch", "assigned"} /\ faults < plan.faults
  /\ faults' = faults + 1
  /\ stage' = [Resume(t) EXCEPT ![t] = "done"]
  /\ abandoned' = TRUE
  /\ IF parent[t] = 0 THEN orphaned' = running ELSE UNCHANGED orphaned
  /\ UNCHANGED <<session, agent, carries, parent, left, tools, goal, stop, sent,
                 heard, excused, undead, halted, stops, goals, plan>>

\* _run_prompt_submit raises, before or after the thread is assigned.  Who dispatches
\* a follow-up turn or a notification has a handler that releases the session;
\* run_after_agent_ready has none, and its thread ends with `running' set.
DispatchFails(t) ==
  /\ stage[t] \in {"dispatch", "assigned"} /\ faults < plan.faults
  /\ faults' = faults + 1
  /\ stage' = [Resume(t) EXCEPT ![t] = "done"]
  /\ abandoned' = TRUE
  /\ IF parent[t] = 0 THEN orphaned' = running /\ UNCHANGED running ELSE FreeSession
  /\ UNCHANGED <<cancelled, queued, runThread, built, note, agent, carries, parent,
                 left, tools, goal, stop, sent, heard, excused, undead, halted, stops,
                 goals, plan>>

\* What the model reads is counted.
Hear(ps) == heard' = [p \in Prompts |-> IF p \in ps THEN heard[p] + 1 ELSE heard[p]]

\* Seeded fault: the text in the steer slot is read and not taken out.
IteratePeek(t) ==
  /\ stage[t] = "loop"
  /\ IF flag
     THEN stage' = [stage EXCEPT ![t] = "result"] /\ UNCHANGED heard
     ELSE stage' = [stage EXCEPT ![t] = "asking"]
          /\ Hear(IF tools[t] THEN slot ELSE carries[t])
  /\ UNCHANGED <<session, agent, carries, parent, left, tools, goal, stop, sent,
                 excused, abandoned, orphaned, undead, halted, bounds>>

\* The top of the conversation loop: an interrupt ends the turn, and otherwise the
\* model is called, with the steer text if any message of the conversation is a tool
\* result that can hold it: one of this turn, or of an earlier one it remembers.
Iterate(t) ==
  /\ stage[t] = "loop"
  /\ IF flag
     THEN /\ stage' = [stage EXCEPT ![t] = "result"]
          /\ UNCHANGED <<heard, slot>>
     ELSE \E guidance \in {{}, slot} :
          /\ tools[t] => guidance = slot
          /\ stage' = [stage EXCEPT ![t] = "asking"]
          /\ Hear(guidance \cup IF tools[t] THEN {} ELSE carries[t])
          /\ slot' = slot \ guidance
  /\ UNCHANGED <<session, flag, carries, parent, left, tools, goal, stop, sent,
                 excused, abandoned, orphaned, undead, halted, bounds>>

\* The model asked for tools, and they ran or were skipped for an interrupt: steer
\* text is appended to a result either way.
\* Bound: one batch of tools in a turn.
ToolBatch(t) ==
  /\ stage[t] = "asking" /\ ~tools[t]
  /\ stage' = [stage EXCEPT ![t] = "loop"]
  /\ tools' = [tools EXCEPT ![t] = TRUE]
  /\ Hear(slot) /\ slot' = {}
  /\ UNCHANGED <<session, flag, carries, parent, left, goal, stop, sent, excused,
                 abandoned, orphaned, undead, halted, bounds>>

\* The model answered, or the interrupt cut its answer short; the leftover steer
\* text goes into the result, and with it whether the turn was interrupted.
Result(t) ==
  /\ stage[t] \in {"asking", "result"}
  /\ stage' = [stage EXCEPT ![t] = "leaving"]
  /\ left' = [left EXCEPT ![t] = slot] /\ slot' = {}
  /\ \E whole \in BOOLEAN :
       /\ whole => stage[t] = "asking"
       /\ ~whole => stage[t] = "result" \/ flag
       /\ goal' = [goal EXCEPT ![t] = whole]
  /\ UNCHANGED <<session, flag, carries, parent, tools, stop, history, bounds>>

\* clear_interrupt at the end of run_conversation; then message.complete and, if the
\* result does not say the turn was interrupted, the goal judge.
ClearInterrupt(t) ==
  /\ stage[t] = "leaving"
  /\ stage' = [stage EXCEPT ![t] = "post"]
  /\ ClearFlag
  /\ \E g \in BOOLEAN :
       /\ g => goal[t] /\ goals < plan.goals
       /\ goal' = [goal EXCEPT ![t] = g]
       /\ goals' = IF g THEN goals + 1 ELSE goals
  /\ UNCHANGED <<session, carries, parent, left, tools, stop, history, stops, faults, plan>>

\* run_conversation raises: the user is shown the error, nothing is returned, and
\* the Agent's flag stays as it is.
Raise(t) ==
  /\ stage[t] \in {"loop", "asking"} /\ faults < plan.faults
  /\ faults' = faults + 1
  /\ stage' = [stage EXCEPT ![t] = "post"]
  /\ excused' = excused \cup carries[t]
  /\ UNCHANGED <<session, agent, carries, parent, left, tools, goal, stop, sent,
                 heard, abandoned, orphaned, undead, halted, stops, goals, plan>>

\* A follow-up turn u is reserved by the thread of turn t.
FollowUp(t, u, ps) ==
  /\ NewTurn(u)
  /\ running' = TRUE
  /\ stage' = [stage EXCEPT ![t] = "handoff", ![u] = "dispatch"]
  /\ carries' = [carries EXCEPT ![u] = ps]
  /\ parent' = [parent EXCEPT ![u] = t]

\* Seeded fault: only the steer text the conversation returned is considered.
ReleaseReturned(t) ==
  /\ stage[t] = "post"
  /\ IF left[t] # {} /\ ~cancelled
     THEN \E u \in Turns : FollowUp(t, u, left[t]) /\ goal' = [goal EXCEPT ![t] = FALSE]
     ELSE /\ running' = FALSE
          /\ stage' = [stage EXCEPT ![t] = "after"]
          /\ UNCHANGED <<carries, parent, goal>>
  /\ orphaned' = FALSE
  /\ UNCHANGED <<cancelled, queued, runThread, built, note, agent, left, tools, stop,
                 sent, heard, excused, abandoned, undead, halted, bounds>>

\* The finally block: the session is released, and late steer text reserves the
\* session again in the same section, unless the turn was cancelled.
Release(t) ==
  LET late == left[t] \cup slot IN
  /\ stage[t] = "post"
  /\ slot' = {} /\ orphaned' = FALSE
  /\ IF late # {} /\ ~cancelled
     THEN \E u \in Turns : FollowUp(t, u, late) /\ goal' = [goal EXCEPT ![t] = FALSE]
     ELSE /\ running' = FALSE
          /\ stage' = [stage EXCEPT ![t] = "after"]
          /\ UNCHANGED <<carries, parent, goal>>
  /\ UNCHANGED <<cancelled, queued, runThread, built, note, flag, left, tools, stop,
                 sent, heard, excused, abandoned, undead, halted, bounds>>

\* _drain_queued_prompt: the queued text is the next turn, if the session is free.
DrainQueue(t, u) ==
  /\ stage[t] = "after"
  /\ queued # {} /\ ~running
  /\ queued' = {} /\ cancelled' = FALSE
  /\ FollowUp(t, u, queued)
  /\ goal' = [goal EXCEPT ![t] = FALSE]
  /\ UNCHANGED <<runThread, built, note, agent, left, tools, stop, history, bounds>>

NoDrain(t) ==
  /\ stage[t] = "after"
  /\ queued = {} \/ running
  /\ stage' = [stage EXCEPT ![t] = IF goal[t] THEN "goal" ELSE "notes"]
  /\ UNCHANGED <<session, agent, carries, parent, left, tools, goal, stop, history, bounds>>

\* The goal continuation: a turn that took the session in between wins.
Continue(t) ==
  /\ stage[t] = "goal"
  /\ IF running
     THEN stage' = [stage EXCEPT ![t] = "done"] /\ UNCHANGED <<running, carries, parent>>
     ELSE \E u \in Turns : FollowUp(t, u, {})
  /\ UNCHANGED <<cancelled, queued, runThread, built, note, agent, left, tools, goal,
                 stop, history, bounds>>

\* The notification that arrived during the turn becomes a turn, if the session
\* is free, and otherwise goes back to the queue.
Notify(t) ==
  /\ stage[t] = "notes"
  /\ IF note /\ ~running
     THEN \E u \in Turns :
            /\ FollowUp(t, u, {})
            /\ note' = FALSE
            /\ goal' = [goal EXCEPT ![t] = FALSE]
     ELSE /\ stage' = [stage EXCEPT ![t] = "done"]
          /\ UNCHANGED <<running, note, carries, parent, goal>>
  /\ UNCHANGED <<cancelled, queued, runThread, built, agent, left, tools, stop,
                 history, bounds>>

\* The notification poller finds the session idle and takes it for a turn.
Poll(u) ==
  /\ note /\ built /\ ~running /\ NewTurn(u)
  /\ note' = FALSE /\ running' = TRUE
  /\ stage' = [stage EXCEPT ![u] = "dispatch"]
  /\ parent' = [parent EXCEPT ![u] = u]
  /\ UNCHANGED <<cancelled, queued, runThread, built, agent, carries, left, tools,
                 goal, stop, history, bounds>>

ClientStep ==
  \/ \E p \in Prompts : \/ \E t \in Turns : SubmitIdle(p, t) \/ SubmitFails(p, t)
                        \/ SubmitSteer(p) \/ SubmitQueue(p) \/ SubmitInterrupt(p)
  \/ StopLook

TurnStep(t) ==
  \/ Ready(t) \/ Assign(t) \/ Start(t) \/ Iterate(t) \/ Result(t)
  \/ ClearInterrupt(t) \/ Release(t)
  \/ (\E u \in Turns : DrainQueue(t, u)) \/ NoDrain(t) \/ Continue(t) \/ Notify(t)

Next ==
  \/ ClientStep \/ StopLatch \/ StopDeclare \/ Build
  \/ \E t \in Turns : \/ TurnStep(t) \/ InitFails(t) \/ DispatchFails(t)
                      \/ ToolBatch(t) \/ Raise(t) \/ Poll(t)

Spec == Init /\ [][Next]_vars

\* The gateway goes on with what it has begun: handlers return, the Agent is
\* built, threads run, and a model call ends.
FairSpec ==
  /\ Spec
  /\ WF_vars(StopLatch) /\ WF_vars(StopDeclare) /\ WF_vars(Build)
  /\ \A t \in Turns : WF_vars(TurnStep(t))
-----------------------------------------------------------------------------
(* Properties.                                                             *)

Quiescent == Live = {} /\ stop.at = "idle"

\* `running' is never set without somebody who will clear it, across the many places
\* that take and release it and whatever fails on the way to a turn: a turn holds the
\* session, or a user's turn that failed has left it to the next Stop.  And one turn
\* holds it, and runs with `running' set, unless a Stop declared a live turn dead (its
\* thread was not started yet, or is still about to be dispatched).
OneOwner ==
  /\ running => Owners # {} \/ orphaned
  /\ ~undead => /\ Owners # {} => running /\ ~orphaned
                /\ Cardinality(Owners) <= 1

\* A prompt is given to the model at most once, by whichever of the ways it took:
\* its own turn, the queue slot, a tool result, the result of run_conversation or
\* the late follow-up.
HeardOnce == \A p \in Prompts : heard[p] <= 1

\* When everything is at rest, no prompt is left in the queue slot, and guidance
\* accepted in steer mode has reached the model, whichever of the slots and late
\* follow-ups it went through, unless its turn was given up or failed, or the user
\* pressed Stop.
PromptsServed ==
  Quiescent =>
    /\ ~abandoned => queued = {}
    /\ stops = 0 /\ plan.modes = {"steer"}
         => \A p \in sent : heard[p] = 1 \/ p \in excused \/ abandoned

\* What the user typed before a Stop took effect and the model has not read by
\* then, it never reads.
StopStops == [][\A p \in halted : heard'[p] = heard[p]]_vars

\* A prompt is not aborted unread by an interrupt that was meant for an earlier
\* turn: a turn that comes to the Agent with the flag set carries a prompt that a
\* Stop or a replacement has disposed of.
NotBornPoisoned ==
  \A t \in Turns : stage[t] = "loop" /\ ~tools[t] /\ flag /\ carries[t] # {}
    => carries[t] \cap excused # {}

\* A prompt that was queued behind a turn runs, or the user has disposed of it.
NothingForgotten == Quiescent => queued = {}

\* In steer mode, a prompt accepted while a turn is running is not dropped.
SteerKept ==
  Quiescent /\ plan.modes = {"steer"} /\ queued = {} /\ faults = 0
    => \A p \in sent : heard[p] = 1 \/ p \in excused \cup slot

\* Every turn ends, and with it what waited behind it is decided.
TurnsEnd == <>[](Live = {})
=============================================================================
