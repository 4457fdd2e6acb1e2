--------------------------- MODULE CompletionQueue ---------------------------
(***************************************************************************)
(* How the end of background work comes back to the conversation that      *)
(* started it: tools/async_delegation.py, the completion queue of          *)
(* tools/process_registry.py, and the pollers, after-turn drains and       *)
(* persistent Kanban subscriptions of tui_gateway/server.py.               *)
(*                                                                         *)
(* All sessions of a gateway process share one FIFO queue.  The poller     *)
(* thread of each session and the threads of its turns take items from it; *)
(* what a poller reads about an item it took is one step, the section      *)
(* under history_lock that takes the session for a turn is another.        *)
(***************************************************************************)
EXTENDS Subsequences, SequencesExt

CONSTANTS
  Sessions,      \* live session objects, the entries _sessions ever has
  Key,           \* the session_key of each, the conversation it serves
  Procs,         \* background processes that report their completion
  Delegs,        \* delegations
  OwnerKey,      \* the conversation that starts a process or delegation
  Subscriber,    \* the conversation subscribed to the Kanban task
  NoItem,        \* an empty hand
  MaxChildren,   \* delegation.max_async_children
  MaxTombstones, \* _MAX_CANCELLED_DELIVERY_IDS
  MaxPosts,      \* bound: terminal events of the task
  Scenarios      \* the bounds a behaviour may have

\* In one behaviour the sessions `first' are open at the start, the sessions `later' may
\* be opened, the processes and delegations in `work' may be started, and there are so
\* many terminal events, turns of the user, crashes of the gateway and dispatches that
\* raise; may a session be closed?
Scenario == [first : SUBSET Sessions, later : SUBSET Sessions,
             work : SUBSET (Procs \cup Delegs), posts : 0 .. MaxPosts, turns : Nat,
             crashes : Nat, faults : Nat, close : BOOLEAN]

\* A Kanban batch stands for the events after first up to last, its new_cursor.
Batches == [first : 0 .. MaxPosts, last : 1 .. MaxPosts]
Items == Procs \cup Delegs \cup Batches

ASSUME QueueAssumption ==
  /\ IsFiniteSet(Sessions) /\ IsFiniteSet(Delegs) /\ Scenarios \subseteq Scenario
  /\ \A c \in Scenarios : \A s, t \in c.first : Key[s] = Key[t] => s = t
  /\ Procs \cap Delegs = {} /\ NoItem \notin Items /\ (Procs \cup Delegs) \cap Batches = {}
  /\ {MaxChildren, MaxTombstones, MaxPosts} \subseteq Nat

VARIABLES
  plan,       \* the scenario of this behaviour
  queue,      \* completion_queue
  life,       \* of each session, "absent", "open" (in _sessions), "removed",
              \* "finalized", "stopping" and "draining" (its poller is in its last
              \* round, past it, in its last drain), "gone" (its poller has ended)
  busy,       \* session["running"]
  hand,       \* of each session, the item its poller has taken and not placed
  acking,     \* of each session, the batch its poller has told and not acknowledged
  deferred,   \* of each session, what its poller's last drain keeps for others
  rest,       \* of each session, what is left of its after-turn drain
  drains,     \* of each session, has a turn ended whose drain is still to come?
  exited,     \* processes whose completion was put into the queue
  consumed,   \* _completion_consumed: processes whose output the agent read itself
  record,     \* of each delegation, the state of its record in _records
  cancelled,  \* delegations whose record says delivery_cancelled
  unpushed,   \* delegations whose event is decided and not yet in the queue
  tombstones, \* _cancelled_delivery_order
  posted,     \* the task's terminal events, a counter
  cursor,     \* last_event_id of the subscription, durable
  pending,    \* _kanban_notifications_pending
  told,       \* history: which item became a turn of which session, and who did it
  again,      \* history: items told a second time
  drained,    \* history: items an after-turn drain threw away or misread
  failed,     \* history: items that were to become a turn when the dispatch raised
  retired,    \* history: delegations cancelled with their session
  parent,     \* history: the session whose turn dispatched a delegation
  turns, crashes, faults

kanban == <<posted, cursor, pending, acking>>
delegations == <<record, cancelled, unpushed, tombstones, retired, parent>>
processes == <<exited, consumed>>
places == <<queue, hand, deferred, rest>>
sessions == <<life, busy, drains>>
telling == <<told, again, drained, failed>>
bounds == <<turns, crashes, faults, plan>>
vars == <<kanban, delegations, processes, places, sessions, telling, bounds>>

KeyOf(e) == IF e \in Batches THEN Subscriber ELSE OwnerKey[e]

QueueTypeOK ==
  /\ plan \in Scenarios
  /\ queue \in Seq(Items) /\ hand \in [Sessions -> Items \cup {NoItem}]
  /\ acking \in [Sessions -> Batches \cup {NoItem}]
  /\ deferred \in [Sessions -> Seq(Items)] /\ rest \in [Sessions -> Seq(Items)]
  /\ life \in [Sessions -> {"absent", "open", "removed", "finalized", "stopping",
                           "draining", "gone"}]
  /\ busy \in [Sessions -> BOOLEAN] /\ drains \in [Sessions -> BOOLEAN]
  /\ exited \subseteq Procs /\ consumed \subseteq exited
  /\ record \in [Delegs -> {"none", "inserted", "running", "done", "popped"}]
  /\ \A d \in cancelled : record[d] \in {"inserted", "running", "done"}
  /\ unpushed \subseteq Delegs
  /\ tombstones \in Seq(Delegs) /\ Len(tombstones) <= MaxTombstones
  /\ posted \in 0 .. MaxPosts /\ cursor \in 0 .. posted /\ pending \subseteq Batches
  /\ told \subseteq [item : Items, to : Sessions, by : {"poller", "turn"},
                      closing : BOOLEAN]
  /\ again \subseteq Items /\ drained \subseteq Items /\ failed \subseteq Items
  /\ retired \subseteq Delegs
  /\ parent \in [Delegs -> Sessions \cup {NoItem}]
  /\ turns \in 0 .. plan.turns /\ crashes \in 0 .. plan.crashes
  /\ faults \in 0 .. plan.faults

Init ==
  /\ plan \in Scenarios
  /\ queue = <<>> /\ hand = [s \in Sessions |-> NoItem]
  /\ acking = [s \in Sessions |-> NoItem]
  /\ deferred = [s \in Sessions |-> <<>>] /\ rest = [s \in Sessions |-> <<>>]
  /\ life = [s \in Sessions |-> IF s \in plan.first THEN "open" ELSE "absent"]
  /\ busy = [s \in Sessions |-> FALSE] /\ drains = [s \in Sessions |-> FALSE]
  /\ exited = {} /\ consumed = {}
  /\ record = [d \in Delegs |-> "none"] /\ cancelled = {} /\ unpushed = {}
  /\ tombstones = <<>> /\ retired = {} /\ parent = [d \in Delegs |-> NoItem]
  /\ posted = 0 /\ cursor = 0 /\ pending = {}
  /\ told = {} /\ again = {} /\ drained = {} /\ failed = {}
  /\ turns = 0 /\ crashes = 0 /\ faults = 0

-----------------------------------------------------------------------------
(* Background work.                                                        *)

\* A turn of conversation k is running.
Active(k) == \E s \in Sessions : busy[s] /\ Key[s] = k

\* A process ends: its first move to the finished table reports the completion.
Exit(p) ==
  /\ p \in plan.work \ exited
  /\ exited' = exited \cup {p}
  /\ queue' = Append(queue, p)
  /\ UNCHANGED <<kanban, delegations, consumed, hand, deferred, rest, sessions,
                 telling, bounds>>

\* The agent reads the output itself, with wait or read_log.
Consume(p) ==
  /\ p \in exited \ consumed /\ Active(OwnerKey[p])
  /\ consumed' = consumed \cup {p}
  /\ UNCHANGED <<kanban, delegations, exited, places, sessions, telling, bounds>>

\* Records that count against the capacity.
Running == {d \in Delegs : record[d] \in {"inserted", "running"}}

\* dispatch_async_delegation by a turn of s: the capacity is checked and the record
\* inserted in one section.  A rejected call leaves nothing behind.
Dispatch(d, s) ==
  /\ d \in plan.work /\ record[d] = "none" /\ busy[s] /\ Key[s] = OwnerKey[d]
  /\ Cardinality(Running) < MaxChildren
  /\ record' = [record EXCEPT ![d] = "inserted"]
  /\ parent' = [parent EXCEPT ![d] = s]
  /\ UNCHANGED <<kanban, cancelled, unpushed, tombstones, retired, processes, places,
                 sessions, telling, bounds>>

\* The executor takes the worker, or refuses it and the record is taken back.
Submit(d) ==
  /\ record[d] = "inserted"
  /\ \/ record' = [record EXCEPT ![d] = "running"] /\ UNCHANGED cancelled
     \/ record' = [record EXCEPT ![d] = "popped"] /\ cancelled' = cancelled \ {d}
  /\ UNCHANGED <<kanban, unpushed, tombstones, retired, parent, processes, places,
                 sessions, telling, bounds>>

\* _finalize under the lock: the status is recorded, and whether the event may be
\* delivered is decided.  The prune drops older records that are over, or none.
Finalize(d) ==
  /\ record[d] = "running"
  /\ \E old \in SUBSET {x \in Delegs : record[x] = "done"} :
       /\ record' = [x \in Delegs |-> IF x = d THEN "done"
                                      ELSE IF x \in old THEN "popped" ELSE record[x]]
       /\ cancelled' = cancelled \ old
  /\ unpushed' = IF d \in cancelled THEN unpushed ELSE unpushed \cup {d}
  /\ UNCHANGED <<kanban, tombstones, retired, parent, processes, places, sessions,
                 telling, bounds>>

\* _push_completion_event, outside the lock.
Push(d) ==
  /\ d \in unpushed
  /\ unpushed' = unpushed \ {d}
  /\ queue' = Append(queue, d)
  /\ UNCHANGED <<kanban, record, cancelled, tombstones, retired, parent, processes,
                 hand, deferred, rest, sessions, telling, bounds>>

\* The task comes to a terminal event, in the board's database.
Post ==
  /\ posted < plan.posts
  /\ posted' = posted + 1
  /\ UNCHANGED <<cursor, pending, acking, delegations, processes, places, sessions,
                 telling, bounds>>

-----------------------------------------------------------------------------
(* The sessions.                                                           *)

\* The user starts a turn.
UserTurn(s) ==
  /\ life[s] = "open" /\ ~busy[s] /\ turns < plan.turns
  /\ busy' = [busy EXCEPT ![s] = TRUE] /\ turns' = turns + 1
  /\ UNCHANGED <<kanban, delegations, processes, places, life, drains, telling,
                 crashes, faults, plan>>

\* A turn ends and releases the session; its drain is the next thing it does.  At
\* most one drain of a session is under way (a bound of the model).
TurnEnds(s) ==
  /\ busy[s] /\ ~drains[s] /\ rest[s] = <<>>
  /\ busy' = [busy EXCEPT ![s] = FALSE] /\ drains' = [drains EXCEPT ![s] = TRUE]
  /\ UNCHANGED <<kanban, delegations, processes, places, life, telling, bounds>>

\* session.close takes the session out of _sessions; it holds _session_resume_lock
\* until the session is finalized.
Close(s) ==
  /\ life[s] = "open" /\ plan.close
  /\ life' = [life EXCEPT ![s] = "removed"]
  /\ UNCHANGED <<kanban, delegations, processes, places, busy, drains, telling,
                 bounds>>

\* The records of conversation k, as cancel_session_delegations goes through them.
Recorded(k) == {d \in Delegs : OwnerKey[d] = k
                                 /\ record[d] \in {"inserted", "running", "done"}}

\* _mark_delivery_cancelled_locked: at most MaxTombstones identities are remembered.
Buried(ds) ==
  LET all == tombstones \o SetToSeq(ds \ ToSet(tombstones))
      n   == Len(all)
  IN IF n <= MaxTombstones THEN all ELSE SubSeq(all, n - MaxTombstones + 1, n)

\* _finalize_session: the delegations of the conversation are cancelled, whatever
\* their state, and the poller is told to stop.
FinalizeSession(s) ==
  /\ life[s] = "removed"
  /\ life' = [life EXCEPT ![s] = "finalized"]
  /\ cancelled' = cancelled \cup Recorded(Key[s])
  /\ tombstones' = Buried(Recorded(Key[s]))
  /\ retired' = retired \cup Recorded(Key[s])
  /\ UNCHANGED <<kanban, record, unpushed, parent, processes, places, busy, drains,
                 telling, bounds>>

\* session.resume or session.create: a new session object for a conversation that
\* has none in _sessions.
Open(s) ==
  /\ life[s] = "absent" /\ s \in plan.later
  /\ \A t \in Sessions : Key[t] = Key[s] => life[t] \notin {"open", "removed"}
  /\ life' = [life EXCEPT ![s] = "open"]
  /\ UNCHANGED <<kanban, delegations, processes, places, busy, drains, telling, bounds>>

-----------------------------------------------------------------------------
(* The poller of a session.                                                *)

\* The poller of s is between two items.
Idle(s) == hand[s] = NoItem /\ acking[s] = NoItem

\* _enqueue_kanban_notifications: what is above the durable cursor is queued as a
\* batch, once for each new_cursor.
Discover(s) ==
  LET batch == [first |-> cursor, last |-> posted] IN
  /\ life[s] \in {"open", "removed"} /\ Idle(s)
  /\ Key[s] = Subscriber /\ cursor < posted
  /\ \A b \in pending : b.last # posted
  /\ pending' = pending \cup {batch}
  /\ queue' = Append(queue, batch)
  /\ UNCHANGED <<posted, cursor, acking, delegations, processes, hand, deferred, rest,
                 sessions, telling, bounds>>

\* Seeded fault: only the record is asked, not the tombstones.
DroppedByRecord(e) ==
  /\ e \in Delegs
  /\ \/ e \in cancelled
     \/ \A t \in Sessions : Key[t] = OwnerKey[e] => life[t] # "open"

\* _drop_async_delegation_notification: a delegation that was cancelled, or that has
\* no open session, is thrown away.
Dropped(e) ==
  /\ e \in Delegs
  /\ \/ e \in cancelled \cup ToSet(tombstones)
     \/ \A t \in Sessions : Key[t] = OwnerKey[e] => life[t] # "open"

\* _notification_event_belongs_elsewhere: only a process whose conversation has no
\* session may be taken by another.
Elsewhere(s, e) ==
  /\ KeyOf(e) # Key[s]
  /\ e \in Procs => \E t \in Sessions : Key[t] = OwnerKey[e] /\ life[t] = "open"

\* Seeded fault: a foreign item is thrown away.
TakeForeign(s) ==
  LET e == Head(queue) IN
  /\ life[s] \in {"open", "removed", "finalized"} /\ Idle(s) /\ queue # <<>>
  /\ life' = IF life[s] = "finalized" THEN [life EXCEPT ![s] = "stopping"] ELSE life
  /\ queue' = Tail(queue)
  /\ hand' = IF Dropped(e) \/ Elsewhere(s, e) \/ e \in consumed THEN hand
             ELSE [hand EXCEPT ![s] = e]
  /\ UNCHANGED <<kanban, delegations, processes, deferred, rest, busy, drains, telling,
                 bounds>>

\* One round of the poller: it takes the item at the head of the queue and throws it
\* away, puts it back for its owner, or keeps it in hand.  A round that waits for the
\* queue when the session is finalized still comes to its end.
Take(s) ==
  LET e == Head(queue) IN
  /\ life[s] \in {"open", "removed", "finalized"} /\ Idle(s) /\ queue # <<>>
  /\ life' = IF life[s] = "finalized" THEN [life EXCEPT ![s] = "stopping"] ELSE life
  /\ queue' = IF ~Dropped(e) /\ Elsewhere(s, e) THEN Append(Tail(queue), e)
              ELSE Tail(queue)
  /\ hand' = IF Dropped(e) \/ Elsewhere(s, e) \/ e \in consumed THEN hand
             ELSE [hand EXCEPT ![s] = e]
  /\ UNCHANGED <<kanban, delegations, processes, deferred, rest, busy, drains, telling,
                 bounds>>

\* Seeded fault: the stopping poller acknowledges the batch it gives up.
TakeLastAcks(s) ==
  LET e == Head(queue) IN
  /\ life[s] \in {"finalized", "stopping", "draining"} /\ Idle(s) /\ queue # <<>>
  /\ life' = [life EXCEPT ![s] = "draining"]
  /\ queue' = Tail(queue)
  /\ pending' = IF e \in Batches THEN pending \ {e} ELSE pending
  /\ IF Dropped(e) \/ e \in Batches THEN UNCHANGED <<hand, deferred>>
     ELSE IF Elsewhere(s, e)
          THEN deferred' = [deferred EXCEPT ![s] = Append(@, e)] /\ UNCHANGED hand
     ELSE /\ hand' = IF e \in consumed THEN hand ELSE [hand EXCEPT ![s] = e]
          /\ UNCHANGED deferred
  /\ cursor' = IF e \in Batches /\ cursor < e.last THEN e.last ELSE cursor
  /\ UNCHANGED <<posted, acking, delegations, processes, rest, busy, drains,
                 telling, bounds>>

\* The drain of a poller that stops: it also gives up Kanban batches, and keeps what
\* belongs to others aside until it ends.
TakeLast(s) ==
  LET e == Head(queue) IN
  /\ life[s] \in {"finalized", "stopping", "draining"} /\ Idle(s) /\ queue # <<>>
  /\ life' = [life EXCEPT ![s] = "draining"]
  /\ queue' = Tail(queue)
  /\ pending' = IF e \in Batches THEN pending \ {e} ELSE pending
  /\ IF Dropped(e) \/ e \in Batches THEN UNCHANGED <<hand, deferred>>
     ELSE IF Elsewhere(s, e)
          THEN deferred' = [deferred EXCEPT ![s] = Append(@, e)] /\ UNCHANGED hand
     ELSE /\ hand' = IF e \in consumed THEN hand ELSE [hand EXCEPT ![s] = e]
          /\ UNCHANGED deferred
  /\ UNCHANGED <<posted, cursor, acking, delegations, processes, rest, busy, drains,
                 telling, bounds>>

\* Seeded fault: what the poller kept for others is forgotten.
QuitForgets(s) ==
  /\ life[s] \in {"finalized", "stopping", "draining"} /\ Idle(s) /\ queue = <<>>
  /\ life' = [life EXCEPT ![s] = "gone"]
  /\ deferred' = [deferred EXCEPT ![s] = <<>>]
  /\ UNCHANGED <<kanban, delegations, processes, queue, hand, rest, busy, drains,
                 telling, bounds>>

\* The stopping poller found the queue empty: it hands back what it kept, and ends.
Quit(s) ==
  /\ life[s] \in {"finalized", "stopping", "draining"} /\ Idle(s) /\ queue = <<>>
  /\ life' = [life EXCEPT ![s] = "gone"]
  /\ queue' = deferred[s]
  /\ deferred' = [deferred EXCEPT ![s] = <<>>]
  /\ UNCHANGED <<kanban, delegations, processes, hand, rest, busy, drains, telling,
                 bounds>>

\* An item becomes a turn of session s.
Tell(e, s, who) ==
  /\ told' = told \cup {[item |-> e, to |-> s, by |-> who,
                         closing |-> life[s] \notin {"open", "removed"}]}
  /\ again' = IF \E r \in told : r.item = e THEN again \cup {e} ELSE again

\* The poller finds the session idle and takes it for a turn with the item.
PlaceTurn(s) ==
  LET e == hand[s] IN
  /\ e # NoItem /\ ~busy[s]
  /\ hand' = [hand EXCEPT ![s] = NoItem]
  /\ busy' = [busy EXCEPT ![s] = TRUE]
  /\ Tell(e, s, "poller")
  /\ acking' = IF e \in Batches THEN [acking EXCEPT ![s] = e] ELSE acking
  /\ UNCHANGED <<posted, cursor, pending, delegations, processes, queue, deferred, rest,
                 life, drains, drained, failed, bounds>>

\* The dispatch of the turn raises: a batch is released, to be discovered again, and
\* anything else is lost with the hand that held it.  (`running' is set until the
\* handler clears it; what others do meanwhile they also do beside a turn.)
PlaceFails(s) ==
  LET e == hand[s] IN
  /\ e # NoItem /\ ~busy[s] /\ faults < plan.faults
  /\ faults' = faults + 1
  /\ hand' = [hand EXCEPT ![s] = NoItem]
  /\ pending' = IF e \in Batches THEN pending \ {e} ELSE pending
  /\ failed' = IF e \in Batches THEN failed ELSE failed \cup {e}
  /\ UNCHANGED <<posted, cursor, acking, delegations, processes, queue, deferred, rest,
                 sessions, told, again, drained, turns, crashes, plan>>

\* The session is busy: the poller puts the item back.  Its last drain ends there.
PutBack(s) ==
  /\ hand[s] # NoItem /\ busy[s]
  /\ hand' = [hand EXCEPT ![s] = NoItem]
  /\ queue' = Append(queue, hand[s]) \o deferred[s]
  /\ deferred' = [deferred EXCEPT ![s] = <<>>]
  /\ life' = IF life[s] = "draining" THEN [life EXCEPT ![s] = "gone"] ELSE life
  /\ UNCHANGED <<kanban, delegations, processes, rest, busy, drains, telling, bounds>>

\* Seeded fault: the cursor is set behind the batch.
AckPast(s) ==
  LET b == acking[s] IN
  /\ b # NoItem
  /\ acking' = [acking EXCEPT ![s] = NoItem]
  /\ pending' = pending \ {b}
  /\ cursor' \in {cursor, IF cursor < b.last THEN b.last + 1 ELSE cursor}
  /\ UNCHANGED <<posted, delegations, processes, places, sessions, telling, bounds>>

\* _ack_kanban_notification: the cursor advances, unless the database fails, and the
\* batch is no longer pending.
Ack(s) ==
  LET b == acking[s] IN
  /\ b # NoItem
  /\ acking' = [acking EXCEPT ![s] = NoItem]
  /\ pending' = pending \ {b}
  /\ cursor' \in {cursor, IF cursor < b.last THEN b.last ELSE cursor}
  /\ UNCHANGED <<posted, delegations, processes, places, sessions, telling, bounds>>

-----------------------------------------------------------------------------
(* The drain at the end of a turn.                                         *)

\* Seeded fault: the drain leaves the items in the queue.
DrainPeek(s) ==
  /\ drains[s]
  /\ IF queue # <<>>
     THEN rest' = [rest EXCEPT ![s] = @ \o Among(<<Head(queue)>>, Items \ consumed)]
     ELSE UNCHANGED rest
  /\ drains' = [drains EXCEPT ![s] = FALSE]
  /\ UNCHANGED <<kanban, delegations, processes, queue, hand, deferred, life, busy,
                 telling, bounds>>

\* drain_notifications pops one item after the other into a list, whoever owns them,
\* until the queue is empty.
Drain(s) ==
  /\ drains[s]
  /\ IF queue # <<>>
     THEN /\ queue' = Tail(queue)
          /\ rest' = [rest EXCEPT ![s] = @ \o Among(<<Head(queue)>>, Items \ consumed)]
          /\ UNCHANGED drains
     ELSE drains' = [drains EXCEPT ![s] = FALSE] /\ UNCHANGED <<queue, rest>>
  /\ UNCHANGED <<kanban, delegations, processes, hand, deferred, life, busy, telling,
                 bounds>>

\* The first of the list becomes a turn.  A Kanban batch is read as a process's
\* completion, and nobody acknowledges it.
DrainTurn(s) ==
  LET e == Head(rest[s]) IN
  /\ rest[s] # <<>> /\ ~drains[s] /\ ~busy[s]
  /\ busy' = [busy EXCEPT ![s] = TRUE]
  /\ Tell(e, s, "turn")
  /\ rest' = [rest EXCEPT ![s] = Tail(@)]
  /\ drained' = IF e \in Batches THEN drained \cup {e} ELSE drained
  /\ UNCHANGED <<kanban, delegations, processes, queue, hand, deferred, life, drains,
                 failed, bounds>>

\* Its dispatch raises: the item is lost, a batch without being released, and the loop
\* goes on with the next one.
DrainFails(s) ==
  LET e == Head(rest[s]) IN
  /\ rest[s] # <<>> /\ ~drains[s] /\ ~busy[s] /\ faults < plan.faults
  /\ faults' = faults + 1
  /\ rest' = [rest EXCEPT ![s] = Tail(@)]
  /\ drained' = IF e \in Batches THEN drained \cup {e} ELSE drained
  /\ failed' = IF e \in Batches THEN failed ELSE failed \cup {e}
  /\ UNCHANGED <<kanban, delegations, processes, queue, hand, deferred, sessions, told,
                 again, turns, crashes, plan>>

\* The session was taken in between: the first of the list is put back, and the loop
\* ends.
DrainBreak(s) ==
  /\ rest[s] # <<>> /\ ~drains[s] /\ busy[s]
  /\ queue' = Append(queue, Head(rest[s]))
  /\ rest' = [rest EXCEPT ![s] = <<>>]
  /\ drained' = drained \cup ToSet(Tail(rest[s]))
  /\ UNCHANGED <<kanban, delegations, processes, hand, deferred, sessions, told, again,
                 failed, bounds>>

\* The gateway process dies: of this state only the board's database survives.
Crash ==
  /\ crashes < plan.crashes
  /\ crashes' = crashes + 1
  /\ queue' = <<>> /\ pending' = {} /\ tombstones' = <<>>
  /\ cancelled' = {} /\ unpushed' = {}
  /\ record' = [d \in Delegs |-> IF record[d] = "none" THEN "none" ELSE "popped"]
  /\ hand' = [s \in Sessions |-> NoItem] /\ acking' = [s \in Sessions |-> NoItem]
  /\ deferred' = [s \in Sessions |-> <<>>] /\ rest' = [s \in Sessions |-> <<>>]
  /\ life' = [s \in Sessions |-> IF life[s] = "absent" THEN "absent" ELSE "gone"]
  /\ busy' = [s \in Sessions |-> FALSE] /\ drains' = [s \in Sessions |-> FALSE]
  /\ UNCHANGED <<posted, cursor, retired, parent, processes, telling, turns, faults, plan>>

PollerStep(s) == Discover(s) \/ Take(s) \/ TakeLast(s) \/ Quit(s) \/ PlaceTurn(s)
                   \/ PutBack(s) \/ Ack(s)
TurnStep(s) == TurnEnds(s) \/ Drain(s) \/ DrainTurn(s) \/ DrainBreak(s)

Next ==
  \/ \E p \in Procs : Exit(p) \/ Consume(p)
  \/ \E d \in Delegs : Submit(d) \/ Finalize(d) \/ Push(d) \/ \E s \in Sessions : Dispatch(d, s)
  \/ Post \/ Crash
  \/ \E s \in Sessions : \/ UserTurn(s) \/ Close(s) \/ FinalizeSession(s) \/ Open(s)
                         \/ PollerStep(s) \/ TurnStep(s) \/ PlaceFails(s) \/ DrainFails(s)

Spec == Init /\ [][Next]_vars

\* The threads run: a worker ends, a poller goes through its rounds, a turn ends and
\* drains the queue, and a session that was taken out is finalized.  A last drain that
\* finds the queue empty ends before the next item comes: pollers look for new events
\* once in a second only.
FairSpec ==
  /\ Spec
  /\ \A d \in Delegs : WF_vars(Submit(d) \/ Finalize(d) \/ Push(d))
  /\ \A s \in Sessions :
       /\ WF_vars(Discover(s)) /\ SF_vars(Quit(s))
       /\ WF_vars(Take(s) \/ TakeLast(s) \/ PlaceTurn(s) \/ PutBack(s) \/ Ack(s))
       /\ WF_vars(TurnStep(s)) /\ WF_vars(FinalizeSession(s))

-----------------------------------------------------------------------------
(* What the queue promises.                                                *)

IsTold(e) == \E r \in told : r.item = e

\* Some thread still has item e before it.
Present(e) ==
  \/ e \in ToSet(queue)
  \/ \E s \in Sessions : \/ e = hand[s]
                        \/ e \in ToSet(deferred[s]) \cup ToSet(rest[s])

\* Nothing vanishes between the threads, through every put-back and every poller that
\* ends: a completion that was reported is read, told, or still before some thread, and
\* so is a batch marked as queued, so that releasing it is still to come.  Three places
\* in the code lose an item and are named by histories: the loop of an after-turn drain
\* that ends early or reads a batch as a completion, and the two handlers of a dispatch
\* that raises, which drop a completion but never a batch a poller held.
NothingDropped ==
  /\ \A p \in exited :
       Present(p) \/ IsTold(p) \/ p \in consumed \cup drained \cup failed
  /\ \A b \in pending : Present(b) \/ b \in drained \/ \E s \in Sessions : acking[s] = b

\* The safety net of a turn's end and the last drain of a poller lose nothing:
\* server.py:7190 calls the first "the safety net for events that arrived mid-turn", and
\* 6629 has the second "process all pending before exiting so nothing is lost on
\* shutdown".  The first empties the queue and puts back one item; both drop an item
\* whose dispatch raises.
CompletionNeverLost ==
  \A p \in exited : Present(p) \/ IsTold(p) \/ p \in consumed

\* The end of a process or a delegation becomes a turn at most once, though several
\* pollers and drains pass it around.
ToldOnce == again \cap (Procs \cup Delegs) = {}

\* A result cancelled with its session never becomes a turn of a session that is still
\* open through a poller, however late it comes: before, during or after the cancel,
\* after its record was pruned and after the conversation was resumed.
RetiredStaysSilent ==
  [][\A r \in told' \ told :
       r.by = "poller" /\ r.item \in retired => r.closing]_vars

\* A result enters no session but the one that asked for it: async_delegation.py:370
\* says a result from a closed conversation must never become a turn in a different
\* live session.
OwnSessionOnly ==
  \A r \in told : r.by = "poller" /\ r.item \in Delegs => r.to = parent[r.item]

\* No delegation is told in a foreign conversation: server.py:6551 says these events
\* require their exact live parent session.
ExactOwner ==
  \A r \in told : r.item \in Delegs => Key[r.to] = OwnerKey[r.item]

\* No batch is marked as queued for ever: server.py:6237 promises at-least-once
\* delivery, and the mark keeps a batch from being offered again.
PendingReleased ==
  \A b \in pending : Present(b) \/ \E s \in Sessions : acking[s] = b

\* The durable cursor never passes an event that no turn was told of, through crashes
\* and closed sessions.
NothingAckedUntold ==
  \A e \in 1 .. cursor :
    \E r \in told : r.item \in Batches /\ r.item.first < e /\ e <= r.item.last

\* The same range is not queued twice: server.py:6276 says the pending set prevents
\* enqueueing the same DB range before its cursor is acknowledged.
RangeOnce ==
  \A b, c \in pending : b = c \/ b.last <= c.first \/ c.last <= b.first

\* A closing session is not woken for a Kanban batch: server.py:6646 keeps the cursor
\* for a later session instead.
ClosingNotWoken ==
  \A r \in told : r.item \in Batches /\ r.by = "poller" => ~r.closing

\* The result of a delegation becomes a turn, unless the conversation lost its
\* session or the dispatch of that turn raised, and so does a terminal event, unless a
\* drain took its batch: one whose dispatch raised in a poller comes again.
EndsArrive ==
  /\ \A d \in Delegs : d \in unpushed ~> IsTold(d) \/ Dropped(d) \/ d \in failed
  /\ \A e \in 1 .. MaxPosts :
       posted >= e ~>
         \/ drained # {} \/ \A s \in Sessions : Key[s] = Subscriber => life[s] # "open"
         \/ \E r \in told : r.item \in Batches /\ r.item.first < e /\ e <= r.item.last
=============================================================================
