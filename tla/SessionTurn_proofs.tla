--------------------------- MODULE SessionTurn_proofs ---------------------------
(***************************************************************************)
(* What the turns of a chat session promise, proved for any number of      *)
(* prompts, turns and calls, in every busy mode.                           *)
(*                                                                         *)
(* The argument has three books.  The owners' book follows running through *)
(* the places that take and release it.  The text book says that a         *)
(* prompt the model has not read is in one place at a time: the text of a  *)
(* turn, the queue slot, the steer slot, or what run_conversation returned.*)
(* The service book says that somebody still comes for what is in a slot,  *)
(* and that guidance which is in none of the places has been read.         *)
(***************************************************************************)
EXTENDS SessionTurn, FiniteSetTheorems, TLAPS

\* The owners' book.
OwnBook ==
  /\ running => Owners # {} \/ orphaned
  /\ orphaned => running
  /\ ~undead => /\ Owners # {} => running /\ ~orphaned
                /\ \A t, u \in Owners : t = u

\* The text of the turn is still to be given to the model.
Unread(t) == stage[t] \in {"waiting", "dispatch", "assigned"} \/ (stage[t] = "loop" /\ ~tools[t])

\* The turn has what run_conversation returned, and nobody has looked at it.
Returned(t) == stage[t] \in {"leaving", "post"}

\* The unread prompts that a turn holds.
Holds(t) == IF Unread(t) THEN carries[t] ELSE IF Returned(t) THEN left[t] ELSE {}

\* Nothing is returned before the conversation ends.
Fresh(t) ==
  /\ stage[t] = "none" => carries[t] = {}
  /\ stage[t] \in {"none", "waiting", "dispatch", "assigned", "loop", "asking", "result"}
       => left[t] = {}

\* An unread prompt is in one place.
Apart ==
  /\ queued \cap slot = {}
  /\ \A t \in Turns : Holds(t) \cap queued = {} /\ Holds(t) \cap slot = {}
  /\ \A t, u \in Turns : t # u => Holds(t) \cap Holds(u) = {}

\* What is in any of the places was never read.
Unheard ==
  /\ \A p \in queued \cup slot : heard[p] = 0
  /\ \A t \in Turns : \A p \in Holds(t) : heard[p] = 0
  /\ \A p \in Prompts : p \notin sent => heard[p] = 0

\* The session and its turns hold nothing that was not submitted.
Submitted ==
  queued \cup slot \subseteq sent /\ \A t \in Turns : carries[t] \cup left[t] \subseteq sent

TextBook == Submitted /\ Apart /\ Unheard /\ HeardOnce /\ \A t \in Turns : Fresh(t)

IndInv == TypeOK /\ OwnBook /\ TextBook

-----------------------------------------------------------------------------
(* Types.                                                                  *)

\* TypeOK in three parts.
SlotsTyped ==
  /\ running \in BOOLEAN /\ cancelled \in BOOLEAN /\ queued \subseteq Prompts
  /\ runThread \in Turns \cup {0} /\ built \in BOOLEAN /\ note \in BOOLEAN
  /\ flag \in BOOLEAN /\ slot \subseteq Prompts
  /\ stop \in [at : {"idle", "latch", "declare"}, ran : BOOLEAN, alive : BOOLEAN]

ThreadsTyped ==
  /\ stage \in [Turns -> Stages] /\ carries \in [Turns -> SUBSET Prompts]
  /\ parent \in [Turns -> Turns \cup {0}] /\ left \in [Turns -> SUBSET Prompts]
  /\ tools \in [Turns -> BOOLEAN] /\ goal \in [Turns -> BOOLEAN]

HistoryTyped ==
  /\ plan \in Scenarios
  /\ sent \subseteq Prompts /\ heard \in [Prompts -> Nat]
  /\ excused \subseteq sent /\ abandoned \in BOOLEAN
  /\ orphaned \in BOOLEAN /\ undead \in BOOLEAN
  /\ halted \subseteq sent /\ stops \in 0 .. plan.stops
  /\ goals \in 0 .. plan.goals /\ faults \in 0 .. plan.faults

LEMMA TypeParts ==
  /\ TypeOK <=> SlotsTyped /\ ThreadsTyped /\ HistoryTyped
  /\ TypeOK' <=> SlotsTyped' /\ ThreadsTyped' /\ HistoryTyped'
BY DEF TypeOK, SlotsTyped, ThreadsTyped, HistoryTyped

LEMMA ScenarioTyped ==
  ASSUME HistoryTyped
  PROVE  /\ plan.prompts \subseteq Prompts /\ plan.built \in BOOLEAN
         /\ plan.stops \in Nat /\ plan.goals \in Nat /\ plan.faults \in Nat
BY TurnAssumption DEF HistoryTyped, Scenario

LEMMA FollowUpTyped ==
  ASSUME ThreadsTyped, NEW t \in Turns, NEW u \in Turns, NEW ps \in SUBSET Prompts,
         FollowUp(t, u, ps)
  PROVE  /\ stage' \in [Turns -> Stages] /\ carries' \in [Turns -> SUBSET Prompts]
         /\ parent' \in [Turns -> Turns \cup {0}] /\ running' = TRUE
BY DEF ThreadsTyped, FollowUp, Stages

LEMMA InitTyped == Init => TypeOK
<1> SUFFICES ASSUME Init PROVE SlotsTyped /\ ThreadsTyped /\ HistoryTyped
  BY TypeParts
<1>1. plan.built \in BOOLEAN /\ plan.stops \in Nat /\ plan.goals \in Nat /\ plan.faults \in Nat
  BY TurnAssumption DEF Init, Scenario
<1>2. SlotsTyped BY <1>1 DEF Init, SlotsTyped, Idle
<1>3. ThreadsTyped BY DEF Init, ThreadsTyped, Stages
<1>4. HistoryTyped
  <2>1. heard \in [Prompts -> Nat] /\ excused \subseteq sent /\ halted \subseteq sent /\ sent \subseteq Prompts
    BY DEF Init
  <2>2. stops \in 0 .. plan.stops /\ goals \in 0 .. plan.goals /\ faults \in 0 .. plan.faults
    BY <1>1 DEF Init
  <2> QED BY <2>1, <2>2 DEF Init, HistoryTyped
<1> QED BY <1>2, <1>3, <1>4

LEMMA ResumeTyped ==
  ASSUME ThreadsTyped, NEW t \in Turns
  PROVE  Resume(t) \in [Turns -> Stages]
<1>1. stage \in [Turns -> Stages] BY DEF ThreadsTyped
<1>2. {"loop", "notes", "done"} \subseteq Stages BY DEF Stages
<1> QED BY <1>1, <1>2 DEF Resume

LEMMA ClientTyped ==
  ASSUME TypeOK, Submitted, ClientStep \/ StopLatch \/ StopDeclare \/ Build
  PROVE  TypeOK'
<1> USE ScenarioTyped DEF session, agent, threads, history, bounds, FreeSession
<1>0. SlotsTyped /\ ThreadsTyped /\ HistoryTyped BY TypeParts
<1>1. ASSUME NEW p \in Prompts, NEW t \in Turns, SubmitIdle(p, t) PROVE TypeOK'
  <2>1. SlotsTyped' BY <1>0, <1>1 DEF SubmitIdle, ClearFlag, SlotsTyped, HistoryTyped
  <2>2. ThreadsTyped'
    BY <1>0, <1>1, ResumeTyped, FollowUpTyped DEF SubmitIdle, ClearFlag, ThreadsTyped, SlotsTyped,
       Stages
  <2>3. HistoryTyped' BY <1>0, <1>1 DEF SubmitIdle, ClearFlag, HistoryTyped, ThreadsTyped, Submitted
  <2> QED BY <2>1, <2>2, <2>3, TypeParts
<1>2. ASSUME NEW p \in Prompts, SubmitSteer(p) PROVE TypeOK'
  <2>1. SlotsTyped' BY <1>0, <1>2 DEF SubmitSteer, Steer, SlotsTyped, HistoryTyped
  <2>2. ThreadsTyped'
    BY <1>0, <1>2, ResumeTyped, FollowUpTyped DEF SubmitSteer, Steer, ThreadsTyped, SlotsTyped,
       Stages
  <2>3. HistoryTyped' BY <1>0, <1>2 DEF SubmitSteer, Steer, HistoryTyped, ThreadsTyped, Submitted
  <2> QED BY <2>1, <2>2, <2>3, TypeParts
<1>3. ASSUME NEW p \in Prompts, SubmitQueue(p) PROVE TypeOK'
  <2>1. SlotsTyped' BY <1>0, <1>3 DEF SubmitQueue, SlotsTyped, HistoryTyped
  <2>2. ThreadsTyped'
    BY <1>0, <1>3, ResumeTyped, FollowUpTyped DEF SubmitQueue, ThreadsTyped, SlotsTyped, Stages
  <2>3. HistoryTyped' BY <1>0, <1>3 DEF SubmitQueue, HistoryTyped, ThreadsTyped, Submitted
  <2> QED BY <2>1, <2>2, <2>3, TypeParts
<1>4. ASSUME NEW p \in Prompts, SubmitInterrupt(p) PROVE TypeOK'
  <2>1. SlotsTyped' BY <1>0, <1>4 DEF SubmitInterrupt, InterruptAgent, SlotsTyped, HistoryTyped
  <2>2. ThreadsTyped'
    BY <1>0, <1>4, ResumeTyped, FollowUpTyped DEF SubmitInterrupt, InterruptAgent, ThreadsTyped,
       SlotsTyped, Stages
  <2>3. HistoryTyped'
    BY <1>0, <1>4 DEF SubmitInterrupt, InterruptAgent, HistoryTyped, ThreadsTyped, Submitted
  <2> QED BY <2>1, <2>2, <2>3, TypeParts
<1>5. CASE StopLook
  <2>1. SlotsTyped'
    BY <1>0, <1>5 DEF StopLook, InterruptAgent, ThreadAlive, SlotsTyped, HistoryTyped
  <2>2. ThreadsTyped'
    BY <1>0, <1>5, ResumeTyped, FollowUpTyped DEF StopLook, InterruptAgent, ThreadAlive,
       ThreadsTyped, SlotsTyped, Stages
  <2>3. HistoryTyped'
    BY <1>0, <1>5 DEF StopLook, InterruptAgent, ThreadAlive, HistoryTyped, ThreadsTyped, Submitted
  <2> QED BY <2>1, <2>2, <2>3, TypeParts
<1>6. CASE StopLatch
  <2>1. SlotsTyped' BY <1>0, <1>6 DEF StopLatch, Idle, SlotsTyped, HistoryTyped
  <2>2. ThreadsTyped'
    BY <1>0, <1>6, ResumeTyped, FollowUpTyped DEF StopLatch, Idle, ThreadsTyped, SlotsTyped, Stages
  <2>3. HistoryTyped' BY <1>0, <1>6 DEF StopLatch, Idle, HistoryTyped, ThreadsTyped, Submitted
  <2> QED BY <2>1, <2>2, <2>3, TypeParts
<1>7. CASE StopDeclare
  <2>1. SlotsTyped' BY <1>0, <1>7 DEF StopDeclare, Idle, SlotsTyped, HistoryTyped
  <2>2. ThreadsTyped'
    BY <1>0, <1>7, ResumeTyped, FollowUpTyped DEF StopDeclare, Idle, ThreadsTyped, SlotsTyped,
       Stages
  <2>3. HistoryTyped' BY <1>0, <1>7 DEF StopDeclare, Idle, HistoryTyped, ThreadsTyped, Submitted
  <2> QED BY <2>1, <2>2, <2>3, TypeParts
<1>8. CASE Build
  <2>1. SlotsTyped' BY <1>0, <1>8 DEF Build, SlotsTyped, HistoryTyped
  <2>2. ThreadsTyped'
    BY <1>0, <1>8, ResumeTyped, FollowUpTyped DEF Build, ThreadsTyped, SlotsTyped, Stages
  <2>3. HistoryTyped' BY <1>0, <1>8 DEF Build, HistoryTyped, ThreadsTyped, Submitted
  <2> QED BY <2>1, <2>2, <2>3, TypeParts
<1>9. ASSUME NEW p \in Prompts, NEW t \in Turns, SubmitFails(p, t) PROVE TypeOK'
  <2>1. SlotsTyped' BY <1>0, <1>9 DEF SubmitFails, ClearFlag, SlotsTyped, HistoryTyped
  <2>2. ThreadsTyped'
    BY <1>0, <1>9, ResumeTyped, FollowUpTyped DEF SubmitFails, ClearFlag, ThreadsTyped, SlotsTyped,
       Stages
  <2>3. HistoryTyped' BY <1>0, <1>9 DEF SubmitFails, ClearFlag, HistoryTyped, ThreadsTyped, Submitted
  <2> QED BY <2>1, <2>2, <2>3, TypeParts
<1> QED BY <1>1, <1>2, <1>3, <1>4, <1>5, <1>6, <1>7, <1>8, <1>9 DEF ClientStep

LEMMA TurnTyped ==
  ASSUME TypeOK, Submitted, NEW t \in Turns,
         TurnStep(t) \/ InitFails(t) \/ DispatchFails(t) \/ ToolBatch(t) \/ Raise(t) \/ Poll(t)
  PROVE  TypeOK'
<1> USE ScenarioTyped DEF session, agent, threads, history, bounds, FreeSession
<1>0. SlotsTyped /\ ThreadsTyped /\ HistoryTyped BY TypeParts
<1>1. CASE Ready(t)
  <2>1. SlotsTyped' BY <1>0, <1>1 DEF Ready, SlotsTyped, HistoryTyped
  <2>2. ThreadsTyped'
    BY <1>0, <1>1, ResumeTyped, FollowUpTyped DEF Ready, ThreadsTyped, SlotsTyped, Stages
  <2>3. HistoryTyped' BY <1>0, <1>1 DEF Ready, HistoryTyped, ThreadsTyped, Submitted
  <2> QED BY <2>1, <2>2, <2>3, TypeParts
<1>2. CASE Assign(t)
  <2>1. SlotsTyped' BY <1>0, <1>2 DEF Assign, SlotsTyped, HistoryTyped
  <2>2. ThreadsTyped'
    BY <1>0, <1>2, ResumeTyped, FollowUpTyped DEF Assign, ThreadsTyped, SlotsTyped, Stages
  <2>3. HistoryTyped' BY <1>0, <1>2 DEF Assign, HistoryTyped, ThreadsTyped, Submitted
  <2> QED BY <2>1, <2>2, <2>3, TypeParts
<1>3. CASE Start(t)
  <2>1. SlotsTyped' BY <1>0, <1>3 DEF Start, SlotsTyped, HistoryTyped
  <2>2. ThreadsTyped'
    BY <1>0, <1>3, ResumeTyped, FollowUpTyped DEF Start, ThreadsTyped, SlotsTyped, Stages
  <2>3. HistoryTyped' BY <1>0, <1>3 DEF Start, HistoryTyped, ThreadsTyped, Submitted
  <2> QED BY <2>1, <2>2, <2>3, TypeParts
<1>4. CASE Iterate(t)
  <2>1. SlotsTyped' BY <1>0, <1>4 DEF Iterate, Hear, SlotsTyped, HistoryTyped
  <2>2. ThreadsTyped'
    BY <1>0, <1>4, ResumeTyped, FollowUpTyped DEF Iterate, Hear, ThreadsTyped, SlotsTyped, Stages
  <2>3. HistoryTyped' BY <1>0, <1>4 DEF Iterate, Hear, HistoryTyped, ThreadsTyped, Submitted
  <2> QED BY <2>1, <2>2, <2>3, TypeParts
<1>5. CASE Result(t)
  <2>1. SlotsTyped' BY <1>0, <1>5 DEF Result, SlotsTyped, HistoryTyped
  <2>2. ThreadsTyped'
    BY <1>0, <1>5, ResumeTyped, FollowUpTyped DEF Result, ThreadsTyped, SlotsTyped, Stages
  <2>3. HistoryTyped' BY <1>0, <1>5 DEF Result, HistoryTyped, ThreadsTyped, Submitted
  <2> QED BY <2>1, <2>2, <2>3, TypeParts
<1>6. CASE ClearInterrupt(t)
  <2>1. SlotsTyped' BY <1>0, <1>6 DEF ClearInterrupt, ClearFlag, SlotsTyped, HistoryTyped
  <2>2. ThreadsTyped'
    BY <1>0, <1>6, ResumeTyped, FollowUpTyped DEF ClearInterrupt, ClearFlag, ThreadsTyped,
       SlotsTyped, Stages
  <2>3. HistoryTyped'
    BY <1>0, <1>6 DEF ClearInterrupt, ClearFlag, HistoryTyped, ThreadsTyped, Submitted
  <2> QED BY <2>1, <2>2, <2>3, TypeParts
<1>7. CASE Release(t)
  <2>1. SlotsTyped' BY <1>0, <1>7 DEF Release, FollowUp, SlotsTyped, HistoryTyped
  <2>2. ThreadsTyped'
    <3>1. UNCHANGED <<left, tools>> BY <1>0, <1>7 DEF Release, FollowUp
    <3>2. ASSUME NEW u \in Turns, FollowUp(t, u, left[t] \cup slot), goal' \in [Turns -> BOOLEAN]
          PROVE  ThreadsTyped'
      BY <1>0, <3>1, <3>2, FollowUpTyped DEF SlotsTyped, ThreadsTyped
    <3>3. CASE stage' \in [Turns -> Stages] /\ UNCHANGED <<carries, parent, goal>>
      BY <1>0, <3>1, <3>3 DEF ThreadsTyped
    <3> QED BY <1>0, <1>7, <3>2, <3>3 DEF Release, ThreadsTyped, Stages
  <2>3. HistoryTyped' BY <1>0, <1>7 DEF Release, FollowUp, HistoryTyped, ThreadsTyped, Submitted
  <2> QED BY <2>1, <2>2, <2>3, TypeParts
<1>8. ASSUME NEW u \in Turns, DrainQueue(t, u) PROVE TypeOK'
  <2>1. SlotsTyped' BY <1>0, <1>8 DEF DrainQueue, FollowUp, SlotsTyped, HistoryTyped
  <2>2. ThreadsTyped'
    BY <1>0, <1>8, ResumeTyped, FollowUpTyped DEF DrainQueue, FollowUp, ThreadsTyped, SlotsTyped,
       Stages
  <2>3. HistoryTyped' BY <1>0, <1>8 DEF DrainQueue, FollowUp, HistoryTyped, ThreadsTyped, Submitted
  <2> QED BY <2>1, <2>2, <2>3, TypeParts
<1>9. CASE NoDrain(t)
  <2>1. SlotsTyped' BY <1>0, <1>9 DEF NoDrain, SlotsTyped, HistoryTyped
  <2>2. ThreadsTyped'
    BY <1>0, <1>9, ResumeTyped, FollowUpTyped DEF NoDrain, ThreadsTyped, SlotsTyped, Stages
  <2>3. HistoryTyped' BY <1>0, <1>9 DEF NoDrain, HistoryTyped, ThreadsTyped, Submitted
  <2> QED BY <2>1, <2>2, <2>3, TypeParts
<1>10. CASE Continue(t)
  <2>1. SlotsTyped' BY <1>0, <1>10 DEF Continue, FollowUp, SlotsTyped, HistoryTyped
  <2>2. ThreadsTyped'
    <3>1. UNCHANGED <<left, tools>> BY <1>0, <1>10 DEF Continue, FollowUp
    <3>2. ASSUME NEW u \in Turns, FollowUp(t, u, {}), goal' \in [Turns -> BOOLEAN]
          PROVE  ThreadsTyped'
      BY <1>0, <3>1, <3>2, FollowUpTyped DEF SlotsTyped, ThreadsTyped
    <3>3. CASE stage' \in [Turns -> Stages] /\ UNCHANGED <<carries, parent, goal>>
      BY <1>0, <3>1, <3>3 DEF ThreadsTyped
    <3> QED BY <1>0, <1>10, <3>2, <3>3 DEF Continue, ThreadsTyped, Stages
  <2>3. HistoryTyped' BY <1>0, <1>10 DEF Continue, FollowUp, HistoryTyped, ThreadsTyped, Submitted
  <2> QED BY <2>1, <2>2, <2>3, TypeParts
<1>11. CASE Notify(t)
  <2>1. SlotsTyped' BY <1>0, <1>11 DEF Notify, FollowUp, SlotsTyped, HistoryTyped
  <2>2. ThreadsTyped'
    <3>1. UNCHANGED <<left, tools>> BY <1>0, <1>11 DEF Notify, FollowUp
    <3>2. ASSUME NEW u \in Turns, FollowUp(t, u, {}), goal' \in [Turns -> BOOLEAN]
          PROVE  ThreadsTyped'
      BY <1>0, <3>1, <3>2, FollowUpTyped DEF SlotsTyped, ThreadsTyped
    <3>3. CASE stage' \in [Turns -> Stages] /\ UNCHANGED <<carries, parent, goal>>
      BY <1>0, <3>1, <3>3 DEF ThreadsTyped
    <3> QED BY <1>0, <1>11, <3>2, <3>3 DEF Notify, ThreadsTyped, Stages
  <2>3. HistoryTyped' BY <1>0, <1>11 DEF Notify, FollowUp, HistoryTyped, ThreadsTyped, Submitted
  <2> QED BY <2>1, <2>2, <2>3, TypeParts
<1>12. CASE InitFails(t)
  <2>1. SlotsTyped' BY <1>0, <1>12 DEF InitFails, SlotsTyped, HistoryTyped
  <2>2. ThreadsTyped'
    BY <1>0, <1>12, ResumeTyped, FollowUpTyped DEF InitFails, ThreadsTyped, SlotsTyped, Stages
  <2>3. HistoryTyped'
    <3>1. orphaned' \in BOOLEAN /\ abandoned' \in BOOLEAN
      BY <1>0, <1>12 DEF InitFails, HistoryTyped, SlotsTyped
    <3>2. faults' \in 0 .. plan.faults
      BY <1>0, <1>12 DEF InitFails, HistoryTyped
    <3>3. excused' \subseteq sent
      BY <1>0, <1>12 DEF InitFails, HistoryTyped, Submitted
    <3>4. UNCHANGED <<plan, sent, heard, undead, halted, stops, goals>>
      BY <1>12 DEF InitFails
    <3> QED BY <1>0, <3>1, <3>2, <3>3, <3>4 DEF HistoryTyped
  <2> QED BY <2>1, <2>2, <2>3, TypeParts
<1>13. CASE DispatchFails(t)
  <2>1. SlotsTyped' BY <1>0, <1>13 DEF DispatchFails, SlotsTyped, HistoryTyped
  <2>2. ThreadsTyped'
    BY <1>0, <1>13, ResumeTyped, FollowUpTyped DEF DispatchFails, ThreadsTyped, SlotsTyped, Stages
  <2>3. HistoryTyped'
    <3>1. orphaned' \in BOOLEAN /\ abandoned' \in BOOLEAN
      BY <1>0, <1>13 DEF DispatchFails, HistoryTyped, SlotsTyped
    <3>2. faults' \in 0 .. plan.faults
      BY <1>0, <1>13 DEF DispatchFails, HistoryTyped
    <3>3. excused' \subseteq sent
      BY <1>0, <1>13 DEF DispatchFails, HistoryTyped, Submitted
    <3>4. UNCHANGED <<plan, sent, heard, undead, halted, stops, goals>>
      BY <1>13 DEF DispatchFails
    <3> QED BY <1>0, <3>1, <3>2, <3>3, <3>4 DEF HistoryTyped
  <2> QED BY <2>1, <2>2, <2>3, TypeParts
<1>14. CASE ToolBatch(t)
  <2>1. SlotsTyped' BY <1>0, <1>14 DEF ToolBatch, Hear, SlotsTyped, HistoryTyped
  <2>2. ThreadsTyped'
    BY <1>0, <1>14, ResumeTyped, FollowUpTyped DEF ToolBatch, Hear, ThreadsTyped, SlotsTyped, Stages
  <2>3. HistoryTyped' BY <1>0, <1>14 DEF ToolBatch, Hear, HistoryTyped, ThreadsTyped, Submitted
  <2> QED BY <2>1, <2>2, <2>3, TypeParts
<1>15. CASE Raise(t)
  <2>1. SlotsTyped' BY <1>0, <1>15 DEF Raise, SlotsTyped, HistoryTyped
  <2>2. ThreadsTyped'
    BY <1>0, <1>15, ResumeTyped, FollowUpTyped DEF Raise, ThreadsTyped, SlotsTyped, Stages
  <2>3. HistoryTyped' BY <1>0, <1>15 DEF Raise, HistoryTyped, ThreadsTyped, Submitted
  <2> QED BY <2>1, <2>2, <2>3, TypeParts
<1>16. CASE Poll(t)
  <2>1. SlotsTyped' BY <1>0, <1>16 DEF Poll, SlotsTyped, HistoryTyped
  <2>2. ThreadsTyped'
    BY <1>0, <1>16, ResumeTyped, FollowUpTyped DEF Poll, ThreadsTyped, SlotsTyped, Stages
  <2>3. HistoryTyped' BY <1>0, <1>16 DEF Poll, HistoryTyped, ThreadsTyped, Submitted
  <2> QED BY <2>1, <2>2, <2>3, TypeParts
<1> QED BY <1>1, <1>2, <1>3, <1>4, <1>5, <1>6, <1>7, <1>8, <1>9, <1>10, <1>11, <1>12, <1>13,
       <1>14, <1>15, <1>16 DEF TurnStep

-----------------------------------------------------------------------------
(* The owners' book.                                                       *)

\* A set without two elements has at most one.
LEMMA OneAtMost ==
  ASSUME NEW S, \A t, u \in S : t = u
  PROVE  Cardinality(S) <= 1
<1>1. CASE S = {} BY <1>1, FS_EmptySet
<1>2. CASE S # {}
  <2>1. PICK t \in S : S = {t} BY <1>2
  <2>2. Cardinality({t}) = 1 BY FS_Singleton
  <2> QED BY <2>1, <2>2
<1> QED BY <1>1, <1>2

\* Whoever takes the session finds it free.
LEMMA FollowUpOwns ==
  ASSUME ThreadsTyped, NEW t \in Turns, NEW u \in Turns, NEW ps, FollowUp(t, u, ps)
  PROVE  Owners' = (Owners \ {t}) \cup {u} /\ running'
BY DEF ThreadsTyped, FollowUp, NewTurn, Owners

LEMMA ClientOwns ==
  ASSUME TypeOK, OwnBook, ClientStep \/ StopLatch \/ StopDeclare \/ Build
  PROVE  OwnBook'
<1> USE DEF session, agent, threads, history, bounds, FreeSession, OwnBook
<1>0. ThreadsTyped BY TypeParts
<1>1. ASSUME NEW p \in Prompts, NEW t \in Turns, SubmitIdle(p, t) PROVE OwnBook'
  BY <1>0, <1>1 DEF SubmitIdle, Owners, ThreadsTyped, NewTurn
<1>2. ASSUME NEW p \in Prompts, SubmitSteer(p) PROVE OwnBook'
  BY <1>0, <1>2 DEF SubmitSteer, Owners, ThreadsTyped
<1>3. ASSUME NEW p \in Prompts, SubmitQueue(p) PROVE OwnBook'
  BY <1>0, <1>3 DEF SubmitQueue, Owners, ThreadsTyped
<1>4. ASSUME NEW p \in Prompts, SubmitInterrupt(p) PROVE OwnBook'
  BY <1>0, <1>4 DEF SubmitInterrupt, Owners, ThreadsTyped
<1>5. CASE StopLook BY <1>0, <1>5 DEF StopLook, ThreadAlive, Owners, ThreadsTyped
<1>6. CASE StopLatch BY <1>0, <1>6 DEF StopLatch, Idle, Owners, ThreadsTyped
<1>7. CASE StopDeclare BY <1>0, <1>7 DEF StopDeclare, Idle, Owners, ThreadsTyped, Live
<1>8. CASE Build BY <1>0, <1>8 DEF Build, Owners, ThreadsTyped
<1>9. ASSUME NEW p \in Prompts, NEW t \in Turns, SubmitFails(p, t) PROVE OwnBook'
  BY <1>0, <1>9 DEF SubmitFails, Owners, ThreadsTyped, NewTurn
<1> QED BY <1>1, <1>2, <1>3, <1>4, <1>5, <1>6, <1>7, <1>8, <1>9 DEF ClientStep

LEMMA TurnOwns ==
  ASSUME TypeOK, OwnBook, NEW t \in Turns,
         TurnStep(t) \/ InitFails(t) \/ DispatchFails(t) \/ ToolBatch(t) \/ Raise(t) \/ Poll(t)
  PROVE  OwnBook'
<1> USE DEF session, agent, threads, history, bounds, FreeSession, OwnBook
<1>0. ThreadsTyped BY TypeParts
<1>1. CASE Ready(t) BY <1>0, <1>1 DEF Ready, Owners, ThreadsTyped
<1>2. CASE Assign(t) BY <1>0, <1>2 DEF Assign, Owners, ThreadsTyped
<1>3. CASE Start(t) BY <1>0, <1>3 DEF Start, Owners, ThreadsTyped, Resume
<1>4. CASE Iterate(t) BY <1>0, <1>4 DEF Iterate, Owners, ThreadsTyped
<1>5. CASE Result(t) BY <1>0, <1>5 DEF Result, Owners, ThreadsTyped
<1>6. CASE ClearInterrupt(t) BY <1>0, <1>6 DEF ClearInterrupt, Owners, ThreadsTyped
<1>7. CASE Release(t) BY <1>0, <1>7, FollowUpOwns DEF Release, Owners, ThreadsTyped
<1>8. ASSUME NEW u \in Turns, DrainQueue(t, u) PROVE OwnBook'
  BY <1>0, <1>8, FollowUpOwns DEF DrainQueue, Owners, ThreadsTyped
<1>9. CASE NoDrain(t) BY <1>0, <1>9 DEF NoDrain, Owners, ThreadsTyped
<1>10. CASE Continue(t) BY <1>0, <1>10, FollowUpOwns DEF Continue, Owners, ThreadsTyped
<1>11. CASE Notify(t) BY <1>0, <1>11, FollowUpOwns DEF Notify, Owners, ThreadsTyped
<1>12. CASE InitFails(t) BY <1>0, <1>12 DEF InitFails, Owners, ThreadsTyped
<1>13. CASE DispatchFails(t) BY <1>0, <1>13 DEF DispatchFails, Owners, ThreadsTyped, Resume
<1>14. CASE ToolBatch(t) BY <1>0, <1>14 DEF ToolBatch, Owners, ThreadsTyped
<1>15. CASE Raise(t) BY <1>0, <1>15 DEF Raise, Owners, ThreadsTyped
<1>16. CASE Poll(t) BY <1>0, <1>16 DEF Poll, Owners, ThreadsTyped, NewTurn
<1> QED BY <1>1, <1>2, <1>3, <1>4, <1>5, <1>6, <1>7, <1>8, <1>9, <1>10, <1>11, <1>12, <1>13,
       <1>14, <1>15, <1>16 DEF TurnStep

-----------------------------------------------------------------------------
(* The text book.                                                          *)

\* What the user types next is nowhere yet.
LEMMA NextIsNew ==
  ASSUME ThreadsTyped, TextBook, NEW p \in Prompts, Typed(p)
  PROVE  /\ p \notin sent /\ heard[p] = 0 /\ p \notin queued /\ p \notin slot
         /\ \A t \in Turns : p \notin carries[t] /\ p \notin left[t] /\ p \notin Holds(t)
<1>1. p \notin sent BY DEF Typed
<1> QED BY <1>1 DEF TextBook, Submitted, Unheard, Holds

\* Places that only lose text stay apart.
LEMMA LessIsApart ==
  ASSUME Apart, queued' \subseteq queued, slot' \subseteq slot,
         \A v \in Turns : Holds(v)' \subseteq Holds(v)
  PROVE  Apart'
BY DEF Apart

LEMMA ClientKeepsText ==
  ASSUME TypeOK, TextBook, ClientStep \/ StopLatch \/ StopDeclare \/ Build
  PROVE  TextBook'
<1> USE DEF session, agent, threads, history, bounds, FreeSession
<1>0. SlotsTyped /\ ThreadsTyped /\ HistoryTyped BY TypeParts
<1>1. ASSUME NEW p \in Prompts, NEW t \in Turns, SubmitIdle(p, t) PROVE TextBook'
  <2>1. Submitted'
    BY <1>0, <1>1 DEF TextBook, SubmitIdle, ClearFlag, NewTurn, Submitted, SlotsTyped,
       ThreadsTyped, HistoryTyped
  <2>2. \A v \in Turns : Fresh(v)'
    BY <1>0, <1>1 DEF TextBook, SubmitIdle, ClearFlag, NewTurn, Fresh, SlotsTyped, ThreadsTyped,
       HistoryTyped
  <2>3. Apart'
    BY <1>0, <1>1, NextIsNew DEF TextBook, SubmitIdle, ClearFlag, NewTurn, Apart, Fresh,
       Submitted, Holds, Unread, Returned, SlotsTyped, ThreadsTyped, HistoryTyped
  <2>4. Unheard' /\ HeardOnce'
    BY <1>0, <1>1, NextIsNew DEF TextBook, SubmitIdle, ClearFlag, NewTurn, Unheard, HeardOnce,
       Apart, Submitted, Fresh, Holds, Unread, Returned, SlotsTyped, ThreadsTyped, HistoryTyped
  <2> QED BY <2>1, <2>2, <2>3, <2>4 DEF TextBook
<1>2. ASSUME NEW p \in Prompts, SubmitSteer(p) PROVE TextBook'
  <2>1. Submitted'
    BY <1>0, <1>2 DEF TextBook, SubmitSteer, Steer, Submitted, SlotsTyped, ThreadsTyped,
       HistoryTyped
  <2>2. \A v \in Turns : Fresh(v)'
    BY <1>0, <1>2 DEF TextBook, SubmitSteer, Steer, Fresh, SlotsTyped, ThreadsTyped, HistoryTyped
  <2>3. Apart'
    BY <1>0, <1>2, NextIsNew DEF TextBook, SubmitSteer, Steer, Apart, Fresh, Submitted, Holds,
       Unread, Returned, SlotsTyped, ThreadsTyped, HistoryTyped
  <2>4. Unheard' /\ HeardOnce'
    BY <1>0, <1>2, NextIsNew DEF TextBook, SubmitSteer, Steer, Unheard, HeardOnce, Apart,
       Submitted, Fresh, Holds, Unread, Returned, SlotsTyped, ThreadsTyped, HistoryTyped
  <2> QED BY <2>1, <2>2, <2>3, <2>4 DEF TextBook
<1>3. ASSUME NEW p \in Prompts, SubmitQueue(p) PROVE TextBook'
  <2>1. Submitted'
    BY <1>0, <1>3 DEF TextBook, SubmitQueue, Submitted, SlotsTyped, ThreadsTyped, HistoryTyped
  <2>2. \A v \in Turns : Fresh(v)'
    BY <1>0, <1>3 DEF TextBook, SubmitQueue, Fresh, SlotsTyped, ThreadsTyped, HistoryTyped
  <2>3. Apart'
    BY <1>0, <1>3, NextIsNew DEF TextBook, SubmitQueue, Apart, Fresh, Submitted, Holds, Unread,
       Returned, SlotsTyped, ThreadsTyped, HistoryTyped
  <2>4. Unheard' /\ HeardOnce'
    BY <1>0, <1>3, NextIsNew DEF TextBook, SubmitQueue, Unheard, HeardOnce, Apart, Submitted,
       Fresh, Holds, Unread, Returned, SlotsTyped, ThreadsTyped, HistoryTyped
  <2> QED BY <2>1, <2>2, <2>3, <2>4 DEF TextBook
<1>4. ASSUME NEW p \in Prompts, SubmitInterrupt(p) PROVE TextBook'
  <2>1. Submitted'
    BY <1>0, <1>4 DEF TextBook, SubmitInterrupt, InterruptAgent, Submitted, SlotsTyped,
       ThreadsTyped, HistoryTyped
  <2>2. \A v \in Turns : Fresh(v)'
    BY <1>0, <1>4 DEF TextBook, SubmitInterrupt, InterruptAgent, Fresh, SlotsTyped, ThreadsTyped,
       HistoryTyped
  <2>3. Apart'
    BY <1>0, <1>4, NextIsNew DEF TextBook, SubmitInterrupt, InterruptAgent, Apart, Fresh,
       Submitted, Holds, Unread, Returned, SlotsTyped, ThreadsTyped, HistoryTyped
  <2>4. Unheard' /\ HeardOnce'
    BY <1>0, <1>4, NextIsNew DEF TextBook, SubmitInterrupt, InterruptAgent, Unheard, HeardOnce,
       Apart, Submitted, Fresh, Holds, Unread, Returned, SlotsTyped, ThreadsTyped, HistoryTyped
  <2> QED BY <2>1, <2>2, <2>3, <2>4 DEF TextBook
<1>5. CASE StopLook
  <2>1. Submitted'
    BY <1>0, <1>5 DEF TextBook, StopLook, InterruptAgent, ThreadAlive, Submitted, SlotsTyped,
       ThreadsTyped, HistoryTyped
  <2>2. \A v \in Turns : Fresh(v)'
    BY <1>0, <1>5 DEF TextBook, StopLook, InterruptAgent, ThreadAlive, Fresh, SlotsTyped,
       ThreadsTyped, HistoryTyped
  <2>3. Apart'
    BY <1>0, <1>5 DEF TextBook, StopLook, InterruptAgent, ThreadAlive, Apart, Fresh, Submitted,
       Holds, Unread, Returned, SlotsTyped, ThreadsTyped, HistoryTyped
  <2>4. Unheard' /\ HeardOnce'
    BY <1>0, <1>5 DEF TextBook, StopLook, InterruptAgent, ThreadAlive, Unheard, HeardOnce, Apart,
       Submitted, Fresh, Holds, Unread, Returned, SlotsTyped, ThreadsTyped, HistoryTyped
  <2> QED BY <2>1, <2>2, <2>3, <2>4 DEF TextBook
<1>6. CASE StopLatch
  <2>1. Submitted'
    BY <1>0, <1>6 DEF TextBook, StopLatch, Idle, Submitted, SlotsTyped, ThreadsTyped, HistoryTyped
  <2>2. \A v \in Turns : Fresh(v)'
    BY <1>0, <1>6 DEF TextBook, StopLatch, Idle, Fresh, SlotsTyped, ThreadsTyped, HistoryTyped
  <2>3. Apart'
    BY <1>0, <1>6 DEF TextBook, StopLatch, Idle, Apart, Fresh, Submitted, Holds, Unread, Returned,
       SlotsTyped, ThreadsTyped, HistoryTyped
  <2>4. Unheard' /\ HeardOnce'
    BY <1>0, <1>6 DEF TextBook, StopLatch, Idle, Unheard, HeardOnce, Apart, Submitted, Fresh,
       Holds, Unread, Returned, SlotsTyped, ThreadsTyped, HistoryTyped
  <2> QED BY <2>1, <2>2, <2>3, <2>4 DEF TextBook
<1>7. CASE StopDeclare
  <2>1. Submitted'
    BY <1>0, <1>7 DEF TextBook, StopDeclare, Idle, Submitted, SlotsTyped, ThreadsTyped, HistoryTyped
  <2>2. \A v \in Turns : Fresh(v)'
    BY <1>0, <1>7 DEF TextBook, StopDeclare, Idle, Fresh, SlotsTyped, ThreadsTyped, HistoryTyped
  <2>3. Apart'
    BY <1>0, <1>7 DEF TextBook, StopDeclare, Idle, Apart, Fresh, Submitted, Holds, Unread,
       Returned, SlotsTyped, ThreadsTyped, HistoryTyped
  <2>4. Unheard' /\ HeardOnce'
    BY <1>0, <1>7 DEF TextBook, StopDeclare, Idle, Unheard, HeardOnce, Apart, Submitted, Fresh,
       Holds, Unread, Returned, SlotsTyped, ThreadsTyped, HistoryTyped
  <2> QED BY <2>1, <2>2, <2>3, <2>4 DEF TextBook
<1>8. CASE Build
  <2>1. Submitted'
    BY <1>0, <1>8 DEF TextBook, Build, Submitted, SlotsTyped, ThreadsTyped, HistoryTyped
  <2>2. \A v \in Turns : Fresh(v)'
    BY <1>0, <1>8 DEF TextBook, Build, Fresh, SlotsTyped, ThreadsTyped, HistoryTyped
  <2>3. Apart'
    BY <1>0, <1>8 DEF TextBook, Build, Apart, Fresh, Submitted, Holds, Unread, Returned,
       SlotsTyped, ThreadsTyped, HistoryTyped
  <2>4. Unheard' /\ HeardOnce'
    BY <1>0, <1>8 DEF TextBook, Build, Unheard, HeardOnce, Apart, Submitted, Fresh, Holds, Unread,
       Returned, SlotsTyped, ThreadsTyped, HistoryTyped
  <2> QED BY <2>1, <2>2, <2>3, <2>4 DEF TextBook
<1>9. ASSUME NEW p \in Prompts, NEW t \in Turns, SubmitFails(p, t) PROVE TextBook'
  <2>1. Submitted'
    BY <1>0, <1>9 DEF TextBook, SubmitFails, ClearFlag, NewTurn, Submitted, SlotsTyped,
       ThreadsTyped, HistoryTyped
  <2>2. \A v \in Turns : Fresh(v)'
    BY <1>0, <1>9 DEF TextBook, SubmitFails, ClearFlag, NewTurn, Fresh, SlotsTyped, ThreadsTyped,
       HistoryTyped
  <2>3. Apart'
    BY <1>0, <1>9, NextIsNew DEF TextBook, SubmitFails, ClearFlag, NewTurn, Apart, Fresh,
       Submitted, Holds, Unread, Returned, SlotsTyped, ThreadsTyped, HistoryTyped
  <2>4. Unheard' /\ HeardOnce'
    BY <1>0, <1>9, NextIsNew DEF TextBook, SubmitFails, ClearFlag, NewTurn, Unheard, HeardOnce,
       Apart, Submitted, Fresh, Holds, Unread, Returned, SlotsTyped, ThreadsTyped, HistoryTyped
  <2> QED BY <2>1, <2>2, <2>3, <2>4 DEF TextBook
<1> QED BY <1>1, <1>2, <1>3, <1>4, <1>5, <1>6, <1>7, <1>8, <1>9 DEF ClientStep

LEMMA TurnKeepsText ==
  ASSUME TypeOK, TextBook, NEW t \in Turns,
         TurnStep(t) \/ InitFails(t) \/ DispatchFails(t) \/ ToolBatch(t) \/ Raise(t) \/ Poll(t)
  PROVE  TextBook'
<1> USE DEF session, agent, threads, history, bounds, FreeSession
<1>0. SlotsTyped /\ ThreadsTyped /\ HistoryTyped BY TypeParts
<1>1. CASE Ready(t)
  <2>1. Submitted'
    BY <1>0, <1>1 DEF TextBook, Ready, Submitted, SlotsTyped, ThreadsTyped, HistoryTyped
  <2>2. \A v \in Turns : Fresh(v)'
    BY <1>0, <1>1 DEF TextBook, Ready, Fresh, SlotsTyped, ThreadsTyped, HistoryTyped
  <2>3. Apart'
    BY <1>0, <1>1 DEF TextBook, Ready, Apart, Fresh, Submitted, Holds, Unread, Returned,
       SlotsTyped, ThreadsTyped, HistoryTyped
  <2>4. Unheard' /\ HeardOnce'
    BY <1>0, <1>1 DEF TextBook, Ready, Unheard, HeardOnce, Apart, Submitted, Fresh, Holds, Unread,
       Returned, SlotsTyped, ThreadsTyped, HistoryTyped
  <2> QED BY <2>1, <2>2, <2>3, <2>4 DEF TextBook
<1>2. CASE Assign(t)
  <2>1. Submitted'
    BY <1>0, <1>2 DEF TextBook, Assign, Submitted, SlotsTyped, ThreadsTyped, HistoryTyped
  <2>2. \A v \in Turns : Fresh(v)'
    BY <1>0, <1>2 DEF TextBook, Assign, Fresh, SlotsTyped, ThreadsTyped, HistoryTyped
  <2>3. Apart'
    BY <1>0, <1>2 DEF TextBook, Assign, Apart, Fresh, Submitted, Holds, Unread, Returned,
       SlotsTyped, ThreadsTyped, HistoryTyped
  <2>4. Unheard' /\ HeardOnce'
    BY <1>0, <1>2 DEF TextBook, Assign, Unheard, HeardOnce, Apart, Submitted, Fresh, Holds,
       Unread, Returned, SlotsTyped, ThreadsTyped, HistoryTyped
  <2> QED BY <2>1, <2>2, <2>3, <2>4 DEF TextBook
<1>3. CASE Start(t)
  <2>1. Submitted'
    BY <1>0, <1>3 DEF TextBook, Start, Resume, Submitted, SlotsTyped, ThreadsTyped, HistoryTyped
  <2>2. \A v \in Turns : Fresh(v)'
    BY <1>0, <1>3 DEF TextBook, Start, Resume, Fresh, SlotsTyped, ThreadsTyped, HistoryTyped
  <2>3. Apart'
    BY <1>0, <1>3 DEF TextBook, Start, Resume, Apart, Fresh, Submitted, Holds, Unread, Returned,
       SlotsTyped, ThreadsTyped, HistoryTyped
  <2>4. Unheard' /\ HeardOnce'
    BY <1>0, <1>3 DEF TextBook, Start, Resume, Unheard, HeardOnce, Apart, Submitted, Fresh, Holds,
       Unread, Returned, SlotsTyped, ThreadsTyped, HistoryTyped
  <2> QED BY <2>1, <2>2, <2>3, <2>4 DEF TextBook
<1>4. CASE Iterate(t)
  <2>1. Submitted'
    BY <1>0, <1>4 DEF TextBook, Iterate, Hear, Submitted, SlotsTyped, ThreadsTyped, HistoryTyped
  <2>2. \A v \in Turns : Fresh(v)'
    BY <1>0, <1>4 DEF TextBook, Iterate, Hear, Fresh, SlotsTyped, ThreadsTyped, HistoryTyped
  <2>3. Apart'
    BY <1>0, <1>4 DEF TextBook, Iterate, Hear, Apart, Fresh, Submitted, Holds, Unread, Returned,
       SlotsTyped, ThreadsTyped, HistoryTyped
  <2>4. Unheard' /\ HeardOnce'
    BY <1>0, <1>4 DEF TextBook, Iterate, Hear, Unheard, HeardOnce, Apart, Submitted, Fresh, Holds,
       Unread, Returned, SlotsTyped, ThreadsTyped, HistoryTyped
  <2> QED BY <2>1, <2>2, <2>3, <2>4 DEF TextBook
<1>5. CASE Result(t)
  <2>1. Submitted'
    BY <1>0, <1>5 DEF TextBook, Result, Submitted, SlotsTyped, ThreadsTyped, HistoryTyped
  <2>2. \A v \in Turns : Fresh(v)'
    BY <1>0, <1>5 DEF TextBook, Result, Fresh, SlotsTyped, ThreadsTyped, HistoryTyped
  <2>3. Apart'
    BY <1>0, <1>5 DEF TextBook, Result, Apart, Fresh, Submitted, Holds, Unread, Returned,
       SlotsTyped, ThreadsTyped, HistoryTyped
  <2>4. Unheard' /\ HeardOnce'
    BY <1>0, <1>5 DEF TextBook, Result, Unheard, HeardOnce, Apart, Submitted, Fresh, Holds,
       Unread, Returned, SlotsTyped, ThreadsTyped, HistoryTyped
  <2> QED BY <2>1, <2>2, <2>3, <2>4 DEF TextBook
<1>6. CASE ClearInterrupt(t)
  <2>1. Submitted'
    BY <1>0, <1>6 DEF TextBook, ClearInterrupt, ClearFlag, Submitted, SlotsTyped, ThreadsTyped,
       HistoryTyped
  <2>2. \A v \in Turns : Fresh(v)'
    BY <1>0, <1>6 DEF TextBook, ClearInterrupt, ClearFlag, Fresh, SlotsTyped, ThreadsTyped,
       HistoryTyped
  <2>3. Apart'
    BY <1>0, <1>6 DEF TextBook, ClearInterrupt, ClearFlag, Apart, Fresh, Submitted, Holds, Unread,
       Returned, SlotsTyped, ThreadsTyped, HistoryTyped
  <2>4. Unheard' /\ HeardOnce'
    BY <1>0, <1>6 DEF TextBook, ClearInterrupt, ClearFlag, Unheard, HeardOnce, Apart, Submitted,
       Fresh, Holds, Unread, Returned, SlotsTyped, ThreadsTyped, HistoryTyped
  <2> QED BY <2>1, <2>2, <2>3, <2>4 DEF TextBook
<1>7. CASE Release(t)
  <2>1. Submitted'
    BY <1>0, <1>7 DEF TextBook, Release, FollowUp, NewTurn, Submitted, SlotsTyped, ThreadsTyped,
       HistoryTyped
  <2>2. \A v \in Turns : Fresh(v)'
    BY <1>0, <1>7 DEF TextBook, Release, FollowUp, NewTurn, Fresh, SlotsTyped, ThreadsTyped,
       HistoryTyped
  <2>3. Apart'
    BY <1>0, <1>7, SMTT(60) DEF TextBook, Release, FollowUp, NewTurn, Apart, Fresh, Submitted, Holds,
       Unread, Returned, SlotsTyped, ThreadsTyped, HistoryTyped
  <2>4. Unheard' /\ HeardOnce'
    BY <1>0, <1>7 DEF TextBook, Release, FollowUp, NewTurn, Unheard, HeardOnce, Apart, Submitted,
       Fresh, Holds, Unread, Returned, SlotsTyped, ThreadsTyped, HistoryTyped
  <2> QED BY <2>1, <2>2, <2>3, <2>4 DEF TextBook
<1>8. ASSUME NEW u \in Turns, DrainQueue(t, u) PROVE TextBook'
  <2>1. Submitted'
    BY <1>0, <1>8 DEF TextBook, DrainQueue, FollowUp, NewTurn, Submitted, SlotsTyped,
       ThreadsTyped, HistoryTyped
  <2>2. \A v \in Turns : Fresh(v)'
    BY <1>0, <1>8 DEF TextBook, DrainQueue, FollowUp, NewTurn, Fresh, SlotsTyped, ThreadsTyped,
       HistoryTyped
  <2>3. Apart'
    BY <1>0, <1>8 DEF TextBook, DrainQueue, FollowUp, NewTurn, Apart, Fresh, Submitted, Holds,
       Unread, Returned, SlotsTyped, ThreadsTyped, HistoryTyped
  <2>4. Unheard' /\ HeardOnce'
    BY <1>0, <1>8 DEF TextBook, DrainQueue, FollowUp, NewTurn, Unheard, HeardOnce, Apart,
       Submitted, Fresh, Holds, Unread, Returned, SlotsTyped, ThreadsTyped, HistoryTyped
  <2> QED BY <2>1, <2>2, <2>3, <2>4 DEF TextBook
<1>9. CASE NoDrain(t)
  <2>1. Submitted'
    BY <1>0, <1>9 DEF TextBook, NoDrain, Submitted, SlotsTyped, ThreadsTyped, HistoryTyped
  <2>2. \A v \in Turns : Fresh(v)'
    BY <1>0, <1>9 DEF TextBook, NoDrain, Fresh, SlotsTyped, ThreadsTyped, HistoryTyped
  <2>3. Apart'
    BY <1>0, <1>9 DEF TextBook, NoDrain, Apart, Fresh, Submitted, Holds, Unread, Returned,
       SlotsTyped, ThreadsTyped, HistoryTyped
  <2>4. Unheard' /\ HeardOnce'
    BY <1>0, <1>9 DEF TextBook, NoDrain, Unheard, HeardOnce, Apart, Submitted, Fresh, Holds,
       Unread, Returned, SlotsTyped, ThreadsTyped, HistoryTyped
  <2> QED BY <2>1, <2>2, <2>3, <2>4 DEF TextBook
<1>10. CASE Continue(t)
  <2>1. Submitted'
    BY <1>0, <1>10 DEF TextBook, Continue, FollowUp, NewTurn, Submitted, SlotsTyped, ThreadsTyped,
       HistoryTyped
  <2>2. \A v \in Turns : Fresh(v)'
    BY <1>0, <1>10 DEF TextBook, Continue, FollowUp, NewTurn, Fresh, SlotsTyped, ThreadsTyped,
       HistoryTyped
  <2>3. Apart'
    BY <1>0, <1>10 DEF TextBook, Continue, FollowUp, NewTurn, Apart, Fresh, Submitted, Holds,
       Unread, Returned, SlotsTyped, ThreadsTyped, HistoryTyped
  <2>4. Unheard' /\ HeardOnce'
    BY <1>0, <1>10 DEF TextBook, Continue, FollowUp, NewTurn, Unheard, HeardOnce, Apart,
       Submitted, Fresh, Holds, Unread, Returned, SlotsTyped, ThreadsTyped, HistoryTyped
  <2> QED BY <2>1, <2>2, <2>3, <2>4 DEF TextBook
<1>11. CASE Notify(t)
  <2>1. Submitted'
    BY <1>0, <1>11 DEF TextBook, Notify, FollowUp, NewTurn, Submitted, SlotsTyped, ThreadsTyped,
       HistoryTyped
  <2>2. \A v \in Turns : Fresh(v)'
    BY <1>0, <1>11 DEF TextBook, Notify, FollowUp, NewTurn, Fresh, SlotsTyped, ThreadsTyped,
       HistoryTyped
  <2>3. Apart'
    <3>1. CASE note /\ ~running
      <4>1. PICK u \in Turns : FollowUp(t, u, {}) BY <3>1, <1>11 DEF Notify
      <4>2. Holds(u)' = {} /\ \A v \in Turns \ {u} : Holds(v)' \subseteq Holds(v)
        BY <4>1, <1>0, <1>11 DEF Notify, FollowUp, NewTurn, Holds, Unread, Returned, ThreadsTyped
      <4> QED BY <4>1, <4>2, <1>11, LessIsApart DEF Notify, TextBook
    <3>2. CASE ~(note /\ ~running)
      <4>1. \A v \in Turns : Holds(v)' \subseteq Holds(v)
        BY <3>2, <1>0, <1>11 DEF Notify, Holds, Unread, Returned, ThreadsTyped
      <4> QED BY <4>1, <1>11, LessIsApart DEF Notify, TextBook
    <3> QED BY <3>1, <3>2
  <2>4. Unheard' /\ HeardOnce'
    BY <1>0, <1>11 DEF TextBook, Notify, FollowUp, NewTurn, Unheard, HeardOnce, Apart, Submitted,
       Fresh, Holds, Unread, Returned, SlotsTyped, ThreadsTyped, HistoryTyped
  <2> QED BY <2>1, <2>2, <2>3, <2>4 DEF TextBook
<1>12. CASE InitFails(t)
  <2>1. Submitted'
    BY <1>0, <1>12 DEF TextBook, InitFails, Submitted, SlotsTyped, ThreadsTyped, HistoryTyped
  <2>2. \A v \in Turns : Fresh(v)'
    BY <1>0, <1>12 DEF TextBook, InitFails, Fresh, SlotsTyped, ThreadsTyped, HistoryTyped
  <2>3. Apart'
    BY <1>0, <1>12 DEF TextBook, InitFails, Apart, Fresh, Submitted, Holds, Unread, Returned,
       SlotsTyped, ThreadsTyped, HistoryTyped
  <2>4. Unheard' /\ HeardOnce'
    BY <1>0, <1>12 DEF TextBook, InitFails, Unheard, HeardOnce, Apart, Submitted, Fresh, Holds,
       Unread, Returned, SlotsTyped, ThreadsTyped, HistoryTyped
  <2> QED BY <2>1, <2>2, <2>3, <2>4 DEF TextBook
<1>13. CASE DispatchFails(t)
  <2>1. Submitted'
    BY <1>0, <1>13 DEF TextBook, DispatchFails, Resume, Submitted, SlotsTyped, ThreadsTyped,
       HistoryTyped
  <2>2. \A v \in Turns : Fresh(v)'
    BY <1>0, <1>13 DEF TextBook, DispatchFails, Resume, Fresh, SlotsTyped, ThreadsTyped,
       HistoryTyped
  <2>3. Apart'
    <3>1. \A v \in Turns : Holds(v)' \subseteq Holds(v)
      BY <1>0, <1>13 DEF DispatchFails, Resume, Holds, Unread, Returned, ThreadsTyped
    <3> QED BY <3>1, <1>13, LessIsApart DEF DispatchFails, TextBook
  <2>4. Unheard' /\ HeardOnce'
    BY <1>0, <1>13 DEF TextBook, DispatchFails, Resume, Unheard, HeardOnce, Apart, Submitted,
       Fresh, Holds, Unread, Returned, SlotsTyped, ThreadsTyped, HistoryTyped
  <2> QED BY <2>1, <2>2, <2>3, <2>4 DEF TextBook
<1>14. CASE ToolBatch(t)
  <2>1. Submitted'
    BY <1>0, <1>14 DEF TextBook, ToolBatch, Hear, Submitted, SlotsTyped, ThreadsTyped, HistoryTyped
  <2>2. \A v \in Turns : Fresh(v)'
    BY <1>0, <1>14 DEF TextBook, ToolBatch, Hear, Fresh, SlotsTyped, ThreadsTyped, HistoryTyped
  <2>3. Apart'
    BY <1>0, <1>14 DEF TextBook, ToolBatch, Hear, Apart, Fresh, Submitted, Holds, Unread,
       Returned, SlotsTyped, ThreadsTyped, HistoryTyped
  <2>4. Unheard' /\ HeardOnce'
    BY <1>0, <1>14 DEF TextBook, ToolBatch, Hear, Unheard, HeardOnce, Apart, Submitted, Fresh,
       Holds, Unread, Returned, SlotsTyped, ThreadsTyped, HistoryTyped
  <2> QED BY <2>1, <2>2, <2>3, <2>4 DEF TextBook
<1>15. CASE Raise(t)
  <2>1. Submitted'
    BY <1>0, <1>15 DEF TextBook, Raise, Submitted, SlotsTyped, ThreadsTyped, HistoryTyped
  <2>2. \A v \in Turns : Fresh(v)'
    BY <1>0, <1>15 DEF TextBook, Raise, Fresh, SlotsTyped, ThreadsTyped, HistoryTyped
  <2>3. Apart'
    BY <1>0, <1>15 DEF TextBook, Raise, Apart, Fresh, Submitted, Holds, Unread, Returned,
       SlotsTyped, ThreadsTyped, HistoryTyped
  <2>4. Unheard' /\ HeardOnce'
    BY <1>0, <1>15 DEF TextBook, Raise, Unheard, HeardOnce, Apart, Submitted, Fresh, Holds,
       Unread, Returned, SlotsTyped, ThreadsTyped, HistoryTyped
  <2> QED BY <2>1, <2>2, <2>3, <2>4 DEF TextBook
<1>16. CASE Poll(t)
  <2>1. Submitted'
    BY <1>0, <1>16 DEF TextBook, Poll, NewTurn, Submitted, SlotsTyped, ThreadsTyped, HistoryTyped
  <2>2. \A v \in Turns : Fresh(v)'
    BY <1>0, <1>16 DEF TextBook, Poll, NewTurn, Fresh, SlotsTyped, ThreadsTyped, HistoryTyped
  <2>3. Apart'
    BY <1>0, <1>16 DEF TextBook, Poll, NewTurn, Apart, Fresh, Submitted, Holds, Unread, Returned,
       SlotsTyped, ThreadsTyped, HistoryTyped
  <2>4. Unheard' /\ HeardOnce'
    BY <1>0, <1>16 DEF TextBook, Poll, NewTurn, Unheard, HeardOnce, Apart, Submitted, Fresh,
       Holds, Unread, Returned, SlotsTyped, ThreadsTyped, HistoryTyped
  <2> QED BY <2>1, <2>2, <2>3, <2>4 DEF TextBook
<1> QED BY <1>1, <1>2, <1>3, <1>4, <1>5, <1>6, <1>7, <1>8, <1>9, <1>10, <1>11, <1>12, <1>13,
       <1>14, <1>15, <1>16 DEF TurnStep

-----------------------------------------------------------------------------
(* The service book.                                                       *)

\* A session that is held has a turn that holds it, or a turn has failed; guidance
\* waits only for such a turn, and the queue slot for one that still looks at it;
\* before the Agent exists no turn gets past waiting for it; no tool runs before the
\* conversation.
RestBook ==
  /\ running => Owners # {} \/ orphaned
  /\ orphaned => abandoned
  /\ ~abandoned /\ slot # {} => Owners # {}
  /\ ~abandoned /\ queued # {} => \E t \in Turns : t \in Owners \/ stage[t] = "after"
  /\ ~built => \A t \in Turns : stage[t] \in {"none", "waiting", "done"}
  /\ \A t \in Turns : stage[t] \in {"none", "waiting", "dispatch", "assigned"} => ~tools[t]
  /\ stops = 0 => stop = Idle

\* A session that only knows guidance, and where nobody pressed Stop.
Calm == stops = 0 /\ plan.modes = {"steer"}

\* There the Agent is never interrupted, and a turn that was replaced before the
\* Agent existed is given up before anything else happens to the session.
CalmBook ==
  Calm => /\ ~flag
          /\ ~abandoned /\ cancelled
               => running /\ \A t \in Turns : stage[t] \in {"none", "waiting", "done"}

\* The prompt was read, is disposed of, or is in one of the places.
Placed(p) ==
  heard[p] = 1 \/ p \in excused \/ p \in queued \/ p \in slot \/ \E t \in Turns : p \in Holds(t)

PlaceBook == Calm /\ ~abandoned => \A p \in sent : Placed(p)

ServiceBook == RestBook /\ CalmBook /\ PlaceBook

\* However a step goes, the books hold after it.
LEMMA ClientRests ==
  ASSUME TypeOK, RestBook, ClientStep \/ StopLatch \/ StopDeclare \/ Build
  PROVE  RestBook'
<1> USE DEF session, agent, threads, history, bounds, FreeSession, RestBook
<1>0. SlotsTyped /\ ThreadsTyped /\ HistoryTyped BY TypeParts
<1>1. ASSUME NEW p \in Prompts, NEW t \in Turns, SubmitIdle(p, t) PROVE RestBook'
  BY <1>0, <1>1, ScenarioTyped DEF SubmitIdle, ClearFlag, NewTurn, Owners, ThreadsTyped,
     HistoryTyped, Idle
<1>2. ASSUME NEW p \in Prompts, SubmitSteer(p) PROVE RestBook'
  BY <1>0, <1>2, ScenarioTyped DEF SubmitSteer, Steer, Owners, ThreadsTyped, HistoryTyped, Idle
<1>3. ASSUME NEW p \in Prompts, SubmitQueue(p) PROVE RestBook'
  BY <1>0, <1>3, ScenarioTyped DEF SubmitQueue, Owners, ThreadsTyped, HistoryTyped, Idle
<1>4. ASSUME NEW p \in Prompts, SubmitInterrupt(p) PROVE RestBook'
  BY <1>0, <1>4, ScenarioTyped DEF SubmitInterrupt, InterruptAgent, Owners, ThreadsTyped,
     HistoryTyped, Idle
<1>5. CASE StopLook
  BY <1>0, <1>5, ScenarioTyped DEF StopLook, InterruptAgent, Owners, ThreadsTyped, HistoryTyped,
     Idle
<1>6. CASE StopLatch
  BY <1>0, <1>6, ScenarioTyped DEF StopLatch, Idle, Owners, ThreadsTyped, HistoryTyped
<1>7. CASE StopDeclare
  BY <1>0, <1>7, ScenarioTyped DEF StopDeclare, Idle, Owners, ThreadsTyped, HistoryTyped
<1>8. CASE Build BY <1>0, <1>8, ScenarioTyped DEF Build, Owners, ThreadsTyped, HistoryTyped, Idle
<1>9. ASSUME NEW p \in Prompts, NEW t \in Turns, SubmitFails(p, t) PROVE RestBook'
  BY <1>0, <1>9, ScenarioTyped DEF SubmitFails, ClearFlag, NewTurn, Owners, ThreadsTyped,
     HistoryTyped, Idle
<1> QED BY <1>1, <1>2, <1>3, <1>4, <1>5, <1>6, <1>7, <1>8, <1>9 DEF ClientStep

LEMMA TurnRests ==
  ASSUME TypeOK, RestBook, NEW t \in Turns,
         TurnStep(t) \/ InitFails(t) \/ DispatchFails(t) \/ ToolBatch(t) \/ Raise(t) \/ Poll(t)
  PROVE  RestBook'
<1> USE DEF session, agent, threads, history, bounds, FreeSession, RestBook
<1>0. SlotsTyped /\ ThreadsTyped /\ HistoryTyped BY TypeParts
<1>1. CASE Ready(t) BY <1>0, <1>1 DEF Ready, Owners, SlotsTyped, ThreadsTyped
<1>2. CASE Assign(t) BY <1>0, <1>2 DEF Assign, Owners, SlotsTyped, ThreadsTyped
<1>3. CASE Start(t) BY <1>0, <1>3 DEF Start, Resume, Owners, SlotsTyped, ThreadsTyped
<1>4. CASE Iterate(t) BY <1>0, <1>4 DEF Iterate, Hear, Owners, SlotsTyped, ThreadsTyped
<1>5. CASE Result(t) BY <1>0, <1>5 DEF Result, Owners, SlotsTyped, ThreadsTyped
<1>6. CASE ClearInterrupt(t)
  BY <1>0, <1>6 DEF ClearInterrupt, ClearFlag, Owners, SlotsTyped, ThreadsTyped
<1>7. CASE Release(t) BY <1>0, <1>7 DEF Release, FollowUp, NewTurn, Owners, SlotsTyped, ThreadsTyped
<1>8. ASSUME NEW u \in Turns, DrainQueue(t, u) PROVE RestBook'
  BY <1>0, <1>8 DEF DrainQueue, FollowUp, NewTurn, Owners, SlotsTyped, ThreadsTyped
<1>9. CASE NoDrain(t) BY <1>0, <1>9 DEF NoDrain, Owners, SlotsTyped, ThreadsTyped
<1>10. CASE Continue(t)
  BY <1>0, <1>10 DEF Continue, FollowUp, NewTurn, Owners, SlotsTyped, ThreadsTyped
<1>11. CASE Notify(t) BY <1>0, <1>11 DEF Notify, FollowUp, NewTurn, Owners, SlotsTyped, ThreadsTyped
<1>12. CASE InitFails(t) BY <1>0, <1>12 DEF InitFails, Owners, SlotsTyped, ThreadsTyped
<1>13. CASE DispatchFails(t)
  BY <1>0, <1>13 DEF DispatchFails, Resume, Owners, SlotsTyped, ThreadsTyped
<1>14. CASE ToolBatch(t) BY <1>0, <1>14 DEF ToolBatch, Hear, Owners, SlotsTyped, ThreadsTyped
<1>15. CASE Raise(t) BY <1>0, <1>15 DEF Raise, Owners, SlotsTyped, ThreadsTyped
<1>16. CASE Poll(t) BY <1>0, <1>16 DEF Poll, NewTurn, Owners, SlotsTyped, ThreadsTyped
<1> QED BY <1>1, <1>2, <1>3, <1>4, <1>5, <1>6, <1>7, <1>8, <1>9, <1>10, <1>11, <1>12, <1>13,
       <1>14, <1>15, <1>16 DEF TurnStep

LEMMA ClientCalm ==
  ASSUME TypeOK, RestBook, CalmBook, ClientStep \/ StopLatch \/ StopDeclare \/ Build
  PROVE  CalmBook'
<1> USE DEF session, agent, threads, history, bounds, FreeSession, CalmBook, Calm, RestBook
<1>0. SlotsTyped /\ ThreadsTyped /\ HistoryTyped BY TypeParts
<1>1. ASSUME NEW p \in Prompts, NEW t \in Turns, SubmitIdle(p, t) PROVE CalmBook'
  BY <1>0, <1>1 DEF SubmitIdle, ClearFlag, NewTurn, SlotsTyped, ThreadsTyped, HistoryTyped, Idle
<1>2. ASSUME NEW p \in Prompts, SubmitSteer(p) PROVE CalmBook'
  BY <1>0, <1>2 DEF SubmitSteer, Steer, SlotsTyped, ThreadsTyped, HistoryTyped, Idle
<1>3. ASSUME NEW p \in Prompts, SubmitQueue(p) PROVE CalmBook'
  BY <1>0, <1>3 DEF SubmitQueue, SlotsTyped, ThreadsTyped, HistoryTyped, Idle
<1>4. ASSUME NEW p \in Prompts, SubmitInterrupt(p) PROVE CalmBook'
  BY <1>0, <1>4 DEF SubmitInterrupt, InterruptAgent, SlotsTyped, ThreadsTyped, HistoryTyped, Idle
<1>5. CASE StopLook
  BY <1>0, <1>5 DEF StopLook, InterruptAgent, SlotsTyped, ThreadsTyped, HistoryTyped, Idle
<1>6. CASE StopLatch BY <1>0, <1>6 DEF StopLatch, Idle, SlotsTyped, ThreadsTyped, HistoryTyped
<1>7. CASE StopDeclare BY <1>0, <1>7 DEF StopDeclare, Idle, SlotsTyped, ThreadsTyped, HistoryTyped
<1>8. CASE Build BY <1>0, <1>8 DEF Build, SlotsTyped, ThreadsTyped, HistoryTyped, Idle
<1>9. ASSUME NEW p \in Prompts, NEW t \in Turns, SubmitFails(p, t) PROVE CalmBook'
  BY <1>0, <1>9 DEF SubmitFails, ClearFlag, NewTurn, SlotsTyped, ThreadsTyped, HistoryTyped, Idle
<1> QED BY <1>1, <1>2, <1>3, <1>4, <1>5, <1>6, <1>7, <1>8, <1>9 DEF ClientStep

LEMMA TurnCalm ==
  ASSUME TypeOK, RestBook, CalmBook, NEW t \in Turns,
         TurnStep(t) \/ InitFails(t) \/ DispatchFails(t) \/ ToolBatch(t) \/ Raise(t) \/ Poll(t)
  PROVE  CalmBook'
<1> USE DEF session, agent, threads, history, bounds, FreeSession, CalmBook, Calm
<1>0. SlotsTyped /\ ThreadsTyped /\ HistoryTyped BY TypeParts
<1>1. CASE Ready(t) BY <1>0, <1>1 DEF Ready, SlotsTyped, ThreadsTyped
<1>2. CASE Assign(t) BY <1>0, <1>2 DEF Assign, SlotsTyped, ThreadsTyped
<1>3. CASE Start(t) BY <1>0, <1>3 DEF Start, Resume, SlotsTyped, ThreadsTyped
<1>4. CASE Iterate(t) BY <1>0, <1>4 DEF Iterate, Hear, SlotsTyped, ThreadsTyped
<1>5. CASE Result(t) BY <1>0, <1>5 DEF Result, SlotsTyped, ThreadsTyped
<1>6. CASE ClearInterrupt(t) BY <1>0, <1>6 DEF ClearInterrupt, ClearFlag, SlotsTyped, ThreadsTyped
<1>7. CASE Release(t) BY <1>0, <1>7 DEF Release, FollowUp, NewTurn, SlotsTyped, ThreadsTyped
<1>8. ASSUME NEW u \in Turns, DrainQueue(t, u) PROVE CalmBook'
  BY <1>0, <1>8 DEF DrainQueue, FollowUp, NewTurn, SlotsTyped, ThreadsTyped
<1>9. CASE NoDrain(t) BY <1>0, <1>9 DEF NoDrain, SlotsTyped, ThreadsTyped
<1>10. CASE Continue(t) BY <1>0, <1>10 DEF Continue, FollowUp, NewTurn, SlotsTyped, ThreadsTyped
<1>11. CASE Notify(t) BY <1>0, <1>11 DEF Notify, FollowUp, NewTurn, SlotsTyped, ThreadsTyped
<1>12. CASE InitFails(t) BY <1>0, <1>12 DEF InitFails, SlotsTyped, ThreadsTyped
<1>13. CASE DispatchFails(t) BY <1>0, <1>13 DEF DispatchFails, Resume, SlotsTyped, ThreadsTyped
<1>14. CASE ToolBatch(t) BY <1>0, <1>14 DEF ToolBatch, Hear, SlotsTyped, ThreadsTyped
<1>15. CASE Raise(t) BY <1>0, <1>15 DEF Raise, SlotsTyped, ThreadsTyped
<1>16. CASE Poll(t) BY <1>0, <1>16 DEF Poll, NewTurn, SlotsTyped, ThreadsTyped
<1> QED BY <1>1, <1>2, <1>3, <1>4, <1>5, <1>6, <1>7, <1>8, <1>9, <1>10, <1>11, <1>12, <1>13,
       <1>14, <1>15, <1>16 DEF TurnStep

LEMMA ClientPlaces ==
  ASSUME TypeOK, RestBook, CalmBook, PlaceBook, ClientStep \/ StopLatch \/ StopDeclare \/ Build
  PROVE  PlaceBook'
<1> USE DEF session, agent, threads, history, bounds, FreeSession, PlaceBook, Placed, Calm
<1>0. SlotsTyped /\ ThreadsTyped /\ HistoryTyped BY TypeParts
<1>1. ASSUME NEW p \in Prompts, NEW t \in Turns, SubmitIdle(p, t) PROVE PlaceBook'
  BY <1>0, <1>1, ScenarioTyped DEF SubmitIdle, ClearFlag, NewTurn, CalmBook, Holds, Unread,
     Returned, ThreadsTyped, HistoryTyped, Idle
<1>2. ASSUME NEW p \in Prompts, SubmitSteer(p) PROVE PlaceBook'
  BY <1>0, <1>2, ScenarioTyped DEF SubmitSteer, Steer, Holds, Unread, Returned, ThreadsTyped,
     HistoryTyped, Idle
<1>3. ASSUME NEW p \in Prompts, SubmitQueue(p) PROVE PlaceBook'
  BY <1>0, <1>3, ScenarioTyped DEF SubmitQueue, Holds, Unread, Returned, ThreadsTyped,
     HistoryTyped, Idle
<1>4. ASSUME NEW p \in Prompts, SubmitInterrupt(p) PROVE PlaceBook'
  BY <1>0, <1>4, ScenarioTyped DEF SubmitInterrupt, InterruptAgent, Holds, Unread, Returned,
     ThreadsTyped, HistoryTyped, Idle
<1>5. CASE StopLook
  BY <1>0, <1>5, ScenarioTyped DEF StopLook, InterruptAgent, RestBook, Holds, Unread, Returned,
     ThreadsTyped, HistoryTyped, Idle
<1>6. CASE StopLatch
  BY <1>0, <1>6, ScenarioTyped DEF StopLatch, Idle, RestBook, Holds, Unread, Returned,
     ThreadsTyped, HistoryTyped
<1>7. CASE StopDeclare
  BY <1>0, <1>7, ScenarioTyped DEF StopDeclare, Idle, RestBook, Holds, Unread, Returned,
     ThreadsTyped, HistoryTyped
<1>8. CASE Build
  BY <1>0, <1>8, ScenarioTyped DEF Build, Holds, Unread, Returned, ThreadsTyped, HistoryTyped, Idle
<1>9. ASSUME NEW p \in Prompts, NEW t \in Turns, SubmitFails(p, t) PROVE PlaceBook'
  BY <1>0, <1>9, ScenarioTyped DEF SubmitFails, ClearFlag, NewTurn, CalmBook, Holds, Unread,
     Returned, ThreadsTyped, HistoryTyped, Idle
<1> QED BY <1>1, <1>2, <1>3, <1>4, <1>5, <1>6, <1>7, <1>8, <1>9 DEF ClientStep

\* A turn submits nothing, and what is given up or excused remains so.
LEMMA TurnConserves ==
  ASSUME TypeOK, NEW t \in Turns,
         TurnStep(t) \/ InitFails(t) \/ DispatchFails(t) \/ ToolBatch(t) \/ Raise(t) \/ Poll(t)
  PROVE  UNCHANGED <<sent, stops, plan>> /\ (abandoned => abandoned') /\ excused \subseteq excused'
BY DEF TurnStep, Ready, Assign, Start, Iterate, Result, ClearInterrupt, Release, DrainQueue,
   NoDrain,
       Continue, Notify, InitFails, DispatchFails, ToolBatch, Raise, Poll, session, agent, threads,
       history, bounds

LEMMA TurnPlaces ==
  ASSUME TypeOK, TextBook, HeardOnce', RestBook, CalmBook, PlaceBook, NEW t \in Turns,
         TurnStep(t) \/ InitFails(t) \/ DispatchFails(t) \/ ToolBatch(t) \/ Raise(t) \/ Poll(t)
  PROVE  PlaceBook'
<1> SUFFICES ASSUME Calm', ~abandoned', NEW p \in sent' PROVE Placed(p)'
  BY DEF PlaceBook
<1> USE DEF session, agent, threads, history, bounds, FreeSession
<1>0. SlotsTyped /\ ThreadsTyped /\ HistoryTyped BY TypeParts
<1>a. Calm /\ ~abandoned /\ p \in sent /\ p \in Prompts
  BY <1>0, TurnConserves DEF Calm, HistoryTyped
<1>b. ~flag /\ Placed(p) /\ excused \subseteq excused'
  BY <1>a, TurnConserves DEF CalmBook, PlaceBook
<1>c. heard \in [Prompts -> Nat] /\ (p \in queued \/ p \in slot \/ (\E v \in Turns : p \in Holds(v)) => heard[p] = 0)
  BY <1>0 DEF TextBook, Unheard, HistoryTyped
<1>d. heard[p] = 0 \/ heard[p] = 1 BY <1>a, <1>c DEF TextBook, HeardOnce
<1>e. heard'[p] \in Nat => heard'[p] <= 1 BY <1>a DEF HeardOnce
<1>1. CASE Ready(t)
  BY <1>0, <1>b, <1>c, <1>1 DEF Ready, Placed, Holds, Unread, Returned, SlotsTyped, ThreadsTyped
<1>2. CASE Assign(t)
  BY <1>0, <1>b, <1>c, <1>2 DEF Assign, Placed, Holds, Unread, Returned, SlotsTyped, ThreadsTyped
<1>3. CASE Start(t)
  BY <1>0, <1>b, <1>c, <1>3 DEF RestBook, Start, Resume, Placed, Holds, Unread, Returned,
     SlotsTyped, ThreadsTyped
<1>4. CASE Iterate(t)
  <2>1. heard'[p] = heard[p] \/ heard'[p] = heard[p] + 1
    BY <1>0, <1>a, <1>4 DEF Iterate, Hear, HistoryTyped
  <2>2. heard[p] = 1 => heard'[p] = 1 BY <2>1, <1>e
  <2>3. CASE flag BY <1>b, <2>3
  <2>4. CASE ~flag
    <3>1. PICK guidance \in {{}, slot} :
            /\ tools[t] => guidance = slot
            /\ Hear(guidance \cup IF tools[t] THEN {} ELSE carries[t])
            /\ slot' = slot \ guidance
      BY <2>4, <1>4 DEF Iterate
    <3>2. CASE p \in guidance \cup IF tools[t] THEN {} ELSE carries[t]
      <4>1. heard'[p] = heard[p] + 1 BY <1>a, <1>c, <3>1, <3>2 DEF Hear
      <4>2. heard[p] = 0 BY <3>1, <3>2, <1>c, <1>4 DEF Iterate, Holds, Unread
      <4> QED BY <4>1, <4>2 DEF Placed
    <3>3. CASE ~(p \in guidance \cup IF tools[t] THEN {} ELSE carries[t])
      <4>1. p \in slot => p \in slot' BY <3>1, <3>3
      <4>2. \A v \in Turns : p \in Holds(v) => p \in Holds(v)'
        BY <1>0, <3>1, <3>3, <1>4 DEF Iterate, Holds, Unread, Returned, ThreadsTyped
      <4> QED BY <1>b, <2>2, <4>1, <4>2, <1>4 DEF Iterate, Placed
    <3> QED BY <3>2, <3>3
  <2> QED BY <2>3, <2>4
<1>5. CASE Result(t)
  BY <1>0, <1>b, <1>c, <1>5 DEF Result, Placed, Holds, Unread, Returned, SlotsTyped, ThreadsTyped
<1>6. CASE ClearInterrupt(t)
  BY <1>0, <1>b, <1>c, <1>6 DEF ClearInterrupt, ClearFlag, Placed, Holds, Unread, Returned,
     SlotsTyped, ThreadsTyped
<1>7. CASE Release(t)
  <2>1. ~cancelled BY <1>a, <1>7 DEF CalmBook, Release
  <2>2. CASE left[t] \cup slot = {}
    BY <1>0, <1>b, <2>2, <1>7 DEF Release, Placed, Holds, Unread, Returned, SlotsTyped, ThreadsTyped
  <2>3. CASE left[t] \cup slot # {}
    <3>1. PICK u \in Turns : FollowUp(t, u, left[t] \cup slot) BY <2>1, <2>3, <1>7 DEF Release
    <3>2. /\ u # t /\ Holds(u)' = left[t] \cup slot /\ Holds(t) = left[t]
          /\ \A v \in Turns : v # t /\ v # u => Holds(v)' = Holds(v)
          /\ Holds(u) = {}
      BY <3>1, <1>0, <1>7 DEF Release, FollowUp, NewTurn, Holds, Unread, Returned, ThreadsTyped
    <3>3. UNCHANGED <<heard, queued, excused>> BY <1>7 DEF Release
    <3> QED BY <1>b, <3>2, <3>3 DEF Placed
  <2> QED BY <2>2, <2>3
<1>8. ASSUME NEW u \in Turns, DrainQueue(t, u) PROVE Placed(p)'
  BY <1>0, <1>b, <1>c, <1>8 DEF DrainQueue, FollowUp, NewTurn, Placed, Holds, Unread, Returned,
     SlotsTyped, ThreadsTyped
<1>9. CASE NoDrain(t)
  BY <1>0, <1>b, <1>c, <1>9 DEF NoDrain, Placed, Holds, Unread, Returned, SlotsTyped, ThreadsTyped
<1>10. CASE Continue(t)
  BY <1>0, <1>b, <1>c, <1>10 DEF Continue, FollowUp, NewTurn, Placed, Holds, Unread, Returned,
     SlotsTyped, ThreadsTyped
<1>11. CASE Notify(t)
  BY <1>0, <1>b, <1>c, <1>11 DEF Notify, FollowUp, NewTurn, Placed, Holds, Unread, Returned,
     SlotsTyped, ThreadsTyped
<1>12. CASE InitFails(t)
  BY <1>0, <1>b, <1>c, <1>12 DEF InitFails, Placed, Holds, Unread, Returned, SlotsTyped,
     ThreadsTyped
<1>13. CASE DispatchFails(t)
  BY <1>0, <1>b, <1>c, <1>13 DEF DispatchFails, Resume, Placed, Holds, Unread, Returned,
     SlotsTyped, ThreadsTyped
<1>14. CASE ToolBatch(t)
  <2>1. heard'[p] = heard[p] \/ heard'[p] = heard[p] + 1
    BY <1>0, <1>a, <1>14 DEF ToolBatch, Hear, HistoryTyped
  <2>2. heard[p] = 1 => heard'[p] = 1 BY <2>1, <1>e
  <2>3. CASE p \in slot
    <3>1. heard'[p] = heard[p] + 1
      BY <1>0, <1>a, <1>b, <1>14, <2>3 DEF ToolBatch, Hear, HistoryTyped
    <3>2. heard[p] = 0 BY <2>3, <1>c, <1>14 DEF ToolBatch, Holds, Unread
    <3> QED BY <3>1, <3>2 DEF Placed
  <2>4. CASE ~(p \in slot)
    BY <1>0, <1>b, <2>2, <2>4, <1>14 DEF ToolBatch, Hear, Placed, Holds, Unread, Returned,
       SlotsTyped, ThreadsTyped
  <2> QED BY <2>3, <2>4
<1>15. CASE Raise(t)
  BY <1>0, <1>b, <1>c, <1>15 DEF Raise, Placed, Holds, Unread, Returned, SlotsTyped, ThreadsTyped
<1>16. CASE Poll(t)
  BY <1>0, <1>b, <1>c, <1>16 DEF Poll, NewTurn, Placed, Holds, Unread, Returned, SlotsTyped,
     ThreadsTyped
<1> QED BY <1>1, <1>2, <1>3, <1>4, <1>5, <1>6, <1>7, <1>8, <1>9, <1>10, <1>11, <1>12, <1>13,
       <1>14, <1>15, <1>16 DEF TurnStep

-----------------------------------------------------------------------------
(* The theorems.                                                           *)

LEMMA InitHolds == Init => IndInv
<1> SUFFICES ASSUME Init PROVE IndInv
  OBVIOUS
<1>1. OwnBook BY DEF Init, OwnBook, Owners
<1>2. \A t \in Turns : Holds(t) = {} /\ Fresh(t) BY DEF Init, Holds, Unread, Returned, Fresh
<1>3. Submitted /\ HeardOnce BY DEF Init, Submitted, HeardOnce
<1>4. TextBook BY <1>2, <1>3 DEF Init, TextBook, Apart, Unheard
<1> QED BY <1>1, <1>4, InitTyped DEF IndInv

LEMMA NextHolds == IndInv /\ [Next]_vars => IndInv'
<1> SUFFICES ASSUME IndInv, [Next]_vars PROVE IndInv'
  OBVIOUS
<1>1. CASE ClientStep \/ StopLatch \/ StopDeclare \/ Build
  BY <1>1, ClientTyped, ClientOwns, ClientKeepsText DEF IndInv, TextBook
<1>2. ASSUME NEW t \in Turns,
             TurnStep(t) \/ InitFails(t) \/ DispatchFails(t) \/ ToolBatch(t) \/ Raise(t) \/ Poll(t)
      PROVE  IndInv'
  BY <1>2, TurnTyped, TurnOwns, TurnKeepsText DEF IndInv, TextBook
<1>3. CASE UNCHANGED vars
  <2> USE DEF vars, session, agent, threads, history, bounds
  <2>1. TypeOK' BY <1>3 DEF IndInv, TypeOK
  <2>2. OwnBook' BY <1>3 DEF IndInv, OwnBook, Owners
  <2>3. \A t \in Turns : Holds(t)' = Holds(t) /\ (Fresh(t) => Fresh(t)')
    BY <1>3 DEF Holds, Unread, Returned, Fresh
  <2>4. TextBook'
    BY <1>3, <2>3 DEF IndInv, TextBook, Submitted, Apart, Unheard, HeardOnce
  <2> QED BY <2>1, <2>2, <2>4 DEF IndInv
<1> QED BY <1>1, <1>2, <1>3 DEF Next

LEMMA ServiceBegins == Init => ServiceBook
<1> SUFFICES ASSUME Init PROVE ServiceBook
  OBVIOUS
<1>1. RestBook BY DEF Init, RestBook
<1>2. CalmBook BY DEF Init, CalmBook
<1>3. PlaceBook BY DEF Init, PlaceBook
<1> QED BY <1>1, <1>2, <1>3 DEF ServiceBook

LEMMA ServiceGoesOn == IndInv /\ IndInv' /\ ServiceBook /\ [Next]_vars => ServiceBook'
<1> SUFFICES ASSUME IndInv, IndInv', ServiceBook, [Next]_vars PROVE ServiceBook'
  OBVIOUS
<1> USE DEF IndInv, ServiceBook
<1>1. CASE ClientStep \/ StopLatch \/ StopDeclare \/ Build
  BY <1>1, ClientRests, ClientCalm, ClientPlaces
<1>2. ASSUME NEW t \in Turns,
             TurnStep(t) \/ InitFails(t) \/ DispatchFails(t) \/ ToolBatch(t) \/ Raise(t) \/ Poll(t)
      PROVE  ServiceBook'
  BY <1>2, TurnRests, TurnCalm, TurnPlaces DEF TextBook
<1>3. CASE UNCHANGED vars
  <2> USE DEF vars, session, agent, threads, history, bounds
  <2>1. RestBook' BY <1>3 DEF RestBook, Owners
  <2>2. CalmBook' BY <1>3 DEF CalmBook, Calm
  <2>3. PlaceBook'
    BY <1>3 DEF PlaceBook, Placed, Calm, Holds, Unread, Returned
  <2> QED BY <2>1, <2>2, <2>3
<1> QED BY <1>1, <1>2, <1>3 DEF Next

\* Owners and prompts keep their books in every reachable state.
THEOREM TurnInvariance == Spec => []IndInv
BY InitHolds, NextHolds, PTL DEF Spec

\* The records of the session, of the Agent's slots and of every turn keep their
\* types: the handlers, threads and pollers only store what belongs there.
THEOREM TurnTypeCorrect == Spec => []TypeOK
<1>1. IndInv => TypeOK BY DEF IndInv
<1> QED BY <1>1, TurnInvariance, PTL

\* Whatever the mode, and however many turns, follow-ups and failures there are,
\* `running' is set only while a turn holds the session or after a user's turn failed
\* without a handler, also when a Stop has declared a live turn dead; and otherwise
\* exactly one turn holds a session that is taken.
THEOREM SessionHasOneOwner == Spec => []OneOwner
<1>1. IndInv => OneOwner
  BY OneAtMost DEF IndInv, OwnBook, OneOwner
<1> QED BY <1>1, TurnInvariance, PTL

\* A prompt reaches the model at most once, whether in its own turn, merged into the
\* queue slot, as guidance in a tool result, or in the late follow-up of the finally
\* block; Stop and failures included.
THEOREM PromptsAreHeardOnce == Spec => []HeardOnce
<1>1. IndInv => HeardOnce BY DEF IndInv, TextBook
<1> QED BY <1>1, TurnInvariance, PTL
\* The service book is kept in every reachable state.
THEOREM ServiceInvariance == Spec => [](IndInv /\ ServiceBook)
BY InitHolds, NextHolds, ServiceBegins, ServiceGoesOn, PTL DEF Spec

\* At rest the queue slot is empty unless a turn was given up, and in steer mode
\* without a Stop every accepted prompt was read once, or its turn was given up or
\* failed: guidance accepted a moment before the conversation ends, between two
\* model calls, or while the finally block runs is neither lost nor left behind.
THEOREM EveryPromptIsServed == Spec => []PromptsServed
<1>1. IndInv /\ ServiceBook => PromptsServed
  <2> SUFFICES ASSUME IndInv, ServiceBook, Quiescent
               PROVE  /\ ~abandoned => queued = {}
                      /\ Calm => \A p \in sent : heard[p] = 1 \/ p \in excused \/ abandoned
    BY DEF PromptsServed, Calm
  <2>1. \A t \in Turns : stage[t] \in {"none", "done"} /\ Holds(t) = {} /\ t \notin Owners
    BY DEF Quiescent, Live, Holds, Unread, Returned, Owners
  <2>2. ~abandoned => queued = {} /\ slot = {}
    BY <2>1 DEF ServiceBook, RestBook, Owners
  <2>3. ASSUME Calm, ~abandoned, NEW p \in sent PROVE heard[p] = 1 \/ p \in excused
    BY <2>1, <2>2, <2>3 DEF ServiceBook, PlaceBook, Placed
  <2> QED BY <2>2, <2>3
<1> QED BY <1>1, ServiceInvariance, PTL
===============================================================================
